-------------------------- MODULE JavaSight_proofs --------------------------
(***************************************************************************)
(* That Java finds the objects the printed code names: the proofs of       *)
(* PathsReach and ObjectsLinked, for every set of trees, on top of the     *)
(* invariant of JavaSource_proofs.                                         *)
(*                                                                         *)
(* An object is in sight as long as no block around it has been closed, so *)
(* the first parts are about texts: how deep in blocks each item is, what  *)
(* is in sight behind a text, and what stays so when a text is appended or *)
(* put between two others.  Then each frame of the call stack gets a layer *)
(* of the stream it writes to, and the invariant, SightInv, says that the  *)
(* layers of a stream lie on each other and that what a Compiler may name  *)
(* is in sight in its frame's layer.                                       *)
(***************************************************************************)
EXTENDS JavaSource_proofs

-----------------------------------------------------------------------------
(* Blocks.                                                                 *)

Opening == {"open", "for"}
Counted(t, i, K) == {k \in 1 .. i : t[k].item \in K}
End(t) == Depth(t, Len(t))
Turn(a) == IF a.item \in Opening THEN 1 ELSE IF a.item = "close" THEN -1 ELSE 0

\* A text is as deep as the one before its last item, but for a brace there.
LEMMA DepthSteps ==
  /\ \A t : Depth(t, 0) = 0
  /\ \A t : \A i \in Nat : /\ Depth(t, i) \in Int
                           /\ Depth(t, i + 1) = Depth(t, i) + Turn(t[i + 1])
<1>1. \A t, i : Depth(t, i) = Cardinality(Counted(t, i, Opening))
                                - Cardinality(Counted(t, i, {"close"}))
  <2>1. \A t, i : Counted(t, i, {"close"}) = {k \in 1 .. i : t[k].item = "close"}
    BY DEF Counted
  <2> QED BY <2>1 DEF Depth, Counted, Opening
<1>2. \A t : Depth(t, 0) = 0
  <2>1. \A t, K : Counted(t, 0, K) = {}
    BY DEF Counted
  <2> QED BY <1>1, <2>1, FS_EmptySet
<1>3. ASSUME NEW t, NEW K, NEW i \in Nat
      PROVE  /\ Cardinality(Counted(t, i, K)) \in Nat
             /\ Cardinality(Counted(t, i + 1, K))
                  = Cardinality(Counted(t, i, K)) + IF t[i + 1].item \in K THEN 1 ELSE 0
  <2>1. IsFiniteSet(Counted(t, i, K)) /\ i + 1 \notin Counted(t, i, K)
    <3>1. IsFiniteSet(1 .. i)
      BY FS_Interval
    <3>2. Counted(t, i, K) \in SUBSET (1 .. i) /\ i + 1 \notin 1 .. i
      BY DEF Counted
    <3> QED BY <3>1, <3>2, FS_Subset
  <2>2. Counted(t, i + 1, K) = Counted(t, i, K) \cup IF t[i + 1].item \in K THEN {i + 1} ELSE {}
    <3>1. \A k : k \in 1 .. i + 1 <=> k \in 1 .. i \/ k = i + 1
      OBVIOUS
    <3> QED BY <3>1 DEF Counted
  <2>5. PICK S : S = Counted(t, i, K)
    OBVIOUS
  <2>6. IsFiniteSet(S) /\ i + 1 \notin S /\ Cardinality(S) \in Nat
    BY <2>1, <2>5, FS_CardinalityType
  <2>3. CASE t[i + 1].item \in K
    <3>1. Counted(t, i + 1, K) = S \cup {i + 1}
      BY <2>2, <2>3, <2>5
    <3>2. Cardinality(S \cup {i + 1}) = Cardinality(S) + 1
      BY <2>6, FS_AddElement
    <3> QED BY <2>3, <2>5, <2>6, <3>1, <3>2
  <2>4. CASE t[i + 1].item \notin K
    <3>1. Counted(t, i + 1, K) = S
      BY <2>2, <2>4, <2>5
    <3> QED BY <2>4, <2>5, <2>6, <3>1
  <2> QED BY <2>3, <2>4
<1>4. ASSUME NEW t, NEW i \in Nat
      PROVE  /\ Depth(t, i) \in Int
             /\ Depth(t, i + 1) = Depth(t, i) + Turn(t[i + 1])
  <2>1. i + 1 \in Nat
    OBVIOUS
  <2>2. t[i + 1].item = "close" => t[i + 1].item \notin Opening
    BY DEF Opening
  <2> QED BY <1>1, <1>3, <2>1, <2>2 DEF Turn
<1> QED BY <1>2, <1>4

\* Text r is text t and, from n items on, text u of m items.
Joined(r, t, n, u, m) ==
  /\ n = Len(t) /\ m = Len(u) /\ Len(r) = n + m
  /\ DOMAIN t = 1 .. n /\ DOMAIN u = 1 .. m /\ DOMAIN r = 1 .. n + m
  /\ \A i \in 1 .. n : r[i] = t[i]
  /\ \A i \in 1 .. m : r[n + i] = u[i]
  /\ \A i \in 0 .. n : Depth(t, i) \in Int /\ Depth(r, i) = Depth(t, i)
  /\ \A i \in 0 .. m : Depth(u, i) \in Int /\ Depth(r, n + i) = End(t) + Depth(u, i)
  /\ End(t) \in Int /\ End(u) \in Int /\ End(r) = End(t) + End(u)

\* Where two texts are joined the depths of the second are counted on.
LEMMA DepthJoined ==
  ASSUME NEW T, NEW t \in Seq(T), NEW u \in Seq(T), NEW r, r = t \o u
  PROVE  r \in Seq(T) /\ \E n, m \in Nat : Joined(r, t, n, u, m)
<1>1. /\ r \in Seq(T) /\ Len(r) = Len(t) + Len(u)
      /\ Len(t) \in Nat /\ Len(u) \in Nat
      /\ DOMAIN t = 1 .. Len(t) /\ DOMAIN u = 1 .. Len(u) /\ DOMAIN r = 1 .. Len(r)
      /\ \A i \in 1 .. Len(t) : r[i] = t[i]
      /\ \A i \in 1 .. Len(u) : r[Len(t) + i] = u[i]
  OBVIOUS
<1>2. PICK n, m \in Nat : n = Len(t) /\ m = Len(u)
  BY <1>1
<1>3. \A s : \A i \in Nat : Depth(s, i) \in Int
  BY DepthSteps
<1>4. \A i \in 0 .. n : Depth(r, i) = Depth(t, i)
  <2> DEFINE Bad == {i \in 0 .. n : Depth(r, i) # Depth(t, i)}
  <2>1. SUFFICES ASSUME Bad # {} PROVE FALSE
    OBVIOUS
  <2>2. PICK i \in Bad : \A k \in Bad : i <= k
    <3>1. Bad \in SUBSET Nat
      BY <1>2
    <3> HIDE DEF Bad
    <3> QED BY <2>1, <3>1, TreesOnly, Table!LeastNatural
  <2>3. i \in 0 .. n /\ Depth(r, i) # Depth(t, i)
    OBVIOUS
  <2>4. i # 0
    BY <2>3, DepthSteps
  <2>5. PICK k \in Nat : i = k + 1
    <3>1. i - 1 \in Nat /\ i = (i - 1) + 1
      BY <1>2, <2>3, <2>4
    <3> QED BY <3>1
  <2>6. k \in 0 .. n /\ i \in 1 .. n
    BY <1>2, <2>3, <2>5
  <2>7. Depth(r, k) = Depth(t, k)
    BY <2>2, <2>5, <2>6
  <2>8. r[i] = t[i]
    BY <1>1, <1>2, <2>6
  <2> QED BY <2>3, <2>5, <2>7, <2>8, DepthSteps
<1>5. \A i \in 0 .. m : Depth(r, n + i) = Depth(t, n) + Depth(u, i)
  <2> DEFINE Bad == {i \in 0 .. m : Depth(r, n + i) # Depth(t, n) + Depth(u, i)}
  <2>1. SUFFICES ASSUME Bad # {} PROVE FALSE
    OBVIOUS
  <2>2. PICK i \in Bad : \A k \in Bad : i <= k
    <3>1. Bad \in SUBSET Nat
      BY <1>2
    <3> HIDE DEF Bad
    <3> QED BY <2>1, <3>1, TreesOnly, Table!LeastNatural
  <2>3. i \in 0 .. m /\ Depth(r, n + i) # Depth(t, n) + Depth(u, i)
    OBVIOUS
  <2>4. i # 0
    <3>1. Depth(u, 0) = 0 /\ Depth(r, n) = Depth(t, n) /\ Depth(t, n) \in Int
      <4>1. 0 \in 0 .. n /\ n \in 0 .. n /\ n \in Nat
        BY <1>2
      <4>2. Depth(r, n) = Depth(t, n) /\ Depth(t, n) \in Int
        BY <1>3, <1>4, <4>1
      <4> QED BY <4>2, DepthSteps
    <3> QED BY <1>2, <2>3, <3>1
  <2>5. PICK k \in Nat : i = k + 1
    <3>1. i - 1 \in Nat /\ i = (i - 1) + 1
      BY <1>2, <2>3, <2>4
    <3> QED BY <3>1
  <2>6. k \in 0 .. m /\ i \in 1 .. m /\ n + k \in Nat /\ n + i = (n + k) + 1
    BY <1>2, <2>3, <2>5
  <2>7. Depth(r, n + k) = Depth(t, n) + Depth(u, k)
    BY <2>2, <2>5, <2>6
  <2>8. r[n + i] = u[i]
    BY <1>1, <1>2, <2>6
  <2>9. /\ Depth(r, n + i) = Depth(r, n + k) + Turn(u[i])
        /\ Depth(u, i) = Depth(u, k) + Turn(u[i])
    BY <2>5, <2>6, <2>8, DepthSteps
  <2>10. Turn(u[i]) \in Int /\ Depth(t, n) \in Int /\ Depth(u, k) \in Int
    BY <1>2, <1>3 DEF Turn
  <2> QED BY ONLY <2>3, <2>7, <2>9, <2>10
<1>6. End(t) \in Int /\ End(u) \in Int /\ End(r) = End(t) + End(u)
  <2>1. n \in 0 .. n /\ m \in 0 .. m
    BY <1>2
  <2> QED BY <1>1, <1>2, <1>3, <1>5, <2>1 DEF End
<1>7. \A i \in 0 .. m : Depth(r, n + i) = End(t) + Depth(u, i)
  BY <1>2, <1>5 DEF End
<1>8. \A i \in 0 .. n : i \in Nat
  BY <1>2
<1>9. \A i \in 0 .. m : i \in Nat
  BY <1>2
<1>10. Joined(r, t, n, u, m)
  BY <1>1, <1>2, <1>3, <1>4, <1>6, <1>7, <1>8, <1>9 DEF Joined
<1> QED BY <1>1, <1>2, <1>10

\* The depths of short texts.
LEMMA DepthShort ==
  /\ End(<< >>) = 0 /\ \A i \in 0 .. 0 : Depth(<< >>, i) = 0
  /\ \A a : End(<<a>>) = Turn(a) /\ \A i \in 0 .. 1 : Depth(<<a>>, i) = IF i = 0 THEN 0 ELSE Turn(a)
  /\ \A a, b : LET t == <<a, b>> IN
       End(t) = Turn(a) + Turn(b) /\ Depth(t, 0) = 0 /\ Depth(t, 1) = Turn(a) /\ Depth(t, 2) = End(t)
  /\ \A a, b, c : LET t == <<a, b, c>> IN
       /\ End(t) = Turn(a) + Turn(b) + Turn(c) /\ Depth(t, 0) = 0 /\ Depth(t, 1) = Turn(a)
       /\ Depth(t, 2) = Turn(a) + Turn(b) /\ Depth(t, 3) = End(t)
<1>1. \A t : /\ Depth(t, 0) = 0 /\ Depth(t, 1) = Turn(t[1])
             /\ Depth(t, 2) = Turn(t[1]) + Turn(t[2])
             /\ Depth(t, 3) = Turn(t[1]) + Turn(t[2]) + Turn(t[3])
  <2> SUFFICES ASSUME NEW t
               PROVE  /\ Depth(t, 0) = 0 /\ Depth(t, 1) = Turn(t[1])
                      /\ Depth(t, 2) = Turn(t[1]) + Turn(t[2])
                      /\ Depth(t, 3) = Turn(t[1]) + Turn(t[2]) + Turn(t[3])
    OBVIOUS
  <2>1. /\ Depth(t, 0) = 0
        /\ Depth(t, 0 + 1) = Depth(t, 0) + Turn(t[0 + 1])
        /\ Depth(t, 1 + 1) = Depth(t, 1) + Turn(t[1 + 1])
        /\ Depth(t, 2 + 1) = Depth(t, 2) + Turn(t[2 + 1])
    BY DepthSteps
  <2>2. 0 + 1 = 1 /\ 1 + 1 = 2 /\ 2 + 1 = 3
    OBVIOUS
  <2>3. \A a : Turn(a) \in Int
    BY DEF Turn
  <2> QED BY <2>1, <2>2, <2>3
<1>2. End(<< >>) = 0 /\ \A i \in 0 .. 0 : Depth(<< >>, i) = 0
  <2>1. Len(<< >>) = 0 /\ \A i \in 0 .. 0 : i = 0
    OBVIOUS
  <2> QED BY <1>1, <2>1 DEF End
<1>3. \A a : /\ End(<<a>>) = Turn(a)
             /\ \A i \in 0 .. 1 : Depth(<<a>>, i) = IF i = 0 THEN 0 ELSE Turn(a)
  <2>1. \A a : Len(<<a>>) = 1 /\ <<a>>[1] = a
    OBVIOUS
  <2>2. \A i \in 0 .. 1 : i = 0 \/ i = 1
    OBVIOUS
  <2> QED BY <1>1, <2>1, <2>2 DEF End
<1>4. \A a, b : LET t == <<a, b>> IN
        End(t) = Turn(a) + Turn(b) /\ Depth(t, 0) = 0 /\ Depth(t, 1) = Turn(a) /\ Depth(t, 2) = End(t)
  <2>1. \A a, b : LET t == <<a, b>> IN Len(t) = 2 /\ t[1] = a /\ t[2] = b
    OBVIOUS
  <2> QED BY <1>1, <2>1 DEF End
<1>5. \A a, b, c : LET t == <<a, b, c>> IN
       /\ End(t) = Turn(a) + Turn(b) + Turn(c) /\ Depth(t, 0) = 0 /\ Depth(t, 1) = Turn(a)
       /\ Depth(t, 2) = Turn(a) + Turn(b) /\ Depth(t, 3) = End(t)
  <2>1. \A a, b, c : LET t == <<a, b, c>> IN Len(t) = 3 /\ t[1] = a /\ t[2] = b /\ t[3] = c
    OBVIOUS
  <2> QED BY <1>1, <2>1 DEF End
<1> QED BY <1>2, <1>3, <1>4, <1>5

-----------------------------------------------------------------------------
(* Objects in sight.                                                       *)

\* The scopes whose objects item a needs in sight, and the link an object is
\* followed by.
Sought(a) ==
  IF a.item \in {"field", "call", "local"} THEN {a.scope} \ {NoScope}
  ELSE IF a.item = "object" /\ a.node # Main THEN {ScopeOpenedBy(Binder(a.node))} ELSE {}
LinkedAt(t, i) ==
  t[i].item = "object" /\ t[i].node # Main =>
    /\ i < Len(t)
    /\ t[i + 1] = Link(t[i].node, t[i].scope, ScopeOpenedBy(Binder(t[i].node)))

\* What is sought in text t is in sight there, but for the scopes of E.
Tidy(t, E) ==
  \A i \in DOMAIN t : /\ LinkedAt(t, i)
                      /\ \A s \in Sought(t[i]) : s \in E \/ InSight(t, i, s)

\* An object of scope s stays in sight behind text t as long as no block at
\* depth d is closed.
Declares(a, s) == a.item \in {"object", "param"} /\ a.scope = s
Sees(t, d, s) ==
  \E j \in DOMAIN t : /\ Declares(t[j], s) /\ Depth(t, j) <= d
                      /\ \A k \in j .. Len(t) : Depth(t, k) >= Depth(t, j)

\* What is in sight behind a text stays there, whatever follows, and so does
\* what is in sight at the end of what follows.
LEMMA SeesJoined ==
  ASSUME NEW T, NEW t \in Seq(T), NEW u \in Seq(T), NEW r, r = t \o u, NEW s
  PROVE  /\ \A d, f \in Int :
              Sees(t, d, s) /\ d <= f /\ (\A i \in 0 .. Len(u) : End(t) + Depth(u, i) >= f)
                => Sees(r, d, s)
         /\ \A d \in Int : Sees(u, d, s) => Sees(r, End(t) + d, s)
<1>1. PICK n, m \in Nat : Joined(r, t, n, u, m)
  BY DepthJoined
<1>2. /\ n = Len(t) /\ m = Len(u) /\ Len(r) = n + m
      /\ DOMAIN t = 1 .. n /\ DOMAIN u = 1 .. m /\ DOMAIN r = 1 .. n + m
      /\ \A i \in 1 .. n : r[i] = t[i]
      /\ \A i \in 1 .. m : r[n + i] = u[i]
      /\ \A i \in 0 .. n : Depth(t, i) \in Int /\ Depth(r, i) = Depth(t, i)
      /\ \A i \in 0 .. m : /\ Depth(u, i) \in Int
                           /\ Depth(r, n + i) = End(t) + Depth(u, i)
      /\ End(t) \in Int
  BY <1>1 DEF Joined
<1>3. \A k \in n .. n + m : \E i \in 0 .. m : k = n + i
  <2> SUFFICES ASSUME NEW k \in n .. n + m PROVE \E i \in 0 .. m : k = n + i
    OBVIOUS
  <2>1. k - n \in 0 .. m /\ k = n + (k - n)
    BY <1>1
  <2> QED BY <2>1
<1>4. ASSUME NEW d \in Int, NEW f \in Int, Sees(t, d, s), d <= f,
             \A i \in 0 .. m : End(t) + Depth(u, i) >= f
      PROVE  Sees(r, d, s)
  <2>1. PICK j \in 1 .. n : /\ Declares(t[j], s) /\ Depth(t, j) <= d
                            /\ \A k \in j .. n : Depth(t, k) >= Depth(t, j)
    BY <1>1, <1>2, <1>4 DEF Sees
  <2>2. j \in 1 .. n + m /\ j \in 0 .. n /\ r[j] = t[j] /\ Depth(r, j) = Depth(t, j)
        /\ Depth(t, j) \in Int
    BY <1>1, <1>2
  <2>3. ASSUME NEW k \in j .. n + m PROVE Depth(r, k) >= Depth(r, j)
    <3>1. CASE k <= n
      <4>1. k \in 0 .. n /\ k \in j .. n
        BY <1>1, <2>3, <3>1
      <4> QED BY <1>2, <2>1, <2>2, <4>1
    <3>2. CASE ~ k <= n
      <4>3. k \in n .. n + m
        BY <1>1, <2>3, <3>2
      <4>1. PICK i \in 0 .. m : k = n + i
        BY <1>3, <4>3
      <4>2. Depth(r, k) >= f /\ Depth(r, k) \in Int
        BY <1>2, <1>4, <4>1
      <4> QED BY <1>4, <2>1, <2>2, <4>2
    <3> QED BY <3>1, <3>2
  <2> QED BY <1>2, <2>1, <2>2, <2>3 DEF Sees
<1>5. ASSUME NEW d \in Int, Sees(u, d, s) PROVE Sees(r, End(t) + d, s)
  <2>1. PICK j \in 1 .. m : /\ Declares(u[j], s) /\ Depth(u, j) <= d
                            /\ \A k \in j .. m : Depth(u, k) >= Depth(u, j)
    BY <1>1, <1>2, <1>5 DEF Sees
  <2>2. PICK l : l = n + j
    OBVIOUS
  <2>3. /\ l \in 1 .. n + m /\ r[l] = u[j] /\ Depth(r, l) = End(t) + Depth(u, j)
        /\ Depth(u, j) \in Int
    BY <1>1, <1>2, <2>2
  <2>4. ASSUME NEW k \in l .. n + m PROVE Depth(r, k) >= Depth(r, l)
    <3>4. k \in n .. n + m
      BY <1>1, <2>2, <2>4
    <3>1. PICK i \in 0 .. m : k = n + i
      BY <1>3, <3>4
    <3>2. i \in j .. m
      BY <1>1, <2>2, <2>4, <3>1
    <3>3. Depth(u, i) >= Depth(u, j) /\ Depth(r, k) = End(t) + Depth(u, i) /\ Depth(u, i) \in Int
      BY <1>2, <2>1, <3>1, <3>2
    <3> QED BY <1>2, <2>3, <3>3
  <2>5. Depth(r, l) <= End(t) + d
    BY <1>2, <1>5, <2>1, <2>3
  <2> QED BY <1>2, <2>1, <2>3, <2>4, <2>5 DEF Sees
<1> QED BY <1>2, <1>4, <1>5

LEMMA SeesFurther ==
  ASSUME NEW T, NEW t \in Seq(T), NEW u \in Seq(T), NEW r, r = t \o u, NEW s,
         NEW d \in Int, NEW f \in Int, d <= f, Sees(t, d, s),
         \A i \in 0 .. Len(u) : End(t) + Depth(u, i) >= f
  PROVE  Sees(r, d, s)
<1>1. \A g, e \in Int :
        Sees(t, g, s) /\ g <= e /\ (\A i \in 0 .. Len(u) : End(t) + Depth(u, i) >= e)
          => Sees(r, g, s)
  BY SeesJoined
<1> QED BY <1>1

\* A tidy text goes on with what is tidy but for scopes that are in sight.
LEMMA TidyJoined ==
  ASSUME NEW T, NEW t \in Seq(T), NEW u \in Seq(T), NEW r, r = t \o u,
         NEW E, NEW X, Tidy(t, E), Tidy(u, X), NEW d \in Int,
         \A s \in X : s \in E \/ Sees(t, d, s),
         \A i \in 0 .. Len(u) : End(t) + Depth(u, i) >= d
  PROVE  Tidy(r, E)
<1>1. PICK n, m \in Nat : Joined(r, t, n, u, m)
  BY DepthJoined
<1>2. /\ n = Len(t) /\ m = Len(u) /\ Len(r) = n + m
      /\ DOMAIN t = 1 .. n /\ DOMAIN u = 1 .. m /\ DOMAIN r = 1 .. n + m
      /\ \A i \in 1 .. n : r[i] = t[i]
      /\ \A i \in 1 .. m : r[n + i] = u[i]
      /\ \A i \in 0 .. n : Depth(t, i) \in Int /\ Depth(r, i) = Depth(t, i)
      /\ \A i \in 0 .. m : /\ Depth(u, i) \in Int
                           /\ Depth(r, n + i) = End(t) + Depth(u, i)
      /\ End(t) \in Int
  BY <1>1 DEF Joined
<1>3. ASSUME NEW i \in 1 .. n
      PROVE  LinkedAt(r, i) /\ \A s \in Sought(r[i]) : s \in E \/ InSight(r, i, s)
  <2>1. r[i] = t[i] /\ LinkedAt(t, i) /\ \A s \in Sought(t[i]) : s \in E \/ InSight(t, i, s)
    BY <1>2 DEF Tidy
  <2>2. LinkedAt(r, i)
    <3>1. i < n => i + 1 \in 1 .. n /\ i < n + m
      BY <1>1
    <3> QED BY <1>1, <1>2, <2>1, <3>1 DEF LinkedAt
  <2>3. ASSUME NEW s, InSight(t, i, s) PROVE InSight(r, i, s)
    <3>1. PICK j \in 1 .. n : /\ t[j].item \in {"object", "param"} /\ t[j].scope = s
                              /\ j < i /\ \A k \in j .. i - 1 : Depth(t, k) >= Depth(t, j)
      BY <1>2, <2>3 DEF InSight, Visible
    <3>2. j \in 1 .. n + m /\ r[j] = t[j] /\ \A k \in j .. i - 1 : k \in 0 .. n
      BY <1>1, <1>2
    <3>3. \A k \in j .. i - 1 : Depth(r, k) >= Depth(r, j)
      <4>1. j \in 0 .. n
        BY <1>1
      <4> QED BY <1>2, <3>1, <3>2, <4>1
    <3> QED BY <1>2, <3>1, <3>2, <3>3 DEF InSight, Visible
  <2> QED BY <2>1, <2>2, <2>3
<1>4. ASSUME NEW i \in 1 .. m
      PROVE  /\ LinkedAt(r, n + i)
             /\ \A s \in Sought(r[n + i]) : s \in E \/ InSight(r, n + i, s)
  <2>1. r[n + i] = u[i] /\ LinkedAt(u, i) /\ \A s \in Sought(u[i]) : s \in X \/ InSight(u, i, s)
    BY <1>2 DEF Tidy
  <2>2. LinkedAt(r, n + i)
    <3>1. i < m => i + 1 \in 1 .. m /\ n + i < n + m /\ (n + i) + 1 = n + (i + 1)
      BY <1>1
    <3>2. i < m => r[(n + i) + 1] = u[i + 1]
      BY <1>2, <3>1
    <3> QED BY <1>1, <1>2, <2>1, <3>1, <3>2 DEF LinkedAt
  <2>3. ASSUME NEW s, InSight(u, i, s) PROVE InSight(r, n + i, s)
    <3>1. PICK j \in 1 .. m : /\ u[j].item \in {"object", "param"} /\ u[j].scope = s
                              /\ j < i /\ \A k \in j .. i - 1 : Depth(u, k) >= Depth(u, j)
      BY <1>2, <2>3 DEF InSight, Visible
    <3>2. n + j \in 1 .. n + m /\ r[n + j] = u[j] /\ n + j < n + i
      <4>1. n + j \in 1 .. n + m /\ n + j < n + i
        BY <1>1, <3>1
      <4> QED BY <1>2, <4>1
    <3>3. ASSUME NEW k \in n + j .. (n + i) - 1 PROVE Depth(r, k) >= Depth(r, n + j)
      <4>1. k - n \in j .. i - 1 /\ k - n \in 0 .. m /\ k = n + (k - n) /\ j \in 0 .. m
        BY <1>1, <3>3
      <4>2. Depth(r, k) = End(t) + Depth(u, k - n) /\ Depth(u, k - n) >= Depth(u, j)
            /\ Depth(u, k - n) \in Int /\ Depth(u, j) \in Int /\ Depth(r, n + j) = End(t) + Depth(u, j)
        <5>1. PICK l : l = k - n
          OBVIOUS
        <5> QED BY <1>2, <3>1, <4>1, <5>1
      <4> QED BY ONLY <1>2, <4>2
    <3>4. Visible(r, n + j, n + i)
      BY <3>2, <3>3 DEF Visible
    <3>5. n + j \in DOMAIN r
      BY <1>2, <3>2
    <3> QED BY <3>1, <3>2, <3>4, <3>5 DEF InSight
  <2>4. ASSUME NEW s, Sees(t, d, s) PROVE InSight(r, n + i, s)
    <3>1. PICK j \in 1 .. n : /\ Declares(t[j], s) /\ Depth(t, j) <= d
                              /\ \A k \in j .. n : Depth(t, k) >= Depth(t, j)
      BY <1>1, <1>2, <2>4 DEF Sees
    <3>2. j \in 1 .. n + m /\ r[j] = t[j] /\ j < n + i /\ Depth(r, j) = Depth(t, j) /\ Depth(t, j) \in Int
      <4>1. j \in 0 .. n
        BY <1>1
      <4> QED BY <1>1, <1>2, <4>1
    <3>3. ASSUME NEW k \in j .. (n + i) - 1 PROVE Depth(r, k) >= Depth(r, j)
      <4>1. CASE k <= n
        <5>1. k \in 0 .. n /\ k \in j .. n
          BY <1>1, <3>3, <4>1
        <5> QED BY <1>2, <3>1, <3>2, <5>1
      <4>2. CASE ~ k <= n
        <5>1. k - n \in 0 .. m /\ k = n + (k - n)
          BY <1>1, <3>3, <4>2
        <5>2. PICK l : l = k - n
          OBVIOUS
        <5>3. Depth(r, k) = End(t) + Depth(u, l) /\ End(t) + Depth(u, l) >= d /\ Depth(u, l) \in Int
          BY <1>1, <1>2, <5>1, <5>2
        <5> QED BY ONLY <1>2, <3>1, <3>2, <5>3
      <4> QED BY <4>1, <4>2
    <3>4. Visible(r, j, n + i)
      BY <3>2, <3>3 DEF Visible
    <3>5. j \in DOMAIN r
      BY <1>2, <3>2
    <3> QED BY <3>1, <3>2, <3>4, <3>5 DEF InSight, Declares
  <2> QED BY <2>1, <2>2, <2>3, <2>4
<1>5. \A i \in 1 .. n + m : i \in 1 .. n \/ \E k \in 1 .. m : i = n + k
  <2> SUFFICES ASSUME NEW i \in 1 .. n + m, i \notin 1 .. n PROVE \E k \in 1 .. m : i = n + k
    OBVIOUS
  <2>1. i - n \in 1 .. m /\ i = n + (i - n)
    BY <1>1
  <2> QED BY <2>1
<1>6. ASSUME NEW i \in 1 .. n + m
      PROVE  LinkedAt(r, i) /\ \A s \in Sought(r[i]) : s \in E \/ InSight(r, i, s)
  <2>1. CASE i \in 1 .. n
    BY <1>3, <2>1
  <2>2. CASE \E k \in 1 .. m : i = n + k
    BY <1>4, <2>2
  <2> QED BY <1>5, <2>1, <2>2
<1> QED BY <1>2, <1>6 DEF Tidy

\* A text within its own blocks.
Balanced(t) == End(t) = 0 /\ \A i \in 0 .. Len(t) : Depth(t, i) >= 0

LEMMA TidyShort ==
  /\ \A E : Tidy(<< >>, E)
  /\ Balanced(<< >>)
  /\ \A t, E : \A X \in SUBSET E : Tidy(t, X) => Tidy(t, E)
  /\ \A a, E : ~ (a.item = "object" /\ a.node # Main) /\ Sought(a) \subseteq E => Tidy(<<a>>, E)
  /\ \A a, b, E : /\ ~ (a.item = "object" /\ a.node # Main) /\ Sought(a) \subseteq E
                  /\ ~ (b.item = "object" /\ b.node # Main) /\ Sought(b) \subseteq E
                  => Tidy(<<a, b>>, E)
  /\ \A t, d, s : \A e \in Int : d \in Int /\ d <= e /\ DOMAIN t \subseteq Nat /\ Sees(t, d, s) => Sees(t, e, s)
<1>1. \A E : Tidy(<< >>, E)
  BY DEF Tidy
<1>2. Balanced(<< >>)
  BY DepthShort DEF Balanced
<1>3. \A t, E : \A X \in SUBSET E : Tidy(t, X) => Tidy(t, E)
  BY DEF Tidy
<1>4. \A a, E : ~ (a.item = "object" /\ a.node # Main) /\ Sought(a) \subseteq E => Tidy(<<a>>, E)
  <2>1. \A a : DOMAIN <<a>> = {1} /\ <<a>>[1] = a
    OBVIOUS
  <2> QED BY <2>1 DEF Tidy, LinkedAt
<1>5. \A a, b, E : /\ ~ (a.item = "object" /\ a.node # Main) /\ Sought(a) \subseteq E
                   /\ ~ (b.item = "object" /\ b.node # Main) /\ Sought(b) \subseteq E
                   => Tidy(<<a, b>>, E)
  <2>1. \A a, b : DOMAIN <<a, b>> = {1, 2} /\ <<a, b>>[1] = a /\ <<a, b>>[2] = b
    OBVIOUS
  <2> QED BY <2>1 DEF Tidy, LinkedAt
<1>6. \A t, d, s : \A e \in Int : d \in Int /\ d <= e /\ DOMAIN t \subseteq Nat /\ Sees(t, d, s) => Sees(t, e, s)
  <2>1. \A t : \A j \in Nat : Depth(t, j) \in Int
    BY DepthSteps
  <2> SUFFICES ASSUME NEW t, NEW d \in Int, NEW s, NEW e \in Int, d <= e,
                      DOMAIN t \subseteq Nat, Sees(t, d, s)
               PROVE  Sees(t, e, s)
    OBVIOUS
  <2>2. PICK j \in DOMAIN t : /\ Declares(t[j], s) /\ Depth(t, j) <= d
                              /\ \A k \in j .. Len(t) : Depth(t, k) >= Depth(t, j)
    BY DEF Sees
  <2>3. Depth(t, j) <= e
    BY <2>1, <2>2
  <2> QED BY <2>2, <2>3 DEF Sees
<1> QED BY <1>1, <1>2, <1>3, <1>4, <1>5, <1>6

-----------------------------------------------------------------------------
(* Layers.                                                                 *)

\* What a frame adds to its stream: the text was base deep when the frame was
\* pushed, is top deep where the next frame goes on, and down to level it has
\* the objects of the scopes in needs in sight.
Layers == [stream : Nat, base : Nat, level : Nat, top : Nat, needs : SUBSET Nat]

\* The layers of a stream lie on each other.
Ordered(G) ==
  /\ G \in Seq(Layers) /\ G # <<>>
  /\ \A k \in DOMAIN G : G[k].base <= G[k].level /\ G[k].level <= G[k].top
  /\ \A i, k \in DOMAIN G : i <= k => G[i].stream <= G[k].stream
  /\ \A i, k \in DOMAIN G : i < k /\ G[i].stream = G[k].stream => G[i].level <= G[k].base
  /\ \A k \in DOMAIN G : k < Len(G) /\ G[k + 1].stream = G[k].stream
                           => G[k + 1].base = G[k].top

\* The uppermost layer of a stream is at its end.
Uppermost(G, k) == k = Len(G) \/ G[k + 1].stream # G[k].stream
Ends(G, os) ==
  /\ os \in Seq(Text) /\ os # <<>> /\ G[Len(G)].stream = Len(os)
  /\ \A k \in DOMAIN G : G[k].stream \in DOMAIN os
  /\ \A k \in DOMAIN G : Uppermost(G, k) => End(os[G[k].stream]) = G[k].top

\* The text of stream w is tidy but for the scopes of outside[w], and a layer
\* has the scopes it needs in sight, but for these.
Kept(G, os, outside) ==
  /\ outside \in Seq(SUBSET Nat) /\ Len(outside) = Len(os)
  /\ \A w \in DOMAIN os : /\ Tidy(os[w], outside[w])
                          /\ \A i \in 0 .. Len(os[w]) : Depth(os[w], i) >= 0
  /\ \A k \in DOMAIN G : \A s \in G[k].needs :
       s \in outside[G[k].stream] \/ Sees(os[G[k].stream], G[k].level, s)

Layered(G, os, outside) == Ordered(G) /\ Ends(G, os) /\ Kept(G, os, outside)

\* There are N layers and W streams, and the innermost layer is on the last.
Sized(G, N, os, W, outside) ==
  /\ N = Len(G) /\ W = Len(os) /\ Len(outside) = W
  /\ DOMAIN G = 1 .. N /\ DOMAIN os = 1 .. W /\ DOMAIN outside = 1 .. W
  /\ \A k \in 1 .. N : /\ G[k] \in Layers /\ G[k].stream \in 1 .. W
                       /\ G[k].base \in Nat /\ G[k].level \in Nat /\ G[k].top \in Nat
                       /\ G[k].base <= G[k].level /\ G[k].level <= G[k].top
  /\ \A w \in 1 .. W : os[w] \in Text
  /\ G[N].stream = W /\ End(os[W]) = G[N].top
  /\ \A k \in 1 .. N : k # N /\ Uppermost(G, k) => G[k].stream # W

LEMMA LayerFacts ==
  ASSUME NEW G, NEW os, NEW outside, Layered(G, os, outside)
  PROVE  \E N, W \in Nat \ {0} : Sized(G, N, os, W, outside)
<1>1. PICK N, W \in Nat \ {0} : N = Len(G) /\ W = Len(os)
  <2>1. Len(G) \in Nat \ {0} /\ Len(os) \in Nat \ {0}
    BY DEF Layered, Ordered, Ends
  <2> QED BY <2>1
<1>2. /\ Len(outside) = W
      /\ DOMAIN G = 1 .. N /\ DOMAIN os = 1 .. W /\ DOMAIN outside = 1 .. W
      /\ \A k \in 1 .. N : G[k] \in Layers /\ G[k].stream \in 1 .. W
      /\ \A w \in 1 .. W : os[w] \in Text
  BY <1>1 DEF Layered, Ordered, Ends, Kept
<1>3. \A k \in 1 .. N : G[k].base \in Nat /\ G[k].level \in Nat /\ G[k].top \in Nat
  BY <1>2 DEF Layers
<1>4. \A k \in 1 .. N : G[k].base <= G[k].level /\ G[k].level <= G[k].top
  BY <1>2 DEF Layered, Ordered
<1>5. N \in 1 .. N /\ G[N].stream = W /\ End(os[W]) = G[N].top
  <2>1. N \in 1 .. N /\ G[N].stream = W
    BY <1>1 DEF Layered, Ends
  <2>2. Uppermost(G, N)
    BY <1>1 DEF Uppermost
  <2> QED BY <1>2, <2>1, <2>2 DEF Layered, Ends
<1>6. ASSUME NEW k \in 1 .. N, k # N, Uppermost(G, k) PROVE G[k].stream # W
  <2>1. k + 1 \in 1 .. N /\ k + 1 <= N /\ k <= k + 1
    BY <1>6
  <2>2. G[k].stream <= G[k + 1].stream /\ G[k + 1].stream <= W
    BY <1>2, <1>5, <2>1 DEF Layered, Ordered
  <2>3. G[k].stream # G[k + 1].stream
    BY <1>1, <1>6 DEF Uppermost
  <2>4. G[k].stream \in Nat /\ G[k + 1].stream \in Nat
    BY <1>2, <2>1
  <2> QED BY <2>2, <2>3, <2>4
<1>7. Sized(G, N, os, W, outside)
  BY <1>1, <1>2, <1>3, <1>4, <1>5, <1>6 DEF Sized
<1> QED BY <1>1, <1>7

\* The innermost frame writes a text that stays above its layer's level.
LEMMA LayersWrite ==
  ASSUME NEW G, NEW os, NEW outside, Layered(G, os, outside),
         NEW N, N = Len(G), NEW W, W = Len(os),
         NEW text \in Text, Tidy(text, G[N].needs),
         \A i \in 0 .. Len(text) : G[N].top + Depth(text, i) >= G[N].level,
         NEW r \in Layers, r.stream = W, r.base = G[N].base,
         G[N].level <= r.level, r.level <= r.top, r.top = G[N].top + End(text),
         \A s \in r.needs : s \in G[N].needs \/ Sees(text, r.level - G[N].top, s),
         NEW H, H = [G EXCEPT ![N] = r],
         NEW new, new = [os EXCEPT ![W] = @ \o text]
  PROVE  Layered(H, new, outside)
<1>1. /\ N \in Nat \ {0} /\ W \in Nat \ {0} /\ Len(outside) = W
      /\ DOMAIN G = 1 .. N /\ DOMAIN os = 1 .. W /\ DOMAIN outside = 1 .. W
      /\ \A k \in 1 .. N : /\ G[k] \in Layers /\ G[k].stream \in 1 .. W
                           /\ G[k].base \in Nat /\ G[k].level \in Nat /\ G[k].top \in Nat
                           /\ G[k].base <= G[k].level /\ G[k].level <= G[k].top
      /\ \A w \in 1 .. W : os[w] \in Text
      /\ G[N].stream = W /\ End(os[W]) = G[N].top
      /\ \A k \in 1 .. N : k # N /\ Uppermost(G, k) => G[k].stream # W
  <2>1. PICK n, w \in Nat \ {0} : Sized(G, n, os, w, outside)
    BY LayerFacts
  <2>2. n = N /\ w = W
    BY <2>1 DEF Sized
  <2> QED BY <2>1, <2>2 DEF Sized
<1>2. N \in 1 .. N /\ W \in 1 .. W /\ G[N] \in Layers
  BY <1>1
<1>3. /\ H \in Seq(Layers) /\ Len(H) = N /\ DOMAIN H = 1 .. N
      /\ \A k \in 1 .. N : H[k] = IF k = N THEN r ELSE G[k]
  <2>1. G \in Seq(Layers)
    BY DEF Layered, Ordered
  <2> QED BY <1>1, <1>2, <2>1, Replaced
<1>4. PICK last : last = os[W] \o text
  OBVIOUS
<1>5. last \in Text /\ os[W] \in Text
  <2>1. PICK T : Text = Seq(T)
    BY DEF Text
  <2>2. os[W] \in Seq(T) /\ text \in Seq(T)
    BY <1>1, <1>2, <2>1
  <2>3. last \in Seq(T)
    BY ONLY <1>4, <2>2
  <2> QED BY <2>1, <2>2, <2>3
<1>6. /\ new \in Seq(Text) /\ Len(new) = W /\ DOMAIN new = 1 .. W
      /\ \A w \in 1 .. W : new[w] = IF w = W THEN last ELSE os[w]
  <2>1. os \in Seq(Text) /\ new = [os EXCEPT ![W] = last] /\ W \in DOMAIN os /\ Len(os) = W
    BY <1>1, <1>2, <1>4 DEF Layered, Ends
  <2> QED BY ONLY <1>5, <2>1, Replaced
<1>7. \E n, m \in Nat : Joined(last, os[W], n, text, m)
  <2>1. PICK T : T = [item : ItemKinds, node : Nodes \cup {Main}, scope : ScopeNumbers,
                      arg : ScopeNumbers]
    OBVIOUS
  <2>2. os[W] \in Seq(T) /\ text \in Seq(T)
    BY <1>5, <2>1 DEF Text
  <2>3. PICK t : t = os[W]
    OBVIOUS
  <2> QED BY <1>4, <2>2, <2>3, DepthJoined
<1>8. PICK n, m \in Nat : Joined(last, os[W], n, text, m)
  BY <1>7
<1>9. End(text) \in Int /\ End(last) = r.top /\ \A i \in 0 .. m : Depth(text, i) \in Int
  BY <1>1, <1>8 DEF Joined
<1>10. Ordered(H)
  <2>1. \A k \in 1 .. N : H[k].base <= H[k].level /\ H[k].level <= H[k].top
    BY <1>1, <1>2, <1>3 DEF Layers
  <2>2. \A k \in 1 .. N : H[k].stream = G[k].stream /\ H[k].base = G[k].base
    BY <1>1, <1>3
  <2>7. /\ \A i, k \in 1 .. N : i <= k => G[i].stream <= G[k].stream
        /\ \A i, k \in 1 .. N : i < k /\ G[i].stream = G[k].stream => G[i].level <= G[k].base
        /\ \A k \in 1 .. N : k < N /\ G[k + 1].stream = G[k].stream => G[k + 1].base = G[k].top
    BY <1>1 DEF Layered, Ordered
  <2>3. \A i, k \in 1 .. N : i <= k => H[i].stream <= H[k].stream
    BY <2>2, <2>7
  <2>4. \A i, k \in 1 .. N : i < k /\ H[i].stream = H[k].stream => H[i].level <= H[k].base
    <3> SUFFICES ASSUME NEW i \in 1 .. N, NEW k \in 1 .. N, i < k, H[i].stream = H[k].stream
                 PROVE  H[i].level <= H[k].base
      OBVIOUS
    <3>1. i # N /\ H[i] = G[i]
      BY <1>1, <1>3
    <3> QED BY <2>2, <2>7, <3>1
  <2>5. \A k \in 1 .. N : k < N => k + 1 \in 1 .. N /\ H[k].top = G[k].top
    BY <1>3, <1>1
  <2>6. \A k \in 1 .. N : k < N /\ H[k + 1].stream = H[k].stream => H[k + 1].base = H[k].top
    BY <2>2, <2>5, <2>7
  <2> QED BY <1>1, <1>3, <2>1, <2>3, <2>4, <2>6 DEF Ordered
<1>11. Ends(H, new)
  <2>1. ASSUME NEW k \in 1 .. N, Uppermost(H, k) PROVE End(new[H[k].stream]) = H[k].top
    <3>1. CASE k = N
      BY <1>1, <1>2, <1>3, <1>6, <1>9, <3>1
    <3>2. CASE k # N
      <4>1. k + 1 \in 1 .. N /\ H[k] = G[k] /\ H[k + 1].stream = G[k + 1].stream
        BY <1>1, <1>3, <3>2
      <4>2. Uppermost(G, k)
        BY <1>3, <2>1, <3>2, <4>1 DEF Uppermost
      <4>3. G[k].stream # W /\ End(os[G[k].stream]) = G[k].top
        BY <1>1, <3>2, <4>2 DEF Layered, Ends
      <4> QED BY <1>1, <1>6, <4>1, <4>3
    <3> QED BY <3>1, <3>2
  <2> QED BY <1>1, <1>2, <1>3, <1>6, <2>1 DEF Ends
<1>12. Kept(H, new, outside)
  <2>1. PICK f \in Nat : f = G[N].level /\ G[N].base <= f
    BY <1>1, <1>2
  <2>2. \A i \in 0 .. m : End(os[W]) + Depth(text, i) >= f
    BY <1>1, <1>8, <2>1 DEF Joined
  <2>3. \A s \in G[N].needs : s \in outside[W] \/ Sees(os[W], f, s)
    BY <1>1, <1>2, <2>1 DEF Layered, Kept
  <2>4. m = Len(text)
    BY <1>8 DEF Joined
  <2>5. PICK T : T = [item : ItemKinds, node : Nodes \cup {Main}, scope : ScopeNumbers,
                      arg : ScopeNumbers]
    OBVIOUS
  <2>6. PICK t : t = os[W] /\ t \in Seq(T) /\ text \in Seq(T) /\ last = t \o text
    BY <1>4, <1>5, <2>5 DEF Text
  <2>7. Tidy(last, outside[W])
    <3>1. Tidy(t, outside[W])
      BY <1>1, <1>2, <2>6 DEF Layered, Kept
    <3>2. PICK E, X : E = outside[W] /\ X = G[N].needs
      OBVIOUS
    <3>3. \A s \in X : s \in E \/ Sees(t, f, s)
      BY <2>3, <2>6, <3>2
    <3>4. \A i \in 0 .. Len(text) : End(t) + Depth(text, i) >= f
      BY <2>2, <2>4, <2>6
    <3>5. Tidy(t, E) /\ Tidy(text, X) /\ f \in Int
      BY <3>1, <3>2
    <3> QED BY ONLY <2>6, <3>2, <3>3, <3>4, <3>5, TidyJoined
  <2>8. \A d \in Int : \A s : d <= f /\ Sees(t, d, s) => Sees(last, d, s)
    <3>1. \A i \in 0 .. Len(text) : End(t) + Depth(text, i) >= f
      BY <2>2, <2>4, <2>6
    <3>2. f \in Int
      OBVIOUS
    <3> SUFFICES ASSUME NEW s, NEW d \in Int, d <= f, Sees(t, d, s) PROVE Sees(last, d, s)
      OBVIOUS
    <3>3. d \in Int /\ d <= f /\ Sees(t, d, s)
      OBVIOUS
    <3> QED BY ONLY <2>6, <3>1, <3>2, <3>3, SeesFurther
  <2>9. \A d \in Int : \A s : Sees(text, d, s) => Sees(last, End(t) + d, s)
    BY <2>6, SeesJoined
  <2>10. \A i \in 0 .. Len(last) : Depth(last, i) >= 0
    <3>1. /\ \A i \in 0 .. n : Depth(last, i) = Depth(t, i) /\ Depth(t, i) >= 0
          /\ \A i \in 0 .. m : Depth(last, n + i) >= 0
      <4>1. n = Len(os[W]) /\ \A i \in 0 .. n : Depth(last, i) = Depth(os[W], i)
        BY <1>8 DEF Joined
      <4>2. \A i \in 0 .. n : Depth(os[W], i) >= 0
        BY <1>1, <1>2, <4>1 DEF Layered, Kept
      <4>3. \A i \in 0 .. m : Depth(last, n + i) = End(os[W]) + Depth(text, i)
        BY <1>8 DEF Joined
      <4>4. \A i \in 0 .. m : Depth(last, n + i) >= 0
        BY <1>1, <1>2, <1>9, <2>1, <2>2, <4>3
      <4> QED BY <2>6, <4>1, <4>2, <4>4
    <3>2. Len(last) = n + m
      BY <1>8 DEF Joined
    <3>3. \A i \in 0 .. n + m : i \in 0 .. n \/ (i - n \in 0 .. m /\ i = n + (i - n))
      OBVIOUS
    <3> QED BY ONLY <3>1, <3>2, <3>3
  <2>11. ASSUME NEW k \in 1 .. N, NEW s \in H[k].needs
         PROVE  s \in outside[H[k].stream] \/ Sees(new[H[k].stream], H[k].level, s)
    <3>1. CASE k # N
      <4>1. H[k] = G[k] /\ G[k].stream \in 1 .. W
        BY <1>1, <1>3, <3>1
      <4>2. s \in outside[G[k].stream] \/ Sees(os[G[k].stream], G[k].level, s)
        BY <1>1, <2>11, <4>1 DEF Layered, Kept
      <4>3. CASE G[k].stream # W
        BY <1>6, <4>1, <4>2, <4>3
      <4>4. CASE G[k].stream = W
        <5>1. k < N /\ G[k].stream = G[N].stream
          BY <1>1, <3>1, <4>4
        <5>2. G[k].level <= G[N].base
          BY <1>1, <1>2, <5>1 DEF Layered, Ordered
        <5>3. G[k].level \in Int /\ G[k].level <= f
          BY <1>1, <1>2, <2>1, <5>2
        <5> QED BY <1>2, <1>6, <2>6, <2>8, <4>1, <4>2, <4>4, <5>3
      <4> QED BY <4>3, <4>4
    <3>2. CASE k = N
      <4>1. H[k] = r /\ new[W] = last /\ r.level \in Int /\ f <= r.level
        <5>1. H[k] = r /\ new[W] = last
          BY <1>2, <1>3, <1>6, <3>2
        <5>2. r.level \in Nat
          BY DEF Layers
        <5> QED BY <2>1, <5>1, <5>2
      <4>2. CASE s \in G[N].needs
        <5>1. s \in outside[W] \/ Sees(last, f, s)
          BY <2>1, <2>3, <2>6, <2>8, <4>2
        <5>2. Sees(last, f, s) => Sees(last, r.level, s)
          <6>1. DOMAIN last \subseteq Nat /\ f \in Int
            BY <1>8 DEF Joined
          <6> QED BY <4>1, <6>1, TidyShort
        <5> QED BY <4>1, <5>1, <5>2
      <4>3. CASE s \notin G[N].needs
        <5>1. Sees(text, r.level - G[N].top, s)
          BY <2>11, <4>1, <4>3
        <5>2. PICK d \in Int : d = r.level - G[N].top /\ End(t) + d = r.level
          BY <1>1, <1>2, <2>6, <4>1
        <5>3. Sees(last, r.level, s)
          BY <2>9, <5>1, <5>2
        <5> QED BY <4>1, <5>3
      <4> QED BY <4>2, <4>3
    <3> QED BY <3>1, <3>2
  <2>12. \A w \in 1 .. W : /\ Tidy(new[w], outside[w])
                           /\ \A i \in 0 .. Len(new[w]) : Depth(new[w], i) >= 0
    BY <1>1, <1>6, <2>7, <2>10 DEF Layered, Kept
  <2>13. outside \in Seq(SUBSET Nat) /\ Len(outside) = Len(new)
    BY <1>1, <1>6 DEF Layered, Kept
  <2> QED BY <1>3, <1>6, <2>11, <2>12, <2>13 DEF Kept
<1> QED BY <1>10, <1>11, <1>12 DEF Layered

\* The layer of a frame that is done needs nothing any more.
LEMMA LayersLower ==
  ASSUME NEW G, NEW os, NEW outside, Layered(G, os, outside),
         NEW N, N = Len(G),
         NEW r \in Layers, r.stream = G[N].stream, r.base = G[N].base, r.level = r.base,
         r.top = G[N].top, r.needs = {},
         NEW H, H = [G EXCEPT ![N] = r]
  PROVE  Layered(H, os, outside)
<1>1. PICK W \in Nat \ {0} : Sized(G, N, os, W, outside) /\ N \in Nat \ {0}
  <2>1. PICK n, w \in Nat \ {0} : Sized(G, n, os, w, outside)
    BY LayerFacts
  <2> QED BY <2>1 DEF Sized
<1>2. /\ N \in 1 .. N /\ DOMAIN G = 1 .. N /\ Len(G) = N
      /\ \A k \in 1 .. N : /\ G[k] \in Layers /\ G[k].stream \in 1 .. W
                           /\ G[k].base \in Nat /\ G[k].level \in Nat /\ G[k].top \in Nat
                           /\ G[k].base <= G[k].level /\ G[k].level <= G[k].top
  BY <1>1 DEF Sized
<1>3. /\ H \in Seq(Layers) /\ Len(H) = N /\ DOMAIN H = 1 .. N
      /\ \A k \in 1 .. N : H[k] = IF k = N THEN r ELSE G[k]
  <2>1. G \in Seq(Layers)
    BY DEF Layered, Ordered
  <2> QED BY <1>1, <1>2, <2>1, Replaced
<1>4. /\ \A k \in 1 .. N : H[k].stream = G[k].stream /\ H[k].base = G[k].base
                            /\ H[k].top = G[k].top /\ (k # N => H[k] = G[k])
  BY <1>3
<1>5. \A k \in 1 .. N : k < N => k + 1 \in 1 .. N
  BY <1>1
<1>6. Ordered(H)
  <2>1. /\ \A i, k \in 1 .. N : i <= k => G[i].stream <= G[k].stream
        /\ \A i, k \in 1 .. N : i < k /\ G[i].stream = G[k].stream => G[i].level <= G[k].base
        /\ \A k \in 1 .. N : k < N /\ G[k + 1].stream = G[k].stream => G[k + 1].base = G[k].top
    BY <1>2 DEF Layered, Ordered
  <2>2. \A i, k \in 1 .. N : i <= k => H[i].stream <= H[k].stream
    BY <1>4, <2>1
  <2>3. \A i, k \in 1 .. N : i < k /\ H[i].stream = H[k].stream => H[i].level <= H[k].base
    <3> SUFFICES ASSUME NEW i \in 1 .. N, NEW k \in 1 .. N, i < k, H[i].stream = H[k].stream
                 PROVE  H[i].level <= H[k].base
      OBVIOUS
    <3>1. i # N
      BY <1>1
    <3> QED BY <1>4, <2>1, <3>1
  <2>4. \A k \in 1 .. N : k < N /\ H[k + 1].stream = H[k].stream => H[k + 1].base = H[k].top
    BY <1>4, <1>5, <2>1
  <2>5. \A k \in 1 .. N : H[k].base <= H[k].level /\ H[k].level <= H[k].top
    BY <1>2, <1>3
  <2> QED BY <1>1, <1>3, <2>2, <2>3, <2>4, <2>5 DEF Ordered
<1>7. Ends(H, os)
  <2>1. \A k \in 1 .. N : Uppermost(H, k) => Uppermost(G, k)
    BY <1>2, <1>3, <1>4, <1>5 DEF Uppermost
  <2>2. \A k \in 1 .. N : Uppermost(H, k) => End(os[H[k].stream]) = H[k].top
    <3>1. \A k \in 1 .. N : Uppermost(G, k) => End(os[G[k].stream]) = G[k].top
      BY <1>2 DEF Layered, Ends
    <3> QED BY <1>4, <2>1, <3>1
  <2>3. os \in Seq(Text) /\ os # << >> /\ H[Len(H)].stream = Len(os)
    BY <1>2, <1>3, <1>4 DEF Layered, Ends
  <2>4. \A k \in 1 .. N : H[k].stream \in DOMAIN os
    BY <1>2, <1>4 DEF Layered, Ends
  <2> QED BY <1>3, <2>2, <2>3, <2>4 DEF Ends
<1>8. Kept(H, os, outside)
  <2>1. ASSUME NEW k \in 1 .. N, NEW s \in H[k].needs
        PROVE  s \in outside[H[k].stream] \/ Sees(os[H[k].stream], H[k].level, s)
    <3>1. k # N
      BY <1>3, <2>1
    <3>2. H[k] = G[k]
      BY <1>4, <3>1
    <3> QED BY <1>2, <2>1, <3>2 DEF Layered, Kept
  <2> QED BY <1>3, <2>1 DEF Layered, Kept
<1> QED BY <1>6, <1>7, <1>8 DEF Layered

\* A frame that left the stream as deep as it found it is popped.
LEMMA LayersDrop ==
  ASSUME NEW G, NEW os, NEW outside, Layered(G, os, outside),
         NEW N, N = Len(G), N > 1, G[N - 1].stream = G[N].stream, G[N].top = G[N].base,
         NEW H, H = Outer(G)
  PROVE  Layered(H, os, outside)
<1>1. PICK W \in Nat \ {0} : Sized(G, N, os, W, outside) /\ N \in Nat \ {0}
  <2>1. PICK n, w \in Nat \ {0} : Sized(G, n, os, w, outside)
    BY LayerFacts
  <2> QED BY <2>1 DEF Sized
<1>2. /\ N \in 1 .. N /\ DOMAIN G = 1 .. N /\ Len(G) = N /\ Len(os) = W
      /\ \A k \in 1 .. N : /\ G[k] \in Layers /\ G[k].stream \in 1 .. W
                           /\ G[k].base \in Nat /\ G[k].level \in Nat /\ G[k].top \in Nat
                           /\ G[k].base <= G[k].level /\ G[k].level <= G[k].top
      /\ G[N].stream = W /\ End(os[W]) = G[N].top
  BY <1>1 DEF Sized
<1>3. /\ H \in Seq(Layers) /\ Len(H) = N - 1 /\ DOMAIN H = 1 .. N - 1
      /\ \A k \in 1 .. N - 1 : H[k] = G[k] /\ k \in 1 .. N
  <2>1. G \in Seq(Layers) /\ G # << >>
    BY DEF Layered, Ordered
  <2>2. /\ H \in Seq(Layers) /\ Len(H) = Len(G) - 1 /\ DOMAIN H = 1 .. Len(G) - 1
        /\ \A k \in 1 .. Len(G) - 1 : H[k] = G[k]
    BY ONLY <2>1, H = Outer(G), WithoutLast
  <2> QED BY <1>1, <1>2, <2>2
<1>4. \A k \in 1 .. N - 1 : k < N - 1 => k + 1 \in 1 .. N - 1
  BY <1>1
<1>5. N - 1 \in 1 .. N - 1 /\ N - 1 < N /\ (N - 1) + 1 = N /\ H # << >>
  BY <1>1, <1>3
<1>6. Ordered(H)
  <2>1. /\ \A k \in 1 .. N : G[k].base <= G[k].level /\ G[k].level <= G[k].top
        /\ \A i, k \in 1 .. N : i <= k => G[i].stream <= G[k].stream
        /\ \A i, k \in 1 .. N : i < k /\ G[i].stream = G[k].stream => G[i].level <= G[k].base
        /\ \A k \in 1 .. N : k < N /\ G[k + 1].stream = G[k].stream => G[k + 1].base = G[k].top
    BY <1>2 DEF Layered, Ordered
  <2>2. /\ \A i, k \in 1 .. N - 1 : i <= k => H[i].stream <= H[k].stream
        /\ \A k \in 1 .. N - 1 : H[k].base <= H[k].level /\ H[k].level <= H[k].top
    BY <1>3, <2>1
  <2>3. ASSUME NEW i \in 1 .. N - 1, NEW k \in 1 .. N - 1, i < k, H[i].stream = H[k].stream
        PROVE  H[i].level <= H[k].base
    <3>1. i \in 1 .. N /\ k \in 1 .. N /\ H[i] = G[i] /\ H[k] = G[k]
      BY <1>3
    <3> QED BY <2>1, <2>3, <3>1
  <2>4. \A k \in 1 .. N - 1 : k < N - 1 /\ H[k + 1].stream = H[k].stream => H[k + 1].base = H[k].top
    <3>1. \A k \in 1 .. N - 1 : k < N - 1 => k < N /\ H[k] = G[k] /\ H[k + 1] = G[k + 1]
      BY <1>1, <1>3, <1>4
    <3> QED BY <1>3, <2>1, <3>1
  <2> QED BY <1>3, <1>5, <2>2, <2>3, <2>4 DEF Ordered
<1>7. Ends(H, os)
  <2>1. \A k \in 1 .. N - 1 : k # N - 1 /\ Uppermost(H, k) => Uppermost(G, k)
    <3>1. \A k \in 1 .. N - 1 : k # N - 1 => k < N - 1 /\ H[k] = G[k] /\ H[k + 1] = G[k + 1]
      BY <1>1, <1>3, <1>4
    <3> QED BY <1>3, <3>1 DEF Uppermost
  <2>2. End(os[G[N - 1].stream]) = G[N - 1].top
    BY <1>2, <1>5 DEF Layered, Ordered
  <2>3. ASSUME NEW k \in 1 .. N - 1, Uppermost(H, k) PROVE End(os[H[k].stream]) = H[k].top
    BY <1>2, <1>3, <2>1, <2>2, <2>3 DEF Layered, Ends
  <2>4. H[Len(H)].stream = Len(os)
    BY <1>2, <1>3, <1>5
  <2> QED BY <1>2, <1>3, <2>3, <2>4 DEF Layered, Ends
<1>8. Kept(H, os, outside)
  BY <1>2, <1>3 DEF Layered, Kept
<1> QED BY <1>6, <1>7, <1>8 DEF Layered

\* A frame writes its last text, which takes the stream back to where it was.
LEMMA LayersPop ==
  ASSUME NEW G, NEW os, NEW outside, Layered(G, os, outside),
         NEW N, N = Len(G), N > 1, G[N - 1].stream = G[N].stream,
         NEW text \in Text, Tidy(text, {}),
         \A i \in 0 .. Len(text) : G[N].top + Depth(text, i) >= G[N].base,
         G[N].top + End(text) = G[N].base,
         NEW H, H = Outer(G),
         NEW new, new = [os EXCEPT ![Len(os)] = @ \o text]
  PROVE  Layered(H, new, outside)
<1>1. PICK W \in Nat \ {0} : Sized(G, N, os, W, outside) /\ N \in Nat \ {0}
  <2>1. PICK n, w \in Nat \ {0} : Sized(G, n, os, w, outside)
    BY LayerFacts
  <2> QED BY <2>1 DEF Sized
<1>2. /\ N \in 1 .. N /\ DOMAIN G = 1 .. N /\ Len(G) = N /\ Len(os) = W
      /\ G[N] \in Layers /\ G[N].stream \in 1 .. W
      /\ G[N].base \in Nat /\ G[N].level \in Nat /\ G[N].top \in Nat
      /\ G[N].base <= G[N].level /\ G[N].level <= G[N].top
      /\ G[N].stream = W
  BY <1>1 DEF Sized
<1>3. PICK r : r = [stream |-> W, base |-> G[N].base, level |-> G[N].base, top |-> G[N].top,
                    needs |-> {}]
  OBVIOUS
<1>4. PICK q : q = [stream |-> W, base |-> G[N].base, level |-> G[N].base, top |-> G[N].base,
                    needs |-> {}]
  OBVIOUS
<1>5. r \in Layers /\ q \in Layers
  BY <1>2, <1>3, <1>4 DEF Layers
<1>6. PICK G1 : G1 = [G EXCEPT ![N] = r]
  OBVIOUS
<1>7. PICK G2 : G2 = [G1 EXCEPT ![N] = q]
  OBVIOUS
<1>8. Layered(G1, os, outside)
  <2>1. r.stream = G[N].stream /\ r.base = G[N].base /\ r.level = r.base
        /\ r.top = G[N].top /\ r.needs = {}
    BY <1>2, <1>3
  <2> QED BY <1>5, <1>6, <2>1, LayersLower
<1>9. /\ G \in Seq(Layers) /\ G1 \in Seq(Layers) /\ Len(G1) = N
      /\ \A k \in 1 .. N : G1[k] = IF k = N THEN r ELSE G[k]
      /\ G2 \in Seq(Layers) /\ Len(G2) = N
      /\ \A k \in 1 .. N : G2[k] = IF k = N THEN q ELSE G[k]
  <2>1. G \in Seq(Layers)
    BY DEF Layered, Ordered
  <2>2. G1 \in Seq(Layers) /\ Len(G1) = N /\ DOMAIN G1 = 1 .. N
        /\ \A k \in 1 .. N : G1[k] = IF k = N THEN r ELSE G[k]
    BY <1>2, <1>5, <1>6, <2>1, Replaced
  <2>3. G2 \in Seq(Layers) /\ Len(G2) = N
        /\ \A k \in 1 .. N : G2[k] = IF k = N THEN q ELSE G1[k]
    BY <1>2, <1>5, <1>7, <2>2, Replaced
  <2> QED BY <2>1, <2>2, <2>3
<1>10. Layered(G2, new, outside)
  <2>1. G1[N] = r
    BY <1>2, <1>9
  <2>2. /\ Tidy(text, G1[N].needs)
        /\ \A i \in 0 .. Len(text) : G1[N].top + Depth(text, i) >= G1[N].level
        /\ q.stream = W /\ q.base = G1[N].base /\ G1[N].level <= q.level /\ q.level <= q.top
        /\ q.top = G1[N].top + End(text) /\ q.needs = {}
    BY <1>2, <1>3, <1>4, <2>1
  <2>3. W = Len(os) /\ N = Len(G1)
    BY <1>2, <1>9
  <2>4. \A s \in q.needs : s \in G1[N].needs \/ Sees(text, q.level - G1[N].top, s)
    BY <2>2
  <2>5. new = [os EXCEPT ![W] = @ \o text]
    BY <2>3
  <2>6. text \in Text /\ q \in Layers
    BY <1>5
  <2> QED BY ONLY <1>7, <1>8, <2>2, <2>3, <2>4, <2>5, <2>6, LayersWrite
<1>11. H = Outer(G2)
  <2>1. N \in Nat /\ N > 1
    BY <1>1
  <2>2. G # << >> /\ G2 # << >>
    BY <1>2, <1>9, <2>1
  <2>3. /\ H \in Seq(Layers) /\ DOMAIN H = 1 .. N - 1 /\ \A k \in 1 .. N - 1 : H[k] = G[k]
    BY <1>2, <1>9, <2>2, WithoutLast
  <2>4. PICK H2 : H2 = Outer(G2)
    OBVIOUS
  <2>5. /\ H2 \in Seq(Layers) /\ DOMAIN H2 = 1 .. N - 1 /\ \A k \in 1 .. N - 1 : H2[k] = G2[k]
    BY <1>9, <2>2, <2>4, WithoutLast
  <2>6. \A k \in 1 .. N - 1 : H[k] = H2[k]
    <3>1. \A k \in 1 .. N - 1 : k \in 1 .. N /\ k # N
      BY <2>1
    <3> QED BY <1>9, <2>3, <2>5, <3>1
  <2>7. H = [k \in 1 .. N - 1 |-> H[k]] /\ H2 = [k \in 1 .. N - 1 |-> H2[k]]
    BY <2>3, <2>5
  <2> QED BY <2>4, <2>6, <2>7
<1>12. Layered(H, new, outside)
  <2>1. G2[N].stream = W /\ G2[N].base = G[N].base /\ G2[N].top = G2[N].base
    BY <1>2, <1>4, <1>9
  <2>2. G2[N - 1].stream = G2[N].stream
    <3>1. N - 1 \in 1 .. N /\ N - 1 # N
      BY <1>1
    <3> QED BY <1>2, <1>9, <2>1, <3>1
  <2>3. N = Len(G2) /\ N > 1
    BY <1>9
  <2> QED BY <1>10, <1>11, <2>1, <2>2, <2>3, LayersDrop
<1> QED BY <1>12

\* A frame that is pushed starts where the stream ends, and needs no more than
\* the one below.
LEMMA LayersPush ==
  ASSUME NEW G, NEW os, NEW outside, Layered(G, os, outside),
         NEW N, N = Len(G),
         NEW r \in Layers, r.stream = G[N].stream, r.base = G[N].top, r.level = G[N].top,
         r.top = G[N].top, r.needs \subseteq G[N].needs,
         NEW H, H = Append(G, r)
  PROVE  Layered(H, os, outside)
<1>1. PICK W \in Nat \ {0} : Sized(G, N, os, W, outside) /\ N \in Nat \ {0}
  <2>1. PICK n, w \in Nat \ {0} : Sized(G, n, os, w, outside)
    BY LayerFacts
  <2> QED BY <2>1 DEF Sized
<1>2. /\ N \in 1 .. N /\ DOMAIN G = 1 .. N /\ Len(G) = N /\ Len(os) = W /\ DOMAIN os = 1 .. W
      /\ \A k \in 1 .. N : /\ G[k] \in Layers /\ G[k].stream \in 1 .. W
                           /\ G[k].base \in Nat /\ G[k].level \in Nat /\ G[k].top \in Nat
                           /\ G[k].base <= G[k].level /\ G[k].level <= G[k].top
      /\ G[N].stream = W /\ End(os[W]) = G[N].top
      /\ \A k \in 1 .. N : k # N /\ Uppermost(G, k) => G[k].stream # W
      /\ \A w \in 1 .. W : os[w] \in Text
  BY <1>1 DEF Sized
<1>3. /\ H \in Seq(Layers) /\ Len(H) = N + 1 /\ DOMAIN H = 1 .. N + 1
      /\ \A k \in 1 .. N : H[k] = G[k]
      /\ H[N + 1] = r
  <2>1. G \in Seq(Layers)
    BY DEF Layered, Ordered
  <2> QED BY <1>2, <2>1, WithOneMore
<1>4. \A k \in 1 .. N + 1 : k \in 1 .. N \/ k = N + 1
  BY <1>1
<1>5. /\ \A i, k \in 1 .. N : i <= k => G[i].stream <= G[k].stream
      /\ \A i, k \in 1 .. N : i < k /\ G[i].stream = G[k].stream => G[i].level <= G[k].base
      /\ \A k \in 1 .. N : k < N /\ G[k + 1].stream = G[k].stream => G[k + 1].base = G[k].top
  BY <1>2 DEF Layered, Ordered
<1>6. Ordered(H)
  <2>1. \A k \in 1 .. N + 1 : H[k].base <= H[k].level /\ H[k].level <= H[k].top
    BY <1>2, <1>3, <1>4
  <2>2. ASSUME NEW i \in 1 .. N + 1, NEW k \in 1 .. N + 1, i <= k
        PROVE  H[i].stream <= H[k].stream
    <3>1. CASE k \in 1 .. N
      <4>1. i \in 1 .. N
        BY <2>2, <3>1
      <4> QED BY <1>3, <1>5, <2>2, <3>1, <4>1
    <3>2. CASE k = N + 1
      <4>1. H[k].stream = W /\ H[i].stream \in 1 .. W
        BY <1>1, <1>2, <1>3, <1>4, <3>2
      <4> QED BY <4>1
    <3> QED BY <1>4, <3>1, <3>2
  <2>3. ASSUME NEW i \in 1 .. N + 1, NEW k \in 1 .. N + 1, i < k, H[i].stream = H[k].stream
        PROVE  H[i].level <= H[k].base
    <3>1. i \in 1 .. N /\ H[i] = G[i]
      BY <1>3, <1>4, <2>3
    <3>2. CASE k \in 1 .. N
      BY <1>3, <1>5, <2>3, <3>1, <3>2
    <3>3. CASE k = N + 1
      <4>1. H[k].base = G[N].top /\ H[k].stream = G[N].stream
        BY <1>3, <3>3
      <4>2. CASE i = N
        BY <1>2, <3>1, <4>1, <4>2
      <4>3. CASE i # N
        <5>1. i < N /\ G[i].stream = G[N].stream
          BY <2>3, <3>1, <4>1, <4>3
        <5>2. G[i].level <= G[N].base
          BY <1>2, <1>5, <3>1, <5>1
        <5>3. G[i].level \in Nat /\ G[N].base \in Nat /\ G[N].level \in Nat /\ G[N].top \in Nat
              /\ G[N].base <= G[N].level /\ G[N].level <= G[N].top
          BY <1>2, <3>1
        <5> QED BY <3>1, <4>1, <5>2, <5>3
      <4> QED BY <4>2, <4>3
    <3> QED BY <1>4, <3>2, <3>3
  <2>4. ASSUME NEW k \in 1 .. N + 1, k < N + 1, H[k + 1].stream = H[k].stream
        PROVE  H[k + 1].base = H[k].top
    <3>1. k \in 1 .. N /\ H[k] = G[k]
      BY <1>3, <1>4, <2>4
    <3>2. CASE k = N
      BY <1>3, <3>1, <3>2
    <3>3. CASE k # N
      <4>1. k < N /\ k + 1 \in 1 .. N
        BY <3>1, <3>3
      <4> QED BY <1>3, <1>5, <2>4, <3>1, <4>1
    <3> QED BY <3>2, <3>3
  <2>5. H # << >>
    BY <1>1, <1>3
  <2> QED BY <1>3, <2>1, <2>2, <2>3, <2>4, <2>5 DEF Ordered
<1>7. Ends(H, os)
  <2>1. ASSUME NEW k \in 1 .. N + 1, Uppermost(H, k) PROVE End(os[H[k].stream]) = H[k].top
    <3>1. CASE k = N + 1
      BY <1>2, <1>3, <3>1
    <3>2. CASE k = N
      <4>1. H[k + 1].stream = H[k].stream /\ k # Len(H)
        BY <1>2, <1>3, <3>2
      <4> QED BY <2>1, <4>1 DEF Uppermost
    <3>3. CASE k \in 1 .. N /\ k # N
      <4>1. k + 1 \in 1 .. N /\ k # N + 1
        BY <3>3
      <4>2. Uppermost(G, k)
        BY <1>2, <1>3, <2>1, <3>3, <4>1 DEF Uppermost
      <4> QED BY <1>2, <1>3, <3>3, <4>2 DEF Layered, Ends
    <3> QED BY <1>4, <3>1, <3>2, <3>3
  <2>2. \A k \in 1 .. N + 1 : H[k].stream \in DOMAIN os
    BY <1>2, <1>3, <1>4
  <2>3. H[Len(H)].stream = Len(os)
    BY <1>2, <1>3
  <2> QED BY <1>3, <2>1, <2>2, <2>3 DEF Layered, Ends
<1>8. Kept(H, os, outside)
  <2>1. ASSUME NEW k \in 1 .. N + 1, NEW s \in H[k].needs
        PROVE  s \in outside[H[k].stream] \/ Sees(os[H[k].stream], H[k].level, s)
    <3>1. CASE k \in 1 .. N
      BY <1>2, <1>3, <2>1, <3>1 DEF Layered, Kept
    <3>2. CASE k = N + 1
      <4>1. s \in G[N].needs /\ H[k].stream = W /\ H[k].level = G[N].top
        BY <1>2, <1>3, <2>1, <3>2
      <4>2. s \in outside[W] \/ Sees(os[W], G[N].level, s)
        BY <1>2, <4>1 DEF Layered, Kept
      <4>3. Sees(os[W], G[N].level, s) => Sees(os[W], G[N].top, s)
        <5>1. DOMAIN os[W] \subseteq Nat
          <6>1. os[W] \in Text
            BY <1>1, <1>2
          <6> QED BY <6>1 DEF Text
        <5>2. G[N].level \in Int /\ G[N].top \in Int /\ G[N].level <= G[N].top
          BY <1>2
        <5> QED BY <5>1, <5>2, TidyShort
      <4> QED BY <4>1, <4>2, <4>3
    <3> QED BY <1>4, <3>1, <3>2
  <2> QED BY <1>3, <2>1 DEF Layered, Kept
<1> QED BY <1>6, <1>7, <1>8 DEF Layered

\* A frame that is pushed writes to a stream of its own.
LEMMA LayersOpen ==
  ASSUME NEW G, NEW os, NEW outside, Layered(G, os, outside),
         NEW N, N = Len(G), NEW W, W = Len(os),
         NEW text \in Text, NEW E \in SUBSET Nat, Tidy(text, E), Balanced(text),
         NEW r \in Layers, r.stream = W + 1, r.base = 0, r.level = 0, r.top = 0,
         \A s \in r.needs : s \in E \/ Sees(text, 0, s),
         NEW H, H = Append(G, r), NEW new, new = Append(os, text),
         NEW out, out = Append(outside, E)
  PROVE  Layered(H, new, out)
<1>1. Sized(G, N, os, W, outside) /\ N \in Nat \ {0} /\ W \in Nat \ {0}
  <2>1. PICK n, w \in Nat \ {0} : Sized(G, n, os, w, outside)
    BY LayerFacts
  <2> QED BY <2>1 DEF Sized
<1>2. /\ N \in 1 .. N /\ DOMAIN G = 1 .. N /\ DOMAIN os = 1 .. W /\ Len(outside) = W
      /\ \A k \in 1 .. N : G[k].stream \in 1 .. W
      /\ \A k \in 1 .. N : G[k].base <= G[k].level /\ G[k].level <= G[k].top
      /\ G[N].stream = W /\ End(os[W]) = G[N].top
      /\ \A k \in 1 .. N : k # N /\ Uppermost(G, k) => G[k].stream # W
  BY <1>1 DEF Sized
<1>3. /\ H \in Seq(Layers) /\ Len(H) = N + 1 /\ DOMAIN H = 1 .. N + 1
      /\ \A k \in 1 .. N : H[k] = G[k]
      /\ H[N + 1] = r
  <2>1. G \in Seq(Layers)
    BY DEF Layered, Ordered
  <2> QED BY <1>2, <2>1, WithOneMore
<1>4. /\ new \in Seq(Text) /\ Len(new) = W + 1 /\ DOMAIN new = 1 .. W + 1
      /\ \A k \in 1 .. W : new[k] = os[k]
      /\ new[W + 1] = text
  <2>1. os \in Seq(Text)
    BY DEF Layered, Ends
  <2> QED BY <1>2, <2>1, WithOneMore
<1>5. /\ out \in Seq(SUBSET Nat) /\ Len(out) = W + 1
      /\ \A k \in 1 .. W : out[k] = outside[k]
      /\ out[W + 1] = E
  <2>1. outside \in Seq(SUBSET Nat)
    BY DEF Layered, Kept
  <2> QED BY <1>2, <2>1, WithOneMore
<1>6. \A k \in 1 .. N + 1 : k \in 1 .. N \/ k = N + 1
  BY <1>1
<1>7. /\ \A i, k \in 1 .. N : i <= k => G[i].stream <= G[k].stream
      /\ \A i, k \in 1 .. N : i < k /\ G[i].stream = G[k].stream => G[i].level <= G[k].base
      /\ \A k \in 1 .. N : k < N /\ G[k + 1].stream = G[k].stream => G[k + 1].base = G[k].top
  BY <1>2 DEF Layered, Ordered, Sized
<1>8. \A k \in 1 .. N : H[k].stream \in 1 .. W /\ H[k].stream < W + 1 /\ H[k].stream # W + 1
  BY <1>1, <1>2, <1>3
<1>9. Ordered(H)
  <2>1. \A k \in 1 .. N + 1 : H[k].base <= H[k].level /\ H[k].level <= H[k].top
    BY <1>2, <1>3, <1>6
  <2>2. ASSUME NEW i \in 1 .. N + 1, NEW k \in 1 .. N + 1, i <= k
        PROVE  H[i].stream <= H[k].stream
    <3>1. CASE k \in 1 .. N
      <4>1. i \in 1 .. N
        BY <2>2, <3>1
      <4> QED BY <1>3, <1>7, <2>2, <3>1, <4>1
    <3>2. CASE k = N + 1
      <4>1. H[k].stream = W + 1 /\ (i \in 1 .. N \/ i = N + 1)
        BY <1>3, <1>6, <3>2
      <4> QED BY <1>1, <1>3, <1>8, <4>1
    <3> QED BY <1>6, <3>1, <3>2
  <2>3. ASSUME NEW i \in 1 .. N + 1, NEW k \in 1 .. N + 1, i < k, H[i].stream = H[k].stream
        PROVE  H[i].level <= H[k].base
    <3>1. i \in 1 .. N /\ H[i] = G[i]
      BY <1>3, <1>6, <2>3
    <3>2. k \in 1 .. N
      BY <1>3, <1>6, <1>8, <2>3, <3>1
    <3> QED BY <1>3, <1>7, <2>3, <3>1, <3>2
  <2>4. ASSUME NEW k \in 1 .. N + 1, k < N + 1, H[k + 1].stream = H[k].stream
        PROVE  H[k + 1].base = H[k].top
    <3>1. k \in 1 .. N /\ H[k] = G[k]
      BY <1>3, <1>6, <2>4
    <3>2. k # N
      BY <1>3, <1>8, <2>4, <3>1
    <3>3. k < N /\ k + 1 \in 1 .. N
      BY <3>1, <3>2
    <3> QED BY <1>3, <1>7, <2>4, <3>1, <3>3
  <2>5. H # << >>
    BY <1>1, <1>3
  <2> QED BY <1>3, <2>1, <2>2, <2>3, <2>4, <2>5 DEF Ordered
<1>10. Ends(H, new)
  <2>1. ASSUME NEW k \in 1 .. N + 1, Uppermost(H, k) PROVE End(new[H[k].stream]) = H[k].top
    <3>1. CASE k = N + 1
      BY <1>3, <1>4, <3>1 DEF Balanced
    <3>2. CASE k \in 1 .. N
      <4>1. Uppermost(G, k)
        <5>1. k # N => k + 1 \in 1 .. N /\ k # N + 1
          BY <3>2
        <5> QED BY <1>3, <2>1, <3>2, <5>1 DEF Uppermost
      <4>2. End(os[G[k].stream]) = G[k].top
        BY <1>2, <3>2, <4>1 DEF Layered, Ends
      <4> QED BY <1>2, <1>3, <1>4, <3>2, <4>2
    <3> QED BY <1>6, <3>1, <3>2
  <2>2. \A k \in 1 .. N + 1 : H[k].stream \in DOMAIN new
    <3>1. \A w \in 1 .. W : w \in 1 .. W + 1
      BY <1>1
    <3>2. W + 1 \in 1 .. W + 1
      BY <1>1
    <3> QED BY <1>3, <1>4, <1>6, <1>8, <3>1, <3>2
  <2>3. H[Len(H)].stream = Len(new) /\ new # << >>
    BY <1>1, <1>3, <1>4
  <2> QED BY <1>3, <1>4, <2>1, <2>2, <2>3 DEF Ends
<1>11. Kept(H, new, out)
  <2>1. ASSUME NEW k \in 1 .. N + 1, NEW s \in H[k].needs
        PROVE  s \in out[H[k].stream] \/ Sees(new[H[k].stream], H[k].level, s)
    <3>1. CASE k \in 1 .. N
      <4>1. s \in outside[G[k].stream] \/ Sees(os[G[k].stream], G[k].level, s)
        BY <1>2, <1>3, <2>1, <3>1 DEF Layered, Kept
      <4> QED BY <1>2, <1>3, <1>4, <1>5, <3>1, <4>1
    <3>2. CASE k = N + 1
      BY <1>3, <1>4, <1>5, <2>1, <3>2
    <3> QED BY <1>6, <3>1, <3>2
  <2>2. ASSUME NEW w \in 1 .. W + 1
        PROVE  Tidy(new[w], out[w]) /\ \A i \in 0 .. Len(new[w]) : Depth(new[w], i) >= 0
    <3>1. CASE w \in 1 .. W
      <4>1. Tidy(os[w], outside[w]) /\ \A i \in 0 .. Len(os[w]) : Depth(os[w], i) >= 0
        BY <1>2, <3>1 DEF Layered, Kept
      <4>2. new[w] = os[w] /\ out[w] = outside[w]
        BY <1>4, <1>5, <3>1
      <4> QED BY <4>1, <4>2
    <3>2. CASE w = W + 1
      <4>1. new[w] = text /\ out[w] = E
        BY <1>4, <1>5, <3>2
      <4>2. \A i \in 0 .. Len(text) : Depth(text, i) >= 0
        BY DEF Balanced
      <4> QED BY <4>1, <4>2
    <3>3. w \in 1 .. W \/ w = W + 1
      BY <1>1
    <3> QED BY <3>1, <3>2, <3>3
  <2> QED BY <1>3, <1>4, <1>5, <2>1, <2>2 DEF Kept
<1> QED BY <1>9, <1>10, <1>11 DEF Layered

\* The frame a stream was opened for is popped.
LEMMA LayersClose ==
  ASSUME NEW G, NEW os, NEW outside, Layered(G, os, outside),
         NEW N, N = Len(G), NEW W, W = Len(os), N > 1, G[N - 1].stream = W - 1,
         NEW H, H = Outer(G), NEW new, new = Outer(os), NEW out, out = Outer(outside)
  PROVE  Layered(H, new, out)
<1>1. Sized(G, N, os, W, outside) /\ N \in Nat \ {0} /\ W \in Nat \ {0}
  <2>1. PICK n, w \in Nat \ {0} : Sized(G, n, os, w, outside)
    BY LayerFacts
  <2> QED BY <2>1 DEF Sized
<1>2. /\ N \in 1 .. N /\ DOMAIN G = 1 .. N /\ DOMAIN os = 1 .. W /\ Len(outside) = W
      /\ \A k \in 1 .. N : G[k].stream \in 1 .. W
      /\ \A k \in 1 .. N : G[k].base <= G[k].level /\ G[k].level <= G[k].top
      /\ G[N].stream = W
  <2>1. N \in 1 .. N
    BY <1>1
  <2> QED BY <1>1, <2>1 DEF Sized
<1>3. /\ G \in Seq(Layers) /\ G # << >> /\ os \in Seq(Text) /\ os # << >>
      /\ outside \in Seq(SUBSET Nat) /\ outside # << >>
  <2>1. outside # << >>
    BY <1>1, <1>2
  <2> QED BY <2>1 DEF Layered, Ordered, Ends, Kept
<1>4. /\ H \in Seq(Layers) /\ Len(H) = N - 1 /\ DOMAIN H = 1 .. N - 1
      /\ \A k \in 1 .. N - 1 : H[k] = G[k] /\ k \in 1 .. N
  <2>1. /\ H \in Seq(Layers) /\ Len(H) = Len(G) - 1 /\ DOMAIN H = 1 .. Len(G) - 1
        /\ \A k \in 1 .. Len(G) - 1 : H[k] = G[k]
    BY ONLY <1>3, H = Outer(G), WithoutLast
  <2> QED BY <1>1, <2>1
<1>5. /\ new \in Seq(Text) /\ Len(new) = W - 1 /\ DOMAIN new = 1 .. W - 1
      /\ \A k \in 1 .. W - 1 : new[k] = os[k] /\ k \in 1 .. W
  <2>1. /\ new \in Seq(Text) /\ Len(new) = Len(os) - 1 /\ DOMAIN new = 1 .. Len(os) - 1
        /\ \A k \in 1 .. Len(os) - 1 : new[k] = os[k]
    BY ONLY <1>3, new = Outer(os), WithoutLast
  <2> QED BY <1>1, <2>1
<1>6. /\ out \in Seq(SUBSET Nat) /\ Len(out) = W - 1
      /\ \A k \in 1 .. W - 1 : out[k] = outside[k]
  <2>1. /\ out \in Seq(SUBSET Nat) /\ Len(out) = Len(outside) - 1
        /\ \A k \in 1 .. Len(outside) - 1 : out[k] = outside[k]
    BY ONLY <1>3, out = Outer(outside), WithoutLast
  <2> QED BY <1>1, <1>2, <2>1
<1>7. /\ \A i, k \in 1 .. N : i <= k => G[i].stream <= G[k].stream
      /\ \A i, k \in 1 .. N : i < k /\ G[i].stream = G[k].stream => G[i].level <= G[k].base
      /\ \A k \in 1 .. N : k < N /\ G[k + 1].stream = G[k].stream => G[k + 1].base = G[k].top
  BY <1>2 DEF Layered, Ordered, Sized
<1>8. N - 1 \in 1 .. N - 1 /\ N - 1 \in 1 .. N /\ (N - 1) + 1 = N
  BY <1>1
<1>9. \A k \in 1 .. N - 1 : H[k].stream \in 1 .. W - 1
  <2> SUFFICES ASSUME NEW k \in 1 .. N - 1 PROVE H[k].stream \in 1 .. W - 1
    OBVIOUS
  <2>1. G[k].stream <= W - 1 /\ G[k].stream \in 1 .. W /\ H[k] = G[k]
    <3>1. k \in 1 .. N /\ k <= N - 1
      BY <1>1
    <3> QED BY <1>2, <1>4, <1>7, <1>8, <3>1
  <2> QED BY <1>1, <2>1
<1>10. Ordered(H)
  <2>1. /\ \A k \in 1 .. N - 1 : H[k].base <= H[k].level /\ H[k].level <= H[k].top
        /\ \A i, k \in 1 .. N - 1 : i <= k => H[i].stream <= H[k].stream
    BY <1>2, <1>4, <1>7
  <2>2. ASSUME NEW i \in 1 .. N - 1, NEW k \in 1 .. N - 1, i < k, H[i].stream = H[k].stream
        PROVE  H[i].level <= H[k].base
    <3>1. i \in 1 .. N /\ k \in 1 .. N /\ H[i] = G[i] /\ H[k] = G[k]
      BY <1>4
    <3> QED BY <1>7, <2>2, <3>1
  <2>3. ASSUME NEW k \in 1 .. N - 1, k < N - 1, H[k + 1].stream = H[k].stream
        PROVE  H[k + 1].base = H[k].top
    <3>1. k \in 1 .. N /\ k < N /\ k + 1 \in 1 .. N - 1
      BY <1>1, <2>3
    <3>2. H[k] = G[k] /\ H[k + 1] = G[k + 1]
      BY <1>4, <3>1
    <3> QED BY <1>7, <2>3, <3>1, <3>2
  <2>4. H # << >>
    BY <1>4, <1>8
  <2> QED BY <1>4, <2>1, <2>2, <2>3, <2>4 DEF Ordered
<1>11. Ends(H, new)
  <2>1. ASSUME NEW k \in 1 .. N - 1, Uppermost(H, k) PROVE End(new[H[k].stream]) = H[k].top
    <3>1. Uppermost(G, k)
      <4>1. CASE k = N - 1
        BY <1>1, <1>2, <1>8, <4>1 DEF Uppermost
      <4>2. CASE k # N - 1
        <5>1. k + 1 \in 1 .. N - 1
          BY <1>1, <4>2
        <5>2. H[k] = G[k] /\ H[k + 1] = G[k + 1]
          BY <1>4, <5>1
        <5> QED BY <1>4, <2>1, <4>2, <5>2 DEF Uppermost
      <4> QED BY <4>1, <4>2
    <3>2. H[k] = G[k] /\ k \in 1 .. N /\ End(os[G[k].stream]) = G[k].top
      BY <1>2, <1>4, <3>1 DEF Layered, Ends
    <3> QED BY <1>5, <1>9, <3>2
  <2>2. H[Len(H)].stream = Len(new) /\ new # << >>
    <3>1. H[Len(H)].stream = Len(new)
      BY <1>4, <1>5, <1>8
    <3>2. W - 1 # 0
      BY <1>2, <1>8, <1>1
    <3> QED BY <1>5, <3>1, <3>2
  <2> QED BY <1>4, <1>5, <1>9, <2>1, <2>2 DEF Ends
<1>12. Kept(H, new, out)
  <2>1. ASSUME NEW k \in 1 .. N - 1, NEW s \in H[k].needs
        PROVE  s \in out[H[k].stream] \/ Sees(new[H[k].stream], H[k].level, s)
    <3>1. H[k] = G[k] /\ k \in 1 .. N
      BY <1>4
    <3>2. s \in outside[G[k].stream] \/ Sees(os[G[k].stream], G[k].level, s)
      BY <1>2, <2>1, <3>1 DEF Layered, Kept
    <3> QED BY <1>5, <1>6, <1>9, <3>1, <3>2
  <2>2. \A w \in 1 .. W - 1 : /\ Tidy(new[w], out[w])
                              /\ \A i \in 0 .. Len(new[w]) : Depth(new[w], i) >= 0
    BY <1>2, <1>5, <1>6 DEF Layered, Kept
  <2> QED BY <1>4, <1>5, <1>6, <2>1, <2>2 DEF Kept
<1> QED BY <1>10, <1>11, <1>12 DEF Layered

-----------------------------------------------------------------------------
(* The layers of the call stack.                                           *)

\* The blocks frame f has opened where it goes on, and those its object is in.
Blocks(f) ==
  IF \/ f.kind = "For" \/ (f.kind = "Let" /\ HasBody(f.node))
     \/ /\ f.next > 2
        /\ f.kind \in {"IfThen", "While"} \/ (f.kind = "IfThenElse" /\ ~ f.inline)
  THEN 1 ELSE 0
Raised(f) == IF f.kind = "Let" /\ HasBody(f.node) THEN 1 ELSE 0

\* Compiler c needs no objects but those of S.
Suited(S, c) == Closed(S, c) /\ Tidy(c.lvalue, S) /\ Balanced(c.lvalue)

\* Layer k is that of frame k; it needs what the frame's Compiler needs; and
\* no text but the left side of an assignment counts on objects from outside.
Placed(G, writing) ==
  \A k \in 1 .. Len(frames) :
    /\ G[k].stream = writing[k]
    /\ G[k].level = G[k].base + Raised(frames[k])
    /\ G[k].top = G[k].base + Blocks(frames[k])
Provided(G, using) ==
  /\ \A k \in 1 .. Len(frames) : Suited(G[k].needs, compilers[using[k]])
  /\ \A i, k \in 1 .. Len(frames) : using[i] = using[k] => G[i].needs = G[k].needs
Lent(G, outside, writing) ==
  /\ outside[1] = {}
  /\ \A k \in 1 .. Len(frames) :
       /\ frames[k].kind = "FunctionDeclaration" => outside[writing[k]] = {}
       /\ OnLeftSideAt(k) => /\ outside[writing[k]] = G[k].needs /\ G[k].base = 0
                             /\ G[k - 1].needs = G[k].needs

Standing(G, outside, using, writing) ==
  /\ Counts(using, writing) /\ Layered(G, outs, outside) /\ Len(G) = Len(frames)
  /\ Placed(G, writing) /\ Provided(G, using) /\ Lent(G, outside, writing)

\* What is in sight is so as long as the tables stay.
LEMMA SightStays ==
  ASSUME UNCHANGED tables
  PROVE  /\ \A t, E : Tidy(t, E)' <=> Tidy(t, E)
         /\ \A S, c : Suited(S, c)' <=> Suited(S, c)
         /\ \A G, os, outside : Layered(G, os, outside)' <=> Layered(G, os, outside)
         /\ \A f : Blocks(f)' = Blocks(f) /\ Raised(f)' = Raised(f)
<1>1. /\ scopes' = scopes /\ Text' = Text
      /\ \A n : /\ Binder(n)' = Binder(n) /\ (HasBody(n)' <=> HasBody(n))
                /\ ScopeOpenedBy(n)' = ScopeOpenedBy(n)
  BY TablesStay
<1>2. \A t, E : Tidy(t, E)' <=> Tidy(t, E)
  <2>1. \A a : Sought(a)' = Sought(a)
    BY <1>1 DEF Sought
  <2>2. \A t, i : LinkedAt(t, i)' <=> LinkedAt(t, i)
    BY <1>1 DEF LinkedAt
  <2>3. \A t, i, s : InSight(t, i, s)' <=> InSight(t, i, s)
    BY DEF InSight, Visible, Depth
  <2> QED BY <2>1, <2>2, <2>3 DEF Tidy
<1>3. \A S, c : Suited(S, c)' <=> Suited(S, c)
  BY <1>1, <1>2 DEF Suited, Closed, Balanced, End, Depth
<1>4. \A G, os, outside : Layered(G, os, outside)' <=> Layered(G, os, outside)
  <2>1. \A G : Ordered(G)' <=> Ordered(G)
    BY DEF Ordered, Layers
  <2>2. \A G, os : Ends(G, os)' <=> Ends(G, os)
    BY <1>1 DEF Ends, Uppermost, End, Depth
  <2>3. \A G, os, outside : Kept(G, os, outside)' <=> Kept(G, os, outside)
    <3>1. \A t, d, s : Sees(t, d, s)' <=> Sees(t, d, s)
      BY DEF Sees, Declares, Depth
    <3>2. \A t, i : Depth(t, i)' = Depth(t, i)
      BY DEF Depth
    <3> QED BY <1>2, <3>1, <3>2 DEF Kept
  <2>4. \A G, os, outside : (Ordered(G) /\ Ends(G, os) /\ Kept(G, os, outside))'
                              <=> Ordered(G) /\ Ends(G, os) /\ Kept(G, os, outside)
    BY <2>1, <2>2, <2>3
  <2> QED BY <2>4, Zenon DEF Layered
<1>5. \A f : Blocks(f)' = Blocks(f) /\ Raised(f)' = Raised(f)
  BY <1>1 DEF Blocks, Raised
<1> QED BY <1>2, <1>3, <1>4, <1>5

\* A frame is pushed for node n, after the one below has written a separator:
\* its layer is put on top.
Pushes(n, G, outside, N, H, os, out) ==
  LET L == Len(compilers) W == Len(outs) w == Len(outs') IN
  /\ N = Len(frames)
  /\ Len(compilers') = (IF MakesOne(n) THEN L + 1 ELSE L)
  /\ w = (IF Kind(n) \in {"Assignment", "FunctionDeclaration"} THEN W + 1 ELSE W)
  /\ Len(H) = N + 1 /\ os = outs' /\ Layered(H, os, out)
  /\ \A k \in 1 .. N : k # N => H[k] = G[k]
  /\ H[N].stream = G[N].stream /\ H[N].needs = G[N].needs /\ H[N].base = G[N].base
  /\ H[N].level = G[N].level /\ H[N].top = G[N].base + Blocks(frames'[N])
  /\ H[N + 1].stream = w
  /\ H[N + 1].level = H[N + 1].base + Raised(frames'[N + 1])
  /\ H[N + 1].top = H[N + 1].base + Blocks(frames'[N + 1])
  /\ \A i \in 1 .. L : i # L => compilers'[i] = compilers[i]
  /\ Suited(G[N].needs, compilers'[L])
  /\ IF MakesOne(n) THEN Suited(H[N + 1].needs, compilers'[L + 1])
     ELSE H[N + 1].needs = G[N].needs
  /\ \A k \in 1 .. W : out[k] = outside[k]
  /\ Kind(n) = "FunctionDeclaration" => out[w] = {}
  /\ Kind(n) = "Assignment" =>
       out[w] = G[N].needs /\ H[N + 1].needs = G[N].needs /\ H[N + 1].base = 0

LEMMA PushStands ==
  ASSUME prog \in Programs, UNCHANGED tables, OnPath, NEW n, Reached(n),
         NEW inline \in BOOLEAN, Push(n, inline), NEW N, N = Len(frames),
         NEW G, NEW outside, NEW using, NEW writing, Standing(G, outside, using, writing),
         NEW H, NEW os, NEW out, Pushes(n, G, outside, N, H, os, out)
  PROVE  \E us, ws : Standing(H, out, us, ws)'
<1>a. PICK L, W, u, w : /\ L = Len(compilers) /\ W = Len(outs)
                        /\ u = Len(compilers') /\ w = Len(outs')
  OBVIOUS
<1>b. /\ u = (IF MakesOne(n) THEN L + 1 ELSE L)
      /\ w = (IF Kind(n) \in {"Assignment", "FunctionDeclaration"} THEN W + 1 ELSE W)
      /\ Len(H) = N + 1 /\ os = outs' /\ Layered(H, os, out)
      /\ \A k \in 1 .. N : k # N => H[k] = G[k]
      /\ H[N].stream = G[N].stream /\ H[N].needs = G[N].needs /\ H[N].base = G[N].base
      /\ H[N].level = G[N].level /\ H[N].top = G[N].base + Blocks(frames'[N])
      /\ H[N + 1].stream = w
      /\ H[N + 1].level = H[N + 1].base + Raised(frames'[N + 1])
      /\ H[N + 1].top = H[N + 1].base + Blocks(frames'[N + 1])
      /\ \A i \in 1 .. L : i # L => compilers'[i] = compilers[i]
      /\ Suited(G[N].needs, compilers'[L])
      /\ IF MakesOne(n) THEN Suited(H[N + 1].needs, compilers'[L + 1])
         ELSE H[N + 1].needs = G[N].needs
      /\ \A k \in 1 .. W : out[k] = outside[k]
      /\ Kind(n) = "FunctionDeclaration" => out[w] = {}
      /\ Kind(n) = "Assignment" =>
           out[w] = G[N].needs /\ H[N + 1].needs = G[N].needs /\ H[N + 1].base = 0
  BY ONLY <1>a, Pushes(n, G, outside, N, H, os, out), Zenon DEF Pushes
<1> USE <1>a, <1>b
<1>1. /\ Counts(using, writing) /\ Layered(G, outs, outside) /\ Len(G) = N
      /\ Placed(G, writing) /\ Provided(G, using) /\ Lent(G, outside, writing)
  BY DEF Standing
<1>2. /\ N \in Nat \ {0} /\ L \in Nat \ {0} /\ W \in Nat \ {0}
      /\ u \in Nat \ {0} /\ w \in Nat \ {0}
  BY <1>1, StackFacts, CountsFacts
<1>3. /\ Len(frames') = N + 1
      /\ \A k \in 1 .. N : /\ frames'[k].node = frames[k].node
                           /\ frames'[k].kind = frames[k].kind
                           /\ k # N => frames'[k].next = frames[k].next
  BY PushFrames
<1>4. /\ frames'[N + 1].kind = Kind(n)
      /\ OnLeftSideAt(N + 1)' <=> Kind(n) = "Assignment"
      /\ \A k \in 1 .. N : /\ MakesStream(k)' <=> MakesStream(k)
      /\ \A kinds : OpensAt(N + 1, kinds)' <=> Kind(n) \in kinds /\ (Kind(n) = "Let" => HasBody(n))
  BY PushSame
<1>5. /\ MakesCompiler(N + 1)' <=> MakesOne(n)
      /\ MakesStream(N + 1)' <=> Kind(n) \in {"Assignment", "FunctionDeclaration"}
  BY <1>4 DEF MakesCompiler, MakesOne, MakesStream, Scoping
<1>6. PICK us : us = Append(using, u)
  OBVIOUS
<1>7. PICK ws : ws = Append(writing, w)
  OBVIOUS
<1>8. Counts(us, ws)'
  <2>1. u = IF MakesCompiler(N + 1)' THEN L + 1 ELSE L
    BY <1>5
  <2>2. w = IF MakesStream(N + 1)' THEN W + 1 ELSE W
    BY <1>5
  <2> QED BY <1>1, <1>2, <1>6, <1>7, <2>1, <2>2, PushCounts
<1>9. /\ \A k \in 1 .. N : us[k] = using[k] /\ ws[k] = writing[k]
      /\ us[N + 1] = u /\ ws[N + 1] = w
      /\ \A k \in 1 .. N : using[k] \in 1 .. L /\ writing[k] \in 1 .. W
      /\ using[N] = L /\ writing[N] = W
  <2>1. /\ using \in Seq(Nat) /\ writing \in Seq(Nat) /\ Len(using) = N /\ Len(writing) = N
        /\ using[N] = L /\ writing[N] = W
    BY <1>1 DEF Counts
  <2>2. \A k \in 1 .. N : using[k] \in 1 .. L /\ writing[k] \in 1 .. W
    BY <1>1, CountsFacts
  <2>3. (\A k \in 1 .. N : us[k] = using[k]) /\ us[N + 1] = u
    <3>1. using \in Seq(Nat) /\ u \in Nat /\ Len(using) = N
      BY <1>2, <2>1
    <3> QED BY ONLY <1>6, <3>1, WithOneMore
  <2>4. (\A k \in 1 .. N : ws[k] = writing[k]) /\ ws[N + 1] = w
    <3>1. writing \in Seq(Nat) /\ w \in Nat /\ Len(writing) = N
      BY <1>2, <2>1
    <3> QED BY ONLY <1>7, <3>1, WithOneMore
  <2> QED BY <2>1, <2>2, <2>3, <2>4
<1>10. \A k \in 1 .. N + 1 : k \in 1 .. N \/ k = N + 1
  BY <1>2
<1>11. \A k \in 1 .. N : /\ H[k].stream = G[k].stream /\ H[k].needs = G[k].needs
                         /\ H[k].base = G[k].base /\ H[k].level = G[k].level
                         /\ G[k].stream = writing[k]
  BY <1>1 DEF Placed
<1>12. Placed(H, ws)'
  <2>1. ASSUME NEW k \in 1 .. N + 1
        PROVE  /\ H[k].stream = ws[k]
               /\ H[k].level = H[k].base + Raised(frames'[k])
               /\ H[k].top = H[k].base + Blocks(frames'[k])
    <3>1. CASE k = N + 1
      BY <1>9, <3>1
    <3>2. CASE k \in 1 .. N
      <4>1. /\ G[k].level = G[k].base + Raised(frames[k])
            /\ G[k].top = G[k].base + Blocks(frames[k])
        BY <1>1, <3>2 DEF Placed
      <4>2. Raised(frames'[k]) = Raised(frames[k])
        BY <1>3, <3>2 DEF Raised
      <4>3. CASE k # N
        <5>1. k < N
          BY <1>2, <3>2, <4>3
        <5>2. frames'[k] = frames[k]
          BY <5>1, <3>2, <1>2 DEF OnPath, Push
        <5> QED BY <1>9, <1>11, <3>2, <4>1, <4>3, <5>2
      <4>4. CASE k = N
        BY <1>9, <1>11, <3>2, <4>1, <4>2, <4>4
      <4> QED BY <4>3, <4>4
    <3> QED BY <1>10, <3>1, <3>2
  <2>2. \A f : Blocks(f)' = Blocks(f) /\ Raised(f)' = Raised(f)
    BY SightStays
  <2>3. PICK fs : fs = frames'
    OBVIOUS
  <2>4. \A k \in 1 .. Len(fs) : /\ H[k].stream = ws[k]
                                /\ H[k].level = H[k].base + Raised(fs[k])'
                                /\ H[k].top = H[k].base + Blocks(fs[k])'
    BY <1>3, <2>1, <2>2, <2>3
  <2>5. \A k \in 1 .. Len(frames') : /\ H[k].stream = ws[k]
                                     /\ H[k].level = H[k].base + Raised(frames[k])'
                                     /\ H[k].top = H[k].base + Blocks(frames[k])'
    <3>1. \A k : Raised(fs[k])' = Raised(frames[k])' /\ Blocks(fs[k])' = Blocks(frames[k])'
      BY <2>3 DEF Raised, Blocks
    <3> QED BY <2>3, <2>4, <3>1
  <2> QED BY <2>5 DEF Placed
<1>13. Provided(H, us)'
  <2>0. /\ \A k \in 1 .. N : Suited(G[k].needs, compilers[using[k]])
        /\ \A i, k \in 1 .. N : using[i] = using[k] => G[i].needs = G[k].needs
    BY <1>1 DEF Provided
  <2>1. ASSUME NEW k \in 1 .. N + 1 PROVE Suited(H[k].needs, compilers'[us[k]])
    <3>1. CASE k \in 1 .. N /\ using[k] = L
      <4>1. N \in 1 .. N
        BY <1>2
      <4>2. G[k].needs = G[N].needs
        BY <1>9, <2>0, <3>1, <4>1
      <4> QED BY <1>9, <1>11, <3>1, <4>2
    <3>2. CASE k \in 1 .. N /\ using[k] # L
      BY <1>9, <1>11, <2>0, <3>2
    <3>3. CASE k = N + 1
      BY <1>9, <3>3
    <3> QED BY <1>10, <3>1, <3>2, <3>3
  <2>2. ASSUME NEW i \in 1 .. N + 1, NEW k \in 1 .. N + 1, us[i] = us[k]
        PROVE  H[i].needs = H[k].needs
    <3>1. \A j \in 1 .. N : us[j] = us[N + 1] => H[j].needs = H[N + 1].needs
      <4> SUFFICES ASSUME NEW j \in 1 .. N, us[j] = us[N + 1] PROVE H[j].needs = H[N + 1].needs
        OBVIOUS
      <4>1. using[j] = u /\ using[j] \in 1 .. L
        BY <1>9
      <4>2. u = L /\ ~ MakesOne(n)
        BY <1>2, <4>1
      <4>3. N \in 1 .. N
        BY <1>2
      <4> QED BY <1>9, <1>11, <2>0, <4>1, <4>2, <4>3
    <3>2. CASE i \in 1 .. N /\ k \in 1 .. N
      BY <1>9, <1>11, <2>0, <2>2, <3>2
    <3> QED BY <1>10, <2>2, <3>1, <3>2
  <2>3. PICK cs : cs = compilers'
    OBVIOUS
  <2>4. \A k \in 1 .. N + 1 : Suited(H[k].needs, cs[us[k]])'
    BY <2>1, <2>3, SightStays
  <2>5. \A k \in 1 .. N + 1 : Suited(H[k].needs, compilers[us[k]])'
    BY <2>3, <2>4
  <2> QED BY <1>3, <2>2, <2>5 DEF Provided
<1>14. Lent(H, out, ws)'
  <2>1. \A k \in 1 .. N : OnLeftSideAt(k)' <=> OnLeftSideAt(k)
    <3>1. \A k \in 1 .. N : OnLeftSideAt(k) => frames[k].kind # "FunctionDeclaration"
      BY DEF OnLeftSideAt
    <3>2. \A k \in 1 .. N : OnLeftSideAt(k)' => frames'[k].kind # "FunctionDeclaration"
      BY DEF OnLeftSideAt
    <3> QED BY <1>3, <1>4, <3>1, <3>2 DEF MakesStream
  <2>2. out[1] = {}
    <3>1. 1 \in 1 .. W
      BY <1>2
    <3> QED BY <1>1, <3>1 DEF Lent
  <2>3. ASSUME NEW k \in 1 .. N + 1
        PROVE  /\ frames'[k].kind = "FunctionDeclaration" => out[ws[k]] = {}
               /\ OnLeftSideAt(k)' => /\ out[ws[k]] = H[k].needs /\ H[k].base = 0
                                      /\ H[k - 1].needs = H[k].needs
    <3>1. CASE k \in 1 .. N
      <4>1. /\ frames[k].kind = "FunctionDeclaration" => outside[writing[k]] = {}
            /\ OnLeftSideAt(k) => /\ outside[writing[k]] = G[k].needs /\ G[k].base = 0
                                  /\ G[k - 1].needs = G[k].needs
        BY <1>1, <3>1 DEF Lent
      <4>2. OnLeftSideAt(k) => k - 1 \in 1 .. N
        <5>1. OnLeftSideAt(k) => k # 1
          BY <3>1 DEF OnLeftSideAt, OnPath
        <5> QED BY <1>2, <3>1, <5>1
      <4> QED BY <1>3, <1>9, <1>11, <2>1, <3>1, <4>1, <4>2
    <3>2. CASE k = N + 1
      <4>1. k - 1 = N
        BY <1>2, <3>2
      <4> QED BY <1>4, <1>9, <3>2, <4>1
    <3> QED BY <1>10, <3>1, <3>2
  <2> QED BY <1>3, <2>2, <2>3 DEF Lent
<1>15. Layered(H, outs, out)'
  BY SightStays
<1> QED BY <1>3, <1>8, <1>12, <1>13, <1>14, <1>15 DEF Standing

\* The innermost frame is popped: its layer is taken off.
Pops(G, outside, N, H, os, out) ==
  LET u == Len(compilers') w == Len(outs') IN
  /\ N = Len(frames)
  /\ u = (IF MakesCompiler(N) \/ IsLeftSide THEN Len(compilers) - 1 ELSE Len(compilers))
  /\ w = (IF MakesStream(N) \/ IsLeftSide THEN Len(outs) - 1 ELSE Len(outs))
  /\ Len(H) = N - 1 /\ os = outs' /\ Layered(H, os, out)
  /\ \A k \in 1 .. N - 1 : k # N - 1 \/ ~ IsLeftSide => H[k] = G[k]
  /\ H[N - 1].needs = G[N - 1].needs
  /\ IsLeftSide => /\ H[N - 1].stream = w /\ H[N - 1].level = H[N - 1].base
                   /\ H[N - 1].top = H[N - 1].base
  /\ \A i \in 1 .. u : i # u => compilers'[i] = compilers[i]
  /\ Suited(G[N - 1].needs, compilers'[u])
  /\ \A k \in 1 .. w : out[k] = outside[k]

LEMMA PopStands ==
  ASSUME prog \in Programs, UNCHANGED tables, OnPath, Top.kind # "main", Pop,
         NEW N, N = Len(frames),
         NEW G, NEW outside, NEW using, NEW writing, Standing(G, outside, using, writing),
         NEW H, NEW os, NEW out, Pops(G, outside, N, H, os, out)
  PROVE  \E us, ws : Standing(H, out, us, ws)'
<1>a. PICK u, w : u = Len(compilers') /\ w = Len(outs')
  OBVIOUS
<1>b. /\ u = (IF MakesCompiler(N) \/ IsLeftSide THEN Len(compilers) - 1 ELSE Len(compilers))
      /\ w = (IF MakesStream(N) \/ IsLeftSide THEN Len(outs) - 1 ELSE Len(outs))
      /\ Len(H) = N - 1 /\ os = outs' /\ Layered(H, os, out)
      /\ \A k \in 1 .. N - 1 : k # N - 1 \/ ~ IsLeftSide => H[k] = G[k]
      /\ H[N - 1].needs = G[N - 1].needs
      /\ IsLeftSide => /\ H[N - 1].stream = w /\ H[N - 1].level = H[N - 1].base
                       /\ H[N - 1].top = H[N - 1].base
      /\ \A i \in 1 .. u : i # u => compilers'[i] = compilers[i]
      /\ Suited(G[N - 1].needs, compilers'[u])
      /\ \A k \in 1 .. w : out[k] = outside[k]
  BY ONLY <1>a, Pops(G, outside, N, H, os, out), Zenon DEF Pops
<1> USE <1>a, <1>b
<1>1. /\ Counts(using, writing) /\ Layered(G, outs, outside) /\ Len(G) = N
      /\ Placed(G, writing) /\ Provided(G, using) /\ Lent(G, outside, writing)
  BY DEF Standing
<1>2. N \in Nat /\ N > 1 /\ Len(frames') = N - 1 /\ \A k \in 1 .. N - 1 : frames'[k] = frames[k]
  BY PopFrames
<1>3. /\ u = IF IsLeftSide THEN using[N - 2] ELSE using[N - 1]
      /\ w = IF IsLeftSide THEN writing[N - 2] ELSE writing[N - 1]
      /\ u \in Nat \ {0} /\ w \in Nat \ {0}
  <2>0. Counts(using, writing)
    BY <1>1
  <2>2. Landing(N, using, writing, u, w)
    BY <2>0, LastLowered
  <2> QED BY ONLY <2>2 DEF Landing
<1>4. /\ OnLeftSideAt(N - 1) <=> IsLeftSide
      /\ IsLeftSide => N > 2 /\ frames[N - 1].kind = "Assignment"
  BY LeftSide
<1>5. PICK us : us = Lowered(using, N, u)
  OBVIOUS
<1>6. PICK ws : ws = Lowered(writing, N, w)
  OBVIOUS
<1>7. Counts(us, ws)'
  BY <1>1, <1>5, <1>6, PopCounts
<1>8. /\ \A k \in 1 .. N - 1 : us[k] = IF k = N - 1 THEN u ELSE using[k]
      /\ \A k \in 1 .. N - 1 : ws[k] = IF k = N - 1 THEN w ELSE writing[k]
      /\ \A k \in 1 .. N - 1 : us[k] <= u /\ ws[k] <= w
      /\ \A k \in 1 .. N - 1 : us[k] \in Nat /\ us[k] >= 1 /\ ws[k] \in Nat /\ ws[k] >= 1
  <2>1. /\ us \in Seq(Nat) /\ ws \in Seq(Nat) /\ Len(us) = N - 1 /\ Len(ws) = N - 1
        /\ Rising(us) /\ Rising(ws)
    BY <1>2, <1>7 DEF Counts
  <2>2. /\ \A k \in 1 .. N - 1 : us[k] = IF k = N - 1 THEN u ELSE using[k]
        /\ \A k \in 1 .. N - 1 : ws[k] = IF k = N - 1 THEN w ELSE writing[k]
    BY ONLY <1>5, <1>6 DEF Lowered
  <2>3. N - 1 \in 1 .. N - 1 /\ \A k \in 1 .. N - 1 : k <= N - 1
    BY <1>2
  <2>4. \A k \in 1 .. N - 1 : us[k] <= u /\ ws[k] <= w
    <3>1. DOMAIN us = 1 .. N - 1 /\ DOMAIN ws = 1 .. N - 1
      BY ONLY <2>1
    <3> QED BY ONLY <2>1, <2>2, <2>3, <3>1 DEF Rising
  <2>5. \A k \in 1 .. N - 1 : using[k] \in Nat /\ using[k] >= 1 /\ writing[k] \in Nat /\ writing[k] >= 1
    <3>1. \A k \in 1 .. N : using[k] \in 1 .. Len(compilers) /\ writing[k] \in 1 .. Len(outs)
      BY <1>1, CountsFacts
    <3>2. \A k \in 1 .. N - 1 : k \in 1 .. N
      BY <1>2
    <3> QED BY <3>1, <3>2
  <2>6. u \in Nat /\ u >= 1 /\ w \in Nat /\ w >= 1
    BY ONLY <1>3
  <2> QED BY ONLY <2>2, <2>3, <2>4, <2>5, <2>6
<1>9. PICK M \in Nat \ {0} : M = N - 1
  <2>1. N - 1 \in Nat \ {0}
    BY <1>2
  <2> QED BY <2>1
<1>10. M \in 1 .. M /\ \A k \in 1 .. M : k \in 1 .. N
  BY <1>2, <1>9
<1>11. IsLeftSide => N - 2 \in 1 .. M /\ M - 1 = N - 2 /\ G[N - 2].needs = G[M].needs
  <2>1. IsLeftSide => N - 2 \in 1 .. M /\ M - 1 = N - 2
    BY <1>2, <1>4, <1>9
  <2> QED BY <1>1, <1>4, <1>9, <1>10, <2>1 DEF Lent
<1>12. \A k \in 1 .. M : H[k].needs = G[k].needs
  BY <1>9
<1>13. Placed(H, ws)'
  <2>1. ASSUME NEW k \in 1 .. M
        PROVE  /\ H[k].stream = ws[k]
               /\ H[k].level = H[k].base + Raised(frames[k])
               /\ H[k].top = H[k].base + Blocks(frames[k])
    <3>1. /\ G[k].stream = writing[k]
          /\ G[k].level = G[k].base + Raised(frames[k])
          /\ G[k].top = G[k].base + Blocks(frames[k])
      BY <1>1, <1>10 DEF Placed
    <3>2. CASE k # M
      BY <1>8, <1>9, <3>1, <3>2
    <3>3. CASE k = M /\ ~ IsLeftSide
      BY <1>3, <1>8, <1>9, <3>1, <3>3
    <3>4. CASE k = M /\ IsLeftSide
      <4>1. Raised(frames[k]) = 0 /\ Blocks(frames[k]) = 0
        BY <1>4, <1>9, <3>4 DEF Raised, Blocks
      <4>2. H[M].base \in Nat
        <5>1. H \in Seq(Layers) /\ M \in DOMAIN H
          BY <1>9, <1>10 DEF Layered, Ordered
        <5>2. H[M] \in Layers
          BY ONLY <5>1
        <5> QED BY <5>2 DEF Layers
      <4> QED BY <1>8, <1>9, <3>4, <4>1, <4>2
    <3> QED BY <3>2, <3>3, <3>4
  <2>2. \A k \in 1 .. M : /\ Raised(frames[k])' = Raised(frames[k])
                          /\ Blocks(frames[k])' = Blocks(frames[k])
    <3>1. \A f : Blocks(f)' = Blocks(f) /\ Raised(f)' = Raised(f)
      BY SightStays
    <3>2. PICK fs : fs = frames'
      OBVIOUS
    <3>3. \A k : Raised(fs[k])' = Raised(frames[k])' /\ Blocks(fs[k])' = Blocks(frames[k])'
      BY <3>2 DEF Raised, Blocks
    <3>4. \A k \in 1 .. M : fs[k] = frames[k]
      BY <1>2, <1>9, <3>2
    <3>5. \A k : Raised(fs[k])' = Raised(fs[k]) /\ Blocks(fs[k])' = Blocks(fs[k])
      BY <3>1
    <3>6. \A k \in 1 .. M : Raised(fs[k]) = Raised(frames[k]) /\ Blocks(fs[k]) = Blocks(frames[k])
      BY <3>4
    <3> QED BY <3>3, <3>5, <3>6
  <2> QED BY <1>2, <1>9, <2>1, <2>2 DEF Placed
<1>14. Provided(H, us)'
  <2>0. /\ \A k \in 1 .. N : Suited(G[k].needs, compilers[using[k]])
        /\ \A i, k \in 1 .. N : using[i] = using[k] => G[i].needs = G[k].needs
    BY <1>1 DEF Provided
  <2>1. \A k \in 1 .. M : us[k] = u => G[k].needs = G[M].needs
    <3> SUFFICES ASSUME NEW k \in 1 .. M, k # M, us[k] = u PROVE G[k].needs = G[M].needs
      OBVIOUS
    <3>1. using[k] = u /\ k \in 1 .. N /\ M \in 1 .. N
      BY <1>8, <1>9, <1>10
    <3>2. CASE IsLeftSide
      <4>1. u = using[N - 2] /\ N - 2 \in 1 .. N
        BY <1>3, <1>10, <1>11, <3>2
      <4> QED BY <1>11, <2>0, <3>1, <3>2, <4>1
    <3>3. CASE ~ IsLeftSide
      <4>1. u = using[M]
        BY ONLY <1>3, <1>9, <3>3
      <4> QED BY ONLY <2>0, <3>1, <4>1
    <3> QED BY <3>2, <3>3
  <2>2. ASSUME NEW k \in 1 .. M PROVE Suited(H[k].needs, compilers'[us[k]])
    <3>1. CASE us[k] = u
      BY <1>9, <1>12, <2>1, <3>1
    <3>2. CASE us[k] # u
      <4>1. k # M /\ us[k] = using[k] /\ using[k] \in 1 .. u
        BY <1>3, <1>8, <1>9, <3>2
      <4>2. compilers'[us[k]] = compilers[using[k]]
        BY <3>2, <4>1
      <4> QED BY <1>10, <1>12, <2>0, <4>2
    <3> QED BY <3>1, <3>2
  <2>3. ASSUME NEW i \in 1 .. M, NEW k \in 1 .. M, us[i] = us[k]
        PROVE  H[i].needs = H[k].needs
    <3>1. CASE us[i] = u
      <4>1. us[k] = u
        BY ONLY <2>3, <3>1
      <4>2. G[i].needs = G[M].needs /\ G[k].needs = G[M].needs
        BY ONLY <2>1, <3>1, <4>1, i \in 1 .. M, k \in 1 .. M
      <4> QED BY ONLY <1>12, <4>2, i \in 1 .. M, k \in 1 .. M
    <3>2. CASE us[i] # u
      <4>1. using[i] = using[k]
        BY <1>8, <1>9, <2>3, <3>2
      <4>2. i \in 1 .. N /\ k \in 1 .. N
        BY <1>10
      <4>3. G[i].needs = G[k].needs
        BY ONLY <2>0, <4>1, <4>2
      <4> QED BY ONLY <1>12, <4>3, i \in 1 .. M, k \in 1 .. M
    <3> QED BY <3>1, <3>2
  <2>4. PICK cs : cs = compilers'
    OBVIOUS
  <2>5. \A k \in 1 .. M : Suited(H[k].needs, cs[us[k]])'
    BY <2>2, <2>4, SightStays
  <2>6. \A k \in 1 .. M : Suited(H[k].needs, compilers[us[k]])'
    BY <2>4, <2>5
  <2> QED BY <1>2, <1>9, <2>3, <2>6 DEF Provided
<1>15. Lent(H, out, ws)'
  <2>1. \A k \in 1 .. M : OnLeftSideAt(k)' => OnLeftSideAt(k) /\ (k = M => ~ IsLeftSide)
    <3>1. \A k \in 1 .. M : MakesStream(k)' <=> MakesStream(k) /\ (k = M => ~ IsLeftSide)
      BY <1>9, PopSame
    <3>2. \A k \in 1 .. M : OnLeftSideAt(k)' => frames[k].kind # "FunctionDeclaration"
      BY <1>2, <1>9 DEF OnLeftSideAt
    <3> QED BY <3>1, <3>2 DEF MakesStream
  <2>2. out[1] = {}
    <3>1. w \in Nat \ {0}
      BY <1>3
    <3>2. 1 \in 1 .. w
      BY ONLY <3>1
    <3> QED BY <1>1, <3>2 DEF Lent
  <2>3. ASSUME NEW k \in 1 .. M, k = M => ~ IsLeftSide
        PROVE  ws[k] = writing[k] /\ out[ws[k]] = outside[writing[k]] /\ H[k] = G[k]
    <3>1. ws[k] = writing[k] /\ H[k] = G[k]
      BY <1>3, <1>8, <1>9, <2>3
    <3>2. ws[k] \in 1 .. w
      <4>1. w \in Nat /\ ws[k] \in Nat /\ ws[k] >= 1 /\ ws[k] <= w
        BY ONLY <1>3, <1>8, <1>9, k \in 1 .. M
      <4> QED BY ONLY <4>1
    <3>3. \A i \in 1 .. w : out[i] = outside[i]
      OBVIOUS
    <3>4. out[ws[k]] = outside[ws[k]]
      BY ONLY <3>2, <3>3
    <3> QED BY ONLY <3>1, <3>4
  <2>4. ASSUME NEW k \in 1 .. M
        PROVE  /\ frames'[k].kind = "FunctionDeclaration" => out[ws[k]] = {}
               /\ OnLeftSideAt(k)' => /\ out[ws[k]] = H[k].needs /\ H[k].base = 0
                                      /\ H[k - 1].needs = H[k].needs
    <3>1. /\ frames[k].kind = "FunctionDeclaration" => outside[writing[k]] = {}
          /\ OnLeftSideAt(k) => /\ outside[writing[k]] = G[k].needs /\ G[k].base = 0
                                /\ G[k - 1].needs = G[k].needs
      BY <1>1, <1>10 DEF Lent
    <3>2. OnLeftSideAt(k) => k - 1 \in 1 .. M
      <4>1. OnLeftSideAt(k) => k # 1
        BY DEF OnLeftSideAt, OnPath
      <4> QED BY <1>9, <4>1
    <3>3. frames'[k].kind = frames[k].kind
      BY <1>2, <1>9
    <3>4. k = M /\ IsLeftSide => frames[k].kind # "FunctionDeclaration"
      BY <1>4, <1>9
    <3> QED BY <1>12, <2>1, <2>3, <3>1, <3>2, <3>3, <3>4
  <2> QED BY <1>2, <1>9, <2>2, <2>4 DEF Lent
<1>16. Layered(H, outs, out)'
  BY SightStays
<1> QED BY <1>2, <1>7, <1>13, <1>14, <1>15, <1>16 DEF Standing

-----------------------------------------------------------------------------
(* What the handlers write.                                                *)

\* The facts of a Standing invariant about the innermost frame.
LEMMA StandingFacts ==
  ASSUME CompileInv, phase = "code",
         NEW G, NEW outside, NEW using, NEW writing, Standing(G, outside, using, writing),
         NEW N, N = Len(frames), NEW W, W = Len(outs)
  PROVE  /\ Counts(using, writing) /\ Layered(G, outs, outside) /\ Len(G) = N
         /\ N \in Nat \ {0} /\ W \in Nat \ {0} /\ G[N] \in Layers /\ G[N].stream = W
         /\ G[N].base \in Nat /\ G[N].needs \subseteq Nat
         /\ G[N].level = G[N].base + Raised(Top) /\ G[N].top = G[N].base + Blocks(Top)
         /\ Suited(G[N].needs, C)
         /\ Top = frames[N] /\ Top \in Frames
<1>1. /\ Counts(using, writing) /\ Layered(G, outs, outside) /\ Len(G) = N
      /\ Placed(G, writing) /\ Provided(G, using)
  BY DEF Standing
<1>2. /\ prog \in Programs /\ OnPath /\ N \in Nat \ {0} /\ W \in Nat \ {0}
      /\ C = compilers[Len(compilers)]
  BY CodeFacts
<1>3. Top = frames[N] /\ Top \in Frames
  BY <1>2, StackFacts
<1>4. using[N] = Len(compilers) /\ writing[N] = W /\ N \in 1 .. N
  BY <1>1, <1>2 DEF Counts
<1>5. G[N].stream = W /\ G[N].level = G[N].base + Raised(Top) /\ G[N].top = G[N].base + Blocks(Top)
  BY <1>1, <1>3, <1>4 DEF Placed
<1>6. Suited(G[N].needs, C)
  BY <1>1, <1>2, <1>4 DEF Provided
<1>7. G[N] \in Layers
  <2>1. G \in Seq(Layers) /\ N \in DOMAIN G
    BY <1>1, <1>4 DEF Layered, Ordered
  <2> QED BY <2>1
<1>8. G[N].base \in Nat /\ G[N].needs \subseteq Nat
  BY <1>7 DEF Layers
<1> QED BY <1>1, <1>2, <1>3, <1>5, <1>6, <1>7, <1>8

\* Blocks written for a node.
LEMMA Braces ==
  /\ \A n : /\ Turn(Plain("open", n)) = 1 /\ Turn(Plain("close", n)) = -1
            /\ Turn(Plain("fill", n)) = 0 /\ Turn(Plain("for", n)) = 1
  /\ \A n : \A item \in {"open", "close", "fill", "for"} :
       /\ ~ (Plain(item, n).item = "object" /\ Plain(item, n).node # Main)
       /\ Sought(Plain(item, n)) = {}
BY DEF Turn, Opening, Plain, Item, Sought

\* A separator opens the blocks that the frame goes on in.
Separates(text, S, b, d, e, raised) ==
  /\ Tidy(text, S) /\ b + e = b + d + End(text) /\ raised <= e
  /\ \A i \in 0 .. Len(text) : b + d + Depth(text, i) >= b + raised

LEMMA SeparatorFacts ==
  ASSUME CompileInv, phase = "code", NEW S, Suited(S, C), NEW b \in Nat,
         NEW f, f = [Top EXCEPT !.next = @ + 1]
  PROVE  Separates(Separator, S, b, Blocks(Top), Blocks(f), Raised(Top))
<1>1. /\ Top.next \in Nat \ {0} /\ f.next = Top.next + 1 /\ f.kind = Top.kind
      /\ f.inline = Top.inline /\ f.node = Top.node
  <2>1. Top \in Frames
    BY CodeFacts, StackFacts
  <2> QED BY <2>1 DEF Frames
<1>2. PICK k \in Nat \ {0} : k = Top.next
  BY <1>1
<1>3. /\ k > 2 <=> Top.next > 2
      /\ k + 1 > 2 <=> f.next > 2
  BY <1>1, <1>2
<1>4. /\ \A n : Tidy(<<Plain("open", n)>>, S)
      /\ \A n : Tidy(<<Plain("close", n), Plain("open", n)>>, S)
      /\ \A n : Tidy(<<Plain("fill", n)>>, S)
      /\ Tidy(<< >>, S)
  <2>1. {} \subseteq S
    OBVIOUS
  <2> QED BY <2>1, Braces, TidyShort
<1>5. CASE Top.next = 2 /\ (Top.kind \in {"IfThen", "While"} \/ Statement)
  <2>0. Top.kind # "ArrayLiteral" /\ Top.next # 3
    BY <1>5 DEF Statement
  <2>1. Separator = <<Plain("open", Top.node)>>
    BY <1>5, <2>0 DEF Separator
  <2>2. Blocks(Top) = 0 /\ Blocks(f) = 1 /\ Raised(Top) = 0
    BY <1>1, <1>2, <1>3, <1>5 DEF Blocks, Raised, Statement
  <2>3. PICK t : t = Separator
    OBVIOUS
  <2>4. Len(t) = 1 /\ End(t) = 1 /\ \A i \in 0 .. 1 : Depth(t, i) = IF i = 0 THEN 0 ELSE 1
    BY <2>1, <2>3, Braces, DepthShort
  <2>5. Tidy(t, S)
    BY <1>4, <2>1, <2>3
  <2> QED BY <2>2, <2>3, <2>4, <2>5 DEF Separates
<1>6. CASE Top.next = 3 /\ Statement
  <2>1. Separator = <<Plain("close", Top.node), Plain("open", Top.node)>>
    BY <1>6 DEF Separator, Statement
  <2>2. Blocks(Top) = 1 /\ Blocks(f) = 1 /\ Raised(Top) = 0
    BY <1>1, <1>2, <1>3, <1>6 DEF Blocks, Raised, Statement
  <2>3. PICK t : t = Separator
    OBVIOUS
  <2>4. /\ Len(t) = 2 /\ End(t) = 0 /\ Depth(t, 0) = 0 /\ Depth(t, 1) = -1 /\ Depth(t, 2) = 0
    BY <2>1, <2>3, Braces, DepthShort
  <2>5. \A i \in 0 .. 2 : i = 0 \/ i = 1 \/ i = 2
    OBVIOUS
  <2>6. Tidy(t, S)
    BY <1>4, <2>1, <2>3
  <2> QED BY <2>2, <2>3, <2>4, <2>5, <2>6 DEF Separates
<1>7. CASE Top.next = 2 /\ Top.kind = "ArrayLiteral"
  <2>1. PICK t, u, r : t = <<Plain("fill", Top.node)>> /\ u = C.lvalue /\ r = t \o u
    OBVIOUS
  <2>2. Separator = r
    BY <1>7, <2>1 DEF Separator, Statement
  <2>3. Blocks(Top) = 0 /\ Blocks(f) = 0 /\ Raised(Top) = 0
    BY <1>1, <1>7 DEF Blocks, Raised
  <2>4. t \in Seq(Items) /\ u \in Seq(Items)
    <3>1. Table!LookupInv /\ Top.node \in Nodes \cup {Main} /\ GoodText(C.lvalue)
      BY CodeFacts
    <3>2. NoScope \in ScopeNumbers
      BY <3>1, ScopesTyped DEF ScopeNumbers, NoScope
    <3>3. Plain("fill", Top.node) \in Items
      BY <3>1, <3>2, GoodPlain DEF Plain
    <3> QED BY <2>1, <3>1, <3>3 DEF GoodText
  <2>5. Tidy(t, S) /\ Tidy(u, S) /\ Balanced(u)
    BY <1>4, <2>1 DEF Suited
  <2>6. End(t) = 0 /\ Len(t) = 1 /\ \A i \in 0 .. 1 : Depth(t, i) = 0
    <3>1. \A i \in 0 .. 1 : Depth(t, i) = IF i = 0 THEN 0 ELSE 0
      BY <2>1, Braces, DepthShort
    <3> QED BY <2>1, <3>1, Braces, DepthShort
  <2>7. End(u) = 0 /\ \A i \in 0 .. Len(u) : Depth(u, i) >= 0
    BY <2>5 DEF Balanced
  <2>8. PICK n, m \in Nat : Joined(r, t, n, u, m)
    BY <2>1, <2>4, DepthJoined
  <2>9. /\ n = 1 /\ m = Len(u) /\ Len(r) = 1 + m /\ End(r) = 0
        /\ \A i \in 0 .. 1 : Depth(r, i) = 0
        /\ \A i \in 0 .. m : Depth(r, 1 + i) = Depth(u, i) /\ Depth(u, i) \in Int
    BY <2>6, <2>7, <2>8 DEF Joined
  <2>10. \A i \in 0 .. Len(r) : Depth(r, i) \in Int /\ Depth(r, i) >= 0
    <3>1. \A i \in 0 .. 1 + m : i \in 0 .. 1 \/ (i - 1 \in 0 .. m /\ i = 1 + (i - 1))
      OBVIOUS
    <3> QED BY <2>7, <2>9, <3>1
  <2>11. Tidy(r, S)
    <3>1. \A i \in 0 .. Len(u) : End(t) + Depth(u, i) >= 0
      BY <2>6, <2>7, <2>9
    <3>2. \A s \in S : s \in S \/ Sees(t, 0, s)
      OBVIOUS
    <3>3. 0 \in Int /\ r = t \o u
      BY <2>1
    <3> QED BY ONLY <2>4, <2>5, <3>1, <3>2, <3>3, TidyJoined
  <2> QED BY <2>2, <2>3, <2>9, <2>10, <2>11 DEF Separates
<1>8. CASE /\ ~ (Top.next = 2 /\ (Top.kind \in {"IfThen", "While"} \/ Statement))
           /\ ~ (Top.next = 3 /\ Statement)
           /\ ~ (Top.next = 2 /\ Top.kind = "ArrayLiteral")
  <2>1. Separator = << >>
    BY <1>8 DEF Separator
  <2>2. Blocks(f) = Blocks(Top)
    <3>1. CASE Top.kind \in {"IfThen", "While"} \/ Statement
      <4>1. k # 2
        BY <1>2, <1>8, <3>1
      <4>2. k > 2 <=> k + 1 > 2
        BY <4>1
      <4> QED BY <1>1, <1>3, <4>2 DEF Blocks
    <3>2. CASE ~ (Top.kind \in {"IfThen", "While"} \/ Statement)
      BY <1>1, <3>2 DEF Blocks, Statement
    <3> QED BY <3>1, <3>2
  <2>3. Raised(Top) <= Blocks(Top) /\ Raised(Top) \in {0, 1} /\ Blocks(Top) \in {0, 1}
    BY DEF Raised, Blocks
  <2>4. PICK t : t = << >>
    OBVIOUS
  <2>5. End(t) = 0 /\ Len(t) = 0 /\ \A i \in 0 .. 0 : Depth(t, i) = 0
    BY <2>4, DepthShort
  <2>6. Tidy(t, S)
    BY <1>4, <2>4
  <2> QED BY <2>1, <2>2, <2>3, <2>4, <2>5, <2>6 DEF Separates
<1> QED BY <1>5, <1>6, <1>7, <1>8

\* The layers H and the streams os after the innermost frame has written its
\* separator and is f.
Separated(H, os, G, outside, f) ==
  LET N == Len(G) IN
  /\ Layered(H, os, outside) /\ Len(H) = N /\ H \in Seq(Layers)
  /\ \A k \in 1 .. N : k # N => H[k] = G[k]
  /\ H[N] \in Layers /\ H[N].stream = G[N].stream /\ H[N].needs = G[N].needs
  /\ H[N].base = G[N].base /\ H[N].level = G[N].level /\ H[N].top = G[N].base + Blocks(f)
  /\ os \in Seq(Text) /\ Len(os) = Len(outs)
  /\ os = [outs EXCEPT ![Len(outs)] = @ \o Separator]

LEMMA SeparatorLayer ==
  ASSUME CompileInv, phase = "code",
         NEW G, NEW outside, NEW using, NEW writing, Standing(G, outside, using, writing),
         NEW f, f = [Top EXCEPT !.next = @ + 1]
  PROVE  \E H, os : Separated(H, os, G, outside, f)
<1>1. PICK N, W : N = Len(frames) /\ W = Len(outs)
  OBVIOUS
<1>2. /\ Layered(G, outs, outside) /\ Len(G) = N
      /\ N \in Nat \ {0} /\ W \in Nat \ {0} /\ G[N] \in Layers /\ G[N].stream = W
      /\ G[N].base \in Nat /\ G[N].needs \subseteq Nat
      /\ G[N].level = G[N].base + Raised(Top) /\ G[N].top = G[N].base + Blocks(Top)
      /\ Suited(G[N].needs, C)
  BY <1>1, StandingFacts
<1>3. PICK b \in Nat : b = G[N].base
  BY <1>2
<1>4. Separates(Separator, G[N].needs, b, Blocks(Top), Blocks(f), Raised(Top))
  BY <1>2, SeparatorFacts
<1>5. PICK text : text = Separator
  OBVIOUS
<1>6. text \in Text
  BY <1>5, AroundParts DEF GoodText, Text, Items
<1>7. PICK d, e, a \in Int : d = Blocks(Top) /\ e = Blocks(f) /\ a = Raised(Top)
  BY DEF Blocks, Raised
<1>8. e \in Nat /\ a \in Nat
  BY <1>7 DEF Blocks, Raised
<1>9. /\ Tidy(text, G[N].needs) /\ b + e = b + d + End(text) /\ a <= e
      /\ \A i \in 0 .. Len(text) : b + d + Depth(text, i) >= b + a
  BY <1>4, <1>5, <1>7 DEF Separates
<1>10. PICK r : r = [stream |-> W, base |-> b, level |-> b + a, top |-> b + e,
                     needs |-> G[N].needs]
  OBVIOUS
<1>11. /\ r \in Layers /\ r.stream = W /\ r.base = b /\ r.level = b + a /\ r.top = b + e
       /\ r.needs = G[N].needs
  BY <1>2, <1>8, <1>10 DEF Layers
<1>12. PICK H : H = [G EXCEPT ![N] = r]
  OBVIOUS
<1>13. PICK os : os = [outs EXCEPT ![W] = @ \o text]
  OBVIOUS
<1>14. Layered(H, os, outside)
  <2>1. /\ G[N].level = b + a /\ G[N].top = b + d /\ G[N].base = b
    BY <1>2, <1>3, <1>7
  <2>2. \A i \in 0 .. Len(text) : G[N].top + Depth(text, i) >= G[N].level
    BY <1>9, <2>1
  <2>3. G[N].level <= r.level /\ r.level <= r.top /\ r.top = G[N].top + End(text)
    BY <1>7, <1>8, <1>9, <1>11, <2>1
  <2>4. /\ r.stream = W /\ r.base = G[N].base
        /\ \A s \in r.needs : s \in G[N].needs \/ Sees(text, r.level - G[N].top, s)
    BY <1>11, <2>1
  <2> QED BY ONLY <1>1, <1>2, <1>6, <1>9, <1>11, <1>12, <1>13, <2>2, <2>3, <2>4, LayersWrite
<1>15. G \in Seq(Layers) /\ N \in DOMAIN G
  <2>1. G \in Seq(Layers)
    BY <1>2 DEF Layered, Ordered
  <2> QED BY <1>2, <2>1
<1>16. /\ H \in Seq(Layers) /\ Len(H) = N /\ N \in 1 .. N
       /\ \A k \in 1 .. N : H[k] = IF k = N THEN r ELSE G[k]
  <2>1. /\ H \in Seq(Layers) /\ Len(H) = Len(G)
        /\ \A k \in 1 .. Len(G) : H[k] = IF k = N THEN r ELSE G[k]
    BY ONLY <1>11, <1>12, <1>15, Replaced
  <2> QED BY <1>2, <2>1
<1>17. H[N] = r
  BY <1>16
<1>18. os \in Seq(Text) /\ Len(os) = W
  <2>1. os \in Seq(Text)
    BY <1>14 DEF Layered, Ends
  <2>2. DOMAIN os = DOMAIN outs /\ outs \in Seq(Text)
    BY <1>2, <1>13 DEF Layered, Ends
  <2> QED BY <1>1, <2>1, <2>2
<1>19. Separated(H, os, G, outside, f)
  BY <1>1, <1>2, <1>3, <1>5, <1>7, <1>11, <1>13, <1>14, <1>16, <1>17, <1>18 DEF Separated
<1> QED BY <1>19

\* A layer r is put on top, and the text of the frame it is for is written.
Begins(G, os, outside, N, W, text, r, H, new) ==
  /\ Layered(G, os, outside) /\ N = Len(G) /\ W = Len(os)
  /\ text \in Text /\ Tidy(text, G[N].needs) /\ \A i \in 0 .. Len(text) : Depth(text, i) >= 0
  /\ r \in Layers /\ r.stream = W /\ r.base = G[N].top
  /\ r.base <= r.level /\ r.level <= r.top /\ r.top = r.base + End(text)
  /\ \A s \in r.needs : s \in G[N].needs \/ Sees(text, r.level - r.base, s)
  /\ H = Append(G, r) /\ new = [os EXCEPT ![W] = @ \o text]
Begun(G, outside, N, r, H, new) ==
  /\ Layered(H, new, outside) /\ Len(H) = N + 1 /\ H[N + 1] = r
  /\ \A k \in 1 .. N : H[k] = G[k]

LEMMA LayersBegin ==
  ASSUME NEW G, NEW os, NEW outside, NEW N, NEW W, NEW text, NEW r, NEW H, NEW new,
         Begins(G, os, outside, N, W, text, r, H, new)
  PROVE  Begun(G, outside, N, r, H, new)
<1>0. /\ Layered(G, os, outside) /\ N = Len(G) /\ W = Len(os)
      /\ text \in Text /\ Tidy(text, G[N].needs) /\ \A i \in 0 .. Len(text) : Depth(text, i) >= 0
      /\ r \in Layers /\ r.stream = W /\ r.base = G[N].top
      /\ r.base <= r.level /\ r.level <= r.top /\ r.top = r.base + End(text)
      /\ \A s \in r.needs : s \in G[N].needs \/ Sees(text, r.level - r.base, s)
      /\ H = Append(G, r) /\ new = [os EXCEPT ![W] = @ \o text]
  BY DEF Begins
<1>1. Sized(G, N, os, W, outside) /\ N \in Nat \ {0} /\ W \in Nat \ {0}
  <2>1. PICK n, w \in Nat \ {0} : Sized(G, n, os, w, outside)
    BY <1>0, LayerFacts
  <2> QED BY <1>0, <2>1 DEF Sized
<1>2. N \in 1 .. N /\ G[N] \in Layers /\ G[N].stream = W /\ G[N].top \in Nat /\ G[N].base \in Nat
  <2>1. N \in 1 .. N
    BY <1>1
  <2> QED BY <1>1, <2>1 DEF Sized
<1>3. PICK b \in Nat : b = G[N].top
  BY <1>2
<1>4. PICK q : q = [stream |-> W, base |-> b, level |-> b, top |-> b, needs |-> G[N].needs]
  OBVIOUS
<1>5. /\ q \in Layers /\ q.stream = W /\ q.base = b /\ q.level = b /\ q.top = b
      /\ q.needs = G[N].needs
  BY <1>1, <1>2, <1>4 DEF Layers
<1>6. PICK F : F = Append(G, q)
  OBVIOUS
<1>7. Layered(F, os, outside)
  <2>1. q.needs \subseteq G[N].needs /\ q.stream = G[N].stream /\ q.base = G[N].top
        /\ q.level = G[N].top /\ q.top = G[N].top
    BY <1>2, <1>3, <1>5
  <2> QED BY <1>0, <1>5, <1>6, <2>1, LayersPush
<1>8. G \in Seq(Layers)
  BY <1>0 DEF Layered, Ordered
<1>9. /\ F \in Seq(Layers) /\ Len(F) = N + 1 /\ F[N + 1] = q
      /\ \A k \in 1 .. N : F[k] = G[k]
  BY <1>0, <1>1, <1>5, <1>6, <1>8, WithOneMore
<1>10. /\ H \in Seq(Layers) /\ Len(H) = N + 1 /\ H[N + 1] = r
       /\ \A k \in 1 .. N : H[k] = G[k]
  BY <1>0, <1>1, <1>8, WithOneMore
<1>11. H = [F EXCEPT ![N + 1] = r]
  <2>1. H = [k \in 1 .. N + 1 |-> H[k]] /\ F = [k \in 1 .. N + 1 |-> F[k]]
    <3>1. \A s \in Seq(Layers) : Len(s) = N + 1 => s \in [1 .. N + 1 -> Layers]
      BY ONLY <1>1
    <3>2. H \in [1 .. N + 1 -> Layers] /\ F \in [1 .. N + 1 -> Layers]
      BY <1>9, <1>10, <3>1
    <3>3. \A s \in [1 .. N + 1 -> Layers] : s = [k \in 1 .. N + 1 |-> s[k]]
      OBVIOUS
    <3> QED BY ONLY <3>2, <3>3
  <2>2. \A k \in 1 .. N + 1 : k \in 1 .. N \/ k = N + 1
    BY <1>1
  <2>3. \A k \in 1 .. N + 1 : H[k] = IF k = N + 1 THEN r ELSE F[k]
    <3>1. \A k \in 1 .. N : k # N + 1
      BY <1>1
    <3> QED BY <1>9, <1>10, <2>2, <3>1
  <2>4. [F EXCEPT ![N + 1] = r] = [k \in 1 .. N + 1 |-> IF k = N + 1 THEN r ELSE F[k]]
    BY <2>1
  <2>5. H = [k \in 1 .. N + 1 |-> IF k = N + 1 THEN r ELSE F[k]]
    BY <2>1, <2>3
  <2> QED BY <2>4, <2>5
<1>12. Layered(H, new, outside)
  <2>1. PICK M : M = N + 1
    OBVIOUS
  <2>2. /\ M = Len(F) /\ F[M] = q /\ H = [F EXCEPT ![M] = r]
    BY <1>9, <1>11, <2>1
  <2>3. Tidy(text, F[M].needs)
    BY <1>0, <1>5, <2>2
  <2>4. \A i \in 0 .. Len(text) : F[M].top + Depth(text, i) >= F[M].level
    <3>1. \A i \in 0 .. Len(text) : Depth(text, i) \in Int
      <4>1. Len(text) \in Nat
        BY <1>0 DEF Text
      <4> QED BY <4>1, DepthSteps
    <3> QED BY <1>0, <1>5, <2>2, <3>1
  <2>5. r.base = F[M].base /\ F[M].level <= r.level /\ r.top = F[M].top + End(text)
    BY <1>0, <1>3, <1>5, <2>2
  <2>6. \A s \in r.needs : s \in F[M].needs \/ Sees(text, r.level - F[M].top, s)
    BY <1>0, <1>3, <1>5, <2>2
  <2>7. /\ W = Len(os) /\ text \in Text /\ r \in Layers /\ r.stream = W
        /\ r.level <= r.top /\ new = [os EXCEPT ![W] = @ \o text]
    BY <1>0
  <2> QED BY ONLY <1>7, <2>2, <2>3, <2>4, <2>5, <2>6, <2>7, LayersWrite
<1> QED BY <1>10, <1>12 DEF Begun

\* A finished handler closes the block it has opened.
LEMMA EndingFacts ==
  ASSUME CompileInv, NEW kinds, kinds \subseteq NodeKinds, Finished(kinds)
  PROVE  /\ Ending \in Text /\ Tidy(Ending, {}) /\ Blocks(Top) + End(Ending) = 0
         /\ Blocks(Top) \in Nat
         /\ \A i \in 0 .. Len(Ending) : Blocks(Top) + Depth(Ending, i) >= 0
<1>1. /\ phase = "code" /\ ~ HasNext /\ Top.kind # "main" /\ Top.node \in Nodes
      /\ Top.kind = Kind(Top.node)
  BY ReturnFacts DEF Finished
<1>2. prog \in Programs /\ OnPath /\ Top \in Frames
  BY <1>1, CodeFacts, StackFacts
<1>3. Top.next \in Nat \ {0}
  BY <1>2 DEF Frames
<1>4. ASSUME Top.kind \in {"IfThen", "While", "IfThenElse"} PROVE Top.next > 2
  <2>1. PartsOfTop = prog[Top.node].kids
    BY <1>1, <1>4 DEF PartsOfTop, Parts
  <2>2. IsShaped(prog) /\ Top.node \in NodesOf(prog)
    BY <1>1, <1>2, ProgramsAssumption DEF IsProgram, Nodes
  <2>3. Kind(Top.node) \notin Vectors =>
          DOMAIN prog[Top.node].kids = DOMAIN Children(Kind(Top.node))
    BY <2>2, Zenon DEF IsShaped, Kind
  <2>4. Kind(Top.node) \notin Vectors
    BY <1>1, <1>4 DEF Vectors
  <2>5. Children(Kind(Top.node)) \in {<<ExprKinds, ExprKinds>>, <<ExprKinds, ExprKinds, ExprKinds>>}
    BY <1>1, <1>4 DEF Children, Childless
  <2>6. DOMAIN prog[Top.node].kids = 1 .. 2 \/ DOMAIN prog[Top.node].kids = 1 .. 3
    BY <2>3, <2>4, <2>5
  <2>7. Top.next \notin DOMAIN prog[Top.node].kids
    BY <1>1, <2>1 DEF HasNext
  <2> QED BY <1>3, <2>6, <2>7
<1>5. Ending \in Text
  BY <1>1, AroundParts DEF GoodText, Text, Items
<1>6. PICK t : t = Ending
  OBVIOUS
<1>7. CASE \/ Top.kind \in {"IfThen", "While", "For"} \/ Statement
           \/ Top.kind = "Let" /\ HasBody(Top.node)
  <2>1. t = <<Plain("close", Top.node)>>
    BY <1>6, <1>7 DEF Ending
  <2>2. Blocks(Top) = 1
    BY <1>4, <1>7 DEF Blocks, Statement
  <2>3. Len(t) = 1 /\ End(t) = -1 /\ \A i \in 0 .. 1 : Depth(t, i) = IF i = 0 THEN 0 ELSE -1
    BY <2>1, Braces, DepthShort
  <2>4. Tidy(t, {})
    <3>1. {} \subseteq {}
      OBVIOUS
    <3> QED BY <2>1, Braces, TidyShort
  <2> QED BY <1>5, <1>6, <2>2, <2>3, <2>4
<1>8. CASE ~ (\/ Top.kind \in {"IfThen", "While", "For"} \/ Statement
              \/ Top.kind = "Let" /\ HasBody(Top.node))
  <2>1. t = << >>
    BY <1>6, <1>8 DEF Ending
  <2>2. Blocks(Top) = 0
    BY <1>8 DEF Blocks, Statement
  <2>3. Len(t) = 0 /\ End(t) = 0 /\ \A i \in 0 .. 0 : Depth(t, i) = 0
    BY <2>1, DepthShort
  <2>4. Tidy(t, {})
    BY <2>1, TidyShort
  <2> QED BY <1>5, <1>6, <2>2, <2>3, <2>4
<1> QED BY <1>7, <1>8

LEMMA PushTops ==
  ASSUME prog \in Programs, OnPath, NEW n, NEW inline, Push(n, inline), NEW N, N = Len(frames)
  PROVE  /\ frames'[N] = [Top EXCEPT !.next = @ + 1]
         /\ frames'[N + 1] = Frame(n, Kind(n), inline, C.expr)
         /\ N \in Nat \ {0}
<1>1. N \in Nat \ {0} /\ DOMAIN frames = 1 .. N /\ N \in DOMAIN frames /\ Top = frames[N]
  BY StackFacts
<1>2. PICK q : q = Frame(n, Kind(n), inline, C.expr)
  OBVIOUS
<1>3. PICK f : f = [Top EXCEPT !.next = @ + 1]
  OBVIOUS
<1>4. PICK s : s = [frames EXCEPT ![N] = f]
  OBVIOUS
<1>5. frames' = Append(s, q)
  BY <1>1, <1>2, <1>3, <1>4 DEF Push
<1>6. \E T : s \in Seq(T) /\ q \in T
  <2>1. s \in Seq(Frames \cup {f, q})
    <3>1. frames \in Seq(Frames \cup {f, q})
      <4>1. frames \in Seq(Frames)
        BY DEF OnPath
      <4> QED BY <4>1
    <3>2. f \in Frames \cup {f, q}
      OBVIOUS
    <3> QED BY ONLY <1>1, <1>4, <3>1, <3>2, Replaced
  <2> QED BY <2>1
<1>7. Len(s) = N /\ s[N] = f
  <2>1. DOMAIN s = 1 .. N
    BY <1>1, <1>4
  <2>2. \A T : s \in Seq(T) => Len(s) = N
    BY <1>1, <2>1
  <2> QED BY <1>1, <1>4, <1>6, <2>2
<1>8. frames'[N] = f /\ frames'[N + 1] = q
  BY <1>1, <1>5, <1>6, <1>7, WithOneMore
<1> QED BY <1>1, <1>2, <1>3, <1>8

\* Texts t and u are written to the stream W of os at once, to become new, or
\* one after the other, to become later.
Twice(os, W, t, u, mid, new, later) ==
  /\ os \in Seq(Text) /\ W \in DOMAIN os /\ t \in Text /\ u \in Text
  /\ mid = [os EXCEPT ![W] = @ \o t]
  /\ new = [os EXCEPT ![W] = @ \o (t \o u)]
  /\ later = [mid EXCEPT ![W] = @ \o u]

LEMMA WrittenTwice ==
  ASSUME NEW os, NEW W, NEW t, NEW u, NEW mid, NEW new, NEW later,
         Twice(os, W, t, u, mid, new, later)
  PROVE  new = later
<1>0. /\ os \in Seq(Text) /\ W \in DOMAIN os /\ t \in Text /\ u \in Text
      /\ mid = [os EXCEPT ![W] = @ \o t]
      /\ new = [os EXCEPT ![W] = @ \o (t \o u)]
      /\ later = [mid EXCEPT ![W] = @ \o u]
  BY DEF Twice
<1>1. PICK s : s = os[W]
  OBVIOUS
<1>2. s \in Text
  BY <1>0, <1>1
<1>3. s \o (t \o u) = (s \o t) \o u
  <2>1. PICK T : Text = Seq(T)
    BY DEF Text
  <2>2. s \in Seq(T) /\ t \in Seq(T) /\ u \in Seq(T)
    BY <1>0, <1>2, <2>1
  <2> QED BY ONLY <2>2
<1>4. mid[W] = s \o t /\ DOMAIN mid = DOMAIN os
  BY <1>0, <1>1
<1>5. [mid EXCEPT ![W] = @ \o u] = [os EXCEPT ![W] = (s \o t) \o u]
  BY <1>0, <1>4
<1> QED BY <1>0, <1>1, <1>3, <1>5

\* Compilers with the same scopes and the same l-value need the same objects.
LEMMA SuitedAlike ==
  ASSUME NEW S, NEW c, NEW d, Suited(S, c), d.local = c.local, d.req = c.req,
         Tidy(d.lvalue, S), Balanced(d.lvalue)
  PROVE  Suited(S, d)
BY DEF Suited, Closed

\* A handler for node n, of frame q, begins with text on the stream in use,
\* where the objects of S are in sight, and what it calls needs those of needs.
Enters(n, q, S, text, needs) ==
  /\ text \in Text /\ Tidy(text, S) /\ \A i \in 0 .. Len(text) : Depth(text, i) >= 0
  /\ End(text) = Blocks(q)
  /\ outs' = [outs EXCEPT ![Len(outs)] = @ \o (Separator \o text)]
  /\ needs \in SUBSET Nat /\ \A s \in needs : s \in S \/ Sees(text, Raised(q), s)
  /\ Len(compilers') = (IF MakesOne(n) THEN Len(compilers) + 1 ELSE Len(compilers))
  /\ \A i \in 1 .. Len(compilers) : i # Len(compilers) => compilers'[i] = compilers[i]
  /\ Suited(S, compilers'[Len(compilers)])
  /\ IF MakesOne(n) THEN Suited(needs, compilers'[Len(compilers) + 1]) ELSE needs = S

LEMMA EnterStands ==
  ASSUME CompileInv, phase = "code", UNCHANGED tables, NEW n, Reached(n),
         NEW inline \in BOOLEAN, Push(n, inline),
         Kind(n) \notin {"Assignment", "FunctionDeclaration"},
         NEW G, NEW outside, NEW using, NEW writing, Standing(G, outside, using, writing),
         NEW S, S = G[Len(frames)].needs,
         NEW q, q = Frame(n, Kind(n), inline, C.expr),
         NEW text, NEW needs, Enters(n, q, S, text, needs)
  PROVE  \E H, out, us, ws : Standing(H, out, us, ws)'
<1>0. /\ text \in Text /\ Tidy(text, S) /\ \A i \in 0 .. Len(text) : Depth(text, i) >= 0
      /\ End(text) = Blocks(q)
      /\ outs' = [outs EXCEPT ![Len(outs)] = @ \o (Separator \o text)]
      /\ needs \in SUBSET Nat /\ \A s \in needs : s \in S \/ Sees(text, Raised(q), s)
      /\ Len(compilers') = (IF MakesOne(n) THEN Len(compilers) + 1 ELSE Len(compilers))
      /\ \A i \in 1 .. Len(compilers) : i # Len(compilers) => compilers'[i] = compilers[i]
      /\ Suited(S, compilers'[Len(compilers)])
      /\ IF MakesOne(n) THEN Suited(needs, compilers'[Len(compilers) + 1]) ELSE needs = S
  BY ONLY Enters(n, q, S, text, needs), Zenon DEF Enters
<1> USE <1>0
<1>1. PICK N, W, L : N = Len(frames) /\ W = Len(outs) /\ L = Len(compilers)
  OBVIOUS
<1>2. /\ prog \in Programs /\ OnPath
  BY CodeFacts
<1>3. PICK f : f = [Top EXCEPT !.next = @ + 1]
  OBVIOUS
<1>4. frames'[N] = f /\ frames'[N + 1] = q /\ N \in Nat \ {0}
  BY <1>1, <1>2, <1>3, PushTops
<1>5. /\ Layered(G, outs, outside) /\ Len(G) = N /\ W \in Nat \ {0}
      /\ G[N] \in Layers /\ G[N].base \in Nat
      /\ G[N].stream = W /\ G[N].needs = S
  BY <1>1, StandingFacts
<1>6. PICK F, mid : Separated(F, mid, G, outside, f)
  BY <1>3, SeparatorLayer
<1>7. /\ Layered(F, mid, outside) /\ Len(F) = N
      /\ \A k \in 1 .. N : k # N => F[k] = G[k]
      /\ F[N].stream = W /\ F[N].needs = S
      /\ F[N].base = G[N].base /\ F[N].level = G[N].level /\ F[N].top = G[N].base + Blocks(f)
      /\ Len(mid) = W /\ mid = [outs EXCEPT ![W] = @ \o Separator]
  BY <1>1, <1>5, <1>6 DEF Separated
<1>8. Separator \in Text
  BY AroundParts DEF GoodText, Text, Items
<1>9. outs' = [mid EXCEPT ![W] = @ \o text]
  <2>1. outs \in Seq(Text) /\ W \in DOMAIN outs
    BY <1>1, <1>5 DEF Layered, Ends
  <2>2. PICK t, new : t = Separator /\ new = outs'
    OBVIOUS
  <2>3. /\ t \in Text /\ text \in Text /\ mid = [outs EXCEPT ![W] = @ \o t]
        /\ new = [outs EXCEPT ![W] = @ \o (t \o text)]
    BY <1>1, <1>7, <1>8, <2>2
  <2>4. PICK later : later = [mid EXCEPT ![W] = @ \o text]
    OBVIOUS
  <2>5. new = later
    <3>1. Twice(outs, W, t, text, mid, new, later)
      BY ONLY <2>1, <2>3, <2>4 DEF Twice
    <3> QED BY <3>1, WrittenTwice
  <2> QED BY <2>2, <2>4, <2>5
<1>10. PICK b \in Nat : b = F[N].top
  <2>1. F[N].top \in Nat
    BY <1>5, <1>7 DEF Blocks
  <2> QED BY <2>1
<1>11. PICK e, a \in Nat : e = Blocks(q) /\ a = Raised(q) /\ a <= e
  <2>1. Blocks(q) \in Nat /\ Raised(q) \in Nat /\ Raised(q) <= Blocks(q)
    BY DEF Blocks, Raised
  <2> QED BY <2>1
<1>12. PICK r : r = [stream |-> W, base |-> b, level |-> b + a, top |-> b + e, needs |-> needs]
  OBVIOUS
<1>13. /\ r \in Layers /\ r.stream = W /\ r.base = b /\ r.level = b + a /\ r.top = b + e
       /\ r.needs = needs
  <2>1. b + a \in Nat /\ b + e \in Nat /\ W \in Nat /\ needs \in SUBSET Nat
    BY <1>0, <1>5, <1>11
  <2> QED BY ONLY <1>12, <2>1, b \in Nat DEF Layers
<1>14. PICK H : H = Append(F, r)
  OBVIOUS
<1>15. PICK os : os = outs'
  OBVIOUS
<1>16. /\ Layered(H, os, outside) /\ Len(H) = N + 1 /\ H[N + 1] = r
       /\ \A k \in 1 .. N : H[k] = F[k]
  <2>1. Tidy(text, F[N].needs) /\ \A i \in 0 .. Len(text) : Depth(text, i) >= 0
    BY <1>7
  <2>2. r.base = F[N].top /\ r.base <= r.level /\ r.level <= r.top
        /\ r.top = r.base + End(text)
    BY <1>10, <1>11, <1>13
  <2>3. \A s \in r.needs : s \in F[N].needs \/ Sees(text, r.level - r.base, s)
    <3>1. r.level - r.base = Raised(q)
      BY <1>11, <1>13
    <3> QED BY <1>7, <1>13, <3>1
  <2>4. os = [mid EXCEPT ![W] = @ \o text]
    BY <1>9, <1>15
  <2>5. W = Len(mid) /\ N = Len(F)
    BY <1>7
  <2>6. text \in Text /\ r \in Layers /\ r.stream = W /\ Layered(F, mid, outside)
    BY <1>7, <1>13
  <2>7. Begins(F, mid, outside, N, W, text, r, H, os)
    BY ONLY <1>14, <2>1, <2>2, <2>3, <2>4, <2>5, <2>6 DEF Begins
  <2>8. Begun(F, outside, N, r, H, os)
    BY ONLY <2>7, LayersBegin
  <2> QED BY ONLY <2>8 DEF Begun
<1>17. N \in 1 .. N
  BY <1>4
<1>18. \A k \in 1 .. N : k # N => H[k] = G[k]
  BY <1>7, <1>16
<1>19. /\ H[N].stream = G[N].stream /\ H[N].needs = G[N].needs /\ H[N].base = G[N].base
       /\ H[N].level = G[N].level /\ H[N].top = G[N].base + Blocks(frames'[N])
       /\ H[N + 1].stream = W
       /\ H[N + 1].level = H[N + 1].base + Raised(frames'[N + 1])
       /\ H[N + 1].top = H[N + 1].base + Blocks(frames'[N + 1])
  BY <1>4, <1>5, <1>7, <1>11, <1>13, <1>16, <1>17
<1>20. PICK u, w : u = Len(compilers') /\ w = Len(outs')
  OBVIOUS
<1>21. u = (IF MakesOne(n) THEN L + 1 ELSE L) /\ w = W
  <2>1. Len(outs') = Len(mid)
    <3>1. mid \in Seq(Text)
      BY <1>6 DEF Separated
    <3> QED BY <1>7, <1>9, <3>1
  <2> QED BY <1>1, <1>7, <1>20, <2>1
<1>22. w = IF Kind(n) \in {"Assignment", "FunctionDeclaration"} THEN W + 1 ELSE W
  BY <1>21
<1>23. IF MakesOne(n) THEN Suited(H[N + 1].needs, compilers'[L + 1])
       ELSE H[N + 1].needs = G[N].needs
  BY <1>1, <1>5, <1>13, <1>16
<1>24. /\ \A i \in 1 .. L : i # L => compilers'[i] = compilers[i]
       /\ Suited(G[N].needs, compilers'[L])
  BY <1>1, <1>5
<1>25. Pushes(n, G, outside, N, H, os, outside)
  <2>1. u = (IF MakesOne(n) THEN L + 1 ELSE L) /\ w = W
    BY <1>21
  <2>2. H[N + 1].stream = w
    BY <1>19, <1>21
  <2> QED BY ONLY <1>1, <1>15, <1>16, <1>18, <1>19, <1>20, <1>21, <1>22, <1>23, <1>24, <2>2
          DEF Pushes
<1> QED BY <1>1, <1>2, <1>25, PushStands

-----------------------------------------------------------------------------
(* The actions keep what is needed in sight.                               *)

Sighted == \E G, outside, using, writing : Standing(G, outside, using, writing)
MethodsTidy == \A k \in DOMAIN post_body : Tidy(post_body[k].text, {})
SightInv == phase \in {"code", "compiled"} => Sighted /\ MethodsTidy

\* A step that leaves the methods alone.
LEMMA StaysSighted ==
  ASSUME SightInv, phase = "code", UNCHANGED tables, UNCHANGED post_body, Sighted'
  PROVE  SightInv'
<1>1. MethodsTidy
  BY DEF SightInv
<1>2. MethodsTidy'
  <2>1. \A k \in DOMAIN post_body : Tidy(post_body[k].text, {})'
    BY <1>1, SightStays DEF MethodsTidy
  <2>2. PICK p : p = post_body
    OBVIOUS
  <2>3. \A k \in DOMAIN p : Tidy(p[k].text, {})'
    BY <2>1, <2>2
  <2>4. p = post_body'
    BY <2>2
  <2>5. \A k \in DOMAIN post_body' : Tidy(post_body[k].text, {})'
    BY <2>3, <2>4
  <2> QED BY <2>5 DEF MethodsTidy
<1> QED BY <1>2 DEF SightInv

\* A handler that makes no Compiler changes current_expr at most.
LEMMA EnteredSuits ==
  ASSUME CompileInv, phase = "code", NEW n \in Nodes, NEW e, e = Entered(n),
         NEW L, L = Len(compilers), NEW S, Suited(S, C)
  PROVE  /\ Len(e) = L /\ \A i \in 1 .. L : i # L => e[i] = compilers[i]
         /\ Suited(S, e[L]) /\ e \in Seq(Compilers)
<1>1. /\ compilers \in Seq(Compilers) /\ C = compilers[L] /\ L \in Nat \ {0}
      /\ DOMAIN compilers = 1 .. L
  BY CodeFacts
<1>2. /\ e \in Seq(Compilers) /\ Len(e) = L
      /\ \A i \in 1 .. L : /\ e[i].local = compilers[i].local /\ e[i].req = compilers[i].req
                           /\ e[i].lvalue = compilers[i].lvalue
  BY EnteredFacts
<1>3. \A i \in 1 .. L : i # L => e[i] = compilers[i]
  BY <1>1 DEF Entered
<1>4. Suited(S, e[L])
  <2>1. /\ e[L].local = C.local /\ e[L].req = C.req /\ e[L].lvalue = C.lvalue
    BY <1>1, <1>2
  <2>2. Tidy(e[L].lvalue, S) /\ Balanced(e[L].lvalue)
    BY <2>1 DEF Suited
  <2>3. PICK d : d = e[L]
    OBVIOUS
  <2> QED BY <2>1, <2>2, <2>3, SuitedAlike
<1> QED BY <1>2, <1>3, <1>4

LEMMA SightEnterOther ==
  ASSUME CompileInv, SightInv, NEW n, EnterOther(n), ExprsSaved'
  PROVE  SightInv'
<1>1. PICK inline \in BOOLEAN : Push(n, inline)
  BY DEF EnterOther, IsConditional
<1>2. /\ phase = "code" /\ UNCHANGED tables /\ Reached(n) /\ compilers' = Entered(n)
      /\ Kind(n) \notin {"Let", "Assignment"} \cup DeclarationKinds
      /\ UNCHANGED post_body
      /\ outs' = [outs EXCEPT ![Len(outs)] = @ \o (Separator \o Beginning(n))]
  BY <1>1 DEF EnterOther, Push, Reached, Write
<1>3. n \in Nodes
  BY <1>2, Here
<1>4. PICK G, outside, using, writing : Standing(G, outside, using, writing)
  BY <1>2 DEF SightInv, Sighted
<1>5. PICK N, S : N = Len(frames) /\ S = G[N].needs
  OBVIOUS
<1>6. Suited(S, C) /\ S \in SUBSET Nat
  BY <1>2, <1>4, <1>5, StandingFacts
<1>7. PICK q : q = Frame(n, Kind(n), inline, C.expr)
  OBVIOUS
<1>8. /\ q.kind = Kind(n) /\ q.next = 1
      /\ Blocks(q) = IF Kind(n) = "For" THEN 1 ELSE 0
  BY <1>2, <1>7 DEF Blocks, Frame
<1>9. PICK text : text = Beginning(n)
  OBVIOUS
<1>10. /\ text \in Text
       /\ \/ text = << >> /\ Kind(n) # "For"
          \/ \E it : StartsWith(n, it) /\ text = <<it>>
  <2>1. /\ GoodText(Beginning(n))
        /\ \/ Beginning(n) = << >> /\ Kind(n) # "For"
           \/ \E it : StartsWith(n, it) /\ Beginning(n) = <<it>>
    BY <1>1, <1>2, BeginningGood
  <2> QED BY <1>9, <2>1 DEF GoodText, Text, Items
<1>11. /\ Tidy(text, S) /\ End(text) = Blocks(q)
       /\ \A i \in 0 .. Len(text) : Depth(text, i) >= 0
  <2>1. CASE text = << >> /\ Kind(n) # "For"
    <3>1. Len(text) = 0
      BY <2>1
    <3> QED BY <1>8, <2>1, <3>1, TidyShort, DepthShort
  <2>2. CASE \E it : StartsWith(n, it) /\ text = <<it>>
    <3>1. PICK it : StartsWith(n, it) /\ text = <<it>>
      BY <2>2
    <3>2. /\ it.item \in {"for", "field", "local", "call"}
          /\ it.item = "for" <=> Kind(n) = "For"
          /\ \A Z : Closed(Z, C) => it.scope \in Z \cup {NoScope}
      BY <3>1 DEF StartsWith
    <3>3. it.scope \in S \cup {NoScope}
      BY <1>6, <3>2 DEF Suited
    <3>4. ~ (it.item = "object" /\ it.node # Main) /\ Sought(it) \subseteq S
      BY <3>2, <3>3 DEF Sought
    <3>5. Tidy(text, S)
      BY <3>1, <3>4, TidyShort
    <3>6. Turn(it) = Blocks(q) /\ Turn(it) \in {0, 1}
      BY <1>8, <3>2 DEF Turn, Opening
    <3>7. Len(text) = 1 /\ End(text) = Turn(it)
          /\ \A i \in 0 .. 1 : Depth(text, i) = IF i = 0 THEN 0 ELSE Turn(it)
      BY <3>1, DepthShort
    <3> QED BY <3>5, <3>6, <3>7
  <2> QED BY <1>10, <2>1, <2>2
<1>12. ~ MakesOne(n) /\ Kind(n) \notin {"Assignment", "FunctionDeclaration"}
  BY <1>2 DEF MakesOne, DeclarationKinds
<1>13. Enters(n, q, S, text, S)
  <2>1. PICK L : L = Len(compilers)
    OBVIOUS
  <2>2. /\ Len(compilers') = L /\ \A i \in 1 .. L : i # L => compilers'[i] = compilers[i]
        /\ Suited(S, compilers'[L])
    BY <1>2, <1>3, <1>6, <2>1, EnteredSuits
  <2>3. outs' = [outs EXCEPT ![Len(outs)] = @ \o (Separator \o text)]
    BY <1>2, <1>9
  <2> QED BY ONLY <1>6, <1>10, <1>11, <1>12, <2>1, <2>2, <2>3 DEF Enters
<1>14. Sighted'
  BY <1>1, <1>2, <1>4, <1>5, <1>7, <1>12, <1>13, EnterStands DEF Sighted
<1> QED BY <1>2, <1>14, StaysSighted

LEMMA SightEnterVariable ==
  ASSUME CompileInv, SightInv, NEW n, EnterVariable(n)
  PROVE  SightInv'
<1>1. PICK lval : lval = <<Item("field", n, LocalScope, 0)>>
  OBVIOUS
<1>2. /\ phase = "code" /\ UNCHANGED tables /\ Reached(n) /\ Push(n, FALSE)
      /\ Kind(n) = "VariableDeclaration" /\ UNCHANGED post_body
      /\ outs' = [outs EXCEPT ![Len(outs)] = @ \o lval]
      /\ compilers' = [compilers EXCEPT ![Len(compilers)].lvalue = lval]
  BY <1>1 DEF EnterVariable, Push, Reached, Write
<1>3. n \in Nodes /\ LocalScope \in DOMAIN scopes
  BY <1>2, Here
<1>4. PICK G, outside, using, writing : Standing(G, outside, using, writing)
  BY <1>2 DEF SightInv, Sighted
<1>5. PICK N, S : N = Len(frames) /\ S = G[N].needs
  OBVIOUS
<1>6. Suited(S, C) /\ S \in SUBSET Nat /\ LocalScope \in S
  <2>1. Suited(S, C) /\ S \in SUBSET Nat
    BY <1>2, <1>4, <1>5, StandingFacts
  <2> QED BY <2>1 DEF Suited, Closed, LocalScope
<1>7. PICK q : q = Frame(n, Kind(n), FALSE, C.expr)
  OBVIOUS
<1>8. Blocks(q) = 0
  BY <1>2, <1>7 DEF Blocks, Frame
<1>9. PICK it : it = Item("field", n, LocalScope, 0)
  OBVIOUS
<1>10. lval = <<it>> /\ lval \in Text /\ it.item = "field" /\ it.scope = LocalScope
  <2>1. it \in Items
    BY <1>2, <1>9, VariableGood
  <2> QED BY <1>1, <1>9, <2>1 DEF Text, Items, Item
<1>11. /\ Tidy(lval, S) /\ End(lval) = 0 /\ Balanced(lval)
       /\ \A i \in 0 .. Len(lval) : Depth(lval, i) >= 0
  <2>1. ~ (it.item = "object" /\ it.node # Main) /\ Sought(it) \subseteq S
    BY <1>6, <1>10 DEF Sought
  <2>2. Tidy(lval, S)
    BY <1>10, <2>1, TidyShort
  <2>3. Turn(it) = 0
    BY <1>10 DEF Turn, Opening
  <2>4. Len(lval) = 1 /\ End(lval) = 0
        /\ \A i \in 0 .. 1 : Depth(lval, i) = IF i = 0 THEN 0 ELSE 0
    BY <1>10, <2>3, DepthShort
  <2> QED BY <2>2, <2>4 DEF Balanced
<1>12. ~ MakesOne(n) /\ Kind(n) \notin {"Assignment", "FunctionDeclaration"}
  BY <1>2 DEF MakesOne
<1>13. outs' = [outs EXCEPT ![Len(outs)] = @ \o (Separator \o lval)]
  <2>1. Separator = << >>
    BY <1>2, DeclaredInLet DEF DeclarationKinds
  <2>2. << >> \o lval = lval
    BY <1>10 DEF Text
  <2> QED BY <1>2, <2>1, <2>2
<1>14. Enters(n, q, S, lval, S)
  <2>1. PICK L : L = Len(compilers)
    OBVIOUS
  <2>2. /\ compilers \in Seq(Compilers) /\ C = compilers[L] /\ L \in Nat \ {0}
        /\ DOMAIN compilers = 1 .. L /\ C \in Compilers
    BY <1>2, <2>1, CodeFacts
  <2>3. PICK c : c = [C EXCEPT !.lvalue = lval]
    OBVIOUS
  <2>4. c \in Compilers /\ c.local = C.local /\ c.req = C.req /\ c.lvalue = lval
    BY <1>10, <2>2, <2>3 DEF Compilers
  <2>5. compilers' = [compilers EXCEPT ![L] = c]
    BY <1>2, <2>1, <2>2, <2>3
  <2>6. /\ Len(compilers') = L
        /\ \A i \in 1 .. L : compilers'[i] = IF i = L THEN c ELSE compilers[i]
    <3>1. L \in DOMAIN compilers /\ L = Len(compilers)
      BY <2>1, <2>2
    <3> QED BY ONLY <2>2, <2>4, <2>5, <3>1, Replaced
  <2>7. Suited(S, c)
    BY <1>6, <1>11, <2>4, SuitedAlike
  <2>8. Suited(S, compilers'[L])
    BY <2>2, <2>6, <2>7
  <2> QED BY ONLY <1>6, <1>8, <1>10, <1>11, <1>12, <1>13, <2>1, <2>6, <2>8 DEF Enters
<1>15. Sighted'
  BY <1>2, <1>4, <1>5, <1>7, <1>12, <1>14, EnterStands DEF Sighted
<1> QED BY <1>2, <1>15, StaysSighted

\* What a Let or function begins with: its object in a block of its own.
LEMMA ObjectTidy ==
  ASSUME Table!LookupInv, St!Built, NEW n \in Openers, NEW s, s = ScopeOpenedBy(n),
         NEW around, around = ScopeOpenedBy(Binder(n)), NEW E, around \in E,
         NEW a, a.item \in {"open", "param"}, a.item = "param" => a.scope = around,
         NEW text, text = <<a, Object(n, s), Link(n, s, around)>>
  PROVE  /\ Tidy(text, IF a.item = "param" THEN {} ELSE E)
         /\ End(text) = Turn(a) /\ Turn(a) = IF a.item = "open" THEN 1 ELSE 0
         /\ Len(text) = 3 /\ \A i \in 0 .. 3 : Depth(text, i) = IF i = 0 THEN 0 ELSE Turn(a)
         /\ Sees(text, Turn(a), s)
         /\ a.item = "param" => Sees(text, 0, around)
<1>1. PICK b, c : b = Object(n, s) /\ c = Link(n, s, around)
  OBVIOUS
<1>2. /\ b.item = "object" /\ b.node = n /\ b.scope = s /\ c.item = "link"
  BY <1>1 DEF Object, Link, Item
<1>3. n # Main
  BY DEF Openers, Nodes, NodesOf, Main, Null
<1>4. /\ text = <<a, b, c>> /\ Len(text) = 3 /\ DOMAIN text = {1, 2, 3}
      /\ text[1] = a /\ text[2] = b /\ text[3] = c
  BY <1>1
<1>5. /\ Turn(b) = 0 /\ Turn(c) = 0 /\ Turn(a) = IF a.item = "open" THEN 1 ELSE 0
  BY <1>2 DEF Turn, Opening
<1>6. \A i \in 0 .. 3 : i = 0 \/ i = 1 \/ i = 2 \/ i = 3
  OBVIOUS
<1>7. Turn(a) \in Int
  BY <1>5
<1>8. /\ End(text) = Turn(a) /\ Depth(text, 0) = 0 /\ Depth(text, 1) = Turn(a)
      /\ Depth(text, 2) = Turn(a) /\ Depth(text, 3) = Turn(a)
  <2>1. /\ End(text) = Turn(a) + Turn(b) + Turn(c) /\ Depth(text, 0) = 0
        /\ Depth(text, 1) = Turn(a) /\ Depth(text, 2) = Turn(a) + Turn(b)
        /\ Depth(text, 3) = End(text)
    BY <1>4, DepthShort
  <2> QED BY <1>5, <1>7, <2>1
<1>9. \A i \in 0 .. 3 : Depth(text, i) = IF i = 0 THEN 0 ELSE Turn(a)
  BY <1>6, <1>8
<1>10. Sees(text, Turn(a), s)
  <2>1. Declares(text[2], s) /\ Depth(text, 2) <= Turn(a)
    BY <1>2, <1>4, <1>7, <1>8 DEF Declares
  <2>2. \A k \in 2 .. 3 : Depth(text, k) >= Depth(text, 2)
    <3>1. \A k \in 2 .. 3 : k = 2 \/ k = 3
      OBVIOUS
    <3> QED BY <1>7, <1>8, <3>1
  <2> QED BY <1>4, <2>1, <2>2 DEF Sees
<1>11. ASSUME a.item = "param" PROVE Sees(text, 0, around) /\ InSight(text, 2, around)
  <2>1. Declares(text[1], around) /\ Depth(text, 1) <= 0 /\ Turn(a) = 0
    BY <1>4, <1>5, <1>8, <1>11 DEF Declares
  <2>2. \A k \in 1 .. 3 : Depth(text, k) >= Depth(text, 1)
    <3>1. \A k \in 1 .. 3 : k = 1 \/ k = 2 \/ k = 3
      OBVIOUS
    <3> QED BY <1>8, <2>1, <3>1
  <2>3. Sees(text, 0, around)
    BY <1>4, <2>1, <2>2 DEF Sees
  <2>4. Visible(text, 1, 2)
    <3>1. 1 < 2 /\ \A k \in 1 .. 2 - 1 : k = 1
      OBVIOUS
    <3> QED BY <1>8, <2>1, <3>1 DEF Visible
  <2>5. InSight(text, 2, around)
    BY <1>4, <2>1, <2>4 DEF InSight, Declares
  <2> QED BY <2>3, <2>5
<1>12. /\ Sought(a) = {} /\ Sought(b) = {around} /\ Sought(c) = {}
  BY <1>2, <1>3 DEF Sought
<1>13. \A i \in {1, 2, 3} : LinkedAt(text, i)
  <2>1. LinkedAt(text, 1) /\ LinkedAt(text, 3)
    BY <1>2, <1>4 DEF LinkedAt
  <2>2. LinkedAt(text, 2)
    BY <1>1, <1>2, <1>4 DEF LinkedAt
  <2> QED BY <2>1, <2>2
<1>14. Tidy(text, IF a.item = "param" THEN {} ELSE E)
  BY <1>4, <1>11, <1>12, <1>13 DEF Tidy
<1> QED BY <1>4, <1>5, <1>8, <1>9, <1>10, <1>11, <1>14

LEMMA SightEnterLet ==
  ASSUME CompileInv, SightInv, NEW n, EnterLet(n)
  PROVE  SightInv'
<1>1. /\ phase = "code" /\ UNCHANGED tables /\ Reached(n) /\ Push(n, FALSE)
      /\ Kind(n) = "Let" /\ UNCHANGED post_body
  BY DEF EnterLet, Push, Reached
<1>2. /\ n \in Nodes /\ LocalScope \in DOMAIN scopes /\ LocalScope = ScopeOpenedBy(Binder(n))
      /\ Table!LookupInv /\ St!Built /\ ReqScope \in ScopeNumbers
  BY <1>1, CodeFacts, Here
<1>3. PICK G, outside, using, writing : Standing(G, outside, using, writing)
  BY <1>1 DEF SightInv, Sighted
<1>4. PICK N, S : N = Len(frames) /\ S = G[N].needs
  OBVIOUS
<1>5. Suited(S, C) /\ S \in SUBSET Nat /\ LocalScope \in S
  <2>1. Suited(S, C) /\ S \in SUBSET Nat
    BY <1>1, <1>3, <1>4, StandingFacts
  <2> QED BY <2>1 DEF Suited, Closed, LocalScope
<1>6. PICK q : q = Frame(n, Kind(n), FALSE, C.expr)
  OBVIOUS
<1>7. /\ Blocks(q) = IF HasBody(n) THEN 1 ELSE 0
      /\ Raised(q) = IF HasBody(n) THEN 1 ELSE 0
  BY <1>1, <1>6 DEF Blocks, Raised, Frame
<1>8. Kind(n) \notin {"Assignment", "FunctionDeclaration"} /\ n \in Openers
  BY <1>1, <1>2 DEF Openers, Opener
<1>9. PICK L, e : L = Len(compilers) /\ e = Entered(n)
  OBVIOUS
<1>10. /\ Len(e) = L /\ \A i \in 1 .. L : i # L => e[i] = compilers[i]
       /\ Suited(S, e[L]) /\ e \in Seq(Compilers) /\ L \in Nat \ {0}
  BY <1>1, <1>2, <1>5, <1>9, CodeFacts, EnteredSuits
<1>11. CASE ~ HasBody(n)
  <2>1. PICK text : text = << >>
    OBVIOUS
  <2>2. /\ text \in Text /\ Tidy(text, S) /\ End(text) = Blocks(q)
        /\ \A i \in 0 .. Len(text) : Depth(text, i) >= 0
    <3>1. Len(text) = 0 /\ text \in Text
      BY <2>1 DEF Text
    <3> QED BY <1>7, <1>11, <2>1, <3>1, TidyShort, DepthShort
  <2>3. ~ MakesOne(n)
    BY <1>1, <1>11 DEF MakesOne
  <2>4. compilers' = e
    BY <1>9, <1>11 DEF EnterLet
  <2>5. outs' = [outs EXCEPT ![Len(outs)] = @ \o (Separator \o text)]
    <3>1. Separator \o text = Separator
      <4>1. Separator \in Text
        BY <1>1, AroundParts DEF GoodText, Text, Items
      <4> QED BY <2>1, <4>1 DEF Text
    <3> QED BY <1>11, <3>1 DEF EnterLet, Write
  <2>6. Enters(n, q, S, text, S)
    <3>1. Len(compilers') = L /\ (\A i \in 1 .. L : i # L => compilers'[i] = compilers[i])
          /\ Suited(S, compilers'[L])
      BY <1>10, <2>4
    <3> QED BY ONLY <1>5, <1>9, <2>2, <2>3, <2>5, <3>1 DEF Enters
  <2>7. Sighted'
    BY <1>1, <1>3, <1>4, <1>6, <1>8, <2>6, EnterStands DEF Sighted
  <2> QED BY <1>1, <2>7, StaysSighted
<1>12. CASE HasBody(n)
  <2>1. PICK s : s = BodyScope(n)
    OBVIOUS
  <2>2. s = ScopeOpenedBy(n) /\ s \in DOMAIN scopes /\ scopes[s].parent = LocalScope
    BY <1>1, <1>2, <1>8, <1>12, <2>1, BodyScopes, BuiltScopes
  <2>3. s \in Nat
    BY <1>2, <2>2, ScopesTyped
  <2>4. PICK a, text : a = Plain("open", n)
                       /\ text = <<a, Object(n, s), Link(n, s, LocalScope)>>
    OBVIOUS
  <2>5. a.item = "open"
    BY <2>4 DEF Plain, Item
  <2>6. /\ Tidy(text, S) /\ End(text) = 1 /\ Len(text) = 3
        /\ \A i \in 0 .. 3 : Depth(text, i) = IF i = 0 THEN 0 ELSE 1
        /\ Sees(text, 1, s)
    <3>1. /\ Tidy(text, IF a.item = "param" THEN {} ELSE S)
          /\ End(text) = Turn(a) /\ Turn(a) = IF a.item = "open" THEN 1 ELSE 0
          /\ Len(text) = 3 /\ \A i \in 0 .. 3 : Depth(text, i) = IF i = 0 THEN 0 ELSE Turn(a)
          /\ Sees(text, Turn(a), s)
      BY <1>2, <1>5, <1>8, <2>2, <2>4, <2>5, ObjectTidy
    <3> QED BY <2>5, <3>1
  <2>7. text \in Text
    <3>1. NoScope \in ScopeNumbers /\ s \in ScopeNumbers
      BY <1>2, <2>2, ScopesTyped DEF ScopeNumbers, NoScope
    <3>2. Plain("open", n) \in Items /\ Object(n, s) \in Items
      BY <1>2, <3>1, GoodPlain DEF Plain, Object
    <3>3. Link(n, s, LocalScope) \in Items
      BY <1>2, <1>8, <2>2, GoodLink
    <3> QED BY <2>4, <3>2, <3>3 DEF Text, Items
  <2>8. PICK c : c = Compiler(s, ReqScope, n)
    OBVIOUS
  <2>9. c \in Compilers /\ c.local = s /\ c.req = ReqScope /\ c.lvalue = << >>
    <3>1. n \in Nodes \cup {Null}
      BY <1>2
    <3>2. c.lvalue = << >>
      BY <2>8 DEF Compiler
    <3> QED BY <1>2, <2>2, <2>8, <3>1, <3>2, NewCompiler
  <2>10. PICK needs : needs = S \cup {s}
    OBVIOUS
  <2>11. Suited(needs, c)
    <3>1. /\ ReqScope # NoScope => ReqScope \in S
          /\ \A t \in S \ {NoScope, ReqScope} : scopes[t].parent = NoScope \/ scopes[t].parent \in S
      BY <1>5 DEF Suited, Closed, ReqScope
    <3>2. Closed(needs, c)
      BY <1>5, <2>2, <2>9, <2>10, <3>1 DEF Closed
    <3> QED BY <2>9, <3>2, TidyShort DEF Suited
  <2>12. MakesOne(n)
    BY <1>1, <1>12 DEF MakesOne, Opener
  <2>13. /\ compilers' = Append(e, c)
         /\ outs' = [outs EXCEPT ![Len(outs)] = @ \o (Separator \o text)]
    BY <1>9, <1>12, <2>1, <2>4, <2>8 DEF EnterLet, Write
  <2>14. /\ Len(compilers') = L + 1 /\ compilers'[L + 1] = c
         /\ \A i \in 1 .. L : compilers'[i] = e[i]
    BY ONLY <1>10, <2>9, <2>13, WithOneMore
  <2>15. compilers'[L] = e[L] /\ \A i \in 1 .. L : i # L => compilers'[i] = compilers[i]
    <3>1. L \in 1 .. L
      BY <1>10
    <3> QED BY <1>10, <2>14, <3>1
  <2>16. Enters(n, q, S, text, needs)
    <3>1. needs \in SUBSET Nat
      BY <1>5, <2>3, <2>10
    <3>2. Raised(q) = 1 /\ Blocks(q) = 1
      BY <1>7, <1>12
    <3>3. \A t \in needs : t \in S \/ Sees(text, Raised(q), t)
      BY <2>6, <2>10, <3>2
    <3>4. \A i \in 0 .. Len(text) : Depth(text, i) >= 0
      BY <2>6
    <3>5. Suited(S, compilers'[L]) /\ Suited(needs, compilers'[L + 1])
      BY <1>10, <2>11, <2>14, <2>15
    <3> QED BY ONLY <1>9, <2>6, <2>7, <2>12, <2>13, <2>14, <2>15, <3>1, <3>2, <3>3, <3>4, <3>5
            DEF Enters
  <2>17. Sighted'
    BY <1>1, <1>3, <1>4, <1>6, <1>8, <2>16, EnterStands DEF Sighted
  <2> QED BY <1>1, <2>17, StaysSighted
<1> QED BY <1>11, <1>12

\* A handler for node n, of frame q, begins a stream with text, in sight of
\* the objects of E, and what it calls needs the objects of needs.
BeginsStream(n, q, S, text, E, needs) ==
  /\ text \in Text /\ Tidy(text, E) /\ Balanced(text) /\ E \in SUBSET Nat
  /\ needs \in SUBSET Nat /\ \A s \in needs : s \in E \/ Sees(text, 0, s)
  /\ outs' = Append([outs EXCEPT ![Len(outs)] = @ \o Separator], text)
  /\ Len(compilers') = Len(compilers) + 1
  /\ \A i \in 1 .. Len(compilers) : i # Len(compilers) => compilers'[i] = compilers[i]
  /\ Suited(S, compilers'[Len(compilers)])
  /\ Suited(needs, compilers'[Len(compilers) + 1])
  /\ Kind(n) = "FunctionDeclaration" => E = {}
  /\ Kind(n) = "Assignment" => E = S /\ needs = S

LEMMA OpenStands ==
  ASSUME CompileInv, phase = "code", UNCHANGED tables, NEW n, Reached(n), Push(n, FALSE),
         Kind(n) \in {"Assignment", "FunctionDeclaration"},
         NEW G, NEW outside, NEW using, NEW writing, Standing(G, outside, using, writing),
         NEW S, S = G[Len(frames)].needs,
         NEW q, q = Frame(n, Kind(n), FALSE, C.expr),
         NEW text, NEW E, NEW needs, BeginsStream(n, q, S, text, E, needs)
  PROVE  \E H, out, us, ws : Standing(H, out, us, ws)'
<1>1. PICK N, W, L : N = Len(frames) /\ W = Len(outs) /\ L = Len(compilers)
  OBVIOUS
<1>0. /\ text \in Text /\ Tidy(text, E) /\ Balanced(text) /\ E \in SUBSET Nat
      /\ needs \in SUBSET Nat /\ \A s \in needs : s \in E \/ Sees(text, 0, s)
      /\ outs' = Append([outs EXCEPT ![W] = @ \o Separator], text)
      /\ Len(compilers') = L + 1
      /\ \A i \in 1 .. L : i # L => compilers'[i] = compilers[i]
      /\ Suited(S, compilers'[L])
      /\ Suited(needs, compilers'[L + 1])
      /\ Kind(n) = "FunctionDeclaration" => E = {}
      /\ Kind(n) = "Assignment" => E = S /\ needs = S
  BY ONLY <1>1, BeginsStream(n, q, S, text, E, needs), Zenon DEF BeginsStream
<1>2. prog \in Programs /\ OnPath
  BY CodeFacts
<1>3. PICK f : f = [Top EXCEPT !.next = @ + 1]
  OBVIOUS
<1>4. frames'[N] = f /\ frames'[N + 1] = q /\ N \in Nat \ {0}
  BY <1>1, <1>2, <1>3, PushTops
<1>5. /\ Layered(G, outs, outside) /\ Len(G) = N /\ W \in Nat \ {0}
      /\ G[N].base \in Nat /\ G[N].stream = W /\ G[N].needs = S
  BY <1>1, StandingFacts
<1>6. PICK F, mid : Separated(F, mid, G, outside, f)
  BY <1>3, SeparatorLayer
<1>7. /\ Layered(F, mid, outside) /\ Len(F) = N /\ F \in Seq(Layers)
      /\ \A k \in 1 .. N : k # N => F[k] = G[k]
      /\ F[N].stream = W /\ F[N].needs = S
      /\ F[N].base = G[N].base /\ F[N].level = G[N].level /\ F[N].top = G[N].base + Blocks(f)
      /\ mid \in Seq(Text) /\ Len(mid) = W /\ mid = [outs EXCEPT ![W] = @ \o Separator]
  BY <1>1, <1>5, <1>6 DEF Separated
<1>8. Blocks(q) = 0 /\ Raised(q) = 0
  BY DEF Blocks, Raised, Frame
<1>9. PICK r : r = [stream |-> W + 1, base |-> 0, level |-> 0, top |-> 0, needs |-> needs]
  OBVIOUS
<1>10. /\ r \in Layers /\ r.stream = W + 1 /\ r.base = 0 /\ r.level = 0 /\ r.top = 0
       /\ r.needs = needs
  BY ONLY <1>0, <1>5, <1>9 DEF Layers
<1>11. PICK H, os, out : H = Append(F, r) /\ os = Append(mid, text) /\ out = Append(outside, E)
  OBVIOUS
<1>12. Layered(H, os, out)
  <2>1. \A s \in r.needs : s \in E \/ Sees(text, 0, s)
    BY ONLY <1>0, <1>10
  <2>2. N = Len(F) /\ W = Len(mid)
    BY <1>7
  <2> QED BY ONLY <1>0, <1>7, <1>10, <1>11, <2>1, <2>2, LayersOpen
<1>13. /\ Len(H) = N + 1 /\ H[N + 1] = r /\ \A k \in 1 .. N : H[k] = F[k]
  BY ONLY <1>7, <1>10, <1>11, WithOneMore
<1>14. os = outs' /\ Len(os) = W + 1
  <2>1. os = outs'
    BY <1>0, <1>7, <1>11
  <2>2. Len(os) = W + 1
    BY ONLY <1>0, <1>7, <1>11, WithOneMore
  <2> QED BY <2>1, <2>2
<1>15. /\ Len(out) = W + 1 /\ out[W + 1] = E /\ \A k \in 1 .. W : out[k] = outside[k]
  <2>1. outside \in Seq(SUBSET Nat) /\ Len(outside) = W
    BY <1>7 DEF Layered, Kept
  <2> QED BY ONLY <1>0, <1>11, <2>1, WithOneMore
<1>16. N \in 1 .. N
  BY <1>4
<1>17. /\ \A k \in 1 .. N : k # N => H[k] = G[k]
       /\ H[N].stream = G[N].stream /\ H[N].needs = G[N].needs /\ H[N].base = G[N].base
       /\ H[N].level = G[N].level /\ H[N].top = G[N].base + Blocks(frames'[N])
  BY ONLY <1>4, <1>5, <1>7, <1>13, <1>16
<1>18. /\ H[N + 1].stream = W + 1
       /\ H[N + 1].level = H[N + 1].base + Raised(frames'[N + 1])
       /\ H[N + 1].top = H[N + 1].base + Blocks(frames'[N + 1])
       /\ H[N + 1].base = 0 /\ H[N + 1].needs = needs
  <2>1. Raised(frames'[N + 1]) = 0 /\ Blocks(frames'[N + 1]) = 0
    BY <1>4, <1>8
  <2> QED BY ONLY <1>10, <1>13, <2>1
<1>19. MakesOne(n)
  BY DEF MakesOne, Opener
<1>20. Len(outs') = IF Kind(n) \in {"Assignment", "FunctionDeclaration"} THEN W + 1 ELSE W
  BY <1>14
<1>21. Len(compilers') = IF MakesOne(n) THEN L + 1 ELSE L
  BY <1>0, <1>19
<1>22. Pushes(n, G, outside, N, H, os, out)
  <2>1. Len(outs') = W + 1
    BY <1>14
  <2>2. /\ Kind(n) = "FunctionDeclaration" => out[W + 1] = {}
        /\ Kind(n) = "Assignment" =>
             out[W + 1] = G[N].needs /\ H[N + 1].needs = G[N].needs /\ H[N + 1].base = 0
    BY ONLY <1>0, <1>5, <1>15, <1>18
  <2>3. IF MakesOne(n) THEN Suited(H[N + 1].needs, compilers'[L + 1])
        ELSE H[N + 1].needs = G[N].needs
    BY ONLY <1>0, <1>18, <1>19
  <2>4. Suited(G[N].needs, compilers'[L])
        /\ \A i \in 1 .. L : i # L => compilers'[i] = compilers[i]
    BY ONLY <1>0, <1>5
  <2> QED BY ONLY <1>1, <1>12, <1>13, <1>14, <1>15, <1>17, <1>18, <1>20, <1>21, <2>1, <2>2,
                  <2>3, <2>4 DEF Pushes
<1> QED BY <1>1, <1>2, <1>22, PushStands

LEMMA SightEnterAssignment ==
  ASSUME CompileInv, SightInv, NEW n, EnterAssignment(n)
  PROVE  SightInv'
<1>1. /\ phase = "code" /\ UNCHANGED tables /\ Reached(n) /\ Push(n, FALSE)
      /\ Kind(n) = "Assignment" /\ UNCHANGED post_body
  BY DEF EnterAssignment, Push, Reached
<1>2. /\ n \in Nodes /\ LocalScope \in DOMAIN scopes /\ ReqScope \in ScopeNumbers
  BY <1>1, Here
<1>3. PICK G, outside, using, writing : Standing(G, outside, using, writing)
  BY <1>1 DEF SightInv, Sighted
<1>4. PICK N, S : N = Len(frames) /\ S = G[N].needs
  OBVIOUS
<1>5. Suited(S, C) /\ S \in SUBSET Nat
  BY <1>1, <1>3, <1>4, StandingFacts
<1>6. PICK q, text : q = Frame(n, Kind(n), FALSE, C.expr) /\ text = << >>
  OBVIOUS
<1>7. text \in Text /\ Tidy(text, S) /\ Balanced(text)
  BY <1>6, TidyShort DEF Text
<1>8. PICK c : c = Compiler(LocalScope, ReqScope, n)
  OBVIOUS
<1>9. c \in Compilers /\ c.local = LocalScope /\ c.req = ReqScope /\ c.lvalue = << >>
  <2>1. n \in Nodes \cup {Null}
    BY <1>2
  <2>2. c.lvalue = << >>
    BY <1>8 DEF Compiler
  <2> QED BY <1>2, <1>8, <2>1, <2>2, NewCompiler
<1>10. Suited(S, c)
  BY <1>5, <1>9, TidyShort, SuitedAlike DEF LocalScope, ReqScope
<1>11. PICK L, e : L = Len(compilers) /\ e = Entered(n)
  OBVIOUS
<1>12. /\ Len(e) = L /\ \A i \in 1 .. L : i # L => e[i] = compilers[i]
       /\ Suited(S, e[L]) /\ e \in Seq(Compilers) /\ L \in Nat \ {0}
  BY <1>1, <1>2, <1>5, <1>11, CodeFacts, EnteredSuits
<1>13. /\ compilers' = Append(e, c)
       /\ outs' = Append([outs EXCEPT ![Len(outs)] = @ \o Separator], text)
  BY <1>6, <1>8, <1>11 DEF EnterAssignment
<1>14. /\ Len(compilers') = L + 1 /\ compilers'[L + 1] = c
       /\ \A i \in 1 .. L : compilers'[i] = e[i]
  BY ONLY <1>9, <1>12, <1>13, WithOneMore
<1>15. Suited(S, compilers'[L]) /\ \A i \in 1 .. L : i # L => compilers'[i] = compilers[i]
  <2>1. L \in 1 .. L
    BY <1>12
  <2> QED BY <1>12, <1>14, <2>1
<1>16. BeginsStream(n, q, S, text, S, S)
  <2>1. Suited(S, compilers'[L + 1]) /\ Kind(n) # "FunctionDeclaration"
    BY <1>1, <1>10, <1>14
  <2> QED BY ONLY <1>5, <1>7, <1>11, <1>13, <1>14, <1>15, <2>1 DEF BeginsStream
<1>17. Sighted'
  BY <1>1, <1>3, <1>4, <1>6, <1>16, OpenStands DEF Sighted
<1> QED BY <1>1, <1>17, StaysSighted

LEMMA SightEnterFunction ==
  ASSUME CompileInv, SightInv, NEW n, EnterFunction(n)
  PROVE  SightInv'
<1>1. /\ phase = "code" /\ UNCHANGED tables /\ Reached(n) /\ Push(n, FALSE)
      /\ Kind(n) = "FunctionDeclaration" /\ UNCHANGED post_body
  BY DEF EnterFunction, Push, Reached
<1>2. /\ n \in Nodes /\ C.expr \in Nodes \cup {Null} /\ Table!LookupInv /\ St!Built
  BY <1>1, CodeFacts, Here
<1>3. PICK G, outside, using, writing : Standing(G, outside, using, writing)
  BY <1>1 DEF SightInv, Sighted
<1>4. PICK N, S : N = Len(frames) /\ S = G[N].needs
  OBVIOUS
<1>5. Suited(S, C) /\ outs \in Seq(Text) /\ Len(outs) \in DOMAIN outs
  <2>1. Suited(S, C) /\ Layered(G, outs, outside) /\ Len(outs) \in Nat \ {0}
    BY <1>1, <1>3, <1>4, StandingFacts
  <2>2. outs \in Seq(Text)
    BY <2>1 DEF Layered, Ends
  <2> QED BY <2>1, <2>2
<1>6. PICK s, req : s = FnScope(n) /\ req = scopes[s].parent
  OBVIOUS
<1>7. n \in Openers
  BY <1>1, <1>2 DEF Openers, Opener
<1>8. /\ s = ScopeOpenedBy(n) /\ req = ScopeOpenedBy(Binder(n))
      /\ s \in DOMAIN scopes /\ req \in DOMAIN scopes
  BY <1>1, <1>2, <1>6, <1>7, BodyScopes, BuiltScopes
<1>9. s \in ScopeNumbers /\ req \in ScopeNumbers /\ s \in Nat /\ req \in Nat
  BY <1>2, <1>8, ScopesTyped DEF ScopeNumbers
<1>10. PICK a, text, q : /\ a = Item("param", n, req, 0)
                         /\ text = <<a, Object(n, s), Link(n, s, req)>>
                         /\ q = Frame(n, Kind(n), FALSE, C.expr)
  OBVIOUS
<1>11. a.item = "param" /\ a.scope = req
  BY <1>10 DEF Item
<1>12. /\ Tidy(text, {}) /\ Balanced(text) /\ Sees(text, 0, s) /\ Sees(text, 0, req)
  <2>1. /\ Tidy(text, IF a.item = "param" THEN {} ELSE {req})
        /\ End(text) = Turn(a) /\ Turn(a) = IF a.item = "open" THEN 1 ELSE 0
        /\ Len(text) = 3 /\ \A i \in 0 .. 3 : Depth(text, i) = IF i = 0 THEN 0 ELSE Turn(a)
        /\ Sees(text, Turn(a), s)
        /\ a.item = "param" => Sees(text, 0, req)
    <3>1. /\ req \in {req} /\ a.item \in {"open", "param"}
          /\ a.item = "param" => a.scope = req
      BY <1>11
    <3> QED BY <1>2, <1>7, <1>8, <1>10, <3>1, ObjectTidy
  <2>2. Turn(a) = 0
    BY <1>11, <2>1
  <2> QED BY <1>11, <2>1, <2>2 DEF Balanced
<1>13. text \in Text
  <2>1. a \in Items /\ Object(n, s) \in Items
    BY <1>2, <1>9, <1>10, GoodPlain DEF Object
  <2>2. Link(n, s, req) \in Items
    BY <1>2, <1>7, <1>8, GoodLink
  <2> QED BY <1>10, <2>1, <2>2 DEF Text, Items
<1>14. PICK c : c = Compiler(s, req, C.expr)
  OBVIOUS
<1>15. c \in Compilers /\ c.local = s /\ c.req = req /\ c.lvalue = << >>
  <2>1. c.lvalue = << >>
    BY <1>14 DEF Compiler
  <2> QED BY <1>2, <1>8, <1>9, <1>14, <2>1, NewCompiler
<1>16. PICK needs : needs = {s, req}
  OBVIOUS
<1>17. Suited(needs, c)
  <2>1. Closed(needs, c)
    BY <1>6, <1>15, <1>16 DEF Closed
  <2> QED BY <1>15, <2>1, TidyShort DEF Suited
<1>18. PICK L : L = Len(compilers)
  OBVIOUS
<1>19. compilers \in Seq(Compilers) /\ C = compilers[L] /\ L \in Nat \ {0}
  BY <1>1, <1>18, CodeFacts
<1>20. /\ compilers' = Append(compilers, c) /\ outs' = Append(outs, text)
  BY <1>6, <1>10, <1>14 DEF EnterFunction
<1>21. /\ Len(compilers') = L + 1 /\ compilers'[L + 1] = c
       /\ \A i \in 1 .. L : compilers'[i] = compilers[i]
  BY ONLY <1>15, <1>18, <1>19, <1>20, WithOneMore
<1>22. outs' = Append([outs EXCEPT ![Len(outs)] = @ \o Separator], text)
  <2>1. Separator = << >>
    BY <1>1, DeclaredInLet DEF DeclarationKinds
  <2>2. outs[Len(outs)] \o << >> = outs[Len(outs)]
    <3>1. outs[Len(outs)] \in Text
      BY <1>5
    <3> QED BY <3>1 DEF Text
  <2>3. [outs EXCEPT ![Len(outs)] = @ \o Separator] = outs
    BY <1>5, <2>1, <2>2
  <2> QED BY <1>20, <2>3
<1>23. BeginsStream(n, q, S, text, {}, needs)
  <2>1. L \in 1 .. L
    BY <1>19
  <2>2. /\ Suited(S, compilers'[L]) /\ Suited(needs, compilers'[L + 1])
        /\ \A i \in 1 .. L : i # L => compilers'[i] = compilers[i]
    BY <1>5, <1>17, <1>19, <1>21, <2>1
  <2>3. needs \in SUBSET Nat /\ \A t \in needs : t \in {} \/ Sees(text, 0, t)
    BY <1>9, <1>12, <1>16
  <2>4. {} \in SUBSET Nat /\ Kind(n) # "Assignment"
    BY <1>1
  <2> QED BY ONLY <1>12, <1>13, <1>18, <1>21, <1>22, <2>2, <2>3, <2>4 DEF BeginsStream
<1>24. Sighted'
  BY <1>1, <1>3, <1>4, <1>10, <1>23, OpenStands DEF Sighted
<1> QED BY <1>1, <1>24, StaysSighted

\* One more method, which needs no objects but its own.
LEMMA MethodJoins ==
  ASSUME MethodsTidy, UNCHANGED tables, NEW T, post_body \in Seq(T),
         NEW m \in T, Tidy(m.text, {}), post_body' = Append(post_body, m)
  PROVE  MethodsTidy'
<1>1. PICK p, n : p = post_body' /\ n = Len(post_body)
  OBVIOUS
<1>2. /\ DOMAIN p = 1 .. n + 1 /\ n \in Nat /\ DOMAIN post_body = 1 .. n
      /\ \A k \in 1 .. n : p[k] = post_body[k]
      /\ p[n + 1] = m
  <2>1. p = Append(post_body, m) /\ post_body \in Seq(T) /\ m \in T
    BY <1>1
  <2> QED BY ONLY <1>1, <2>1, WithOneMore
<1>3. \A k \in DOMAIN p : Tidy(p[k].text, {})
  <2>1. \A k \in 1 .. n + 1 : k \in 1 .. n \/ k = n + 1
    BY <1>2
  <2> QED BY <1>2, <2>1 DEF MethodsTidy
<1>4. \A k \in DOMAIN p : Tidy(p[k].text, {})'
  BY <1>3, SightStays
<1>5. \A k \in DOMAIN post_body' : Tidy(post_body[k].text, {})'
  BY <1>1, <1>4
<1> QED BY <1>5 DEF MethodsTidy

\* A Let goes on to its next declaration, and calls no handler.
LEMMA PassedStands ==
  ASSUME CompileInv, phase = "code", UNCHANGED tables, NEW n, Reached(n),
         Kind(n) = "TypeDeclaration", UNCHANGED <<outs, compilers>>,
         frames' = [frames EXCEPT ![Len(frames)].next = @ + 1],
         NEW G, NEW outside, NEW using, NEW writing, Standing(G, outside, using, writing)
  PROVE  Standing(G, outside, using, writing)'
<1>1. /\ Counts(using, writing) /\ Layered(G, outs, outside) /\ Len(G) = Len(frames)
      /\ Placed(G, writing) /\ Provided(G, using) /\ Lent(G, outside, writing)
  BY DEF Standing
<1>2. /\ prog \in Programs /\ OnPath
  BY CodeFacts
<1>3. PICK N \in Nat \ {0} : N = Len(frames)
  BY CodeFacts
<1>4. /\ frames \in Seq(Frames) /\ N \in DOMAIN frames /\ frames[N] \in Frames
      /\ Top = frames[N] /\ DOMAIN frames = 1 .. N
  BY <1>2, <1>3, StackFacts DEF OnPath
<1>5. Top.kind = "Let"
  BY DeclaredInLet DEF DeclarationKinds
<1>6. PICK new : new = [Top EXCEPT !.next = @ + 1]
  OBVIOUS
<1>7. /\ new \in Frames /\ new.node = Top.node /\ new.kind = Top.kind
      /\ new.inline = Top.inline
  <2>1. PICK t : t = Top
    OBVIOUS
  <2>2. t \in Frames
    BY <1>4, <2>1
  <2>3. new = [t EXCEPT !.next = t.next + 1]
    BY <1>6, <2>1
  <2>4. new \in Frames /\ new.node = t.node /\ new.kind = t.kind /\ new.inline = t.inline
    BY ONLY <2>2, <2>3 DEF Frames
  <2> QED BY <2>1, <2>4
<1>8. /\ Len(frames') = N /\ DOMAIN frames' = 1 .. N
      /\ \A k \in 1 .. N : frames'[k] = IF k = N THEN new ELSE frames[k]
  <2>1. frames' = [frames EXCEPT ![N] = new]
    BY <1>3, <1>4, <1>6
  <2> QED BY ONLY <1>3, <1>4, <1>7, <2>1, Replaced
<1>9. \A k \in 1 .. N : /\ frames'[k].node = frames[k].node
                        /\ frames'[k].kind = frames[k].kind
                        /\ k # N => frames'[k].next = frames[k].next
  BY <1>4, <1>7, <1>8
<1>10. ASSUME NEW k \in 1 .. N
       PROVE  /\ MakesCompiler(k)' <=> MakesCompiler(k)
              /\ MakesStream(k)' <=> MakesStream(k)
              /\ OnLeftSideAt(k)' <=> OnLeftSideAt(k)
              /\ Blocks(frames[k])' = Blocks(frames[k])
              /\ Raised(frames[k])' = Raised(frames[k])
  <2>1. k \in Nat /\ k > 0 /\ \A i \in 1 .. k : i \in 1 .. N
    BY <1>3
  <2>2. OpensAt(k, Scoping)' <=> OpensAt(k, Scoping)
    <3>1. \A m : HasBody(m)' <=> HasBody(m)
      BY TablesStay
    <3> QED BY <1>9, <3>1 DEF OpensAt
  <2>3. OnLeftSideAt(k)' <=> OnLeftSideAt(k)
    BY <1>3, <1>4, <1>5, <1>8, <1>9 DEF OnLeftSideAt
  <2>4. PICK f : f = frames'[k]
    OBVIOUS
  <2>5. Blocks(f) = Blocks(frames[k]) /\ Raised(f) = Raised(frames[k])
    <3>1. CASE k # N
      BY <1>8, <2>4, <3>1
    <3>2. CASE k = N
      BY <1>4, <1>5, <1>7, <1>8, <2>4, <3>2 DEF Blocks, Raised
    <3> QED BY <3>1, <3>2
  <2>6. Blocks(f)' = Blocks(f) /\ Raised(f)' = Raised(f)
    BY SightStays
  <2>7. Blocks(frames[k])' = Blocks(f)' /\ Raised(frames[k])' = Raised(f)'
    BY <2>4 DEF Blocks, Raised
  <2> QED BY <1>9, <2>2, <2>3, <2>5, <2>6, <2>7 DEF MakesCompiler, MakesStream
<1>11. Counts(using, writing)'
  <2>1. \A k \in 2 .. N : k \in 1 .. N
    BY <1>3
  <2> QED BY <1>1, <1>3, <1>8, <1>10, <2>1 DEF Counts
<1>12. Placed(G, writing)'
  BY <1>1, <1>3, <1>8, <1>10 DEF Placed
<1>13. Provided(G, using)'
  <2>1. \A k \in 1 .. N : Suited(G[k].needs, compilers[using[k]])
    BY <1>1, <1>3 DEF Provided
  <2>2. PICK cs : cs = compilers
    OBVIOUS
  <2>3. \A k \in 1 .. N : Suited(G[k].needs, cs[using[k]])'
    BY <2>1, <2>2, SightStays
  <2>4. \A k \in 1 .. N : Suited(G[k].needs, compilers[using[k]])'
    BY <2>2, <2>3
  <2> QED BY <1>1, <1>3, <1>8, <2>4 DEF Provided
<1>14. Lent(G, outside, writing)'
  BY <1>1, <1>3, <1>8, <1>9, <1>10 DEF Lent
<1>15. Layered(G, outs, outside)'
  <2>1. PICK os : os = outs
    OBVIOUS
  <2>2. Layered(G, os, outside)'
    BY <1>1, <2>1, SightStays
  <2>3. outs' = os
    BY <2>1
  <2> QED BY <2>2, <2>3
<1> QED BY <1>1, <1>3, <1>8, <1>11, <1>12, <1>13, <1>14, <1>15 DEF Standing

LEMMA SightEnterType ==
  ASSUME CompileInv, SightInv, NEW n, EnterType(n)
  PROVE  SightInv'
<1>1. /\ phase = "code" /\ phase' = "code" /\ UNCHANGED tables
      /\ Reached(n) /\ Kind(n) = "TypeDeclaration" /\ UNCHANGED <<outs, compilers>>
      /\ frames' = [frames EXCEPT ![Len(frames)].next = @ + 1]
  BY DEF EnterType, Reached
<1>2. PICK G, outside, using, writing : Standing(G, outside, using, writing)
  BY <1>1 DEF SightInv, Sighted
<1>3. Sighted'
  <2>1. Standing(G, outside, using, writing)'
    BY <1>1, <1>2, PassedStands
  <2> QED BY <2>1 DEF Sighted
<1>4. CASE prog[n].form = "record"
  <2>1. PICK m : m = [node |-> n, text |-> << >>]
    OBVIOUS
  <2>2. post_body' = Append(post_body, m)
    BY <1>4, <2>1 DEF EnterType
  <2>3. n \in Nodes /\ post_body \in Seq(Methods)
    BY <1>1, CodeFacts, Here DEF TextsGood
  <2>4. m \in Methods /\ Tidy(m.text, {})
    BY <2>1, <2>3, TidyShort DEF Methods, Text
  <2>5. MethodsTidy
    BY <1>1 DEF SightInv
  <2>6. MethodsTidy'
    BY <1>1, <2>2, <2>3, <2>4, <2>5, MethodJoins
  <2> QED BY <1>3, <2>6 DEF SightInv
<1>5. CASE prog[n].form # "record"
  <2>1. post_body' = post_body
    BY <1>5 DEF EnterType
  <2> QED BY <1>1, <1>3, <2>1, StaysSighted
<1> QED BY <1>4, <1>5

\* A handler returns to the one that called it, whose Compiler becomes new.
Returns(u, new) ==
  /\ u = IF MakesCompiler(Len(frames)) THEN Len(compilers) - 1 ELSE Len(compilers)
  /\ Len(compilers') = u
  /\ \A i \in 1 .. u : compilers'[i] = IF i = u THEN new ELSE compilers[i]
  /\ new.local = compilers[u].local /\ new.req = compilers[u].req
  /\ new.lvalue = compilers[u].lvalue \/ new.lvalue = << >>

LEMMA ReturnStands ==
  ASSUME CompileInv, UNCHANGED tables, NEW kinds, kinds \subseteq NodeKinds, Finished(kinds),
         Pop, ~ IsLeftSide, ~ MakesStream(Len(frames)),
         outs' = [outs EXCEPT ![Len(outs)] = @ \o Ending],
         NEW u, NEW new, Returns(u, new),
         NEW G, NEW outside, NEW using, NEW writing, Standing(G, outside, using, writing)
  PROVE  \E H, us, ws : Standing(H, outside, us, ws)'
<1>1. PICK N, W, L : N = Len(frames) /\ W = Len(outs) /\ L = Len(compilers)
  OBVIOUS
<1>2. phase = "code" /\ Top.kind # "main"
  BY ReturnFacts
<1>3. prog \in Programs /\ OnPath /\ N \in Nat /\ N > 1
  BY <1>1, <1>2, CodeFacts, PopFrames
<1>4. /\ Counts(using, writing) /\ Layered(G, outs, outside) /\ Len(G) = N
      /\ W \in Nat \ {0} /\ G[N].stream = W /\ G[N].base \in Nat
      /\ G[N].top = G[N].base + Blocks(Top)
  BY <1>1, <1>2, StandingFacts
<1>5. /\ Placed(G, writing) /\ Provided(G, using)
  BY DEF Standing
<1>6. /\ u = IF MakesCompiler(N) THEN L - 1 ELSE L
      /\ Len(compilers') = u
      /\ \A i \in 1 .. u : compilers'[i] = IF i = u THEN new ELSE compilers[i]
      /\ new.local = compilers[u].local /\ new.req = compilers[u].req
      /\ new.lvalue = compilers[u].lvalue \/ new.lvalue = << >>
  BY <1>1 DEF Returns
<1>7. u = using[N - 1] /\ W = writing[N - 1] /\ u \in Nat \ {0}
  <2>1. u = IF MakesCompiler(N) \/ IsLeftSide THEN Len(compilers) - 1 ELSE Len(compilers)
    BY <1>1, <1>6
  <2>2. W = IF MakesStream(N) \/ IsLeftSide THEN Len(outs) - 1 ELSE Len(outs)
    BY <1>1
  <2>3. Landing(N, using, writing, u, W)
    BY <1>1, <1>2, <1>3, <1>4, <2>1, <2>2, LastLowered
  <2> QED BY <2>3 DEF Landing
<1>8. N - 1 \in 1 .. N
  BY <1>3
<1>9. G[N - 1].stream = G[N].stream
  BY <1>1, <1>4, <1>5, <1>7, <1>8 DEF Placed
<1>10. PICK S : S = G[N - 1].needs
  OBVIOUS
<1>11. Suited(S, new)
  <2>1. Suited(S, compilers[u])
    BY <1>1, <1>5, <1>7, <1>8, <1>10 DEF Provided
  <2>2. Tidy(new.lvalue, S) /\ Balanced(new.lvalue)
    BY <1>6, <2>1, TidyShort DEF Suited
  <2>3. PICK c : c = compilers[u]
    OBVIOUS
  <2> QED BY <1>6, <2>1, <2>2, <2>3, SuitedAlike
<1>12. PICK text, b : text = Ending /\ b = Blocks(Top)
  OBVIOUS
<1>13. /\ text \in Text /\ Tidy(text, {}) /\ b + End(text) = 0 /\ b \in Nat
       /\ \A i \in 0 .. Len(text) : b + Depth(text, i) >= 0
  BY <1>12, EndingFacts
<1>14. PICK H, os : H = Outer(G) /\ os = [outs EXCEPT ![W] = @ \o text]
  OBVIOUS
<1>15. Layered(H, os, outside)
  <2>1. \A i \in 0 .. Len(text) : Depth(text, i) \in Int
    <3>1. Len(text) \in Nat
      BY <1>13 DEF Text
    <3> QED BY <3>1, DepthSteps
  <2>2. End(text) \in Int
    <3>1. Len(text) \in Nat
      BY <1>13 DEF Text
    <3> QED BY <3>1, DepthSteps DEF End
  <2>3. \A i \in 0 .. Len(text) : G[N].top + Depth(text, i) >= G[N].base
    BY ONLY <1>4, <1>12, <1>13, <2>1
  <2>4. G[N].top + End(text) = G[N].base
    BY ONLY <1>4, <1>12, <1>13, <2>2
  <2>5. os = [outs EXCEPT ![Len(outs)] = @ \o text] /\ H = Outer(G)
    BY <1>1, <1>14
  <2>6. Layered(G, outs, outside) /\ N = Len(G) /\ N > 1 /\ text \in Text /\ Tidy(text, {})
    BY <1>3, <1>4, <1>13
  <2> QED BY ONLY <1>9, <2>3, <2>4, <2>5, <2>6, LayersPop
<1>16. Len(H) = N - 1 /\ \A k \in 1 .. N - 1 : H[k] = G[k]
  <2>1. G \in Seq(Layers) /\ G # << >>
    BY <1>4 DEF Layered, Ordered
  <2>2. H = Outer(G)
    BY <1>14
  <2>3. /\ H \in Seq(Layers) /\ Len(H) = Len(G) - 1 /\ DOMAIN H = 1 .. Len(G) - 1
        /\ \A k \in 1 .. Len(G) - 1 : H[k] = G[k]
    BY ONLY <2>1, <2>2, WithoutLast
  <2> QED BY <1>4, <2>3
<1>17. os = outs' /\ Len(outs') = W
  <2>1. os = outs'
    BY <1>1, <1>12, <1>14
  <2>2. outs \in Seq(Text) /\ DOMAIN os = DOMAIN outs
    BY <1>4, <1>14 DEF Layered, Ends
  <2>3. os \in Seq(Text)
    BY <1>15 DEF Layered, Ends
  <2> QED BY <1>1, <2>1, <2>2, <2>3
<1>18. Pops(G, outside, N, H, os, outside)
  <2>1. N - 1 \in 1 .. N - 1 /\ u \in 1 .. u
    BY <1>3, <1>7
  <2>2. /\ \A i \in 1 .. u : i # u => compilers'[i] = compilers[i]
        /\ Suited(G[N - 1].needs, compilers'[u])
    BY <1>6, <1>10, <1>11, <2>1
  <2>3. /\ Len(compilers') = IF MakesCompiler(N) \/ IsLeftSide THEN Len(compilers) - 1 ELSE Len(compilers)
        /\ Len(outs') = IF MakesStream(N) \/ IsLeftSide THEN Len(outs) - 1 ELSE Len(outs)
    BY <1>1, <1>6, <1>17
  <2>4. H[N - 1].needs = G[N - 1].needs /\ ~ IsLeftSide
    BY <1>16, <2>1
  <2>5. \A k \in 1 .. Len(outs') : outside[k] = outside[k]
    OBVIOUS
  <2> QED BY ONLY <1>1, <1>6, <1>15, <1>16, <1>17, <2>2, <2>3, <2>4, <2>5 DEF Pops
<1> QED BY <1>1, <1>2, <1>3, <1>18, PopStands

\* Nothing is written after assignments and variables.
LEMMA NothingAfter ==
  ASSUME CompileInv, phase = "code", Top.kind \in {"Assignment", "VariableDeclaration"}
  PROVE  outs = [outs EXCEPT ![Len(outs)] = @ \o Ending]
<1>1. Ending = << >>
  BY DEF Ending, Statement
<1>2. outs \in Seq(Text) /\ Len(outs) \in DOMAIN outs
  BY CodeFacts DEF TextsGood
<1>3. outs[Len(outs)] \o << >> = outs[Len(outs)]
  <2>1. outs[Len(outs)] \in Text
    BY <1>2
  <2> QED BY <2>1 DEF Text
<1> QED BY <1>1, <1>2, <1>3

\* The Compiler in use is changed in place.
LEMMA InPlace ==
  ASSUME CompileInv, phase = "code", ~ MakesCompiler(Len(frames)),
         NEW new \in Compilers, new.local = C.local, new.req = C.req,
         new.lvalue = C.lvalue \/ new.lvalue = << >>,
         compilers' = [compilers EXCEPT ![Len(compilers)] = new]
  PROVE  Returns(Len(compilers), new)
<1>1. PICK L : L = Len(compilers)
  OBVIOUS
<1>2. compilers \in Seq(Compilers) /\ L \in DOMAIN compilers /\ C = compilers[L]
  BY <1>1, CodeFacts
<1>3. /\ Len(compilers') = L
      /\ \A i \in 1 .. L : compilers'[i] = IF i = L THEN new ELSE compilers[i]
  <2>1. compilers' = [compilers EXCEPT ![L] = new] /\ new \in Compilers
    BY <1>1
  <2> QED BY ONLY <1>1, <1>2, <2>1, Replaced
<1> QED BY <1>1, <1>2, <1>3 DEF Returns

LEMMA SightLeaveAssignment ==
  ASSUME CompileInv, SightInv, LeaveAssignment
  PROVE  SightInv'
<1>1. Finished({"Assignment"}) /\ Pop /\ UNCHANGED <<outs, post_body>> /\ UNCHANGED tables
  BY DEF LeaveAssignment, Pop
<1>2. {"Assignment"} \subseteq NodeKinds
  BY DEF NodeKinds, ExprKinds
<1>3. PICK N : N = Len(frames)
  OBVIOUS
<1>4. /\ phase = "code" /\ Top.kind = "Assignment"
      /\ Top.saved \in Nodes \cup {Null} /\ ~ MakesCompiler(N) /\ ~ MakesStream(N)
      /\ ~ IsLeftSide
  BY <1>1, <1>2, <1>3, ReturnFacts DEF Scoping, LValueKinds
<1>5. /\ compilers \in Seq(Compilers) /\ Len(compilers) \in DOMAIN compilers
      /\ C = compilers[Len(compilers)] /\ C \in Compilers
  BY <1>4, CodeFacts
<1>6. PICK new : new = [C EXCEPT !.expr = Top.saved, !.lvalue = << >>]
  OBVIOUS
<1>7. new \in Compilers /\ new.local = C.local /\ new.req = C.req /\ new.lvalue = << >>
  BY <1>4, <1>6, GoodOnes, RestoredFacts
<1>8. compilers' = [compilers EXCEPT ![Len(compilers)] = new]
  BY <1>5, <1>6 DEF LeaveAssignment, Restored
<1>9. outs' = [outs EXCEPT ![Len(outs)] = @ \o Ending]
  BY <1>1, <1>4, NothingAfter
<1>10. Returns(Len(compilers), new)
  BY <1>3, <1>4, <1>7, <1>8, InPlace
<1>11. Sighted
  BY <1>4 DEF SightInv
<1>12. Sighted'
  <2>1. PICK G, outside, using, writing : Standing(G, outside, using, writing)
    BY <1>11 DEF Sighted
  <2>2. \E H, us, ws : Standing(H, outside, us, ws)'
    BY <1>1, <1>2, <1>3, <1>4, <1>9, <1>10, <2>1, ReturnStands
  <2> QED BY <2>2 DEF Sighted
<1> QED BY <1>1, <1>4, <1>12, StaysSighted

LEMMA SightLeaveVariable ==
  ASSUME CompileInv, SightInv, LeaveVariable
  PROVE  SightInv'
<1>1. /\ Finished({"VariableDeclaration"}) /\ Pop /\ UNCHANGED <<outs, post_body>>
      /\ UNCHANGED tables
  BY DEF LeaveVariable, Pop
<1>2. {"VariableDeclaration"} \subseteq NodeKinds
  BY DEF NodeKinds, DeclarationKinds
<1>3. PICK N : N = Len(frames)
  OBVIOUS
<1>4. /\ phase = "code" /\ Top.kind = "VariableDeclaration"
      /\ ~ MakesCompiler(N) /\ ~ MakesStream(N) /\ ~ IsLeftSide
  <2>1. /\ "VariableDeclaration" \notin LValueKinds /\ "VariableDeclaration" \notin Scoping
        /\ "VariableDeclaration" # "FunctionDeclaration"
    BY DEF LValueKinds, Scoping
  <2>2. /\ phase = "code" /\ Top.kind \in {"VariableDeclaration"}
        /\ MakesCompiler(N) => Top.kind \in Scoping
        /\ MakesStream(N) => Top.kind = "FunctionDeclaration"
        /\ IsLeftSide => Top.kind \in LValueKinds
    BY <1>1, <1>2, <1>3, ReturnFacts
  <2> QED BY ONLY <2>1, <2>2
<1>5. /\ compilers \in Seq(Compilers) /\ Len(compilers) \in DOMAIN compilers
      /\ C = compilers[Len(compilers)] /\ C \in Compilers
  BY <1>4, CodeFacts
<1>6. PICK new : new = [C EXCEPT !.lvalue = << >>]
  OBVIOUS
<1>7. new \in Compilers /\ new.local = C.local /\ new.req = C.req /\ new.lvalue = << >>
  <2>1. << >> \in Text
    BY DEF Text
  <2> QED BY <1>5, <1>6, <2>1 DEF Compilers
<1>8. compilers' = [compilers EXCEPT ![Len(compilers)] = new]
  BY <1>5, <1>6 DEF LeaveVariable
<1>9. outs' = [outs EXCEPT ![Len(outs)] = @ \o Ending]
  BY <1>1, <1>4, NothingAfter
<1>10. Returns(Len(compilers), new)
  BY <1>3, <1>4, <1>7, <1>8, InPlace
<1>11. Sighted
  BY <1>4 DEF SightInv
<1>12. Sighted'
  <2>1. PICK G, outside, using, writing : Standing(G, outside, using, writing)
    BY <1>11 DEF Sighted
  <2>2. \E H, us, ws : Standing(H, outside, us, ws)'
    BY <1>1, <1>2, <1>3, <1>4, <1>9, <1>10, <2>1, ReturnStands
  <2> QED BY <2>2 DEF Sighted
<1> QED BY <1>1, <1>4, <1>12, StaysSighted

LEMMA SightLeaveOther ==
  ASSUME CompileInv, SightInv, LeaveOther
  PROVE  SightInv'
<1>1. PICK kinds : kinds = NodeKinds \ ({"Let", "Assignment"} \cup DeclarationKinds)
  OBVIOUS
<1>2. /\ Finished(kinds) /\ kinds \subseteq NodeKinds /\ Pop /\ ~ IsLeftSide
      /\ UNCHANGED post_body /\ Write(Ending) /\ compilers' = Restored(compilers)
      /\ UNCHANGED tables
  BY <1>1 DEF LeaveOther, Pop
<1>3. PICK N : N = Len(frames)
  OBVIOUS
<1>4. /\ phase = "code" /\ Top.kind \in kinds
      /\ Top.saved \in Nodes \cup {Null}
      /\ MakesCompiler(N) => Top.kind \in Scoping
      /\ MakesStream(N) => Top.kind = "FunctionDeclaration"
  BY <1>2, <1>3, ReturnFacts
<1>5. ~ MakesCompiler(N) /\ ~ MakesStream(N)
  BY <1>1, <1>4 DEF Scoping, DeclarationKinds
<1>6. /\ compilers \in Seq(Compilers) /\ Len(compilers) \in DOMAIN compilers
      /\ C = compilers[Len(compilers)] /\ C \in Compilers
  BY <1>4, CodeFacts
<1>7. PICK new : new = [C EXCEPT !.expr = Top.saved]
  OBVIOUS
<1>8. new \in Compilers /\ new.local = C.local /\ new.req = C.req /\ new.lvalue = C.lvalue
  BY <1>4, <1>6, <1>7 DEF Compilers
<1>9. compilers' = [compilers EXCEPT ![Len(compilers)] = new]
  BY <1>2, <1>6, <1>7 DEF Restored
<1>10. Returns(Len(compilers), new)
  BY <1>3, <1>4, <1>5, <1>8, <1>9, InPlace
<1>11. Sighted /\ outs' = [outs EXCEPT ![Len(outs)] = @ \o Ending]
  BY <1>2, <1>4 DEF SightInv, Write
<1>12. Sighted'
  <2>1. PICK G, outside, using, writing : Standing(G, outside, using, writing)
    BY <1>11 DEF Sighted
  <2>2. \E H, us, ws : Standing(H, outside, us, ws)'
    BY <1>2, <1>3, <1>5, <1>10, <1>11, <2>1, ReturnStands
  <2> QED BY <2>2 DEF Sighted
<1> QED BY <1>2, <1>4, <1>12, StaysSighted

LEMMA SightLeaveLet ==
  ASSUME CompileInv, SightInv, LeaveLet
  PROVE  SightInv'
<1>1. /\ Finished({"Let"}) /\ Pop /\ Write(Ending) /\ UNCHANGED post_body
      /\ compilers' = Restored(IF HasBody(Top.node) THEN Outer(compilers) ELSE compilers)
      /\ UNCHANGED tables
  BY DEF LeaveLet, Pop
<1>2. {"Let"} \subseteq NodeKinds
  BY DEF NodeKinds, ExprKinds
<1>3. PICK N, L : N = Len(frames) /\ L = Len(compilers)
  OBVIOUS
<1>4. /\ phase = "code" /\ Top.saved \in Nodes \cup {Null}
      /\ MakesCompiler(N) <=> HasBody(Top.node)
      /\ ~ MakesStream(N) /\ ~ IsLeftSide
      /\ HasBody(Top.node) => L > 1
  <2>1. "Let" \notin LValueKinds /\ "Let" \in Scoping /\ "Let" # "FunctionDeclaration"
    BY DEF LValueKinds, Scoping
  <2>2. /\ phase = "code" /\ Top.kind \in {"Let"} /\ Top.saved \in Nodes \cup {Null}
        /\ MakesCompiler(N) <=> /\ Top.kind \in Scoping
                                /\ Top.kind = "Let" => HasBody(Top.node)
        /\ MakesStream(N) <=> Top.kind = "FunctionDeclaration"
        /\ IsLeftSide => Top.kind \in LValueKinds
        /\ MakesCompiler(N) \/ IsLeftSide => L > 1
    BY <1>1, <1>2, <1>3, ReturnFacts, Zenon
  <2>3. Top.kind = "Let"
    BY <2>2
  <2> QED BY <2>1, <2>2, <2>3, Zenon
<1>5. /\ compilers \in Seq(Compilers) /\ L \in Nat \ {0} /\ DOMAIN compilers = 1 .. L
  BY <1>3, <1>4, CodeFacts
<1>6. PICK u : u = IF HasBody(Top.node) THEN L - 1 ELSE L
  OBVIOUS
<1>7. u \in Nat \ {0} /\ u \in DOMAIN compilers
  BY <1>4, <1>5, <1>6
<1>8. PICK new : new = [compilers[u] EXCEPT !.expr = Top.saved]
  OBVIOUS
<1>9. /\ new \in Compilers /\ new.local = compilers[u].local
      /\ new.req = compilers[u].req /\ new.lvalue = compilers[u].lvalue
  <2>1. PICK c, saved : c = compilers[u] /\ saved = Top.saved
    OBVIOUS
  <2>2. c \in Compilers /\ saved \in Nodes \cup {Null}
    BY <1>4, <1>5, <1>7, <2>1
  <2>3. new = [c EXCEPT !.expr = saved]
    BY <1>8, <2>1
  <2>4. new \in Compilers /\ new.local = c.local /\ new.req = c.req /\ new.lvalue = c.lvalue
    BY ONLY <2>2, <2>3 DEF Compilers
  <2> QED BY <2>1, <2>4
<1>10. Len(compilers') = u /\ \A i \in 1 .. u : compilers'[i] = IF i = u THEN new ELSE compilers[i]
  <2>1. CASE HasBody(Top.node)
    <3>1. u \in Nat \ {0} /\ Len(compilers) = u + 1
      BY <1>3, <1>5, <1>6, <1>7, <2>1
    <3>2. PICK r : r = Outer(compilers)
      OBVIOUS
    <3>3. compilers # << >> /\ compilers \in Seq(Compilers)
      BY <1>5, <1>7
    <3>4. /\ r \in Seq(Compilers) /\ Len(r) = Len(compilers) - 1
          /\ DOMAIN r = 1 .. Len(compilers) - 1
          /\ \A k \in 1 .. Len(compilers) - 1 : r[k] = compilers[k]
      BY ONLY <3>2, <3>3, WithoutLast
    <3>5. /\ r \in Seq(Compilers) /\ Len(r) = u /\ u \in DOMAIN r
          /\ \A k \in 1 .. u : r[k] = compilers[k]
      BY <3>1, <3>4
    <3>6. r[u] = compilers[u]
      BY <3>1, <3>5
    <3>7. compilers' = [r EXCEPT ![u] = new] /\ new \in Compilers
      BY <1>1, <1>8, <1>9, <2>1, <3>2, <3>5, <3>6 DEF Restored
    <3>8. /\ compilers' \in Seq(Compilers) /\ Len(compilers') = Len(r)
          /\ \A k \in 1 .. Len(r) : compilers'[k] = IF k = u THEN new ELSE r[k]
      BY ONLY <3>5, <3>7, Replaced
    <3> QED BY <3>5, <3>8
  <2>2. CASE ~ HasBody(Top.node)
    <3>1. u = Len(compilers) /\ u \in DOMAIN compilers /\ compilers \in Seq(Compilers)
      BY <1>3, <1>5, <1>6, <1>7, <2>2
    <3>2. compilers' = [compilers EXCEPT ![u] = new]
      BY <1>1, <1>8, <2>2, <3>1 DEF Restored
    <3>3. new \in Compilers
      BY <1>9
    <3>4. /\ compilers' \in Seq(Compilers) /\ Len(compilers') = Len(compilers)
          /\ \A k \in 1 .. Len(compilers) :
               compilers'[k] = IF k = u THEN new ELSE compilers[k]
      BY ONLY <3>1, <3>2, <3>3, Replaced
    <3> QED BY <3>1, <3>4
  <2> QED BY <2>1, <2>2
<1>11. Returns(u, new)
  <2>1. u = IF MakesCompiler(Len(frames)) THEN Len(compilers) - 1 ELSE Len(compilers)
    BY <1>3, <1>4, <1>6
  <2> QED BY ONLY <1>9, <1>10, <2>1 DEF Returns
<1>12. Sighted /\ outs' = [outs EXCEPT ![Len(outs)] = @ \o Ending]
  BY <1>1, <1>4 DEF SightInv, Write
<1>13. Sighted'
  <2>1. PICK G, outside, using, writing : Standing(G, outside, using, writing)
    BY <1>12 DEF Sighted
  <2>2. \E H, us, ws : Standing(H, outside, us, ws)'
    BY <1>1, <1>2, <1>3, <1>4, <1>11, <1>12, <2>1, ReturnStands
  <2> QED BY <2>2 DEF Sighted
<1> QED BY <1>1, <1>4, <1>13, StaysSighted

LEMMA SightLeaveFunction ==
  ASSUME CompileInv, SightInv, LeaveFunction
  PROVE  SightInv'
<1>1. /\ Finished({"FunctionDeclaration"}) /\ Pop
      /\ post_body' = Append(post_body, [node |-> Top.node, text |-> outs[Len(outs)]])
      /\ outs' = Outer(outs) /\ compilers' = Outer(compilers)
      /\ UNCHANGED tables
  BY DEF LeaveFunction, Pop
<1>2. {"FunctionDeclaration"} \subseteq NodeKinds
  BY DEF NodeKinds, DeclarationKinds
<1>3. PICK N, L, W : N = Len(frames) /\ L = Len(compilers) /\ W = Len(outs)
  OBVIOUS
<1>4. /\ phase = "code" /\ Top.kind = "FunctionDeclaration" /\ Top.kind # "main"
      /\ MakesCompiler(N) /\ MakesStream(N)
      /\ ~ IsLeftSide /\ Top.node \in Nodes /\ L > 1 /\ W > 1
  <2>1. /\ "FunctionDeclaration" \notin LValueKinds /\ "FunctionDeclaration" \in Scoping
        /\ "FunctionDeclaration" # "Let"
    BY DEF LValueKinds, Scoping
  <2>2. /\ phase = "code" /\ Top.kind \in {"FunctionDeclaration"} /\ Top.kind # "main"
        /\ Top.node \in Nodes
        /\ MakesCompiler(N) <=> /\ Top.kind \in Scoping
                                /\ Top.kind = "Let" => HasBody(Top.node)
        /\ MakesStream(N) <=> Top.kind = "FunctionDeclaration"
        /\ IsLeftSide => Top.kind \in LValueKinds
        /\ MakesCompiler(N) \/ IsLeftSide => L > 1
        /\ MakesStream(N) \/ IsLeftSide => Len(outs) > 1
    BY <1>1, <1>2, <1>3, ReturnFacts, Zenon
  <2>3. Top.kind = "FunctionDeclaration"
    BY <2>2
  <2> QED BY <1>3, <2>1, <2>2, <2>3, Zenon
<1>5. /\ prog \in Programs /\ OnPath /\ N \in Nat /\ N > 1 /\ TextsGood
      /\ compilers \in Seq(Compilers) /\ compilers # << >> /\ L \in Nat \ {0}
      /\ outs # << >> /\ W \in Nat \ {0}
  BY <1>1, <1>3, <1>4, CodeFacts, PopFrames
<1>6. PICK G, outside, using, writing : Standing(G, outside, using, writing)
  BY <1>4 DEF SightInv, Sighted
<1>7. /\ Counts(using, writing) /\ Layered(G, outs, outside) /\ Len(G) = N
      /\ Placed(G, writing) /\ Provided(G, using) /\ Lent(G, outside, writing)
      /\ Top = frames[N]
  BY <1>3, <1>4, <1>6, StandingFacts DEF Standing
<1>8. PICK u, w : u = L - 1 /\ w = W - 1
  OBVIOUS
<1>9. u = using[N - 1] /\ w = writing[N - 1] /\ u \in Nat \ {0} /\ w \in Nat \ {0}
  <2>1. u = IF MakesCompiler(N) \/ IsLeftSide THEN Len(compilers) - 1 ELSE Len(compilers)
    BY <1>3, <1>4, <1>8
  <2>2. w = IF MakesStream(N) \/ IsLeftSide THEN Len(outs) - 1 ELSE Len(outs)
    BY <1>3, <1>4, <1>8
  <2>3. Landing(N, using, writing, u, w)
    BY <1>3, <1>4, <1>5, <1>7, <2>1, <2>2, LastLowered
  <2> QED BY <1>4, <2>3 DEF Landing
<1>10. N - 1 \in 1 .. N /\ N \in 1 .. N
  BY <1>5
<1>11. G[N - 1].stream = W - 1
  BY <1>3, <1>7, <1>8, <1>9, <1>10 DEF Placed
<1>12. PICK S : S = G[N - 1].needs
  OBVIOUS
<1>13. /\ Len(compilers') = u /\ \A i \in 1 .. u : compilers'[i] = compilers[i]
  <2>1. /\ Len(compilers') = Len(compilers) - 1
        /\ \A k \in 1 .. Len(compilers) - 1 : compilers'[k] = compilers[k]
    <3>1. compilers' = Outer(compilers) /\ compilers \in Seq(Compilers) /\ compilers # << >>
      BY <1>1, <1>5
    <3> QED BY ONLY <3>1, WithoutLast
  <2> QED BY <1>3, <1>8, <2>1
<1>14. Suited(S, compilers'[u])
  <2>1. Suited(S, compilers[u])
    BY <1>3, <1>7, <1>9, <1>10, <1>12 DEF Provided
  <2> QED BY <1>9, <1>13, <2>1
<1>15. PICK H, os, out : H = Outer(G) /\ os = Outer(outs) /\ out = Outer(outside)
  OBVIOUS
<1>16. Layered(H, os, out)
  <2>1. Layered(G, outs, outside) /\ N = Len(G) /\ W = Len(outs) /\ N > 1
    BY <1>3, <1>5, <1>7
  <2> QED BY ONLY <1>11, <1>15, <2>1, LayersClose
<1>17. Len(H) = N - 1 /\ \A k \in 1 .. N - 1 : H[k] = G[k]
  <2>1. G \in Seq(Layers) /\ G # << >>
    BY <1>7 DEF Layered, Ordered
  <2>2. /\ H \in Seq(Layers) /\ Len(H) = Len(G) - 1 /\ DOMAIN H = 1 .. Len(G) - 1
        /\ \A k \in 1 .. Len(G) - 1 : H[k] = G[k]
    BY ONLY <1>15, <2>1, WithoutLast
  <2> QED BY <1>7, <2>2
<1>18. outside \in Seq(SUBSET Nat) /\ Len(outside) = W /\ outs \in Seq(Text)
  BY <1>3, <1>7 DEF Layered, Ends, Kept
<1>19. os = outs' /\ Len(outs') = w
  <2>1. os = outs'
    BY <1>1, <1>15
  <2>2. os \in Seq(Text) /\ Len(os) = Len(outs) - 1
    BY ONLY <1>5, <1>15, <1>18, WithoutLast
  <2> QED BY <1>3, <1>8, <2>1, <2>2
<1>20. \A k \in 1 .. w : out[k] = outside[k]
  <2>1. outside # << >>
    BY <1>5, <1>18
  <2>2. outside \in Seq(SUBSET Nat) /\ out = Outer(outside)
    BY <1>15, <1>18
  <2>3. /\ out \in Seq(SUBSET Nat) /\ Len(out) = Len(outside) - 1
        /\ \A k \in 1 .. Len(outside) - 1 : out[k] = outside[k]
    BY ONLY <2>1, <2>2, WithoutLast
  <2> QED BY <1>8, <1>18, <2>3
<1>21. Pops(G, outside, N, H, os, out)
  <2>1. N - 1 \in 1 .. N - 1
    BY <1>5
  <2>2. /\ Len(compilers') = IF MakesCompiler(N) \/ IsLeftSide THEN Len(compilers) - 1 ELSE Len(compilers)
        /\ Len(outs') = IF MakesStream(N) \/ IsLeftSide THEN Len(outs) - 1 ELSE Len(outs)
    BY <1>3, <1>4, <1>8, <1>13, <1>19
  <2>3. H[N - 1].needs = G[N - 1].needs /\ ~ IsLeftSide
    BY <1>4, <1>17, <2>1
  <2> QED BY ONLY <1>3, <1>12, <1>13, <1>14, <1>16, <1>17, <1>19, <1>20, <2>2, <2>3 DEF Pops
<1>22. \E us, ws : Standing(H, out, us, ws)'
  BY <1>1, <1>3, <1>4, <1>5, <1>6, <1>21, PopStands
<1>23. PICK m : m = [node |-> Top.node, text |-> outs[Len(outs)]]
  OBVIOUS
<1>24. Tidy(outs[W], {})
  <2>1. writing[N] = W
    BY <1>3, <1>7 DEF Counts
  <2>2. outside[W] = {}
    BY <1>3, <1>4, <1>7, <1>10, <2>1 DEF Lent
  <2>3. W \in DOMAIN outs
    BY <1>3, <1>5, <1>18
  <2>4. Tidy(outs[W], outside[W])
    BY <1>7, <2>3 DEF Layered, Kept
  <2> QED BY <2>2, <2>4
<1>25. MethodsTidy'
  <2>1. post_body \in Seq(Methods) /\ outs[W] \in Text
    BY <1>3, <1>5, <1>18 DEF TextsGood
  <2>2. m \in Methods /\ Tidy(m.text, {})
    BY <1>3, <1>4, <1>23, <1>24, <2>1 DEF Methods
  <2>3. MethodsTidy
    BY <1>4 DEF SightInv
  <2> QED BY <1>1, <1>23, <2>1, <2>2, <2>3, MethodJoins
<1> QED BY <1>22, <1>25 DEF SightInv, Sighted

\* The layers of a left side and of its assignment are taken off, with their
\* stream, and the assignment goes on in the one below.
GoesOn(G, outside, N, W, text) ==
  /\ N \in Nat /\ N > 2 /\ W \in Nat /\ W > 1 /\ text \in Text
  /\ G[N - 1].needs = G[N - 2].needs /\ Len(G) = N
  /\ Tidy(text, G[N - 1].needs) /\ Balanced(text)
  /\ \E F : /\ Layered(F, Outer(outs), Outer(outside)) /\ Len(F) = N - 2
            /\ \A k \in 1 .. N - 2 : F[k] = G[k]

LEMMA LeftSideLayers ==
  ASSUME CompileInv, phase = "code", Top.kind # "main", IsLeftSide,
         NEW G, NEW outside, NEW using, NEW writing, Standing(G, outside, using, writing),
         NEW N, N = Len(frames), NEW W, W = Len(outs), NEW text, text = outs[W]
  PROVE  GoesOn(G, outside, N, W, text)
<1>1. prog \in Programs /\ OnPath
  BY CodeFacts
<1>2. /\ N > 2 /\ Top.kind \in LValueKinds /\ ~ MakesStream(N)
      /\ frames[N - 1].kind = "Assignment" /\ OnLeftSideAt(N - 1)
  BY <1>1, LeftSide
<1>3. /\ Counts(using, writing) /\ Layered(G, outs, outside) /\ Len(G) = N
      /\ Placed(G, writing) /\ Lent(G, outside, writing) /\ Top = frames[N]
      /\ N \in Nat \ {0} /\ W \in Nat \ {0} /\ G[N].base \in Nat
      /\ G[N].stream = W /\ G[N].top = G[N].base + Blocks(Top)
  BY StandingFacts DEF Standing
<1>4. N \in 1 .. N /\ N - 1 \in 1 .. N /\ N - 2 \in 1 .. N /\ N \in 2 .. N
  BY <1>2, <1>3
<1>5. writing[N] = W /\ writing[N - 1] = W /\ writing[N - 2] = W - 1 /\ W > 1
  <2>1. writing[N] = W /\ writing[N - 1] = W
    BY <1>2, <1>3, <1>4 DEF Counts
  <2>2. PICK w : w = IF MakesStream(N) \/ IsLeftSide THEN Len(outs) - 1 ELSE Len(outs)
    OBVIOUS
  <2>3. PICK u : u = IF MakesCompiler(N) \/ IsLeftSide THEN Len(compilers) - 1 ELSE Len(compilers)
    OBVIOUS
  <2>4. Landing(N, using, writing, u, w)
    BY <1>1, <1>3, <2>2, <2>3, LastLowered
  <2>5. w = W - 1 /\ w = writing[N - 2] /\ w \in Nat \ {0}
    BY <2>2, <2>4 DEF Landing
  <2> QED BY <1>3, <2>1, <2>5
<1>6. G[N].top = G[N].base
  <2>1. Blocks(Top) = 0
    BY <1>2 DEF Blocks, LValueKinds
  <2> QED BY <1>3, <2>1
<1>7. /\ G[N - 1].stream = W /\ G[N - 2].stream = W - 1
      /\ G[N - 1].base = 0 /\ G[N - 1].top = 0
      /\ outside[W] = G[N - 1].needs /\ G[N - 2].needs = G[N - 1].needs
  <2>1. Blocks(frames[N - 1]) = 0
    BY <1>2 DEF Blocks
  <2>2. /\ outside[writing[N - 1]] = G[N - 1].needs /\ G[N - 1].base = 0
        /\ G[(N - 1) - 1].needs = G[N - 1].needs
    BY <1>2, <1>3, <1>4 DEF Lent
  <2>3. /\ G[N - 1].stream = writing[N - 1] /\ G[N - 2].stream = writing[N - 2]
        /\ G[N - 1].top = G[N - 1].base + Blocks(frames[N - 1])
    BY <1>3, <1>4 DEF Placed
  <2>4. (N - 1) - 1 = N - 2
    BY <1>3
  <2> QED BY <1>5, <2>1, <2>2, <2>3, <2>4
<1>8. PICK F1, F, o2, out2 : /\ F1 = Outer(G) /\ F = Outer(F1)
                             /\ o2 = Outer(outs) /\ out2 = Outer(outside)
  OBVIOUS
<1>9. Layered(F1, outs, outside)
  <2>1. N > 1 /\ G[N - 1].stream = G[N].stream
    BY <1>2, <1>3, <1>7
  <2>2. F1 = Outer(G) /\ N = Len(G) /\ Layered(G, outs, outside)
    BY <1>3, <1>8
  <2> QED BY ONLY <1>6, <2>1, <2>2, LayersDrop
<1>10. F1 \in Seq(Layers) /\ Len(F1) = N - 1 /\ \A k \in 1 .. N - 1 : F1[k] = G[k]
  <2>1. G \in Seq(Layers) /\ G # << >>
    BY <1>3 DEF Layered, Ordered
  <2>2. F1 = Outer(G)
    BY <1>8
  <2>3. /\ F1 \in Seq(Layers) /\ Len(F1) = Len(G) - 1 /\ DOMAIN F1 = 1 .. Len(G) - 1
        /\ \A k \in 1 .. Len(G) - 1 : F1[k] = G[k]
    BY ONLY <2>1, <2>2, WithoutLast
  <2> QED BY <1>3, <2>3
<1>11. PICK M : M = N - 1
  OBVIOUS
<1>12. M \in Nat /\ M > 1 /\ M \in 1 .. M /\ M - 1 \in 1 .. M /\ M - 1 = N - 2
  BY <1>2, <1>3, <1>11
<1>13. Layered(F, o2, out2)
  <2>1. F1[M - 1].stream = W - 1
    BY <1>7, <1>10, <1>11, <1>12
  <2>2. /\ Layered(F1, outs, outside) /\ M = Len(F1) /\ M > 1 /\ W = Len(outs)
        /\ F = Outer(F1) /\ o2 = Outer(outs) /\ out2 = Outer(outside)
    BY <1>8, <1>9, <1>10, <1>11, <1>12
  <2> QED BY ONLY <2>1, <2>2, LayersClose
<1>14. Len(F) = N - 2 /\ \A k \in 1 .. N - 2 : F[k] = G[k]
  <2>1. F1 \in Seq(Layers) /\ F1 # << >>
    BY <1>10, <1>11, <1>12
  <2>2. F = Outer(F1)
    BY <1>8
  <2>3. /\ F \in Seq(Layers) /\ Len(F) = Len(F1) - 1 /\ DOMAIN F = 1 .. Len(F1) - 1
        /\ \A k \in 1 .. Len(F1) - 1 : F[k] = F1[k]
    BY ONLY <2>1, <2>2, WithoutLast
  <2> QED BY <1>10, <1>11, <1>12, <2>3
<1>15. W \in DOMAIN outs /\ text \in Text
  <2>1. outs \in Seq(Text)
    BY <1>3 DEF Layered, Ends
  <2> QED BY <1>3, <2>1
<1>16. Tidy(text, G[N - 1].needs) /\ \A i \in 0 .. Len(text) : Depth(text, i) >= 0
  BY <1>3, <1>7, <1>15 DEF Layered, Kept
<1>17. End(text) = 0
  <2>1. Uppermost(F1, M) /\ M \in DOMAIN F1
    BY <1>10, <1>11, <1>12 DEF Uppermost
  <2>2. End(outs[F1[M].stream]) = F1[M].top
    BY <1>9, <2>1 DEF Layered, Ends
  <2>3. F1[M] = G[N - 1]
    BY <1>10, <1>11, <1>12
  <2> QED BY <1>7, <2>2, <2>3
<1>18. Balanced(text)
  BY <1>16, <1>17 DEF Balanced
<1>19. \E H : /\ Layered(H, Outer(outs), Outer(outside)) /\ Len(H) = N - 2
              /\ \A k \in 1 .. N - 2 : H[k] = G[k]
  BY <1>8, <1>13, <1>14
<1> QED BY ONLY <1>2, <1>3, <1>5, <1>7, <1>15, <1>16, <1>18, <1>19 DEF GoesOn

LEMMA SightLeaveLeftSide ==
  ASSUME CompileInv, SightInv, LeaveLeftSide
  PROVE  SightInv'
<1>1. /\ Finished(LValueKinds) /\ IsLeftSide /\ Pop /\ UNCHANGED post_body
      /\ UNCHANGED tables
  BY DEF LeaveLeftSide, Pop
<1>2. LValueKinds \subseteq NodeKinds
  BY DEF NodeKinds
<1>3. PICK N, L, W, text : N = Len(frames) /\ L = Len(compilers) /\ W = Len(outs) /\ text = outs[W]
  OBVIOUS
<1>4. phase = "code" /\ Top.kind # "main" /\ L > 1
  BY <1>1, <1>2, <1>3, ReturnFacts, Zenon
<1>5. /\ compilers \in Seq(Compilers) /\ L \in Nat \ {0} /\ DOMAIN compilers = 1 .. L
      /\ compilers # << >> /\ prog \in Programs /\ OnPath
  BY <1>3, <1>4, CodeFacts
<1>6. PICK G, outside, using, writing : Standing(G, outside, using, writing)
  BY <1>4 DEF SightInv, Sighted
<1>7. /\ N \in Nat /\ N > 2 /\ W \in Nat /\ W > 1 /\ text \in Text
      /\ G[N - 1].needs = G[N - 2].needs /\ Len(G) = N
      /\ Tidy(text, G[N - 1].needs) /\ Balanced(text)
      /\ \E F : /\ Layered(F, Outer(outs), Outer(outside)) /\ Len(F) = N - 2
                /\ \A k \in 1 .. N - 2 : F[k] = G[k]
  <2>1. GoesOn(G, outside, N, W, text)
    BY <1>1, <1>3, <1>4, <1>6, LeftSideLayers
  <2> QED BY ONLY <2>1 DEF GoesOn
<1>8. PICK F : /\ Layered(F, Outer(outs), Outer(outside)) /\ Len(F) = N - 2
               /\ \A k \in 1 .. N - 2 : F[k] = G[k]
  BY <1>7
<1>9. PICK o2, out : o2 = Outer(outs) /\ out = Outer(outside)
  OBVIOUS
<1>10. PICK M, w, u, S : M = N - 2 /\ w = W - 1 /\ u = L - 1 /\ S = G[N - 1].needs
  OBVIOUS
<1>11. /\ M \in Nat \ {0} /\ w \in Nat \ {0} /\ u \in Nat \ {0} /\ M \in 1 .. M
       /\ u \in DOMAIN compilers
  BY <1>4, <1>5, <1>7, <1>10
<1>12. Counts(using, writing) /\ Provided(G, using) /\ Layered(G, outs, outside)
  BY <1>6 DEF Standing
<1>13. u = using[M]
  <2>1. u = IF MakesCompiler(N) \/ IsLeftSide THEN Len(compilers) - 1 ELSE Len(compilers)
    BY <1>1, <1>3, <1>10
  <2>2. w = IF MakesStream(N) \/ IsLeftSide THEN Len(outs) - 1 ELSE Len(outs)
    BY <1>1, <1>3, <1>10
  <2>3. Landing(N, using, writing, u, w)
    BY <1>3, <1>4, <1>5, <1>12, <2>1, <2>2, LastLowered
  <2> QED BY <1>1, <1>10, <2>3 DEF Landing
<1>14. /\ Layered(F, o2, out) /\ M = Len(F) /\ F[M] = G[M] /\ F[M].needs = S
       /\ F \in Seq(Layers)
  <2>1. Layered(F, o2, out) /\ M = Len(F)
    BY <1>8, <1>9, <1>10
  <2>2. F \in Seq(Layers)
    BY <2>1 DEF Layered, Ordered
  <2> QED BY <1>7, <1>8, <1>10, <1>11, <2>1, <2>2
<1>15. PICK t : t = F[M].top
  OBVIOUS
<1>16. t \in Nat /\ S \in SUBSET Nat
  <2>1. F[M] \in Layers
    BY <1>11, <1>14
  <2> QED BY <1>14, <1>15, <2>1 DEF Layers
<1>17. outs \in Seq(Text) /\ outside \in Seq(SUBSET Nat) /\ Len(outside) = W
  BY <1>3, <1>12 DEF Layered, Ends, Kept
<1>18. o2 \in Seq(Text) /\ Len(o2) = w
  <2>1. outs # << >> /\ outs \in Seq(Text) /\ o2 = Outer(outs)
    BY <1>3, <1>7, <1>9, <1>17
  <2>2. o2 \in Seq(Text) /\ Len(o2) = Len(outs) - 1
    BY ONLY <2>1, WithoutLast
  <2> QED BY <1>3, <1>10, <2>2
<1>19. \A k \in 1 .. w : out[k] = outside[k]
  <2>1. outside # << >> /\ outside \in Seq(SUBSET Nat) /\ out = Outer(outside)
    BY <1>7, <1>9, <1>17
  <2>2. /\ out \in Seq(SUBSET Nat) /\ Len(out) = Len(outside) - 1
        /\ \A k \in 1 .. Len(outside) - 1 : out[k] = outside[k]
    BY ONLY <2>1, WithoutLast
  <2> QED BY <1>10, <1>17, <2>2
<1>20. PICK r : r = [stream |-> w, base |-> t, level |-> t, top |-> t, needs |-> S]
  OBVIOUS
<1>21. /\ r \in Layers /\ r.stream = w /\ r.base = t /\ r.level = t /\ r.top = t
       /\ r.needs = S
  BY ONLY <1>11, <1>16, <1>20 DEF Layers
<1>22. PICK H, os : H = Append(F, r) /\ os = [o2 EXCEPT ![w] = @ \o text]
  OBVIOUS
<1>23. Begins(F, o2, out, M, w, text, r, H, os)
  <2>1. Tidy(text, F[M].needs) /\ \A i \in 0 .. Len(text) : Depth(text, i) >= 0
    BY <1>7, <1>10, <1>14 DEF Balanced
  <2>2. /\ r.base = F[M].top /\ r.base <= r.level /\ r.level <= r.top
        /\ r.top = r.base + End(text)
    BY <1>7, <1>15, <1>16, <1>21 DEF Balanced
  <2>3. \A s \in r.needs : s \in F[M].needs \/ Sees(text, r.level - r.base, s)
    BY <1>14, <1>21
  <2>4. w = Len(o2) /\ text \in Text
    BY <1>7, <1>18
  <2> QED BY ONLY <1>14, <1>21, <1>22, <2>1, <2>2, <2>3, <2>4 DEF Begins
<1>24. /\ Layered(H, os, out) /\ Len(H) = M + 1 /\ H[M + 1] = r
       /\ \A k \in 1 .. M : H[k] = F[k]
  <2>1. Begun(F, out, M, r, H, os)
    BY <1>23, LayersBegin
  <2> QED BY <2>1 DEF Begun
<1>25. os = outs' /\ Len(outs') = w
  <2>1. os = outs'
    BY <1>3, <1>9, <1>10, <1>22 DEF LeaveLeftSide
  <2>2. DOMAIN os = DOMAIN o2 /\ os \in Seq(Text)
    BY <1>22, <1>24 DEF Layered, Ends
  <2> QED BY <1>18, <2>1, <2>2
<1>26. PICK new : new = [compilers[u] EXCEPT !.lvalue = text]
  OBVIOUS
<1>27. /\ new \in Compilers /\ new.local = compilers[u].local
       /\ new.req = compilers[u].req /\ new.lvalue = text
  <2>1. compilers[u] \in Compilers
    BY <1>5, <1>11
  <2> QED BY <1>7, <1>26, <2>1 DEF Compilers
<1>28. /\ Len(compilers') = u
       /\ \A i \in 1 .. u : compilers'[i] = IF i = u THEN new ELSE compilers[i]
  <2>1. PICK c : c = Outer(compilers)
    OBVIOUS
  <2>2. compilers # << >> /\ compilers \in Seq(Compilers)
    BY <1>5
  <2>3. /\ c \in Seq(Compilers) /\ Len(c) = Len(compilers) - 1
        /\ DOMAIN c = 1 .. Len(compilers) - 1
        /\ \A k \in 1 .. Len(compilers) - 1 : c[k] = compilers[k]
    BY ONLY <2>1, <2>2, WithoutLast
  <2>4. /\ c \in Seq(Compilers) /\ Len(c) = u /\ u \in DOMAIN c
        /\ \A k \in 1 .. u : c[k] = compilers[k]
    BY <1>3, <1>10, <1>11, <2>3
  <2>5. c[u] = compilers[u]
    BY <1>11, <2>4
  <2>6. compilers' = [c EXCEPT ![u].lvalue = text]
    BY <1>3, <1>10, <2>1 DEF LeaveLeftSide
  <2>7. compilers' = [c EXCEPT ![u] = new] /\ new \in Compilers
    BY <1>26, <1>27, <2>4, <2>5, <2>6
  <2>8. /\ compilers' \in Seq(Compilers) /\ Len(compilers') = Len(c)
        /\ \A k \in 1 .. Len(c) : compilers'[k] = IF k = u THEN new ELSE c[k]
    BY ONLY <2>4, <2>7, Replaced
  <2> QED BY <2>4, <2>8
<1>29. Suited(S, compilers'[u])
  <2>1. M \in 1 .. Len(frames) /\ G[M].needs = S
    BY <1>3, <1>7, <1>10, <1>11
  <2>2. Suited(S, compilers[u])
    BY <1>12, <1>13, <2>1 DEF Provided
  <2>3. PICK c : c = compilers[u]
    OBVIOUS
  <2>4. Tidy(new.lvalue, S) /\ Balanced(new.lvalue)
    BY <1>7, <1>10, <1>27
  <2>5. Suited(S, new)
    BY <1>27, <2>2, <2>3, <2>4, SuitedAlike
  <2> QED BY <1>11, <1>28, <2>5
<1>30. Pops(G, outside, N, H, os, out)
  <2>1. /\ Len(compilers') = IF MakesCompiler(N) \/ IsLeftSide THEN Len(compilers) - 1 ELSE Len(compilers)
        /\ Len(outs') = IF MakesStream(N) \/ IsLeftSide THEN Len(outs) - 1 ELSE Len(outs)
    BY <1>1, <1>3, <1>10, <1>25, <1>28
  <2>2. Len(H) = N - 1 /\ H[N - 1] = r
    BY <1>7, <1>10, <1>24
  <2>3. \A k \in 1 .. N - 1 : k # N - 1 => H[k] = G[k]
    <3>1. \A k \in 1 .. N - 1 : k # N - 1 => k \in 1 .. M
      BY <1>7, <1>10
    <3> QED BY <1>8, <1>10, <1>24, <3>1
  <2>4. H[N - 1].needs = G[N - 1].needs /\ H[N - 1].stream = w
        /\ H[N - 1].level = H[N - 1].base /\ H[N - 1].top = H[N - 1].base
    BY <1>10, <1>21, <2>2
  <2>5. \A i \in 1 .. u : i # u => compilers'[i] = compilers[i]
    BY <1>28
  <2> QED BY ONLY <1>1, <1>3, <1>10, <1>19, <1>24, <1>25, <1>28, <1>29, <2>1, <2>2, <2>3, <2>4,
                  <2>5 DEF Pops
<1>31. Sighted'
  <2>1. \E us, ws : Standing(H, out, us, ws)'
    BY <1>1, <1>3, <1>4, <1>5, <1>6, <1>30, PopStands
  <2> QED BY <2>1 DEF Sighted
<1> QED BY <1>1, <1>4, <1>31, StaysSighted

\* Nothing but the phase changes.
LEMMA StandingStays ==
  ASSUME UNCHANGED tables, UNCHANGED <<outs, post_body, compilers, frames>>,
         Sighted, MethodsTidy
  PROVE  Sighted' /\ MethodsTidy'
<1>1. PICK G, outside, using, writing : Standing(G, outside, using, writing)
  BY DEF Sighted
<1>2. /\ Counts(using, writing) /\ Layered(G, outs, outside) /\ Len(G) = Len(frames)
      /\ Placed(G, writing) /\ Provided(G, using) /\ Lent(G, outside, writing)
  BY <1>1 DEF Standing
<1>3. /\ frames' = frames /\ outs' = outs /\ compilers' = compilers /\ post_body' = post_body
  OBVIOUS
<1>4. \A k : /\ MakesCompiler(k)' <=> MakesCompiler(k)
             /\ MakesStream(k)' <=> MakesStream(k)
             /\ OnLeftSideAt(k)' <=> OnLeftSideAt(k)
  <2>1. \A m : HasBody(m)' <=> HasBody(m)
    BY TablesStay
  <2>2. \A k : OnLeftSideAt(k)' <=> OnLeftSideAt(k)
    BY <1>3 DEF OnLeftSideAt
  <2>3. \A k : OpensAt(k, Scoping)' <=> OpensAt(k, Scoping)
    BY <1>3, <2>1 DEF OpensAt
  <2> QED BY <1>3, <2>2, <2>3 DEF MakesCompiler, MakesStream
<1>5. Counts(using, writing)'
  BY <1>2, <1>3, <1>4 DEF Counts
<1>6. \A k : Blocks(frames[k])' = Blocks(frames[k]) /\ Raised(frames[k])' = Raised(frames[k])
  <2>1. PICK fs : fs = frames
    OBVIOUS
  <2>2. \A k : Blocks(fs[k])' = Blocks(fs[k]) /\ Raised(fs[k])' = Raised(fs[k])
    BY SightStays
  <2>3. fs = frames'
    BY <1>3, <2>1
  <2>4. \A k : Blocks(frames[k])' = Blocks(fs[k])' /\ Raised(frames[k])' = Raised(fs[k])'
    BY <2>3 DEF Blocks, Raised
  <2> QED BY <2>1, <2>2, <2>4
<1>7. Placed(G, writing)'
  BY <1>2, <1>3, <1>6 DEF Placed
<1>8. Provided(G, using)'
  <2>1. PICK cs : cs = compilers
    OBVIOUS
  <2>2. \A k \in 1 .. Len(frames) : Suited(G[k].needs, cs[using[k]])'
    BY <1>2, <2>1, SightStays DEF Provided
  <2>3. \A k \in 1 .. Len(frames) : Suited(G[k].needs, compilers[using[k]])'
    BY <1>3, <2>1, <2>2
  <2> QED BY <1>2, <1>3, <2>3 DEF Provided
<1>9. Lent(G, outside, writing)'
  BY <1>2, <1>3, <1>4 DEF Lent
<1>10. Layered(G, outs, outside)'
  <2>1. PICK os : os = outs
    OBVIOUS
  <2>2. Layered(G, os, outside)'
    BY <1>2, <2>1, SightStays
  <2> QED BY <1>3, <2>1, <2>2
<1>11. Sighted'
  BY <1>2, <1>3, <1>5, <1>7, <1>8, <1>9, <1>10 DEF Sighted, Standing
<1>12. MethodsTidy'
  <2>1. PICK p : p = post_body
    OBVIOUS
  <2>2. \A k \in DOMAIN p : Tidy(p[k].text, {})'
    BY <2>1, SightStays DEF MethodsTidy
  <2>3. \A k \in DOMAIN post_body' : Tidy(post_body[k].text, {})'
    BY <1>3, <2>1, <2>2
  <2> QED BY <2>3 DEF MethodsTidy
<1> QED BY <1>11, <1>12

\* main's text begins with the object of the first scope.
LEMMA FirstLayer ==
  ASSUME NEW text, text = <<Object(Main, 1)>>, text \in Text,
         NEW r, r = [stream |-> 1, base |-> 0, level |-> 0, top |-> 0, needs |-> {1}],
         NEW G, G = <<r>>, NEW os, os = <<text>>, NEW outside, outside = <<{}>>
  PROVE  Layered(G, os, outside)
<1>1. PICK a : a = Object(Main, 1)
  OBVIOUS
<1>2. /\ a.item = "object" /\ a.node = Main /\ a.scope = 1 /\ text = <<a>>
  BY <1>1 DEF Object, Item
<1>3. Len(text) = 1 /\ DOMAIN text = {1} /\ text[1] = a
  BY <1>2
<1>4. Tidy(text, {})
  <2>1. ~ (a.item = "object" /\ a.node # Main) /\ Sought(a) \subseteq {}
    BY <1>2 DEF Sought
  <2> QED BY <1>2, <2>1, TidyShort
<1>5. End(text) = 0 /\ Depth(text, 1) = 0 /\ \A i \in 0 .. Len(text) : Depth(text, i) = 0
  <2>1. Turn(a) = 0
    BY <1>2 DEF Turn, Opening
  <2>2. End(text) = 0 /\ \A i \in 0 .. 1 : Depth(text, i) = IF i = 0 THEN 0 ELSE 0
    BY <1>2, <2>1, DepthShort
  <2> QED BY <1>3, <2>2
<1>6. Sees(text, 0, 1)
  <2>1. Declares(text[1], 1)
    BY <1>2, <1>3 DEF Declares
  <2>2. \A k \in 1 .. Len(text) : Depth(text, k) >= Depth(text, 1)
    BY <1>3, <1>5
  <2> QED BY <1>3, <1>5, <2>1, <2>2 DEF Sees
<1>7. /\ r \in Layers /\ r.stream = 1 /\ r.base = 0 /\ r.level = 0 /\ r.top = 0
      /\ r.needs = {1}
  BY DEF Layers
<1>8. /\ G \in Seq(Layers) /\ Len(G) = 1 /\ DOMAIN G = {1} /\ G[1] = r /\ G # << >>
      /\ os \in Seq(Text) /\ Len(os) = 1 /\ DOMAIN os = {1} /\ os[1] = text /\ os # << >>
      /\ outside \in Seq(SUBSET Nat) /\ Len(outside) = 1 /\ outside[1] = {}
  BY <1>7
<1>9. Ordered(G)
  BY ONLY <1>7, <1>8 DEF Ordered
<1>10. Ends(G, os)
  BY ONLY <1>5, <1>7, <1>8 DEF Ends, Uppermost
<1>11. Kept(G, os, outside)
  <2>1. \A w \in DOMAIN os : /\ Tidy(os[w], outside[w])
                            /\ \A i \in 0 .. Len(os[w]) : Depth(os[w], i) >= 0
    <3>1. \A i \in 0 .. Len(text) : Depth(text, i) >= 0
      <4>1. ASSUME NEW i \in 0 .. Len(text) PROVE Depth(text, i) >= 0
        <5>1. Depth(text, i) = 0
          BY ONLY <1>5, <4>1, Zenon
        <5> QED BY ONLY <5>1
      <4> QED BY ONLY <4>1, Zenon
    <3>2. ASSUME NEW w \in DOMAIN os
          PROVE  /\ Tidy(os[w], outside[w])
                 /\ \A i \in 0 .. Len(os[w]) : Depth(os[w], i) >= 0
      <4>1. w = 1
        BY ONLY <1>8, <3>2, Zenon
      <4>2. os[w] = text /\ outside[w] = {}
        BY ONLY <1>8, <4>1, Zenon
      <4> QED BY ONLY <1>4, <3>1, <4>2, Zenon
    <3> QED BY ONLY <3>2, Zenon
  <2>2. \A k \in DOMAIN G : \A s \in G[k].needs : Sees(os[G[k].stream], G[k].level, s)
    BY ONLY <1>6, <1>7, <1>8
  <2> QED BY ONLY <1>8, <2>1, <2>2 DEF Kept
<1> QED BY <1>9, <1>10, <1>11 DEF Layered

LEMMA SightStartCode ==
  ASSUME CompileInv, StartCode
  PROVE  SightInv'
<1>1. /\ phase = "classes" /\ phase' = "code" /\ UNCHANGED tables
      /\ outs' = <<<<Object(Main, 1)>>>> /\ compilers' = <<Compiler(1, NoScope, Null)>>
      /\ frames' = <<Frame(Main, "main", FALSE, Null)>>
      /\ UNCHANGED post_body
  BY DEF StartCode
<1>2. /\ Table!LookupInv /\ post_body = << >> /\ scopes[1].parent = NoScope
  <2>1. Table!LookupInv /\ post_body = << >>
    BY <1>1 DEF CompileInv
  <2>2. scopes[1].parent \in Nat /\ scopes[1].parent < 1
    BY <2>1, ScopesTyped
  <2> QED BY <2>1, <2>2 DEF NoScope
<1>3. /\ prog \in Programs /\ 1 \in ScopeNumbers
  BY <1>2, ScopesTyped DEF ScopeNumbers, NoScope
<1>4. PICK f, c, text, os : /\ f = Frame(Main, "main", FALSE, Null)
                            /\ c = Compiler(1, NoScope, Null)
                            /\ text = <<Object(Main, 1)>> /\ os = <<text>>
  OBVIOUS
<1>5. f.kind = "main"
  BY <1>4 DEF Frame
<1>6. c.local = 1 /\ c.req = NoScope /\ c.lvalue = << >>
  BY <1>4 DEF Compiler
<1>7. text \in Text
  <2>1. Main \in Nodes \cup {Main} /\ NoScope \in ScopeNumbers
    BY <1>2, ScopesTyped DEF ScopeNumbers, NoScope
  <2>2. Item("object", Main, 1, 0) \in Items
    BY <1>2, <1>3, <2>1, GoodPlain
  <2> QED BY <1>4, <2>2 DEF Object, Text, Items
<1>8. PICK one, r, G, outside :
        /\ one = <<1>> /\ G = <<r>> /\ outside = <<{}>>
        /\ r = [stream |-> 1, base |-> 0, level |-> 0, top |-> 0, needs |-> {1}]
  OBVIOUS
<1>9. Layered(G, os, outside)
  BY <1>4, <1>7, <1>8, FirstLayer
<1>10. /\ Len(frames') = 1 /\ DOMAIN frames' = {1} /\ frames'[1] = f
       /\ Len(compilers') = 1 /\ compilers'[1] = c /\ outs' = os /\ Len(outs') = 1
  BY <1>1, <1>4
<1>11. ~ MakesCompiler(1)' /\ ~ MakesStream(1)' /\ ~ OnLeftSideAt(1)'
  BY <1>5, <1>10 DEF MakesCompiler, MakesStream, OpensAt, OnLeftSideAt, Scoping
<1>12. one \in Seq(Nat) /\ Len(one) = 1 /\ one[1] = 1 /\ DOMAIN one = {1}
  BY <1>8
<1>13. Counts(one, one)'
  BY <1>10, <1>12 DEF Counts, Rising
<1>14. Layered(G, outs, outside)'
  BY <1>1, <1>9, <1>10, SightStays
<1>15. /\ Len(G) = 1 /\ G[1].stream = 1 /\ G[1].base = 0 /\ G[1].level = 0 /\ G[1].top = 0
       /\ G[1].needs = {1} /\ outside[1] = {}
  BY <1>8
<1>16. Placed(G, one)'
  <2>1. Blocks(f)' = 0 /\ Raised(f)' = 0
    BY <1>5 DEF Blocks, Raised
  <2>2. Blocks(frames[1])' = 0 /\ Raised(frames[1])' = 0
    BY <1>10, <2>1 DEF Blocks, Raised
  <2>3. \A k \in 1 .. 1 : k = 1
    OBVIOUS
  <2> QED BY <1>10, <1>12, <1>15, <2>2, <2>3 DEF Placed
<1>17. Provided(G, one)'
  <2>1. Closed({1}, c)
    BY <1>2, <1>6 DEF Closed
  <2>2. Suited({1}, c)
    BY <1>6, <2>1, TidyShort DEF Suited
  <2>3. Suited({1}, c)'
    BY <1>1, <2>2, SightStays
  <2>4. Suited({1}, compilers[one[1]])'
    BY <1>10, <1>12, <2>3
  <2>5. \A k \in 1 .. 1 : k = 1
    OBVIOUS
  <2> QED BY <1>10, <1>15, <2>4, <2>5 DEF Provided
<1>18. Lent(G, outside, one)'
  <2>1. frames'[1].kind # "FunctionDeclaration"
    BY <1>5, <1>10
  <2>2. \A k \in 1 .. 1 : k = 1
    OBVIOUS
  <2> QED BY <1>10, <1>11, <1>15, <2>1, <2>2 DEF Lent
<1>19. Sighted'
  BY <1>10, <1>13, <1>14, <1>15, <1>16, <1>17, <1>18 DEF Sighted, Standing
<1>20. MethodsTidy'
  BY <1>1, <1>2 DEF MethodsTidy
<1> QED BY <1>19, <1>20 DEF SightInv

LEMMA StepSight ==
  ASSUME CompileInv, CompileInv', SightInv, [Next]_vars
  PROVE  SightInv'
<1>1. CASE Build
  <2>1. phase' = phase /\ phase = "table"
    <3>1. Table!LookupInv
      BY DEF CompileInv
    <3> QED BY <1>1, <3>1, BuildEnds DEF CompileInv, Build
  <2> QED BY <2>1 DEF SightInv
<1>2. CASE PrintClasses
  BY <1>2 DEF PrintClasses, SightInv
<1>3. CASE StartCode
  BY <1>3, SightStartCode
<1>4. CASE EndMain
  <2>1. /\ phase = "code" /\ UNCHANGED tables
        /\ UNCHANGED <<outs, post_body, compilers, frames>>
    BY <1>4 DEF EndMain, Finished
  <2>2. Sighted /\ MethodsTidy
    BY <2>1 DEF SightInv
  <2> QED BY <2>1, <2>2, StandingStays DEF SightInv
<1>5. CASE Leave
  BY <1>5, SightLeaveLeftSide, SightLeaveAssignment, SightLeaveVariable, SightLeaveFunction,
     SightLeaveLet, SightLeaveOther DEF Leave
<1>6. ASSUME NEW n \in Nodes, PrintClass(n) \/ Enter(n) PROVE SightInv'
  <2>1. CASE PrintClass(n)
    BY <2>1 DEF PrintClass, NextClass, SightInv
  <2>2. CASE EnterOther(n)
    <3>1. phase' = "code"
      BY <2>2 DEF EnterOther, Push, Reached
    <3>2. ExprsSaved'
      BY <3>1 DEF CompileInv, AtWork
    <3> QED BY <2>2, <3>2, SightEnterOther
  <2>3. CASE EnterLet(n) \/ EnterFunction(n) \/ EnterVariable(n)
    BY <2>3, SightEnterLet, SightEnterFunction, SightEnterVariable
  <2>4. CASE EnterType(n) \/ EnterAssignment(n)
    BY <2>4, SightEnterType, SightEnterAssignment
  <2> QED BY <1>6, <2>1, <2>2, <2>3, <2>4 DEF Enter
<1>7. CASE UNCHANGED vars
  <2>1. /\ UNCHANGED tables /\ phase' = phase
        /\ UNCHANGED <<outs, post_body, compilers, frames>>
    BY <1>7 DEF vars
  <2> QED BY <2>1, StandingStays DEF SightInv
<1> QED BY <1>1, <1>2, <1>3, <1>4, <1>5, <1>6, <1>7 DEF Next, CompileStep, Stop

LEMMA AlwaysSightInv == Spec => []SightInv
<1>1. Init => SightInv
  BY DEF Init, SightInv
<1>2. CompileInv /\ CompileInv' /\ SightInv /\ [Next]_vars => SightInv'
  BY StepSight
<1> QED BY <1>1, <1>2, AlwaysCompileInv, PTL DEF Spec

-----------------------------------------------------------------------------
(* What is printed is in sight.                                            *)

\* main's text and the methods are tidy without any objects from outside.
LEMMA FinishedTidy ==
  ASSUME CompileInv, SightInv, Compiled
  PROVE  \A t \in Texts : Tidy(t, {})
<1>1. Sighted /\ MethodsTidy /\ Len(frames) = 1 /\ AtWork
  BY DEF Compiled, SightInv, CompileInv
<1>2. PICK G, outside, using, writing : Standing(G, outside, using, writing)
  BY <1>1 DEF Sighted
<1>3. /\ Counts(using, writing) /\ Layered(G, outs, outside) /\ Lent(G, outside, writing)
  BY <1>2 DEF Standing
<1>4. outside[1] = {} /\ 1 \in DOMAIN outs
  <2>1. outside[1] = {}
    BY <1>3 DEF Lent
  <2>2. outs \in Seq(Text) /\ outs # << >>
    BY <1>3 DEF Layered, Ends
  <2> QED BY <2>1, <2>2
<1>5. Tidy(outs[1], {})
  <2>1. Tidy(outs[1], outside[1])
    BY <1>3, <1>4 DEF Layered, Kept
  <2> QED BY <1>4, <2>1
<1> QED BY <1>1, <1>5 DEF Texts, MethodsTidy

LEMMA InvReaches == CompileInv /\ SightInv => PathsReach
<1> SUFFICES ASSUME CompileInv, SightInv, Compiled, NEW t \in Texts, NEW i \in DOMAIN t,
                    t[i].item \in {"field", "call", "local"}
             PROVE  IF t[i].scope # NoScope
                    THEN InSight(t, i, t[i].scope) /\ Reach(t[i]) = Home(t[i].node)
                    ELSE Meant(t[i].node) = Null \/ Kind(Meant(t[i].node)) = "For"
  BY DEF PathsReach
<1>1. IF t[i].scope # NoScope THEN Reach(t[i]) = Home(t[i].node)
      ELSE Meant(t[i].node) = Null \/ Kind(Meant(t[i].node)) = "For"
  BY InvLeads DEF PathsLead
<1>2. t[i].scope # NoScope => InSight(t, i, t[i].scope)
  <2>1. Tidy(t, {})
    BY FinishedTidy
  <2>2. t[i].scope # NoScope => t[i].scope \in Sought(t[i])
    BY DEF Sought
  <2> QED BY <2>1, <2>2 DEF Tidy
<1> QED BY <1>1, <1>2

\* Every path that GetScopePath prints begins with an object that Java finds
\* declared there, in a block still open, and leads to the scope of the
\* declaration that is meant; what is printed plainly is a loop's variable or
\* not declared (Compiler's Compile(Identifier) and Compile(FunctionCall)).
THEOREM PathsStartInSight == Spec => []PathsReach
BY AlwaysCompileInv, AlwaysSightInv, InvReaches, PTL

LEMMA InvLinked == CompileInv /\ SightInv => ObjectsLinked
<1> SUFFICES ASSUME CompileInv, SightInv, Compiled, NEW t \in Texts, NEW i \in DOMAIN t,
                    t[i].item = "object" /\ t[i].node # Main,
                    NEW around, around = ScopeOpenedBy(Binder(t[i].node))
             PROVE  /\ i < Len(t)
                    /\ t[i + 1] = Link(t[i].node, t[i].scope, around)
                    /\ InSight(t, i, around)
  BY DEF ObjectsLinked
<1>1. Tidy(t, {})
  BY FinishedTidy
<1>2. LinkedAt(t, i) /\ \A s \in Sought(t[i]) : InSight(t, i, s)
  BY <1>1 DEF Tidy
<1>3. around \in Sought(t[i])
  BY DEF Sought
<1> QED BY <1>2, <1>3 DEF LinkedAt

\* Every object but main's is linked, before anything else is printed, to the
\* object of the scope around its own, which is in sight there (the .parent
\* lines of Compiler's handlers for Let and FunctionDeclaration).
THEOREM ObjectsAreLinked == Spec => []ObjectsLinked
BY AlwaysCompileInv, AlwaysSightInv, InvLinked, PTL

=============================================================================
