-------------------------- MODULE ClassFile_proofs --------------------------
(***************************************************************************)
(* Proofs about module ClassFile.  They follow the pool through the chain  *)
(* of searches an operation makes: each search keeps what was there and    *)
(* returns the position of an entry of the tag it looked for, and as long  *)
(* as a u2 can count the entries it keeps the pool sound.                  *)
(* The second half, from 'What entries mean' on, is the refinement of      *)
(* module Program: what each index stands for, by the entry it leads to.   *)
(***************************************************************************)
EXTENDS ClassFile, SequenceTheorems, TLAPS

\* Every entry of p is an entry of q, at the same position.
Grows(p, q) == Len(p) <= Len(q) /\ \A i \in DOMAIN p : q[i] = p[i]

\* The refs of an entry c that is to be added to p.
Refers(p, c) ==
  /\ Len(c.refs) = Len(RefTags[c.tag])
  /\ \A j \in DOMAIN c.refs : At(p, c.refs[j], RefTags[c.tag][j])

Resolved(p) ==
  \A i \in DOMAIN p :
    /\ Len(p[i].refs) = Len(RefTags[p[i].tag])
    /\ \A j \in DOMAIN p[i].refs :
         p[i].refs[j] < i /\ At(p, p[i].refs[j], RefTags[p[i].tag][j])

Shared(p) ==
  \A i, j \in DOMAIN p : p[i].tag # "Integer" /\ p[i] = p[j] => i = j

Sound(p) == Resolved(p) /\ Shared(p)

\* What an operation on p that returns the pool and position r guarantees.
Interned(p, r, tag) ==
  /\ r.pool \in Seq(Entry)
  /\ At(r.pool, r.at, tag)
  /\ Grows(p, r.pool)
  /\ Sound(p) /\ Len(r.pool) < IndexLimit => Sound(r.pool)

-----------------------------------------------------------------------------

\* A position is narrowed to an index, and to itself while it fits.
LEMMA IndexOfRange == \A i \in Nat : IndexOf(i) \in Indices
  BY LimitsAssumption DEF IndexOf, Indices

LEMMA IndexOfSmall == \A i \in Nat : i < IndexLimit => IndexOf(i) = i
  BY LimitsAssumption DEF IndexOf

LEMMA GrowsTransitive ==
  ASSUME NEW p \in Seq(Entry), NEW q \in Seq(Entry), NEW r \in Seq(Entry),
         Grows(p, q), Grows(q, r)
  PROVE  Grows(p, r)
  BY DEF Grows

LEMMA GrowsReflexive ==
  ASSUME NEW p \in Seq(Entry)
  PROVE  Grows(p, p)
  BY DEF Grows

\* What is at an index stays there.
LEMMA AtGrows ==
  ASSUME NEW p \in Seq(Entry), NEW q \in Seq(Entry), Grows(p, q),
         NEW i, NEW tag, At(p, i, tag)
  PROVE  At(q, i, tag)
  BY DEF Grows, At

\* A search ends at an entry equal to the one wanted and disturbs no other.
LEMMA InternFacts ==
  ASSUME NEW p \in Seq(Entry), NEW c \in Entry
  PROVE  /\ Intern(p, c).pool \in Seq(Entry)
         /\ Intern(p, c).at \in DOMAIN Intern(p, c).pool
         /\ Intern(p, c).pool[Intern(p, c).at] = c
         /\ Grows(p, Intern(p, c).pool)
<1>1. CASE \E i \in DOMAIN p : IsFirst(p, i, c)
  <2> DEFINE k == CHOOSE i \in DOMAIN p : IsFirst(p, i, c)
  <2>1. k \in DOMAIN p /\ IsFirst(p, k, c)
    BY <1>1
  <2>2. Intern(p, c) = [pool |-> p, at |-> k]
    BY <1>1 DEF Intern
  <2>3. p[k] = c
    BY <2>1 DEF IsFirst, Matches
  <2> HIDE DEF k
  <2> QED BY <2>1, <2>2, <2>3, GrowsReflexive
<1>2. CASE ~ \E i \in DOMAIN p : IsFirst(p, i, c)
  <2>1. Intern(p, c) = [pool |-> Append(p, c), at |-> Len(p) + 1]
    BY <1>2 DEF Intern
  <2>2. /\ Append(p, c) \in Seq(Entry)
        /\ Len(Append(p, c)) = Len(p) + 1
        /\ \A i \in 1 .. Len(p) : Append(p, c)[i] = p[i]
        /\ Append(p, c)[Len(p) + 1] = c
    BY AppendProperties
  <2> QED BY <2>1, <2>2 DEF Grows
<1> QED BY <1>1, <1>2

\* Adding an entry whose references are good keeps the pool sound.
LEMMA InternSound ==
  ASSUME NEW p \in Seq(Entry), NEW c \in Entry, Sound(p), Refers(p, c)
  PROVE  Sound(Intern(p, c).pool)
<1>1. CASE \E i \in DOMAIN p : IsFirst(p, i, c)
  BY <1>1 DEF Intern
<1>2. CASE ~ \E i \in DOMAIN p : IsFirst(p, i, c)
  <2> DEFINE q == Append(p, c)
  <2>1. Intern(p, c).pool = q
    BY <1>2 DEF Intern
  <2>2. /\ q \in Seq(Entry) /\ DOMAIN q = 1 .. Len(p) + 1
        /\ \A i \in 1 .. Len(p) : q[i] = p[i]
        /\ q[Len(p) + 1] = c
    BY AppendProperties
  <2>3. DOMAIN p = 1 .. Len(p) /\ Len(p) \in Nat
    OBVIOUS
  <2> HIDE DEF q
  <2>4. \A i, tag : At(p, i, tag) => At(q, i, tag)
    BY <2>2, <2>3 DEF At
  <2>5. Resolved(q)
    <3> SUFFICES ASSUME NEW i \in DOMAIN q
        PROVE /\ Len(q[i].refs) = Len(RefTags[q[i].tag])
              /\ \A j \in DOMAIN q[i].refs :
                   q[i].refs[j] < i /\ At(q, q[i].refs[j], RefTags[q[i].tag][j])
      BY DEF Resolved
    <3>1. CASE i \in DOMAIN p
      <4>1. q[i] = p[i]
        BY <3>1, <2>2, <2>3
      <4>2. /\ Len(p[i].refs) = Len(RefTags[p[i].tag])
            /\ \A j \in DOMAIN p[i].refs :
                 p[i].refs[j] < i /\ At(p, p[i].refs[j], RefTags[p[i].tag][j])
        BY <3>1 DEF Sound, Resolved
      <4> QED BY <4>1, <4>2, <2>4
    <3>2. CASE i = Len(p) + 1
      <4>1. q[i] = c
        BY <3>2, <2>2
      <4>2. \A j \in DOMAIN c.refs : c.refs[j] \in DOMAIN p
        BY DEF Refers, At
      <4>3. \A j \in DOMAIN c.refs : c.refs[j] < i
        BY <3>2, <4>2, <2>3
      <4> QED BY <4>1, <4>3, <2>4 DEF Refers
    <3> QED BY <3>1, <3>2, <2>2, <2>3
  <2>6. Shared(q)
    <3> SUFFICES ASSUME NEW i \in DOMAIN q, NEW j \in DOMAIN q,
                        q[i].tag # "Integer", q[i] = q[j]
        PROVE i = j
      BY DEF Shared
    <3>1. \A k \in DOMAIN p : ~ (c.tag # "Integer" /\ p[k] = c)
      <4> SUFFICES ASSUME NEW k \in DOMAIN p, c.tag # "Integer", p[k] = c
          PROVE FALSE
        OBVIOUS
      <4>1. \A m \in DOMAIN p : p[m] = c => m = k
        BY DEF Sound, Shared
      <4>2. IsFirst(p, k, c)
        BY <4>1, <2>3 DEF IsFirst, Matches
      <4> QED BY <4>2, <1>2
    <3>2. CASE i \in DOMAIN p /\ j \in DOMAIN p
      BY <3>2, <2>2, <2>3 DEF Sound, Shared
    <3>3. CASE i = Len(p) + 1 /\ j \in DOMAIN p
      BY <3>3, <3>1, <2>2, <2>3
    <3>4. CASE i \in DOMAIN p /\ j = Len(p) + 1
      BY <3>4, <3>1, <2>2, <2>3
    <3> QED BY <3>2, <3>3, <3>4, <2>2, <2>3
  <2> QED BY <2>1, <2>5, <2>6 DEF Sound
<1> QED BY <1>1, <1>2

-----------------------------------------------------------------------------
(* The chains of searches.                                                 *)

\* One search after what led from p to q: an entry for c, whose references
\* were looked up on the way.
LEMMA InternStep ==
  ASSUME NEW p \in Seq(Entry), NEW q \in Seq(Entry), NEW c \in Entry,
         Grows(p, q),
         Sound(p) /\ Len(q) < IndexLimit => Sound(q),
         Len(q) < IndexLimit => Refers(q, c)
  PROVE  Interned(p, Intern(q, c), c.tag)
<1> DEFINE r == Intern(q, c)
<1>1. /\ r.pool \in Seq(Entry) /\ r.at \in DOMAIN r.pool
      /\ r.pool[r.at] = c /\ Grows(q, r.pool)
  BY InternFacts
<1>2. Grows(p, r.pool)
  BY <1>1, GrowsTransitive
<1>3. Sound(p) /\ Len(r.pool) < IndexLimit => Sound(r.pool)
  <2> SUFFICES ASSUME Sound(p), Len(r.pool) < IndexLimit PROVE Sound(r.pool)
    OBVIOUS
  <2>1. Len(q) < IndexLimit
    BY <1>1, LimitsAssumption DEF Grows
  <2>2. Sound(q) /\ Refers(q, c)
    BY <2>1
  <2> QED BY <2>2, InternSound
<1> HIDE DEF r
<1>4. Interned(p, r, c.tag)
  BY <1>1, <1>2, <1>3 DEF Interned, At
<1> QED BY <1>4 DEF r

\* Two operations one after the other, the first's result still in place.
LEMMA InternedThen ==
  ASSUME NEW p \in Seq(Entry), NEW r, NEW s, NEW t, NEW u,
         Interned(p, r, t), Interned(r.pool, s, u)
  PROVE  /\ Interned(p, s, u)
         /\ At(s.pool, r.at, t)
         /\ Len(r.pool) <= Len(s.pool)
<1>1. /\ r.pool \in Seq(Entry) /\ s.pool \in Seq(Entry)
      /\ Grows(p, r.pool) /\ Grows(r.pool, s.pool)
      /\ At(r.pool, r.at, t) /\ At(s.pool, s.at, u)
  BY DEF Interned
<1>2. Grows(p, s.pool)
  BY <1>1, GrowsTransitive
<1>3. At(s.pool, r.at, t)
  BY <1>1, AtGrows
<1>4. Len(r.pool) <= Len(s.pool)
  BY <1>1 DEF Grows
<1>5. Sound(p) /\ Len(s.pool) < IndexLimit => Sound(s.pool)
  <2> SUFFICES ASSUME Sound(p), Len(s.pool) < IndexLimit PROVE Sound(s.pool)
    OBVIOUS
  <2>1. Len(r.pool) < IndexLimit
    BY <1>1, <1>4, LimitsAssumption
  <2>2. Sound(r.pool)
    BY <2>1 DEF Interned
  <2> QED BY <2>2 DEF Interned
<1> QED BY <1>1, <1>2, <1>3, <1>4, <1>5 DEF Interned

\* The index of an entry found refers to it while indices are wide enough.
LEMMA IndexAt ==
  ASSUME NEW p \in Seq(Entry), NEW i, NEW tag, At(p, i, tag)
  PROVE  /\ IndexOf(i) \in Indices
         /\ Len(p) < IndexLimit => At(p, IndexOf(i), tag)
<1>1. i \in Nat /\ i <= Len(p) /\ Len(p) \in Nat
  BY DEF At
<1>2. IndexOf(i) \in Indices
  BY <1>1, IndexOfRange
<1>3. ASSUME Len(p) < IndexLimit PROVE IndexOf(i) = i
  BY <1>1, <1>3, IndexOfSmall, LimitsAssumption
<1> QED BY <1>2, <1>3

LEMMA utf8ConstantInterns ==
  ASSUME NEW p \in Seq(Entry), NEW text \in Texts
  PROVE  Interned(p, utf8Constant(p, text), "Utf8")
<1>1. Utf8(text) \in Entry
  BY DEF Utf8, Constant, Entry, Tags
<1>2. Refers(p, Utf8(text)) /\ Utf8(text).tag = "Utf8"
  BY DEF Refers, Utf8, Constant, RefTags
<1>3. Grows(p, p)
  BY GrowsReflexive
<1> HIDE DEF Utf8
<1> QED BY <1>1, <1>2, <1>3, InternStep DEF utf8Constant

LEMMA TuplesAreSequences ==
  ASSUME NEW S
  PROVE  /\ \A a \in S : <<a>> \in Seq(S)
         /\ \A a, b \in S : <<a, b>> \in Seq(S)
  OBVIOUS

LEMMA EmptyText == "none" \in Texts /\ 0 \in Int
  BY DEF Texts, OwnTexts

\* A constant with one reference, to a Utf8 entry.
LEMMA OneReference ==
  ASSUME NEW q \in Seq(Entry), NEW i, At(q, i, "Utf8"),
         NEW tag \in {"String", "Class"}
  PROVE  LET c == Constant(tag, "none", 0, <<IndexOf(i)>>) IN
         /\ c \in Entry /\ c.tag = tag
         /\ Len(q) < IndexLimit => Refers(q, c)
<1>1. /\ IndexOf(i) \in Indices
      /\ Len(q) < IndexLimit => At(q, IndexOf(i), "Utf8")
  BY IndexAt
<1>2. RefTags[tag] = <<"Utf8">>
  BY DEF RefTags
<1>3. <<IndexOf(i)>> \in Seq(Indices)
  BY <1>1, TuplesAreSequences
<1>4. tag \in Tags
  BY DEF Tags
<1> DEFINE c == Constant(tag, "none", 0, <<IndexOf(i)>>)
<1>5. c \in Entry /\ c.tag = tag /\ c.refs = <<IndexOf(i)>>
  <2>1. PICK refs \in Seq(Indices) : refs = <<IndexOf(i)>>
    BY <1>3
  <2>2. Constant(tag, "none", 0, refs) = [tag |-> tag, text |-> "none", int |-> 0, refs |-> refs]
    BY DEF Constant
  <2>3. [tag |-> tag, text |-> "none", int |-> 0, refs |-> refs] \in Entry
    BY <1>4, EmptyText DEF Entry
  <2> QED BY <2>1, <2>2, <2>3
<1> HIDE DEF c
<1>6. Len(q) < IndexLimit => Refers(q, c)
  BY <1>1, <1>2, <1>5 DEF Refers
<1>7. c \in Entry /\ c.tag = tag /\ (Len(q) < IndexLimit => Refers(q, c))
  BY <1>5, <1>6
<1> QED BY <1>7 DEF c

LEMMA stringConstantInterns ==
  ASSUME NEW p \in Seq(Entry), NEW text \in Texts
  PROVE  Interned(p, stringConstant(p, text), "String")
<1> DEFINE u == utf8Constant(p, text)
           c == String(IndexOf(u.at))
<1>1. Interned(p, u, "Utf8")
  BY utf8ConstantInterns
<1>2. stringConstant(p, text) = Intern(u.pool, c)
  BY DEF stringConstant
<1> HIDE DEF u
<1>3. /\ u.pool \in Seq(Entry) /\ At(u.pool, u.at, "Utf8") /\ Grows(p, u.pool)
      /\ Sound(p) /\ Len(u.pool) < IndexLimit => Sound(u.pool)
  BY <1>1 DEF Interned
<1>4. c \in Entry /\ c.tag = "String" /\ (Len(u.pool) < IndexLimit => Refers(u.pool, c))
  <2>1. "String" \in {"String", "Class"}
    OBVIOUS
  <2>2. LET d == Constant("String", "none", 0, <<IndexOf(u.at)>>) IN
        /\ d \in Entry /\ d.tag = "String"
        /\ Len(u.pool) < IndexLimit => Refers(u.pool, d)
    BY <1>3, <2>1, OneReference, Zenon
  <2> QED BY <2>2 DEF String
<1> HIDE DEF c
<1>5. Interned(p, Intern(u.pool, c), c.tag)
  BY <1>3, <1>4, InternStep
<1> QED BY <1>2, <1>4, <1>5

LEMMA integerConstantInterns ==
  ASSUME NEW p \in Seq(Entry), NEW i \in Int
  PROVE  Interned(p, integerConstant(p, i), "Integer")
<1>1. Integer(i) \in Entry
  BY EmptyText DEF Integer, Constant, Entry, Tags
<1>2. Refers(p, Integer(i)) /\ Integer(i).tag = "Integer"
  BY DEF Refers, Integer, Constant, RefTags
<1>3. Grows(p, p)
  BY GrowsReflexive
<1> HIDE DEF Integer
<1> QED BY <1>1, <1>2, <1>3, InternStep DEF integerConstant

LEMMA classConstantInterns ==
  ASSUME NEW p \in Seq(Entry), NEW name \in Texts
  PROVE  Interned(p, classConstant(p, name), "Class")
<1> DEFINE u == utf8Constant(p, name)
           c == Class(IndexOf(u.at))
<1>1. Interned(p, u, "Utf8")
  BY utf8ConstantInterns
<1>2. classConstant(p, name) = Intern(u.pool, c)
  BY DEF classConstant
<1> HIDE DEF u
<1>3. /\ u.pool \in Seq(Entry) /\ At(u.pool, u.at, "Utf8") /\ Grows(p, u.pool)
      /\ Sound(p) /\ Len(u.pool) < IndexLimit => Sound(u.pool)
  BY <1>1 DEF Interned
<1>4. c \in Entry /\ c.tag = "Class" /\ (Len(u.pool) < IndexLimit => Refers(u.pool, c))
  <2>1. "Class" \in {"String", "Class"}
    OBVIOUS
  <2>2. LET d == Constant("Class", "none", 0, <<IndexOf(u.at)>>) IN
        /\ d \in Entry /\ d.tag = "Class"
        /\ Len(u.pool) < IndexLimit => Refers(u.pool, d)
    BY <1>3, <2>1, OneReference, Zenon
  <2> QED BY <2>2 DEF Class
<1> HIDE DEF c
<1>5. Interned(p, Intern(u.pool, c), c.tag)
  BY <1>3, <1>4, InternStep
<1> QED BY <1>2, <1>4, <1>5

\* The last search of a chain r, s, ...: both entries found are still there.
LEMMA PairInterned ==
  ASSUME NEW p \in Seq(Entry), NEW r, NEW s, NEW t1, NEW t2, NEW tag \in Tags,
         Interned(p, r, t1), Interned(r.pool, s, t2),
         RefTags[tag] = <<t1, t2>>
  PROVE  Interned(p, Intern(s.pool, Constant(tag, "none", 0,
                                  <<IndexOf(r.at), IndexOf(s.at)>>)), tag)
<1> DEFINE c == Constant(tag, "none", 0, <<IndexOf(r.at), IndexOf(s.at)>>)
<1>1. Interned(p, s, t2) /\ At(s.pool, r.at, t1)
  BY InternedThen
<1>2. /\ s.pool \in Seq(Entry) /\ At(s.pool, s.at, t2) /\ Grows(p, s.pool)
      /\ Sound(p) /\ Len(s.pool) < IndexLimit => Sound(s.pool)
  BY <1>1 DEF Interned
<1>3. c \in Entry /\ c.tag = tag /\ (Len(s.pool) < IndexLimit => Refers(s.pool, c))
  <2>1. /\ IndexOf(r.at) \in Indices
        /\ Len(s.pool) < IndexLimit => At(s.pool, IndexOf(r.at), t1)
    BY <1>1, <1>2, IndexAt
  <2>2. /\ IndexOf(s.at) \in Indices
        /\ Len(s.pool) < IndexLimit => At(s.pool, IndexOf(s.at), t2)
    BY <1>2, IndexAt
  <2>3. PICK refs \in Seq(Indices) : refs = <<IndexOf(r.at), IndexOf(s.at)>>
    BY <2>1, <2>2, TuplesAreSequences
  <2>4. c = [tag |-> tag, text |-> "none", int |-> 0, refs |-> refs]
    BY <2>3 DEF Constant
  <2>5. [tag |-> tag, text |-> "none", int |-> 0, refs |-> refs] \in Entry
    BY EmptyText DEF Entry
  <2> HIDE DEF c
  <2>6. c \in Entry /\ c.tag = tag /\ c.refs = <<IndexOf(r.at), IndexOf(s.at)>>
    BY <2>3, <2>4, <2>5
  <2>7. Len(s.pool) < IndexLimit => Refers(s.pool, c)
    BY <2>1, <2>2, <2>6 DEF Refers
  <2> QED BY <2>6, <2>7
<1> HIDE DEF c
<1>4. Interned(p, Intern(s.pool, c), c.tag)
  BY <1>2, <1>3, InternStep
<1>5. Interned(p, Intern(s.pool, c), tag)
  BY <1>3, <1>4
<1> QED BY <1>5 DEF c

LEMMA nameAndTypeConstantInterns ==
  ASSUME NEW p \in Seq(Entry), NEW n \in Texts, NEW d \in Texts
  PROVE  Interned(p, nameAndTypeConstant(p, n, d), "NameAndType")
<1> DEFINE r == utf8Constant(p, n)
           s == utf8Constant(r.pool, d)
<1>1. Interned(p, r, "Utf8")
  BY utf8ConstantInterns
<1>2. r.pool \in Seq(Entry)
  BY <1>1 DEF Interned
<1>3. Interned(r.pool, s, "Utf8")
  BY <1>2, utf8ConstantInterns
<1>4. nameAndTypeConstant(p, n, d) =
        Intern(s.pool, Constant("NameAndType", "none", 0,
                                <<IndexOf(r.at), IndexOf(s.at)>>))
  BY DEF nameAndTypeConstant, NameAndType
<1>5. RefTags["NameAndType"] = <<"Utf8", "Utf8">> /\ "NameAndType" \in Tags
  BY DEF RefTags, Tags
<1> HIDE DEF r, s
<1> QED BY <1>1, <1>3, <1>4, <1>5, PairInterned

LEMMA methodRefConstantInterns ==
  ASSUME NEW p \in Seq(Entry), NEW c \in Texts, NEW n \in Texts, NEW d \in Texts
  PROVE  Interned(p, methodRefConstant(p, c, n, d), "Methodref")
<1> DEFINE r == classConstant(p, c)
           s == nameAndTypeConstant(r.pool, n, d)
<1>1. Interned(p, r, "Class")
  BY classConstantInterns
<1>2. r.pool \in Seq(Entry)
  BY <1>1 DEF Interned
<1>3. Interned(r.pool, s, "NameAndType")
  BY <1>2, nameAndTypeConstantInterns
<1>4. methodRefConstant(p, c, n, d) =
        Intern(s.pool, Constant("Methodref", "none", 0,
                                <<IndexOf(r.at), IndexOf(s.at)>>))
  BY DEF methodRefConstant, Methodref
<1>5. RefTags["Methodref"] = <<"Class", "NameAndType">> /\ "Methodref" \in Tags
  BY DEF RefTags, Tags
<1> HIDE DEF r, s
<1> QED BY <1>1, <1>3, <1>4, <1>5, PairInterned

-----------------------------------------------------------------------------
(* What an operation leaves of the pool.                                   *)

Kept(p, q) ==
  /\ q \in Seq(Entry)
  /\ Grows(p, q)
  /\ Sound(p) /\ Len(q) < IndexLimit => Sound(q)

LEMMA InternedKept ==
  ASSUME NEW p, NEW r, NEW tag, Interned(p, r, tag)
  PROVE  Kept(p, r.pool) /\ At(r.pool, r.at, tag)
  BY DEF Interned, Kept

LEMMA KeptTransitive ==
  ASSUME NEW p \in Seq(Entry), NEW q, NEW r, Kept(p, q), Kept(q, r)
  PROVE  Kept(p, r)
<1>1. q \in Seq(Entry) /\ r \in Seq(Entry) /\ Grows(p, q) /\ Grows(q, r)
  BY DEF Kept
<1>2. Grows(p, r)
  BY <1>1, GrowsTransitive
<1>3. ASSUME Sound(p), Len(r) < IndexLimit PROVE Sound(r)
  <2>1. Len(q) < IndexLimit
    BY <1>1, <1>3, LimitsAssumption DEF Grows
  <2> QED BY <1>3, <2>1 DEF Kept
<1> QED BY <1>1, <1>2, <1>3 DEF Kept

LEMMA IndexInRange ==
  ASSUME NEW p \in Seq(Entry), NEW i, NEW tag, At(p, i, tag)
  PROVE  IndexOf(i) \in Indices
  BY IndexAt

LEMMA NewMethodFacts ==
  ASSUME NEW p \in Seq(Entry), NEW n \in Texts, NEW d \in Texts,
         NEW code \in Code
  PROVE  /\ Kept(p, NewMethod(p, n, d, code).pool)
         /\ NewMethod(p, n, d, code).method \in MethodInfo
<1> DEFINE a == utf8Constant(p, n)
           b == utf8Constant(a.pool, d)
           c == utf8Constant(b.pool, "Code")
<1>1. Kept(p, a.pool) /\ At(a.pool, a.at, "Utf8")
  BY utf8ConstantInterns, InternedKept
<1>2. a.pool \in Seq(Entry)
  BY <1>1 DEF Kept
<1> HIDE DEF a
<1>3. Kept(a.pool, b.pool) /\ At(b.pool, b.at, "Utf8")
  BY <1>2, utf8ConstantInterns, InternedKept
<1>4. b.pool \in Seq(Entry)
  BY <1>3 DEF Kept
<1> HIDE DEF b
<1>5. "Code" \in Texts
  BY DEF Texts, OwnTexts
<1>6. Kept(b.pool, c.pool) /\ At(c.pool, c.at, "Utf8")
  BY <1>4, <1>5, utf8ConstantInterns, InternedKept
<1>7. c.pool \in Seq(Entry)
  BY <1>6 DEF Kept
<1> HIDE DEF c
<1>8. Kept(p, b.pool)
  BY <1>1, <1>3, KeptTransitive
<1>9. Kept(p, c.pool)
  BY <1>6, <1>8, KeptTransitive
<1>10. /\ IndexOf(a.at) \in Indices /\ IndexOf(b.at) \in Indices
       /\ IndexOf(c.at) \in Indices
  BY <1>1, <1>2, <1>3, <1>4, <1>6, <1>7, IndexInRange
<1>11. NewMethod(p, n, d, code) =
         [pool |-> c.pool,
          method |-> [name |-> IndexOf(a.at), descriptor |-> IndexOf(b.at),
                      code_name |-> IndexOf(c.at), code |-> code]]
  BY DEF NewMethod, a, b, c
<1> QED BY <1>9, <1>10, <1>11 DEF MethodInfo

LEMMA NewConstructorFacts ==
  ASSUME NEW p \in Seq(Entry)
  PROVE  /\ Kept(p, NewConstructor(p).pool)
         /\ NewConstructor(p).method \in MethodInfo
<1> DEFINE o == methodRefConstant(p, "java/lang/Object", "<init>", "()V")
           code == <<Instruction("aload_0", 0),
                     Instruction("invokespecial", IndexOf(o.at)),
                     Instruction("return", 0)>>
<1>1. /\ "java/lang/Object" \in Texts /\ "<init>" \in Texts /\ "()V" \in Texts
  BY DEF Texts, OwnTexts
<1>2. Kept(p, o.pool) /\ At(o.pool, o.at, "Methodref")
  BY <1>1, methodRefConstantInterns, InternedKept
<1>3. o.pool \in Seq(Entry)
  BY <1>2 DEF Kept
<1>4. NewConstructor(p) = NewMethod(o.pool, "<init>", "()V", code)
  BY DEF NewConstructor
<1> HIDE DEF o
<1>5. IndexOf(o.at) \in Indices /\ 0 \in Indices
  BY <1>2, <1>3, IndexInRange, LimitsAssumption DEF Indices
<1>6. code \in Code
  <2> DEFINE I == [op : Opcodes, operand : Indices]
  <2>1. /\ Instruction("aload_0", 0) \in I
        /\ Instruction("invokespecial", IndexOf(o.at)) \in I
        /\ Instruction("return", 0) \in I
    BY <1>5 DEF Instruction, Opcodes
  <2> HIDE DEF I
  <2>2. code \in Seq(I)
    BY <2>1
  <2> QED BY <2>2 DEF I, Code
<1> HIDE DEF code
<1>7. /\ Kept(o.pool, NewMethod(o.pool, "<init>", "()V", code).pool)
      /\ NewMethod(o.pool, "<init>", "()V", code).method \in MethodInfo
  BY <1>1, <1>3, <1>6, NewMethodFacts
<1>8. Kept(p, NewMethod(o.pool, "<init>", "()V", code).pool)
  BY <1>2, <1>7, KeptTransitive
<1> QED BY <1>4, <1>7, <1>8

-----------------------------------------------------------------------------
(* The actions.                                                            *)

\* What every step does to the state.
Good == TypeOK' /\ Kept(constant_pool, constant_pool')

LEMMA HandGood ==
  ASSUME TypeOK, NEW r, NEW tag, Interned(constant_pool, r, tag), Hand(r)
  PROVE  Good
<1>1. /\ Kept(constant_pool, r.pool) /\ At(r.pool, r.at, tag)
  BY InternedKept
<1>2. /\ constant_pool' = r.pool /\ handles' = handles \cup {r.at}
      /\ Len(r.pool) <= MaxPool
      /\ UNCHANGED <<methods, block, file, emits>>
  BY DEF Hand, Fits
<1>3. r.pool \in Seq(Entry) /\ constant_pool \in Seq(Entry)
  BY <1>1 DEF Kept, TypeOK
<1>4. handles' \subseteq DOMAIN constant_pool'
  BY <1>1, <1>2, <1>3 DEF TypeOK, Kept, Grows, At
<1>5. TypeOK'
  BY <1>2, <1>3, <1>4 DEF TypeOK
<1> QED BY <1>1, <1>2, <1>5 DEF Good

LEMMA UnchangedGood ==
  ASSUME TypeOK, UNCHANGED vars
  PROVE  Good
<1>1. TypeOK'
  BY DEF TypeOK, vars
<1>2. constant_pool \in Seq(Entry) /\ constant_pool' = constant_pool
  BY DEF TypeOK, vars
<1> QED BY <1>1, <1>2, GrowsReflexive DEF Good, Kept

LEMMA CallGood ==
  ASSUME TypeOK, NEW f \in handles, NEW args \in Arguments(handles),
         Call(f, args)
  PROVE  Good
<1> DEFINE I == [op : Opcodes, operand : Indices]
           pushes == [j \in DOMAIN args |-> Push(args[j])]
<1>1. PICK n \in 0 .. MaxArguments : args \in [1 .. n -> handles]
  BY DEF Arguments
<1>2. n \in Nat
  BY <1>1, ClientAssumption
<1>3. handles \subseteq Nat
  BY DEF TypeOK
<1>4. \A h \in handles : IndexOf(h) \in Indices
  BY <1>3, IndexOfRange
<1>5. \A h \in handles : Push(h) \in I /\ Invoke(h) \in I
  <2> SUFFICES ASSUME NEW h \in handles PROVE Push(h) \in I /\ Invoke(h) \in I
    OBVIOUS
  <2>1. IndexOf(h) \in Indices
    BY <1>4
  <2>2. IndexOf(h) < ByteLimit => IndexOf(h) % ByteLimit \in Indices
    BY <2>1, LimitsAssumption DEF Indices
  <2> QED BY <2>1, <2>2 DEF Push, Invoke, Instruction, Opcodes
<1> HIDE DEF I
<1>6. pushes \in Seq(I)
  BY <1>1, <1>2, <1>5
<1> HIDE DEF pushes
<1>7. block \in Seq(I)
  BY DEF TypeOK, Code, I
<1>8. Append(block \o pushes, Invoke(f)) \in Seq(I)
  BY <1>5, <1>6, <1>7
<1>9. /\ block' = Append(block \o pushes, Invoke(f))
      /\ UNCHANGED <<constant_pool, methods, handles, file, emits>>
  BY DEF Call, pushes
<1>10. block' \in Code
  BY <1>8, <1>9 DEF Code, I
<1>11. TypeOK'
  BY <1>9, <1>10 DEF TypeOK
<1>12. constant_pool \in Seq(Entry)
  BY DEF TypeOK
<1> QED BY <1>9, <1>11, <1>12, GrowsReflexive DEF Good, Kept

LEMMA DefineFunctionGood ==
  ASSUME TypeOK, NEW n \in Texts, NEW d \in Texts, DefineFunction(n, d)
  PROVE  Good
<1> DEFINE new == NewMethod(constant_pool, n, d, block)
<1>1. constant_pool \in Seq(Entry) /\ block \in Code
  BY DEF TypeOK
<1>2. Kept(constant_pool, new.pool) /\ new.method \in MethodInfo
  BY <1>1, NewMethodFacts
<1>3. /\ constant_pool' = new.pool /\ Len(new.pool) <= MaxPool
      /\ methods' = Append(methods, new.method) /\ block' = <<>>
      /\ UNCHANGED <<handles, file, emits>>
  BY DEF DefineFunction, Fits
<1> HIDE DEF new
<1>4. block' \in Code
  BY <1>3 DEF Code
<1>5. methods' \in Seq(MethodInfo)
  BY <1>2, <1>3 DEF TypeOK
<1>6. handles' \subseteq DOMAIN constant_pool'
  BY <1>1, <1>2, <1>3 DEF TypeOK, Kept, Grows
<1>7. TypeOK'
  BY <1>2, <1>3, <1>4, <1>5, <1>6 DEF TypeOK, Kept
<1> QED BY <1>2, <1>3, <1>7 DEF Good

LEMMA EmitGood ==
  ASSUME TypeOK, Emit
  PROVE  Good
<1> DEFINE new   == NewConstructor(constant_pool)
           this  == classConstant(new.pool, "Main")
           super == classConstant(this.pool, "java/lang/Object")
<1>1. constant_pool \in Seq(Entry)
  BY DEF TypeOK
<1>2. "Main" \in Texts /\ "java/lang/Object" \in Texts
  BY DEF Texts, OwnTexts
<1>3. /\ emits < MaxEmits /\ Len(super.pool) <= MaxPool
      /\ constant_pool' = super.pool
      /\ methods' = Append(methods, new.method)
      /\ file' = [count       |-> IndexOf(Len(super.pool) + 1),
                  pool        |-> super.pool,
                  this_class  |-> IndexOf(this.at),
                  super_class |-> IndexOf(super.at),
                  methods     |-> methods']
      /\ emits' = emits + 1
      /\ UNCHANGED <<handles, block>>
  BY DEF Emit, Fits
<1>4. Kept(constant_pool, new.pool) /\ new.method \in MethodInfo
  BY <1>1, NewConstructorFacts
<1> HIDE DEF new
<1>5. new.pool \in Seq(Entry)
  BY <1>4 DEF Kept
<1>6. Kept(new.pool, this.pool) /\ At(this.pool, this.at, "Class")
  BY <1>2, <1>5, classConstantInterns, InternedKept
<1> HIDE DEF this
<1>7. this.pool \in Seq(Entry)
  BY <1>6 DEF Kept
<1>8. Kept(this.pool, super.pool) /\ At(super.pool, super.at, "Class")
  BY <1>2, <1>7, classConstantInterns, InternedKept
<1> HIDE DEF super
<1>9. super.pool \in Seq(Entry)
  BY <1>8 DEF Kept
<1>10. Kept(constant_pool, this.pool)
  BY <1>1, <1>4, <1>6, KeptTransitive
<1>11. Kept(constant_pool, super.pool)
  BY <1>1, <1>8, <1>10, KeptTransitive
<1>12. methods' \in Seq(MethodInfo)
  BY <1>3, <1>4 DEF TypeOK
<1>13. IndexOf(this.at) \in Indices /\ IndexOf(super.at) \in Indices
  BY <1>6, <1>7, <1>8, <1>9, IndexInRange
<1>14. IndexOf(Len(super.pool) + 1) \in Indices
  BY <1>9, IndexOfRange
<1>15. file' \in [count : Indices, pool : Seq(Entry), this_class : Indices,
                  super_class : Indices, methods : Seq(MethodInfo)]
  BY <1>3, <1>9, <1>12, <1>13, <1>14
<1>16. handles' \subseteq DOMAIN constant_pool'
  BY <1>1, <1>3, <1>9, <1>11 DEF TypeOK, Kept, Grows
<1>17. emits' \in 0 .. MaxEmits
  BY <1>3, ClientAssumption DEF TypeOK
<1>18. TypeOK'
  BY <1>3, <1>9, <1>12, <1>15, <1>16, <1>17 DEF TypeOK
<1> QED BY <1>3, <1>11, <1>18 DEF Good

LEMMA NextGood ==
  ASSUME TypeOK, [Next]_vars
  PROVE  Good
<1>0. constant_pool \in Seq(Entry)
  BY DEF TypeOK
<1>1. ASSUME NEW t \in Strings, DefineStringConstant(t) PROVE Good
  <2>1. t \in Texts
    BY DEF Texts, ClientTexts
  <2>2. Interned(constant_pool, stringConstant(constant_pool, t), "String")
    BY <1>0, <2>1, stringConstantInterns
  <2> QED BY <1>1, <2>2, HandGood DEF DefineStringConstant
<1>2. ASSUME NEW i \in Ints, DefineIntegerConstant(i) PROVE Good
  <2>1. i \in Int
    BY ClientAssumption
  <2>2. Interned(constant_pool, integerConstant(constant_pool, i), "Integer")
    BY <1>0, <2>1, integerConstantInterns
  <2> QED BY <1>2, <2>2, HandGood DEF DefineIntegerConstant
<1>3. ASSUME NEW n \in LibraryNames, LookupLibraryFunction(n) PROVE Good
  <2>1. CASE n \in DOMAIN Library
    <3>1. n \in Texts /\ Library[n] \in Texts /\ "Std" \in Texts
      BY <2>1 DEF Texts, ClientTexts, OwnTexts
    <3>2. Interned(constant_pool,
                   methodRefConstant(constant_pool, "Std", n, Library[n]),
                   "Methodref")
      BY <1>0, <3>1, methodRefConstantInterns
    <3>3. Hand(methodRefConstant(constant_pool, "Std", n, Library[n]))
      BY <1>3, <2>1 DEF LookupLibraryFunction
    <3> QED BY <3>2, <3>3, HandGood
  <2>2. CASE n \notin DOMAIN Library
    BY <1>3, <2>2, UnchangedGood DEF LookupLibraryFunction
  <2> QED BY <2>1, <2>2
<1>4. ASSUME NEW f \in handles, NEW args \in Arguments(handles), Call(f, args)
      PROVE  Good
  BY <1>4, CallGood
<1>5. ASSUME NEW f \in Functions, DefineFunction(f[1], f[2]) PROVE Good
  <2>1. f[1] \in Texts /\ f[2] \in Texts
    BY DEF Texts, ClientTexts
  <2> QED BY <1>5, <2>1, DefineFunctionGood
<1>6. ASSUME Emit PROVE Good
  BY <1>6, EmitGood
<1>7. CASE UNCHANGED vars
  BY <1>7, UnchangedGood
<1> QED BY <1>1, <1>2, <1>3, <1>4, <1>5, <1>6, <1>7 DEF Next

-----------------------------------------------------------------------------
(* The theorems.                                                           *)

LEMMA InitTypeOK == Init => TypeOK
<1> SUFFICES ASSUME Init PROVE TypeOK
  OBVIOUS
<1>1. 0 \in Indices
  BY LimitsAssumption DEF Indices
<1>2. file \in [count : Indices, pool : Seq(Entry), this_class : Indices,
                super_class : Indices, methods : Seq(MethodInfo)]
  BY <1>1 DEF Init, NothingWritten
<1>3. constant_pool \in Seq(Entry) /\ methods \in Seq(MethodInfo) /\ block \in Code
  BY DEF Init, Code
<1>4. handles \subseteq DOMAIN constant_pool /\ Len(constant_pool) <= MaxPool
  BY LimitsAssumption DEF Init
<1> QED BY <1>2, <1>3, <1>4, ClientAssumption DEF Init, TypeOK

\* The variables keep their shapes, and a handle is always an entry, at any
\* size of the pool: what emit.h hands out by reference stays valid.
THEOREM TypeCorrect == Spec => []TypeOK
<1>1. TypeOK /\ [Next]_vars => TypeOK'
  BY NextGood DEF Good
<1> QED BY InitTypeOK, <1>1, PTL DEF Spec

\* Adopt appends and nothing else writes to the pool, so an index once taken
\* names the same entry for ever.
THEOREM IndicesStayGood == Spec => PoolOnlyGrows
<1>1. TypeOK /\ [Next]_vars =>
        [/\ Len(constant_pool) <= Len(constant_pool')
         /\ \A i \in DOMAIN constant_pool :
              constant_pool'[i] = constant_pool[i]]_vars
  BY NextGood DEF Good, Kept, Grows
<1> QED BY <1>1, TypeCorrect, PTL DEF Spec, PoolOnlyGrows

LEMMA SoundPool ==
  ASSUME MaxPool < IndexLimit
  PROVE  Spec => [](ReferencesResolve /\ EntriesShared)
<1> DEFINE Inv == TypeOK /\ Sound(constant_pool)
<1>1. Init => Inv
  <2>1. Init => Sound(constant_pool)
    BY DEF Init, Sound, Resolved, Shared
  <2> QED BY <2>1, InitTypeOK
<1>2. Inv /\ [Next]_vars => Inv'
  <2> SUFFICES ASSUME Inv, [Next]_vars PROVE Inv'
    OBVIOUS
  <2>1. TypeOK' /\ Kept(constant_pool, constant_pool')
    BY NextGood DEF Good
  <2>2. Len(constant_pool') < IndexLimit
    BY <2>1, LimitsAssumption DEF TypeOK
  <2>3. Sound(constant_pool)
    OBVIOUS
  <2>4. Sound(constant_pool')
    BY <2>1, <2>2, <2>3 DEF Kept
  <2>5. Sound(constant_pool)'
    BY <2>4 DEF Sound, Resolved, Shared, At
  <2> QED BY <2>1, <2>5
<1>3. Inv => ReferencesResolve /\ EntriesShared
  BY DEF Sound, Resolved, Shared, ReferencesResolve, EntriesShared
<1> QED BY <1>1, <1>2, <1>3, PTL DEF Spec

\* As long as a u2 can count the pool, every reference in it is to an earlier
\* entry of the sort the class file format requires.
THEOREM ReferencesGood ==
  ASSUME MaxPool < IndexLimit
  PROVE  Spec => []ReferencesResolve
<1>1. Spec => [](ReferencesResolve /\ EntriesShared)
  BY SoundPool
<1> QED BY <1>1, PTL

\* As long as a u2 can count the pool, the searches find what is there: only
\* an integer is ever stored twice.
THEOREM SearchesFind ==
  ASSUME MaxPool < IndexLimit
  PROVE  Spec => []EntriesShared
<1>1. Spec => [](ReferencesResolve /\ EntriesShared)
  BY SoundPool
<1> QED BY <1>1, PTL

-----------------------------------------------------------------------------
(* What entries mean.                                                      *)

\* An entry that is in a pool is in every pool it grows to, and means the same.
LEMMA TextStable ==
  ASSUME NEW p \in Seq(Entry), NEW q \in Seq(Entry), Grows(p, q),
         NEW i, At(p, i, "Utf8")
  PROVE  At(q, i, "Utf8") /\ TextAt(q, i) = TextAt(p, i) /\ TextAt(p, i) = p[i].text
  BY DEF Grows, At, TextAt, Deref

\* The references of entries in a sound pool.
LEMMA ReferredTo ==
  ASSUME NEW p \in Seq(Entry), Resolved(p), NEW i
  PROVE  /\ At(p, i, "String") \/ At(p, i, "Class") => At(p, p[i].refs[1], "Utf8")
         /\ At(p, i, "NameAndType") =>
              At(p, p[i].refs[1], "Utf8") /\ At(p, p[i].refs[2], "Utf8")
         /\ At(p, i, "Methodref") =>
              At(p, p[i].refs[1], "Class") /\ At(p, p[i].refs[2], "NameAndType")
<1>1. ASSUME i \in DOMAIN p
      PROVE  /\ Len(p[i].refs) = Len(RefTags[p[i].tag])
             /\ \A j \in DOMAIN p[i].refs : At(p, p[i].refs[j], RefTags[p[i].tag][j])
  BY <1>1 DEF Resolved
<1>2. ASSUME i \in DOMAIN p PROVE DOMAIN p[i].refs = 1 .. Len(p[i].refs)
  BY <1>2 DEF Entry
<1>3. ASSUME At(p, i, "String") \/ At(p, i, "Class") PROVE At(p, p[i].refs[1], "Utf8")
  <2>1. i \in DOMAIN p /\ RefTags[p[i].tag] = <<"Utf8">>
    BY <1>3 DEF At, RefTags
  <2> QED BY <1>1, <1>2, <2>1
<1>4. ASSUME At(p, i, "NameAndType")
      PROVE  At(p, p[i].refs[1], "Utf8") /\ At(p, p[i].refs[2], "Utf8")
  <2>1. i \in DOMAIN p /\ RefTags[p[i].tag] = <<"Utf8", "Utf8">>
    BY <1>4 DEF At, RefTags
  <2> QED BY <1>1, <1>2, <2>1
<1>5. ASSUME At(p, i, "Methodref")
      PROVE  At(p, p[i].refs[1], "Class") /\ At(p, p[i].refs[2], "NameAndType")
  <2>1. i \in DOMAIN p /\ RefTags[p[i].tag] = <<"Class", "NameAndType">>
    BY <1>5 DEF At, RefTags
  <2> QED BY <1>1, <1>2, <2>1
<1> QED BY <1>3, <1>4, <1>5

LEMMA ClassStable ==
  ASSUME NEW p \in Seq(Entry), NEW q \in Seq(Entry), Grows(p, q), Resolved(p),
         NEW i, At(p, i, "Class")
  PROVE  ClassAt(q, i) = ClassAt(p, i) /\ ClassAt(p, i) = TextAt(p, p[i].refs[1])
<1>1. At(p, p[i].refs[1], "Utf8")
  BY ReferredTo
<1>2. TextAt(q, p[i].refs[1]) = TextAt(p, p[i].refs[1])
  BY <1>1, TextStable
<1>3. At(q, i, "Class") /\ q[i] = p[i]
  BY DEF Grows, At
<1> QED BY <1>2, <1>3 DEF ClassAt, Deref

\* The text of the names in a NameAndType.
PartAt(p, i, j) == TextAt(p, p[i].refs[j])

LEMMA PartsStable ==
  ASSUME NEW p \in Seq(Entry), NEW q \in Seq(Entry), Grows(p, q), Resolved(p),
         NEW i, At(p, i, "NameAndType")
  PROVE  PartAt(q, i, 1) = PartAt(p, i, 1) /\ PartAt(q, i, 2) = PartAt(p, i, 2)
<1>1. At(p, p[i].refs[1], "Utf8") /\ At(p, p[i].refs[2], "Utf8")
  BY ReferredTo
<1>2. q[i] = p[i]
  BY DEF Grows, At
<1> QED BY <1>1, <1>2, TextStable DEF PartAt

\* The value of an entry, by its tag.
LEMMA ValueOfString ==
  ASSUME NEW p, NEW i, At(p, i, "String")
  PROVE  ValueAt(p, i) = Abstract!StringValue(TextAt(p, p[i].refs[1]))
<1>1. ~ At(p, i, "Integer") /\ ~ At(p, i, "Methodref")
  BY DEF At
<1> QED BY <1>1 DEF ValueAt, Abstract!StringValue

LEMMA ValueOfInteger ==
  ASSUME NEW p, NEW i, At(p, i, "Integer")
  PROVE  ValueAt(p, i) = Abstract!IntValue(p[i].int)
<1>1. ~ At(p, i, "String") /\ ~ At(p, i, "Methodref")
  BY DEF At
<1> QED BY <1>1 DEF ValueAt, Abstract!IntValue

LEMMA ValueOfMethodref ==
  ASSUME NEW p, NEW i, At(p, i, "Methodref"), At(p, p[i].refs[2], "NameAndType")
  PROVE  ValueAt(p, i) =
           Abstract!Method(ClassAt(p, p[i].refs[1]), PartAt(p, p[i].refs[2], 1),
                           PartAt(p, p[i].refs[2], 2))
<1>1. ~ At(p, i, "String") /\ ~ At(p, i, "Integer")
  BY DEF At
<1>2. Deref(p, i, "Methodref") = p[i]
  BY DEF Deref
<1>3. Deref(p, p[i].refs[2], "NameAndType") = p[p[i].refs[2]]
  BY DEF Deref
<1> QED BY <1>1, <1>2, <1>3 DEF ValueAt, Abstract!Method, PartAt

LEMMA ValueOfOther ==
  ASSUME NEW p, NEW i, ~ At(p, i, "String"), ~ At(p, i, "Integer"), ~ At(p, i, "Methodref")
  PROVE  ValueAt(p, i) = Abstract!NoValue
  BY DEF ValueAt, Abstract!NoValue

\* What an index means is never changed by an entry added to the pool.
LEMMA ValueStable ==
  ASSUME NEW p \in Seq(Entry), NEW q \in Seq(Entry), Grows(p, q), Resolved(p),
         NEW i \in DOMAIN p \cup {0}
  PROVE  ValueAt(q, i) = ValueAt(p, i)
<1>1. 0 \notin DOMAIN p /\ 0 \notin DOMAIN q
  OBVIOUS
<1>2. i \in DOMAIN p => i \in DOMAIN q /\ q[i] = p[i]
  BY DEF Grows
<1>3. \A tag : At(q, i, tag) <=> At(p, i, tag)
  BY <1>1, <1>2 DEF At
<1>4. CASE At(p, i, "String")
  <2>1. At(p, p[i].refs[1], "Utf8")
    BY <1>4, ReferredTo
  <2>2. TextAt(q, q[i].refs[1]) = TextAt(p, p[i].refs[1])
    BY <1>2, <1>4, <2>1, TextStable DEF At
  <2> QED BY <1>3, <1>4, <2>2, ValueOfString
<1>5. CASE At(p, i, "Integer")
  BY <1>2, <1>3, <1>5, ValueOfInteger DEF At
<1>6. CASE At(p, i, "Methodref")
  <2>1. At(p, p[i].refs[1], "Class") /\ At(p, p[i].refs[2], "NameAndType")
    BY <1>6, ReferredTo
  <2>2. q[i] = p[i] /\ At(q, i, "Methodref")
    BY <1>2, <1>3, <1>6 DEF At
  <2>3. At(q, p[i].refs[2], "NameAndType")
    BY <2>1, AtGrows
  <2>4. ClassAt(q, p[i].refs[1]) = ClassAt(p, p[i].refs[1])
    BY <2>1, ClassStable
  <2>5. /\ PartAt(q, p[i].refs[2], 1) = PartAt(p, p[i].refs[2], 1)
        /\ PartAt(q, p[i].refs[2], 2) = PartAt(p, p[i].refs[2], 2)
    BY <2>1, PartsStable
  <2> QED BY <1>6, <2>1, <2>2, <2>3, <2>4, <2>5, ValueOfMethodref
<1>7. CASE ~ At(p, i, "String") /\ ~ At(p, i, "Integer") /\ ~ At(p, i, "Methodref")
  BY <1>3, <1>7, ValueOfOther
<1> QED BY <1>4, <1>5, <1>6, <1>7

-----------------------------------------------------------------------------
(* What the searches return means what was asked for.                      *)

LEMMA utf8ConstantMeans ==
  ASSUME NEW p \in Seq(Entry), NEW t \in Texts
  PROVE  LET u == utf8Constant(p, t) IN
         Kept(p, u.pool) /\ At(u.pool, u.at, "Utf8") /\ TextAt(u.pool, u.at) = t
<1>1. Utf8(t) \in Entry
  BY DEF Utf8, Constant, Entry, Tags
<1>2. PICK u : u = utf8Constant(p, t)
  OBVIOUS
<1>3. u.pool[u.at] = Utf8(t)
  BY <1>1, <1>2, InternFacts DEF utf8Constant
<1>4. Kept(p, u.pool) /\ At(u.pool, u.at, "Utf8")
  BY <1>2, utf8ConstantInterns, InternedKept
<1>5. TextAt(u.pool, u.at) = t
  BY <1>3, <1>4 DEF TextAt, Deref, Utf8, Constant
<1> QED BY <1>2, <1>4, <1>5

\* An entry found or added after others: those are still there.
LEMMA AddedEntry ==
  ASSUME NEW q \in Seq(Entry), NEW c \in Entry
  PROVE  LET r == Intern(q, c) IN
         /\ r.pool \in Seq(Entry) /\ Grows(q, r.pool)
         /\ r.at \in DOMAIN r.pool /\ r.pool[r.at] = c
         /\ Len(q) <= Len(r.pool)
  BY InternFacts DEF Grows

\* The position of an entry is its index, in a pool that a u2 can count.
LEMMA PositionIsIndex ==
  ASSUME NEW q \in Seq(Entry), NEW i, NEW tag, At(q, i, tag), Len(q) < IndexLimit
  PROVE  IndexOf(i) = i
<1>1. i \in Nat /\ i <= Len(q) /\ Len(q) \in Nat
  BY DEF At
<1> QED BY <1>1, IndexOfSmall, LimitsAssumption

LEMMA TextConstantMeans ==
  ASSUME NEW p \in Seq(Entry), NEW t \in Texts, NEW tag \in {"String", "Class"},
         NEW r,
         r = LET u == utf8Constant(p, t) IN
             Intern(u.pool, Constant(tag, "none", 0, <<IndexOf(u.at)>>)),
         Len(r.pool) < IndexLimit
  PROVE  /\ At(r.pool, r.at, tag)
         /\ TextAt(r.pool, r.pool[r.at].refs[1]) = t
<1>1. PICK u : u = utf8Constant(p, t)
  OBVIOUS
<1>2. Kept(p, u.pool) /\ At(u.pool, u.at, "Utf8") /\ TextAt(u.pool, u.at) = t
  BY <1>1, utf8ConstantMeans
<1>3. u.pool \in Seq(Entry)
  BY <1>2 DEF Kept
<1>4. PICK c : c = Constant(tag, "none", 0, <<IndexOf(u.at)>>)
  OBVIOUS
<1>5. c \in Entry
  BY <1>2, <1>3, <1>4, OneReference
<1>6. r = Intern(u.pool, c)
  BY <1>1, <1>4
<1>7. /\ r.pool \in Seq(Entry) /\ Grows(u.pool, r.pool)
      /\ r.at \in DOMAIN r.pool /\ r.pool[r.at] = c /\ Len(u.pool) <= Len(r.pool)
  BY <1>3, <1>5, <1>6, AddedEntry
<1>8. Len(u.pool) < IndexLimit
  BY <1>3, <1>7, LimitsAssumption
<1>9. IndexOf(u.at) = u.at
  BY <1>2, <1>3, <1>8, PositionIsIndex
<1>10. c.tag = tag /\ c.refs[1] = u.at
  BY <1>4, <1>9 DEF Constant
<1>11. TextAt(r.pool, u.at) = t
  BY <1>2, <1>3, <1>7, TextStable
<1> QED BY <1>7, <1>10, <1>11 DEF At

LEMMA stringConstantMeans ==
  ASSUME NEW p \in Seq(Entry), NEW t \in Texts,
         Len(stringConstant(p, t).pool) < IndexLimit
  PROVE  LET r == stringConstant(p, t) IN
         ValueAt(r.pool, r.at) = Abstract!StringValue(t)
<1>1. PICK r : r = stringConstant(p, t)
  OBVIOUS
<1>2. At(r.pool, r.at, "String") /\ TextAt(r.pool, r.pool[r.at].refs[1]) = t
  BY <1>1, TextConstantMeans DEF stringConstant, String
<1> QED BY <1>1, <1>2, ValueOfString

LEMMA integerConstantMeans ==
  ASSUME NEW p \in Seq(Entry), NEW i \in Int
  PROVE  LET r == integerConstant(p, i) IN
         ValueAt(r.pool, r.at) = Abstract!IntValue(i)
<1>1. PICK c : c = Integer(i)
  OBVIOUS
<1>2. c \in Entry /\ c.tag = "Integer" /\ c.int = i
  BY <1>1, EmptyText DEF Integer, Constant, Entry, Tags
<1>3. PICK r : r = integerConstant(p, i)
  OBVIOUS
<1>4. r.at \in DOMAIN r.pool /\ r.pool[r.at] = c
  BY <1>1, <1>2, <1>3, AddedEntry DEF integerConstant
<1>5. At(r.pool, r.at, "Integer") /\ r.pool[r.at].int = i
  BY <1>2, <1>4 DEF At
<1> QED BY <1>3, <1>5, ValueOfInteger

LEMMA classConstantMeans ==
  ASSUME NEW p \in Seq(Entry), NEW t \in Texts,
         Len(classConstant(p, t).pool) < IndexLimit
  PROVE  LET r == classConstant(p, t) IN ClassAt(r.pool, r.at) = t
<1>1. PICK r : r = classConstant(p, t)
  OBVIOUS
<1>2. At(r.pool, r.at, "Class") /\ TextAt(r.pool, r.pool[r.at].refs[1]) = t
  BY <1>1, TextConstantMeans DEF classConstant, Class
<1>3. ClassAt(r.pool, r.at) = TextAt(r.pool, r.pool[r.at].refs[1])
  BY <1>2 DEF ClassAt, Deref
<1> QED BY <1>1, <1>2, <1>3

\* Two entries and one that refers to both.
LEMMA PairMeans ==
  ASSUME NEW q \in Seq(Entry), NEW a, NEW b, NEW t1, NEW t2, NEW tag \in Tags,
         At(q, a, t1), At(q, b, t2), NEW r,
         r = Intern(q, Constant(tag, "none", 0, <<IndexOf(a), IndexOf(b)>>)),
         Len(r.pool) < IndexLimit
  PROVE  /\ r.pool \in Seq(Entry) /\ Grows(q, r.pool) /\ At(r.pool, r.at, tag)
         /\ r.pool[r.at].refs[1] = a /\ r.pool[r.at].refs[2] = b
<1>1. IndexOf(a) \in Indices /\ IndexOf(b) \in Indices
  BY IndexAt
<1>2. PICK refs \in Seq(Indices) : refs = <<IndexOf(a), IndexOf(b)>>
  BY <1>1, TuplesAreSequences
<1>3. PICK c : c = [tag |-> tag, text |-> "none", int |-> 0, refs |-> refs]
  OBVIOUS
<1>4. c \in Entry /\ r = Intern(q, c)
  BY <1>2, <1>3, EmptyText DEF Entry, Constant
<1>5. /\ r.pool \in Seq(Entry) /\ Grows(q, r.pool)
      /\ r.at \in DOMAIN r.pool /\ r.pool[r.at] = c /\ Len(q) <= Len(r.pool)
  BY <1>4, AddedEntry
<1>6. Len(q) < IndexLimit
  BY <1>5, LimitsAssumption
<1>7. IndexOf(a) = a /\ IndexOf(b) = b
  BY <1>6, PositionIsIndex
<1>8. c.tag = tag /\ c.refs[1] = a /\ c.refs[2] = b
  BY <1>2, <1>3, <1>7
<1> QED BY <1>5, <1>8 DEF At

LEMMA nameAndTypeConstantMeans ==
  ASSUME NEW p \in Seq(Entry), NEW n \in Texts, NEW d \in Texts,
         Len(nameAndTypeConstant(p, n, d).pool) < IndexLimit
  PROVE  LET r == nameAndTypeConstant(p, n, d) IN
         PartAt(r.pool, r.at, 1) = n /\ PartAt(r.pool, r.at, 2) = d
<1>1. PICK u, v : u = utf8Constant(p, n) /\ v = utf8Constant(u.pool, d)
  OBVIOUS
<1>2. Kept(p, u.pool) /\ At(u.pool, u.at, "Utf8") /\ TextAt(u.pool, u.at) = n
  BY <1>1, utf8ConstantMeans
<1>3. u.pool \in Seq(Entry)
  BY <1>2 DEF Kept
<1>4. Kept(u.pool, v.pool) /\ At(v.pool, v.at, "Utf8") /\ TextAt(v.pool, v.at) = d
  BY <1>1, <1>3, utf8ConstantMeans
<1>5. v.pool \in Seq(Entry) /\ Grows(u.pool, v.pool)
  BY <1>4 DEF Kept
<1>6. At(v.pool, u.at, "Utf8") /\ TextAt(v.pool, u.at) = n
  BY <1>2, <1>3, <1>5, TextStable
<1>7. PICK r : r = nameAndTypeConstant(p, n, d)
  OBVIOUS
<1>8. r = Intern(v.pool, Constant("NameAndType", "none", 0,
                                  <<IndexOf(u.at), IndexOf(v.at)>>))
  BY <1>1, <1>7 DEF nameAndTypeConstant, NameAndType
<1>9. "NameAndType" \in Tags
  BY DEF Tags
<1>10. /\ r.pool \in Seq(Entry) /\ Grows(v.pool, r.pool)
       /\ r.pool[r.at].refs[1] = u.at /\ r.pool[r.at].refs[2] = v.at
  BY <1>4, <1>5, <1>6, <1>7, <1>8, <1>9, PairMeans
<1>11. TextAt(r.pool, u.at) = n /\ TextAt(r.pool, v.at) = d
  BY <1>4, <1>5, <1>6, <1>10, TextStable
<1> QED BY <1>7, <1>10, <1>11 DEF PartAt

LEMMA methodRefConstantMeans ==
  ASSUME NEW p \in Seq(Entry), Sound(p),
         NEW c \in Texts, NEW n \in Texts, NEW d \in Texts,
         Len(methodRefConstant(p, c, n, d).pool) < IndexLimit
  PROVE  LET r == methodRefConstant(p, c, n, d) IN
         ValueAt(r.pool, r.at) = Abstract!Method(c, n, d)
<1>1. PICK k, m : k = classConstant(p, c) /\ m = nameAndTypeConstant(k.pool, n, d)
  OBVIOUS
<1>2. Kept(p, k.pool) /\ At(k.pool, k.at, "Class")
  BY <1>1, classConstantInterns, InternedKept
<1>3. k.pool \in Seq(Entry)
  BY <1>2 DEF Kept
<1>4. Kept(k.pool, m.pool) /\ At(m.pool, m.at, "NameAndType")
  BY <1>1, <1>3, nameAndTypeConstantInterns, InternedKept
<1>5. m.pool \in Seq(Entry) /\ Grows(k.pool, m.pool)
  BY <1>4 DEF Kept
<1>6. At(m.pool, k.at, "Class")
  BY <1>2, <1>3, <1>5, AtGrows
<1>7. PICK r : r = methodRefConstant(p, c, n, d)
  OBVIOUS
<1>8. r = Intern(m.pool, Constant("Methodref", "none", 0,
                                  <<IndexOf(k.at), IndexOf(m.at)>>))
  BY <1>1, <1>7 DEF methodRefConstant, Methodref
<1>9. "Methodref" \in Tags
  BY DEF Tags
<1>10. /\ r.pool \in Seq(Entry) /\ Grows(m.pool, r.pool) /\ At(r.pool, r.at, "Methodref")
       /\ r.pool[r.at].refs[1] = k.at /\ r.pool[r.at].refs[2] = m.at
  BY <1>4, <1>5, <1>6, <1>7, <1>8, <1>9, PairMeans
<1>11. /\ Len(k.pool) < IndexLimit /\ Len(m.pool) < IndexLimit
  BY <1>3, <1>5, <1>7, <1>10, LimitsAssumption DEF Grows
<1>12. Resolved(k.pool) /\ Resolved(m.pool)
  BY <1>2, <1>4, <1>11 DEF Kept, Sound
<1>13. ClassAt(k.pool, k.at) = c
  BY <1>1, <1>11, classConstantMeans
<1>14. PartAt(m.pool, m.at, 1) = n /\ PartAt(m.pool, m.at, 2) = d
  BY <1>1, <1>3, <1>11, nameAndTypeConstantMeans
<1>15. Grows(k.pool, r.pool)
  BY <1>3, <1>5, <1>10, GrowsTransitive
<1>16. ClassAt(r.pool, k.at) = c
  BY <1>2, <1>3, <1>10, <1>12, <1>13, <1>15, ClassStable
<1>17. PartAt(r.pool, m.at, 1) = n /\ PartAt(r.pool, m.at, 2) = d
  BY <1>4, <1>5, <1>10, <1>12, <1>14, PartsStable
<1>18. At(r.pool, m.at, "NameAndType")
  BY <1>4, <1>5, <1>10, AtGrows
<1>19. ValueAt(r.pool, r.at) = Abstract!Method(c, n, d)
  BY <1>10, <1>16, <1>17, <1>18, ValueOfMethodref
<1> QED BY <1>7, <1>19

-----------------------------------------------------------------------------
(* What code and methods mean.                                             *)

CodeGood(p, code) == \A j \in DOMAIN code : code[j].operand \in DOMAIN p \cup {0}

MethodGood(p, m) ==
  /\ At(p, m.name, "Utf8") /\ At(p, m.descriptor, "Utf8")
  /\ At(p, m.code_name, "Utf8") /\ TextAt(p, m.code_name) = "Code"
  /\ CodeGood(p, m.code)

\* A method of module Program.
MethodMeaning(p, m) ==
  [name |-> TextAt(p, m.name),
   descriptor |-> TextAt(p, m.descriptor),
   body |-> IF TextAt(p, m.code_name) = "Code" THEN Symbolic(p, m.code) ELSE <<>>]

LEMMA MethodsOneByOne ==
  ASSUME NEW p, NEW ms
  PROVE  SymbolicMethods(p, ms) = [j \in DOMAIN ms |-> MethodMeaning(p, ms[j])]
  BY DEF SymbolicMethods, MethodMeaning

InstructionMeaning(p, i) ==
  [op |-> IF i.op \in {"ldc", "ldc_w"} THEN "push" ELSE i.op,
   what |-> ValueAt(p, i.operand)]

LEMMA CodeOneByOne ==
  ASSUME NEW p, NEW code
  PROVE  Symbolic(p, code) = [j \in DOMAIN code |-> InstructionMeaning(p, code[j])]
  BY DEF Symbolic, InstructionMeaning

LEMMA CodeStable ==
  ASSUME NEW p \in Seq(Entry), NEW q \in Seq(Entry), Grows(p, q), Resolved(p),
         NEW code, CodeGood(p, code)
  PROVE  CodeGood(q, code) /\ Symbolic(q, code) = Symbolic(p, code)
<1>1. DOMAIN p \subseteq DOMAIN q
  BY DEF Grows
<1>2. CodeGood(q, code)
  BY <1>1 DEF CodeGood
<1>3. ASSUME NEW j \in DOMAIN code
      PROVE  InstructionMeaning(q, code[j]) = InstructionMeaning(p, code[j])
  <2>1. PICK o \in DOMAIN p \cup {0} : o = code[j].operand
    BY DEF CodeGood
  <2>2. ValueAt(q, o) = ValueAt(p, o)
    BY ValueStable
  <2> QED BY <2>1, <2>2 DEF InstructionMeaning
<1> QED BY <1>2, <1>3, CodeOneByOne

LEMMA MethodStable ==
  ASSUME NEW p \in Seq(Entry), NEW q \in Seq(Entry), Grows(p, q), Resolved(p),
         NEW m, MethodGood(p, m)
  PROVE  MethodGood(q, m) /\ MethodMeaning(q, m) = MethodMeaning(p, m)
<1>1. CodeGood(q, m.code) /\ Symbolic(q, m.code) = Symbolic(p, m.code)
  BY CodeStable DEF MethodGood
<1>2. /\ At(q, m.name, "Utf8") /\ TextAt(q, m.name) = TextAt(p, m.name)
      /\ At(q, m.descriptor, "Utf8") /\ TextAt(q, m.descriptor) = TextAt(p, m.descriptor)
      /\ At(q, m.code_name, "Utf8") /\ TextAt(q, m.code_name) = TextAt(p, m.code_name)
  BY TextStable DEF MethodGood
<1> QED BY <1>1, <1>2 DEF MethodGood, MethodMeaning

\* The method that is added for a function names it and has its code.
LEMMA NewMethodMeans ==
  ASSUME NEW p \in Seq(Entry), Sound(p), NEW n \in Texts, NEW d \in Texts,
         NEW code, CodeGood(p, code),
         Len(NewMethod(p, n, d, code).pool) < IndexLimit
  PROVE  LET new == NewMethod(p, n, d, code) IN
         /\ MethodGood(new.pool, new.method)
         /\ MethodMeaning(new.pool, new.method) =
              [name |-> n, descriptor |-> d, body |-> Symbolic(p, code)]
         /\ new.method.code = code
<1>1. PICK u, v, w : /\ u = utf8Constant(p, n)
                     /\ v = utf8Constant(u.pool, d)
                     /\ w = utf8Constant(v.pool, "Code")
  OBVIOUS
<1>2. PICK new : new = NewMethod(p, n, d, code)
  OBVIOUS
<1>3. /\ new.pool = w.pool
      /\ new.method = [name |-> IndexOf(u.at), descriptor |-> IndexOf(v.at),
                       code_name |-> IndexOf(w.at), code |-> code]
  BY <1>1, <1>2 DEF NewMethod
<1>4. Kept(p, u.pool) /\ At(u.pool, u.at, "Utf8") /\ TextAt(u.pool, u.at) = n
  BY <1>1, utf8ConstantMeans
<1>5. u.pool \in Seq(Entry) /\ Grows(p, u.pool)
  BY <1>4 DEF Kept
<1>6. Kept(u.pool, v.pool) /\ At(v.pool, v.at, "Utf8") /\ TextAt(v.pool, v.at) = d
  BY <1>1, <1>5, utf8ConstantMeans
<1>7. v.pool \in Seq(Entry) /\ Grows(u.pool, v.pool)
  BY <1>6 DEF Kept
<1>8. "Code" \in Texts
  BY DEF Texts, OwnTexts
<1>9. Kept(v.pool, w.pool) /\ At(w.pool, w.at, "Utf8") /\ TextAt(w.pool, w.at) = "Code"
  BY <1>1, <1>7, <1>8, utf8ConstantMeans
<1>10. w.pool \in Seq(Entry) /\ Grows(v.pool, w.pool)
  BY <1>9 DEF Kept
<1>11. Grows(u.pool, w.pool) /\ Grows(p, w.pool)
  BY <1>5, <1>7, <1>10, GrowsTransitive
<1>12. /\ At(w.pool, u.at, "Utf8") /\ TextAt(w.pool, u.at) = n
       /\ At(w.pool, v.at, "Utf8") /\ TextAt(w.pool, v.at) = d
  BY <1>4, <1>5, <1>6, <1>7, <1>10, <1>11, TextStable
<1>13. IndexOf(u.at) = u.at /\ IndexOf(v.at) = v.at /\ IndexOf(w.at) = w.at
  BY <1>2, <1>3, <1>9, <1>10, <1>12, PositionIsIndex
<1>14. CodeGood(w.pool, code) /\ Symbolic(w.pool, code) = Symbolic(p, code)
  BY <1>10, <1>11, CodeStable DEF Sound
<1>15. /\ new.method.name = u.at /\ new.method.descriptor = v.at
       /\ new.method.code_name = w.at /\ new.method.code = code
  BY <1>3, <1>13
<1>16. MethodGood(new.pool, new.method)
  BY <1>3, <1>9, <1>12, <1>14, <1>15 DEF MethodGood
<1>17. MethodMeaning(new.pool, new.method) =
         [name |-> n, descriptor |-> d, body |-> Symbolic(p, code)]
  BY <1>3, <1>9, <1>12, <1>14, <1>15 DEF MethodMeaning
<1> QED BY <1>2, <1>15, <1>16, <1>17

ConstructorCode(object) ==
  <<Instruction("aload_0", 0), Instruction("invokespecial", IndexOf(object)),
    Instruction("return", 0)>>

\* The code of the constructor calls that of java.lang.Object.
LEMMA ConstructorCodeMeans ==
  ASSUME NEW p \in Seq(Entry), NEW i, At(p, i, "Methodref"), Len(p) < IndexLimit,
         ValueAt(p, i) = Abstract!Method("java/lang/Object", "<init>", "()V")
  PROVE  /\ CodeGood(p, ConstructorCode(i))
         /\ Symbolic(p, ConstructorCode(i)) = Abstract!Constructor.body
<1>1. IndexOf(i) = i
  BY PositionIsIndex
<1>2. i \in DOMAIN p
  BY DEF At
<1>3. DOMAIN ConstructorCode(i) = {1, 2, 3}
  BY DEF ConstructorCode
<1>4. /\ ConstructorCode(i)[1] = [op |-> "aload_0", operand |-> 0]
      /\ ConstructorCode(i)[2] = [op |-> "invokespecial", operand |-> i]
      /\ ConstructorCode(i)[3] = [op |-> "return", operand |-> 0]
  BY <1>1 DEF ConstructorCode, Instruction
<1>5. CodeGood(p, ConstructorCode(i))
  BY <1>2, <1>3, <1>4 DEF CodeGood
<1>6. 0 \notin DOMAIN p
  OBVIOUS
<1>7. ValueAt(p, 0) = Abstract!NoValue
  BY <1>6, ValueOfOther DEF At
<1>8. PICK s : s = Symbolic(p, ConstructorCode(i))
  OBVIOUS
<1>9. s = [j \in {1, 2, 3} |-> InstructionMeaning(p, ConstructorCode(i)[j])]
  BY <1>3, <1>8, CodeOneByOne
<1>10. PICK v : v = Abstract!Method("java/lang/Object", "<init>", "()V")
  OBVIOUS
<1>11. /\ s[1] = [op |-> "aload_0", what |-> Abstract!NoValue]
       /\ s[2] = [op |-> "invokespecial", what |-> v]
       /\ s[3] = [op |-> "return", what |-> Abstract!NoValue]
  BY <1>4, <1>7, <1>9, <1>10 DEF InstructionMeaning
<1>12. Abstract!Constructor.body =
         <<[op |-> "aload_0", what |-> Abstract!NoValue],
           [op |-> "invokespecial", what |-> v],
           [op |-> "return", what |-> Abstract!NoValue]>>
  BY <1>10 DEF Abstract!Constructor
<1>13. s = Abstract!Constructor.body
  BY <1>9, <1>11, <1>12
<1> QED BY <1>5, <1>8, <1>13

LEMMA NewConstructorMeans ==
  ASSUME NEW p \in Seq(Entry), Sound(p), Len(NewConstructor(p).pool) < IndexLimit
  PROVE  LET new == NewConstructor(p) IN
         /\ MethodGood(new.pool, new.method)
         /\ MethodMeaning(new.pool, new.method) = Abstract!Constructor
<1>1. PICK o : o = methodRefConstant(p, "java/lang/Object", "<init>", "()V")
  OBVIOUS
<1>2. /\ "java/lang/Object" \in Texts /\ "<init>" \in Texts /\ "()V" \in Texts
  BY DEF Texts, OwnTexts
<1>3. Kept(p, o.pool) /\ At(o.pool, o.at, "Methodref")
  BY <1>1, <1>2, methodRefConstantInterns, InternedKept
<1>4. o.pool \in Seq(Entry)
  BY <1>3 DEF Kept
<1>5. PICK code : code = ConstructorCode(o.at)
  OBVIOUS
<1>6. NewConstructor(p) = NewMethod(o.pool, "<init>", "()V", code)
  BY <1>1, <1>5 DEF NewConstructor, ConstructorCode
<1>7. code \in Code
  <2> DEFINE I == [op : Opcodes, operand : Indices]
  <2>1. IndexOf(o.at) \in Indices /\ 0 \in Indices
    BY <1>3, <1>4, IndexInRange, LimitsAssumption DEF Indices
  <2>2. /\ Instruction("aload_0", 0) \in I /\ Instruction("return", 0) \in I
        /\ Instruction("invokespecial", IndexOf(o.at)) \in I
    BY <2>1 DEF Instruction, Opcodes
  <2> HIDE DEF I
  <2>3. code \in Seq(I)
    BY <1>5, <2>2 DEF ConstructorCode
  <2> QED BY <2>3 DEF I, Code
<1>8. Kept(o.pool, NewConstructor(p).pool)
  BY <1>2, <1>4, <1>6, <1>7, NewMethodFacts
<1>9. Len(o.pool) < IndexLimit
  BY <1>4, <1>8, LimitsAssumption DEF Kept, Grows
<1>10. Sound(o.pool)
  BY <1>3, <1>9 DEF Kept
<1>11. ValueAt(o.pool, o.at) = Abstract!Method("java/lang/Object", "<init>", "()V")
  BY <1>1, <1>2, <1>9, methodRefConstantMeans
<1>12. CodeGood(o.pool, code) /\ Symbolic(o.pool, code) = Abstract!Constructor.body
  BY <1>3, <1>4, <1>5, <1>9, <1>11, ConstructorCodeMeans
<1>13. PICK new : new = NewConstructor(p)
  OBVIOUS
<1>14. /\ MethodGood(new.pool, new.method)
       /\ MethodMeaning(new.pool, new.method) =
            [name |-> "<init>", descriptor |-> "()V", body |-> Symbolic(o.pool, code)]
  BY <1>2, <1>4, <1>6, <1>10, <1>12, <1>13, NewMethodMeans
<1>15. Abstract!Constructor =
         [name |-> "<init>", descriptor |-> "()V", body |-> Abstract!Constructor.body]
  BY DEF Abstract!Constructor
<1> QED BY <1>12, <1>13, <1>14, <1>15

-----------------------------------------------------------------------------
(* Lists of what code and methods mean.                                    *)

LEMMA ListAppend ==
  ASSUME NEW A, NEW B, NEW s \in Seq(A), NEW a \in A, NEW t, NEW b \in B,
         t \in [DOMAIN s -> B],
         NEW u, DOMAIN u = DOMAIN Append(s, a),
         \A j \in DOMAIN s : u[j] = t[j], u[Len(s) + 1] = b,
         u = [j \in DOMAIN u |-> u[j]]
  PROVE  u = Append(t, b)
<1>1. DOMAIN s = 1 .. Len(s) /\ Len(s) \in Nat
  OBVIOUS
<1>2. t \in Seq(B) /\ Len(t) = Len(s) /\ DOMAIN t = 1 .. Len(s)
  BY <1>1
<1>3. PICK w : w = Append(t, b)
  OBVIOUS
<1>4. /\ w \in Seq(B) /\ Len(w) = Len(s) + 1
      /\ \A j \in 1 .. Len(s) : w[j] = t[j]
      /\ w[Len(s) + 1] = b
  BY <1>2, <1>3, AppendProperties
<1>5. DOMAIN w = 1 .. Len(s) + 1 /\ w = [j \in DOMAIN w |-> w[j]]
  BY <1>1, <1>4
<1>6. DOMAIN u = 1 .. Len(s) + 1
  <2>1. Append(s, a) \in Seq(A) /\ Len(Append(s, a)) = Len(s) + 1
    BY AppendProperties
  <2> QED BY <2>1
<1>7. \A j \in 1 .. Len(s) + 1 : u[j] = w[j]
  BY <1>1, <1>4
<1> QED BY <1>3, <1>5, <1>6, <1>7

LEMMA MethodsAppend ==
  ASSUME NEW p, NEW ms \in Seq(MethodInfo), NEW m \in MethodInfo
  PROVE  SymbolicMethods(p, Append(ms, m)) =
           Append(SymbolicMethods(p, ms), MethodMeaning(p, m))
<1> DEFINE B == {MethodMeaning(p, x) : x \in MethodInfo}
<1>1. PICK t : t = SymbolicMethods(p, ms)
  OBVIOUS
<1>2. t = [j \in DOMAIN ms |-> MethodMeaning(p, ms[j])]
  BY <1>1, MethodsOneByOne
<1>3. PICK u : u = SymbolicMethods(p, Append(ms, m))
  OBVIOUS
<1>4. u = [j \in DOMAIN Append(ms, m) |-> MethodMeaning(p, Append(ms, m)[j])]
  BY <1>3, MethodsOneByOne
<1>5. \A j \in DOMAIN ms : ms[j] \in MethodInfo
  OBVIOUS
<1>6. MethodMeaning(p, m) \in B /\ t \in [DOMAIN ms -> B]
  BY <1>2, <1>5
<1>7. /\ Append(ms, m) \in Seq(MethodInfo) /\ Len(Append(ms, m)) = Len(ms) + 1
      /\ \A j \in 1 .. Len(ms) : Append(ms, m)[j] = ms[j]
      /\ Append(ms, m)[Len(ms) + 1] = m
  BY AppendProperties
<1>8. /\ DOMAIN ms = 1 .. Len(ms) /\ DOMAIN Append(ms, m) = 1 .. Len(ms) + 1
      /\ Len(ms) \in Nat
  BY <1>7
<1>9. /\ \A j \in DOMAIN ms : u[j] = t[j]
      /\ u[Len(ms) + 1] = MethodMeaning(p, m)
  BY <1>2, <1>4, <1>7, <1>8
<1>10. DOMAIN u = DOMAIN Append(ms, m) /\ u = [j \in DOMAIN u |-> u[j]]
  BY <1>4
<1> HIDE DEF B
<1> QED BY <1>1, <1>3, <1>6, <1>9, <1>10, ListAppend

\* A call's code: its pushes and the call itself.
LEMMA CallMeans ==
  ASSUME NEW p, NEW code \in Code, NEW n \in Nat, NEW pushes \in Code,
         Len(pushes) = n, NEW i \in [op : Opcodes, operand : Indices]
  PROVE  Symbolic(p, Append(code \o pushes, i)) =
           Append(Symbolic(p, code) \o [j \in 1 .. n |-> InstructionMeaning(p, pushes[j])],
                  InstructionMeaning(p, i))
<1> DEFINE I == [op : Opcodes, operand : Indices]
           B == {InstructionMeaning(p, x) : x \in I}
<1>1. PICK s : s = Symbolic(p, code)
  OBVIOUS
<1>2. PICK w : w = [j \in 1 .. n |-> InstructionMeaning(p, pushes[j])]
  OBVIOUS
<1>3. PICK k : k = code \o pushes
  OBVIOUS
<1>4. PICK u : u = Symbolic(p, Append(k, i))
  OBVIOUS
<1>5. /\ s = [j \in DOMAIN code |-> InstructionMeaning(p, code[j])]
      /\ u = [j \in DOMAIN Append(k, i) |-> InstructionMeaning(p, Append(k, i)[j])]
  BY <1>1, <1>4, CodeOneByOne
<1>6. code \in Seq(I) /\ pushes \in Seq(I) /\ i \in I
  BY DEF Code
<1>7. \A x \in I : InstructionMeaning(p, x) \in B
  OBVIOUS
<1> HIDE DEF I, B
<1>8. /\ k \in Seq(I) /\ Len(k) = Len(code) + n
      /\ \A j \in 1 .. Len(code) : k[j] = code[j]
      /\ \A j \in Len(code) + 1 .. Len(code) + n : k[j] = pushes[j - Len(code)]
  BY <1>3, <1>6, ConcatProperties
<1>9. /\ Len(code) \in Nat /\ DOMAIN code = 1 .. Len(code) /\ DOMAIN pushes = 1 .. n
      /\ \A j \in 1 .. Len(code) : code[j] \in I
      /\ \A j \in 1 .. n : pushes[j] \in I
  BY <1>6
<1>10. s \in Seq(B) /\ Len(s) = Len(code) /\ w \in Seq(B) /\ Len(w) = n
  BY <1>2, <1>5, <1>7, <1>9
<1>11. PICK t : t = s \o w
  OBVIOUS
<1>12. /\ t \in Seq(B) /\ Len(t) = Len(code) + n
       /\ \A j \in 1 .. Len(code) : t[j] = s[j]
       /\ \A j \in Len(code) + 1 .. Len(code) + n : t[j] = w[j - Len(code)]
  <2>1. /\ t \in Seq(B) /\ Len(t) = Len(s) + Len(w)
        /\ \A j \in 1 .. Len(s) + Len(w) :
             t[j] = IF j <= Len(s) THEN s[j] ELSE w[j - Len(s)]
    BY <1>10, <1>11, ConcatProperties
  <2> QED BY <1>9, <1>10, <2>1
<1>13. /\ Append(k, i) \in Seq(I) /\ Len(Append(k, i)) = Len(k) + 1
       /\ \A j \in 1 .. Len(k) : Append(k, i)[j] = k[j]
       /\ Append(k, i)[Len(k) + 1] = i
  BY <1>6, <1>8, AppendProperties
<1>14. DOMAIN k = 1 .. Len(k) /\ DOMAIN Append(k, i) = 1 .. Len(k) + 1 /\ Len(k) \in Nat
  BY <1>8, <1>13
<1>15. \A j \in DOMAIN k : u[j] = t[j]
  <2> SUFFICES ASSUME NEW j \in DOMAIN k PROVE u[j] = t[j]
    OBVIOUS
  <2>1. u[j] = InstructionMeaning(p, k[j])
    BY <1>5, <1>13, <1>14
  <2>2. CASE j \in 1 .. Len(code)
    BY <1>5, <1>8, <1>9, <1>12, <2>1, <2>2
  <2>3. CASE j \in Len(code) + 1 .. Len(code) + n
    <3>1. j - Len(code) \in 1 .. n
      BY <1>9, <2>3
    <3>2. t[j] = InstructionMeaning(p, pushes[j - Len(code)])
      BY <1>2, <1>12, <2>3, <3>1
    <3> QED BY <1>8, <2>1, <2>3, <3>2
  <2> QED BY <1>8, <1>9, <1>14, <2>2, <2>3
<1>16. u[Len(k) + 1] = InstructionMeaning(p, i)
  BY <1>5, <1>13, <1>14
<1>17. t \in [DOMAIN k -> B]
  BY <1>8, <1>12, <1>14
<1>18. DOMAIN u = DOMAIN Append(k, i) /\ u = [j \in DOMAIN u |-> u[j]]
  BY <1>5
<1>19. u = Append(t, InstructionMeaning(p, i))
  BY <1>6, <1>7, <1>8, <1>15, <1>16, <1>17, <1>18, ListAppend
<1> QED BY <1>1, <1>2, <1>3, <1>4, <1>11, <1>19

-----------------------------------------------------------------------------
(* The refinement.                                                         *)

Known == {ValueAt(constant_pool, h) : h \in handles}
Block == Symbolic(constant_pool, block)
Methods == SymbolicMethods(constant_pool, methods)

NotConstructor(m) == \A j \in DOMAIN m.code : m.code[j].op # "aload_0"

\* Every index written so far leads to what it was written for, and the only
\* constructor is the one Emit has added.
ProgramInv ==
  /\ TypeOK
  /\ Sound(constant_pool)
  /\ CodeGood(constant_pool, block)
  /\ \A j \in DOMAIN block : block[j].op # "aload_0"
  /\ \A i \in DOMAIN methods : MethodGood(constant_pool, methods[i])
  /\ emits = 0 => \A i \in DOMAIN methods : NotConstructor(methods[i])

\* Growing the pool changes nothing for the client.
LEMMA GrowthUnseen ==
  ASSUME ProgramInv, NEW q \in Seq(Entry), Grows(constant_pool, q)
  PROVE  /\ \A h \in handles : ValueAt(q, h) = ValueAt(constant_pool, h)
         /\ CodeGood(q, block) /\ Symbolic(q, block) = Block
         /\ \A i \in DOMAIN methods : MethodGood(q, methods[i])
         /\ SymbolicMethods(q, methods) = Methods
<1>1. constant_pool \in Seq(Entry) /\ Resolved(constant_pool)
  BY DEF ProgramInv, TypeOK, Sound
<1>2. ASSUME NEW h \in handles PROVE ValueAt(q, h) = ValueAt(constant_pool, h)
  <2>1. h \in DOMAIN constant_pool \cup {0}
    BY DEF ProgramInv, TypeOK
  <2> QED BY <1>1, <2>1, ValueStable
<1>3. CodeGood(q, block) /\ Symbolic(q, block) = Block
  BY <1>1, CodeStable DEF ProgramInv, Block
<1>4. ASSUME NEW i \in DOMAIN methods
      PROVE  /\ MethodGood(q, methods[i])
             /\ MethodMeaning(q, methods[i]) = MethodMeaning(constant_pool, methods[i])
  BY <1>1, MethodStable DEF ProgramInv
<1>5. SymbolicMethods(q, methods) = Methods
  BY <1>4, MethodsOneByOne DEF Methods
<1> QED BY <1>2, <1>3, <1>4, <1>5

\* What the client is handed has the value it asked for.
LEMMA HandMeans ==
  ASSUME ProgramInv, NEW r, NEW tag, Interned(constant_pool, r, tag), Hand(r),
         NEW v, ValueAt(r.pool, r.at) = v
  PROVE  /\ Known' = Known \cup {v}
         /\ Block' = Block /\ Methods' = Methods /\ SymbolicFile' = SymbolicFile
<1>1. r.pool \in Seq(Entry) /\ Grows(constant_pool, r.pool)
  BY DEF Interned
<1>2. /\ constant_pool' = r.pool /\ handles' = handles \cup {r.at}
      /\ methods' = methods /\ block' = block /\ file' = file
  BY DEF Hand
<1>3. /\ \A h \in handles : ValueAt(r.pool, h) = ValueAt(constant_pool, h)
      /\ Symbolic(r.pool, block) = Block
      /\ SymbolicMethods(r.pool, methods) = Methods
  BY <1>1, GrowthUnseen
<1>4. Known' = {ValueAt(r.pool, h) : h \in handles \cup {r.at}}
  BY <1>2 DEF Known
<1>5. Known' = Known \cup {v}
  BY <1>3, <1>4 DEF Known
<1>6. Block' = Block /\ Methods' = Methods
  BY <1>2, <1>3 DEF Block, Methods
<1>7. SymbolicFile' = SymbolicFile
  BY <1>2 DEF SymbolicFile
<1> QED BY <1>5, <1>6, <1>7

\* The pools an operation goes on from fit a u2.
LEMMA SmallPool ==
  ASSUME MaxPool + 1 < IndexLimit, NEW p \in Seq(Entry), Len(p) <= MaxPool
  PROVE  Len(p) < IndexLimit /\ Len(p) + 1 < IndexLimit
  BY LimitsAssumption

LEMMA CallRefines ==
  ASSUME ProgramInv, MaxPool + 1 < IndexLimit,
         NEW f \in handles, NEW args \in Arguments(handles), Call(f, args)
  PROVE  \E g \in Known, as \in Abstract!Arguments(Known) : Abstract!Call(g, as)
<1>1. PICK n \in 0 .. MaxArguments : args \in [1 .. n -> handles]
  BY DEF Arguments
<1>2. n \in Nat
  BY <1>1, ClientAssumption
<1>3. PICK p : p = constant_pool
  OBVIOUS
<1>4. /\ p \in Seq(Entry) /\ Len(p) < IndexLimit /\ handles \subseteq DOMAIN p
      /\ block \in Code
  BY <1>3, SmallPool DEF ProgramInv, TypeOK
<1>5. ASSUME NEW h \in handles PROVE IndexOf(h) = h /\ h \in Indices /\ h \in DOMAIN p
  <2>1. h \in Nat /\ h <= Len(p) /\ h \in DOMAIN p
    BY <1>4
  <2> QED BY <1>4, <2>1, IndexOfSmall, LimitsAssumption DEF Indices
<1>6. ASSUME NEW h \in handles
      PROVE  /\ Push(h) \in [op : Opcodes, operand : Indices]
             /\ Invoke(h) \in [op : Opcodes, operand : Indices]
             /\ InstructionMeaning(p, Push(h)) = Abstract!PushOf(ValueAt(p, h))
             /\ InstructionMeaning(p, Invoke(h)) = Abstract!InvokeOf(ValueAt(p, h))
  <2>1. IndexOf(h) = h /\ h \in Indices
    BY <1>5
  <2>2. h < ByteLimit => h % ByteLimit = h
    BY <2>1, LimitsAssumption DEF Indices
  <2>3. Push(h) = [op |-> IF h < ByteLimit THEN "ldc" ELSE "ldc_w", operand |-> h]
    BY <2>1, <2>2 DEF Push, Instruction
  <2>4. Invoke(h) = [op |-> "invokestatic", operand |-> h]
    BY <2>1 DEF Invoke, Instruction
  <2> QED BY <2>1, <2>3, <2>4
          DEF Opcodes, InstructionMeaning, Abstract!PushOf, Abstract!InvokeOf
<1>7. PICK pushes : pushes = [j \in DOMAIN args |-> Push(args[j])]
  OBVIOUS
<1>8. DOMAIN args = 1 .. n /\ \A j \in 1 .. n : args[j] \in handles
  BY <1>1
<1>9. pushes \in Code /\ Len(pushes) = n
  <2> DEFINE I == [op : Opcodes, operand : Indices]
  <2>1. \A j \in 1 .. n : Push(args[j]) \in I
    BY <1>6, <1>8
  <2> HIDE DEF I
  <2>2. pushes \in Seq(I) /\ Len(pushes) = n
    BY <1>2, <1>7, <1>8, <2>1
  <2> QED BY <2>2 DEF I, Code
<1>10. PICK as : as = [j \in 1 .. n |-> ValueAt(p, args[j])]
  OBVIOUS
<1>11. [j \in 1 .. n |-> InstructionMeaning(p, pushes[j])]
         = [j \in DOMAIN as |-> Abstract!PushOf(as[j])]
  <2>1. \A j \in 1 .. n :
          InstructionMeaning(p, pushes[j]) = Abstract!PushOf(ValueAt(p, args[j]))
    BY <1>6, <1>7, <1>8
  <2> QED BY <1>10, <2>1
<1>12. /\ block' = Append(block \o pushes, Invoke(f))
       /\ constant_pool' = constant_pool /\ methods' = methods /\ handles' = handles
       /\ file' = file
       /\ IsInvocable(f) /\ \A j \in DOMAIN args : IsPushable(args[j])
  BY <1>7 DEF Call
<1>13. Symbolic(p, Append(block \o pushes, Invoke(f))) =
         Append(Symbolic(p, block) \o [j \in 1 .. n |-> InstructionMeaning(p, pushes[j])],
                InstructionMeaning(p, Invoke(f)))
  BY <1>2, <1>4, <1>6, <1>9, CallMeans
<1>14. PICK g : g = ValueAt(p, f)
  OBVIOUS
<1>15. Block' = Append(Block \o [j \in DOMAIN as |-> Abstract!PushOf(as[j])],
                       Abstract!InvokeOf(g))
  BY <1>3, <1>6, <1>11, <1>12, <1>13, <1>14 DEF Block
<1>16. g \in Known /\ as \in [1 .. n -> Known]
  BY <1>3, <1>8, <1>10, <1>14 DEF Known
<1>17. as \in Abstract!Arguments(Known)
  BY <1>16 DEF Abstract!Arguments
<1>18. g.kind = "method"
  <2>1. At(p, f, "Methodref")
    BY <1>3, <1>5, <1>12 DEF IsInvocable, At
  <2>2. At(p, p[f].refs[2], "NameAndType")
    BY <1>3, <1>4, <2>1, ReferredTo DEF ProgramInv, Sound
  <2> QED BY <1>14, <2>1, <2>2, ValueOfMethodref DEF Abstract!Method
<1>19. \A j \in DOMAIN as : as[j] \in Known /\ as[j].kind # "method"
  <2> SUFFICES ASSUME NEW j \in 1 .. n
               PROVE  ValueAt(p, args[j]) \in Known /\ ValueAt(p, args[j]).kind # "method"
    BY <1>10
  <2>1. PICK h \in handles : h = args[j]
    BY <1>8
  <2>2. At(p, h, "String") \/ At(p, h, "Integer")
    BY <1>3, <1>5, <1>8, <1>12, <2>1 DEF IsPushable, At
  <2>3. ValueAt(p, h).kind # "method"
    BY <2>2, ValueOfString, ValueOfInteger DEF Abstract!StringValue, Abstract!IntValue
  <2> QED BY <1>3, <2>1, <2>3 DEF Known
<1>20. Known' = Known /\ Methods' = Methods /\ SymbolicFile' = SymbolicFile
  BY <1>12 DEF Known, Methods, SymbolicFile
<1>21. Abstract!Call(g, as)
  BY <1>15, <1>16, <1>18, <1>19, <1>20 DEF Abstract!Call, Known, Block, Methods
<1> QED BY <1>16, <1>17, <1>21

LEMMA DefineFunctionRefines ==
  ASSUME ProgramInv, MaxPool + 1 < IndexLimit, NEW n \in Texts, NEW d \in Texts,
         DefineFunction(n, d)
  PROVE  Abstract!DefineFunction(n, d)
<1>1. PICK p, new : p = constant_pool /\ new = NewMethod(p, n, d, block)
  OBVIOUS
<1>2. p \in Seq(Entry) /\ block \in Code /\ Sound(p) /\ CodeGood(p, block)
  BY <1>1 DEF ProgramInv, TypeOK
<1>3. /\ constant_pool' = new.pool /\ Len(new.pool) <= MaxPool
      /\ methods' = Append(methods, new.method) /\ block' = <<>>
      /\ handles' = handles /\ file' = file
  BY <1>1 DEF DefineFunction, Fits
<1>4. Kept(p, new.pool) /\ new.method \in MethodInfo
  BY <1>1, <1>2, NewMethodFacts
<1>5. new.pool \in Seq(Entry) /\ Grows(p, new.pool)
  BY <1>4 DEF Kept
<1>6. Len(new.pool) < IndexLimit
  BY <1>3, <1>5, SmallPool
<1>7. MethodMeaning(new.pool, new.method) =
        [name |-> n, descriptor |-> d, body |-> Block]
  BY <1>1, <1>2, <1>6, NewMethodMeans DEF Block
<1>8. /\ \A h \in handles : ValueAt(new.pool, h) = ValueAt(p, h)
      /\ SymbolicMethods(new.pool, methods) = Methods
  BY <1>1, <1>5, GrowthUnseen
<1>9. Known' = Known
  BY <1>1, <1>3, <1>8 DEF Known
<1>10. methods \in Seq(MethodInfo)
  BY DEF ProgramInv, TypeOK
<1>11. Methods' = Append(Methods, [name |-> n, descriptor |-> d, body |-> Block])
  BY <1>3, <1>4, <1>7, <1>8, <1>10, MethodsAppend DEF Methods
<1>12. Block' = <<>>
  BY <1>3 DEF Block, Symbolic
<1>13. SymbolicFile' = SymbolicFile
  BY <1>3 DEF SymbolicFile
<1> QED BY <1>9, <1>11, <1>12, <1>13 DEF Abstract!DefineFunction, Known, Block, Methods

\* Code that a client has written is not that of the constructor.
LEMMA ClientsWriteNoConstructor ==
  ASSUME NEW p, NEW m, NotConstructor(m)
  PROVE  MethodMeaning(p, m) # Abstract!Constructor
<1> SUFFICES ASSUME MethodMeaning(p, m) = Abstract!Constructor PROVE FALSE
  OBVIOUS
<1>1. PICK body : body = Abstract!Constructor.body
  OBVIOUS
<1>2. DOMAIN body = {1, 2, 3} /\ body[1].op = "aload_0"
  BY <1>1 DEF Abstract!Constructor
<1>3. MethodMeaning(p, m).body = body
  BY <1>1
<1>4. body = Symbolic(p, m.code)
  <2>1. body = IF TextAt(p, m.code_name) = "Code" THEN Symbolic(p, m.code) ELSE <<>>
    BY <1>3 DEF MethodMeaning
  <2>2. body # <<>>
    BY <1>2
  <2> QED BY <2>1, <2>2
<1>5. 1 \in DOMAIN m.code /\ body[1] = InstructionMeaning(p, m.code[1])
  BY <1>2, <1>4, CodeOneByOne
<1>6. m.code[1].op # "aload_0"
  BY <1>5 DEF NotConstructor
<1> QED BY <1>2, <1>5, <1>6 DEF InstructionMeaning

LEMMA EmitRefines ==
  ASSUME ProgramInv, MaxPool + 1 < IndexLimit, MaxEmits <= 1, Emit
  PROVE  Abstract!Emit
<1>1. PICK p, new, this, super :
        /\ p = constant_pool /\ new = NewConstructor(p)
        /\ this = classConstant(new.pool, "Main")
        /\ super = classConstant(this.pool, "java/lang/Object")
  OBVIOUS
<1>2. p \in Seq(Entry) /\ Sound(p) /\ methods \in Seq(MethodInfo)
  BY <1>1 DEF ProgramInv, TypeOK
<1>3. /\ emits < MaxEmits /\ Len(super.pool) <= MaxPool
      /\ constant_pool' = super.pool
      /\ methods' = Append(methods, new.method)
      /\ file' = [count       |-> IndexOf(Len(super.pool) + 1),
                  pool        |-> super.pool,
                  this_class  |-> IndexOf(this.at),
                  super_class |-> IndexOf(super.at),
                  methods     |-> methods']
      /\ handles' = handles /\ block' = block
  BY <1>1 DEF Emit, Fits
<1>4. "Main" \in Texts /\ "java/lang/Object" \in Texts
  BY DEF Texts, OwnTexts
<1>5. Kept(p, new.pool) /\ new.method \in MethodInfo /\ new.pool \in Seq(Entry)
  BY <1>1, <1>2, NewConstructorFacts DEF Kept
<1>6. Kept(new.pool, this.pool) /\ At(this.pool, this.at, "Class")
      /\ this.pool \in Seq(Entry)
  BY <1>1, <1>4, <1>5, classConstantInterns, InternedKept DEF Kept
<1>7. Kept(this.pool, super.pool) /\ At(super.pool, super.at, "Class")
      /\ super.pool \in Seq(Entry)
  BY <1>1, <1>4, <1>6, classConstantInterns, InternedKept DEF Kept
<1>8. /\ Grows(p, new.pool) /\ Grows(new.pool, this.pool) /\ Grows(this.pool, super.pool)
  BY <1>5, <1>6, <1>7 DEF Kept
<1>9. Grows(new.pool, super.pool) /\ Grows(p, super.pool)
  BY <1>2, <1>5, <1>6, <1>7, <1>8, GrowsTransitive
<1>10. Len(super.pool) < IndexLimit /\ Len(super.pool) + 1 < IndexLimit
  BY <1>3, <1>7, SmallPool
<1>11. Len(new.pool) < IndexLimit /\ Len(this.pool) < IndexLimit
  BY <1>5, <1>6, <1>7, <1>8, <1>9, <1>10, LimitsAssumption DEF Grows
<1>12. Sound(new.pool) /\ Sound(this.pool)
  BY <1>2, <1>5, <1>6, <1>11 DEF Kept
<1>13. /\ MethodGood(new.pool, new.method)
       /\ MethodMeaning(new.pool, new.method) = Abstract!Constructor
  BY <1>1, <1>2, <1>11, NewConstructorMeans
<1>14. MethodMeaning(super.pool, new.method) = Abstract!Constructor
  BY <1>5, <1>7, <1>9, <1>12, <1>13, MethodStable DEF Sound
<1>15. /\ \A h \in handles : ValueAt(super.pool, h) = ValueAt(p, h)
       /\ Symbolic(super.pool, block) = Block
       /\ SymbolicMethods(super.pool, methods) = Methods
  BY <1>1, <1>7, <1>9, GrowthUnseen
<1>16. Known' = Known /\ Block' = Block
  BY <1>1, <1>3, <1>15 DEF Known, Block
<1>17. SymbolicMethods(super.pool, methods') = Append(Methods, Abstract!Constructor)
  BY <1>2, <1>3, <1>5, <1>14, <1>15, MethodsAppend
<1>18. Methods' = Append(Methods, Abstract!Constructor)
  BY <1>3, <1>17 DEF Methods
<1>19. ClassAt(super.pool, IndexOf(this.at)) = "Main"
  <2>1. ClassAt(this.pool, this.at) = "Main"
    BY <1>1, <1>4, <1>5, <1>11, classConstantMeans
  <2>2. ClassAt(super.pool, this.at) = "Main"
    BY <1>6, <1>7, <1>8, <1>12, <2>1, ClassStable DEF Sound
  <2>3. IndexOf(this.at) = this.at
    BY <1>6, <1>11, PositionIsIndex
  <2> QED BY <2>2, <2>3
<1>20. ClassAt(super.pool, IndexOf(super.at)) = "java/lang/Object"
  <2>1. ClassAt(super.pool, super.at) = "java/lang/Object"
    BY <1>1, <1>4, <1>6, <1>10, classConstantMeans
  <2>2. IndexOf(super.at) = super.at
    BY <1>7, <1>10, PositionIsIndex
  <2> QED BY <2>1, <2>2
<1>21. SymbolicFile' = [class |-> "Main", super |-> "java/lang/Object",
                        functions |-> Methods']
  <2>1. IndexOf(Len(super.pool) + 1) = Len(super.pool) + 1
    BY <1>7, <1>10, IndexOfSmall
  <2>2. /\ file'.count = Len(file'.pool) + 1 /\ file'.pool = super.pool
        /\ file'.this_class = IndexOf(this.at) /\ file'.super_class = IndexOf(super.at)
        /\ file'.methods = methods'
    BY <1>3, <2>1
  <2>3. SymbolicFile' =
          [class |-> ClassAt(super.pool, IndexOf(this.at)),
           super |-> ClassAt(super.pool, IndexOf(super.at)),
           functions |-> SymbolicMethods(super.pool, methods')]
    BY <2>2 DEF SymbolicFile
  <2> QED BY <1>17, <1>18, <1>19, <1>20, <2>3
<1>22. ~ \E j \in DOMAIN Methods : Methods[j] = Abstract!Constructor
  <2>1. emits = 0
    BY <1>3, ClientAssumption DEF ProgramInv, TypeOK
  <2>2. Methods = [j \in DOMAIN methods |-> MethodMeaning(p, methods[j])]
    BY <1>1, MethodsOneByOne DEF Methods
  <2>3. \A j \in DOMAIN methods : NotConstructor(methods[j])
    BY <2>1 DEF ProgramInv
  <2> QED BY <2>2, <2>3, ClientsWriteNoConstructor
<1> QED BY <1>16, <1>18, <1>21, <1>22 DEF Abstract!Emit, Known, Block, Methods

LEMMA InitProgramInv == Init => ProgramInv
<1> SUFFICES ASSUME Init PROVE ProgramInv
  OBVIOUS
<1>1. constant_pool = <<>> /\ block = <<>> /\ methods = <<>>
  BY DEF Init
<1>2. Sound(constant_pool)
  BY <1>1 DEF Sound, Resolved, Shared
<1> QED BY <1>1, <1>2, InitTypeOK DEF ProgramInv, CodeGood

\* Where an operation leaves the block and the methods alone.
LEMMA PoolStepKeepsInv ==
  ASSUME ProgramInv, TypeOK', MaxPool + 1 < IndexLimit,
         Kept(constant_pool, constant_pool'),
         UNCHANGED <<methods, block, emits>>
  PROVE  ProgramInv'
<1>1. PICK q : q = constant_pool'
  OBVIOUS
<1>2. q \in Seq(Entry) /\ Grows(constant_pool, q) /\ Len(q) <= MaxPool
  BY <1>1 DEF Kept, TypeOK
<1>3. Len(q) < IndexLimit
  BY <1>2, SmallPool
<1>4. Sound(q)
  BY <1>1, <1>3 DEF Kept, ProgramInv
<1>5. CodeGood(q, block) /\ \A i \in DOMAIN methods : MethodGood(q, methods[i])
  BY <1>2, GrowthUnseen
<1>6. Sound(constant_pool)'
  BY <1>1, <1>4 DEF Sound, Resolved, Shared, At
<1>7. CodeGood(constant_pool, block)' /\ \A j \in DOMAIN block' : block'[j].op # "aload_0"
  BY <1>1, <1>5 DEF CodeGood, ProgramInv
<1>8. \A i \in DOMAIN methods' : MethodGood(constant_pool, methods[i])'
  <2> SUFFICES ASSUME NEW i \in DOMAIN methods PROVE MethodGood(constant_pool, methods[i])'
    OBVIOUS
  <2>1. PICK m : m = methods[i]
    OBVIOUS
  <2>2. MethodGood(q, m) /\ methods'[i] = m
    BY <1>5, <2>1
  <2> QED BY <1>1, <2>2 DEF MethodGood, CodeGood, At, TextAt, Deref
<1>9. emits' = 0 => \A i \in DOMAIN methods' : NotConstructor(methods[i])'
  BY DEF ProgramInv, NotConstructor
<1> QED BY <1>6, <1>7, <1>8, <1>9 DEF ProgramInv

LEMMA CallKeepsInv ==
  ASSUME ProgramInv, TypeOK', MaxPool + 1 < IndexLimit,
         NEW f \in handles, NEW args \in Arguments(handles), Call(f, args)
  PROVE  ProgramInv'
<1>1. PICK n \in 0 .. MaxArguments : args \in [1 .. n -> handles]
  BY DEF Arguments
<1>2. n \in Nat
  BY <1>1, ClientAssumption
<1>3. PICK p : p = constant_pool
  OBVIOUS
<1>4. /\ p \in Seq(Entry) /\ Len(p) < IndexLimit /\ handles \subseteq DOMAIN p
      /\ block \in Code
  BY <1>3, SmallPool DEF ProgramInv, TypeOK
<1>5. ASSUME NEW h \in handles
      PROVE  /\ Push(h).operand \in DOMAIN p \cup {0} /\ Push(h).op # "aload_0"
             /\ Invoke(h).operand \in DOMAIN p \cup {0} /\ Invoke(h).op # "aload_0"
             /\ Push(h) \in [op : Opcodes, operand : Indices]
             /\ Invoke(h) \in [op : Opcodes, operand : Indices]
  <2>1. h \in Nat /\ h <= Len(p) /\ h \in DOMAIN p
    BY <1>4
  <2>2. IndexOf(h) = h /\ h \in Indices
    BY <1>4, <2>1, IndexOfSmall, LimitsAssumption DEF Indices
  <2>3. h < ByteLimit => h % ByteLimit = h
    BY <2>1, LimitsAssumption
  <2>4. Push(h) = [op |-> IF h < ByteLimit THEN "ldc" ELSE "ldc_w", operand |-> h]
    BY <2>2, <2>3 DEF Push, Instruction
  <2>5. Invoke(h) = [op |-> "invokestatic", operand |-> h]
    BY <2>2 DEF Invoke, Instruction
  <2> QED BY <2>1, <2>2, <2>4, <2>5 DEF Opcodes
<1> DEFINE I == [op : Opcodes, operand : Indices]
<1>6. PICK pushes : pushes = [j \in DOMAIN args |-> Push(args[j])]
  OBVIOUS
<1>7. DOMAIN args = 1 .. n /\ \A j \in 1 .. n : args[j] \in handles
  BY <1>1
<1>8. /\ \A j \in 1 .. n : /\ Push(args[j]) \in I
                           /\ Push(args[j]).operand \in DOMAIN p \cup {0}
                           /\ Push(args[j]).op # "aload_0"
      /\ Invoke(f) \in I
      /\ block \in Seq(I)
  BY <1>4, <1>5, <1>7 DEF Code
<1> HIDE DEF I
<1>9. pushes \in Seq(I) /\ Len(pushes) = n
  BY <1>2, <1>6, <1>7, <1>8
<1>10. PICK k : k = Append(block \o pushes, Invoke(f))
  OBVIOUS
<1>11. /\ DOMAIN k = 1 .. Len(block) + n + 1
       /\ \A j \in 1 .. Len(block) : k[j] = block[j]
       /\ \A j \in Len(block) + 1 .. Len(block) + n : k[j] = pushes[j - Len(block)]
       /\ k[Len(block) + n + 1] = Invoke(f)
  <2>1. PICK s : s = block \o pushes
    OBVIOUS
  <2>2. /\ s \in Seq(I) /\ Len(s) = Len(block) + Len(pushes)
        /\ \A j \in 1 .. Len(block) + Len(pushes) :
             s[j] = IF j <= Len(block) THEN block[j] ELSE pushes[j - Len(block)]
    BY <1>8, <1>9, <2>1, ConcatProperties
  <2>3. /\ k \in Seq(I) /\ Len(k) = Len(s) + 1
        /\ \A j \in 1 .. Len(s) : k[j] = s[j]
        /\ k[Len(s) + 1] = Invoke(f)
    BY <1>8, <1>10, <2>1, <2>2, AppendProperties
  <2>4. PICK b \in Nat : b = Len(block)
    BY <1>8
  <2>5. DOMAIN k = 1 .. b + n + 1 /\ Len(s) = b + n
    BY <1>2, <1>9, <2>2, <2>3, <2>4
  <2>6. ASSUME NEW j \in 1 .. b PROVE k[j] = block[j]
    BY <1>2, <1>9, <2>2, <2>3, <2>4, <2>5
  <2>7. ASSUME NEW j \in b + 1 .. b + n PROVE k[j] = pushes[j - b]
    BY <1>2, <1>9, <2>2, <2>3, <2>4, <2>5
  <2> QED BY <2>3, <2>4, <2>5, <2>6, <2>7
<1>12. ASSUME NEW j \in DOMAIN k
       PROVE  k[j].operand \in DOMAIN p \cup {0} /\ k[j].op # "aload_0"
  <2>1. Len(block) \in Nat /\ DOMAIN block = 1 .. Len(block)
    BY <1>8
  <2>2. CASE j \in 1 .. Len(block)
    <3>1. j \in DOMAIN block /\ k[j] = block[j]
      BY <1>11, <2>1, <2>2
    <3> QED BY <1>3, <3>1 DEF ProgramInv, CodeGood
  <2>3. CASE j \in Len(block) + 1 .. Len(block) + n
    <3>1. PICK i \in 1 .. n : i = j - Len(block)
      BY <1>2, <2>1, <2>3
    <3>2. k[j] = Push(args[i])
      BY <1>6, <1>7, <1>11, <2>3, <3>1
    <3> QED BY <1>8, <3>1, <3>2
  <2>4. CASE j = Len(block) + n + 1
    BY <1>5, <1>11, <2>4
  <2> QED BY <1>2, <1>11, <2>1, <2>2, <2>3, <2>4
<1>13. /\ block' = k /\ constant_pool' = p
       /\ UNCHANGED <<methods, emits>>
  BY <1>3, <1>6, <1>10 DEF Call
<1>14. CodeGood(constant_pool, block)' /\ \A j \in DOMAIN block' : block'[j].op # "aload_0"
  BY <1>12, <1>13 DEF CodeGood
<1>15. Sound(constant_pool)'
  BY <1>3, <1>13 DEF ProgramInv, Sound, Resolved, Shared, At
<1>16. \A i \in DOMAIN methods' : MethodGood(constant_pool, methods[i])'
  BY <1>3, <1>13 DEF ProgramInv, MethodGood, CodeGood, At, TextAt, Deref
<1>17. emits' = 0 => \A i \in DOMAIN methods' : NotConstructor(methods[i])'
  BY <1>13 DEF ProgramInv, NotConstructor
<1> QED BY <1>14, <1>15, <1>16, <1>17 DEF ProgramInv

\* Where an operation adds a good method.
LEMMA MethodAddedKeepsInv ==
  ASSUME ProgramInv, TypeOK', MaxPool + 1 < IndexLimit,
         NEW q, q = constant_pool', Kept(constant_pool, q),
         NEW m \in MethodInfo, methods' = Append(methods, m), MethodGood(q, m),
         block' = block \/ block' = <<>>,
         emits' = 0 => emits = 0 /\ NotConstructor(m)
  PROVE  ProgramInv'
<1>1. q \in Seq(Entry) /\ Grows(constant_pool, q) /\ Len(q) <= MaxPool
  BY DEF Kept, TypeOK
<1>2. Len(q) < IndexLimit
  BY <1>1, SmallPool
<1>3. Sound(q)
  BY <1>2 DEF Kept, ProgramInv
<1>4. CodeGood(q, block) /\ \A i \in DOMAIN methods : MethodGood(q, methods[i])
  BY <1>1, GrowthUnseen
<1>5. Sound(constant_pool)'
  BY <1>3 DEF Sound, Resolved, Shared, At
<1>6. CodeGood(constant_pool, block)' /\ \A j \in DOMAIN block' : block'[j].op # "aload_0"
  BY <1>4 DEF CodeGood, ProgramInv
<1>7. methods \in Seq(MethodInfo)
  BY DEF ProgramInv, TypeOK
<1>8. /\ DOMAIN methods' = 1 .. Len(methods) + 1 /\ DOMAIN methods = 1 .. Len(methods)
      /\ Len(methods) \in Nat
      /\ \A i \in DOMAIN methods : methods'[i] = methods[i]
      /\ methods'[Len(methods) + 1] = m
  BY <1>7
<1>9. ASSUME NEW i \in DOMAIN methods'
      PROVE  MethodGood(q, methods'[i]) /\ (emits' = 0 => NotConstructor(methods'[i]))
  <2>1. CASE i \in DOMAIN methods
    BY <1>4, <1>8, <2>1 DEF ProgramInv
  <2>2. CASE i = Len(methods) + 1
    BY <1>8, <2>2
  <2> QED BY <1>8, <2>1, <2>2
<1>10. \A i \in DOMAIN methods' : MethodGood(constant_pool, methods[i])'
  <2> SUFFICES ASSUME NEW i \in DOMAIN methods' PROVE MethodGood(constant_pool, methods[i])'
    OBVIOUS
  <2>1. PICK x : x = methods'[i]
    OBVIOUS
  <2>2. MethodGood(q, x)
    BY <1>9, <2>1
  <2> QED BY <2>1, <2>2 DEF MethodGood, CodeGood, At, TextAt, Deref
<1>11. emits' = 0 => \A i \in DOMAIN methods' : NotConstructor(methods[i])'
  BY <1>9 DEF NotConstructor
<1> QED BY <1>5, <1>6, <1>10, <1>11 DEF ProgramInv

LEMMA DefineFunctionKeepsInv ==
  ASSUME ProgramInv, TypeOK', MaxPool + 1 < IndexLimit, NEW n \in Texts, NEW d \in Texts,
         DefineFunction(n, d)
  PROVE  ProgramInv'
<1>1. PICK p, new : p = constant_pool /\ new = NewMethod(p, n, d, block)
  OBVIOUS
<1>2. p \in Seq(Entry) /\ block \in Code /\ Sound(p) /\ CodeGood(p, block)
  BY <1>1 DEF ProgramInv, TypeOK
<1>3. /\ constant_pool' = new.pool /\ Len(new.pool) <= MaxPool
      /\ methods' = Append(methods, new.method) /\ block' = <<>>
      /\ emits' = emits
  BY <1>1 DEF DefineFunction, Fits
<1>4. Kept(p, new.pool) /\ new.method \in MethodInfo /\ new.pool \in Seq(Entry)
  BY <1>1, <1>2, NewMethodFacts DEF Kept
<1>5. Len(new.pool) < IndexLimit
  BY <1>3, <1>4, SmallPool
<1>6. MethodGood(new.pool, new.method) /\ new.method.code = block
  <2>1. Len(NewMethod(p, n, d, block).pool) < IndexLimit
    BY <1>1, <1>5
  <2>2. /\ MethodGood(NewMethod(p, n, d, block).pool, NewMethod(p, n, d, block).method)
        /\ NewMethod(p, n, d, block).method.code = block
    BY <1>2, <2>1, NewMethodMeans, Zenon
  <2> QED BY <1>1, <2>2
<1>7. NotConstructor(new.method)
  BY <1>6 DEF ProgramInv, NotConstructor
<1>8. PICK q, m : q = constant_pool' /\ q = new.pool /\ m = new.method
  BY <1>3
<1>9. /\ Kept(constant_pool, q) /\ m \in MethodInfo /\ methods' = Append(methods, m)
      /\ MethodGood(q, m) /\ NotConstructor(m) /\ block' = <<>> /\ emits' = emits
  BY <1>1, <1>3, <1>4, <1>6, <1>7, <1>8
<1> QED BY <1>8, <1>9, MethodAddedKeepsInv

LEMMA EmitKeepsInv ==
  ASSUME ProgramInv, TypeOK', MaxPool + 1 < IndexLimit, Emit,
         Kept(constant_pool, constant_pool')
  PROVE  ProgramInv'
<1>1. PICK p, new, this, super :
        /\ p = constant_pool /\ new = NewConstructor(p)
        /\ this = classConstant(new.pool, "Main")
        /\ super = classConstant(this.pool, "java/lang/Object")
  OBVIOUS
<1>2. p \in Seq(Entry) /\ Sound(p) /\ emits \in Nat
  BY <1>1, ClientAssumption DEF ProgramInv, TypeOK
<1>3. /\ constant_pool' = super.pool /\ Len(super.pool) <= MaxPool
      /\ methods' = Append(methods, new.method) /\ block' = block
      /\ emits' = emits + 1
  BY <1>1 DEF Emit, Fits
<1>4. "Main" \in Texts /\ "java/lang/Object" \in Texts
  BY DEF Texts, OwnTexts
<1>5. Kept(p, new.pool) /\ new.method \in MethodInfo /\ new.pool \in Seq(Entry)
  BY <1>1, <1>2, NewConstructorFacts DEF Kept
<1>6. Kept(new.pool, this.pool) /\ this.pool \in Seq(Entry)
  BY <1>1, <1>4, <1>5, classConstantInterns, InternedKept DEF Kept
<1>7. Kept(this.pool, super.pool) /\ super.pool \in Seq(Entry)
  BY <1>1, <1>4, <1>6, classConstantInterns, InternedKept DEF Kept
<1>8. Grows(new.pool, super.pool)
  BY <1>5, <1>6, <1>7, GrowsTransitive DEF Kept
<1>9. Len(super.pool) < IndexLimit
  BY <1>3, <1>7, SmallPool
<1>10. Len(new.pool) < IndexLimit
  BY <1>5, <1>7, <1>8, <1>9, LimitsAssumption DEF Grows
<1>11. MethodGood(new.pool, new.method) /\ Resolved(new.pool)
  BY <1>1, <1>2, <1>5, <1>10, NewConstructorMeans DEF Kept, Sound
<1>12. MethodGood(super.pool, new.method)
  BY <1>5, <1>7, <1>8, <1>11, MethodStable
<1>13. emits' # 0
  BY <1>2, <1>3
<1> QED BY <1>3, <1>5, <1>12, <1>13, MethodAddedKeepsInv

LEMMA InitRefines == Init => Abstract!Init
<1> SUFFICES ASSUME Init PROVE Abstract!Init
  OBVIOUS
<1>1. /\ constant_pool = <<>> /\ block = <<>> /\ methods = <<>> /\ handles = {}
      /\ file = NothingWritten
  BY DEF Init
<1>2. Known = {} /\ Block = <<>> /\ Methods = <<>>
  BY <1>1 DEF Known, Block, Methods, Symbolic, SymbolicMethods
<1>3. ClassAt(<<>>, 0) = "none"
  <2>1. Deref(<<>>, 0, "Class") = Nothing
    BY DEF Deref, At
  <2>2. Nothing.refs[1] = 0 /\ Nothing.text = "none"
    BY DEF Nothing, Constant
  <2>3. TextAt(<<>>, 0) = "none"
    BY <2>2 DEF TextAt, Deref, At
  <2> QED BY <2>1, <2>2, <2>3 DEF ClassAt
<1>4. SymbolicMethods(<<>>, <<>>) = <<>>
  BY DEF SymbolicMethods
<1>5. SymbolicFile = Abstract!NoFile
  <2>1. file.pool = <<>> /\ file.this_class = 0 /\ file.super_class = 0 /\ file.methods = <<>>
    BY <1>1 DEF NothingWritten
  <2> QED BY <1>3, <1>4, <2>1 DEF SymbolicFile, Abstract!NoFile
<1> QED BY <1>2, <1>5 DEF Abstract!Init, Known, Block, Methods

LEMMA StutterRefines ==
  ASSUME UNCHANGED vars
  PROVE  UNCHANGED Abstract!vars
BY DEF vars, Abstract!vars, SymbolicFile

\* A step of the class file is a step of the program, or none.
LEMMA StepRefines ==
  ASSUME ProgramInv, MaxPool + 1 < IndexLimit, MaxEmits <= 1, [Next]_vars
  PROVE  [Abstract!Next]_(Abstract!vars)
<1>0. constant_pool \in Seq(Entry) /\ TypeOK /\ Sound(constant_pool)
  BY DEF ProgramInv, TypeOK
<1>1. ASSUME NEW r, NEW tag, Interned(constant_pool, r, tag), Hand(r)
      PROVE  Len(r.pool) < IndexLimit
  <2>1. r.pool \in Seq(Entry) /\ Len(r.pool) <= MaxPool
    BY <1>1 DEF Interned, Hand, Fits
  <2> QED BY <2>1, SmallPool
<1>2. ASSUME NEW t \in Strings, DefineStringConstant(t)
      PROVE  Abstract!DefineStringConstant(t)
  <2>1. t \in Texts
    BY DEF Texts, ClientTexts
  <2>2. PICK r : r = stringConstant(constant_pool, t)
    OBVIOUS
  <2>3. Interned(constant_pool, r, "String") /\ Hand(r)
    BY <1>0, <1>2, <2>1, <2>2, stringConstantInterns DEF DefineStringConstant
  <2>4. Len(stringConstant(constant_pool, t).pool) < IndexLimit
    BY <1>1, <2>2, <2>3
  <2>5. ValueAt(r.pool, r.at) = Abstract!StringValue(t)
    BY <1>0, <2>1, <2>2, <2>4, stringConstantMeans
  <2>6. /\ Known' = Known \cup {Abstract!StringValue(t)}
        /\ Block' = Block /\ Methods' = Methods /\ SymbolicFile' = SymbolicFile
    BY <2>3, <2>5, HandMeans
  <2> QED BY <2>6 DEF Abstract!DefineStringConstant, Known, Block, Methods
<1>3. ASSUME NEW i \in Ints, DefineIntegerConstant(i)
      PROVE  Abstract!DefineIntegerConstant(i)
  <2>1. i \in Int
    BY ClientAssumption
  <2>2. PICK r : r = integerConstant(constant_pool, i)
    OBVIOUS
  <2>3. Interned(constant_pool, r, "Integer") /\ Hand(r)
    BY <1>0, <1>3, <2>1, <2>2, integerConstantInterns DEF DefineIntegerConstant
  <2>4. ValueAt(r.pool, r.at) = Abstract!IntValue(i)
    BY <1>0, <2>1, <2>2, integerConstantMeans
  <2>5. /\ Known' = Known \cup {Abstract!IntValue(i)}
        /\ Block' = Block /\ Methods' = Methods /\ SymbolicFile' = SymbolicFile
    BY <2>3, <2>4, HandMeans
  <2> QED BY <2>5 DEF Abstract!DefineIntegerConstant, Known, Block, Methods
<1>4. ASSUME NEW n \in LibraryNames, LookupLibraryFunction(n)
      PROVE  Abstract!LookupLibraryFunction(n)
  <2>1. CASE n \in DOMAIN Library
    <3>1. n \in Texts /\ Library[n] \in Texts /\ "Std" \in Texts
      BY <2>1 DEF Texts, ClientTexts, OwnTexts
    <3>2. PICK r : r = methodRefConstant(constant_pool, "Std", n, Library[n])
      OBVIOUS
    <3>3. Interned(constant_pool, r, "Methodref") /\ Hand(r)
      BY <1>0, <1>4, <2>1, <3>1, <3>2, methodRefConstantInterns DEF LookupLibraryFunction
    <3>4. Len(methodRefConstant(constant_pool, "Std", n, Library[n]).pool) < IndexLimit
      BY <1>1, <3>2, <3>3
    <3>5. ValueAt(r.pool, r.at) = Abstract!Method("Std", n, Library[n])
      BY <1>0, <3>1, <3>2, <3>4, methodRefConstantMeans
    <3>6. /\ Known' = Known \cup {Abstract!Method("Std", n, Library[n])}
          /\ Block' = Block /\ Methods' = Methods /\ SymbolicFile' = SymbolicFile
      BY <3>3, <3>5, HandMeans
    <3> QED BY <2>1, <3>6 DEF Abstract!LookupLibraryFunction, Known, Block, Methods
  <2>2. CASE n \notin DOMAIN Library
    <3>1. UNCHANGED vars
      BY <1>4, <2>2 DEF LookupLibraryFunction
    <3>2. UNCHANGED Abstract!vars
      BY <3>1, StutterRefines
    <3> QED BY <2>2, <3>2 DEF Abstract!LookupLibraryFunction, Abstract!vars
  <2> QED BY <2>1, <2>2
<1>5. ASSUME NEW f \in handles, NEW args \in Arguments(handles), Call(f, args)
      PROVE  Abstract!Next
  BY <1>5, CallRefines DEF Abstract!Next, Known
<1>6. ASSUME NEW f \in Functions, DefineFunction(f[1], f[2])
      PROVE  Abstract!DefineFunction(f[1], f[2])
  <2>1. f[1] \in Texts /\ f[2] \in Texts
    BY DEF Texts, ClientTexts
  <2> QED BY <1>6, <2>1, DefineFunctionRefines
<1>7. ASSUME Emit PROVE Abstract!Emit
  BY <1>7, EmitRefines
<1>8. CASE UNCHANGED vars
  BY <1>8, StutterRefines
<1> QED BY <1>2, <1>3, <1>4, <1>5, <1>6, <1>7, <1>8 DEF Next, Abstract!Next

LEMMA StepKeepsProgramInv ==
  ASSUME ProgramInv, MaxPool + 1 < IndexLimit, [Next]_vars
  PROVE  ProgramInv'
<1>1. TypeOK' /\ Kept(constant_pool, constant_pool')
  BY NextGood DEF Good, ProgramInv
<1>2. CASE UNCHANGED <<methods, block, emits>>
  BY <1>1, <1>2, PoolStepKeepsInv
<1>3. ASSUME NEW f \in handles, NEW args \in Arguments(handles), Call(f, args)
      PROVE  ProgramInv'
  BY <1>1, <1>3, CallKeepsInv
<1>4. ASSUME NEW f \in Functions, DefineFunction(f[1], f[2]) PROVE ProgramInv'
  <2>1. f[1] \in Texts /\ f[2] \in Texts
    BY DEF Texts, ClientTexts
  <2> QED BY <1>1, <1>4, <2>1, DefineFunctionKeepsInv
<1>5. ASSUME Emit PROVE ProgramInv'
  BY <1>1, <1>5, EmitKeepsInv
<1>6. ASSUME \/ \E t \in Strings : DefineStringConstant(t)
             \/ \E i \in Ints : DefineIntegerConstant(i)
             \/ \E n \in LibraryNames : LookupLibraryFunction(n)
             \/ UNCHANGED vars
      PROVE  UNCHANGED <<methods, block, emits>>
  BY <1>6 DEF DefineStringConstant, DefineIntegerConstant, LookupLibraryFunction, Hand, vars
<1> QED BY <1>2, <1>3, <1>4, <1>5, <1>6 DEF Next

\* As long as a u2 can count the pool and its end, and Emit is called at most
\* once, as its one client, emitTest.cc:30, does, the class file is the program
\* its client has assembled: each operation of JvmProgram (emit.cc:279) does
\* what emit.h promises of a Program, whatever constants share entries and
\* however the calls follow each other.
THEOREM ClassFileImplements ==
  ASSUME MaxPool + 1 < IndexLimit, MaxEmits <= 1
  PROVE  Spec => Implements
<1>1. ProgramInv /\ [Next]_vars => ProgramInv'
  BY StepKeepsProgramInv
<1>2. ProgramInv /\ [Next]_vars => [Abstract!Next]_(Abstract!vars)
  BY StepRefines
<1> QED BY InitProgramInv, InitRefines, <1>1, <1>2, PTL DEF Spec, Implements, Abstract!Spec
=============================================================================
