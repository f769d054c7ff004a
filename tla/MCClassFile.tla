---------------------------- MODULE MCClassFile ----------------------------
(***************************************************************************)
(* A client that uses a text the class file itself needs ("Std"), so that  *)
(* a string and a class share an entry, and asks for enough constants to   *)
(* pass the limit of one-byte indices.                                     *)
(***************************************************************************)
EXTENDS ClassFile

Literals == {"Std"}
Numbers == {7}
Names == {"printi", "nosuch"}
Std == [printi |-> "(I)V", print |-> "(Ljava/lang/String;)V"]
Mains == {<<"main", "()V">>}
=============================================================================
