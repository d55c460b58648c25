------------------------------ MODULE MCPrintd ------------------------------
(* Instances of Printd for TLC. *)
EXTENDS Printd, TLC

\* With three digits and the largest number 3: a file that is new, one that
\* holds 3 ("10"), and one that holds 2 written over it ("20", which is 6).
Empty   == [len |-> 0, num |-> 0]
Largest == [len |-> 2, num |-> 3]
Tailed  == [len |-> 2, num |-> 6]
AnyFile == {Empty, Largest, Tailed}
AtWrap  == {Largest}
NewFile == {Empty}

Alike == Permutations(Clients)
=============================================================================
