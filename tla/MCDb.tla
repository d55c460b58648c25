------------------------------- MODULE MCDb ---------------------------------
(* Instances of Db for TLC. *)
EXTENDS Db, TLC

CONSTANTS p1, p2, k1, k2, k3, va, vb, vc, h1, h2

\* k1 and k2 share a chain; va and vb have the same length.
MCHash == k1 :> h1 @@ k2 :> h1 @@ k3 :> h2
MCKeyLen == k1 :> 1 @@ k2 :> 1 @@ k3 :> 1
MCDatLen == va :> 2 @@ vb :> 2 @@ vc :> 3

\* Processes are alike, and the two keys of one chain.
Alike == Permutations(Procs) \cup Permutations({k1, k2})

MCOps == [p \in Procs |-> {"fetch", "store", "delete"}]
MCScan == p1 :> {"store", "delete"} @@ p2 :> {"fetch", "store", "nextrec", "rewind"}
MCMixed == [p \in Procs |-> {"fetch", "nextrec"}]
=============================================================================
