------------------------------ MODULE MCSemaph ------------------------------
(* Instances of Semaph for TLC. *)
EXTENDS Semaph, TLC

CONSTANTS p1, p2, p3

\* A server, a process that creates or opens, a client that only opens.
MCOps == p1 :> {"create", "rm"} @@ p2 :> {"create"} @@ p3 :> {"create", "open"}
=============================================================================
