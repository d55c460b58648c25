------------------------------ MODULE MCOpend -------------------------------
(* Instance of Opend for TLC: the poll loop, one request of each client. *)
EXTENDS Opend

MCMaxReq == [c \in Clients |-> 1]
Spec == Init /\ [][Next]_vars
=============================================================================
