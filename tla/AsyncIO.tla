------------------------------ MODULE AsyncIO ------------------------------
(* Chapter16/exercise_6.c: a server that takes one connection and reads it   *)
(* only from its SIGIO handler.  The peer sends lines and hangs up whenever  *)
(* it likes; a line is "stop" or "text".  The socket raises SIGIO when       *)
(* something arrives while asynchronous I/O is on and an owner is set, and a *)
(* second SIGIO merges with one that is already pending.                     *)
EXTENDS Naturals, Sequences

CONSTANTS BUFLEN,       \* lines that one read can return
          MaxSent,      \* lines the peer may send
          MaxFail       \* system calls that may fail

VARIABLES todo,         \* the calls main has before it, "loop" and "end" among them
          handler,      \* TRUE while sigio_handler runs
          buffer,       \* its buffer, which a shorter read only partly overwrites
          sock,         \* what has arrived and is not read, "hup" at the end of it
          early,        \* how much of that arrived before SIGIO was on
          set,          \* which of nonblock, signal, own, async are in force
          pending, stop, left

vars == <<todo, handler, buffer, sock, early, set, pending, stop, left>>

AsyncIOAssumption == BUFLEN \in Nat \ {0} /\ MaxSent \in Nat /\ MaxFail \in Nat

(* The handler is registered before the socket may raise SIGIO, and stays    *)
(* until it no longer does.                                                  *)
enable_async_io  == <<"nonblock", "signal", "own", "async">>
disable_async_io == <<"async", "own", "signal", "nonblock">>

main == enable_async_io \o <<"loop">> \o disable_async_io \o <<"end">>

Init == /\ todo = main
        /\ handler = FALSE /\ buffer = <<>> /\ sock = <<>> /\ early = 0 /\ set = {}
        /\ pending = FALSE /\ stop = FALSE /\ left = [lines |-> MaxSent, fails |-> MaxFail]

Ended == todo \in {<<"end">>, <<"killed">>}

(* A pending SIGIO is taken before the next call of main returns.            *)
InMain == ~ Ended /\ ~ handler /\ ~ pending

(* One call of enable_async_io or disable_async_io: the first sets what it   *)
(* names, the second clears it.                                              *)
Call == /\ InMain /\ Head(todo) # "loop"
        /\ set' = IF Head(todo) \in set THEN set \ {Head(todo)} ELSE set \cup {Head(todo)}
        /\ todo' = Tail(todo)
        /\ UNCHANGED <<handler, buffer, sock, early, pending, stop, left>>

(* main returns 1 when one of them fails.                                    *)
CallFails == /\ InMain /\ Head(todo) # "loop" /\ left.fails > 0
             /\ todo' = <<"end">>
             /\ left' = [left EXCEPT !.fails = @ - 1]
             /\ UNCHANGED <<handler, buffer, sock, early, set, pending, stop>>

(* while (!stop) sleep(1)                                                    *)
Loop == /\ InMain /\ Head(todo) = "loop" /\ stop
        /\ todo' = Tail(todo)
        /\ UNCHANGED <<handler, buffer, sock, early, set, pending, stop, left>>

(* Delivery.  Without a handler SIGIO ends the process.                      *)
Sigio == /\ ~ Ended /\ ~ handler /\ pending
         /\ pending' = FALSE
         /\ IF "signal" \in set THEN handler' = TRUE /\ buffer' = <<>> /\ UNCHANGED todo
                                ELSE todo' = <<"killed">> /\ UNCHANGED <<handler, buffer>>
         /\ UNCHANGED <<sock, early, set, stop, left>>

(* How many lines have arrived; the hang-up is the last thing to arrive.     *)
Closed == \E i \in DOMAIN sock : sock[i] = "hup"
Lines == IF Closed THEN Len(sock) - 1 ELSE Len(sock)
Least(i, j) == IF i < j THEN i ELSE j

(* read returned something: only its beginning is compared with "stop", and  *)
(* what an earlier read left behind it in the buffer is printed again.       *)
ReadSome(last) ==
  LET n == Least(BUFLEN, Lines)
      b == SubSeq(sock, 1, n) \o SubSeq(buffer, n + 1, Len(buffer))
  IN /\ handler /\ n > 0
     /\ buffer' = b
     /\ sock' = SubSeq(sock, n + 1, Len(sock))
     /\ stop' = (stop \/ b[1] = "stop")
     /\ early' = 0
     /\ handler' = ~ last
     /\ UNCHANGED <<todo, set, pending, left>>

(* read returned 0, or EAGAIN.                                               *)
ReadNone == /\ handler /\ Lines = 0
            /\ stop' = (stop \/ sock = <<"hup">>)
            /\ handler' = FALSE
            /\ UNCHANGED <<todo, buffer, sock, early, set, pending, left>>

sigio_handler_once == ReadSome(TRUE) \/ ReadNone
sigio_handler == ReadSome(FALSE) \/ ReadNone

(* The peer.                                                                 *)
Arrives(l) == /\ ~ Ended /\ ~ Closed
              /\ sock' = Append(sock, l)
              /\ pending' = (pending \/ {"own", "async"} \subseteq set)
              /\ early' = IF "async" \in set THEN early ELSE early + 1
              /\ UNCHANGED <<todo, handler, buffer, set, stop>>
Send == /\ left.lines > 0 /\ left' = [left EXCEPT !.lines = @ - 1]
        /\ \E l \in {"stop", "text"} : Arrives(l)
Hangup == Arrives("hup") /\ UNCHANGED left

Main == Call \/ Loop \/ sigio_handler
Peer == Send \/ Hangup

Next == Main \/ CallFails \/ Sigio \/ Peer

----------------------------------------------------------------------------
(* SIGIO never ends the server: enable_async_io registers the handler before *)
(* the socket can raise it, disable_async_io removes it only afterwards.     *)
NeverKilled == todo # <<"killed">>

(* No arrival is missed: while main sleeps with no SIGIO on its way, all     *)
(* that is unread arrived before asynchronous I/O was on, or is the end of   *)
(* the connection after stop.  Several arrivals may share one SIGIO, and     *)
(* arrivals during the handler raise one more.                               *)
NothingMissed == InMain /\ Head(todo) = "loop" => Lines <= early

(* The peer has hung up and the server had asynchronous I/O on when it did.  *)
(* An end that comes before that raises no SIGIO: the server sleeps on.      *)
HungUp == ~ Ended /\ Closed /\ early < Len(sock)
=============================================================================
