------------------------------- MODULE Alarm --------------------------------
(***************************************************************************)
(* Calls that wait with a time limit set by alarm: sleep1, sleep2 (also in *)
(* Chapter10/figure_10.9.c), lib/sleep.c, the reads of signals/read1.c and *)
(* read2.c, and the datagram client ruptime-dg.c with its server.  Each    *)
(* program is the list of its system calls.  Another signal, SIGINT, is    *)
(* caught by a handler that may take longer than the alarm (tsleep2.c).    *)
(***************************************************************************)
EXTENDS Integers, Sequences

CONSTANT Programs  \* the programs to consider

VARIABLES
  prog,    \* the program
  pc,      \* the call it is at
  inside,  \* is it blocked in that call?
  timer,   \* is the alarm running?
  sig,     \* SIGALRM: its action, is it blocked, is it pending?
  jmpset,  \* has setjmp been called?
  int,     \* sig_int: none, running, done, or cut off by longjmp
  net      \* what the call waits for: none, request, lost, ready

vars == <<prog, pc, inside, timer, sig, jmpset, int, net>>

(* The programs. *)
sleep1 == <<"handler", "alarm", "pause", "off", "end">>
sleep2 == <<"handler", "setjmp", "alarm", "pause", "off", "end">>
figure_10_9 == <<"handler", "setjmp", "alarm", "pause", "off", "end">>
sleep_unblocked == <<"handler", "alarm", "sigsuspend", "off", "restore", "end">>
sleep == <<"handler", "block", "alarm", "sigsuspend", "off", "restore", "unblock", "end">>
read1 == <<"handler", "alarm", "read", "off", "end">>
read2 == <<"handler", "setjmp", "alarm", "read", "off", "end">>
ruptime_dg == <<"handler", "sendto", "alarm", "recvfrom", "off", "end">>

Steps == [sleep1 |-> sleep1, sleep2 |-> sleep2, figure_10_9 |-> figure_10_9, sleep |-> sleep,
          read1 |-> read1, read2 |-> read2, ruptime_dg |-> ruptime_dg]

AlarmAssumption == Programs \subseteq DOMAIN Steps

Jumps == {"sleep2", "figure_10_9", "read2"}  \* sig_alrm calls longjmp
Waits == {"pause", "sigsuspend", "read", "recvfrom"}
step == Steps[prog][pc]
Running == int # "running"
Do(s) == Running /\ ~inside /\ step = s /\ pc' = pc + 1
-----------------------------------------------------------------------------
\* signal or sigaction: sig_alrm, which returns or jumps.
Handler ==
  /\ Do("handler")
  /\ sig' = [sig EXCEPT !.act = IF prog \in Jumps THEN "jump" ELSE "return"]
  /\ UNCHANGED <<prog, inside, timer, jmpset, int, net>>

SetJmp ==
  /\ Do("setjmp") /\ jmpset' = TRUE
  /\ UNCHANGED <<prog, inside, timer, sig, int, net>>

\* alarm(seconds)
SetAlarm ==
  /\ Do("alarm") /\ timer' = TRUE
  /\ UNCHANGED <<prog, inside, sig, jmpset, int, net>>

\* alarm(0); a SIGALRM that is already pending stays so.
AlarmOff ==
  /\ Do("off") /\ timer' = FALSE
  /\ UNCHANGED <<prog, inside, sig, jmpset, int, net>>

\* sigprocmask and sigaction in lib/sleep.c
Block ==
  /\ Do("block") /\ sig' = [sig EXCEPT !.blocked = TRUE]
  /\ UNCHANGED <<prog, inside, timer, jmpset, int, net>>
Restore ==
  /\ Do("restore") /\ sig' = [sig EXCEPT !.act = "caller"]
  /\ UNCHANGED <<prog, inside, timer, jmpset, int, net>>
Unblock ==
  /\ Do("unblock") /\ sig' = [sig EXCEPT !.blocked = FALSE]
  /\ UNCHANGED <<prog, inside, timer, jmpset, int, net>>

\* print_uptime of ruptime-dg.c; the datagram may be lost.
SendTo ==
  /\ Do("sendto") /\ net' \in {"request", "lost"}
  /\ UNCHANGED <<prog, inside, timer, sig, jmpset, int>>

\* pause, sigsuspend (which unblocks SIGALRM while it waits), read, recvfrom.
Wait ==
  /\ Running /\ ~inside /\ step \in Waits
  /\ inside' = TRUE
  /\ UNCHANGED <<prog, pc, timer, sig, jmpset, int, net>>

\* read and recvfrom return what has arrived.
Got ==
  /\ Running /\ inside /\ step \in {"read", "recvfrom"} /\ net = "ready"
  /\ inside' = FALSE /\ pc' = pc + 1
  /\ UNCHANGED <<prog, timer, sig, jmpset, int, net>>
-----------------------------------------------------------------------------
Expire ==
  /\ timer /\ timer' = FALSE
  /\ sig' = [sig EXCEPT !.pending = TRUE]
  /\ UNCHANGED <<prog, pc, inside, jmpset, int, net>>

\* After longjmp sleep2 turns the alarm off and read2 quits.
Landing == IF prog # "read2" THEN Len(Steps[prog]) - 1 ELSE Len(Steps[prog])

\* SIGALRM is delivered, also on top of sig_int.  A handler that returns ends
\* the call the program is blocked in; read and recvfrom then fail and the
\* program quits.  The caller's action, whatever it does, comes after the last
\* of these calls: until then SIGALRM is blocked or has the program's action.
sig_alrm ==
  /\ sig.pending /\ (~sig.blocked \/ (inside /\ step = "sigsuspend"))
  /\ sig' = [sig EXCEPT !.pending = FALSE]
  /\ \/ /\ sig.act = "caller"
        /\ UNCHANGED <<pc, inside, int>>
     \/ /\ sig.act = "return" /\ UNCHANGED int
        /\ IF inside /\ Running
           THEN inside' = FALSE /\ pc' = IF step \in {"pause", "sigsuspend"}
                                         THEN pc + 1 ELSE Len(Steps[prog])
           ELSE UNCHANGED <<inside, pc>>
     \/ /\ sig.act = "jump" /\ inside' = FALSE /\ pc' = Landing
        /\ int' = IF Running THEN int ELSE "cut"
  /\ UNCHANGED <<prog, timer, jmpset, net>>

\* SIGINT: the handler starts at any moment; when it returns, pause and
\* sigsuspend return, and read is restarted.
sig_int ==
  /\ int = "none" /\ step # "end" /\ int' = "running"
  /\ UNCHANGED <<prog, pc, inside, timer, sig, jmpset, net>>

IntReturns ==
  /\ int = "running" /\ int' = "done"
  /\ IF inside /\ step \in {"pause", "sigsuspend"}
     THEN inside' = FALSE /\ pc' = pc + 1 ELSE UNCHANGED <<inside, pc>>
  /\ UNCHANGED <<prog, timer, sig, jmpset, net>>

\* serve of ruptimed-dg.c: the answer may be lost as well; or input arrives.
serve ==
  /\ \/ net = "request" /\ net' \in {"ready", "lost"}
     \/ net = "none" /\ prog # "ruptime_dg" /\ net' = "ready"
  /\ UNCHANGED <<prog, pc, inside, timer, sig, jmpset, int>>
-----------------------------------------------------------------------------
Init ==
  /\ prog \in Programs /\ pc = 1 /\ inside = FALSE /\ timer = FALSE
  /\ sig = [act |-> "caller", blocked |-> FALSE, pending |-> FALSE]
  /\ jmpset = FALSE /\ int = "none" /\ net = "none"

Program ==
  \/ Handler \/ SetJmp \/ SetAlarm \/ AlarmOff \/ Block \/ Restore \/ Unblock
  \/ SendTo \/ Wait \/ Got \/ IntReturns

Kernel == Expire \/ sig_alrm
Next == Program \/ Kernel \/ sig_int \/ serve
-----------------------------------------------------------------------------
Racy == {"sleep1", "read1", "ruptime_dg"}
\* The alarm has gone off already and the call waits for something else.
TooLate == inside /\ ~timer /\ ~sig.pending
\* The alarm went off between alarm and the call: only the programs that
\* neither block SIGALRM nor jump out of the handler can wait without one.
NeverTooLate == prog \notin Racy => ~(TooLate /\ Running)

\* longjmp only to a frame that setjmp has saved.
JumpIsSet == sig.act = "jump" /\ (timer \/ sig.pending) => jmpset

\* The call has not returned, and the alarm can still end it.
Asleep == step # "end" /\ ~(prog \in Racy /\ TooLate)
=============================================================================
