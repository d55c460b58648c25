------------------------------ MODULE Signals -------------------------------
(***************************************************************************)
(* Programs that are correct only if signals are blocked, ignored and      *)
(* restored in the right order: signals/suspend1.c, suspend2.c,            *)
(* critical.c, mask.c, sigtstp.c, abort.c, and system (proc/system.c,      *)
(* signals/system.c) with its callers.  Each program and handler is the    *)
(* list of its calls; the actions are what the calls do.  A signal that is *)
(* pending and not blocked is delivered before the next call.              *)
(***************************************************************************)
EXTENDS Integers, Sequences

CONSTANTS
  Programs,  \* the programs to consider
  MaxSend    \* bound on the signals sent from outside

VARIABLES
  prog,     \* the program
  start,    \* actions and mask it was started with
  stack,    \* main and the handlers that run: code, pc, blocked in a call?, mask to restore
  act,      \* action of each signal: "dfl", "ign", "catch"
  mask,     \* signals that are blocked
  pending,  \* signals that are pending
  flag,     \* quitflag of suspend2.c, canjump of mask.c, stdio flushed in abort.c
  jmpbuf,   \* the mask sigsetjmp saved, in a set that is empty before
  kid,      \* the command of system: state, actions, mask
  out,      \* "run", "stopped", or how the program ended
  sent      \* signals sent from outside

vars == <<prog, start, stack, act, mask, pending, flag, jmpbuf, kid, out, sent>>

SignalsAssumption == MaxSend \in Nat

Sigs == {"INT", "QUIT", "USR1", "ALRM", "ABRT", "TSTP", "CHLD"}
I(op, arg) == [op |-> op, arg |-> arg]
Block(S) == I("block", S)
Catch(s) == I("catch", s)
Old == I("setmask", "old")
Exit == I("exit", "exit")
Ret == I("ret", "none")

suspend1 ==
  <<Catch("INT"), Block({"INT"}), I("suspend", {"USR1"}), Old, Exit>>

suspend2 ==
  <<Catch("INT"), Catch("QUIT"), Block({"QUIT"}), I("if", 7), I("suspend", {}),
    I("goto", 4), I("flag", FALSE), Old, Exit>>

critical ==
  <<Catch("QUIT"), Block({"QUIT"}), I("sleep", "none"), Old, I("sleep", "none"), Exit>>

mask_c ==
  <<Catch("USR1"), Catch("ALRM"), I("sigsetjmp", 6), I("flag", TRUE),
    I("pause", 5), Exit>>

abort ==
  <<I("noign", "ABRT"), I("flushdfl", "ABRT"), I("fill", "ABRT"), I("raise", "ABRT"),
    I("flag", TRUE), I("dfl", "ABRT"), I("fill", "ABRT"), I("raise", "ABRT"), Exit>>

proc_system == <<I("fork", "none"), I("waitpid", "none"), Exit>>

system ==
  <<I("ign", "INT"), I("ign", "QUIT"), Block({"CHLD"}), I("fork", "none"),
    I("waitpid", "none"), I("old", "INT"), I("old", "QUIT"), Old, Exit>>

sigtstp == <<I("ign", "TSTP"), I("catchdfl", "TSTP"), I("read", "none"), Exit>>

sig_int  == <<Ret>>                              \* and sig_alrm, sig_chld
sig_flag == <<I("flag", TRUE), Ret>>             \* sig_int of suspend2.c for SIGQUIT
sig_quit == <<I("dfl", "QUIT"), Ret>>
sig_usr1 == <<I("if", 3), Ret, I("alarm", "ALRM"), I("busy", "none"),
              I("flag", FALSE), I("siglongjmp", "none")>>
sig_tstp ==
  <<I("unblock", {"TSTP"}), I("dfl", "TSTP"), I("raise", "TSTP"), Catch("TSTP"), Ret>>

Main(p) ==
  CASE p = "suspend1" -> suspend1 [] p = "suspend2" -> suspend2
    [] p = "critical" -> critical [] p = "mask" -> mask_c
    [] p = "abort" -> abort       [] p = "proc_system" -> proc_system
    [] p = "system" -> system     [] p = "sigtstp" -> sigtstp

HandlerOf(s) ==
  CASE s = "QUIT" /\ prog = "suspend2" -> sig_flag
    [] s = "QUIT" /\ prog = "critical" -> sig_quit
    [] s = "USR1" -> sig_usr1
    [] s = "TSTP" -> sig_tstp
    [] OTHER -> sig_int

Code(f) == IF f.of = "main" THEN Main(prog) ELSE HandlerOf(f.of)
-----------------------------------------------------------------------------
top == stack[Len(stack)]
ins == Code(top)[top.pc]
Effective == IF top.in /\ ins.op = "suspend" THEN ins.arg ELSE mask
Deliverable == pending \ Effective
Ready(ops) == out = "run" /\ Deliverable = {} /\ ~top.in /\ ins.op \in ops
Top(f) == stack' = [stack EXCEPT ![Len(stack)] = f]
Goto(n) == Top([top EXCEPT !.pc = n, !.in = FALSE])
Step == Goto(top.pc + 1)

\* signal and sigaction
Sigaction ==
  /\ Ready({"catch", "catchdfl", "dfl", "ign", "noign", "old"}) /\ Step
  /\ act' = [act EXCEPT ![ins.arg] =
       CASE ins.op \in {"catch", "dfl", "ign"} -> ins.op
         [] ins.op = "noign" -> IF @ = "ign" THEN "dfl" ELSE @
         [] ins.op = "catchdfl" -> IF start.act["TSTP"] = "dfl" THEN "catch" ELSE @
         [] ins.op = "old" -> start.act[ins.arg]]
  \* a pending signal that is now ignored is dropped
  /\ pending' = {s \in pending : act'[s] # "ign"}
  /\ UNCHANGED <<prog, start, mask, flag, jmpbuf, kid, out, sent>>

sigprocmask ==
  /\ Ready({"block", "unblock", "setmask", "fill"}) /\ Step
  /\ mask' = CASE ins.op = "block" -> mask \cup ins.arg
               [] ins.op = "unblock" -> mask \ ins.arg
               [] ins.op = "setmask" -> start.mask
               [] ins.op = "fill" -> Sigs \ {ins.arg}
  /\ UNCHANGED <<prog, start, act, pending, flag, jmpbuf, kid, out, sent>>

SetFlag ==
  /\ Ready({"flag", "flushdfl"}) /\ Step
  /\ flag' = IF ins.op = "flag" THEN ins.arg ELSE flag \/ act[ins.arg] = "dfl"
  /\ UNCHANGED <<prog, start, act, mask, pending, jmpbuf, kid, out, sent>>

Branch ==
  /\ Ready({"if", "goto"})
  /\ Goto(IF ins.op = "goto" \/ flag THEN ins.arg ELSE top.pc + 1)
  /\ UNCHANGED <<prog, start, act, mask, pending, flag, jmpbuf, kid, out, sent>>

\* Calls that block: they end when a handler returns, read, sleep and the
\* busy wait of sig_usr1 also by themselves, waitpid with the command.
Enter ==
  /\ Ready({"suspend", "pause", "read", "sleep", "busy", "waitpid"})
  /\ Top([top EXCEPT !.in = TRUE])
  /\ UNCHANGED <<prog, start, act, mask, pending, flag, jmpbuf, kid, out, sent>>

Leave ==
  /\ out = "run" /\ Deliverable = {} /\ top.in
  /\ \/ ins.op \in {"read", "sleep", "busy"} /\ UNCHANGED kid
     \/ /\ ins.op = "waitpid" /\ kid.pc \in {"zombie", "failed"}
        /\ kid' = [kid EXCEPT !.pc = "reaped"]
  /\ Step
  /\ UNCHANGED <<prog, start, act, mask, pending, flag, jmpbuf, out, sent>>

Raise ==
  /\ Ready({"raise", "alarm"}) /\ Step
  /\ pending' = pending \cup {ins.arg}
  /\ UNCHANGED <<prog, start, act, mask, flag, jmpbuf, kid, out, sent>>

sigsetjmp ==
  /\ Ready({"sigsetjmp"}) /\ Step
  /\ jmpbuf' = {mask}
  /\ UNCHANGED <<prog, start, act, mask, pending, flag, kid, out, sent>>

\* Back to main, past the test of sigsetjmp, with the mask it saved.
siglongjmp ==
  /\ Ready({"siglongjmp"})
  /\ stack' = << [stack[1] EXCEPT !.pc = 6, !.in = FALSE] >>
  /\ mask' = CHOOSE m \in jmpbuf : TRUE
  /\ UNCHANGED <<prog, start, act, pending, flag, jmpbuf, kid, out, sent>>

HandlerReturns ==
  /\ Ready({"ret"})
  /\ LET below == stack[Len(stack) - 1]
         op == Code(below)[below.pc].op
         over == below.in /\ op \in {"suspend", "pause", "sleep"}
     IN  stack' = [SubSeq(stack, 1, Len(stack) - 1) EXCEPT ![Len(stack) - 1] =
                    IF over THEN [below EXCEPT !.pc = IF op = "pause" THEN @ ELSE @ + 1, !.in = FALSE]
                            ELSE below]
  /\ mask' = top.ret
  /\ UNCHANGED <<prog, start, act, pending, flag, jmpbuf, kid, out, sent>>

\* fork in system; the child restores what the caller had and executes.
fork ==
  /\ Ready({"fork"}) /\ Step
  /\ \/ kid' = [pc |-> "child", act |-> act, mask |-> mask]
     \/ kid' = [kid EXCEPT !.pc = "failed"]   \* status -1, nothing to wait for
  /\ UNCHANGED <<prog, start, act, mask, pending, flag, jmpbuf, out, sent>>

execl == kid' = [kid EXCEPT !.pc = "run",
                            !.act = IF prog = "system" THEN start.act ELSE @,
                            !.mask = IF prog = "system" THEN start.mask ELSE @]

Child ==
  /\ \/ kid.pc = "child" /\ execl /\ UNCHANGED pending
     \/ /\ kid.pc = "run" /\ kid' = [kid EXCEPT !.pc = "zombie"]
        /\ pending' = IF out = "run" /\ act["CHLD"] = "catch"
                      THEN pending \cup {"CHLD"} ELSE pending
  /\ UNCHANGED <<prog, start, stack, act, mask, flag, jmpbuf, out, sent>>

exit ==
  /\ Ready({"exit"}) /\ out' = "exit"
  /\ UNCHANGED <<prog, start, stack, act, mask, pending, flag, jmpbuf, kid, sent>>
-----------------------------------------------------------------------------
Wanted == [suspend1 |-> {"INT", "USR1"}, suspend2 |-> {"INT", "QUIT"}, critical |-> {"QUIT"},
           mask |-> {"USR1"}, abort |-> {"INT"}, proc_system |-> {"INT"},
           system |-> {"INT", "QUIT"}, sigtstp |-> {"TSTP"}]

Send(s) ==
  /\ out = "run" /\ s \in Wanted[prog] /\ Len(sent) < MaxSend
  /\ sent' = Append(sent, s)
  /\ pending' = IF act[s] = "ign" THEN pending ELSE pending \cup {s}
  /\ UNCHANGED <<prog, start, stack, act, mask, flag, jmpbuf, kid, out>>

Deliver(s) ==
  /\ out = "run" /\ s \in Deliverable
  /\ pending' = pending \ {s}
  /\ IF act[s] = "catch"
     THEN /\ stack' = Append(stack, [of |-> s, pc |-> 1, in |-> FALSE, ret |-> mask])
          /\ mask' = Effective \cup {s} /\ UNCHANGED out
     ELSE out' = (IF s = "TSTP" THEN "stopped" ELSE s) /\ UNCHANGED <<stack, mask>>
  /\ UNCHANGED <<prog, start, act, flag, jmpbuf, kid, sent>>

Continue ==
  /\ out = "stopped" /\ out' = "run" /\ pending' = pending \ {"TSTP"}
  /\ UNCHANGED <<prog, start, stack, act, mask, flag, jmpbuf, kid, sent>>
-----------------------------------------------------------------------------
\* The actions the caller of abort, system or sigtstp may have set.
Given(p, s) ==
  CASE p = "abort" /\ s = "ABRT" -> {"dfl", "ign", "catch"}
    [] p \in {"system", "proc_system"} /\ s = "INT" -> {"dfl", "ign", "catch"}
    [] p \in {"system", "proc_system"} /\ s = "CHLD" -> {"dfl", "catch"}
    [] p = "sigtstp" /\ s = "TSTP" -> {"dfl", "ign"}
    [] OTHER -> {"dfl"}

Init ==
  /\ prog \in Programs
  /\ start \in {[act |-> a, mask |-> m] :
                  a \in {f \in [Sigs -> {"dfl", "ign", "catch"}] :
                           \A s \in Sigs : f[s] \in Given(prog, s)},
                  m \in IF prog = "abort" THEN {{}, {"ABRT"}} ELSE {{}}}
  /\ act = start.act /\ mask = start.mask
  /\ stack = << [of |-> "main", pc |-> 1, in |-> FALSE, ret |-> {}] >>
  /\ pending = {} /\ flag = FALSE /\ jmpbuf = {} /\ out = "run" /\ sent = <<>>
  /\ kid = [pc |-> "none", act |-> start.act, mask |-> {}]

Process ==
  \/ Sigaction \/ sigprocmask \/ SetFlag \/ Branch \/ Enter \/ Leave \/ Raise
  \/ sigsetjmp \/ siglongjmp \/ HandlerReturns \/ fork \/ exit \/ Continue
  \/ \E s \in Sigs : Deliver(s)
Next == Process \/ Child \/ \E s \in Sigs : Send(s)
-----------------------------------------------------------------------------
\* A program that exits has the signal mask it was started with, whatever was
\* delivered on the way, and system has put back the caller's actions.
MaskRestored ==
  out = "exit" => mask = start.mask /\ (prog = "system" => act = start.act)

\* siglongjmp only to where sigsetjmp has been.
JumpIsSet == ins.op = "siglongjmp" => jmpbuf # {}

\* abort ends the program with SIGABRT or not at all (an earlier signal may
\* end it), and what stdio holds has been written by then.
AbortAborts == prog = "abort" => out \in {"run", "INT", "ABRT"} /\ (out = "ABRT" => flag)

\* While the command of signals/system.c runs, SIGINT, SIGQUIT and SIGCHLD
\* reach no handler of the caller and do not end it; the command itself has
\* the caller's actions and mask.
CommandAlone ==
  prog = "system" /\ kid.pc = "run" =>
    /\ out = "run" /\ Len(stack) = 1
    /\ kid.act = start.act /\ kid.mask = start.mask

\* sig_tstp is in place again whenever main runs, also when a second SIGTSTP
\* came while the first was handled.
HandlerBack ==
  prog = "sigtstp" /\ Len(stack) = 1 /\ top.pc > 2 =>
    act["TSTP"] = IF start.act["TSTP"] = "dfl" THEN "catch" ELSE "ign"

\* SIGQUIT has been sent to suspend2.c, or abort called, and the program runs.
MustEnd ==
  /\ out \in {"run", "stopped"}
  /\ prog = "abort" \/ (prog = "suspend2" /\ \E k \in DOMAIN sent : sent[k] = "QUIT")
=============================================================================
