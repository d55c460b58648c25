------------------------------- MODULE Daemon -------------------------------
(***************************************************************************)
(* Daemons that run once and reread their configuration on SIGHUP:         *)
(* daemons/init.c (daemonize), single.c, reread.c (a thread in sigwait)    *)
(* and reread2.c (handlers), and Chapter13/exercise_4.c.  A copy of the    *)
(* daemon is followed through the processes daemonize forks.               *)
(***************************************************************************)
EXTENDS Integers

CONSTANTS
  Copies,    \* copies of the daemon that are started
  Programs,  \* the programs to consider: "reread", "reread2", "exercise_4"
  MaxSig     \* bound on the signals sent

VARIABLES
  prog,     \* the program all copies run
  pc,       \* where each copy is
  proc,     \* session leader? controlling terminal? actions and mask
  pending,  \* SIGHUP and SIGTERM pending for each copy
  in,       \* is reread running?
  out,      \* how a copy ended, or "alive"
  lock,     \* the copies that hold the lock on LOCKFILE
  pidfile,  \* the process id in LOCKFILE, or "empty"
  due,      \* SIGHUP was sent since reread last began
  nsig      \* signals sent

vars == <<prog, pc, proc, pending, in, out, lock, pidfile, due, nsig>>

Alive(d) == out[d] = "alive"
\* A step of the program from l to m, not while a handler runs.
Step(d, l, m) ==
  Alive(d) /\ pc[d] = l /\ ~(prog = "reread2" /\ in[d]) /\ pc' = [pc EXCEPT ![d] = m]

\* Death by a signal or exit: the lock is released.
Die(d, how) ==
  /\ out' = [out EXCEPT ![d] = how] /\ lock' = lock \ {d}
  /\ due' = [due EXCEPT ![d] = FALSE]
  /\ UNCHANGED <<prog, pc, proc, in, pidfile, nsig>>
-----------------------------------------------------------------------------
(* daemonize *)
fork_setsid(d) ==
  /\ Step(d, "start", "leader")
  /\ proc' = [proc EXCEPT ![d].leader = TRUE, ![d].tty = FALSE]
  /\ UNCHANGED <<prog, pending, in, out, lock, pidfile, due, nsig>>

hup_ignored(p) == [p EXCEPT !.hup = "ign"]

ignore_hup(d) ==
  /\ Step(d, "leader", "ignoring")
  /\ proc' = [proc EXCEPT ![d] = hup_ignored(@)]
  /\ pending' = [pending EXCEPT ![d] = @ \ {"HUP"}]
  /\ UNCHANGED <<prog, in, out, lock, pidfile, due, nsig>>

not_leader(p) == [p EXCEPT !.leader = FALSE]

\* Signals that were pending for the parent are not inherited.
fork_again(d) ==
  /\ Step(d, "ignoring", "daemon")
  /\ proc' = [proc EXCEPT ![d] = not_leader(@)]
  /\ pending' = [pending EXCEPT ![d] = {}]
  /\ UNCHANGED <<prog, in, out, lock, pidfile, due, nsig>>

\* chdir, close of all descriptors, 0 to 2 on /dev/null; exit if that fails.
null_stdio(d) ==
  \/ /\ Step(d, "daemon", IF prog = "exercise_4" THEN "run" ELSE "open")
     /\ UNCHANGED <<prog, proc, pending, in, out, lock, pidfile, due, nsig>>
  \/ Alive(d) /\ pc[d] = "daemon" /\ Die(d, "exit") /\ UNCHANGED pending
-----------------------------------------------------------------------------
(* already_running *)
\* F_SETLK: refused when another copy has the lock; locks are not inherited.
lockfile(d) == lock \subseteq {d}

open_creat == pidfile

open(d) ==
  /\ Step(d, "open", "lockfile") /\ pidfile' = open_creat
  /\ UNCHANGED <<prog, proc, pending, in, out, lock, due, nsig>>

already_running(d) ==
  \/ /\ lockfile(d) /\ Step(d, "lockfile", "ftruncate") /\ lock' = lock \cup {d}
     /\ UNCHANGED <<prog, proc, pending, in, out, pidfile, due, nsig>>
  \/ /\ ~lockfile(d) /\ Alive(d) /\ pc[d] = "lockfile"
     /\ Die(d, "exit") /\ UNCHANGED pending

ftruncate(d) ==
  /\ Step(d, "ftruncate", "write") /\ pidfile' = "empty"
  /\ UNCHANGED <<prog, proc, pending, in, out, lock, due, nsig>>

write(d) ==
  /\ Step(d, "write", "signals") /\ pidfile' = d
  /\ UNCHANGED <<prog, proc, pending, in, out, lock, due, nsig>>
-----------------------------------------------------------------------------
(* The signals: reread.c gives SIGHUP its default action, blocks everything
   and starts thr_fn; reread2.c installs sigterm, then sighup. *)
default_hup(d) ==
  /\ prog = "reread" /\ Step(d, "signals", "block")
  /\ proc' = [proc EXCEPT ![d].hup = "dfl"]
  /\ UNCHANGED <<prog, pending, in, out, lock, pidfile, due, nsig>>

block_all(d) ==
  /\ prog = "reread" /\ Step(d, "block", "run")
  /\ proc' = [proc EXCEPT ![d].blocked = TRUE]
  /\ UNCHANGED <<prog, pending, in, out, lock, pidfile, due, nsig>>

catch_term(d) ==
  /\ prog = "reread2" /\ Step(d, "signals", "hup")
  /\ proc' = [proc EXCEPT ![d].term = "catch"]
  /\ UNCHANGED <<prog, pending, in, out, lock, pidfile, due, nsig>>

catch_hup(d) ==
  /\ prog = "reread2" /\ Step(d, "hup", "run")
  /\ proc' = [proc EXCEPT ![d].hup = "catch"]
  /\ UNCHANGED <<prog, pending, in, out, lock, pidfile, due, nsig>>

reread(d) == in' = [in EXCEPT ![d] = TRUE] /\ due' = [due EXCEPT ![d] = FALSE]

\* reread.c: sigwait takes the next signal when reread has returned.
thr_fn(d) ==
  /\ prog = "reread" /\ Alive(d) /\ pc[d] = "run" /\ ~in[d]
  /\ \E s \in pending[d] :
       /\ pending' = [pending EXCEPT ![d] = @ \ {s}]
       /\ \/ s = "HUP" /\ reread(d) /\ UNCHANGED <<prog, pc, proc, out, lock, pidfile, nsig>>
          \/ s = "TERM" /\ Die(d, "term")

\* reread2.c: sa_mask keeps each handler from interrupting the other.
sa_mask(d) == IF in[d] THEN {"HUP", "TERM"} ELSE {}

Action(d, s) == IF s = "HUP" THEN proc[d].hup ELSE proc[d].term

sighup(d) ==
  /\ Alive(d) /\ "HUP" \in pending[d] \ sa_mask(d) /\ Action(d, "HUP") = "catch"
  /\ pending' = [pending EXCEPT ![d] = @ \ {"HUP"}]
  /\ reread(d)
  /\ UNCHANGED <<prog, pc, proc, out, lock, pidfile, nsig>>

sigterm(d) ==
  /\ Alive(d) /\ "TERM" \in pending[d] \ sa_mask(d) /\ Action(d, "TERM") = "catch"
  /\ Die(d, "term") /\ UNCHANGED pending

Kill(d) ==
  /\ Alive(d) /\ ~proc[d].blocked
  /\ \E s \in pending[d] :
       /\ Action(d, s) = "dfl"
       /\ Die(d, IF s = "HUP" THEN "hup" ELSE "term")
  /\ UNCHANGED pending

RereadReturns(d) ==
  /\ Alive(d) /\ in[d] /\ in' = [in EXCEPT ![d] = FALSE]
  /\ UNCHANGED <<prog, pc, proc, pending, out, lock, pidfile, due, nsig>>
-----------------------------------------------------------------------------
\* A signal from outside; HUP also when the session leader ends.
Send(d, s) ==
  /\ Alive(d) /\ nsig < MaxSig
  /\ nsig' = nsig + 1
  /\ pending' = IF Action(d, s) = "ign" THEN pending ELSE [pending EXCEPT ![d] = @ \cup {s}]
  /\ due' = [due EXCEPT ![d] = @ \/ (s = "HUP" /\ pc[d] = "run" /\ prog # "exercise_4")]
  /\ UNCHANGED <<prog, pc, proc, in, out, lock, pidfile>>

\* The daemon opens a terminal without O_NOCTTY.
OpenTerminal(d) ==
  /\ Alive(d) /\ pc[d] = "run" /\ proc[d].leader
  /\ proc' = [proc EXCEPT ![d].tty = TRUE]
  /\ UNCHANGED <<prog, pc, pending, in, out, lock, pidfile, due, nsig>>

\* The rest of main, which ends with exit; a crash at any point.
Exit(d) == Alive(d) /\ Die(d, IF pc[d] = "run" THEN "exit" ELSE "crash") /\ UNCHANGED pending

Init ==
  /\ prog \in Programs
  /\ pc = [d \in Copies |-> "start"]
  /\ proc = [d \in Copies |-> [leader |-> FALSE, tty |-> TRUE, hup |-> "dfl",
                               term |-> "dfl", blocked |-> FALSE]]
  /\ pending = [d \in Copies |-> {}]
  /\ in = [d \in Copies |-> FALSE] /\ out = [d \in Copies |-> "alive"]
  /\ lock = {} /\ pidfile = "empty"
  /\ due = [d \in Copies |-> FALSE] /\ nsig = 0

Running(d) ==
  \/ fork_setsid(d) \/ ignore_hup(d) \/ fork_again(d) \/ null_stdio(d)
  \/ open(d) \/ already_running(d) \/ ftruncate(d) \/ write(d)
  \/ default_hup(d) \/ block_all(d) \/ catch_term(d) \/ catch_hup(d)
  \/ thr_fn(d) \/ sighup(d) \/ sigterm(d) \/ Kill(d) \/ RereadReturns(d)

Next ==
  \E d \in Copies :
    \/ Running(d) \/ OpenTerminal(d) \/ Exit(d)
    \/ \E s \in {"HUP", "TERM"} : Send(d, s)
-----------------------------------------------------------------------------
Serving == {d \in Copies : Alive(d) /\ pc[d] \in {"signals", "block", "hup", "run"}}

\* Of the copies started at any time, with crashes in between, at most one
\* gets past already_running, and LOCKFILE holds its process id.
SingleDaemon ==
  prog # "exercise_4" => \A d, e \in Serving : d = e /\ pidfile = d

\* A daemon never gets a controlling terminal, whatever it opens.
NoTerminal == \A d \in Copies : pc[d] = "run" => ~proc[d].tty

\* SIGHUP ends a copy only before daemonize ignores it, and in reread.c between
\* the default action and the mask.
HupSafe == \A d \in Copies : out[d] = "hup" => pc[d] \in {"start", "leader", "block"}

\* SIGTERM never cuts reread short.
RereadWhole == \A d \in Copies : out[d] = "term" /\ pc[d] = "run" => ~in[d]

\* A SIGHUP the running daemon has not acted on yet.
Due(d) == due[d]
=============================================================================
