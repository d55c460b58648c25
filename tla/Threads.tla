------------------------------ MODULE Threads -------------------------------
(***************************************************************************)
(* Thread programs built on mutexes and condition variables:               *)
(* threadctl/suspend.c, threads/condvar.c, threads/barrier.c, the barrier  *)
(* of Chapter11/exercise_5.c, threadctl/timeout.c, and the fork handlers   *)
(* of threadctl/atfork.c (also Chapter12/figure_12.17.c).  A thread is the *)
(* list of its calls.  pthread_cond_wait may also return by itself.        *)
(***************************************************************************)
EXTENDS Integers, Sequences

CONSTANTS
  Programs,     \* the programs to consider
  MaxMsg,       \* messages enqueued in condvar.c
  MaxSpurious   \* bound on wake-ups that no call of signal or broadcast caused

VARIABLES
  prog,      \* the program
  pc,        \* each thread's place in its code
  st,        \* "run", "waiting" on the condition, "woken"
  owner,     \* of each mutex: the thread and how often it holds it
  data,      \* the program's shared data
  spurious   \* spurious wake-ups so far

vars == <<prog, pc, st, owner, data, spurious>>

ThreadsAssumption == MaxMsg \in Nat /\ MaxSpurious \in Nat

T == {"main", "t1", "t2"}
NTHR == 2  \* threads made by main; with it all of T come to the barrier
Mutexes == {"lock1", "lock2"}
I(op) == [op |-> op, m |-> "lock1"]
Lock(m) == [op |-> "lock", m |-> m]
Unlock(m) == [op |-> "unlock", m |-> m]
L == Lock("lock1")
U == Unlock("lock1")
E == I("end")
-----------------------------------------------------------------------------
(* suspend.c *)
suspend_main == <<L, I("until_flag"), U, I("clear"), E>>
suspend_thr_fn == <<I("sigwait"), L, I("set"), U, I("signal"), E>>

(* condvar.c *)
process_msg_if == <<L, I("once_workq"), I("take"), U, I("again")>>
process_msg == <<L, I("until_workq"), I("take"), U, I("again")>>
enqueue_msg == <<L, I("push"), U, I("signal"), I("again")>>

(* barrier.c, and my_barrier_wait of exercise_5.c *)
barrier_thr_fn == <<I("sort"), I("arrive"), I("pass"), E>>
barrier_main == <<I("arrive"), I("pass"), I("merge"), E>>
my_barrier_wait == <<L, I("dec"), I("once_count"), U, I("broadcast"), I("passed"), E>>

(* timeout.c: timeout calls retry, from 5 on, or makes a thread that does *)
timeout_main == <<L, I("timeout"), U, E, L, I("retry"), U, I("return")>>
timeout_helper == <<I("created"), L, I("retry"), U, E>>

(* atfork.c and figure_12.17.c *)
prepare == <<L, Lock("lock2")>>
parent == <<U, Unlock("lock2"), E>>
atfork_main == prepare \o <<I("fork")>> \o parent
figure_12_17 == <<L, Lock("lock2"), I("fork"), U, Unlock("lock2"), E>>
\* another thread of a program that uses these locks, in their order; for a
\* while it holds the second one alone (external)
locker == <<L, Lock("lock2"), U, Unlock("lock2"), E>>

Code(t) ==
  CASE prog = "suspend" -> IF t = "main" THEN suspend_main
                           ELSE IF t = "t1" THEN suspend_thr_fn ELSE <<E>>
    [] prog = "condvar" -> IF t = "main" THEN enqueue_msg ELSE process_msg
    [] prog = "barrier" -> IF t = "main" THEN barrier_main ELSE barrier_thr_fn
    [] prog = "exercise_5" -> my_barrier_wait
    [] prog = "timeout" -> IF t = "main" THEN timeout_main
                           ELSE IF t = "t1" THEN timeout_helper ELSE <<E>>
    [] prog = "atfork" -> IF t = "main" THEN atfork_main
                          ELSE IF t = "t1" THEN locker ELSE <<E>>
    [] prog = "figure_12_17" -> IF t = "main" THEN figure_12_17
                                ELSE IF t = "t1" THEN locker ELSE <<E>>
-----------------------------------------------------------------------------
ins(t) == Code(t)[pc[t]]
At(t, ops) == st[t] = "run" /\ ins(t).op \in ops
Go(t, n) == pc' = [pc EXCEPT ![t] = n]
Step(t) == Go(t, pc[t] + 1)
Free == [by |-> "none", n |-> 0]

\* The mutex of timeout.c is recursive, the others are not.
MayLock(t, m) == owner[m] = Free \/ (prog = "timeout" /\ owner[m].by = t)

lock(t) ==
  /\ At(t, {"lock"}) /\ MayLock(t, ins(t).m)
  /\ owner' = [owner EXCEPT ![ins(t).m] = [by |-> t, n |-> @.n + 1]]
  /\ Step(t) /\ UNCHANGED <<prog, st, data, spurious>>

Released(m) == [owner EXCEPT ![m] = IF @.n = 1 THEN Free ELSE [by |-> @.by, n |-> @.n - 1]]

unlock(t) ==
  /\ At(t, {"unlock"})
  /\ owner' = Released(ins(t).m)
  /\ Step(t) /\ UNCHANGED <<prog, st, data, spurious>>

\* while (...) pthread_cond_wait or, for "once", if (...).
Holds(op) ==
  CASE op = "until_flag" -> data.flag
    [] op \in {"until_workq", "once_workq"} -> data.workq # <<>>
    [] op = "once_count" -> data.count <= 0

cond_wait(t) ==
  /\ At(t, {"until_flag", "until_workq", "once_workq", "once_count"})
  /\ IF Holds(ins(t).op)
     THEN Step(t) /\ UNCHANGED <<st, owner>>
     ELSE /\ st' = [st EXCEPT ![t] = "waiting"] /\ owner' = Released("lock1")
          /\ UNCHANGED pc
  /\ UNCHANGED <<prog, data, spurious>>

\* The woken thread takes the mutex again; "once" does not look again.
relock(t) ==
  /\ st[t] = "woken" /\ owner["lock1"] = Free
  /\ owner' = [owner EXCEPT !["lock1"] = [by |-> t, n |-> 1]]
  /\ st' = [st EXCEPT ![t] = "run"]
  /\ IF ins(t).op \in {"once_workq", "once_count"} THEN Step(t) ELSE UNCHANGED pc
  /\ UNCHANGED <<prog, data, spurious>>

Waiters == {t \in T : st[t] = "waiting"}

signal(t) ==
  /\ At(t, {"signal"})
  /\ \/ Waiters = {} /\ UNCHANGED st
     \/ \E w \in Waiters : st' = [st EXCEPT ![w] = "woken"]
  /\ Step(t) /\ UNCHANGED <<prog, owner, data, spurious>>

broadcast(t) ==
  /\ At(t, {"broadcast"})
  /\ st' = [w \in T |-> IF st[w] = "waiting" THEN "woken" ELSE st[w]]
  /\ Step(t) /\ UNCHANGED <<prog, owner, data, spurious>>

Spurious ==
  /\ spurious < MaxSpurious /\ spurious' = spurious + 1
  /\ \E w \in Waiters : st' = [st EXCEPT ![w] = "woken"]
  /\ UNCHANGED <<prog, pc, owner, data>>
-----------------------------------------------------------------------------
\* Everything between the calls: what it does to the shared data.
Compute(t) ==
  LET op == ins(t).op
  IN  /\ At(t, {"set", "clear", "take", "push", "dec", "sort", "arrive", "merge", "passed", "retry"})
      /\ data' = CASE op = "set" -> [data EXCEPT !.flag = TRUE]
                   [] op = "clear" -> [data EXCEPT !.flag = FALSE]
                   [] op = "push" -> [data EXCEPT !.workq = <<data.n + 1>> \o @, !.n = @ + 1]
                   [] op = "take" /\ data.workq = <<>> -> [data EXCEPT !.bad = TRUE]
                   [] op = "take" /\ data.workq # <<>> ->
                        [data EXCEPT !.workq = Tail(@), !.taken = Append(@, Head(data.workq))]
                   [] op = "dec" -> [data EXCEPT !.count = @ - 1, !.arrived = @ \cup {t},
                                                 !.serial = IF data.count = 1 THEN @ + 1 ELSE @]
                   [] op = "arrive" -> [data EXCEPT !.arrived = @ \cup {t}]
                   [] op = "sort" -> [data EXCEPT !.sorted = @ \cup {t}]
                   [] op = "merge" -> [data EXCEPT !.bad = data.sorted # {"t1", "t2"}]
                   [] op = "passed" -> [data EXCEPT !.bad = @ \/ data.arrived # T]
                   [] op = "retry" -> [data EXCEPT !.n = @ + 1]
      /\ Step(t) /\ UNCHANGED <<prog, st, owner, spurious>>

\* pthread_barrier_wait returns when NTHR+1 threads have called it (external).
pass(t) ==
  /\ At(t, {"pass"}) /\ data.arrived = T
  /\ Step(t) /\ UNCHANGED <<prog, st, owner, data, spurious>>

\* sigwait takes a pending signal: SIGINT is only printed.
sigwait(t) ==
  /\ At(t, {"sigwait"})
  /\ \E s \in data.pending :
       /\ data' = [data EXCEPT !.pending = @ \ {s}]
       /\ IF s = "QUIT" THEN Step(t) ELSE UNCHANGED pc
  /\ UNCHANGED <<prog, st, owner, spurious>>

\* The next message, or the next turn of process_msg.
Again(t) ==
  /\ At(t, {"again"}) /\ (t = "main" => data.n < MaxMsg)
  /\ Go(t, 1) /\ UNCHANGED <<prog, st, owner, data, spurious>>

\* timeout: a thread, or when that fails or the time has passed the function
\* itself; "return" comes back from it.
timeout(t) ==
  /\ At(t, {"timeout"})
  /\ \/ data' = [data EXCEPT !.created = TRUE] /\ Step(t)
     \/ Go(t, 5) /\ UNCHANGED data
  /\ UNCHANGED <<prog, st, owner, spurious>>

Control(t) ==
  /\ \/ At(t, {"created"}) /\ data.created /\ Step(t)
     \/ At(t, {"return"}) /\ Go(t, 3)
  /\ UNCHANGED <<prog, st, owner, data, spurious>>

\* fork: the child has the mutexes as they are, and only the calling thread;
\* its handler unlocks what prepare locked.
child_fn(own) == [m \in Mutexes |-> IF own[m].by = "main" THEN Free ELSE own[m]]

fork(t) ==
  /\ At(t, {"fork"})
  /\ data' = [data EXCEPT !.child = {child_fn(owner)}]
  /\ Step(t) /\ UNCHANGED <<prog, st, owner, spurious>>

Send(s) ==
  /\ prog = "suspend" /\ s \notin data.sent
  /\ data' = [data EXCEPT !.pending = @ \cup {s}, !.sent = @ \cup {s}]
  /\ UNCHANGED <<prog, pc, st, owner, spurious>>
-----------------------------------------------------------------------------
Init ==
  /\ prog \in Programs
  /\ pc = [t \in T |-> 1] /\ st = [t \in T |-> "run"]
  /\ owner = [m \in Mutexes |-> Free]
  /\ data = [flag |-> FALSE, pending |-> {}, sent |-> {}, workq |-> <<>>, taken |-> <<>>,
             n |-> 0, count |-> NTHR + 1, arrived |-> {}, serial |-> 0, sorted |-> {},
             created |-> FALSE, child |-> {}, bad |-> FALSE]
  /\ spurious = 0

Thread(t) ==
  \/ lock(t) \/ unlock(t) \/ cond_wait(t) \/ relock(t) \/ signal(t) \/ broadcast(t)
  \/ Compute(t) \/ pass(t) \/ sigwait(t) \/ Again(t) \/ timeout(t) \/ Control(t) \/ fork(t)

Next == (\E t \in T : Thread(t)) \/ Spurious \/ \E s \in {"INT", "QUIT"} : Send(s)
-----------------------------------------------------------------------------
Ended(t) == ins(t).op = "end"

\* No thread is past the barrier, and merge does not begin, before all have
\* arrived and sorted; exactly one is the serial thread.  my_barrier_wait looks
\* at the count only once, so a spurious wake-up lets a thread through early.
NobodyEarly ==
  prog \in {"barrier", "exercise_5"} =>
    /\ (prog = "exercise_5" => spurious = 0) => ~data.bad
    /\ prog = "exercise_5" /\ (\A t \in T : Ended(t)) => data.serial = 1

\* process_msg never takes from an empty queue, and takes each message once.
TakenOnce ==
  prog = "condvar" =>
    /\ ~data.bad
    /\ \A i, j \in DOMAIN data.taken : data.taken[i] = data.taken[j] => i = j

\* After the fork handlers no mutex is locked in the child, whatever the other
\* threads were doing, so the child can use them.
ChildMayLock == \A own \in data.child : \A m \in Mutexes : own[m] = Free

\* retry runs once for a call of timeout, and when main calls timeout with the
\* mutex held, no other thread is in retry before main lets go.
RetryAlone ==
  prog = "timeout" =>
    /\ data.n <= 1
    /\ At("main", {"timeout", "unlock"}) => ~At("t1", {"retry", "unlock"})

\* Something must still happen: a SIGQUIT to be seen, a message to be taken, a
\* barrier all threads come to, the end of timeout's and fork's callers.
Unfinished ==
  CASE prog = "suspend" -> "QUIT" \in data.sent /\ ~Ended("main")
    [] prog = "condvar" -> data.workq # <<>>
    [] OTHER -> ~Ended("main")
=============================================================================
