------------------------------ MODULE JobQueue ------------------------------
(***************************************************************************)
(* The job queue of apue.3e/threads/rwlock.c (a doubly linked list, each   *)
(* operation under the queue's lock) as Chapter11/exercise_3.c uses it:    *)
(* every worker waits on a condition variable for the job that has its     *)
(* thread ID.  Job j is the one main makes for worker j.                   *)
(***************************************************************************)
EXTENDS Naturals

CONSTANTS NUM_THREADS, NoJob \* NoJob: the null pointer to a job

Workers == 0..(NUM_THREADS - 1)

ASSUME QueueAssumption == NUM_THREADS \in Nat \ {0} /\ NoJob \notin Workers

VARIABLES
  q,       \* [head, tail, next, prev]: the queue and the links of the jobs
  made,    \* jobs main has scheduled
  mpc,     \* main: "create", "schedule", "broadcast", "join", "exit"
  wpc,     \* worker -> "none", "find", "wait", "work", "free", "done"
  mem      \* job -> "none", "made", "freed"

queueVars == <<q, made, mpc, wpc, mem>>

QueueInit ==
  /\ q = [head |-> NoJob, tail |-> NoJob,
          next |-> [j \in Workers |-> NoJob], prev |-> [j \in Workers |-> NoJob]]
  /\ made = 0
  /\ mpc = "create"
  /\ wpc = [w \in Workers |-> "none"]
  /\ mem = [j \in Workers |-> "none"]
-----------------------------------------------------------------------------
(* The list, between lock and unlock. *)

job_insert(j) ==
  LET prev == [q.prev EXCEPT ![j] = NoJob]
  IN [head |-> j, next |-> [q.next EXCEPT ![j] = q.head],
      prev |-> IF q.head # NoJob THEN [prev EXCEPT ![q.head] = j] ELSE prev,
      tail |-> IF q.head # NoJob THEN q.tail ELSE j]

job_append(j) ==
  LET next == [q.next EXCEPT ![j] = NoJob]
  IN [tail |-> j, prev |-> [q.prev EXCEPT ![j] = q.tail],
      next |-> IF q.tail # NoJob THEN [next EXCEPT ![q.tail] = j] ELSE next,
      head |-> IF q.tail # NoJob THEN q.head ELSE j]

job_remove(j) ==
  LET n == q.next[j]
      p == q.prev[j]
  IN IF j = q.head /\ j = q.tail THEN [q EXCEPT !.head = n, !.tail = NoJob]
     ELSE IF j = q.head THEN [q EXCEPT !.head = n, !.prev[n] = p]
     ELSE IF j = q.tail THEN [q EXCEPT !.tail = p, !.next[p] = n]
     ELSE [q EXCEPT !.next[p] = n, !.prev[n] = p]

\* The jobs met from j on along one kind of link, NoJob once past the end.
Follow(j, link) ==
  LET f[n \in 0..NUM_THREADS] ==
        IF n = 0 THEN j ELSE IF f[n-1] = NoJob THEN NoJob ELSE link[f[n-1]]
  IN f
Met(j, link) == {Follow(j, link)[n] : n \in 0..NUM_THREADS} \ {NoJob}
-----------------------------------------------------------------------------
(* main *)

Create(w) ==
  /\ mpc = "create" /\ wpc[w] = "none"
  /\ \A v \in 0..(w - 1) : wpc[v] # "none"
  /\ wpc' = [wpc EXCEPT ![w] = "find"]
  /\ mpc' = IF w = NUM_THREADS - 1 THEN "schedule" ELSE mpc
  /\ UNCHANGED <<q, made, mem>>

Schedule ==
  /\ mpc = "schedule"
  /\ q' = IF made % 2 = 0 THEN job_insert(made) ELSE job_append(made)
  /\ mem' = [mem EXCEPT ![made] = "made"]
  /\ made' = made + 1
  /\ mpc' = "broadcast"
  /\ UNCHANGED wpc

\* Mutant: pthread_cond_signal wakes one waiting thread, if there is one.
SignalOne ==
  /\ mpc = "broadcast"
  /\ \/ \E w \in Workers : wpc[w] = "wait" /\ wpc' = [wpc EXCEPT ![w] = "find"]
     \/ (\A w \in Workers : wpc[w] # "wait") /\ UNCHANGED wpc
  /\ mpc' = IF made = NUM_THREADS THEN "join" ELSE "schedule"
  /\ UNCHANGED <<q, made, mem>>

\* pthread_cond_broadcast, after the lock was released
Broadcast ==
  /\ mpc = "broadcast"
  /\ wpc' = [w \in Workers |-> IF wpc[w] = "wait" THEN "find" ELSE wpc[w]]
  /\ mpc' = IF made = NUM_THREADS THEN "join" ELSE "schedule"
  /\ UNCHANGED <<q, made, mem>>

Join ==
  /\ mpc = "join" /\ \A w \in Workers : wpc[w] = "done"
  /\ mpc' = "exit"
  /\ UNCHANGED <<q, made, wpc, mem>>
-----------------------------------------------------------------------------
(* worker_thread *)

\* The search under the lock; pthread_cond_wait releases it and sleeps at once.
job_find(w) ==
  /\ wpc[w] = "find"
  /\ wpc' = [wpc EXCEPT ![w] = IF w \in Met(q.head, q.next) THEN "work" ELSE "wait"]
  /\ UNCHANGED <<q, made, mpc, mem>>

\* pthread_cond_wait may return without a reason.
Spurious(w) ==
  /\ wpc[w] = "wait"
  /\ wpc' = [wpc EXCEPT ![w] = "find"]
  /\ UNCHANGED <<q, made, mpc, mem>>

Remove(w) ==
  /\ wpc[w] = "work"
  /\ q' = job_remove(w)
  /\ wpc' = [wpc EXCEPT ![w] = "free"]
  /\ UNCHANGED <<made, mpc, mem>>

Free(w) ==
  /\ wpc[w] = "free"
  /\ mem' = [mem EXCEPT ![w] = "freed"]
  /\ wpc' = [wpc EXCEPT ![w] = "done"]
  /\ UNCHANGED <<q, made, mpc>>
-----------------------------------------------------------------------------
QueueNext ==
  \/ Schedule \/ Broadcast \/ Join
  \/ \E w \in Workers : Create(w) \/ job_find(w) \/ Spurious(w) \/ Remove(w) \/ Free(w)

QueueSpec == QueueInit /\ [][QueueNext]_queueVars
-----------------------------------------------------------------------------
(* Properties. *)

(* The list is whole in both directions, whatever the order of insertions at
   both ends and removals anywhere: next and prev mirror each other, and
   exactly the jobs scheduled and not yet removed are on it, none freed. *)
QueueWhole ==
  LET on == Met(q.head, q.next)
  IN /\ on = {w \in Workers : w < made /\ wpc[w] \notin {"free", "done"}}
     /\ on = Met(q.tail, q.prev)
     /\ \A j \in on : mem[j] = "made"
     /\ \A j \in on : q.next[j] = NoJob <=> j = q.tail
     /\ \A j \in on : q.prev[j] = NoJob <=> j = q.head
     /\ \A j \in on : q.next[j] # NoJob => q.prev[q.next[j]] = j

(* No wake-up is lost although main broadcasts after it has released the lock:
   a worker asleep while its job is queued is about to be woken. *)
NoLostWakeup ==
  \A w \in Workers : wpc[w] = "wait" /\ mem[w] = "made" => mpc = "broadcast"

(* The queue hands every job to its worker: job_insert, job_append and job_remove
   lose none from the list, and no worker sleeps in job_find over its own. *)
QueueServes == QueueWhole /\ NoLostWakeup
=============================================================================
