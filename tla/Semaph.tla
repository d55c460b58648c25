------------------------------- MODULE Semaph -------------------------------
(***************************************************************************)
(* The counting semaphores of apue.3e/lib/semaph.c, built on one System V  *)
(* semaphore set of three members: the value, a counter of the processes   *)
(* that have it open, and a lock for sem_create and sem_close.  All the    *)
(* processes use the same key.                                             *)
(*                                                                         *)
(* One action is one semget, semop or semctl call.  The kernel's part is   *)
(* modelled from its use: a semop applies all its operations or sleeps,    *)
(* SEM_UNDO is applied when a process ends, SETVAL clears the adjustments  *)
(* of that member, and IPC_RMID fails the sleepers with EIDRM and later    *)
(* calls with EINVAL.                                                      *)
(***************************************************************************)
EXTENDS Integers, FiniteSets

CONSTANTS
  Procs,
  Ops,      \* process -> the calls it makes
  InitVal,  \* initval of sem_create
  BIGCOUNT,
  MaxSets,  \* bound on the semaphore sets created for the key
  MaxKills  \* bound on the processes killed from outside

\* What the model assumes of its constants.
SemaphAssumption ==
  /\ IsFiniteSet(Procs)
  /\ Ops \in [Procs -> SUBSET {"create", "open", "rm"}]
  /\ InitVal \in Nat /\ MaxSets \in Nat /\ MaxKills \in Nat
  /\ BIGCOUNT \in Nat /\ BIGCOUNT > Cardinality(Procs)

ASSUME SemaphConstants == SemaphAssumption

VARIABLES
  cur,    \* identifier of the newest set (0: none yet)
  exists, \* it has not been removed
  sem,    \* its members: val [0], cnt [1], lock [2]
  adj,    \* process -> its SEM_UNDO adjustments for that set
  spc,    \* process -> next system call
  id,     \* process -> identifier it has, 0: none
  asleep, \* processes sleeping in semop
  kills   \* processes killed from outside

kernel == <<cur, exists, sem, adj>>
semVars == <<cur, exists, sem, adj, spc, id, asleep, kills>>

Members == {"val", "cnt", "lock"}
Zero == [val |-> 0, cnt |-> 0, lock |-> 0]

SemInit ==
  /\ cur = 0 /\ exists = FALSE
  /\ sem = Zero
  /\ adj = [p \in Procs |-> Zero]
  /\ spc = [p \in Procs |-> "idle"]
  /\ id = [p \in Procs |-> 0]
  /\ asleep = {}
  /\ kills = 0

SemAt(p, l) == spc[p] = l
SemJump(p, to) == spc' = [spc EXCEPT ![p] = to]
Valid(p) == exists /\ id[p] = cur
-----------------------------------------------------------------------------
(* The operation arrays: [wait] for the lock to be 0, then add [d]. *)

\* Mutant: no SEM_UNDO.
op_lock_kept == [wait |-> TRUE, d |-> [Zero EXCEPT !.lock = 1], undo |-> FALSE]

op_lock == [wait |-> TRUE, d |-> [Zero EXCEPT !.lock = 1], undo |-> TRUE]
op_endcreate == [wait |-> FALSE, d |-> [val |-> 0, cnt |-> -1, lock |-> -1], undo |-> TRUE]

op_open == [wait |-> FALSE, d |-> [Zero EXCEPT !.cnt = -1], undo |-> TRUE]
op_close == [wait |-> TRUE, d |-> [val |-> 0, cnt |-> 1, lock |-> 1], undo |-> TRUE]
op_unlock == [wait |-> FALSE, d |-> [Zero EXCEPT !.lock = -1], undo |-> TRUE]

op_op(v) == [wait |-> FALSE, d |-> [Zero EXCEPT !.val = v], undo |-> TRUE]

\* The array a process is about to give to semop.
OpOf(p) == CASE SemAt(p, "c_lock") -> op_lock      [] SemAt(p, "c_end") -> op_endcreate
             [] SemAt(p, "o_op") -> op_open        [] SemAt(p, "cl_op") -> op_close
             [] SemAt(p, "cl_unlock") -> op_unlock [] SemAt(p, "wait") -> op_op(-1)
             [] SemAt(p, "signal") -> op_op(1)
SemopPCs == {"c_lock", "c_end", "o_op", "cl_op", "cl_unlock", "wait", "signal"}
SemctlPCs == {"c_get", "c_init0", "c_init1", "cl_get", "cl_rm", "rm"}

CanDo(p) == LET o == OpOf(p)
            IN /\ o.wait => sem.lock = 0
               /\ \A m \in Members : sem[m] + o.d[m] >= 0

\* All operations of the array at once; the process goes on at [to].
semop(p, to) ==
  LET o == OpOf(p)
  IN /\ Valid(p) /\ CanDo(p)
     /\ sem' = [m \in Members |-> sem[m] + o.d[m]]
     /\ adj' = IF o.undo THEN [adj EXCEPT ![p] = [m \in Members |-> @[m] - o.d[m]]] ELSE adj
     /\ asleep' = asleep \ {p}
     /\ SemJump(p, to)
     /\ UNCHANGED <<cur, exists, kills>>

Sleep(p) ==
  /\ spc[p] \in SemopPCs /\ p \notin asleep
  /\ Valid(p) /\ ~CanDo(p)
  /\ asleep' = asleep \cup {p}
  /\ UNCHANGED <<kernel, spc, id, kills>>

SETVAL(p, m, v) ==
  /\ sem' = [sem EXCEPT ![m] = v]
  /\ adj' = [q \in Procs |-> [adj[q] EXCEPT ![m] = 0]]

IPC_RMID ==
  /\ exists' = FALSE
  /\ sem' = Zero
  /\ adj' = [p \in Procs |-> Zero]
  /\ UNCHANGED cur

\* The end of a process, by exit or by a signal: the kernel applies SEM_UNDO
\* and takes no value below 0.
Die(p) ==
  /\ sem' = [m \in Members |-> IF sem[m] + adj[p][m] < 0 THEN 0 ELSE sem[m] + adj[p][m]]
  /\ adj' = [adj EXCEPT ![p] = Zero]
  /\ SemJump(p, "dead")
  /\ id' = [id EXCEPT ![p] = 0]
  /\ asleep' = asleep \ {p}
  /\ UNCHANGED <<cur, exists>>
-----------------------------------------------------------------------------
(* sem_create *)

SemgetCreate(p) ==
  /\ \/ SemAt(p, "idle") /\ id[p] = 0 /\ "create" \in Ops[p]
     \/ SemAt(p, "again")
  /\ IF exists THEN UNCHANGED kernel
     ELSE /\ cur < MaxSets
          /\ cur' = cur + 1 /\ exists' = TRUE
          /\ UNCHANGED <<sem, adj>>
  /\ id' = [id EXCEPT ![p] = cur']
  /\ SemJump(p, "c_lock")
  /\ UNCHANGED <<asleep, kills>>

CreateLock(p) == SemAt(p, "c_lock") /\ semop(p, "c_get") /\ UNCHANGED id

\* semop failed with EINVAL: the set went away after semget.
CreateAgain(p) ==
  /\ SemAt(p, "c_lock") /\ ~Valid(p) /\ p \notin asleep
  /\ SemJump(p, "again")
  /\ UNCHANGED <<kernel, id, asleep, kills>>

\* Mutant: always initialises.
CreateGetvalBlind(p) ==
  /\ SemAt(p, "c_get") /\ Valid(p)
  /\ SemJump(p, "c_init0")
  /\ UNCHANGED <<kernel, id, asleep, kills>>

CreateGetval(p) ==
  /\ SemAt(p, "c_get") /\ Valid(p)
  /\ SemJump(p, IF sem.cnt = 0 THEN "c_init0" ELSE "c_end")
  /\ UNCHANGED <<kernel, id, asleep, kills>>

CreateSetval0(p) ==
  /\ SemAt(p, "c_init0") /\ Valid(p)
  /\ SETVAL(p, "val", InitVal)
  /\ SemJump(p, "c_init1")
  /\ UNCHANGED <<cur, exists, id, asleep, kills>>

CreateSetval1(p) ==
  /\ SemAt(p, "c_init1") /\ Valid(p)
  /\ SETVAL(p, "cnt", BIGCOUNT)
  /\ SemJump(p, "c_end")
  /\ UNCHANGED <<cur, exists, id, asleep, kills>>

EndCreate(p) == SemAt(p, "c_end") /\ semop(p, "idle") /\ UNCHANGED id
-----------------------------------------------------------------------------
(* sem_open *)

SemgetOpen(p) ==
  /\ SemAt(p, "idle") /\ id[p] = 0 /\ "open" \in Ops[p]
  /\ exists                                     \* else sem_open returns -1
  /\ id' = [id EXCEPT ![p] = cur]
  /\ SemJump(p, "o_op")
  /\ UNCHANGED <<kernel, asleep, kills>>

Open(p) == SemAt(p, "o_op") /\ semop(p, "idle") /\ UNCHANGED id
-----------------------------------------------------------------------------
(* sem_wait, sem_signal: the processes use the semaphore as a lock and signal
   only what they waited for. *)

CallOp(p) ==
  /\ SemAt(p, "idle") /\ id[p] # 0
  /\ SemJump(p, IF adj[p].val = 0 THEN "wait" ELSE "signal")
  /\ UNCHANGED <<kernel, id, asleep, kills>>

sem_op(p) ==
  /\ SemAt(p, "wait") \/ SemAt(p, "signal")
  /\ semop(p, "idle") /\ UNCHANGED id
-----------------------------------------------------------------------------
(* sem_close and sem_rm *)

CallClose(p) ==
  /\ SemAt(p, "idle") /\ id[p] # 0
  /\ SemJump(p, "cl_op")
  /\ UNCHANGED <<kernel, id, asleep, kills>>

CloseLock(p) == SemAt(p, "cl_op") /\ semop(p, "cl_get") /\ UNCHANGED id

\* Mutant: off by one.
CloseGetvalEarly(p) ==
  /\ SemAt(p, "cl_get") /\ Valid(p)
  /\ SemJump(p, IF sem.cnt >= BIGCOUNT - 1 THEN "cl_rm" ELSE "cl_unlock")
  /\ UNCHANGED <<kernel, id, asleep, kills>>

CloseGetval(p) ==
  /\ SemAt(p, "cl_get") /\ Valid(p)
  /\ IF sem.cnt > BIGCOUNT THEN Die(p)          \* err_dump
     ELSE /\ SemJump(p, IF sem.cnt = BIGCOUNT THEN "cl_rm" ELSE "cl_unlock")
          /\ UNCHANGED <<kernel, id, asleep>>
  /\ UNCHANGED kills

CloseRemove(p) ==
  /\ SemAt(p, "cl_rm") /\ Valid(p)
  /\ IPC_RMID
  /\ id' = [id EXCEPT ![p] = 0]
  /\ SemJump(p, "idle")
  /\ UNCHANGED <<asleep, kills>>

CloseUnlock(p) ==
  /\ SemAt(p, "cl_unlock")
  /\ semop(p, "idle")
  /\ id' = [id EXCEPT ![p] = 0]

CallRm(p) ==
  /\ SemAt(p, "idle") /\ id[p] # 0 /\ "rm" \in Ops[p]
  /\ SemJump(p, "rm")
  /\ UNCHANGED <<kernel, id, asleep, kills>>

sem_rm(p) ==
  /\ SemAt(p, "rm") /\ Valid(p)
  /\ IPC_RMID
  /\ id' = [id EXCEPT ![p] = 0]
  /\ SemJump(p, "idle")
  /\ UNCHANGED <<asleep, kills>>
-----------------------------------------------------------------------------
\* Every other failure is err_sys: EINVAL, or EIDRM for a process that slept.
Fails(p) ==
  /\ spc[p] \in SemopPCs \cup SemctlPCs /\ ~Valid(p)
  /\ SemAt(p, "c_lock") => p \in asleep
  /\ Die(p)
  /\ UNCHANGED kills

Kill(p) == ~SemAt(p, "dead") /\ kills < MaxKills /\ kills' = kills + 1 /\ Die(p)

sem_create(p) == SemgetCreate(p) \/ CreateLock(p) \/ CreateAgain(p) \/ CreateGetval(p)
                 \/ CreateSetval0(p) \/ CreateSetval1(p) \/ EndCreate(p)
sem_open(p) == SemgetOpen(p) \/ Open(p)
sem_close(p) == CallClose(p) \/ CloseLock(p) \/ CloseGetval(p) \/ CloseRemove(p) \/ CloseUnlock(p)

SemNext == \E p \in Procs :
  \/ sem_create(p) \/ sem_open(p) \/ CallOp(p) \/ sem_op(p) \/ sem_close(p)
  \/ CallRm(p) \/ sem_rm(p) \/ Sleep(p) \/ Fails(p) \/ Kill(p)

SemSpec == SemInit /\ [][SemNext]_semVars
-----------------------------------------------------------------------------
(* Properties. *)

SemPCs == {"idle", "again", "dead"} \cup SemopPCs \cup SemctlPCs

SemTypeOK ==
  /\ cur \in 0..MaxSets /\ exists \in BOOLEAN
  /\ sem \in [val : 0..InitVal, cnt : 0..BIGCOUNT, lock : 0..1]
  /\ adj \in [Procs -> [val : 0..1, cnt : -1..1, lock : -1..0]]
  /\ spc \in [Procs -> SemPCs]
  /\ id \in [Procs -> 0..MaxSets]
  /\ asleep \subseteq Procs
  /\ kills \in 0..MaxKills

\* Between the return of sem_create or sem_open and the semop of sem_close.
UserPCs == {"idle", "wait", "signal", "cl_op", "rm"}
Users == {p \in Procs : Valid(p) /\ spc[p] \in UserPCs}
\* Between op_lock and op_endcreate, and between op_close and op_unlock.
LockedPCs == {"c_get", "c_init0", "c_init1", "c_end", "cl_get", "cl_rm", "cl_unlock"}

(* Once a set is initialised its counter is BIGCOUNT less the processes that
   have the semaphore open, also when some of them were killed. *)
CounterCounts ==
  exists /\ sem.cnt # 0 => sem.cnt = BIGCOUNT - Cardinality(Users)

(* [2] is 1 exactly while one process is between locking and unlocking; a
   process killed there does not leave it locked. *)
LockOwned ==
  exists => sem.lock = Cardinality({p \in Procs : Valid(p) /\ spc[p] \in LockedPCs})

(* A unit taken by sem_wait is in the hands of a live process or back in the
   semaphore: none is lost when its holder is killed and none is made. *)
UnitsConserved ==
  exists /\ sem.cnt # 0 =>
    sem.val + Cardinality({p \in Procs : adj[p].val = 1}) = InitVal

(* However processes are killed, SEM_UNDO keeps all three semaphores right. *)
ValuesAccounted == SemTypeOK /\ CounterCounts /\ LockOwned /\ UnitsConserved

(* sem_create never initialises a set that a process is using, however
   creates, opens and kills interleave. *)
NotReset == \A p \in Procs : CreateSetval0(p) \/ CreateSetval1(p) => Users = {}
InitialisedOnce == [][NotReset]_semVars

(* sem_close never removes a set that another process got from sem_create: a
   creator either locks before the last close or starts again. *)
Creators == {p \in Users : "open" \notin Ops[p]}
CreatorKeepsSet == [][\A p \in Procs : CloseRemove(p) => Creators = {}]_semVars

(* sem_close removes the set only when no process has it open: the counter is
   "used to know when all processes have finished with the semaphore". *)
RemovedUnused == [][\A p \in Procs : CloseRemove(p) => Users = {}]_semVars
=============================================================================
