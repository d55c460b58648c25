----------------------------- MODULE FooMutex2 ------------------------------
(***************************************************************************)
(* The reference-counted objects of apue.3e/threads/mutex2.c: hashlock     *)
(* protects the hash chains, each object's own f_lock its count.  foo_rele *)
(* must drop f_lock to take the two in order, and checks the count again.  *)
(* One action is what a thread does from one lock operation to the next.   *)
(***************************************************************************)
EXTENDS Naturals, FiniteSets

CONSTANTS
  Threads, Objs, Ids, \* Objs: the addresses malloc can return
  Hashes, HASH,       \* HASH: id -> hash chain
  Slots,              \* the variables a thread has to keep references in
  NULL

\* What the model assumes of its constants.
FooAssumption ==
  /\ HASH \in [Ids -> Hashes]
  /\ NULL \notin Objs \cup Threads \cup Ids
  /\ IsFiniteSet(Threads) /\ IsFiniteSet(Slots) /\ IsFiniteSet(Objs)

ASSUME FooConstants == FooAssumption

VARIABLES
  fh, f_next, f_count, f_id,
  heap,     \* object -> "free", "new" (malloc'ed, not yet in fh) or "live"
  hashlock, \* the thread that has it, or NULL
  f_lock,   \* object -> the thread that has its lock, or NULL
  refs,     \* <<thread, slot>> -> the object the caller has a reference to, or NULL
  pc, fp    \* thread -> where it is, and the object it is at

table == <<fh, f_next, f_id, heap>>
vars == <<fh, f_next, f_count, f_id, heap, hashlock, f_lock, refs, pc, fp>>

Init ==
  /\ fh = [h \in Hashes |-> NULL]
  /\ f_next = [o \in Objs |-> NULL]
  /\ f_count = [o \in Objs |-> 0]
  /\ f_id = [o \in Objs |-> NULL]
  /\ heap = [o \in Objs |-> "free"]
  /\ hashlock = NULL
  /\ f_lock = [o \in Objs |-> NULL]
  /\ refs = [ts \in Threads \X Slots |-> NULL]
  /\ pc = [t \in Threads |-> "idle"]
  /\ fp = [t \in Threads |-> NULL]

At(t, l) == pc[t] = l
Jump(t, to) == pc' = [pc EXCEPT ![t] = to]
\* The call returns.
Return(t) == Jump(t, "idle") /\ fp' = [fp EXCEPT ![t] = NULL]

\* The caller's references.
Has(t, o) == \E i \in Slots : refs[<<t, i>>] = o
Room(t) == Has(t, NULL)
Take(t, o) == \E i \in Slots : refs[<<t, i>>] = NULL /\ refs' = [refs EXCEPT ![<<t, i>>] = o]
Drop(t, o) == \E i \in Slots : refs[<<t, i>>] = o /\ refs' = [refs EXCEPT ![<<t, i>>] = NULL]

LockHash(t) == hashlock = NULL /\ hashlock' = t
UnlockHash(t) == hashlock' = NULL
Lock(t, o) == f_lock[o] = NULL /\ f_lock' = [f_lock EXCEPT ![o] = t]
Unlock(t, o) == f_lock' = [f_lock EXCEPT ![o] = NULL]
-----------------------------------------------------------------------------
(* foo_alloc *)

\* Mutant: f_id is not set.
malloc_noid(t) == \E o \in Objs :
  /\ At(t, "idle") /\ Room(t) /\ heap[o] = "free"
  /\ heap' = [heap EXCEPT ![o] = "new"]
  /\ f_count' = [f_count EXCEPT ![o] = 1]
  /\ fp' = [fp EXCEPT ![t] = o]
  /\ Jump(t, "insert")
  /\ UNCHANGED <<fh, f_next, f_id, hashlock, f_lock, refs>>

malloc(t) == \E o \in Objs, id \in Ids :
  /\ At(t, "idle") /\ Room(t) /\ heap[o] = "free"
  /\ heap' = [heap EXCEPT ![o] = "new"]
  /\ f_count' = [f_count EXCEPT ![o] = 1]
  /\ f_id' = [f_id EXCEPT ![o] = id]
  /\ fp' = [fp EXCEPT ![t] = o]
  /\ Jump(t, "insert")
  /\ UNCHANGED <<fh, f_next, hashlock, f_lock, refs>>

\* The caller's reference counts from the moment others can find the object.
AllocInsert(t) ==
  LET o == fp[t]
      h == HASH[f_id[o]]
  IN /\ At(t, "insert") /\ LockHash(t)
     /\ f_next' = [f_next EXCEPT ![o] = fh[h]]
     /\ fh' = [fh EXCEPT ![h] = o]
     /\ heap' = [heap EXCEPT ![o] = "live"]
     /\ Take(t, o)
     /\ Jump(t, "initlock")
     /\ UNCHANGED <<f_count, f_id, f_lock, fp>>

AllocLock(t) ==
  /\ At(t, "initlock") /\ Lock(t, fp[t])
  /\ UnlockHash(t)
  /\ Jump(t, "initdone")
  /\ UNCHANGED <<table, f_count, refs, fp>>

AllocDone(t) ==
  /\ At(t, "initdone")
  /\ Unlock(t, fp[t])
  /\ Return(t)
  /\ UNCHANGED <<table, f_count, hashlock, refs>>
-----------------------------------------------------------------------------
(* foo_hold: called with a reference, or by foo_find. *)

HoldLock(t) == \E o \in Objs :
  /\ At(t, "idle") /\ Has(t, o) /\ Room(t)
  /\ Lock(t, o)
  /\ fp' = [fp EXCEPT ![t] = o]
  /\ Jump(t, "hold")
  /\ UNCHANGED <<table, f_count, hashlock, refs>>

\* Mutant: forgets to count.
HoldNotCounted(t) ==
  /\ At(t, "hold")
  /\ Take(t, fp[t])
  /\ Unlock(t, fp[t])
  /\ Return(t)
  /\ UNCHANGED <<table, f_count, hashlock>>

HoldCount(t) ==
  /\ At(t, "hold")
  /\ f_count' = [f_count EXCEPT ![fp[t]] = @ + 1]
  /\ Take(t, fp[t])
  /\ Unlock(t, fp[t])
  /\ Return(t)
  /\ UNCHANGED <<table, hashlock>>
-----------------------------------------------------------------------------
(* foo_find *)

\* The objects a loop over chain h meets that goes no further than an object
\* in stop: the least set with the head and the successors of the others.
Closed(S, h, stop) ==
  /\ fh[h] # NULL => fh[h] \in S
  /\ \A x \in S : x \notin stop /\ f_next[x] # NULL => f_next[x] \in S
On(h, stop) == {o \in Objs : \A S \in SUBSET Objs : Closed(S, h, stop) => o \in S}

\* The first object of the chain of id that has it.
First(id, o) == f_id[o] = id /\ o \in On(HASH[id], {x \in Objs : f_id[x] = id})

\* The walk under hashlock; nothing found is no change.
FindWalk(t) == \E id \in Ids, o \in Objs :
  /\ At(t, "idle") /\ LockHash(t)
  /\ First(id, o) /\ Room(t)
  /\ fp' = [fp EXCEPT ![t] = o]
  /\ Jump(t, "findlock")
  /\ UNCHANGED <<table, f_count, f_lock, refs>>

\* Mutant: hashlock is dropped before the count goes up.
FindLockLate(t) ==
  /\ At(t, "findlock") /\ Lock(t, fp[t])
  /\ UnlockHash(t)
  /\ Jump(t, "findhold")
  /\ UNCHANGED <<table, f_count, refs, fp>>

FindLock(t) ==
  /\ At(t, "findlock") /\ Lock(t, fp[t])
  /\ Jump(t, "findhold")
  /\ UNCHANGED <<table, f_count, hashlock, refs, fp>>

FindHold(t) ==
  /\ At(t, "findhold")
  /\ f_count' = [f_count EXCEPT ![fp[t]] = @ + 1]
  /\ Take(t, fp[t])
  /\ Unlock(t, fp[t])
  /\ Jump(t, "findunlock")
  /\ UNCHANGED <<table, hashlock, fp>>

FindUnlock(t) ==
  /\ At(t, "findunlock")
  /\ UnlockHash(t)
  /\ Return(t)
  /\ UNCHANGED <<table, f_count, f_lock, refs>>
-----------------------------------------------------------------------------
(* foo_rele *)

ReleLock(t) == \E o \in Objs :
  /\ At(t, "idle") /\ Has(t, o)
  /\ Lock(t, o)
  /\ fp' = [fp EXCEPT ![t] = o]
  /\ Jump(t, "rele")
  /\ UNCHANGED <<table, f_count, hashlock, refs>>

\* Mutant: keeps f_lock while it goes for hashlock.
ReleCheckKeeps(t) ==
  LET o == fp[t]
  IN /\ At(t, "rele")
     /\ IF f_count[o] = 1
        THEN Jump(t, "relehash") /\ UNCHANGED <<f_lock, f_count, refs, fp>>
        ELSE /\ f_count' = [f_count EXCEPT ![o] = @ - 1]
             /\ Unlock(t, o)
             /\ Drop(t, o)
             /\ Return(t)
     /\ UNCHANGED <<table, hashlock>>

\* The last reference: let go of f_lock to take hashlock first.
ReleCheck(t) ==
  LET o == fp[t]
  IN /\ At(t, "rele")
     /\ Unlock(t, o)
     /\ IF f_count[o] = 1
        THEN Jump(t, "relehash") /\ UNCHANGED <<f_count, refs, fp>>
        ELSE /\ f_count' = [f_count EXCEPT ![o] = @ - 1]
             /\ Drop(t, o)
             /\ Return(t)
     /\ UNCHANGED <<table, hashlock>>

ReleHash(t) ==
  /\ At(t, "relehash") /\ LockHash(t)
  /\ Jump(t, "relelock")
  /\ UNCHANGED <<table, f_count, f_lock, refs, fp>>

ReleLockAgain(t) ==
  /\ At(t, "relelock") /\ Lock(t, fp[t])
  /\ Jump(t, "recheck")
  /\ UNCHANGED <<table, f_count, hashlock, refs, fp>>

\* Mutant: the object stays on its chain.
UnlinkNothing(o) == UNCHANGED <<fh, f_next>>

\* Unlinks o from its chain.
Unlink(o) ==
  LET h == HASH[f_id[o]]
  IN IF fh[h] = o THEN fh' = [fh EXCEPT ![h] = f_next[o]] /\ UNCHANGED f_next
     ELSE /\ \E q \in On(h, {}) : f_next[q] = o /\ f_next' = [f_next EXCEPT ![q] = f_next[o]]
          /\ UNCHANGED fh

\* Mutant: the condition is not checked again.
ReleRecheckNot(t) ==
  LET o == fp[t]
  IN /\ At(t, "recheck")
     /\ UnlockHash(t)
     /\ Drop(t, o)
     /\ Unlink(o)
     /\ Jump(t, "free")
     /\ UNCHANGED <<f_count, f_id, heap, f_lock, fp>>

\* Only the last reference unlinks; f_count stays 1 in the object to be freed.
ReleRecheck(t) ==
  LET o == fp[t]
  IN /\ At(t, "recheck")
     /\ UnlockHash(t)
     /\ Drop(t, o)
     /\ IF f_count[o] # 1
        THEN /\ f_count' = [f_count EXCEPT ![o] = @ - 1]
             /\ Unlock(t, o) /\ Return(t) /\ UNCHANGED <<fh, f_next>>
        ELSE Unlink(o) /\ Jump(t, "free") /\ UNCHANGED <<f_count, f_lock, fp>>
     /\ UNCHANGED <<f_id, heap>>

\* unlock f_lock, destroy it, free
ReleFree(t) ==
  LET o == fp[t]
  IN /\ At(t, "free")
     /\ Unlock(t, o)
     /\ heap' = [heap EXCEPT ![o] = "free"]
     /\ Return(t)
     /\ UNCHANGED <<fh, f_next, f_count, f_id, hashlock, refs>>

\* A thread hands a reference it has to another thread.
Give(t) == \E u \in Threads : \E i, j \in Slots :
  /\ At(t, "idle") /\ At(u, "idle") /\ u # t
  /\ refs[<<t, i>>] # NULL /\ refs[<<u, j>>] = NULL
  /\ refs' = [refs EXCEPT ![<<t, i>>] = NULL, ![<<u, j>>] = refs[<<t, i>>]]
  /\ UNCHANGED <<table, f_count, hashlock, f_lock, pc, fp>>

foo_alloc(t) == malloc(t) \/ AllocInsert(t) \/ AllocLock(t) \/ AllocDone(t)
foo_hold(t) == HoldLock(t) \/ HoldCount(t)
foo_find(t) == FindWalk(t) \/ FindLock(t) \/ FindHold(t) \/ FindUnlock(t)
foo_rele(t) == ReleLock(t) \/ ReleCheck(t) \/ ReleHash(t) \/ ReleLockAgain(t)
               \/ ReleRecheck(t) \/ ReleFree(t)

Next == \E t \in Threads : foo_alloc(t) \/ foo_hold(t) \/ foo_find(t) \/ foo_rele(t) \/ Give(t)

Spec == Init /\ [][Next]_vars
-----------------------------------------------------------------------------
(* Properties. *)

PCs == {"idle", "insert", "initlock", "initdone", "hold", "findlock", "findhold", "findunlock",
        "rele", "relehash", "relelock", "recheck", "free"}

TypeOK ==
  /\ fh \in [Hashes -> Objs \cup {NULL}]
  /\ f_next \in [Objs -> Objs \cup {NULL}]
  /\ f_count \in [Objs -> Nat]
  /\ f_id \in [Objs -> Ids \cup {NULL}]
  /\ \A o \in Objs : heap[o] # "free" => f_id[o] \in Ids
  /\ heap \in [Objs -> {"free", "new", "live"}]
  /\ hashlock \in Threads \cup {NULL}
  /\ f_lock \in [Objs -> Threads \cup {NULL}]
  /\ refs \in [Threads \X Slots -> Objs \cup {NULL}]
  /\ pc \in [Threads -> PCs]
  /\ fp \in [Threads -> Objs \cup {NULL}]

\* Off its chain, about to be freed.
Dying(o) == \E t \in Threads : pc[t] = "free" /\ fp[t] = o

(* No thread touches an object after it was freed, and no caller has a
   reference to one that is freed or about to be: foo_find and foo_rele race
   for the last reference. *)
NoUseAfterFree ==
  /\ \A t \in Threads : pc[t] # "idle" => heap[fp[t]] # "free"
  /\ \A ts \in Threads \X Slots : refs[ts] # NULL =>
       heap[refs[ts]] = "live" /\ ~Dying(refs[ts])

(* An object in the table has exactly as many references as f_count says,
   whichever of the two locks was held when it changed. *)
CountsReferences ==
  \A o \in Objs : heap[o] = "live" /\ ~Dying(o) =>
    f_count[o] = Cardinality({ts \in Threads \X Slots : refs[ts] = o})

(* The object a thread is about to free is on no chain, and no other thread is
   anywhere with it. *)
FreedAlone ==
  \A t \in Threads : pc[t] = "free" =>
    /\ \A u \in Threads \ {t} : fp[u] # fp[t]
    /\ \A h \in Hashes : fp[t] \notin On(h, {})

(* A thread that waits for hashlock has no f_lock, and one that waits for an
   f_lock has no other: the two kinds of lock are taken in one order, so the
   waits of foo_alloc, foo_find and foo_rele never form a cycle. *)
LocksInOrder ==
  \A t \in Threads : pc[t] \in {"idle", "insert", "initlock", "findlock", "relehash", "relelock"} =>
    \A o \in Objs : f_lock[o] # t

\* The objects met from o on, in at most as many steps as there are objects.
Walk(o) ==
  LET f[n \in 0..Cardinality(Objs)] ==
        IF n = 0 THEN o ELSE IF f[n-1] = NULL THEN NULL ELSE f_next[f[n-1]]
  IN f

\* The chain as a sequence: the objects met before NULL.
ChainOf(h) ==
  LET f == Walk(fh[h])
      len == Cardinality({n \in DOMAIN f : f[n] # NULL})
  IN [i \in 1..len |-> f[i-1]]

Coarse == INSTANCE FooMutex3 WITH
  chain <- [h \in Hashes |-> ChainOf(h)],
  f_count <- [o \in Objs |-> IF heap[o] = "free" \/ Dying(o) THEN 0 ELSE f_count[o]],
  busy <- [t \in Threads |-> IF pc[t] \in {"insert", "free"} THEN fp[t] ELSE NULL]

(* mutex2.c does what mutex3.c does: its calls take effect atomically, with
   the per-object locks and the recheck in place of one lock. *)
ImplementsMutex3 == Coarse!Spec
=============================================================================
