----------------------------- MODULE FooMutex3 ------------------------------
(***************************************************************************)
(* The reference-counted objects of apue.3e/threads/mutex3.c.  hashlock    *)
(* protects the hash chains and the counts, so each call is one critical   *)
(* section and one action here; only malloc and free lie outside it.  The  *)
(* simpler program is also the specification of mutex2.c (FooMutex2).      *)
(***************************************************************************)
EXTENDS Naturals, Sequences

CONSTANTS
  Threads, Objs, Ids, \* Objs: the addresses malloc can return
  Hashes, HASH,       \* HASH: id -> hash chain
  Slots,              \* the variables a thread has to keep references in
  NULL

VARIABLES
  chain,   \* hash -> the objects reached from fh[hash]
  f_count, f_id,
  heap,    \* object -> "free", "new" (malloc'ed, not yet in fh) or "live"
  refs,    \* <<thread, slot>> -> the object the caller has a reference to, or NULL
  busy     \* thread -> object it is about to insert or to free, or NULL

vars == <<chain, f_count, f_id, heap, refs, busy>>

Init ==
  /\ chain = [h \in Hashes |-> <<>>]
  /\ f_count = [o \in Objs |-> 0]
  /\ f_id = [o \in Objs |-> NULL]
  /\ heap = [o \in Objs |-> "free"]
  /\ refs = [ts \in Threads \X Slots |-> NULL]
  /\ busy = [t \in Threads |-> NULL]

Idle(t) == busy[t] = NULL

\* A caller gets one more reference to o; gives one up.
Has(t, o) == \E i \in Slots : refs[<<t, i>>] = o
Room(t) == Has(t, NULL)
Take(t, o) == \E i \in Slots : refs[<<t, i>>] = NULL /\ refs' = [refs EXCEPT ![<<t, i>>] = o]
Drop(t, o) == \E i \in Slots : refs[<<t, i>>] = o /\ refs' = [refs EXCEPT ![<<t, i>>] = NULL]

malloc(t) == \E o \in Objs, id \in Ids :
  /\ Idle(t) /\ Room(t) /\ heap[o] = "free"
  /\ heap' = [heap EXCEPT ![o] = "new"]
  /\ f_count' = [f_count EXCEPT ![o] = 1]
  /\ f_id' = [f_id EXCEPT ![o] = id]
  /\ busy' = [busy EXCEPT ![t] = o]
  /\ UNCHANGED <<chain, refs>>

foo_alloc(t) == \E o \in Objs :
  /\ busy[t] = o /\ heap[o] = "new"
  /\ chain' = [chain EXCEPT ![HASH[f_id[o]]] = <<o>> \o @]
  /\ heap' = [heap EXCEPT ![o] = "live"]
  /\ Take(t, o)
  /\ busy' = [busy EXCEPT ![t] = NULL]
  /\ UNCHANGED <<f_count, f_id>>

foo_hold(t) == \E o \in Objs :
  /\ Idle(t) /\ Has(t, o)
  /\ f_count' = [f_count EXCEPT ![o] = @ + 1]
  /\ Take(t, o)
  /\ UNCHANGED <<chain, f_id, heap, busy>>

\* The first object of the chain with the id; none is no change.
foo_find(t) == \E id \in Ids :
  LET list == chain[HASH[id]]
  IN \E i \in DOMAIN list :
       /\ Idle(t)
       /\ f_id[list[i]] = id /\ \A j \in 1..(i-1) : f_id[list[j]] # id
       /\ f_count' = [f_count EXCEPT ![list[i]] = @ + 1]
       /\ Take(t, list[i])
       /\ UNCHANGED <<chain, f_id, heap, busy>>

foo_rele(t) == \E o \in Objs :
  LET h == HASH[f_id[o]]
  IN /\ Idle(t) /\ Drop(t, o)
     /\ f_count' = [f_count EXCEPT ![o] = @ - 1]
     /\ IF f_count[o] = 1
        THEN /\ chain' = [chain EXCEPT ![h] = SelectSeq(@, LAMBDA x : x # o)]
             /\ busy' = [busy EXCEPT ![t] = o]
        ELSE UNCHANGED <<chain, busy>>
     /\ UNCHANGED <<f_id, heap>>

free(t) == \E o \in Objs :
  /\ busy[t] = o /\ heap[o] = "live"
  /\ heap' = [heap EXCEPT ![o] = "free"]
  /\ busy' = [busy EXCEPT ![t] = NULL]
  /\ UNCHANGED <<chain, f_count, f_id, refs>>

\* A thread hands a reference it has to another thread.
Give(t) == \E u \in Threads : \E i, j \in Slots :
  /\ Idle(t) /\ Idle(u) /\ u # t
  /\ refs[<<t, i>>] # NULL /\ refs[<<u, j>>] = NULL
  /\ refs' = [refs EXCEPT ![<<t, i>>] = NULL, ![<<u, j>>] = refs[<<t, i>>]]
  /\ UNCHANGED <<chain, f_count, f_id, heap, busy>>

Next == \E t \in Threads : malloc(t) \/ foo_alloc(t) \/ foo_hold(t) \/ foo_find(t)
                           \/ foo_rele(t) \/ free(t) \/ Give(t)

Spec == Init /\ [][Next]_vars
=============================================================================
