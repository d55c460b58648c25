------------------------------- MODULE DbOpen -------------------------------
(* db_open and db_close of db/db.c, by processes that open the same database *)
(* at the same time.  The index file is its hash table, which db_open writes *)
(* into an empty file, and the records stored since; db_open takes one step  *)
(* per system call, and every call of open may fail.  What the processes do  *)
(* with an open database is Db's subject: here they only store a record.     *)
EXTENDS Naturals

CONSTANTS Procs,
          Flags,        \* what they pass: a set of subsets of {"O_CREAT", "O_TRUNC"}
          MaxFail,      \* calls of open that may fail
          MaxOpen       \* calls of db_open

VARIABLES at, oflag,    \* per process: where it is and the flags it passed
          fds,          \* per process: the descriptors it has, of "idx" and "dat"
          size0,        \* what fstat told it
          idx,          \* the index file: [exists, table, recs, lost]
          lock,         \* who holds the write lock on all of it
          fails, opens

vars == <<at, oflag, fds, size0, idx, lock, fails, opens>>

None == "none"

DbOpenAssumption ==
  /\ Flags \subseteq SUBSET {"O_CREAT", "O_TRUNC"} /\ {MaxFail, MaxOpen} \subseteq Nat
  /\ None \notin Procs

NoFile == [exists |-> FALSE, table |-> FALSE, recs |-> {}, lost |-> {}]

Init == /\ at = [p \in Procs |-> "closed"] /\ oflag = [p \in Procs |-> {}]
        /\ fds = [p \in Procs |-> {}] /\ size0 = [p \in Procs |-> FALSE]
        /\ idx = NoFile /\ lock = None /\ fails = 0 /\ opens = 0

Go(p, l) == at' = [at EXCEPT ![p] = l]

(* The index file is opened first, then the data file.                       *)
db_open(p, f) == /\ at[p] = "closed" /\ opens < MaxOpen
                 /\ opens' = opens + 1
                 /\ oflag' = [oflag EXCEPT ![p] = f]
                 /\ Go(p, "openidx")
                 /\ UNCHANGED <<fds, size0, idx, lock, fails>>

OpenIdx(p) == /\ at[p] = "openidx"
              /\ IF idx.exists \/ "O_CREAT" \in oflag[p]
                   THEN /\ fds' = [fds EXCEPT ![p] = @ \cup {"idx"}]
                        /\ idx' = IF "O_TRUNC" \in oflag[p] THEN [NoFile EXCEPT !.exists = TRUE]
                                                            ELSE [idx EXCEPT !.exists = TRUE]
                   ELSE UNCHANGED <<fds, idx>>
              /\ Go(p, "opendat")
              /\ UNCHANGED <<oflag, size0, lock, fails, opens>>

(* The data file's own contents do not matter here.                          *)
OpenDat(p) == /\ at[p] = "opendat"
              /\ fds' = [fds EXCEPT ![p] = @ \cup {"dat"}]
              /\ Go(p, "check")
              /\ UNCHANGED <<oflag, size0, idx, lock, fails, opens>>

OpenFails(p) == /\ at[p] \in {"openidx", "opendat"} /\ fails < MaxFail
                /\ fails' = fails + 1
                /\ Go(p, IF at[p] = "openidx" THEN "opendat" ELSE "check")
                /\ UNCHANGED <<oflag, fds, size0, idx, lock, opens>>

(* One of them is missing: _db_free closes the other.                        *)
_db_free(p) == fds' = [fds EXCEPT ![p] = {}]

Check(p) == /\ at[p] = "check"
            /\ IF fds[p] # {"idx", "dat"}
                 THEN Go(p, "closed") /\ _db_free(p)
                 ELSE /\ Go(p, IF {"O_CREAT", "O_TRUNC"} \subseteq oflag[p] THEN "lock" ELSE "open")
                      /\ UNCHANGED fds
            /\ UNCHANGED <<oflag, size0, idx, lock, fails, opens>>

(* writew_lock, fstat, the hash table and un_lock.                           *)
Lock(p) == /\ at[p] = "lock" /\ lock = None
           /\ lock' = p /\ Go(p, "fstat")
           /\ UNCHANGED <<oflag, fds, size0, idx, fails, opens>>

Fstat(p) == /\ at[p] = "fstat"
            /\ size0' = [size0 EXCEPT ![p] = ~ idx.table]
            /\ Go(p, "init")
            /\ UNCHANGED <<oflag, fds, idx, lock, fails, opens>>

InitTable(p) == /\ at[p] = "init"
                /\ idx' = IF size0[p] THEN [idx EXCEPT !.table = TRUE, !.recs = {}, !.lost = @ \cup idx.recs]
                                      ELSE idx
                /\ Go(p, "unlock")
                /\ UNCHANGED <<oflag, fds, size0, lock, fails, opens>>

Unlock(p) == /\ at[p] = "unlock"
             /\ lock' = None /\ Go(p, "open")
             /\ UNCHANGED <<oflag, fds, size0, idx, fails, opens>>

(* db_store locks one chain, and without a hash table it ends the process.   *)
Store(p) == /\ at[p] = "open" /\ lock = None
            /\ IF idx.table THEN idx' = [idx EXCEPT !.recs = @ \cup {p}] /\ UNCHANGED <<at, fds>>
                            ELSE Go(p, "dumped") /\ fds' = [fds EXCEPT ![p] = {}] /\ UNCHANGED idx
            /\ UNCHANGED <<oflag, size0, lock, fails, opens>>

db_close(p) == /\ at[p] = "open"
               /\ _db_free(p) /\ Go(p, "closed")
               /\ UNCHANGED <<oflag, size0, idx, lock, fails, opens>>

Open(p) == \/ OpenIdx(p) \/ OpenDat(p) \/ Check(p) \/ Lock(p) \/ Fstat(p) \/ InitTable(p) \/ Unlock(p)

Next == \E p \in Procs : \/ \E f \in Flags : db_open(p, f)
                         \/ Open(p) \/ OpenFails(p) \/ Store(p) \/ db_close(p)

----------------------------------------------------------------------------
(* The hash table is written once: no process initialises a file in which    *)
(* another has already stored records.  Only O_TRUNC discards records.       *)
NoTableOverRecords == idx.lost = {}

(* A db_open that fails on either file leaves no descriptor open, and        *)
(* neither does db_close.                                                    *)
ClosedHasNone == \A p \in Procs : at[p] = "closed" => fds[p] = {}
=============================================================================
