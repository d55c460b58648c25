--------------------------------- MODULE Db ---------------------------------
(***************************************************************************)
(* The record database of apue.3e/db/db.c: an index file (free-list head,  *)
(* hash table, index records) and a data file, shared by processes that    *)
(* coordinate only by fcntl record locks.                                  *)
(*                                                                         *)
(* A file offset is abstracted to the ordinal ("slot") of the record at    *)
(* that offset; 0 is the null chain pointer.  A slot never moves and never *)
(* changes its length, so one slot of idx is one index record for ever and *)
(* the two reads of _db_readidx see the same length.  One action is one    *)
(* internal routine of db.c that performs file or lock I/O.                *)
(***************************************************************************)
EXTENDS Naturals, Sequences, FiniteSets

CONSTANTS
  Procs,      \* processes, each with one open DBHANDLE
  Keys, Vals, \* keys and data
  Chains,     \* hash chains (NHASH_DEF of them in the code)
  Hash,       \* key -> chain: _db_hash
  KeyLen,     \* key -> its length
  DatLen,     \* data -> its length, newline included
  Ops,        \* process -> the calls it makes
  Flags,      \* the flag arguments db_store is given
  PtrMax,     \* last slot a chain pointer can name (PTR_MAX)
  MaxKills,   \* bound on the processes that may be killed
  Blank, None \* a blanked key or datum; "no value"

OpNames == {"fetch", "store", "delete", "nextrec", "rewind"}
AllFlags == {"DB_INSERT", "DB_REPLACE", "DB_STORE", "other"}

ASSUME DbAssumption ==
  /\ \A k \in Keys : Hash[k] \in Chains
  /\ \A k \in Keys : KeyLen[k] \in Nat
  /\ \A v \in Vals : DatLen[v] \in Nat
  /\ Ops \in [Procs -> SUBSET OpNames]
  /\ Flags \subseteq AllFlags
  /\ PtrMax \in Nat /\ MaxKills \in Nat
  /\ Blank \notin Keys \cup Vals
  /\ None \notin Keys \cup Vals \cup {Blank} \cup OpNames \cup AllFlags
  /\ None \notin {"ok", "exists", "notfound", "eof", "EINVAL"}
  /\ Chains \cap {"free", "dat", "tail"} = {}

VARIABLES
  idx,   \* index records [ptr, key, klen, dat, dlen], in file order
  dat,   \* data records, in file order
  free,  \* free-list pointer at FREE_OFF
  chain, \* hash table
  held,  \* process -> record locks it holds
  pc,    \* process -> next internal routine
  db,    \* process -> DB structure and locals of the call in progress
  pos    \* process -> offset of idxfd: the slot it is at, 0 inside a field

files == <<idx, dat, free, chain>>
vars == <<idx, dat, free, chain, held, pc, db, pos>>

\* A chain byte, the free-list byte, the tail of the index file, the data file.
Resources == Chains \cup {"free", "dat", "tail"}
LockSet == [res : Resources, mode : {"R", "W"}]

NoCall == [op |-> None, key |-> None, val |-> None, flag |-> None,
           off |-> 0, ptroff |-> 0, head |-> 0, idxoff |-> 0, datoff |-> 0,
           datlen |-> 0, ptrval |-> 0, freeptr |-> 0, found |-> FALSE, rc |-> None]

Init ==
  /\ idx = <<>> /\ dat = <<>>
  /\ free = 0
  /\ chain = [h \in Chains |-> 0]
  /\ held = [p \in Procs |-> {}]
  /\ pc = [p \in Procs |-> "idle"]
  /\ db = [p \in Procs |-> NoCall]
  /\ pos = [p \in Procs |-> 1]            \* db_open ends with db_rewind
-----------------------------------------------------------------------------
(* Record locks: lock_reg with F_SETLKW and F_UNLCK. *)

CanLock(p, r, m) ==
  \A q \in Procs \ {p} : \A l \in held[q] :
    l.res = r => m = "R" /\ l.mode = "R"

Lock(p, r, m) ==
  /\ CanLock(p, r, m)
  /\ held' = [held EXCEPT ![p] = @ \cup {[res |-> r, mode |-> m]}]

un_lock(p, r) == held' = [held EXCEPT ![p] = {l \in @ : l.res # r}]

ChainOf(p) == Hash[db[p].key]

Jump(p, to) == pc' = [pc EXCEPT ![p] = to]
At(p, l) == pc[p] = l

\* The offset of idxfd matters only to a process that calls db_nextrec.
Seek(p, s) == pos' = IF "nextrec" \in Ops[p] THEN [pos EXCEPT ![p] = s] ELSE pos

\* err_dump, err_quit or a kill: the kernel drops the process's locks.
Die(p) ==
  /\ Jump(p, "dead")
  /\ held' = [held EXCEPT ![p] = {}]
  /\ db' = [db EXCEPT ![p] = NoCall]
  /\ UNCHANGED <<files, pos>>

(* _db_readidx: the index record at slot i into the DB structure. *)
ReadIdx(d, i) == [d EXCEPT !.idxoff = i, !.datoff = idx[i].dat,
                           !.datlen = idx[i].dlen, !.ptrval = idx[i].ptr]
-----------------------------------------------------------------------------
(* Calls. *)

call(p, d, to) ==
  /\ At(p, "idle")
  /\ d.op \in Ops[p]
  /\ db' = [db EXCEPT ![p] = d]
  /\ Jump(p, to)
  /\ UNCHANGED <<files, held, pos>>

CallFetch(p) == \E k \in Keys :
  call(p, [NoCall EXCEPT !.op = "fetch", !.key = k], "lock")

CallDelete(p) == \E k \in Keys :
  call(p, [NoCall EXCEPT !.op = "delete", !.key = k], "lock")

\* A flag db_store does not know is refused before anything is locked.
CallStore(p) == \E k \in Keys, v \in Vals, f \in Flags :
  LET d == [NoCall EXCEPT !.op = "store", !.key = k, !.val = v, !.flag = f]
  IN IF f = "other" THEN call(p, [d EXCEPT !.rc = "EINVAL"], "return")
     ELSE call(p, d, "lock")

CallNextrec(p) == call(p, [NoCall EXCEPT !.op = "nextrec"], "nlock")

db_rewind(p) ==
  /\ At(p, "idle") /\ "rewind" \in Ops[p]
  /\ Seek(p, 1)
  /\ UNCHANGED <<files, held, pc, db>>

Return(p) ==
  /\ At(p, "return")
  /\ db' = [db EXCEPT ![p] = NoCall]
  /\ Jump(p, "idle")
  /\ UNCHANGED <<files, held, pos>>
-----------------------------------------------------------------------------
(* _db_find_and_lock *)

LockChain(p) ==
  /\ At(p, "lock")
  /\ Lock(p, ChainOf(p), IF db[p].op = "fetch" THEN "R" ELSE "W")
  /\ Jump(p, "readptr")
  /\ UNCHANGED <<files, db, pos>>

ReadChainPtr(p) ==
  /\ At(p, "readptr")
  /\ db' = [db EXCEPT ![p] = [@ EXCEPT !.off = chain[ChainOf(p)], !.ptroff = 0]]
  /\ Jump(p, "walk")
  /\ Seek(p, 0)
  /\ UNCHANGED <<files, held>>

\* One turn of the search loop; ptroff stays at the last unequal record.
WalkChain(p) ==
  LET i == db[p].off
      d == ReadIdx(db[p], i)
  IN /\ At(p, "walk") /\ i # 0
     /\ IF idx[i].key = db[p].key
        THEN db' = [db EXCEPT ![p] = [d EXCEPT !.found = TRUE]] /\ Jump(p, "found")
        ELSE /\ db' = [db EXCEPT ![p] = [d EXCEPT !.off = d.ptrval, !.ptroff = i]]
             /\ Jump(p, "walk")
     /\ Seek(p, i + 1)
     /\ UNCHANGED <<files, held>>

\* What each caller does when the search fails; db_store goes on to reread the
\* head of the chain.
NotFound(p) ==
  LET fails == db[p].op # "store" \/ db[p].flag = "DB_REPLACE"
  IN /\ At(p, "walk") /\ db[p].off = 0
     /\ IF fails
        THEN /\ db' = [db EXCEPT ![p].rc = "notfound"]
             /\ Jump(p, "unlock") /\ UNCHANGED pos
        ELSE /\ db' = [db EXCEPT ![p].head = chain[ChainOf(p)]]
             /\ Jump(p, "fflock") /\ Seek(p, 0)
     /\ UNCHANGED <<files, held>>

\* What each caller does with the record it found.
Found(p) ==
  /\ At(p, "found")
  /\ CASE db[p].op = "fetch"  -> Jump(p, "readdat") /\ UNCHANGED db
       [] db[p].op = "delete" -> Jump(p, "dellock") /\ UNCHANGED db
       [] db[p].op = "store"  ->
            IF db[p].flag = "DB_INSERT"
            THEN Jump(p, "unlock") /\ db' = [db EXCEPT ![p].rc = "exists"]
            ELSE /\ Jump(p, IF DatLen[db[p].val] # db[p].datlen
                            THEN "dellock" ELSE "overwrite")
                 /\ UNCHANGED db
  /\ UNCHANGED <<files, held, pos>>

\* Mutant: returns the index buffer, which begins with the key.
FetchIdxbuf(p) ==
  /\ At(p, "readdat")
  /\ db' = [db EXCEPT ![p].rc = db[p].key]
  /\ Jump(p, "unlock")
  /\ UNCHANGED <<files, held, pos>>

\* _db_readdat under the read lock of the chain
FetchData(p) ==
  /\ At(p, "readdat")
  /\ db' = [db EXCEPT ![p].rc = dat[db[p].datoff]]
  /\ Jump(p, "unlock")
  /\ UNCHANGED <<files, held, pos>>

\* Mutant: forgets to unlock.
UnlockNothing(p) ==
  /\ At(p, "unlock")
  /\ Jump(p, "return")
  /\ UNCHANGED <<files, held, db, pos>>

UnlockChain(p) ==
  /\ At(p, "unlock")
  /\ un_lock(p, ChainOf(p))
  /\ Jump(p, "return")
  /\ UNCHANGED <<files, db, pos>>
-----------------------------------------------------------------------------
(* _db_dodelete *)

DelLockFree(p) ==
  /\ At(p, "dellock")
  /\ Lock(p, "free", "W")
  /\ Jump(p, "delwdat")
  /\ UNCHANGED <<files, db, pos>>

DelWriteDat(p) ==
  /\ At(p, "delwdat")
  /\ dat' = [dat EXCEPT ![db[p].datoff] = Blank]
  /\ Jump(p, "delrfree")
  /\ UNCHANGED <<idx, free, chain, held, db, pos>>

DelReadFree(p) ==
  /\ At(p, "delrfree")
  /\ db' = [db EXCEPT ![p].freeptr = free]
  /\ Jump(p, "delwidx")
  /\ Seek(p, 0)
  /\ UNCHANGED <<files, held>>

\* Mutants: the key is not blanked; the old chain pointer is written.
DelKeepsKey(p) ==
  /\ At(p, "delwidx")
  /\ idx' = [idx EXCEPT ![db[p].idxoff].ptr = db[p].freeptr]
  /\ Jump(p, "delwfree")
  /\ Seek(p, db[p].idxoff + 1)
  /\ UNCHANGED <<dat, free, chain, held, db>>

DelKeepsPtr(p) ==
  /\ At(p, "delwidx")
  /\ idx' = [idx EXCEPT ![db[p].idxoff].key = Blank]
  /\ Jump(p, "delwfree")
  /\ Seek(p, db[p].idxoff + 1)
  /\ UNCHANGED <<dat, free, chain, held, db>>

\* ptrval keeps the old chain pointer: saveptr in the code
DelWriteIdx(p) ==
  /\ At(p, "delwidx")
  /\ idx' = [idx EXCEPT ![db[p].idxoff] = [@ EXCEPT !.key = Blank, !.ptr = db[p].freeptr]]
  /\ Jump(p, "delwfree")
  /\ Seek(p, db[p].idxoff + 1)
  /\ UNCHANGED <<dat, free, chain, held, db>>

DelWriteFree(p) ==
  /\ At(p, "delwfree")
  /\ free' = db[p].idxoff
  /\ Jump(p, "delunlink")
  /\ Seek(p, 0)
  /\ UNCHANGED <<idx, dat, chain, held, db>>

\* Mutant: always the head of the chain.
DelUnlinkHead(p) ==
  /\ At(p, "delunlink")
  /\ chain' = [chain EXCEPT ![ChainOf(p)] = db[p].ptrval]
  /\ Jump(p, "delunlock")
  /\ Seek(p, 0)
  /\ UNCHANGED <<idx, dat, free, held, db>>

DelUnlink(p) ==
  /\ At(p, "delunlink")
  /\ IF db[p].ptroff = 0
     THEN chain' = [chain EXCEPT ![ChainOf(p)] = db[p].ptrval] /\ UNCHANGED idx
     ELSE idx' = [idx EXCEPT ![db[p].ptroff].ptr = db[p].ptrval] /\ UNCHANGED chain
  /\ Jump(p, "delunlock")
  /\ Seek(p, 0)
  /\ UNCHANGED <<dat, free, held, db>>

\* Mutant: the free list stays locked.
DelUnlockNothing(p) ==
  /\ At(p, "delunlock")
  /\ IF db[p].op = "delete"
     THEN db' = [db EXCEPT ![p].rc = "ok"] /\ Jump(p, "unlock")
     ELSE UNCHANGED db /\ Jump(p, "reread")
  /\ UNCHANGED <<files, held, pos>>

\* db_delete is done; db_store rereads the head of the chain and appends.
DelUnlockFree(p) ==
  /\ At(p, "delunlock")
  /\ un_lock(p, "free")
  /\ IF db[p].op = "delete"
     THEN db' = [db EXCEPT ![p].rc = "ok"] /\ Jump(p, "unlock")
     ELSE UNCHANGED db /\ Jump(p, "reread")
  /\ UNCHANGED <<files, pos>>

RereadChainPtr(p) ==
  /\ At(p, "reread")
  /\ db' = [db EXCEPT ![p].head = chain[ChainOf(p)]]
  /\ Jump(p, "datlock")
  /\ Seek(p, 0)
  /\ UNCHANGED <<files, held>>
-----------------------------------------------------------------------------
(* _db_findfree *)

\* Mutant: a read lock for a list that is going to be changed.
FreeLockShared(p) ==
  /\ At(p, "fflock")
  /\ Lock(p, "free", "R")
  /\ Jump(p, "ffread")
  /\ UNCHANGED <<files, db, pos>>

FreeLock(p) ==
  /\ At(p, "fflock")
  /\ Lock(p, "free", "W")
  /\ Jump(p, "ffread")
  /\ UNCHANGED <<files, db, pos>>

\* ptroff plays saveoffset: 0 is FREE_OFF
FreeRead(p) ==
  /\ At(p, "ffread")
  /\ db' = [db EXCEPT ![p] = [@ EXCEPT !.off = free, !.ptroff = 0]]
  /\ Jump(p, "ffwalk")
  /\ Seek(p, 0)
  /\ UNCHANGED <<files, held>>

\* Mutant: only the length of the key is compared.
FreeFitsKey(p, i) == idx[i].klen = KeyLen[db[p].key]

FreeFits(p, i) == idx[i].klen = KeyLen[db[p].key] /\ idx[i].dlen = DatLen[db[p].val]

FreeWalk(p) ==
  LET i == db[p].off
      d == ReadIdx(db[p], i)
  IN /\ At(p, "ffwalk") /\ i # 0
     /\ IF FreeFits(p, i)
        THEN db' = [db EXCEPT ![p] = d] /\ Jump(p, "ffunlink")
        ELSE /\ db' = [db EXCEPT ![p] = [d EXCEPT !.off = d.ptrval, !.ptroff = i]]
             /\ Jump(p, "ffwalk")
     /\ Seek(p, i + 1)
     /\ UNCHANGED <<files, held>>

FreeUnlink(p) ==
  /\ At(p, "ffunlink")
  /\ IF db[p].ptroff = 0
     THEN free' = db[p].ptrval /\ UNCHANGED idx
     ELSE idx' = [idx EXCEPT ![db[p].ptroff].ptr = db[p].ptrval] /\ UNCHANGED free
  /\ Jump(p, "ffunlock")
  /\ Seek(p, 0)
  /\ UNCHANGED <<dat, chain, held, db>>

\* Mutant: an exhausted free list counts as a record found.
FreeAlwaysFound(p) ==
  /\ At(p, "ffunlock") \/ (At(p, "ffwalk") /\ db[p].off = 0)
  /\ Jump(p, "reusedat")
  /\ un_lock(p, "free")
  /\ UNCHANGED <<files, db, pos>>

FreeUnlock(p) ==
  /\ \/ At(p, "ffunlock") /\ Jump(p, "reusedat")
     \/ At(p, "ffwalk") /\ db[p].off = 0 /\ Jump(p, "datlock")
  /\ un_lock(p, "free")
  /\ UNCHANGED <<files, db, pos>>
-----------------------------------------------------------------------------
(* The writes of db_store. *)

\* same size: _db_writedat in place
Overwrite(p) ==
  /\ At(p, "overwrite")
  /\ dat' = [dat EXCEPT ![db[p].datoff] = db[p].val]
  /\ db' = [db EXCEPT ![p].rc = "ok"]
  /\ Jump(p, "unlock")
  /\ UNCHANGED <<idx, free, chain, held, pos>>

NewIdx(p) == [ptr |-> db[p].head, key |-> db[p].key, klen |-> KeyLen[db[p].key],
              dat |-> db[p].datoff, dlen |-> DatLen[db[p].val]]

ReuseDat(p) ==
  /\ At(p, "reusedat")
  /\ dat' = [dat EXCEPT ![db[p].datoff] = db[p].val]
  /\ Jump(p, "reuseidx")
  /\ UNCHANGED <<idx, free, chain, held, db, pos>>

ReuseIdx(p) ==
  /\ At(p, "reuseidx")
  /\ idx' = [idx EXCEPT ![db[p].idxoff] = NewIdx(p)]
  /\ Jump(p, "link")
  /\ Seek(p, db[p].idxoff + 1)
  /\ UNCHANGED <<dat, free, chain, held, db>>

\* A write at slot i, which is in the file or next to its end.
WriteAt(f, i, r) == IF i = Len(f) + 1 THEN Append(f, r) ELSE [f EXCEPT ![i] = r]

\* Mutant: seeks to the end and writes without a lock.
DatLockNothing(p) ==
  /\ At(p, "datlock")
  /\ Jump(p, "datend")
  /\ UNCHANGED <<files, held, db, pos>>

DatLock(p) ==
  /\ At(p, "datlock")
  /\ Lock(p, "dat", "W")
  /\ Jump(p, "datend")
  /\ UNCHANGED <<files, db, pos>>

\* lseek to the end of the data file
DatSeek(p) ==
  /\ At(p, "datend")
  /\ db' = [db EXCEPT ![p] = [@ EXCEPT !.datoff = Len(dat) + 1, !.datlen = DatLen[db[p].val]]]
  /\ Jump(p, "datwrite")
  /\ UNCHANGED <<files, held, pos>>

\* writev, un_lock
AppendDat(p) ==
  /\ At(p, "datwrite")
  /\ dat' = WriteAt(dat, db[p].datoff, db[p].val)
  /\ un_lock(p, "dat")
  /\ Jump(p, "taillock")
  /\ UNCHANGED <<idx, free, chain, db, pos>>

TailLock(p) ==
  /\ At(p, "taillock")
  /\ Lock(p, "tail", "W")
  /\ Jump(p, "tailend")
  /\ UNCHANGED <<files, db, pos>>

TailSeek(p) ==
  /\ At(p, "tailend")
  /\ db' = [db EXCEPT ![p].idxoff = Len(idx) + 1]
  /\ Jump(p, "tailwrite")
  /\ Seek(p, Len(idx) + 1)
  /\ UNCHANGED <<files, held>>

AppendIdx(p) ==
  /\ At(p, "tailwrite")
  /\ idx' = WriteAt(idx, db[p].idxoff, NewIdx(p))
  /\ un_lock(p, "tail")
  /\ Jump(p, "link")
  /\ Seek(p, db[p].idxoff + 1)
  /\ UNCHANGED <<dat, free, chain, db>>

\* _db_writeptr of the chain head; a slot past PTR_MAX is err_quit.
LinkChain(p) ==
  /\ At(p, "link") /\ db[p].idxoff <= PtrMax
  /\ chain' = [chain EXCEPT ![ChainOf(p)] = db[p].idxoff]
  /\ db' = [db EXCEPT ![p].rc = "ok"]
  /\ Jump(p, "unlock")
  /\ Seek(p, 0)
  /\ UNCHANGED <<idx, dat, free, held>>

LinkTooFar(p) == At(p, "link") /\ db[p].idxoff > PtrMax /\ Die(p)
-----------------------------------------------------------------------------
(* db_nextrec *)

\* Mutant: scans without locking the free list.
NextLockNothing(p) ==
  /\ At(p, "nlock")
  /\ Jump(p, "nread")
  /\ UNCHANGED <<files, held, db, pos>>

NextLock(p) ==
  /\ At(p, "nlock")
  /\ Lock(p, "free", "R")
  /\ Jump(p, "nread")
  /\ UNCHANGED <<files, db, pos>>

\* _db_readidx(db, 0) at the current offset; blank keys are skipped.
NextRead(p) ==
  /\ At(p, "nread") /\ pos[p] \in 1..Len(idx)
  /\ IF idx[pos[p]].key = Blank
     THEN UNCHANGED <<db, pc>>
     ELSE /\ db' = [db EXCEPT ![p] = [ReadIdx(@, pos[p]) EXCEPT !.key = idx[pos[p]].key]]
          /\ Jump(p, "nreaddat")
  /\ Seek(p, pos[p] + 1)
  /\ UNCHANGED <<files, held>>

NextReadDat(p) ==
  /\ At(p, "nreaddat")
  /\ db' = [db EXCEPT ![p].rc = dat[db[p].datoff]]
  /\ Jump(p, "nunlock")
  /\ UNCHANGED <<files, held, pos>>

NextEOF(p) ==
  /\ At(p, "nread") /\ pos[p] > Len(idx)
  /\ db' = [db EXCEPT ![p].rc = "eof"]
  /\ Jump(p, "nunlock")
  /\ UNCHANGED <<files, held, pos>>

\* An offset inside a pointer field: the length read there is invalid, err_dump.
NextMisread(p) == At(p, "nread") /\ pos[p] = 0 /\ Die(p)

NextUnlock(p) ==
  /\ At(p, "nunlock")
  /\ un_lock(p, "free")
  /\ Jump(p, "return")
  /\ UNCHANGED <<files, db, pos>>
-----------------------------------------------------------------------------
Find(p) == LockChain(p) \/ ReadChainPtr(p) \/ WalkChain(p) \/ NotFound(p)
           \/ Found(p) \/ FetchData(p) \/ UnlockChain(p)
DoDelete(p) == DelLockFree(p) \/ DelWriteDat(p) \/ DelReadFree(p) \/ DelWriteIdx(p)
               \/ DelWriteFree(p) \/ DelUnlink(p) \/ DelUnlockFree(p)
FindFree(p) == FreeLock(p) \/ FreeRead(p) \/ FreeWalk(p) \/ FreeUnlink(p) \/ FreeUnlock(p)
StoreWrites(p) == RereadChainPtr(p) \/ Overwrite(p) \/ ReuseDat(p) \/ ReuseIdx(p)
                  \/ DatLock(p) \/ DatSeek(p) \/ AppendDat(p) \/ TailLock(p) \/ TailSeek(p)
                  \/ AppendIdx(p)
                  \/ LinkChain(p) \/ LinkTooFar(p)
Nextrec(p) == NextLock(p) \/ NextRead(p) \/ NextReadDat(p) \/ NextEOF(p)
              \/ NextMisread(p) \/ NextUnlock(p)

\* The steps of a call in progress, and the calls a process makes.
Run(p) == Find(p) \/ DoDelete(p) \/ FindFree(p) \/ StoreWrites(p) \/ Nextrec(p) \/ Return(p)
Call(p) == CallFetch(p) \/ CallDelete(p) \/ CallStore(p) \/ CallNextrec(p) \/ db_rewind(p)

\* The process is killed in the middle of a call.
Kill(p) ==
  /\ pc[p] \notin {"idle", "dead"}
  /\ Cardinality({q \in Procs : pc[q] = "dead"}) < MaxKills
  /\ Die(p)

Next == \E p \in Procs : Call(p) \/ Run(p) \/ Kill(p)

Spec == Init /\ [][Next]_vars
-----------------------------------------------------------------------------
(* Properties. *)

DelPCs == {"delwdat", "delrfree", "delwidx", "delwfree", "delunlink", "delunlock"}
FreePCs == {"ffread", "ffwalk", "ffunlink", "ffunlock"}
ChainPCs == {"readptr", "walk", "found", "readdat", "unlock", "dellock", "reread",
             "fflock", "overwrite", "reusedat", "reuseidx", "datlock", "datend",
             "datwrite", "taillock", "tailend", "tailwrite", "link"} \cup DelPCs \cup FreePCs
NextPCs == {"nread", "nreaddat", "nunlock"}
\* Where the data offset, or the index offset, is about to be used.
DatPCs == {"found", "readdat", "dellock", "overwrite", "ffunlink", "ffunlock", "reusedat",
           "reuseidx", "taillock", "tailend", "tailwrite", "nreaddat"} \cup DelPCs
IdxPCs == {"found", "dellock", "ffunlink", "ffunlock", "reusedat", "reuseidx", "link"}
          \cup DelPCs
PCs == {"idle", "lock", "nlock", "return", "dead"} \cup ChainPCs \cup NextPCs

Calls == [op : OpNames \cup {None}, key : Keys \cup {None}, val : Vals \cup {None},
          flag : AllFlags \cup {None}, off : Nat, ptroff : Nat, head : Nat,
          idxoff : Nat, datoff : Nat, datlen : Nat, ptrval : Nat, freeptr : Nat,
          found : BOOLEAN,
          rc : Vals \cup {Blank, None, "ok", "exists", "notfound", "eof", "EINVAL"}]

TypeOK ==
  /\ idx \in Seq([ptr : Nat, key : Keys \cup {Blank}, klen : Nat, dat : Nat, dlen : Nat])
  /\ dat \in Seq(Vals \cup {Blank})
  /\ free \in Nat /\ chain \in [Chains -> Nat]
  /\ held \in [Procs -> SUBSET LockSet]
  /\ pc \in [Procs -> PCs]
  /\ db \in [Procs -> Calls]
  /\ pos \in [Procs -> Nat]

\* The slots met from s on: follow the chain pointers, at most once per record.
Path(s) ==
  LET f[n \in 0..Len(idx)] ==
        IF n = 0 THEN s ELSE LET i == f[n-1] IN IF i = 0 THEN 0 ELSE idx[i].ptr
  IN f
Ends(s) == Path(s)[Len(idx)] = 0
List(s) == LET f == Path(s) IN {f[n] : n \in 0..Len(idx)} \ {0}

WriteLocked(r) == \E p \in Procs : [res |-> r, mode |-> "W"] \in held[p]

(* A hash chain no process has write-locked ends, holds live records of its
   own keys only, and no key twice; a free list nobody has write-locked ends
   and holds blank records only.  (The promise behind the lock that
   _db_find_and_lock leaves held and the free-list lock of _db_dodelete and
   _db_findfree.) *)
ListsSound ==
  /\ \A h \in Chains : ~WriteLocked(h) =>
       LET recs == List(chain[h])
       IN /\ Ends(chain[h])
          /\ \A i \in recs : idx[i].key \in Keys /\ Hash[idx[i].key] = h
          /\ \A i, j \in recs : idx[i].key = idx[j].key => i = j
  /\ ~WriteLocked("free") =>
       Ends(free) /\ \A i \in List(free) : idx[i].key = Blank

(* Between calls every index record is on exactly one list, except the ones
   appended past PTR_MAX, whose process quit before linking them: delete and
   reuse neither leak a record nor put it on two lists. *)
NoRecordLeaks ==
  (\A p \in Procs : pc[p] \in {"idle", "dead"}) =>
    \A i \in 1..Len(idx) :
      LET lists == {h \in Chains : i \in List(chain[h])}
                   \cup (IF i \in List(free) THEN {"free"} ELSE {})
      IN Cardinality(lists) = IF i <= PtrMax THEN 1 ELSE 0

(* A reader about to read a data record still has the index record of its key,
   and the data has the length that record says: db_fetch and db_nextrec never
   meet a record being deleted or reused by another process (comment at
   db_nextrec; sanity checks of _db_readdat).  Only a process that was killed can
   leave blanked data behind a live key. *)
ReadersSeeWholeRecords ==
  \A p \in Procs : pc[p] \in {"readdat", "nreaddat"} =>
    /\ idx[db[p].idxoff].key = db[p].key
    /\ dat[db[p].datoff] # Blank => DatLen[dat[db[p].datoff]] = db[p].datlen
    /\ dat[db[p].datoff] = Blank => \E q \in Procs : pc[q] = "dead"

(* Every pointer in the files, and every one a process read earlier and is
   about to follow or store, names a record that is in the files, whatever
   happened in between and whoever was killed. *)
PointersValid ==
  LET Slots == 0..Len(idx)
  IN /\ free \in Slots
     /\ \A h \in Chains : chain[h] \in Slots
     /\ \A i \in DOMAIN idx : idx[i].ptr \in Slots /\ idx[i].dat \in DOMAIN dat
     /\ \A p \in Procs :
          /\ {db[p].off, db[p].ptroff, db[p].head, db[p].ptrval, db[p].freeptr}
               \subseteq Slots
          /\ pc[p] \in DatPCs => db[p].datoff \in DOMAIN dat
          /\ pc[p] \in IdxPCs => db[p].idxoff \in DOMAIN idx

(* Two index records never name the same data record, whoever appended in
   between (the locked appends of _db_writedat and _db_writeidx). *)
DataNotShared ==
  \A i, j \in DOMAIN idx : idx[i].dat = idx[j].dat => i = j

(* No step changes the place or the lengths of a record once written: reuse
   fits exactly, so offsets held by other processes stay record boundaries. *)
ShapeKept ==
  \A i \in DOMAIN idx :
    /\ i \in DOMAIN idx'
    /\ <<idx[i].klen, idx[i].dat, idx[i].dlen>>'
         = <<idx[i].klen, idx[i].dat, idx[i].dlen>>
RecordsKeepShape == [][ShapeKept]_vars

Rank(r) == CASE r \in Chains -> 0 [] r = "free" -> 1 [] r = "dat" -> 2 [] r = "tail" -> 3
\* The lock a process is waiting for.
Wants(p) == CASE pc[p] = "lock" -> {ChainOf(p)}
              [] pc[p] \in {"dellock", "fflock", "nlock"} -> {"free"}
              [] pc[p] = "datlock" -> {"dat"}
              [] pc[p] = "taillock" -> {"tail"}
              [] OTHER -> {}

(* A process waits only for a lock that comes after every lock it holds in the
   order chain, free list, data file, index tail: no cycle of F_SETLKW waits. *)
LockOrder ==
  \A p \in Procs : \A r \in Wants(p) : \A l \in held[p] : Rank(l.res) < Rank(r)

(* Steps that must not overlap do not: a search or an update of a hash chain
   runs alone on that chain unless all are db_fetch, the free list is changed
   by one process and scanned by nobody meanwhile, and each of the two files
   is extended by one process at a time. *)
Serialised ==
  \A p, q \in Procs : p # q =>
    /\ (pc[p] \in ChainPCs /\ pc[q] \in ChainPCs /\ ChainOf(p) = ChainOf(q))
         => db[p].op = "fetch" /\ db[q].op = "fetch"
    /\ pc[p] \in DelPCs \cup FreePCs => pc[q] \notin DelPCs \cup FreePCs \cup NextPCs
    /\ pc[p] \in {"datend", "datwrite"} => pc[q] \notin {"datend", "datwrite"}
    /\ pc[p] \in {"tailend", "tailwrite"} => pc[q] \notin {"tailend", "tailwrite"}

(* While a call is in progress some call can go on: never everyone waiting on
   everyone, also after a process died holding locks. *)
NotAllBlocked ==
  (\E p \in Procs : pc[p] \notin {"idle", "dead"}) => \E p \in Procs : ENABLED Run(p)

(* db_nextrec starts at a record: "db_rewind must be called before this
   function is called the first time" and db_open does it. *)
NextrecAtRecord == \A p \in Procs : pc[p] = "nread" => pos[p] # 0
-----------------------------------------------------------------------------
(* The abstract map the files stand for. *)

\* A delete counts from its first write on; so does a replace by
\* delete-and-append.
DeletedPCs == DelPCs \ {"delwdat"}
ReplacedPCs == DeletedPCs \cup {"reread", "datlock", "datend", "datwrite", "taillock",
                                "tailend", "tailwrite", "link"}
Replacing(p) == pc[p] \in ReplacedPCs /\ db[p].op = "store" /\ db[p].found
Deleting(p) == pc[p] \in DeletedPCs /\ db[p].op = "delete"

\* In the middle of _db_dodelete the record's own pointer is saved in ptrval.
SavedPCs == {"delwfree", "delunlink"}
NextOf(i) ==
  IF \E p \in Procs : pc[p] \in SavedPCs /\ db[p].idxoff = i
  THEN db[CHOOSE p \in Procs : pc[p] \in SavedPCs /\ db[p].idxoff = i].ptrval
  ELSE idx[i].ptr

DiskValue(k) ==
  LET f[n \in 0..Len(idx)] ==
        IF n = 0 THEN chain[Hash[k]]
        ELSE LET j == f[n-1] IN IF j = 0 \/ idx[j].key = k THEN j ELSE NextOf(j)
      i == f[Len(idx)]
  IN IF i = 0 THEN None ELSE dat[idx[i].dat]

\* The process whose delete or replace of k has begun to write, if any.
Changing(k) == {p \in Procs : (Replacing(p) \/ Deleting(p)) /\ db[p].key = k}

kvOf(k) ==
  IF Changing(k) = {} THEN DiskValue(k)
  ELSE LET d == db[CHOOSE p \in Changing(k) : TRUE]
       IN IF d.op = "store" THEN d.val ELSE None

\* The call d of a process, begun or done, as its caller sees it.
Entry(phase, d, rc) == [phase |-> phase, op |-> d.op, key |-> d.key, val |-> d.val,
                        flag |-> d.flag, rc |-> rc]

stOf(p) ==
  IF pc[p] = "dead" THEN [phase |-> "dead"]
  ELSE IF db[p].op \in {None, "nextrec"} THEN [phase |-> "idle"]
  ELSE IF Replacing(p) \/ Deleting(p) THEN Entry("done", db[p], "ok")
  ELSE IF db[p].rc # None THEN Entry("done", db[p], db[p].rc)
  ELSE Entry("called", db[p], None)

Map == INSTANCE DbMap WITH kv <- [k \in Keys |-> kvOf(k)],
                           st <- [p \in Procs |-> stOf(p)]

(* Every call on the shared files takes effect as one step on a map from keys
   to data, and returns what that map says. *)
ImplementsMap == Map!Spec
=============================================================================
