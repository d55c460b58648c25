----------------------------- MODULE DbMapProof -----------------------------
(***************************************************************************)
(* Proof that Db implements DbMap, for any number of processes, keys,      *)
(* chains and records, as long as no process is killed: every db_fetch,    *)
(* db_store and db_delete acts in one step on a map from keys to data.     *)
(*                                                                         *)
(* The value of a key is that of its live record, the one index record     *)
(* with that key that is linked into a chain; a step of one process        *)
(* changes the live record of its own key only.                            *)
(***************************************************************************)
EXTENDS DbListProof

USE DEF At, Jump, files

\* Where a process has found its key, or has failed to.
FoundPCs == {"found", "readdat", "dellock", "overwrite", "reread"} \cup DelPCs
MissPCs == {"lock", "readptr", "walk", "fflock", "reusedat", "reuseidx"} \cup FreePCs
\* Where db_store has found its key and goes on to replace the record.
ChangePCs == {"dellock", "overwrite", "reread"} \cup DelPCs
\* Where it writes a record at the end of the files.
AppendPCs == {"datlock", "datend", "datwrite", "taillock", "tailend", "tailwrite", "link"}

\* What the arguments and the result of a call are at each place.
CtlOK(d, l) ==
  /\ l = "idle" => d.op = None
  /\ l \in NextPCs \cup {"nlock"} => d.op = "nextrec"
  /\ l \in ChainPCs \cup {"lock"} /\ d.op = "store" => d.flag \in Flags /\ d.flag # "other"
  /\ l \in ChainPCs \cup {"lock"} /\ d.op # "store" => d.val = None /\ d.flag = None
  /\ l \in ChainPCs \cup {"lock"} => (d.rc = None <=> l # "unlock")
  /\ l = "return" => d.op = "nextrec" \/ d.rc # None
  /\ l \in FoundPCs => d.found = TRUE
  /\ l \in MissPCs => d.found = FALSE
  /\ l = "readdat" => d.op = "fetch"
  /\ l \in ChangePCs /\ d.op = "store" => d.flag # "DB_INSERT"
  /\ l \in AppendPCs /\ d.found = TRUE => d.flag # "DB_INSERT"
  /\ l \in AppendPCs /\ d.found = FALSE => d.flag # "DB_REPLACE"
  /\ l \in MissPCs \ {"lock", "readptr", "walk"} => d.flag # "DB_REPLACE"

CInv == \A p \in Procs : CtlOK(db[p], pc[p])

\* The record about to be linked has the data of the call.
VInv == \A p \in Procs : pc[p] = "link" => dat[idx[db[p].idxoff].dat] = db[p].val

\* The live record of key k: it has the key, it can be pointed to, and no db_store
\* has yet to link it.
Live(k) ==
  {i \in 1..Len(idx) :
     /\ idx[i].key = k /\ i <= PtrMax
     /\ ~\E p \in Procs : pc[p] = "link" /\ db[p].idxoff = i}
-----------------------------------------------------------------------------
(* The control of a call. *)
\* A call begins with its arguments and no result,
LEMMA CallCtl ==
  ASSUME TInv, CInv, NEW p \in Procs, Call(p) \/ Return(p)
  PROVE CtlOK(db'[p], pc'[p])
<1> USE DEF FoundPCs, MissPCs, ChangePCs, AppendPCs, ChainPCs, NextPCs, DelPCs, FreePCs
<1>0. pc \in [Procs -> PCs] /\ db \in [Procs -> Calls] /\ CtlOK(db[p], pc[p])
  BY DEF TInv, ProcsOK, CInv
<1>n. NoCall.op = None /\ NoCall.rc = None /\ NoCall.found = FALSE
  BY DEF NoCall
<1>1. CASE CallFetch(p) \/ CallDelete(p)
  <2>1. PICK k \in Keys, o \in {"fetch", "delete"} :
          call(p, [NoCall EXCEPT !.op = o, !.key = k], "lock")
    BY <1>1 DEF CallFetch, CallDelete
  <2> PICK d : d = [NoCall EXCEPT !.op = o, !.key = k]
    OBVIOUS
  <2>2. db'[p] = d /\ pc'[p] = "lock"
    BY <1>0, <2>1 DEF call
  <2>3. d.op = o /\ d.val = None /\ d.flag = None /\ d.rc = None /\ d.found = FALSE
    BY DEF NoCall
  <2> QED BY <2>2, <2>3 DEF CtlOK
<1>2. CASE CallStore(p)
  <2>1. PICK k \in Keys, v \in Vals, f \in Flags :
          LET d == [NoCall EXCEPT !.op = "store", !.key = k, !.val = v, !.flag = f]
          IN IF f = "other" THEN call(p, [d EXCEPT !.rc = "EINVAL"], "return")
             ELSE call(p, d, "lock")
    BY <1>2 DEF CallStore
  <2> PICK d : d = [NoCall EXCEPT !.op = "store", !.key = k, !.val = v, !.flag = f]
    OBVIOUS
  <2>2. d.op = "store" /\ d.flag = f /\ d.rc = None /\ d.found = FALSE
    BY DEF NoCall
  <2> PICK e : e = [d EXCEPT !.rc = "EINVAL"]
    OBVIOUS
  <2>3. e.rc = "EINVAL"
    BY DEF NoCall
  <2>4. None # "EINVAL"
    BY DbAssumption
  <2>5. CASE f = "other"
    <3>1. db'[p] = e /\ pc'[p] = "return"
      BY <1>0, <2>1, <2>5 DEF call
    <3> QED BY <2>3, <2>4, <3>1 DEF CtlOK
  <2>6. CASE f # "other"
    <3>1. db'[p] = d /\ pc'[p] = "lock"
      BY <1>0, <2>1, <2>6 DEF call
    <3> QED BY <2>2, <2>6, <3>1 DEF CtlOK
  <2> QED BY <2>5, <2>6
<1>3. CASE CallNextrec(p)
  <2> PICK d : d = [NoCall EXCEPT !.op = "nextrec"]
    OBVIOUS
  <2>1. d.op = "nextrec"
    BY DEF NoCall
  <2>2. db'[p] = d /\ pc'[p] = "nlock"
    BY <1>0, <1>3 DEF CallNextrec, call
  <2> QED BY <2>1, <2>2 DEF CtlOK
<1>4. CASE db_rewind(p)
  BY <1>0, <1>4 DEF db_rewind
<1>5. CASE Return(p)
  <2>1. db'[p] = NoCall /\ pc'[p] = "idle"
    BY <1>0, <1>5 DEF Return
  <2> QED BY <1>n, <2>1 DEF CtlOK
<1> QED BY <1>1, <1>2, <1>3, <1>4, <1>5 DEF Call

\* the search finds the key or fails,
LEMMA FindCtl ==
  ASSUME TInv, CInv, NEW p \in Procs, Find(p)
  PROVE CtlOK(db'[p], pc'[p])
<1> USE DEF FoundPCs, MissPCs, ChangePCs, AppendPCs, ChainPCs, NextPCs, DelPCs, FreePCs
<1>0. pc \in [Procs -> PCs] /\ db \in [Procs -> Calls] /\ CtlOK(db[p], pc[p])
  BY DEF TInv, ProcsOK, CInv
<1> PICK e : e = db[p]
  OBVIOUS
<1>1. e \in Calls /\ CallOK(e, pc[p], Len(idx), Len(dat)) /\ CtlOK(e, pc[p])
  BY <1>0, CallNow
<1>2. None \notin {"ok", "exists", "notfound"}
  BY DbAssumption
<1>3. CASE LockChain(p) \/ ReadChainPtr(p)
  <2>1. pc[p] \in {"lock", "readptr"} /\ pc'[p] \in {"readptr", "walk"}
    BY <1>0, <1>3 DEF LockChain, ReadChainPtr
  <2>2. /\ db'[p].op = e.op /\ db'[p].val = e.val /\ db'[p].flag = e.flag
        /\ db'[p].rc = e.rc /\ db'[p].found = e.found
    <3> PICK f : f = [e EXCEPT !.off = chain[ChainOf(p)], !.ptroff = 0]
      OBVIOUS
    <3>1. /\ f.op = e.op /\ f.val = e.val /\ f.flag = e.flag /\ f.rc = e.rc
          /\ f.found = e.found
      BY <1>1 DEF Calls
    <3>2. db'[p] = e \/ db'[p] = f
      BY <1>0, <1>3 DEF LockChain, ReadChainPtr
    <3> QED BY <3>1, <3>2
  <2> QED BY <1>1, <2>1, <2>2 DEF CtlOK
<1>4. CASE WalkChain(p)
  <2>0. db[p].off \in 0..Len(idx) /\ pc[p] = "walk"
    BY <1>4, HasTypes DEF WalkChain
  <2> PICK d : d = ReadIdx(e, e.off)
    OBVIOUS
  <2>1. /\ d.op = e.op /\ d.val = e.val /\ d.flag = e.flag /\ d.rc = e.rc
        /\ d.found = e.found
    BY <1>1 DEF ReadIdx, Calls
  <2> PICK f, g : f = [d EXCEPT !.found = TRUE] /\ g = [d EXCEPT !.off = d.ptrval, !.ptroff = e.off]
    OBVIOUS
  <2>2. /\ f.op = d.op /\ f.val = d.val /\ f.flag = d.flag /\ f.rc = d.rc /\ f.found = TRUE
        /\ g.op = d.op /\ g.val = d.val /\ g.flag = d.flag /\ g.rc = d.rc /\ g.found = d.found
    BY <1>1 DEF ReadIdx, Calls
  <2>3. \/ db'[p] = f /\ pc'[p] = "found"
        \/ db'[p] = g /\ pc'[p] = "walk"
    BY <1>0, <1>4 DEF WalkChain
  <2>4. CASE db'[p] = f /\ pc'[p] = "found"
    BY <1>1, <2>0, <2>1, <2>2, <2>4 DEF CtlOK
  <2>5. CASE db'[p] = g /\ pc'[p] = "walk"
    BY <1>1, <2>0, <2>1, <2>2, <2>5 DEF CtlOK
  <2> QED BY <2>3, <2>4, <2>5
<1>5. CASE NotFound(p)
  <2> PICK f : f = [e EXCEPT !.rc = "notfound"]
    OBVIOUS
  <2> PICK g : g = [e EXCEPT !.head = chain[ChainOf(p)]]
    OBVIOUS
  <2>1. /\ f.op = e.op /\ f.val = e.val /\ f.flag = e.flag /\ f.rc = "notfound"
        /\ g.op = e.op /\ g.val = e.val /\ g.flag = e.flag /\ g.rc = e.rc /\ g.found = e.found
    BY <1>1 DEF Calls
  <2>2. \/ db'[p] = f /\ pc'[p] = "unlock"
        \/ db'[p] = g /\ pc'[p] = "fflock" /\ e.op = "store" /\ e.flag # "DB_REPLACE"
    BY <1>0, <1>5 DEF NotFound
  <2>3. pc[p] = "walk"
    BY <1>5 DEF NotFound
  <2>4. CASE db'[p] = f /\ pc'[p] = "unlock"
    BY <1>1, <1>2, <2>1, <2>3, <2>4 DEF CtlOK
  <2>5. CASE db'[p] = g /\ pc'[p] = "fflock" /\ e.op = "store" /\ e.flag # "DB_REPLACE"
    BY <1>1, <2>1, <2>3, <2>5 DEF CtlOK
  <2> QED BY <2>2, <2>4, <2>5
<1>6. CASE Found(p)
  <2>0. pc[p] = "found" /\ e.op \in {"fetch", "store", "delete"}
    BY <1>1, <1>6 DEF Found, CallOK
  <2> PICK f : f = [e EXCEPT !.rc = "exists"]
    OBVIOUS
  <2>1. f.op = e.op /\ f.val = e.val /\ f.flag = e.flag /\ f.rc = "exists"
    BY <1>1 DEF Calls
  <2>2. \/ db'[p] = e /\ pc'[p] = "readdat" /\ e.op = "fetch"
        \/ db'[p] = e /\ pc'[p] = "dellock" /\ e.op = "delete"
        \/ db'[p] = f /\ pc'[p] = "unlock"
        \/ db'[p] = e /\ pc'[p] \in {"dellock", "overwrite"} /\ e.flag # "DB_INSERT"
    BY <1>0, <1>6, <2>0 DEF Found
  <2>3. CASE db'[p] = e /\ pc'[p] = "readdat" /\ e.op = "fetch"
    BY <1>1, <2>0, <2>3 DEF CtlOK
  <2>4. CASE db'[p] = e /\ pc'[p] = "dellock" /\ e.op = "delete"
    BY <1>1, <2>0, <2>4 DEF CtlOK
  <2>5. CASE db'[p] = f /\ pc'[p] = "unlock"
    BY <1>1, <1>2, <2>0, <2>1, <2>5 DEF CtlOK
  <2>6. CASE db'[p] = e /\ pc'[p] \in {"dellock", "overwrite"} /\ e.flag # "DB_INSERT"
    BY <1>1, <2>0, <2>6 DEF CtlOK
  <2> QED BY <2>2, <2>3, <2>4, <2>5, <2>6
<1>7. CASE FetchData(p)
  <2> PICK f : f = [e EXCEPT !.rc = dat[e.datoff]]
    OBVIOUS
  <2>0. pc[p] = "readdat" /\ db'[p] = f /\ pc'[p] = "unlock"
    BY <1>0, <1>7 DEF FetchData
  <2>1. dat[e.datoff] # None
    <3>1. e.datoff \in 1..Len(dat) /\ dat \in Seq(Vals \cup {Blank})
      BY <1>1, <2>0 DEF CallOK, DatPCs, TInv, FilesOK
    <3> QED BY <3>1, DbAssumption
  <2>2. f.op = e.op /\ f.val = e.val /\ f.flag = e.flag /\ f.rc # None
    BY <1>1, <2>1 DEF Calls
  <2> QED BY <1>1, <2>0, <2>2 DEF CtlOK
<1>8. CASE UnlockChain(p)
  <2>0. pc[p] = "unlock" /\ db'[p] = e /\ pc'[p] = "return"
    BY <1>0, <1>8 DEF UnlockChain
  <2> QED BY <1>1, <2>0 DEF CtlOK
<1> QED BY <1>3, <1>4, <1>5, <1>6, <1>7, <1>8 DEF Find

\* Two DB structures are of one call if they have the same arguments.
SameArgs(d, e) ==
  d.op = e.op /\ d.key = e.key /\ d.val = e.val /\ d.flag = e.flag /\ d.found = e.found
SameCall(d, e) == SameArgs(d, e) /\ d.rc = e.rc

\* The order of the routines of _db_dodelete, _db_findfree and the writes of db_store.
Follows(a, b) ==
  \/ a = "dellock" /\ b = "delwdat"
  \/ a = "delwdat" /\ b = "delrfree"
  \/ a = "delrfree" /\ b = "delwidx"
  \/ a = "delwidx" /\ b = "delwfree"
  \/ a = "delwfree" /\ b = "delunlink"
  \/ a = "delunlink" /\ b = "delunlock"
  \/ a = "delunlock" /\ b = "reread"
  \/ a = "reread" /\ b = "datlock"
  \/ a = "fflock" /\ b = "ffread"
  \/ a = "ffread" /\ b = "ffwalk"
  \/ a = "ffwalk" /\ b = "ffwalk"
  \/ a = "ffwalk" /\ b = "ffunlink"
  \/ a = "ffunlink" /\ b = "ffunlock"
  \/ a = "ffunlock" /\ b = "reusedat"
  \/ a = "ffwalk" /\ b = "datlock"
  \/ a = "reusedat" /\ b = "reuseidx"
  \/ a = "reuseidx" /\ b = "link"
  \/ a = "datlock" /\ b = "datend"
  \/ a = "datend" /\ b = "datwrite"
  \/ a = "datwrite" /\ b = "taillock"
  \/ a = "taillock" /\ b = "tailend"
  \/ a = "tailend" /\ b = "tailwrite"
  \/ a = "tailwrite" /\ b = "link"

\* The steps of an update: the call stays what it is and goes on, or it is done, or
\* the new record is beyond reach.
LEMMA WriteMoves ==
  ASSUME TInv, NEW p \in Procs, DoDelete(p) \/ FindFree(p) \/ StoreWrites(p)
  PROVE \/ /\ SameCall(db'[p], db[p]) /\ Follows(pc[p], pc'[p])
           /\ pc'[p] = "reread" => db[p].op # "delete"
        \/ /\ SameArgs(db'[p], db[p]) /\ db'[p].rc = "ok" /\ pc'[p] = "unlock"
           /\ pc[p] \in {"delunlock", "overwrite", "link"}
           /\ pc[p] = "delunlock" => db[p].op = "delete"
        \/ LinkTooFar(p) /\ db'[p] = NoCall /\ pc'[p] = "dead"
<1>0. pc \in [Procs -> PCs] /\ db \in [Procs -> Calls]
  BY DEF TInv, ProcsOK
<1> PICK d, e, l, m : d = db[p] /\ e = db'[p] /\ l = pc[p] /\ m = pc'[p]
  OBVIOUS
<1>1. d \in Calls /\ SameCall(d, d)
  BY <1>0 DEF SameCall, SameArgs
<1>2. CASE DelLockFree(p) \/ DelWriteDat(p) \/ DelWriteIdx(p) \/ DelWriteFree(p) \/ DelUnlink(p)
  <2>1. e = d
    BY <1>2 DEF DelLockFree, DelWriteDat, DelWriteIdx, DelWriteFree, DelUnlink
  <2>2. \/ l = "dellock" /\ m = "delwdat"
        \/ l = "delwdat" /\ m = "delrfree"
        \/ l = "delwidx" /\ m = "delwfree"
        \/ l = "delwfree" /\ m = "delunlink"
        \/ l = "delunlink" /\ m = "delunlock"
    BY <1>0, <1>2 DEF DelLockFree, DelWriteDat, DelWriteIdx, DelWriteFree, DelUnlink
  <2>3. Follows(l, m) /\ m # "reread"
    BY <2>2 DEF Follows
  <2> QED BY <1>1, <2>1, <2>3
<1>3. CASE DelReadFree(p)
  <2>1. l = "delrfree" /\ m = "delwidx" /\ e = [d EXCEPT !.freeptr = free]
    BY <1>0, <1>3 DEF DelReadFree
  <2>2. SameCall(e, d)
    BY <1>1, <2>1 DEF SameCall, SameArgs, Calls
  <2>3. Follows(l, m) /\ m # "reread"
    BY <2>1 DEF Follows
  <2> QED BY <2>2, <2>3
<1>4. CASE RereadChainPtr(p)
  <2> PICK x : x = chain[ChainOf(p)]
    OBVIOUS
  <2>1. l = "reread" /\ m = "datlock" /\ e = [d EXCEPT !.head = x]
    BY <1>0, <1>4 DEF RereadChainPtr
  <2>2. SameCall(e, d)
    BY <1>1, <2>1 DEF SameCall, SameArgs, Calls
  <2>3. Follows(l, m) /\ m # "reread"
    BY <2>1 DEF Follows
  <2> QED BY <2>2, <2>3
<1>5. CASE DelUnlockFree(p)
  <2>1. l = "delunlock"
    BY <1>5 DEF DelUnlockFree
  <2>2. CASE d.op = "delete"
    <3>1. e = [d EXCEPT !.rc = "ok"] /\ m = "unlock"
      BY <1>0, <1>5, <2>2 DEF DelUnlockFree
    <3>2. SameArgs(e, d) /\ e.rc = "ok"
      BY <1>1, <3>1 DEF SameArgs, Calls
    <3> QED BY <2>1, <2>2, <3>1, <3>2
  <2>3. CASE d.op # "delete"
    <3>1. e = d /\ m = "reread"
      BY <1>0, <1>5, <2>3 DEF DelUnlockFree
    <3>2. Follows(l, m)
      BY <2>1, <3>1 DEF Follows
    <3> QED BY <1>1, <2>3, <3>1, <3>2
  <2> QED BY <2>2, <2>3
<1>6. CASE FreeLock(p) \/ FreeUnlink(p) \/ FreeUnlock(p)
  <2>1. e = d
    BY <1>6 DEF FreeLock, FreeUnlink, FreeUnlock
  <2>2. \/ l = "fflock" /\ m = "ffread"
        \/ l = "ffunlink" /\ m = "ffunlock"
        \/ l = "ffunlock" /\ m = "reusedat"
        \/ l = "ffwalk" /\ m = "datlock"
    BY <1>0, <1>6 DEF FreeLock, FreeUnlink, FreeUnlock
  <2>3. Follows(l, m) /\ m # "reread"
    BY <2>2 DEF Follows
  <2> QED BY <1>1, <2>1, <2>3
<1>7. CASE FreeRead(p)
  <2>1. l = "ffread" /\ m = "ffwalk" /\ e = [d EXCEPT !.off = free, !.ptroff = 0]
    BY <1>0, <1>7 DEF FreeRead
  <2>2. SameCall(e, d)
    BY <1>1, <2>1 DEF SameCall, SameArgs, Calls
  <2>3. Follows(l, m) /\ m # "reread"
    BY <2>1 DEF Follows
  <2> QED BY <2>2, <2>3
<1>8. CASE FreeWalk(p)
  <2> PICK f : f = ReadIdx(d, d.off)
    OBVIOUS
  <2>1. l = "ffwalk" /\ m \in {"ffwalk", "ffunlink"}
    BY <1>0, <1>8 DEF FreeWalk
  <2>2. e = f \/ e = [f EXCEPT !.off = f.ptrval, !.ptroff = d.off]
    BY <1>0, <1>8 DEF FreeWalk
  <2>3. SameCall(f, d) /\ SameCall([f EXCEPT !.off = f.ptrval, !.ptroff = d.off], d)
    BY <1>1 DEF SameCall, SameArgs, ReadIdx, Calls
  <2>4. Follows(l, m) /\ m # "reread"
    BY <2>1 DEF Follows
  <2> QED BY <2>2, <2>3, <2>4
<1>9. CASE ReuseDat(p) \/ ReuseIdx(p) \/ DatLock(p) \/ AppendDat(p) \/ TailLock(p) \/ AppendIdx(p)
  <2>1. e = d
    BY <1>9 DEF ReuseDat, ReuseIdx, DatLock, AppendDat, TailLock, AppendIdx
  <2>2. \/ l = "reusedat" /\ m = "reuseidx"
        \/ l = "reuseidx" /\ m = "link"
        \/ l = "datlock" /\ m = "datend"
        \/ l = "datwrite" /\ m = "taillock"
        \/ l = "taillock" /\ m = "tailend"
        \/ l = "tailwrite" /\ m = "link"
    BY <1>0, <1>9 DEF ReuseDat, ReuseIdx, DatLock, AppendDat, TailLock, AppendIdx
  <2>3. Follows(l, m) /\ m # "reread"
    BY <2>2 DEF Follows
  <2> QED BY <1>1, <2>1, <2>3
<1>10. CASE DatSeek(p)
  <2> PICK x, y : x = Len(dat) + 1 /\ y = DatLen[d.val]
    OBVIOUS
  <2>1. l = "datend" /\ m = "datwrite" /\ e = [d EXCEPT !.datoff = x, !.datlen = y]
    BY <1>0, <1>10 DEF DatSeek
  <2>2. SameCall(e, d)
    BY <1>1, <2>1 DEF SameCall, SameArgs, Calls
  <2>3. Follows(l, m) /\ m # "reread"
    BY <2>1 DEF Follows
  <2> QED BY <2>2, <2>3
<1>11. CASE TailSeek(p)
  <2> PICK x : x = Len(idx) + 1
    OBVIOUS
  <2>1. l = "tailend" /\ m = "tailwrite" /\ e = [d EXCEPT !.idxoff = x]
    BY <1>0, <1>11 DEF TailSeek
  <2>2. SameCall(e, d)
    BY <1>1, <2>1 DEF SameCall, SameArgs, Calls
  <2>3. Follows(l, m) /\ m # "reread"
    BY <2>1 DEF Follows
  <2> QED BY <2>2, <2>3
<1>12. CASE Overwrite(p) \/ LinkChain(p)
  <2>1. e = [d EXCEPT !.rc = "ok"] /\ m = "unlock" /\ l \in {"overwrite", "link"}
    BY <1>0, <1>12 DEF Overwrite, LinkChain
  <2>2. SameArgs(e, d) /\ e.rc = "ok"
    BY <1>1, <2>1 DEF SameArgs, Calls
  <2> QED BY <2>1, <2>2
<1>13. CASE LinkTooFar(p)
  BY <1>0, <1>13 DEF LinkTooFar, Die
<1> QED BY <1>2, <1>3, <1>4, <1>5, <1>6, <1>7, <1>8, <1>9, <1>10, <1>11, <1>12, <1>13
       DEF DoDelete, FindFree, StoreWrites

\* an update goes on to its end,
LEMMA WriteCtl ==
  ASSUME TInv, CInv, NEW p \in Procs, DoDelete(p) \/ FindFree(p) \/ StoreWrites(p)
  PROVE CtlOK(db'[p], pc'[p])
<1> USE DEF FoundPCs, MissPCs, ChangePCs, AppendPCs, ChainPCs, NextPCs, DelPCs, FreePCs
<1>0. CallOK(db[p], pc[p], Len(idx), Len(dat)) /\ CtlOK(db[p], pc[p])
  BY CallNow DEF CInv
<1> PICK d, e, l, m : d = db[p] /\ e = db'[p] /\ l = pc[p] /\ m = pc'[p]
  OBVIOUS
<1>1. CtlOK(d, l) /\ d.found \in BOOLEAN
  BY <1>0 DEF CallOK, Calls
<1>2. l \in {"fflock", "ffread", "ffwalk", "ffunlink", "ffunlock", "reusedat", "reuseidx"}
        => d.op = "store"
  BY <1>0 DEF CallOK, StorePCs
<1>3. CASE SameCall(e, d) /\ Follows(l, m)
  <2>1. /\ l \in ChainPCs \ {"unlock"} /\ m \in ChainPCs \ {"unlock"} /\ m \notin NextPCs
        /\ m \notin {"idle", "nlock", "return", "readdat"}
    BY <1>3 DEF Follows
  <2>2. /\ m \in FoundPCs => l \in FoundPCs
        /\ m \in MissPCs => l \in MissPCs \ {"lock", "readptr", "walk"}
        /\ m \in ChangePCs => l \in ChangePCs
        /\ m \in AppendPCs => l \in AppendPCs \/ l = "reread" \/ l \in MissPCs \ {"lock", "readptr", "walk"}
    BY <1>3 DEF Follows
  <2>3. e.op = d.op /\ e.val = d.val /\ e.flag = d.flag /\ e.found = d.found /\ e.rc = d.rc
    BY <1>3 DEF SameCall, SameArgs
  <2> HIDE DEF FoundPCs, MissPCs, ChangePCs, AppendPCs, ChainPCs, NextPCs, DelPCs, FreePCs
  <2>4. l = "reread" => l \in FoundPCs /\ l \in ChangePCs /\ d.op = "store"
    BY <1>0 DEF FoundPCs, ChangePCs, CallOK, StorePCs
  <2>5. /\ (m \in FoundPCs => e.found = TRUE) /\ (m \in MissPCs => e.found = FALSE)
        /\ (m \in ChangePCs /\ e.op = "store" => e.flag # "DB_INSERT")
        /\ m \in MissPCs \ {"lock", "readptr", "walk"} => e.flag # "DB_REPLACE"
    BY <1>1, <2>2, <2>3 DEF CtlOK
  <2>6. m \in AppendPCs => (e.found = TRUE => e.flag # "DB_INSERT")
    BY <1>1, <2>2, <2>3, <2>4 DEF CtlOK
  <2>7. m \in AppendPCs => (e.found = FALSE => e.flag # "DB_REPLACE")
    BY <1>1, <2>2, <2>3, <2>4 DEF CtlOK
  <2> QED BY <1>1, <2>1, <2>3, <2>5, <2>6, <2>7 DEF CtlOK
<1>4. CASE SameArgs(e, d) /\ e.rc = "ok" /\ m = "unlock" /\ l \in {"delunlock", "overwrite", "link"}
  <2>1. e.op = d.op /\ e.val = d.val /\ e.flag = d.flag
    BY <1>4 DEF SameArgs
  <2>2. None # "ok"
    BY DbAssumption
  <2> QED BY <1>1, <1>4, <2>1, <2>2 DEF CtlOK
<1>5. CASE m = "dead"
  BY <1>5 DEF CtlOK
<1> QED BY <1>3, <1>4, <1>5, WriteMoves

\* and db_nextrec stays db_nextrec.
LEMMA NextrecCtl ==
  ASSUME TInv, CInv, NEW p \in Procs, Nextrec(p)
  PROVE /\ CtlOK(db'[p], pc'[p]) /\ db[p].op = "nextrec"
        /\ pc'[p] = "dead" \/ (db'[p].op = "nextrec" /\ pc'[p] \in NextPCs \cup {"return"})
        /\ pc[p] \in NextPCs \cup {"nlock"}
<1> USE DEF FoundPCs, MissPCs, ChangePCs, AppendPCs, ChainPCs, NextPCs, DelPCs, FreePCs
<1>0. pc \in [Procs -> PCs] /\ db \in [Procs -> Calls] /\ CtlOK(db[p], pc[p])
  BY DEF TInv, ProcsOK, CInv
<1> PICK d : d = db[p]
  OBVIOUS
<1>1. d \in Calls
  BY <1>0
<1>2. pc[p] \in NextPCs \cup {"nlock"}
  BY DEF Nextrec, NextLock, NextRead, NextReadDat, NextEOF, NextMisread, NextUnlock
<1>3. d.op = "nextrec"
  BY <1>0, <1>2 DEF CtlOK
<1>4. CASE NextMisread(p)
  <2>1. pc'[p] = "dead"
    BY <1>0, <1>4 DEF NextMisread, Die
  <2> QED BY <1>2, <1>3, <2>1 DEF CtlOK
<1>5. CASE NextRead(p)
  <2> PICK i : i = pos[p]
    OBVIOUS
  <2> PICK e : e = [ReadIdx(d, i) EXCEPT !.key = idx[i].key]
    OBVIOUS
  <2>1. e.op = d.op
    BY <1>1 DEF ReadIdx, Calls
  <2>2. (db'[p] = d \/ db'[p] = e) /\ pc'[p] \in {"nread", "nreaddat"}
    BY <1>0, <1>5 DEF NextRead
  <2> QED BY <1>2, <1>3, <2>1, <2>2 DEF CtlOK
<1>6. CASE NextLock(p) \/ NextReadDat(p) \/ NextEOF(p) \/ NextUnlock(p)
  <2>1. pc'[p] \in {"nread", "nunlock", "return"}
    BY <1>0, <1>6 DEF NextLock, NextReadDat, NextEOF, NextUnlock
  <2> PICK x : x = dat[d.datoff]
    OBVIOUS
  <2>2. db'[p] = d \/ db'[p] = [d EXCEPT !.rc = x] \/ db'[p] = [d EXCEPT !.rc = "eof"]
    BY <1>0, <1>6 DEF NextLock, NextReadDat, NextEOF, NextUnlock
  <2>3. db'[p].op = "nextrec"
    BY <1>1, <1>3, <2>2 DEF Calls
  <2> QED BY <1>2, <1>3, <2>1, <2>3 DEF CtlOK
<1> QED BY <1>4, <1>5, <1>6 DEF Nextrec

\* The arguments, the result and the place of every call fit together.
LEMMA CtlStep ==
  ASSUME TInv, CInv, NEW p \in Procs, Call(p) \/ Run(p)
  PROVE CInv'
<1>1. CtlOK(db'[p], pc'[p])
  BY CallCtl, FindCtl, WriteCtl, NextrecCtl DEF Run
<1>2. \A q \in Procs : q # p => db'[q] = db[q] /\ pc'[q] = pc[q]
  BY OthersSame DEF Others, Same, Step
<1> QED BY <1>1, <1>2 DEF CInv
-----------------------------------------------------------------------------
(* The live record of a key, and the value the files give it. *)
\* It is the record with the key on the chain of the key,
LEMMA LiveIs ==
  ASSUME TInv, NEW s \in Stacks, NEW c \in Counts, Shape(s, c), NEW k \in Keys, NEW i
  PROVE i \in Live(k) <=> \E r \in 1..c[Hash[k]] : s[Hash[k]][r] = i /\ idx[i].key = k
<1> PICK h : h = Hash[k]
  OBVIOUS
<1>0. h \in Chains /\ h \in Lists /\ k # Blank
  BY DbAssumption DEF Lists
<1>1. ASSUME NEW r \in 1..c[h], s[h][r] = i, idx[i].key = k PROVE i \in Live(k)
  <2>1. i \in 1..Len(idx) /\ i <= PtrMax
    BY <1>0, <1>1 DEF Shape, StacksOK
  <2>2. Listed(s, c, i)
    BY <1>0, <1>1 DEF Listed
  <2>3. ASSUME NEW p \in Procs, pc[p] = "link", db[p].idxoff = i PROVE FALSE
    BY <2>2, <2>3 DEF Shape, ProcOK, Holds, HeldPCs
  <2> QED BY <1>1, <2>1, <2>3 DEF Live
<1>2. ASSUME i \in Live(k) PROVE \E r \in 1..c[h] : s[h][r] = i /\ idx[i].key = k
  <2>1. i \in 1..Len(idx) /\ idx[i].key = k /\ i <= PtrMax
    BY <1>2 DEF Live
  <2>2. ~\E p \in Procs : pc[p] = "link" /\ db[p].idxoff = i
    BY <1>2 DEF Live
  <2>3. ~\E p \in Procs : pc[p] \in HeldPCs /\ db[p].idxoff = i
    BY <1>0, <2>1, <2>2 DEF Shape, ProcOK, Holds, HeldPCs
  <2>4. PtrMax \in Nat /\ i \in Nat
    BY <2>1, DbAssumption
  <2>5. PICK g \in Lists : \E r \in 1..c[g] : s[g][r] = i
    BY <2>1, <2>3, <2>4 DEF Shape, CoverOK, Listed
  <2>6. PICK r \in 1..c[g] : s[g][r] = i
    BY <2>5
  <2>7. ~Unlinking(i)
    BY <1>0, <2>1 DEF Unlinking, Shape, ProcOK, Deletes
  <2>8. g # "free"
    BY <1>0, <2>1, <2>6 DEF Shape, KeysOK
  <2>9. g \in Chains
    BY <2>5, <2>8 DEF Lists
  <2>10. Hash[idx[i].key] = g
    BY <2>6, <2>7, <2>9 DEF Shape, KeysOK
  <2> QED BY <2>1, <2>6, <2>10
<1> QED BY <1>1, <1>2

\* there is at most one,
LEMMA LiveOne ==
  ASSUME TInv, SInv, NEW k \in Keys, NEW i \in Live(k), NEW j \in Live(k)
  PROVE i = j
<1>0. PICK s \in Stacks, c \in Counts : Shape(s, c)
  BY DEF SInv, Stacks, Counts
<1> PICK h : h = Hash[k]
  OBVIOUS
<1>1. h \in Chains /\ k # Blank
  BY DbAssumption
<1>2. PICK r \in 1..c[h] : s[h][r] = i /\ idx[i].key = k
  BY <1>0, LiveIs
<1>3. PICK t \in 1..c[h] : s[h][t] = j /\ idx[j].key = k
  BY <1>0, LiveIs
<1>4. r = t
  BY <1>0, <1>1, <1>2, <1>3 DEF Shape, KeysOK
<1> QED BY <1>2, <1>3, <1>4

\* and whoever follows the chain comes to it, through a record being unlinked too.
LEMMA NextIs ==
  ASSUME TInv, LInv, NEW s \in Stacks, NEW c \in Counts, Shape(s, c), NEW h \in Chains,
         NEW r \in 1..c[h]
  PROVE NextOf(s[h][r]) = s[h][r - 1]
<1> PICK i : i = s[h][r]
  OBVIOUS
<1>0. h \in Lists
  BY DEF Lists
<1>1. CASE Unlinking(i)
  <2> DEFINE P(q) == q \in Procs /\ pc[q] \in SavedPCs /\ db[q].idxoff = i
  <2> PICK q : q = CHOOSE x : P(x)
    OBVIOUS
  <2>1. \E x : P(x)
    BY <1>1 DEF Unlinking
  <2>2. P(q)
    <3> HIDE DEF P
    <3> QED BY <2>1, Zenon
  <2>3. NextOf(i) = db[q].ptrval
    <3>1. \E p \in Procs : pc[p] \in SavedPCs /\ db[p].idxoff = i
      BY <2>1
    <3>2. (CHOOSE p \in Procs : pc[p] \in SavedPCs /\ db[p].idxoff = i) = CHOOSE x : P(x)
      OBVIOUS
    <3> HIDE DEF P
    <3> QED BY <3>1, <3>2 DEF NextOf
  <2>4. ChainOf(q) \in Lists
    BY <2>2, HasTypes DEF SavedPCs, ChainPCs, DelPCs
  <2>5. PICK t \in 1..c[ChainOf(q)] : OnList(s, c, q, ChainOf(q), t)
    BY <2>2 DEF Shape, ProcOK, Has
  <2>6. ChainOf(q) = h /\ t = r
    <3> PICK g : g = ChainOf(q)
      OBVIOUS
    <3>1. g \in Lists /\ t \in 1..c[g] /\ s[g][t] = s[h][r]
      BY <2>2, <2>4, <2>5 DEF OnList
    <3>2. \A x, y \in Lists : \A u \in 1..c[x], v \in 1..c[y] : s[x][u] = s[y][v] => x = y /\ u = v
      BY DEF Shape, StacksOK
    <3> QED BY <1>0, <3>1, <3>2
  <2> QED BY <2>3, <2>5, <2>6 DEF OnList
<1>2. CASE ~Unlinking(i)
  <2>1. NextOf(i) = idx[i].ptr
    BY <1>2 DEF NextOf, Unlinking
  <2> QED BY <1>0, <1>2, <2>1 DEF Shape, LinksOK
<1> QED BY <1>1, <1>2

\* The value on disk, when the search for k stops at place r of its chain.
LEMMA DiskIs ==
  ASSUME TInv, LInv, NEW s \in Stacks, NEW c \in Counts, Shape(s, c), NEW k \in Keys,
         NEW r \in 0..c[Hash[k]], r # 0 => idx[s[Hash[k]][r]].key = k,
         \A t \in (r + 1)..c[Hash[k]] : idx[s[Hash[k]][t]].key # k
  PROVE DiskValue(k) = IF r = 0 THEN None ELSE dat[idx[s[Hash[k]][r]].dat]
<1> PICK h : h = Hash[k]
  OBVIOUS
<1>h. h \in Chains /\ h \in Lists
  BY DbAssumption DEF Lists
<1>l. Len(idx) \in Nat /\ StacksOK(s, c, Len(idx))
  BY DEF TInv, FilesOK, Shape
<1> PICK L \in Nat : L = Len(idx)
  BY <1>l
<1>0. c[h] \in Nat /\ c[h] <= L
  BY <1>h, <1>l, ListFits DEF Counts
<1> PICK m \in Nat : m = c[h]
  BY <1>0
<1>m. r \in 0..m /\ r \in Nat /\ m - r \in Nat
  BY <1>0
<1> DEFINE To(j) == IF j = 0 \/ idx[j].key = k THEN j ELSE NextOf(j)
<1> DEFINE Goes(f) == f = [n \in 0..L |-> IF n = 0 THEN chain[h] ELSE To(f[n - 1])]
<1> DEFINE F == [n \in 0..L |-> IF n <= m - r THEN s[h][m - n] ELSE s[h][r]]
<1>1. \A n \in 0..L : F[n] = IF n <= m - r THEN s[h][m - n] ELSE s[h][r]
  OBVIOUS
<1>2. s[h][0] = 0 /\ \A t \in 1..m : s[h][t] # 0
  BY <1>h, <1>l DEF StacksOK
<1>3. To(s[h][r]) = s[h][r]
  BY <1>2
<1>4. ASSUME NEW t \in (r + 1)..m PROVE To(s[h][t]) = s[h][t - 1]
  <2>1. t \in 1..m
    BY <1>m
  <2>2. NextOf(s[h][t]) = s[h][t - 1]
    BY <1>h, <2>1, NextIs
  <2> QED BY <1>2, <2>1, <2>2
<1> HIDE DEF To
<1>5. ASSUME NEW n \in 0..L PROVE F[n] = IF n = 0 THEN chain[h] ELSE To(F[n - 1])
  <2>1. CASE n = 0
    <3>1. 0 \in 0..L /\ 0 <= m - r /\ m - 0 = m
      BY <1>m
    <3>2. chain[h] = s[h][m]
      BY <1>h DEF Shape, LinksOK
    <3> QED BY <1>1, <2>1, <3>1, <3>2
  <2>2. CASE n # 0 /\ n <= m - r
    <3>1. /\ n - 1 \in 0..L /\ n - 1 <= m - r /\ m - (n - 1) \in (r + 1)..m
          /\ (m - (n - 1)) - 1 = m - n
      BY SMTT(60), <1>m, <2>2
    <3> PICK t : t = m - (n - 1)
      OBVIOUS
    <3>2. F[n - 1] = s[h][t] /\ F[n] = s[h][t - 1] /\ t \in (r + 1)..m
      BY <1>1, <2>2, <3>1
    <3>3. To(s[h][t]) = s[h][t - 1]
      BY <1>4, <3>2
    <3> HIDE DEF F
    <3> QED BY <2>2, <3>2, <3>3
  <2>3. CASE n # 0 /\ m - r < n
    <3>1. n - 1 \in 0..L /\ F[n] = s[h][r]
      BY <1>1, <1>m, <2>3
    <3>2. F[n - 1] = s[h][r]
      <4>1. CASE n - 1 <= m - r
        <5>1. m - (n - 1) = r
          BY <1>m, <2>3, <4>1
        <5> QED BY <1>1, <3>1, <4>1, <5>1
      <4>2. CASE ~(n - 1 <= m - r)
        BY <1>1, <3>1, <4>2
      <4> QED BY <4>1, <4>2
    <3> HIDE DEF F
    <3> QED BY <1>3, <2>3, <3>1, <3>2
  <2> QED BY <1>m, <2>1, <2>2, <2>3
<1>6. F[L] = s[h][r]
  <2>1. L \in 0..L /\ (L <= m - r => m - L = r)
    BY <1>0, <1>m
  <2> QED BY <1>1, <2>1
<1>7. F = [n \in 0..L |-> F[n]]
  OBVIOUS
<1> HIDE DEF F
<1>8. Goes(F)
  <2> DEFINE G == [n \in 0..L |-> IF n = 0 THEN chain[h] ELSE To(F[n - 1])]
  <2>1. ASSUME NEW n \in 0..L PROVE F[n] = G[n]
    <3>1. G[n] = IF n = 0 THEN chain[h] ELSE To(F[n - 1])
      OBVIOUS
    <3> HIDE DEF G
    <3> QED BY <1>5, <3>1
  <2>2. G = [n \in 0..L |-> G[n]]
    OBVIOUS
  <2> HIDE DEF G
  <2>3. F = G
    BY <1>7, <2>1, <2>2
  <2> QED BY <2>3 DEF G
<1> PICK f : f = CHOOSE g : Goes(g)
  OBVIOUS
<1>9. Goes(f)
  <2> HIDE DEF Goes
  <2> QED BY <1>8, Zenon
<1>10. DiskValue(k) = IF f[L] = 0 THEN None ELSE dat[idx[f[L]].dat]
  BY DEF DiskValue, To
<1> DEFINE S == {n \in Nat : n \in 0..L => f[n] = F[n]}
<1>11. 0 \in S
  BY <1>8, <1>9
<1>12. ASSUME NEW n \in Nat, n \in S PROVE n + 1 \in S
  <2>1. CASE n + 1 \in 0..L
    <3>1. n \in 0..L /\ n + 1 # 0 /\ n + 1 - 1 = n
      BY <2>1
    <3>2. f[n] = F[n]
      BY <1>12, <3>1
    <3>3. f[n + 1] = To(f[n])
      <4> PICK x : x = n + 1
        OBVIOUS
      <4>1. x \in 0..L /\ x # 0 /\ x - 1 = n
        BY <2>1, <3>1
      <4> DEFINE G == [y \in 0..L |-> IF y = 0 THEN chain[h] ELSE To(f[y - 1])]
      <4>2. G[x] = To(f[n])
        BY <4>1
      <4>3. f = G
        BY <1>9
      <4> HIDE DEF G
      <4> QED BY <4>2, <4>3
    <3>4. F[n + 1] = To(F[n])
      BY <1>8, <2>1, <3>1
    <3> QED BY <3>2, <3>3, <3>4
  <2>2. CASE n + 1 \notin 0..L
    BY <2>2
  <2> QED BY <2>1, <2>2
<1>13. Nat \subseteq S
  <2> HIDE DEF S
  <2> QED BY <1>11, <1>12, SetInduction
<1>14. f[L] = s[h][r]
  <2>1. L \in S /\ L \in 0..L
    BY SMTT(60), <1>13
  <2> QED BY <1>6, <2>1
<1>15. s[h][r] = 0 <=> r = 0
  BY <1>2, <1>m
<1> QED BY <1>10, <1>14, <1>15

\* The live record has the value of the key; without one there is none.
LEMMA LiveValue ==
  ASSUME TInv, LInv, SInv, NEW k \in Keys
  PROVE /\ \A i \in Live(k) : DiskValue(k) = dat[idx[i].dat]
        /\ Live(k) = {} => DiskValue(k) = None
<1>0. PICK s \in Stacks, c \in Counts : Shape(s, c)
  BY DEF SInv, Stacks, Counts
<1> PICK h : h = Hash[k]
  OBVIOUS
<1>1. h \in Chains /\ k # Blank /\ h \in Lists
  BY DbAssumption DEF Lists
<1>2. c[h] \in Nat
  BY <1>1 DEF Counts
<1>3. ASSUME NEW i \in Live(k) PROVE DiskValue(k) = dat[idx[i].dat]
  <2>1. PICK r \in 1..c[h] : s[h][r] = i /\ idx[i].key = k
    BY <1>0, LiveIs
  <2>2. ASSUME NEW t \in (r + 1)..c[h] PROVE idx[s[h][t]].key # k
    <3>1. t \in 1..c[h] /\ t # r
      BY <1>2, <2>1
    <3> QED BY <1>0, <1>1, <2>1, <3>1 DEF Shape, KeysOK
  <2>3. r \in 0..c[h] /\ r # 0
    BY <1>2
  <2> QED BY <1>0, <2>1, <2>2, <2>3, DiskIs
<1>4. ASSUME Live(k) = {} PROVE DiskValue(k) = None
  <2>1. ASSUME NEW t \in (0 + 1)..c[h] PROVE idx[s[h][t]].key # k
    <3>1. t \in 1..c[h]
      BY <1>2
    <3> QED BY <1>0, <1>4, <3>1, LiveIs
  <2>2. 0 \in 0..c[h]
    BY <1>2
  <2> QED BY <1>0, <2>1, <2>2, DiskIs
<1> QED BY <1>3, <1>4
-----------------------------------------------------------------------------
(* What a step changes. *)
AllInv == TInv /\ LInv /\ EInv /\ FInv /\ DInv /\ SInv /\ RInv

\* The data of a record change only under the process that has the record,
LEMMA DatSame ==
  ASSUME AllInv, NEW p \in Procs, Call(p) \/ Run(p), NEW i \in 1..Len(idx),
         i # db[p].idxoff \/ ~(DelWriteDat(p) \/ Overwrite(p) \/ ReuseDat(p))
  PROVE dat'[idx'[i].dat] = dat[idx[i].dat]
<1>0. TInv /\ EInv /\ FInv /\ DInv /\ SInv /\ RInv
  BY DEF AllInv
<1>1. idx'[i].dat = idx[i].dat
  BY <1>0, ShapeStep DEF Step
<1> PICK x : x = idx[i].dat
  OBVIOUS
<1>2. x \in 1..Len(dat)
  BY <1>0, RecordAt DEF TInv
<1>3. ASSUME dat'[x] # dat[x] PROVE FALSE
  <2>1. DelWriteDat(p) \/ Overwrite(p) \/ ReuseDat(p)
    BY <1>0, <1>2, <1>3, WritesOwnData
  <2>2. db[p].idxoff \in 1..Len(idx) /\ idx[db[p].idxoff].dat = x
    BY <1>0, <1>2, <1>3, WritesOwnData
  <2>3. DOMAIN idx = 1..Len(idx)
    BY <1>0 DEF TInv, FilesOK
  <2>4. i = db[p].idxoff
    BY <1>0, <2>2, <2>3 DEF DInv, DataNotShared
  <2> QED BY <2>1, <2>4
<1> QED BY <1>1, <1>3

\* and a record becomes or stops being live only when it is blanked or linked.
LEMMA LinkMoves ==
  ASSUME TInv, NEW p \in Procs, Call(p) \/ Run(p)
  PROVE /\ pc[p] = "link" => LinkChain(p) \/ LinkTooFar(p)
        /\ pc'[p] = "link" => (ReuseIdx(p) \/ AppendIdx(p)) /\ db' = db
<1>0. pc \in [Procs -> PCs]
  BY DEF TInv, ProcsOK
<1>1. CASE Find(p)
  <2>1. CASE Found(p)
    <3>1. pc[p] = "found" /\ db[p].op \in {"fetch", "store", "delete"}
      BY <2>1, CallNow DEF Found, CallOK, ChainPCs
    <3> QED BY <1>0, <2>1, <3>1 DEF Found
  <2>2. CASE WalkChain(p) \/ NotFound(p)
    BY <1>0, <2>2 DEF WalkChain, NotFound
  <2> QED BY <1>0, <1>1, <2>1, <2>2 DEF Find, LockChain, ReadChainPtr, FetchData, UnlockChain
<1>2. CASE DoDelete(p) \/ FindFree(p)
  BY <1>0, <1>2 DEF DoDelete, DelLockFree, DelWriteDat, DelReadFree, DelWriteIdx, DelWriteFree,
     DelUnlink, DelUnlockFree, FindFree, FreeLock, FreeRead, FreeWalk, FreeUnlink, FreeUnlock
<1>3. CASE StoreWrites(p)
  BY <1>0, <1>3 DEF StoreWrites, RereadChainPtr, Overwrite, ReuseDat, ReuseIdx, DatLock, DatSeek,
     AppendDat, TailLock, TailSeek, AppendIdx, LinkChain, LinkTooFar, Die
<1>4. CASE Nextrec(p) \/ Return(p)
  BY <1>0, <1>4 DEF Nextrec, NextLock, NextRead, NextReadDat, NextEOF, NextMisread, NextUnlock,
     Return, Die
<1>5. CASE Call(p)
  BY <1>0, <1>5 DEF Call, CallFetch, CallDelete, CallStore, CallNextrec, call, db_rewind
<1> QED BY <1>1, <1>2, <1>3, <1>4, <1>5 DEF Run

\* Any other step leaves record i live or not as it was.
LEMMA LiveSame ==
  ASSUME AllInv, NEW p \in Procs, Call(p) \/ Run(p), NEW k \in Keys, NEW i,
         i # db[p].idxoff \/ ~(DelWriteIdx(p) \/ LinkChain(p))
  PROVE i \in Live(k)' <=> i \in Live(k)
<1>0. TInv /\ EInv /\ FInv /\ SInv /\ k # Blank /\ PtrMax \in Nat
  BY DbAssumption DEF AllInv
<1> DEFINE Linking(j) == \E q \in Procs : pc[q] = "link" /\ db[q].idxoff = j
<1> USE DEF Step
<1>1. Others(p) /\ pc \in [Procs -> PCs] /\ db \in [Procs -> Calls]
  BY <1>0, OthersSame DEF TInv, ProcsOK
<1>2. Live(k) = {j \in 1..Len(idx) : idx[j].key = k /\ j <= PtrMax /\ ~Linking(j)}
  BY DEF Live
<1>3. Live(k)' = {j \in 1..Len(idx') : idx'[j].key = k /\ j <= PtrMax /\ ~Linking(j)'}
  BY DEF Live
<1>4. CASE ReuseIdx(p) \/ AppendIdx(p)
  <2>1. Linking(db[p].idxoff)' /\ db' = db /\ pc'[p] = "link"
    BY <1>1, <1>4 DEF ReuseIdx, AppendIdx
  <2>2. CASE i = db[p].idxoff
    <3>1. CASE ReuseIdx(p)
      <4>1. idx[i].key = Blank
        BY <1>0, <2>2, <3>1, FoundApart DEF ReuseIdx, BlankPCs
      <4> QED BY <1>0, <1>2, <1>3, <2>1, <2>2, <4>1
    <3>2. CASE AppendIdx(p)
      <4>1. i = Len(idx) + 1 /\ Len(idx) \in Nat
        BY <1>0, <2>2, <3>2 DEF AppendIdx, EInv, TInv, FilesOK
      <4>2. i \notin 1..Len(idx)
        BY <4>1
      <4> QED BY <1>2, <1>3, <2>1, <2>2, <4>2
    <3> QED BY <1>4, <3>1, <3>2
  <2>3. CASE i # db[p].idxoff
    <3>1. Linking(i)' <=> Linking(i)
      <4>1. \A q \in Procs : q # p => pc'[q] = pc[q]
        BY <1>1 DEF Others, Same
      <4>2. pc[p] # "link"
        BY <1>4 DEF ReuseIdx, AppendIdx
      <4> QED BY <2>1, <2>3, <4>1, <4>2
    <3>2. i \in 1..Len(idx') <=> i \in 1..Len(idx)
      <4>1. CASE ReuseIdx(p)
        BY <1>0, <4>1 DEF ReuseIdx, TInv, FilesOK
      <4>2. CASE AppendIdx(p)
        <5>1. db[p].idxoff = Len(idx) + 1 /\ Len(idx) \in Nat /\ idx' = Append(idx, NewIdx(p))
          BY <1>0, <4>2 DEF AppendIdx, EInv, TInv, FilesOK, WriteAt
        <5>2. Len(idx') = Len(idx) + 1
          BY <1>0, <5>1 DEF TInv, FilesOK
        <5> QED BY <2>3, <5>1, <5>2
      <4> QED BY <1>4, <4>1, <4>2
    <3>3. i \in 1..Len(idx) => idx'[i].key = idx[i].key
      BY <1>0, <2>3, KeyStep DEF DelWriteIdx, ReuseIdx, AppendIdx
    <3> HIDE DEF Linking
    <3> QED BY <1>2, <1>3, <3>1, <3>2, <3>3
  <2> QED BY <2>2, <2>3
<1>5. CASE ~(ReuseIdx(p) \/ AppendIdx(p))
  <2>1. Len(idx') = Len(idx)
    BY <1>0, <1>5, LenStep
  <2>2. \A q \in Procs : q # p => pc'[q] = pc[q] /\ db'[q] = db[q]
    BY <1>1 DEF Others, Same
  <2>3. pc'[p] # "link"
    BY <1>0, <1>5, LinkMoves
  <2>4. i \in 1..Len(idx) => idx'[i].key = idx[i].key \/ (DelWriteIdx(p) /\ i = db[p].idxoff)
    BY <1>0, <1>5, KeyStep
  <2>5. CASE pc[p] = "link" /\ i = db[p].idxoff
    <3>1. LinkTooFar(p) /\ i > PtrMax
      BY <1>0, <2>5, LinkMoves DEF LinkTooFar
    <3>2. i \in 1..Len(idx) => ~(i <= PtrMax)
      BY <1>0, <3>1
    <3> QED BY <1>2, <1>3, <2>1, <3>2
  <2>6. CASE ~(pc[p] = "link" /\ i = db[p].idxoff)
    <3>1. Linking(i)' <=> Linking(i)
      BY <2>2, <2>3, <2>6
    <3>2. i \in 1..Len(idx) => (idx'[i].key = k <=> idx[i].key = k)
      BY <2>4
    <3> HIDE DEF Linking
    <3> QED BY <1>2, <1>3, <2>1, <3>1, <3>2
  <2> QED BY <2>5, <2>6
<1> QED BY <1>4, <1>5

\* So what is linked has the data of the call.
LEMMA ValueStep ==
  ASSUME AllInv, VInv, NEW p \in Procs, Call(p) \/ Run(p)
  PROVE VInv'
<1>0. TInv /\ EInv /\ SInv /\ RInv /\ Others(p)
  BY OthersSame DEF AllInv, Step
<1>1. ASSUME NEW q \in Procs, pc'[q] = "link", q # p
      PROVE dat'[idx'[db'[q].idxoff].dat] = db'[q].val
  <2> PICK i : i = db[q].idxoff
    OBVIOUS
  <2>1. pc[q] = "link" /\ db'[q] = db[q]
    BY <1>0, <1>1 DEF Others, Same
  <2>2. i \in 1..Len(idx) /\ dat[idx[i].dat] = db[q].val
    BY <1>0, <2>1, HasTypes DEF IdxPCs, VInv
  <2>3. DelWriteDat(p) \/ Overwrite(p) => i # db[p].idxoff
    BY <1>0, <2>1, FoundApart DEF DelWriteDat, Overwrite, HasPCs, HeldPCs
  <2>4. ReuseDat(p) => i # db[p].idxoff
    BY <1>0, <1>1, <2>1, FoundApart DEF ReuseDat, HeldOK, HeldPCs, BlankPCs
  <2>5. dat'[idx'[i].dat] = dat[idx[i].dat]
    BY <2>2, <2>3, <2>4, DatSame
  <2> QED BY <2>1, <2>2, <2>5
<1>2. ASSUME pc'[p] = "link" PROVE dat'[idx'[db'[p].idxoff].dat] = db'[p].val
  <2> PICK i : i = db[p].idxoff
    OBVIOUS
  <2>1. (ReuseIdx(p) \/ AppendIdx(p)) /\ db' = db
    BY <1>0, <1>2, LinkMoves
  <2>2. dat' = dat /\ dat[db[p].datoff] = db[p].val
    BY <1>0, <2>1 DEF ReuseIdx, AppendIdx, RInv, ReadOK, PendingPCs
  <2>3. idx'[i] = NewIdx(p)
    <3>1. CASE ReuseIdx(p)
      <4>1. i \in 1..Len(idx)
        BY <1>0, <3>1, HasTypes DEF ReuseIdx, IdxPCs
      <4> QED BY <1>0, <3>1, <4>1 DEF ReuseIdx, TInv, FilesOK
    <3>2. CASE AppendIdx(p)
      <4>1. i = Len(idx) + 1 /\ idx' = Append(idx, NewIdx(p))
        BY <1>0, <3>2 DEF AppendIdx, EInv, WriteAt
      <4>2. pc[p] = "tailwrite"
        BY <3>2 DEF AppendIdx
      <4>3. NewIdx(p) \in IdxRec
        BY <1>0, <4>2, NewRecord
      <4> QED BY <1>0, <4>1, <4>3 DEF TInv, FilesOK
    <3> QED BY <2>1, <3>1, <3>2
  <2>4. NewIdx(p).dat = db[p].datoff
    BY DEF NewIdx
  <2> QED BY <2>1, <2>2, <2>3, <2>4
<1> QED BY <1>1, <1>2 DEF VInv
-----------------------------------------------------------------------------
(* The map. *)
\* Process p has begun to delete or replace the record of its key.
Chg(p) == Replacing(p) \/ Deleting(p)

\* The value of a key is what such a process makes of it, or else that of its
\* live record.
KvOK(k) ==
  /\ \A p \in Changing(k) : kvOf(k) = IF db[p].op = "store" THEN db[p].val ELSE None
  /\ Changing(k) = {} => /\ \A i \in Live(k) : kvOf(k) = dat[idx[i].dat]
                         /\ Live(k) = {} => kvOf(k) = None

\* What a process that has its chain locked knows of the record of its key.
Knows(p) ==
  /\ pc[p] \in HasPCs => db[p].idxoff \in Live(db[p].key)
  /\ pc[p] \in HeadPCs \cup SavedPCs \cup {"delunlock", "reread"} => Live(db[p].key) = {}
  /\ pc[p] = "walk" /\ db[p].off = 0 => Live(db[p].key) = {}
  /\ pc[p] \in ChainPCs /\ db[p].op # "fetch" =>
       \A q \in Procs : pc[q] \in ChainPCs /\ db[q].key = db[p].key => q = p
  /\ pc[p] \in ChainPCs => \A q \in Procs : Chg(q) /\ db[q].key = db[p].key => q = p

Facts == /\ \A k \in Keys : KvOK(k)
         /\ \A k \in Keys : \A i, j \in Live(k) : i = j
         /\ \A p \in Procs : Knows(p)

\* A process in a delete or a replace has its chain locked for writing.
LEMMA ChgPlace ==
  ASSUME TInv, NEW p \in Procs, Chg(p)
  PROVE pc[p] \in ChainPCs /\ db[p].op # "fetch" /\ db[p].op \in {"store", "delete"} /\ db[p].key \in Keys
<1>1. pc[p] \in ChainPCs
  BY DEF Chg, Replacing, Deleting, ReplacedPCs, DeletedPCs, DelPCs, ChainPCs
<1> QED BY <1>1, HasTypes DEF Chg, Replacing, Deleting

\* The map of the refinement is the one KvOK describes,
LEMMA KvIs ==
  ASSUME TInv, LInv, SInv, NEW k \in Keys
  PROVE KvOK(k)
<1>1. ASSUME NEW p \in Changing(k)
      PROVE kvOf(k) = IF db[p].op = "store" THEN db[p].val ELSE None
  <2>1. Changing(k) # {} /\ \A q \in Changing(k) : q = p
    <3>1. \A q \in Changing(k) : q \in Procs /\ Chg(q) /\ db[q].key = k
      BY DEF Changing, Chg
    <3>2. \A q \in Changing(k) : pc[q] \in ChainPCs /\ db[q].op # "fetch" /\ ChainOf(q) = Hash[k]
      BY <3>1, ChgPlace DEF ChainOf
    <3> QED BY <1>1, <3>1, <3>2, Alone
  <2> PICK q : q = CHOOSE x \in Changing(k) : TRUE
    OBVIOUS
  <2>2. q = p
    BY <2>1
  <2> QED BY <2>1, <2>2 DEF kvOf
<1>2. ASSUME Changing(k) = {} PROVE kvOf(k) = DiskValue(k)
  BY <1>2 DEF kvOf
<1> QED BY <1>1, <1>2, LiveValue DEF KvOK

\* the stacks of DbListProof give what a process knows,
LEMMA KnowsIs ==
  ASSUME TInv, LInv, SInv, NEW p \in Procs
  PROVE Knows(p)
<1>0. PICK s \in Stacks, c \in Counts : Shape(s, c)
  BY DEF SInv, Stacks, Counts
<1> PICK k, h : k = db[p].key /\ h = ChainOf(p)
  OBVIOUS
<1>1. pc[p] \in ChainPCs => k \in Keys /\ h = Hash[k] /\ h \in Lists
  BY HasTypes DEF ChainOf
<1>2. ASSUME pc[p] \in HasPCs PROVE db[p].idxoff \in Live(k)
  <2>1. pc[p] \in ChainPCs
    BY <1>2 DEF HasPCs, ChainPCs, DelPCs
  <2>2. PICK r \in 1..c[h] : s[h][r] = db[p].idxoff
    BY <1>0, <1>2 DEF Shape, ProcOK, Has, OnList
  <2>3. idx[db[p].idxoff].key = k
    BY <1>0, <1>2 DEF Shape, ProcOK, Has
  <2> QED BY <1>0, <1>1, <2>1, <2>2, <2>3, LiveIs
<1>3. ASSUME pc[p] \in HeadPCs \cup SavedPCs \cup {"delunlock", "reread"} PROVE Live(k) = {}
  <2>1. pc[p] \in ChainPCs
    BY <1>3 DEF HeadPCs, SavedPCs, ChainPCs, DelPCs, FreePCs
  <2>2. \A r \in 1..c[h] : idx[s[h][r]].key # k
    BY <1>0, <1>3 DEF Shape, ProcOK, Lacks, Absent
  <2> QED BY <1>0, <1>1, <2>1, <2>2, LiveIs
<1>4. ASSUME pc[p] = "walk", db[p].off = 0 PROVE Live(k) = {}
  <2>1. pc[p] \in ChainPCs
    BY <1>4 DEF ChainPCs
  <2>2. PICK r \in 0..c[h] : /\ db[p].off = s[h][r]
                             /\ \A t \in (r + 1)..c[h] : idx[s[h][t]].key # k
    BY <1>0, <1>4 DEF Shape, ProcOK, Walks
  <2>3. c[h] \in Nat /\ \A t \in 1..c[h] : s[h][t] # 0
    BY <1>0, <1>1, <2>1 DEF Shape, StacksOK, Counts
  <2>4. r = 0
    BY <1>4, <2>2, <2>3
  <2>5. \A t \in 1..c[h] : idx[s[h][t]].key # k
    BY <2>2, <2>3, <2>4
  <2> QED BY <1>0, <1>1, <2>1, <2>5, LiveIs
<1>5. ASSUME pc[p] \in ChainPCs, db[p].op # "fetch",
             NEW q \in Procs, pc[q] \in ChainPCs, db[q].key = db[p].key
      PROVE q = p
  BY <1>5, Alone DEF ChainOf
<1>6. ASSUME pc[p] \in ChainPCs, NEW q \in Procs, Chg(q), db[q].key = db[p].key
      PROVE q = p
  BY <1>6, ChgPlace, Alone DEF ChainOf
<1> QED BY <1>2, <1>3, <1>4, <1>5, <1>6 DEF Knows

\* and no more is needed of them.
LEMMA FactsHold == TInv /\ LInv /\ SInv => Facts
  BY KvIs, KnowsIs, LiveOne DEF Facts
-----------------------------------------------------------------------------
(* Which steps begin and end a delete or a replace. *)
ChgAt(d, l) ==
  \/ l \in ReplacedPCs /\ d.op = "store" /\ d.found = TRUE
  \/ l \in DeletedPCs /\ d.op = "delete"

\* Whether a process is in one depends on its call and its place only,
LEMMA ChgIs ==
  ASSUME NEW p, db[p] \in Calls
  PROVE Chg(p) <=> ChgAt(db[p], pc[p])
<1>1. db[p].found \in BOOLEAN
  BY DEF Calls
<1>2. db[p].found <=> db[p].found = TRUE
  BY <1>1
<1> QED BY <1>2 DEF Chg, ChgAt, Replacing, Deleting

\* also after a step.
LEMMA ChgThen ==
  ASSUME NEW p, db'[p] \in Calls
  PROVE Chg(p)' <=> ChgAt(db'[p], pc'[p])
<1>1. db'[p].found \in BOOLEAN
  BY DEF Calls
<1>2. db'[p].found <=> db'[p].found = TRUE
  BY <1>1
<1> QED BY <1>2 DEF Chg, ChgAt, Replacing, Deleting

\* No other part of a call is in one.
LEMMA QuietPlaces ==
  ASSUME TInv, CInv, NEW p \in Procs, Call(p) \/ Find(p) \/ Nextrec(p) \/ Return(p)
  PROVE pc[p] \notin ReplacedPCs /\ pc'[p] \notin ReplacedPCs
<1> USE DEF ReplacedPCs, DeletedPCs, DelPCs
<1>0. pc \in [Procs -> PCs]
  BY DEF TInv, ProcsOK
<1>1. CASE Find(p)
  <2>1. CASE Found(p)
    <3>1. pc[p] = "found" /\ db[p].op \in {"fetch", "store", "delete"}
      BY <2>1, CallNow DEF Found, CallOK, ChainPCs
    <3>2. pc'[p] \in {"readdat", "dellock", "overwrite", "unlock"}
      BY <1>0, <2>1, <3>1 DEF Found
    <3> QED BY <3>1, <3>2
  <2>2. CASE WalkChain(p)
    <3>1. pc[p] = "walk" /\ pc'[p] \in {"found", "walk"}
      BY <1>0, <2>2 DEF WalkChain
    <3> QED BY <3>1
  <2>3. CASE NotFound(p)
    <3>1. pc[p] = "walk" /\ pc'[p] \in {"fflock", "unlock"}
      BY <1>0, <2>3 DEF NotFound
    <3> QED BY <3>1
  <2>4. CASE LockChain(p) \/ ReadChainPtr(p) \/ FetchData(p) \/ UnlockChain(p)
    <3>1. /\ pc[p] \in {"lock", "readptr", "readdat", "unlock"}
          /\ pc'[p] \in {"readptr", "walk", "unlock", "return"}
      BY <1>0, <2>4 DEF LockChain, ReadChainPtr, FetchData, UnlockChain
    <3> QED BY <3>1
  <2> QED BY <1>1, <2>1, <2>2, <2>3, <2>4 DEF Find
<1>2. CASE Nextrec(p)
  <2>1. /\ pc[p] \in NextPCs \cup {"nlock"}
        /\ pc'[p] \in NextPCs \cup {"dead", "return"}
    BY <1>2, NextrecCtl
  <2> QED BY <2>1 DEF NextPCs
<1>3. CASE Return(p)
  <2>1. pc[p] = "return" /\ pc'[p] = "idle"
    BY <1>0, <1>3 DEF Return
  <2> QED BY <2>1
<1>4. CASE Call(p)
  <2>1. pc[p] = "idle" /\ pc'[p] \in {"idle", "lock", "nlock", "return"}
    BY <1>0, <1>4 DEF Call, CallFetch, CallDelete, CallStore, CallNextrec, call, db_rewind
  <2> QED BY <2>1
<1> QED BY <1>1, <1>2, <1>3, <1>4

\* It begins with the first write of _db_dodelete and ends with its return or the link.
LEMMA ChgMoves ==
  ASSUME TInv, CInv, TInv', NEW p \in Procs, Call(p) \/ Run(p)
  PROVE \/ DelWriteDat(p) /\ ~Chg(p) /\ Chg(p)'
        \/ DelUnlockFree(p) /\ db[p].op = "delete" /\ Chg(p) /\ ~Chg(p)'
        \/ (LinkChain(p) \/ LinkTooFar(p)) /\ ~Chg(p)'
        \/ (Chg(p)' <=> Chg(p)) /\ (Chg(p) => SameArgs(db'[p], db[p]))
<1> PICK d, e, l, m : d = db[p] /\ e = db'[p] /\ l = pc[p] /\ m = pc'[p]
  OBVIOUS
<1>0. /\ d \in Calls /\ e \in Calls /\ CtlOK(d, l) /\ CallOK(d, l, Len(idx), Len(dat))
  <2>1. e \in Calls
    BY DEF TInv, ProcsOK
  <2> QED BY <2>1, CallNow DEF CInv
<1>1. (Chg(p) <=> ChgAt(d, l)) /\ (Chg(p)' <=> ChgAt(e, m))
  BY <1>0, ChgIs, ChgThen
<1>2. CASE l \notin ReplacedPCs /\ m \notin ReplacedPCs
  <2>1. ~ChgAt(d, l) /\ ~ChgAt(e, m)
    BY <1>2 DEF ChgAt, ReplacedPCs
  <2> QED BY <1>1, <2>1
<1>3. CASE DoDelete(p) \/ FindFree(p) \/ StoreWrites(p)
  <2>1. CASE SameCall(e, d) /\ Follows(l, m) /\ (m = "reread" => d.op # "delete")
    <3>0. e.op = d.op /\ e.found = d.found /\ SameArgs(e, d)
      BY <2>1 DEF SameCall, SameArgs
    <3>1. CASE l = "delwdat"
      <4>1. DelWriteDat(p)
        BY <1>3, <3>1 DEF DoDelete, DelLockFree, DelReadFree, DelWriteIdx, DelWriteFree,
           DelUnlink, DelUnlockFree, FindFree, FreeLock, FreeRead, FreeWalk, FreeUnlink, FreeUnlock,
           StoreWrites, RereadChainPtr, Overwrite, ReuseDat, ReuseIdx, DatLock, DatSeek,
           AppendDat, TailLock, TailSeek, AppendIdx, LinkChain, LinkTooFar
      <4>2. m = "delrfree"
        BY <2>1, <3>1 DEF Follows
      <4>3. d.found = TRUE /\ d.op \in {"store", "delete"}
        BY <1>0, <3>1 DEF CtlOK, CallOK, FoundPCs, DelPCs, ChainPCs
      <4>4. m \in DeletedPCs /\ m \in ReplacedPCs /\ l \notin ReplacedPCs /\ l \notin DeletedPCs
        BY <3>1, <4>2 DEF DeletedPCs, ReplacedPCs, DelPCs
      <4>5. ChgAt(e, m) /\ ~ChgAt(d, l)
        BY <3>0, <4>3, <4>4 DEF ChgAt
      <4> QED BY <1>1, <4>1, <4>5
    <3>2. CASE l # "delwdat"
      <4>1. d.op = "delete" => (l \in DeletedPCs <=> m \in DeletedPCs)
        <5>1. l \in StorePCs => d.op = "store"
          BY <1>0 DEF CallOK
        <5>2. l \notin StorePCs /\ m # "reread" => (l \in DeletedPCs <=> m \in DeletedPCs)
          BY <2>1, <3>2 DEF Follows, DeletedPCs, DelPCs, StorePCs, FreePCs
        <5> QED BY <2>1, <5>1, <5>2
      <4>2. d.found = TRUE => (l \in ReplacedPCs <=> m \in ReplacedPCs)
        <5>1. d.found = TRUE => l \notin MissPCs
          BY <1>0 DEF CtlOK
        <5>2. l \notin MissPCs => (l \in ReplacedPCs <=> m \in ReplacedPCs)
          BY <2>1, <3>2 DEF Follows, ReplacedPCs, DeletedPCs, DelPCs, MissPCs, FreePCs
        <5> QED BY <5>1, <5>2
      <4>3. ChgAt(e, m) <=> ChgAt(d, l)
        BY <3>0, <4>1, <4>2 DEF ChgAt
      <4> QED BY <1>1, <3>0, <4>3
    <3> QED BY <3>1, <3>2
  <2>2. CASE m = "unlock" /\ l \in {"delunlock", "overwrite", "link"} /\ (l = "delunlock" => d.op = "delete")
    <3>1. ~ChgAt(e, m)
      BY <2>2 DEF ChgAt, ReplacedPCs, DeletedPCs, DelPCs
    <3>2. CASE l = "delunlock"
      <4>1. ChgAt(d, l)
        BY <2>2, <3>2 DEF ChgAt, DeletedPCs, DelPCs
      <4>2. DelUnlockFree(p)
        BY <1>3, <3>2 DEF DoDelete, DelLockFree, DelReadFree, DelWriteIdx, DelWriteFree, DelWriteDat,
           DelUnlink, FindFree, FreeLock, FreeRead, FreeWalk, FreeUnlink, FreeUnlock,
           StoreWrites, RereadChainPtr, Overwrite, ReuseDat, ReuseIdx, DatLock, DatSeek,
           AppendDat, TailLock, TailSeek, AppendIdx, LinkChain, LinkTooFar
      <4> QED BY <1>1, <2>2, <3>1, <3>2, <4>1, <4>2
    <3>3. CASE l = "overwrite"
      <4>1. ~ChgAt(d, l)
        BY <3>3 DEF ChgAt, ReplacedPCs, DeletedPCs, DelPCs
      <4> QED BY <1>1, <3>1, <4>1
    <3>4. CASE l = "link"
      BY <1>1, <3>1, <3>4, LinkMoves
    <3> QED BY <2>2, <3>2, <3>3, <3>4
  <2>3. CASE LinkTooFar(p) /\ m = "dead"
    <3>1. ~ChgAt(e, m)
      BY <2>3 DEF ChgAt, ReplacedPCs, DeletedPCs, DelPCs
    <3> QED BY <1>1, <2>3, <3>1
  <2> QED BY <1>3, <2>1, <2>2, <2>3, WriteMoves
<1> QED BY <1>2, <1>3, QuietPlaces DEF Run
-----------------------------------------------------------------------------
(* Which values a step leaves alone. *)
LEMMA KvKept ==
  ASSUME Facts, Facts', NEW p \in Procs, Others(p), NEW k \in Keys,
         p \in Changing(k)' <=> p \in Changing(k),
         p \in Changing(k) => db'[p].op = db[p].op /\ db'[p].val = db[p].val,
         p \notin Changing(k) =>
           Live(k)' = Live(k) /\ \A i \in Live(k) : dat'[idx'[i].dat] = dat[idx[i].dat]
  PROVE kvOf(k)' = kvOf(k)
<1>1. KvOK(k) /\ KvOK(k)'
  BY DEF Facts
<1>2. ASSUME NEW q \in Procs, q # p
      PROVE (q \in Changing(k)' <=> q \in Changing(k)) /\ db'[q] = db[q]
  BY <1>2 DEF Others, Same, Changing, Replacing, Deleting
<1>3. \A q : q \in Changing(k) => q \in Procs
  BY DEF Changing
<1>4. \A q : q \in Changing(k)' => q \in Procs
  BY DEF Changing
<1>5. CASE Changing(k) # {}
  <2>1. PICK q : q \in Changing(k)
    BY <1>5
  <2>2. q \in Changing(k)' /\ db'[q].op = db[q].op /\ db'[q].val = db[q].val
    BY <1>2, <1>3, <2>1
  <2> QED BY <1>1, <2>1, <2>2 DEF KvOK
<1>6. CASE Changing(k) = {}
  <2>1. Changing(k)' = {} /\ p \notin Changing(k)
    BY <1>2, <1>4, <1>6
  <2>2. CASE Live(k) = {}
    BY <1>1, <1>6, <2>1, <2>2 DEF KvOK
  <2>3. CASE Live(k) # {}
    <3>1. PICK i : i \in Live(k)
      BY <2>3
    <3> QED BY <1>1, <1>6, <2>1, <3>1 DEF KvOK
  <2> QED BY <2>2, <2>3
<1> QED BY <1>5, <1>6

\* A record about to be linked has the key of the call.
LEMMA LinkKey ==
  ASSUME TInv, SInv, NEW p \in Procs, pc[p] = "link"
  PROVE idx[db[p].idxoff].key = db[p].key /\ db[p].idxoff \in 1..Len(idx)
<1>0. PICK s \in Stacks, c \in Counts : Shape(s, c)
  BY DEF SInv, Stacks, Counts
<1> QED BY <1>0, HasTypes DEF Shape, ProcOK, Holds, IdxPCs

InvHere == AllInv /\ CInv /\ VInv /\ Facts
InvNext == TInv' /\ Facts'

\* A step of a process changes no key but its own,
LEMMA OtherKeys ==
  ASSUME InvHere, InvNext, NEW p \in Procs, Call(p) \/ Run(p), NEW k \in Keys, k # db[p].key
  PROVE kvOf(k)' = kvOf(k)
<1>0. AllInv /\ TInv /\ SInv /\ CInv /\ TInv' /\ Facts /\ Facts' /\ Others(p) /\ k # Blank
  BY OthersSame, DbAssumption DEF InvHere, InvNext, AllInv, Step
<1>1. p \notin Changing(k)
  BY DEF Changing
<1>2. p \notin Changing(k)'
  <2> SUFFICES ASSUME Chg(p)', db'[p].key = k PROVE FALSE
    BY DEF Changing, Chg
  <2>1. CASE DelWriteDat(p)
    BY <2>1 DEF DelWriteDat
  <2>2. CASE SameArgs(db'[p], db[p])
    BY <2>2 DEF SameArgs
  <2> QED BY <1>0, <2>1, <2>2, ChgMoves
<1>3. ASSUME NEW i PROVE i \in Live(k)' <=> i \in Live(k)
  <2>1. CASE DelWriteIdx(p) /\ i = db[p].idxoff
    <3>1. idx[i].key # k
      BY <1>0, <2>1, FoundApart DEF DelWriteIdx, HasPCs
    <3>2. i \in 1..Len(idx) /\ Len(idx') = Len(idx)
      BY <1>0, <2>1, HasTypes DEF DelWriteIdx, IdxPCs, DelPCs, TInv, FilesOK
    <3>3. idx'[i].key = idx[i].key \/ idx'[i].key = Blank
      BY <1>0, <2>1, <3>2, KeyStep DEF ReuseIdx, DelWriteIdx, AllInv
    <3> QED BY <1>0, <3>1, <3>3 DEF Live
  <2>2. CASE LinkChain(p) /\ i = db[p].idxoff
    <3>1. idx' = idx /\ idx[i].key # k
      BY <1>0, <2>2, LinkKey DEF LinkChain
    <3> QED BY <3>1 DEF Live
  <2> QED BY <1>0, <2>1, <2>2, LiveSame
<1>4. ASSUME NEW i \in Live(k) PROVE dat'[idx'[i].dat] = dat[idx[i].dat]
  <2>1. i \in 1..Len(idx) /\ idx[i].key = k
    BY <1>4 DEF Live
  <2>2. DelWriteDat(p) \/ Overwrite(p) => i # db[p].idxoff
    BY <1>0, <2>1, FoundApart DEF DelWriteDat, Overwrite, HasPCs
  <2>3. ReuseDat(p) => i # db[p].idxoff
    BY <1>0, <2>1, FoundApart DEF ReuseDat, BlankPCs
  <2> QED BY <1>0, <2>1, <2>2, <2>3, DatSame
<1>5. Live(k)' = Live(k)
  BY <1>3
<1> QED BY <1>0, <1>1, <1>2, <1>4, <1>5, KvKept

\* and mostly not that one.
LEMMA KvQuiet ==
  ASSUME InvHere, InvNext, NEW p \in Procs, Call(p) \/ Run(p), NEW k \in Keys,
         ~(DelWriteDat(p) \/ Overwrite(p) \/ LinkChain(p)),
         Chg(p)' <=> Chg(p), Chg(p) => SameArgs(db'[p], db[p])
  PROVE kvOf(k)' = kvOf(k)
<1>0. AllInv /\ TInv /\ SInv /\ CInv /\ TInv' /\ Facts /\ Facts' /\ Others(p) /\ k # Blank
  BY OthersSame, DbAssumption DEF InvHere, InvNext, AllInv, Step
<1>1. CASE k # db[p].key
  BY <1>1, OtherKeys
<1>2. CASE k = db[p].key
  <2>1. p \in Changing(k) <=> Chg(p)
    BY <1>2 DEF Changing, Chg
  <2>2. p \in Changing(k)' <=> Chg(p)' /\ db'[p].key = k
    BY DEF Changing, Chg
  <2>3. p \in Changing(k) => db'[p].key = k /\ db'[p].op = db[p].op /\ db'[p].val = db[p].val
    BY <1>2, <2>1 DEF SameArgs
  <2>4. ASSUME p \notin Changing(k), NEW i PROVE i \in Live(k)' <=> i \in Live(k)
    <3>1. ~DelWriteIdx(p)
      <4> SUFFICES ASSUME pc[p] = "delwidx" PROVE Chg(p)
        BY <2>1, <2>4 DEF DelWriteIdx
      <4>1. db[p] \in Calls /\ CallOK(db[p], pc[p], Len(idx), Len(dat)) /\ CtlOK(db[p], pc[p])
        BY <1>0, CallNow DEF CInv
      <4>2. db[p].found = TRUE /\ db[p].op \in {"store", "delete"}
        BY <4>1 DEF CtlOK, CallOK, FoundPCs, DelPCs, ChainPCs
      <4>3. ChgAt(db[p], pc[p])
        BY <4>2 DEF ChgAt, ReplacedPCs, DeletedPCs, DelPCs
      <4> QED BY <4>1, <4>3, ChgIs
    <3> QED BY <1>0, <3>1, LiveSame
  <2>5. ASSUME NEW i \in Live(k) PROVE dat'[idx'[i].dat] = dat[idx[i].dat]
    <3>1. i \in 1..Len(idx) /\ idx[i].key = k
      BY <2>5 DEF Live
    <3>2. ReuseDat(p) => i # db[p].idxoff
      BY <1>0, <3>1, FoundApart DEF ReuseDat, BlankPCs
    <3> QED BY <1>0, <3>1, <3>2, DatSame
  <2>6. p \notin Changing(k) => Live(k)' = Live(k)
    BY <2>4
  <2> QED BY <1>0, <2>1, <2>2, <2>3, <2>5, <2>6, KvKept
<1> QED BY <1>1, <1>2
-----------------------------------------------------------------------------
(* Steps of the map. *)
StAt(d, l) ==
  IF l = "dead" THEN [phase |-> "dead"]
  ELSE IF d.op \in {None, "nextrec"} THEN [phase |-> "idle"]
  ELSE IF ChgAt(d, l) THEN Entry("done", d, "ok")
  ELSE IF d.rc # None THEN Entry("done", d, d.rc)
  ELSE Entry("called", d, None)

\* What a caller sees of its call depends on the call and its place only,
LEMMA StIs ==
  ASSUME NEW p, db[p] \in Calls
  PROVE stOf(p) = StAt(db[p], pc[p])
  BY ChgIs DEF stOf, StAt, Chg

\* also after a step,
LEMMA StThen ==
  ASSUME NEW p, db'[p] \in Calls
  PROVE stOf(p)' = StAt(db'[p], pc'[p])
  BY ChgThen DEF stOf, StAt, Chg, Entry

\* and does not change by the step of another process.
LEMMA StOther ==
  ASSUME NEW p \in Procs, Others(p), NEW q \in Procs, q # p
  PROVE stOf(q)' = stOf(q)
<1>1. pc'[q] = pc[q] /\ db'[q] = db[q]
  BY DEF Others, Same
<1> QED BY <1>1 DEF stOf, Entry, Replacing, Deleting

KvStay == \A k \in Keys : kvOf(k)' = kvOf(k)
StStay(p) == \A q \in Procs : q # p => stOf(q)' = stOf(q)

\* From the changes of values and entries to the steps of the map: none,
LEMMA MapStutter ==
  ASSUME NEW p \in Procs, KvStay, StStay(p), stOf(p)' = stOf(p)
  PROVE UNCHANGED Map!mapvars
<1>1. [k \in Keys |-> kvOf(k)]' = [k \in Keys |-> kvOf(k)]
  BY DEF KvStay
<1>2. [q \in Procs |-> stOf(q)]' = [q \in Procs |-> stOf(q)]
  BY DEF StStay
<1> QED BY <1>1, <1>2 DEF Map!mapvars

\* a return,
LEMMA MapReturn ==
  ASSUME NEW p \in Procs, KvStay, StStay(p), stOf(p).phase = "done", stOf(p)' = [phase |-> "idle"]
  PROVE Map!Return(p)
<1>1. [k \in Keys |-> kvOf(k)]' = [k \in Keys |-> kvOf(k)]
  BY DEF KvStay
<1>2. [q \in Procs |-> stOf(q)]' = [[q \in Procs |-> stOf(q)] EXCEPT ![p] = Map!Idle]
  BY DEF StStay, Map!Idle
<1> QED BY <1>1, <1>2 DEF Map!Return

\* an invocation,
LEMMA MapInvoke ==
  ASSUME NEW p \in Procs, KvStay, StStay(p), stOf(p) = [phase |-> "idle"],
         \/ stOf(p)' \in Map!Request("called", {"fetch", "delete"}, {None}, {None}, None)
         \/ stOf(p)' \in Map!Request("called", {"store"}, Vals, Flags \ {"other"}, None)
         \/ stOf(p)' \in Map!Request("done", {"store"}, Vals, Flags \cap {"other"}, "EINVAL")
  PROVE Map!Invoke(p)
<1>1. [k \in Keys |-> kvOf(k)]' = [k \in Keys |-> kvOf(k)]
  BY DEF KvStay
<1>2. [q \in Procs |-> stOf(q)]' = [[q \in Procs |-> stOf(q)] EXCEPT ![p] = [q \in Procs |-> stOf(q)]'[p]]
  BY DEF StStay
<1>3. [q \in Procs |-> stOf(q)][p] = Map!Idle
  BY DEF Map!Idle
<1>4. [q \in Procs |-> stOf(q)]'[p] = stOf(p)'
  OBVIOUS
<1> QED BY <1>1, <1>2, <1>3, <1>4 DEF Map!Invoke

\* the end of the process,
LEMMA MapQuit ==
  ASSUME NEW p \in Procs, StStay(p), stOf(p)' = [phase |-> "dead"],
         \/ stOf(p).phase \in {"idle", "called"} /\ KvStay
         \/ /\ stOf(p).phase = "done" /\ stOf(p).op = "store" /\ stOf(p).rc = "ok"
            /\ stOf(p).key \in Keys
            /\ \A k \in Keys : kvOf(k)' = IF k = stOf(p).key THEN None ELSE kvOf(k)
  PROVE Map!Quit(p)
<1>1. [q \in Procs |-> stOf(q)]' = [[q \in Procs |-> stOf(q)] EXCEPT ![p] = [phase |-> "dead"]]
  BY DEF StStay
<1>2. [q \in Procs |-> stOf(q)][p] = stOf(p)
  OBVIOUS
<1>3. CASE stOf(p).phase \in {"idle", "called"} /\ KvStay
  <2>1. [k \in Keys |-> kvOf(k)]' = [k \in Keys |-> kvOf(k)]
    BY <1>3 DEF KvStay
  <2> QED BY <1>1, <1>2, <1>3, <2>1 DEF Map!Quit
<1>4. CASE /\ stOf(p).phase = "done" /\ stOf(p).op = "store" /\ stOf(p).rc = "ok"
           /\ stOf(p).key \in Keys
           /\ \A k \in Keys : kvOf(k)' = IF k = stOf(p).key THEN None ELSE kvOf(k)
  <2>1. [k \in Keys |-> kvOf(k)]' = [[k \in Keys |-> kvOf(k)] EXCEPT ![stOf(p).key] = None]
    BY <1>4
  <2> QED BY <1>1, <1>2, <1>4, <2>1 DEF Map!Quit
<1> QED BY <1>3, <1>4

\* The result of call d when its key has the value v.
Res(d, v) ==
  CASE d.op = "fetch"  -> IF v # None THEN v ELSE "notfound"
    [] d.op = "delete" -> IF v # None THEN "ok" ELSE "notfound"
    [] d.op = "store"  -> IF v # None /\ d.flag = "DB_INSERT" THEN "exists"
                          ELSE IF v = None /\ d.flag = "DB_REPLACE" THEN "notfound"
                          ELSE "ok"

\* A call that is done differs from one that has begun in its result.
LEMMA Done ==
  ASSUME NEW d, NEW r, NEW c, c = Entry("called", d, None)
  PROVE [c EXCEPT !.phase = "done", !.rc = r] = Entry("done", d, r)
<1> PICK o, k, v, f : o = d.op /\ k = d.key /\ v = d.val /\ f = d.flag
  OBVIOUS
<1> PICK e : e = [c EXCEPT !.phase = "done", !.rc = r]
  OBVIOUS
<1>1. c \in [phase : {"called"}, op : {o}, key : {k}, val : {v}, flag : {f}, rc : {None}]
  BY DEF Entry
<1>2. e \in [phase : {"done"}, op : {o}, key : {k}, val : {v}, flag : {f}, rc : {r}]
  BY <1>1
<1>3. e = [phase |-> e.phase, op |-> e.op, key |-> e.key, val |-> e.val, flag |-> e.flag, rc |-> e.rc]
  BY <1>2
<1>4. e.phase = "done" /\ e.op = o /\ e.key = k /\ e.val = v /\ e.flag = f /\ e.rc = r
  BY <1>2
<1>5. e = [phase |-> "done", op |-> o, key |-> k, val |-> v, flag |-> f, rc |-> r]
  BY <1>3, <1>4
<1> QED BY <1>5 DEF Entry

\* and the effect of a call.
LEMMA MapCommit ==
  ASSUME NEW p \in Procs, StStay(p), NEW d, d.key \in Keys, NEW r,
         stOf(p) = Entry("called", d, None), stOf(p)' = Entry("done", d, r),
         r = Res(d, kvOf(d.key)), d.op \in {"fetch", "store", "delete"},
         \A k \in Keys : k # d.key => kvOf(k)' = kvOf(k),
         kvOf(d.key)' = IF d.op = "fetch" \/ r # "ok" THEN kvOf(d.key)
                        ELSE IF d.op = "store" THEN d.val ELSE None
  PROVE Map!Commit(p)
<1> DEFINE st == [q \in Procs |-> stOf(q)]
<1> DEFINE kv == [k \in Keys |-> kvOf(k)]
<1> PICK c : c = Entry("called", d, None)
  OBVIOUS
<1>1. st[p] = c /\ kv[d.key] = kvOf(d.key)
  OBVIOUS
<1>2. c.phase = "called" /\ c.op = d.op /\ c.key = d.key /\ c.val = d.val /\ c.flag = d.flag
  BY DEF Entry
<1>3. Map!Result(c) = r
  BY <1>1, <1>2 DEF Map!Result, Res
<1>4. st' = [st EXCEPT ![p] = Entry("done", d, r)]
  BY DEF StStay
<1>5. st' = [st EXCEPT ![p].phase = "done", ![p].rc = r]
  <2>0. [c EXCEPT !.phase = "done", !.rc = r] = Entry("done", d, r)
    BY Done
  <2>1. [st[p] EXCEPT !.phase = "done", !.rc = r] = Entry("done", d, r)
    <3> HIDE DEF st
    <3> QED BY <1>1, <2>0
  <2> QED BY <1>4, <2>1
<1>6. kv' = IF c.op = "fetch" \/ r # "ok" THEN kv
            ELSE [kv EXCEPT ![c.key] = IF c.op = "store" THEN c.val ELSE None]
  <2>1. CASE d.op = "fetch" \/ r # "ok"
    <3>1. \A k \in Keys : kvOf(k)' = kvOf(k)
      BY <2>1
    <3> QED BY <1>2, <2>1, <3>1
  <2>2. CASE ~(d.op = "fetch" \/ r # "ok")
    <3>1. \A k \in Keys : kvOf(k)' = IF k = d.key THEN (IF d.op = "store" THEN d.val ELSE None)
                                     ELSE kvOf(k)
      BY <2>2
    <3> QED BY <1>2, <2>2, <3>1
  <2> QED BY <2>1, <2>2
<1> QED BY ZenonT(60), <1>1, <1>2, <1>3, <1>5, <1>6 DEF Map!Commit
-----------------------------------------------------------------------------
(* Every step is a step of the map or none. *)
CallOps == {"fetch", "store", "delete"}

\* A call is pending before its effect,
LEMMA StCalled ==
  ASSUME NEW d, NEW l, CtlOK(d, l), l \in ChainPCs \cup {"lock"}, l # "unlock", d.op \in CallOps,
         ~ChgAt(d, l)
  PROVE StAt(d, l) = Entry("called", d, None)
<1>1. d.op \notin {None, "nextrec"}
  BY DbAssumption DEF CallOps, OpNames
<1>2. l # "dead" /\ d.rc = None
  BY DEF CtlOK, ChainPCs, DelPCs, FreePCs
<1> QED BY <1>1, <1>2 DEF StAt

\* done once it has a result,
LEMMA StDone ==
  ASSUME NEW d, NEW l, l # "dead", d.op \in CallOps, ~ChgAt(d, l), d.rc # None
  PROVE StAt(d, l) = Entry("done", d, d.rc)
<1>1. d.op \notin {None, "nextrec"}
  BY DbAssumption DEF CallOps, OpNames
<1> QED BY <1>1 DEF StAt

\* done, too, in a delete or a replace that has begun to write,
LEMMA StChanging ==
  ASSUME NEW d, NEW l, ChgAt(d, l)
  PROVE StAt(d, l) = Entry("done", d, "ok") /\ d.op \in {"store", "delete"} /\ l # "dead"
<1>1. d.op \in {"store", "delete"} /\ d.op \notin {None, "nextrec"}
  BY DbAssumption DEF ChgAt, OpNames
<1>2. l # "dead"
  BY DEF ChgAt, ReplacedPCs, DeletedPCs, DelPCs
<1> QED BY <1>1, <1>2 DEF StAt

\* and db_nextrec is no call of the map.
LEMMA StIdle ==
  ASSUME NEW d, NEW l, l # "dead", d.op \in {None, "nextrec"}
  PROVE StAt(d, l) = [phase |-> "idle"]
  BY DEF StAt

\* An entry shows the arguments only.
LEMMA SameEntry ==
  ASSUME NEW d, NEW e, SameArgs(e, d), NEW ph, NEW r
  PROVE Entry(ph, e, r) = Entry(ph, d, r)
  BY DEF SameArgs, Entry

MapMove(p) == Map!Invoke(p) \/ Map!Commit(p) \/ Map!Return(p) \/ Map!Quit(p) \/ UNCHANGED Map!mapvars

\* What is used of the invariants, before and after the step.
LEMMA Known ==
  ASSUME InvHere, InvNext, NEW p \in Procs, Call(p) \/ Run(p)
  PROVE /\ AllInv /\ TInv /\ SInv /\ CInv /\ TInv' /\ Facts /\ Facts' /\ Others(p) /\ StStay(p)
        /\ db[p] \in Calls /\ pc[p] \in PCs /\ db'[p] \in Calls
        /\ pc \in [Procs -> PCs] /\ db \in [Procs -> Calls]
        /\ CtlOK(db[p], pc[p]) /\ CtlOK(db'[p], pc'[p])
        /\ stOf(p) = StAt(db[p], pc[p]) /\ stOf(p)' = StAt(db'[p], pc'[p])
        /\ (Chg(p) <=> ChgAt(db[p], pc[p])) /\ (Chg(p)' <=> ChgAt(db'[p], pc'[p]))
<1>1. AllInv /\ TInv /\ SInv /\ CInv /\ TInv' /\ Facts /\ Facts' /\ Others(p) /\ CInv'
  BY OthersSame, CtlStep DEF InvHere, InvNext, AllInv, Step
<1>2. /\ db[p] \in Calls /\ pc[p] \in PCs /\ db'[p] \in Calls
      /\ pc \in [Procs -> PCs] /\ db \in [Procs -> Calls]
  BY <1>1 DEF TInv, ProcsOK
<1>3. CtlOK(db[p], pc[p]) /\ CtlOK(db'[p], pc'[p])
  BY <1>1 DEF CInv
<1>4. StStay(p)
  BY <1>1, StOther DEF StStay
<1> QED BY <1>1, <1>2, <1>3, <1>4, StIs, StThen, ChgIs, ChgThen

\* A step that neither begins nor ends a delete or a replace, nor writes the data
\* or the link of a live record, leaves the map alone.
LEMMA QuietMap ==
  ASSUME InvHere, InvNext, NEW p \in Procs, Call(p) \/ Run(p),
         ~(DelWriteDat(p) \/ Overwrite(p) \/ LinkChain(p)),
         Chg(p)' <=> Chg(p), Chg(p) => SameArgs(db'[p], db[p])
  PROVE KvStay
  BY KvQuiet DEF KvStay

\* Which steps those are.
LEMMA NotSpecial ==
  ASSUME NEW p \in Procs, pc[p] \notin {"delwdat", "overwrite", "link"}
  PROVE ~(DelWriteDat(p) \/ Overwrite(p) \/ LinkChain(p))
  BY DEF DelWriteDat, Overwrite, LinkChain

\* The calls,
LEMMA CallMap ==
  ASSUME InvHere, InvNext, NEW p \in Procs, Call(p)
  PROVE MapMove(p)
<1>0. StStay(p) /\ pc \in [Procs -> PCs] /\ db \in [Procs -> Calls] /\ CtlOK(db[p], pc[p])
  BY Known
<1>s. stOf(p) = StAt(db[p], pc[p]) /\ stOf(p)' = StAt(db'[p], pc'[p])
  BY Known
<1>1. KvStay
  <2>1. pc[p] \notin ReplacedPCs /\ pc'[p] \notin ReplacedPCs /\ pc[p] = "idle"
    <3>1. TInv /\ CInv
      BY Known
    <3>2. pc[p] = "idle"
      BY DEF Call, CallFetch, CallDelete, CallStore, CallNextrec, call, db_rewind
    <3> QED BY <3>1, <3>2, QuietPlaces
  <2>2. ~Chg(p) /\ ~Chg(p)'
    BY <2>1 DEF Chg, Replacing, Deleting, ReplacedPCs
  <2> QED BY <2>1, <2>2, NotSpecial, QuietMap
<1>2. pc[p] = "idle" /\ stOf(p) = [phase |-> "idle"]
  <2>1. pc[p] = "idle"
    BY DEF Call, CallFetch, CallDelete, CallStore, CallNextrec, call, db_rewind
  <2>2. db[p].op = None
    BY <1>0, <2>1 DEF CtlOK
  <2> QED BY <1>s, <2>1, <2>2, StIdle
<1>3. CASE CallFetch(p) \/ CallDelete(p)
  <2>1. PICK k \in Keys, o \in {"fetch", "delete"} :
          call(p, [NoCall EXCEPT !.op = o, !.key = k], "lock")
    BY <1>3 DEF CallFetch, CallDelete
  <2> PICK d : d = [NoCall EXCEPT !.op = o, !.key = k]
    OBVIOUS
  <2>2. db'[p] = d /\ pc'[p] = "lock"
    BY <1>0, <2>1 DEF call
  <2>3. d.op = o /\ d.key = k /\ d.val = None /\ d.flag = None /\ d.rc = None /\ d.found = FALSE
    BY DEF NoCall
  <2>4. ~ChgAt(d, "lock")
    BY DEF ChgAt, ReplacedPCs, DeletedPCs, DelPCs
  <2>5. CtlOK(d, "lock")
    BY <2>2, Known
  <2>6. stOf(p)' = Entry("called", d, None)
    <3>1. d.op \in CallOps
      BY <2>3 DEF CallOps
    <3>2. StAt(d, "lock") = Entry("called", d, None)
      BY <2>4, <2>5, <3>1, StCalled
    <3> QED BY <1>s, <2>2, <3>2
  <2>7. stOf(p)' \in Map!Request("called", {"fetch", "delete"}, {None}, {None}, None)
    BY <2>3, <2>6 DEF Map!Request, Entry
  <2> QED BY <1>0, <1>1, <1>2, <2>7, MapInvoke DEF MapMove
<1>4. CASE CallStore(p)
  <2>1. PICK k \in Keys, v \in Vals, f \in Flags :
          LET d == [NoCall EXCEPT !.op = "store", !.key = k, !.val = v, !.flag = f]
          IN IF f = "other" THEN call(p, [d EXCEPT !.rc = "EINVAL"], "return")
             ELSE call(p, d, "lock")
    BY <1>4 DEF CallStore
  <2> PICK d : d = [NoCall EXCEPT !.op = "store", !.key = k, !.val = v, !.flag = f]
    OBVIOUS
  <2>2. d.op = "store" /\ d.key = k /\ d.val = v /\ d.flag = f /\ d.rc = None
    BY DEF NoCall
  <2> PICK e : e = [d EXCEPT !.rc = "EINVAL"]
    OBVIOUS
  <2>3. e.op = "store" /\ e.key = k /\ e.val = v /\ e.flag = f /\ e.rc = "EINVAL"
    BY DEF NoCall
  <2>4. None # "EINVAL"
    BY DbAssumption
  <2>5. CASE f = "other"
    <3>1. db'[p] = e /\ pc'[p] = "return"
      BY <1>0, <2>1, <2>5 DEF call
    <3>2. ~ChgAt(e, "return")
      BY DEF ChgAt, ReplacedPCs, DeletedPCs, DelPCs
    <3>3. stOf(p)' = Entry("done", e, "EINVAL")
      <4>1. e.op \in CallOps /\ e.rc # None
        BY <2>3, <2>4 DEF CallOps
      <4>2. StAt(e, "return") = Entry("done", e, e.rc)
        BY <3>2, <4>1, StDone
      <4> QED BY <1>s, <2>3, <3>1, <4>2
    <3>4. stOf(p)' \in Map!Request("done", {"store"}, Vals, Flags \cap {"other"}, "EINVAL")
      BY <2>3, <2>5, <3>3 DEF Map!Request, Entry
    <3> QED BY <1>0, <1>1, <1>2, <3>4, MapInvoke DEF MapMove
  <2>6. CASE f # "other"
    <3>1. db'[p] = d /\ pc'[p] = "lock"
      BY <1>0, <2>1, <2>6 DEF call
    <3>2. ~ChgAt(d, "lock")
      BY DEF ChgAt, ReplacedPCs, DeletedPCs, DelPCs
    <3>3. CtlOK(d, "lock")
      BY <3>1, Known
    <3>4. stOf(p)' = Entry("called", d, None)
      <4>1. d.op \in CallOps
        BY <2>2 DEF CallOps
      <4>2. StAt(d, "lock") = Entry("called", d, None)
        BY <3>2, <3>3, <4>1, StCalled
      <4> QED BY <1>s, <3>1, <4>2
    <3>5. stOf(p)' \in Map!Request("called", {"store"}, Vals, Flags \ {"other"}, None)
      BY <2>2, <2>6, <3>4 DEF Map!Request, Entry
    <3> QED BY <1>0, <1>1, <1>2, <3>5, MapInvoke DEF MapMove
  <2> QED BY <2>5, <2>6
<1>5. CASE CallNextrec(p)
  <2> PICK d : d = [NoCall EXCEPT !.op = "nextrec"]
    OBVIOUS
  <2>1. d.op = "nextrec"
    BY DEF NoCall
  <2>2. db'[p] = d /\ pc'[p] = "nlock"
    BY <1>0, <1>5 DEF CallNextrec, call
  <2>3. stOf(p)' = stOf(p)
    <3>1. StAt(d, "nlock") = [phase |-> "idle"]
      BY <2>1, StIdle
    <3> QED BY <1>s, <1>2, <2>2, <3>1
  <2> QED BY <1>0, <1>1, <2>3, MapStutter DEF MapMove
<1>6. CASE db_rewind(p)
  <2>1. db' = db /\ pc' = pc
    BY <1>6 DEF db_rewind
  <2>2. stOf(p)' = stOf(p)
    BY <1>s, <2>1
  <2> QED BY <1>0, <1>1, <2>2, MapStutter DEF MapMove
<1> QED BY <1>3, <1>4, <1>5, <1>6 DEF Call

\* the returns and db_nextrec, which the map does not have,
LEMMA EndMap ==
  ASSUME InvHere, InvNext, NEW p \in Procs, Return(p) \/ Nextrec(p)
  PROVE MapMove(p)
<1>r. Call(p) \/ Run(p)
  BY DEF Run
<1>0. StStay(p) /\ pc \in [Procs -> PCs] /\ db \in [Procs -> Calls] /\ CtlOK(db[p], pc[p])
  BY <1>r, Known
<1>s. stOf(p) = StAt(db[p], pc[p]) /\ stOf(p)' = StAt(db'[p], pc'[p])
  BY <1>r, Known
<1>i. TInv /\ CInv
  BY <1>r, Known
<1>1. KvStay
  <2>1. pc[p] \notin ReplacedPCs /\ pc'[p] \notin ReplacedPCs
    BY <1>i, QuietPlaces
  <2>2. ~Chg(p) /\ ~Chg(p)'
    BY <2>1 DEF Chg, Replacing, Deleting, ReplacedPCs
  <2>3. pc[p] \notin {"delwdat", "overwrite", "link"}
    BY DEF Return, Nextrec, NextLock, NextRead, NextReadDat, NextEOF, NextMisread, NextUnlock
  <2> QED BY <1>r, <2>2, <2>3, NotSpecial, QuietMap
<1>2. CASE Return(p)
  <2>1. pc[p] = "return" /\ pc'[p] = "idle" /\ db'[p] = NoCall /\ db[p] \in Calls
    BY <1>0, <1>2 DEF Return
  <2>2. NoCall.op = None
    BY DEF NoCall
  <2>3. stOf(p)' = [phase |-> "idle"]
    <3>1. StAt(NoCall, "idle") = [phase |-> "idle"]
      BY <2>2, StIdle
    <3> QED BY <1>s, <2>1, <3>1
  <2>4. CASE db[p].op \in {None, "nextrec"}
    <3>1. StAt(db[p], "return") = [phase |-> "idle"]
      BY <2>4, StIdle
    <3>2. stOf(p)' = stOf(p)
      BY <1>s, <2>1, <2>3, <3>1
    <3> QED BY <1>0, <1>1, <3>2, MapStutter DEF MapMove
  <2>5. CASE db[p].op \notin {None, "nextrec"}
    <3>1. db[p].rc # None
      BY <1>0, <2>1, <2>5 DEF CtlOK
    <3>2. ~ChgAt(db[p], "return")
      BY DEF ChgAt, ReplacedPCs, DeletedPCs, DelPCs
    <3>3. StAt(db[p], "return") = Entry("done", db[p], db[p].rc)
      BY <2>5, <3>1, <3>2 DEF StAt
    <3>4. stOf(p).phase = "done"
      BY <1>s, <2>1, <3>3 DEF Entry
    <3> QED BY <1>0, <1>1, <2>3, <3>4, MapReturn DEF MapMove
  <2> QED BY <2>4, <2>5
<1>3. CASE Nextrec(p)
  <2>1. db[p].op = "nextrec" /\ pc[p] \in NextPCs \cup {"nlock"}
    BY <1>i, <1>3, NextrecCtl
  <2>2. pc'[p] = "dead" \/ (db'[p].op = "nextrec" /\ pc'[p] \in NextPCs \cup {"return"})
    BY <1>i, <1>3, NextrecCtl
  <2>3. stOf(p) = [phase |-> "idle"]
    <3>1. pc[p] # "dead"
      BY <2>1 DEF NextPCs
    <3> QED BY <1>s, <2>1, <3>1, StIdle
  <2>4. CASE pc'[p] = "dead"
    <3>1. stOf(p)' = [phase |-> "dead"]
      BY <1>s, <2>4 DEF StAt
    <3>2. stOf(p).phase \in {"idle", "called"}
      BY <2>3
    <3> QED BY <1>0, <1>1, <3>1, <3>2, MapQuit DEF MapMove
  <2>5. CASE db'[p].op = "nextrec" /\ pc'[p] \in NextPCs \cup {"return"}
    <3>1. pc'[p] # "dead"
      BY <2>5 DEF NextPCs
    <3> PICK e, m : e = db'[p] /\ m = pc'[p]
      OBVIOUS
    <3>2. StAt(e, m) = [phase |-> "idle"]
      BY <2>5, <3>1, StIdle
    <3>3. stOf(p)' = stOf(p)
      BY <1>s, <2>3, <3>2
    <3> QED BY <1>0, <1>1, <3>3, MapStutter DEF MapMove
  <2> QED BY <2>2, <2>4, <2>5
<1> QED BY <1>2, <1>3

\* The value of the key of a call that has found its record, or knows there is none.
LEMMA ValueHere ==
  ASSUME InvHere, NEW p \in Procs, pc[p] \in ChainPCs, ~Chg(p)
  PROVE /\ db[p].key \in Keys /\ db[p].op \in CallOps /\ Changing(db[p].key) = {}
        /\ pc[p] \in HasPCs =>
             /\ kvOf(db[p].key) = dat[db[p].datoff] /\ kvOf(db[p].key) # None
             /\ idx[db[p].idxoff].dat = db[p].datoff /\ db[p].idxoff \in Live(db[p].key)
        /\ Live(db[p].key) = {} => kvOf(db[p].key) = None
<1>0. TInv /\ RInv /\ Facts
  BY DEF InvHere, AllInv
<1> PICK k : k = db[p].key
  OBVIOUS
<1>1. k \in Keys /\ db[p].op \in CallOps
  BY <1>0, CallNow DEF CallOK, CallOps
<1>2. Changing(k) = {}
  <2>1. ASSUME NEW q \in Changing(k) PROVE FALSE
    <3>1. q \in Procs /\ Chg(q) /\ db[q].key = k
      BY <2>1 DEF Changing, Chg
    <3>2. q = p
      BY <1>0, <3>1 DEF Facts, Knows
    <3> QED BY <3>1, <3>2
  <2> QED BY <2>1
<1>3. KvOK(k)
  BY <1>0, <1>1 DEF Facts
<1>4. Live(k) = {} => kvOf(k) = None
  BY <1>2, <1>3 DEF KvOK
<1>5. ASSUME pc[p] \in HasPCs
      PROVE /\ kvOf(k) = dat[db[p].datoff] /\ kvOf(k) # None
            /\ idx[db[p].idxoff].dat = db[p].datoff /\ db[p].idxoff \in Live(k)
  <2>1. db[p].idxoff \in Live(k)
    BY <1>0, <1>5 DEF Facts, Knows
  <2>2. idx[db[p].idxoff].dat = db[p].datoff /\ db[p].idxoff \in 1..Len(idx)
    BY <1>0, <1>5 DEF RInv, ReadOK, ReadPCs
  <2>3. kvOf(k) = dat[db[p].datoff]
    BY <1>2, <1>3, <2>1, <2>2 DEF KvOK
  <2>4. db[p].datoff \in 1..Len(dat) /\ dat \in Seq(Vals \cup {Blank})
    BY <1>0, <2>2, RecordAt DEF TInv, FilesOK
  <2>5. dat[db[p].datoff] # None
    BY <2>4, DbAssumption
  <2> QED BY <2>1, <2>2, <2>3, <2>5
<1> QED BY <1>1, <1>2, <1>4, <1>5

\* A call that takes effect without changing the map.
LEMMA CommitQuiet ==
  ASSUME NEW p \in Procs, StStay(p), KvStay, NEW d, d.key \in Keys, d.op \in CallOps, NEW r,
         stOf(p) = Entry("called", d, None), stOf(p)' = Entry("done", d, r),
         r = Res(d, kvOf(d.key)), d.op = "fetch" \/ r # "ok"
  PROVE Map!Commit(p)
<1>1. \A k \in Keys : k # d.key => kvOf(k)' = kvOf(k)
  BY DEF KvStay
<1>2. kvOf(d.key)' = IF d.op = "fetch" \/ r # "ok" THEN kvOf(d.key)
                     ELSE IF d.op = "store" THEN d.val ELSE None
  BY DEF KvStay
<1> QED BY <1>1, <1>2, MapCommit DEF CallOps

\* the search, which ends a call that fails and a db_fetch,
LEMMA FindMap ==
  ASSUME InvHere, InvNext, NEW p \in Procs, Find(p)
  PROVE MapMove(p)
<1>r. Call(p) \/ Run(p)
  BY DEF Run
<1>0. StStay(p) /\ pc \in [Procs -> PCs] /\ db \in [Procs -> Calls]
  BY <1>r, Known
<1> PICK d, e, l, m : d = db[p] /\ e = db'[p] /\ l = pc[p] /\ m = pc'[p]
  OBVIOUS
<1>s. stOf(p) = StAt(d, l) /\ stOf(p)' = StAt(e, m)
  BY <1>r, Known
<1>c. CtlOK(d, l) /\ CtlOK(e, m)
  BY <1>r, Known
<1>i. TInv /\ CInv
  BY <1>r, Known
<1>q. l \notin ReplacedPCs /\ m \notin ReplacedPCs
  BY <1>i, QuietPlaces
<1>a. ~ChgAt(d, l) /\ ~ChgAt(e, m) /\ ~Chg(p) /\ ~Chg(p)'
  BY <1>q DEF ChgAt, Chg, Replacing, Deleting, ReplacedPCs
<1>l. l \in {"lock", "readptr", "walk", "found", "readdat", "unlock"}
  BY DEF Find, LockChain, ReadChainPtr, WalkChain, NotFound, Found, FetchData, UnlockChain
<1>p. l \in ChainPCs \cup {"lock"}
  BY <1>l DEF ChainPCs
<1>k. d \in Calls /\ d.op \in CallOps /\ d.key \in Keys
  <2>1. d \in Calls /\ CallOK(d, l, Len(idx), Len(dat))
    BY <1>i, CallNow
  <2> QED BY <1>p, <2>1 DEF CallOK, CallOps
<1>1. KvStay
  <2>1. pc[p] \notin {"delwdat", "overwrite", "link"}
    BY <1>l
  <2> QED BY <1>r, <1>a, <2>1, NotSpecial, QuietMap
<1>2. l # "unlock" => stOf(p) = Entry("called", d, None)
  BY <1>s, <1>c, <1>a, <1>p, <1>k, StCalled
\* a step that goes on
<1>3. ASSUME e.op = d.op, e.key = d.key, e.val = d.val, e.flag = d.flag,
             m \in ChainPCs, m # "unlock", l # "unlock"
      PROVE MapMove(p)
  <2>1. StAt(e, m) = Entry("called", e, None)
    BY <1>c, <1>a, <1>k, <1>3, StCalled
  <2>2. Entry("called", e, None) = Entry("called", d, None)
    BY <1>3 DEF Entry
  <2>3. stOf(p)' = stOf(p)
    BY <1>s, <1>2, <1>3, <2>1, <2>2
  <2> QED BY <1>0, <1>1, <2>3, MapStutter DEF MapMove
\* a step that ends the call with the result r
<1>4. ASSUME NEW r, r # None, e = [d EXCEPT !.rc = r], m = "unlock", l # "unlock",
             r = Res(d, kvOf(d.key)), d.op = "fetch" \/ r # "ok"
      PROVE MapMove(p)
  <2>1. e.op = d.op /\ e.key = d.key /\ e.val = d.val /\ e.flag = d.flag /\ e.rc = r
    BY <1>k, <1>4 DEF Calls
  <2>2. StAt(e, m) = Entry("done", e, e.rc)
    <3>1. m # "dead" /\ e.op \in CallOps /\ e.rc # None
      BY <1>k, <1>4, <2>1
    <3> QED BY <1>a, <3>1, StDone
  <2>3. Entry("done", e, r) = Entry("done", d, r)
    BY <2>1 DEF Entry
  <2>4. stOf(p)' = Entry("done", d, r)
    BY <1>s, <2>1, <2>2, <2>3
  <2> QED BY <1>0, <1>1, <1>2, <1>4, <1>k, <2>4, CommitQuiet DEF MapMove
<1>5. CASE LockChain(p) \/ ReadChainPtr(p)
  <2>1. l \in {"lock", "readptr"} /\ m \in {"readptr", "walk"}
    BY <1>0, <1>5 DEF LockChain, ReadChainPtr
  <2>2. e.op = d.op /\ e.key = d.key /\ e.val = d.val /\ e.flag = d.flag
    <3> PICK f : f = [d EXCEPT !.off = chain[ChainOf(p)], !.ptroff = 0]
      OBVIOUS
    <3>1. f.op = d.op /\ f.key = d.key /\ f.val = d.val /\ f.flag = d.flag
      BY <1>k DEF Calls
    <3>2. e = d \/ e = f
      BY <1>0, <1>5 DEF LockChain, ReadChainPtr
    <3> QED BY <3>1, <3>2
  <2>3. m \in ChainPCs /\ m # "unlock" /\ l # "unlock"
    BY <2>1 DEF ChainPCs
  <2> QED BY <1>3, <2>2, <2>3
<1>6. CASE WalkChain(p)
  <2> PICK f : f = ReadIdx(d, d.off)
    OBVIOUS
  <2> PICK g, h : g = [f EXCEPT !.found = TRUE] /\ h = [f EXCEPT !.off = f.ptrval, !.ptroff = d.off]
    OBVIOUS
  <2>1. /\ g.op = d.op /\ g.key = d.key /\ g.val = d.val /\ g.flag = d.flag
        /\ h.op = d.op /\ h.key = d.key /\ h.val = d.val /\ h.flag = d.flag
    BY <1>k DEF ReadIdx, Calls
  <2>2. (e = g \/ e = h) /\ m \in {"found", "walk"} /\ l = "walk"
    BY <1>0, <1>6 DEF WalkChain
  <2>3. m \in ChainPCs /\ m # "unlock" /\ l # "unlock"
    BY <2>2 DEF ChainPCs
  <2>4. e.op = d.op /\ e.key = d.key /\ e.val = d.val /\ e.flag = d.flag
    BY <2>1, <2>2
  <2> QED BY <1>3, <2>3, <2>4
<1>7. CASE NotFound(p)
  <2>1. l = "walk" /\ l \in ChainPCs
    BY <1>7 DEF NotFound, ChainPCs
  <2>2. CASE d.op # "store" \/ d.flag = "DB_REPLACE"
    <3>1. e = [d EXCEPT !.rc = "notfound"] /\ m = "unlock"
      BY <1>0, <1>7, <2>2 DEF NotFound
    <3>2. Live(d.key) = {}
      BY <1>7, <2>1 DEF NotFound, InvHere, Facts, Knows
    <3>3. kvOf(d.key) = None
      BY <1>a, <2>1, <3>2, ValueHere
    <3>4. Res(d, kvOf(d.key)) = "notfound"
      BY <1>k, <2>2, <3>3 DEF Res, CallOps
    <3>5. None # "notfound"
      BY DbAssumption
    <3> QED BY <1>4, <2>1, <3>1, <3>4, <3>5
  <2>3. CASE ~(d.op # "store" \/ d.flag = "DB_REPLACE")
    <3> PICK x : x = chain[ChainOf(p)]
      OBVIOUS
    <3>1. e = [d EXCEPT !.head = x] /\ m = "fflock"
      BY <1>0, <1>7, <2>3 DEF NotFound
    <3>2. e.op = d.op /\ e.key = d.key /\ e.val = d.val /\ e.flag = d.flag
      BY <1>k, <3>1 DEF Calls
    <3>3. m \in ChainPCs /\ m # "unlock" /\ l # "unlock"
      BY <2>1, <3>1 DEF ChainPCs
    <3> QED BY <1>3, <3>2, <3>3
  <2> QED BY <2>2, <2>3
<1>8. CASE Found(p)
  <2>1. l = "found" /\ l \in ChainPCs /\ l \in HasPCs
    BY <1>8 DEF Found, ChainPCs, HasPCs
  <2>2. CASE d.op = "store" /\ d.flag = "DB_INSERT"
    <3>1. e = [d EXCEPT !.rc = "exists"] /\ m = "unlock"
      BY <1>0, <1>8, <2>2 DEF Found
    <3>2. kvOf(d.key) # None
      BY <1>a, <2>1, ValueHere
    <3>3. Res(d, kvOf(d.key)) = "exists"
      BY <2>2, <3>2 DEF Res
    <3>4. None # "exists"
      BY DbAssumption
    <3> QED BY <1>4, <2>1, <3>1, <3>3, <3>4
  <2>3. CASE ~(d.op = "store" /\ d.flag = "DB_INSERT")
    <3>1. e = d /\ m \in {"readdat", "dellock", "overwrite"}
      BY <1>0, <1>8, <1>k, <2>3 DEF Found, CallOps
    <3>2. m \in ChainPCs /\ m # "unlock" /\ l # "unlock"
      BY <2>1, <3>1 DEF ChainPCs
    <3> QED BY <1>3, <3>1, <3>2
  <2> QED BY <2>2, <2>3
<1>9. CASE FetchData(p)
  <2>1. l = "readdat" /\ l \in ChainPCs /\ l \in HasPCs /\ d.op = "fetch"
    <3>1. l = "readdat"
      BY <1>9 DEF FetchData
    <3> QED BY <1>c, <3>1 DEF CtlOK, ChainPCs, HasPCs
  <2> PICK x : x = dat[d.datoff]
    OBVIOUS
  <2>2. e = [d EXCEPT !.rc = x] /\ m = "unlock"
    BY <1>0, <1>9 DEF FetchData
  <2>3. kvOf(d.key) = x /\ x # None
    BY <1>a, <2>1, ValueHere
  <2>4. Res(d, kvOf(d.key)) = x
    BY <2>1, <2>3 DEF Res
  <2> QED BY <1>4, <2>1, <2>2, <2>3, <2>4
<1>10. CASE UnlockChain(p)
  <2>1. l = "unlock" /\ m = "return" /\ e = d
    BY <1>0, <1>10 DEF UnlockChain
  <2>2. d.rc # None
    BY <1>c, <2>1 DEF CtlOK, ChainPCs
  <2>3. StAt(d, "unlock") = Entry("done", d, d.rc)
    BY <1>a, <1>k, <2>1, <2>2, StDone
  <2>4. StAt(d, "return") = Entry("done", d, d.rc)
    BY <1>a, <1>k, <2>1, <2>2, StDone
  <2>5. stOf(p)' = stOf(p)
    BY <1>s, <2>1, <2>3, <2>4
  <2> QED BY <1>0, <1>1, <2>5, MapStutter DEF MapMove
<1> QED BY <1>5, <1>6, <1>7, <1>8, <1>9, <1>10 DEF Find

\* Nobody changes a key once the process that has its chain no longer does.
LEMMA ChangeOver ==
  ASSUME InvHere, InvNext, NEW p \in Procs, Call(p) \/ Run(p), pc[p] \in ChainPCs, ~Chg(p)',
         NEW k, k = db[p].key
  PROVE Changing(k)' = {}
<1>1. Others(p) /\ Facts
  BY Known
<1>2. ASSUME NEW q \in Changing(k)' PROVE FALSE
  <2>1. q \in Procs /\ Chg(q)' /\ db'[q].key = k
    BY <1>2 DEF Changing, Chg
  <2>2. q # p
    BY <2>1
  <2>3. Chg(q) /\ db[q].key = k
    BY <1>1, <2>1, <2>2 DEF Others, Same, Chg, Replacing, Deleting
  <2> QED BY <1>1, <2>1, <2>2, <2>3 DEF Facts, Knows
<1> QED BY <1>2

\* What is known of a call in the middle of an update, before and after a step of it.
LEMMA WriteHere ==
  ASSUME InvHere, InvNext, NEW p \in Procs, Run(p), pc[p] \in ChainPCs
  PROVE /\ StStay(p) /\ pc \in [Procs -> PCs] /\ db \in [Procs -> Calls]
        /\ stOf(p) = StAt(db[p], pc[p]) /\ stOf(p)' = StAt(db'[p], pc'[p])
        /\ CtlOK(db[p], pc[p]) /\ CtlOK(db'[p], pc'[p])
        /\ (Chg(p) <=> ChgAt(db[p], pc[p])) /\ (Chg(p)' <=> ChgAt(db'[p], pc'[p]))
        /\ db[p] \in Calls /\ db[p].op \in CallOps /\ db[p].key \in Keys
        /\ TInv /\ AllInv /\ SInv
        /\ \A k \in Keys : k # db[p].key => kvOf(k)' = kvOf(k)
<1>1. /\ db[p].op \in CallOps /\ db[p].key \in Keys
  <2>1. TInv
    BY DEF InvHere, AllInv
  <2> QED BY <2>1, CallNow DEF CallOK, CallOps
<1>2. \A k \in Keys : k # db[p].key => kvOf(k)' = kvOf(k)
  BY OtherKeys
<1> QED BY <1>1, <1>2, Known

\* A delete, and a replace by delete-and-append, take effect with their first write.
LEMMA DelWriteDatMap ==
  ASSUME InvHere, InvNext, NEW p \in Procs, DelWriteDat(p)
  PROVE Map!Commit(p)
<1>r. Run(p)
  BY DEF Run, DoDelete
<1> PICK d, k : d = db[p] /\ k = d.key
  OBVIOUS
<1>1. pc[p] = "delwdat" /\ pc[p] \in ChainPCs /\ pc[p] \in HasPCs /\ db'[p] = d
  BY DEF DelWriteDat, ChainPCs, DelPCs, HasPCs
<1>0. /\ StStay(p) /\ d \in Calls /\ d.op \in CallOps /\ k \in Keys /\ TInv
      /\ \A x \in Keys : x # k => kvOf(x)' = kvOf(x)
  BY <1>r, <1>1, WriteHere
<1>2. pc'[p] = "delrfree"
  BY <1>r, <1>1, WriteHere DEF DelWriteDat
<1>3. /\ stOf(p) = StAt(d, "delwdat") /\ stOf(p)' = StAt(d, "delrfree") /\ CtlOK(d, "delwdat")
      /\ (Chg(p) <=> ChgAt(d, "delwdat")) /\ (Chg(p)' <=> ChgAt(d, "delrfree"))
  BY <1>r, <1>1, <1>2, WriteHere
<1>4. d.found = TRUE /\ d.op \in {"store", "delete"} /\ (d.op = "store" => d.flag # "DB_INSERT")
  <2>1. d.op # "fetch"
    BY <1>0, <1>1, HasTypes DEF DelPCs
  <2> QED BY <1>0, <1>3, <2>1 DEF CtlOK, FoundPCs, ChangePCs, DelPCs, CallOps
<1>5. ~ChgAt(d, "delwdat") /\ ChgAt(d, "delrfree")
  BY <1>4 DEF ChgAt, ReplacedPCs, DeletedPCs, DelPCs
<1>6. stOf(p) = Entry("called", d, None) /\ stOf(p)' = Entry("done", d, "ok")
  <2>1. StAt(d, "delwdat") = Entry("called", d, None)
    BY <1>0, <1>1, <1>3, <1>5, StCalled
  <2>2. StAt(d, "delrfree") = Entry("done", d, "ok")
    BY <1>5, StChanging
  <2> QED BY <1>3, <2>1, <2>2
<1>7. kvOf(k) # None
  BY <1>1, <1>3, <1>5, ValueHere
<1>8. Res(d, kvOf(d.key)) = "ok"
  BY <1>4, <1>7 DEF Res
<1>9. kvOf(k)' = IF d.op = "store" THEN d.val ELSE None
  <2>1. p \in Changing(k)'
    BY <1>1, <1>3, <1>5 DEF Changing, Chg
  <2>2. KvOK(k)'
    BY <1>0 DEF InvNext, Facts
  <2> QED BY <1>1, <2>1, <2>2 DEF KvOK
<1> QED BY <1>0, <1>4, <1>6, <1>8, <1>9, MapCommit

\* The end of a delete: the record is gone and nobody is changing the key.
LEMMA DelUnlockMap ==
  ASSUME InvHere, InvNext, NEW p \in Procs, DelUnlockFree(p), db[p].op = "delete"
  PROVE UNCHANGED Map!mapvars
<1>r. Run(p)
  BY DEF Run, DoDelete
<1> PICK d, k, e : d = db[p] /\ k = d.key /\ e = [d EXCEPT !.rc = "ok"]
  OBVIOUS
<1>1. pc[p] = "delunlock" /\ pc[p] \in ChainPCs
  BY DEF DelUnlockFree, ChainPCs, DelPCs
<1>0. /\ StStay(p) /\ d \in Calls /\ d.op \in CallOps /\ k \in Keys /\ TInv /\ AllInv
      /\ \A x \in Keys : x # k => kvOf(x)' = kvOf(x)
  BY <1>r, <1>1, WriteHere
<1>2. pc'[p] = "unlock" /\ db'[p] = e
  BY <1>r, <1>1, WriteHere DEF DelUnlockFree
<1>3. /\ stOf(p) = StAt(d, "delunlock") /\ stOf(p)' = StAt(e, "unlock")
      /\ (Chg(p) <=> ChgAt(d, "delunlock")) /\ (Chg(p)' <=> ChgAt(e, "unlock"))
  BY <1>r, <1>1, <1>2, WriteHere
<1>4. e.op = "delete" /\ e.key = k /\ e.val = d.val /\ e.flag = d.flag /\ e.rc = "ok" /\ None # "ok"
  BY <1>0, DbAssumption DEF Calls
<1>5. ChgAt(d, "delunlock") /\ ~ChgAt(e, "unlock")
  BY <1>4 DEF ChgAt, ReplacedPCs, DeletedPCs, DelPCs
<1>6. stOf(p)' = stOf(p)
  <2>1. StAt(d, "delunlock") = Entry("done", d, "ok")
    BY <1>5, StChanging
  <2>2. StAt(e, "unlock") = Entry("done", e, e.rc)
    BY <1>4, <1>5, StDone DEF CallOps
  <2>3. Entry("done", e, "ok") = Entry("done", d, "ok")
    BY <1>4 DEF Entry
  <2> QED BY <1>3, <1>4, <2>1, <2>2, <2>3
<1>7. kvOf(k) = None
  <2>1. p \in Changing(k)
    BY <1>3, <1>5 DEF Changing, Chg
  <2>2. KvOK(k)
    BY <1>0 DEF InvHere, Facts
  <2> QED BY <2>1, <2>2 DEF KvOK
<1>8. kvOf(k)' = None
  <2>1. Changing(k)' = {}
    BY <1>r, <1>1, <1>3, <1>5, ChangeOver
  <2>2. Live(k) = {}
    BY <1>1 DEF InvHere, Facts, Knows
  <2>3. ASSUME NEW i \in Live(k)' PROVE FALSE
    <3>1. ~(DelWriteIdx(p) \/ LinkChain(p))
      BY <1>1 DEF DelWriteIdx, LinkChain
    <3> QED BY <1>r, <1>0, <2>2, <2>3, <3>1, LiveSame
  <2>4. KvOK(k)'
    BY <1>0 DEF InvNext, Facts
  <2> QED BY <2>1, <2>3, <2>4 DEF KvOK
<1>9. KvStay
  BY <1>0, <1>7, <1>8 DEF KvStay
<1> QED BY <1>0, <1>6, <1>9, MapStutter

\* A replace in place takes effect with its write.
LEMMA OverwriteMap ==
  ASSUME InvHere, InvNext, NEW p \in Procs, Overwrite(p)
  PROVE Map!Commit(p)
<1>r. Run(p)
  BY DEF Run, StoreWrites
<1> PICK d, k, e, i : d = db[p] /\ k = d.key /\ e = [d EXCEPT !.rc = "ok"] /\ i = d.idxoff
  OBVIOUS
<1>1. pc[p] = "overwrite" /\ pc[p] \in ChainPCs /\ pc[p] \in HasPCs
  BY DEF Overwrite, ChainPCs, HasPCs
<1>0. /\ StStay(p) /\ d \in Calls /\ d.op \in CallOps /\ k \in Keys /\ TInv /\ AllInv
      /\ \A x \in Keys : x # k => kvOf(x)' = kvOf(x)
  BY <1>r, <1>1, WriteHere
<1>2. pc'[p] = "unlock" /\ db'[p] = e
  BY <1>r, <1>1, WriteHere DEF Overwrite
<1>3. /\ stOf(p) = StAt(d, "overwrite") /\ stOf(p)' = StAt(e, "unlock") /\ CtlOK(d, "overwrite")
      /\ (Chg(p) <=> ChgAt(d, "overwrite")) /\ (Chg(p)' <=> ChgAt(e, "unlock"))
  BY <1>r, <1>1, <1>2, WriteHere
<1>4. e.op = d.op /\ e.key = k /\ e.val = d.val /\ e.flag = d.flag /\ e.rc = "ok" /\ None # "ok"
  BY <1>0, DbAssumption DEF Calls
<1>5. ~ChgAt(d, "overwrite") /\ ~ChgAt(e, "unlock")
  BY DEF ChgAt, ReplacedPCs, DeletedPCs, DelPCs
<1>6. stOf(p) = Entry("called", d, None) /\ stOf(p)' = Entry("done", d, "ok")
  <2>1. StAt(d, "overwrite") = Entry("called", d, None)
    BY <1>0, <1>1, <1>3, <1>5, StCalled
  <2>2. StAt(e, "unlock") = Entry("done", e, e.rc)
    BY <1>0, <1>4, <1>5, StDone
  <2>3. Entry("done", e, "ok") = Entry("done", d, "ok")
    BY <1>4 DEF Entry
  <2> QED BY <1>3, <1>4, <2>1, <2>2, <2>3
<1>7. kvOf(k) # None /\ idx[i].dat = d.datoff /\ i \in Live(k)
  BY <1>1, <1>3, <1>5, ValueHere
<1>8. d.op = "store" /\ d.flag # "DB_INSERT"
  <2>1. d.op = "store"
    BY <1>0, <1>1, HasTypes DEF StorePCs
  <2> QED BY <1>3, <2>1 DEF CtlOK, ChangePCs
<1>9. Res(d, kvOf(d.key)) = "ok"
  BY <1>7, <1>8 DEF Res
<1>10. kvOf(k)' = d.val
  <2>1. Changing(k)' = {}
    BY <1>r, <1>1, <1>3, <1>5, ChangeOver
  <2>2. i \in Live(k)'
    <3>1. ~(DelWriteIdx(p) \/ LinkChain(p))
      BY <1>1 DEF DelWriteIdx, LinkChain
    <3> QED BY <1>r, <1>0, <1>7, <3>1, LiveSame
  <2>3. KvOK(k)'
    BY <1>0 DEF InvNext, Facts
  <2>4. kvOf(k)' = dat'[idx'[i].dat]
    BY <2>1, <2>2, <2>3 DEF KvOK
  <2>5. d.datoff \in 1..Len(dat) /\ dat \in Seq(Vals \cup {Blank})
    BY <1>0, <1>1, CallNow DEF CallOK, DatPCs, TInv, FilesOK
  <2>6. idx' = idx /\ dat'[d.datoff] = d.val
    BY <2>5 DEF Overwrite
  <2> QED BY <1>7, <2>4, <2>6
<1> QED BY <1>0, <1>6, <1>8, <1>9, <1>10, MapCommit

\* The link of a new record makes it the live record of its key, with the data of the call,
LEMMA LinkChainMap ==
  ASSUME InvHere, InvNext, NEW p \in Procs, LinkChain(p)
  PROVE Map!Commit(p) \/ UNCHANGED Map!mapvars
<1>r. Run(p)
  BY DEF Run, StoreWrites
<1> PICK d, k, e, i : d = db[p] /\ k = d.key /\ e = [d EXCEPT !.rc = "ok"] /\ i = d.idxoff
  OBVIOUS
<1>1. pc[p] = "link" /\ pc[p] \in ChainPCs /\ pc[p] \in HeadPCs /\ idx' = idx /\ dat' = dat
  BY DEF LinkChain, ChainPCs, HeadPCs
<1>0. /\ StStay(p) /\ d \in Calls /\ d.op \in CallOps /\ k \in Keys /\ TInv /\ AllInv /\ SInv
      /\ \A x \in Keys : x # k => kvOf(x)' = kvOf(x)
  BY <1>r, <1>1, WriteHere
<1>2. pc'[p] = "unlock" /\ db'[p] = e
  BY <1>r, <1>1, WriteHere DEF LinkChain
<1>3. /\ stOf(p) = StAt(d, "link") /\ stOf(p)' = StAt(e, "unlock") /\ CtlOK(d, "link")
      /\ (Chg(p) <=> ChgAt(d, "link")) /\ (Chg(p)' <=> ChgAt(e, "unlock"))
  BY <1>r, <1>1, <1>2, WriteHere
<1>4. e.op = d.op /\ e.key = k /\ e.val = d.val /\ e.flag = d.flag /\ e.rc = "ok" /\ None # "ok"
  BY <1>0, DbAssumption DEF Calls
<1>5. d.op = "store" /\ d.found \in BOOLEAN
  BY <1>0, <1>1, HasTypes DEF StorePCs, Calls
<1>6. ~ChgAt(e, "unlock") /\ (ChgAt(d, "link") <=> d.found = TRUE)
  BY <1>5 DEF ChgAt, ReplacedPCs, DeletedPCs, DelPCs
<1>7. stOf(p)' = Entry("done", d, "ok")
  <2>1. StAt(e, "unlock") = Entry("done", e, e.rc)
    <3>1. e.op \in CallOps /\ e.rc # None /\ "unlock" # "dead"
      BY <1>0, <1>4
    <3> QED BY <1>6, <3>1, StDone
  <2>2. Entry("done", e, "ok") = Entry("done", d, "ok")
    BY <1>4 DEF Entry
  <2> QED BY <1>3, <1>4, <2>1, <2>2
<1>8. Live(k) = {}
  BY <1>1 DEF InvHere, Facts, Knows
<1>9. kvOf(k)' = d.val
  <2>1. Changing(k)' = {}
    BY <1>r, <1>1, <1>3, <1>6, ChangeOver
  <2>2. idx[i].key = k /\ i \in 1..Len(idx)
    BY <1>0, <1>1, LinkKey
  <2>3. ASSUME NEW q \in Procs, pc'[q] = "link", db'[q].idxoff = i PROVE FALSE
    <3>1. q # p
      BY <1>2, <2>3
    <3>2. Others(p)
      BY <1>r, Known
    <3>3. pc[q] = "link" /\ db[q].idxoff = i
      BY <2>3, <3>1, <3>2 DEF Others, Same
    <3>4. db[q].key = k
      BY <1>0, <2>2, <3>3, LinkKey
    <3>5. pc[q] \in ChainPCs
      BY <3>3 DEF ChainPCs
    <3> QED BY <1>1, <1>5, <3>1, <3>4, <3>5 DEF InvHere, Facts, Knows
  <2>4. i \in Live(k)'
    <3>1. i <= PtrMax
      BY DEF LinkChain
    <3> QED BY <1>1, <2>2, <2>3, <3>1 DEF Live
  <2>5. KvOK(k)'
    BY <1>0 DEF InvNext, Facts
  <2>6. kvOf(k)' = dat'[idx'[i].dat]
    BY <2>1, <2>4, <2>5 DEF KvOK
  <2>7. dat[idx[i].dat] = d.val
    BY <1>1 DEF InvHere, VInv
  <2> QED BY <1>1, <2>6, <2>7
\* which it already counted as for a replace,
<1>10. CASE d.found = TRUE
  <2>1. kvOf(k) = d.val
    <3>1. p \in Changing(k)
      BY <1>3, <1>6, <1>10 DEF Changing, Chg
    <3>2. KvOK(k)
      BY <1>0 DEF InvHere, Facts
    <3> QED BY <1>5, <3>1, <3>2 DEF KvOK
  <2>2. KvStay
    BY <1>0, <1>9, <2>1 DEF KvStay
  <2>3. stOf(p)' = stOf(p)
    <3>1. StAt(d, "link") = Entry("done", d, "ok")
      BY <1>6, <1>10, StChanging
    <3> QED BY <1>3, <1>7, <3>1
  <2> QED BY <1>0, <2>2, <2>3, MapStutter
\* and is where an insert takes effect.
<1>11. CASE d.found = FALSE
  <2>1. ~ChgAt(d, "link")
    BY <1>6, <1>11
  <2>2. stOf(p) = Entry("called", d, None)
    <3>1. StAt(d, "link") = Entry("called", d, None)
      BY <1>0, <1>1, <1>3, <2>1, StCalled
    <3> QED BY <1>3, <3>1
  <2>3. kvOf(k) = None
    BY <1>1, <1>3, <1>8, <2>1, ValueHere
  <2>4. d.flag # "DB_REPLACE"
    BY <1>3, <1>11 DEF CtlOK, AppendPCs
  <2>5. Res(d, kvOf(d.key)) = "ok"
    BY <1>5, <2>3, <2>4 DEF Res
  <2> QED BY <1>0, <1>5, <1>7, <1>9, <2>2, <2>5, MapCommit
<1> QED BY <1>5, <1>10, <1>11

\* A record beyond PTR_MAX is never linked: an insert has no effect, a replace has
\* deleted the old record.
LEMMA LinkTooFarMap ==
  ASSUME InvHere, InvNext, NEW p \in Procs, LinkTooFar(p)
  PROVE Map!Quit(p)
<1>r. Run(p)
  BY DEF Run, StoreWrites
<1> PICK d, k : d = db[p] /\ k = d.key
  OBVIOUS
<1>1. pc[p] = "link" /\ pc[p] \in ChainPCs /\ pc[p] \in HeadPCs
  BY DEF LinkTooFar, ChainPCs, HeadPCs
<1>0. /\ StStay(p) /\ d \in Calls /\ d.op \in CallOps /\ k \in Keys /\ TInv /\ AllInv
      /\ \A x \in Keys : x # k => kvOf(x)' = kvOf(x)
  BY <1>r, <1>1, WriteHere
<1>2. pc'[p] = "dead"
  BY <1>r, <1>1, WriteHere DEF LinkTooFar, Die
<1>3. /\ stOf(p) = StAt(d, "link") /\ stOf(p)' = [phase |-> "dead"] /\ CtlOK(d, "link")
      /\ (Chg(p) <=> ChgAt(d, "link"))
  BY <1>r, <1>1, <1>2, WriteHere DEF StAt
<1>4. ~Chg(p)'
  BY <1>2 DEF Chg, Replacing, Deleting, ReplacedPCs, DeletedPCs, DelPCs
<1>5. d.op = "store" /\ d.found \in BOOLEAN
  BY <1>0, <1>1, HasTypes DEF StorePCs, Calls
<1>6. ChgAt(d, "link") <=> d.found = TRUE
  BY <1>5 DEF ChgAt, ReplacedPCs, DeletedPCs, DelPCs
<1>7. ~LinkChain(p) /\ ~DelWriteIdx(p) /\ ~DelWriteDat(p) /\ ~Overwrite(p)
  <2>1. d.idxoff \in Nat /\ PtrMax \in Nat /\ d.idxoff > PtrMax
    BY <1>0, DbAssumption DEF LinkTooFar, Calls
  <2>2. ~(d.idxoff <= PtrMax)
    BY <2>1
  <2> QED BY <1>1, <2>2 DEF LinkChain, DelWriteIdx, DelWriteDat, Overwrite
<1>8. CASE d.found = TRUE
  <2>1. StAt(d, "link") = Entry("done", d, "ok")
    BY <1>6, <1>8, StChanging
  <2>2. stOf(p).phase = "done" /\ stOf(p).op = "store" /\ stOf(p).rc = "ok" /\ stOf(p).key = k
    BY <1>3, <1>5, <2>1 DEF Entry
  <2>3. kvOf(k)' = None
    <3>1. Changing(k)' = {}
      BY <1>r, <1>1, <1>4, ChangeOver
    <3>2. Live(k) = {}
      BY <1>1 DEF InvHere, Facts, Knows
    <3>3. ASSUME NEW i \in Live(k)' PROVE FALSE
      BY <1>r, <1>0, <1>7, <3>2, <3>3, LiveSame
    <3>4. KvOK(k)'
      BY <1>0 DEF InvNext, Facts
    <3> QED BY <3>1, <3>3, <3>4 DEF KvOK
  <2>4. \A x \in Keys : kvOf(x)' = IF x = stOf(p).key THEN None ELSE kvOf(x)
    BY <1>0, <2>2, <2>3
  <2> QED BY <1>0, <1>3, <2>2, <2>4, MapQuit
<1>9. CASE d.found = FALSE
  <2>1. ~ChgAt(d, "link")
    BY <1>6, <1>9
  <2>2. KvStay
    BY <1>r, <1>3, <1>4, <1>7, <2>1, QuietMap
  <2>3. StAt(d, "link") = Entry("called", d, None)
    BY <1>0, <1>1, <1>3, <2>1, StCalled
  <2>4. stOf(p).phase \in {"idle", "called"}
    BY <1>3, <2>3 DEF Entry
  <2> QED BY <1>0, <1>3, <2>2, <2>4, MapQuit
<1> QED BY <1>5, <1>8, <1>9

\* and the rest of an update the caller does not see.
LEMMA FollowsMap ==
  ASSUME InvHere, InvNext, NEW p \in Procs, Run(p), ~DelWriteDat(p),
         SameCall(db'[p], db[p]), Follows(pc[p], pc'[p]), Chg(p)' <=> Chg(p)
  PROVE UNCHANGED Map!mapvars
<1> PICK d, e, l, m : d = db[p] /\ e = db'[p] /\ l = pc[p] /\ m = pc'[p]
  OBVIOUS
<1>1. /\ l \in ChainPCs /\ l # "unlock" /\ m \in ChainPCs /\ m # "unlock"
      /\ l # "overwrite" /\ l # "link"
  BY DEF Follows, ChainPCs, DelPCs, FreePCs
<1>0. StStay(p) /\ d.op \in CallOps
  BY <1>1, WriteHere
<1>2. stOf(p) = StAt(d, l) /\ stOf(p)' = StAt(e, m) /\ CtlOK(d, l) /\ CtlOK(e, m)
  BY <1>1, WriteHere
<1>3. (Chg(p) <=> ChgAt(d, l)) /\ (Chg(p)' <=> ChgAt(e, m))
  BY <1>1, WriteHere
<1>4. SameArgs(e, d) /\ e.op = d.op
  BY DEF SameCall, SameArgs
<1>5. KvStay
  <2>1. ~(DelWriteDat(p) \/ Overwrite(p) \/ LinkChain(p))
    BY <1>1 DEF Overwrite, LinkChain
  <2> QED BY <1>4, <2>1, QuietMap
<1>6. stOf(p)' = stOf(p)
  <2>1. CASE ChgAt(d, l)
    <3>1. StAt(d, l) = Entry("done", d, "ok")
      BY <2>1, StChanging
    <3>2. StAt(e, m) = Entry("done", e, "ok")
      BY <1>3, <2>1, StChanging
    <3>3. Entry("done", e, "ok") = Entry("done", d, "ok")
      BY <1>4, SameEntry
    <3> QED BY <1>2, <3>1, <3>2, <3>3
  <2>2. CASE ~ChgAt(d, l)
    <3>1. StAt(d, l) = Entry("called", d, None)
      BY <1>0, <1>1, <1>2, <2>2, StCalled
    <3>2. StAt(e, m) = Entry("called", e, None)
      BY <1>0, <1>1, <1>2, <1>3, <1>4, <2>2, StCalled
    <3>3. Entry("called", e, None) = Entry("called", d, None)
      BY <1>4, SameEntry
    <3> QED BY <1>2, <3>1, <3>2, <3>3
  <2> QED BY <2>1, <2>2
<1> QED BY <1>0, <1>5, <1>6, MapStutter

\* So for all the steps of an update.
LEMMA WriteMap ==
  ASSUME InvHere, InvNext, NEW p \in Procs, DoDelete(p) \/ FindFree(p) \/ StoreWrites(p)
  PROVE MapMove(p)
<1> USE DEF MapMove
<1>r. Run(p)
  BY DEF Run
<1>0. TInv /\ CInv /\ TInv'
  BY <1>r, Known
<1>1. CASE DelWriteDat(p)
  BY <1>1, DelWriteDatMap
<1>2. CASE Overwrite(p)
  BY <1>2, OverwriteMap
<1>3. CASE LinkChain(p)
  BY <1>3, LinkChainMap
<1>4. CASE LinkTooFar(p)
  BY <1>4, LinkTooFarMap
<1>5. CASE DelUnlockFree(p) /\ db[p].op = "delete"
  BY <1>5, DelUnlockMap
<1>6. CASE /\ ~DelWriteDat(p) /\ ~Overwrite(p) /\ ~LinkChain(p) /\ ~LinkTooFar(p)
           /\ ~(DelUnlockFree(p) /\ db[p].op = "delete")
  <2>1. Chg(p)' <=> Chg(p)
    BY <1>r, <1>0, <1>6, ChgMoves
  <2>2. CASE SameCall(db'[p], db[p]) /\ Follows(pc[p], pc'[p])
    BY <1>r, <1>6, <2>1, <2>2, FollowsMap
  <2>3. CASE /\ pc[p] \in {"delunlock", "overwrite", "link"} /\ pc'[p] = "unlock"
             /\ pc[p] = "delunlock" => db[p].op = "delete"
    <3>1. pc[p] # "link"
      BY <1>r, <1>0, <1>6, LinkMoves
    <3>2. pc[p] = "delunlock" => DelUnlockFree(p)
      BY DEF DoDelete, DelLockFree, DelReadFree, DelWriteIdx, DelWriteFree, DelWriteDat,
         DelUnlink, FindFree, FreeLock, FreeRead, FreeWalk, FreeUnlink, FreeUnlock,
         StoreWrites, RereadChainPtr, Overwrite, ReuseDat, ReuseIdx, DatLock, DatSeek,
         AppendDat, TailLock, TailSeek, AppendIdx, LinkChain, LinkTooFar
    <3>3. pc[p] = "overwrite" => Overwrite(p)
      BY DEF DoDelete, DelLockFree, DelReadFree, DelWriteIdx, DelWriteFree, DelWriteDat,
         DelUnlink, DelUnlockFree, FindFree, FreeLock, FreeRead, FreeWalk, FreeUnlink, FreeUnlock,
         StoreWrites, RereadChainPtr, ReuseDat, ReuseIdx, DatLock, DatSeek,
         AppendDat, TailLock, TailSeek, AppendIdx, LinkChain, LinkTooFar
    <3> QED BY <1>6, <2>3, <3>1, <3>2, <3>3
  <2> QED BY <1>0, <1>6, <2>2, <2>3, WriteMoves
<1> QED BY <1>1, <1>2, <1>3, <1>4, <1>5, <1>6
-----------------------------------------------------------------------------
(* The theorem. *)
\* The control invariant holds without kills,
LEMMA ControlAlways ==
  ASSUME MaxKills = 0, IsFiniteSet(Procs)
  PROVE Spec => []CInv
<1>1. Init => CInv
  <2> SUFFICES ASSUME Init, NEW p \in Procs PROVE CtlOK(db[p], pc[p])
    BY DEF CInv
  <2>1. pc[p] = "idle" /\ db[p] = NoCall /\ NoCall.op = None
    BY DEF Init, NoCall
  <2> QED BY <2>1 DEF CtlOK, FoundPCs, MissPCs, ChangePCs, AppendPCs, ChainPCs, NextPCs,
         DelPCs, FreePCs
<1>2. TInv /\ CInv /\ [Next]_vars => CInv'
  <2> SUFFICES ASSUME TInv, CInv, [Next]_vars PROVE CInv'
    OBVIOUS
  <2>1. CASE UNCHANGED vars
    BY <2>1 DEF vars, CInv
  <2>2. ASSUME NEW p \in Procs, Call(p) \/ Run(p) PROVE CInv'
    BY <2>2, CtlStep
  <2> QED BY <2>1, <2>2, NoKill DEF Next
<1> QED BY <1>1, <1>2, TypeAndPointers, PTL DEF Spec

\* The invariants of DbProof and DbListProof together,
LEMMA InvAlways ==
  ASSUME MaxKills = 0, IsFiniteSet(Procs)
  PROVE Spec => []AllInv
  BY TypeAndPointers, LocksHeld, EndAlways, FitAlways, DataAlways, ListsAlways, ReadsAlways,
     PTL DEF AllInv

\* and the data of records about to be linked.
LEMMA LinkedAlways ==
  ASSUME MaxKills = 0, IsFiniteSet(Procs)
  PROVE Spec => []VInv
<1>1. Init => VInv
  BY DEF Init, VInv
<1>2. AllInv /\ VInv /\ [Next]_vars => VInv'
  <2> SUFFICES ASSUME AllInv, VInv, [Next]_vars PROVE VInv'
    OBVIOUS
  <2>0. TInv
    BY DEF AllInv
  <2>1. CASE UNCHANGED vars
    BY <2>1 DEF vars, VInv
  <2>2. ASSUME NEW p \in Procs, Call(p) \/ Run(p) PROVE VInv'
    BY <2>2, ValueStep
  <2> QED BY <2>0, <2>1, <2>2, NoKill DEF Next
<1> QED BY <1>1, <1>2, InvAlways, PTL DEF Spec

\* At first no key has a value and nobody is in a call,
LEMMA MapInit ==
  ASSUME Init, Facts
  PROVE Map!Init
<1>1. ASSUME NEW k \in Keys PROVE kvOf(k) = None
  <2>1. Changing(k) = {}
    BY DEF Init, Changing, Replacing, Deleting, ReplacedPCs, DeletedPCs, DelPCs
  <2>2. Live(k) = {}
    BY DEF Init, Live
  <2>3. KvOK(k)
    BY DEF Facts
  <2> QED BY <2>1, <2>2, <2>3 DEF KvOK
<1>2. ASSUME NEW p \in Procs PROVE stOf(p) = [phase |-> "idle"]
  <2>1. pc[p] = "idle" /\ db[p] = NoCall /\ NoCall.op = None
    BY DEF Init, NoCall
  <2> QED BY <2>1 DEF stOf
<1>3. [k \in Keys |-> kvOf(k)] = [k \in Keys |-> None]
  BY <1>1
<1>4. [p \in Procs |-> stOf(p)] = [p \in Procs |-> Map!Idle]
  BY <1>2 DEF Map!Idle
<1> QED BY <1>3, <1>4 DEF Map!Init

\* and every step is one of the map or none.
LEMMA MapStep ==
  ASSUME MaxKills = 0, IsFiniteSet(Procs), InvHere, InvNext, [Next]_vars
  PROVE [Map!Next]_(Map!mapvars)
<1>0. TInv
  BY DEF InvHere, AllInv
<1>1. CASE UNCHANGED vars
  <2>1. idx' = idx /\ dat' = dat /\ chain' = chain /\ pc' = pc /\ db' = db
    BY <1>1 DEF vars
  <2>2. ASSUME NEW k \in Keys PROVE kvOf(k)' = kvOf(k)
    BY <2>1 DEF kvOf, Changing, Replacing, Deleting, DiskValue, NextOf
  <2>3. ASSUME NEW p \in Procs PROVE stOf(p)' = stOf(p)
    BY <2>1 DEF stOf, Entry, Replacing, Deleting
  <2>4. [k \in Keys |-> kvOf(k)]' = [k \in Keys |-> kvOf(k)]
    BY <2>2
  <2>5. [p \in Procs |-> stOf(p)]' = [p \in Procs |-> stOf(p)]
    BY <2>3
  <2> QED BY <2>4, <2>5 DEF Map!mapvars
<1>2. ASSUME NEW p \in Procs, Call(p) \/ Run(p) PROVE [Map!Next]_(Map!mapvars)
  <2>1. MapMove(p)
    BY <1>2, CallMap, FindMap, WriteMap, EndMap DEF Run
  <2> QED BY <2>1 DEF MapMove, Map!Next
<1> QED BY <1>0, <1>1, <1>2, NoKill DEF Next

(* Every call on the shared files takes effect as one step on a map from keys to data, and
   returns what that map says, whatever the interleaving of the processes' file and lock
   operations. *)
THEOREM CallsActOnAMap ==
  ASSUME MaxKills = 0, IsFiniteSet(Procs)
  PROVE Spec => ImplementsMap
<1>1. Spec => []InvHere
  <2>1. AllInv => Facts
    BY FactsHold DEF AllInv
  <2> QED BY <2>1, InvAlways, ControlAlways, LinkedAlways, PTL DEF InvHere
<1>2. Init /\ InvHere => Map!Init
  BY MapInit DEF InvHere
<1>3. InvHere /\ InvHere' /\ [Next]_vars => [Map!Next]_(Map!mapvars)
  <2>1. InvHere' => InvNext
    BY DEF InvHere, InvNext, AllInv
  <2> QED BY <2>1, MapStep
<1> QED BY <1>1, <1>2, <1>3, PTL DEF Spec, ImplementsMap, Map!Spec
=============================================================================
