------------------------------ MODULE DbProof -------------------------------
(***************************************************************************)
(* Proofs about Db, for any number of processes, keys, chains and kills.   *)
(* The inductive invariant is built in layers: TInv (types and pointers),  *)
(* LInv (who holds which record lock), EInv (an append writes at the end   *)
(* of the file), FInv (a reused record fits) and DInv (data are not        *)
(* shared); each layer is proved inductive relative to the ones before it. *)
(***************************************************************************)
EXTENDS Db, TLAPS

\* Places only db_store reaches.
StorePCs == {"fflock", "overwrite", "reusedat", "reuseidx", "reread", "datlock", "datend",
             "datwrite", "taillock", "tailend", "tailwrite", "link"} \cup FreePCs

\* An index record, whatever its pointers.
IdxRec == [ptr : Nat, key : Keys \cup {Blank}, klen : Nat, dat : Nat, dlen : Nat]

\* The two files are typed and every pointer in them names a record.
FilesOK ==
  /\ idx \in Seq(IdxRec) /\ dat \in Seq(Vals \cup {Blank})
  /\ free \in 0..Len(idx)
  /\ chain \in [Chains -> 0..Len(idx)]
  /\ \A i \in 1..Len(idx) : idx[i].ptr \in 0..Len(idx) /\ idx[i].dat \in 1..Len(dat)

\* The index pointers kept in a DB structure stay within n records.
PtrsOK(d, n) ==
  /\ d.off \in 0..n /\ d.ptroff \in 0..n /\ d.head \in 0..n
  /\ d.ptrval \in 0..n /\ d.freeptr \in 0..n

\* A DB structure d at place l, over files of n index and m data records:
\* the offsets the next routine will use are in the files, and the key, data and
\* operation are the ones the place needs.
CallOK(d, l, n, m) ==
  /\ d \in Calls /\ l \in PCs
  /\ PtrsOK(d, n)
  /\ l \in DatPCs => d.datoff \in 1..m
  /\ l \in IdxPCs => d.idxoff \in 1..n
  /\ l = "datwrite" => d.datoff \in 1..(m + 1)
  /\ l = "tailwrite" => d.idxoff \in 1..(n + 1)
  /\ l \in ChainPCs \cup {"lock"} => d.key \in Keys /\ d.op \in {"fetch", "store", "delete"}
  /\ d.op = "store" => d.val \in Vals
  /\ l \in StorePCs => d.op = "store"
  /\ l \in DelPCs \cup {"dellock"} => d.op # "fetch"

\* Every process is in such a state.
ProcsOK ==
  /\ pc \in [Procs -> PCs] /\ db \in [Procs -> Calls]
  /\ \A p \in Procs : CallOK(db[p], pc[p], Len(idx), Len(dat))

\* The typing part of the inductive invariant.
TInv == FilesOK /\ ProcsOK

\* A slot of the index file holds a well-formed record (what _db_readidx reads).
LEMMA RecordAt ==
  ASSUME FilesOK, NEW i \in 1..Len(idx)
  PROVE /\ idx[i] \in IdxRec
        /\ idx[i].ptr \in 0..Len(idx) /\ idx[i].dat \in 1..Len(dat) /\ idx[i].dlen \in Nat
<1>1. idx[i] \in IdxRec
  BY DEF FilesOK
<1>2. idx[i].dlen \in Nat
  BY <1>1 DEF IdxRec
<1> QED BY <1>1, <1>2 DEF FilesOK

\* Rewriting one index record with valid pointers (_db_writeidx in place) keeps
\* the files well formed.
LEMMA IdxWrite ==
  ASSUME FilesOK, NEW i \in 1..Len(idx), NEW r \in IdxRec,
         r.ptr \in 0..Len(idx), r.dat \in 1..Len(dat),
         idx' = [idx EXCEPT ![i] = r], UNCHANGED <<dat, free, chain>>
  PROVE FilesOK' /\ Len(idx') = Len(idx) /\ Len(dat') = Len(dat)
  BY DEF FilesOK

\* _db_writeptr on the chain field of a record leaves a well-formed record.
LEMMA PtrWrite ==
  ASSUME FilesOK, NEW i \in 1..Len(idx), NEW s \in 0..Len(idx)
  PROVE LET r == [idx[i] EXCEPT !.ptr = s]
        IN r \in IdxRec /\ r.ptr \in 0..Len(idx) /\ r.dat \in 1..Len(dat)
  BY RecordAt DEF IdxRec

\* Rewriting one data record (_db_writedat in place) keeps the files well formed.
LEMMA DatWrite ==
  ASSUME FilesOK, NEW i \in 1..Len(dat), NEW v \in Vals \cup {Blank},
         dat' = [dat EXCEPT ![i] = v], UNCHANGED <<idx, free, chain>>
  PROVE FilesOK' /\ Len(idx') = Len(idx) /\ Len(dat') = Len(dat)
  BY DEF FilesOK

\* Offsets that are in the files stay in them when the files grow: no routine of
\* db.c truncates.
LEMMA CallGrows ==
  ASSUME NEW d, NEW l, NEW n \in Nat, NEW m \in Nat, NEW n2 \in Nat, NEW m2 \in Nat,
         CallOK(d, l, n, m), n <= n2, m <= m2
  PROVE CallOK(d, l, n2, m2)
  BY DEF CallOK, PtrsOK

\* A step of process p that leaves p well placed leaves every process well placed,
\* as long as the files do not shrink.
LEMMA ProcStep ==
  ASSUME FilesOK, FilesOK', ProcsOK, NEW p \in Procs, NEW d, NEW l,
         db' = [db EXCEPT ![p] = d], pc' = [pc EXCEPT ![p] = l],
         CallOK(d, l, Len(idx'), Len(dat')),
         Len(idx) <= Len(idx'), Len(dat) <= Len(dat')
  PROVE ProcsOK'
<1>1. d \in Calls /\ l \in PCs
  BY DEF CallOK
<1>2. Len(idx) \in Nat /\ Len(dat) \in Nat /\ Len(idx') \in Nat /\ Len(dat') \in Nat
  BY DEF FilesOK
<1>3. ASSUME NEW q \in Procs PROVE CallOK(db'[q], pc'[q], Len(idx'), Len(dat'))
  <2>1. CASE q = p
    BY <2>1 DEF ProcsOK
  <2>2. CASE q # p
    BY <2>2, <1>2, CallGrows DEF ProcsOK
  <2> QED BY <2>1, <2>2
<1> QED BY <1>1, <1>3 DEF ProcsOK

\* The same for a step that writes no file.
LEMMA FilesSame ==
  ASSUME TInv, NEW p \in Procs, NEW d, NEW l,
         db' = [db EXCEPT ![p] = d], pc' = [pc EXCEPT ![p] = l],
         CallOK(d, l, Len(idx), Len(dat)), UNCHANGED files
  PROVE TInv'
<1>1. FilesOK' /\ Len(idx') = Len(idx) /\ Len(dat') = Len(dat)
  BY DEF TInv, FilesOK, files
<1>2. Len(idx) \in Nat /\ Len(dat) \in Nat
  BY DEF TInv, FilesOK
<1>3. ProcsOK'
  <2>1. CallOK(d, l, Len(idx'), Len(dat'))
    BY <1>1
  <2>2. Len(idx) <= Len(idx') /\ Len(dat) <= Len(dat')
    BY <1>1, <1>2
  <2> QED BY <1>1, <2>1, <2>2, ProcStep DEF TInv
<1> QED BY <1>1, <1>3 DEF TInv

\* Setting the result of the call keeps the DB structure well placed.
LEMMA SetRc ==
  ASSUME NEW n \in Nat, NEW m \in Nat, NEW d, NEW l, CallOK(d, l, n, m),
         NEW r \in Vals \cup {Blank, None, "ok", "exists", "notfound", "eof", "EINVAL"}
  PROVE CallOK([d EXCEPT !.rc = r], l, n, m)
  BY DEF CallOK, PtrsOK, Calls

\* So does remembering that _db_find_and_lock found the key,
LEMMA SetFound ==
  ASSUME NEW n \in Nat, NEW m \in Nat, NEW d, NEW l, CallOK(d, l, n, m)
  PROVE CallOK([d EXCEPT !.found = TRUE], l, n, m)
<1> DEFINE e == [d EXCEPT !.found = TRUE]
<1>0. d \in Calls /\ PtrsOK(d, n)
  BY DEF CallOK
<1>1. e \in Calls
  BY <1>0 DEF Calls
<1>2. PtrsOK(e, n)
  BY <1>0 DEF PtrsOK, Calls
<1>3. /\ e.datoff = d.datoff /\ e.idxoff = d.idxoff
      /\ e.op = d.op /\ e.key = d.key /\ e.val = d.val
  BY <1>0 DEF Calls
<1> HIDE DEF e
<1>4. CallOK(e, l, n, m)
  BY <1>1, <1>2, <1>3 DEF CallOK
<1> QED BY <1>4 DEF e

\* rereading the head of the chain in db_store,
LEMMA SetHead ==
  ASSUME NEW n \in Nat, NEW m \in Nat, NEW d, NEW l, CallOK(d, l, n, m), NEW x \in 0..n
  PROVE CallOK([d EXCEPT !.head = x], l, n, m)
  BY DEF CallOK, PtrsOK, Calls

\* reading the free-list pointer in _db_dodelete,
LEMMA SetFreeptr ==
  ASSUME NEW n \in Nat, NEW m \in Nat, NEW d, NEW l, CallOK(d, l, n, m), NEW x \in 0..n
  PROVE CallOK([d EXCEPT !.freeptr = x], l, n, m)
  BY DEF CallOK, PtrsOK, Calls

\* copying the key in db_nextrec,
LEMMA SetKey ==
  ASSUME NEW n \in Nat, NEW m \in Nat, NEW d, NEW l, CallOK(d, l, n, m), NEW k \in Keys
  PROVE CallOK([d EXCEPT !.key = k], l, n, m)
  BY DEF CallOK, PtrsOK, Calls

\* and moving along a list (offset and ptroff of the search loops).
LEMMA SetOff ==
  ASSUME NEW n \in Nat, NEW m \in Nat, NEW d, NEW l, CallOK(d, l, n, m),
         NEW x \in 0..n, NEW y \in 0..n
  PROVE CallOK([d EXCEPT !.off = x, !.ptroff = y], l, n, m)
<1> DEFINE e == [d EXCEPT !.off = x, !.ptroff = y]
<1>0. d \in Calls /\ PtrsOK(d, n) /\ x \in Nat /\ y \in Nat
  BY DEF CallOK
<1>1. e \in Calls
  BY <1>0 DEF Calls
<1>2. PtrsOK(e, n)
  BY <1>0 DEF PtrsOK, Calls
<1>3. /\ e.datoff = d.datoff /\ e.idxoff = d.idxoff
      /\ e.op = d.op /\ e.key = d.key /\ e.val = d.val
  BY <1>0 DEF Calls
<1> HIDE DEF e
<1>4. CallOK(e, l, n, m)
  BY <1>1, <1>2, <1>3 DEF CallOK
<1> QED BY <1>4 DEF e

\* _db_readidx leaves offsets that are in the files.
LEMMA ReadRecord ==
  ASSUME FilesOK, NEW d, NEW l, NEW i \in 1..Len(idx), CallOK(d, l, Len(idx), Len(dat))
  PROVE /\ CallOK(ReadIdx(d, i), l, Len(idx), Len(dat))
        /\ ReadIdx(d, i).datoff = idx[i].dat
        /\ ReadIdx(d, i).idxoff = i
        /\ ReadIdx(d, i).ptrval = idx[i].ptr
<1>1. Len(idx) \in Nat /\ Len(dat) \in Nat
  BY DEF FilesOK
<1>2. /\ idx[i].ptr \in 0..Len(idx) /\ idx[i].dat \in 1..Len(dat) /\ idx[i].dlen \in Nat
  BY RecordAt
<1> DEFINE n == Len(idx)
           m == Len(dat)
           x == idx[i].dat
           y == idx[i].dlen
           t == idx[i].ptr
           e == [d EXCEPT !.idxoff = i, !.datoff = x, !.datlen = y, !.ptrval = t]
<1>3. /\ n \in Nat /\ m \in Nat /\ i \in 1..n /\ x \in 1..m /\ y \in Nat /\ t \in 0..n
      /\ CallOK(d, l, n, m)
  BY <1>1, <1>2
<1>4. ReadIdx(d, i) = e
  BY DEF ReadIdx
<1> HIDE DEF n, m, x, y, t
<1>5. d \in Calls /\ PtrsOK(d, n) /\ i \in Nat /\ x \in Nat /\ t \in Nat
  BY <1>3 DEF CallOK
<1>6. e \in Calls
  BY <1>3, <1>5 DEF Calls
<1>7. PtrsOK(e, n)
  BY <1>3, <1>5 DEF PtrsOK, Calls
<1>8. /\ e.datoff = x /\ e.idxoff = i /\ e.ptrval = t
      /\ e.op = d.op /\ e.key = d.key /\ e.val = d.val
  BY <1>5 DEF Calls
<1> HIDE DEF e
<1>9. CallOK(e, l, n, m)
  BY <1>3, <1>6, <1>7, <1>8 DEF CallOK
<1> QED BY <1>4, <1>8, <1>9 DEF n, m, x, y, t

\* The invariant, instantiated at one process.
LEMMA CallNow ==
  ASSUME TInv, NEW p \in Procs
  PROVE /\ CallOK(db[p], pc[p], Len(idx), Len(dat))
        /\ db[p] \in Calls /\ pc[p] \in PCs
        /\ db = [db EXCEPT ![p] = db[p]] /\ pc = [pc EXCEPT ![p] = pc[p]]
  BY DEF TInv, ProcsOK

USE DbAssumption DEF At, Jump, PCs, ChainPCs, DelPCs, FreePCs, NextPCs, StorePCs, DatPCs, IdxPCs,
  OpNames, AllFlags, Resources, files


\* _db_find_and_lock, the read of db_fetch and the final unlock preserve TInv.
LEMMA FindStep ==
  ASSUME TInv, NEW p \in Procs, Find(p)
  PROVE TInv'
<1> DEFINE Ok(d, l) == CallOK(d, l, Len(idx), Len(dat))
<1>0. Ok(db[p], pc[p]) /\ FilesOK /\ Len(idx) \in Nat /\ Len(dat) \in Nat
  BY CallNow DEF TInv, FilesOK
<1>1. CASE LockChain(p)
  <2>1. Ok(db[p], "readptr")
    BY <1>0, <1>1 DEF LockChain, CallOK
  <2> QED BY <1>1, <2>1, CallNow, FilesSame DEF LockChain
<1>2. CASE ReadChainPtr(p)
  <2>1. chain[ChainOf(p)] \in 0..Len(idx) /\ 0 \in 0..Len(idx)
    BY <1>0, <1>2 DEF ReadChainPtr, CallOK, FilesOK, ChainOf
  <2>2. Ok(db[p], "walk")
    BY <1>0, <1>2 DEF ReadChainPtr, CallOK
  <2>3. Ok([db[p] EXCEPT !.off = chain[ChainOf(p)], !.ptroff = 0], "walk")
    BY <1>0, <2>1, <2>2, SetOff
  <2> QED BY <1>2, <2>3, FilesSame DEF ReadChainPtr
<1>3. CASE WalkChain(p)
  <2> DEFINE i == db[p].off
             d == ReadIdx(db[p], i)
  <2>1. i \in 1..Len(idx) /\ i \in 0..Len(idx) /\ Ok(db[p], "walk")
    BY <1>0, <1>3 DEF WalkChain, CallOK, PtrsOK, FilesOK
  <2>2. Ok(d, "walk") /\ d.datoff \in 1..Len(dat) /\ d.idxoff \in 1..Len(idx)
        /\ d.ptrval \in 0..Len(idx)
    <3> HIDE DEF i
    <3> DEFINE e == db[p]
    <3>1. CallOK(e, "walk", Len(idx), Len(dat))
      BY <2>1
    <3> HIDE DEF e
    <3>2. /\ CallOK(ReadIdx(e, i), "walk", Len(idx), Len(dat))
          /\ ReadIdx(e, i).datoff = idx[i].dat
          /\ ReadIdx(e, i).idxoff = i /\ ReadIdx(e, i).ptrval = idx[i].ptr
      <4> HIDE DEF Ok
      <4>1. FilesOK /\ i \in 1..Len(idx)
        BY <1>0, <2>1
      <4> QED BY SMTT(60), <3>1, <4>1, ReadRecord
    <3> QED BY <1>0, <2>1, <3>2, RecordAt DEF e
  <2> HIDE DEF d, i
  <2>3. Ok(d, "found")
    BY <2>2 DEF CallOK
  <2>4. Ok([d EXCEPT !.found = TRUE], "found")
    BY <1>0, <2>3, SetFound
  <2>5. Ok([d EXCEPT !.off = d.ptrval, !.ptroff = i], "walk")
    BY <1>0, <2>1, <2>2, SetOff
  <2> QED BY <1>3, <2>4, <2>5, FilesSame DEF WalkChain, d, i
<1>4. CASE NotFound(p)
  <2>1. chain[ChainOf(p)] \in 0..Len(idx)
    BY <1>0, <1>4 DEF NotFound, CallOK, FilesOK, ChainOf
  <2>2. Ok(db[p], "unlock") /\ (db[p].op = "store" => Ok(db[p], "fflock"))
    BY <1>0, <1>4 DEF NotFound, CallOK
  <2>3. Ok([db[p] EXCEPT !.rc = "notfound"], "unlock")
    BY <1>0, <2>2, SetRc
  <2>4. db[p].op = "store" => Ok([db[p] EXCEPT !.head = chain[ChainOf(p)]], "fflock")
    BY <1>0, <2>1, <2>2, SetHead
  <2> QED BY <1>4, <2>3, <2>4, FilesSame DEF NotFound
<1>5. CASE Found(p)
  <2>1. /\ Ok(db[p], "readdat") /\ Ok(db[p], "unlock")
        /\ db[p].op # "fetch" => Ok(db[p], "dellock")
        /\ db[p].op = "store" => Ok(db[p], "overwrite")
        /\ db[p].op \in {"fetch", "store", "delete"}
    BY <1>0, <1>5 DEF Found, CallOK
  <2>2. Ok([db[p] EXCEPT !.rc = "exists"], "unlock")
    BY <1>0, <2>1, SetRc
  <2>3. CASE db[p].op = "fetch"
    BY <1>5, <2>1, <2>3, CallNow, FilesSame DEF Found
  <2>4. CASE db[p].op = "delete"
    BY <1>5, <2>1, <2>4, CallNow, FilesSame DEF Found
  <2>5. CASE db[p].op = "store" /\ db[p].flag = "DB_INSERT"
    BY <1>5, <2>2, <2>5, CallNow, FilesSame DEF Found
  <2>6. CASE db[p].op = "store" /\ db[p].flag # "DB_INSERT"
    BY <1>5, <2>1, <2>6, CallNow, FilesSame DEF Found
  <2> QED BY <2>1, <2>3, <2>4, <2>5, <2>6
<1>6. CASE FetchData(p)
  <2>1. dat[db[p].datoff] \in Vals \cup {Blank}
    BY <1>0, <1>6 DEF FetchData, CallOK, FilesOK
  <2>2. Ok([db[p] EXCEPT !.rc = dat[db[p].datoff]], "unlock")
    BY ZenonT(90), <1>0, <1>6, <2>1 DEF FetchData, CallOK, PtrsOK, Calls
  <2> QED BY <1>6, <2>2, FilesSame DEF FetchData
<1>7. CASE UnlockChain(p)
  <2>1. Ok(db[p], "return")
    BY <1>0, <1>7 DEF UnlockChain, CallOK
  <2> QED BY <1>7, <2>1, CallNow, FilesSame DEF UnlockChain
<1> QED BY <1>1, <1>2, <1>3, <1>4, <1>5, <1>6, <1>7 DEF Find

\* A step that rewrites records in place preserves TInv once its files do.
LEMMA FilesStep ==
  ASSUME TInv, FilesOK', NEW p \in Procs, NEW d, NEW l,
         db' = [db EXCEPT ![p] = d], pc' = [pc EXCEPT ![p] = l],
         CallOK(d, l, Len(idx), Len(dat)), Len(idx') = Len(idx), Len(dat') = Len(dat)
  PROVE TInv'
<1>1. Len(idx) \in Nat /\ Len(dat) \in Nat
  BY DEF TInv, FilesOK
<1>2. CallOK(d, l, Len(idx'), Len(dat')) /\ Len(idx) <= Len(idx') /\ Len(dat) <= Len(dat')
  BY <1>1
<1> QED BY <1>2, ProcStep DEF TInv

\* _db_dodelete preserves TInv.
LEMMA DeleteStep ==
  ASSUME TInv, NEW p \in Procs, DoDelete(p)
  PROVE TInv'
<1> DEFINE Ok(d, l) == CallOK(d, l, Len(idx), Len(dat))
<1>0. Ok(db[p], pc[p]) /\ FilesOK /\ Len(idx) \in Nat /\ Len(dat) \in Nat
  BY CallNow DEF TInv, FilesOK
<1>1. CASE DelLockFree(p)
  <2>1. Ok(db[p], "delwdat")
    BY <1>0, <1>1 DEF DelLockFree, CallOK
  <2> QED BY <1>1, <2>1, CallNow, FilesSame DEF DelLockFree
<1>2. CASE DelWriteDat(p)
  <2>1. Ok(db[p], "delrfree") /\ db[p].datoff \in 1..Len(dat)
    BY <1>0, <1>2 DEF DelWriteDat, CallOK
  <2>2. FilesOK' /\ Len(idx') = Len(idx) /\ Len(dat') = Len(dat)
    BY <1>0, <1>2, <2>1, DatWrite DEF DelWriteDat
  <2> QED BY <1>2, <2>1, <2>2, CallNow, FilesStep DEF DelWriteDat
<1>3. CASE DelReadFree(p)
  <2>1. Ok(db[p], "delwidx") /\ free \in 0..Len(idx)
    BY <1>0, <1>3 DEF DelReadFree, CallOK, FilesOK
  <2>2. Ok([db[p] EXCEPT !.freeptr = free], "delwidx")
    BY <1>0, <2>1, SetFreeptr
  <2> QED BY <1>3, <2>2, FilesSame DEF DelReadFree
<1>4. CASE DelWriteIdx(p)
  <2> DEFINE i == db[p].idxoff
             r == [idx[i] EXCEPT !.key = Blank, !.ptr = db[p].freeptr]
  <2>1. Ok(db[p], "delwfree") /\ i \in 1..Len(idx) /\ db[p].freeptr \in 0..Len(idx)
    BY <1>0, <1>4 DEF DelWriteIdx, CallOK, PtrsOK
  <2>2. /\ idx[i] \in IdxRec /\ idx[i].dat \in 1..Len(dat)
    BY <1>0, <2>1, RecordAt
  <2>3. /\ r \in IdxRec /\ r.ptr \in 0..Len(idx) /\ r.dat \in 1..Len(dat)
    <3> DEFINE a == idx[i]
               s == db[p].freeptr
    <3>1. a \in IdxRec /\ s \in Nat
      BY <1>0, <2>1, <2>2
    <3> HIDE DEF a, s
    <3>2. LET t == [a EXCEPT !.key = Blank, !.ptr = s]
          IN t \in IdxRec /\ t.ptr = s /\ t.dat = a.dat
      BY <3>1 DEF IdxRec
    <3> QED BY <2>1, <2>2, <3>2 DEF a, s
  <2>4. idx' = [idx EXCEPT ![i] = r]
    BY <1>4 DEF DelWriteIdx
  <2> HIDE DEF r
  <2>5. FilesOK' /\ Len(idx') = Len(idx) /\ Len(dat') = Len(dat)
    BY <1>0, <1>4, <2>1, <2>3, <2>4, IdxWrite DEF DelWriteIdx
  <2> QED BY <1>4, <2>1, <2>5, CallNow, FilesStep DEF DelWriteIdx
<1>5. CASE DelWriteFree(p)
  <2>1. Ok(db[p], "delunlink") /\ db[p].idxoff \in 0..Len(idx)
    BY <1>0, <1>5 DEF DelWriteFree, CallOK, PtrsOK
  <2>2. FilesOK' /\ Len(idx') = Len(idx) /\ Len(dat') = Len(dat)
    BY <1>0, <1>5, <2>1 DEF DelWriteFree, FilesOK
  <2> QED BY <1>5, <2>1, <2>2, CallNow, FilesStep DEF DelWriteFree
<1>6. CASE DelUnlink(p)
  <2>1. /\ Ok(db[p], "delunlock") /\ db[p].ptroff \in 0..Len(idx)
        /\ db[p].ptrval \in 0..Len(idx)
    BY <1>0, <1>6 DEF DelUnlink, CallOK, PtrsOK
  <2>2. FilesOK' /\ Len(idx') = Len(idx) /\ Len(dat') = Len(dat)
    <3>1. CASE db[p].ptroff = 0
      BY <1>0, <1>6, <2>1, <3>1 DEF DelUnlink, FilesOK
    <3>2. CASE db[p].ptroff # 0
      <4>1. db[p].ptroff \in 1..Len(idx)
        BY <1>0, <2>1, <3>2
      <4> QED BY <1>0, <1>6, <2>1, <3>2, <4>1, PtrWrite, IdxWrite DEF DelUnlink
    <3> QED BY <3>1, <3>2
  <2> QED BY <1>6, <2>1, <2>2, CallNow, FilesStep DEF DelUnlink
<1>7. CASE DelUnlockFree(p)
  <2>1. Ok(db[p], "unlock") /\ (db[p].op # "delete" => Ok(db[p], "reread"))
    BY <1>0, <1>7 DEF DelUnlockFree, CallOK
  <2>2. Ok([db[p] EXCEPT !.rc = "ok"], "unlock")
    BY <1>0, <2>1, SetRc
  <2> QED BY <1>7, <2>1, <2>2, CallNow, FilesSame DEF DelUnlockFree
<1> QED BY <1>1, <1>2, <1>3, <1>4, <1>5, <1>6, <1>7 DEF DoDelete

\* _db_findfree preserves TInv.
LEMMA FindFreeStep ==
  ASSUME TInv, NEW p \in Procs, FindFree(p)
  PROVE TInv'
<1> DEFINE Ok(d, l) == CallOK(d, l, Len(idx), Len(dat))
<1>0. Ok(db[p], pc[p]) /\ FilesOK /\ Len(idx) \in Nat /\ Len(dat) \in Nat
  BY CallNow DEF TInv, FilesOK
<1>1. CASE FreeLock(p)
  <2>1. Ok(db[p], "ffread")
    BY <1>0, <1>1 DEF FreeLock, CallOK
  <2> QED BY <1>1, <2>1, CallNow, FilesSame DEF FreeLock
<1>2. CASE FreeRead(p)
  <2>1. Ok(db[p], "ffwalk") /\ free \in 0..Len(idx) /\ 0 \in 0..Len(idx)
    BY <1>0, <1>2 DEF FreeRead, CallOK, FilesOK
  <2>2. Ok([db[p] EXCEPT !.off = free, !.ptroff = 0], "ffwalk")
    BY <1>0, <2>1, SetOff
  <2> QED BY <1>2, <2>2, FilesSame DEF FreeRead
<1>3. CASE FreeWalk(p)
  <2> DEFINE i == db[p].off
             d == ReadIdx(db[p], i)
  <2>1. i \in 1..Len(idx) /\ i \in 0..Len(idx) /\ Ok(db[p], "ffwalk")
    BY <1>0, <1>3 DEF FreeWalk, CallOK, PtrsOK, FilesOK
  <2>2. Ok(d, "ffwalk") /\ d.datoff \in 1..Len(dat) /\ d.idxoff \in 1..Len(idx)
        /\ d.ptrval \in 0..Len(idx)
    <3> HIDE DEF i
    <3> DEFINE e == db[p]
    <3>1. CallOK(e, "ffwalk", Len(idx), Len(dat))
      BY <2>1
    <3> HIDE DEF e
    <3>2. /\ Ok(ReadIdx(e, i), "ffwalk") /\ ReadIdx(e, i).datoff = idx[i].dat
          /\ ReadIdx(e, i).idxoff = i /\ ReadIdx(e, i).ptrval = idx[i].ptr
      BY SMTT(60), <1>0, <2>1, <3>1, ReadRecord
    <3> QED BY <1>0, <2>1, <3>2, RecordAt DEF e
  <2> HIDE DEF d, i
  <2>3. Ok(d, "ffunlink")
    BY <2>2 DEF CallOK
  <2>4. Ok([d EXCEPT !.off = d.ptrval, !.ptroff = i], "ffwalk")
    BY <1>0, <2>1, <2>2, SetOff
  <2> QED BY <1>3, <2>3, <2>4, FilesSame DEF FreeWalk, d, i
<1>4. CASE FreeUnlink(p)
  <2>1. /\ Ok(db[p], "ffunlock") /\ db[p].ptroff \in 0..Len(idx)
        /\ db[p].ptrval \in 0..Len(idx)
    BY <1>0, <1>4 DEF FreeUnlink, CallOK, PtrsOK
  <2>2. FilesOK' /\ Len(idx') = Len(idx) /\ Len(dat') = Len(dat)
    <3>1. CASE db[p].ptroff = 0
      BY <1>0, <1>4, <2>1, <3>1 DEF FreeUnlink, FilesOK
    <3>2. CASE db[p].ptroff # 0
      <4>1. db[p].ptroff \in 1..Len(idx)
        BY <1>0, <2>1, <3>2
      <4> QED BY <1>0, <1>4, <2>1, <3>2, <4>1, PtrWrite, IdxWrite DEF FreeUnlink
    <3> QED BY <3>1, <3>2
  <2> QED BY <1>4, <2>1, <2>2, CallNow, FilesStep DEF FreeUnlink
<1>5. CASE FreeUnlock(p)
  <2>1. /\ pc[p] = "ffunlock" => Ok(db[p], "reusedat")
        /\ pc[p] = "ffwalk" => Ok(db[p], "datlock")
    BY <1>0 DEF CallOK
  <2> QED BY <1>5, <2>1, CallNow, FilesSame DEF FreeUnlock
<1> QED BY <1>1, <1>2, <1>3, <1>4, <1>5 DEF FindFree

\* The DB structure between calls is well placed.
LEMMA NoCallOK ==
  ASSUME NEW n \in Nat, NEW m \in Nat, NEW l \in {"idle", "dead"}
  PROVE CallOK(NoCall, l, n, m)
<1>1. NoCall \in Calls
  BY DEF NoCall, Calls
<1>2. PtrsOK(NoCall, n)
  BY DEF NoCall, PtrsOK
<1>3. NoCall.op = None
  BY DEF NoCall
<1>4. NoCall.op # "store"
  BY <1>3
<1> QED BY <1>1, <1>2, <1>4 DEF CallOK

\* err_dump, err_quit and kills preserve TInv.
LEMMA DieStep ==
  ASSUME TInv, NEW p \in Procs, Die(p)
  PROVE TInv'
<1>1. Len(idx) \in Nat /\ Len(dat) \in Nat
  BY DEF TInv, FilesOK
<1>2. CallOK(NoCall, "dead", Len(idx), Len(dat))
  BY <1>1, NoCallOK
<1> QED BY <1>2, FilesSame DEF Die

\* The index record db_store is about to write is well formed.
LEMMA NewRecord ==
  ASSUME TInv, NEW p \in Procs, pc[p] \in {"reuseidx", "tailwrite"}
  PROVE /\ NewIdx(p) \in IdxRec
        /\ NewIdx(p).ptr \in 0..Len(idx) /\ NewIdx(p).dat \in 1..Len(dat)
<1>0. CallOK(db[p], pc[p], Len(idx), Len(dat)) /\ Len(idx) \in Nat /\ Len(dat) \in Nat
  BY CallNow DEF TInv, FilesOK
<1>1. /\ db[p].head \in 0..Len(idx) /\ db[p].datoff \in 1..Len(dat)
      /\ db[p].key \in Keys /\ db[p].val \in Vals
  BY <1>0 DEF CallOK, PtrsOK
<1>2. db[p].head \in Nat /\ db[p].datoff \in Nat /\ KeyLen[db[p].key] \in Nat
      /\ DatLen[db[p].val] \in Nat
  BY <1>0, <1>1
<1> QED BY <1>1, <1>2 DEF NewIdx, IdxRec

\* The writes of db_store preserve TInv.
LEMMA StoreStep ==
  ASSUME TInv, NEW p \in Procs, StoreWrites(p)
  PROVE TInv'
<1> DEFINE Ok(d, l) == CallOK(d, l, Len(idx), Len(dat))
<1>0. Ok(db[p], pc[p]) /\ FilesOK /\ Len(idx) \in Nat /\ Len(dat) \in Nat
  BY CallNow DEF TInv, FilesOK
<1>1. CASE RereadChainPtr(p)
  <2>1. Ok(db[p], "datlock") /\ chain[ChainOf(p)] \in 0..Len(idx)
    BY <1>0, <1>1 DEF RereadChainPtr, CallOK, FilesOK, ChainOf
  <2>2. Ok([db[p] EXCEPT !.head = chain[ChainOf(p)]], "datlock")
    BY <1>0, <2>1, SetHead
  <2> QED BY <1>1, <2>2, FilesSame DEF RereadChainPtr
<1>2. CASE Overwrite(p)
  <2>1. Ok(db[p], "unlock") /\ db[p].datoff \in 1..Len(dat) /\ db[p].val \in Vals
    BY <1>0, <1>2 DEF Overwrite, CallOK
  <2>2. FilesOK' /\ Len(idx') = Len(idx) /\ Len(dat') = Len(dat)
    BY <1>0, <1>2, <2>1, DatWrite DEF Overwrite
  <2>3. Ok([db[p] EXCEPT !.rc = "ok"], "unlock")
    BY <1>0, <2>1, SetRc
  <2> QED BY <1>2, <2>2, <2>3, FilesStep DEF Overwrite
<1>3. CASE ReuseDat(p)
  <2>1. Ok(db[p], "reuseidx") /\ db[p].datoff \in 1..Len(dat) /\ db[p].val \in Vals
    BY <1>0, <1>3 DEF ReuseDat, CallOK
  <2>2. FilesOK' /\ Len(idx') = Len(idx) /\ Len(dat') = Len(dat)
    BY <1>0, <1>3, <2>1, DatWrite DEF ReuseDat
  <2> QED BY <1>3, <2>1, <2>2, CallNow, FilesStep DEF ReuseDat
<1>4. CASE ReuseIdx(p)
  <2>1. Ok(db[p], "link") /\ db[p].idxoff \in 1..Len(idx)
    BY <1>0, <1>4 DEF ReuseIdx, CallOK
  <2>2. FilesOK' /\ Len(idx') = Len(idx) /\ Len(dat') = Len(dat)
    BY <1>0, <1>4, <2>1, NewRecord, IdxWrite DEF ReuseIdx
  <2> QED BY <1>4, <2>1, <2>2, CallNow, FilesStep DEF ReuseIdx
<1>5. CASE DatLock(p)
  <2>1. Ok(db[p], "datend")
    BY <1>0, <1>5 DEF DatLock, CallOK
  <2> QED BY <1>5, <2>1, CallNow, FilesSame DEF DatLock
<1>6. CASE DatSeek(p)
  <2> DEFINE m == Len(dat)
             x == m + 1
             d == db[p]
             y == DatLen[d.val]
             e == [d EXCEPT !.datoff = x, !.datlen = y]
  <2>1. Ok(d, "datend") /\ y \in Nat
    BY <1>0, <1>6 DEF DatSeek, CallOK
  <2>2. /\ db' = [db EXCEPT ![p] = e] /\ pc' = [pc EXCEPT ![p] = "datwrite"]
        /\ UNCHANGED files
    BY <1>6 DEF DatSeek
  <2>3. x \in 1..x /\ x \in Nat
    BY <1>0
  <2>4. /\ d \in Calls /\ PtrsOK(d, Len(idx)) /\ d.key \in Keys /\ d.op = "store"
        /\ d.val \in Vals
    BY <2>1 DEF CallOK
  <2>5. CallOK(e, "datwrite", Len(idx), m)
    <3> HIDE DEF x, y, d
    <3>1. e \in Calls /\ e.datoff = x /\ e.key = d.key /\ e.op = d.op /\ e.val = d.val
      BY <2>1, <2>3, <2>4 DEF Calls
    <3>2. PtrsOK(e, Len(idx))
      BY <2>4 DEF PtrsOK, Calls
    <3> HIDE DEF e
    <3> QED BY <2>3, <2>4, <3>1, <3>2 DEF CallOK, x
  <2> HIDE DEF e
  <2> QED BY <2>2, <2>5, FilesSame
<1>7. CASE AppendDat(p)
  <2> DEFINE v == db[p].val
             m == Len(dat)
             x == db[p].datoff
  <2>1. Ok(db[p], "datwrite") /\ v \in Vals /\ x \in 1..(m + 1)
    BY <1>0, <1>7 DEF AppendDat, CallOK
  <2>2. FilesOK' /\ Len(idx') = Len(idx) /\ Len(dat') \in {m, m + 1} /\ x \in 1..Len(dat')
    <3>1. CASE x = m + 1
      BY <1>0, <1>7, <2>1, <3>1 DEF AppendDat, WriteAt, FilesOK
    <3>2. CASE x # m + 1
      <4>1. x \in 1..m
        BY <1>0, <2>1, <3>2
      <4> QED BY <1>0, <1>7, <2>1, <3>2, <4>1, DatWrite DEF AppendDat, WriteAt
    <3> QED BY <3>1, <3>2
  <2>3. Len(idx) <= Len(idx') /\ m <= Len(dat') /\ Len(idx') \in Nat /\ Len(dat') \in Nat
    BY <1>0, <2>2
  <2>4. CallOK(db[p], "datwrite", Len(idx'), Len(dat'))
    BY <1>0, <2>1, <2>3, CallGrows
  <2>5. CallOK(db[p], "taillock", Len(idx'), Len(dat'))
    BY <2>2, <2>4 DEF CallOK
  <2> QED BY <1>7, <2>2, <2>3, <2>5, CallNow, ProcStep DEF TInv, AppendDat
<1>8. CASE TailLock(p)
  <2>1. Ok(db[p], "tailend")
    BY <1>0, <1>8 DEF TailLock, CallOK
  <2> QED BY <1>8, <2>1, CallNow, FilesSame DEF TailLock
<1>11. CASE TailSeek(p)
  <2> DEFINE n == Len(idx)
             x == n + 1
             d == db[p]
             e == [d EXCEPT !.idxoff = x]
  <2>1. Ok(d, "tailend") /\ x \in 1..x /\ x \in Nat
    BY <1>0, <1>11 DEF TailSeek
  <2>2. db' = [db EXCEPT ![p] = e] /\ pc' = [pc EXCEPT ![p] = "tailwrite"]
    BY <1>11 DEF TailSeek
  <2>3. /\ d \in Calls /\ PtrsOK(d, n) /\ d.key \in Keys /\ d.op = "store"
        /\ d.val \in Vals /\ d.datoff \in 1..Len(dat)
    BY <2>1 DEF CallOK
  <2>4. CallOK(e, "tailwrite", n, Len(dat))
    <3> HIDE DEF x, d
    <3>1. /\ e \in Calls /\ e.idxoff = x /\ e.key = d.key /\ e.op = d.op /\ e.val = d.val
          /\ e.datoff = d.datoff
      BY <2>1, <2>3 DEF Calls
    <3>2. PtrsOK(e, n)
      BY <2>3 DEF PtrsOK, Calls
    <3> HIDE DEF e
    <3> QED BY <2>1, <2>3, <3>1, <3>2 DEF CallOK, x
  <2> HIDE DEF e
  <2> QED BY ZenonT(90), <1>11, <2>2, <2>4, FilesSame DEF TailSeek
<1>12. CASE AppendIdx(p)
  <2> DEFINE n == Len(idx)
             x == db[p].idxoff
             r == NewIdx(p)
  <2>1. /\ Ok(db[p], "tailwrite") /\ x \in 1..(n + 1)
        /\ r \in IdxRec /\ r.ptr \in 0..n /\ r.dat \in 1..Len(dat)
    BY <1>0, <1>12, NewRecord DEF AppendIdx, CallOK
  <2>2. FilesOK' /\ Len(dat') = Len(dat) /\ Len(idx') \in {n, n + 1} /\ x \in 1..Len(idx')
    <3>1. /\ UNCHANGED <<dat, free, chain>>
          /\ idx' = IF x = n + 1 THEN Append(idx, r) ELSE [idx EXCEPT ![x] = r]
      BY <1>12 DEF AppendIdx, WriteAt
    <3> HIDE DEF r
    <3>2. CASE x = n + 1
      BY <1>0, <2>1, <3>1, <3>2 DEF FilesOK
    <3>3. CASE x # n + 1
      <4>1. x \in 1..n
        BY <1>0, <2>1, <3>3
      <4> QED BY <1>0, <2>1, <3>1, <3>3, <4>1, IdxWrite
    <3> QED BY <3>2, <3>3
  <2>3. n <= Len(idx') /\ Len(dat) <= Len(dat') /\ Len(idx') \in Nat /\ Len(dat') \in Nat
    BY <1>0, <2>2
  <2>4. CallOK(db[p], "tailwrite", Len(idx'), Len(dat'))
    BY <1>0, <2>1, <2>3, CallGrows
  <2>5. CallOK(db[p], "link", Len(idx'), Len(dat'))
    BY <2>2, <2>4 DEF CallOK
  <2> QED BY <1>12, <2>2, <2>3, <2>5, CallNow, ProcStep DEF TInv, AppendIdx
<1>9. CASE LinkChain(p)
  <2>1. Ok(db[p], "unlock") /\ db[p].idxoff \in 0..Len(idx)
    BY <1>0, <1>9 DEF LinkChain, CallOK, PtrsOK
  <2>2. FilesOK' /\ Len(idx') = Len(idx) /\ Len(dat') = Len(dat)
    BY <1>0, <1>9, <2>1 DEF LinkChain, FilesOK
  <2>3. Ok([db[p] EXCEPT !.rc = "ok"], "unlock")
    BY <1>0, <2>1, SetRc
  <2> QED BY <1>9, <2>2, <2>3, FilesStep DEF LinkChain
<1>10. CASE LinkTooFar(p)
  BY <1>10, DieStep DEF LinkTooFar
<1> QED BY <1>1, <1>2, <1>3, <1>4, <1>5, <1>6, <1>7, <1>8, <1>9, <1>10, <1>11, <1>12
        DEF StoreWrites

\* db_nextrec preserves TInv.
LEMMA NextrecStep ==
  ASSUME TInv, NEW p \in Procs, Nextrec(p)
  PROVE TInv'
<1> DEFINE Ok(d, l) == CallOK(d, l, Len(idx), Len(dat))
<1>0. Ok(db[p], pc[p]) /\ FilesOK /\ Len(idx) \in Nat /\ Len(dat) \in Nat
  BY CallNow DEF TInv, FilesOK
<1>1. CASE NextLock(p)
  <2>1. Ok(db[p], "nread")
    BY <1>0, <1>1 DEF NextLock, CallOK
  <2> QED BY <1>1, <2>1, CallNow, FilesSame DEF NextLock
<1>2. CASE NextRead(p)
  <2> DEFINE i == pos[p]
             d == db[p]
             e == ReadIdx(d, i)
             k == idx[i].key
  <2>1. CASE k = Blank
    BY <1>0, <1>2, <2>1, CallNow, FilesSame DEF NextRead
  <2>2. CASE k # Blank
    <3>1. i \in 1..Len(idx) /\ Ok(d, "nread")
      BY <1>0, <1>2 DEF NextRead
    <3>2. k \in Keys
      <4>1. idx[i] \in IdxRec
        BY <1>0, <3>1, RecordAt
      <4> QED BY <2>2, <4>1 DEF IdxRec
    <3>3. db' = [db EXCEPT ![p] = [e EXCEPT !.key = k]] /\ pc' = [pc EXCEPT ![p] = "nreaddat"]
      BY <1>2, <2>2 DEF NextRead
    <3> HIDE DEF i, d, k
    <3>4. Ok(e, "nread") /\ e.datoff = idx[i].dat
      BY <1>0, <3>1, ReadRecord
    <3>5. Ok(e, "nreaddat")
      BY <1>0, <3>1, <3>4, RecordAt DEF CallOK
    <3> HIDE DEF e
    <3>6. Ok([e EXCEPT !.key = k], "nreaddat")
      BY <1>0, <3>2, <3>5, SetKey
    <3> QED BY <1>2, <3>3, <3>6, FilesSame DEF NextRead
  <2> QED BY <2>1, <2>2
<1>3. CASE NextReadDat(p)
  <2>1. Ok(db[p], "nunlock") /\ dat[db[p].datoff] \in Vals \cup {Blank}
    BY <1>0, <1>3 DEF NextReadDat, CallOK, FilesOK
  <2>2. Ok([db[p] EXCEPT !.rc = dat[db[p].datoff]], "nunlock")
    BY <1>0, <2>1, SetRc
  <2> QED BY <1>3, <2>2, FilesSame DEF NextReadDat
<1>4. CASE NextEOF(p)
  <2>1. Ok(db[p], "nunlock")
    BY <1>0, <1>4 DEF NextEOF, CallOK
  <2>2. Ok([db[p] EXCEPT !.rc = "eof"], "nunlock")
    BY <1>0, <2>1, SetRc
  <2> QED BY <1>4, <2>2, FilesSame DEF NextEOF
<1>5. CASE NextMisread(p)
  BY <1>5, DieStep DEF NextMisread
<1>6. CASE NextUnlock(p)
  <2>1. Ok(db[p], "return")
    BY <1>0, <1>6 DEF NextUnlock, CallOK
  <2> QED BY <1>6, <2>1, CallNow, FilesSame DEF NextUnlock
<1> QED BY <1>1, <1>2, <1>3, <1>4, <1>5, <1>6 DEF Nextrec

\* Entering a call, and db_rewind, preserve TInv.
LEMMA CallStep ==
  ASSUME TInv, NEW p \in Procs, Call(p)
  PROVE TInv'
<1> DEFINE Ok(d, l) == CallOK(d, l, Len(idx), Len(dat))
<1>0. Ok(db[p], pc[p]) /\ FilesOK /\ Len(idx) \in Nat /\ Len(dat) \in Nat
  BY CallNow DEF TInv, FilesOK
<1> DEFINE F(k) == [NoCall EXCEPT !.op = "fetch", !.key = k]
           D(k) == [NoCall EXCEPT !.op = "delete", !.key = k]
           S(k, v, f) == [NoCall EXCEPT !.op = "store", !.key = k, !.val = v, !.flag = f]
<1>1. CASE CallFetch(p)
  <2>1. PICK k \in Keys : call(p, F(k), "lock")
    BY <1>1 DEF CallFetch
  <2>2. Ok(F(k), "lock")
    <3>1. F(k) \in Calls
      BY DEF Calls, NoCall
    <3>2. PtrsOK(F(k), Len(idx))
      BY <1>0 DEF PtrsOK, NoCall
    <3>3. F(k).key = k /\ F(k).op = "fetch"
      BY DEF NoCall
    <3> HIDE DEF F
    <3> QED BY <3>1, <3>2, <3>3 DEF CallOK
  <2> QED BY <2>1, <2>2, FilesSame DEF call
<1>2. CASE CallDelete(p)
  <2>1. PICK k \in Keys : call(p, D(k), "lock")
    BY <1>2 DEF CallDelete
  <2>2. Ok(D(k), "lock")
    <3>1. D(k) \in Calls
      BY DEF Calls, NoCall
    <3>2. PtrsOK(D(k), Len(idx))
      BY <1>0 DEF PtrsOK, NoCall
    <3>3. D(k).key = k /\ D(k).op = "delete"
      BY DEF NoCall
    <3> HIDE DEF D
    <3> QED BY <3>1, <3>2, <3>3 DEF CallOK
  <2> QED BY <2>1, <2>2, FilesSame DEF call
<1>3. CASE CallStore(p)
  <2>1. PICK k \in Keys, v \in Vals, f \in Flags :
          IF f = "other" THEN call(p, [S(k, v, f) EXCEPT !.rc = "EINVAL"], "return")
          ELSE call(p, S(k, v, f), "lock")
    BY <1>3 DEF CallStore
  <2>2. Ok(S(k, v, f), "lock") /\ Ok(S(k, v, f), "return")
    <3>1. S(k, v, f) \in Calls
      BY DEF Calls, NoCall
    <3>2. PtrsOK(S(k, v, f), Len(idx))
      BY <1>0 DEF PtrsOK, NoCall
    <3>3. S(k, v, f).key = k /\ S(k, v, f).val = v /\ S(k, v, f).op = "store"
      BY DEF NoCall
    <3> HIDE DEF S
    <3> QED BY <3>1, <3>2, <3>3 DEF CallOK
  <2>3. Ok([S(k, v, f) EXCEPT !.rc = "EINVAL"], "return")
    BY <1>0, <2>2, SetRc
  <2> QED BY <2>1, <2>2, <2>3, FilesSame DEF call
<1>4. CASE CallNextrec(p)
  <2>1. Ok([NoCall EXCEPT !.op = "nextrec"], "nlock")
    <3> DEFINE d == [NoCall EXCEPT !.op = "nextrec"]
    <3>1. d \in Calls
      BY DEF Calls, NoCall
    <3>2. PtrsOK(d, Len(idx)) /\ d.op = "nextrec"
      BY <1>0 DEF PtrsOK, NoCall
    <3> HIDE DEF d
    <3>3. Ok(d, "nlock")
      BY <3>1, <3>2 DEF CallOK
    <3> QED BY <3>3 DEF d
  <2> QED BY <1>4, <2>1, FilesSame DEF call, CallNextrec
<1>5. CASE db_rewind(p)
  BY <1>0, <1>5, CallNow, FilesSame DEF db_rewind
<1> QED BY <1>1, <1>2, <1>3, <1>4, <1>5 DEF Call

\* In every reachable state the files are well formed and every process holds
\* offsets that are in them, also after kills (all of db.c).
THEOREM TypeAndPointers == Spec => []TInv
<1>1. Init => TInv
  <2> SUFFICES ASSUME Init PROVE TInv
    OBVIOUS
  <2>1. FilesOK
    BY DEF Init, FilesOK
  <2>2. Len(idx) = 0 /\ Len(dat) = 0
    BY DEF Init
  <2>3. \A p \in Procs : db[p] = NoCall /\ pc[p] = "idle" /\ CallOK(NoCall, "idle", 0, 0)
    BY NoCallOK DEF Init
  <2>4. NoCall \in Calls /\ db = [p \in Procs |-> NoCall] /\ pc = [p \in Procs |-> "idle"]
    BY NoCallOK DEF Init, CallOK
  <2> QED BY <2>1, <2>2, <2>3, <2>4 DEF TInv, ProcsOK
<1>2. TInv /\ [Next]_vars => TInv'
  <2> SUFFICES ASSUME TInv, [Next]_vars PROVE TInv'
    OBVIOUS
  <2>1. CASE UNCHANGED vars
    BY <2>1 DEF TInv, FilesOK, ProcsOK, vars
  <2>2. ASSUME NEW p \in Procs, Call(p) \/ Run(p) \/ Kill(p) PROVE TInv'
    <3>1. CASE Return(p)
      <4>1. CallOK(NoCall, "idle", Len(idx), Len(dat))
        BY NoCallOK DEF TInv, FilesOK
      <4> QED BY <3>1, <4>1, FilesSame DEF Return
    <3> QED BY <2>2, <3>1, CallStep, FindStep, DeleteStep, FindFreeStep, StoreStep,
               NextrecStep, DieStep DEF Run, Kill
  <2> QED BY <2>1, <2>2 DEF Next
<1> QED BY <1>1, <1>2, PTL DEF Spec
-----------------------------------------------------------------------------
(* The locking part of the invariant: a process holds exactly the locks its
   place in the code says, and conflicting locks are never held together. *)
ChainLock(d) == [res |-> Hash[d.key], mode |-> IF d.op = "fetch" THEN "R" ELSE "W"]

LocksFor(d, l) ==
  IF l \in DelPCs \cup FreePCs THEN {ChainLock(d), [res |-> "free", mode |-> "W"]}
  ELSE IF l \in {"datend", "datwrite"} THEN {ChainLock(d), [res |-> "dat", mode |-> "W"]}
  ELSE IF l \in {"tailend", "tailwrite"} THEN {ChainLock(d), [res |-> "tail", mode |-> "W"]}
  ELSE IF l \in ChainPCs THEN {ChainLock(d)}
  ELSE IF l \in NextPCs THEN {[res |-> "free", mode |-> "R"]}
  ELSE {}

Clash(l, m) == l.res = m.res /\ ~(l.mode = "R" /\ m.mode = "R")

LInv ==
  /\ held \in [Procs -> SUBSET LockSet]
  /\ \A p \in Procs : held[p] = LocksFor(db[p], pc[p])
  /\ \A p, q \in Procs : p # q => \A l \in held[p], m \in held[q] : ~Clash(l, m)

\* A step that replaces the locks of p by a set that clashes with nobody's
\* preserves LInv.
LEMMA LockStep ==
  ASSUME TInv, LInv, NEW p \in Procs, NEW d, NEW l, NEW H \in SUBSET LockSet,
         db' = [db EXCEPT ![p] = d], pc' = [pc EXCEPT ![p] = l],
         held' = [held EXCEPT ![p] = H], H = LocksFor(d, l),
         \A q \in Procs \ {p} : \A x \in H, y \in held[q] : ~Clash(x, y)
  PROVE LInv'
<1>1. held' \in [Procs -> SUBSET LockSet]
  BY DEF LInv
<1>2. ASSUME NEW q \in Procs PROVE held'[q] = LocksFor(db'[q], pc'[q])
  BY DEF LInv, TInv, ProcsOK
<1>3. ASSUME NEW q \in Procs, NEW r \in Procs, q # r,
             NEW x \in held'[q], NEW y \in held'[r]
      PROVE ~Clash(x, y)
  <2>1. CASE q = p
    BY <1>3, <2>1 DEF LInv
  <2>2. CASE r = p
    <3>1. ~Clash(y, x)
      BY <1>3, <2>2 DEF LInv
    <3> QED BY <3>1 DEF Clash
  <2>3. CASE q # p /\ r # p
    BY <1>3, <2>3 DEF LInv
  <2> QED BY <2>1, <2>2, <2>3
<1> QED BY <1>1, <1>2, <1>3 DEF LInv

\* A step that moves p between places with the same locks preserves LInv.
LEMMA KeepLocks ==
  ASSUME TInv, LInv, NEW p \in Procs, NEW d, NEW l,
         db' = [db EXCEPT ![p] = d], pc' = [pc EXCEPT ![p] = l], held' = held,
         LocksFor(d, l) = LocksFor(db[p], pc[p])
  PROVE LInv'
<1>1. held[p] \in SUBSET LockSet /\ held[p] = LocksFor(d, l) /\ held' = [held EXCEPT ![p] = held[p]]
  BY DEF LInv
<1>2. \A q \in Procs \ {p} : \A x \in held[p], y \in held[q] : ~Clash(x, y)
  BY DEF LInv
<1> QED BY <1>1, <1>2, LockStep

\* A lock granted by lock_reg (F_SETLKW) preserves LInv.
LEMMA TakeLock ==
  ASSUME TInv, LInv, NEW p \in Procs, NEW l, NEW r \in Resources, NEW m \in {"R", "W"},
         db' = db, pc' = [pc EXCEPT ![p] = l], Lock(p, r, m),
         LocksFor(db[p], l) = LocksFor(db[p], pc[p]) \cup {[res |-> r, mode |-> m]}
  PROVE LInv'
<1> DEFINE H == held[p] \cup {[res |-> r, mode |-> m]}
<1>1. H \in SUBSET LockSet /\ H = LocksFor(db[p], l)
  BY DEF LInv, LockSet
<1>2. held' = [held EXCEPT ![p] = H] /\ db' = [db EXCEPT ![p] = db[p]]
  BY CallNow DEF Lock
<1>3. \A q \in Procs \ {p} : \A x \in H, y \in held[q] : ~Clash(x, y)
  <2>1. SUFFICES ASSUME NEW q \in Procs \ {p}, NEW x \in H, NEW y \in held[q]
                 PROVE ~Clash(x, y)
    OBVIOUS
  <2>2. CASE x \in held[p]
    BY <2>2 DEF LInv
  <2>3. CASE x = [res |-> r, mode |-> m]
    BY <2>3 DEF Lock, CanLock, Clash
  <2> QED BY <2>2, <2>3
<1>4. H \in SUBSET LockSet
  BY <1>1
<1>5. H = LocksFor(db[p], l)
  BY <1>1
<1>6. db' = [db EXCEPT ![p] = db[p]]
  BY <1>2
<1>7. held' = [held EXCEPT ![p] = H]
  BY <1>2
<1>8. pc' = [pc EXCEPT ![p] = l]
  OBVIOUS
<1> HIDE DEF H
<1> QED BY ONLY TInv, LInv, p \in Procs, <1>3, <1>4, <1>5, <1>6, <1>7, <1>8, LockStep

\* Giving locks up preserves LInv.
LEMMA DropLocks ==
  ASSUME TInv, LInv, NEW p \in Procs, NEW d, NEW l, NEW H,
         db' = [db EXCEPT ![p] = d], pc' = [pc EXCEPT ![p] = l],
         held' = [held EXCEPT ![p] = H], H \subseteq held[p], H = LocksFor(d, l)
  PROVE LInv'
<1>1. H \in SUBSET LockSet /\ \A q \in Procs \ {p} : \A x \in H, y \in held[q] : ~Clash(x, y)
  BY DEF LInv
<1> QED BY ZenonT(90), <1>1, LockStep

\* un_lock preserves LInv.
LEMMA UnLock ==
  ASSUME TInv, LInv, NEW p \in Procs, NEW d, NEW l, NEW r,
         db' = [db EXCEPT ![p] = d], pc' = [pc EXCEPT ![p] = l], un_lock(p, r),
         LocksFor(d, l) = {x \in LocksFor(db[p], pc[p]) : x.res # r}
  PROVE LInv'
<1> DEFINE H == {x \in held[p] : x.res # r}
<1>1. held' = [held EXCEPT ![p] = H] /\ H \subseteq held[p] /\ H = LocksFor(d, l)
  BY DEF un_lock, LInv
<1> HIDE DEF H
<1> QED BY <1>1, DropLocks

\* _db_find_and_lock and its callers keep exactly the chain lock.
LEMMA FindLocks ==
  ASSUME TInv, LInv, NEW p \in Procs, Find(p)
  PROVE LInv'
<1>0. /\ db[p] \in Calls /\ db = [db EXCEPT ![p] = db[p]]
      /\ pc[p] \in ChainPCs \cup {"lock"} => Hash[db[p].key] \in Chains
  BY CallNow DEF CallOK
<1>1. CASE LockChain(p)
  BY <1>0, <1>1, TakeLock DEF LockChain, LocksFor, ChainLock, ChainOf
<1>2. CASE ReadChainPtr(p)
  <2>1. LocksFor([db[p] EXCEPT !.off = chain[ChainOf(p)], !.ptroff = 0], "walk")
        = LocksFor(db[p], "readptr")
    BY <1>0 DEF LocksFor, ChainLock, Calls
  <2> QED BY <1>2, <2>1, KeepLocks DEF ReadChainPtr
<1>3. CASE WalkChain(p)
  <2> DEFINE i == db[p].off
             d == ReadIdx(db[p], i)
  <2>1. /\ LocksFor([d EXCEPT !.found = TRUE], "found") = LocksFor(db[p], "walk")
        /\ LocksFor([d EXCEPT !.off = d.ptrval, !.ptroff = i], "walk") = LocksFor(db[p], "walk")
    BY <1>0 DEF LocksFor, ChainLock, Calls, ReadIdx
  <2> QED BY ZenonT(60), <1>3, <2>1, KeepLocks DEF WalkChain
<1>4. CASE NotFound(p)
  <2>1. /\ LocksFor([db[p] EXCEPT !.rc = "notfound"], "unlock") = LocksFor(db[p], "walk")
        /\ LocksFor([db[p] EXCEPT !.head = chain[ChainOf(p)]], "fflock") = LocksFor(db[p], "walk")
    BY <1>0 DEF LocksFor, ChainLock, Calls
  <2> QED BY <1>4, <2>1, KeepLocks DEF NotFound
<1>5. CASE Found(p)
  <2>1. /\ LocksFor(db[p], "readdat") = LocksFor(db[p], "found")
        /\ LocksFor(db[p], "dellock") = LocksFor(db[p], "found")
        /\ LocksFor(db[p], "overwrite") = LocksFor(db[p], "found")
        /\ LocksFor([db[p] EXCEPT !.rc = "exists"], "unlock") = LocksFor(db[p], "found")
        /\ db[p].op \in {"fetch", "store", "delete"}
    BY <1>0, <1>5, CallNow DEF LocksFor, ChainLock, Calls, CallOK, Found
  <2>2. PICK d, l : /\ db' = [db EXCEPT ![p] = d] /\ pc' = [pc EXCEPT ![p] = l]
                    /\ LocksFor(d, l) = LocksFor(db[p], "found")
    BY <1>0, <1>5, <2>1 DEF Found
  <2> QED BY <1>5, <2>2, KeepLocks DEF Found
<1>6. CASE FetchData(p)
  <2>1. LocksFor([db[p] EXCEPT !.rc = dat[db[p].datoff]], "unlock") = LocksFor(db[p], "readdat")
    BY <1>0 DEF LocksFor, ChainLock, Calls
  <2> QED BY <1>6, <2>1, KeepLocks DEF FetchData
<1>7. CASE UnlockChain(p)
  <2>1. LocksFor(db[p], "return") = {x \in LocksFor(db[p], "unlock") : x.res # ChainOf(p)}
    BY <1>0 DEF LocksFor, ChainLock, ChainOf
  <2> QED BY <1>0, <1>7, <2>1, UnLock DEF UnlockChain
<1> QED BY <1>1, <1>2, <1>3, <1>4, <1>5, <1>6, <1>7 DEF Find

\* _db_dodelete adds the free-list lock and gives it back.
LEMMA DeleteLocks ==
  ASSUME TInv, LInv, NEW p \in Procs, DoDelete(p)
  PROVE LInv'
<1>0. /\ db[p] \in Calls /\ db = [db EXCEPT ![p] = db[p]]
      /\ pc[p] \in ChainPCs \cup {"lock"} => Hash[db[p].key] \in Chains
  BY CallNow DEF CallOK
<1>1. CASE DelLockFree(p)
  BY <1>0, <1>1, TakeLock DEF DelLockFree, LocksFor, ChainLock
<1>2. CASE DelWriteDat(p)
  <2>1. LocksFor(db[p], "delrfree") = LocksFor(db[p], "delwdat")
    BY DEF LocksFor
  <2> QED BY <1>0, <1>2, <2>1, KeepLocks DEF DelWriteDat
<1>3. CASE DelReadFree(p)
  <2>1. LocksFor([db[p] EXCEPT !.freeptr = free], "delwidx") = LocksFor(db[p], "delrfree")
    BY <1>0 DEF LocksFor, ChainLock, Calls
  <2> QED BY <1>3, <2>1, KeepLocks DEF DelReadFree
<1>4. CASE DelWriteIdx(p)
  <2>1. LocksFor(db[p], "delwfree") = LocksFor(db[p], "delwidx")
    BY DEF LocksFor
  <2> QED BY <1>0, <1>4, <2>1, KeepLocks DEF DelWriteIdx
<1>5. CASE DelWriteFree(p)
  <2>1. LocksFor(db[p], "delunlink") = LocksFor(db[p], "delwfree")
    BY DEF LocksFor
  <2> QED BY <1>0, <1>5, <2>1, KeepLocks DEF DelWriteFree
<1>6. CASE DelUnlink(p)
  <2>1. LocksFor(db[p], "delunlock") = LocksFor(db[p], "delunlink")
    BY DEF LocksFor
  <2> QED BY <1>0, <1>6, <2>1, KeepLocks DEF DelUnlink
<1>7. CASE DelUnlockFree(p)
  <2> DEFINE H == {x \in LocksFor(db[p], "delunlock") : x.res # "free"}
  <2>1. H = {ChainLock(db[p])}
    BY <1>0, <1>7 DEF DelUnlockFree, LocksFor, ChainLock
  <2>2. /\ LocksFor([db[p] EXCEPT !.rc = "ok"], "unlock") = {ChainLock(db[p])}
        /\ LocksFor(db[p], "reread") = {ChainLock(db[p])}
    BY <1>0 DEF LocksFor, ChainLock, Calls
  <2> QED BY SMTT(60), <1>0, <1>7, <2>1, <2>2, UnLock DEF DelUnlockFree
<1> QED BY <1>1, <1>2, <1>3, <1>4, <1>5, <1>6, <1>7 DEF DoDelete

\* _db_findfree adds the free-list lock and gives it back.
LEMMA FindFreeLocks ==
  ASSUME TInv, LInv, NEW p \in Procs, FindFree(p)
  PROVE LInv'
<1>0. /\ db[p] \in Calls /\ db = [db EXCEPT ![p] = db[p]]
      /\ pc[p] \in ChainPCs \cup {"lock"} => Hash[db[p].key] \in Chains
  BY CallNow DEF CallOK
<1>1. CASE FreeLock(p)
  BY <1>0, <1>1, TakeLock DEF FreeLock, LocksFor, ChainLock
<1>2. CASE FreeRead(p)
  <2>1. LocksFor([db[p] EXCEPT !.off = free, !.ptroff = 0], "ffwalk") = LocksFor(db[p], "ffread")
    BY <1>0 DEF LocksFor, ChainLock, Calls
  <2> QED BY <1>2, <2>1, KeepLocks DEF FreeRead
<1>3. CASE FreeWalk(p)
  <2> DEFINE i == db[p].off
             d == ReadIdx(db[p], i)
  <2>1. /\ LocksFor(d, "ffunlink") = LocksFor(db[p], "ffwalk")
        /\ LocksFor([d EXCEPT !.off = d.ptrval, !.ptroff = i], "ffwalk")
             = LocksFor(db[p], "ffwalk")
    BY <1>0 DEF LocksFor, ChainLock, Calls, ReadIdx
  <2> QED BY <1>3, <2>1, KeepLocks DEF FreeWalk
<1>4. CASE FreeUnlink(p)
  <2>1. LocksFor(db[p], "ffunlock") = LocksFor(db[p], "ffunlink")
    BY DEF LocksFor
  <2> QED BY <1>0, <1>4, <2>1, KeepLocks DEF FreeUnlink
<1>5. CASE FreeUnlock(p)
  <2>1. PICK l \in {"reusedat", "datlock"} : pc' = [pc EXCEPT ![p] = l]
    BY <1>5 DEF FreeUnlock
  <2>2. LocksFor(db[p], l) = {x \in LocksFor(db[p], pc[p]) : x.res # "free"}
    BY <1>0, <1>5 DEF FreeUnlock, LocksFor, ChainLock
  <2> QED BY <1>0, <1>5, <2>1, <2>2, UnLock DEF FreeUnlock
<1> QED BY <1>1, <1>2, <1>3, <1>4, <1>5 DEF FindFree

\* The kernel drops the locks of a process that dies.
LEMMA DieLocks ==
  ASSUME TInv, LInv, NEW p \in Procs, Die(p)
  PROVE LInv'
<1>1. LocksFor(NoCall, "dead") = {}
  BY DEF LocksFor
<1> QED BY <1>1, DropLocks DEF Die

\* _db_writedat and _db_writeidx lock the end of their file around an append.
LEMMA StoreLocks ==
  ASSUME TInv, LInv, NEW p \in Procs, StoreWrites(p)
  PROVE LInv'
<1>0. /\ db[p] \in Calls /\ db = [db EXCEPT ![p] = db[p]]
      /\ pc[p] \in ChainPCs \cup {"lock"} => Hash[db[p].key] \in Chains
  BY CallNow DEF CallOK
<1>1. CASE RereadChainPtr(p)
  <2>1. LocksFor([db[p] EXCEPT !.head = chain[ChainOf(p)]], "datlock") = LocksFor(db[p], "reread")
    BY <1>0 DEF LocksFor, ChainLock, Calls
  <2> QED BY <1>1, <2>1, KeepLocks DEF RereadChainPtr
<1>2. CASE Overwrite(p)
  <2>1. LocksFor([db[p] EXCEPT !.rc = "ok"], "unlock") = LocksFor(db[p], "overwrite")
    BY <1>0 DEF LocksFor, ChainLock, Calls
  <2> QED BY <1>2, <2>1, KeepLocks DEF Overwrite
<1>3. CASE ReuseDat(p)
  <2>1. LocksFor(db[p], "reuseidx") = LocksFor(db[p], "reusedat")
    BY DEF LocksFor
  <2> QED BY <1>0, <1>3, <2>1, KeepLocks DEF ReuseDat
<1>4. CASE ReuseIdx(p)
  <2>1. LocksFor(db[p], "link") = LocksFor(db[p], "reuseidx")
    BY DEF LocksFor
  <2> QED BY <1>0, <1>4, <2>1, KeepLocks DEF ReuseIdx
<1>5. CASE DatLock(p)
  BY <1>0, <1>5, TakeLock DEF DatLock, LocksFor, ChainLock
<1>6. CASE DatSeek(p)
  <2>1. LocksFor([db[p] EXCEPT !.datoff = Len(dat) + 1, !.datlen = DatLen[db[p].val]], "datwrite")
          = LocksFor(db[p], "datend")
    BY <1>0 DEF LocksFor, ChainLock, Calls
  <2> QED BY <1>6, <2>1, KeepLocks DEF DatSeek
<1>7. CASE AppendDat(p)
  <2>1. LocksFor(db[p], "taillock") = {x \in LocksFor(db[p], "datwrite") : x.res # "dat"}
    BY <1>0, <1>7 DEF AppendDat, LocksFor, ChainLock
  <2> QED BY <1>0, <1>7, <2>1, UnLock DEF AppendDat
<1>8. CASE TailLock(p)
  BY <1>0, <1>8, TakeLock DEF TailLock, LocksFor, ChainLock
<1>11. CASE TailSeek(p)
  <2>1. LocksFor([db[p] EXCEPT !.idxoff = Len(idx) + 1], "tailwrite") = LocksFor(db[p], "tailend")
    BY <1>0 DEF LocksFor, ChainLock, Calls
  <2> QED BY <1>11, <2>1, KeepLocks DEF TailSeek
<1>12. CASE AppendIdx(p)
  <2>1. LocksFor(db[p], "link") = {x \in LocksFor(db[p], "tailwrite") : x.res # "tail"}
    BY <1>0, <1>12 DEF AppendIdx, LocksFor, ChainLock
  <2> QED BY <1>0, <1>12, <2>1, UnLock DEF AppendIdx
<1>9. CASE LinkChain(p)
  <2>1. LocksFor([db[p] EXCEPT !.rc = "ok"], "unlock") = LocksFor(db[p], "link")
    BY <1>0 DEF LocksFor, ChainLock, Calls
  <2> QED BY <1>9, <2>1, KeepLocks DEF LinkChain
<1>10. CASE LinkTooFar(p)
  BY <1>10, DieLocks DEF LinkTooFar
<1> QED BY <1>1, <1>2, <1>3, <1>4, <1>5, <1>6, <1>7, <1>8, <1>9, <1>10, <1>11, <1>12
        DEF StoreWrites

\* db_nextrec holds the read lock of the free list.
LEMMA NextrecLocks ==
  ASSUME TInv, LInv, NEW p \in Procs, Nextrec(p)
  PROVE LInv'
<1>0. /\ db[p] \in Calls /\ db = [db EXCEPT ![p] = db[p]]
      /\ pc[p] \in ChainPCs \cup {"lock"} => Hash[db[p].key] \in Chains
  BY CallNow DEF CallOK
<1>1. CASE NextLock(p)
  BY <1>0, <1>1, TakeLock DEF NextLock, LocksFor, ChainLock
<1>2. CASE NextRead(p)
  <2>1. PICK d, l : /\ db' = [db EXCEPT ![p] = d] /\ pc' = [pc EXCEPT ![p] = l]
                    /\ l \in {"nread", "nreaddat"}
    BY <1>0, <1>2, CallNow DEF NextRead
  <2>2. LocksFor(d, l) = LocksFor(db[p], "nread")
    BY <2>1 DEF LocksFor
  <2> QED BY <1>2, <2>1, <2>2, KeepLocks DEF NextRead
<1>3. CASE NextReadDat(p)
  <2>1. LocksFor([db[p] EXCEPT !.rc = dat[db[p].datoff]], "nunlock") = LocksFor(db[p], "nreaddat")
    BY <1>0 DEF LocksFor, ChainLock, Calls
  <2> QED BY <1>3, <2>1, KeepLocks DEF NextReadDat
<1>4. CASE NextEOF(p)
  <2>1. LocksFor([db[p] EXCEPT !.rc = "eof"], "nunlock") = LocksFor(db[p], "nread")
    BY <1>0 DEF LocksFor, ChainLock, Calls
  <2> QED BY <1>4, <2>1, KeepLocks DEF NextEOF
<1>5. CASE NextMisread(p)
  BY <1>5, DieLocks DEF NextMisread
<1>6. CASE NextUnlock(p)
  <2>1. LocksFor(db[p], "return") = {x \in LocksFor(db[p], "nunlock") : x.res # "free"}
    BY DEF LocksFor
  <2> QED BY <1>0, <1>6, <2>1, UnLock DEF NextUnlock
<1> QED BY <1>1, <1>2, <1>3, <1>4, <1>5, <1>6 DEF Nextrec

\* No lock is held between calls.
LEMMA CallLocks ==
  ASSUME TInv, LInv, NEW p \in Procs, Call(p) \/ Return(p)
  PROVE LInv'
<1>1. PICK d, l : /\ db' = [db EXCEPT ![p] = d] /\ pc' = [pc EXCEPT ![p] = l]
                  /\ l \in {"idle", "lock", "nlock", "return"}
                  /\ pc[p] \in {"idle", "return"} /\ held' = held
  <2>1. CASE db_rewind(p)
    BY <2>1, CallNow DEF db_rewind
  <2>2. CASE Return(p)
    BY <2>2 DEF Return
  <2> QED BY <2>1, <2>2 DEF Call, CallFetch, CallDelete, CallStore, CallNextrec, call
<1>2. LocksFor(d, l) = LocksFor(db[p], pc[p])
  BY <1>1 DEF LocksFor
<1> QED BY <1>1, <1>2, KeepLocks
-----------------------------------------------------------------------------
\* In every reachable state a process holds the record locks its place in db.c
\* says, and no two processes hold conflicting locks.
THEOREM LocksHeld == Spec => []LInv
<1>1. Init => LInv
  BY DEF Init, LInv, LocksFor
<1>2. TInv /\ LInv /\ [Next]_vars => LInv'
  <2> SUFFICES ASSUME TInv, LInv, [Next]_vars PROVE LInv'
    OBVIOUS
  <2>1. CASE UNCHANGED vars
    BY <2>1 DEF LInv, vars
  <2>2. ASSUME NEW p \in Procs, Call(p) \/ Run(p) \/ Kill(p) PROVE LInv'
    BY <2>2, CallLocks, FindLocks, DeleteLocks, FindFreeLocks, StoreLocks, NextrecLocks,
       DieLocks DEF Run, Kill
  <2> QED BY <2>1, <2>2 DEF Next
<1> QED BY <1>1, <1>2, TypeAndPointers, PTL DEF Spec

\* Moving the offset of idxfd keeps it typed.
LEMMA SeekTyped ==
  ASSUME pos \in [Procs -> Nat], NEW p \in Procs, NEW s \in Nat, Seek(p, s)
  PROVE pos' \in [Procs -> Nat]
  BY DEF Seek

\* Every step of db.c keeps the offsets of idxfd typed.
LEMMA PosStep ==
  ASSUME TInv, pos \in [Procs -> Nat], NEW p \in Procs, Call(p) \/ Run(p) \/ Kill(p)
  PROVE pos' \in [Procs -> Nat]
<1>0. /\ \A s \in Nat : Seek(p, s) => pos' \in [Procs -> Nat]
      /\ 0 \in Nat /\ 1 \in Nat
  BY SeekTyped
<1>1. /\ db[p].off \in Nat /\ db[p].idxoff \in Nat /\ Len(idx) \in Nat /\ pos[p] \in Nat
  BY SMTT(60), CallNow DEF CallOK, Calls, TInv, FilesOK
<1>2. db[p].off + 1 \in Nat /\ db[p].idxoff + 1 \in Nat /\ Len(idx) + 1 \in Nat /\ pos[p] + 1 \in Nat
  BY SMTT(60), <1>1
<1>3. CASE Call(p) \/ Return(p) \/ Kill(p)
  BY <1>0, <1>3 DEF Call, CallFetch, CallDelete, CallStore, CallNextrec, call, db_rewind,
     Return, Kill, Die
<1>4. CASE Find(p)
  <2>1. CASE Found(p)
    BY <2>1 DEF Found
  <2> QED BY <1>0, <1>2, <1>4, <2>1 DEF Find, LockChain, ReadChainPtr, WalkChain, NotFound,
     FetchData, UnlockChain
<1>5. CASE DoDelete(p)
  BY <1>0, <1>2, <1>5 DEF DoDelete, DelLockFree, DelWriteDat, DelReadFree, DelWriteIdx,
     DelWriteFree, DelUnlink, DelUnlockFree
<1>6. CASE FindFree(p)
  BY <1>0, <1>2, <1>6 DEF FindFree, FreeLock, FreeRead, FreeWalk, FreeUnlink, FreeUnlock
<1>7. CASE StoreWrites(p)
  BY <1>0, <1>2, <1>7 DEF StoreWrites, RereadChainPtr, Overwrite, ReuseDat, ReuseIdx, DatLock,
     DatSeek, AppendDat, TailLock, TailSeek, AppendIdx, LinkChain, LinkTooFar, Die
<1>8. CASE Nextrec(p)
  BY <1>0, <1>2, <1>8 DEF Nextrec, NextLock, NextRead, NextReadDat, NextEOF, NextMisread,
     NextUnlock, Die
<1> QED BY <1>3, <1>4, <1>5, <1>6, <1>7, <1>8 DEF Run

\* The offsets of idxfd.
PInv == pos \in [Procs -> Nat]

\* Every variable keeps its type in every reachable state of db.c.
THEOREM TypeCorrect == Spec => []TypeOK
<1>1. Init => PInv
  BY DEF Init, PInv
<1>2. TInv /\ PInv /\ [Next]_vars => PInv'
  BY PosStep DEF Next, vars, PInv
<1>3. TInv /\ LInv /\ PInv => TypeOK
  <2> SUFFICES ASSUME TInv, LInv, PInv PROVE TypeOK
    OBVIOUS
  <2>1. free \in Nat /\ chain \in [Chains -> Nat]
    BY DEF TInv, FilesOK
  <2> QED BY <2>1 DEF TInv, LInv, PInv, TypeOK, FilesOK, ProcsOK, IdxRec
<1> QED BY <1>1, <1>2, <1>3, TypeAndPointers, LocksHeld, PTL DEF Spec

\* The locks held exclude the overlaps Serialised rules out.
LEMMA SerialInv == TInv /\ LInv => Serialised
<1> SUFFICES ASSUME TInv, LInv, NEW p \in Procs, NEW q \in Procs, p # q
    PROVE /\ (pc[p] \in ChainPCs /\ pc[q] \in ChainPCs /\ ChainOf(p) = ChainOf(q))
               => db[p].op = "fetch" /\ db[q].op = "fetch"
          /\ pc[p] \in DelPCs \cup FreePCs => pc[q] \notin DelPCs \cup FreePCs \cup NextPCs
          /\ pc[p] \in {"datend", "datwrite"} => pc[q] \notin {"datend", "datwrite"}
          /\ pc[p] \in {"tailend", "tailwrite"} => pc[q] \notin {"tailend", "tailwrite"}
  BY DEF Serialised
<1>0. \A l \in LocksFor(db[p], pc[p]), m \in LocksFor(db[q], pc[q]) : ~Clash(l, m)
  BY DEF LInv
<1>1. ASSUME pc[p] \in ChainPCs, pc[q] \in ChainPCs, ChainOf(p) = ChainOf(q)
      PROVE db[p].op = "fetch" /\ db[q].op = "fetch"
  <2>1. ChainLock(db[p]) \in LocksFor(db[p], pc[p]) /\ ChainLock(db[q]) \in LocksFor(db[q], pc[q])
    BY <1>1 DEF LocksFor
  <2>2. ~Clash(ChainLock(db[p]), ChainLock(db[q]))
    BY <1>0, <2>1
  <2> QED BY <1>1, <2>2 DEF Clash, ChainLock, ChainOf
<1>2. ASSUME pc[p] \in DelPCs \cup FreePCs, pc[q] \in DelPCs \cup FreePCs \cup NextPCs
      PROVE FALSE
  <2>1. [res |-> "free", mode |-> "W"] \in LocksFor(db[p], pc[p])
    BY <1>2 DEF LocksFor
  <2>2. \E m \in LocksFor(db[q], pc[q]) : m.res = "free"
    BY <1>2 DEF LocksFor
  <2> QED BY <1>0, <2>1, <2>2 DEF Clash
<1>3. ASSUME pc[p] \in {"datend", "datwrite"}, pc[q] \in {"datend", "datwrite"} PROVE FALSE
  BY <1>0, <1>3 DEF LocksFor, Clash
<1>4. ASSUME pc[p] \in {"tailend", "tailwrite"}, pc[q] \in {"tailend", "tailwrite"} PROVE FALSE
  BY <1>0, <1>4 DEF LocksFor, Clash
<1> QED BY <1>1, <1>2, <1>3, <1>4

\* The record locks of db.c serialise chain updates, free-list updates against
\* scans and other updates, and the appends to each file.
THEOREM SerialisedAlways == Spec => []Serialised
  BY SerialInv, TypeAndPointers, LocksHeld, PTL

\* Every F_SETLKW wait of db.c is for a lock after all the held ones in the order
\* chain, free list, data file, index tail; so no cycle of waits can form.
THEOREM LockOrderAlways == Spec => []LockOrder
<1>1. TInv /\ LInv => LockOrder
  <2> SUFFICES ASSUME TInv, LInv, NEW p \in Procs, NEW r \in Wants(p), NEW l \in held[p]
      PROVE Rank(l.res) < Rank(r)
    BY DEF LockOrder
  <2>0. CallOK(db[p], pc[p], Len(idx), Len(dat)) /\ held[p] = LocksFor(db[p], pc[p])
    BY CallNow DEF LInv
  <2>1. \A h \in Chains : Rank(h) = 0
    BY DEF Rank
  <2>2. Rank("free") = 1 /\ Rank("dat") = 2 /\ Rank("tail") = 3
    BY DEF Rank
  <2>3. CASE pc[p] \in {"lock", "nlock"}
    BY <2>0, <2>3 DEF LocksFor
  <2>4. CASE pc[p] \in {"dellock", "fflock", "datlock", "taillock"}
    <3>1. l = ChainLock(db[p]) /\ l.res \in Chains
      BY <2>0, <2>4 DEF LocksFor, ChainLock, CallOK
    <3>2. r \in {"free", "dat", "tail"}
      BY <2>4 DEF Wants
    <3> QED BY <2>1, <2>2, <3>1, <3>2
  <2>5. CASE pc[p] \notin {"lock", "nlock", "dellock", "fflock", "datlock", "taillock"}
    BY <2>5 DEF Wants
  <2> QED BY <2>3, <2>4, <2>5
<1> QED BY <1>1, TypeAndPointers, LocksHeld, PTL

\* Every pointer in the files, and every offset a process kept from an earlier
\* read and is about to use, names a record of the files.
THEOREM PointersValidAlways == Spec => []PointersValid
<1>1. TInv => PointersValid
  <2> SUFFICES ASSUME TInv PROVE PointersValid
    OBVIOUS
  <2>0. DOMAIN idx = 1..Len(idx) /\ DOMAIN dat = 1..Len(dat)
    BY DEF TInv, FilesOK
  <2>1. /\ free \in 0..Len(idx) /\ \A h \in Chains : chain[h] \in 0..Len(idx)
        /\ \A i \in 1..Len(idx) : idx[i].ptr \in 0..Len(idx) /\ idx[i].dat \in 1..Len(dat)
    BY DEF TInv, FilesOK
  <2>2. ASSUME NEW p \in Procs
        PROVE /\ {db[p].off, db[p].ptroff, db[p].head, db[p].ptrval, db[p].freeptr}
                   \subseteq 0..Len(idx)
              /\ pc[p] \in DatPCs => db[p].datoff \in DOMAIN dat
              /\ pc[p] \in IdxPCs => db[p].idxoff \in DOMAIN idx
    <3>1. CallOK(db[p], pc[p], Len(idx), Len(dat))
      BY CallNow
    <3>2. PtrsOK(db[p], Len(idx))
      BY <3>1 DEF CallOK
    <3>3. {db[p].off, db[p].ptroff, db[p].head, db[p].ptrval, db[p].freeptr}
            \subseteq 0..Len(idx)
      BY <3>2 DEF PtrsOK
    <3>4. /\ pc[p] \in DatPCs => db[p].datoff \in DOMAIN dat
          /\ pc[p] \in IdxPCs => db[p].idxoff \in DOMAIN idx
      BY <2>0, <3>1 DEF CallOK
    <3> QED BY <3>3, <3>4
  <2> QED BY <2>0, <2>1, <2>2 DEF PointersValid
<1> QED BY <1>1, TypeAndPointers, PTL
-----------------------------------------------------------------------------
(* The record a process has taken off the free list still has the shape its
   new contents need, and the data record it is about to append an index
   record for belongs to nobody else. *)
\* Where db_store holds a record it took off the free list.
FitPCs == {"ffunlink", "ffunlock", "reusedat", "reuseidx"}
\* Where it has appended data that no index record names yet.
PendingPCs == {"taillock", "tailend", "tailwrite"}

\* The record off the free list has the lengths db_store will write.
FInv ==
  \A p \in Procs : pc[p] \in FitPCs =>
    /\ idx[db[p].idxoff].klen = KeyLen[db[p].key]
    /\ idx[db[p].idxoff].dlen = DatLen[db[p].val]
    /\ idx[db[p].idxoff].dat = db[p].datoff

\* The end of the file found by lseek is still the end when the append writes.
EInv ==
  \A p \in Procs :
    /\ pc[p] = "datwrite" => db[p].datoff = Len(dat) + 1
    /\ pc[p] = "tailwrite" => db[p].idxoff = Len(idx) + 1

\* Data are not shared, also counting the data appended but not indexed yet.
DInv ==
  /\ DataNotShared
  /\ \A p \in Procs : pc[p] \in PendingPCs =>
       /\ \A i \in 1..Len(idx) : idx[i].dat # db[p].datoff
       /\ \A q \in Procs \ {p} : pc[q] \in PendingPCs => db[q].datoff # db[p].datoff

\* One step of one process.
Step(p) == Call(p) \/ Run(p) \/ Kill(p)

\* A step of p changes no other process's DB structure (no shared memory).
LEMMA OneProcess ==
  ASSUME TInv, NEW p \in Procs, Step(p)
  PROVE \E d, l : db' = [db EXCEPT ![p] = d] /\ pc' = [pc EXCEPT ![p] = l]
<1>0. db = [db EXCEPT ![p] = db[p]] /\ pc = [pc EXCEPT ![p] = pc[p]]
  BY CallNow
<1>1. ASSUME Die(p) PROVE \E d, l : db' = [db EXCEPT ![p] = d] /\ pc' = [pc EXCEPT ![p] = l]
  BY <1>1 DEF Die
<1>2. CASE Call(p) \/ Return(p) \/ Kill(p)
  BY <1>0, <1>1, <1>2 DEF Call, CallFetch, CallDelete, CallStore, CallNextrec, call, db_rewind,
     Return, Kill
<1>3. CASE Find(p)
  <2>1. CASE WalkChain(p)
    BY <2>1 DEF WalkChain
  <2>2. CASE NotFound(p)
    BY <2>2 DEF NotFound
  <2>3. CASE Found(p)
    <3>1. db[p].op \in {"fetch", "delete", "store"}
      BY <2>3, CallNow DEF Found, CallOK
    <3> QED BY ZenonT(90), <1>0, <2>3, <3>1 DEF Found
  <2> QED BY <1>0, <1>3, <2>1, <2>2, <2>3 DEF Find, LockChain, ReadChainPtr, FetchData, UnlockChain
<1>4. CASE DoDelete(p)
  BY <1>0, <1>4 DEF DoDelete, DelLockFree, DelWriteDat, DelReadFree, DelWriteIdx, DelWriteFree,
     DelUnlink, DelUnlockFree
<1>5. CASE FindFree(p)
  BY <1>0, <1>5 DEF FindFree, FreeLock, FreeRead, FreeWalk, FreeUnlink, FreeUnlock
<1>6. CASE StoreWrites(p)
  BY <1>0, <1>1, <1>6 DEF StoreWrites, RereadChainPtr, Overwrite, ReuseDat, ReuseIdx, DatLock,
     DatSeek, AppendDat, TailLock, TailSeek, AppendIdx, LinkChain, LinkTooFar
<1>7. CASE Nextrec(p)
  BY SMTT(60), <1>0, <1>1, <1>7 DEF Nextrec, NextLock, NextRead, NextReadDat, NextEOF, NextMisread, NextUnlock
<1> QED BY <1>2, <1>3, <1>4, <1>5, <1>6, <1>7 DEF Step, Run

\* The five routines of db.c that write an index record.
LEMMA IdxStep ==
  ASSUME TInv, NEW p \in Procs, Step(p)
  PROVE \/ idx' = idx
        \/ DelWriteIdx(p) \/ DelUnlink(p) \/ FreeUnlink(p) \/ ReuseIdx(p) \/ AppendIdx(p)
<1>1. CASE Call(p) \/ Return(p) \/ Kill(p)
  BY <1>1 DEF Call, CallFetch, CallDelete, CallStore, CallNextrec, call, db_rewind,
     Return, Kill, Die
<1>2. CASE Find(p) \/ Nextrec(p)
  BY <1>2 DEF Find, LockChain, ReadChainPtr, WalkChain, NotFound, Found, FetchData,
     UnlockChain, Nextrec, NextLock, NextRead, NextReadDat, NextEOF, NextMisread, NextUnlock, Die
<1>3. CASE DoDelete(p) \/ FindFree(p)
  BY <1>3 DEF DoDelete, DelLockFree, DelWriteDat, DelReadFree, DelWriteFree, DelUnlockFree,
     FindFree, FreeLock, FreeRead, FreeWalk, FreeUnlock
<1>4. CASE StoreWrites(p)
  BY <1>4 DEF StoreWrites, RereadChainPtr, Overwrite, ReuseDat, DatLock,
     DatSeek, AppendDat, TailLock, TailSeek, LinkChain, LinkTooFar, Die
<1> QED BY <1>1, <1>2, <1>3, <1>4 DEF Step, Run

\* A process enters FitPCs only from the search of _db_findfree.
LEMMA FitStep ==
  ASSUME TInv, NEW p \in Procs, Step(p), pc'[p] \in FitPCs
  PROVE FreeWalk(p) \/ (db'[p] = db[p] /\ pc[p] \in FitPCs)
<1>0. ASSUME NEW l, pc' = [pc EXCEPT ![p] = l] PROVE l \in FitPCs
  BY SMTT(60), <1>0 DEF TInv, ProcsOK
<1>1. CASE Call(p) \/ Return(p) \/ Kill(p)
  BY ZenonT(90), <1>0, <1>1 DEF Call, CallFetch, CallDelete, CallStore, CallNextrec, call, db_rewind,
     Return, Kill, Die, FitPCs
<1>2. CASE Find(p) \/ Nextrec(p)
  <2>1. CASE WalkChain(p)
    BY <1>0, <2>1 DEF WalkChain, FitPCs
  <2>2. CASE NotFound(p)
    BY <1>0, <2>2 DEF NotFound, FitPCs
  <2>3. CASE Found(p)
    <3>1. db[p].op \in {"fetch", "delete", "store"}
      BY <2>3, CallNow DEF Found, CallOK
    <3> QED BY ZenonT(90), <1>0, <2>3, <3>1 DEF Found, FitPCs
  <2>4. CASE NextRead(p)
    BY <2>4, CallNow DEF NextRead, FitPCs
  <2> QED BY ZenonT(90), <1>0, <1>2, <2>1, <2>2, <2>3, <2>4 DEF Find, LockChain, ReadChainPtr, FetchData,
     FitPCs, UnlockChain, Nextrec, NextLock, NextReadDat, NextEOF, NextMisread, NextUnlock, Die
<1>3. CASE DoDelete(p)
  BY SMTT(60), <1>0, <1>3 DEF DoDelete, DelLockFree, DelWriteDat, DelReadFree, DelWriteIdx, DelWriteFree,
     DelUnlink, DelUnlockFree, FitPCs
<1>4. CASE FindFree(p)
  BY SMTT(60), <1>0, <1>4 DEF FindFree, FreeLock, FreeRead, FreeUnlink, FreeUnlock, FitPCs
<1>5. CASE StoreWrites(p)
  BY ZenonT(90), <1>0, <1>5 DEF StoreWrites, RereadChainPtr, Overwrite, ReuseDat, ReuseIdx, DatLock,
     DatSeek, AppendDat, TailLock, TailSeek, AppendIdx, LinkChain, LinkTooFar, Die, FitPCs
<1> QED BY <1>1, <1>2, <1>3, <1>4, <1>5 DEF Step, Run

\* A process enters PendingPCs only by appending data.
LEMMA PendingStep ==
  ASSUME TInv, NEW p \in Procs, Step(p), pc'[p] \in PendingPCs
  PROVE AppendDat(p) \/ (db'[p].datoff = db[p].datoff /\ pc[p] \in PendingPCs)
<1>0. ASSUME NEW l, pc' = [pc EXCEPT ![p] = l] PROVE l \in PendingPCs
  BY SMTT(60), <1>0 DEF TInv, ProcsOK
<1>1. CASE Call(p) \/ Return(p) \/ Kill(p)
  BY ZenonT(90), <1>0, <1>1 DEF Call, CallFetch, CallDelete, CallStore, CallNextrec, call, db_rewind,
     Return, Kill, Die, PendingPCs
<1>2. CASE Find(p) \/ Nextrec(p)
  <2>1. CASE WalkChain(p)
    BY <1>0, <2>1 DEF WalkChain, PendingPCs
  <2>2. CASE NotFound(p)
    BY <1>0, <2>2 DEF NotFound, PendingPCs
  <2>3. CASE Found(p)
    <3>1. db[p].op \in {"fetch", "delete", "store"}
      BY <2>3, CallNow DEF Found, CallOK
    <3> QED BY <1>0, <2>3, <3>1 DEF Found, PendingPCs
  <2>4. CASE NextRead(p)
    BY <2>4, CallNow DEF NextRead, PendingPCs
  <2> QED BY ZenonT(90), <1>0, <1>2, <2>1, <2>2, <2>3, <2>4 DEF Find, LockChain, ReadChainPtr, FetchData,
     PendingPCs, UnlockChain, Nextrec, NextLock, NextReadDat, NextEOF, NextMisread, NextUnlock, Die
<1>3. CASE DoDelete(p)
  BY SMTT(60), <1>0, <1>3 DEF DoDelete, DelLockFree, DelWriteDat, DelReadFree, DelWriteIdx, DelWriteFree,
     DelUnlink, DelUnlockFree, PendingPCs
<1>4. CASE FindFree(p)
  BY <1>0, <1>4 DEF FindFree, FreeLock, FreeRead, FreeWalk, FreeUnlink, FreeUnlock, PendingPCs
<1>5. CASE StoreWrites(p)
  <2>1. CASE TailSeek(p)
    BY <2>1, CallNow DEF TailSeek, PendingPCs, TInv, ProcsOK, Calls
  <2> QED BY <1>0, <1>5, <2>1 DEF StoreWrites, RereadChainPtr, Overwrite, ReuseDat, ReuseIdx,
     DatLock, DatSeek, TailLock, AppendIdx, LinkChain, LinkTooFar, Die, PendingPCs
<1> QED BY <1>1, <1>2, <1>3, <1>4, <1>5 DEF Step, Run

\* A process reaches a writev at the end of a file only from its lseek.
LEMMA WriteStep ==
  ASSUME TInv, NEW p \in Procs, Step(p), pc'[p] \in {"datwrite", "tailwrite"}
  PROVE DatSeek(p) \/ TailSeek(p)
<1>0. ASSUME NEW l, pc' = [pc EXCEPT ![p] = l] PROVE l \in {"datwrite", "tailwrite"}
  BY SMTT(60), <1>0 DEF TInv, ProcsOK
<1>1. CASE Call(p) \/ Return(p) \/ Kill(p)
  BY ZenonT(90), <1>0, <1>1 DEF Call, CallFetch, CallDelete, CallStore, CallNextrec, call, db_rewind,
     Return, Kill, Die
<1>2. CASE Find(p) \/ Nextrec(p)
  <2>1. CASE WalkChain(p)
    BY <1>0, <2>1 DEF WalkChain
  <2>2. CASE NotFound(p)
    BY <1>0, <2>2 DEF NotFound
  <2>3. CASE Found(p)
    <3>1. db[p].op \in {"fetch", "delete", "store"}
      BY <2>3, CallNow DEF Found, CallOK
    <3> QED BY <1>0, <2>3, <3>1 DEF Found
  <2>4. CASE NextRead(p)
    BY <2>4, CallNow DEF NextRead
  <2> QED BY ZenonT(90), <1>0, <1>2, <2>1, <2>2, <2>3, <2>4 DEF Find, LockChain, ReadChainPtr, FetchData,
     UnlockChain, Nextrec, NextLock, NextReadDat, NextEOF, NextMisread, NextUnlock, Die
<1>3. CASE DoDelete(p)
  BY <1>0, <1>3 DEF DoDelete, DelLockFree, DelWriteDat, DelReadFree, DelWriteIdx, DelWriteFree,
     DelUnlink, DelUnlockFree
<1>4. CASE FindFree(p)
  BY <1>0, <1>4 DEF FindFree, FreeLock, FreeRead, FreeWalk, FreeUnlink, FreeUnlock
<1>5. CASE StoreWrites(p)
  BY SMTT(60), <1>0, <1>5 DEF StoreWrites, AppendDat, RereadChainPtr, Overwrite, ReuseDat, ReuseIdx,
     DatLock, TailLock, AppendIdx, LinkChain, LinkTooFar, Die
<1> QED BY <1>1, <1>2, <1>3, <1>4, <1>5 DEF Step, Run

\* Only the two appends change the length of a file.
LEMMA LenStep ==
  ASSUME TInv, NEW p \in Procs, Step(p)
  PROVE /\ AppendIdx(p) \/ Len(idx') = Len(idx)
        /\ AppendDat(p) \/ Len(dat') = Len(dat)
<1>0. /\ Len(idx) \in Nat /\ Len(dat) \in Nat /\ DOMAIN idx = 1..Len(idx)
      /\ DOMAIN dat = 1..Len(dat)
  BY DEF TInv, FilesOK
<1>1. ASSUME NEW j, NEW r, idx' = [idx EXCEPT ![j] = r] PROVE Len(idx') = Len(idx)
  <2>1. DOMAIN idx' = DOMAIN idx
    BY <1>1
  <2> QED BY <1>0, <1>1, <2>1
<1>2. ASSUME NEW j, NEW r, dat' = [dat EXCEPT ![j] = r] PROVE Len(dat') = Len(dat)
  <2>1. DOMAIN dat' = DOMAIN dat
    BY <1>2
  <2> QED BY SMTT(60), <1>0, <1>2, <2>1
<1>3. AppendIdx(p) \/ Len(idx') = Len(idx)
  BY <1>1, IdxStep DEF DelWriteIdx, DelUnlink, FreeUnlink, ReuseIdx
<1>4. AppendDat(p) \/ dat' = dat \/ \E j, r : dat' = [dat EXCEPT ![j] = r]
  <2>1. CASE Call(p) \/ Return(p) \/ Kill(p)
    BY <2>1 DEF Call, CallFetch, CallDelete, CallStore, CallNextrec, call, db_rewind,
       Return, Kill, Die
  <2>2. CASE Find(p) \/ Nextrec(p)
    BY <2>2 DEF Find, LockChain, ReadChainPtr, WalkChain, NotFound, Found, FetchData,
       UnlockChain, Nextrec, NextLock, NextRead, NextReadDat, NextEOF, NextMisread,
       NextUnlock, Die
  <2>3. CASE DoDelete(p) \/ FindFree(p)
    BY <2>3 DEF DoDelete, DelLockFree, DelWriteDat, DelReadFree, DelWriteIdx, DelWriteFree,
       DelUnlink, DelUnlockFree, FindFree, FreeLock, FreeRead, FreeWalk, FreeUnlink, FreeUnlock
  <2>4. CASE StoreWrites(p)
    BY <2>4 DEF StoreWrites, RereadChainPtr, Overwrite, ReuseDat, ReuseIdx, DatLock,
       DatSeek, TailLock, TailSeek, AppendIdx, LinkChain, LinkTooFar, Die
  <2> QED BY SMTT(60), <2>1, <2>2, <2>3, <2>4 DEF Step, Run
<1> QED BY <1>2, <1>3, <1>4

\* The append locks keep EInv: nobody else extends the file between lseek and
\* writev.
LEMMA EndKept ==
  ASSUME TInv, LInv, EInv, NEW p \in Procs, Step(p)
  PROVE EInv'
<1> SUFFICES ASSUME NEW q \in Procs
    PROVE /\ pc'[q] = "datwrite" => db'[q].datoff = Len(dat') + 1
          /\ pc'[q] = "tailwrite" => db'[q].idxoff = Len(idx') + 1
  BY DEF EInv
<1>0. Serialised
  BY SerialInv
<1>1. CASE q = p
  <2>1. CASE DatSeek(p)
    BY <1>1, <2>1, CallNow DEF DatSeek, TInv, ProcsOK, Calls
  <2>2. CASE TailSeek(p)
    BY <1>1, <2>2, CallNow DEF TailSeek, TInv, ProcsOK, Calls
  <2> QED BY <1>1, <2>1, <2>2, WriteStep
<1>2. CASE q # p
  <2>1. db'[q] = db[q] /\ pc'[q] = pc[q]
    BY <1>2, OneProcess DEF TInv, ProcsOK
  <2>2. pc[q] = "datwrite" => ~AppendDat(p)
    BY <1>0, <1>2 DEF Serialised, AppendDat
  <2>3. pc[q] = "tailwrite" => ~AppendIdx(p)
    BY <1>0, <1>2 DEF Serialised, AppendIdx
  <2> QED BY <2>1, <2>2, <2>3, LenStep DEF EInv
<1> QED BY <1>1, <1>2

\* Whenever _db_writedat or _db_writeidx appends, it writes at the end of the file.
THEOREM EndAlways == Spec => []EInv
<1>1. Init => EInv
  BY DEF Init, EInv
<1>2. TInv /\ LInv /\ EInv /\ [Next]_vars => EInv'
  <2> SUFFICES ASSUME TInv, LInv, EInv, [Next]_vars PROVE EInv'
    OBVIOUS
  <2>1. CASE UNCHANGED vars
    BY <2>1 DEF EInv, vars
  <2> QED BY <2>1, EndKept DEF Next, Step
<1> QED BY <1>1, <1>2, TypeAndPointers, LocksHeld, PTL DEF Spec

\* A step keeps every index record where it is, with its lengths and its data
\* record (only db_store's reuse could break this, and the record fits).
LEMMA ShapeStep ==
  ASSUME TInv, EInv, FInv, NEW p \in Procs, Step(p), NEW i \in 1..Len(idx)
  PROVE /\ Len(idx) <= Len(idx')
        /\ idx'[i].klen = idx[i].klen /\ idx'[i].dat = idx[i].dat /\ idx'[i].dlen = idx[i].dlen
<1>0. /\ CallOK(db[p], pc[p], Len(idx), Len(dat)) /\ Len(idx) \in Nat /\ FilesOK
      /\ idx[i] \in IdxRec /\ idx \in Seq(IdxRec)
  BY CallNow, RecordAt DEF TInv, FilesOK
<1> DEFINE Kept == /\ Len(idx) <= Len(idx')
                   /\ idx'[i].klen = idx[i].klen /\ idx'[i].dat = idx[i].dat
                   /\ idx'[i].dlen = idx[i].dlen
<1>1. ASSUME NEW j \in 1..Len(idx), NEW r, idx' = [idx EXCEPT ![j] = r],
             r.klen = idx[j].klen, r.dat = idx[j].dat, r.dlen = idx[j].dlen
      PROVE Kept
  BY <1>0, <1>1
<1>2. ASSUME NEW j \in 1..Len(idx), NEW s, idx' = [idx EXCEPT ![j].ptr = s]
      PROVE Kept
  <2>1. idx[j] \in IdxRec
    BY <1>0, RecordAt
  <2>2. LET r == [idx[j] EXCEPT !.ptr = s]
        IN r.klen = idx[j].klen /\ r.dat = idx[j].dat /\ r.dlen = idx[j].dlen
    BY <2>1 DEF IdxRec
  <2> QED BY <1>1, <1>2, <2>2
<1>3. CASE idx' = idx
  BY <1>0, <1>3
<1>4. CASE DelWriteIdx(p)
  <2> DEFINE j == db[p].idxoff
             a == idx[j]
             r == [a EXCEPT !.key = Blank, !.ptr = db[p].freeptr]
  <2>1. j \in 1..Len(idx) /\ idx' = [idx EXCEPT ![j] = r]
    BY <1>0, <1>4 DEF DelWriteIdx, CallOK
  <2>2. a \in IdxRec
    BY <1>0, <2>1, RecordAt
  <2>3. r.klen = a.klen /\ r.dat = a.dat /\ r.dlen = a.dlen
    BY <2>2 DEF IdxRec
  <2> QED BY <1>1, <2>1, <2>3
<1>5. CASE DelUnlink(p)
  <2>1. db[p].ptroff # 0 => db[p].ptroff \in 1..Len(idx)
    BY <1>0 DEF CallOK, PtrsOK
  <2> QED BY <1>2, <1>3, <1>5, <2>1 DEF DelUnlink
<1>6. CASE FreeUnlink(p)
  <2>1. db[p].ptroff # 0 => db[p].ptroff \in 1..Len(idx)
    BY <1>0 DEF CallOK, PtrsOK
  <2> QED BY <1>2, <1>3, <1>6, <2>1 DEF FreeUnlink
<1>7. CASE ReuseIdx(p)
  <2> DEFINE j == db[p].idxoff
             r == NewIdx(p)
  <2>1. j \in 1..Len(idx) /\ idx' = [idx EXCEPT ![j] = r]
    BY <1>0, <1>7 DEF ReuseIdx, CallOK
  <2>2. r.klen = idx[j].klen /\ r.dat = idx[j].dat /\ r.dlen = idx[j].dlen
    BY <1>7 DEF ReuseIdx, FInv, FitPCs, NewIdx
  <2> HIDE DEF r, j
  <2> QED BY <1>1, <2>1, <2>2
<1>8. CASE AppendIdx(p)
  <2>1. NewIdx(p) \in IdxRec
    BY <1>8, NewRecord DEF AppendIdx
  <2>2. idx' = Append(idx, NewIdx(p))
    BY <1>8 DEF AppendIdx, EInv, WriteAt
  <2>3. Len(idx') = Len(idx) + 1 /\ idx'[i] = idx[i]
    BY <1>0, <2>1, <2>2
  <2> QED BY <1>0, <2>3
<1> QED BY <1>3, <1>4, <1>5, <1>6, <1>7, <1>8, IdxStep

\* Other processes leave a record taken off the free list its shape.
LEMMA FitKept ==
  ASSUME TInv, EInv, FInv, NEW p \in Procs, Step(p)
  PROVE FInv'
<1> SUFFICES ASSUME NEW q \in Procs, pc'[q] \in FitPCs
    PROVE /\ idx'[db'[q].idxoff].klen = KeyLen[db'[q].key]
          /\ idx'[db'[q].idxoff].dlen = DatLen[db'[q].val]
          /\ idx'[db'[q].idxoff].dat = db'[q].datoff
  BY DEF FInv
<1>1. CASE FreeWalk(p) /\ q = p
  <2> DEFINE i == db[p].off
             d == ReadIdx(db[p], i)
  <2>1. db[p] \in Calls /\ i \in 1..Len(idx)
    BY <1>1, CallNow DEF FreeWalk, CallOK, PtrsOK, TInv, FilesOK
  <2>2. FreeFits(p, i) /\ db'[p] = d
    BY <1>1 DEF FreeWalk, FitPCs, TInv, ProcsOK
  <2>3. /\ d.idxoff = i /\ d.datoff = idx[i].dat /\ d.key = db[p].key /\ d.val = db[p].val
    BY <2>1 DEF ReadIdx, Calls
  <2>4. idx' = idx
    BY <1>1 DEF FreeWalk
  <2> QED BY <1>1, <2>2, <2>3, <2>4 DEF FreeFits
<1>2. CASE ~(FreeWalk(p) /\ q = p)
  <2>1. db'[q] = db[q] /\ pc[q] \in FitPCs
    <3>1. CASE q = p
      BY <1>2, <3>1, FitStep
    <3>2. CASE q # p
      BY <3>2, OneProcess DEF TInv, ProcsOK
    <3> QED BY <3>1, <3>2
  <2>2. db[q].idxoff \in 1..Len(idx)
    BY <2>1, CallNow DEF CallOK, FitPCs
  <2> QED BY <2>1, <2>2, ShapeStep DEF FInv
<1> QED BY <1>1, <1>2

\* Whenever db_store reuses a record, the record fits the new key and data.
THEOREM FitAlways == Spec => []FInv
<1>1. Init => FInv
  BY DEF Init, FInv, FitPCs
<1>2. TInv /\ EInv /\ FInv /\ [Next]_vars => FInv'
  <2> SUFFICES ASSUME TInv, EInv, FInv, [Next]_vars PROVE FInv'
    OBVIOUS
  <2>1. CASE UNCHANGED vars
    BY <2>1 DEF FInv, vars
  <2> QED BY <2>1, FitKept DEF Next, Step
<1> QED BY <1>1, <1>2, TypeAndPointers, EndAlways, PTL DEF Spec

\* No step of db.c moves or resizes an index record, so offsets that other
\* processes hold stay record boundaries.
THEOREM ShapeKeptAlways == Spec => RecordsKeepShape
<1>1. TInv /\ TInv' /\ EInv /\ FInv /\ [Next]_vars => [ShapeKept]_vars
  <2> SUFFICES ASSUME TInv, TInv', EInv, FInv, NEW p \in Procs, Step(p), NEW i \in DOMAIN idx
      PROVE /\ i \in DOMAIN idx'
            /\ <<idx[i].klen, idx[i].dat, idx[i].dlen>>'
                 = <<idx[i].klen, idx[i].dat, idx[i].dlen>>
    BY DEF ShapeKept, Next, Step
  <2>1. i \in 1..Len(idx) /\ Len(idx) \in Nat /\ DOMAIN idx' = 1..Len(idx') /\ Len(idx') \in Nat
    BY DEF TInv, FilesOK
  <2>2. /\ Len(idx) <= Len(idx') /\ idx'[i].klen = idx[i].klen /\ idx'[i].dat = idx[i].dat
        /\ idx'[i].dlen = idx[i].dlen
    BY <2>1, ShapeStep
  <2> QED BY <2>1, <2>2
<1> QED BY <1>1, TypeAndPointers, EndAlways, FitAlways, PTL DEF Spec, RecordsKeepShape

\* Every step keeps DInv: appended data get a fresh data record, reuse keeps its own.
LEMMA DataStep ==
  ASSUME TInv, EInv, FInv, DInv, NEW p \in Procs, Step(p)
  PROVE DInv'
<1>0. /\ Len(idx) \in Nat /\ Len(dat) \in Nat /\ idx \in Seq(IdxRec)
      /\ DOMAIN idx = 1..Len(idx)
      /\ \A i \in 1..Len(idx) : idx[i].dat \in 1..Len(dat)
  BY DEF TInv, FilesOK
<1>1. \A q \in Procs \ {p} : db'[q] = db[q] /\ pc'[q] = pc[q]
  BY OneProcess DEF TInv, ProcsOK
<1>2. \A q \in Procs : pc[q] \in PendingPCs => db[q].datoff \in 1..Len(dat)
  BY CallNow DEF CallOK, PendingPCs
<1>3. CASE AppendDat(p)
  <2>1. idx' = idx /\ db' = db
    BY <1>3 DEF AppendDat
  <2>2. db'[p].datoff = Len(dat) + 1
    BY <1>3, <2>1 DEF AppendDat, EInv
  <2>3. \A i \in 1..Len(idx) : idx[i].dat # db'[p].datoff
    BY <1>0, <2>2
  <2>4. \A q \in Procs \ {p} : pc'[q] \in PendingPCs => db'[q].datoff # db'[p].datoff
    BY <1>0, <1>1, <1>2, <2>2
  <2>5. DataNotShared'
    BY <2>1 DEF DInv, DataNotShared
  <2>6. ASSUME NEW q \in Procs, pc'[q] \in PendingPCs
        PROVE /\ \A i \in 1..Len(idx') : idx'[i].dat # db'[q].datoff
              /\ \A r \in Procs \ {q} : pc'[r] \in PendingPCs => db'[r].datoff # db'[q].datoff
    <3>1. CASE q = p
      BY <2>1, <2>3, <2>4, <3>1
    <3>2. CASE q # p
      <4>1. pc[q] \in PendingPCs /\ db'[q] = db[q]
        BY <1>1, <2>6, <3>2
      <4>2. \A i \in 1..Len(idx') : idx'[i].dat # db'[q].datoff
        BY <2>1, <4>1 DEF DInv
      <4>3. ASSUME NEW r \in Procs \ {q}, pc'[r] \in PendingPCs
            PROVE db'[r].datoff # db'[q].datoff
        BY <1>1, <2>4, <2>6, <3>2, <4>1, <4>3 DEF DInv
      <4> QED BY <4>2, <4>3
    <3> QED BY <3>1, <3>2
  <2> QED BY <2>5, <2>6 DEF DInv
<1>4. CASE AppendIdx(p)
  <2> DEFINE n == Len(idx)
             o == db[p].datoff
  <2>1. NewIdx(p) \in IdxRec /\ idx' = Append(idx, NewIdx(p)) /\ NewIdx(p).dat = o
    BY <1>4, NewRecord DEF AppendIdx, NewIdx, EInv, WriteAt
  <2>2. /\ Len(idx') = n + 1 /\ idx' \in Seq(IdxRec) /\ DOMAIN idx' = 1..(n + 1)
        /\ idx'[n + 1].dat = o /\ \A i \in 1..n : idx'[i] = idx[i]
    BY <1>0, <2>1
  <2>3. pc[p] \in PendingPCs /\ pc'[p] = "link"
    BY <1>4 DEF AppendIdx, PendingPCs, TInv, ProcsOK
  <2>4. \A i \in 1..n : idx[i].dat # o
    BY <2>3 DEF DInv
  <2>5. DataNotShared'
    <3> SUFFICES ASSUME NEW i \in 1..(n + 1), NEW j \in 1..(n + 1), idx'[i].dat = idx'[j].dat
        PROVE i = j
      BY <2>2 DEF DataNotShared
    <3>1. CASE i \in 1..n /\ j \in 1..n
      BY <1>0, <2>2, <3>1 DEF DInv, DataNotShared
    <3>2. CASE i = n + 1 \/ j = n + 1
      BY <1>0, <2>2, <2>4, <3>2
    <3> QED BY <1>0, <3>1, <3>2
  <2>6. ASSUME NEW q \in Procs, pc'[q] \in PendingPCs
        PROVE /\ \A i \in 1..(n + 1) : idx'[i].dat # db'[q].datoff
              /\ \A r \in Procs \ {q} : pc'[r] \in PendingPCs => db'[r].datoff # db'[q].datoff
    <3>1. q # p /\ pc[q] \in PendingPCs /\ db'[q] = db[q]
      BY <1>1, <2>3, <2>6 DEF PendingPCs
    <3>2. db[q].datoff # o
      BY <2>3, <3>1 DEF DInv
    <3>3. \A i \in 1..(n + 1) : idx'[i].dat # db'[q].datoff
      <4> TAKE i \in 1..(n + 1)
      <4>1. CASE i \in 1..n
        BY <2>2, <3>1, <4>1 DEF DInv
      <4>2. CASE i = n + 1
        BY <2>2, <3>1, <3>2, <4>2
      <4> QED BY <1>0, <4>1, <4>2
    <3>4. \A r \in Procs \ {q} : pc'[r] \in PendingPCs => db'[r].datoff # db'[q].datoff
      BY <1>1, <2>3, <3>1 DEF DInv, PendingPCs
    <3> QED BY <3>3, <3>4
  <2> QED BY <2>2, <2>5, <2>6 DEF DInv
<1>5. CASE ~AppendDat(p) /\ ~AppendIdx(p)
  <2>1. Len(idx') = Len(idx) /\ DOMAIN idx' = DOMAIN idx
    <3>1. Len(idx') = Len(idx)
      BY SMTT(60), <1>5, LenStep
    <3>2. DOMAIN idx' = DOMAIN idx
      BY <1>5, IdxStep DEF DelWriteIdx, DelUnlink, FreeUnlink, ReuseIdx
    <3> QED BY <3>1, <3>2
  <2>2. \A i \in 1..Len(idx) : idx'[i].dat = idx[i].dat
    BY ShapeStep
  <2>3. \A q \in Procs : pc'[q] \in PendingPCs =>
          pc[q] \in PendingPCs /\ db'[q].datoff = db[q].datoff
    BY <1>1, <1>5, PendingStep
  <2>4. DataNotShared'
    BY <1>0, <2>1, <2>2 DEF DInv, DataNotShared
  <2>5. ASSUME NEW q \in Procs, pc'[q] \in PendingPCs
        PROVE /\ \A i \in 1..Len(idx') : idx'[i].dat # db'[q].datoff
              /\ \A r \in Procs \ {q} : pc'[r] \in PendingPCs => db'[r].datoff # db'[q].datoff
    BY <2>1, <2>2, <2>3, <2>5 DEF DInv
  <2> QED BY <2>4, <2>5 DEF DInv
<1> QED BY <1>3, <1>4, <1>5

\* Data appended but not indexed yet belong to nobody else.
THEOREM DataAlways == Spec => []DInv
<1>1. Init => DInv
  BY DEF Init, DInv, DataNotShared, PendingPCs
<1>2. TInv /\ EInv /\ FInv /\ DInv /\ [Next]_vars => DInv'
  <2> SUFFICES ASSUME TInv, EInv, FInv, DInv, [Next]_vars PROVE DInv'
    OBVIOUS
  <2>1. CASE UNCHANGED vars
    BY <2>1 DEF DInv, DataNotShared, vars
  <2> QED BY <2>1, DataStep DEF Next, Step
<1> QED BY <1>1, <1>2, TypeAndPointers, EndAlways, FitAlways, PTL DEF Spec

\* Two index records never name one data record, for any number of processes
\* appending, reusing and dying.
THEOREM DataNotSharedAlways == Spec => []DataNotShared
<1>1. DInv => DataNotShared
  BY DEF DInv
<1> QED BY <1>1, DataAlways, PTL
=============================================================================
