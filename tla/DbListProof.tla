----------------------------- MODULE DbListProof ----------------------------
(***************************************************************************)
(* Proofs about the linked lists in the index file of Db, for any number   *)
(* of processes, keys, chains and records, as long as no process is        *)
(* killed: a hash chain is a list of live records of its own keys, no key  *)
(* twice, the free list is a list of blank records, every record is on     *)
(* exactly one of them, and whoever reads a record finds it whole.         *)
(***************************************************************************)
EXTENDS DbProof, FiniteSetTheorems, WellFoundedInduction, NaturalsInduction

HIDE DbAssumption DEF PCs, ChainPCs, DelPCs, FreePCs, NextPCs, StorePCs, DatPCs, IdxPCs,
  OpNames, AllFlags, Resources

\* The lists: one for each hash chain, and the free list.
Lists == Chains \cup {"free"}

(* The invariant speaks of the lists as stacks: s[h][r] is the r-th record from
   the end of list h and c[h] is the length of h, so that s[h][c[h]] is its head
   and s[h][0] is the null pointer.  A record that _db_dodelete has blanked and
   not yet unlinked (SavedPCs) counts for its chain, and not for the free list. *)

\* The record before the r-th one, which ptroff names; 0 is the head pointer.
Before(s, c, h, r) == IF r = c[h] THEN 0 ELSE s[h][r + 1]

\* The r-th records of two lists are different records, and all may be pointed to.
StacksOK(s, c, n) ==
  /\ \A h \in Lists : s[h][0] = 0
  /\ \A h \in Lists : \A r \in 1..c[h] : s[h][r] \in 1..n /\ s[h][r] <= PtrMax
  /\ \A g, h \in Lists : \A r \in 1..c[g], t \in 1..c[h] :
       s[g][r] = s[h][t] => g = h /\ r = t

\* Record i is blank but still linked into its chain.
Unlinking(i) == \E p \in Procs : pc[p] \in SavedPCs /\ db[p].idxoff = i

\* The pointers in the file are those of the stacks.
LinksOK(s, c) ==
  /\ \A h \in Chains : chain[h] = s[h][c[h]]
  /\ (\A p \in Procs : pc[p] # "delunlink") => free = s["free"][c["free"]]
  /\ \A h \in Lists : \A r \in 1..c[h] :
       ~Unlinking(s[h][r]) => idx[s[h][r]].ptr = s[h][r - 1]

\* Chains have live records of their own keys, no key twice; the free list has
\* blank ones.
KeysOK(s, c) ==
  /\ \A h \in Chains : \A r \in 1..c[h] :
       ~Unlinking(s[h][r]) => idx[s[h][r]].key # Blank /\ Hash[idx[s[h][r]].key] = h
  /\ \A r \in 1..c["free"] :
       ~Unlinking(s["free"][r]) /\ idx[s["free"][r]].key = Blank
  /\ \A h \in Chains : \A r, t \in 1..c[h] :
       idx[s[h][r]].key = idx[s[h][t]].key /\ idx[s[h][r]].key # Blank => r = t

Listed(s, c, i) == \E h \in Lists : \E r \in 1..c[h] : s[h][r] = i

\* Where db_store has a record that is on no list.
BlankPCs == {"ffunlock", "reusedat", "reuseidx"}
HeldPCs == BlankPCs \cup {"link"}

\* Every record is on a list, or db_store has it, or it cannot be pointed to.
CoverOK(s, c) ==
  \A i \in 1..Len(idx) :
    \/ Listed(s, c, i) \/ PtrMax < i
    \/ \E p \in Procs : pc[p] \in HeldPCs /\ db[p].idxoff = i

\* No record is held twice.
HeldOK ==
  \A p, q \in Procs : pc[p] \in HeldPCs /\ pc[q] \in HeldPCs /\ p # q =>
    db[p].idxoff # db[q].idxoff

\* Where a process has found its key, and where it knows that the key is absent.
HasPCs == {"found", "readdat", "dellock", "overwrite", "delwdat", "delrfree", "delwidx"}
HeadPCs == {"fflock", "datlock", "datend", "datwrite", "taillock", "tailend", "tailwrite",
            "link", "reusedat", "reuseidx"} \cup FreePCs

\* What process p knows of the lists it has locked.
Absent(s, c, p) == \A r \in 1..c[ChainOf(p)] : idx[s[ChainOf(p)][r]].key # db[p].key

OnList(s, c, p, h, r) ==
  /\ db[p].idxoff = s[h][r] /\ db[p].ptroff = Before(s, c, h, r)
  /\ db[p].ptrval = s[h][r - 1]

Walks(s, c, p) ==
  pc[p] = "walk" =>
    \E r \in 0..c[ChainOf(p)] :
      /\ db[p].off = s[ChainOf(p)][r] /\ db[p].ptroff = Before(s, c, ChainOf(p), r)
      /\ \A t \in (r + 1)..c[ChainOf(p)] : idx[s[ChainOf(p)][t]].key # db[p].key

Has(s, c, p) ==
  /\ pc[p] \in HasPCs \cup SavedPCs =>
       \E r \in 1..c[ChainOf(p)] : OnList(s, c, p, ChainOf(p), r)
  /\ pc[p] \in HasPCs => idx[db[p].idxoff].key = db[p].key

Deletes(s, c, p) ==
  /\ pc[p] \in SavedPCs \cup {"delwidx"} => db[p].freeptr = s["free"][c["free"]]
  /\ pc[p] \in SavedPCs =>
       idx[db[p].idxoff].key = Blank /\ idx[db[p].idxoff].ptr = db[p].freeptr
  /\ pc[p] = "delunlink" => free = db[p].idxoff

Lacks(s, c, p) ==
  /\ pc[p] \in HeadPCs \cup SavedPCs \cup {"delunlock", "reread"} => Absent(s, c, p)
  /\ pc[p] \in HeadPCs => db[p].head = chain[ChainOf(p)]

FreeWalks(s, c, p) ==
  /\ pc[p] = "ffwalk" =>
       \E r \in 0..c["free"] :
         db[p].off = s["free"][r] /\ db[p].ptroff = Before(s, c, "free", r)
  /\ pc[p] = "ffunlink" => \E r \in 1..c["free"] : OnList(s, c, p, "free", r)

Holds(s, c, p) ==
  /\ pc[p] \in HeldPCs => ~Listed(s, c, db[p].idxoff)
  /\ pc[p] \in BlankPCs => idx[db[p].idxoff].key = Blank
  /\ pc[p] = "link" =>
       idx[db[p].idxoff].key = db[p].key /\ idx[db[p].idxoff].ptr = db[p].head

ProcOK(s, c, p) ==
  /\ Walks(s, c, p) /\ Has(s, c, p) /\ Deletes(s, c, p) /\ Lacks(s, c, p)
  /\ FreeWalks(s, c, p) /\ Holds(s, c, p)

Shape(s, c) ==
  /\ StacksOK(s, c, Len(idx)) /\ LinksOK(s, c) /\ KeysOK(s, c) /\ CoverOK(s, c) /\ HeldOK
  /\ \A p \in Procs : ProcOK(s, c, p)

\* The lists are what the pointers in the index file make them.
SInv == \E s \in [Lists -> [Nat -> Nat]], c \in [Lists -> Nat] : Shape(s, c)

\* Whole data behind a live key, except where _db_dodelete has blanked the data
\* and not yet the key.
Good(v, l) == v \in Vals /\ DatLen[v] = l

DataOK ==
  \A i \in 1..Len(idx) :
    idx[i].key # Blank /\ ~(\E p \in Procs : pc[p] \in {"delrfree", "delwidx"} /\ db[p].idxoff = i)
      => Good(dat[idx[i].dat], idx[i].dlen)

\* What a process has read of a record is still true of it, and the data that no
\* index record names yet are the ones of this db_store.
ReadPCs == HasPCs \cup {"nreaddat"}
ReadOK(p) ==
  /\ pc[p] \in ReadPCs =>
       /\ idx[db[p].idxoff].dat = db[p].datoff /\ idx[db[p].idxoff].dlen = db[p].datlen
       /\ db[p].idxoff \in 1..Len(idx)
  /\ pc[p] = "nreaddat" => idx[db[p].idxoff].key = db[p].key /\ db[p].key # Blank
  /\ pc[p] = "overwrite" => DatLen[db[p].val] = db[p].datlen
  /\ pc[p] \in PendingPCs \cup {"reuseidx"} => dat[db[p].datoff] = db[p].val

RInv == DataOK /\ \A p \in Procs : ReadOK(p)
-----------------------------------------------------------------------------
(* Stacks: adding at the head, removing anywhere. *)
Stacks == [Lists -> [Nat -> Nat]]
Counts == [Lists -> Nat]

Push(s, c, h, i) == [s EXCEPT ![h] = [s[h] EXCEPT ![c[h] + 1] = i]]
More(c, h) == [c EXCEPT ![h] = c[h] + 1]

Cut(s, h, r) == [s EXCEPT ![h] = [t \in Nat |-> IF t < r THEN s[h][t] ELSE s[h][t + 1]]]
Less(c, h) == [c EXCEPT ![h] = c[h] - 1]

\* What a list holds after a record was added at its head,
LEMMA PushIs ==
  ASSUME NEW s \in Stacks, NEW c \in Counts, NEW h \in Lists, NEW i \in Nat
  PROVE /\ Push(s, c, h, i) \in Stacks /\ More(c, h) \in Counts
        /\ More(c, h)[h] = c[h] + 1 /\ Push(s, c, h, i)[h][c[h] + 1] = i
        /\ \A t \in Nat : t # c[h] + 1 => Push(s, c, h, i)[h][t] = s[h][t]
        /\ \A g \in Lists : g # h => Push(s, c, h, i)[g] = s[g] /\ More(c, h)[g] = c[g]
<1>1. c[h] \in Nat /\ s[h] \in [Nat -> Nat]
  BY DEF Stacks, Counts
<1>2. [s[h] EXCEPT ![c[h] + 1] = i] \in [Nat -> Nat]
  BY <1>1
<1> QED BY <1>1, <1>2 DEF Push, More, Stacks, Counts

\* and after one was removed from inside it.
LEMMA CutIs ==
  ASSUME NEW s \in Stacks, NEW c \in Counts, NEW h \in Lists, NEW r \in 1..c[h]
  PROVE /\ Cut(s, h, r) \in Stacks /\ Less(c, h) \in Counts
        /\ Less(c, h)[h] = c[h] - 1
        /\ \A t \in Nat : /\ t < r => Cut(s, h, r)[h][t] = s[h][t]
                          /\ r <= t => Cut(s, h, r)[h][t] = s[h][t + 1]
        /\ \A g \in Lists : g # h => Cut(s, h, r)[g] = s[g] /\ Less(c, h)[g] = c[g]
<1>1. c[h] \in Nat /\ s[h] \in [Nat -> Nat] /\ c[h] - 1 \in Nat /\ r \in Nat
  BY DEF Stacks, Counts
<1> DEFINE f == [t \in Nat |-> IF t < r THEN s[h][t] ELSE s[h][t + 1]]
<1>2. f \in [Nat -> Nat]
  BY <1>1
<1>3. \A t \in Nat : /\ t < r => f[t] = s[h][t]
                     /\ r <= t => f[t] = s[h][t + 1]
  BY <1>1
<1> HIDE DEF f
<1>4. Cut(s, h, r) = [s EXCEPT ![h] = f]
  BY DEF Cut, f
<1> QED BY <1>1, <1>2, <1>3, <1>4 DEF Less, Stacks, Counts

\* Adding a record that was on no list,
LEMMA PushStacks ==
  ASSUME NEW s \in Stacks, NEW c \in Counts, NEW h \in Lists, NEW n \in Nat,
         NEW i \in 1..n, i <= PtrMax, StacksOK(s, c, n), ~Listed(s, c, i)
  PROVE /\ StacksOK(Push(s, c, h, i), More(c, h), n)
        /\ \A j : Listed(Push(s, c, h, i), More(c, h), j) <=> Listed(s, c, j) \/ j = i
<1> PICK s2, c2 : s2 = Push(s, c, h, i) /\ c2 = More(c, h)
  OBVIOUS
<1>1. /\ s2 \in Stacks /\ c2 \in Counts
      /\ c2[h] = c[h] + 1 /\ s2[h][c[h] + 1] = i
      /\ \A t \in Nat : t # c[h] + 1 => s2[h][t] = s[h][t]
      /\ \A g \in Lists : g # h => s2[g] = s[g] /\ c2[g] = c[g]
  <2>1. i \in Nat
    OBVIOUS
  <2>2. s2 \in Stacks /\ c2 \in Counts
    BY <2>1, PushIs
  <2>3. c2[h] = c[h] + 1 /\ s2[h][c[h] + 1] = i
    BY <2>1, PushIs
  <2>4. \A t \in Nat : t # c[h] + 1 => s2[h][t] = s[h][t]
    BY SMTT(60), <2>1, PushIs
  <2>5. \A g \in Lists : g # h => s2[g] = s[g] /\ c2[g] = c[g]
    BY SMTT(60), <2>1, PushIs
  <2> QED BY <2>2, <2>3, <2>4, <2>5
<1>2. \A g \in Lists : c[g] \in Nat /\ c2[g] \in Nat
  BY <1>1 DEF Counts
<1>3. \A g \in Lists : s2[g][0] = 0
  BY <1>1, <1>2 DEF StacksOK
<1>4. ASSUME NEW g \in Lists, NEW t \in 1..c2[g]
      PROVE (g = h /\ t = c[h] + 1 /\ s2[g][t] = i) \/ (t \in 1..c[g] /\ s2[g][t] = s[g][t])
  BY <1>1, <1>2
<1>5. \A g \in Lists : \A t \in 1..c[g] : t \in 1..c2[g] /\ s2[g][t] = s[g][t]
  BY <1>1, <1>2
<1>6. \A g \in Lists : \A t \in 1..c2[g] : s2[g][t] \in 1..n /\ s2[g][t] <= PtrMax
  BY <1>4 DEF StacksOK
<1>7. ASSUME NEW g \in Lists, NEW k \in Lists, NEW r \in 1..c2[g], NEW t \in 1..c2[k],
             s2[g][r] = s2[k][t]
      PROVE g = k /\ r = t
  BY <1>4, <1>7 DEF StacksOK, Listed
<1>8. ASSUME NEW j PROVE Listed(s2, c2, j) <=> Listed(s, c, j) \/ j = i
  <2>1. i = s2[h][c[h] + 1] /\ c[h] + 1 \in 1..c2[h]
    BY <1>1, <1>2
  <2> QED BY <1>4, <1>5, <2>1 DEF Listed
<1> QED BY <1>3, <1>6, <1>7, <1>8 DEF StacksOK

\* and removing one, keep the lists apart.
LEMMA CutStacks ==
  ASSUME NEW s \in Stacks, NEW c \in Counts, NEW h \in Lists, NEW n \in Nat,
         NEW r \in 1..c[h], StacksOK(s, c, n)
  PROVE /\ StacksOK(Cut(s, h, r), Less(c, h), n)
        /\ \A j : Listed(Cut(s, h, r), Less(c, h), j) <=> Listed(s, c, j) /\ j # s[h][r]
<1> PICK s2, c2 : s2 = Cut(s, h, r) /\ c2 = Less(c, h)
  OBVIOUS
<1>1. /\ s2 \in Stacks /\ c2 \in Counts
      /\ c2[h] = c[h] - 1
      /\ \A t \in Nat : /\ t < r => s2[h][t] = s[h][t]
                        /\ r <= t => s2[h][t] = s[h][t + 1]
      /\ \A g \in Lists : g # h => s2[g] = s[g] /\ c2[g] = c[g]
  BY CutIs
<1>2. \A g \in Lists : c[g] \in Nat /\ c2[g] \in Nat
  BY <1>1 DEF Counts
<1>3. \A g \in Lists : s2[g][0] = 0
  BY <1>1, <1>2 DEF StacksOK
<1>4. ASSUME NEW g \in Lists, NEW t \in 1..c2[g]
      PROVE \/ t \in 1..c[g] /\ s2[g][t] = s[g][t] /\ (g = h => t < r)
            \/ g = h /\ r <= t /\ t + 1 \in 1..c[h] /\ s2[g][t] = s[h][t + 1]
  BY <1>1, <1>2
<1>5. \A g \in Lists : \A t \in 1..c2[g] : s2[g][t] \in 1..n /\ s2[g][t] <= PtrMax
  BY <1>4 DEF StacksOK
<1>6. ASSUME NEW g \in Lists, NEW k \in Lists, NEW x \in 1..c2[g], NEW t \in 1..c2[k],
             s2[g][x] = s2[k][t]
      PROVE g = k /\ x = t
  <2>1. CASE x \in 1..c[g] /\ s2[g][x] = s[g][x] /\ (g = h => x < r)
    <3>1. CASE t \in 1..c[k] /\ s2[k][t] = s[k][t] /\ (k = h => t < r)
      <4>1. s[g][x] = s[k][t]
        BY <1>6, <2>1, <3>1
      <4> QED BY <2>1, <3>1, <4>1 DEF StacksOK
    <3>2. CASE k = h /\ r <= t /\ t + 1 \in 1..c[h] /\ s2[k][t] = s[h][t + 1]
      <4>1. g = h /\ x = t + 1
        <5>1. s[g][x] = s[h][t + 1]
          BY <1>6, <2>1, <3>2
        <5> QED BY <2>1, <3>2, <5>1 DEF StacksOK
      <4> QED BY <1>2, <2>1, <3>2, <4>1
    <3> QED BY <1>4, <3>1, <3>2
  <2>2. CASE g = h /\ r <= x /\ x + 1 \in 1..c[h] /\ s2[g][x] = s[h][x + 1]
    <3>1. CASE t \in 1..c[k] /\ s2[k][t] = s[k][t] /\ (k = h => t < r)
      <4>1. k = h /\ t = x + 1
        BY <1>6, <2>2, <3>1 DEF StacksOK
      <4> QED BY <1>2, <2>2, <3>1, <4>1
    <3>2. CASE k = h /\ r <= t /\ t + 1 \in 1..c[h] /\ s2[k][t] = s[h][t + 1]
      <4>1. x + 1 = t + 1
        BY <1>6, <2>2, <3>2 DEF StacksOK
      <4> QED BY <1>2, <2>2, <3>2, <4>1
    <3> QED BY <1>4, <3>1, <3>2
  <2> QED BY <1>4, <2>1, <2>2
<1>7. ASSUME NEW j PROVE Listed(s2, c2, j) <=> Listed(s, c, j) /\ j # s[h][r]
  <2>1. ASSUME Listed(s2, c2, j) PROVE Listed(s, c, j) /\ j # s[h][r]
    <3>1. PICK g \in Lists : \E t \in 1..c2[g] : s2[g][t] = j
      BY <2>1 DEF Listed
    <3>2. PICK t \in 1..c2[g] : s2[g][t] = j
      BY <3>1
    <3>3. CASE t \in 1..c[g] /\ s2[g][t] = s[g][t] /\ (g = h => t < r)
      BY <1>2, <3>2, <3>3 DEF Listed, StacksOK
    <3>4. CASE g = h /\ r <= t /\ t + 1 \in 1..c[h] /\ s2[g][t] = s[h][t + 1]
      <4>1. t + 1 # r
        BY <1>2, <3>4
      <4> QED BY <3>2, <3>4, <4>1 DEF Listed, StacksOK
    <3> QED BY <1>4, <3>3, <3>4
  <2>2. ASSUME Listed(s, c, j), j # s[h][r] PROVE Listed(s2, c2, j)
    <3>1. PICK g \in Lists : \E t \in 1..c[g] : s[g][t] = j
      BY <2>2 DEF Listed
    <3>2. PICK t \in 1..c[g] : s[g][t] = j
      BY <3>1
    <3>3. CASE g # h
      BY <1>1, <3>2, <3>3 DEF Listed
    <3>4. CASE g = h /\ t < r
      <4>1. t \in 1..c2[h] /\ s2[h][t] = j
        BY <1>1, <1>2, <3>2, <3>4
      <4> QED BY <4>1 DEF Listed
    <3>5. CASE g = h /\ r < t
      <4>1. t - 1 \in 1..c2[h] /\ s2[h][t - 1] = s[h][t - 1 + 1] /\ t - 1 + 1 = t
        BY <1>1, <1>2, <3>2, <3>5
      <4> QED BY <3>2, <3>5, <4>1 DEF Listed
    <3>6. g = h => t # r
      BY <2>2, <3>2
    <3> QED BY <1>2, <3>2, <3>3, <3>4, <3>5, <3>6
  <2> QED BY <2>1, <2>2
<1> QED BY <1>3, <1>5, <1>6, <1>7 DEF StacksOK
-----------------------------------------------------------------------------
(* What a step of one process leaves alone. *)
Same(q) == db'[q] = db[q] /\ pc'[q] = pc[q]
Others(p) == \A q \in Procs \ {p} : Same(q)

\* A step of p leaves every other process where it is.
LEMMA OthersSame ==
  ASSUME TInv, NEW p \in Procs, Step(p)
  PROVE Others(p)
  BY OneProcess DEF Others, Same, TInv, ProcsOK

\* The types of what process p has, at its place.
LEMMA HasTypes ==
  ASSUME TInv, NEW p \in Procs
  PROVE /\ db[p] \in Calls /\ pc[p] \in PCs
        /\ pc[p] \in ChainPCs \cup {"lock"} =>
             /\ ChainOf(p) \in Chains /\ ChainOf(p) \in Lists /\ ChainOf(p) # "free"
             /\ db[p].key \in Keys /\ db[p].key # Blank
        /\ pc[p] \in IdxPCs => db[p].idxoff \in 1..Len(idx)
        /\ pc[p] \in StorePCs => db[p].op = "store" /\ db[p].val \in Vals
        /\ pc[p] \in DelPCs \cup {"dellock"} => db[p].op # "fetch"
        /\ db[p].ptroff \in 0..Len(idx) /\ db[p].off \in 0..Len(idx)
        /\ Len(idx) \in Nat
<1>1. CallOK(db[p], pc[p], Len(idx), Len(dat)) /\ Len(idx) \in Nat
  BY CallNow DEF TInv, FilesOK
<1>2. pc[p] \in ChainPCs \cup {"lock"} => db[p].key \in Keys
  BY <1>1 DEF CallOK
<1>3. \A k \in Keys : Hash[k] \in Chains /\ k # Blank
  BY DbAssumption
<1>4. "free" \notin Chains
  BY DbAssumption
<1> QED BY <1>1, <1>2, <1>3, <1>4 DEF CallOK, PtrsOK, ChainOf, Lists

\* Who works on a list works alone on it.
LEMMA Alone ==
  ASSUME TInv, LInv, NEW p \in Procs, NEW q \in Procs, p # q
  PROVE /\ pc[p] \in DelPCs \cup FreePCs => pc[q] \notin DelPCs \cup FreePCs \cup NextPCs
        /\ pc[p] \in ChainPCs /\ pc[q] \in ChainPCs /\ db[p].op # "fetch"
             => ChainOf(q) # ChainOf(p)
  BY SerialInv DEF Serialised

\* A process whose lists, records and pointers stay what they were knows what it
\* knew: first its chain,
LEMMA OtherChain ==
  ASSUME NEW q \in Procs, NEW s, NEW c \in Counts, NEW s2, NEW c2, Same(q),
         Walks(s, c, q), Has(s, c, q), Lacks(s, c, q),
         pc[q] \in ChainPCs => ChainOf(q) \in Lists,
         pc[q] \in ChainPCs =>
           /\ s2[ChainOf(q)] = s[ChainOf(q)] /\ c2[ChainOf(q)] = c[ChainOf(q)]
           /\ chain'[ChainOf(q)] = chain[ChainOf(q)]
           /\ \A r \in 1..c[ChainOf(q)] :
                idx'[s[ChainOf(q)][r]].key = idx[s[ChainOf(q)][r]].key
  PROVE Walks(s2, c2, q)' /\ Has(s2, c2, q)' /\ Lacks(s2, c2, q)'
<1> PICK h : h = ChainOf(q)
  OBVIOUS
<1>0. ChainOf(q)' = h /\ pc'[q] = pc[q] /\ db'[q] = db[q]
  BY DEF Same, ChainOf
<1>1. CASE pc[q] \notin ChainPCs
  BY <1>0, <1>1 DEF Walks, Has, Lacks, ChainPCs, HasPCs, SavedPCs, HeadPCs, DelPCs, FreePCs
<1>2. CASE pc[q] \in ChainPCs
  <2>0. /\ s2[h] = s[h] /\ c2[h] = c[h] /\ chain'[h] = chain[h] /\ c[h] \in Nat
        /\ \A r \in 1..c[h] : idx'[s[h][r]].key = idx[s[h][r]].key
    BY <1>2 DEF Counts
  <2>1. Walks(s2, c2, q)'
    <3> SUFFICES ASSUME pc[q] = "walk"
        PROVE \E r \in 0..c[h] :
                /\ db[q].off = s2[h][r] /\ db[q].ptroff = Before(s2, c2, h, r)
                /\ \A t \in (r + 1)..c[h] : idx'[s2[h][t]].key # db[q].key
      BY <1>0, <2>0 DEF Walks
    <3>1. PICK r \in 0..c[h] :
            /\ db[q].off = s[h][r] /\ db[q].ptroff = Before(s, c, h, r)
            /\ \A t \in (r + 1)..c[h] : idx[s[h][t]].key # db[q].key
      BY DEF Walks
    <3>2. \A t \in (r + 1)..c[h] : t \in 1..c[h]
      BY <2>0
    <3> QED BY <2>0, <3>1, <3>2 DEF Before
  <2>2. Has(s2, c2, q)'
    <3>1. ASSUME pc[q] \in HasPCs \cup SavedPCs
          PROVE \E r \in 1..c2[h] : OnList(s2, c2, q, h, r)
      BY <2>0, <3>1 DEF Has, OnList, Before
    <3>2. ASSUME pc[q] \in HasPCs PROVE idx'[db[q].idxoff].key = db[q].key
      BY <2>0, <3>2 DEF Has, OnList
    <3>3. \A r \in 1..c2[h] : OnList(s2, c2, q, h, r) =>
            /\ db'[q].idxoff = s2[h][r] /\ db'[q].ptroff = Before(s2, c2, h, r)
            /\ db'[q].ptrval = s2[h][r - 1]
      BY <1>0 DEF OnList
    <3> QED BY <1>0, <3>1, <3>2, <3>3 DEF Has, OnList
  <2>3. Lacks(s2, c2, q)'
    BY <1>0, <2>0 DEF Lacks, Absent
  <2> QED BY <2>1, <2>2, <2>3
<1> QED BY <1>1, <1>2

\* then the free list,
LEMMA OtherFree ==
  ASSUME NEW q \in Procs, NEW s, NEW c, NEW s2, NEW c2, Same(q),
         Deletes(s, c, q), FreeWalks(s, c, q),
         \/ pc[q] \notin DelPCs \cup FreePCs
         \/ /\ s2["free"] = s["free"] /\ c2["free"] = c["free"] /\ free' = free
            /\ pc[q] \in SavedPCs => idx'[db[q].idxoff] = idx[db[q].idxoff]
  PROVE Deletes(s2, c2, q)' /\ FreeWalks(s2, c2, q)'
<1>0. pc'[q] = pc[q] /\ db'[q] = db[q]
  BY DEF Same
<1>1. CASE pc[q] \notin DelPCs \cup FreePCs
  BY <1>0, <1>1 DEF Deletes, FreeWalks, SavedPCs, DelPCs, FreePCs
<1>2. CASE /\ s2["free"] = s["free"] /\ c2["free"] = c["free"] /\ free' = free
           /\ pc[q] \in SavedPCs => idx'[db[q].idxoff] = idx[db[q].idxoff]
  BY <1>0, <1>2 DEF Deletes, FreeWalks, OnList, Before
<1> QED BY <1>1, <1>2

\* then the record it has and that is on no list.
LEMMA OtherHeld ==
  ASSUME NEW q \in Procs, NEW s, NEW c, NEW s2, NEW c2, Same(q), Holds(s, c, q),
         pc[q] \in HeldPCs =>
           ~Listed(s2, c2, db[q].idxoff) /\ idx'[db[q].idxoff] = idx[db[q].idxoff]
  PROVE Holds(s2, c2, q)'
  BY DEF Same, Holds, HeldPCs, BlankPCs, Listed

\* A step that only moves p, and neither begins nor ends an unlink or a hold.
LEMMA QuietStep ==
  ASSUME TInv, NEW s \in Stacks, NEW c \in Counts, Shape(s, c), NEW p \in Procs, Others(p),
         idx' = idx, chain' = chain, free' = free,
         pc[p] \notin SavedPCs, pc'[p] \notin SavedPCs,
         pc[p] \in HeldPCs \/ pc'[p] \in HeldPCs =>
           pc[p] \in HeldPCs /\ pc'[p] \in HeldPCs /\ db'[p].idxoff = db[p].idxoff,
         ProcOK(s, c, p)'
  PROVE Shape(s, c)'
<1>0. \A q \in Procs : q # p => db'[q] = db[q] /\ pc'[q] = pc[q]
  BY DEF Others, Same
<1>1. \A i : Unlinking(i)' <=> Unlinking(i)
  BY <1>0 DEF Unlinking
<1>2. StacksOK(s, c, Len(idx))' /\ KeysOK(s, c)'
  BY <1>1 DEF Shape, StacksOK, KeysOK
<1>3. LinksOK(s, c)'
  <2>1. (\A q \in Procs : pc'[q] # "delunlink") => \A q \in Procs : pc[q] # "delunlink"
    BY <1>0 DEF SavedPCs
  <2> QED BY <1>1, <2>1 DEF Shape, LinksOK
<1>4. \A q \in Procs : pc'[q] \in HeldPCs <=> pc[q] \in HeldPCs
  BY <1>0
<1>5. \A q \in Procs : pc[q] \in HeldPCs => db'[q].idxoff = db[q].idxoff
  BY <1>0
<1>6. CoverOK(s, c)' /\ HeldOK'
  BY <1>4, <1>5 DEF Shape, CoverOK, HeldOK, Listed
<1>7. ASSUME NEW q \in Procs, q # p PROVE ProcOK(s, c, q)'
  <2>1. Same(q) /\ ProcOK(s, c, q)
    BY <1>7 DEF Others, Shape
  <2>2. pc[q] \in ChainPCs => ChainOf(q) \in Lists
    BY HasTypes
  <2>3. Walks(s, c, q)' /\ Has(s, c, q)' /\ Lacks(s, c, q)'
    BY <2>1, <2>2, OtherChain DEF ProcOK
  <2>4. Deletes(s, c, q)' /\ FreeWalks(s, c, q)'
    BY <2>1, OtherFree DEF ProcOK
  <2>5. Holds(s, c, q)'
    BY <2>1, OtherHeld DEF ProcOK, Holds
  <2> QED BY <2>3, <2>4, <2>5 DEF ProcOK
<1> QED BY <1>2, <1>3, <1>6, <1>7 DEF Shape
-----------------------------------------------------------------------------
(* The steps that write no pointer. *)
\* Places at which a process knows nothing of a list,
IdlePCs == {"idle", "lock", "nlock", "return", "dead", "readptr", "unlock"} \cup NextPCs
\* and places in the middle of db_store that concern the chain only.
StorePlaces == {"fflock", "ffread", "datlock", "datend", "datwrite", "taillock", "tailend",
                "tailwrite", "delunlock", "reread"}

\* At the first nothing need be known,
LEMMA IdleKnows ==
  ASSUME NEW s, NEW c, NEW p, pc'[p] \in IdlePCs
  PROVE ProcOK(s, c, p)' /\ pc'[p] \notin SavedPCs /\ pc'[p] \notin HeldPCs
  BY DEF ProcOK, Walks, Has, Deletes, Lacks, FreeWalks, Holds, IdlePCs, NextPCs, HasPCs, SavedPCs,
     HeadPCs, FreePCs, HeldPCs, BlankPCs

\* where the key was found, the place of its record,
LEMMA HasKnows ==
  ASSUME NEW s, NEW c, NEW p, pc'[p] \in HasPCs, Has(s, c, p)',
         pc'[p] = "delwidx" => db'[p].freeptr = s["free"][c["free"]]
  PROVE ProcOK(s, c, p)' /\ pc'[p] \notin SavedPCs /\ pc'[p] \notin HeldPCs
  BY DEF ProcOK, Walks, Deletes, Lacks, FreeWalks, Holds, HasPCs, SavedPCs,
     HeadPCs, FreePCs, HeldPCs, BlankPCs

\* at the second, that the key is absent,
LEMMA StoreKnows ==
  ASSUME NEW s, NEW c, NEW p, pc'[p] \in StorePlaces, Lacks(s, c, p)'
  PROVE ProcOK(s, c, p)' /\ pc'[p] \notin SavedPCs /\ pc'[p] \notin HeldPCs
  BY DEF ProcOK, Walks, Has, Deletes, FreeWalks, Holds, HasPCs, SavedPCs,
     HeldPCs, BlankPCs, StorePlaces

\* and in the search of the free list also the place reached.
LEMMA FreeKnows ==
  ASSUME NEW s, NEW c, NEW p, pc'[p] \in {"ffwalk", "ffunlink"}, Lacks(s, c, p)', FreeWalks(s, c, p)'
  PROVE ProcOK(s, c, p)' /\ pc'[p] \notin SavedPCs /\ pc'[p] \notin HeldPCs
  BY DEF ProcOK, Walks, Has, Deletes, Holds, HasPCs, SavedPCs, HeldPCs, BlankPCs

\* What p knows of its chain stays true while the chain and its place stay.
LEMMA KeepsHas ==
  ASSUME NEW s, NEW c, NEW p, Has(s, c, p), pc[p] \in HasPCs, pc'[p] \in HasPCs, idx' = idx,
         db'[p].key = db[p].key, db'[p].idxoff = db[p].idxoff, db'[p].ptroff = db[p].ptroff,
         db'[p].ptrval = db[p].ptrval
  PROVE Has(s, c, p)'
  BY DEF Has, OnList, ChainOf, HasPCs, SavedPCs

\* So does what it knows to be absent.
LEMMA KeepsLacks ==
  ASSUME NEW s, NEW c, NEW p, Absent(s, c, p), idx' = idx, chain' = chain,
         db'[p].key = db[p].key,
         pc'[p] \in HeadPCs => db'[p].head = chain[ChainOf(p)]
  PROVE Lacks(s, c, p)'
  BY DEF Lacks, Absent, ChainOf

\* A step to a place where nothing need be known,
LEMMA IdleStep ==
  ASSUME TInv, NEW s \in Stacks, NEW c \in Counts, Shape(s, c), NEW p \in Procs, Step(p),
         idx' = idx, chain' = chain, free' = free,
         pc[p] \notin SavedPCs \cup HeldPCs, pc'[p] \in IdlePCs
  PROVE Shape(s, c)'
<1>1. Others(p)
  BY OthersSame
<1>2. ProcOK(s, c, p)' /\ pc'[p] \notin SavedPCs /\ pc'[p] \notin HeldPCs
  BY IdleKnows
<1> QED BY <1>1, <1>2, QuietStep

\* as calls, returns and the steps of db_nextrec are.
LEMMA CallShape ==
  ASSUME TInv, NEW s \in Stacks, NEW c \in Counts, Shape(s, c), NEW p \in Procs,
         Call(p) \/ Nextrec(p) \/ Return(p)
  PROVE Shape(s, c)'
<1>1. Step(p)
  BY DEF Step, Run
<1>2. idx' = idx /\ chain' = chain /\ free' = free
  BY DEF Call, CallFetch, CallDelete, CallStore, CallNextrec, call, db_rewind, Return,
     Nextrec, NextLock, NextRead, NextReadDat, NextEOF, NextMisread, NextUnlock, Die, files
<1>3. pc[p] \in {"idle", "return", "nlock", "nread", "nreaddat", "nunlock"}
  BY DEF Call, CallFetch, CallDelete, CallStore, CallNextrec, call, db_rewind, Return,
     Nextrec, NextLock, NextRead, NextReadDat, NextEOF, NextMisread, NextUnlock, At
<1>4. pc[p] \notin SavedPCs \cup HeldPCs
  BY <1>3 DEF SavedPCs, HeldPCs, BlankPCs
<1>5. pc'[p] \in IdlePCs
  <2>0. pc \in [Procs -> PCs]
    BY DEF TInv, ProcsOK
  <2>1. CASE Call(p)
    BY <2>0, <2>1, Zenon DEF Call, CallFetch, CallDelete, CallStore, CallNextrec, call, db_rewind, Jump,
       At, IdlePCs
  <2>2. CASE Nextrec(p)
    BY <2>0, <2>2 DEF Nextrec, NextLock, NextRead, NextReadDat, NextEOF, NextMisread, NextUnlock, Die,
       Jump, At, IdlePCs, NextPCs
  <2>3. CASE Return(p)
    BY <2>0, <2>3 DEF Return, Jump, IdlePCs
  <2> QED BY <2>1, <2>2, <2>3
<1> QED BY <1>1, <1>2, <1>4, <1>5, IdleStep

\* What p reads at slot i, in the fields that follow the lists.
LEMMA ReadFields ==
  ASSUME NEW d \in Calls, NEW i
  PROVE /\ ReadIdx(d, i).idxoff = i /\ ReadIdx(d, i).ptrval = idx[i].ptr
        /\ ReadIdx(d, i).key = d.key /\ ReadIdx(d, i).ptroff = d.ptroff
        /\ ReadIdx(d, i).head = d.head /\ ReadIdx(d, i).off = d.off
        /\ ReadIdx(d, i).datoff = idx[i].dat /\ ReadIdx(d, i).datlen = idx[i].dlen
        /\ ReadIdx(d, i).val = d.val /\ ReadIdx(d, i).op = d.op
  BY DEF ReadIdx, Calls

\* The head of the chain is the top of its stack.
LEMMA StartWalk ==
  ASSUME TInv, LInv, NEW s \in Stacks, NEW c \in Counts, Shape(s, c), NEW p \in Procs,
         ReadChainPtr(p)
  PROVE Shape(s, c)'
<1> PICK h : h = ChainOf(p)
  OBVIOUS
<1>0. /\ pc[p] = "readptr" /\ pc'[p] = "walk" /\ db[p] \in Calls /\ h \in Chains
      /\ h \in Lists /\ c[h] \in Nat
  BY HasTypes DEF ReadChainPtr, At, Jump, TInv, ProcsOK, ChainPCs, Counts
<1>1. /\ db'[p].key = db[p].key /\ db'[p].off = chain[h] /\ db'[p].ptroff = 0
      /\ idx' = idx /\ chain' = chain /\ free' = free
  BY <1>0 DEF ReadChainPtr, TInv, ProcsOK, Calls, files
<1>2. chain[h] = s[h][c[h]] /\ ChainOf(p)' = h
  BY <1>0, <1>1 DEF Shape, LinksOK, ChainOf
<1>3. Walks(s, c, p)'
  <2>1. c[h] \in 0..c[h] /\ Before(s, c, h, c[h]) = 0 /\ ~ \E t \in (c[h] + 1)..c[h] : TRUE
    BY <1>0 DEF Before
  <2> QED BY <1>1, <1>2, <2>1 DEF Walks
<1>4. ProcOK(s, c, p)' /\ pc'[p] \notin SavedPCs /\ pc'[p] \notin HeldPCs /\ pc[p] \notin SavedPCs
      /\ pc[p] \notin HeldPCs
  BY <1>0, <1>3 DEF ProcOK, Has, Deletes, Lacks, FreeWalks, Holds, HasPCs, SavedPCs,
     HeadPCs, FreePCs, HeldPCs, BlankPCs
<1>5. Others(p)
  BY OthersSame DEF Step, Run, Find
<1> QED BY <1>1, <1>4, <1>5, QuietStep

\* The record a search is at, when the chain does not end here: it is live, its
\* pointer is that of the stack.
LEMMA AtRecord ==
  ASSUME TInv, LInv, NEW s \in Stacks, NEW c \in Counts, Shape(s, c), NEW p \in Procs,
         pc[p] \in ChainPCs \ SavedPCs,
         NEW r \in 1..c[ChainOf(p)]
  PROVE LET i == s[ChainOf(p)][r]
        IN /\ ~Unlinking(i) /\ i \in 1..Len(idx) /\ i # 0
           /\ idx[i].ptr = s[ChainOf(p)][r - 1] /\ idx[i].key # Blank
<1> PICK h : h = ChainOf(p)
  OBVIOUS
<1> PICK i : i = s[h][r]
  OBVIOUS
<1>0. h \in Chains /\ h \in Lists
  BY HasTypes
<1>1. ~Unlinking(i)
  <2> SUFFICES ASSUME NEW q \in Procs, pc[q] \in SavedPCs, db[q].idxoff = i PROVE FALSE
    BY DEF Unlinking
  <2>1. q # p /\ pc[q] \in ChainPCs /\ pc[q] \in DelPCs
    BY DEF SavedPCs, ChainPCs, DelPCs
  <2> PICK g : g = ChainOf(q)
    OBVIOUS
  <2>2. h # g /\ g \in Lists
    BY <2>1, Alone, HasTypes
  <2>3. PICK t \in 1..c[g] : i = s[g][t]
    BY DEF Shape, ProcOK, Has, OnList
  <2>4. s[h][r] = s[g][t] /\ r \in 1..c[h]
    BY <2>3
  <2> QED BY <1>0, <2>2, <2>4 DEF Shape, StacksOK
<1>2. i \in 1..Len(idx) /\ i # 0
  <2>1. i \in 1..Len(idx) /\ Len(idx) \in Nat
    BY <1>0, HasTypes DEF Shape, StacksOK
  <2> QED BY <2>1
<1>3. idx[i].ptr = s[h][r - 1]
  BY <1>0, <1>1 DEF Shape, LinksOK
<1>4. idx[i].key # Blank
  BY <1>0, <1>1 DEF Shape, KeysOK
<1> QED BY <1>1, <1>2, <1>3, <1>4

\* One turn of the search loop of _db_find_and_lock.
LEMMA WalkShape ==
  ASSUME TInv, LInv, NEW s \in Stacks, NEW c \in Counts, Shape(s, c), NEW p \in Procs,
         WalkChain(p)
  PROVE Shape(s, c)'
<1> PICK h : h = ChainOf(p)
  OBVIOUS
<1> PICK i : i = db[p].off
  OBVIOUS
<1>0. /\ pc[p] = "walk" /\ db[p] \in Calls /\ h \in Chains
      /\ h \in Lists /\ c[h] \in Nat /\ i # 0 /\ pc[p] \in ChainPCs \ SavedPCs
  BY HasTypes DEF WalkChain, At, Jump, TInv, ProcsOK, ChainPCs, Counts, SavedPCs
<1>1. idx' = idx /\ chain' = chain /\ free' = free /\ Others(p)
  BY OthersSame DEF WalkChain, files, Step, Run, Find
<1>2. PICK r \in 0..c[h] :
        /\ i = s[h][r] /\ db[p].ptroff = Before(s, c, h, r)
        /\ \A t \in (r + 1)..c[h] : idx[s[h][t]].key # db[p].key
  BY <1>0 DEF Shape, ProcOK, Walks
<1>3. r \in 1..c[h] /\ r - 1 \in 0..c[h] /\ r \in Nat /\ r - 1 + 1 = r
  BY <1>0, <1>2 DEF Shape, StacksOK
<1>4. idx[i].ptr = s[h][r - 1]
  BY <1>0, <1>2, <1>3, AtRecord
<1>5. pc[p] \notin SavedPCs /\ pc[p] \notin HeldPCs
  BY <1>0 DEF SavedPCs, HeldPCs, BlankPCs
<1>6. CASE idx[i].key = db[p].key
  <2>1. db'[p] = [ReadIdx(db[p], i) EXCEPT !.found = TRUE] /\ pc'[p] = "found"
    BY <1>0, <1>6 DEF WalkChain, TInv, ProcsOK, Jump
  <2>2. /\ db'[p].key = db[p].key /\ db'[p].idxoff = i /\ db'[p].ptroff = db[p].ptroff
        /\ db'[p].ptrval = idx[i].ptr
    BY <1>0, <2>1 DEF ReadIdx, Calls
  <2>3. Has(s, c, p)'
    BY <1>1, <1>2, <1>3, <1>4, <1>6, <2>2 DEF Has, OnList, ChainOf
  <2>4. ProcOK(s, c, p)' /\ pc'[p] \notin SavedPCs /\ pc'[p] \notin HeldPCs
    BY <2>1, <2>3, HasKnows DEF HasPCs
  <2> QED BY <1>1, <1>5, <2>4, QuietStep
<1>7. CASE idx[i].key # db[p].key
  <2> DEFINE e == ReadIdx(db[p], i)
  <2>1. db'[p] = [e EXCEPT !.off = e.ptrval, !.ptroff = i] /\ pc'[p] = "walk"
    BY <1>0, <1>7 DEF WalkChain, TInv, ProcsOK, Jump
  <2>2. db'[p].key = db[p].key /\ db'[p].off = idx[i].ptr /\ db'[p].ptroff = i
    BY <1>0, <2>1 DEF ReadIdx, Calls
  <2>3. Before(s, c, h, r - 1) = s[h][r]
    BY <1>0, <1>3 DEF Before
  <2>4. \A t \in r..c[h] : idx[s[h][t]].key # db[p].key
    BY <1>0, <1>2, <1>3, <1>7
  <2>5. Walks(s, c, p)'
    <3>1. ChainOf(p)' = h
      BY <2>2 DEF ChainOf
    <3>2. /\ db'[p].off = s[h][r - 1] /\ db'[p].ptroff = Before(s, c, h, r - 1)
          /\ \A t \in (r - 1 + 1)..c[h] : idx'[s[h][t]].key # db'[p].key
      BY <1>1, <1>2, <1>3, <1>4, <2>2, <2>3, <2>4
    <3> QED BY <1>3, <3>1, <3>2 DEF Walks
  <2>6. ProcOK(s, c, p)' /\ pc'[p] \notin SavedPCs /\ pc'[p] \notin HeldPCs
    BY <2>1, <2>5 DEF ProcOK, Has, Deletes, Lacks, FreeWalks, Holds, HasPCs, SavedPCs,
       HeadPCs, FreePCs, HeldPCs, BlankPCs
  <2> QED BY <1>1, <1>5, <2>6, QuietStep
<1> QED BY <1>6, <1>7

\* The end of the search: the key is nowhere on the chain.
LEMMA NotFoundShape ==
  ASSUME TInv, LInv, NEW s \in Stacks, NEW c \in Counts, Shape(s, c), NEW p \in Procs,
         NotFound(p)
  PROVE Shape(s, c)'
<1> PICK h : h = ChainOf(p)
  OBVIOUS
<1>0. /\ pc[p] = "walk" /\ db[p] \in Calls /\ h \in Chains
      /\ h \in Lists /\ c[h] \in Nat /\ db[p].off = 0 /\ pc[p] \in ChainPCs \ SavedPCs
  BY HasTypes DEF NotFound, At, Jump, TInv, ProcsOK, ChainPCs, Counts, SavedPCs
<1>1. idx' = idx /\ chain' = chain /\ free' = free /\ Others(p)
  BY OthersSame DEF NotFound, files, Step, Run, Find
<1>2. PICK r \in 0..c[h] :
        /\ 0 = s[h][r] /\ \A t \in (r + 1)..c[h] : idx[s[h][t]].key # db[p].key
  BY <1>0 DEF Shape, ProcOK, Walks
<1>3. r = 0
  <2>1. r \in 1..c[h] => s[h][r] # 0
    BY <1>0, AtRecord
  <2> QED BY <1>0, <1>2, <2>1
<1>4. Absent(s, c, p)
  BY <1>2, <1>3 DEF Absent
<1>5. pc[p] \notin SavedPCs /\ pc[p] \notin HeldPCs
  BY <1>0 DEF SavedPCs, HeldPCs, BlankPCs
<1>6. CASE pc'[p] \in IdlePCs
  BY <1>1, <1>5, <1>6, IdleKnows, QuietStep
<1>7. CASE pc'[p] = "fflock" /\ db'[p].key = db[p].key /\ db'[p].head = chain[h]
  <2>1. Lacks(s, c, p)'
    BY <1>1, <1>4, <1>7, KeepsLacks
  <2> QED BY <1>1, <1>5, <1>7, <2>1, StoreKnows, QuietStep DEF StorePlaces
<1> QED BY <1>0, <1>6, <1>7 DEF NotFound, Jump, TInv, ProcsOK, IdlePCs, Calls

\* The lock of the chain, what db_fetch, db_delete and db_store do with the record
\* found, and the unlock.
LEMMA FindShape ==
  ASSUME TInv, LInv, NEW s \in Stacks, NEW c \in Counts, Shape(s, c), NEW p \in Procs, Find(p)
  PROVE Shape(s, c)'
<1>0. db[p] \in Calls /\ pc \in [Procs -> PCs] /\ db \in [Procs -> Calls]
  BY DEF TInv, ProcsOK
<1>1. CASE LockChain(p) \/ UnlockChain(p) \/ FetchData(p)
  <2>1. pc[p] \in {"lock", "unlock", "readdat"} /\ pc'[p] \in {"readptr", "return", "unlock"}
        /\ idx' = idx /\ chain' = chain /\ free' = free
    BY <1>0, <1>1 DEF LockChain, UnlockChain, FetchData, At, Jump, files
  <2>2. pc[p] \notin SavedPCs \cup HeldPCs /\ pc'[p] \in IdlePCs
    BY <2>1 DEF SavedPCs, HeldPCs, BlankPCs, IdlePCs
  <2> QED BY <2>1, <2>2, IdleStep DEF Step, Run
<1>2. CASE Found(p)
  <2>1. pc[p] = "found" /\ idx' = idx /\ chain' = chain /\ free' = free /\ Others(p)
    BY <1>2, OthersSame DEF Found, At, files, Step, Run, Find
  <2>2. pc[p] \notin SavedPCs \cup HeldPCs /\ pc[p] \in HasPCs
    BY <2>1 DEF SavedPCs, HeldPCs, BlankPCs, HasPCs
  <2>3. \/ pc'[p] = "unlock"
        \/ pc'[p] \in {"readdat", "dellock", "overwrite"} /\ db' = db
    <3>1. db[p].op \in {"fetch", "delete", "store"}
      BY <2>1, CallNow DEF CallOK, ChainPCs
    <3> QED BY <1>0, <1>2, <3>1 DEF Found, Jump
  <2>4. CASE pc'[p] = "unlock"
    BY <2>1, <2>2, <2>4, IdleStep DEF Step, Run, IdlePCs
  <2>5. CASE pc'[p] \in {"readdat", "dellock", "overwrite"} /\ db' = db
    <3>1. Has(s, c, p)'
      BY <2>1, <2>2, <2>5, KeepsHas DEF HasPCs, Shape, ProcOK
    <3> QED BY <2>1, <2>2, <2>5, <3>1, HasKnows, QuietStep DEF HasPCs
  <2> QED BY <2>3, <2>4, <2>5
<1> QED BY <1>1, <1>2, StartWalk, WalkShape, NotFoundShape DEF Find

\* Nobody else is in the middle of _db_dodelete when p has the free list.
LEMMA FreeTop ==
  ASSUME TInv, LInv, NEW s, NEW c, Shape(s, c), NEW p \in Procs,
         pc[p] \in (DelPCs \cup FreePCs) \ {"delunlink"}
  PROVE free = s["free"][c["free"]]
<1>1. \A q \in Procs : pc[q] # "delunlink"
  BY Alone DEF DelPCs
<1> QED BY <1>1 DEF Shape, LinksOK

\* _db_dodelete up to the read of the free-list pointer.
LEMMA DeleteShape ==
  ASSUME TInv, LInv, NEW s \in Stacks, NEW c \in Counts, Shape(s, c), NEW p \in Procs,
         DelLockFree(p) \/ DelWriteDat(p) \/ DelReadFree(p)
  PROVE Shape(s, c)'
<1>0. db[p] \in Calls /\ pc \in [Procs -> PCs] /\ db \in [Procs -> Calls]
  BY DEF TInv, ProcsOK
<1>1. idx' = idx /\ chain' = chain /\ free' = free /\ Others(p)
  BY OthersSame DEF DelLockFree, DelWriteDat, DelReadFree, files, Step, Run, DoDelete
<1>2. pc[p] \in {"dellock", "delwdat", "delrfree"} /\ pc'[p] \in {"delwdat", "delrfree", "delwidx"}
  BY <1>0 DEF DelLockFree, DelWriteDat, DelReadFree, At, Jump
<1>3. /\ db'[p].key = db[p].key /\ db'[p].idxoff = db[p].idxoff /\ db'[p].ptroff = db[p].ptroff
      /\ db'[p].ptrval = db[p].ptrval
  BY <1>0 DEF DelLockFree, DelWriteDat, DelReadFree, Calls
<1>4. Has(s, c, p)'
  BY <1>1, <1>2, <1>3, KeepsHas DEF HasPCs, Shape, ProcOK
<1>5. pc'[p] = "delwidx" => db'[p].freeptr = s["free"][c["free"]]
  <2> SUFFICES ASSUME pc'[p] = "delwidx" PROVE db'[p].freeptr = s["free"][c["free"]]
    OBVIOUS
  <2>1. db'[p].freeptr = free /\ pc[p] = "delrfree"
    BY <1>0 DEF DelLockFree, DelWriteDat, DelReadFree, Calls, Jump, At
  <2> QED BY <2>1, FreeTop DEF DelPCs
<1>6. pc[p] \notin SavedPCs /\ pc[p] \notin HeldPCs
  BY <1>2 DEF SavedPCs, HeldPCs, BlankPCs
<1> QED BY <1>1, <1>2, <1>4, <1>5, <1>6, HasKnows, QuietStep DEF HasPCs

\* The steps of db_store that leave the lists and concern the chain only.
LEMMA StoreMove ==
  ASSUME TInv, LInv, NEW s \in Stacks, NEW c \in Counts, Shape(s, c), NEW p \in Procs, Step(p),
         idx' = idx, chain' = chain, free' = free,
         pc[p] \in (HeadPCs \cup {"delunlock", "reread"}) \ HeldPCs, pc'[p] \in StorePlaces,
         db'[p].key = db[p].key,
         pc'[p] \in HeadPCs => db'[p].head = chain[ChainOf(p)]
  PROVE Shape(s, c)'
<1>1. Others(p)
  BY OthersSame
<1>2. Absent(s, c, p)
  BY DEF Shape, ProcOK, Lacks
<1>3. Lacks(s, c, p)'
  BY <1>2, KeepsLacks
<1>4. pc[p] \notin SavedPCs
  BY DEF SavedPCs, HeadPCs, FreePCs
<1> QED BY <1>1, <1>3, <1>4, StoreKnows, QuietStep

\* The appends of db_store before the index record is written.
LEMMA AppendShape ==
  ASSUME TInv, LInv, NEW s \in Stacks, NEW c \in Counts, Shape(s, c), NEW p \in Procs,
         FreeLock(p) \/ DatLock(p) \/ DatSeek(p) \/ AppendDat(p) \/ TailLock(p) \/ TailSeek(p)
         \/ RereadChainPtr(p)
  PROVE Shape(s, c)'
<1>0. db[p] \in Calls /\ pc \in [Procs -> PCs] /\ db \in [Procs -> Calls]
  BY DEF TInv, ProcsOK
<1>1. idx' = idx /\ chain' = chain /\ free' = free
  BY DEF FreeLock, DatLock, DatSeek, AppendDat, TailLock, TailSeek, RereadChainPtr, files
<1>2. /\ pc[p] \in {"fflock", "datlock", "datend", "datwrite", "taillock", "tailend", "reread"}
      /\ pc'[p] \in {"ffread", "datend", "datwrite", "taillock", "tailend", "tailwrite", "datlock"}
  BY <1>0 DEF FreeLock, DatLock, DatSeek, AppendDat, TailLock, TailSeek, RereadChainPtr, At, Jump
<1>3. db'[p].key = db[p].key
  BY ZenonT(60), <1>0 DEF FreeLock, DatLock, DatSeek, AppendDat, TailLock, TailSeek, RereadChainPtr, Calls
<1>4. db'[p].head = chain[ChainOf(p)]
  <2>1. CASE RereadChainPtr(p)
    BY <1>0, <2>1 DEF RereadChainPtr, Calls
  <2>2. CASE ~RereadChainPtr(p)
    <3>1. db'[p].head = db[p].head /\ pc[p] \in HeadPCs
      BY <1>0, <2>2 DEF FreeLock, DatLock, DatSeek, AppendDat, TailLock, TailSeek, Calls, At, HeadPCs
    <3> QED BY <3>1 DEF Shape, ProcOK, Lacks
  <2> QED BY <2>1, <2>2
<1>5. /\ pc[p] \in (HeadPCs \cup {"delunlock", "reread"}) \ HeldPCs
      /\ pc'[p] \in StorePlaces
  BY <1>2 DEF HeadPCs, FreePCs, HeldPCs, BlankPCs, StorePlaces
<1>6. Step(p)
  BY DEF Step, Run, FindFree, StoreWrites
<1> QED BY <1>1, <1>3, <1>4, <1>5, <1>6, StoreMove

\* The end of _db_dodelete, the end of a search of the free list that found
\* nothing, and the rewrite in place.
LEMMA EndShape ==
  ASSUME TInv, LInv, NEW s \in Stacks, NEW c \in Counts, Shape(s, c), NEW p \in Procs,
         DelUnlockFree(p) \/ Overwrite(p) \/ (FreeUnlock(p) /\ pc[p] = "ffwalk")
  PROVE Shape(s, c)'
<1>0. db[p] \in Calls /\ pc \in [Procs -> PCs] /\ db \in [Procs -> Calls]
  BY DEF TInv, ProcsOK
<1>1. idx' = idx /\ chain' = chain /\ free' = free /\ Step(p)
  BY DEF DelUnlockFree, Overwrite, FreeUnlock, files, Step, Run, DoDelete, StoreWrites, FindFree
<1>2. pc[p] \in {"delunlock", "overwrite", "ffwalk"}
  BY DEF DelUnlockFree, Overwrite, At
<1>3. pc[p] \notin SavedPCs \cup HeldPCs
  BY <1>2 DEF SavedPCs, HeldPCs, BlankPCs
<1>4. \/ pc'[p] = "unlock"
      \/ pc[p] \in {"delunlock", "ffwalk"} /\ pc'[p] \in {"reread", "datlock"} /\ db' = db
         /\ (pc'[p] = "datlock" => pc[p] = "ffwalk")
  BY <1>0 DEF DelUnlockFree, Overwrite, FreeUnlock, At, Jump
<1>5. CASE pc'[p] = "unlock"
  BY <1>1, <1>3, <1>5, IdleStep DEF IdlePCs
<1>6. CASE pc[p] \in {"delunlock", "ffwalk"} /\ pc'[p] \in {"reread", "datlock"} /\ db' = db
           /\ (pc'[p] = "datlock" => pc[p] = "ffwalk")
  <2>1. pc'[p] \in HeadPCs => pc[p] \in HeadPCs
    BY <1>6 DEF HeadPCs, FreePCs
  <2>2. pc'[p] \in HeadPCs => db'[p].head = chain[ChainOf(p)]
    BY <1>6, <2>1 DEF Shape, ProcOK, Lacks
  <2>3. pc[p] \in HeadPCs \cup {"delunlock", "reread"} /\ pc'[p] \in StorePlaces
    BY <1>6 DEF HeadPCs, FreePCs, StorePlaces
  <2> QED BY <1>1, <1>3, <1>6, <2>2, <2>3, StoreMove
<1> QED BY <1>4, <1>5, <1>6

\* A record of the free list, as the search of _db_findfree finds it.
LEMMA AtBlank ==
  ASSUME TInv, NEW s \in Stacks, NEW c \in Counts, Shape(s, c), NEW r \in 1..c["free"]
  PROVE LET i == s["free"][r]
        IN /\ i \in 1..Len(idx) /\ i # 0 /\ ~Unlinking(i)
           /\ idx[i].ptr = s["free"][r - 1] /\ idx[i].key = Blank
<1> PICK i : i = s["free"][r]
  OBVIOUS
<1>0. "free" \in Lists
  BY DEF Lists
<1>1. ~Unlinking(i) /\ idx[i].key = Blank
  BY DEF Shape, KeysOK
<1>2. i \in 1..Len(idx) /\ Len(idx) \in Nat
  BY <1>0 DEF Shape, StacksOK, TInv, FilesOK
<1>3. i # 0
  BY <1>2
<1>4. idx[i].ptr = s["free"][r - 1]
  BY <1>0, <1>1 DEF Shape, LinksOK
<1> QED BY <1>1, <1>2, <1>3, <1>4

\* The search of _db_findfree begins at the top of the free list,
LEMMA FreeReadShape ==
  ASSUME TInv, LInv, NEW s \in Stacks, NEW c \in Counts, Shape(s, c), NEW p \in Procs,
         FreeRead(p)
  PROVE Shape(s, c)'
<1>0. /\ pc[p] = "ffread" /\ pc'[p] = "ffwalk" /\ db[p] \in Calls /\ c["free"] \in Nat
  BY HasTypes DEF FreeRead, At, Jump, TInv, ProcsOK, Counts, Lists
<1>1. idx' = idx /\ chain' = chain /\ free' = free /\ Others(p)
  BY OthersSame DEF FreeRead, files, Step, Run, FindFree
<1>2. /\ db'[p].key = db[p].key /\ db'[p].off = free /\ db'[p].ptroff = 0
      /\ db'[p].head = db[p].head
  BY <1>0 DEF FreeRead, TInv, ProcsOK, Calls
<1>3. free = s["free"][c["free"]]
  BY <1>0, FreeTop DEF FreePCs, DelPCs
<1>4. FreeWalks(s, c, p)'
  <2>1. c["free"] \in 0..c["free"] /\ Before(s, c, "free", c["free"]) = 0
    BY <1>0 DEF Before
  <2> QED BY <1>0, <1>2, <1>3, <2>1 DEF FreeWalks
<1>5. Absent(s, c, p) /\ db[p].head = chain[ChainOf(p)]
  BY <1>0 DEF Shape, ProcOK, Lacks, HeadPCs, FreePCs
<1>6. Lacks(s, c, p)'
  BY <1>1, <1>2, <1>5, KeepsLacks
<1>7. pc[p] \notin SavedPCs /\ pc[p] \notin HeldPCs
  BY <1>0 DEF SavedPCs, HeldPCs, BlankPCs
<1> QED BY <1>0, <1>1, <1>4, <1>6, <1>7, FreeKnows, QuietStep

\* and goes down it until a record fits.
LEMMA FreeWalkShape ==
  ASSUME TInv, LInv, NEW s \in Stacks, NEW c \in Counts, Shape(s, c), NEW p \in Procs,
         FreeWalk(p)
  PROVE Shape(s, c)'
<1> PICK i : i = db[p].off
  OBVIOUS
<1>0. /\ pc[p] = "ffwalk" /\ db[p] \in Calls /\ c["free"] \in Nat /\ i # 0 /\ "free" \in Lists
  BY HasTypes DEF FreeWalk, At, TInv, ProcsOK, Counts, Lists
<1>1. idx' = idx /\ chain' = chain /\ free' = free /\ Others(p)
  BY OthersSame DEF FreeWalk, files, Step, Run, FindFree
<1>2. PICK r \in 0..c["free"] : i = s["free"][r] /\ db[p].ptroff = Before(s, c, "free", r)
  BY <1>0 DEF Shape, ProcOK, FreeWalks
<1>3. r \in 1..c["free"] /\ r - 1 \in 0..c["free"] /\ r \in Nat /\ r - 1 + 1 = r
  BY <1>0, <1>2 DEF Shape, StacksOK
<1>4. idx[i].ptr = s["free"][r - 1]
  BY <1>2, <1>3, AtBlank
<1>5. Absent(s, c, p) /\ db[p].head = chain[ChainOf(p)]
  BY <1>0 DEF Shape, ProcOK, Lacks, HeadPCs, FreePCs
<1>6. pc[p] \notin SavedPCs /\ pc[p] \notin HeldPCs
  BY <1>0 DEF SavedPCs, HeldPCs, BlankPCs
<1> DEFINE e == ReadIdx(db[p], i)
<1>7. \/ db'[p] = e /\ pc'[p] = "ffunlink"
      \/ db'[p] = [e EXCEPT !.off = e.ptrval, !.ptroff = i] /\ pc'[p] = "ffwalk"
  BY <1>0 DEF FreeWalk, TInv, ProcsOK, Jump
<1>8. db'[p].key = db[p].key /\ db'[p].head = db[p].head
  BY <1>0, <1>7 DEF ReadIdx, Calls
<1>9. Lacks(s, c, p)'
  BY <1>1, <1>5, <1>8, KeepsLacks
<1>10. FreeWalks(s, c, p)'
  <2>1. CASE db'[p] = e /\ pc'[p] = "ffunlink"
    <3>1. db'[p].idxoff = i /\ db'[p].ptroff = db[p].ptroff /\ db'[p].ptrval = idx[i].ptr
      BY <1>0, <2>1 DEF ReadIdx, Calls
    <3>2. /\ db'[p].idxoff = s["free"][r] /\ db'[p].ptroff = Before(s, c, "free", r)
          /\ db'[p].ptrval = s["free"][r - 1]
      BY <1>2, <1>4, <3>1
    <3> QED BY <1>3, <2>1, <3>2 DEF FreeWalks, OnList
  <2>2. CASE db'[p] = [e EXCEPT !.off = e.ptrval, !.ptroff = i] /\ pc'[p] = "ffwalk"
    <3>1. db'[p].off = idx[i].ptr /\ db'[p].ptroff = i
      BY <1>0, <2>2 DEF ReadIdx, Calls
    <3>2. Before(s, c, "free", r - 1) = s["free"][r]
      BY <1>0, <1>3 DEF Before
    <3> QED BY <1>2, <1>3, <1>4, <2>2, <3>1, <3>2 DEF FreeWalks
  <2> QED BY <1>7, <2>1, <2>2
<1> QED BY <1>1, <1>6, <1>7, <1>9, <1>10, FreeKnows, QuietStep

\* db_store goes on with the record it took off the free list.
LEMMA ReuseShape ==
  ASSUME TInv, LInv, NEW s \in Stacks, NEW c \in Counts, Shape(s, c), NEW p \in Procs,
         ReuseDat(p) \/ (FreeUnlock(p) /\ pc[p] = "ffunlock")
  PROVE Shape(s, c)'
<1>0. db[p] \in Calls /\ pc \in [Procs -> PCs] /\ db \in [Procs -> Calls]
  BY DEF TInv, ProcsOK
<1>1. idx' = idx /\ chain' = chain /\ free' = free /\ Others(p) /\ db' = db
  BY OthersSame DEF ReuseDat, FreeUnlock, files, Step, Run, FindFree, StoreWrites
<1>2. pc[p] \in {"reusedat", "ffunlock"} /\ pc'[p] \in {"reusedat", "reuseidx"}
  BY <1>0 DEF ReuseDat, FreeUnlock, At, Jump
<1>3. pc[p] \in BlankPCs /\ pc[p] \in HeldPCs /\ pc[p] \notin SavedPCs /\ pc[p] \in HeadPCs
  BY <1>2 DEF SavedPCs, HeldPCs, BlankPCs, HeadPCs, FreePCs
<1>4. pc'[p] \in BlankPCs /\ pc'[p] \in HeldPCs /\ pc'[p] \notin SavedPCs /\ pc'[p] \in HeadPCs
  BY <1>2 DEF SavedPCs, HeldPCs, BlankPCs, HeadPCs, FreePCs
<1>5. Absent(s, c, p) /\ db[p].head = chain[ChainOf(p)]
  BY <1>3 DEF Shape, ProcOK, Lacks
<1>6. Lacks(s, c, p)'
  BY <1>1, <1>5, KeepsLacks
<1>7. Holds(s, c, p)'
  BY <1>1, <1>2, <1>3 DEF Shape, ProcOK, Holds, Listed
<1>8. ProcOK(s, c, p)'
  BY <1>2, <1>6, <1>7 DEF ProcOK, Walks, Has, Deletes, FreeWalks, HasPCs, SavedPCs
<1> QED BY <1>1, <1>3, <1>4, <1>8, QuietStep
-----------------------------------------------------------------------------
(* The steps that write a pointer or a key. *)
\* What a step of p must leave to the other processes.
LEMMA OtherProcs ==
  ASSUME TInv, LInv, NEW s \in Stacks, NEW c \in Counts, NEW s2, NEW c2, Shape(s, c),
         NEW p \in Procs, Others(p), NEW q \in Procs, q # p,
         pc[q] \in ChainPCs =>
           /\ s2[ChainOf(q)] = s[ChainOf(q)] /\ c2[ChainOf(q)] = c[ChainOf(q)]
           /\ chain'[ChainOf(q)] = chain[ChainOf(q)]
           /\ \A r \in 1..c[ChainOf(q)] :
                idx'[s[ChainOf(q)][r]].key = idx[s[ChainOf(q)][r]].key,
         \/ pc[p] \in DelPCs \cup FreePCs
         \/ /\ s2["free"] = s["free"] /\ c2["free"] = c["free"] /\ free' = free
            /\ pc[q] \in SavedPCs => idx'[db[q].idxoff] = idx[db[q].idxoff],
         pc[q] \in HeldPCs =>
           ~Listed(s2, c2, db[q].idxoff) /\ idx'[db[q].idxoff] = idx[db[q].idxoff]
  PROVE ProcOK(s2, c2, q)'
<1>1. Same(q) /\ ProcOK(s, c, q)
  BY DEF Others, Shape
<1>2. pc[q] \in ChainPCs => ChainOf(q) \in Lists
  BY HasTypes
<1>3. Walks(s2, c2, q)' /\ Has(s2, c2, q)' /\ Lacks(s2, c2, q)'
  BY <1>1, <1>2, OtherChain DEF ProcOK
<1>4. \/ pc[q] \notin DelPCs \cup FreePCs
      \/ /\ s2["free"] = s["free"] /\ c2["free"] = c["free"] /\ free' = free
         /\ pc[q] \in SavedPCs => idx'[db[q].idxoff] = idx[db[q].idxoff]
  BY Alone
<1>5. Deletes(s2, c2, q)' /\ FreeWalks(s2, c2, q)'
  BY <1>1, <1>4, OtherFree DEF ProcOK
<1>6. Holds(s2, c2, q)'
  BY <1>1, OtherHeld DEF ProcOK
<1> QED BY <1>3, <1>5, <1>6 DEF ProcOK

\* A record of one list is on no other, and not held by db_store.
LEMMA Elsewhere ==
  ASSUME NEW s, NEW c, Shape(s, c), NEW h \in Lists, NEW r \in 1..c[h]
  PROVE /\ \A g \in Lists : g # h => \A t \in 1..c[g] : s[g][t] # s[h][r]
        /\ \A q \in Procs : pc[q] \in HeldPCs => db[q].idxoff # s[h][r]
<1>1. \A g \in Lists : g # h => \A t \in 1..c[g] : s[g][t] # s[h][r]
  BY DEF Shape, StacksOK
<1>2. \A q \in Procs : pc[q] \in HeldPCs => db[q].idxoff # s[h][r]
  BY DEF Shape, ProcOK, Holds, Listed
<1> QED BY <1>1, <1>2

\* Only one process is in the middle of _db_dodelete.
LEMMA OneUnlinks ==
  ASSUME TInv, LInv, NEW p \in Procs, pc[p] \in DelPCs \cup FreePCs, NEW j
  PROVE Unlinking(j) <=> pc[p] \in SavedPCs /\ db[p].idxoff = j
  BY Alone DEF Unlinking, SavedPCs, DelPCs

\* _db_dodelete blanks the record, which stays on its chain.
LEMMA DelWriteIdxShape ==
  ASSUME TInv, LInv, NEW s \in Stacks, NEW c \in Counts, Shape(s, c), NEW p \in Procs,
         DelWriteIdx(p)
  PROVE Shape(s, c)'
<1> PICK h : h = ChainOf(p)
  OBVIOUS
<1> PICK i : i = db[p].idxoff
  OBVIOUS
<1>0. /\ pc[p] = "delwidx" /\ pc'[p] = "delwfree" /\ h \in Chains /\ h \in Lists /\ h # "free"
      /\ i \in 1..Len(idx) /\ db[p].op # "fetch" /\ Len(idx) \in Nat
      /\ db[p].key # Blank /\ c \in Counts
  BY HasTypes DEF DelWriteIdx, At, Jump, TInv, ProcsOK, ChainPCs, IdxPCs, DelPCs
<1>1. chain' = chain /\ free' = free /\ db' = db /\ Others(p)
  BY OthersSame DEF DelWriteIdx, files, Step, Run, DoDelete
<1>2. /\ Len(idx') = Len(idx) /\ \A j \in 1..Len(idx) : j # i => idx'[j] = idx[j]
      /\ idx'[i].key = Blank /\ idx'[i].ptr = db[p].freeptr
  <2>0. idx \in Seq(IdxRec) /\ idx[i] \in IdxRec
    BY <1>0 DEF TInv, FilesOK
  <2>1. PICK e : e = idx[i]
    OBVIOUS
  <2>2. PICK f : f = [e EXCEPT !.key = Blank, !.ptr = db[p].freeptr]
    OBVIOUS
  <2>3. f.key = Blank /\ f.ptr = db[p].freeptr
    BY <2>0, <2>1, <2>2 DEF IdxRec
  <2>4. idx' = [idx EXCEPT ![i] = f]
    BY <2>1, <2>2 DEF DelWriteIdx
  <2> QED BY <1>0, <2>0, <2>3, <2>4
<1>3. PICK r \in 1..c[h] : OnList(s, c, p, h, r)
  BY <1>0 DEF Shape, ProcOK, Has, HasPCs
<1>4. i = s[h][r] /\ idx[i].key = db[p].key
  BY <1>0, <1>3 DEF OnList, Shape, ProcOK, Has, HasPCs
<1>5. /\ \A g \in Lists : \A t \in 1..c[g] : s[g][t] = i => g = h /\ t = r
      /\ \A g \in Lists : \A t \in 1..c[g] : s[g][t] \in 1..Len(idx)
      /\ \A q \in Procs : pc[q] \in HeldPCs => db[q].idxoff # i
  BY <1>0, <1>4, Elsewhere DEF Shape, StacksOK
<1>6. \A j : ~Unlinking(j) /\ (Unlinking(j)' <=> j = i)
  <2>1. pc[p] \in DelPCs /\ pc[p] \notin SavedPCs /\ pc'[p] \in SavedPCs
    BY <1>0 DEF DelPCs, SavedPCs
  <2>2. \A j : ~Unlinking(j)
    BY <2>1, OneUnlinks
  <2>3. \A q \in Procs : q # p => pc'[q] = pc[q] /\ db'[q] = db[q]
    BY <1>1 DEF Others, Same
  <2> QED BY <1>1, <2>1, <2>2, <2>3 DEF Unlinking
<1>7. StacksOK(s, c, Len(idx))'
  BY <1>2 DEF Shape, StacksOK
<1>8. LinksOK(s, c)'
  <2>1. \A q \in Procs : pc[q] # "delunlink"
    BY <1>0, Alone DEF DelPCs
  <2> QED BY <1>1, <1>2, <1>5, <1>6, <2>1 DEF Shape, LinksOK
<1>9. KeysOK(s, c)'
  <2>1. \A g \in Chains : g \in Lists
    BY DEF Lists
  <2>2. \A g \in Chains : \A t \in 1..c[g] :
          ~Unlinking(s[g][t])' => idx'[s[g][t]].key # Blank /\ Hash[idx'[s[g][t]].key] = g
    BY <1>2, <1>5, <1>6, <2>1 DEF Shape, KeysOK
  <2>3. \A t \in 1..c["free"] : ~Unlinking(s["free"][t])' /\ idx'[s["free"][t]].key = Blank
    BY <1>0, <1>2, <1>5, <1>6 DEF Shape, KeysOK, Lists
  <2>4. \A g \in Chains : \A x, t \in 1..c[g] :
          idx'[s[g][x]].key = idx'[s[g][t]].key /\ idx'[s[g][x]].key # Blank => x = t
    BY SMTT(60), <1>2, <1>5, <2>1 DEF Shape, KeysOK
  <2> QED BY <2>2, <2>3, <2>4 DEF KeysOK
<1>10. \A q \in Procs : /\ pc'[q] \in HeldPCs <=> pc[q] \in HeldPCs
                        /\ db'[q] = db[q]
  BY <1>0, <1>1 DEF Others, Same, HeldPCs, BlankPCs
<1>11. CoverOK(s, c)' /\ HeldOK'
  BY <1>2, <1>10 DEF Shape, CoverOK, HeldOK, Listed
<1>12. ASSUME NEW q \in Procs, q # p PROVE ProcOK(s, c, q)'
  <2>1. pc[q] \in ChainPCs => ChainOf(q) # h /\ ChainOf(q) \in Lists
    BY <1>0, <1>12, Alone, HasTypes DEF ChainPCs, DelPCs
  <2>2. pc[q] \in ChainPCs =>
          \A t \in 1..c[ChainOf(q)] : idx'[s[ChainOf(q)][t]].key = idx[s[ChainOf(q)][t]].key
    BY <1>2, <1>5, <2>1
  <2>3. pc[q] \in HeldPCs =>
          ~Listed(s, c, db[q].idxoff) /\ idx'[db[q].idxoff] = idx[db[q].idxoff]
    <3>1. pc[q] \in HeldPCs => db[q].idxoff \in 1..Len(idx)
      BY HasTypes DEF HeldPCs, BlankPCs, IdxPCs
    <3> QED BY <1>2, <1>5, <3>1 DEF Shape, ProcOK, Holds
  <2>4. pc[p] \in DelPCs \cup FreePCs
    BY <1>0 DEF DelPCs
  <2> QED BY <1>1, <1>12, <2>2, <2>3, <2>4, OtherProcs
<1>13. ProcOK(s, c, p)'
  <2>1. Has(s, c, p)'
    <3>1. ChainOf(p)' = h
      BY <1>1 DEF ChainOf
    <3> QED BY <1>0, <1>1, <1>3, <3>1 DEF Has, OnList, HasPCs
  <2>2. Deletes(s, c, p)'
    <3>1. db[p].freeptr = s["free"][c["free"]]
      BY <1>0 DEF Shape, ProcOK, Deletes
    <3> QED BY <1>0, <1>1, <1>2, <3>1 DEF Deletes
  <2>3. Lacks(s, c, p)'
    <3>1. \A t \in 1..c[h] : idx'[s[h][t]].key # db[p].key
      <4> TAKE t \in 1..c[h]
      <4>1. CASE t = r
        BY <1>0, <1>2, <1>4, <4>1
      <4>2. CASE t # r
        <5>1. idx[s[h][t]].key # db[p].key
          BY <1>0, <1>4, <4>2 DEF Shape, KeysOK
        <5> QED BY <1>0, <1>2, <1>5, <4>2, <5>1
      <4> QED BY <4>1, <4>2
    <3> QED BY <1>0, <1>1, <3>1 DEF Lacks, Absent, ChainOf, HeadPCs, FreePCs
  <2> QED BY <1>0, <2>1, <2>2, <2>3 DEF ProcOK, Walks, FreeWalks, Holds, HeldPCs, BlankPCs
<1> QED BY <1>7, <1>8, <1>9, <1>11, <1>12, <1>13 DEF Shape

\* It becomes the head of the free list, which has it only once it is unlinked.
LEMMA DelWriteFreeShape ==
  ASSUME TInv, LInv, NEW s \in Stacks, NEW c \in Counts, Shape(s, c), NEW p \in Procs,
         DelWriteFree(p)
  PROVE Shape(s, c)'
<1>0. pc[p] = "delwfree" /\ pc'[p] = "delunlink"
  BY DEF DelWriteFree, At, Jump, TInv, ProcsOK
<1>1. idx' = idx /\ chain' = chain /\ free' = db[p].idxoff /\ db' = db /\ Others(p)
  BY OthersSame DEF DelWriteFree, files, Step, Run, DoDelete
<1>2. \A q \in Procs : q # p => db'[q] = db[q] /\ pc'[q] = pc[q]
  BY <1>1 DEF Others, Same
<1>3. pc[p] \in SavedPCs /\ pc'[p] \in SavedPCs /\ pc[p] \notin HeldPCs /\ pc'[p] \notin HeldPCs
      /\ pc[p] \in DelPCs \cup FreePCs
  BY <1>0 DEF SavedPCs, HeldPCs, BlankPCs, DelPCs
<1>4. \A j : Unlinking(j)' <=> Unlinking(j)
  BY <1>1, <1>2, <1>3 DEF Unlinking
<1>5. StacksOK(s, c, Len(idx))' /\ KeysOK(s, c)'
  BY <1>1, <1>4 DEF Shape, StacksOK, KeysOK
<1>6. LinksOK(s, c)'
  BY <1>0, <1>1, <1>4 DEF Shape, LinksOK
<1>7. CoverOK(s, c)' /\ HeldOK'
  BY <1>1, <1>2, <1>3 DEF Shape, CoverOK, HeldOK, Listed
<1>8. ASSUME NEW q \in Procs, q # p PROVE ProcOK(s, c, q)'
  <2>1. pc[q] \in HeldPCs => ~Listed(s, c, db[q].idxoff)
    BY DEF Shape, ProcOK, Holds
  <2> QED BY <1>1, <1>3, <1>8, <2>1, OtherProcs
<1>9. ProcOK(s, c, p)'
  <2>1. Has(s, c, p)'
    BY <1>0, <1>1 DEF Shape, ProcOK, Has, OnList, ChainOf, HasPCs, SavedPCs
  <2>2. Deletes(s, c, p)'
    BY <1>0, <1>1, <1>3 DEF Shape, ProcOK, Deletes
  <2>3. Lacks(s, c, p)'
    BY <1>0, <1>1, <1>3 DEF Shape, ProcOK, Lacks, Absent, ChainOf, HeadPCs, FreePCs
  <2> QED BY <1>0, <2>1, <2>2, <2>3 DEF ProcOK, Walks, FreeWalks, Holds, HeldPCs, BlankPCs
<1> QED BY <1>5, <1>6, <1>7, <1>8, <1>9 DEF Shape

\* db_store writes the index record it has taken or appended, which is on no list.
LEMMA WriteUnlisted ==
  ASSUME TInv, LInv, NEW s \in Stacks, NEW c \in Counts, Shape(s, c), NEW p \in Procs, Others(p),
         NEW i, pc[p] \in {"reuseidx", "tailwrite"}, pc'[p] = "link",
         chain' = chain, free' = free, db' = db, db[p].idxoff = i,
         ~Listed(s, c, i), \A q \in Procs : pc[q] \in HeldPCs /\ q # p => db[q].idxoff # i,
         Len(idx) \in Nat, Len(idx') \in Nat, Len(idx) <= Len(idx'),
         \A j \in 1..Len(idx) : j # i => idx'[j] = idx[j],
         \A j \in 1..Len(idx') : j \in 1..Len(idx) \/ j = i,
         idx'[i] = NewIdx(p)
  PROVE Shape(s, c)'
<1>0. /\ \A q \in Procs : q # p => db'[q] = db[q] /\ pc'[q] = pc[q]
      /\ pc[p] \notin SavedPCs /\ pc'[p] \notin SavedPCs /\ pc'[p] \in HeldPCs
  BY DEF Others, Same, SavedPCs, HeldPCs
<1>1. \A j : Unlinking(j)' <=> Unlinking(j)
  BY <1>0 DEF Unlinking
<1>2. \A g \in Lists : \A t \in 1..c[g] :
        s[g][t] \in 1..Len(idx) /\ s[g][t] # i /\ idx'[s[g][t]] = idx[s[g][t]]
  BY DEF Shape, StacksOK, Listed
<1>3. StacksOK(s, c, Len(idx))'
  BY DEF Shape, StacksOK
<1>4. LinksOK(s, c)'
  <2>1. (\A q \in Procs : pc'[q] # "delunlink") => \A q \in Procs : pc[q] # "delunlink"
    BY <1>0 DEF SavedPCs
  <2> QED BY <1>1, <1>2, <2>1 DEF Shape, LinksOK
<1>5. KeysOK(s, c)'
  <2>1. \A g \in Chains : g \in Lists
    BY DEF Lists
  <2>2. "free" \in Lists
    BY DEF Lists
  <2>3. \A g \in Chains : \A t \in 1..c[g] :
          ~Unlinking(s[g][t])' => idx'[s[g][t]].key # Blank /\ Hash[idx'[s[g][t]].key] = g
    BY <1>1, <1>2, <2>1 DEF Shape, KeysOK
  <2>4. \A t \in 1..c["free"] : ~Unlinking(s["free"][t])' /\ idx'[s["free"][t]].key = Blank
    BY <1>1, <1>2, <2>2 DEF Shape, KeysOK
  <2>5. \A g \in Chains : \A x, t \in 1..c[g] :
          idx'[s[g][x]].key = idx'[s[g][t]].key /\ idx'[s[g][x]].key # Blank => x = t
    BY SMTT(60), <1>2, <2>1 DEF Shape, KeysOK
  <2> QED BY <2>3, <2>4, <2>5 DEF KeysOK
<1>6. CoverOK(s, c)'
  <2> SUFFICES ASSUME NEW j \in 1..Len(idx')
      PROVE \/ Listed(s, c, j) \/ PtrMax < j
            \/ \E q \in Procs : pc'[q] \in HeldPCs /\ db'[q].idxoff = j
    BY DEF CoverOK, Listed
  <2>1. CASE j = i
    BY <1>0, <2>1
  <2>2. CASE j # i
    <3>1. \/ Listed(s, c, j) \/ PtrMax < j
          \/ \E q \in Procs : pc[q] \in HeldPCs /\ db[q].idxoff = j
      BY <2>2 DEF Shape, CoverOK
    <3> QED BY <1>0, <2>2, <3>1
  <2> QED BY <2>1, <2>2
<1>7. HeldOK'
  BY <1>0 DEF Shape, HeldOK
<1>8. ASSUME NEW q \in Procs, q # p PROVE ProcOK(s, c, q)'
  <2>1. pc[q] \in ChainPCs => ChainOf(q) \in Lists
    BY HasTypes
  <2>2. pc[q] \in ChainPCs =>
          \A t \in 1..c[ChainOf(q)] : idx'[s[ChainOf(q)][t]].key = idx[s[ChainOf(q)][t]].key
    BY <1>2, <2>1
  <2>3. pc[q] \in HeldPCs =>
          ~Listed(s, c, db[q].idxoff) /\ idx'[db[q].idxoff] = idx[db[q].idxoff]
    <3>1. pc[q] \in HeldPCs => db[q].idxoff \in 1..Len(idx)
      BY HasTypes DEF HeldPCs, BlankPCs, IdxPCs
    <3> QED BY <1>8, <3>1 DEF Shape, ProcOK, Holds
  <2>4. pc[q] \in SavedPCs => idx'[db[q].idxoff] = idx[db[q].idxoff]
    <3>1. pc[q] \in SavedPCs => pc[q] \in ChainPCs
      BY DEF SavedPCs, ChainPCs, DelPCs
    <3> QED BY <1>2, <2>1, <3>1 DEF Shape, ProcOK, Has, OnList
  <2> QED BY <1>8, <2>2, <2>3, <2>4, OtherProcs
<1>9. ProcOK(s, c, p)'
  <2>1. ChainOf(p) \in Lists
    BY HasTypes DEF ChainPCs
  <2>2. Absent(s, c, p) /\ db[p].head = chain[ChainOf(p)]
    BY DEF Shape, ProcOK, Lacks, HeadPCs
  <2>3. Lacks(s, c, p)'
    BY <1>2, <2>1, <2>2 DEF Lacks, Absent, ChainOf
  <2>4. Holds(s, c, p)'
    BY DEF Holds, Listed, NewIdx, BlankPCs
  <2> QED BY <2>3, <2>4 DEF ProcOK, Walks, Has, Deletes, FreeWalks, HasPCs, SavedPCs
<1> QED BY <1>3, <1>4, <1>5, <1>6, <1>7, <1>8, <1>9 DEF Shape

\* It rewrites the one it took off the free list,
LEMMA ReuseIdxShape ==
  ASSUME TInv, LInv, NEW s \in Stacks, NEW c \in Counts, Shape(s, c), NEW p \in Procs, ReuseIdx(p)
  PROVE Shape(s, c)'
<1> PICK i : i = db[p].idxoff
  OBVIOUS
<1>0. pc[p] = "reuseidx" /\ pc'[p] = "link" /\ i \in 1..Len(idx) /\ idx \in Seq(IdxRec)
      /\ Len(idx) \in Nat
  BY HasTypes DEF ReuseIdx, At, Jump, TInv, ProcsOK, IdxPCs, FilesOK
<1>1. chain' = chain /\ free' = free /\ db' = db /\ Others(p)
  BY OthersSame DEF ReuseIdx, files, Step, Run, StoreWrites
<1>2. PICK n : n = NewIdx(p)
  OBVIOUS
<1>3. idx' = [idx EXCEPT ![i] = n]
  BY <1>2 DEF ReuseIdx
<1>4. Len(idx') = Len(idx) /\ idx'[i] = n /\ \A j \in 1..Len(idx) : j # i => idx'[j] = idx[j]
  BY <1>0, <1>3
<1>5. pc[p] \in HeldPCs
  BY <1>0 DEF HeldPCs, BlankPCs
<1>6. ~Listed(s, c, i) /\ \A q \in Procs : pc[q] \in HeldPCs /\ q # p => db[q].idxoff # i
  BY <1>5 DEF Shape, ProcOK, Holds, HeldOK
<1>7. pc[p] \in {"reuseidx", "tailwrite"} /\ idx'[i] = NewIdx(p) /\ Len(idx') \in Nat
      /\ Len(idx) <= Len(idx') /\ \A j \in 1..Len(idx') : j \in 1..Len(idx) \/ j = i
  BY <1>0, <1>2, <1>4
<1> QED BY <1>0, <1>1, <1>4, <1>6, <1>7, WriteUnlisted

\* or writes one at the end of the file.
LEMMA AppendIdxShape ==
  ASSUME TInv, LInv, EInv, NEW s \in Stacks, NEW c \in Counts, Shape(s, c), NEW p \in Procs,
         AppendIdx(p)
  PROVE Shape(s, c)'
<1> PICK i : i = db[p].idxoff
  OBVIOUS
<1>0. pc[p] = "tailwrite" /\ pc'[p] = "link" /\ i = Len(idx) + 1 /\ idx \in Seq(IdxRec)
      /\ Len(idx) \in Nat
  BY DEF AppendIdx, At, Jump, TInv, ProcsOK, EInv, FilesOK
<1>1. chain' = chain /\ free' = free /\ db' = db /\ Others(p)
  BY OthersSame DEF AppendIdx, files, Step, Run, StoreWrites
<1>2. PICK n : n = NewIdx(p)
  OBVIOUS
<1>3. idx' = Append(idx, n) /\ n \in IdxRec
  BY <1>0, <1>2, NewRecord DEF AppendIdx, WriteAt
<1>4. Len(idx') = Len(idx) + 1 /\ idx'[i] = n /\ \A j \in 1..Len(idx) : idx'[j] = idx[j]
  BY <1>0, <1>3
<1>5. ~Listed(s, c, i)
  BY <1>0 DEF Shape, StacksOK, Listed
<1>6. \A q \in Procs : pc[q] \in HeldPCs => db[q].idxoff # i
  <2>1. \A q \in Procs : pc[q] \in HeldPCs => db[q].idxoff \in 1..Len(idx)
    BY HasTypes DEF HeldPCs, BlankPCs, IdxPCs
  <2> QED BY <1>0, <2>1
<1>7. pc[p] \in {"reuseidx", "tailwrite"} /\ idx'[i] = NewIdx(p) /\ Len(idx') \in Nat
      /\ Len(idx) <= Len(idx') /\ \A j \in 1..Len(idx') : j \in 1..Len(idx) \/ j = i
  BY <1>0, <1>2, <1>4
<1>8. /\ \A q \in Procs : pc[q] \in HeldPCs /\ q # p => db[q].idxoff # i
      /\ \A j \in 1..Len(idx) : j # i => idx'[j] = idx[j]
  BY <1>4, <1>6
<1>9. pc'[p] = "link" /\ Len(idx) \in Nat
  BY <1>0
<1> QED BY <1>1, <1>5, <1>7, <1>8, <1>9, WriteUnlisted

\* db_store makes it the head of the chain,
LEMMA LinkShape ==
  ASSUME TInv, LInv, NEW s \in Stacks, NEW c \in Counts, Shape(s, c), NEW p \in Procs, LinkChain(p)
  PROVE \E s2 \in Stacks, c2 \in Counts : Shape(s2, c2)'
<1> PICK h : h = ChainOf(p)
  OBVIOUS
<1> PICK i : i = db[p].idxoff
  OBVIOUS
<1>0. /\ pc[p] = "link" /\ pc'[p] = "unlock" /\ h \in Chains /\ h \in Lists /\ h # "free"
      /\ i \in 1..Len(idx) /\ db[p].op = "store" /\ Len(idx) \in Nat /\ i <= PtrMax
      /\ i \in Nat /\ c[h] \in Nat /\ db[p].key # Blank
  BY HasTypes DEF LinkChain, At, Jump, TInv, ProcsOK, ChainPCs, IdxPCs, StorePCs, Counts
<1>1. idx' = idx /\ free' = free /\ Others(p) /\ chain' = [chain EXCEPT ![h] = i]
  BY OthersSame DEF LinkChain, Step, Run, StoreWrites
<1>2. chain'[h] = i /\ \A g \in Chains : g # h => chain'[g] = chain[g]
  BY <1>0, <1>1 DEF TInv, FilesOK
<1>3. PICK s2, c2 : s2 = Push(s, c, h, i) /\ c2 = More(c, h)
  OBVIOUS
<1>3a. h \in Lists /\ i \in Nat
  BY <1>0
<1>4. s2 \in Stacks /\ c2 \in Counts
  BY <1>3, <1>3a, PushIs
<1>5. c2[h] = c[h] + 1 /\ s2[h][c[h] + 1] = i
  BY SMTT(60), <1>3, <1>3a, PushIs
<1>6. \A t \in Nat : t # c[h] + 1 => s2[h][t] = s[h][t]
  BY SMTT(60), <1>3, <1>3a, PushIs
<1>7. \A g \in Lists : g # h => s2[g] = s[g] /\ c2[g] = c[g]
  <2> SUFFICES ASSUME NEW g \in Lists, g # h PROVE s2[g] = s[g] /\ c2[g] = c[g]
    OBVIOUS
  <2> QED BY <1>3, <1>3a DEF Push, More, Stacks, Counts
<1>8. ~Listed(s, c, i) /\ idx[i].key = db[p].key /\ idx[i].ptr = s[h][c[h]] /\ Absent(s, c, p)
  <2>1. ~Listed(s, c, i) /\ idx[i].key = db[p].key /\ idx[i].ptr = db[p].head
    BY <1>0 DEF Shape, ProcOK, Holds, HeldPCs
  <2>2. db[p].head = chain[h] /\ Absent(s, c, p)
    BY <1>0 DEF Shape, ProcOK, Lacks, HeadPCs
  <2>3. chain[h] = s[h][c[h]]
    BY <1>0 DEF Shape, LinksOK
  <2> QED BY <2>1, <2>2, <2>3
<1>9. /\ StacksOK(s2, c2, Len(idx))
      /\ \A j : Listed(s2, c2, j) <=> Listed(s, c, j) \/ j = i
  <2>1. StacksOK(s, c, Len(idx))
    BY DEF Shape
  <2> QED BY <1>0, <1>3, <1>8, <2>1, PushStacks
<1>10. /\ \A q \in Procs : q # p => db'[q] = db[q] /\ pc'[q] = pc[q]
       /\ pc[p] \notin SavedPCs /\ pc'[p] \notin SavedPCs
       /\ pc[p] \in HeldPCs /\ pc'[p] \notin HeldPCs
  BY <1>0, <1>1 DEF Others, Same, SavedPCs, HeldPCs, BlankPCs
<1>11. \A j : Unlinking(j)' <=> Unlinking(j)
  BY <1>10 DEF Unlinking
<1>12. ~Unlinking(i)
  <2> SUFFICES ASSUME NEW q \in Procs, pc[q] \in SavedPCs, db[q].idxoff = i PROVE FALSE
    BY DEF Unlinking
  <2>1. ChainOf(q) \in Lists
    BY HasTypes DEF SavedPCs, ChainPCs, DelPCs
  <2> QED BY <1>8, <2>1 DEF Shape, ProcOK, Has, OnList, Listed
<1>13. ASSUME NEW g \in Lists, NEW t \in 1..c2[g]
       PROVE \/ g = h /\ t = c[h] + 1 /\ s2[g][t] = i /\ s2[g][t - 1] = s[h][c[h]]
             \/ t \in 1..c[g] /\ s2[g][t] = s[g][t] /\ s2[g][t - 1] = s[g][t - 1]
  <2>0. c[g] \in Nat /\ c2[g] \in Nat
    BY <1>4 DEF Counts
  <2>1. CASE g # h
    BY <1>7, <2>0, <2>1
  <2>2. CASE g = h /\ t = c[h] + 1
    <3>1. t - 1 = c[h] /\ c[h] # c[h] + 1
      BY <1>0, <2>2
    <3> QED BY <1>0, <1>5, <1>6, <2>2, <3>1
  <2>3. CASE g = h /\ t # c[h] + 1
    <3>1. t \in 1..c[h] /\ t \in Nat /\ t - 1 \in Nat /\ t - 1 # c[h] + 1
      BY <1>0, <1>5, <2>0, <2>3
    <3> QED BY <1>6, <2>3, <3>1
  <2> QED BY <2>1, <2>2, <2>3
<1>14. \A g \in Chains : g \in Lists
  BY DEF Lists
<1>15. LinksOK(s2, c2)'
  <2>1. \A g \in Chains : chain'[g] = s2[g][c2[g]]
    BY <1>0, <1>2, <1>5, <1>7, <1>14 DEF Shape, LinksOK
  <2>2. (\A q \in Procs : pc'[q] # "delunlink") => free' = s2["free"][c2["free"]]
    <3>1. (\A q \in Procs : pc'[q] # "delunlink") => \A q \in Procs : pc[q] # "delunlink"
      BY <1>10 DEF SavedPCs
    <3>2. s2["free"] = s["free"] /\ c2["free"] = c["free"]
      BY <1>0, <1>7 DEF Lists
    <3> QED BY <1>1, <3>1, <3>2 DEF Shape, LinksOK
  <2>3. ASSUME NEW g \in Lists, NEW t \in 1..c2[g], ~Unlinking(s2[g][t])
        PROVE idx[s2[g][t]].ptr = s2[g][t - 1]
    BY <1>8, <1>13, <2>3 DEF Shape, LinksOK
  <2> QED BY <1>1, <1>11, <2>1, <2>2, <2>3 DEF LinksOK
<1>16. KeysOK(s2, c2)'
  <2>0. Hash[db[p].key] = h
    BY DEF ChainOf
  <2>1. ASSUME NEW g \in Chains, NEW t \in 1..c2[g], ~Unlinking(s2[g][t])
        PROVE idx[s2[g][t]].key # Blank /\ Hash[idx[s2[g][t]].key] = g
    BY SMTT(60), <1>0, <1>8, <1>13, <1>14, <2>0, <2>1 DEF Shape, KeysOK
  <2>2. \A t \in 1..c2["free"] : ~Unlinking(s2["free"][t]) /\ idx[s2["free"][t]].key = Blank
    <3>1. s2["free"] = s["free"] /\ c2["free"] = c["free"]
      BY <1>0, <1>7 DEF Lists
    <3> QED BY <3>1 DEF Shape, KeysOK
  <2>3. ASSUME NEW g \in Chains, NEW x \in 1..c2[g], NEW t \in 1..c2[g],
               idx[s2[g][x]].key = idx[s2[g][t]].key, idx[s2[g][x]].key # Blank
        PROVE x = t
    <3>1. \A y \in 1..c[h] : idx[s[h][y]].key # db[p].key
      BY <1>8 DEF Absent
    <3>2. CASE x \in 1..c[g] /\ s2[g][x] = s[g][x] /\ t \in 1..c[g] /\ s2[g][t] = s[g][t]
      BY <2>3, <3>2 DEF Shape, KeysOK
    <3> QED BY <1>8, <1>13, <1>14, <2>3, <3>1, <3>2
  <2> QED BY <1>1, <1>11, <2>1, <2>2, <2>3 DEF KeysOK
<1>17. CoverOK(s2, c2)'
  <2> SUFFICES ASSUME NEW j \in 1..Len(idx)
      PROVE \/ Listed(s2, c2, j) \/ PtrMax < j
            \/ \E q \in Procs : pc'[q] \in HeldPCs /\ db'[q].idxoff = j
    BY <1>1 DEF CoverOK, Listed
  <2>1. \/ Listed(s, c, j) \/ PtrMax < j
        \/ \E q \in Procs : pc[q] \in HeldPCs /\ db[q].idxoff = j
    BY DEF Shape, CoverOK
  <2> QED BY <1>9, <1>10, <2>1
<1>18. HeldOK' /\ StacksOK(s2, c2, Len(idx))'
  BY <1>1, <1>9, <1>10 DEF Shape, HeldOK, StacksOK
<1>19. ASSUME NEW q \in Procs, q # p PROVE ProcOK(s2, c2, q)'
  <2>1. pc[q] \in ChainPCs => ChainOf(q) # h /\ ChainOf(q) \in Lists /\ ChainOf(q) \in Chains
    BY <1>0, <1>19, Alone, HasTypes DEF ChainPCs
  <2>2. s2["free"] = s["free"] /\ c2["free"] = c["free"]
    BY <1>0, <1>7 DEF Lists
  <2>3. pc[q] \in HeldPCs => ~Listed(s2, c2, db[q].idxoff)
    BY <1>9, <1>10, <1>19 DEF Shape, ProcOK, Holds, HeldOK
  <2>4. pc[q] \in ChainPCs =>
          /\ s2[ChainOf(q)] = s[ChainOf(q)] /\ c2[ChainOf(q)] = c[ChainOf(q)]
          /\ chain'[ChainOf(q)] = chain[ChainOf(q)]
    BY <1>2, <1>7, <2>1
  <2> QED BY <1>1, <1>19, <2>2, <2>3, <2>4, OtherProcs
<1>20. ProcOK(s2, c2, p)'
  BY <1>0, IdleKnows DEF IdlePCs
<1>21. Shape(s2, c2)'
  BY <1>15, <1>16, <1>17, <1>18, <1>19, <1>20 DEF Shape
<1> QED BY <1>4, <1>21

\* or quits when no chain pointer can name it.
LEMMA TooFarShape ==
  ASSUME TInv, NEW s \in Stacks, NEW c \in Counts, Shape(s, c), NEW p \in Procs, LinkTooFar(p)
  PROVE Shape(s, c)'
<1>0. pc[p] = "link" /\ pc'[p] = "dead" /\ PtrMax < db[p].idxoff
  <2>1. db[p].idxoff \in Nat /\ PtrMax \in Nat
    BY HasTypes, DbAssumption DEF Calls
  <2> QED BY <2>1 DEF LinkTooFar, Die, At, Jump, TInv, ProcsOK
<1>1. idx' = idx /\ chain' = chain /\ free' = free /\ Others(p)
  BY OthersSame DEF LinkTooFar, Die, files, Step, Run, StoreWrites
<1>2. /\ \A q \in Procs : q # p => db'[q] = db[q] /\ pc'[q] = pc[q]
      /\ pc[p] \notin SavedPCs /\ pc'[p] \notin SavedPCs /\ pc'[p] \notin HeldPCs
  BY <1>0, <1>1 DEF Others, Same, SavedPCs, HeldPCs, BlankPCs
<1>3. \A j : Unlinking(j)' <=> Unlinking(j)
  BY <1>2 DEF Unlinking
<1>4. StacksOK(s, c, Len(idx))' /\ KeysOK(s, c)'
  BY <1>1, <1>3 DEF Shape, StacksOK, KeysOK
<1>5. LinksOK(s, c)'
  <2>1. (\A q \in Procs : pc'[q] # "delunlink") => \A q \in Procs : pc[q] # "delunlink"
    BY <1>2 DEF SavedPCs
  <2> QED BY <1>1, <1>3, <2>1 DEF Shape, LinksOK
<1>6. CoverOK(s, c)' /\ HeldOK'
  BY <1>0, <1>1, <1>2 DEF Shape, CoverOK, HeldOK, Listed
<1>7. ASSUME NEW q \in Procs, q # p PROVE ProcOK(s, c, q)'
  <2>1. Same(q) /\ ProcOK(s, c, q)
    BY <1>1, <1>7 DEF Others, Shape
  <2>2. pc[q] \in ChainPCs => ChainOf(q) \in Lists
    BY HasTypes
  <2>3. Walks(s, c, q)' /\ Has(s, c, q)' /\ Lacks(s, c, q)'
    BY <1>1, <2>1, <2>2, OtherChain DEF ProcOK
  <2>4. Deletes(s, c, q)' /\ FreeWalks(s, c, q)'
    BY <1>1, <2>1, OtherFree DEF ProcOK
  <2>5. Holds(s, c, q)'
    BY <1>1, <2>1, OtherHeld DEF ProcOK, Holds
  <2> QED BY <2>3, <2>4, <2>5 DEF ProcOK
<1>8. ProcOK(s, c, p)'
  BY <1>0, IdleKnows DEF IdlePCs
<1> QED BY <1>4, <1>5, <1>6, <1>7, <1>8 DEF Shape

\* What _db_writeptr leaves when it writes the pointer of a record.
LEMMA PtrWritten ==
  ASSUME TInv, NEW j \in 1..Len(idx), NEW x, idx' = [idx EXCEPT ![j].ptr = x]
  PROVE /\ Len(idx') = Len(idx) /\ \A k \in 1..Len(idx) : k # j => idx'[k] = idx[k]
        /\ idx'[j].ptr = x /\ \A k \in 1..Len(idx) : idx'[k].key = idx[k].key
<1>0. idx \in Seq(IdxRec) /\ idx[j] \in IdxRec /\ Len(idx) \in Nat
  BY DEF TInv, FilesOK
<1>1. PICK e : e = idx[j]
  OBVIOUS
<1>2. PICK f : f = [e EXCEPT !.ptr = x]
  OBVIOUS
<1>3. f.ptr = x /\ f.key = idx[j].key
  BY <1>0, <1>1, <1>2 DEF IdxRec
<1>4. idx' = [idx EXCEPT ![j] = f]
  BY <1>1, <1>2
<1> QED BY <1>0, <1>3, <1>4

\* The two ways _db_dodelete and _db_findfree unlink the r-th record of a list h
\* leave the pointers of the list without it.
Unlinked(s, c, h, r) ==
  /\ Len(idx') = Len(idx)
  /\ \A j \in 1..Len(idx) : j # Before(s, c, h, r) => idx'[j] = idx[j]
  /\ \A j \in 1..Len(idx) : idx'[j].key = idx[j].key
  /\ r # c[h] => idx'[s[h][r + 1]].ptr = s[h][r - 1]

\* The pointer written is that of the record before, or the head pointer.
LEMMA UnlinkWrites ==
  ASSUME TInv, NEW s \in Stacks, NEW c \in Counts, StacksOK(s, c, Len(idx)), NEW h \in Lists,
         NEW r \in 1..c[h], NEW p \in Procs, OnList(s, c, p, h, r),
         IF db[p].ptroff = 0 THEN idx' = idx
         ELSE idx' = [idx EXCEPT ![db[p].ptroff].ptr = db[p].ptrval]
  PROVE Unlinked(s, c, h, r) /\ (db[p].ptroff = 0 <=> r = c[h])
<1>0. c[h] \in Nat /\ Len(idx) \in Nat
  BY DEF Counts, TInv, FilesOK
<1>1. db[p].ptroff = Before(s, c, h, r) /\ db[p].ptrval = s[h][r - 1]
  BY DEF OnList
<1>2. CASE r = c[h]
  BY <1>0, <1>1, <1>2 DEF Before, Unlinked
<1>3. CASE r # c[h]
  <2>1. r + 1 \in 1..c[h]
    BY <1>0, <1>3
  <2>2. s[h][r + 1] \in 1..Len(idx)
    BY <2>1 DEF StacksOK
  <2>3. db[p].ptroff = s[h][r + 1] /\ s[h][r + 1] # 0
    BY <1>0, <1>1, <1>3, <2>2 DEF Before
  <2> PICK j : j = s[h][r + 1]
    OBVIOUS
  <2> PICK x : x = s[h][r - 1]
    OBVIOUS
  <2>4. j \in 1..Len(idx) /\ idx' = [idx EXCEPT ![j].ptr = x]
    BY <1>1, <2>2, <2>3
  <2>5. /\ Len(idx') = Len(idx) /\ \A k \in 1..Len(idx) : k # j => idx'[k] = idx[k]
        /\ idx'[j].ptr = x /\ \A k \in 1..Len(idx) : idx'[k].key = idx[k].key
    BY <2>4, PtrWritten
  <2> QED BY <1>1, <1>3, <2>3, <2>5 DEF Unlinked
<1> QED BY <1>2, <1>3

\* The list without the record: where its records were, and what they point to.
LEMMA CutLinks ==
  ASSUME NEW s \in Stacks, NEW c \in Counts, Len(idx) \in Nat, StacksOK(s, c, Len(idx)),
         NEW h \in Lists, NEW r \in 1..c[h], Unlinked(s, c, h, r),
         \A g \in Lists : \A t \in 1..c[g] :
           s[g][t] # s[h][r] => idx[s[g][t]].ptr = s[g][t - 1],
         NEW s2, NEW c2, s2 = Cut(s, h, r), c2 = Less(c, h)
  PROVE /\ \A g \in Lists : \A t \in 1..c2[g] :
             /\ \E x \in 1..c[g] : s2[g][t] = s[g][x]
             /\ s2[g][t] # s[h][r]
             /\ idx'[s2[g][t]].ptr = s2[g][t - 1]
        /\ s2[h][c2[h]] = IF r = c[h] THEN s[h][r - 1] ELSE s[h][c[h]]
        /\ s2 \in Stacks /\ c2 \in Counts
        /\ \A g \in Lists : g # h => s2[g] = s[g] /\ c2[g] = c[g]
<1>1. /\ s2 \in Stacks /\ c2 \in Counts
      /\ c2[h] = c[h] - 1
      /\ \A t \in Nat : /\ t < r => s2[h][t] = s[h][t]
                        /\ r <= t => s2[h][t] = s[h][t + 1]
      /\ \A g \in Lists : g # h => s2[g] = s[g] /\ c2[g] = c[g]
  BY CutIs
<1>2. \A g \in Lists : c[g] \in Nat /\ c2[g] \in Nat
  BY <1>1 DEF Counts
<1>3. s2[h][c2[h]] = IF r = c[h] THEN s[h][r - 1] ELSE s[h][c[h]]
  <2>1. CASE r = c[h]
    <3>1. c2[h] = r - 1 /\ r - 1 \in Nat /\ r - 1 < r
      BY <1>1, <1>2, <2>1
    <3> QED BY <1>1, <2>1, <3>1
  <2>2. CASE r # c[h]
    <3>1. c2[h] \in Nat /\ r <= c2[h] /\ c2[h] + 1 = c[h]
      BY <1>1, <1>2, <2>2
    <3> QED BY <1>1, <2>2, <3>1
  <2> QED BY <2>1, <2>2
\* A record that stays, and is not the one before the record removed, keeps its pointer.
<1>4. ASSUME NEW g \in Lists, NEW t \in 1..c[g], ~(g = h /\ t = r), ~(g = h /\ t = r + 1)
      PROVE s[g][t] # s[h][r] /\ idx'[s[g][t]].ptr = s[g][t - 1]
  <2>1. s[g][t] # s[h][r]
    BY <1>4 DEF StacksOK
  <2>2. s[g][t] # Before(s, c, h, r) /\ s[g][t] \in 1..Len(idx)
    <3>1. s[g][t] \in 1..Len(idx) /\ s[g][t] # 0
      BY DEF StacksOK
    <3>2. r # c[h] => r + 1 \in 1..c[h]
      BY <1>2
    <3> QED BY <1>4, <3>1, <3>2 DEF StacksOK, Before
  <2> QED BY <2>1, <2>2 DEF Unlinked
<1>5. ASSUME NEW g \in Lists, NEW t \in 1..c2[g]
      PROVE /\ \E x \in 1..c[g] : s2[g][t] = s[g][x]
            /\ s2[g][t] # s[h][r]
            /\ idx'[s2[g][t]].ptr = s2[g][t - 1]
  <2>1. CASE g # h
    BY <1>1, <1>4, <2>1
  <2>2. CASE g = h /\ t < r
    <3>1. /\ t \in Nat /\ t - 1 \in Nat /\ t - 1 < r /\ t \in 1..c[h] /\ t # r /\ t # r + 1
      BY <1>1, <1>2, <2>2
    <3>2. s2[h][t] = s[h][t] /\ s2[h][t - 1] = s[h][t - 1]
      BY <1>1, <2>2, <3>1
    <3> QED BY <1>4, <2>2, <3>1, <3>2
  <2>3. CASE g = h /\ t = r
    <3>1. r + 1 \in 1..c[h] /\ r \in Nat /\ r - 1 \in Nat /\ r - 1 < r /\ r <= r /\ r # c[h]
          /\ r + 1 # r
      BY <1>1, <1>2, <2>3
    <3>2. s2[h][r] = s[h][r + 1] /\ s2[h][r - 1] = s[h][r - 1]
      BY <1>1, <3>1
    <3>3. s[h][r + 1] # s[h][r]
      BY <3>1 DEF StacksOK
    <3> QED BY <2>3, <3>1, <3>2, <3>3 DEF Unlinked
  <2>4. CASE g = h /\ r < t
    <3>1. /\ t \in Nat /\ t + 1 \in 1..c[h] /\ t - 1 \in Nat /\ r <= t - 1 /\ r <= t
          /\ t - 1 + 1 = t /\ t + 1 - 1 = t /\ t + 1 # r /\ t + 1 # r + 1
      BY <1>1, <1>2, <2>4
    <3>2. s2[h][t] = s[h][t + 1] /\ s2[h][t - 1] = s[h][t]
      <4>1. s2[h][t - 1] = s[h][t - 1 + 1]
        BY <1>1, <3>1
      <4> QED BY <1>1, <3>1, <4>1
    <3>3. s[h][t + 1] # s[h][r] /\ idx'[s[h][t + 1]].ptr = s[h][t + 1 - 1]
      BY <1>4, <2>4, <3>1
    <3> QED BY <2>4, <3>1, <3>2, <3>3
  <2> QED BY <1>2, <2>1, <2>2, <2>3, <2>4
<1> QED BY <1>1, <1>3, <1>5

\* _db_findfree takes a record off the free list.
LEMMA FreeUnlinkShape ==
  ASSUME TInv, LInv, NEW s \in Stacks, NEW c \in Counts, Shape(s, c), NEW p \in Procs,
         FreeUnlink(p)
  PROVE \E s2 \in Stacks, c2 \in Counts : Shape(s2, c2)'
<1> PICK i : i = db[p].idxoff
  OBVIOUS
<1>0. /\ pc[p] = "ffunlink" /\ pc'[p] = "ffunlock" /\ "free" \in Lists /\ "free" \notin Chains
      /\ Len(idx) \in Nat /\ StacksOK(s, c, Len(idx)) /\ c["free"] \in Nat
      /\ pc[p] \in DelPCs \cup FreePCs
  BY HasTypes, DbAssumption DEF FreeUnlink, At, Jump, TInv, ProcsOK, FreePCs, Counts, Lists, Shape
<1>1. chain' = chain /\ db' = db /\ Others(p)
  BY OthersSame DEF FreeUnlink, Step, Run, FindFree
<1>2. PICK r \in 1..c["free"] : OnList(s, c, p, "free", r)
  BY <1>0 DEF Shape, ProcOK, FreeWalks
<1>3. Unlinked(s, c, "free", r) /\ (db[p].ptroff = 0 <=> r = c["free"])
  <2>1. IF db[p].ptroff = 0 THEN idx' = idx
        ELSE idx' = [idx EXCEPT ![db[p].ptroff].ptr = db[p].ptrval]
    BY DEF FreeUnlink
  <2> QED BY <1>0, <1>2, <2>1, UnlinkWrites
<1>4. \A j : ~Unlinking(j)
  BY <1>0, OneUnlinks DEF SavedPCs
<1>5. \A q \in Procs : q # p => db'[q] = db[q] /\ pc'[q] = pc[q]
  BY <1>1 DEF Others, Same
<1>6. \A j : ~Unlinking(j)'
  BY <1>0, <1>4, <1>5 DEF Unlinking, SavedPCs
<1>7. i = s["free"][r] /\ db[p].ptrval = s["free"][r - 1]
  BY <1>2 DEF OnList
<1>8. i \in 1..Len(idx) /\ idx[i].key = Blank
  BY <1>0, <1>7 DEF Shape, KeysOK, StacksOK
<1>9. PICK s2, c2 : s2 = Cut(s, "free", r) /\ c2 = Less(c, "free")
  OBVIOUS
<1>10. /\ \A g \in Lists : \A t \in 1..c2[g] :
            /\ \E x \in 1..c[g] : s2[g][t] = s[g][x]
            /\ s2[g][t] # i
            /\ idx'[s2[g][t]].ptr = s2[g][t - 1]
       /\ s2["free"][c2["free"]] = IF r = c["free"] THEN s["free"][r - 1] ELSE s["free"][c["free"]]
       /\ s2 \in Stacks /\ c2 \in Counts
       /\ \A g \in Lists : g # "free" => s2[g] = s[g] /\ c2[g] = c[g]
  <2>1. \A g \in Lists : \A t \in 1..c[g] :
          s[g][t] # s["free"][r] => idx[s[g][t]].ptr = s[g][t - 1]
    BY <1>4 DEF Shape, LinksOK
  <2>2. "free" \in Lists /\ Len(idx) \in Nat /\ StacksOK(s, c, Len(idx))
    BY <1>0
  <2>3. s2 \in Stacks /\ c2 \in Counts
    BY <1>3, <1>9, <2>1, <2>2, CutLinks
  <2>4. \A g \in Lists : g # "free" => s2[g] = s[g] /\ c2[g] = c[g]
    BY <1>3, <1>9, <2>1, <2>2, CutLinks
  <2>5. s2["free"][c2["free"]]
          = IF r = c["free"] THEN s["free"][r - 1] ELSE s["free"][c["free"]]
    BY <1>3, <1>9, <2>1, <2>2, CutLinks
  <2>6. \A g \in Lists : \A t \in 1..c2[g] :
           /\ \E x \in 1..c[g] : s2[g][t] = s[g][x]
           /\ s2[g][t] # s["free"][r]
           /\ idx'[s2[g][t]].ptr = s2[g][t - 1]
    BY <1>3, <1>9, <2>1, <2>2, CutLinks
  <2> QED BY <1>7, <2>3, <2>4, <2>5, <2>6
<1>11. /\ StacksOK(s2, c2, Len(idx))
       /\ \A j : Listed(s2, c2, j) <=> Listed(s, c, j) /\ j # i
  BY <1>0, <1>7, <1>9, CutStacks
<1>12. Len(idx') = Len(idx) /\ \A j \in 1..Len(idx) : idx'[j].key = idx[j].key
  BY <1>3 DEF Unlinked
<1>13. \A g \in Chains : g \in Lists /\ g # "free" /\ s2[g] = s[g] /\ c2[g] = c[g]
  BY <1>0, <1>10 DEF Lists
<1>14. \A g \in Lists : \A t \in 1..c[g] : idx'[s[g][t]].key = idx[s[g][t]].key
  BY <1>0, <1>12 DEF StacksOK
<1>15. LinksOK(s2, c2)'
  <2>1. free' = s2["free"][c2["free"]]
    <3>1. free = s["free"][c["free"]]
      BY <1>0, FreeTop DEF FreePCs
    <3> QED BY <1>3, <1>7, <1>10, <3>1 DEF FreeUnlink
  <2>2. \A g \in Chains : chain'[g] = s2[g][c2[g]]
    BY <1>1, <1>13 DEF Shape, LinksOK
  <2> QED BY <1>10, <2>1, <2>2 DEF LinksOK
<1>16. KeysOK(s2, c2)'
  <2>1. \A g \in Chains : \A t \in 1..c2[g] :
          idx'[s2[g][t]].key # Blank /\ Hash[idx'[s2[g][t]].key] = g
    BY <1>4, <1>13, <1>14 DEF Shape, KeysOK
  <2>2. \A t \in 1..c2["free"] : idx'[s2["free"][t]].key = Blank
    <3> TAKE t \in 1..c2["free"]
    <3>1. PICK x \in 1..c["free"] : s2["free"][t] = s["free"][x]
      BY <1>0, <1>10
    <3> QED BY <1>0, <1>14, <3>1 DEF Shape, KeysOK
  <2>3. \A g \in Chains : \A x, t \in 1..c2[g] :
          idx'[s2[g][x]].key = idx'[s2[g][t]].key /\ idx'[s2[g][x]].key # Blank => x = t
    BY <1>13, <1>14 DEF Shape, KeysOK
  <2> QED BY <1>6, <2>1, <2>2, <2>3 DEF KeysOK
<1>17. pc'[p] \in HeldPCs /\ pc[p] \notin HeldPCs
  BY <1>0 DEF HeldPCs, BlankPCs
<1>18. CoverOK(s2, c2)'
  <2> SUFFICES ASSUME NEW j \in 1..Len(idx)
      PROVE \/ Listed(s2, c2, j) \/ PtrMax < j
            \/ \E q \in Procs : pc'[q] \in HeldPCs /\ db'[q].idxoff = j
    BY <1>12 DEF CoverOK, Listed
  <2>1. \/ Listed(s, c, j) \/ PtrMax < j
        \/ \E q \in Procs : pc[q] \in HeldPCs /\ db[q].idxoff = j
    BY DEF Shape, CoverOK
  <2>2. j = i => db'[p].idxoff = j
    BY <1>1
  <2> QED BY <1>5, <1>11, <1>17, <2>1, <2>2
<1>19. \A q \in Procs : pc[q] \in HeldPCs => db[q].idxoff # i /\ ~Listed(s2, c2, db[q].idxoff)
  BY <1>0, <1>7, <1>11, Elsewhere DEF Shape, ProcOK, Holds
<1>20. HeldOK'
  <2> SUFFICES ASSUME NEW a \in Procs, NEW b \in Procs, pc'[a] \in HeldPCs, pc'[b] \in HeldPCs, a # b
      PROVE db'[a].idxoff # db'[b].idxoff
    BY DEF HeldOK
  <2> QED BY <1>1, <1>5, <1>19 DEF Shape, HeldOK
<1>21. StacksOK(s2, c2, Len(idx))'
  BY <1>11, <1>12 DEF StacksOK
<1>22. ASSUME NEW q \in Procs, q # p PROVE ProcOK(s2, c2, q)'
  <2>1. pc[q] \in ChainPCs => ChainOf(q) \in Chains
    BY HasTypes
  <2>2. pc[q] \in ChainPCs =>
          /\ s2[ChainOf(q)] = s[ChainOf(q)] /\ c2[ChainOf(q)] = c[ChainOf(q)]
          /\ \A t \in 1..c[ChainOf(q)] : idx'[s[ChainOf(q)][t]].key = idx[s[ChainOf(q)][t]].key
    BY <1>13, <1>14, <2>1
  <2>3. pc[q] \in HeldPCs => idx'[db[q].idxoff] = idx[db[q].idxoff]
    <3> SUFFICES ASSUME pc[q] \in HeldPCs PROVE idx'[db[q].idxoff] = idx[db[q].idxoff]
      OBVIOUS
    <3>1. db[q].idxoff \in 1..Len(idx) /\ db[q].idxoff # 0
      BY <1>0, HasTypes DEF HeldPCs, BlankPCs, IdxPCs
    <3>2. r # c["free"] => r + 1 \in 1..c["free"]
      BY <1>0
    <3>3. r # c["free"] => db[q].idxoff # s["free"][r + 1]
      BY <1>0, <3>2, Elsewhere
    <3>4. db[q].idxoff # Before(s, c, "free", r)
      BY <3>1, <3>3 DEF Before
    <3> QED BY <1>3, <3>1, <3>4 DEF Unlinked
  <2> QED BY <1>0, <1>1, <1>19, <1>22, <2>2, <2>3, OtherProcs
<1>23. ProcOK(s2, c2, p)'
  <2>1. ChainOf(p) \in Chains /\ ChainOf(p)' = ChainOf(p)
    BY <1>0, <1>1, HasTypes DEF ChainPCs, FreePCs, ChainOf
  <2>2. Absent(s, c, p) /\ db[p].head = chain[ChainOf(p)]
    BY <1>0 DEF Shape, ProcOK, Lacks, HeadPCs, FreePCs
  <2>3. \A t \in 1..c2[ChainOf(p)] : idx'[s2[ChainOf(p)][t]].key # db[p].key
    BY <1>13, <1>14, <2>1, <2>2 DEF Absent
  <2>4. Lacks(s2, c2, p)'
    BY <1>1, <2>1, <2>2, <2>3 DEF Lacks, Absent
  <2>5. Holds(s2, c2, p)'
    BY <1>0, <1>1, <1>8, <1>11, <1>12 DEF Holds, Listed
  <2> QED BY <1>0, <2>4, <2>5 DEF ProcOK, Walks, Has, Deletes, FreeWalks, HasPCs, SavedPCs
<1>24. Shape(s2, c2)'
  BY <1>15, <1>16, <1>18, <1>20, <1>21, <1>22, <1>23 DEF Shape
<1> QED BY <1>10, <1>24

\* _db_dodelete takes the blank record off its chain, and the free list has it.
LEMMA DelUnlinkShape ==
  ASSUME TInv, LInv, NEW s \in Stacks, NEW c \in Counts, Shape(s, c), NEW p \in Procs,
         DelUnlink(p)
  PROVE \E s2 \in Stacks, c2 \in Counts : Shape(s2, c2)'
<1> PICK i : i = db[p].idxoff
  OBVIOUS
<1> PICK h : h = ChainOf(p)
  OBVIOUS
<1>0. /\ pc[p] = "delunlink" /\ pc'[p] = "delunlock" /\ "free" \in Lists /\ "free" \notin Chains
      /\ Len(idx) \in Nat /\ StacksOK(s, c, Len(idx)) /\ c["free"] \in Nat
      /\ pc[p] \in DelPCs \cup FreePCs /\ pc[p] \in SavedPCs /\ pc[p] \in ChainPCs
      /\ h \in Chains /\ h \in Lists /\ h # "free" /\ c[h] \in Nat /\ db[p].op # "fetch"
  BY HasTypes, DbAssumption DEF DelUnlink, At, Jump, TInv, ProcsOK, DelPCs, Counts, Lists, Shape,
     ChainPCs, SavedPCs
<1>1. free' = free /\ db' = db /\ Others(p)
  BY OthersSame DEF DelUnlink, Step, Run, DoDelete
<1>2. PICK r \in 1..c[h] : OnList(s, c, p, h, r)
  BY <1>0 DEF Shape, ProcOK, Has
<1>3. Unlinked(s, c, h, r) /\ (db[p].ptroff = 0 <=> r = c[h])
  <2>1. IF db[p].ptroff = 0 THEN idx' = idx
        ELSE idx' = [idx EXCEPT ![db[p].ptroff].ptr = db[p].ptrval]
    BY DEF DelUnlink
  <2> QED BY <1>0, <1>2, <2>1, UnlinkWrites
<1>4. \A j : Unlinking(j) <=> j = i
  BY <1>0, OneUnlinks
<1>5. \A q \in Procs : q # p => db'[q] = db[q] /\ pc'[q] = pc[q] /\ pc[q] \notin SavedPCs
  <2>1. \A q \in Procs : q # p => pc[q] \notin DelPCs
    BY <1>0, Alone
  <2> QED BY <1>1, <2>1 DEF Others, Same, SavedPCs, DelPCs
<1>6. \A j : ~Unlinking(j)'
  BY <1>0, <1>5 DEF Unlinking, SavedPCs
<1>7. i = s[h][r] /\ db[p].ptrval = s[h][r - 1]
  BY <1>2 DEF OnList
<1>8. i \in 1..Len(idx) /\ i <= PtrMax /\ i \in Nat
  BY <1>0, <1>7 DEF StacksOK
<1>9. /\ idx[i].key = Blank /\ idx[i].ptr = s["free"][c["free"]] /\ free = i
      /\ Absent(s, c, p)
  BY <1>0 DEF Shape, ProcOK, Deletes, Lacks
<1>10. PICK s1, c1 : s1 = Cut(s, h, r) /\ c1 = Less(c, h)
  OBVIOUS
<1>11. /\ \A g \in Lists : \A t \in 1..c1[g] :
            /\ \E x \in 1..c[g] : s1[g][t] = s[g][x]
            /\ s1[g][t] # i
            /\ idx'[s1[g][t]].ptr = s1[g][t - 1]
       /\ s1[h][c1[h]] = IF r = c[h] THEN s[h][r - 1] ELSE s[h][c[h]]
       /\ s1 \in Stacks /\ c1 \in Counts
       /\ \A g \in Lists : g # h => s1[g] = s[g] /\ c1[g] = c[g]
  <2>1. \A g \in Lists : \A t \in 1..c[g] :
          s[g][t] # s[h][r] => idx[s[g][t]].ptr = s[g][t - 1]
    BY <1>4, <1>7 DEF Shape, LinksOK
  <2>2. h \in Lists /\ Len(idx) \in Nat /\ StacksOK(s, c, Len(idx))
    BY <1>0
  <2>3. s1 \in Stacks /\ c1 \in Counts
    BY <1>3, <1>10, <2>1, <2>2, CutLinks
  <2>4. \A g \in Lists : g # h => s1[g] = s[g] /\ c1[g] = c[g]
    BY <1>3, <1>10, <2>1, <2>2, CutLinks
  <2>5. s1[h][c1[h]] = IF r = c[h] THEN s[h][r - 1] ELSE s[h][c[h]]
    BY <1>3, <1>10, <2>1, <2>2, CutLinks
  <2>6. \A g \in Lists : \A t \in 1..c1[g] :
           /\ \E x \in 1..c[g] : s1[g][t] = s[g][x]
           /\ s1[g][t] # s[h][r]
           /\ idx'[s1[g][t]].ptr = s1[g][t - 1]
    BY <1>3, <1>10, <2>1, <2>2, CutLinks
  <2> QED BY <1>7, <2>3, <2>4, <2>5, <2>6
<1>12. /\ StacksOK(s1, c1, Len(idx))
       /\ \A j : Listed(s1, c1, j) <=> Listed(s, c, j) /\ j # i
  BY <1>0, <1>7, <1>10, CutStacks
<1>13. PICK s2, c2 : s2 = Push(s1, c1, "free", i) /\ c2 = More(c1, "free")
  OBVIOUS
<1>14. s1 \in Stacks /\ c1 \in Counts /\ "free" \in Lists /\ i \in Nat
       /\ c1["free"] = c["free"] /\ s1["free"] = s["free"]
  BY <1>0, <1>8, <1>11
<1>15. s2 \in Stacks /\ c2 \in Counts
  BY <1>13, <1>14, PushIs
<1>16. c2["free"] = c["free"] + 1 /\ s2["free"][c["free"] + 1] = i
  <2>0. s2["free"] = [s1["free"] EXCEPT ![c1["free"] + 1] = i] /\ c2["free"] = c1["free"] + 1
    BY <1>13, <1>14 DEF Push, More, Stacks, Counts
  <2>1. c1["free"] \in Nat /\ s1["free"] \in [Nat -> Nat]
    BY <1>14 DEF Stacks, Counts
  <2> QED BY <1>14, <2>0, <2>1
<1>17. \A t \in Nat : t # c["free"] + 1 => s2["free"][t] = s["free"][t]
  <2>0. s2["free"] = [s1["free"] EXCEPT ![c1["free"] + 1] = i]
    BY <1>13, <1>14 DEF Push, More, Stacks, Counts
  <2>1. c1["free"] \in Nat /\ s1["free"] \in [Nat -> Nat]
    BY <1>14 DEF Stacks, Counts
  <2> QED BY <1>14, <2>0, <2>1
<1>18. \A g \in Lists : g # "free" => s2[g] = s1[g] /\ c2[g] = c1[g]
  BY <1>13, <1>14 DEF Push, More, Stacks, Counts
<1>19. /\ StacksOK(s2, c2, Len(idx))
       /\ \A j : Listed(s2, c2, j) <=> Listed(s1, c1, j) \/ j = i
  <2>1. ~Listed(s1, c1, i)
    BY <1>12
  <2> QED BY <1>0, <1>8, <1>12, <1>13, <1>14, <2>1, PushStacks
<1>20. Listed(s, c, i)
  BY <1>0, <1>7 DEF Listed
<1>21. \A j : Listed(s2, c2, j) <=> Listed(s, c, j)
  BY <1>12, <1>19, <1>20
<1>22. Len(idx') = Len(idx) /\ \A j \in 1..Len(idx) : idx'[j].key = idx[j].key
  BY <1>3 DEF Unlinked
<1>23. \A g \in Chains : g \in Lists /\ g # "free" /\ s2[g] = s1[g] /\ c2[g] = c1[g]
  BY <1>0, <1>18 DEF Lists
<1>24. \A g \in Lists : \A t \in 1..c[g] : idx'[s[g][t]].key = idx[s[g][t]].key
  BY <1>0, <1>22 DEF StacksOK
\* Where the records of the new lists come from.
<1>25. ASSUME NEW g \in Lists, NEW t \in 1..c2[g]
       PROVE \/ g = "free" /\ s2[g][t] = i /\ s2[g][t - 1] = s["free"][c["free"]]
             \/ /\ t \in 1..c1[g] /\ s2[g][t] = s1[g][t] /\ s2[g][t - 1] = s1[g][t - 1]
  <2>1. CASE g # "free"
    BY <1>18, <2>1
  <2>2. CASE g = "free" /\ t = c["free"] + 1
    <3>1. t - 1 = c["free"] /\ c["free"] # c["free"] + 1
      BY <1>0, <2>2
    <3> QED BY <1>0, <1>16, <1>17, <2>2, <3>1
  <2>3. CASE g = "free" /\ t # c["free"] + 1
    <3>1. t \in 1..c["free"] /\ t \in Nat /\ t - 1 \in Nat /\ t - 1 # c["free"] + 1
      BY <1>0, <1>16, <2>3
    <3> QED BY <1>14, <1>17, <2>3, <3>1
  <2> QED BY <2>1, <2>2, <2>3
<1>26. LinksOK(s2, c2)'
  <2>1. free' = s2["free"][c2["free"]]
    BY <1>1, <1>9, <1>16
  <2>2. \A g \in Chains : chain'[g] = s2[g][c2[g]]
    <3>1. chain'[h] = s1[h][c1[h]] /\ \A g \in Chains : g # h => chain'[g] = chain[g]
      <4>1. chain \in [Chains -> 0..Len(idx)] /\ chain[h] = s[h][c[h]]
        BY <1>0 DEF TInv, FilesOK, Shape, LinksOK
      <4>2. CASE r = c[h]
        <5>1. chain' = [chain EXCEPT ![h] = s[h][r - 1]]
          BY <1>3, <1>7, <4>2 DEF DelUnlink
        <5> QED BY <1>0, <1>11, <4>1, <4>2, <5>1
      <4>3. CASE r # c[h]
        BY <1>3, <1>11, <4>1, <4>3 DEF DelUnlink
      <4> QED BY <4>2, <4>3
    <3>2. \A g \in Chains : g # h => chain[g] = s1[g][c1[g]]
      BY <1>11, <1>23 DEF Shape, LinksOK
    <3> QED BY <1>23, <3>1, <3>2
  <2>3. idx'[i].ptr = s["free"][c["free"]]
    <3>1. i # Before(s, c, h, r)
      <4>1. r # c[h] => r + 1 \in 1..c[h] /\ r + 1 # r
        BY <1>0
      <4>2. i # 0
        BY <1>8
      <4> QED BY <1>0, <1>7, <4>1, <4>2 DEF Before, StacksOK
    <3> QED BY <1>3, <1>8, <1>9, <3>1 DEF Unlinked
  <2>4. \A g \in Lists : \A t \in 1..c2[g] : idx'[s2[g][t]].ptr = s2[g][t - 1]
    BY <1>11, <1>25, <2>3
  <2> QED BY <2>1, <2>2, <2>4 DEF LinksOK
<1>27. KeysOK(s2, c2)'
  <2>1. ASSUME NEW g \in Chains, NEW t \in 1..c2[g]
        PROVE /\ idx'[s2[g][t]].key # Blank /\ Hash[idx'[s2[g][t]].key] = g
              /\ \E x \in 1..c[g] : s2[g][t] = s[g][x]
    <3>1. g \in Lists /\ t \in 1..c1[g] /\ s2[g][t] = s1[g][t]
      BY <1>23
    <3>2. PICK x \in 1..c[g] : s1[g][t] = s[g][x] /\ s[g][x] # i
      BY <1>11, <3>1
    <3>3. ~Unlinking(s[g][x])
      BY <1>4, <3>2
    <3> QED BY <1>24, <3>1, <3>2, <3>3 DEF Shape, KeysOK
  <2>2. \A t \in 1..c2["free"] : idx'[s2["free"][t]].key = Blank
    <3> TAKE t \in 1..c2["free"]
    <3>1. CASE s2["free"][t] = i
      BY <1>8, <1>9, <1>22, <3>1
    <3>2. CASE t \in 1..c1["free"] /\ s2["free"][t] = s1["free"][t]
      BY <1>14, <1>24, <3>2 DEF Shape, KeysOK
    <3> QED BY <1>14, <1>25, <3>1, <3>2
  <2>3. ASSUME NEW g \in Chains, NEW x \in 1..c2[g], NEW t \in 1..c2[g],
               idx'[s2[g][x]].key = idx'[s2[g][t]].key, idx'[s2[g][x]].key # Blank
        PROVE x = t
    <3>0. g \in Lists
      BY <1>23
    <3>1. PICK a \in 1..c[g] : s2[g][x] = s[g][a]
      BY <2>1
    <3>2. PICK b \in 1..c[g] : s2[g][t] = s[g][b]
      BY <2>1
    <3>3. a = b
      BY <1>24, <2>3, <3>0, <3>1, <3>2 DEF Shape, KeysOK
    <3>4. s2[g][x] = s2[g][t]
      BY <3>1, <3>2, <3>3
    <3> QED BY <1>19, <3>0, <3>4 DEF StacksOK
  <2> QED BY <1>6, <2>1, <2>2, <2>3 DEF KeysOK
<1>28. \A q \in Procs : /\ pc'[q] \in HeldPCs <=> pc[q] \in HeldPCs
                        /\ db'[q] = db[q]
  BY <1>0, <1>1, <1>5 DEF HeldPCs, BlankPCs
<1>29. CoverOK(s2, c2)'
  <2> SUFFICES ASSUME NEW j \in 1..Len(idx)
      PROVE \/ Listed(s2, c2, j) \/ PtrMax < j
            \/ \E q \in Procs : pc'[q] \in HeldPCs /\ db'[q].idxoff = j
    BY <1>22 DEF CoverOK, Listed
  <2>1. \/ Listed(s, c, j) \/ PtrMax < j
        \/ \E q \in Procs : pc[q] \in HeldPCs /\ db[q].idxoff = j
    BY DEF Shape, CoverOK
  <2> QED BY <1>21, <1>28, <2>1
<1>30. HeldOK' /\ StacksOK(s2, c2, Len(idx))'
  BY <1>19, <1>22, <1>28 DEF Shape, HeldOK, StacksOK
<1>31. ASSUME NEW q \in Procs, q # p PROVE ProcOK(s2, c2, q)'
  <2>1. pc[q] \in ChainPCs => ChainOf(q) \in Chains /\ ChainOf(q) # h
    BY <1>0, <1>31, HasTypes, Alone
  <2>2. pc[q] \in ChainPCs =>
          /\ s2[ChainOf(q)] = s[ChainOf(q)] /\ c2[ChainOf(q)] = c[ChainOf(q)]
          /\ \A t \in 1..c[ChainOf(q)] : idx'[s[ChainOf(q)][t]].key = idx[s[ChainOf(q)][t]].key
    BY <1>11, <1>23, <1>24, <2>1
  <2>3. pc[q] \in ChainPCs => chain'[ChainOf(q)] = chain[ChainOf(q)]
    BY <1>0, <2>1 DEF DelUnlink, TInv, FilesOK
  <2>4. pc[q] \in HeldPCs => idx'[db[q].idxoff] = idx[db[q].idxoff]
    <3> SUFFICES ASSUME pc[q] \in HeldPCs PROVE idx'[db[q].idxoff] = idx[db[q].idxoff]
      OBVIOUS
    <3>1. db[q].idxoff \in 1..Len(idx) /\ db[q].idxoff # 0
      BY <1>0, HasTypes DEF HeldPCs, BlankPCs, IdxPCs
    <3>2. r # c[h] => r + 1 \in 1..c[h]
      BY <1>0
    <3>3. r # c[h] => db[q].idxoff # s[h][r + 1]
      BY <1>0, <3>2, Elsewhere
    <3>4. db[q].idxoff # Before(s, c, h, r)
      BY <3>1, <3>3 DEF Before
    <3> QED BY <1>3, <3>1, <3>4 DEF Unlinked
  <2>5. pc[q] \in HeldPCs => ~Listed(s2, c2, db[q].idxoff)
    BY <1>21 DEF Shape, ProcOK, Holds
  <2> QED BY <1>0, <1>1, <1>31, <2>2, <2>3, <2>4, <2>5, OtherProcs
<1>32. ProcOK(s2, c2, p)'
  <2>1. ChainOf(p)' = h
    BY <1>1 DEF ChainOf
  <2>2. \A t \in 1..c2[h] : idx'[s2[h][t]].key # db[p].key
    <3> TAKE t \in 1..c2[h]
    <3>1. t \in 1..c1[h] /\ s2[h][t] = s1[h][t]
      BY <1>0, <1>23
    <3>2. PICK x \in 1..c[h] : s1[h][t] = s[h][x]
      BY <1>0, <1>11, <3>1
    <3> QED BY SMTT(60), <1>0, <1>9, <1>24, <3>1, <3>2 DEF Absent
  <2>3. Lacks(s2, c2, p)'
    BY <1>0, <1>1, <2>1, <2>2 DEF Lacks, Absent, HeadPCs, FreePCs
  <2> QED BY <1>0, <2>3, StoreKnows DEF StorePlaces
<1>33. Shape(s2, c2)'
  BY <1>26, <1>27, <1>29, <1>30, <1>31, <1>32 DEF Shape
<1> QED BY <1>15, <1>33

\* Every step of a process that is not killed leaves the lists lists.
LEMMA ListStep ==
  ASSUME TInv, LInv, EInv, SInv, NEW p \in Procs, Call(p) \/ Run(p)
  PROVE SInv'
<1>0. PICK s \in Stacks, c \in Counts : Shape(s, c)
  BY DEF SInv, Stacks, Counts
<1> SUFFICES \E s2 \in Stacks, c2 \in Counts : Shape(s2, c2)'
  BY DEF SInv, Stacks, Counts
<1>1. CASE Call(p) \/ Nextrec(p) \/ Return(p)
  BY <1>0, <1>1, CallShape
<1>2. CASE Find(p)
  BY <1>0, <1>2, FindShape
<1>3. CASE DoDelete(p)
  <2>1. CASE DelUnlink(p)
    BY <1>0, <2>1, DelUnlinkShape
  <2>2. CASE ~DelUnlink(p)
    <3>1. Shape(s, c)'
      BY <1>0, <1>3, <2>2, DeleteShape, DelWriteIdxShape, DelWriteFreeShape, EndShape DEF DoDelete
    <3> QED BY <3>1
  <2> QED BY <2>1, <2>2
<1>4. CASE FindFree(p)
  <2>1. CASE FreeUnlink(p)
    BY <1>0, <2>1, FreeUnlinkShape
  <2>2. CASE FreeUnlock(p)
    <3>1. pc[p] \in {"ffunlock", "ffwalk"}
      BY <2>2 DEF FreeUnlock, At
    <3>2. Shape(s, c)'
      BY <1>0, <2>2, <3>1, EndShape, ReuseShape
    <3> QED BY <3>2
  <2>3. CASE FreeLock(p) \/ FreeRead(p) \/ FreeWalk(p)
    <3>1. Shape(s, c)'
      BY <1>0, <2>3, AppendShape, FreeReadShape, FreeWalkShape
    <3> QED BY <3>1
  <2> QED BY <1>4, <2>1, <2>2, <2>3 DEF FindFree
<1>5. CASE StoreWrites(p)
  <2>1. CASE LinkChain(p)
    BY <1>0, <2>1, LinkShape
  <2>2. CASE ~LinkChain(p)
    <3>1. CASE LinkTooFar(p)
      BY <1>0, <3>1, TooFarShape
    <3>2. CASE AppendIdx(p) \/ ReuseIdx(p)
      BY <1>0, <3>2, AppendIdxShape, ReuseIdxShape
    <3>3. CASE Overwrite(p) \/ ReuseDat(p)
      BY <1>0, <3>3, EndShape, ReuseShape
    <3> QED BY <1>0, <1>5, <2>2, <3>1, <3>2, <3>3, AppendShape DEF StoreWrites
  <2> QED BY <2>1, <2>2
<1> QED BY <1>1, <1>2, <1>3, <1>4, <1>5 DEF Run

\* Nobody is killed when none may be.
LEMMA NoKill ==
  ASSUME MaxKills = 0, IsFiniteSet(Procs), NEW p \in Procs, Kill(p)
  PROVE FALSE
<1> DEFINE D == {q \in Procs : pc[q] = "dead"}
<1>1. D \subseteq Procs
  OBVIOUS
<1>2. IsFiniteSet(D)
  BY <1>1, FS_Subset
<1>3. Cardinality(D) \in Nat
  BY <1>2, FS_CardinalityType
<1>4. Cardinality(D) < MaxKills
  BY DEF Kill
<1> HIDE DEF D
<1> QED BY <1>3, <1>4

\* The index file is empty, and so are the lists.
LEMMA ListInit == Init => SInv
<1> SUFFICES ASSUME Init PROVE SInv
  OBVIOUS
<1> PICK s, c : s = [h \in Lists |-> [n \in Nat |-> 0]] /\ c = [h \in Lists |-> 0]
  OBVIOUS
<1>1. s \in Stacks /\ c \in Counts
  BY DEF Stacks, Counts
<1>2. \A h \in Lists : c[h] = 0 /\ s[h][0] = 0 /\ \A r : r \notin 1..c[h]
  OBVIOUS
<1>3. "free" \in Lists /\ \A h \in Chains : h \in Lists
  BY DEF Lists
<1>4. StacksOK(s, c, Len(idx))
  BY <1>2 DEF StacksOK
<1>5. LinksOK(s, c) /\ KeysOK(s, c)
  BY <1>2, <1>3 DEF Init, LinksOK, KeysOK
<1>6. \A p \in Procs : pc[p] = "idle"
  BY DEF Init
<1>7. CoverOK(s, c) /\ HeldOK
  BY <1>6 DEF Init, CoverOK, HeldOK, HeldPCs, BlankPCs
<1>8. ASSUME NEW p \in Procs PROVE ProcOK(s, c, p)
  BY <1>6 DEF ProcOK, Walks, Has, Deletes, Lacks, FreeWalks, Holds, HasPCs, SavedPCs,
     HeadPCs, FreePCs, HeldPCs, BlankPCs
<1>9. Shape(s, c)
  BY <1>4, <1>5, <1>7, <1>8 DEF Shape
<1> QED BY <1>1, <1>9 DEF SInv, Stacks, Counts

\* The records of the index file always form the lists: what db_store, db_delete and
\* db_fetch do to them, in whatever order the processes get their locks.
THEOREM ListsAlways ==
  ASSUME MaxKills = 0, IsFiniteSet(Procs)
  PROVE Spec => []SInv
<1>1. Init => SInv
  BY ListInit
<1>2. TInv /\ LInv /\ EInv /\ SInv /\ [Next]_vars => SInv'
  <2> SUFFICES ASSUME TInv, LInv, EInv, SInv, [Next]_vars PROVE SInv'
    OBVIOUS
  <2>1. CASE UNCHANGED vars
    <3>1. PICK s \in [Lists -> [Nat -> Nat]], c \in [Lists -> Nat] : Shape(s, c)
      BY DEF SInv
    <3>2. /\ idx' = idx /\ free' = free /\ chain' = chain /\ pc' = pc /\ db' = db
      BY <2>1 DEF vars
    <3>3. (StacksOK(s, c, Len(idx)) /\ LinksOK(s, c) /\ KeysOK(s, c))'
      <4>1. \A i : Unlinking(i)' <=> Unlinking(i)
        BY <3>2 DEF Unlinking
      <4>2. StacksOK(s, c, Len(idx))'
        BY <3>1, <3>2 DEF Shape, StacksOK
      <4>3. LinksOK(s, c)'
        BY <3>1, <3>2, <4>1 DEF Shape, LinksOK
      <4>4. KeysOK(s, c)'
        BY <3>1, <3>2, <4>1 DEF Shape, KeysOK
      <4> QED BY <4>2, <4>3, <4>4
    <3>4. (CoverOK(s, c) /\ HeldOK)'
      BY <3>1, <3>2 DEF Shape, CoverOK, HeldOK, Listed
    <3>5. ASSUME NEW p \in Procs PROVE ProcOK(s, c, p)'
      <4>1. ProcOK(s, c, p)
        BY <3>1 DEF Shape
      <4>2. (Walks(s, c, p) /\ Has(s, c, p) /\ Lacks(s, c, p))'
        BY <3>2, <4>1 DEF ProcOK, Walks, Has, Lacks, Absent, OnList, ChainOf
      <4>3. (Deletes(s, c, p) /\ FreeWalks(s, c, p) /\ Holds(s, c, p))'
        BY <3>2, <4>1 DEF ProcOK, Deletes, FreeWalks, Holds, OnList, Listed
      <4> QED BY <4>2, <4>3 DEF ProcOK
    <3>6. Shape(s, c)'
      BY <3>3, <3>4, <3>5 DEF Shape
    <3> QED BY <3>6 DEF SInv
  <2>2. ASSUME NEW p \in Procs, Call(p) \/ Run(p) PROVE SInv'
    BY <2>2, ListStep
  <2> QED BY <2>1, <2>2, NoKill DEF Next
<1> QED BY <1>1, <1>2, TypeAndPointers, LocksHeld, EndAlways, PTL DEF Spec
-----------------------------------------------------------------------------
(* Readers find whole records. *)
\* Who blanks or writes a key,
LEMMA KeyStep ==
  ASSUME TInv, EInv, NEW p \in Procs, Call(p) \/ Run(p), NEW i \in 1..Len(idx)
  PROVE \/ idx'[i].key = idx[i].key
        \/ DelWriteIdx(p) /\ i = db[p].idxoff /\ idx'[i].key = Blank
        \/ ReuseIdx(p) /\ i = db[p].idxoff /\ idx'[i] = NewIdx(p)
<1>0. idx \in Seq(IdxRec) /\ Len(idx) \in Nat
  BY DEF TInv, FilesOK
<1>1. CASE idx' = idx
  BY <1>1
<1>2. CASE DelWriteIdx(p)
  <2> PICK e : e = idx[db[p].idxoff]
    OBVIOUS
  <2> PICK f : f = [e EXCEPT !.key = Blank, !.ptr = db[p].freeptr]
    OBVIOUS
  <2>1. idx' = [idx EXCEPT ![db[p].idxoff] = f]
    BY <1>2 DEF DelWriteIdx
  <2>2. i = db[p].idxoff => f.key = Blank
    BY <1>0 DEF IdxRec
  <2> QED BY <1>0, <1>2, <2>1, <2>2
<1>3. CASE DelUnlink(p) \/ FreeUnlink(p)
  <2>1. db[p].ptroff \in 0..Len(idx)
    BY HasTypes
  <2>2. CASE db[p].ptroff = 0
    BY <1>3, <2>2 DEF DelUnlink, FreeUnlink
  <2>3. CASE db[p].ptroff # 0
    <3> PICK j : j = db[p].ptroff
      OBVIOUS
    <3> PICK x : x = db[p].ptrval
      OBVIOUS
    <3>1. j \in 1..Len(idx) /\ idx' = [idx EXCEPT ![j].ptr = x]
      BY <1>0, <1>3, <2>1, <2>3 DEF DelUnlink, FreeUnlink
    <3> QED BY <3>1, PtrWritten
  <2> QED BY <2>2, <2>3
<1>4. CASE ReuseIdx(p)
  <2> PICK f : f = NewIdx(p)
    OBVIOUS
  <2>1. idx' = [idx EXCEPT ![db[p].idxoff] = f]
    BY <1>4 DEF ReuseIdx
  <2> QED BY <1>0, <1>4, <2>1
<1>5. CASE AppendIdx(p)
  <2> PICK f : f = NewIdx(p)
    OBVIOUS
  <2>1. idx' = Append(idx, f)
    BY <1>5 DEF AppendIdx, EInv, WriteAt, At
  <2> QED BY <1>0, <2>1
<1> QED BY <1>1, <1>2, <1>3, <1>4, <1>5, IdxStep DEF Step

\* and who writes data.
LEMMA DatStep ==
  ASSUME TInv, NEW p \in Procs, Call(p) \/ Run(p)
  PROVE dat' = dat \/ DelWriteDat(p) \/ Overwrite(p) \/ ReuseDat(p) \/ AppendDat(p)
<1>1. CASE Call(p) \/ Return(p)
  BY <1>1 DEF Call, CallFetch, CallDelete, CallStore, CallNextrec, call, db_rewind,
     Return, files
<1>2. CASE Find(p) \/ Nextrec(p)
  BY <1>2 DEF Find, LockChain, ReadChainPtr, WalkChain, NotFound, Found, FetchData,
     UnlockChain, Nextrec, NextLock, NextRead, NextReadDat, NextEOF, NextMisread, NextUnlock, Die,
     files
<1>3. CASE DoDelete(p) \/ FindFree(p)
  BY <1>3 DEF DoDelete, DelLockFree, DelReadFree, DelWriteIdx, DelWriteFree,
     DelUnlink, DelUnlockFree, FindFree, FreeLock, FreeRead, FreeWalk, FreeUnlink, FreeUnlock, files
<1>4. CASE StoreWrites(p)
  BY <1>4 DEF StoreWrites, RereadChainPtr, ReuseIdx, DatLock,
     DatSeek, TailLock, TailSeek, AppendIdx, LinkChain, LinkTooFar, Die, files
<1> QED BY <1>1, <1>2, <1>3, <1>4 DEF Run

\* The steps to the places where a record has been found, or data are pending.
LEMMA ToPlace ==
  ASSUME TInv, NEW p \in Procs, Call(p) \/ Run(p)
  PROVE /\ pc'[p] \in ReadPCs =>
             \/ WalkChain(p) \/ Found(p) \/ NextRead(p)
             \/ DelLockFree(p) \/ DelWriteDat(p) \/ DelReadFree(p)
        /\ pc'[p] \in PendingPCs \cup {"reuseidx"} =>
             AppendDat(p) \/ TailLock(p) \/ TailSeek(p) \/ ReuseDat(p)
<1>0. pc \in [Procs -> PCs]
  BY DEF TInv, ProcsOK
<1>1. CASE Call(p) \/ Return(p)
  <2>1. pc'[p] \in {"lock", "return", "nlock", "idle"}
    BY <1>0, <1>1, Zenon DEF Call, CallFetch, CallDelete, CallStore, CallNextrec, call, db_rewind,
       Return, Jump, At
  <2> QED BY <2>1 DEF ReadPCs, HasPCs, PendingPCs
<1>2. CASE Find(p) /\ ~WalkChain(p) /\ ~Found(p)
  <2>1. pc'[p] \in {"readptr", "walk", "unlock", "fflock", "return"}
    BY <1>0, <1>2 DEF Find, LockChain, ReadChainPtr, NotFound, FetchData, UnlockChain, Jump
  <2> QED BY <2>1 DEF ReadPCs, HasPCs, PendingPCs
<1>3. CASE WalkChain(p)
  <2>1. pc'[p] \in {"found", "walk"}
    BY <1>0, <1>3 DEF WalkChain, Jump
  <2> QED BY <1>3, <2>1 DEF PendingPCs
<1>4. CASE Found(p)
  <2>1. db[p].op \in {"fetch", "delete", "store"}
    BY <1>4, CallNow DEF CallOK, ChainPCs, Found, At
  <2>2. pc'[p] \in {"readdat", "dellock", "unlock", "overwrite"}
    BY <1>0, <1>4, <2>1 DEF Found, Jump
  <2> QED BY <1>4, <2>2 DEF PendingPCs
<1>5. CASE Nextrec(p)
  <2>1. CASE NextRead(p)
    <3>1. pc'[p] \in {"nread", "nreaddat"}
      BY <1>0, <2>1 DEF NextRead, Jump, At
    <3> QED BY <2>1, <3>1 DEF PendingPCs
  <2>2. CASE ~NextRead(p)
    <3>1. pc'[p] \in {"nread", "nunlock", "dead", "return"}
      BY <1>0, <1>5, <2>2 DEF Nextrec, NextLock, NextReadDat, NextEOF, NextMisread, NextUnlock,
         Die, Jump
    <3> QED BY <3>1 DEF ReadPCs, HasPCs, PendingPCs
  <2> QED BY <2>1, <2>2
<1>6. CASE DoDelete(p)
  <2>1. CASE DelLockFree(p) \/ DelWriteDat(p) \/ DelReadFree(p)
    <3>1. pc'[p] \in {"delwdat", "delrfree", "delwidx"}
      BY <1>0, <2>1 DEF DelLockFree, DelWriteDat, DelReadFree, Jump
    <3> QED BY <2>1, <3>1 DEF PendingPCs
  <2>2. CASE DelWriteIdx(p) \/ DelWriteFree(p) \/ DelUnlink(p) \/ DelUnlockFree(p)
    <3>1. pc'[p] \in {"delwfree", "delunlink", "delunlock", "unlock", "reread"}
      BY <1>0, <2>2 DEF DelWriteIdx, DelWriteFree, DelUnlink, DelUnlockFree, Jump
    <3> QED BY <3>1 DEF ReadPCs, HasPCs, PendingPCs
  <2> QED BY <1>6, <2>1, <2>2 DEF DoDelete
<1>7. CASE FindFree(p)
  <2>1. pc'[p] \in {"ffread", "ffwalk", "ffunlink", "ffunlock", "reusedat", "datlock"}
    BY <1>0, <1>7 DEF FindFree, FreeLock, FreeRead, FreeWalk, FreeUnlink, FreeUnlock, Jump
  <2> QED BY <2>1 DEF ReadPCs, HasPCs, PendingPCs
<1>8. CASE StoreWrites(p)
  <2>1. CASE AppendDat(p) \/ TailLock(p) \/ TailSeek(p) \/ ReuseDat(p)
    <3>1. pc'[p] \in {"taillock", "tailend", "tailwrite", "reuseidx"}
      BY <1>0, <2>1 DEF AppendDat, TailLock, TailSeek, ReuseDat, Jump
    <3> QED BY <2>1, <3>1 DEF ReadPCs, HasPCs
  <2>2. CASE ~(AppendDat(p) \/ TailLock(p) \/ TailSeek(p) \/ ReuseDat(p))
    <3>1. pc'[p] \in {"datlock", "unlock", "link", "datend", "datwrite", "dead"}
      BY <1>0, <1>8, <2>2 DEF StoreWrites, RereadChainPtr, Overwrite, ReuseIdx, DatLock, DatSeek,
         AppendIdx, LinkChain, LinkTooFar, Die, Jump
    <3> QED BY <3>1 DEF ReadPCs, HasPCs, PendingPCs
  <2> QED BY <2>1, <2>2
<1> QED BY <1>1, <1>2, <1>3, <1>4, <1>5, <1>6, <1>7, <1>8 DEF Run

\* A record found on a chain is not one that db_store has taken or appended.
LEMMA FoundApart ==
  ASSUME TInv, SInv
  PROVE /\ \A p \in Procs : pc[p] \in BlankPCs => idx[db[p].idxoff].key = Blank
        /\ \A p, q \in Procs : pc[p] \in HasPCs /\ pc[q] \in HeldPCs =>
             db[p].idxoff # db[q].idxoff
        /\ \A p \in Procs : pc[p] \in HasPCs => idx[db[p].idxoff].key = db[p].key
        /\ HeldOK
<1>0. PICK s \in Stacks, c \in Counts : Shape(s, c)
  BY DEF SInv, Stacks, Counts
<1>1. \A p \in Procs : pc[p] \in BlankPCs => idx[db[p].idxoff].key = Blank
  BY <1>0 DEF Shape, ProcOK, Holds
<1>2. ASSUME NEW p \in Procs, NEW q \in Procs, pc[p] \in HasPCs, pc[q] \in HeldPCs
      PROVE db[p].idxoff # db[q].idxoff
  <2>1. ChainOf(p) \in Lists
    BY <1>2, HasTypes DEF HasPCs, ChainPCs, DelPCs
  <2>2. Listed(s, c, db[p].idxoff)
    BY <1>0, <1>2, <2>1 DEF Shape, ProcOK, Has, OnList, Listed
  <2> QED BY <1>0, <1>2, <2>2 DEF Shape, ProcOK, Holds
<1> QED BY <1>0, <1>1, <1>2 DEF Shape, ProcOK, Has

\* The data record that a step of p writes: the one of the record p has found, of
\* the record it has taken off the free list, or a new one.
LEMMA WritesOwnData ==
  ASSUME TInv, EInv, FInv, DInv, SInv, RInv, NEW p \in Procs, Call(p) \/ Run(p),
         NEW x \in 1..Len(dat), dat'[x] # dat[x]
  PROVE /\ x = db[p].datoff
        /\ \/ DelWriteDat(p) \/ Overwrite(p) \/ ReuseDat(p)
        /\ db[p].idxoff \in 1..Len(idx) /\ idx[db[p].idxoff].dat = x
        /\ Overwrite(p) \/ ReuseDat(p) => dat'[x] = db[p].val
<1>0. dat \in Seq(Vals \cup {Blank}) /\ Len(dat) \in Nat
  BY DEF TInv, FilesOK
<1>1. ~AppendDat(p)
  <2> SUFFICES ASSUME AppendDat(p) PROVE FALSE
    OBVIOUS
  <2> PICK v : v = db[p].val
    OBVIOUS
  <2>1. dat' = Append(dat, v)
    BY DEF AppendDat, EInv, WriteAt, At
  <2> QED BY <1>0, <2>1
<1>2. DelWriteDat(p) \/ Overwrite(p) \/ ReuseDat(p)
  BY <1>1, DatStep
<1>3. pc[p] \in {"delwdat", "overwrite", "reusedat"}
  BY <1>2 DEF DelWriteDat, Overwrite, ReuseDat, At
<1>4. x = db[p].datoff
  BY <1>0, <1>2 DEF DelWriteDat, Overwrite, ReuseDat
<1>5. Overwrite(p) \/ ReuseDat(p) => dat'[x] = db[p].val
  BY <1>0, <1>4 DEF Overwrite, ReuseDat
<1>6. db[p].idxoff \in 1..Len(idx) /\ idx[db[p].idxoff].dat = db[p].datoff
  <2>1. CASE pc[p] \in {"delwdat", "overwrite"}
    BY <2>1 DEF RInv, ReadOK, ReadPCs, HasPCs
  <2>2. CASE pc[p] = "reusedat"
    BY <2>2, HasTypes DEF FInv, FitPCs, IdxPCs
  <2> QED BY <1>3, <2>1, <2>2
<1> QED BY <1>2, <1>4, <1>5, <1>6

\* Every step leaves whole data behind the live keys.
LEMMA DataKept ==
  ASSUME TInv, LInv, EInv, FInv, DInv, SInv, RInv, NEW p \in Procs, Call(p) \/ Run(p)
  PROVE DataOK'
<1> DEFINE Busy(i) == \E q \in Procs : pc[q] \in {"delrfree", "delwidx"} /\ db[q].idxoff = i
<1> SUFFICES ASSUME NEW i \in 1..Len(idx'), idx'[i].key # Blank, ~Busy(i)'
    PROVE Good(dat'[idx'[i].dat], idx'[i].dlen)
  BY DEF DataOK
<1>0. /\ idx \in Seq(IdxRec) /\ Len(idx) \in Nat /\ Step(p) /\ DOMAIN idx = 1..Len(idx)
      /\ \A j \in 1..Len(idx) : idx[j].dat \in 1..Len(dat)
  BY DEF TInv, FilesOK, Step
<1>1. /\ Others(p) /\ pc \in [Procs -> PCs] /\ db \in [Procs -> Calls]
      /\ \A q \in Procs : q # p => db'[q] = db[q] /\ pc'[q] = pc[q]
  BY <1>0, OthersSame DEF TInv, ProcsOK, Others, Same
\* The record db_store writes, taken off the free list or appended: its data are written.
<1>2. ASSUME pc[p] \in {"reuseidx", "tailwrite"}, idx'[i] = NewIdx(p), dat' = dat
      PROVE Good(dat'[idx'[i].dat], idx'[i].dlen)
  <2>1. dat[db[p].datoff] = db[p].val
    BY <1>2 DEF RInv, ReadOK, PendingPCs
  <2>2. db[p].val \in Vals
    BY <1>2, HasTypes DEF StorePCs
  <2> QED BY <1>2, <2>1, <2>2 DEF NewIdx, Good
<1>3. CASE i \notin 1..Len(idx)
  <2>1. AppendIdx(p)
    BY <1>0, <1>3, LenStep
  <2>2. PICK f : f = NewIdx(p)
    OBVIOUS
  <2>3. idx' = Append(idx, f) /\ pc[p] = "tailwrite" /\ dat' = dat
    BY <2>1, <2>2 DEF AppendIdx, EInv, WriteAt, At
  <2>4. idx'[i] = f
    BY <1>0, <1>3, <2>3
  <2> QED BY <1>2, <2>2, <2>3, <2>4
<1>4. CASE i \in 1..Len(idx) /\ ReuseIdx(p) /\ idx'[i] = NewIdx(p)
  <2>1. pc[p] = "reuseidx" /\ dat' = dat
    BY <1>4 DEF ReuseIdx, At
  <2> QED BY <1>2, <1>4, <2>1
<1>5. CASE i \in 1..Len(idx) /\ idx'[i].key = idx[i].key
  <2>1. idx'[i].dat = idx[i].dat /\ idx'[i].dlen = idx[i].dlen
    BY <1>0, <1>5, ShapeStep
  <2>2. ~Busy(i)
    <3> SUFFICES ASSUME NEW q \in Procs, pc[q] \in {"delrfree", "delwidx"}, db[q].idxoff = i
        PROVE FALSE
      OBVIOUS
    <3>1. q = p
      BY <1>1
    <3>2. DelReadFree(p) \/ DelWriteIdx(p)
      BY <3>1 DEF Run, Call, CallFetch, CallDelete, CallStore, CallNextrec, call, db_rewind, Return,
         Find, LockChain, ReadChainPtr, WalkChain, NotFound, Found, FetchData, UnlockChain,
         DoDelete, DelLockFree, DelWriteDat, DelWriteFree, DelUnlink, DelUnlockFree,
         FindFree, FreeLock, FreeRead, FreeWalk, FreeUnlink, FreeUnlock,
         StoreWrites, RereadChainPtr, Overwrite, ReuseDat, ReuseIdx, DatLock, DatSeek, AppendDat,
         TailLock, TailSeek, AppendIdx, LinkChain, LinkTooFar,
         Nextrec, NextLock, NextRead, NextReadDat, NextEOF, NextMisread, NextUnlock, At
    <3>3. CASE DelReadFree(p)
      <4>1. pc'[p] = "delwidx" /\ db'[p].idxoff = i
        BY <1>1, <3>1, <3>3 DEF DelReadFree, Jump, Calls
      <4> QED BY <4>1
    <3>4. CASE DelWriteIdx(p)
      <4> PICK e : e = idx[i]
        OBVIOUS
      <4> PICK f : f = [e EXCEPT !.key = Blank, !.ptr = db[p].freeptr]
        OBVIOUS
      <4>1. idx' = [idx EXCEPT ![i] = f]
        BY <3>1, <3>4 DEF DelWriteIdx
      <4>2. f.key = Blank
        BY <1>0, <1>5 DEF IdxRec
      <4> QED BY <1>0, <1>5, <4>1, <4>2
    <3> QED BY <3>2, <3>3, <3>4
  <2>3. Good(dat[idx[i].dat], idx[i].dlen) /\ idx[i].dat \in 1..Len(dat)
    BY <1>0, <1>5, <2>2 DEF RInv, DataOK
  <2>4. CASE dat'[idx[i].dat] = dat[idx[i].dat]
    BY <2>1, <2>3, <2>4
  <2>5. CASE dat'[idx[i].dat] # dat[idx[i].dat]
    <3> PICK x : x = idx[i].dat
      OBVIOUS
    <3>1. /\ DelWriteDat(p) \/ Overwrite(p) \/ ReuseDat(p)
          /\ db[p].idxoff \in 1..Len(idx) /\ idx[db[p].idxoff].dat = x
          /\ Overwrite(p) \/ ReuseDat(p) => dat'[x] = db[p].val
      BY <2>3, <2>5, WritesOwnData
    <3>2. db[p].idxoff = i
      BY <1>0, <1>5, <3>1 DEF DInv, DataNotShared
    <3>3. CASE DelWriteDat(p)
      <4>1. pc'[p] = "delrfree" /\ db'[p].idxoff = i
        BY <1>1, <3>2, <3>3 DEF DelWriteDat, Jump
      <4> QED BY <4>1
    <3>4. CASE Overwrite(p)
      <4>1. pc[p] = "overwrite"
        BY <3>4 DEF Overwrite, At
      <4>2. DatLen[db[p].val] = db[p].datlen /\ idx[i].dlen = db[p].datlen /\ db[p].val \in Vals
        BY <3>2, <4>1, HasTypes DEF RInv, ReadOK, ReadPCs, HasPCs, StorePCs
      <4> QED BY <2>1, <3>1, <3>4, <4>2 DEF Good
    <3>5. CASE ReuseDat(p)
      <4>1. pc[p] \in BlankPCs
        BY <3>5 DEF ReuseDat, At, BlankPCs
      <4> QED BY <1>5, <3>2, <4>1, FoundApart
    <3> QED BY <3>1, <3>3, <3>4, <3>5
  <2> QED BY <2>4, <2>5
<1>6. CASE i \in 1..Len(idx) /\ DelWriteIdx(p) /\ idx'[i].key = Blank
  BY <1>6
<1> QED BY <1>3, <1>4, <1>5, <1>6, KeyStep

\* What another process has read, or written and not yet indexed, stays true.
LEMMA OtherReads ==
  ASSUME TInv, LInv, EInv, FInv, DInv, SInv, RInv, NEW p \in Procs, Call(p) \/ Run(p),
         NEW q \in Procs, q # p
  PROVE ReadOK(q)'
<1>0. /\ idx \in Seq(IdxRec) /\ Len(idx) \in Nat /\ Step(p) /\ DOMAIN idx = 1..Len(idx)
  BY DEF TInv, FilesOK, Step
<1>1. db'[q] = db[q] /\ pc'[q] = pc[q] /\ ReadOK(q)
  BY <1>0, OthersSame DEF Others, Same, RInv
<1> PICK i : i = db[q].idxoff
  OBVIOUS
<1>2. ASSUME pc[q] \in ReadPCs
      PROVE /\ idx'[i].dat = db[q].datoff /\ idx'[i].dlen = db[q].datlen /\ i \in 1..Len(idx')
  <2>1. idx[i].dat = db[q].datoff /\ idx[i].dlen = db[q].datlen /\ i \in 1..Len(idx)
    BY <1>1, <1>2 DEF ReadOK
  <2>2. Len(idx) <= Len(idx') /\ idx'[i].dat = idx[i].dat /\ idx'[i].dlen = idx[i].dlen
    BY <1>0, <2>1, ShapeStep
  <2>3. Len(idx') \in Nat
    <3>1. AppendIdx(p) => Len(idx') = Len(idx) + 1
      BY <1>0 DEF AppendIdx, EInv, WriteAt, At
    <3> QED BY <1>0, <3>1, LenStep
  <2> QED BY <1>0, <2>1, <2>2, <2>3
<1>3. ASSUME pc[q] = "nreaddat" PROVE idx'[i].key = db[q].key /\ db[q].key # Blank
  <2>1. i \in 1..Len(idx) /\ idx[i].key = db[q].key /\ db[q].key # Blank
    BY <1>1, <1>3 DEF ReadOK, ReadPCs
  <2>2. ~DelWriteIdx(p)
    BY <1>3, Alone DEF DelWriteIdx, At, DelPCs, NextPCs
  <2>3. ReuseIdx(p) => db[p].idxoff # i
    BY <2>1, FoundApart DEF ReuseIdx, At, BlankPCs
  <2> QED BY <2>1, <2>2, <2>3, KeyStep
<1>4. ASSUME pc[q] \in PendingPCs \cup {"reuseidx"} PROVE dat'[db[q].datoff] = db[q].val
  <2> PICK x : x = db[q].datoff
    OBVIOUS
  <2>1. dat[x] = db[q].val
    BY <1>1, <1>4 DEF ReadOK
  <2>2. x \in 1..Len(dat)
    BY <1>4, CallNow DEF CallOK, PendingPCs, DatPCs
  <2>3. dat'[x] = dat[x]
    <3> SUFFICES ASSUME dat'[x] # dat[x] PROVE FALSE
      OBVIOUS
    <3>1. /\ DelWriteDat(p) \/ Overwrite(p) \/ ReuseDat(p)
          /\ db[p].idxoff \in 1..Len(idx) /\ idx[db[p].idxoff].dat = x
      BY <2>2, WritesOwnData
    <3>2. CASE pc[q] \in PendingPCs
      BY <3>1, <3>2 DEF DInv
    <3>3. CASE pc[q] = "reuseidx"
      <4>1. i \in 1..Len(idx) /\ idx[i].dat = x
        BY <3>3, HasTypes DEF FInv, FitPCs, IdxPCs
      <4>2. i = db[p].idxoff
        BY <1>0, <3>1, <4>1 DEF DInv, DataNotShared
      <4>3. pc[p] \in HasPCs \/ pc[p] \in HeldPCs
        BY <3>1 DEF DelWriteDat, Overwrite, ReuseDat, At, HasPCs, HeldPCs, BlankPCs
      <4>4. pc[q] \in HeldPCs
        BY <3>3 DEF HeldPCs, BlankPCs
      <4> QED BY <4>2, <4>3, <4>4, FoundApart DEF HeldOK
    <3> QED BY <1>4, <3>2, <3>3
  <2> QED BY <2>1, <2>3
<1> QED BY <1>1, <1>2, <1>3, <1>4 DEF ReadOK

\* What a process reads is what the record says.
LEMMA OwnReads ==
  ASSUME TInv, LInv, EInv, SInv, RInv, NEW p \in Procs, Call(p) \/ Run(p)
  PROVE ReadOK(p)'
<1>0. /\ db[p] \in Calls /\ pc \in [Procs -> PCs] /\ db \in [Procs -> Calls] /\ ReadOK(p)
      /\ Len(idx) \in Nat /\ idx \in Seq(IdxRec)
  BY DEF TInv, FilesOK, ProcsOK, RInv
<1>1. CASE WalkChain(p)
  <2> PICK i : i = db[p].off
    OBVIOUS
  <2>1. pc'[p] \in {"found", "walk"} /\ idx' = idx
    BY <1>0, <1>1 DEF WalkChain, Jump, files
  <2>2. pc'[p] = "found" => db'[p] = [ReadIdx(db[p], i) EXCEPT !.found = TRUE]
    BY <1>0, <1>1 DEF WalkChain, Jump
  <2>3. i \in 1..Len(idx)
    BY <1>0, <1>1, HasTypes DEF WalkChain
  <2>4. pc'[p] = "found" =>
          db'[p].idxoff = i /\ db'[p].datoff = idx[i].dat /\ db'[p].datlen = idx[i].dlen
    BY <1>0, <2>2 DEF ReadIdx, Calls
  <2> QED BY <2>1, <2>3, <2>4 DEF ReadOK, ReadPCs, HasPCs, PendingPCs
<1>2. CASE Found(p)
  <2>0. pc[p] = "found" /\ idx' = idx /\ dat' = dat
    BY <1>2 DEF Found, At, files
  <2>1. db[p].op \in {"fetch", "delete", "store"}
    BY <2>0, CallNow DEF CallOK, ChainPCs
  <2>2. \/ pc'[p] = "unlock"
        \/ pc'[p] \in {"readdat", "dellock", "overwrite"} /\ db' = db
           /\ (pc'[p] = "overwrite" => DatLen[db[p].val] = db[p].datlen)
    BY <1>0, <1>2, <2>1 DEF Found, Jump
  <2> QED BY <1>0, <2>0, <2>2 DEF ReadOK, ReadPCs, HasPCs, PendingPCs
<1>3. CASE NextRead(p)
  <2> PICK i : i = pos[p]
    OBVIOUS
  <2>0. pc[p] = "nread" /\ idx' = idx /\ i \in 1..Len(idx)
    BY <1>3 DEF NextRead, At, files
  <2>1. \/ pc'[p] = "nread"
        \/ /\ pc'[p] = "nreaddat" /\ idx[i].key # Blank
           /\ db'[p] = [ReadIdx(db[p], i) EXCEPT !.key = idx[i].key]
    BY <1>0, <1>3, <2>0 DEF NextRead, Jump
  <2>2. CASE pc'[p] = "nread"
    BY <2>2 DEF ReadOK, ReadPCs, HasPCs, PendingPCs
  <2>3. CASE /\ pc'[p] = "nreaddat" /\ idx[i].key # Blank
             /\ db'[p] = [ReadIdx(db[p], i) EXCEPT !.key = idx[i].key]
    <3>1. /\ db'[p].idxoff = i /\ db'[p].datoff = idx[i].dat /\ db'[p].datlen = idx[i].dlen
          /\ db'[p].key = idx[i].key
      BY <1>0, <2>3 DEF ReadIdx, Calls
    <3> QED BY <2>0, <2>3, <3>1 DEF ReadOK, ReadPCs, HasPCs, PendingPCs
  <2> QED BY <2>1, <2>2, <2>3
<1>4. CASE DelLockFree(p) \/ DelWriteDat(p) \/ DelReadFree(p)
  <2>1. pc[p] \in {"dellock", "delwdat", "delrfree"} /\ idx' = idx
        /\ pc'[p] \in {"delwdat", "delrfree", "delwidx"}
    BY <1>0, <1>4 DEF DelLockFree, DelWriteDat, DelReadFree, At, Jump, files
  <2>2. db'[p].idxoff = db[p].idxoff /\ db'[p].datoff = db[p].datoff /\ db'[p].datlen = db[p].datlen
    BY <1>0, <1>4 DEF DelLockFree, DelWriteDat, DelReadFree, Calls
  <2> QED BY <1>0, <2>1, <2>2 DEF ReadOK, ReadPCs, HasPCs, PendingPCs
<1>5. CASE AppendDat(p) \/ ReuseDat(p)
  <2>1. pc'[p] \in {"taillock", "reuseidx"} /\ db' = db
    BY <1>0, <1>5 DEF AppendDat, ReuseDat, Jump
  <2>2. dat'[db[p].datoff] = db[p].val
    <3> PICK v : v = db[p].val
      OBVIOUS
    <3>0. dat \in Seq(Vals \cup {Blank}) /\ Len(dat) \in Nat
      BY DEF TInv, FilesOK
    <3>1. CASE AppendDat(p)
      <4>1. dat' = Append(dat, v) /\ db[p].datoff = Len(dat) + 1
        BY <3>1 DEF AppendDat, EInv, WriteAt, At
      <4> QED BY <3>0, <4>1
    <3>2. CASE ReuseDat(p)
      <4>1. dat' = [dat EXCEPT ![db[p].datoff] = v] /\ db[p].datoff \in 1..Len(dat)
        BY <3>2, CallNow DEF ReuseDat, At, CallOK, DatPCs
      <4> QED BY <3>0, <4>1
    <3> QED BY <1>5, <3>1, <3>2
  <2> QED BY <2>1, <2>2 DEF ReadOK, ReadPCs, HasPCs
<1>6. CASE TailLock(p) \/ TailSeek(p)
  <2>1. pc[p] \in {"taillock", "tailend"} /\ pc'[p] \in {"tailend", "tailwrite"} /\ dat' = dat
    BY <1>0, <1>6 DEF TailLock, TailSeek, At, Jump, files
  <2>2. db'[p].datoff = db[p].datoff /\ db'[p].val = db[p].val
    BY <1>0, <1>6 DEF TailLock, TailSeek, Calls
  <2> QED BY <1>0, <2>1, <2>2 DEF ReadOK, ReadPCs, HasPCs, PendingPCs
<1>7. CASE pc'[p] \notin ReadPCs \cup PendingPCs \cup {"reuseidx"}
  BY <1>7 DEF ReadOK, ReadPCs, HasPCs
<1> QED BY <1>1, <1>2, <1>3, <1>4, <1>5, <1>6, <1>7, ToPlace

\* Readers always find whole records.
THEOREM ReadsAlways ==
  ASSUME MaxKills = 0, IsFiniteSet(Procs)
  PROVE Spec => []RInv
<1>1. Init => RInv
  BY DEF Init, RInv, DataOK, ReadOK, ReadPCs, HasPCs, PendingPCs
<1>2. TInv /\ LInv /\ EInv /\ FInv /\ DInv /\ SInv /\ RInv /\ [Next]_vars => RInv'
  <2> SUFFICES ASSUME TInv, LInv, EInv, FInv, DInv, SInv, RInv, [Next]_vars PROVE RInv'
    OBVIOUS
  <2>1. CASE UNCHANGED vars
    BY <2>1 DEF vars, RInv, DataOK, ReadOK
  <2>2. ASSUME NEW p \in Procs, Call(p) \/ Run(p) PROVE RInv'
    <3>1. \A q \in Procs : ReadOK(q)'
      BY <2>2, OtherReads, OwnReads
    <3> QED BY <2>2, <3>1, DataKept DEF RInv
  <2> QED BY <2>1, <2>2, NoKill DEF Next
<1> QED BY <1>1, <1>2, TypeAndPointers, LocksHeld, EndAlways, FitAlways, DataAlways, ListsAlways,
       PTL DEF Spec

(* db_fetch and db_nextrec never meet a record being deleted or reused: the index record is still
   that of the key, and the data have the length it says. *)
THEOREM ReadersAlwaysSeeWholeRecords ==
  ASSUME MaxKills = 0, IsFiniteSet(Procs)
  PROVE Spec => []ReadersSeeWholeRecords
<1>1. TInv /\ LInv /\ SInv /\ RInv => ReadersSeeWholeRecords
  <2> SUFFICES ASSUME TInv, LInv, SInv, RInv, NEW p \in Procs, pc[p] \in {"readdat", "nreaddat"}
      PROVE /\ idx[db[p].idxoff].key = db[p].key
            /\ dat[db[p].datoff] # Blank /\ DatLen[dat[db[p].datoff]] = db[p].datlen
    BY DEF ReadersSeeWholeRecords
  <2> PICK i : i = db[p].idxoff
    OBVIOUS
  <2>1. /\ idx[i].dat = db[p].datoff /\ idx[i].dlen = db[p].datlen /\ i \in 1..Len(idx)
    BY DEF RInv, ReadOK, ReadPCs, HasPCs
  <2>2. idx[i].key = db[p].key /\ db[p].key # Blank
    <3>1. CASE pc[p] = "nreaddat"
      BY <3>1 DEF RInv, ReadOK
    <3>2. CASE pc[p] = "readdat"
      BY <3>2, FoundApart, HasTypes DEF HasPCs, ChainPCs
    <3> QED BY <3>1, <3>2
  <2>3. ASSUME NEW q \in Procs, pc[q] \in {"delrfree", "delwidx"}, db[q].idxoff = i PROVE FALSE
    <3>1. q # p /\ pc[q] \in DelPCs /\ pc[q] \in ChainPCs /\ pc[q] \in HasPCs
      BY <2>3 DEF DelPCs, ChainPCs, HasPCs
    <3>2. pc[p] = "readdat"
      BY <3>1, Alone DEF NextPCs
    <3>3. ChainOf(q) = ChainOf(p)
      BY <2>2, <2>3, <3>1, FoundApart DEF ChainOf
    <3>4. db[q].op # "fetch" /\ pc[p] \in ChainPCs
      BY <3>1, <3>2, HasTypes DEF ChainPCs
    <3> QED BY <3>1, <3>3, <3>4, Alone
  <2>4. Good(dat[idx[i].dat], idx[i].dlen)
    BY <2>1, <2>2, <2>3 DEF RInv, DataOK
  <2>5. Blank \notin Vals
    BY DbAssumption
  <2> QED BY <2>1, <2>2, <2>4, <2>5 DEF Good
<1> QED BY <1>1, TypeAndPointers, LocksHeld, ListsAlways, ReadsAlways, PTL
-----------------------------------------------------------------------------
(* Following the pointers from the head of a list gives the list. *)
\* A set of numbers that is not empty has a least one,
LEMMA LeastNat ==
  ASSUME NEW T \in SUBSET Nat, T # {}
  PROVE \E x \in T : \A y \in T : x <= y
<1> DEFINE R == OpToRel(<, Nat)
<1>1. IsWellFoundedOn(R, Nat)
  BY NatLessThanWellFounded
<1>2. \A a, b \in Nat : <<a, b>> \in R <=> a < b
  BY DEF OpToRel
<1> HIDE DEF R
<1>3. \E x \in T : \A y \in T : ~(<<y, x>> \in R)
  BY <1>1, WFMin
<1>4. PICK x \in T : \A y \in T : ~(<<y, x>> \in R)
  BY <1>3
<1>5. \A y \in T : ~(y < x)
  BY <1>2, <1>4
<1>6. x \in Nat /\ \A y \in T : y \in Nat
  BY <1>4
<1>7. \A y \in T : x <= y
  BY <1>5, <1>6
<1> QED BY <1>4, <1>7

\* so what holds at 0 and is handed on holds everywhere.
LEMMA SetInduction ==
  ASSUME NEW S, 0 \in S, \A n \in Nat : n \in S => n + 1 \in S
  PROVE Nat \subseteq S
<1> SUFFICES ASSUME NEW m \in Nat, m \notin S PROVE FALSE
  OBVIOUS
<1> DEFINE T == {n \in Nat : n \notin S}
<1>1. T \in SUBSET Nat /\ T # {}
  OBVIOUS
<1> HIDE DEF T
<1>2. PICK x \in T : \A y \in T : x <= y
  BY <1>1, LeastNat
<1>3. x \in Nat /\ x \notin S /\ x # 0
  BY <1>2 DEF T
<1>4. x - 1 \in Nat /\ x - 1 \notin T
  BY <1>1, <1>2, <1>3
<1>5. x - 1 \in S
  BY <1>4 DEF T
<1> QED BY <1>3, <1>4, <1>5
\* Path is the only function that follows the pointers from x.
LEMMA PathIs ==
  ASSUME Len(idx) \in Nat, NEW x, NEW F, F = [n \in 0..Len(idx) |-> F[n]], F[0] = x,
         \A n \in 1..Len(idx) : F[n] = IF F[n - 1] = 0 THEN 0 ELSE idx[F[n - 1]].ptr
  PROVE Path(x) = F
<1> PICK L \in Nat : L = Len(idx)
  OBVIOUS
<1>0. \A n \in 1..L : F[n] = IF F[n - 1] = 0 THEN 0 ELSE idx[F[n - 1]].ptr
  OBVIOUS
<1> DEFINE Follows(f) == f = [n \in 0..L |->
                 IF n = 0 THEN x ELSE IF f[n - 1] = 0 THEN 0 ELSE idx[f[n - 1]].ptr]
<1>1. Path(x) = CHOOSE f : Follows(f)
  BY DEF Path
<1>2. Follows(F)
  <2> DEFINE G == [n \in 0..L |->
                     IF n = 0 THEN x ELSE IF F[n - 1] = 0 THEN 0 ELSE idx[F[n - 1]].ptr]
  <2>1. ASSUME NEW n \in 0..L PROVE F[n] = G[n]
    <3>1. G[n] = IF n = 0 THEN x ELSE IF F[n - 1] = 0 THEN 0 ELSE idx[F[n - 1]].ptr
      OBVIOUS
    <3> HIDE DEF G
    <3>2. CASE n = 0
      BY <3>1, <3>2
    <3>3. CASE n # 0
      <4>1. n \in 1..L
        BY <3>3
      <4>2. F[n] = IF F[n - 1] = 0 THEN 0 ELSE idx[F[n - 1]].ptr
        BY <1>0, <4>1
      <4> QED BY <3>1, <3>3, <4>2
    <3> QED BY <3>2, <3>3
  <2>2. G = [n \in 0..L |-> G[n]]
    OBVIOUS
  <2> HIDE DEF G
  <2>3. F = G
    BY <2>1, <2>2
  <2> QED BY <2>3 DEF G
<1>3. PICK f : f = Path(x)
  OBVIOUS
<1>4. Follows(f)
  <2> HIDE DEF Follows
  <2> QED BY <1>1, <1>2, <1>3, Zenon
<1> DEFINE S == {n \in Nat : n \in 0..L => f[n] = F[n]}
<1>5. 0 \in S
  BY <1>2, <1>4
<1>6. ASSUME NEW n \in Nat, n \in S PROVE n + 1 \in S
  <2>1. CASE n + 1 \in 0..L
    <3>1. n \in 0..L /\ n + 1 # 0 /\ n + 1 - 1 = n
      BY <2>1
    <3>2. f[n] = F[n]
      BY <1>6, <3>1
    <3>3. f[n + 1] = IF f[n] = 0 THEN 0 ELSE idx[f[n]].ptr
      BY <1>4, <2>1, <3>1
    <3>4. F[n + 1] = IF F[n] = 0 THEN 0 ELSE idx[F[n]].ptr
      <4> PICK k : k = n + 1
        OBVIOUS
      <4>1. k \in 1..L /\ k - 1 = n
        BY <2>1
      <4>2. F[k] = IF F[k - 1] = 0 THEN 0 ELSE idx[F[k - 1]].ptr
        BY <1>0, <4>1
      <4> QED BY <4>1, <4>2
    <3> QED BY <3>2, <3>3, <3>4
  <2>2. CASE n + 1 \notin 0..L
    BY <2>2
  <2> QED BY <2>1, <2>2
<1>7. Nat \subseteq S
  <2> HIDE DEF S
  <2> QED BY <1>5, <1>6, SetInduction
<1>8. \A n \in 0..L : f[n] = F[n]
  <2> TAKE n \in 0..L
  <2>1. n \in S
    BY SMTT(60), <1>7
  <2> QED BY <2>1
<1>9. f = [n \in 0..L |-> f[n]] /\ F = [n \in 0..L |-> F[n]]
  BY <1>2, <1>4
<1> HIDE DEF Follows, S
<1> QED BY <1>3, <1>8, <1>9

\* A list is no longer than the file.
LEMMA ListFits ==
  ASSUME NEW s \in Stacks, NEW c \in Counts, Len(idx) \in Nat, StacksOK(s, c, Len(idx)),
         NEW h \in Lists
  PROVE c[h] <= Len(idx)
<1> PICK L \in Nat : L = Len(idx)
  OBVIOUS
<1>0. c[h] \in Nat
  BY DEF Counts
<1> PICK m \in Nat : m = c[h]
  BY <1>0
<1> DEFINE f == [r \in 1..m |-> s[h][r]]
<1>1. f \in [1..m -> 1..L]
  BY DEF StacksOK
<1>2. \A r, t \in 1..m : f[r] = f[t] => r = t
  BY DEF StacksOK
<1> HIDE DEF f
<1>3. f \in Injection(1..m, 1..L)
  BY <1>1, <1>2 DEF Injection, IsInjective
<1>4. IsFiniteSet(1..L) /\ Cardinality(1..L) = L
  <2>1. 1 \in Int /\ L \in Int
    OBVIOUS
  <2>2. IsFiniteSet(1..L) /\ Cardinality(1..L) = IF 1 > L THEN 0 ELSE L - 1 + 1
    BY <2>1, FS_Interval
  <2> QED BY <2>2
<1>5. Cardinality(1..m) = m
  <2>1. 1 \in Int /\ m \in Int
    OBVIOUS
  <2>2. Cardinality(1..m) = IF 1 > m THEN 0 ELSE m - 1 + 1
    BY <2>1, FS_Interval
  <2> QED BY <2>2
<1>6. Cardinality(1..m) <= Cardinality(1..L)
  BY <1>3, <1>4, FS_Injection
<1> QED BY <1>4, <1>5, <1>6

\* The list found from its head, when nobody is in the middle of an unlink from it.
LEMMA ListIs ==
  ASSUME NEW s \in Stacks, NEW c \in Counts, Len(idx) \in Nat, StacksOK(s, c, Len(idx)),
         NEW h \in Lists, \A r \in 1..c[h] : idx[s[h][r]].ptr = s[h][r - 1]
  PROVE /\ Ends(s[h][c[h]])
        /\ \A i : i \in List(s[h][c[h]]) <=> \E r \in 1..c[h] : i = s[h][r]
<1> PICK L \in Nat : L = Len(idx)
  OBVIOUS
<1>0. c[h] \in Nat /\ c[h] <= L
  BY ListFits DEF Counts
<1> PICK m \in Nat : m = c[h]
  BY <1>0
<1> DEFINE F == [n \in 0..L |-> IF n <= m THEN s[h][m - n] ELSE 0]
<1>1. \A n \in 0..L : F[n] = IF n <= m THEN s[h][m - n] ELSE 0
  OBVIOUS
<1>2. s[h][0] = 0 /\ \A r \in 1..m : s[h][r] # 0
  BY DEF StacksOK
<1>3. ASSUME NEW n \in 0..L
      PROVE F[n] = IF n = 0 THEN s[h][m] ELSE IF F[n - 1] = 0 THEN 0 ELSE idx[F[n - 1]].ptr
  <2>1. CASE n = 0
    <3>1. 0 \in 0..L /\ 0 <= m /\ m - 0 = m
      OBVIOUS
    <3> QED BY <1>1, <2>1, <3>1
  <2>2. CASE n # 0 /\ n <= m
    <3>1. /\ n - 1 \in 0..L /\ n - 1 <= m /\ m - (n - 1) \in 1..m
          /\ (m - (n - 1)) - 1 = m - n
      BY <2>2
    <3> PICK r : r = m - (n - 1)
      OBVIOUS
    <3>2. F[n - 1] = s[h][r] /\ F[n] = s[h][r - 1] /\ r \in 1..m
      BY <1>1, <2>2, <3>1
    <3>3. idx[s[h][r]].ptr = s[h][r - 1] /\ s[h][r] # 0
      BY <1>2, <3>2
    <3> HIDE DEF F
    <3> QED BY <2>2, <3>2, <3>3
  <2>3. CASE n # 0 /\ m < n
    <3>1. n - 1 \in 0..L /\ F[n] = 0
      BY <1>1, <2>3
    <3>2. F[n - 1] = 0
      <4>1. CASE n - 1 <= m
        <5>1. m - (n - 1) = 0
          BY <2>3, <4>1
        <5> QED BY <1>1, <1>2, <3>1, <4>1, <5>1
      <4>2. CASE ~(n - 1 <= m)
        BY <1>1, <3>1, <4>2
      <4> QED BY <4>1, <4>2
    <3> QED BY <2>3, <3>1, <3>2
  <2> QED BY <2>1, <2>2, <2>3
<1>4. F = [n \in 0..L |-> F[n]]
  OBVIOUS
<1> HIDE DEF F
<1>5. Path(s[h][m]) = F
  <2> PICK x : x = s[h][m]
    OBVIOUS
  <2>1. F = [n \in 0..Len(idx) |-> F[n]]
    BY <1>4
  <2>2. F[0] = x
    BY <1>3
  <2>3. \A n \in 1..Len(idx) : F[n] = IF F[n - 1] = 0 THEN 0 ELSE idx[F[n - 1]].ptr
    BY <1>3
  <2>4. Path(x) = F
    BY <2>1, <2>2, <2>3, PathIs
  <2> QED BY <2>4
<1>6. F[L] = 0
  <2>1. L \in 0..L /\ (L <= m => m - L = 0)
    BY <1>0
  <2> QED BY <1>1, <1>2, <2>1
<1>7. ASSUME NEW i PROVE i \in List(s[h][m]) <=> \E r \in 1..m : i = s[h][r]
  <2>0. i \in List(s[h][m]) <=> i # 0 /\ \E n \in 0..L : i = F[n]
    BY <1>5 DEF List
  <2>1. ASSUME NEW n \in 0..L, i = F[n], i # 0 PROVE \E r \in 1..m : i = s[h][r]
    <3>1. n <= m /\ i = s[h][m - n]
      BY <1>1, <2>1
    <3>2. m - n # 0
      BY <1>2, <2>1, <3>1
    <3>3. m - n \in 1..m
      BY <3>1, <3>2
    <3> QED BY <3>1, <3>3
  <2>2. ASSUME NEW r \in 1..m, i = s[h][r] PROVE i # 0 /\ \E n \in 0..L : i = F[n]
    <3>1. m - r \in 0..L /\ m - r <= m /\ m - (m - r) = r
      BY <1>0
    <3>2. F[m - r] = s[h][r]
      BY <1>1, <3>1
    <3> QED BY <1>2, <2>2, <3>1, <3>2
  <2> QED BY <2>0, <2>1, <2>2
<1> QED BY <1>5, <1>6, <1>7 DEF Ends

\* Who is in the middle of an unlink has its chain and the free list locked.
LEMMA UnlinksLocked ==
  ASSUME TInv, LInv, NEW q \in Procs, pc[q] \in SavedPCs
  PROVE WriteLocked(ChainOf(q)) /\ WriteLocked("free")
<1>1. pc[q] \in ChainPCs /\ pc[q] \in DelPCs
  BY DEF SavedPCs, ChainPCs, DelPCs
<1>2. db[q].op # "fetch"
  BY <1>1, HasTypes
<1>3. [res |-> ChainOf(q), mode |-> "W"] \in held[q] /\ [res |-> "free", mode |-> "W"] \in held[q]
  BY <1>1, <1>2 DEF LInv, LocksFor, ChainLock, ChainOf
<1> QED BY <1>3 DEF WriteLocked

(* The hash chains nobody has write-locked, and the free list nobody has write-locked, are lists
   that end, of live records of the chain's own keys, no key twice, and of blank records. *)
THEOREM ListsAlwaysSound ==
  ASSUME MaxKills = 0, IsFiniteSet(Procs)
  PROVE Spec => []ListsSound
<1>1. TInv /\ LInv /\ SInv => ListsSound
  <2> SUFFICES ASSUME TInv, LInv, SInv PROVE ListsSound
    OBVIOUS
  <2>0. PICK s \in Stacks, c \in Counts : Shape(s, c)
    BY DEF SInv, Stacks, Counts
  <2>1. Len(idx) \in Nat /\ StacksOK(s, c, Len(idx)) /\ "free" \in Lists /\ Chains \subseteq Lists
    BY <2>0 DEF TInv, FilesOK, Shape, Lists
  <2>2. ASSUME NEW h \in Chains, ~WriteLocked(h)
        PROVE /\ Ends(chain[h])
              /\ \A i \in List(chain[h]) : idx[i].key \in Keys /\ Hash[idx[i].key] = h
              /\ \A i, j \in List(chain[h]) : idx[i].key = idx[j].key => i = j
    <3>0. h \in Lists
      BY <2>1
    <3>1. ASSUME NEW r \in 1..c[h] PROVE ~Unlinking(s[h][r])
      <4> SUFFICES ASSUME NEW q \in Procs, pc[q] \in SavedPCs, db[q].idxoff = s[h][r] PROVE FALSE
        BY DEF Unlinking
      <4>1. ChainOf(q) \in Lists
        BY HasTypes DEF SavedPCs, ChainPCs, DelPCs
      <4>2. ChainOf(q) = h
        BY <2>0, <3>0, <4>1 DEF Shape, ProcOK, Has, OnList, StacksOK
      <4> QED BY <2>2, <4>2, UnlinksLocked
    <3>2. \A r \in 1..c[h] : idx[s[h][r]].ptr = s[h][r - 1]
      BY <2>0, <3>0, <3>1 DEF Shape, LinksOK
    <3>3. chain[h] = s[h][c[h]]
      BY <2>0 DEF Shape, LinksOK
    <3>4. /\ Ends(chain[h])
          /\ \A i : i \in List(chain[h]) <=> \E r \in 1..c[h] : i = s[h][r]
      BY <2>1, <3>0, <3>2, <3>3, ListIs
    <3>5. ASSUME NEW r \in 1..c[h]
          PROVE idx[s[h][r]].key \in Keys /\ idx[s[h][r]].key # Blank /\ Hash[idx[s[h][r]].key] = h
      <4>1. idx[s[h][r]].key # Blank /\ Hash[idx[s[h][r]].key] = h
        BY <2>0, <3>1 DEF Shape, KeysOK
      <4>2. s[h][r] \in 1..Len(idx)
        BY <2>1, <3>0 DEF StacksOK
      <4>3. idx[s[h][r]] \in IdxRec
        BY <4>2, RecordAt DEF TInv
      <4> QED BY <4>1, <4>3 DEF IdxRec
    <3>6. \A r, t \in 1..c[h] : idx[s[h][r]].key = idx[s[h][t]].key => r = t
      BY <2>0, <3>5 DEF Shape, KeysOK
    <3> QED BY <3>4, <3>5, <3>6
  <2>3. ASSUME ~WriteLocked("free")
        PROVE Ends(free) /\ \A i \in List(free) : idx[i].key = Blank
    <3>1. \A q \in Procs : pc[q] # "delunlink"
      BY <2>3, UnlinksLocked DEF SavedPCs
    <3>2. free = s["free"][c["free"]]
      BY <2>0, <3>1 DEF Shape, LinksOK
    <3>3. \A r \in 1..c["free"] : idx[s["free"][r]].ptr = s["free"][r - 1]
                                  /\ idx[s["free"][r]].key = Blank
      BY <2>0, AtBlank
    <3>4. /\ Ends(free)
          /\ \A i : i \in List(free) <=> \E r \in 1..c["free"] : i = s["free"][r]
      BY <2>1, <3>2, <3>3, ListIs
    <3> QED BY <3>3, <3>4
  <2> QED BY <2>2, <2>3 DEF ListsSound
<1> QED BY <1>1, TypeAndPointers, LocksHeld, ListsAlways, PTL

(* Between calls every index record that a pointer can name is on exactly one list: db_delete and
   the reuse in db_store neither leak a record nor put it on two lists. *)
THEOREM RecordsNeverLeak ==
  ASSUME MaxKills = 0, IsFiniteSet(Procs)
  PROVE Spec => []NoRecordLeaks
<1>1. TInv /\ SInv => NoRecordLeaks
  <2> SUFFICES ASSUME TInv, SInv, \A p \in Procs : pc[p] \in {"idle", "dead"},
                      NEW i \in 1..Len(idx)
      PROVE Cardinality({h \in Chains : i \in List(chain[h])}
                        \cup (IF i \in List(free) THEN {"free"} ELSE {}))
              = IF i <= PtrMax THEN 1 ELSE 0
    BY DEF NoRecordLeaks
  <2>0. PICK s \in Stacks, c \in Counts : Shape(s, c)
    BY DEF SInv, Stacks, Counts
  <2>1. /\ Len(idx) \in Nat /\ StacksOK(s, c, Len(idx)) /\ "free" \in Lists /\ Chains \subseteq Lists
        /\ "free" \notin Chains /\ PtrMax \in Nat
    BY <2>0, DbAssumption DEF TInv, FilesOK, Shape, Lists
  <2>2. /\ \A p \in Procs : pc[p] \notin HeldPCs /\ pc[p] # "delunlink"
        /\ \A j : ~Unlinking(j)
    BY DEF HeldPCs, BlankPCs, Unlinking, SavedPCs
  <2>3. \A h \in Lists : \A r \in 1..c[h] : idx[s[h][r]].ptr = s[h][r - 1]
    BY <2>0, <2>2 DEF Shape, LinksOK
  <2>4. free = s["free"][c["free"]] /\ \A h \in Chains : chain[h] = s[h][c[h]]
    BY <2>0, <2>2 DEF Shape, LinksOK
  <2> DEFINE On(h) == \E r \in 1..c[h] : i = s[h][r]
  <2>5. (i \in List(free) <=> On("free")) /\ \A h \in Chains : i \in List(chain[h]) <=> On(h)
    <3>1. ASSUME NEW h \in Lists PROVE i \in List(s[h][c[h]]) <=> On(h)
      BY <2>1, <2>3, ListIs
    <3> QED BY <2>1, <2>4, <3>1
  <2> DEFINE L == {h \in Chains : i \in List(chain[h])}
                  \cup (IF i \in List(free) THEN {"free"} ELSE {})
  <2>6. \A h : h \in L <=> h \in Lists /\ On(h)
    BY <2>1, <2>5 DEF Lists
  <2>7. \A g, h \in Lists : On(g) /\ On(h) => g = h
    BY ZenonT(60), <2>1 DEF StacksOK
  <2>8. Listed(s, c, i) <=> \E h \in Lists : On(h)
    BY DEF Listed
  <2>9. CASE i <= PtrMax
    <3>1. Listed(s, c, i)
      <4>1. ~(PtrMax < i)
        BY <2>1, <2>9
      <4> QED BY <2>0, <2>2, <4>1 DEF Shape, CoverOK
    <3>2. PICK h \in Lists : On(h)
      BY <2>8, <3>1
    <3>3. L = {h}
      <4> HIDE DEF L, On
      <4> QED BY <2>6, <2>7, <3>2
    <3> HIDE DEF L
    <3>4. Cardinality(L) = 1
      BY <3>3, FS_Singleton
    <3> QED BY <2>9, <3>4 DEF L
  <2>10. CASE ~(i <= PtrMax)
    <3>1. ~Listed(s, c, i)
      BY <2>1, <2>10 DEF StacksOK, Listed
    <3>2. L = {}
      <4> HIDE DEF L, On
      <4> QED BY <2>6, <2>8, <3>1
    <3> HIDE DEF L
    <3>3. Cardinality(L) = 0
      BY <3>2, FS_EmptySet
    <3> QED BY <2>10, <3>3 DEF L
  <2> QED BY <2>9, <2>10
<1> QED BY <1>1, TypeAndPointers, ListsAlways, PTL
=============================================================================
