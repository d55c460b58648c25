----------------------------- MODULE DataProof ------------------------------
(***************************************************************************)
(* Proofs about what the programs of MCPrograms read and write: the data   *)
(* that comes out is what went in, in order (DataInOrder), and who asks    *)
(* gets the answer to this question, whole (AnswersRight).                 *)
(***************************************************************************)
EXTENDS ServersProof, FiniteSetTheorems, SequenceTheorems, WellFoundedInduction, TLAPS

(* Sequences. *)
\* A sequence, and what Append, Head and Tail make of it, by its length.
LEMMA SeqIs ==
  ASSUME NEW S, NEW s \in Seq(S)
  PROVE /\ Len(s) \in Nat /\ DOMAIN s = 1..Len(s) /\ \A k \in 1..Len(s) : s[k] \in S
        /\ s = <<>> <=> Len(s) = 0
<1>1. /\ Len(s) \in Nat /\ DOMAIN s = 1..Len(s) /\ s \in [1..Len(s) -> S]
  BY LenProperties
<1>2. s # <<>> => Len(s) \in Nat \ {0}
  BY EmptySeq
<1>3. s = <<>> => Len(s) = 0
  BY EmptySeq
<1> QED BY <1>1, <1>2, <1>3

LEMMA AppendedIs ==
  ASSUME NEW S, NEW s \in Seq(S), NEW x \in S, NEW n \in Nat, n = Len(s)
  PROVE /\ Append(s, x) \in Seq(S) /\ Len(Append(s, x)) = n + 1
        /\ DOMAIN Append(s, x) = 1..(n + 1)
        /\ Append(s, x)[n + 1] = x
        /\ \A k \in 1..n : Append(s, x)[k] = s[k]
<1> DEFINE t == Append(s, x)
<1>1. /\ t \in Seq(S) /\ Len(t) = Len(s) + 1 /\ t[Len(s) + 1] = x
      /\ \A k \in 1..Len(s) : t[k] = s[k]
  BY AppendProperties
<1> HIDE DEF t
<1>2. DOMAIN t = 1..Len(t)
  BY <1>1, SeqIs
<1>3. DOMAIN t = 1..(n + 1)
  BY <1>1, <1>2
<1> QED BY <1>1, <1>3 DEF t

LEMMA TailIs ==
  ASSUME NEW S, NEW s \in Seq(S), s # <<>>, NEW n \in Nat, n = Len(s)
  PROVE /\ n > 0 /\ Head(s) = s[1] /\ s[1] \in S /\ Tail(s) \in Seq(S) /\ Len(Tail(s)) = n - 1
        /\ DOMAIN Tail(s) = 1..(n - 1)
        /\ \A k \in 1..(n - 1) : Tail(s)[k] = s[k + 1]
<1> DEFINE t == Tail(s)
<1>1. /\ t \in Seq(S) /\ Len(t) = Len(s) - 1
      /\ \A k \in 1..Len(t) : t[k] = s[k + 1]
  BY HeadTailProperties
<1>2. n > 0
  BY SeqIs
<1>5. Head(s) = s[1]
  OBVIOUS
<1>3. s[1] \in S
  BY <1>2, SeqIs
<1> HIDE DEF t
<1>4. DOMAIN t = 1..Len(t) /\ Len(t) = n - 1
  BY <1>1, SeqIs
<1> QED BY <1>1, <1>2, <1>3, <1>4, <1>5 DEF t

\* The numbers that follow base, in order.
Counts(s, base) == \A k \in DOMAIN s : s[k] = base + k

LEMMA CountsMore ==
  ASSUME NEW s \in Seq(Nat), NEW base \in Nat, Counts(s, base), NEW x \in Nat, x = base + Len(s) + 1
  PROVE Append(s, x) \in Seq(Nat) /\ Len(Append(s, x)) = Len(s) + 1 /\ Counts(Append(s, x), base)
<1>1. PICK n \in Nat : n = Len(s) /\ DOMAIN s = 1..n
  BY SeqIs
<1> DEFINE t == Append(s, x)
<1>2. /\ t \in Seq(Nat) /\ Len(t) = n + 1 /\ DOMAIN t = 1..(n + 1) /\ t[n + 1] = x
      /\ \A k \in 1..n : t[k] = s[k]
  BY <1>1, AppendedIs
<1> HIDE DEF t
<1>3. \A k \in 1..(n + 1) : t[k] = base + k
  <2> TAKE k \in 1..(n + 1)
  <2>1. CASE k = n + 1
    BY <1>1, <1>2, <2>1
  <2>2. CASE k # n + 1
    <3>1. k \in 1..n
      BY <2>2
    <3>2. t[k] = s[k] /\ s[k] = base + k
      BY <1>1, <1>2, <3>1 DEF Counts
    <3> QED BY <3>2
  <2> QED BY <2>1, <2>2
<1> QED BY <1>1, <1>2, <1>3 DEF Counts, t

LEMMA CountsLess ==
  ASSUME NEW s \in Seq(Nat), NEW base \in Nat, Counts(s, base), s # <<>>
  PROVE /\ Head(s) = base + 1 /\ Tail(s) \in Seq(Nat) /\ Len(Tail(s)) = Len(s) - 1
        /\ Counts(Tail(s), base + 1)
<1>1. PICK n \in Nat : n = Len(s) /\ DOMAIN s = 1..n
  BY SeqIs
<1> DEFINE t == Tail(s)
<1>2. /\ n > 0 /\ Head(s) = s[1] /\ t \in Seq(Nat) /\ Len(t) = n - 1 /\ DOMAIN t = 1..(n - 1)
      /\ \A k \in 1..(n - 1) : t[k] = s[k + 1]
  BY <1>1, TailIs
<1> HIDE DEF t
<1>3. s[1] = base + 1
  BY <1>1, <1>2 DEF Counts
<1>4. \A k \in 1..(n - 1) : t[k] = base + 1 + k
  <2> TAKE k \in 1..(n - 1)
  <2>1. k + 1 \in 1..n
    OBVIOUS
  <2>2. t[k] = s[k + 1] /\ s[k + 1] = base + (k + 1)
    BY <1>1, <1>2, <2>1 DEF Counts
  <2> QED BY <2>2
<1> QED BY <1>1, <1>2, <1>3, <1>4 DEF Counts, t

\* A sequence of one.
LEMMA OneIs ==
  ASSUME NEW S, NEW x \in S
  PROVE /\ <<x>> \in Seq(S) /\ Len(<<x>>) = 1 /\ Head(<<x>>) = x /\ Tail(<<x>>) = <<>>
        /\ Append(<<>>, x) = <<x>> /\ <<x>> # <<>> /\ <<>> \in Seq(S) /\ Len(<<>>) = 0
OBVIOUS

\* A sequence of two.
LEMMA TwoIs ==
  ASSUME NEW S, NEW x \in S, NEW y \in S
  PROVE /\ <<x, y>> \in Seq(S) /\ Len(<<x, y>>) = 2 /\ <<x, y>>[1] = x /\ <<x, y>>[2] = y
        /\ Head(<<x, y>>) = x /\ Tail(<<x, y>>) = <<y>> /\ <<x, y>> # <<>>
OBVIOUS

\* The sequence u is s, of length n, followed by r, of length e.
Joined(S, u, s, r, n, e) ==
  /\ u \in Seq(S) /\ Len(u) = n + e
  /\ \A k \in 1..n : u[k] = s[k]
  /\ \A k \in 1..e : u[n + k] = r[k]
LEMMA JoinIs ==
  ASSUME NEW S, NEW s \in Seq(S), NEW r \in Seq(S), NEW n \in Nat, n = Len(s), NEW e \in Nat, e = Len(r)
  PROVE Joined(S, s \o r, s, r, n, e)
<1> DEFINE t == s \o r
<1>1. /\ t \in Seq(S) /\ Len(t) = Len(s) + Len(r)
      /\ \A k \in 1..(Len(s) + Len(r)) : t[k] = IF k <= Len(s) THEN s[k] ELSE r[k - Len(s)]
  BY ConcatProperties
<1> HIDE DEF t
<1>2. t \in Seq(S) /\ Len(t) = n + e
      /\ \A k \in 1..(n + e) : t[k] = IF k <= n THEN s[k] ELSE r[k - n]
  BY <1>1
<1>3. ASSUME NEW k \in 1..n PROVE t[k] = s[k]
  <2>1. k \in 1..(n + e) /\ k <= n
    OBVIOUS
  <2> QED BY <1>2, <2>1
<1>4. ASSUME NEW k \in 1..e PROVE t[n + k] = r[k]
  <2>1. n + k \in 1..(n + e) /\ ~(n + k <= n) /\ (n + k) - n = k
    OBVIOUS
  <2>2. t[n + k] = r[(n + k) - n]
    BY <1>2, <2>1
  <2> QED BY <2>1, <2>2
<1> QED BY <1>2, <1>3, <1>4 DEF t, Joined

\* The elements of short sequences.
LEMMA ManyIs ==
  ASSUME NEW S, NEW x \in S, NEW y \in S, NEW z \in S, NEW w \in S, NEW t \in S
  PROVE /\ <<x, y, z>> \in Seq(S) /\ Len(<<x, y, z>>) = 3
        /\ <<x, y, z>>[1] = x /\ <<x, y, z>>[2] = y /\ <<x, y, z>>[3] = z
        /\ <<x, y, z, w>> \in Seq(S) /\ Len(<<x, y, z, w>>) = 4
        /\ <<x, y, z, w>>[1] = x /\ <<x, y, z, w>>[2] = y /\ <<x, y, z, w>>[3] = z /\ <<x, y, z, w>>[4] = w
        /\ <<x, y, z, w, t>> \in Seq(S) /\ Len(<<x, y, z, w, t>>) = 5
        /\ <<x, y, z, w, t>>[1] = x /\ <<x, y, z, w, t>>[2] = y /\ <<x, y, z, w, t>>[3] = z
        /\ <<x, y, z, w, t>>[4] = w /\ <<x, y, z, w, t>>[5] = t
<1>1. <<x, y, z>> \in Seq(S) /\ Len(<<x, y, z>>) = 3
  OBVIOUS
<1>2. <<x, y, z>>[1] = x /\ <<x, y, z>>[2] = y /\ <<x, y, z>>[3] = z
  OBVIOUS
<1>3. <<x, y, z, w>> \in Seq(S) /\ Len(<<x, y, z, w>>) = 4
  OBVIOUS
<1>4. <<x, y, z, w>>[1] = x /\ <<x, y, z, w>>[2] = y /\ <<x, y, z, w>>[3] = z /\ <<x, y, z, w>>[4] = w
  OBVIOUS
<1>5. <<x, y, z, w, t>> \in Seq(S) /\ Len(<<x, y, z, w, t>>) = 5
  OBVIOUS
<1>6. /\ <<x, y, z, w, t>>[1] = x /\ <<x, y, z, w, t>>[2] = y /\ <<x, y, z, w, t>>[3] = z
      /\ <<x, y, z, w, t>>[4] = w /\ <<x, y, z, w, t>>[5] = t
  OBVIOUS
<1> QED BY <1>1, <1>2, <1>3, <1>4, <1>5, <1>6

\* One piece before one or two others.
LEMMA PieceFirst ==
  ASSUME NEW x, NEW y, NEW z
  PROVE /\ <<x>> \o <<y>> = <<x, y>> /\ <<x>> \o <<y, z>> = <<x, y, z>>
        /\ Head(<<x, y>>) = x /\ Tail(<<x, y>>) = <<y>> /\ <<x, y>> # <<>>
        /\ Head(<<x, y, z>>) = x /\ Tail(<<x, y, z>>) = <<y, z>> /\ <<x, y, z>> # <<>>
        /\ Head(<<x>>) = x /\ Tail(<<x>>) = <<>> /\ <<x>> # <<>>
        /\ <<>> \o <<y>> = <<y>> /\ <<>> \o <<y, z>> = <<y, z>>
<1>0. PICK S : x \in S /\ y \in S /\ z \in S
  <2>1. x \in {x, y, z} /\ y \in {x, y, z} /\ z \in {x, y, z}
    OBVIOUS
  <2> QED BY <2>1
<1>1. <<x>> \o <<y>> = <<x, y>>
  <2> DEFINE u == <<x>> \o <<y>>
  <2>1. /\ <<x>> \in Seq(S) /\ Len(<<x>>) = 1 /\ <<x>>[1] = x
        /\ <<y>> \in Seq(S) /\ Len(<<y>>) = 1 /\ <<y>>[1] = y
    BY <1>0, OneIs
  <2>2. 1 \in Nat
    OBVIOUS
  <2>3. Joined(S, u, <<x>>, <<y>>, 1, 1)
    BY <2>1, <2>2, JoinIs
  <2> HIDE DEF u
  <2>4. u \in Seq(S) /\ Len(u) = 2 /\ u[1] = x /\ u[2] = y
    BY <2>1, <2>3 DEF Joined
  <2>5. <<x, y>> \in Seq(S) /\ Len(<<x, y>>) = 2 /\ <<x, y>>[1] = x /\ <<x, y>>[2] = y
    BY <1>0, TwoIs
  <2>6. u = <<x, y>>
    <3>1. \A k \in 1..Len(u) : u[k] = <<x, y>>[k]
      BY <2>4, <2>5
    <3> QED BY <2>4, <2>5, <3>1, SeqEqual
  <2> QED BY <2>6 DEF u
<1>2. <<x>> \o <<y, z>> = <<x, y, z>>
  <2> DEFINE u == <<x>> \o <<y, z>>
  <2>1. <<x>> \in Seq(S) /\ Len(<<x>>) = 1 /\ <<x>>[1] = x
    BY <1>0, OneIs
  <2>2. <<y, z>> \in Seq(S) /\ Len(<<y, z>>) = 2 /\ <<y, z>>[1] = y /\ <<y, z>>[2] = z
    BY <1>0, TwoIs
  <2>3. Joined(S, u, <<x>>, <<y, z>>, 1, 2)
    BY <2>1, <2>2, JoinIs
  <2> HIDE DEF u
  <2>4. u \in Seq(S) /\ Len(u) = 3 /\ u[1] = x /\ u[2] = y /\ u[3] = z
    BY <2>1, <2>2, <2>3 DEF Joined
  <2>5. /\ <<x, y, z>> \in Seq(S) /\ Len(<<x, y, z>>) = 3
        /\ <<x, y, z>>[1] = x /\ <<x, y, z>>[2] = y /\ <<x, y, z>>[3] = z
    BY <1>0, ManyIs
  <2>6. u = <<x, y, z>>
    <3>1. \A k \in 1..Len(u) : u[k] = <<x, y, z>>[k]
      BY <2>4, <2>5
    <3> QED BY <2>4, <2>5, <3>1, SeqEqual
  <2> QED BY <2>6 DEF u
<1>3. Head(<<x, y>>) = x /\ Tail(<<x, y>>) = <<y>> /\ <<x, y>> # <<>>
  OBVIOUS
<1>4. Head(<<x, y, z>>) = x /\ <<x, y, z>> # <<>>
  OBVIOUS
<1>5. Tail(<<x, y, z>>) = <<y, z>>
  OBVIOUS
<1>6. Head(<<x>>) = x /\ Tail(<<x>>) = <<>> /\ <<x>> # <<>>
  OBVIOUS
<1>7. <<>> \o <<y>> = <<y>>
  OBVIOUS
<1>8. <<>> \o <<y, z>> = <<y, z>>
  OBVIOUS
<1> QED BY <1>1, <1>2, <1>3, <1>4, <1>5, <1>6, <1>7, <1>8
-----------------------------------------------------------------------------
(* Rot13: v1 st_size, v2 off, v3 i, v4 numop, v5 bufs, v6 aiolist, v7 out, v8 pc,
   v9 fails. *)
Blocks == [op : {"UNUSED", "READ_PENDING", "WRITE_PENDING"}, last : BOOLEAN, at : Nat, nbytes : Nat,
           data : {"none", "plain", "rot13"}, done : BOOLEAN, n : Nat]
Busy == {b \in Rot13!Bufs : v5[b].op # "UNUSED"}
Offsets == {x.at : x \in v7}

\* The half blocks of the input that a block at offset k has.
PartAt(k) == IF 2 < v1 - k THEN 2 ELSE v1 - k

\* What an operation in flight reads or writes is in the input, and what it
\* writes is translated.
BlockRight(r) ==
  /\ r \in Blocks
  /\ r.op # "UNUSED" => r.at < v1
  /\ r.op = "READ_PENDING" /\ r.done => r.n <= PartAt(r.at)
  /\ r.op = "WRITE_PENDING" => r.data = "rot13" /\ r.nbytes <= PartAt(r.at)

\* Without failures it is all of the block, and has been written when it is done.
BlockWhole(r) ==
  /\ r.op = "READ_PENDING" /\ r.done => r.n = PartAt(r.at)
  /\ r.op = "WRITE_PENDING" => r.nbytes = PartAt(r.at)
  /\ r.op = "WRITE_PENDING" /\ r.done => \A k \in r.at..(r.at + r.nbytes - 1) : k \in Offsets

Rot13Types ==
  /\ v1 \in Nat /\ v2 \in Nat /\ v3 \in Rot13!Bufs
  /\ DOMAIN v5 = Rot13!Bufs
  /\ v8 \in {"scan", "round", "exit", "failed"} /\ v9 \in Nat

\* aiolist and numop agree with the buffers, what is written is translated and in
\* its place; without failures every byte up to off is written or in flight.
ListRight == v6 = Busy /\ v4 = Cardinality(v6)
OutRight == \A x \in v7 : x.is = "rot13" /\ x.at \in 0..(v1 - 1)
Covered == \A k \in 0..(v1 - 1) : k < v2 => k \in Offsets \/ \E b \in Busy : k = v5[b].at \/ k = v5[b].at + 1
Rot13Inv ==
  /\ Rot13Types /\ ListRight /\ OutRight
  /\ \A b \in Rot13!Bufs : BlockRight(v5[b])
  /\ v8 = "exit" => v4 = 0 /\ v2 >= v1
  /\ v9 = 0 => (\A b \in Rot13!Bufs : BlockWhole(v5[b])) /\ Covered

\* There are finitely many buffers.
LEMMA BufsFinite ==
  /\ IsFiniteSet(Rot13!Bufs)
  /\ \A S \in SUBSET Rot13!Bufs : IsFiniteSet(S) /\ Cardinality(S) \in Nat
  /\ \A S \in SUBSET Rot13!Bufs : Cardinality(S) = 0 => S = {}
<1>1. NBUF \in Nat
  BY ProgramsAssumption DEF Rot13!Rot13Assumption
<1>2. IsFiniteSet(Rot13!Bufs)
  BY <1>1, FS_Interval DEF Rot13!Bufs
<1>3. \A S \in SUBSET Rot13!Bufs : IsFiniteSet(S)
  BY <1>2, FS_Subset
<1>4. \A S \in SUBSET Rot13!Bufs : Cardinality(S) \in Nat /\ (Cardinality(S) = 0 => S = {})
  BY <1>3, FS_CardinalityType, FS_EmptySet
<1> QED BY <1>2, <1>3, <1>4

\* After a buffer the loop is at another one, or at the end of the round.
LEMMA NextBufIs ==
  ASSUME Rot13Inv, Rot13!NextBuf
  PROVE v3' \in Rot13!Bufs /\ v8' \in {"scan", "round"}
<1>1. NBUF \in Nat \ {0} /\ v3 \in Rot13!Bufs
  BY ProgramsAssumption DEF Rot13!Rot13Assumption, Rot13Inv, Rot13Types
<1> QED BY <1>1 DEF Rot13!NextBuf, Rot13!Bufs

\* Only the place of main changes.
LEMMA Rot13Stays ==
  ASSUME Rot13Inv, v1' = v1, v2' = v2, v4' = v4, v5' = v5, v6' = v6, v7' = v7, v9' = v9,
         v3' \in Rot13!Bufs, v8' \in {"scan", "round", "exit", "failed"},
         v8' = "exit" => v4 = 0 /\ v2 >= v1
  PROVE Rot13Inv'
<1>1. Rot13Types' /\ Busy' = Busy /\ Offsets' = Offsets
  BY DEF Rot13Inv, Rot13Types, Busy, Offsets
<1>2. \A b \in Rot13!Bufs : BlockRight(v5[b])'
  BY DEF Rot13Inv, BlockRight, PartAt
<1>3. v9 = 0 => \A b \in Rot13!Bufs : BlockWhole(v5[b])'
  BY <1>1 DEF Rot13Inv, BlockWhole, PartAt
<1>4. ListRight' /\ OutRight' /\ (v9 = 0 => Covered')
  BY <1>1 DEF Rot13Inv, ListRight, OutRight, Covered
<1> QED BY <1>1, <1>2, <1>3, <1>4 DEF Rot13Inv

\* A read is started in a free buffer.
LEMMA Rot13Reads ==
  ASSUME Rot13Inv, Rot13!aio_read
  PROVE Rot13Inv'
<1>0. /\ v3 \in Rot13!Bufs /\ v5[v3] \in Blocks /\ v1 \in Nat /\ v2 \in Nat /\ v4 \in Nat
      /\ v6 = Busy /\ v4 = Cardinality(v6) /\ DOMAIN v5 = Rot13!Bufs
  BY BufsFinite DEF Rot13Inv, Rot13Types, ListRight, BlockRight, Busy
<1>1. /\ v5[v3].op = "UNUSED" /\ v2 < v1 /\ v2' = v2 + 2 /\ v6' = v6 \cup {v3} /\ v4' = v4 + 1
      /\ v1' = v1 /\ v7' = v7 /\ v9' = v9 /\ v3' \in Rot13!Bufs /\ v8' \in {"scan", "round"}
  BY NextBufIs DEF Rot13!aio_read, Rot13!At, Rot13!BSZ
<1>2. PICK l \in BOOLEAN : l = (v5[v3].last \/ v2 + 2 >= v1)
  BY <1>0 DEF Blocks
<1> DEFINE r == [op |-> "READ_PENDING", last |-> l, at |-> v2, nbytes |-> 2, data |-> v5[v3].data,
                 done |-> FALSE, n |-> 0]
<1>3. /\ DOMAIN v5' = Rot13!Bufs /\ v5'[v3] = r
      /\ \A b \in Rot13!Bufs \ {v3} : v5'[b] = v5[b]
  BY <1>0, <1>2 DEF Rot13!aio_read, Rot13!BSZ
<1>4. r \in Blocks /\ r.op = "READ_PENDING" /\ r.at = v2 /\ r.done = FALSE
  BY <1>0 DEF Blocks
<1> HIDE DEF r
<1>5. \A b \in Rot13!Bufs : BlockRight(v5[b])'
  BY <1>0, <1>1, <1>3, <1>4 DEF Rot13Inv, BlockRight, PartAt
<1>6. Busy' = Busy \cup {v3} /\ Offsets' = Offsets /\ v3 \notin Busy
  BY <1>0, <1>1, <1>3, <1>4 DEF Busy, Offsets
<1>7. Cardinality(v6') = Cardinality(v6) + 1
  BY <1>0, <1>1, <1>6, BufsFinite, FS_AddElement DEF Busy
<1>8. ListRight' /\ OutRight'
  BY <1>0, <1>1, <1>6, <1>7 DEF ListRight, OutRight, Rot13Inv
<1>9. ASSUME v9 = 0 PROVE (\A b \in Rot13!Bufs : BlockWhole(v5[b])') /\ Covered'
  <2>1. \A b \in Rot13!Bufs : BlockWhole(v5[b])'
    BY <1>1, <1>3, <1>4, <1>6, <1>9 DEF Rot13Inv, BlockWhole, PartAt
  <2>2. Covered
    BY <1>9 DEF Rot13Inv
  <2>3. ASSUME NEW k \in 0..(v1 - 1), k < v2 + 2
        PROVE k \in Offsets \/ \E b \in Busy' : k = v5'[b].at \/ k = v5'[b].at + 1
    <3>1. CASE k < v2
      BY <1>0, <1>3, <1>6, <2>2, <2>3, <3>1 DEF Covered, Busy
    <3>2. CASE k >= v2
      <4>1. k = v2 \/ k = v2 + 1
        BY <1>0, <2>3, <3>2
      <4> QED BY <1>3, <1>4, <1>6, <4>1
    <3> QED BY <1>0, <3>1, <3>2
  <2> QED BY <1>1, <1>6, <2>1, <2>3 DEF Covered
<1>10. Rot13Types'
  BY <1>0, <1>1, <1>3 DEF Rot13Inv, Rot13Types
<1> QED BY <1>1, <1>5, <1>8, <1>9, <1>10 DEF Rot13Inv

\* A buffer that has been read is translated and written.
LEMMA Rot13Writes ==
  ASSUME Rot13Inv, Rot13!aio_write
  PROVE Rot13Inv'
<1>0. /\ v3 \in Rot13!Bufs /\ v5[v3] \in Blocks /\ v1 \in Nat /\ v2 \in Nat
      /\ v6 = Busy /\ v4 = Cardinality(v6) /\ DOMAIN v5 = Rot13!Bufs
  BY DEF Rot13Inv, Rot13Types, ListRight, BlockRight
<1>1. /\ v5[v3].op = "READ_PENDING" /\ v5[v3].done /\ v2' = v2 /\ v6' = v6 /\ v4' = v4
      /\ v1' = v1 /\ v7' = v7 /\ v9' = v9 /\ v3' \in Rot13!Bufs /\ v8' \in {"scan", "round"}
  BY NextBufIs DEF Rot13!aio_write, Rot13!At
<1>3. PICK r \in Blocks : /\ DOMAIN v5' = Rot13!Bufs /\ v5'[v3] = r
                          /\ \A b \in Rot13!Bufs \ {v3} : v5'[b] = v5[b]
                          /\ r.op = "WRITE_PENDING" /\ r.nbytes = v5[v3].n /\ r.at = v5[v3].at
                          /\ r.data = "rot13" /\ r.done = FALSE
  <2> DEFINE r == [v5[v3] EXCEPT !.op = "WRITE_PENDING", !.nbytes = v5[v3].n, !.data = "rot13",
                                 !.done = FALSE]
  <2>1. v5' = [v5 EXCEPT ![v3] = r]
    BY <1>0 DEF Rot13!aio_write
  <2>2. /\ r \in Blocks /\ r.op = "WRITE_PENDING" /\ r.nbytes = v5[v3].n /\ r.at = v5[v3].at
        /\ r.data = "rot13" /\ r.done = FALSE
    BY <1>0 DEF Blocks
  <2> HIDE DEF r
  <2> QED BY <1>0, <2>1, <2>2
<1>5. \A b \in Rot13!Bufs : BlockRight(v5[b])'
  BY <1>0, <1>1, <1>3 DEF Rot13Inv, BlockRight, PartAt
<1>6. Busy' = Busy /\ Offsets' = Offsets
  BY <1>0, <1>1, <1>3 DEF Busy, Offsets
<1>8. ListRight' /\ OutRight'
  BY <1>0, <1>1, <1>6 DEF ListRight, OutRight, Rot13Inv
<1>9. ASSUME v9 = 0 PROVE (\A b \in Rot13!Bufs : BlockWhole(v5[b])') /\ Covered'
  <2>1. \A b \in Rot13!Bufs : BlockWhole(v5[b])'
    BY <1>0, <1>1, <1>3, <1>6, <1>9 DEF Rot13Inv, BlockWhole, PartAt
  <2>2. \A b \in Busy : v5'[b].at = v5[b].at
    BY <1>3 DEF Busy
  <2> QED BY <1>1, <1>6, <1>9, <2>1, <2>2 DEF Rot13Inv, Covered
<1>10. Rot13Types'
  BY <1>0, <1>1, <1>3 DEF Rot13Inv, Rot13Types
<1> QED BY <1>1, <1>5, <1>8, <1>9, <1>10 DEF Rot13Inv

\* A buffer that has been written is free, and its block is in the output.
LEMMA Rot13Frees ==
  ASSUME Rot13Inv, Rot13!WriteDone
  PROVE Rot13Inv'
<1>0. /\ v3 \in Rot13!Bufs /\ v5[v3] \in Blocks /\ v1 \in Nat /\ v2 \in Nat /\ v4 \in Nat
      /\ v6 = Busy /\ v4 = Cardinality(v6) /\ DOMAIN v5 = Rot13!Bufs
      /\ \A b \in Rot13!Bufs : BlockRight(v5[b])
  BY BufsFinite DEF Rot13Inv, Rot13Types, ListRight, BlockRight, Busy
<1>1. /\ v5[v3].op = "WRITE_PENDING" /\ v5[v3].done /\ v2' = v2 /\ v6' = v6 \ {v3} /\ v4' = v4 - 1
      /\ v1' = v1 /\ v7' = v7 /\ v9' = v9 /\ v3' \in Rot13!Bufs /\ v8' \in {"scan", "round"}
  BY NextBufIs DEF Rot13!WriteDone, Rot13!At
<1>3. PICK r \in Blocks : /\ DOMAIN v5' = Rot13!Bufs /\ v5'[v3] = r
                          /\ \A b \in Rot13!Bufs \ {v3} : v5'[b] = v5[b]
                          /\ r.op = "UNUSED"
  <2> DEFINE r == [v5[v3] EXCEPT !.op = "UNUSED"]
  <2>1. v5' = [v5 EXCEPT ![v3] = r]
    BY <1>0 DEF Rot13!WriteDone
  <2>2. r \in Blocks /\ r.op = "UNUSED"
    BY <1>0 DEF Blocks
  <2> HIDE DEF r
  <2> QED BY <1>0, <2>1, <2>2
<1>5. \A b \in Rot13!Bufs : BlockRight(v5[b])'
  BY <1>0, <1>1, <1>3 DEF BlockRight, PartAt
<1>6. Busy' = Busy \ {v3} /\ Offsets' = Offsets /\ v3 \in Busy
  BY <1>0, <1>1, <1>3 DEF Busy, Offsets
<1>7. Cardinality(v6') = Cardinality(v6) - 1
  BY <1>0, <1>1, <1>6, BufsFinite, FS_RemoveElement DEF Busy
<1>8. ListRight' /\ OutRight'
  BY <1>0, <1>1, <1>6, <1>7 DEF ListRight, OutRight, Rot13Inv
<1>9. ASSUME v9 = 0 PROVE (\A b \in Rot13!Bufs : BlockWhole(v5[b])') /\ Covered'
  <2>0. BlockWhole(v5[v3]) /\ Covered
    BY <1>0, <1>9 DEF Rot13Inv
  <2>1. \A b \in Rot13!Bufs : BlockWhole(v5[b])'
    BY <1>0, <1>1, <1>3, <1>6, <1>9 DEF Rot13Inv, BlockWhole, PartAt
  <2>2. ASSUME NEW k \in 0..(v1 - 1), k = v5[v3].at \/ k = v5[v3].at + 1
        PROVE k \in Offsets
    <3>1. v5[v3].at \in Nat /\ v5[v3].nbytes = PartAt(v5[v3].at) /\ v5[v3].at < v1
      BY <1>0, <1>1, <2>0 DEF BlockWhole, BlockRight, Blocks
    <3>2. k \in v5[v3].at..(v5[v3].at + v5[v3].nbytes - 1)
      BY <1>0, <2>2, <3>1 DEF PartAt
    <3> QED BY <1>1, <2>0, <3>2 DEF BlockWhole
  <2>3. ASSUME NEW k \in 0..(v1 - 1), k < v2
        PROVE k \in Offsets \/ \E b \in Busy' : k = v5'[b].at \/ k = v5'[b].at + 1
    BY <1>3, <1>6, <2>0, <2>2, <2>3 DEF Covered, Busy
  <2> QED BY <1>1, <1>6, <2>1, <2>3 DEF Covered
<1>10. Rot13Types'
  BY <1>0, <1>1, <1>3 DEF Rot13Inv, Rot13Types
<1> QED BY <1>1, <1>5, <1>8, <1>9, <1>10 DEF Rot13Inv

\* An operation completes with n half blocks, all of them or, as a failure, fewer.
LEMMA Rot13Completes ==
  ASSUME Rot13Inv, NEW b \in Rot13!Bufs, NEW n \in Nat, Rot13!Complete(b, n),
         n <= Rot13!Wanted(b), v9' \in Nat, v9' = 0 => v9 = 0 /\ n = Rot13!Wanted(b)
  PROVE Rot13Inv'
<1>0. /\ v5[b] \in Blocks /\ v1 \in Nat /\ v2 \in Nat /\ b \in Busy
      /\ v6 = Busy /\ v4 = Cardinality(v6) /\ DOMAIN v5 = Rot13!Bufs
      /\ \A c \in Rot13!Bufs : BlockRight(v5[c])
  BY DEF Rot13Inv, Rot13Types, ListRight, BlockRight, Rot13!Complete
<1>1. /\ ~v5[b].done /\ v2' = v2 /\ v6' = v6 /\ v4' = v4 /\ v8 \in {"scan", "round"}
      /\ v1' = v1 /\ v3' = v3 /\ v8' = v8
  BY DEF Rot13!Complete
<1>2. /\ v5[b].op \in {"READ_PENDING", "WRITE_PENDING"}
      /\ v5[b].at \in Nat /\ v5[b].nbytes \in Nat /\ v5[b].at < v1
      /\ v5[b].op = "WRITE_PENDING" => v5[b].data = "rot13"
      /\ v5[b].op = "WRITE_PENDING" => v5[b].nbytes <= PartAt(v5[b].at)
  BY <1>0 DEF Busy, BlockRight, Blocks
<1>w. Rot13!Wanted(b) = IF v5[b].op = "READ_PENDING" THEN PartAt(v5[b].at) ELSE v5[b].nbytes
  BY DEF Rot13!Wanted, Rot13!Least, Rot13!BSZ, PartAt
<1>3. PICK r \in Blocks : /\ DOMAIN v5' = Rot13!Bufs /\ v5'[b] = r
                          /\ \A c \in Rot13!Bufs \ {b} : v5'[c] = v5[c]
                          /\ r.op = v5[b].op /\ r.done /\ r.n = n /\ r.at = v5[b].at
                          /\ r.nbytes = v5[b].nbytes
                          /\ r.op = "WRITE_PENDING" => r.data = "rot13"
  <2> PICK d \in {"none", "plain", "rot13"} : d = IF v5[b].op = "READ_PENDING" THEN "plain" ELSE v5[b].data
    BY <1>0 DEF Blocks
  <2> DEFINE r == [v5[b] EXCEPT !.done = TRUE, !.n = n, !.data = d]
  <2>1. v5' = [v5 EXCEPT ![b] = r]
    BY <1>0 DEF Rot13!Complete
  <2>2. /\ r \in Blocks /\ r.op = v5[b].op /\ r.done /\ r.n = n /\ r.at = v5[b].at
        /\ r.nbytes = v5[b].nbytes /\ r.data = d
    BY <1>0 DEF Blocks
  <2> HIDE DEF r
  <2> QED BY <1>0, <1>2, <2>1, <2>2
<1>4. v7' = IF v5[b].op = "WRITE_PENDING"
            THEN v7 \cup {[at |-> v5[b].at + k, is |-> v5[b].data] : k \in 0..(n - 1)} ELSE v7
  BY DEF Rot13!Complete, Rot13!Written
<1>5. \A c \in Rot13!Bufs : BlockRight(v5[c])'
  BY <1>0, <1>1, <1>2, <1>w, <1>3 DEF BlockRight, PartAt
<1>6. Busy' = Busy
  BY <1>0, <1>3 DEF Busy
<1>7. OutRight'
  <2> SUFFICES ASSUME NEW x \in v7' PROVE x.is = "rot13" /\ x.at \in 0..(v1 - 1)
    BY <1>1 DEF OutRight
  <2>1. CASE x \in v7
    BY <2>1 DEF Rot13Inv, OutRight
  <2>2. CASE x \notin v7
    <3>1. PICK k \in 0..(n - 1) : x = [at |-> v5[b].at + k, is |-> v5[b].data]
      BY <1>4, <2>2
    <3>2. v5[b].op = "WRITE_PENDING" /\ n <= v5[b].nbytes /\ v5[b].nbytes <= v1 - v5[b].at
      BY <1>0, <1>2, <1>4, <1>w, <2>2 DEF PartAt
    <3> QED BY <1>0, <1>2, <3>1, <3>2
  <2> QED BY <2>1, <2>2
<1>8. ListRight'
  BY <1>0, <1>1, <1>6 DEF ListRight
<1>9. ASSUME v9' = 0 PROVE (\A c \in Rot13!Bufs : BlockWhole(v5[c])') /\ Covered'
  <2>0. (\A c \in Rot13!Bufs : BlockWhole(v5[c])) /\ Covered /\ n = Rot13!Wanted(b)
    BY <1>9 DEF Rot13Inv
  <2>1. \A k \in Offsets : k \in Offsets'
    BY <1>4 DEF Offsets
  <2>2. \A c \in Rot13!Bufs \ {b} : BlockWhole(v5[c])'
    BY <1>1, <1>3, <2>0, <2>1 DEF BlockWhole, PartAt
  <2>3. ASSUME v5[b].op = "WRITE_PENDING", NEW k \in v5[b].at..(v5[b].at + v5[b].nbytes - 1)
        PROVE k \in Offsets'
    <3> DEFINE x == [at |-> v5[b].at + (k - v5[b].at), is |-> v5[b].data]
    <3>1. n = v5[b].nbytes /\ k - v5[b].at \in 0..(n - 1) /\ v5[b].at + (k - v5[b].at) = k
      BY <1>2, <1>w, <2>0, <2>3
    <3>2. x \in v7' /\ x.at = k
      BY <1>4, <2>3, <3>1
    <3> QED BY <3>2 DEF Offsets
  <2>4. BlockWhole(v5[b])'
    <3>1. v5'[b].op = "READ_PENDING" => v5'[b].n = PartAt(v5[b].at)'
      BY <1>1, <1>3, <1>w, <2>0 DEF PartAt
    <3>2. v5'[b].op = "WRITE_PENDING" => v5'[b].nbytes = PartAt(v5[b].at)'
      BY <1>1, <1>3, <2>0 DEF PartAt, BlockWhole
    <3>3. v5'[b].op = "WRITE_PENDING" => \A k \in v5'[b].at..(v5'[b].at + v5'[b].nbytes - 1) : k \in Offsets'
      BY <1>3, <2>3
    <3> QED BY <3>1, <3>2, <3>3 DEF BlockWhole
  <2>5. \A c \in Busy : v5'[c].at = v5[c].at
    BY <1>3 DEF Busy
  <2> QED BY <1>1, <1>6, <2>0, <2>1, <2>2, <2>4, <2>5 DEF Covered
<1>10. Rot13Types'
  BY <1>1, <1>3 DEF Rot13Inv, Rot13Types
<1> QED BY <1>1, <1>5, <1>7, <1>8, <1>9, <1>10 DEF Rot13Inv

\* A step of main or of the system.
LEMMA Rot13Kept ==
  ASSUME Rot13Inv, Rot13!Next
  PROVE Rot13Inv'
<1>0. v3 \in Rot13!Bufs /\ v9 \in Nat /\ v1 \in Nat
  BY DEF Rot13Inv, Rot13Types
<1>1. CASE Rot13!NothingToRead \/ Rot13!InProgress
  BY <1>1, NextBufIs, Rot13Stays DEF Rot13!NothingToRead, Rot13!InProgress
<1>2. CASE Rot13!GivesUp
  BY <1>0, <1>2, Rot13Stays DEF Rot13!GivesUp, Rot13!Quits
<1>3. CASE Rot13!Round
  BY <1>0, <1>3, Rot13Stays DEF Rot13!Round, Rot13!RoundDone
<1>4. ASSUME NEW b \in Rot13!Bufs, b \in v6 PROVE Rot13!Wanted(b) \in Nat
  <2>1. BlockRight(v5[b]) /\ v5[b].op # "UNUSED"
    BY <1>4 DEF Rot13Inv, ListRight, Busy
  <2> QED BY <1>0, <2>1 DEF BlockRight, Blocks, Rot13!Wanted, Rot13!Least, Rot13!BSZ
<1>5. CASE Rot13!Completes
  <2>1. PICK b \in Rot13!Bufs : Rot13!Complete(b, Rot13!Wanted(b)) /\ v9' = v9
    BY <1>5 DEF Rot13!Completes
  <2>2. PICK n \in Nat : n = Rot13!Wanted(b)
    BY <1>4, <2>1 DEF Rot13!Complete
  <2>3. Rot13!Complete(b, n)
    BY <2>1, <2>2
  <2> QED BY <1>0, <2>1, <2>2, <2>3, Rot13Completes
<1>6. CASE Rot13!Short
  <2>1. PICK b \in Rot13!Bufs : Rot13!Complete(b, Rot13!Wanted(b) - 1) /\ Rot13!Wanted(b) > 0
    BY <1>6 DEF Rot13!Short
  <2>2. b \in v6 /\ v9' = v9 + 1
    BY <1>6, <2>1 DEF Rot13!Complete, Rot13!Short
  <2>3. PICK n \in Nat : n = Rot13!Wanted(b) - 1 /\ n <= Rot13!Wanted(b)
    BY <1>4, <2>1, <2>2
  <2>4. Rot13!Complete(b, n)
    BY <2>1, <2>3
  <2> QED BY <1>0, <2>2, <2>3, <2>4, Rot13Completes
<1> QED BY <1>1, <1>2, <1>3, <1>5, <1>6, Rot13Reads, Rot13Writes, Rot13Frees DEF Rot13!Next, Rot13!Main

\* No buffer is in use.
LEMMA Rot13Starts ==
  ASSUME Rot13!Init
  PROVE Rot13Inv
<1>1. /\ v1 \in 0..MaxSize /\ v2 = 0 /\ v3 = 0 /\ v4 = 0 /\ v6 = {} /\ v7 = {} /\ v8 = "scan" /\ v9 = 0
      /\ v5 = [b \in Rot13!Bufs |-> [op |-> "UNUSED", last |-> FALSE, at |-> 0, nbytes |-> 0,
                                     data |-> "none", done |-> FALSE, n |-> 0]]
  BY DEF Rot13!Init, Rot13!Unused
<1>2. MaxSize \in Nat /\ 0 \in Rot13!Bufs
  BY ProgramsAssumption DEF Rot13!Rot13Assumption, Rot13!Bufs
<1>3. Rot13Types /\ Busy = {}
  BY <1>1, <1>2 DEF Rot13Types, Busy
<1>4. ListRight /\ OutRight /\ Covered
  BY <1>1, <1>2, <1>3, FS_EmptySet DEF ListRight, OutRight, Covered
<1>5. \A b \in Rot13!Bufs : BlockRight(v5[b]) /\ BlockWhole(v5[b])
  BY <1>1 DEF BlockRight, BlockWhole, Blocks
<1> QED BY <1>1, <1>3, <1>4, <1>5 DEF Rot13Inv

LEMMA Rot13Still ==
  ASSUME Rot13Inv, UNCHANGED vars
  PROVE Rot13Inv'
<1>1. /\ v1' = v1 /\ v2' = v2 /\ v3' = v3 /\ v4' = v4 /\ v5' = v5 /\ v6' = v6 /\ v7' = v7 /\ v8' = v8
      /\ v9' = v9
  BY DEF vars
<1> QED BY <1>1, Rot13Stays DEF Rot13Inv, Rot13Types

\* At the end all blocks are in the output, translated.
LEMMA Rot13Whole ==
  ASSUME Rot13Inv
  PROVE Rot13!Translated
<1> SUFFICES ASSUME v8 = "exit"
             PROVE /\ \A b \in Rot13!Bufs : v5[b].op = "UNUSED"
                   /\ \A x \in v7 : x.is = "rot13"
                   /\ v9 = 0 => {x.at : x \in v7} = 0..(v1 - 1)
  BY DEF Rot13!Translated
<1>1. v4 = 0 /\ v2 >= v1 /\ v6 = Busy /\ v4 = Cardinality(v6) /\ v1 \in Nat /\ v2 \in Nat
  BY DEF Rot13Inv, ListRight, Rot13Types
<1>2. Busy = {}
  BY <1>1, BufsFinite DEF Busy
<1>3. \A b \in Rot13!Bufs : v5[b].op = "UNUSED"
  BY <1>2 DEF Busy
<1>4. \A x \in v7 : x.is = "rot13" /\ x.at \in 0..(v1 - 1)
  BY DEF Rot13Inv, OutRight
<1>5. ASSUME v9 = 0, NEW k \in 0..(v1 - 1) PROVE k \in Offsets
  BY <1>1, <1>2, <1>5 DEF Rot13Inv, Covered
<1> QED BY <1>3, <1>4, <1>5 DEF Offsets
-----------------------------------------------------------------------------
(* MemStream: v1 mode, v2 buf, v3 vsize, v4 curpos, v5 file. *)
Cells == 1..Size
MemModes == {"r", "r+", "w", "w+", "a", "a+", "my"}

\* The position is within the virtual size and this within the buffer; a stream
\* open for both has what was written; one that is only written ends in a null.
MemInv ==
  /\ v1 \in MemModes /\ v2 \in [Cells -> Nat]
  /\ v3 \in 0..Size /\ v4 \in 0..v3
  /\ Mem!Both => v5 \in [1..v3 -> Nat] /\ \A k \in 1..v3 : v5[k] = v2[k]
  /\ ~Mem!Has("READ") => (\E k \in Cells : v2[k] = 0) \/ \A k \in Cells : v2[k] \notin 1..2

\* The size of the buffer, and Min and Max of two numbers.
LEMMA SizeIs == Size \in Nat \ {0}
BY ProgramsAssumption DEF Mem!MemAssumption

LEMMA MinOfMem ==
  ASSUME NEW a \in Int, NEW b \in Int
  PROVE Mem!Min({a, b}) = IF a <= b THEN a ELSE b
<1>1. \E x \in {a, b} : \A y \in {a, b} : x <= y
  OBVIOUS
<1>2. Mem!Min({a, b}) \in {a, b} /\ \A y \in {a, b} : Mem!Min({a, b}) <= y
  BY <1>1 DEF Mem!Min
<1> QED BY <1>2

LEMMA MaxOfMem ==
  ASSUME NEW a \in Int, NEW b \in Int
  PROVE Mem!Max({a, b}) = IF a <= b THEN b ELSE a
<1>1. \E x \in {a, b} : \A y \in {a, b} : x >= y
  OBVIOUS
<1>2. Mem!Max({a, b}) \in {a, b} /\ \A y \in {a, b} : Mem!Max({a, b}) >= y
  BY <1>1 DEF Mem!Max
<1> QED BY <1>2

\* The first m elements of a sequence.
LEMMA FirstCells ==
  ASSUME NEW s \in Seq(Nat), NEW m \in 0..Len(s)
  PROVE SubSeq(s, 1, m) = [k \in 1..m |-> s[k]]
<1> PICK n \in Nat : n = Len(s)
  OBVIOUS
<1> DEFINE t == SubSeq(s, 1, m)
<1>1. /\ t \in Seq(Nat) /\ Len(t) = m - 1 + 1
      /\ \A k \in 1..(m - 1 + 1) : t[k] = s[1 + k - 1]
  BY SubSeqProperties
<1> HIDE DEF t
<1>2. t = [k \in 1..Len(t) |-> t[k]]
  BY <1>1
<1>3. m - 1 + 1 = m /\ \A k \in 1..m : 1 + k - 1 = k
  OBVIOUS
<1>4. t = [k \in 1..m |-> s[k]]
  BY <1>1, <1>2, <1>3
<1> QED BY <1>4 DEF t

\* find_end: the position of the first null byte, or the size.
LEMMA EndOfMem ==
  ASSUME NEW b \in [Cells -> Nat], Len(b) = Size
  PROVE Mem!find_end(b) \in 0..Size
<1> DEFINE S == {k - 1 : k \in {j \in DOMAIN b : b[j] = 0}} \cup {Len(b)}
<1>1. S \in SUBSET Nat /\ S # {} /\ \A x \in S : x \in 0..Size
  BY SizeIs DEF Cells
<1>2. \E x \in S : \A y \in S : x <= y
  BY <1>1, LeastNumber
<1> HIDE DEF S
<1>3. Mem!Min(S) \in S
  BY <1>2 DEF Mem!Min
<1>4. Mem!find_end(b) = Mem!Min(S)
  BY DEF Mem!find_end, S
<1> QED BY <1>1, <1>3, <1>4

\* A read or a seek moves the position only.
LEMMA MemMoves ==
  ASSUME MemInv, v1' = v1, v2' = v2, v3' = v3, v5' = v5, v4' \in 0..v3
  PROVE MemInv'
BY DEF MemInv, Mem!Both, Mem!Has

\* Reads change only the position; then the other calls.
LEMMA MemReads ==
  ASSUME MemInv, NEW n \in Nat, Mem!mstream_read(n)
  PROVE MemInv'
<1>1. /\ v1' = v1 /\ v2' = v2 /\ v3' = v3 /\ v5' = v5
      /\ v4' = IF v4 >= v3 THEN v4 ELSE v4 + Mem!Min({n, v3 - v4})
  BY DEF Mem!mstream_read
<1>2. v3 \in Nat /\ v4 \in 0..v3
  BY SizeIs DEF MemInv
<1>3. Mem!Min({n, v3 - v4}) = IF n <= v3 - v4 THEN n ELSE v3 - v4
  BY <1>2, MinOfMem
<1>4. v4' \in 0..v3
  BY <1>1, <1>2, <1>3
<1> QED BY <1>1, <1>4, MemMoves

LEMMA MemSeeks ==
  ASSUME MemInv, NEW pos \in Int, NEW whence \in {"SET", "CUR", "END"}, Mem!mstream_seek(pos, whence)
  PROVE MemInv'
<1>1. v3 \in Nat /\ v4 \in Nat
  BY SizeIs DEF MemInv
<1>2. PICK off \in Int : off = CASE whence = "SET" -> pos
                                 [] whence = "END" -> v3 + pos
                                 [] whence = "CUR" -> v4 + pos
  BY <1>1
<1>3. v1' = v1 /\ v2' = v2 /\ v3' = v3 /\ v5' = v5 /\ v4' = off /\ Mem!Seekable(off)
  BY <1>2 DEF Mem!mstream_seek
<1>4. v4' \in 0..v3
  BY <1>1, <1>3 DEF Mem!Seekable
<1> QED BY <1>3, <1>4, MemMoves

\* What the mode says of READ, WRITE and APPEND.
LEMMA MemFlags ==
  ASSUME v1 \in MemModes
  PROVE /\ Mem!Has("READ") <=> v1 \in {"r", "r+", "w+", "a+", "my"}
        /\ Mem!Both <=> v1 \in {"r+", "w+", "a+", "my"}
BY DEF MemModes, Mem!Has, Mem!Both, Mem!type_to_flags

\* A write puts nw bytes v at off and, at the end or for a stream that is only
\* written, a null byte.
LEMMA MemWrites ==
  ASSUME MemInv, NEW n \in 1..2, NEW v \in 1..2, Mem!mstream_write(n, v)
  PROVE MemInv'
<1> DEFINE nw == Mem!room(Mem!Offset, n)
           pos == Mem!Offset + nw
           b == Mem!Put(v2, Mem!Offset, nw, v)
           top == Mem!Max({v3, pos})
<1>0. /\ Size \in Nat \ {0} /\ v1 \in MemModes /\ v2 \in [Cells -> Nat]
      /\ v3 \in 0..Size /\ v4 \in 0..v3
  BY SizeIs DEF MemInv
<1>1. PICK off \in 0..v3 : off = Mem!Offset
  BY <1>0 DEF Mem!Offset
<1>2. nw = IF n <= Size - off THEN n ELSE Size - off
  BY <1>0, <1>1, MinOfMem DEF Mem!room
<1>3. PICK p \in off..Size : p = pos
  BY <1>0, <1>1, <1>2
<1>4. top = IF v3 <= p THEN p ELSE v3
  BY <1>0, <1>3, MaxOfMem
<1>5. PICK t \in 0..Size : t = top /\ v3 <= t /\ p <= t
  BY <1>0, <1>3, <1>4
<1>6. /\ b \in [Cells -> Nat]
      /\ \A k \in Cells : b[k] = IF k \in (off + 1)..p THEN v ELSE v2[k]
  BY <1>0, <1>1, <1>3 DEF Mem!Put
<1>7. /\ v1' = v1 /\ v4' = p /\ v3' = t
      /\ v2' = Mem!terminate(b, p, p > v3)
  BY <1>3, <1>5 DEF Mem!mstream_write
<1>8. \/ v2' = b /\ Mem!Has("READ")
      \/ v2' = [b EXCEPT ![IF p < Size THEN p + 1 ELSE Size] = 0] /\ ~Mem!Has("READ")
      \/ v2' = [b EXCEPT ![p + 1] = 0] /\ Mem!Has("READ") /\ p > v3 /\ p < Size
  BY <1>7 DEF Mem!terminate
<1> HIDE DEF nw, pos, b, top
<1>9. v2' \in [Cells -> Nat]
  <2>1. ASSUME NEW k, v2' = [b EXCEPT ![k] = 0] PROVE v2' \in [Cells -> Nat]
    BY <1>6, <2>1
  <2> QED BY <1>6, <1>8, <2>1
<1>10. ASSUME ~Mem!Has("READ") PROVE \E k \in Cells : v2'[k] = 0
  <2>1. PICK k \in Cells : k = IF p < Size THEN p + 1 ELSE Size
    BY <1>0, <1>3 DEF Cells
  <2>2. v2' = [b EXCEPT ![k] = 0]
    BY <1>8, <1>10, <2>1
  <2> QED BY <1>6, <2>2
<1>11. ASSUME Mem!Both PROVE v5' \in [1..t -> Nat] /\ \A k \in 1..t : v5'[k] = v2'[k]
  <2>1. v5 \in [1..v3 -> Nat] /\ \A k \in 1..v3 : v5[k] = v2[k]
    BY <1>11 DEF MemInv
  <2>2. Mem!Has("READ")
    BY <1>0, <1>11, MemFlags
  <2>3. PICK s \in Seq(Nat) : s = v5 /\ Len(s) = v3
    BY <1>0, <2>1
  <2>4. Mem!Max({Len(v5), pos}) = t
    BY <1>3, <1>5, <2>3 DEF top
  <2>5. v5' = [k \in 1..Mem!Max({Len(v5), pos}) |->
                IF k \in (Mem!Offset + 1)..pos THEN v ELSE v5[k]]
    BY DEF Mem!mstream_write, nw, pos
  <2>6. v5' = [k \in 1..t |-> IF k \in (off + 1)..p THEN v ELSE v5[k]]
    BY <1>1, <1>3, <2>4, <2>5
  <2>7. ASSUME NEW k \in 1..t PROVE v5'[k] \in Nat /\ v5'[k] = v2'[k]
    <3>1. k \in Cells /\ b[k] = v2'[k]
      BY <1>0, <1>3, <1>4, <1>5, <1>6, <1>8, <2>2 DEF Cells
    <3>2. v5'[k] = IF k \in (off + 1)..p THEN v ELSE v5[k]
      BY <2>6
    <3>3. CASE k \in (off + 1)..p
      BY <1>6, <3>1, <3>2, <3>3
    <3>4. CASE k \notin (off + 1)..p
      <4>1. k \in 1..v3
        BY <1>0, <1>1, <1>3, <1>4, <1>5, <3>4
      <4> QED BY <1>6, <2>1, <3>1, <3>2, <3>4, <4>1
    <3> QED BY <3>3, <3>4
  <2> QED BY <2>6, <2>7
<1>12. Mem!Both' = Mem!Both /\ Mem!Has("READ")' = Mem!Has("READ")
  BY <1>7 DEF Mem!Both, Mem!Has
<1>13. v3' \in 0..Size /\ v4' \in 0..v3' /\ v1' \in MemModes
  BY <1>0, <1>3, <1>5, <1>7
<1>14. Mem!Both' => v5' \in [1..v3' -> Nat] /\ \A k \in 1..v3' : v5'[k] = v2'[k]
  BY <1>7, <1>11, <1>12
<1>15. ~Mem!Has("READ")' => \E k \in Cells : v2'[k] = 0
  BY <1>10, <1>12
<1> QED BY <1>9, <1>13, <1>14, <1>15 DEF MemInv, Cells

\* A step of the caller.
LEMMA MemKept ==
  ASSUME MemInv, Mem!Next
  PROVE MemInv'
<1>1. ASSUME NEW n \in 1..2, Mem!mstream_read(n) PROVE MemInv'
  BY <1>1, MemReads
<1>2. ASSUME NEW whence \in {"SET", "CUR", "END"}, NEW pos \in -2..2, Mem!mstream_seek(pos, whence)
      PROVE MemInv'
  BY <1>2, MemSeeks
<1> QED BY <1>1, <1>2, MemWrites DEF Mem!Next

\* The buffer holds n bytes of something, then nulls; the file is its part up to
\* the virtual size.
LEMMA MemStarts ==
  ASSUME Mem!Init
  PROVE MemInv
<1>1. PICK n \in 0..Size : v2 = [k \in 1..Size |-> IF k <= n THEN 9 ELSE 0]
  BY DEF Mem!Init
<1>2. v2 \in [Cells -> Nat] /\ \A k \in Cells : v2[k] \notin 1..2
  BY <1>1 DEF Cells
<1>3. v2 \in Seq(Nat) /\ Len(v2) = Size
  BY <1>1, SizeIs
<1>4. Mem!find_end(v2) \in 0..Size
  BY <1>2, <1>3, EndOfMem
<1>5. v3 \in 0..Size /\ v4 \in 0..v3
  BY <1>4, SizeIs DEF Mem!Init, Mem!fmemopen
<1>6. v1 \in MemModes
  BY DEF Mem!Init, MemModes
<1>7. v5 = SubSeq(v2, 1, v3)
  BY DEF Mem!Init
<1>8. v5 = [k \in 1..v3 |-> v2[k]]
  BY <1>3, <1>5, <1>7, FirstCells
<1>9. v5 \in [1..v3 -> Nat] /\ \A k \in 1..v3 : v5[k] = v2[k]
  BY <1>2, <1>5, <1>8, SizeIs DEF Cells
<1> QED BY <1>2, <1>5, <1>6, <1>9 DEF MemInv

LEMMA MemStill ==
  ASSUME MemInv, UNCHANGED vars
  PROVE MemInv'
BY DEF vars, MemInv, Mem!Both, Mem!Has

\* The bytes are those of the file written, and the terminator follows them.
LEMMA MemHolds ==
  ASSUME MemInv
  PROVE Mem!FileKept /\ Mem!Terminated
<1>1. /\ Size \in Nat \ {0} /\ v2 \in [Cells -> Nat] /\ v3 \in 0..Size /\ v4 \in 0..v3
  BY SizeIs DEF MemInv
<1>2. Mem!Terminated
  BY DEF MemInv, Mem!Terminated, Cells
<1>3. ASSUME Mem!Both PROVE SubSeq(v2, 1, v3) = v5
  <2>1. v5 \in [1..v3 -> Nat] /\ \A k \in 1..v3 : v5[k] = v2[k]
    BY <1>3 DEF MemInv
  <2>2. SubSeq(v2, 1, v3) = [k \in 1..v3 |-> v2[k]]
    <3>1. v2 \in Seq(Nat) /\ Len(v2) = Size
      BY <1>1 DEF Cells
    <3> QED BY <1>1, <3>1, FirstCells
  <2>3. v5 = [k \in 1..v3 |-> v5[k]]
    BY <2>1
  <2> QED BY <2>1, <2>2, <2>3
<1> QED BY <1>1, <1>2, <1>3 DEF Mem!FileKept
-----------------------------------------------------------------------------
(* Pipes: v1 prog, v2 par, v3 chd, v4 next, v5 ends, v6 pipe, v7 buf, v8 seen. *)
Lines == Seq(Nat)

\* The pager has been shown the first lines, and the next ones are in the pipe.
PagerRight ==
  /\ v7 = <<>> /\ v3 # "write" /\ v2 \notin {"read", "select"} /\ v4 <= NLines + 1
  /\ v2 = "write" => v4 <= NLines
  /\ v2 \in {"eof", "waitpid"} => v4 = NLines + 1
  /\ Len(v8) + Len(v6.to) = v4 - 1
  /\ Counts(v6.to, Len(v8))

\* A coprocess has been asked what has been answered, or one question more, which
\* is in one of three places.
Asked(a, b, c) == v6.to = a /\ v7 = b /\ v6.from = c
AskedOne ==
  /\ Len(v8) = v4 - 2
  /\ \/ Asked(<<v4 - 1>>, <<>>, <<>>)
     \/ Asked(<<>>, <<v4 - 1>>, <<>>)
     \/ Asked(<<>>, <<>>, <<v4 - 1>>)
AskedNone == Len(v8) = v4 - 1 /\ Asked(<<>>, <<>>, <<>>)
CoprocessRight ==
  v2 # "gone" =>
    /\ <<"parent", "from", "r">> \in v5
    /\ IF v2 = "read" THEN AskedOne ELSE v2 \in {"close", "fgets", "write", "eof"} /\ AskedNone

PipesInv ==
  /\ v1 \in Pipes!Programs /\ v4 \in Nat \ {0}
  /\ v6.to \in Lines /\ v6.from \in Lines /\ v6 = [to |-> v6.to, from |-> v6.from]
  /\ v7 \in Lines /\ v8 \in Lines
  /\ Counts(v8, 0)
  /\ v3 = "write" => v7 # <<>>
  /\ v1.kind = "pager" => PagerRight
  /\ v1.kind = "coprocess" => CoprocessRight
  /\ v1.run = "sleep" => v2 \in {"close", "select", "gone"} /\ v3 # "write"

\* The three kinds of programs.
LEMMA ProgramIs ==
  ASSUME v1 \in Pipes!Programs
  PROVE \/ v1.kind = "pager" /\ v1.run = "pager"
        \/ /\ v1.kind = "coprocess" /\ v1.run \in {"add2", "add2stdio"} /\ ~v1.waits
           /\ v1.parent = {<<"to", "r">>, <<"from", "w">>}
        \/ v1.kind \in {"r", "w"} /\ v1.run = "sleep"
BY DEF Pipes!Programs, Pipes!pipe2, Pipes!figure_15_6, Pipes!exercise_1, Pipes!exercise_2, Pipes!pipe4,
  Pipes!pipe4_stdio, Pipes!figure_15_18, Pipes!exercise_4, Pipes!exercise_5, Pipes!exercise_7a,
  Pipes!exercise_7b, Pipes!exercise_7c, Pipes!exercise_7d, Pipes!Pager, Pipes!Coprocess, Pipes!Select

\* The lines stay where they are.
LEMMA PagerRests ==
  ASSUME PipesInv, v1.kind = "pager", v1' = v1, v4' = v4, v6' = v6, v7' = v7, v8' = v8,
         v3' # "write", v2' \notin {"read", "select"},
         v2' = "write" => v4 <= NLines,
         v2' \in {"eof", "waitpid"} => v4 = NLines + 1
  PROVE PipesInv'
<1>1. v1.run = "pager"
  BY ProgramIs DEF PipesInv
<1>2. PagerRight'
  BY DEF PipesInv, PagerRight, Counts
<1>3. Counts(v8, 0)'
  BY DEF PipesInv, Counts
<1> QED BY <1>1, <1>2, <1>3 DEF PipesInv

\* A step of the pager and its parent.
LEMMA PagerKept ==
  ASSUME PipesInv, v1.kind = "pager", Pipes!Next
  PROVE PipesInv'
<1>0. /\ v1.run = "pager" /\ PagerRight /\ v7 = <<>> /\ v3 # "write" /\ NLines \in Nat /\ v4 \in Nat
      /\ v2 \notin {"read", "select"} /\ v6.to \in Seq(Nat) /\ v8 \in Seq(Nat) /\ v4 <= NLines + 1
      /\ v2 = "write" => v4 <= NLines
      /\ v2 \in {"eof", "waitpid"} => v4 = NLines + 1
      /\ v6 = [to |-> v6.to, from |-> v6.from]
  BY ProgramIs, ProgramsAssumption DEF PipesInv, PagerRight, Pipes!PipesAssumption, Lines
<1>1. CASE Pipes!CloseParent \/ Pipes!fgets \/ Pipes!sig_pipe \/ Pipes!Eof \/ Pipes!waitpid
  <2>1. v1' = v1 /\ v3' = v3 /\ v4' = v4 /\ v6' = v6 /\ v7' = v7 /\ v8' = v8
    BY <1>1 DEF Pipes!CloseParent, Pipes!fgets, Pipes!sig_pipe, Pipes!Eof, Pipes!waitpid
  <2>2. /\ v2' \notin {"read", "select"}
        /\ v2' = "write" => v4 <= NLines
        /\ v2' \in {"eof", "waitpid"} => v4 = NLines + 1
    BY <1>0, <1>1 DEF Pipes!CloseParent, Pipes!fgets, Pipes!sig_pipe, Pipes!Eof, Pipes!waitpid
  <2> QED BY <1>0, <2>1, <2>2, PagerRests
<1>2. CASE Pipes!execl \/ Pipes!ChildEof \/ Pipes!PagerQuits
  <2>1. v1' = v1 /\ v2' = v2 /\ v4' = v4 /\ v6' = v6 /\ v7' = v7 /\ v8' = v8 /\ v3' # "write"
    BY <1>0, <1>2 DEF Pipes!execl, Pipes!ChildEof, Pipes!PagerQuits
  <2> QED BY <1>0, <2>1, PagerRests
<1>3. CASE Pipes!write
  <2>1. /\ v2 = "write" /\ v2' = "fgets" /\ v4' = v4 + 1 /\ v1' = v1 /\ v3' = v3 /\ v7' = v7 /\ v8' = v8
        /\ v6' = [v6 EXCEPT !.to = Append(v6.to, v4)]
    BY <1>0, <1>3 DEF Pipes!write
  <2>2. v6'.to = Append(v6.to, v4) /\ v6'.from = v6.from /\ v6' = [to |-> v6'.to, from |-> v6'.from]
    BY <1>0, <2>1
  <2>3. PICK n \in Nat : n = Len(v8)
    BY <1>0, SeqIs
  <2>4. PICK m \in Nat : m = Len(v6.to)
    BY <1>0, SeqIs
  <2>5. Counts(v6.to, n) /\ n + m = v4 - 1
    BY <1>0, <2>3, <2>4 DEF PagerRight
  <2>10. v4 = n + m + 1
    BY <1>0, <2>5
  <2>6. v6'.to \in Seq(Nat) /\ Len(v6'.to) = m + 1 /\ Counts(v6'.to, n)
    BY <1>0, <2>2, <2>4, <2>5, <2>10, CountsMore
  <2>7. Counts(v6.to, Len(v8))'
    BY <2>1, <2>3, <2>6 DEF Counts
  <2>8. PagerRight'
    <3>1. Len(v8') = n /\ Len(v6'.to) = m + 1 /\ Len(v8') + Len(v6'.to) = v4' - 1 /\ v4' <= NLines + 1
      BY <1>0, <2>1, <2>3, <2>5, <2>6
    <3>2. Counts(v6'.to, Len(v8'))
      BY <2>1, <2>3, <2>6
    <3> QED BY <1>0, <2>1, <3>1, <3>2 DEF PagerRight
  <2>9. Counts(v8, 0)'
    BY <2>1 DEF PipesInv, Counts
  <2> QED BY <1>0, <2>1, <2>2, <2>6, <2>8, <2>9 DEF PipesInv, Lines
<1>4. CASE Pipes!PagerReads
  <2>1. /\ v1' = v1 /\ v2' = v2 /\ v3' = v3 /\ v4' = v4 /\ v7' = v7
        /\ v8' = Append(v8, Head(v6.to)) /\ v6.to # <<>>
        /\ v6' = [v6 EXCEPT !.to = Tail(v6.to)]
    BY <1>0, <1>4 DEF Pipes!PagerReads, Pipes!ReadLine
  <2>2. v6'.to = Tail(v6.to) /\ v6'.from = v6.from /\ v6' = [to |-> v6'.to, from |-> v6'.from]
    BY <1>0, <2>1
  <2>3. PICK n \in Nat : n = Len(v8)
    BY <1>0, SeqIs
  <2>4. PICK m \in Nat : m = Len(v6.to)
    BY <1>0, SeqIs
  <2>5. Counts(v6.to, n) /\ n + m = v4 - 1 /\ Counts(v8, 0)
    BY <1>0, <2>3, <2>4 DEF PagerRight, PipesInv
  <2>6. Head(v6.to) = n + 1 /\ v6'.to \in Seq(Nat) /\ Len(v6'.to) = m - 1 /\ Counts(v6'.to, n + 1)
    BY <1>0, <2>1, <2>2, <2>4, <2>5, CountsLess
  <2>7. v8' \in Seq(Nat) /\ Len(v8') = n + 1 /\ Counts(v8', 0)
    <3>1. n + 1 \in Nat /\ n + 1 = 0 + Len(v8) + 1
      BY <2>3
    <3> QED BY <1>0, <2>1, <2>3, <2>5, <2>6, <3>1, CountsMore
  <2>8. Counts(v6.to, Len(v8))' /\ Counts(v8, 0)'
    BY <2>6, <2>7 DEF Counts
  <2>9. PagerRight'
    BY <1>0, <2>1, <2>5, <2>6, <2>7, <2>8 DEF PagerRight
  <2> QED BY <1>0, <2>1, <2>2, <2>6, <2>7, <2>8, <2>9 DEF PipesInv, Lines
<1>5. ~(Pipes!read \/ Pipes!ChildClosedPipe \/ Pipes!select \/ Pipes!add2 \/ Pipes!add2stdio
        \/ Pipes!Answer \/ Pipes!ChildSigpipe \/ Pipes!ChildReturns)
  BY <1>0 DEF Pipes!read, Pipes!ChildClosedPipe, Pipes!select, Pipes!add2, Pipes!add2stdio, Pipes!Answer,
    Pipes!ChildSigpipe, Pipes!ChildReturns, Pipes!Running
<1> QED BY <1>1, <1>2, <1>3, <1>4, <1>5 DEF Pipes!Next, Pipes!Parent, Pipes!Child

\* The end the parent of a coprocess reads from stays open until it exits.
LEMMA EndKept ==
  ASSUME v1.parent = {<<"to", "r">>, <<"from", "w">>}, <<"parent", "from", "r">> \in v5
  PROVE /\ <<"parent", "from", "r">> \in Pipes!Without("parent", v1.parent)
        /\ \A E : <<"parent", "from", "r">> \in Pipes!Without("child", E)
        /\ Pipes!Held("from", "r")
BY DEF Pipes!Without, Pipes!Held, Pipes!Both

\* A step of the parent of the coprocess.
LEMMA CoprocessParent ==
  ASSUME PipesInv, v1.kind = "coprocess", Pipes!Parent
  PROVE PipesInv'
<1>0. /\ v1.run \in {"add2", "add2stdio"} /\ v1.run # "sleep" /\ ~v1.waits /\ CoprocessRight
      /\ v1.parent = {<<"to", "r">>, <<"from", "w">>} /\ v4 \in Nat \ {0}
      /\ v6.to \in Seq(Nat) /\ v6.from \in Seq(Nat) /\ v8 \in Seq(Nat) /\ v7 \in Seq(Nat)
      /\ v6 = [to |-> v6.to, from |-> v6.from]
      /\ Counts(v8, 0)
  BY ProgramIs DEF PipesInv, Lines
<1>1. CASE v2' = "gone"
  <2>1. v1' = v1 /\ v3' = v3 /\ v4' = v4 /\ v6' = v6 /\ v7' = v7 /\ v8' = v8
    BY <1>0, <1>1 DEF Pipes!Parent, Pipes!CloseParent, Pipes!fgets, Pipes!write, Pipes!sig_pipe, Pipes!read,
      Pipes!ChildClosedPipe, Pipes!Eof, Pipes!waitpid, Pipes!select
  <2>2. CoprocessRight' /\ Counts(v8, 0)'
    BY <1>0, <1>1, <2>1 DEF CoprocessRight, Counts
  <2> QED BY <1>0, <2>1, <2>2 DEF PipesInv
<1>2. CASE Pipes!CloseParent \/ Pipes!fgets
  <2>1. /\ v1' = v1 /\ v3' = v3 /\ v4' = v4 /\ v6' = v6 /\ v7' = v7 /\ v8' = v8
        /\ v2 \in {"close", "fgets"} /\ v2' \in {"fgets", "write", "eof"}
        /\ v5' = v5 \/ v5' = Pipes!Without("parent", v1.parent)
    BY <1>0, <1>2 DEF Pipes!CloseParent, Pipes!fgets
  <2>2. <<"parent", "from", "r">> \in v5'
    BY <1>0, <2>1, EndKept DEF CoprocessRight
  <2>3. CoprocessRight' /\ Counts(v8, 0)'
    BY <1>0, <2>1, <2>2 DEF CoprocessRight, AskedNone, Asked, Counts
  <2> QED BY <1>0, <2>1, <2>3 DEF PipesInv
<1>3. CASE Pipes!write
  <2>1. /\ v2 = "write" /\ v2' = "read" /\ v4' = v4 + 1 /\ v1' = v1 /\ v3' = v3 /\ v7' = v7 /\ v8' = v8
        /\ v6' = [v6 EXCEPT !.to = Append(v6.to, v4)] /\ v5' = v5
    BY <1>0, <1>3 DEF Pipes!write
  <2>2. AskedNone /\ <<"parent", "from", "r">> \in v5
    BY <1>0, <2>1 DEF CoprocessRight
  <2>3. v6'.to = <<v4>> /\ v6'.from = <<>> /\ v6' = [to |-> v6'.to, from |-> v6'.from]
    BY <1>0, <2>1, <2>2, OneIs DEF AskedNone, Asked
  <2>4. Len(v8') = v4' - 2 /\ v6'.to = <<v4' - 1>> /\ v7' = <<>>
    BY <1>0, <2>1, <2>2, <2>3 DEF AskedNone, Asked
  <2>5. CoprocessRight' /\ Counts(v8, 0)'
    <3>1. AskedOne'
      BY <2>3, <2>4 DEF AskedOne, Asked
    <3>2. CoprocessRight'
      BY <2>1, <2>2, <3>1 DEF CoprocessRight
    <3> QED BY <1>0, <2>1, <3>2 DEF Counts
  <2>6. v6'.to \in Seq(Nat) /\ v6'.from \in Seq(Nat)
    BY <1>0, <2>3, OneIs
  <2> QED BY <1>0, <2>1, <2>3, <2>5, <2>6 DEF PipesInv, Lines
<1>4. CASE Pipes!read
  <2>1. /\ v2 = "read" /\ v2' = "fgets" /\ v4' = v4 /\ v1' = v1 /\ v3' = v3 /\ v7' = v7 /\ v5' = v5
        /\ v8' = Append(v8, Head(v6.from)) /\ v6.from # <<>>
        /\ v6' = [v6 EXCEPT !.from = Tail(v6.from)]
    BY <1>0, <1>4 DEF Pipes!read
  <2>2. AskedOne /\ <<"parent", "from", "r">> \in v5
    BY <1>0, <2>1 DEF CoprocessRight
  <2>3. PICK n \in Nat : n = Len(v8) /\ n = v4 - 2
    BY <1>0, <2>2, SeqIs DEF AskedOne
  <2>4. v6.to = <<>> /\ v7 = <<>> /\ v6.from = <<n + 1>>
    BY <1>0, <2>1, <2>2, <2>3 DEF AskedOne, Asked
  <2>5. v6'.to = <<>> /\ v6'.from = <<>> /\ v6' = [to |-> v6'.to, from |-> v6'.from]
    BY <1>0, <2>1, <2>4, OneIs
  <2>6. v8' \in Seq(Nat) /\ Len(v8') = n + 1 /\ Counts(v8', 0)
    <3>1. n + 1 \in Nat /\ n + 1 = 0 + Len(v8) + 1 /\ Head(v6.from) = n + 1
      BY <2>3, <2>4, OneIs
    <3> QED BY <1>0, <2>1, <2>3, <3>1, CountsMore
  <2>7. CoprocessRight'
    BY <1>0, <2>1, <2>2, <2>3, <2>4, <2>5, <2>6 DEF CoprocessRight, AskedNone, Asked
  <2>8. v6'.to \in Seq(Nat) /\ v6'.from \in Seq(Nat)
    BY <2>5, OneIs
  <2>9. Counts(v8, 0)'
    BY <2>6 DEF Counts
  <2> QED BY <1>0, <2>1, <2>5, <2>6, <2>7, <2>8, <2>9 DEF PipesInv, Lines
<1>5. CASE Pipes!sig_pipe \/ Pipes!ChildClosedPipe \/ Pipes!Eof \/ Pipes!waitpid \/ Pipes!select
  BY <1>0, <1>1, <1>5 DEF Pipes!sig_pipe, Pipes!ChildClosedPipe, Pipes!Eof, Pipes!waitpid, Pipes!select
<1> QED BY <1>2, <1>3, <1>4, <1>5 DEF Pipes!Parent

\* What the child does with the line it is asked about.
LEMMA CoprocessChild ==
  ASSUME PipesInv, v1.kind = "coprocess", Pipes!Child
  PROVE PipesInv'
<1>0. /\ v1.run \in {"add2", "add2stdio"} /\ v1.run # "sleep" /\ CoprocessRight
      /\ v1.parent = {<<"to", "r">>, <<"from", "w">>} /\ v4 \in Nat \ {0}
      /\ v6.to \in Seq(Nat) /\ v6.from \in Seq(Nat) /\ v8 \in Seq(Nat) /\ v7 \in Seq(Nat)
      /\ v6 = [to |-> v6.to, from |-> v6.from]
      /\ Counts(v8, 0) /\ v1 \in Pipes!Programs /\ v1.kind # "pager"
      /\ v3 = "write" => v7 # <<>>
  BY ProgramIs DEF PipesInv, Lines
<1>1. v1' = v1 /\ v2' = v2 /\ v4' = v4 /\ v8' = v8 /\ Counts(v8, 0)'
  BY <1>0 DEF Pipes!Child, Pipes!execl, Pipes!PagerReads, Pipes!add2, Pipes!add2stdio, Pipes!ChildEof,
    Pipes!Answer, Pipes!ChildSigpipe, Pipes!ChildReturns, Pipes!Running, Counts
<1>2. v2 # "gone" => <<"parent", "from", "r">> \in v5 /\ <<"parent", "from", "r">> \in v5'
  BY <1>0, EndKept DEF Pipes!Child, Pipes!execl, Pipes!PagerReads, Pipes!add2, Pipes!add2stdio, Pipes!ChildEof,
    Pipes!Answer, Pipes!ChildSigpipe, Pipes!ChildReturns, Pipes!Running, CoprocessRight, Pipes!exit
<1>3. CASE v6' = v6 /\ v7' = v7 /\ (v3' = "write" => v7 # <<>>)
  <2>1. CoprocessRight'
    BY <1>0, <1>1, <1>2, <1>3 DEF CoprocessRight, AskedOne, AskedNone, Asked
  <2> QED BY <1>0, <1>1, <1>3, <2>1 DEF PipesInv
<1>4. CASE Pipes!execl \/ Pipes!ChildEof
  BY <1>0, <1>3, <1>4 DEF Pipes!execl, Pipes!ChildEof
<1>5. CASE Pipes!add2 \/ Pipes!add2stdio
  <2>1. /\ v6.to # <<>> /\ v6' = [v6 EXCEPT !.to = Tail(v6.to)]
        /\ v7' = <<Head(v6.to)>> \/ v7' = Append(v7, Head(v6.to))
    BY <1>0, <1>5 DEF Pipes!add2, Pipes!add2stdio, Pipes!ReadLine
  <2>2. v6'.to = Tail(v6.to) /\ v6'.from = v6.from /\ v6' = [to |-> v6'.to, from |-> v6'.from]
    BY <1>0, <2>1
  <2>3. PICK h \in Nat : h = Head(v6.to) /\ Tail(v6.to) \in Seq(Nat)
    BY <1>0, <2>1, HeadTailProperties
  <2>4. <<h>> \in Seq(Nat) /\ Append(v7, h) \in Seq(Nat) /\ <<h>> # <<>> /\ Append(v7, h) # <<>>
    <3>1. <<h>> \in Seq(Nat) /\ <<h>> # <<>>
      OBVIOUS
    <3>2. Append(v7, h) \in Seq(Nat) /\ Append(v7, h) # <<>>
      <4>1. PICK n \in Nat : n = Len(v7)
        BY <1>0, SeqIs
      <4>2. Append(v7, h) \in Seq(Nat) /\ Len(Append(v7, h)) = n + 1
        BY <1>0, <4>1, AppendedIs
      <4> QED BY <4>2, SeqIs
    <3> QED BY <3>1, <3>2
  <2>5. v7' \in Seq(Nat) /\ v7' # <<>>
    BY <2>1, <2>3, <2>4
  <2>6. CoprocessRight'
    <3>1. CASE v2 = "gone"
      BY <1>1, <3>1 DEF CoprocessRight
    <3>2. CASE v2 # "gone"
      <4>1. v2 = "read" /\ AskedOne
        BY <1>0, <2>1, <3>2 DEF CoprocessRight, AskedNone, Asked
      <4>2. PICK x \in Nat : x = v4 - 1
        BY <1>0
      <4>3. v6.to = <<x>> /\ v7 = <<>> /\ v6.from = <<>>
        BY <2>1, <4>1, <4>2 DEF AskedOne, Asked
      <4>4. h = x /\ Tail(v6.to) = <<>> /\ Append(v7, h) = <<x>>
        BY <2>3, <4>2, <4>3, OneIs
      <4>5. v6'.to = <<>> /\ v7' = <<x>> /\ v6'.from = <<>>
        BY <2>1, <2>2, <2>3, <4>3, <4>4
      <4> QED BY <1>1, <1>2, <4>1, <4>2, <4>5 DEF CoprocessRight, AskedOne, Asked
    <3> QED BY <3>1, <3>2
  <2> QED BY <1>0, <1>1, <2>2, <2>3, <2>5, <2>6 DEF PipesInv, Lines
<1>6. CASE Pipes!Answer
  <2>1. /\ v3 = "write" /\ v7 # <<>> /\ v6' = [v6 EXCEPT !.from = Append(v6.from, Head(v7))]
        /\ v7' = Tail(v7) /\ v3' = (IF Len(v7) = 1 THEN "run" ELSE v3)
    BY <1>0, <1>6 DEF Pipes!Answer
  <2>2. v6'.to = v6.to /\ v6'.from = Append(v6.from, Head(v7)) /\ v6' = [to |-> v6'.to, from |-> v6'.from]
    BY <1>0, <2>1
  <2>3. PICK h \in Nat : h = Head(v7) /\ Tail(v7) \in Seq(Nat) /\ Len(Tail(v7)) = Len(v7) - 1
    BY <1>0, <2>1, HeadTailProperties
  <2>4. Append(v6.from, h) \in Seq(Nat)
    BY <1>0, <2>3, AppendProperties
  <2>5. v3' = "write" => v7' # <<>>
    <3>1. Len(v7) \in Nat /\ (Tail(v7) = <<>> => Len(Tail(v7)) = 0)
      BY <1>0, <2>3, SeqIs
    <3> QED BY <2>1, <2>3, <3>1
  <2>6. CoprocessRight'
    <3>1. CASE v2 = "gone"
      BY <1>1, <3>1 DEF CoprocessRight
    <3>2. CASE v2 # "gone"
      <4>1. v2 = "read" /\ AskedOne
        BY <1>0, <2>1, <3>2 DEF CoprocessRight, AskedNone, Asked
      <4>2. PICK x \in Nat : x = v4 - 1
        BY <1>0
      <4>3. v7 = <<x>> /\ v6.to = <<>> /\ v6.from = <<>>
        BY <2>1, <4>1, <4>2 DEF AskedOne, Asked
      <4>4. h = x /\ Tail(v7) = <<>> /\ Append(v6.from, h) = <<x>>
        BY <2>3, <4>2, <4>3, OneIs
      <4>5. v6'.to = <<>> /\ v7' = <<>> /\ v6'.from = <<x>>
        BY <2>1, <2>2, <2>3, <4>3, <4>4
      <4> QED BY <1>1, <1>2, <4>1, <4>2, <4>5 DEF CoprocessRight, AskedOne, Asked
    <3> QED BY <3>1, <3>2
  <2> QED BY <1>0, <1>1, <2>1, <2>2, <2>3, <2>4, <2>5, <2>6 DEF PipesInv, Lines
<1>7. CASE Pipes!ChildSigpipe
  <2>1. v2 = "gone" /\ v6' = v6 /\ v7' = <<>> /\ v3' = "gone"
    BY <1>0, <1>2, <1>7, EndKept DEF Pipes!ChildSigpipe
  <2>2. CoprocessRight'
    BY <1>1, <2>1 DEF CoprocessRight
  <2> QED BY <1>0, <1>1, <2>1, <2>2, OneIs DEF PipesInv, Lines
<1>8. ~(Pipes!PagerReads \/ Pipes!ChildReturns)
  BY <1>0 DEF Pipes!PagerReads, Pipes!ChildReturns, Pipes!Running
<1> QED BY <1>4, <1>5, <1>6, <1>7, <1>8 DEF Pipes!Child

\* Exercise 15.7 passes no lines.
LEMMA SelectPipeKept ==
  ASSUME PipesInv, v1.run = "sleep", Pipes!Next
  PROVE PipesInv'
<1>0. v1.kind \notin {"pager", "coprocess"} /\ v2 \in {"close", "select", "gone"} /\ v3 # "write"
  BY ProgramIs DEF PipesInv
<1>1. /\ v1' = v1 /\ v4' = v4 /\ v6' = v6 /\ v7' = v7 /\ v8' = v8 /\ v3' # "write"
      /\ v2' \in {"close", "select", "gone"}
  BY <1>0 DEF Pipes!Next, Pipes!Parent, Pipes!Child, Pipes!CloseParent, Pipes!fgets, Pipes!write, Pipes!sig_pipe,
    Pipes!read, Pipes!ChildClosedPipe, Pipes!Eof, Pipes!waitpid, Pipes!select, Pipes!execl, Pipes!PagerReads,
    Pipes!add2, Pipes!add2stdio, Pipes!ChildEof, Pipes!Answer, Pipes!ChildSigpipe, Pipes!ChildReturns,
    Pipes!PagerQuits, Pipes!Running, Pipes!ReadLine
<1>2. Counts(v8, 0)'
  BY <1>1 DEF PipesInv, Counts
<1> QED BY <1>0, <1>1, <1>2 DEF PipesInv

\* A step of parent or child.
LEMMA PipesKept ==
  ASSUME PipesInv, Pipes!Next
  PROVE PipesInv'
<1>1. CASE v1.kind = "pager"
  BY <1>1, PagerKept
<1>2. CASE v1.kind = "coprocess"
  <2>1. ~Pipes!PagerQuits
    BY <1>2, ProgramIs DEF PipesInv, Pipes!PagerQuits, Pipes!Running
  <2> QED BY <1>2, <2>1, CoprocessParent, CoprocessChild DEF Pipes!Next
<1>3. CASE v1.run = "sleep"
  BY <1>3, SelectPipeKept
<1> QED BY <1>1, <1>2, <1>3, ProgramIs DEF PipesInv

\* Nothing has been written.
LEMMA PipesStarts ==
  ASSUME Pipes!Init
  PROVE PipesInv
<1>1. /\ v1 \in Pipes!Programs /\ v2 = "close" /\ v3 = "close" /\ v4 = 1
      /\ v6 = [to |-> <<>>, from |-> <<>>] /\ v7 = <<>> /\ v8 = <<>>
  BY DEF Pipes!Init
<1>2. NLines \in Nat
  BY ProgramsAssumption DEF Pipes!PipesAssumption
<1>3. <<"parent", "from", "r">> \in v5
  <2>1. <<"from", "r">> \in Pipes!AllEnds
    BY DEF Pipes!AllEnds
  <2>2. <<"from", "r">>[1] = "from" /\ <<"from", "r">>[2] = "r"
    OBVIOUS
  <2> QED BY <2>1, <2>2 DEF Pipes!Init, Pipes!Both
<1>4. <<>> \in Seq(Nat) /\ Len(<<>>) = 0
  BY OneIs
<1>5. \A n : Counts(<<>>, n)
  BY DEF Counts
<1>6. PagerRight /\ CoprocessRight
  BY <1>1, <1>2, <1>3, <1>4, <1>5 DEF PagerRight, CoprocessRight, AskedNone, Asked
<1> QED BY <1>1, <1>4, <1>5, <1>6 DEF PipesInv, Lines

LEMMA PipesStill ==
  ASSUME PipesInv, UNCHANGED vars
  PROVE PipesInv'
<1>1. v1' = v1 /\ v2' = v2 /\ v3' = v3 /\ v4' = v4 /\ v5' = v5 /\ v6' = v6 /\ v7' = v7 /\ v8' = v8
  BY DEF vars
<1> QED BY <1>1 DEF PipesInv, PagerRight, CoprocessRight, AskedOne, AskedNone, Asked, Counts

\* The lines come out in order, and all of them before the end of the file.
LEMMA PipesOrder ==
  ASSUME PipesInv
  PROVE Pipes!LinesInOrder
<1>0. Counts(v8, 0) /\ v8 \in Seq(Nat) /\ v4 \in Nat /\ v6.to \in Seq(Nat)
  BY DEF PipesInv, Lines
<1>1. \A j \in DOMAIN v8 : v8[j] = j
  BY <1>0, SeqIs DEF Counts
<1>2. ASSUME v1.kind = "coprocess", v2 \in {"fgets", "write"} PROVE Len(v8) = v4 - 1
  BY <1>2 DEF PipesInv, CoprocessRight, AskedNone
<1>3. ASSUME Pipes!Running({"pager"}), v2 = "waitpid", Pipes!EndOfFile("to") PROVE Len(v8) = NLines
  <2>1. v1.kind = "pager" /\ v6.to = <<>>
    BY <1>3, ProgramIs DEF PipesInv, Pipes!Running, Pipes!EndOfFile
  <2>2. v4 = NLines + 1 /\ Len(v8) + Len(v6.to) = v4 - 1
    BY <1>3, <2>1 DEF PipesInv, PagerRight
  <2>3. Len(v6.to) = 0 /\ Len(v8) \in Nat /\ NLines \in Nat
    BY <1>0, <2>1, SeqIs, ProgramsAssumption DEF Pipes!PipesAssumption
  <2> QED BY <2>2, <2>3
<1> QED BY <1>1, <1>2, <1>3 DEF Pipes!LinesInOrder
-----------------------------------------------------------------------------
(* PollMsg: v1 prog, v2 sent, v3 queue, v4 helper, v5 chan, v6 main, v7 printed,
   v8 text, v9 spurious. *)
Message == [id : Nat, len : 0..(MAXMSZ - 1)]

\* The messages that follow message number base, in order.
Numbered(s, base) == \A k \in DOMAIN s : s[k].id = base + k

\* A sequence t that is s and one more message.
LEMMA NumberedOn ==
  ASSUME NEW s, NEW t, NEW base \in Nat, NEW n \in Nat, Numbered(s, base), DOMAIN s = 1..n,
         DOMAIN t = 1..(n + 1), t[n + 1].id = base + n + 1, \A k \in 1..n : t[k] = s[k]
  PROVE Numbered(t, base)
<1>1. SUFFICES ASSUME NEW k \in 1..(n + 1) PROVE t[k].id = base + k
  BY DEF Numbered
<1>2. CASE k = n + 1
  BY <1>2
<1>3. CASE k # n + 1
  <2>1. k \in 1..n
    BY <1>3
  <2>2. t[k] = s[k] /\ s[k].id = base + k
    BY <2>1 DEF Numbered
  <2> QED BY <2>2
<1> QED BY <1>2, <1>3

\* What a message sent, and one received, makes of the numbering.
LEMMA NumberedMore ==
  ASSUME NEW s \in Seq(Message), NEW base \in Nat, Numbered(s, base), NEW x \in Message,
         NEW n \in Nat, n = Len(s), x.id = base + n + 1
  PROVE Append(s, x) \in Seq(Message) /\ Len(Append(s, x)) = n + 1 /\ Numbered(Append(s, x), base)
<1>1. DOMAIN s = 1..n
  BY SeqIs
<1> DEFINE t == Append(s, x)
<1>2. /\ t \in Seq(Message) /\ Len(t) = n + 1 /\ DOMAIN t = 1..(n + 1) /\ t[n + 1] = x
      /\ \A k \in 1..n : t[k] = s[k]
  BY AppendedIs
<1> HIDE DEF t
<1> QED BY <1>1, <1>2, NumberedOn DEF t

LEMMA NumberedLess ==
  ASSUME NEW s \in Seq(Message), NEW base \in Nat, Numbered(s, base), s # <<>>, NEW n \in Nat, n = Len(s)
  PROVE /\ n > 0 /\ Head(s) \in Message /\ Head(s).id = base + 1
        /\ Tail(s) \in Seq(Message) /\ Len(Tail(s)) = n - 1 /\ Numbered(Tail(s), base + 1)
<1>1. DOMAIN s = 1..n
  BY SeqIs
<1> DEFINE t == Tail(s)
<1>2. /\ n > 0 /\ Head(s) = s[1] /\ s[1] \in Message /\ t \in Seq(Message) /\ Len(t) = n - 1
      /\ DOMAIN t = 1..(n - 1)
      /\ \A k \in 1..(n - 1) : t[k] = s[k + 1]
  BY TailIs
<1> HIDE DEF t
<1>3. s[1].id = base + 1
  BY <1>1, <1>2 DEF Numbered
<1>4. \A k \in 1..(n - 1) : t[k].id = base + 1 + k
  <2> TAKE k \in 1..(n - 1)
  <2>1. k + 1 \in 1..n
    OBVIOUS
  <2>2. t[k] = s[k + 1] /\ s[k + 1].id = base + (k + 1)
    BY <1>1, <1>2, <2>1 DEF Numbered
  <2> QED BY <2>2
<1> QED BY <1>2, <1>3, <1>4 DEF Numbered, t

\* The queue q has the messages after number base, up to the last one of s.
Queued(s, q, base) == Numbered(q, base) /\ Len(s) = base + Len(q)

\* The same for a queue and what was sent to it.
LEMMA QueueMore ==
  ASSUME NEW s \in Seq(Nat), NEW q \in Seq(Message), NEW base \in Nat, Queued(s, q, base),
         NEW x \in 0..(MAXMSZ - 1)
  PROVE /\ Append(s, x) \in Seq(Nat) /\ Append(q, [id |-> Len(s) + 1, len |-> x]) \in Seq(Message)
        /\ Queued(Append(s, x), Append(q, [id |-> Len(s) + 1, len |-> x]), base)
<1> DEFINE m == [id |-> Len(s) + 1, len |-> x]
<1>0. x \in Nat
  BY ProgramsAssumption DEF Msgs!PollMsgAssumption
<1>1. PICK n \in Nat : n = Len(s)
  BY SeqIs
<1>2. PICK k \in Nat : k = Len(q)
  BY SeqIs
<1>3. n = base + k /\ Numbered(q, base)
  BY <1>1, <1>2 DEF Queued
<1>4. m \in Message /\ m.id = base + k + 1
  BY <1>1, <1>3 DEF Message
<1> HIDE DEF m
<1>5. Append(q, m) \in Seq(Message) /\ Len(Append(q, m)) = k + 1 /\ Numbered(Append(q, m), base)
  <2> DEFINE t == Append(q, m)
  <2>1. DOMAIN q = 1..k
    BY <1>2, SeqIs
  <2>2. /\ t \in Seq(Message) /\ Len(t) = k + 1 /\ DOMAIN t = 1..(k + 1) /\ t[k + 1] = m
        /\ \A j \in 1..k : t[j] = q[j]
    BY <1>2, <1>4, AppendedIs
  <2> HIDE DEF t
  <2>3. Numbered(t, base)
    BY <1>3, <1>4, <2>1, <2>2, NumberedOn
  <2> QED BY <2>2, <2>3 DEF t
<1>6. Append(s, x) \in Seq(Nat) /\ Len(Append(s, x)) = n + 1
  BY <1>0, <1>1, AppendedIs
<1>7. Queued(Append(s, x), Append(q, m), base)
  BY <1>3, <1>5, <1>6 DEF Queued
<1> QED BY <1>5, <1>6, <1>7 DEF m

LEMMA QueueLess ==
  ASSUME NEW s \in Seq(Nat), NEW q \in Seq(Message), NEW base \in Nat, Queued(s, q, base), q # <<>>
  PROVE /\ Head(q) \in Message /\ Head(q).id = base + 1 /\ Tail(q) \in Seq(Message)
        /\ Queued(s, Tail(q), base + 1)
<1>1. PICK n \in Nat : n = Len(q)
  BY SeqIs
<1>2. /\ Head(q) \in Message /\ Head(q).id = base + 1 /\ Tail(q) \in Seq(Message)
      /\ Len(Tail(q)) = n - 1 /\ Numbered(Tail(q), base + 1)
  BY <1>1, NumberedLess DEF Queued
<1>3. Len(s) = base + n
  BY <1>1 DEF Queued
<1>4. Len(s) = base + 1 + Len(Tail(q)) /\ Numbered(Tail(q), base + 1)
  BY <1>2, <1>3
<1>5. Queued(s, Tail(q), base + 1)
  BY <1>4 DEF Queued
<1> QED BY <1>2, <1>5

\* The messages between queue q and print-out p: one that the helper h has, and those
\* on their way in c, from the programs that pass a message at once,
InOne(s, q, h, c, p) ==
  /\ c \in Seq(Message) /\ Numbered(c, Len(p))
  /\ \/ h.at = "msgrcv" /\ Queued(s, q, Len(p) + Len(c))
     \/ h.at = "write" /\ h.m.id = Len(p) + Len(c) + 1 /\ Queued(s, q, Len(p) + Len(c) + 1)

\* from exercise_1a, where every second thing main reads is a message (b = "text"
\* when it has read the length),
Taken(b) == IF b = "text" THEN 1 ELSE 0
InTwo(s, q, h, c, p, b) ==
  /\ c \in Seq(Message) /\ b \in {"no", "text"}
  /\ \A k \in DOMAIN c : \A g \in Nat : k + Taken(b) = 2 * g => c[k].id = Len(p) + g
  /\ \E n \in Nat :
       \/ h.at = "msgrcv" /\ Len(c) + Taken(b) = 2 * n /\ Queued(s, q, Len(p) + n)
       \/ /\ h.m.id = Len(p) + n + 1 /\ Queued(s, q, Len(p) + n + 1)
          /\ \/ h.at = "write" /\ Len(c) + Taken(b) = 2 * n
             \/ h.at = "text" /\ Len(c) + Taken(b) = 2 * n + 1

\* and from pollmsg2, where the helper keeps its message until main (b) has printed it.
ByHand(s, q, h, c, p, b) ==
  \/ h.at = "msgrcv" /\ c = <<>> /\ b = "no" /\ Queued(s, q, Len(p))
  \/ /\ h.m.id = Len(p) + 1 /\ Queued(s, q, Len(p) + 1)
     /\ \/ h.at = "write" /\ c = <<>> /\ b = "no"
        \/ h.at \in {"towait", "wait"} /\ c = <<"a">> /\ b = "no"
        \/ h.at \in {"towait", "wait"} /\ c = <<>> /\ b = "print"
  \/ h.at \in {"towait", "wait"} /\ c = <<>> /\ b = "signal" /\ Queued(s, q, Len(p))

MsgTypes(s, q, h, p) ==
  /\ s \in Seq(Nat) /\ q \in Seq(Message) /\ p \in Seq(Nat)
  /\ h.m \in Message /\ h = [at |-> h.at, m |-> h.m]
OnItsWay(prg, s, q, h, c, p, b) ==
  /\ prg = "exercise_1a" => InTwo(s, q, h, c, p, b)
  /\ prg = "pollmsg2" => ByHand(s, q, h, c, p, b)
  /\ prg \in {"pollmsg", "figure_17_3", "exercise_1b"} => InOne(s, q, h, c, p) /\ b = "no"
MsgRight(prg, s, q, h, c, p, b) ==
  /\ MsgTypes(s, q, h, p) /\ Counts(p, 0)
  /\ OnItsWay(prg, s, q, h, c, p, b)

\* A message is sent.
LEMMA MsgSent ==
  ASSUME NEW prg, NEW s, NEW q, NEW h, NEW c, NEW p, NEW b, MsgRight(prg, s, q, h, c, p, b),
         NEW x \in 0..(MAXMSZ - 1)
  PROVE MsgRight(prg, Append(s, x), Append(q, [id |-> Len(s) + 1, len |-> x]), h, c, p, b)
<1>0. s \in Seq(Nat) /\ q \in Seq(Message) /\ p \in Seq(Nat)
  BY DEF MsgRight, MsgTypes
<1> DEFINE S == Append(s, x)
           Q == Append(q, [id |-> Len(s) + 1, len |-> x])
<1>1. \A n \in Nat : Queued(s, q, n) => S \in Seq(Nat) /\ Q \in Seq(Message) /\ Queued(S, Q, n)
  BY <1>0, QueueMore
<1>2. S \in Seq(Nat) /\ Q \in Seq(Message)
  <2>1. x \in Nat /\ [id |-> Len(s) + 1, len |-> x] \in Message
    BY <1>0, SeqIs, ProgramsAssumption DEF Message, Msgs!PollMsgAssumption
  <2> QED BY <1>0, <2>1, AppendProperties
<1> HIDE DEF S, Q
<1>3. PICK n \in Nat : n = Len(p)
  BY <1>0, SeqIs
<1>4. InTwo(s, q, h, c, p, b) => InTwo(S, Q, h, c, p, b)
  BY <1>1, <1>3 DEF InTwo
<1>5. ByHand(s, q, h, c, p, b) => ByHand(S, Q, h, c, p, b)
  BY <1>1, <1>3 DEF ByHand
<1>6. ASSUME InOne(s, q, h, c, p) PROVE InOne(S, Q, h, c, p)
  <2>1. PICK k \in Nat : k = Len(c)
    BY <1>6, SeqIs DEF InOne
  <2> QED BY <1>1, <1>3, <1>6, <2>1 DEF InOne
<1>7. MsgTypes(S, Q, h, p) /\ Counts(p, 0)
  BY <1>2 DEF MsgRight, MsgTypes
<1>8. OnItsWay(prg, S, Q, h, c, p, b)
  BY <1>4, <1>5, <1>6 DEF MsgRight, OnItsWay
<1>9. MsgRight(prg, S, Q, h, c, p, b)
  BY <1>7, <1>8 DEF MsgRight
<1> QED BY <1>9 DEF S, Q

\* The helper takes a message off the queue.
LEMMA MsgReceived ==
  ASSUME NEW prg, NEW s, NEW q, NEW h, NEW c, NEW p, NEW b, MsgRight(prg, s, q, h, c, p, b),
         h.at = "msgrcv", q # <<>>
  PROVE MsgRight(prg, s, Tail(q), [at |-> "write", m |-> Head(q)], c, p, b)
<1>0. s \in Seq(Nat) /\ q \in Seq(Message) /\ p \in Seq(Nat) /\ Counts(p, 0)
  BY DEF MsgRight, MsgTypes
<1> DEFINE Q == Tail(q)
           H == [at |-> "write", m |-> Head(q)]
<1>1. H.at = "write" /\ H.m = Head(q) /\ H = [at |-> H.at, m |-> H.m]
  OBVIOUS
<1>2. \A n \in Nat : Queued(s, q, n) => H.m.id = n + 1 /\ Queued(s, Q, n + 1)
  BY <1>0, QueueLess
<1>3. H.m \in Message /\ Q \in Seq(Message)
  BY <1>0, HeadTailProperties
<1> HIDE DEF H, Q
<1>4. PICK n \in Nat : n = Len(p)
  BY <1>0, SeqIs
<1>5. InTwo(s, q, h, c, p, b) => InTwo(s, Q, H, c, p, b)
  BY <1>1, <1>2, <1>4 DEF InTwo
<1>6. ByHand(s, q, h, c, p, b) => ByHand(s, Q, H, c, p, b)
  BY <1>1, <1>2, <1>4 DEF ByHand
<1>7. ASSUME InOne(s, q, h, c, p) PROVE InOne(s, Q, H, c, p)
  <2>1. PICK k \in Nat : k = Len(c)
    BY <1>7, SeqIs DEF InOne
  <2>2. n + k \in Nat /\ Queued(s, q, n + k)
    BY <1>4, <1>7, <2>1 DEF InOne
  <2> QED BY <1>1, <1>2, <1>4, <1>7, <2>1, <2>2 DEF InOne
<1>8. MsgTypes(s, Q, H, p)
  BY <1>0, <1>1, <1>3 DEF MsgTypes
<1>9. OnItsWay(prg, s, Q, H, c, p, b)
  BY <1>5, <1>6, <1>7 DEF MsgRight, OnItsWay
<1>10. MsgRight(prg, s, Q, H, c, p, b)
  BY <1>0, <1>8, <1>9 DEF MsgRight
<1> QED BY <1>10 DEF H, Q

\* The helper writes what it passes: the message,
LEMMA MsgPassed ==
  ASSUME NEW prg, NEW s, NEW q, NEW h, NEW c, NEW p, NEW b, MsgRight(prg, s, q, h, c, p, b),
         prg \in {"pollmsg", "figure_17_3", "exercise_1b"}, h.at \in {"write", "text"}
  PROVE h.at = "write" /\ MsgRight(prg, s, q, [h EXCEPT !.at = "msgrcv"], Append(c, h.m), p, b)
<1>0. s \in Seq(Nat) /\ q \in Seq(Message) /\ p \in Seq(Nat) /\ Counts(p, 0) /\ h.m \in Message
      /\ h = [at |-> h.at, m |-> h.m]
  BY DEF MsgRight, MsgTypes
<1>1. InOne(s, q, h, c, p) /\ b = "no" /\ h.at = "write"
  BY DEF MsgRight, OnItsWay, InOne
<1> DEFINE C == Append(c, h.m)
           H == [h EXCEPT !.at = "msgrcv"]
<1>2. H.at = "msgrcv" /\ H.m = h.m /\ H = [at |-> H.at, m |-> H.m]
  BY <1>0
<1>3. PICK n \in Nat : n = Len(p)
  BY <1>0, SeqIs
<1>4. PICK k \in Nat : k = Len(c)
  BY <1>1, SeqIs DEF InOne
<1>5. c \in Seq(Message) /\ Numbered(c, n) /\ h.m.id = n + k + 1 /\ Queued(s, q, n + k + 1)
  BY <1>1, <1>3, <1>4 DEF InOne
<1>6. C \in Seq(Message) /\ Len(C) = k + 1 /\ Numbered(C, n)
  BY <1>0, <1>4, <1>5, NumberedMore
<1> HIDE DEF H, C
<1>7. InOne(s, q, H, C, p)
  <2>1. Len(p) + Len(C) = n + k + 1
    BY <1>3, <1>6
  <2> QED BY <1>2, <1>3, <1>5, <1>6, <2>1 DEF InOne
<1>8. MsgTypes(s, q, H, p)
  BY <1>0, <1>2 DEF MsgTypes
<1>9. MsgRight(prg, s, q, H, C, p, b)
  BY <1>0, <1>1, <1>7, <1>8 DEF MsgRight, OnItsWay
<1> QED BY <1>1, <1>9 DEF H, C

\* its length and then its text,
LEMMA LengthPassed ==
  ASSUME NEW s, NEW q, NEW h, NEW c, NEW p, NEW b, MsgRight("exercise_1a", s, q, h, c, p, b),
         h.at \in {"write", "text"},
         NEW x \in Message, h.at = "text" => x = h.m
  PROVE MsgRight("exercise_1a", s, q, [h EXCEPT !.at = IF h.at = "write" THEN "text" ELSE "msgrcv"],
                 Append(c, x), p, b)
<1>0. s \in Seq(Nat) /\ q \in Seq(Message) /\ p \in Seq(Nat) /\ Counts(p, 0) /\ h.m \in Message
      /\ h = [at |-> h.at, m |-> h.m]
  BY DEF MsgRight, MsgTypes
<1>1. InTwo(s, q, h, c, p, b)
  BY DEF MsgRight, OnItsWay
<1> DEFINE C == Append(c, x)
           H == [h EXCEPT !.at = IF h.at = "write" THEN "text" ELSE "msgrcv"]
<1>2. /\ H.at = (IF h.at = "write" THEN "text" ELSE "msgrcv") /\ H.m = h.m /\ H = [at |-> H.at, m |-> H.m]
  BY <1>0
<1>3. PICK l \in Nat : l = Len(p)
  BY <1>0, SeqIs
<1>4. PICK w \in Nat : w = Len(c) /\ DOMAIN c = 1..w
  BY <1>1, SeqIs DEF InTwo
<1>5. PICK t \in {0, 1} : t = Taken(b)
  BY DEF Taken
<1>6. PICK n \in Nat : /\ h.m.id = l + n + 1 /\ Queued(s, q, l + n + 1)
                       /\ \/ h.at = "write" /\ w + t = 2 * n
                          \/ h.at = "text" /\ w + t = 2 * n + 1
  BY <1>1, <1>3, <1>4, <1>5 DEF InTwo
<1>7. /\ C \in Seq(Message) /\ Len(C) = w + 1 /\ DOMAIN C = 1..(w + 1) /\ C[w + 1] = x
      /\ \A k \in 1..w : C[k] = c[k]
  BY <1>1, <1>4, AppendedIs DEF InTwo
<1> HIDE DEF H, C
<1>8. ASSUME NEW k \in 1..(w + 1), NEW g \in Nat, k + t = 2 * g
      PROVE C[k].id = l + g
  <2>1. CASE k \in 1..w
    <3>1. c[k].id = l + g
      BY <1>1, <1>3, <1>4, <1>5, <1>8, <2>1 DEF InTwo
    <3> QED BY <1>7, <2>1, <3>1
  <2>2. CASE k = w + 1
    <3>1. h.at = "text" /\ g = n + 1
      BY <1>6, <1>8, <2>2
    <3> QED BY <1>6, <1>7, <2>2, <3>1
  <2> QED BY <2>1, <2>2
<1>9. \/ H.at = "msgrcv" /\ (w + 1) + t = 2 * (n + 1) /\ Queued(s, q, l + (n + 1))
      \/ H.at = "text" /\ (w + 1) + t = 2 * n + 1 /\ H.m.id = l + n + 1 /\ Queued(s, q, l + n + 1)
  <2>1. l + n + 1 = l + (n + 1)
    OBVIOUS
  <2> QED BY <1>2, <1>6, <2>1
<1>10. InTwo(s, q, H, C, p, b)
  <2>1. \A k \in DOMAIN C : \A g \in Nat : k + Taken(b) = 2 * g => C[k].id = Len(p) + g
    BY <1>3, <1>5, <1>7, <1>8
  <2>2. n + 1 \in Nat /\ Len(C) = w + 1
    BY <1>7
  <2> QED BY <1>1, <1>3, <1>5, <1>7, <1>9, <2>1, <2>2 DEF InTwo
<1>11. MsgTypes(s, q, H, p)
  BY <1>0, <1>2 DEF MsgTypes
<1>12. MsgRight("exercise_1a", s, q, H, C, p, b)
  BY <1>0, <1>10, <1>11 DEF MsgRight, OnItsWay
<1> QED BY <1>12 DEF H, C

\* or a byte.
LEMMA BytePassed ==
  ASSUME NEW s, NEW q, NEW h, NEW c, NEW p, NEW b, MsgRight("pollmsg2", s, q, h, c, p, b),
         h.at \in {"write", "text"}
  PROVE h.at = "write" /\ MsgRight("pollmsg2", s, q, [h EXCEPT !.at = "towait"], Append(c, "a"), p, b)
<1>0. s \in Seq(Nat) /\ q \in Seq(Message) /\ p \in Seq(Nat) /\ Counts(p, 0) /\ h.m \in Message
      /\ h = [at |-> h.at, m |-> h.m]
  BY DEF MsgRight, MsgTypes
<1>1. /\ h.at = "write" /\ c = <<>> /\ b = "no" /\ h.m.id = Len(p) + 1 /\ Queued(s, q, Len(p) + 1)
  BY DEF MsgRight, OnItsWay, ByHand
<1> DEFINE H == [h EXCEPT !.at = "towait"]
<1>2. H.at = "towait" /\ H.m = h.m /\ H = [at |-> H.at, m |-> H.m]
  BY <1>0
<1>3. Append(c, "a") = <<"a">>
  BY <1>1
<1> HIDE DEF H
<1>4. ByHand(s, q, H, <<"a">>, p, b)
  BY <1>1, <1>2 DEF ByHand
<1>5. MsgTypes(s, q, H, p)
  BY <1>0, <1>2 DEF MsgTypes
<1>6. MsgRight("pollmsg2", s, q, H, <<"a">>, p, b)
  BY <1>0, <1>4, <1>5 DEF MsgRight, OnItsWay
<1> QED BY <1>1, <1>3, <1>6 DEF H

\* The helper of pollmsg2 begins to wait.
LEMMA HelperWaits ==
  ASSUME NEW s, NEW q, NEW h, NEW c, NEW p, NEW b, MsgRight("pollmsg2", s, q, h, c, p, b), h.at = "towait"
  PROVE MsgRight("pollmsg2", s, q, [h EXCEPT !.at = "wait"], c, p, b)
<1>0. MsgTypes(s, q, h, p) /\ Counts(p, 0) /\ ByHand(s, q, h, c, p, b)
  BY DEF MsgRight, OnItsWay
<1> DEFINE H == [h EXCEPT !.at = "wait"]
<1>1. H.at = "wait" /\ H.m = h.m /\ H = [at |-> H.at, m |-> H.m]
  BY <1>0 DEF MsgTypes
<1> HIDE DEF H
<1>2. ByHand(s, q, H, c, p, b)
  BY <1>0, <1>1 DEF ByHand
<1>3. MsgTypes(s, q, H, p)
  BY <1>0, <1>1 DEF MsgTypes
<1>4. MsgRight("pollmsg2", s, q, H, c, p, b)
  BY <1>0, <1>2, <1>3 DEF MsgRight, OnItsWay
<1> QED BY <1>4 DEF H

\* The next message is printed.
LEMMA NextPrinted ==
  ASSUME NEW p \in Seq(Nat), Counts(p, 0), NEW n \in Nat, n = Len(p), NEW x, x = n + 1
  PROVE Append(p, x) \in Seq(Nat) /\ Len(Append(p, x)) = n + 1 /\ Counts(Append(p, x), 0)
<1>1. x \in Nat /\ x = 0 + Len(p) + 1
  OBVIOUS
<1> QED BY <1>1, CountsMore

\* main reads a message,
LEMMA MsgRead ==
  ASSUME NEW prg, NEW s, NEW q, NEW h, NEW c, NEW p, NEW b, MsgRight(prg, s, q, h, c, p, b),
         prg \in {"pollmsg", "figure_17_3", "exercise_1b"}, c # <<>>
  PROVE /\ Head(c) \in Message /\ b = "no"
        /\ MsgRight(prg, s, q, h, Tail(c), Append(p, Head(c).id), b)
<1>0. /\ MsgTypes(s, q, h, p) /\ Counts(p, 0) /\ InOne(s, q, h, c, p) /\ b = "no"
      /\ p \in Seq(Nat)
  BY DEF MsgRight, OnItsWay, MsgTypes
<1> DEFINE C == Tail(c)
           P == Append(p, Head(c).id)
<1>1. PICK n \in Nat : n = Len(p)
  BY <1>0, SeqIs
<1>2. PICK k \in Nat : k = Len(c)
  BY <1>0, SeqIs DEF InOne
<1>3. c \in Seq(Message) /\ Numbered(c, n)
  BY <1>0, <1>1 DEF InOne
<1>4. k > 0 /\ Head(c) \in Message /\ Head(c).id = n + 1 /\ C \in Seq(Message) /\ Len(C) = k - 1 /\ Numbered(C, n + 1)
  BY <1>2, <1>3, NumberedLess
<1>5. P \in Seq(Nat) /\ Len(P) = n + 1 /\ Counts(P, 0)
  BY <1>0, <1>1, <1>4, NextPrinted
<1> HIDE DEF C, P
<1>6. InOne(s, q, h, C, P)
  <2>1. Len(P) + Len(C) = Len(p) + Len(c)
    BY <1>1, <1>2, <1>4, <1>5
  <2> QED BY <1>0, <1>4, <1>5, <2>1 DEF InOne
<1>7. MsgTypes(s, q, h, P)
  BY <1>0, <1>5 DEF MsgTypes
<1>8. MsgRight(prg, s, q, h, C, P, b)
  BY <1>0, <1>5, <1>6, <1>7 DEF MsgRight, OnItsWay
<1> QED BY <1>0, <1>4, <1>8 DEF C, P

\* or a length and then a text,
LEMMA LengthRead ==
  ASSUME NEW s, NEW q, NEW h, NEW c, NEW p, MsgRight("exercise_1a", s, q, h, c, p, "no"), c # <<>>
  PROVE MsgRight("exercise_1a", s, q, h, Tail(c), p, "text")
<1>0. MsgTypes(s, q, h, p) /\ Counts(p, 0) /\ InTwo(s, q, h, c, p, "no") /\ p \in Seq(Nat) /\ c \in Seq(Message)
  BY DEF MsgRight, OnItsWay, MsgTypes, InTwo
<1>1. PICK l \in Nat : l = Len(p)
  BY <1>0, SeqIs
<1>2. PICK w \in Nat : w = Len(c) /\ DOMAIN c = 1..w
  BY <1>0, SeqIs
<1> DEFINE C == Tail(c)
<1>3. /\ w > 0 /\ C \in Seq(Message) /\ Len(C) = w - 1 /\ DOMAIN C = 1..(w - 1)
      /\ \A k \in 1..(w - 1) : C[k] = c[k + 1]
  BY <1>0, <1>2, TailIs
<1> HIDE DEF C
<1>4. Taken("no") = 0 /\ Taken("text") = 1
  BY DEF Taken
<1>5. ASSUME NEW k \in 1..(w - 1), NEW g \in Nat, k + 1 = 2 * g
      PROVE C[k].id = l + g
  <2>1. k + 1 \in 1..w /\ (k + 1) + 0 = 2 * g
    BY <1>5
  <2>2. c[k + 1].id = l + g
    BY <1>0, <1>1, <1>2, <1>4, <2>1 DEF InTwo
  <2> QED BY <1>3, <2>2
<1>6. PICK n \in Nat :
       \/ h.at = "msgrcv" /\ w + 0 = 2 * n /\ Queued(s, q, l + n)
       \/ /\ h.m.id = l + n + 1 /\ Queued(s, q, l + n + 1)
          /\ \/ h.at = "write" /\ w + 0 = 2 * n
             \/ h.at = "text" /\ w + 0 = 2 * n + 1
  BY <1>0, <1>1, <1>2, <1>4 DEF InTwo
<1>7. InTwo(s, q, h, C, p, "text")
  <2>1. \A k \in DOMAIN C : \A g \in Nat : k + Taken("text") = 2 * g => C[k].id = Len(p) + g
    BY <1>1, <1>3, <1>4, <1>5
  <2>2. Len(C) + Taken("text") = w + 0
    BY <1>3, <1>4
  <2> QED BY <1>1, <1>3, <1>6, <2>1, <2>2 DEF InTwo
<1>8. MsgRight("exercise_1a", s, q, h, C, p, "text")
  BY <1>0, <1>7 DEF MsgRight, OnItsWay
<1> QED BY <1>8 DEF C

\* How main prints and signals a message it was handed.
LEMMA TextRead ==
  ASSUME NEW s, NEW q, NEW h, NEW c, NEW p, MsgRight("exercise_1a", s, q, h, c, p, "text"), c # <<>>
  PROVE Head(c) \in Message /\ MsgRight("exercise_1a", s, q, h, Tail(c), Append(p, Head(c).id), "no")
<1>0. MsgTypes(s, q, h, p) /\ Counts(p, 0) /\ InTwo(s, q, h, c, p, "text") /\ p \in Seq(Nat) /\ c \in Seq(Message)
  BY DEF MsgRight, OnItsWay, MsgTypes, InTwo
<1>1. PICK l \in Nat : l = Len(p)
  BY <1>0, SeqIs
<1>2. PICK w \in Nat : w = Len(c) /\ DOMAIN c = 1..w
  BY <1>0, SeqIs
<1> DEFINE C == Tail(c)
           P == Append(p, Head(c).id)
<1>3. /\ w > 0 /\ C \in Seq(Message) /\ Len(C) = w - 1 /\ DOMAIN C = 1..(w - 1)
      /\ Head(c) = c[1] /\ c[1] \in Message
      /\ \A k \in 1..(w - 1) : C[k] = c[k + 1]
  BY <1>0, <1>2, TailIs
<1>4. Taken("no") = 0 /\ Taken("text") = 1
  BY DEF Taken
<1>5. ASSUME NEW k \in 1..w, NEW g \in Nat, k + 1 = 2 * g
      PROVE c[k].id = l + g
  BY <1>0, <1>1, <1>2, <1>4, <1>5 DEF InTwo
<1>6. Head(c).id = l + 1
  <2>1. 1 \in 1..w /\ 1 + 1 = 2 * 1 /\ 1 \in Nat
    BY <1>3
  <2>2. c[1].id = l + 1
    BY <1>5, <2>1
  <2> QED BY <1>3, <2>2
<1>7. P \in Seq(Nat) /\ Len(P) = l + 1 /\ Counts(P, 0)
  BY <1>0, <1>1, <1>6, NextPrinted
<1> HIDE DEF C, P
<1>8. ASSUME NEW k \in 1..(w - 1), NEW g \in Nat, k + 0 = 2 * g
      PROVE C[k].id = (l + 1) + g
  <2>1. k + 1 \in 1..w /\ g + 1 \in Nat /\ (k + 1) + 1 = 2 * (g + 1)
    BY <1>8
  <2>2. c[k + 1].id = l + (g + 1)
    BY <1>5, <2>1
  <2> QED BY <1>1, <1>3, <2>2
<1>9. PICK n \in Nat :
       \/ h.at = "msgrcv" /\ w + 1 = 2 * n /\ Queued(s, q, l + n)
       \/ /\ h.m.id = l + n + 1 /\ Queued(s, q, l + n + 1)
          /\ \/ h.at = "write" /\ w + 1 = 2 * n
             \/ h.at = "text" /\ w + 1 = 2 * n + 1
  BY <1>0, <1>1, <1>2, <1>4 DEF InTwo
<1>10. PICK g \in Nat : n = g + 1
  <2>1. n > 0
    BY <1>3, <1>9
  <2>2. n - 1 \in Nat /\ n = (n - 1) + 1
    BY <2>1
  <2> QED BY <2>2
<1>11. l + n = (l + 1) + g /\ l + n + 1 = (l + 1) + g + 1
  BY <1>10
<1>12. \/ h.at = "msgrcv" /\ (w - 1) + 0 = 2 * g /\ Queued(s, q, (l + 1) + g)
       \/ /\ h.m.id = (l + 1) + g + 1 /\ Queued(s, q, (l + 1) + g + 1)
          /\ \/ h.at = "write" /\ (w - 1) + 0 = 2 * g
             \/ h.at = "text" /\ (w - 1) + 0 = 2 * g + 1
  BY <1>3, <1>9, <1>10, <1>11
<1>13. InTwo(s, q, h, C, P, "no")
  <2>1. \A k \in DOMAIN C : \A z \in Nat : k + Taken("no") = 2 * z => C[k].id = Len(P) + z
    <3> TAKE k \in DOMAIN C
    <3> TAKE z \in Nat
    <3> HAVE k + Taken("no") = 2 * z
    <3>1. k \in 1..(w - 1) /\ k + 0 = 2 * z
      BY <1>3, <1>4
    <3>2. C[k].id = (l + 1) + z
      BY <1>8, <3>1
    <3> QED BY <1>7, <3>2
  <2> QED BY <1>3, <1>4, <1>7, <1>12, <2>1 DEF InTwo
<1>14. MsgTypes(s, q, h, P)
  BY <1>0, <1>7 DEF MsgTypes
<1>15. MsgRight("exercise_1a", s, q, h, C, P, "no")
  BY <1>7, <1>13, <1>14 DEF MsgRight, OnItsWay
<1> QED BY <1>3, <1>15 DEF C, P

\* or a byte; then it prints the helper's message and wakes the helper.
LEMMA ByteRead ==
  ASSUME NEW s, NEW q, NEW h, NEW c, NEW p, NEW b, MsgRight("pollmsg2", s, q, h, c, p, b), c # <<>>
  PROVE MsgRight("pollmsg2", s, q, h, Tail(c), p, "print")
<1>0. MsgTypes(s, q, h, p) /\ Counts(p, 0) /\ ByHand(s, q, h, c, p, b)
  BY DEF MsgRight, OnItsWay
<1>1. c = <<"a">> /\ h.at \in {"towait", "wait"} /\ h.m.id = Len(p) + 1 /\ Queued(s, q, Len(p) + 1)
  BY <1>0 DEF ByHand
<1>2. Tail(c) = <<>>
  BY <1>1
<1>3. ByHand(s, q, h, <<>>, p, "print")
  BY <1>1 DEF ByHand
<1> QED BY <1>0, <1>2, <1>3 DEF MsgRight, OnItsWay

LEMMA HandPrinted ==
  ASSUME NEW s, NEW q, NEW h, NEW c, NEW p, MsgRight("pollmsg2", s, q, h, c, p, "print")
  PROVE MsgRight("pollmsg2", s, q, h, c, Append(p, h.m.id), "signal")
<1>0. MsgTypes(s, q, h, p) /\ Counts(p, 0) /\ p \in Seq(Nat)
  BY DEF MsgRight, MsgTypes
<1>1. PICK n \in Nat : n = Len(p)
  BY <1>0, SeqIs
<1>2. c = <<>> /\ h.at \in {"towait", "wait"} /\ h.m.id = n + 1 /\ Queued(s, q, n + 1)
  BY <1>1 DEF MsgRight, OnItsWay, ByHand
<1> DEFINE P == Append(p, h.m.id)
<1>3. P \in Seq(Nat) /\ Len(P) = n + 1 /\ Counts(P, 0)
  BY <1>0, <1>1, <1>2, NextPrinted
<1> HIDE DEF P
<1>4. ByHand(s, q, h, c, P, "signal")
  BY <1>2, <1>3 DEF ByHand
<1>5. MsgTypes(s, q, h, P)
  BY <1>0, <1>3 DEF MsgTypes
<1>6. MsgRight("pollmsg2", s, q, h, c, P, "signal")
  BY <1>3, <1>4, <1>5 DEF MsgRight, OnItsWay
<1> QED BY <1>6 DEF P

LEMMA HandSignalled ==
  ASSUME NEW s, NEW q, NEW h, NEW c, NEW p, MsgRight("pollmsg2", s, q, h, c, p, "signal"), h.at # "towait"
  PROVE h.at = "wait" /\ MsgRight("pollmsg2", s, q, [h EXCEPT !.at = "msgrcv"], c, p, "no")
<1>0. MsgTypes(s, q, h, p) /\ Counts(p, 0)
  BY DEF MsgRight
<1>1. c = <<>> /\ h.at = "wait" /\ Queued(s, q, Len(p))
  BY DEF MsgRight, OnItsWay, ByHand
<1> DEFINE H == [h EXCEPT !.at = "msgrcv"]
<1>2. H.at = "msgrcv" /\ H.m = h.m /\ H = [at |-> H.at, m |-> H.m]
  BY <1>0 DEF MsgTypes
<1> HIDE DEF H
<1>3. ByHand(s, q, H, c, p, "no")
  BY <1>1, <1>2 DEF ByHand
<1>4. MsgTypes(s, q, H, p)
  BY <1>0, <1>2 DEF MsgTypes
<1>5. MsgRight("pollmsg2", s, q, H, c, p, "no")
  BY <1>0, <1>3, <1>4 DEF MsgRight, OnItsWay
<1> QED BY <1>1, <1>5 DEF H

\* What main is doing with queue j.
Business(j) == IF v6.i = j /\ v6.at \in {"text", "print", "signal"} THEN v6.at ELSE "no"
QueueRight(j) == MsgRight(v1, v2[j], v3[j], v4[j], v5[j], v7[j], Business(j))

MainRight ==
  /\ v6 = [at |-> v6.at, revents |-> v6.revents, i |-> v6.i]
  /\ v6.i \in Msgs!Queues /\ v6.at \in {"poll", "scan", "text", "print", "signal"}
MsgsRight ==
  /\ DOMAIN v2 = Msgs!Queues /\ DOMAIN v3 = Msgs!Queues /\ DOMAIN v4 = Msgs!Queues
  /\ DOMAIN v5 = Msgs!Queues /\ DOMAIN v7 = Msgs!Queues
  /\ MainRight
  /\ \A j \in Msgs!Queues : QueueRight(j)

\* A wait that returns by itself ends the order, and only pollmsg2 has one.
MsgsInv ==
  /\ v1 \in {"pollmsg", "figure_17_3", "exercise_1a", "exercise_1b", "pollmsg2"}
  /\ v9 \in Nat
  /\ v1 # "pollmsg2" => v9 = 0
  /\ v9 = 0 => MsgsRight

\* A queue nothing happens to.
LEMMA QueueStays ==
  ASSUME NEW j, QueueRight(j), v1' = v1, v2'[j] = v2[j], v3'[j] = v3[j], v4'[j] = v4[j], v5'[j] = v5[j],
         v7'[j] = v7[j], Business(j)' = Business(j)
  PROVE QueueRight(j)'
BY DEF QueueRight

\* Nothing main does.
LEMMA BusinessStays ==
  ASSUME v6' = v6
  PROVE /\ MainRight => MainRight'
        /\ \A j : Business(j)' = Business(j)
BY DEF Business, MainRight

\* Main goes on to the next queue, or to poll.
LEMMA MainGoesOn ==
  ASSUME MainRight, v6' = Msgs!NextQueue
  PROVE /\ MainRight' /\ \A j : Business(j)' = "no"
        /\ \A j \in Msgs!Queues : j # v6.i => Business(j) = "no"
<1>0. NQ \in Nat /\ v6.i \in 1..NQ
  BY ProgramsAssumption DEF Msgs!PollMsgAssumption, MainRight, Msgs!Queues
<1>1. CASE v6.i = NQ
  <2>1. v6'.at = "poll" /\ v6'.i = 1 /\ v6' = [at |-> v6'.at, revents |-> v6'.revents, i |-> v6'.i]
    BY <1>1 DEF MainRight, Msgs!NextQueue
  <2>2. 1 \in Msgs!Queues
    BY <1>0 DEF Msgs!Queues
  <2> QED BY <2>1, <2>2 DEF MainRight, Business
<1>2. CASE v6.i # NQ
  <2>1. v6'.at = "scan" /\ v6'.i = v6.i + 1 /\ v6' = [at |-> v6'.at, revents |-> v6'.revents, i |-> v6'.i]
    BY <1>2 DEF MainRight, Msgs!NextQueue
  <2>2. v6.i + 1 \in Msgs!Queues
    BY <1>0, <1>2 DEF Msgs!Queues
  <2> QED BY <2>1, <2>2 DEF MainRight, Business
<1> QED BY <1>1, <1>2

\* The steps of the senders and the helpers.
LEMMA SendKept ==
  ASSUME MsgsRight, NEW i \in Msgs!Queues, NEW n \in {0, MAXMSZ}, Msgs!sendmsg(i, n)
  PROVE MsgsRight' /\ v1' = v1 /\ v9' = v9
<1>1. Msgs!nbytes(n) \in 0..(MAXMSZ - 1)
  BY ProgramsAssumption DEF Msgs!PollMsgAssumption, Msgs!nbytes
<1>2. PICK x \in 0..(MAXMSZ - 1) : x = Msgs!nbytes(n)
  BY <1>1
<1>3. /\ v2' = [v2 EXCEPT ![i] = Append(v2[i], x)]
      /\ v3' = [v3 EXCEPT ![i] = Append(v3[i], [id |-> Len(v2[i]) + 1, len |-> x])]
      /\ v1' = v1 /\ v4' = v4 /\ v5' = v5 /\ v6' = v6 /\ v7' = v7 /\ v9' = v9
  BY <1>2 DEF Msgs!sendmsg
<1>4. v2'[i] = Append(v2[i], x) /\ v3'[i] = Append(v3[i], [id |-> Len(v2[i]) + 1, len |-> x])
  BY <1>3 DEF MsgsRight
<1>5. QueueRight(i)'
  <2>1. Business(i)' = Business(i)
    BY <1>3, BusinessStays
  <2>2. MsgRight(v1, v2[i], v3[i], v4[i], v5[i], v7[i], Business(i))
    BY DEF MsgsRight, QueueRight
  <2>3. MsgRight(v1, Append(v2[i], x), Append(v3[i], [id |-> Len(v2[i]) + 1, len |-> x]), v4[i], v5[i], v7[i], Business(i))
    BY <2>2, MsgSent
  <2> QED BY <1>3, <1>4, <2>1, <2>3 DEF QueueRight
<1>6. ASSUME NEW j \in Msgs!Queues, j # i PROVE QueueRight(j)'
  <2>1. v2'[j] = v2[j] /\ v3'[j] = v3[j] /\ QueueRight(j)
    BY <1>3, <1>6 DEF MsgsRight
  <2> QED BY <1>3, <2>1, BusinessStays, QueueStays
<1>7. DOMAIN v2' = Msgs!Queues /\ DOMAIN v3' = Msgs!Queues
  BY <1>3 DEF MsgsRight
<1> QED BY <1>3, <1>5, <1>6, <1>7, BusinessStays DEF MsgsRight

\* The steps of the helper of queue i, by where it is.
LEMMA ReceiveKept ==
  ASSUME MsgsRight, NEW i \in Msgs!Queues, Msgs!msgrcv(i)
  PROVE MsgsRight' /\ v1' = v1 /\ v9' = v9
<1>3. /\ v4[i].at = "msgrcv" /\ v3[i] # <<>>
      /\ v4' = [v4 EXCEPT ![i] = [at |-> "write", m |-> Head(v3[i])]]
      /\ v3' = [v3 EXCEPT ![i] = Tail(v3[i])]
      /\ v1' = v1 /\ v2' = v2 /\ v5' = v5 /\ v6' = v6 /\ v7' = v7 /\ v9' = v9
  BY DEF Msgs!msgrcv
<1>4. v3'[i] = Tail(v3[i]) /\ v4'[i] = [at |-> "write", m |-> Head(v3[i])]
  BY <1>3 DEF MsgsRight
<1>5. QueueRight(i)'
  <2>1. Business(i)' = Business(i)
    BY <1>3, BusinessStays
  <2>2. MsgRight(v1, v2[i], v3[i], v4[i], v5[i], v7[i], Business(i))
    BY DEF MsgsRight, QueueRight
  <2>3. MsgRight(v1, v2[i], Tail(v3[i]), [at |-> "write", m |-> Head(v3[i])], v5[i], v7[i], Business(i))
    BY <1>3, <2>2, MsgReceived
  <2> QED BY <1>3, <1>4, <2>1, <2>3 DEF QueueRight
<1>6. ASSUME NEW j \in Msgs!Queues, j # i PROVE QueueRight(j)'
  <2>1. v3'[j] = v3[j] /\ v4'[j] = v4[j] /\ QueueRight(j)
    BY <1>3, <1>6 DEF MsgsRight
  <2> QED BY <1>3, <2>1, BusinessStays, QueueStays
<1>7. DOMAIN v3' = Msgs!Queues /\ DOMAIN v4' = Msgs!Queues
  BY <1>3 DEF MsgsRight
<1> QED BY <1>3, <1>5, <1>6, <1>7, BusinessStays DEF MsgsRight

LEMMA WriteKept ==
  ASSUME MsgsInv, MsgsRight, NEW i \in Msgs!Queues, Msgs!write(i)
  PROVE MsgsRight' /\ v1' = v1 /\ v9' = v9
<1>0. MsgRight(v1, v2[i], v3[i], v4[i], v5[i], v7[i], Business(i)) /\ v4[i].m \in Message
  BY DEF MsgsRight, QueueRight, MsgRight, MsgTypes
<1>1. /\ v4[i].at \in {"write", "text"}
      /\ v1' = v1 /\ v2' = v2 /\ v3' = v3 /\ v6' = v6 /\ v7' = v7 /\ v9' = v9
      /\ DOMAIN v4' = Msgs!Queues /\ DOMAIN v5' = Msgs!Queues
      /\ \A j \in Msgs!Queues : j # i => v4'[j] = v4[j] /\ v5'[j] = v5[j]
  BY DEF Msgs!write, MsgsRight
<1> DEFINE w == Msgs!Pass(v4[i].m)
           k == IF v4[i].at = "text" THEN 2 ELSE 1
           l == CASE k < Len(w) -> "text" [] v1 = "pollmsg2" -> "towait" [] OTHER -> "msgrcv"
<1>4. v5' = [v5 EXCEPT ![i] = Append(v5[i], w[k])] /\ v4' = [v4 EXCEPT ![i].at = l]
  BY DEF Msgs!write
<1>5. v5'[i] = Append(v5[i], w[k]) /\ v4'[i] = [v4[i] EXCEPT !.at = l]
  BY <1>4 DEF MsgsRight
<1>6. /\ v1 \in {"pollmsg", "figure_17_3", "exercise_1b"} => w = <<v4[i].m>>
      /\ v1 = "exercise_1a" => w = <<[v4[i].m EXCEPT !.id = 0], v4[i].m>>
      /\ v1 = "pollmsg2" => w = <<"a">>
  BY DEF Msgs!Pass, Msgs!pollmsg, Msgs!figure_17_3, Msgs!exercise_1a, Msgs!exercise_1b, Msgs!pollmsg2
<1> HIDE DEF w
<1>2. QueueRight(i)'
  <2>0. Business(i)' = Business(i)
    BY <1>1, BusinessStays
  <2>1. CASE v1 \in {"pollmsg", "figure_17_3", "exercise_1b"}
    <3>1. v4[i].at = "write" /\ MsgRight(v1, v2[i], v3[i], [v4[i] EXCEPT !.at = "msgrcv"], Append(v5[i], v4[i].m), v7[i], Business(i))
      BY <1>0, <1>1, <2>1, MsgPassed
    <3>2. w[1] = v4[i].m /\ Len(w) = 1
      BY <1>6, <2>1
    <3>3. k = 1 /\ l = "msgrcv"
      BY <2>1, <3>1, <3>2
    <3> QED BY <1>1, <1>5, <2>0, <3>1, <3>2, <3>3 DEF QueueRight
  <2>2. CASE v1 = "exercise_1a"
    <3>1. w[1] = [v4[i].m EXCEPT !.id = 0] /\ w[2] = v4[i].m /\ Len(w) = 2
      BY <1>6, <2>2
    <3>2. PICK x \in Message : x = w[k] /\ (v4[i].at = "text" => x = v4[i].m)
      <4>1. [v4[i].m EXCEPT !.id = 0] \in Message
        BY <1>0 DEF Message
      <4> QED BY <1>0, <1>1, <3>1, <4>1
    <3>3. MsgRight("exercise_1a", v2[i], v3[i], [v4[i] EXCEPT !.at = IF v4[i].at = "write" THEN "text" ELSE "msgrcv"],
                   Append(v5[i], x), v7[i], Business(i))
      BY <1>0, <1>1, <2>2, <3>2, LengthPassed
    <3>4. l = (IF v4[i].at = "write" THEN "text" ELSE "msgrcv")
      BY <1>1, <2>2, <3>1
    <3> HIDE DEF k, l
    <3> QED BY <1>1, <1>5, <2>0, <2>2, <3>2, <3>3, <3>4 DEF QueueRight
  <2>3. CASE v1 = "pollmsg2"
    <3>1. v4[i].at = "write" /\ MsgRight("pollmsg2", v2[i], v3[i], [v4[i] EXCEPT !.at = "towait"], Append(v5[i], "a"), v7[i], Business(i))
      BY <1>0, <1>1, <2>3, BytePassed
    <3>2. w[1] = "a" /\ Len(w) = 1
      BY <1>6, <2>3
    <3>3. k = 1 /\ l = "towait"
      BY <2>3, <3>1, <3>2
    <3> QED BY <1>1, <1>5, <2>0, <2>3, <3>1, <3>2, <3>3 DEF QueueRight
  <2> QED BY <2>1, <2>2, <2>3 DEF MsgsInv
<1>3. ASSUME NEW j \in Msgs!Queues, j # i PROVE QueueRight(j)'
  <2>1. v5'[j] = v5[j] /\ v4'[j] = v4[j] /\ QueueRight(j)
    BY <1>1, <1>3 DEF MsgsRight
  <2> QED BY <1>1, <2>1, BusinessStays, QueueStays
<1> QED BY <1>1, <1>2, <1>3, BusinessStays DEF MsgsRight

LEMMA WaitKept ==
  ASSUME MsgsInv, MsgsRight, NEW i \in Msgs!Queues, Msgs!cond_wait(i)
  PROVE MsgsRight' /\ v1' = v1 /\ v9' = v9
<1>0. MsgRight(v1, v2[i], v3[i], v4[i], v5[i], v7[i], Business(i))
  BY DEF MsgsRight, QueueRight
<1>1. /\ v4[i].at = "towait" /\ v4' = [v4 EXCEPT ![i].at = "wait"]
      /\ v1' = v1 /\ v2' = v2 /\ v3' = v3 /\ v5' = v5 /\ v6' = v6 /\ v7' = v7 /\ v9' = v9
  BY DEF Msgs!cond_wait
<1>2. v1 = "pollmsg2"
  BY <1>0, <1>1 DEF MsgsInv, MsgRight, OnItsWay, InOne, InTwo
<1>3. v4'[i] = [v4[i] EXCEPT !.at = "wait"]
  BY <1>1 DEF MsgsRight
<1>4. QueueRight(i)'
  <2>1. MsgRight("pollmsg2", v2[i], v3[i], [v4[i] EXCEPT !.at = "wait"], v5[i], v7[i], Business(i))
    BY <1>0, <1>1, <1>2, HelperWaits
  <2> QED BY <1>1, <1>2, <1>3, <2>1, BusinessStays DEF QueueRight
<1>5. ASSUME NEW j \in Msgs!Queues, j # i PROVE QueueRight(j)'
  <2>1. v4'[j] = v4[j] /\ QueueRight(j)
    BY <1>1, <1>5 DEF MsgsRight
  <2> QED BY <1>1, <2>1, BusinessStays, QueueStays
<1>6. DOMAIN v4' = Msgs!Queues
  BY <1>1 DEF MsgsRight
<1> QED BY <1>1, <1>4, <1>5, <1>6, BusinessStays DEF MsgsRight

\* The steps of main.
LEMMA PollKept ==
  ASSUME MsgsInv, MsgsRight, Msgs!poll \/ Msgs!Skip
  PROVE MsgsRight' /\ v1' = v1 /\ v9' = v9
<1>1. v1' = v1 /\ v2' = v2 /\ v3' = v3 /\ v4' = v4 /\ v5' = v5 /\ v7' = v7 /\ v9' = v9
  BY DEF Msgs!poll, Msgs!Skip
<1>2. \A j : Business(j) = "no"
  BY DEF Msgs!poll, Msgs!Skip, Business
<1>3. MainRight' /\ \A j : Business(j)' = "no"
  <2>1. CASE Msgs!poll
    <3>1. v6'.at = "scan" /\ v6'.i = 1 /\ v6' = [at |-> v6'.at, revents |-> v6'.revents, i |-> v6'.i]
      BY <2>1 DEF Msgs!poll
    <3>2. 1 \in Msgs!Queues
      BY ProgramsAssumption DEF Msgs!PollMsgAssumption, Msgs!Queues
    <3> QED BY <3>1, <3>2 DEF MainRight, Business
  <2>2. CASE Msgs!Skip
    <3>1. v6' = Msgs!NextQueue
      BY <2>2 DEF Msgs!Skip
    <3> QED BY <3>1, MainGoesOn DEF MsgsRight
  <2> QED BY <2>1, <2>2
<1>4. ASSUME NEW j \in Msgs!Queues PROVE QueueRight(j)'
  <2>1. QueueRight(j)
    BY DEF MsgsRight
  <2> QED BY <1>1, <1>2, <1>3, <2>1, QueueStays
<1> QED BY <1>1, <1>3, <1>4 DEF MsgsRight

LEMMA ReadKept ==
  ASSUME MsgsInv, MsgsRight, Msgs!read
  PROVE MsgsRight' /\ v1' = v1 /\ v9' = v9
<1>9. PICK i \in Msgs!Queues : i = v6.i
  BY DEF MsgsRight, MainRight
<1>0. /\ i = v6.i /\ MsgRight(v1, v2[i], v3[i], v4[i], v5[i], v7[i], Business(i))
      /\ v5[i] # <<>> /\ v6.at \in {"scan", "text"} /\ MAXMSZ \in Nat \ {0}
      /\ MainRight
  BY <1>9, ProgramsAssumption DEF MsgsRight, MainRight, QueueRight, Msgs!read, Msgs!PollMsgAssumption, MsgsInv
<1>1. /\ v1' = v1 /\ v2' = v2 /\ v3' = v3 /\ v4' = v4 /\ v9' = v9
      /\ v5' = [v5 EXCEPT ![i] = Tail(v5[i])]
  BY <1>0, <1>0 DEF Msgs!read
<1>2. v5'[i] = Tail(v5[i]) /\ DOMAIN v5' = Msgs!Queues /\ \A j \in Msgs!Queues : j # i => v5'[j] = v5[j]
  BY <1>0, <1>1 DEF MsgsRight
\* What has to be shown.
<1>3. ASSUME MainRight', DOMAIN v7' = Msgs!Queues,
             \A j \in Msgs!Queues : j # i => v7'[j] = v7[j] /\ Business(j)' = "no",
             MsgRight(v1, v2[i], v3[i], v4[i], Tail(v5[i]), v7'[i], Business(i)')
      PROVE MsgsRight' /\ v1' = v1 /\ v9' = v9
  <2>1. ASSUME NEW j \in Msgs!Queues, j # i PROVE QueueRight(j)'
    <3>1. QueueRight(j) /\ Business(j) = "no"
      BY <1>0, <2>1 DEF MsgsRight, Business
    <3> QED BY <1>1, <1>2, <1>3, <2>1, <3>1, QueueStays
  <2>2. QueueRight(i)'
    BY <1>1, <1>2, <1>3 DEF QueueRight
  <2>3. \A j \in Msgs!Queues : QueueRight(j)'
    BY <2>1, <2>2
  <2> QED BY <1>1, <1>2, <1>3, <2>3 DEF MsgsRight
<1>4. CASE v1 = "exercise_1a" /\ v6.at = "scan"
  <2>1. v6' = [v6 EXCEPT !.at = "text"] /\ v7' = v7
    BY <1>0, <1>4 DEF Msgs!read
  <2>2. v6'.at = "text" /\ v6'.i = i /\ v6' = [at |-> v6'.at, revents |-> v6'.revents, i |-> v6'.i]
    BY <1>0, <2>1 DEF MainRight
  <2>3. MainRight' /\ Business(i)' = "text" /\ \A j \in Msgs!Queues : j # i => Business(j)' = "no"
    BY <1>0, <2>2 DEF MainRight, Business
  <2>4. Business(i) = "no"
    BY <1>4 DEF Business
  <2>5. MsgRight(v1, v2[i], v3[i], v4[i], Tail(v5[i]), v7[i], "text")
    BY <1>0, <1>4, <2>4, LengthRead
  <2> QED BY <1>3, <2>1, <2>3, <2>5 DEF MsgsRight
<1>5. CASE v1 = "pollmsg2"
  <2>1. v6' = [v6 EXCEPT !.at = "print"] /\ v7' = v7
    BY <1>0, <1>5 DEF Msgs!read
  <2>2. v6'.at = "print" /\ v6'.i = i /\ v6' = [at |-> v6'.at, revents |-> v6'.revents, i |-> v6'.i]
    BY <1>0, <2>1 DEF MainRight
  <2>3. MainRight' /\ Business(i)' = "print" /\ \A j \in Msgs!Queues : j # i => Business(j)' = "no"
    BY <1>0, <2>2 DEF MainRight, Business
  <2>5. MsgRight(v1, v2[i], v3[i], v4[i], Tail(v5[i]), v7[i], "print")
    BY <1>0, <1>5, ByteRead
  <2> QED BY <1>3, <2>1, <2>3, <2>5 DEF MsgsRight
<1>6. CASE v1 # "pollmsg2" /\ (v1 = "exercise_1a" => v6.at = "text")
  <2>1. /\ v7' = [v7 EXCEPT ![i] = Append(v7[i], Head(v5[i]).id)]
        /\ v6' = Msgs!NextQueue
    BY <1>0, <1>6 DEF Msgs!read
  <2>2. /\ v7'[i] = Append(v7[i], Head(v5[i]).id) /\ DOMAIN v7' = Msgs!Queues
        /\ \A j \in Msgs!Queues : j # i => v7'[j] = v7[j]
    BY <1>0, <2>1 DEF MsgsRight
  <2>3. MainRight' /\ \A j : Business(j)' = "no"
    BY <1>0, <2>1, MainGoesOn
  <2>4. Head(v5[i]) \in Message /\ MsgRight(v1, v2[i], v3[i], v4[i], Tail(v5[i]), v7'[i], "no")
    <3>1. CASE v1 = "exercise_1a"
      <4>1. Business(i) = "text"
        BY <1>0, <1>6, <3>1 DEF Business
      <4> QED BY <1>0, <2>2, <3>1, <4>1, TextRead
    <3>2. CASE v1 # "exercise_1a"
      <4>1. v1 \in {"pollmsg", "figure_17_3", "exercise_1b"}
        BY <1>6, <3>2 DEF MsgsInv
      <4> QED BY <1>0, <2>2, <4>1, MsgRead
    <3> QED BY <3>1, <3>2
  <2> QED BY <1>3, <2>2, <2>3, <2>4
<1> QED BY <1>0, <1>4, <1>5, <1>6

LEMMA PutKept ==
  ASSUME MsgsInv, MsgsRight, Msgs!Put
  PROVE MsgsRight' /\ v1' = v1 /\ v9' = v9
<1>9. PICK i \in Msgs!Queues : i = v6.i
  BY DEF MsgsRight, MainRight
<1>0. /\ i = v6.i /\ MsgRight(v1, v2[i], v3[i], v4[i], v5[i], v7[i], "print")
      /\ MainRight
  BY <1>9 DEF MsgsRight, MainRight, QueueRight, Msgs!Put, Business
<1>1. /\ v1' = v1 /\ v2' = v2 /\ v3' = v3 /\ v4' = v4 /\ v5' = v5 /\ v9' = v9
      /\ v7' = [v7 EXCEPT ![i] = Append(v7[i], v4[i].m.id)]
      /\ v6' = [v6 EXCEPT !.at = "signal"]
  BY <1>0, <1>0 DEF Msgs!Put
<1>2. v1 = "pollmsg2"
  BY <1>0 DEF MsgsInv, MsgRight, OnItsWay, InTwo
<1>3. /\ v7'[i] = Append(v7[i], v4[i].m.id) /\ DOMAIN v7' = Msgs!Queues
      /\ \A j \in Msgs!Queues : j # i => v7'[j] = v7[j]
  BY <1>0, <1>1 DEF MsgsRight
<1>4. v6'.at = "signal" /\ v6'.i = i /\ v6' = [at |-> v6'.at, revents |-> v6'.revents, i |-> v6'.i]
  BY <1>0, <1>1 DEF MainRight
<1>5. MainRight' /\ Business(i)' = "signal" /\ \A j \in Msgs!Queues : j # i => Business(j)' = "no" /\ Business(j) = "no"
  BY <1>0, <1>4 DEF MainRight, Business
<1>6. QueueRight(i)'
  <2>1. MsgRight(v1, v2[i], v3[i], v4[i], v5[i], v7'[i], "signal")
    BY <1>0, <1>2, <1>3, HandPrinted
  <2> QED BY <1>1, <1>5, <2>1 DEF QueueRight
<1>7. ASSUME NEW j \in Msgs!Queues, j # i PROVE QueueRight(j)'
  <2>1. QueueRight(j)
    BY DEF MsgsRight
  <2> QED BY <1>1, <1>3, <1>5, <1>7, <2>1, QueueStays
<1> QED BY <1>1, <1>3, <1>5, <1>6, <1>7 DEF MsgsRight

LEMMA SignalKept ==
  ASSUME MsgsInv, MsgsRight, Msgs!cond_signal
  PROVE MsgsRight' /\ v1' = v1 /\ v9' = v9
<1>9. PICK i \in Msgs!Queues : i = v6.i
  BY DEF MsgsRight, MainRight
<1>0. /\ i = v6.i /\ MsgRight(v1, v2[i], v3[i], v4[i], v5[i], v7[i], "signal")
      /\ MainRight /\ v4[i].at # "towait"
  BY <1>9 DEF MsgsRight, MainRight, QueueRight, Msgs!cond_signal, Business
<1>1. v1 = "pollmsg2"
  BY <1>0 DEF MsgsInv, MsgRight, OnItsWay, InTwo
<1>2. v4[i].at = "wait" /\ MsgRight(v1, v2[i], v3[i], [v4[i] EXCEPT !.at = "msgrcv"], v5[i], v7[i], "no")
  BY <1>0, <1>1, HandSignalled
<1>3. /\ v1' = v1 /\ v2' = v2 /\ v3' = v3 /\ v5' = v5 /\ v7' = v7 /\ v9' = v9
      /\ v4' = [v4 EXCEPT ![i].at = "msgrcv"]
      /\ v6' = Msgs!NextQueue
  BY <1>0, <1>2 DEF Msgs!cond_signal
<1>4. /\ v4'[i] = [v4[i] EXCEPT !.at = "msgrcv"] /\ DOMAIN v4' = Msgs!Queues
      /\ \A j \in Msgs!Queues : j # i => v4'[j] = v4[j]
  BY <1>0, <1>3 DEF MsgsRight
<1>5. MainRight' /\ (\A j : Business(j)' = "no") /\ \A j \in Msgs!Queues : j # i => Business(j) = "no"
  BY <1>0, <1>3, MainGoesOn
<1>6. QueueRight(i)'
  BY <1>2, <1>3, <1>4, <1>5 DEF QueueRight
<1>7. ASSUME NEW j \in Msgs!Queues, j # i PROVE QueueRight(j)'
  <2>1. QueueRight(j)
    BY DEF MsgsRight
  <2> QED BY <1>3, <1>4, <1>5, <1>7, <2>1, QueueStays
<1> QED BY <1>3, <1>4, <1>5, <1>6, <1>7 DEF MsgsRight

\* A step of pollmsg or one of its variants.
LEMMA MsgsKept ==
  ASSUME MsgsInv, Msgs!Next
  PROVE MsgsInv'
<1>1. CASE \E i \in Msgs!Queues : Msgs!Spurious(i)
  <2>1. PICK i \in Msgs!Queues : Msgs!Spurious(i)
    BY <1>1
  <2>2. v1' = v1 /\ v9' = v9 + 1 /\ v4[i].at = "wait"
    BY <2>1 DEF Msgs!Spurious
  <2>3. v1 = "pollmsg2"
    <3>1. CASE v9 = 0
      <4>1. MsgRight(v1, v2[i], v3[i], v4[i], v5[i], v7[i], Business(i))
        BY <3>1 DEF MsgsInv, MsgsRight, QueueRight
      <4> QED BY <2>2, <4>1 DEF MsgsInv, MsgRight, OnItsWay, InOne, InTwo
    <3>2. CASE v9 # 0
      BY <3>2 DEF MsgsInv
    <3> QED BY <3>1, <3>2
  <2> QED BY <2>2, <2>3 DEF MsgsInv
<1>2. CASE v9 = 0 /\ ~\E i \in Msgs!Queues : Msgs!Spurious(i)
  <2>1. MsgsRight
    BY <1>2 DEF MsgsInv
  <2>2. MsgsRight' /\ v1' = v1 /\ v9' = v9
    BY <1>2, <2>1, SendKept, ReceiveKept, WriteKept, WaitKept, PollKept, ReadKept, PutKept, SignalKept
      DEF Msgs!Next, Msgs!Main, Msgs!Helper
  <2> QED BY <2>2 DEF MsgsInv
<1>3. CASE v9 # 0 /\ ~\E i \in Msgs!Queues : Msgs!Spurious(i)
  <2>1. v1 = "pollmsg2"
    BY <1>3 DEF MsgsInv
  <2>2. v1' = v1 /\ v9' = v9
    BY <1>3, <2>1 DEF Msgs!Next, Msgs!Main, Msgs!Helper, Msgs!sendmsg, Msgs!msgrcv, Msgs!write, Msgs!cond_wait,
      Msgs!poll, Msgs!Skip, Msgs!read, Msgs!Put, Msgs!cond_signal
  <2> QED BY <1>3, <2>1, <2>2 DEF MsgsInv
<1> QED BY <1>1, <1>2, <1>3

\* No message has been sent.
LEMMA MsgsStart ==
  ASSUME Msgs!Init
  PROVE MsgsInv
<1>1. /\ v1 \in {"pollmsg", "figure_17_3", "exercise_1a", "exercise_1b", "pollmsg2"}
      /\ v6 = [at |-> "poll", revents |-> {}, i |-> 1] /\ v9 = 0
      /\ v2 = [i \in Msgs!Queues |-> <<>>] /\ v3 = [i \in Msgs!Queues |-> <<>>]
      /\ v4 = [i \in Msgs!Queues |-> [at |-> "msgrcv", m |-> Msgs!NoMsg]]
      /\ v5 = [i \in Msgs!Queues |-> <<>>] /\ v7 = [i \in Msgs!Queues |-> <<>>]
  BY DEF Msgs!Init
<1>2. MAXMSZ \in Nat \ {0} /\ 1 \in Msgs!Queues
  BY ProgramsAssumption DEF Msgs!PollMsgAssumption, Msgs!Queues
<1>3. MainRight /\ \A j : Business(j) = "no"
  BY <1>1, <1>2 DEF MainRight, Business
<1>4. ASSUME NEW j \in Msgs!Queues PROVE QueueRight(j)
  <2>1. v2[j] = <<>> /\ v3[j] = <<>> /\ v5[j] = <<>> /\ v7[j] = <<>> /\ v4[j] = [at |-> "msgrcv", m |-> Msgs!NoMsg]
    BY <1>1
  <2>2. Msgs!NoMsg \in Message
    BY <1>2 DEF Msgs!NoMsg, Message
  <2>3. <<>> \in Seq(Nat) /\ <<>> \in Seq(Message) /\ Len(<<>>) = 0 /\ DOMAIN <<>> = {}
    OBVIOUS
  <2>4. Counts(<<>>, 0) /\ Numbered(<<>>, 0) /\ Queued(<<>>, <<>>, 0)
    BY <2>3 DEF Counts, Numbered, Queued
  <2>5. v4[j].at = "msgrcv" /\ v4[j].m = Msgs!NoMsg /\ v4[j] = [at |-> v4[j].at, m |-> v4[j].m]
    BY <2>1
  <2>6. MsgTypes(<<>>, <<>>, v4[j], <<>>)
    BY <2>2, <2>3, <2>5 DEF MsgTypes
  <2>7. InOne(<<>>, <<>>, v4[j], <<>>, <<>>)
    BY <2>3, <2>4, <2>5 DEF InOne
  <2>8. ByHand(<<>>, <<>>, v4[j], <<>>, <<>>, "no")
    BY <2>3, <2>4, <2>5 DEF ByHand
  <2>9. InTwo(<<>>, <<>>, v4[j], <<>>, <<>>, "no")
    <3>1. 0 \in Nat /\ Len(<<>>) + Taken("no") = 2 * 0 /\ Queued(<<>>, <<>>, Len(<<>>) + 0)
      BY <2>3, <2>4 DEF Taken
    <3> QED BY <2>3, <2>5, <3>1 DEF InTwo
  <2> QED BY <1>3, <2>1, <2>4, <2>6, <2>7, <2>8, <2>9 DEF QueueRight, MsgRight, OnItsWay
<1>5. MsgsRight
  BY <1>1, <1>3, <1>4 DEF MsgsRight
<1> QED BY <1>1, <1>5 DEF MsgsInv

LEMMA MsgsStill ==
  ASSUME MsgsInv, UNCHANGED vars
  PROVE MsgsInv'
<1>1. v1' = v1 /\ v2' = v2 /\ v3' = v3 /\ v4' = v4 /\ v5' = v5 /\ v6' = v6 /\ v7' = v7 /\ v9' = v9
  BY DEF vars
<1> QED BY <1>1 DEF MsgsInv, MsgsRight, MainRight, QueueRight, Business

\* The messages that can be on their way when s was sent: none or a length (id 0), or
\* one of those sent, with its length.
MsgLengths == 0..(MAXMSZ - 1)
SentOf(s) == {m \in Message : m.id # 0 => m.id \in DOMAIN s /\ m.len = s[m.id]}

\* A text of n characters printed for message id.
TextRight(prg, s, id, n) ==
  /\ n \in Nat /\ (prg # "exercise_1b" => n < MAXMSZ)
  /\ id # 0 => /\ id \in DOMAIN s
               /\ IF prg # "exercise_1b" THEN n = s[id] ELSE n >= s[id]

\* What queue, helper and descriptor hold, and what was printed (p) with what texts
\* (t), whether or not a wait has returned by itself.
Texts(prg, s, q, h, c, p, t) ==
  /\ s \in Seq(MsgLengths) /\ q \in Seq(SentOf(s))
  /\ h.m \in SentOf(s) /\ h = [at |-> h.at, m |-> h.m] /\ (h.at = "text" => prg = "exercise_1a")
  /\ prg # "pollmsg2" => c \in Seq(SentOf(s))
  /\ p \in Seq(Nat) /\ t \in Seq(Nat) /\ Len(t) = Len(p)
  /\ \A k \in DOMAIN p : TextRight(prg, s, p[k], t[k])

TextsAt(j) == Texts(v1, v2[j], v3[j], v4[j], v5[j], v7[j], v8[j])
TextsInv ==
  /\ DOMAIN v2 = Msgs!Queues /\ DOMAIN v3 = Msgs!Queues /\ DOMAIN v4 = Msgs!Queues
  /\ DOMAIN v5 = Msgs!Queues /\ DOMAIN v7 = Msgs!Queues /\ DOMAIN v8 = Msgs!Queues
  /\ MainRight
  /\ \A j \in Msgs!Queues : TextsAt(j)

LEMMA SeqOfMore ==
  ASSUME NEW A, NEW B, A \subseteq B, NEW z \in Seq(A)
  PROVE z \in Seq(B)
<1>1. PICK n \in Nat : n = Len(z) /\ DOMAIN z = 1..n /\ z \in [1..n -> A]
  OBVIOUS
<1>2. z \in [1..n -> B]
  BY <1>1
<1> QED BY <1>1, <1>2

\* One more message sent changes nothing about the earlier ones,
LEMMA TextsSent ==
  ASSUME NEW prg, NEW s, NEW q, NEW h, NEW c, NEW p, NEW t, Texts(prg, s, q, h, c, p, t),
         NEW x \in MsgLengths
  PROVE Texts(prg, Append(s, x), Append(q, [id |-> Len(s) + 1, len |-> x]), h, c, p, t)
<1> DEFINE S == Append(s, x)
           m == [id |-> Len(s) + 1, len |-> x]
<1>0. s \in Seq(MsgLengths)
  BY DEF Texts
<1>1. PICK n \in Nat : n = Len(s) /\ DOMAIN s = 1..n
  BY <1>0, SeqIs
<1>2. /\ S \in Seq(MsgLengths) /\ DOMAIN S = 1..(n + 1) /\ S[n + 1] = x
      /\ \A k \in 1..n : S[k] = s[k]
  BY <1>0, <1>1, AppendedIs
<1>3. m.id = n + 1 /\ m.len = x /\ m \in Message
  BY <1>1 DEF Message, MsgLengths
<1> HIDE DEF S, m
<1>4. m \in SentOf(S)
  BY <1>1, <1>2, <1>3 DEF SentOf
<1>5. SentOf(s) \subseteq SentOf(S)
  BY <1>1, <1>2 DEF SentOf
<1>6. Append(q, m) \in Seq(SentOf(S))
  <2>1. q \in Seq(SentOf(S))
    BY <1>5, SeqOfMore DEF Texts
  <2> QED BY <1>4, <2>1, AppendProperties
<1>7. h.m \in SentOf(S) /\ (prg # "pollmsg2" => c \in Seq(SentOf(S)))
  BY <1>5, SeqOfMore DEF Texts
<1>8. ASSUME NEW k \in DOMAIN p PROVE TextRight(prg, S, p[k], t[k])
  <2>1. TextRight(prg, s, p[k], t[k])
    BY DEF Texts
  <2> QED BY <1>1, <1>2, <2>1 DEF TextRight
<1>9. Texts(prg, S, Append(q, m), h, c, p, t)
  BY <1>2, <1>6, <1>7, <1>8 DEF Texts
<1> QED BY <1>9 DEF S, m

\* and what is printed for one of them is as long as main was told.
LEMMA TextsPrinted ==
  ASSUME NEW prg, NEW s, NEW q, NEW h, NEW c, NEW p, NEW t, Texts(prg, s, q, h, c, p, t),
         NEW m \in SentOf(s), NEW n \in Nat,
         IF prg # "exercise_1b" THEN n = m.len ELSE n >= m.len
  PROVE Texts(prg, s, q, h, c, Append(p, m.id), Append(t, n))
<1> DEFINE P == Append(p, m.id)
           T == Append(t, n)
<1>0. p \in Seq(Nat) /\ t \in Seq(Nat) /\ Len(t) = Len(p)
  BY DEF Texts
<1>1. PICK l \in Nat : l = Len(p) /\ DOMAIN p = 1..l
  BY <1>0, SeqIs
<1>2. m.id \in Nat /\ m.len \in MsgLengths /\ m.len < MAXMSZ /\ MAXMSZ \in Nat
  BY ProgramsAssumption DEF SentOf, Message, MsgLengths, Msgs!PollMsgAssumption
<1>3. /\ P \in Seq(Nat) /\ Len(P) = l + 1 /\ DOMAIN P = 1..(l + 1) /\ P[l + 1] = m.id
      /\ \A k \in 1..l : P[k] = p[k]
  BY <1>0, <1>1, <1>2, AppendedIs
<1>4. /\ T \in Seq(Nat) /\ Len(T) = l + 1 /\ T[l + 1] = n /\ \A k \in 1..l : T[k] = t[k]
  BY <1>0, <1>1, AppendedIs
<1> HIDE DEF P, T
<1>5. ASSUME NEW k \in 1..(l + 1) PROVE TextRight(prg, s, P[k], T[k])
  <2>1. CASE k = l + 1
    <3>1. TextRight(prg, s, m.id, n)
      BY <1>2 DEF TextRight, SentOf
    <3> QED BY <1>3, <1>4, <2>1, <3>1
  <2>2. CASE k # l + 1
    <3>1. k \in 1..l
      BY <2>2
    <3>2. TextRight(prg, s, p[k], t[k])
      BY <1>1, <3>1 DEF Texts
    <3> QED BY <1>3, <1>4, <3>1, <3>2
  <2> QED BY <2>1, <2>2
<1>6. Texts(prg, s, q, h, c, P, T)
  BY <1>3, <1>4, <1>5 DEF Texts
<1> QED BY <1>6 DEF P, T

\* A queue nothing happens to.
LEMMA TextsStay ==
  ASSUME NEW j, TextsAt(j), v1' = v1, v2'[j] = v2[j], v3'[j] = v3[j], v4'[j] = v4[j], v5'[j] = v5[j],
         v7'[j] = v7[j], v8'[j] = v8[j]
  PROVE TextsAt(j)'
BY DEF TextsAt

\* The steps of senders and helpers.
LEMMA TextsHelped ==
  ASSUME TextsInv, NEW i \in Msgs!Queues,
         Msgs!msgrcv(i) \/ Msgs!write(i) \/ Msgs!cond_wait(i) \/ Msgs!Spurious(i) \/
         \E n \in {0, MAXMSZ} : Msgs!sendmsg(i, n),
         v1 \in {"pollmsg", "figure_17_3", "exercise_1a", "exercise_1b", "pollmsg2"}
  PROVE TextsInv'
<1>0. Texts(v1, v2[i], v3[i], v4[i], v5[i], v7[i], v8[i])
  BY DEF TextsInv, TextsAt
<1>1. v1' = v1 /\ v6' = v6 /\ v7' = v7 /\ v8' = v8
  BY DEF Msgs!msgrcv, Msgs!write, Msgs!cond_wait, Msgs!Spurious, Msgs!sendmsg
<1>2. /\ DOMAIN v2' = Msgs!Queues /\ DOMAIN v3' = Msgs!Queues /\ DOMAIN v4' = Msgs!Queues
      /\ DOMAIN v5' = Msgs!Queues
      /\ \A j \in Msgs!Queues : j # i => v2'[j] = v2[j] /\ v3'[j] = v3[j] /\ v4'[j] = v4[j] /\ v5'[j] = v5[j]
  BY DEF TextsInv, Msgs!msgrcv, Msgs!write, Msgs!cond_wait, Msgs!Spurious, Msgs!sendmsg
<1>3. Texts(v1, v2'[i], v3'[i], v4'[i], v5'[i], v7[i], v8[i])
  <2>1. CASE \E n \in {0, MAXMSZ} : Msgs!sendmsg(i, n)
    <3>1. PICK n \in {0, MAXMSZ} : Msgs!sendmsg(i, n)
      BY <2>1
    <3>2. PICK x \in MsgLengths : x = Msgs!nbytes(n)
      BY ProgramsAssumption DEF Msgs!PollMsgAssumption, Msgs!nbytes, MsgLengths
    <3>3. /\ v2'[i] = Append(v2[i], x) /\ v3'[i] = Append(v3[i], [id |-> Len(v2[i]) + 1, len |-> x])
          /\ v4' = v4 /\ v5' = v5
      BY <3>1, <3>2 DEF Msgs!sendmsg, TextsInv
    <3> QED BY <1>0, <3>3, TextsSent
  <2>2. CASE Msgs!msgrcv(i)
    <3>1. /\ v3'[i] = Tail(v3[i]) /\ v4'[i] = [at |-> "write", m |-> Head(v3[i])]
          /\ v2' = v2 /\ v5' = v5 /\ v3[i] # <<>>
      BY <2>2 DEF Msgs!msgrcv, TextsInv
    <3>2. Tail(v3[i]) \in Seq(SentOf(v2[i])) /\ Head(v3[i]) \in SentOf(v2[i])
      BY <1>0, <3>1, HeadTailProperties DEF Texts
    <3>3. v4'[i].m = Head(v3[i]) /\ v4'[i].at = "write" /\ v4'[i] = [at |-> v4'[i].at, m |-> v4'[i].m]
      BY <3>1
    <3> QED BY <1>0, <3>1, <3>2, <3>3 DEF Texts
  <2>3. CASE Msgs!write(i)
    <3>1. PICK w \in {Msgs!Pass(v4[i].m)}, k \in {1, 2} :
            /\ k = (IF v4[i].at = "text" THEN 2 ELSE 1)
            /\ v5'[i] = Append(v5[i], w[k])
            /\ v4'[i] = [v4[i] EXCEPT !.at = CASE k < Len(w) -> "text" [] v1 = "pollmsg2" -> "towait"
                                               [] OTHER -> "msgrcv"]
      BY <2>3 DEF Msgs!write, TextsInv
    <3>2. v2' = v2 /\ v3' = v3
      BY <2>3 DEF Msgs!write
    <3>3. v4[i].m \in SentOf(v2[i]) /\ [v4[i].m EXCEPT !.id = 0] \in SentOf(v2[i])
      BY <1>0 DEF Texts, SentOf, Message
    <3>4. /\ v1 # "pollmsg2" => w[k] \in SentOf(v2[i])
          /\ k < Len(w) => v1 = "exercise_1a"
      <4>1. CASE v1 = "exercise_1a"
        <5>1. w[1] = [v4[i].m EXCEPT !.id = 0] /\ w[2] = v4[i].m
          BY <4>1 DEF Msgs!Pass, Msgs!exercise_1a
        <5> QED BY <3>3, <4>1, <5>1
      <4>2. CASE v1 # "exercise_1a"
        <5>1. \E x : w = <<x>> /\ (v1 # "pollmsg2" => x = v4[i].m)
          BY <4>2 DEF Msgs!Pass, Msgs!pollmsg, Msgs!figure_17_3, Msgs!exercise_1b, Msgs!pollmsg2
        <5>2. k = 1
          BY <1>0, <3>1, <4>2 DEF Texts
        <5> QED BY <3>3, <5>1, <5>2
      <4> QED BY <4>1, <4>2
    <3>5. PICK l \in {"text", "towait", "msgrcv"} :
            v4'[i] = [v4[i] EXCEPT !.at = l] /\ (l = "text" => v1 = "exercise_1a")
      BY <3>1, <3>4
    <3>6. v4'[i].m = v4[i].m /\ v4'[i].at = l /\ v4'[i] = [at |-> v4'[i].at, m |-> v4'[i].m]
      BY <1>0, <3>5 DEF Texts
    <3>7. v1 # "pollmsg2" => v5'[i] \in Seq(SentOf(v2[i]))
      BY <1>0, <3>1, <3>4, AppendProperties DEF Texts
    <3> QED BY <1>0, <3>2, <3>5, <3>6, <3>7 DEF Texts
  <2>4. CASE Msgs!cond_wait(i) \/ Msgs!Spurious(i)
    <3>1. PICK a \in {"wait", "msgrcv"} : v4'[i] = [v4[i] EXCEPT !.at = a]
      BY <2>4 DEF Msgs!cond_wait, Msgs!Spurious, TextsInv
    <3>2. v4'[i].m = v4[i].m /\ v4'[i].at = a /\ v4'[i] = [at |-> v4'[i].at, m |-> v4'[i].m]
      BY <1>0, <3>1 DEF Texts
    <3>3. v2' = v2 /\ v3' = v3 /\ v5' = v5
      BY <2>4 DEF Msgs!cond_wait, Msgs!Spurious
    <3> QED BY <1>0, <3>2, <3>3 DEF Texts
  <2> QED BY <2>1, <2>2, <2>3, <2>4
<1>4. TextsAt(i)'
  BY <1>1, <1>3 DEF TextsAt
<1>5. ASSUME NEW j \in Msgs!Queues, j # i PROVE TextsAt(j)'
  <2>1. TextsAt(j)
    BY DEF TextsInv
  <2> QED BY <1>1, <1>2, <1>5, <2>1, TextsStay
<1> QED BY <1>1, <1>2, <1>4, <1>5, BusinessStays DEF TextsInv

\* The steps of main: only read and Put print.
LEMMA TextsMain ==
  ASSUME TextsInv, Msgs!poll \/ Msgs!Skip \/ Msgs!read \/ Msgs!Put \/ Msgs!cond_signal
  PROVE TextsInv'
<1>1. PICK i \in Msgs!Queues : i = v6.i
  BY DEF TextsInv, MainRight
<1>2. Texts(v1, v2[i], v3[i], v4[i], v5[i], v7[i], v8[i]) /\ MainRight
  BY DEF TextsInv, TextsAt
<1>3. /\ v1' = v1 /\ v2' = v2 /\ v3' = v3
      /\ DOMAIN v4' = Msgs!Queues /\ DOMAIN v5' = Msgs!Queues /\ DOMAIN v7' = Msgs!Queues
      /\ DOMAIN v8' = Msgs!Queues
      /\ \A j \in Msgs!Queues : j # i => v4'[j] = v4[j] /\ v5'[j] = v5[j] /\ v7'[j] = v7[j] /\ v8'[j] = v8[j]
  BY <1>1 DEF TextsInv, Msgs!poll, Msgs!Skip, Msgs!read, Msgs!Put, Msgs!cond_signal
<1>4. MainRight'
  <2>1. CASE v6' = Msgs!NextQueue
    BY <1>2, <2>1, MainGoesOn
  <2>2. CASE \E a \in {"text", "print", "signal"} : v6' = [v6 EXCEPT !.at = a]
    BY <1>2, <2>2 DEF MainRight
  <2>3. CASE Msgs!poll
    <3>1. v6'.at = "scan" /\ v6'.i = 1 /\ v6' = [at |-> v6'.at, revents |-> v6'.revents, i |-> v6'.i]
      BY <2>3 DEF Msgs!poll
    <3>2. 1 \in Msgs!Queues
      BY ProgramsAssumption DEF Msgs!PollMsgAssumption, Msgs!Queues
    <3> QED BY <3>1, <3>2 DEF MainRight
  <2> QED BY <2>1, <2>2, <2>3 DEF Msgs!Skip, Msgs!read, Msgs!Put, Msgs!cond_signal
<1>5. Texts(v1, v2[i], v3[i], v4'[i], v5'[i], v7'[i], v8'[i])
  <2>1. CASE Msgs!poll \/ Msgs!Skip
    BY <1>2, <2>1 DEF Msgs!poll, Msgs!Skip
  <2>2. CASE Msgs!read
    <3>1. v5[i] # <<>> /\ v5'[i] = Tail(v5[i]) /\ v4' = v4
      BY <1>1, <2>2 DEF Msgs!read, TextsInv
    <3>2. Texts(v1, v2[i], v3[i], v4[i], v5'[i], v7[i], v8[i])
      BY <1>2, <3>1, HeadTailProperties DEF Texts
    <3>3. CASE v7' = v7 /\ v8' = v8
      BY <3>1, <3>2, <3>3
    <3>4. CASE ~(v7' = v7 /\ v8' = v8)
      <4>1. PICK n \in Msgs!Shown(Head(v5[i])) :
              /\ v7'[i] = Append(v7[i], Head(v5[i]).id) /\ v8'[i] = Append(v8[i], n) /\ v1 # "pollmsg2"
        BY <1>1, <2>2, <3>4 DEF Msgs!read, TextsInv
      <4>2. Head(v5[i]) \in SentOf(v2[i])
        BY <1>2, <3>1, <4>1, HeadTailProperties DEF Texts
      <4>3. n \in Nat /\ IF v1 # "exercise_1b" THEN n = Head(v5[i]).len ELSE n >= Head(v5[i]).len
        <5>1. Head(v5[i]).len \in Nat /\ MAXMSZ \in Nat
          BY <4>2, ProgramsAssumption DEF SentOf, Message, Msgs!PollMsgAssumption
        <5> QED BY <5>1 DEF Msgs!Shown, Msgs!EndsText
      <4> QED BY <3>1, <3>2, <4>1, <4>2, <4>3, TextsPrinted
    <3> QED BY <3>3, <3>4
  <2>3. CASE Msgs!Put
    <3>1. /\ v7'[i] = Append(v7[i], v4[i].m.id) /\ v8'[i] = Append(v8[i], v4[i].m.len)
          /\ v4' = v4 /\ v5' = v5
      BY <1>1, <2>3 DEF Msgs!Put, TextsInv
    <3>2. v4[i].m \in SentOf(v2[i]) /\ v4[i].m.len \in Nat
      BY <1>2, ProgramsAssumption DEF Texts, SentOf, Message, Msgs!PollMsgAssumption
    <3>3. IF v1 # "exercise_1b" THEN v4[i].m.len = v4[i].m.len ELSE v4[i].m.len >= v4[i].m.len
      BY <3>2
    <3> QED BY <1>2, <3>1, <3>2, <3>3, TextsPrinted
  <2>4. CASE Msgs!cond_signal
    <3>1. PICK a \in {v4[i].at, "msgrcv"} : v4'[i] = [v4[i] EXCEPT !.at = a]
      BY <1>1, <2>4 DEF Msgs!cond_signal, TextsInv
    <3>2. v4'[i].m = v4[i].m /\ v4'[i].at = a /\ v4'[i] = [at |-> v4'[i].at, m |-> v4'[i].m]
      BY <1>2, <3>1 DEF Texts
    <3>3. v5' = v5 /\ v7' = v7 /\ v8' = v8
      BY <2>4 DEF Msgs!cond_signal
    <3> QED BY <1>2, <3>1, <3>2, <3>3 DEF Texts
  <2> QED BY <2>1, <2>2, <2>3, <2>4
<1>6. TextsAt(i)'
  BY <1>3, <1>5 DEF TextsAt
<1>7. ASSUME NEW j \in Msgs!Queues, j # i PROVE TextsAt(j)'
  <2>1. TextsAt(j)
    BY DEF TextsInv
  <2> QED BY <1>3, <1>7, <2>1, TextsStay
<1>8. \A j \in Msgs!Queues : TextsAt(j)'
  BY <1>6, <1>7
<1> QED BY <1>3, <1>4, <1>8 DEF TextsInv

LEMMA TextsKept ==
  ASSUME MsgsInv, TextsInv, Msgs!Next
  PROVE TextsInv'
<1>1. CASE Msgs!Main
  BY <1>1, TextsMain DEF Msgs!Main
<1>2. CASE ~ Msgs!Main
  BY <1>2, TextsHelped DEF MsgsInv, Msgs!Next, Msgs!Helper
<1> QED BY <1>1, <1>2

LEMMA TextsStart ==
  ASSUME Msgs!Init
  PROVE TextsInv
<1>1. /\ v6 = [at |-> "poll", revents |-> {}, i |-> 1]
      /\ v2 = [i \in Msgs!Queues |-> <<>>] /\ v3 = [i \in Msgs!Queues |-> <<>>]
      /\ v4 = [i \in Msgs!Queues |-> [at |-> "msgrcv", m |-> Msgs!NoMsg]]
      /\ v5 = [i \in Msgs!Queues |-> <<>>] /\ v7 = [i \in Msgs!Queues |-> <<>>]
      /\ v8 = [i \in Msgs!Queues |-> <<>>]
  BY DEF Msgs!Init
<1>2. MAXMSZ \in Nat \ {0} /\ 1 \in Msgs!Queues
  BY ProgramsAssumption DEF Msgs!PollMsgAssumption, Msgs!Queues
<1>3. MainRight
  BY <1>1, <1>2 DEF MainRight
<1>4. ASSUME NEW j \in Msgs!Queues PROVE TextsAt(j)
  <2>1. /\ v2[j] = <<>> /\ v3[j] = <<>> /\ v5[j] = <<>> /\ v7[j] = <<>> /\ v8[j] = <<>>
        /\ v4[j] = [at |-> "msgrcv", m |-> Msgs!NoMsg]
    BY <1>1
  <2>2. Msgs!NoMsg \in SentOf(<<>>)
    BY <1>2 DEF Msgs!NoMsg, SentOf, Message
  <2>3. \A S : <<>> \in Seq(S)
    OBVIOUS
  <2>4. DOMAIN <<>> = {}
    OBVIOUS
  <2>5. v4[j].at = "msgrcv" /\ v4[j].m = Msgs!NoMsg /\ v4[j] = [at |-> v4[j].at, m |-> v4[j].m]
    BY <2>1
  <2> QED BY <2>1, <2>2, <2>3, <2>4, <2>5 DEF TextsAt, Texts
<1> QED BY <1>1, <1>3, <1>4 DEF TextsInv

LEMMA TextsStill ==
  ASSUME TextsInv, UNCHANGED vars
  PROVE TextsInv'
<1>1. v1' = v1 /\ v2' = v2 /\ v3' = v3 /\ v4' = v4 /\ v5' = v5 /\ v6' = v6 /\ v7' = v7 /\ v8' = v8
  BY DEF vars
<1> QED BY <1>1 DEF TextsInv, MainRight, TextsAt

\* What is printed for a queue is what was sent to it, in order and, but for
\* exercise_1b, whole; and no null is stored past the end of an array.
LEMMA MsgsOrder ==
  ASSUME MsgsInv, TextsInv
  PROVE Msgs!PrintedAsSent /\ Msgs!NoOverrun
<1>1. ASSUME NEW j \in Msgs!Queues, NEW k \in DOMAIN v7[j]
      PROVE /\ k \in Nat \ {0} /\ TextRight(v1, v2[j], v7[j][k], v8[j][k])
            /\ DOMAIN v7[j] = DOMAIN v8[j]
  BY SeqIs DEF TextsInv, TextsAt, Texts
<1>2. ASSUME v9 = 0, NEW j \in Msgs!Queues, NEW k \in DOMAIN v7[j] PROVE v7[j][k] = k
  <2>1. v7[j] \in Seq(Nat) /\ Counts(v7[j], 0)
    BY <1>2 DEF MsgsInv, MsgsRight, QueueRight, MsgRight, MsgTypes
  <2> QED BY <1>2, <2>1, SeqIs DEF Counts
<1>3. Msgs!PrintedAsSent
  BY <1>1, <1>2 DEF TextRight, Msgs!PrintedAsSent, Msgs!EndsText
<1>4. ASSUME v1 # "exercise_1b", NEW j \in Msgs!Queues, NEW k \in DOMAIN v8[j] PROVE v8[j][k] < MAXMSZ
  <2>1. DOMAIN v7[j] = DOMAIN v8[j]
    BY SeqIs DEF TextsInv, TextsAt, Texts
  <2> QED BY <1>1, <1>4, <2>1 DEF TextRight
<1> QED BY <1>3, <1>4 DEF Msgs!NoOverrun, Msgs!EndsText
-----------------------------------------------------------------------------
(* PrinterStatus: v1 conv, v2 rest, v3 pc, v4 buf, v5 i, v6 datsz, v7 result. *)
IppAnswers == {Ok, Bad, Other}
\* The classes of bytes; "?" is a byte nothing was read into.
ByteClasses == {"K", "I", "E", "Z", "L", "n", "r", "x", "a1", "a2", "b1", "b2", "c1", "c2", "?"}

\* A response whose header, with Content-Length at l, ends at h; then comes answer a.
Response(m, l, h, a) ==
  /\ l \in Nat /\ h \in Nat /\ 3 <= l /\ l <= h - 3 /\ a \in IppAnswers
  /\ m \in Seq(ByteClasses) /\ Len(m) = h + 2 /\ m[h + 1] = a[1] /\ m[h + 2] = a[2]
  /\ m[1] = "K" /\ m[l] = "L" /\ \A k \in 2..(l - 1) : m[k] # "L"
  /\ m[h - 2] = "n" /\ m[h - 1] = "r" /\ m[h] = "n"
  /\ \A k \in l..(h - 4) : ~(m[k + 1] = "n" /\ m[k + 2] = "r" /\ m[k + 3] = "n")
  /\ \A k \in 1..(h + 2) : m[k] # "?"

\* The first n bytes of m, and the others up to byte e.
FirstOf(s, m, n) == s \in Seq(ByteClasses) /\ Len(s) = n /\ \A k \in 1..n : s[k] = m[k]
RestOf(s, m, n, e) == s \in Seq(ByteClasses) /\ Len(s) = e - n /\ \A k \in 1..(e - n) : s[k] = m[n + k]

\* The two pieces of a cut.
LEMMA CutIs ==
  ASSUME NEW m \in Seq(ByteClasses), NEW e \in Nat, e = Len(m), NEW n \in 1..e
  PROVE FirstOf(SubSeq(m, 1, n), m, n) /\ RestOf(SubSeq(m, n + 1, Len(m)), m, n, e)
<1>0. \A k \in 1..e : m[k] \in ByteClasses
  BY SeqIs
<1>1. /\ SubSeq(m, 1, n) \in Seq(ByteClasses) /\ Len(SubSeq(m, 1, n)) = IF 1 <= n THEN n - 1 + 1 ELSE 0
      /\ \A k \in 1..(n - 1 + 1) : SubSeq(m, 1, n)[k] = m[1 + k - 1]
  <2>1. 1 \in Int /\ n \in Int /\ \A k \in 1..n : m[k] \in ByteClasses
    BY <1>0
  <2> QED BY <2>1, SubSeqProperties
<1>2. /\ SubSeq(m, n + 1, e) \in Seq(ByteClasses)
      /\ Len(SubSeq(m, n + 1, e)) = IF n + 1 <= e THEN e - (n + 1) + 1 ELSE 0
      /\ \A k \in 1..(e - (n + 1) + 1) : SubSeq(m, n + 1, e)[k] = m[n + 1 + k - 1]
  <2>1. n + 1 \in Int /\ e \in Int /\ \A k \in (n + 1)..e : m[k] \in ByteClasses
    BY <1>0
  <2> QED BY <2>1, SubSeqProperties
<1>3. FirstOf(SubSeq(m, 1, n), m, n)
  <2>1. n - 1 + 1 = n /\ \A k \in 1..n : 1 + k - 1 = k
    OBVIOUS
  <2> QED BY <1>1, <2>1 DEF FirstOf
<1>4. RestOf(SubSeq(m, n + 1, e), m, n, e)
  <2>1. e - (n + 1) + 1 = e - n /\ (~(n + 1 <= e) => e - n = 0) /\ \A k \in 1..(e - n) : n + 1 + k - 1 = n + k
    OBVIOUS
  <2>2. Len(SubSeq(m, n + 1, e)) = e - n
    BY <1>2, <2>1
  <2>3. \A k \in 1..(e - n) : SubSeq(m, n + 1, e)[k] = m[n + k]
    BY <1>2, <2>1
  <2> QED BY <1>2, <2>2, <2>3 DEF RestOf
<1> QED BY <1>3, <1>4

\* Nothing of the response has been read, or its first n bytes have, or all of it.
Arriving(m, n) ==
  v3 = "status" /\ (v2 = Cut(m, n) \/ v2 = << <<"I", "n", "r", "n">> >> \o Cut(m, n))
FirstRead(m, h, n) == FirstOf(v4, m, n) /\ v6 = n /\ \E s : v2 = <<s>> /\ RestOf(s, m, n, h + 2)
AllRead(m, h) == FirstOf(v4, m, h + 2) /\ v6 \in Nat /\ v6 >= h + 2 /\ v2 = <<>>

\* Where the parse is by what has been read.
Parsing(m, l, h, n) ==
  \/ v3 = "length" /\ v5 \in 1..(l - 1) /\ (AllRead(m, h) \/ (n \in {l - 1, l, h} /\ FirstRead(m, h, n)))
  \/ v3 = "gap" /\ v5 = l /\ (AllRead(m, h) \/ (n \in {l, h} /\ FirstRead(m, h, n)))
  \/ v3 = "end" /\ v5 \in l..(h - 3) /\ (AllRead(m, h) \/ (n = h /\ FirstRead(m, h, n)))
  \/ v3 = "found" /\ v5 = h /\ (AllRead(m, h) \/ (n = h /\ FirstRead(m, h, n)))
  \/ v3 \in {"body", "ipp"} /\ v5 = h /\ AllRead(m, h)

\* A response that comes in one read, or in two.
TidyRight ==
  \E b \in Before, f \in Following, a \in IppAnswers :
    \E n \in {0, Len(b) + 1, Len(b) + 2, Len(Header(b, f))} :
      /\ v1.ok = (a = Ok)
      /\ \/ Arriving(Header(b, f) \o a, n)
         \/ Parsing(Header(b, f) \o a, Len(b) + 2, Len(Header(b, f)), n)

\* One that does not: no whole answer follows the end of a header.
Short(s) ==
  /\ s \in Seq(ByteClasses) /\ \A k \in 1..Len(s) : s[k] # "?"
  /\ \A k \in 0..(Len(s) - 3) : s[k + 1] = "n" /\ s[k + 2] = "r" /\ s[k + 3] = "n" => k + 5 > Len(s)
BrokenRight ==
  /\ v1.ok = FALSE
  /\ \/ v3 = "status" /\ (v2 = <<>> \/ v2 = << <<"Z">>, <<"Z">> >> \/ \E s : v2 = <<s>> /\ (s[1] # "K" \/ Short(s)))
     \/ /\ v3 \in {"length", "gap", "end", "found", "body"} /\ v5 \in Nat
        /\ v2 = <<>> /\ Short(v4) /\ v6 = Len(v4)
        /\ v3 \in {"found", "body"} => v5 + 2 > v6

StatusInv ==
  /\ v3 = "done" => v7 = v1.ok
  /\ v3 # "done" => v7 = FALSE /\ (TidyRight \/ BrokenRight)

\* The answer has two bytes.
LEMMA AnswerIs ==
  /\ Status!len = 2
  /\ \A a \in IppAnswers : a \in Seq(ByteClasses) /\ Len(a) = 2 /\ a[1] # "?" /\ a[2] # "?"
  /\ Ok \notin {Bad, Other}
<1>1. Status!len = 2
  <2>1. Len(<<"a1", "a2">>) = 2
    OBVIOUS
  <2> QED BY <2>1 DEF Status!len, MCSuccess, Ok
<1>3. ASSUME NEW a \in IppAnswers PROVE a \in Seq(ByteClasses) /\ Len(a) = 2 /\ a[1] # "?" /\ a[2] # "?"
  <2>1. {"a1", "a2", "b1", "b2", "c1", "c2"} \subseteq ByteClasses \ {"?"}
    BY DEF ByteClasses
  <2>2. CASE a = Ok
    <3>1. "a1" \in ByteClasses /\ "a2" \in ByteClasses
      BY <2>1
    <3> QED BY <2>2, <3>1, TwoIs DEF Ok
  <2>3. CASE a = Bad
    <3>1. "b1" \in ByteClasses /\ "b2" \in ByteClasses
      BY <2>1
    <3> QED BY <2>3, <3>1, TwoIs DEF Bad
  <2>4. CASE a = Other
    <3>1. "c1" \in ByteClasses /\ "c2" \in ByteClasses
      BY <2>1
    <3> QED BY <2>4, <3>1, TwoIs DEF Other
  <2> QED BY <2>2, <2>3, <2>4 DEF IppAnswers
<1>4. Ok \notin {Bad, Other}
  <2>1. <<"a1", "a2">>[1] = "a1" /\ <<"b1", "b2">>[1] = "b1" /\ <<"c1", "c2">>[1] = "c1"
    OBVIOUS
  <2> QED BY <2>1 DEF Ok, Bad, Other
<1> QED BY <1>1, <1>3, <1>4

\* The second read goes where the first ended.
LEMMA ReadsOn ==
  ASSUME NEW m, NEW n \in Nat, NEW e \in Nat, n <= e, FirstOf(v4, m, n),
         NEW s, RestOf(s, m, n, e)
  PROVE FirstOf(Status!ReadAt(s, n), m, e)
<1>1. /\ v4 \in Seq(ByteClasses) /\ Len(v4) = n /\ \A k \in 1..n : v4[k] = m[k] /\ v4[k] \in ByteClasses
      /\ s \in Seq(ByteClasses) /\ Len(s) = e - n /\ \A k \in 1..(e - n) : s[k] = m[n + k] /\ s[k] \in ByteClasses
  BY SeqIs DEF FirstOf, RestOf
<1> DEFINE t == Status!ReadAt(s, n)
<1>2. (IF n + (e - n) > n THEN n + (e - n) ELSE n) = e
  OBVIOUS
<1>6. "?" \in ByteClasses
  BY DEF ByteClasses
<1>3. t = [j \in 1..e |-> IF j > n /\ j <= n + (e - n) THEN s[j - n] ELSE IF j <= n THEN v4[j] ELSE "?"]
  BY <1>1, <1>2 DEF Status!ReadAt
<1>4. ASSUME NEW j \in 1..e PROVE t[j] = m[j] /\ t[j] \in ByteClasses
  <2>1. CASE j <= n
    <3>1. t[j] = v4[j] /\ j \in 1..n
      BY <1>3, <2>1
    <3> QED BY <1>1, <3>1
  <2>2. CASE j > n
    <3>1. t[j] = s[j - n] /\ j - n \in 1..(e - n) /\ n + (j - n) = j
      BY <1>3, <2>2
    <3> QED BY <1>1, <3>1
  <2> QED BY <2>1, <2>2
<1>5. t \in Seq(ByteClasses) /\ Len(t) = e
  <2>1. t \in [1..e -> ByteClasses]
    BY <1>3, <1>4
  <2> HIDE DEF t
  <2> QED BY <2>1, SeqDef, LenProperties
<1> QED BY <1>4, <1>5 DEF FirstOf

\* The step of a parse that has all of the response it needs.
LEMMA ResponseStep ==
  ASSUME NEW m, NEW l, NEW h, NEW a, Response(m, l, h, a), NEW n,
         Parsing(m, l, h, n), v7 = FALSE, v1.ok = (a = Ok), Status!Next
  PROVE /\ v1' = v1
        /\ \/ Parsing(m, l, h, n)' /\ v3' # "done" /\ v7' = FALSE
           \/ v3' = "done" /\ v7' = v1.ok
<1>0. /\ l \in Nat /\ h \in Nat /\ 3 <= l /\ l <= h - 3 /\ a \in IppAnswers
      /\ m \in Seq(ByteClasses) /\ Len(m) = h + 2 /\ m[h + 1] = a[1] /\ m[h + 2] = a[2]
      /\ m[l] = "L" /\ \A k \in 2..(l - 1) : m[k] # "L"
      /\ m[h - 2] = "n" /\ m[h - 1] = "r" /\ m[h] = "n"
      /\ \A k \in l..(h - 4) : ~(m[k + 1] = "n" /\ m[k + 2] = "r" /\ m[k + 3] = "n")
      /\ \A k \in 1..(h + 2) : m[k] # "?"
  BY DEF Response
<1>1. v3 # "status" /\ v3 # "done" /\ v5 \in 1..h /\ Status!len = 2
  BY <1>0, AnswerIs DEF Parsing
\* What is in the buffer.
<1>2. CASE AllRead(m, h)
  <2>1. /\ v4 \in Seq(ByteClasses) /\ Len(v4) = h + 2 /\ \A k \in 1..(h + 2) : v4[k] = m[k]
        /\ v6 \in Nat /\ v6 >= h + 2 /\ v2 = <<>>
    BY <1>2 DEF AllRead, FirstOf
  <2>2. ~Status!NeedMore
    BY <1>0, <1>1, <2>1 DEF Status!NeedMore, Parsing
  <2>3. ASSUME v4' = v4, v6' = v6, v2' = v2 PROVE AllRead(m, h)'
    BY <1>2, <2>3 DEF AllRead, FirstOf
  <2>4. CASE Status!Enough
    <3>1. /\ v1' = v1 /\ v2' = v2 /\ v4' = v4 /\ v5' = v5 /\ v6' = v6 /\ v7' = v7
          /\ \/ v3 = "gap" /\ v3' = "end"
             \/ v3 = "found" /\ v3' = "body"
             \/ v3 = "body" /\ v3' = "ipp"
      BY <2>4 DEF Status!Enough, Status!After
    <3>2. v5' \in l..(h - 3) \/ v5' = h
      BY <1>0, <3>1 DEF Parsing
    <3> QED BY <1>0, <2>3, <3>1, <3>2 DEF Parsing
  <2>5. CASE Status!FindLength
    <3>1. /\ v3 = "length" /\ v1' = v1 /\ v2' = v2 /\ v4' = v4 /\ v5' = v5 + 1 /\ v6' = v6 /\ v7' = v7
          /\ v3' = (IF v5 < h + 2 /\ v4[v5 + 1] = "L" THEN "gap" ELSE "length")
      BY <2>1, <2>5 DEF Status!FindLength
    <3>2. v5 \in 1..(l - 1) /\ v5 < h + 2 /\ v4[v5 + 1] = m[v5 + 1]
      BY <1>0, <2>1, <3>1 DEF Parsing
    <3>3. \/ v5' = l /\ v3' = "gap"
          \/ v5' \in 1..(l - 1) /\ v3' = "length"
      BY <1>0, <3>1, <3>2
    <3> QED BY <2>3, <3>1, <3>3 DEF Parsing
  <2>6. CASE Status!FindEnd
    <3>1. v3 = "end" /\ v5 \in l..(h - 3) /\ v1' = v1 /\ v2' = v2 /\ v4' = v4 /\ v6' = v6 /\ v7' = v7
      BY <2>6 DEF Status!FindEnd, Parsing
    <3>2. \A k \in 1..3 : v5 + k \in 1..(h + 2) /\ v4[v5 + k] = m[v5 + k] /\ ~Status!Garbage(v5 + k)
      BY <1>0, <2>1, <3>1 DEF Status!Garbage
    <3>3. (\A k \in 1..3 : v4[v5 + k] = <<"n", "r", "n">>[k]) <=> v5 = h - 3
      <4>1. <<"n", "r", "n">>[1] = "n" /\ <<"n", "r", "n">>[2] = "r" /\ <<"n", "r", "n">>[3] = "n"
        OBVIOUS
      <4>2. (\A k \in 1..3 : v4[v5 + k] = <<"n", "r", "n">>[k])
            <=> v4[v5 + 1] = "n" /\ v4[v5 + 2] = "r" /\ v4[v5 + 3] = "n"
        BY <4>1
      <4>3. v4[v5 + 1] = m[v5 + 1] /\ v4[v5 + 2] = m[v5 + 2] /\ v4[v5 + 3] = m[v5 + 3]
        BY <3>2
      <4>4. CASE v5 = h - 3
        <5>1. v5 + 1 = h - 2 /\ v5 + 2 = h - 1 /\ v5 + 3 = h
          BY <1>0, <4>4
        <5> QED BY <1>0, <4>2, <4>3, <4>4, <5>1
      <4>5. CASE v5 # h - 3
        <5>1. v5 \in l..(h - 4)
          BY <1>0, <3>1, <4>5
        <5> QED BY <1>0, <4>2, <4>3, <4>5, <5>1
      <4> QED BY <4>4, <4>5
    <3>4. \/ v5 = h - 3 /\ v5' = v5 + 3 /\ v3' = "found"
          \/ v5 # h - 3 /\ v5' = v5 + 1 /\ v3' = "end"
      BY <2>6, <3>2, <3>3 DEF Status!FindEnd
    <3>5. \/ v5' = h /\ v3' = "found"
          \/ v5' \in l..(h - 3) /\ v3' = "end"
      BY <1>0, <3>1, <3>4
    <3> QED BY <1>0, <2>3, <3>1, <3>5 DEF Parsing
  <2>7. CASE Status!Ipp
    <3>1. v3 = "ipp" /\ v5 = h /\ v1' = v1 /\ v3' = "done"
      BY <1>0, <2>7 DEF Status!Ipp, Parsing
    <3>2. v5 + Status!len <= Len(v4)
      BY <1>0, <1>1, <2>1, <3>1
    <3>3. SubSeq(v4, h + 1, h + 2) = a
      <4>1. h \in 1..(h + 2) /\ h + 2 \in Nat
        BY <1>0
      <4> DEFINE s == SubSeq(v4, h + 1, h + 2)
      <4>2. RestOf(s, v4, h, h + 2)
        BY <2>1, <4>1, CutIs
      <4> HIDE DEF s
      <4>3. (h + 2) - h = 2
        BY <1>0
      <4>4. s \in Seq(ByteClasses) /\ Len(s) = 2 /\ s[1] = v4[h + 1] /\ s[2] = v4[h + 2]
        BY <4>2, <4>3 DEF RestOf
      <4>5. s[1] = a[1] /\ s[2] = a[2]
        BY <1>0, <2>1, <4>4
      <4>6. a \in Seq(ByteClasses) /\ Len(a) = 2
        BY <1>0, AnswerIs
      <4>7. \A k \in 1..Len(s) : s[k] = a[k]
        BY <4>4, <4>5
      <4>8. s = a
        BY <4>4, <4>6, <4>7, SeqEqual
      <4> QED BY <4>8 DEF s
    <3>4. v7' \in (IF a = Ok THEN {TRUE} ELSE IF a \in {Bad, Other} THEN {FALSE} ELSE BOOLEAN)
      BY <1>1, <2>7, <3>1, <3>2, <3>3 DEF Status!Ipp, MCSuccess, MCFailures
    <3>5. v7' = (a = Ok)
      BY <1>0, <3>4, AnswerIs DEF IppAnswers
    <3> QED BY <3>1, <3>5
  <2>8. ~(Status!ReadStatus \/ Status!readmore \/ Status!GiveUp)
    BY <1>1, <2>1, <2>2 DEF Status!ReadStatus, Status!readmore, Status!GiveUp
  <2> QED BY <2>4, <2>5, <2>6, <2>7, <2>8 DEF Status!Next
<1>3. CASE ~AllRead(m, h)
  <2>1. /\ n \in {l - 1, l, h} /\ FirstRead(m, h, n)
        /\ \/ v3 = "length" /\ v5 \in 1..(l - 1)
           \/ v3 = "gap" /\ v5 = l /\ n \in {l, h}
           \/ v3 = "end" /\ v5 \in l..(h - 3) /\ n = h
           \/ v3 = "found" /\ v5 = h /\ n = h
    BY <1>3 DEF Parsing
  <2>2. PICK s : v2 = <<s>> /\ RestOf(s, m, n, h + 2)
    BY <2>1 DEF FirstRead
  <2>3. /\ v4 \in Seq(ByteClasses) /\ Len(v4) = n /\ \A k \in 1..n : v4[k] = m[k]
        /\ v6 = n /\ v2 # <<>> /\ n \in Nat /\ n <= h
    BY <1>0, <2>1, <2>2 DEF FirstRead, FirstOf
  <2>4. ASSUME v4' = v4, v6' = v6, v2' = v2 PROVE FirstRead(m, h, n)'
    BY <2>1, <2>4 DEF FirstRead, FirstOf, RestOf
  <2>5. CASE Status!Enough
    <3>1. /\ v3 = "gap" /\ v3' = "end" /\ ~(v5 >= v6)
          /\ v1' = v1 /\ v2' = v2 /\ v4' = v4 /\ v5' = v5 /\ v6' = v6 /\ v7' = v7
      BY <1>0, <2>1, <2>3, <2>5 DEF Status!Enough, Status!After, Status!NeedMore
    <3>2. n = h /\ v5 = l /\ v5' \in l..(h - 3)
      BY <1>0, <2>1, <2>3, <3>1
    <3> QED BY <2>4, <3>1, <3>2 DEF Parsing
  <2>6. CASE Status!FindLength
    <3>1. /\ v3 = "length" /\ v1' = v1 /\ v2' = v2 /\ v4' = v4 /\ v5' = v5 + 1 /\ v6' = v6 /\ v7' = v7
          /\ v3' = (IF v5 < n /\ v4[v5 + 1] = "L" THEN "gap" ELSE "length") /\ v5 < n
      BY <2>3, <2>6 DEF Status!FindLength
    <3>2. v5 \in 1..(l - 1) /\ v5 + 1 \in 1..n /\ v4[v5 + 1] = m[v5 + 1]
      BY <1>0, <2>1, <2>3, <3>1
    <3>3. \/ v5' = l /\ v3' = "gap" /\ n \in {l, h}
          \/ v5' \in 1..(l - 1) /\ v3' = "length"
      BY <1>0, <2>1, <3>1, <3>2
    <3> QED BY <2>1, <2>4, <3>1, <3>3 DEF Parsing
  <2>7. CASE Status!FindEnd
    <3>1. v3 = "end" /\ v5 \in l..(h - 3) /\ n = h /\ v1' = v1 /\ v2' = v2 /\ v4' = v4 /\ v6' = v6 /\ v7' = v7
      BY <2>1, <2>7 DEF Status!FindEnd
    <3>2. \A k \in 1..3 : v5 + k \in 1..h /\ v4[v5 + k] = m[v5 + k] /\ ~Status!Garbage(v5 + k)
      BY <1>0, <2>3, <3>1 DEF Status!Garbage
    <3>3. (\A k \in 1..3 : v4[v5 + k] = <<"n", "r", "n">>[k]) <=> v5 = h - 3
      <4>1. <<"n", "r", "n">>[1] = "n" /\ <<"n", "r", "n">>[2] = "r" /\ <<"n", "r", "n">>[3] = "n"
        OBVIOUS
      <4>2. (\A k \in 1..3 : v4[v5 + k] = <<"n", "r", "n">>[k])
            <=> v4[v5 + 1] = "n" /\ v4[v5 + 2] = "r" /\ v4[v5 + 3] = "n"
        BY <4>1
      <4>3. v4[v5 + 1] = m[v5 + 1] /\ v4[v5 + 2] = m[v5 + 2] /\ v4[v5 + 3] = m[v5 + 3]
        BY <3>2
      <4>4. CASE v5 = h - 3
        <5>1. v5 + 1 = h - 2 /\ v5 + 2 = h - 1 /\ v5 + 3 = h
          BY <1>0, <4>4
        <5> QED BY <1>0, <4>2, <4>3, <4>4, <5>1
      <4>5. CASE v5 # h - 3
        <5>1. v5 \in l..(h - 4)
          BY <1>0, <3>1, <4>5
        <5> QED BY <1>0, <4>2, <4>3, <4>5, <5>1
      <4> QED BY <4>4, <4>5
    <3>4. \/ v5 = h - 3 /\ v5' = v5 + 3 /\ v3' = "found"
          \/ v5 # h - 3 /\ v5' = v5 + 1 /\ v3' = "end"
      BY <2>7, <3>2, <3>3 DEF Status!FindEnd
    <3>5. \/ v5' = h /\ v3' = "found"
          \/ v5' \in l..(h - 3) /\ v3' = "end"
      BY <1>0, <3>1, <3>4
    <3> QED BY <2>4, <3>1, <3>5 DEF Parsing
  <2>8. CASE Status!readmore
    <3>1. /\ v5 >= v6 /\ v3 \in {"length", "gap", "found"}
          /\ v1' = v1 /\ v5' = v5 /\ v7' = v7 /\ v2' = Tail(v2)
          /\ v4' = Status!ReadAt(Head(v2), v5) /\ v6' = v6 + v5 + Len(Head(v2))
          /\ v3' = Status!After[v3]
      BY <2>1, <2>8 DEF Status!readmore, Status!NeedMore
    <3>2. v5 = n
      BY <1>0, <2>1, <2>3, <3>1
    <3>3. Head(v2) = s /\ Tail(v2) = <<>>
      BY <2>2
    <3>4. FirstOf(v4', m, h + 2)
      <4>1. h + 2 \in Nat /\ n <= h + 2 /\ FirstOf(v4, m, n)
        BY <1>0, <2>1, <2>3 DEF FirstRead
      <4> QED BY <2>2, <2>3, <3>1, <3>2, <3>3, <4>1, ReadsOn
    <3>5. v6' \in Nat /\ v6' >= h + 2
      <4>1. PICK z \in Nat : z = Len(s) /\ z = (h + 2) - n
        <5>1. (h + 2) - n \in Nat
          BY <1>0, <2>3
        <5> QED BY <2>2, <5>1 DEF RestOf
      <4>2. v6' = n + n + z
        BY <2>3, <3>1, <3>2, <3>3, <4>1
      <4> QED BY <1>0, <2>3, <4>1, <4>2
    <3>6. AllRead(m, h)'
      BY <3>1, <3>3, <3>4, <3>5 DEF AllRead, FirstOf
    <3>7. \/ v3 = "length" /\ v3' = "length"
          \/ v3 = "gap" /\ v3' = "end"
          \/ v3 = "found" /\ v3' = "body"
      BY <3>1 DEF Status!After
    <3>8. v5' \in l..(h - 3) \/ v5' = h \/ v5' \in 1..(l - 1)
      BY <1>0, <2>1, <3>1
    <3> QED BY <1>0, <2>1, <3>1, <3>6, <3>7, <3>8 DEF Parsing
  <2>9. ~(Status!ReadStatus \/ Status!GiveUp \/ Status!Ipp)
    BY <2>1, <2>3 DEF Status!ReadStatus, Status!GiveUp, Status!Ipp
  <2> QED BY <2>5, <2>6, <2>7, <2>8, <2>9 DEF Status!Next
<1> QED BY <1>2, <1>3



\* The header s has b, of length y, before Content-Length, and f, of length z, after it.
Headed(s, b, f, y, z) ==
  /\ s \in Seq(ByteClasses) /\ Len(s) = y + z + 5
  /\ s[1] = "K" /\ \A k \in 1..y : s[1 + k] = b[k]
  /\ s[y + 2] = "L" /\ \A k \in 1..z : s[(y + 2) + k] = f[k]
  /\ s[y + z + 3] = "n" /\ s[y + z + 4] = "r" /\ s[y + z + 5] = "n"
LEMMA HeaderIs ==
  ASSUME NEW b \in Seq(ByteClasses), NEW f \in Seq(ByteClasses),
         NEW y \in Nat, y = Len(b), NEW z \in Nat, z = Len(f)
  PROVE Headed(Header(b, f), b, f, y, z)
<1>0. "K" \in ByteClasses /\ "L" \in ByteClasses /\ "n" \in ByteClasses /\ "r" \in ByteClasses
  BY DEF ByteClasses
<1> DEFINE s1 == <<"K">> \o b  s2 == s1 \o <<"L">>  s3 == s2 \o f  s4 == s3 \o <<"n", "r", "n">>
<1>1. <<"K">> \in Seq(ByteClasses) /\ Len(<<"K">>) = 1 /\ <<"K">>[1] = "K"
  BY <1>0, OneIs
<1>2. <<"L">> \in Seq(ByteClasses) /\ Len(<<"L">>) = 1 /\ <<"L">>[1] = "L"
  BY <1>0, OneIs
<1>3. /\ <<"n", "r", "n">> \in Seq(ByteClasses) /\ Len(<<"n", "r", "n">>) = 3
      /\ <<"n", "r", "n">>[1] = "n" /\ <<"n", "r", "n">>[2] = "r" /\ <<"n", "r", "n">>[3] = "n"
  BY <1>0, ManyIs
<1>4. /\ s1 \in Seq(ByteClasses) /\ Len(s1) = 1 + y
      /\ \A k \in 1..1 : s1[k] = <<"K">>[k]
      /\ \A k \in 1..y : s1[1 + k] = b[k]
  <2>1. 1 \in Nat
    OBVIOUS
  <2>2. Joined(ByteClasses, s1, <<"K">>, b, 1, y)
    BY <1>1, <2>1, JoinIs
  <2> QED BY <2>2 DEF Joined
<1>5. s1[1] = "K"
  BY <1>1, <1>4
<1> HIDE DEF s1
<1>6. /\ s2 \in Seq(ByteClasses) /\ Len(s2) = (1 + y) + 1
      /\ \A k \in 1..(1 + y) : s2[k] = s1[k]
      /\ \A k \in 1..1 : s2[(1 + y) + k] = <<"L">>[k]
  <2>1. 1 + y \in Nat /\ 1 \in Nat
    OBVIOUS
  <2>2. Joined(ByteClasses, s2, s1, <<"L">>, 1 + y, 1)
    BY <1>2, <1>4, <2>1, JoinIs
  <2> QED BY <2>2 DEF Joined
<1>7. s2[y + 2] = "L" /\ Len(s2) = y + 2
  <2>1. (1 + y) + 1 = y + 2
    OBVIOUS
  <2> QED BY <1>2, <1>6, <2>1
<1> HIDE DEF s2
<1>8. /\ s3 \in Seq(ByteClasses) /\ Len(s3) = (y + 2) + z
      /\ \A k \in 1..(y + 2) : s3[k] = s2[k]
      /\ \A k \in 1..z : s3[(y + 2) + k] = f[k]
  <2>1. PICK w \in Nat : w = y + 2
    OBVIOUS
  <2>2. w = Len(s2)
    BY <1>7, <2>1
  <2>3. Joined(ByteClasses, s3, s2, f, w, z)
    BY <1>6, <2>1, <2>2, JoinIs
  <2> QED BY <2>1, <2>3 DEF Joined
<1> HIDE DEF s3
<1>9. /\ s4 \in Seq(ByteClasses) /\ Len(s4) = (y + 2 + z) + 3
      /\ \A k \in 1..(y + 2 + z) : s4[k] = s3[k]
      /\ \A k \in 1..3 : s4[(y + 2 + z) + k] = <<"n", "r", "n">>[k]
  <2>1. PICK w \in Nat : w = y + 2 + z
    OBVIOUS
  <2>2. w = Len(s3) /\ 3 \in Nat
    BY <1>8, <2>1
  <2>3. Joined(ByteClasses, s4, s3, <<"n", "r", "n">>, w, 3)
    BY <1>3, <1>8, <2>1, <2>2, JoinIs
  <2> QED BY <2>1, <2>3 DEF Joined
<1> HIDE DEF s4
<1>10. /\ s4[y + z + 3] = "n" /\ s4[y + z + 4] = "r" /\ s4[y + z + 5] = "n" /\ Len(s4) = y + z + 5
  <2>1. /\ (y + 2 + z) + 1 = y + z + 3 /\ (y + 2 + z) + 2 = y + z + 4 /\ (y + 2 + z) + 3 = y + z + 5
    OBVIOUS
  <2> QED BY <1>3, <1>9, <2>1
<1>11. ASSUME NEW k \in 1..(1 + y) PROVE s4[k] = s1[k]
  <2>1. k \in 1..(y + 2) /\ k \in 1..(y + 2 + z)
    OBVIOUS
  <2> QED BY <1>6, <1>8, <1>9, <2>1
<1>12. s4[1] = "K" /\ \A k \in 1..y : s4[1 + k] = b[k]
  <2>1. 1 \in 1..(1 + y) /\ \A k \in 1..y : 1 + k \in 1..(1 + y)
    OBVIOUS
  <2> QED BY <1>4, <1>5, <1>11, <2>1
<1>13. s4[y + 2] = "L" /\ \A k \in 1..z : s4[(y + 2) + k] = f[k]
  <2>1. y + 2 \in 1..(y + 2) /\ y + 2 \in 1..(y + 2 + z) /\ \A k \in 1..z : (y + 2) + k \in 1..(y + 2 + z)
    OBVIOUS
  <2> QED BY <1>7, <1>8, <1>9, <2>1
<1>14. Header(b, f) = s4
  BY DEF Header, s1, s2, s3, s4
<1> QED BY <1>9, <1>10, <1>12, <1>13, <1>14 DEF Headed

\* The headers of the conversations.
LEMMA PartsAre ==
  /\ \A b \in Before : /\ b \in Seq(ByteClasses) /\ Len(b) \in {1, 3, 4}
                       /\ \A k \in 1..Len(b) : b[k] # "L" /\ b[k] # "?"
  /\ \A f \in Following : \/ f = <<>>
                          \/ /\ f \in Seq(ByteClasses) /\ Len(f) = 3
                             /\ f[1] = "n" /\ f[2] = "x" /\ f[3] = "r"
<1>0. "n" \in ByteClasses /\ "x" \in ByteClasses /\ "r" \in ByteClasses
  BY DEF ByteClasses
<1>1. ASSUME NEW b \in Before
      PROVE b \in Seq(ByteClasses) /\ Len(b) \in {1, 3, 4} /\ \A k \in 1..Len(b) : b[k] \in {"n", "x"}
  <2>1. CASE b = <<"n">>
    <3>1. b \in Seq(ByteClasses) /\ Len(b) = 1 /\ b[1] = "n"
      BY <1>0, <2>1, OneIs
    <3> QED BY <3>1
  <2>2. CASE b = <<"n", "x", "n">>
    <3>1. b \in Seq(ByteClasses) /\ Len(b) = 3 /\ b[1] = "n" /\ b[2] = "x" /\ b[3] = "n"
      BY <1>0, <2>2, ManyIs
    <3> QED BY <3>1
  <2>3. CASE b = <<"n", "x", "x", "n">>
    <3>1. b \in Seq(ByteClasses) /\ Len(b) = 4 /\ b[1] = "n" /\ b[2] = "x" /\ b[3] = "x" /\ b[4] = "n"
      BY <1>0, <2>3, ManyIs
    <3> QED BY <3>1
  <2> QED BY <2>1, <2>2, <2>3 DEF Before
<1>2. ASSUME NEW f \in Following
      PROVE \/ f = <<>>
            \/ f \in Seq(ByteClasses) /\ Len(f) = 3 /\ f[1] = "n" /\ f[2] = "x" /\ f[3] = "r"
  <2>1. CASE f = <<"n", "x", "r">>
    BY <1>0, <2>1, ManyIs
  <2> QED BY <2>1 DEF Following
<1> QED BY <1>1, <1>2

\* A response of them has its parts where the parse looks for them.
LEMMA ResponseIs ==
  ASSUME NEW b \in Before, NEW f \in Following, NEW a \in IppAnswers,
         NEW l, l = Len(b) + 2, NEW h, h = Len(Header(b, f))
  PROVE Response(Header(b, f) \o a, l, h, a)
<1>1. PICK y \in {1, 3, 4} : y = Len(b)
  BY PartsAre
<1>2. b \in Seq(ByteClasses) /\ y \in Nat /\ \A k \in 1..y : b[k] # "L" /\ b[k] # "?"
  BY <1>1, PartsAre
<1>3. /\ f \in Seq(ByteClasses)
      /\ Len(f) = 0 \/ (Len(f) = 3 /\ f[1] = "n" /\ f[2] = "x" /\ f[3] = "r")
  <2>1. <<>> \in Seq(ByteClasses) /\ Len(<<>>) = 0
    OBVIOUS
  <2>2. CASE f = <<>>
    BY <2>1, <2>2
  <2>3. CASE f # <<>>
    BY <2>3, PartsAre
  <2> QED BY <2>2, <2>3
<1>4. PICK z \in Nat : z = Len(f) /\ (z = 0 \/ (z = 3 /\ f[1] = "n" /\ f[2] = "x" /\ f[3] = "r"))
  BY <1>3
<1> DEFINE x == Header(b, f)
<1>5. /\ x \in Seq(ByteClasses) /\ Len(x) = y + z + 5
      /\ x[1] = "K" /\ \A k \in 1..y : x[1 + k] = b[k]
      /\ x[y + 2] = "L" /\ \A k \in 1..z : x[(y + 2) + k] = f[k]
      /\ x[y + z + 3] = "n" /\ x[y + z + 4] = "r" /\ x[y + z + 5] = "n"
  <2>1. b \in Seq(ByteClasses) /\ f \in Seq(ByteClasses) /\ y \in Nat /\ y = Len(b) /\ z = Len(f)
    BY <1>1, <1>2, <1>3, <1>4
  <2>2. Headed(x, b, f, y, z)
    BY <2>1, HeaderIs
  <2> QED BY <2>2 DEF Headed
<1>6. h = y + z + 5 /\ l = y + 2
  BY <1>1, <1>5
<1>7. h \in Nat /\ l \in Nat /\ 3 <= l /\ l <= h - 3
  BY <1>2, <1>4, <1>1, <1>6
<1> HIDE DEF x
<1>8. a \in Seq(ByteClasses) /\ Len(a) = 2 /\ a[1] # "?" /\ a[2] # "?"
  BY AnswerIs
<1> DEFINE m == x \o a
<1>9. /\ m \in Seq(ByteClasses) /\ Len(m) = h + 2 /\ \A k \in 1..h : m[k] = x[k]
      /\ \A k \in 1..2 : m[h + k] = a[k]
  <2>1. x \in Seq(ByteClasses) /\ h \in Nat /\ h = Len(x) /\ 2 \in Nat
    BY <1>5, <1>7 DEF x
  <2>2. Joined(ByteClasses, m, x, a, h, 2)
    BY <1>8, <2>1, JoinIs
  <2> QED BY <2>2 DEF Joined
<1> HIDE DEF m
<1>10. m[1] = "K" /\ m[l] = "L" /\ m[h - 2] = "n" /\ m[h - 1] = "r" /\ m[h] = "n"
  <2>1. 1 \in 1..h /\ l \in 1..h /\ h - 2 \in 1..h /\ h - 1 \in 1..h /\ h \in 1..h
    BY <1>7
  <2>2. h - 2 = y + z + 3 /\ h - 1 = y + z + 4
    BY <1>2, <1>4, <1>6
  <2> QED BY <1>5, <1>6, <1>9, <2>1, <2>2
<1>11. ASSUME NEW k \in 2..(l - 1) PROVE m[k] # "L" /\ m[k] # "?"
  <2>1. k - 1 \in 1..y /\ 1 + (k - 1) = k /\ k \in 1..h
    BY <1>2, <1>6, <1>7
  <2>2. x[1 + (k - 1)] = b[k - 1] /\ b[k - 1] # "L" /\ b[k - 1] # "?"
    BY <1>2, <1>5, <2>1
  <2> QED BY <1>9, <2>1, <2>2
<1>12. \A k \in 1..z : m[l + k] = f[k]
  <2> TAKE k \in 1..z
  <2>1. l + k \in 1..h
    BY <1>2, <1>4, <1>6
  <2> QED BY <1>5, <1>6, <1>9, <2>1
<1>13. ASSUME NEW k \in l..(h - 4) PROVE ~(m[k + 1] = "n" /\ m[k + 2] = "r" /\ m[k + 3] = "n")
  <2>1. z = 3 /\ h = l + 6 /\ k \in l..(l + 2)
    <3>1. z = 0 \/ z = 3
      BY <1>4
    <3> QED BY <1>2, <1>6, <3>1
  <2>2. m[l + 1] = "n" /\ m[l + 2] = "x" /\ m[l + 3] = "r"
    BY <1>4, <1>12, <2>1
  <2>3. CASE k = l
    BY <2>2, <2>3
  <2>4. CASE k = l + 1
    <3>1. k + 1 = l + 2
      BY <1>7, <2>4
    <3> QED BY <2>2, <3>1
  <2>5. CASE k = l + 2
    <3>1. k + 1 = l + 3
      BY <1>7, <2>5
    <3> QED BY <2>2, <3>1
  <2> QED BY <1>7, <2>1, <2>3, <2>4, <2>5
<1>14. ASSUME NEW k \in 1..(h + 2) PROVE m[k] # "?"
  <2>1. CASE k \in 2..(l - 1)
    BY <1>11, <2>1
  <2>2. CASE k \in {1, l, h - 2, h - 1, h}
    BY <1>10, <2>2
  <2>3. CASE k \in (l + 1)..(h - 3)
    <3>1. z = 3 /\ h = l + 6 /\ k \in (l + 1)..(l + 3)
      <4>1. z = 0 \/ z = 3
        BY <1>4
      <4> QED BY <1>2, <1>6, <2>3, <4>1
    <3>2. m[l + 1] = "n" /\ m[l + 2] = "x" /\ m[l + 3] = "r"
      BY <1>4, <1>12, <3>1
    <3>3. k = l + 1 \/ k = l + 2 \/ k = l + 3
      BY <1>7, <3>1
    <3> QED BY <3>2, <3>3
  <2>4. CASE k = h + 1 \/ k = h + 2
    BY <1>8, <1>9, <2>4
  <2> QED BY <1>7, <2>1, <2>2, <2>3, <2>4
<1>15. m[h + 1] = a[1] /\ m[h + 2] = a[2]
  BY <1>9
<1> QED BY <1>7, <1>9, <1>10, <1>11, <1>13, <1>14, <1>15 DEF Response, m, x

\* The reads of a response: in one piece, or in two that are its first n bytes and the rest.
LEMMA PiecesAre ==
  ASSUME NEW m \in Seq(ByteClasses), NEW e \in Nat, e = Len(m), e > 0, NEW n \in 0..(e - 1)
  PROVE \/ n = 0 /\ Cut(m, n) = <<m>> /\ FirstOf(m, m, e)
        \/ /\ n > 0 /\ \E p, s : Cut(m, n) = <<p, s>> /\ FirstOf(p, m, n) /\ RestOf(s, m, n, e)
<1>1. CASE n = 0
  BY <1>1 DEF Cut, FirstOf
<1>2. CASE n # 0
  <2>1. n \in 1..e
    BY <1>2
  <2>2. FirstOf(SubSeq(m, 1, n), m, n) /\ RestOf(SubSeq(m, n + 1, Len(m)), m, n, e)
    BY <2>1, CutIs
  <2>3. Cut(m, n) = <<SubSeq(m, 1, n), SubSeq(m, n + 1, Len(m))>>
    BY <1>2 DEF Cut
  <2>4. PICK p, s : p = SubSeq(m, 1, n) /\ s = SubSeq(m, n + 1, Len(m))
    OBVIOUS
  <2>5. Cut(m, n) = <<p, s>> /\ FirstOf(p, m, n) /\ RestOf(s, m, n, e)
    BY <2>2, <2>3, <2>4
  <2>6. n > 0
    BY <1>2
  <2> QED BY <2>5, <2>6
<1> QED BY <1>1, <1>2

\* A read of a response that has not begun.
LEMMA ArrivingStep ==
  ASSUME NEW m, NEW l, NEW h, NEW a, Response(m, l, h, a), NEW n \in {0, l - 1, l, h},
         Arriving(m, n), v7 = FALSE, Status!Next
  PROVE v1' = v1 /\ v7' = FALSE /\ v3' # "done" /\ (Arriving(m, n)' \/ Parsing(m, l, h, n)')
<1>0. /\ l \in Nat /\ h \in Nat /\ 3 <= l /\ l <= h - 3
      /\ m \in Seq(ByteClasses) /\ Len(m) = h + 2 /\ m[1] = "K"
  BY DEF Response
<1>1. v3 = "status"
  BY DEF Arriving
<1>2. \/ n = 0 /\ Cut(m, n) = <<m>> /\ FirstOf(m, m, h + 2)
      \/ /\ n > 0 /\ n \in Nat /\ n <= h
         /\ \E p, s : Cut(m, n) = <<p, s>> /\ FirstOf(p, m, n) /\ RestOf(s, m, n, h + 2)
  <2>1. h + 2 \in Nat /\ h + 2 > 0 /\ n \in 0..((h + 2) - 1) /\ n <= h
    BY <1>0
  <2> QED BY <1>0, <2>1, PiecesAre
<1>3. /\ v2 # <<>> => /\ v2' = Tail(v2) /\ v4' = Head(v2) /\ v6' = Len(v4') /\ v5' = 1
                      /\ v3' = CASE v4'[1] = "K" -> "length" [] v4'[1] = "E" -> "done" [] OTHER -> "status"
                      /\ v1' = v1 /\ v7' = v7
  BY <1>1 DEF Status!Next, Status!ReadStatus, Status!readmore, Status!GiveUp, Status!Enough,
              Status!FindLength, Status!FindEnd, Status!Ipp, Status!NeedMore
\* An informational answer comes first.
<1>4. CASE v2 = << <<"I", "n", "r", "n">> >> \o Cut(m, n)
  <2>1. Head(v2) = <<"I", "n", "r", "n">> /\ Tail(v2) = Cut(m, n) /\ v2 # <<>>
    BY <1>2, <1>4, PieceFirst
  <2>2. <<"I", "n", "r", "n">>[1] = "I"
    OBVIOUS
  <2>3. v2' = Cut(m, n) /\ v3' = "status" /\ v1' = v1 /\ v7' = v7
    BY <1>3, <2>1, <2>2
  <2> QED BY <2>3 DEF Arriving
\* The response, in one read.
<1>5. CASE v2 = Cut(m, n) /\ n = 0
  <2>1. v2 = <<m>> /\ Head(v2) = m /\ Tail(v2) = <<>> /\ v2 # <<>>
    <3>1. v2 = <<m>>
      BY <1>2, <1>5
    <3> QED BY <3>1, PieceFirst
  <2>2. v4' = m /\ v2' = <<>> /\ v6' = h + 2 /\ v5' = 1 /\ v3' = "length" /\ v1' = v1 /\ v7' = v7
    BY <1>0, <1>3, <2>1
  <2>3. AllRead(m, h)'
    <3>1. FirstOf(v4', m, h + 2)
      BY <1>2, <1>5, <2>2
    <3>2. v6' \in Nat /\ v6' >= h + 2 /\ v2' = <<>>
      BY <1>0, <2>2
    <3> QED BY <3>1, <3>2 DEF AllRead, FirstOf
  <2>4. v5' \in 1..(l - 1)
    BY <1>0, <2>2
  <2> QED BY <2>2, <2>3, <2>4 DEF Parsing
\* Its first part.
<1>6. CASE v2 = Cut(m, n) /\ n # 0
  <2>1. PICK p, s : v2 = <<p, s>> /\ FirstOf(p, m, n) /\ RestOf(s, m, n, h + 2)
    BY <1>2, <1>6
  <2>2. n \in Nat /\ n > 0
    BY <1>2, <1>6
  <2>3. Head(v2) = p /\ Tail(v2) = <<s>> /\ v2 # <<>>
    BY <2>1, PieceFirst
  <2>4. Len(p) = n /\ p[1] = m[1]
    BY <2>1, <2>2 DEF FirstOf
  <2>5. v4' = p /\ v2' = <<s>> /\ v6' = n /\ v5' = 1 /\ v3' = "length" /\ v1' = v1 /\ v7' = v7
    BY <1>0, <1>3, <2>3, <2>4
  <2>6. FirstRead(m, h, n)'
    <3>1. FirstOf(v4', m, n) /\ v6' = n /\ \E q1 : v2' = <<q1>> /\ RestOf(q1, m, n, h + 2)
      BY <2>1, <2>5
    <3> QED BY <3>1 DEF FirstRead, FirstOf, RestOf
  <2>7. v5' \in 1..(l - 1) /\ n \in {l - 1, l, h}
    BY <1>0, <2>2, <2>5
  <2> QED BY <2>5, <2>6, <2>7 DEF Parsing
<1> QED BY <1>4, <1>5, <1>6 DEF Arriving

\* A response that is not one: the parse never takes it for success.
LEMMA BrokenStep ==
  ASSUME BrokenRight, v7 = FALSE, v3 # "done", Status!Next
  PROVE /\ v1' = v1 /\ v7' = FALSE
        /\ v3' # "done" => BrokenRight'
<1>0. v1.ok = FALSE
  BY DEF BrokenRight
<1>1. CASE v3 = "status" /\ v2 = <<>>
  <2>1. v3' = "done" /\ v1' = v1 /\ v7' = v7
    BY <1>1 DEF Status!Next, Status!ReadStatus, Status!readmore, Status!GiveUp, Status!Enough,
              Status!FindLength, Status!FindEnd, Status!Ipp, Status!NeedMore
  <2> QED BY <2>1
<1>2. CASE v3 = "status" /\ v2 # <<>>
  <2>1. /\ v2' = Tail(v2) /\ v4' = Head(v2) /\ v6' = Len(v4') /\ v5' = 1
        /\ v3' = CASE v4'[1] = "K" -> "length" [] v4'[1] = "E" -> "done" [] OTHER -> "status"
        /\ v1' = v1 /\ v7' = v7
    BY <1>2 DEF Status!Next, Status!ReadStatus, Status!readmore, Status!GiveUp, Status!Enough,
              Status!FindLength, Status!FindEnd, Status!Ipp, Status!NeedMore
  <2>2. CASE v2 = << <<"Z">>, <<"Z">> >>
    <3>1. Head(v2) = <<"Z">> /\ Tail(v2) = << <<"Z">> >> /\ <<"Z">>[1] = "Z"
      BY <2>2, PieceFirst
    <3>2. v3' = "status" /\ v2' = << <<"Z">> >>
      BY <2>1, <3>1
    <3>3. \E s : v2' = <<s>> /\ s[1] # "K"
      BY <3>1, <3>2
    <3> QED BY <1>0, <2>1, <3>2, <3>3 DEF BrokenRight
  <2>3. CASE v2 # << <<"Z">>, <<"Z">> >>
    <3>1. PICK s : v2 = <<s>> /\ (s[1] # "K" \/ Short(s))
      BY <1>2, <2>3 DEF BrokenRight
    <3>2. v4' = s /\ v2' = <<>>
      BY <2>1, <3>1, PieceFirst
    <3>3. CASE s[1] = "K"
      <4>1. v3' = "length" /\ v6' = Len(v4') /\ v5' = 1
        BY <2>1, <3>2, <3>3
      <4>2. Short(v4')
        BY <3>1, <3>2, <3>3
      <4>3. Short(v4)'
        BY <4>2 DEF Short
      <4> QED BY <1>0, <2>1, <3>2, <4>1, <4>3 DEF BrokenRight
    <3>4. CASE s[1] # "K"
      <4>1. v3' = "done" \/ v3' = "status"
        BY <2>1, <3>2, <3>4
      <4> QED BY <1>0, <2>1, <3>2, <4>1 DEF BrokenRight
    <3> QED BY <3>3, <3>4
  <2> QED BY <2>2, <2>3
<1>3. CASE v3 # "status"
  <2>1. /\ v3 \in {"length", "gap", "end", "found", "body"} /\ v5 \in Nat /\ v2 = <<>> /\ Short(v4)
        /\ v6 = Len(v4) /\ (v3 \in {"found", "body"} => v5 + 2 > v6)
    BY <1>3 DEF BrokenRight
  <2>2. PICK e \in Nat : e = v6 /\ e = Len(v4)
    BY <2>1, SeqIs DEF Short
  <2>3. ASSUME v4' = v4, v2' = v2, v6' = v6, v1' = v1, v5' \in Nat,
               v3' \in {"length", "gap", "end", "found", "body"},
               v3' \in {"found", "body"} => v5' + 2 > e
        PROVE BrokenRight'
    <3>1. Short(v4)'
      BY <2>1, <2>3 DEF Short
    <3> QED BY <1>0, <2>1, <2>2, <2>3, <3>1 DEF BrokenRight
  <2>4. CASE Status!ReadStatus \/ Status!readmore \/ Status!Ipp
    BY <2>1, <2>4 DEF Status!ReadStatus, Status!readmore, Status!Ipp
  <2>5. CASE Status!GiveUp
    BY <2>5 DEF Status!GiveUp
  <2>6. CASE Status!Enough
    <3>1. /\ v4' = v4 /\ v2' = v2 /\ v6' = v6 /\ v1' = v1 /\ v5' = v5 /\ v7' = v7
          /\ \/ v3 = "gap" /\ v3' = "end"
             \/ v3 = "found" /\ v3' = "body"
             \/ v3 = "body" /\ v3' = "ipp" /\ ~(v5 + Status!len > v6)
      BY <2>6 DEF Status!Enough, Status!After, Status!NeedMore
    <3>2. ~(v3 = "body" /\ v3' = "ipp")
      BY <2>1, <2>2, <3>1, AnswerIs
    <3>3. /\ v3' \in {"length", "gap", "end", "found", "body"}
          /\ v3' \in {"found", "body"} => v5' + 2 > e
      BY <2>1, <2>2, <3>1, <3>2
    <3> QED BY <2>1, <2>3, <3>1, <3>3
  <2>7. CASE Status!FindLength
    <3>1. /\ v4' = v4 /\ v2' = v2 /\ v6' = v6 /\ v1' = v1 /\ v5' = v5 + 1 /\ v7' = v7
          /\ v3' \in {"length", "gap"}
      BY <2>7 DEF Status!FindLength
    <3>2. v5' \in Nat
      BY <2>1, <3>1
    <3> QED BY <2>3, <3>1, <3>2
  <2>8. CASE Status!FindEnd
    <3>1. v4' = v4 /\ v2' = v2 /\ v6' = v6 /\ v1' = v1 /\ v7' = v7 /\ v5 + 2 < e
      BY <2>2, <2>8 DEF Status!FindEnd
    <3>2. \A k \in 1..3 : v5 + k \in 1..e /\ ~Status!Garbage(v5 + k)
      BY <2>1, <2>2, <3>1 DEF Status!Garbage, Short
    <3>3. \/ /\ \A k \in 1..3 : v4[v5 + k] = <<"n", "r", "n">>[k]
             /\ v5' = v5 + 3 /\ v3' = "found"
          \/ v5' = v5 + 1 /\ v3' = "end"
      BY <2>8, <3>2 DEF Status!FindEnd
    <3>4. CASE v5' = v5 + 1 /\ v3' = "end"
      <4>1. v5' \in Nat
        BY <2>1, <3>4
      <4> QED BY <2>3, <3>1, <3>4, <4>1
    <3>5. CASE /\ \A k \in 1..3 : v4[v5 + k] = <<"n", "r", "n">>[k]
               /\ v5' = v5 + 3 /\ v3' = "found"
      <4>1. <<"n", "r", "n">>[1] = "n" /\ <<"n", "r", "n">>[2] = "r" /\ <<"n", "r", "n">>[3] = "n"
        OBVIOUS
      <4>2. v4[v5 + 1] = "n" /\ v4[v5 + 2] = "r" /\ v4[v5 + 3] = "n"
        BY <3>5, <4>1
      <4>3. v5 \in 0..(e - 3)
        BY <2>1, <3>1
      <4>4. v5 + 5 > e
        BY <2>1, <2>2, <4>2, <4>3 DEF Short
      <4>5. v5' \in Nat /\ v5' + 2 > e
        BY <2>1, <2>2, <3>5, <4>4
      <4> QED BY <2>3, <3>1, <3>5, <4>5
    <3> QED BY <3>3, <3>4, <3>5
  <2> QED BY <2>4, <2>5, <2>6, <2>7, <2>8 DEF Status!Next
<1> QED BY <1>1, <1>2, <1>3

\* A step of the parse.
LEMMA StatusKept ==
  ASSUME StatusInv, Status!Next
  PROVE StatusInv'
<1>1. v3 # "done"
  BY DEF Status!Next, Status!ReadStatus, Status!readmore, Status!GiveUp, Status!Enough,
         Status!FindLength, Status!FindEnd, Status!Ipp, Status!NeedMore
<1>2. v7 = FALSE /\ (TidyRight \/ BrokenRight)
  BY <1>1 DEF StatusInv
<1>3. CASE TidyRight
  <2>1. PICK b \in Before, f \in Following, a \in IppAnswers :
          \E n \in {0, Len(b) + 1, Len(b) + 2, Len(Header(b, f))} :
            /\ v1.ok = (a = Ok)
            /\ \/ Arriving(Header(b, f) \o a, n)
               \/ Parsing(Header(b, f) \o a, Len(b) + 2, Len(Header(b, f)), n)
    BY <1>3 DEF TidyRight
  <2>2. PICK m, l, h : m = Header(b, f) \o a /\ l = Len(b) + 2 /\ h = Len(Header(b, f))
    OBVIOUS
  <2>3. l - 1 = Len(b) + 1
    <3>1. PICK y \in {1, 3, 4} : y = Len(b)
      BY PartsAre
    <3> QED BY <2>2, <3>1
  <2>4. PICK n \in {0, l - 1, l, h} : v1.ok = (a = Ok) /\ (Arriving(m, n) \/ Parsing(m, l, h, n))
    BY <2>1, <2>2, <2>3
  <2>5. Response(m, l, h, a)
    BY <2>2, ResponseIs
  <2>6. ASSUME v1' = v1, Arriving(m, n)' \/ Parsing(m, l, h, n)'
        PROVE TidyRight'
    <3>1. n \in {0, Len(b) + 1, Len(b) + 2, Len(Header(b, f))} /\ v1'.ok = (a = Ok)
      BY <2>2, <2>3, <2>4, <2>6
    <3>2. \/ Arriving(Header(b, f) \o a, n)'
          \/ Parsing(Header(b, f) \o a, Len(b) + 2, Len(Header(b, f)), n)'
      BY <2>2, <2>6
    <3> QED BY <3>1, <3>2 DEF TidyRight
  <2>7. CASE Arriving(m, n)
    BY <1>2, <2>5, <2>6, <2>7, ArrivingStep DEF StatusInv
  <2>8. CASE Parsing(m, l, h, n)
    <3>1. /\ v1' = v1
          /\ \/ Parsing(m, l, h, n)' /\ v3' # "done" /\ v7' = FALSE
             \/ v3' = "done" /\ v7' = v1.ok
      BY <1>2, <2>4, <2>5, <2>8, ResponseStep
    <3> QED BY <2>6, <3>1 DEF StatusInv
  <2> QED BY <2>4, <2>7, <2>8
<1>4. CASE BrokenRight
  <2>1. v1' = v1 /\ v7' = FALSE /\ (v3' # "done" => BrokenRight')
    BY <1>1, <1>2, <1>4, BrokenStep
  <2>2. v1.ok = FALSE
    BY <1>4 DEF BrokenRight
  <2> QED BY <2>1, <2>2 DEF StatusInv
<1> QED BY <1>2, <1>3, <1>4

LEMMA StatusStill ==
  ASSUME StatusInv, UNCHANGED vars
  PROVE StatusInv'
<1>1. v1' = v1 /\ v2' = v2 /\ v3' = v3 /\ v4' = v4 /\ v5' = v5 /\ v6' = v6 /\ v7' = v7
  BY DEF vars
<1>2. ASSUME TidyRight PROVE TidyRight'
  <2>1. PICK b \in Before, f \in Following, a \in IppAnswers :
          \E n \in {0, Len(b) + 1, Len(b) + 2, Len(Header(b, f))} :
            /\ v1.ok = (a = Ok)
            /\ \/ Arriving(Header(b, f) \o a, n)
               \/ Parsing(Header(b, f) \o a, Len(b) + 2, Len(Header(b, f)), n)
    BY <1>2 DEF TidyRight
  <2>2. PICK n \in {0, Len(b) + 1, Len(b) + 2, Len(Header(b, f))} :
          /\ v1.ok = (a = Ok)
          /\ \/ Arriving(Header(b, f) \o a, n)
             \/ Parsing(Header(b, f) \o a, Len(b) + 2, Len(Header(b, f)), n)
    BY <2>1
  <2>3. Arriving(Header(b, f) \o a, n) => Arriving(Header(b, f) \o a, n)'
    BY <1>1 DEF Arriving
  <2>4. Parsing(Header(b, f) \o a, Len(b) + 2, Len(Header(b, f)), n)
          => Parsing(Header(b, f) \o a, Len(b) + 2, Len(Header(b, f)), n)'
    <3>1. \A m, h : AllRead(m, h) => AllRead(m, h)'
      BY <1>1 DEF AllRead, FirstOf
    <3>2. \A m, h, k : FirstRead(m, h, k) => FirstRead(m, h, k)'
      BY <1>1 DEF FirstRead, FirstOf, RestOf
    <3> QED BY <1>1, <3>1, <3>2 DEF Parsing
  <2> QED BY <1>1, <2>2, <2>3, <2>4 DEF TidyRight
<1>3. ASSUME BrokenRight PROVE BrokenRight'
  BY <1>1, <1>3 DEF BrokenRight, Short
<1> QED BY <1>1, <1>2, <1>3 DEF StatusInv

\* The responses that are not whole.
LEMMA ShortOnes ==
  /\ Short(<<"K", "n", "x", "r", "n">>) /\ Short(<<"K", "n", "L">>)
  /\ Short(Header(<<"n">>, <<>>)) /\ Short(Header(<<"n">>, <<>>) \o <<"a1">>)
<1>0. /\ "K" \in ByteClasses /\ "L" \in ByteClasses /\ "n" \in ByteClasses /\ "r" \in ByteClasses
      /\ "x" \in ByteClasses /\ "a1" \in ByteClasses
  BY DEF ByteClasses
<1>1. Short(<<"K", "n", "x", "r", "n">>)
  <2>1. PICK s : s = <<"K", "n", "x", "r", "n">>
    OBVIOUS
  <2>2. /\ s \in Seq(ByteClasses) /\ Len(s) = 5
        /\ s[1] = "K" /\ s[2] = "n" /\ s[3] = "x" /\ s[4] = "r" /\ s[5] = "n"
    BY <1>0, <2>1, ManyIs
  <2>3. \A k \in 1..5 : s[k] # "?"
    BY <2>2
  <2>4. ASSUME NEW k \in 0..2 PROVE ~(s[k + 1] = "n" /\ s[k + 2] = "r" /\ s[k + 3] = "n")
    <3>1. k = 0 \/ k = 1 \/ k = 2
      OBVIOUS
    <3> QED BY <2>2, <3>1
  <2>5. 5 - 3 = 2
    OBVIOUS
  <2>6. Short(s)
    BY <2>2, <2>3, <2>4, <2>5 DEF Short
  <2> QED BY <2>1, <2>6
<1>2. Short(<<"K", "n", "L">>)
  <2>1. PICK s : s = <<"K", "n", "L">>
    OBVIOUS
  <2>2. s \in Seq(ByteClasses) /\ Len(s) = 3 /\ s[1] = "K" /\ s[2] = "n" /\ s[3] = "L"
    BY <1>0, <2>1, ManyIs
  <2>3. \A k \in 1..3 : s[k] # "?"
    BY <2>2
  <2>4. ASSUME NEW k \in 0..0 PROVE ~(s[k + 1] = "n" /\ s[k + 2] = "r" /\ s[k + 3] = "n")
    BY <2>2
  <2>5. 3 - 3 = 0
    OBVIOUS
  <2>6. Short(s)
    BY <2>2, <2>3, <2>4, <2>5 DEF Short
  <2> QED BY <2>1, <2>6
<1>3. PICK x : x = Header(<<"n">>, <<>>)
  OBVIOUS
<1>4. /\ x \in Seq(ByteClasses) /\ Len(x) = 6
      /\ x[1] = "K" /\ x[2] = "n" /\ x[3] = "L" /\ x[4] = "n" /\ x[5] = "r" /\ x[6] = "n"
  <2>1. PICK b : b = <<"n">>
    OBVIOUS
  <2>2. PICK f : f = <<>>
    OBVIOUS
  <2>3. b \in Seq(ByteClasses) /\ Len(b) = 1 /\ b[1] = "n"
    BY <1>0, <2>1, OneIs
  <2>4. f \in Seq(ByteClasses) /\ Len(f) = 0
    BY <1>0, <2>2, OneIs
  <2>5. 1 \in Nat /\ 0 \in Nat
    OBVIOUS
  <2>6. Headed(x, b, f, 1, 0)
    BY <1>3, <2>1, <2>2, <2>3, <2>4, <2>5, HeaderIs
  <2>7. /\ x \in Seq(ByteClasses) /\ Len(x) = 6 /\ x[1] = "K" /\ \A k \in 1..1 : x[1 + k] = b[k]
        /\ x[3] = "L" /\ x[4] = "n" /\ x[5] = "r" /\ x[6] = "n"
    BY <2>6 DEF Headed
  <2> QED BY <2>3, <2>7
<1>5. Short(x)
  <2>3. \A k \in 1..6 : x[k] # "?"
    BY <1>4
  <2>4. ASSUME NEW k \in 0..3, x[k + 1] = "n" /\ x[k + 2] = "r" /\ x[k + 3] = "n" PROVE k + 5 > 6
    <3>1. k = 0 \/ k = 1 \/ k = 2 \/ k = 3
      OBVIOUS
    <3> QED BY <1>4, <2>4, <3>1
  <2>5. 6 - 3 = 3
    OBVIOUS
  <2> QED BY <1>4, <2>3, <2>4, <2>5 DEF Short
<1>6. Short(x \o <<"a1">>)
  <2> DEFINE s == x \o <<"a1">>
  <2>1. <<"a1">> \in Seq(ByteClasses) /\ Len(<<"a1">>) = 1 /\ <<"a1">>[1] = "a1"
    BY <1>0, OneIs
  <2>2. 6 \in Nat /\ 1 \in Nat
    OBVIOUS
  <2>3. Joined(ByteClasses, s, x, <<"a1">>, 6, 1)
    BY <1>4, <2>1, <2>2, JoinIs
  <2> HIDE DEF s
  <2>4. s \in Seq(ByteClasses) /\ Len(s) = 7 /\ \A k \in 1..6 : s[k] = x[k]
    BY <2>3 DEF Joined
  <2>5. s[7] = "a1"
    BY <2>1, <2>3 DEF Joined
  <2>6. s[1] = "K" /\ s[2] = "n" /\ s[3] = "L" /\ s[4] = "n" /\ s[5] = "r" /\ s[6] = "n"
    BY <1>4, <2>4
  <2>7. \A k \in 1..7 : s[k] # "?"
    BY <2>5, <2>6
  <2>8. ASSUME NEW k \in 0..4, s[k + 1] = "n" /\ s[k + 2] = "r" /\ s[k + 3] = "n" PROVE k + 5 > 7
    <3>1. k = 0 \/ k = 1 \/ k = 2 \/ k = 3 \/ k = 4
      OBVIOUS
    <3> QED BY <2>5, <2>6, <2>8, <3>1
  <2>9. 7 - 3 = 4
    OBVIOUS
  <2>10. Short(s)
    BY <2>4, <2>7, <2>8, <2>9 DEF Short
  <2> QED BY <2>10 DEF s
<1> QED BY <1>1, <1>2, <1>3, <1>5, <1>6

\* The conversation begins.
LEMMA StatusStarts ==
  ASSUME Status!Init
  PROVE StatusInv
<1>1. v1 \in MCTidy /\ v2 = v1.reads /\ v3 = "status" /\ v7 = FALSE
  BY DEF Status!Init
<1>2. CASE v1 \in Tidy
  <2>1. PICK x \in Answers :
          v1 \in {[reads |-> p \o Cut(x[1] \o x[2], n), ok |-> x[2] = Ok] : p \in Informational, n \in x[3]}
    BY <1>2 DEF Tidy
  <2>2. PICK b \in Before, f \in Following, a \in IppAnswers :
          x = <<Header(b, f), a, {0, Len(b) + 1, Len(b) + 2, Len(Header(b, f))}>>
    BY <2>1 DEF Answers, IppAnswers
  <2>3. PICK m, h, N : /\ m = Header(b, f) \o a /\ h = Len(Header(b, f))
                       /\ N = {0, Len(b) + 1, Len(b) + 2, Len(Header(b, f))}
    OBVIOUS
  <2>4. x[1] \o x[2] = m /\ x[2] = a /\ x[3] = N
    BY <2>2, <2>3
  <2>5. PICK p \in Informational, n \in N : v1 = [reads |-> p \o Cut(m, n), ok |-> (a = Ok)]
    BY <2>1, <2>4
  <2>6. v2 = p \o Cut(m, n) /\ v1.ok = (a = Ok)
    BY <1>1, <2>5
  <2>7. v2 = Cut(m, n) \/ v2 = << <<"I", "n", "r", "n">> >> \o Cut(m, n)
    <3>1. <<>> \o Cut(m, n) = Cut(m, n)
      BY PieceFirst DEF Cut
    <3> QED BY <2>6, <3>1 DEF Informational
  <2>8. Arriving(m, n)
    BY <1>1, <2>7 DEF Arriving
  <2>9. TidyRight
    BY <2>3, <2>6, <2>8 DEF TidyRight
  <2> QED BY <1>1, <2>9 DEF StatusInv
<1>3. CASE v1 \in Broken
  <2>1. PICK r \in { << >>, << <<"E", "n", "r", "n">> >>, << <<"Z">>, <<"Z">> >>,
                     << <<"K", "n", "x", "r", "n">> >>, << <<"K", "n", "L">> >>,
                     << Header(<<"n">>, <<>>) >>, << Header(<<"n">>, <<>>) \o <<"a1">> >> } :
          v1 = [reads |-> r, ok |-> FALSE]
    BY <1>3 DEF Broken
  <2>2. v2 = r /\ v1.ok = FALSE
    BY <1>1, <2>1
  <2>3. <<"E", "n", "r", "n">>[1] # "K"
    OBVIOUS
  <2>4. \/ v2 = <<>> \/ v2 = << <<"Z">>, <<"Z">> >>
        \/ \E s : v2 = <<s>> /\ (s[1] # "K" \/ Short(s))
    BY <2>1, <2>2, <2>3, ShortOnes
  <2>5. BrokenRight
    BY <1>1, <2>2, <2>4 DEF BrokenRight
  <2> QED BY <1>1, <2>5 DEF StatusInv
<1> QED BY <1>1, <1>2, <1>3 DEF MCTidy

\* printer_status tells what the printer answered.
LEMMA StatusTells ==
  ASSUME StatusInv
  PROVE Status!StatusRight
BY DEF StatusInv, Status!StatusRight
-----------------------------------------------------------------------------
(* FdPassing: v1 variant, v2 slack, v3 pipe, v4 call, v5 inbox, v6 chan, v7 srv,
   v8 result. *)
Wire == [b : {"text", "null", "status"}, v : Nat, n : Nat]
ErrLen == 1..(MAXLINE - 2)

\* The two bytes of send_fd.
ControlByte(n, code) ==
  [b |-> "null", v |-> IF code = 0 THEN Passing!CONTROLLEN + v2 ELSE 0, n |-> n]
StatusByte(n, code) == [b |-> "status", v |-> IF code = 0 THEN 0 ELSE Passing!status(code), n |-> n]

\* In the stream: k bytes of the text of the answer to call n, or the whole rest of it.
TextsOf(s, n, k) == s \in Seq(Wire) /\ Len(s) = k /\ \A j \in 1..k : s[j] = Passing!Text(n)
AnswerOf(s, n, k, code) ==
  /\ s \in Seq(Wire) /\ Len(s) = k + 2 /\ \A j \in 1..k : s[j] = Passing!Text(n)
  /\ s[k + 1] = ControlByte(n, code) /\ s[k + 2] = StatusByte(n, code)

\* Between two calls nothing is on its way, but what a dead server did not read.
BetweenCalls ==
  /\ v6 = <<>> /\ v8.call = v4.n /\ v4.shown = 0 /\ v7 = Passing!Idle
  /\ v3 # "down" => v5 = <<>>

\* During call n: the request, the part of the answer not written, the part not read,
\* or what is left when the server has died.
Requested == v5 = <<v4.n>> /\ v6 = <<>> /\ v7 = Passing!Idle /\ v4.shown = 0
Answering ==
  /\ v5 = <<>> /\ v3 = "up" /\ v7.call = v4.n /\ v7.code \in Codes \cup {0}
  /\ \E k \in Nat :
       /\ TextsOf(v6, v4.n, k)
       /\ IF v7.code = 0 THEN v7.text = 0 /\ k = 0 /\ v4.shown = 0
                         ELSE v4.shown + k + v7.text \in ErrLen
Answered ==
  /\ v5 = <<>> /\ v7 = Passing!Idle
  /\ \E k \in 0..(MAXLINE - 2), code \in Codes \cup {0} :
       /\ AnswerOf(v6, v4.n, k, code)
       /\ IF code = 0 THEN k = 0 /\ v4.shown = 0 ELSE v4.shown + k \in ErrLen
CutOff ==
  /\ v3 = "down" /\ v7 = Passing!Idle
  /\ \E k \in Nat : TextsOf(v6, v4.n, k) /\ v4.shown + k <= MAXLINE - 2

FdInv ==
  /\ v1 \in {"fd", "Ofd", "ufd"} /\ v2 \in Nat /\ (v2 = 0 \/ v1 = "fd")
  /\ v3 \in {"none", "orphan", "up", "down"}
  /\ v4 \in [waits : BOOLEAN, n : Nat, shown : Nat]
  /\ v7 \in [call : Nat, text : Nat, code : Nat]
  /\ v4.waits => v4.n > 0 /\ (Requested \/ Answering \/ Answered \/ CutOff)
  /\ ~v4.waits => BetweenCalls
  /\ v8.kind # "dump"
  /\ v8.kind = "err" => v8.shown \in ErrLen
  /\ v8.kind = "fd" => v8.shown = 0

\* The bytes are of the stream's set, and a status of an error is not 0.
LEMMA WireIs ==
  ASSUME v1 \in {"fd", "Ofd", "ufd"}, v2 \in Nat, NEW n \in Nat, NEW code \in Codes \cup {0}
  PROVE /\ Passing!Text(n) \in Wire /\ ControlByte(n, code) \in Wire /\ StatusByte(n, code) \in Wire
        /\ Passing!Text(n).b = "text"
        /\ Passing!CONTROLLEN \in Nat /\ Passing!CONTROLLEN > 0
        /\ code # 0 => Passing!status(code) \in Nat \ {0}
        /\ Passing!send_fd(n, code) = <<ControlByte(n, code), StatusByte(n, code)>>
<1>1. MAXLINE \in Nat /\ MAXLINE > 2 /\ Codes \subseteq Nat \ {0}
  BY ProgramsAssumption DEF Passing!FdAssumption
<1>2. Passing!CONTROLLEN \in Nat /\ Passing!CONTROLLEN > 0
  BY DEF Passing!CONTROLLEN, Passing!RIGHTSLEN, Passing!CREDSLEN
<1>3. code \in Nat /\ code % 256 \in 0..255
  BY <1>1
<1>4. Passing!status(code) \in Nat \ {0}
  BY <1>3 DEF Passing!status
<1>5. Passing!Text(n) = [b |-> "text", v |-> 0, n |-> n]
  BY DEF Passing!Text, Passing!Byte
<1>6. (IF code = 0 THEN Passing!CONTROLLEN + v2 ELSE 0) \in Nat
  BY <1>2
<1>7. (IF code = 0 THEN 0 ELSE Passing!status(code)) \in Nat
  BY <1>4
<1>8. Passing!send_fd(n, code) = <<ControlByte(n, code), StatusByte(n, code)>>
  <2>1. CASE code = 0
    BY <2>1 DEF Passing!send_fd, ControlByte, StatusByte, Passing!Byte
  <2>2. CASE code # 0
    BY <2>2 DEF Passing!send_fd, ControlByte, StatusByte, Passing!Byte
  <2> QED BY <2>1, <2>2
<1>9. ControlByte(n, code) \in Wire /\ StatusByte(n, code) \in Wire
  BY <1>6, <1>7 DEF ControlByte, StatusByte, Wire
<1>10. Passing!Text(n) \in Wire /\ Passing!Text(n).b = "text"
  BY <1>5 DEF Wire
<1> QED BY <1>2, <1>4, <1>8, <1>9, <1>10

\* What send_err and send_fd add to the stream.
LEMMA ErrAppends ==
  ASSUME v1 \in {"fd", "Ofd", "ufd"}, v2 \in Nat, NEW n \in Nat, NEW k \in Nat, NEW s, TextsOf(s, n, k), NEW j \in Nat
  PROVE TextsOf(s \o [i \in 1..j |-> Passing!Text(n)], n, k + j)
<1>1. Passing!Text(n) \in Wire
  <2>1. 0 \in Codes \cup {0}
    OBVIOUS
  <2> QED BY <2>1, WireIs
<1>2. PICK r : r = [i \in 1..j |-> Passing!Text(n)]
  OBVIOUS
<1>3. r \in [1..j -> Wire] /\ \A i \in 1..j : r[i] = Passing!Text(n)
  BY <1>1, <1>2
<1>4. r \in Seq(Wire)
  BY <1>3, SeqDef
<1>5. Len(r) = j
  BY <1>3, <1>4, LenProperties
<1> DEFINE t == s \o r
<1>6. Joined(Wire, t, s, r, k, j)
  BY <1>4, <1>5, JoinIs DEF TextsOf
<1> HIDE DEF t
<1>7. t \in Seq(Wire) /\ Len(t) = k + j
  BY <1>6 DEF Joined
<1>8. ASSUME NEW i \in 1..(k + j) PROVE t[i] = Passing!Text(n)
  <2>1. CASE i <= k
    BY <1>6, <2>1 DEF Joined, TextsOf
  <2>2. CASE i > k
    <3>1. PICK d \in 1..j : i = k + d
      <4>1. i - k \in 1..j /\ i = k + (i - k)
        BY <2>2
      <4> QED BY <4>1
    <3> QED BY <1>3, <1>6, <3>1 DEF Joined
  <2> QED BY <2>1, <2>2
<1> QED BY <1>2, <1>7, <1>8 DEF TextsOf, t

\* The two bytes that end an answer.
LEMMA FdAppends ==
  ASSUME v1 \in {"fd", "Ofd", "ufd"}, v2 \in Nat, NEW n \in Nat, NEW k \in Nat, NEW s, TextsOf(s, n, k),
         NEW code \in Codes \cup {0}
  PROVE AnswerOf(s \o Passing!send_fd(n, code), n, k, code)
<1>1. PICK x \in Wire, y \in Wire : x = ControlByte(n, code) /\ y = StatusByte(n, code)
  BY WireIs
<1>2. Passing!send_fd(n, code) = <<x, y>>
  BY <1>1, WireIs
<1>3. <<x, y>> \in Seq(Wire) /\ Len(<<x, y>>) = 2 /\ <<x, y>>[1] = x /\ <<x, y>>[2] = y
  BY TwoIs
<1> DEFINE t == s \o <<x, y>>
<1>4. Joined(Wire, t, s, <<x, y>>, k, 2)
  <2>1. 2 \in Nat
    OBVIOUS
  <2> QED BY <1>3, <2>1, JoinIs DEF TextsOf
<1> HIDE DEF t
<1>5. t \in Seq(Wire) /\ Len(t) = k + 2 /\ t[k + 1] = x /\ t[k + 2] = y
  BY <1>3, <1>4 DEF Joined
<1>6. \A j \in 1..k : t[j] = Passing!Text(n)
  BY <1>4 DEF Joined, TextsOf
<1>7. AnswerOf(t, n, k, code)
  BY <1>1, <1>5, <1>6 DEF AnswerOf
<1> QED BY <1>2, <1>7 DEF t

\* Min of the sets recv_fd and recvmsg take it of.
LEMMA SmallestIs ==
  /\ \A x \in Nat : Passing!Min({x}) = x
  /\ \A x, y \in Nat : y <= x => Passing!Min({x, y}) = y
<1>1. ASSUME NEW x \in Nat PROVE Passing!Min({x}) = x
  BY DEF Passing!Min
<1>2. ASSUME NEW x \in Nat, NEW y \in Nat, y <= x PROVE Passing!Min({x, y}) = y
  <2>1. y \in {x, y} /\ \A z \in {x, y} : y =< z
    BY <1>2
  <2>2. \A u \in {x, y} : (\A z \in {x, y} : u =< z) => u = y
    BY <1>2
  <2> QED BY <2>1, <2>2 DEF Passing!Min
<1> QED BY <1>1, <1>2

\* The stream is read to its end: it holds no more than one answer, which fits.
LEMMA AllOf ==
  ASSUME NEW s \in Seq(Wire), NEW e \in Nat, e = Len(s)
  PROVE SubSeq(s, 1, e) = s /\ SubSeq(s, e + 1, Len(s)) = <<>>
<1>1. SubSeq(s, 1, Len(s)) = s
  BY SubSeqFull
<1>2. e + 1 \in Int /\ e \in Int /\ e < e + 1
  OBVIOUS
<1>3. SubSeq(s, e + 1, e) = <<>>
  BY <1>2, SubSeqEmpty
<1> QED BY <1>1, <1>3

\* recv_fd of a part of an error message.
LEMMA RecvTexts ==
  ASSUME NEW n \in Nat, NEW k \in Nat, TextsOf(v6, n, k), k <= MAXLINE
  PROVE /\ Passing!recvmsg = k
        /\ Passing!recv_fd(v6) = [kind |-> "more", text |-> k, call |-> 0]
<1>0. MAXLINE \in Nat
  BY ProgramsAssumption DEF Passing!FdAssumption
<1>1. v6 \in Seq(Wire) /\ Len(v6) = k /\ DOMAIN v6 = 1..k /\ \A j \in 1..k : v6[j].b = "text"
  <2>1. Passing!Text(n).b = "text"
    BY DEF Passing!Text, Passing!Byte
  <2> QED BY <2>1, SeqIs DEF TextsOf
<1>2. Passing!Min({MAXLINE, k}) = k
  BY <1>0, SmallestIs
<1>3. {j \in 1..(k - 1) : v6[j].b = "null" /\ v6[j].v > 0} = {}
  BY <1>1
<1>4. Passing!recvmsg = k
  BY <1>1, <1>2, <1>3 DEF Passing!recvmsg
<1>5. {j \in DOMAIN v6 : v6[j].b = "null"} = {}
  BY <1>1
<1>6. Passing!recv_fd(v6) = [kind |-> "more", text |-> k, call |-> 0]
  BY <1>1, <1>5 DEF Passing!recv_fd
<1> QED BY <1>4, <1>6

\* recv_fd of what is left of an answer.
LEMMA RecvAnswer ==
  ASSUME v1 \in {"fd", "Ofd", "ufd"}, v2 \in Nat, v2 = 0 \/ v1 = "fd",
         NEW n \in Nat, NEW k \in Nat, NEW code \in Codes \cup {0}, AnswerOf(v6, n, k, code), k + 2 <= MAXLINE
  PROVE /\ Passing!recvmsg = k + 2
        /\ Passing!recv_fd(v6) = [kind |-> IF code = 0 THEN "fd" ELSE "err", text |-> k, call |-> n]
<1>0. MAXLINE \in Nat
  BY ProgramsAssumption DEF Passing!FdAssumption
<1>1. PICK e \in Nat : e = k + 2
  OBVIOUS
<1>2. /\ v6 \in Seq(Wire) /\ Len(v6) = e /\ DOMAIN v6 = 1..e /\ \A j \in 1..k : v6[j].b = "text"
      /\ v6[k + 1] = ControlByte(n, code) /\ v6[k + 2] = StatusByte(n, code)
  <2>1. Passing!Text(n).b = "text"
    BY DEF Passing!Text, Passing!Byte
  <2> QED BY <1>1, <2>1, SeqIs DEF AnswerOf
<1>3. /\ v6[k + 1].b = "null" /\ v6[k + 1].v = (IF code = 0 THEN Passing!CONTROLLEN + v2 ELSE 0)
      /\ v6[k + 2].b = "status" /\ v6[k + 2].n = n
      /\ v6[k + 2].v = (IF code = 0 THEN 0 ELSE Passing!status(code))
  BY <1>2 DEF ControlByte, StatusByte
<1>4. Passing!Min({MAXLINE, e}) = e /\ Passing!Min({k + 1}) = k + 1
  BY <1>0, <1>1, SmallestIs
<1>5. DOMAIN v6 = 1..(k + 2) /\ e - 1 = k + 1 /\ e - 2 = k /\ (k + 1) + 1 = e
  BY <1>1, <1>2
<1>6. {j \in DOMAIN v6 : v6[j].b = "null"} = {k + 1}
  <2>1. \A j \in 1..(k + 2) : v6[j].b = "null" <=> j = k + 1
    <3> TAKE j \in 1..(k + 2)
    <3>1. j \in 1..k \/ j = k + 1 \/ j = k + 2
      OBVIOUS
    <3> QED BY <1>2, <1>3, <3>1
  <2>2. k + 1 \in 1..(k + 2)
    OBVIOUS
  <2> QED BY <1>5, <2>1, <2>2
<1>7. \/ {j \in 1..(e - 1) : v6[j].b = "null" /\ v6[j].v > 0} = {}
      \/ {j \in 1..(e - 1) : v6[j].b = "null" /\ v6[j].v > 0} = {k + 1}
  <2>1. {j \in 1..(e - 1) : v6[j].b = "null" /\ v6[j].v > 0} \subseteq {k + 1}
    <3>1. \A j \in 1..(e - 1) : j \in DOMAIN v6
      BY <1>1, <1>2
    <3> QED BY <1>6, <3>1
  <2> QED BY <2>1
<1>8. Passing!recvmsg = e
  BY <1>2, <1>4, <1>5, <1>7 DEF Passing!recvmsg
<1>9. Passing!CONTROLLEN \in Nat /\ (code # 0 => Passing!status(code) \in Nat \ {0})
  BY WireIs
<1>10. code = 0 => Passing!HasFd(v6[k + 1].v)
  <2>1. ASSUME code = 0 PROVE Passing!HasFd(v6[k + 1].v)
    <3>1. v6[k + 1].v = Passing!CONTROLLEN + v2
      BY <1>3, <2>1
    <3> QED BY <1>9, <3>1 DEF Passing!HasFd
  <2> QED BY <2>1
<1>11. Passing!recv_fd(v6) =
         [kind |-> IF v6[e].v # 0 THEN "err" ELSE IF Passing!HasFd(v6[e - 1].v) THEN "fd" ELSE "dump",
          text |-> e - 2, call |-> v6[e].n]
  <2>1. {j \in DOMAIN v6 : v6[j].b = "null"} # {}
    BY <1>6
  <2>2. Passing!Min({j \in DOMAIN v6 : v6[j].b = "null"}) = Len(v6) - 1
    BY <1>2, <1>4, <1>5, <1>6
  <2> QED BY <1>2, <2>1, <2>2 DEF Passing!recv_fd
<1>12. (IF v6[e].v # 0 THEN "err" ELSE IF Passing!HasFd(v6[e - 1].v) THEN "fd" ELSE "dump")
         = (IF code = 0 THEN "fd" ELSE "err")
  <2>1. v6[e] = v6[k + 2] /\ v6[e - 1] = v6[k + 1]
    BY <1>1, <1>5
  <2>2. CASE code = 0
    BY <1>3, <1>10, <2>1, <2>2
  <2>3. CASE code # 0
    <3>1. v6[e].v # 0
      BY <1>3, <1>9, <2>1, <2>3
    <3> QED BY <2>3, <3>1
  <2> QED BY <2>2, <2>3
<1>13. v6[e].n = n
  BY <1>1, <1>3
<1> QED BY <1>1, <1>5, <1>8, <1>11, <1>12, <1>13

\* Steps of the server.
LEMMA FdServes ==
  ASSUME FdInv, Passing!Server \/ Passing!ServerDies
  PROVE FdInv'
<1>0. MAXLINE \in Nat /\ MAXLINE > 2 /\ Codes \subseteq Nat \ {0}
  BY ProgramsAssumption DEF Passing!FdAssumption
<1>1. /\ v1 \in {"fd", "Ofd", "ufd"} /\ v2 \in Nat /\ (v2 = 0 \/ v1 = "fd")
      /\ v4 \in [waits : BOOLEAN, n : Nat, shown : Nat] /\ v7 \in [call : Nat, text : Nat, code : Nat]
      /\ v8.kind # "dump" /\ (v8.kind = "err" => v8.shown \in ErrLen) /\ (v8.kind = "fd" => v8.shown = 0)
  BY DEF FdInv
<1>2. PICK n \in Nat, x \in Nat : n = v4.n /\ x = v4.shown
  BY <1>1
<1>3. v3 = "up" /\ v1' = v1 /\ v2' = v2 /\ v4' = v4 /\ v8' = v8
  BY DEF Passing!Server, Passing!ServerDies, Passing!handle_request, Passing!send_err, Passing!Send
<1>4. Passing!Idle \in [call : Nat, text : Nat, code : Nat] /\ Passing!Idle.text = 0
  BY DEF Passing!Idle
<1>5. ASSUME v3' \in {"up", "down"}, v7' \in [call : Nat, text : Nat, code : Nat],
             v4.waits => (Requested \/ Answering \/ Answered \/ CutOff)', ~v4.waits => BetweenCalls'
      PROVE FdInv'
  BY <1>1, <1>3, <1>5 DEF FdInv
<1>6. CASE ~v4.waits
  <2>1. BetweenCalls
    BY <1>6 DEF FdInv
  <2>2. v5 = <<>> /\ v7 = Passing!Idle /\ v6 = <<>>
    BY <1>3, <2>1 DEF BetweenCalls
  <2>3. ~Passing!handle_request /\ ~Passing!Send
    BY <2>2 DEF Passing!handle_request, Passing!Send
  <2>4. ~Passing!send_err
    <3>1. 1..v7.text = {}
      BY <1>4, <2>2
    <3> QED BY <3>1 DEF Passing!send_err
  <2>5. Passing!ServerDies
    BY <2>3, <2>4 DEF Passing!Server
  <2>6. v3' = "down" /\ v7' = Passing!Idle /\ v5' = v5 /\ v6' = v6
    BY <2>5 DEF Passing!ServerDies
  <2>7. BetweenCalls'
    BY <1>3, <2>1, <2>6 DEF BetweenCalls, Passing!Idle
  <2> QED BY <1>4, <1>5, <1>6, <2>6, <2>7
<1>7. CASE v4.waits
  <2>0. v4.n > 0 /\ (Requested \/ Answering \/ Answered)
    BY <1>3, <1>7 DEF FdInv, CutOff
  <2>1. CASE Requested
    <3>1. v5 = <<n>> /\ v6 = <<>> /\ v7 = Passing!Idle /\ x = 0
      BY <1>2, <2>1 DEF Requested
    <3>2. ~Passing!Send /\ ~Passing!send_err
      <4>1. 1..v7.text = {}
        BY <1>4, <3>1
      <4> QED BY <3>1, <4>1 DEF Passing!Send, Passing!send_err
    <3>3. CASE Passing!handle_request
      <4>1. v3' = v3 /\ v5' = Tail(v5) /\ v6' = v6
        BY <3>3 DEF Passing!handle_request
      <4>2. PICK k \in ErrLen, code \in Codes \cup {0} :
              v7' = [call |-> Head(v5), text |-> IF code = 0 THEN 0 ELSE k, code |-> code]
        BY <3>3 DEF Passing!handle_request, Passing!errtext, ErrLen
      <4>3. Head(v5) = n /\ v5' = <<>>
        BY <3>1, <4>1, PieceFirst
      <4>4. code \in Nat /\ (IF code = 0 THEN 0 ELSE k) \in Nat
        BY <1>0 DEF ErrLen
      <4>5. v7' \in [call : Nat, text : Nat, code : Nat]
        BY <4>2, <4>3, <4>4
      <4>6. v7'.call = n /\ v7'.code = code /\ v7'.text = (IF code = 0 THEN 0 ELSE k)
        BY <4>2, <4>3
      <4>7. TextsOf(v6', n, 0)
        <5>1. v6' = <<>> /\ <<>> \in Seq(Wire) /\ Len(<<>>) = 0
          BY <3>1, <4>1
        <5> QED BY <5>1 DEF TextsOf
      <4>8. IF code = 0 THEN v7'.text = 0 /\ x = 0 ELSE x + 0 + v7'.text \in ErrLen
        BY <3>1, <4>6 DEF ErrLen
      <4>9. Answering'
        <5>1. v3' = "up" /\ v4'.n = n /\ v4'.shown = x
          BY <1>2, <1>3, <4>1
        <5>2. 0 \in Nat
          OBVIOUS
        <5>3. /\ TextsOf(v6', v4'.n, 0)
              /\ IF v7'.code = 0 THEN v7'.text = 0 /\ 0 = 0 /\ v4'.shown = 0
                                 ELSE v4'.shown + 0 + v7'.text \in ErrLen
          BY <4>6, <4>7, <4>8, <5>1
        <5>4. \E j \in Nat : /\ TextsOf(v6', v4'.n, j)
                             /\ IF v7'.code = 0 THEN v7'.text = 0 /\ j = 0 /\ v4'.shown = 0
                                                ELSE v4'.shown + j + v7'.text \in ErrLen
          BY <5>2, <5>3
        <5> QED BY <4>3, <4>6, <5>1, <5>4 DEF Answering, TextsOf, Passing!Text, Passing!Byte, ErrLen, Wire
      <4> QED BY <1>3, <1>5, <1>7, <4>1, <4>5, <4>9
    <3>4. CASE Passing!ServerDies
      <4>1. v3' = "down" /\ v7' = Passing!Idle /\ v5' = v5 /\ v6' = v6
        BY <3>4 DEF Passing!ServerDies
      <4>2. Requested'
        BY <1>3, <2>1, <4>1 DEF Requested, Passing!Idle
      <4> QED BY <1>4, <1>5, <1>7, <4>1, <4>2
    <3> QED BY <3>2, <3>3, <3>4 DEF Passing!Server
  <2>2. CASE Answering
    <3>1. PICK k \in Nat : /\ TextsOf(v6, n, k)
                           /\ IF v7.code = 0 THEN v7.text = 0 /\ k = 0 /\ x = 0
                                             ELSE x + k + v7.text \in ErrLen
      BY <1>2, <2>2 DEF Answering
    <3>2. PICK d \in Nat, code \in Codes \cup {0} : d = v7.text /\ code = v7.code
      BY <1>1, <2>2 DEF Answering
    <3>3. v5 = <<>> /\ v7.call = n
      BY <1>2, <2>2 DEF Answering
    <3>4. CASE Passing!handle_request
      BY <3>3, <3>4 DEF Passing!handle_request
    <3>5. CASE Passing!send_err
      <4>1. PICK j \in 1..d : /\ v6' = v6 \o [i \in 1..j |-> Passing!Text(n)]
                              /\ v7' = [v7 EXCEPT !.text = @ - j]
        BY <3>2, <3>3, <3>5 DEF Passing!send_err
      <4>2. v3' = v3 /\ v5' = v5
        BY <3>5 DEF Passing!send_err
      <4>3. v7'.text = d - j /\ v7'.code = code /\ v7'.call = n /\ v7' \in [call : Nat, text : Nat, code : Nat]
        <5>1. d - j \in Nat
          OBVIOUS
        <5> QED BY <1>1, <3>2, <3>3, <4>1, <5>1
      <4>4. code # 0 /\ x + k + d \in ErrLen
        BY <3>1, <3>2
      <4>5. TextsOf(v6', n, k + j)
        BY <1>1, <3>1, <4>1, ErrAppends
      <4>6. x + (k + j) + (d - j) \in ErrLen /\ k + j \in Nat
        <5>1. x + (k + j) + (d - j) = x + k + d
          OBVIOUS
        <5> QED BY <4>4, <5>1
      <4>7. Answering'
        <5>1. v3' = "up" /\ v4'.n = n /\ v4'.shown = x
          BY <1>2, <1>3, <4>2
        <5>2. PICK e \in Nat : e = k + j
          BY <4>6
        <5>3. /\ TextsOf(v6', v4'.n, e)
              /\ IF v7'.code = 0 THEN v7'.text = 0 /\ e = 0 /\ v4'.shown = 0
                                 ELSE v4'.shown + e + v7'.text \in ErrLen
          BY <4>3, <4>4, <4>5, <4>6, <5>1, <5>2
        <5>4. \E q1 \in Nat : /\ TextsOf(v6', v4'.n, q1)
                              /\ IF v7'.code = 0 THEN v7'.text = 0 /\ q1 = 0 /\ v4'.shown = 0
                                                 ELSE v4'.shown + q1 + v7'.text \in ErrLen
          BY <5>3
        <5> QED BY <3>3, <4>2, <4>3, <5>1, <5>4 DEF Answering, TextsOf, Passing!Text, Passing!Byte, ErrLen, Wire
      <4> QED BY <1>3, <1>5, <1>7, <4>2, <4>3, <4>7
    <3>6. CASE Passing!Send
      <4>1. /\ d = 0 /\ v6' = v6 \o Passing!send_fd(n, code) /\ v7' = Passing!Idle
            /\ v3' = v3 /\ v5' = v5
        BY <3>2, <3>3, <3>6 DEF Passing!Send
      <4>2. AnswerOf(v6', n, k, code)
        BY <1>1, <3>1, <4>1, FdAppends
      <4>3. IF code = 0 THEN k = 0 /\ x = 0 ELSE x + k \in ErrLen
        BY <3>1, <3>2, <4>1
      <4>4. k \in 0..(MAXLINE - 2)
        BY <1>0, <4>3 DEF ErrLen
      <4>5. Answered'
        <5>1. v4'.n = n /\ v4'.shown = x
          BY <1>2, <1>3
        <5>2. AnswerOf(v6, v4.n, k, code)'
          BY <1>2, <1>3, <4>2 DEF AnswerOf, ControlByte, StatusByte, Passing!CONTROLLEN, Passing!RIGHTSLEN,
                                  Passing!CREDSLEN, Passing!status, Passing!Text, Passing!Byte, Wire
        <5>3. \E q1 \in 0..(MAXLINE - 2), c1 \in Codes \cup {0} :
                /\ AnswerOf(v6, v4.n, q1, c1)'
                /\ IF c1 = 0 THEN q1 = 0 /\ v4'.shown = 0 ELSE v4'.shown + q1 \in ErrLen
          BY <4>3, <4>4, <5>1, <5>2
        <5> QED BY <3>3, <4>1, <5>3 DEF Answered, Passing!Idle, ErrLen
      <4> QED BY <1>3, <1>4, <1>5, <1>7, <4>1, <4>5
    <3>7. CASE Passing!ServerDies
      <4>1. v3' = "down" /\ v7' = Passing!Idle /\ v5' = v5 /\ v6' = v6
        BY <3>7 DEF Passing!ServerDies
      <4>2. x + k <= MAXLINE - 2
        BY <1>0, <3>1, <3>2 DEF ErrLen
      <4>3. v4'.n = n /\ v4'.shown = x
        BY <1>2, <1>3
      <4>4. \E j \in Nat : TextsOf(v6', v4'.n, j) /\ v4'.shown + j <= MAXLINE - 2
        BY <3>1, <4>1, <4>2, <4>3
      <4>5. CutOff'
        BY <4>1, <4>4 DEF CutOff, TextsOf, Passing!Idle, Passing!Text, Passing!Byte, Wire
      <4> QED BY <1>4, <1>5, <1>7, <4>1, <4>5
    <3> QED BY <3>4, <3>5, <3>6, <3>7 DEF Passing!Server
  <2>3. CASE Answered
    <3>1. v5 = <<>> /\ v7 = Passing!Idle
      BY <2>3 DEF Answered
    <3>2. ~Passing!Send /\ ~Passing!send_err /\ ~Passing!handle_request
      <4>1. 1..v7.text = {}
        BY <1>4, <3>1
      <4> QED BY <3>1, <4>1 DEF Passing!Send, Passing!send_err, Passing!handle_request
    <3>3. Passing!ServerDies
      BY <3>2 DEF Passing!Server
    <3>4. v3' = "down" /\ v7' = Passing!Idle /\ v5' = v5 /\ v6' = v6
      BY <3>3 DEF Passing!ServerDies
    <3>5. PICK k \in 0..(MAXLINE - 2), code \in Codes \cup {0} :
            /\ AnswerOf(v6, v4.n, k, code)
            /\ IF code = 0 THEN k = 0 /\ v4.shown = 0 ELSE v4.shown + k \in ErrLen
      BY <2>3 DEF Answered
    <3>6. AnswerOf(v6, v4.n, k, code)'
      BY <1>3, <3>4, <3>5 DEF AnswerOf, ControlByte, StatusByte, Passing!CONTROLLEN, Passing!RIGHTSLEN,
                              Passing!CREDSLEN, Passing!status, Passing!Text, Passing!Byte, Wire
    <3>7. Answered'
      BY <1>3, <3>1, <3>4, <3>5, <3>6 DEF Answered, Passing!Idle, ErrLen
    <3> QED BY <1>4, <1>5, <1>7, <3>4, <3>7
  <2> QED BY <2>0, <2>1, <2>2, <2>3
<1> QED BY <1>6, <1>7

\* recv_fd of the client.
LEMMA FdReceives ==
  ASSUME FdInv, Passing!Receive
  PROVE FdInv'
<1>0. MAXLINE \in Nat /\ MAXLINE > 2 /\ Codes \subseteq Nat \ {0}
  BY ProgramsAssumption DEF Passing!FdAssumption
<1>1. /\ v1 \in {"fd", "Ofd", "ufd"} /\ v2 \in Nat /\ (v2 = 0 \/ v1 = "fd")
      /\ v3 \in {"none", "orphan", "up", "down"}
      /\ v4 \in [waits : BOOLEAN, n : Nat, shown : Nat] /\ v7 \in [call : Nat, text : Nat, code : Nat]
      /\ v8.kind # "dump" /\ (v8.kind = "err" => v8.shown \in ErrLen) /\ (v8.kind = "fd" => v8.shown = 0)
  BY DEF FdInv
<1>2. PICK n \in Nat, x \in Nat : n = v4.n /\ x = v4.shown
  BY <1>1
<1>3. /\ v4.waits /\ v6 # <<>>
      /\ v1' = v1 /\ v2' = v2 /\ v3' = v3 /\ v5' = v5 /\ v7' = v7
  BY DEF Passing!Receive
<1>4. PICK r : r = Passing!recv_fd(SubSeq(v6, 1, Passing!recvmsg))
  OBVIOUS
<1>5. /\ v6' = SubSeq(v6, Passing!recvmsg + 1, Len(v6))
      /\ IF r.kind = "more"
         THEN v4' = [v4 EXCEPT !.shown = @ + r.text] /\ v8' = v8
         ELSE /\ v8' = [kind |-> r.kind, call |-> r.call, shown |-> x + r.text]
              /\ v4' = [v4 EXCEPT !.waits = FALSE, !.shown = 0]
  BY <1>2, <1>4 DEF Passing!Receive, Passing!Return
<1>6. v4.n > 0 /\ (Answering \/ Answered \/ CutOff)
  BY <1>3 DEF FdInv, Requested
\* A part of an error message.
<1>7. ASSUME NEW k \in Nat, TextsOf(v6, n, k), k <= MAXLINE
      PROVE /\ v4' = [v4 EXCEPT !.shown = x + k] /\ v8' = v8 /\ v6' = <<>> /\ TextsOf(v6', n, 0)
            /\ v4'.shown = x + k /\ v4'.n = n /\ v4'.waits /\ v4' \in [waits : BOOLEAN, n : Nat, shown : Nat]
  <2>1. Passing!recvmsg = k /\ Passing!recv_fd(v6) = [kind |-> "more", text |-> k, call |-> 0]
    BY <1>7, RecvTexts
  <2>2. v6 \in Seq(Wire) /\ k = Len(v6)
    BY <1>7 DEF TextsOf
  <2>3. SubSeq(v6, 1, k) = v6 /\ SubSeq(v6, k + 1, Len(v6)) = <<>>
    BY <2>2, AllOf
  <2>4. r.kind = "more" /\ r.text = k
    <3>1. SubSeq(v6, 1, Passing!recvmsg) = v6
      BY <2>1, <2>3
    <3>2. r = [kind |-> "more", text |-> k, call |-> 0]
      BY <1>4, <2>1, <3>1
    <3> QED BY <3>2
  <2>5. v4' = [v4 EXCEPT !.shown = x + k] /\ v8' = v8 /\ v6' = <<>>
    BY <1>2, <1>5, <2>1, <2>3, <2>4
  <2>6. TextsOf(<<>>, n, 0)
    <3>1. <<>> \in Seq(Wire) /\ Len(<<>>) = 0
      OBVIOUS
    <3> QED BY <3>1 DEF TextsOf
  <2> QED BY <1>1, <1>2, <1>3, <2>5, <2>6
<1>8. CASE Answering
  <2>1. PICK k \in Nat : /\ TextsOf(v6, n, k)
                         /\ IF v7.code = 0 THEN v7.text = 0 /\ k = 0 /\ x = 0
                                           ELSE x + k + v7.text \in ErrLen
    BY <1>2, <1>8 DEF Answering
  <2>2. PICK d \in Nat : d = v7.text
    BY <1>1
  <2>3. k # 0
    <3>1. k = Len(v6) /\ v6 \in Seq(Wire)
      BY <2>1 DEF TextsOf
    <3> QED BY <1>3, <3>1, SeqIs
  <2>4. v7.code # 0 /\ x + k + d \in ErrLen /\ k <= MAXLINE
    <3>1. v7.code # 0 /\ x + k + d \in ErrLen
      BY <2>1, <2>2, <2>3
    <3> QED BY <1>0, <3>1 DEF ErrLen
  <2>5. /\ v8' = v8 /\ TextsOf(v6', n, 0) /\ v4'.shown = x + k /\ v4'.n = n /\ v4'.waits
        /\ v4' \in [waits : BOOLEAN, n : Nat, shown : Nat]
    BY <1>7, <2>1, <2>4
  <2>6. v4'.shown + 0 + v7'.text \in ErrLen
    <3>1. (x + k) + 0 + d = x + k + d
      OBVIOUS
    <3> QED BY <1>3, <2>2, <2>4, <2>5, <3>1
  <2>7. \E j \in Nat : /\ TextsOf(v6', v4'.n, j)
                       /\ IF v7'.code = 0 THEN v7'.text = 0 /\ j = 0 /\ v4'.shown = 0
                                          ELSE v4'.shown + j + v7'.text \in ErrLen
    <3>1. 0 \in Nat /\ TextsOf(v6', v4'.n, 0)
      BY <2>5
    <3>2. v7'.code # 0
      BY <1>3, <2>4
    <3> QED BY <2>6, <3>1, <3>2
  <2>8. v5' = <<>> /\ v3' = "up" /\ v7'.call = v4'.n /\ v7'.code \in Codes \cup {0}
    BY <1>2, <1>3, <1>8, <2>5 DEF Answering
  <2>9. Answering'
    BY <2>7, <2>8 DEF Answering, TextsOf, Passing!Text, Passing!Byte, ErrLen, Wire
  <2> QED BY <1>1, <1>2, <1>3, <1>6, <2>5, <2>9 DEF FdInv
<1>9. CASE CutOff
  <2>1. PICK k \in Nat : TextsOf(v6, n, k) /\ x + k <= MAXLINE - 2
    BY <1>2, <1>9 DEF CutOff
  <2>2. k <= MAXLINE
    BY <1>0, <2>1
  <2>3. /\ v8' = v8 /\ TextsOf(v6', n, 0) /\ v4'.shown = x + k /\ v4'.n = n /\ v4'.waits
        /\ v4' \in [waits : BOOLEAN, n : Nat, shown : Nat]
    BY <1>7, <2>1, <2>2
  <2>4. \E j \in Nat : TextsOf(v6', v4'.n, j) /\ v4'.shown + j <= MAXLINE - 2
    <3>1. 0 \in Nat /\ TextsOf(v6', v4'.n, 0) /\ v4'.shown + 0 <= MAXLINE - 2
      BY <1>0, <2>1, <2>3
    <3> QED BY <3>1
  <2>5. CutOff'
    BY <1>3, <1>9, <2>4 DEF CutOff, TextsOf, Passing!Idle, Passing!Text, Passing!Byte, Wire
  <2> QED BY <1>1, <1>2, <1>3, <1>6, <2>3, <2>5 DEF FdInv
\* The rest of an answer.
<1>10. CASE Answered
  <2>1. PICK k \in 0..(MAXLINE - 2), code \in Codes \cup {0} :
          /\ AnswerOf(v6, n, k, code)
          /\ IF code = 0 THEN k = 0 /\ x = 0 ELSE x + k \in ErrLen
    BY <1>2, <1>10 DEF Answered
  <2>2. k \in Nat /\ k + 2 <= MAXLINE
    BY <1>0
  <2>3. /\ Passing!recvmsg = k + 2
        /\ Passing!recv_fd(v6) = [kind |-> IF code = 0 THEN "fd" ELSE "err", text |-> k, call |-> n]
    BY <1>1, <2>1, <2>2, RecvAnswer
  <2>4. PICK e \in Nat : e = k + 2
    BY <2>2
  <2>5. SubSeq(v6, 1, e) = v6 /\ SubSeq(v6, e + 1, Len(v6)) = <<>>
    <3>1. v6 \in Seq(Wire) /\ e = Len(v6)
      BY <2>1, <2>4 DEF AnswerOf
    <3> QED BY <3>1, AllOf
  <2>6. PICK w \in {"fd", "err"} : w = IF code = 0 THEN "fd" ELSE "err"
    OBVIOUS
  <2>7. r.kind = w /\ r.text = k /\ r.call = n
    <3>1. SubSeq(v6, 1, Passing!recvmsg) = v6
      BY <2>3, <2>4, <2>5
    <3>2. r = [kind |-> w, text |-> k, call |-> n]
      BY <1>4, <2>3, <2>6, <3>1
    <3> QED BY <3>2
  <2>8. /\ v8' = [kind |-> w, call |-> n, shown |-> x + k]
        /\ v4' = [v4 EXCEPT !.waits = FALSE, !.shown = 0] /\ v6' = <<>>
    BY <1>5, <2>3, <2>4, <2>5, <2>7
  <2>9. /\ v4' \in [waits : BOOLEAN, n : Nat, shown : Nat] /\ v4'.waits = FALSE
        /\ v4'.n = n /\ v4'.shown = 0
    BY <1>1, <1>2, <2>8
  <2>10. v8'.kind = w /\ v8'.call = n /\ v8'.shown = x + k
    BY <2>8
  <2>11. /\ v8'.kind # "dump" /\ (v8'.kind = "err" => v8'.shown \in ErrLen)
         /\ (v8'.kind = "fd" => v8'.shown = 0)
    <3>1. CASE code = 0
      BY <2>1, <2>6, <2>10, <3>1
    <3>2. CASE code # 0
      BY <2>1, <2>6, <2>10, <3>2
    <3> QED BY <3>1, <3>2
  <2>12. BetweenCalls'
    <3>1. v5 = <<>> /\ v7 = Passing!Idle
      BY <1>10 DEF Answered
    <3> QED BY <1>3, <2>8, <2>9, <2>10, <3>1 DEF BetweenCalls, Passing!Idle
  <2> QED BY <1>1, <1>3, <2>9, <2>11, <2>12 DEF FdInv, ErrLen
<1> QED BY <1>6, <1>8, <1>9, <1>10

\* The other steps of the client.
LEMMA FdAsks ==
  ASSUME FdInv, Passing!StartServer \/ Passing!csopen \/ Passing!ReceiveEnd \/ Passing!Leave
  PROVE FdInv'
<1>1. /\ v1 \in {"fd", "Ofd", "ufd"} /\ v2 \in Nat /\ (v2 = 0 \/ v1 = "fd")
      /\ v3 \in {"none", "orphan", "up", "down"}
      /\ v4 \in [waits : BOOLEAN, n : Nat, shown : Nat] /\ v7 \in [call : Nat, text : Nat, code : Nat]
      /\ v8.kind # "dump" /\ (v8.kind = "err" => v8.shown \in ErrLen) /\ (v8.kind = "fd" => v8.shown = 0)
  BY DEF FdInv
<1>2. PICK n \in Nat : n = v4.n
  BY <1>1
<1>3. MaxCalls \in Nat
  BY ProgramsAssumption DEF Passing!FdAssumption
<1>4. v1' = v1 /\ v2' = v2 /\ v7' = v7 /\ v6' = v6
  BY DEF Passing!StartServer, Passing!csopen, Passing!ReceiveEnd, Passing!Leave
<1>5. CASE Passing!StartServer
  <2>1. ~v4.waits /\ v3 = "none" /\ v5' = v5
    BY <1>5 DEF Passing!StartServer
  <2>2. BetweenCalls
    BY <2>1 DEF FdInv
  <2>3. PICK p \in {"none", "orphan", "up"} :
          /\ v3' = p
          /\ IF p = "up" THEN v4' = v4 /\ v8' = v8
             ELSE /\ v4' = [v4 EXCEPT !.n = @ + 1]
                  /\ v8' = [kind |-> "failed", call |-> v4.n + 1, shown |-> 0]
    BY <1>5 DEF Passing!StartServer
  <2>4. CASE p = "up"
    <3>1. v3' = "up" /\ v4' = v4 /\ v8' = v8
      BY <2>3, <2>4
    <3>2. BetweenCalls'
      BY <1>4, <2>1, <2>2, <3>1 DEF BetweenCalls, Passing!Idle
    <3> QED BY <1>1, <1>4, <2>1, <3>1, <3>2 DEF FdInv
  <2>5. CASE p # "up"
    <3>1. /\ v3' \in {"none", "orphan"} /\ v4' = [v4 EXCEPT !.n = n + 1]
          /\ v8' = [kind |-> "failed", call |-> n + 1, shown |-> 0]
      BY <1>2, <2>3, <2>5
    <3>2. /\ v4' \in [waits : BOOLEAN, n : Nat, shown : Nat] /\ v4'.waits = v4.waits
          /\ v4'.n = n + 1 /\ v4'.shown = v4.shown
      BY <1>1, <3>1
    <3>3. v8'.kind = "failed" /\ v8'.call = n + 1
      BY <3>1
    <3>4. BetweenCalls'
      BY <1>4, <2>1, <2>2, <3>2, <3>3 DEF BetweenCalls, Passing!Idle
    <3> QED BY <1>1, <1>4, <2>1, <3>1, <3>2, <3>3, <3>4 DEF FdInv
  <2> QED BY <2>4, <2>5
<1>6. CASE Passing!csopen
  <2>1. /\ ~v4.waits /\ v3 \in {"up", "orphan"} /\ v3' = v3 /\ v8' = v8
        /\ v4' = [waits |-> TRUE, n |-> n + 1, shown |-> 0] /\ v5' = Append(v5, n + 1)
    BY <1>2, <1>6 DEF Passing!csopen
  <2>2. BetweenCalls
    BY <2>1 DEF FdInv
  <2>3. v5 = <<>> /\ v6 = <<>> /\ v7 = Passing!Idle
    BY <2>1, <2>2 DEF BetweenCalls
  <2>4. v5' = <<n + 1>>
    BY <2>1, <2>3, OneIs
  <2>5. v4'.waits /\ v4'.n = n + 1 /\ v4'.shown = 0 /\ v4' \in [waits : BOOLEAN, n : Nat, shown : Nat] /\ n + 1 > 0
    BY <2>1
  <2>6. Requested'
    BY <1>4, <2>3, <2>4, <2>5 DEF Requested, Passing!Idle
  <2> QED BY <1>1, <1>4, <2>1, <2>5, <2>6 DEF FdInv
<1>7. CASE Passing!ReceiveEnd
  <2>1. /\ v4.waits /\ v6 = <<>> /\ v3 = "down" /\ v3' = v3 /\ v5' = v5
        /\ v8' = [kind |-> "closed", call |-> n, shown |-> 0]
        /\ v4' = [v4 EXCEPT !.waits = FALSE, !.shown = 0]
    BY <1>2, <1>7 DEF Passing!ReceiveEnd, Passing!Return
  <2>2. v7 = Passing!Idle
    BY <2>1 DEF FdInv, Requested, Answering, Answered, CutOff
  <2>3. /\ v4' \in [waits : BOOLEAN, n : Nat, shown : Nat] /\ v4'.waits = FALSE
        /\ v4'.n = n /\ v4'.shown = 0
    BY <1>1, <1>2, <2>1
  <2>4. v8'.kind = "closed" /\ v8'.call = n
    BY <2>1
  <2>5. BetweenCalls'
    BY <1>4, <2>1, <2>2, <2>3, <2>4 DEF BetweenCalls, Passing!Idle
  <2> QED BY <1>1, <1>4, <2>1, <2>3, <2>4, <2>5 DEF FdInv
<1>8. CASE Passing!Leave
  <2>1. /\ ~v4.waits /\ v3' = "down" /\ v5' = v5
        /\ v4' = [v4 EXCEPT !.n = MaxCalls] /\ v8' = [kind |-> "none", call |-> MaxCalls, shown |-> 0]
    BY <1>8 DEF Passing!Leave
  <2>2. BetweenCalls
    BY <2>1 DEF FdInv
  <2>3. /\ v4' \in [waits : BOOLEAN, n : Nat, shown : Nat] /\ v4'.waits = v4.waits
        /\ v4'.n = MaxCalls /\ v4'.shown = v4.shown
    BY <1>1, <1>3, <2>1
  <2>4. v8'.kind = "none" /\ v8'.call = MaxCalls
    BY <2>1
  <2>5. BetweenCalls'
    BY <1>4, <2>1, <2>2, <2>3, <2>4 DEF BetweenCalls, Passing!Idle
  <2> QED BY <1>1, <1>4, <2>1, <2>3, <2>4, <2>5 DEF FdInv
<1> QED BY <1>5, <1>6, <1>7, <1>8

\* A step of the client or the server.
LEMMA FdKept ==
  ASSUME FdInv, Passing!Next
  PROVE FdInv'
BY FdServes, FdReceives, FdAsks DEF Passing!Next, Passing!Client

\* No server has been started.
LEMMA FdStarts ==
  ASSUME Passing!Init
  PROVE FdInv
<1>1. /\ v1 \in {"fd", "Ofd", "ufd"} /\ v2 \in (IF v1 = "fd" THEN {0, 4} ELSE {0})
      /\ v3 = "none" /\ v5 = <<>> /\ v6 = <<>> /\ v7 = Passing!Idle
      /\ v4 = [waits |-> FALSE, n |-> 0, shown |-> 0]
      /\ v8 = [kind |-> "none", call |-> 0, shown |-> 0]
  BY DEF Passing!Init
<1>2. v2 \in Nat /\ (v2 = 0 \/ v1 = "fd")
  BY <1>1
<1>3. Passing!Idle \in [call : Nat, text : Nat, code : Nat]
  BY DEF Passing!Idle
<1>4. BetweenCalls
  BY <1>1 DEF BetweenCalls
<1> QED BY <1>1, <1>2, <1>3, <1>4 DEF FdInv

LEMMA FdStill ==
  ASSUME FdInv, UNCHANGED vars
  PROVE FdInv'
<1>1. v1' = v1 /\ v2' = v2 /\ v3' = v3 /\ v4' = v4 /\ v5' = v5 /\ v6' = v6 /\ v7' = v7 /\ v8' = v8
  BY DEF vars
<1>2. \A n, k, code : AnswerOf(v6, n, k, code) => AnswerOf(v6, n, k, code)'
  BY <1>1 DEF AnswerOf, ControlByte, StatusByte, Passing!CONTROLLEN, Passing!RIGHTSLEN,
              Passing!CREDSLEN, Passing!status, Passing!Text, Passing!Byte, Wire
<1>3. BetweenCalls => BetweenCalls'
  BY <1>1 DEF BetweenCalls, Passing!Idle
<1>4. Requested => Requested'
  BY <1>1 DEF Requested, Passing!Idle
<1>5. Answering => Answering'
  BY <1>1 DEF Answering, TextsOf, Passing!Text, Passing!Byte, ErrLen, Wire
<1>6. Answered => Answered'
  BY <1>1, <1>2 DEF Answered, Passing!Idle, ErrLen
<1>7. CutOff => CutOff'
  BY <1>1 DEF CutOff, TextsOf, Passing!Idle, Passing!Text, Passing!Byte, Wire
<1> QED BY <1>1, <1>3, <1>4, <1>5, <1>6, <1>7 DEF FdInv, ErrLen

\* csopen returns the answer to its own request, whole.
LEMMA FdAnswers ==
  ASSUME FdInv
  PROVE Passing!AnswerIsMine
BY DEF FdInv, BetweenCalls, ErrLen, Passing!AnswerIsMine, Passing!errtext
-----------------------------------------------------------------------------
(* Ruptime, when no call fails: v1 prog, v2 cli, v3 queue, v4 proc, v5 data, v7 fails. *)
M == Uptime!Main
\* A client that has connected is in the queue, at the server, or at its child, or
\* has been answered.
InQueue(c) == \E k \in DOMAIN v3 : v3[k] = c
AtServer(c) == v4[M].pc \in {"fork", "copy"} /\ v4[M].c = c
AtChild(c) ==
  /\ v1.serve # "popen"
  /\ \/ v4[c].pc = "dup" /\ v4[c].clfd = {c}
     \/ v4[c].pc \in {"exec", "run"} /\ v4[c].out = {c}
Told(c) == v5[c] # "none"

ServerRight ==
  /\ v4[M].pc \in {"boot", "accept", "fork", "copy", "close", "wait", "exit"}
  /\ v4[M].pc = "copy" => v1.serve = "popen"
  /\ v4[M].pc \in {"fork", "copy", "close", "wait"} => v4[M].c \in Peers
  /\ v4[M].pc \in {"fork", "copy"} => v4[M].clfd = {v4[M].c}
  /\ v4[M].pc \in {"boot", "exit"} =>
       v3 = <<>> /\ \A c \in Peers : v4[c].pc = "none" /\ v2[c].pc \in {"start", "failed"}
ClientRight(c) ==
  /\ v4[c].pc \in {"none", "dup", "exec", "run", "zombie", "reaped"}
  /\ v2[c].pc = "conn" => InQueue(c) \/ AtServer(c) \/ AtChild(c) \/ Told(c)
  /\ v2[c].pc = "done" => Told(c)
Served == ServerRight /\ \A c \in Peers : ClientRight(c)

AnsweredInv ==
  /\ RuptimeInv
  /\ v2 \in [Peers -> [pc : {"start", "conn", "done", "failed"}, tries : Nat]]
  /\ DOMAIN v5 = Peers /\ v7 \in Nat
  /\ v7 = 0 => Served

\* What the steps below start from.
NoneFailed ==
  /\ Served /\ M \notin Peers /\ Uptime!Procs = Peers \cup {M}
  /\ v4 \in [Uptime!Procs -> UptimeProcs] /\ v3 \in Seq(Peers)
  /\ v2 \in [Peers -> [pc : {"start", "conn", "done", "failed"}, tries : Nat]]
  /\ DOMAIN v5 = Peers

LEMMA NoneFailedYet ==
  ASSUME AnsweredInv, v7 = 0
  PROVE NoneFailed
BY ProgramsAssumption DEF AnsweredInv, NoneFailed, RuptimeInv, Uptime!RuptimeAssumption, M, Uptime!Procs

\* The clients.
LEMMA ConnectServed ==
  ASSUME NoneFailed, NEW c \in Peers, Uptime!connect_retry(c)
  PROVE Served'
<1>1. v1' = v1 /\ v4' = v4 /\ v5' = v5 /\ v2[c].pc = "start" /\ \A d \in Peers : d # c => v2'[d] = v2[d]
  BY DEF Uptime!connect_retry, NoneFailed
<1>2. CASE Uptime!Listeners # {}
  <2>1. v2'[c].pc = "conn" /\ v3' = Append(v3, c)
    BY <1>2 DEF Uptime!connect_retry, NoneFailed
  <2>2. PICK n \in Nat : n = Len(v3) /\ DOMAIN v3 = 1..n
    BY SeqIs DEF NoneFailed
  <2>3. DOMAIN v3' = 1..(n + 1) /\ v3'[n + 1] = c /\ \A k \in 1..n : v3'[k] = v3[k]
    BY <2>1, <2>2, AppendedIs DEF NoneFailed
  <2>4. InQueue(c)' /\ \A d : InQueue(d) => InQueue(d)'
    BY <2>2, <2>3 DEF InQueue
  <2>5. v4[M].pc \notin {"boot", "exit"}
    BY <1>2 DEF NoneFailed, Served, ServerRight, Uptime!Listeners, Uptime!Gone
  <2>6. ServerRight'
    BY <1>1, <2>5 DEF NoneFailed, Served, ServerRight
  <2>7. ASSUME NEW d \in Peers PROVE ClientRight(d)'
    <3>1. (AtServer(d) => AtServer(d)') /\ (AtChild(d) => AtChild(d)') /\ (Told(d) => Told(d)')
      BY <1>1 DEF AtServer, AtChild, Told
    <3> QED BY <1>1, <2>1, <2>4, <3>1 DEF NoneFailed, Served, ClientRight
  <2> QED BY <2>6, <2>7 DEF Served
<1>3. CASE Uptime!Listeners = {}
  <2>1. v2'[c].pc \in {"start", "failed"} /\ v3' = v3
    BY <1>3 DEF Uptime!connect_retry, NoneFailed
  <2>2. ServerRight'
    BY <1>1, <2>1 DEF NoneFailed, Served, ServerRight
  <2>3. ASSUME NEW d \in Peers PROVE ClientRight(d)'
    <3>1. /\ (AtServer(d) => AtServer(d)') /\ (AtChild(d) => AtChild(d)') /\ (Told(d) => Told(d)')
          /\ (InQueue(d) => InQueue(d)')
      BY <1>1, <2>1 DEF AtServer, AtChild, Told, InQueue
    <3> QED BY <1>1, <2>1, <3>1 DEF NoneFailed, Served, ClientRight
  <2> QED BY <2>2, <2>3 DEF Served
<1> QED BY <1>2, <1>3

\* A client reads the end of its connection; the steps of the server and the children follow.
LEMMA EndServed ==
  ASSUME NoneFailed, NEW c \in Peers, Uptime!print_uptime(c)
  PROVE Served'
<1>1. /\ v1' = v1 /\ v3' = v3 /\ v4' = v4 /\ v5' = v5 /\ v2[c].pc = "conn" /\ v2'[c].pc = "done"
      /\ \A d \in Peers : d # c => v2'[d] = v2[d]
      /\ Uptime!EOF(c) \/ Told(c)
  BY DEF Uptime!print_uptime, NoneFailed, Told
<1>2. Uptime!EOF(c) => ~InQueue(c) /\ ~AtServer(c) /\ ~AtChild(c)
  <2>1. Uptime!EOF(c) => ~InQueue(c)
    BY DEF Uptime!EOF, InQueue
  <2>2. AtServer(c) => c \in Uptime!Holds(M)
    BY DEF AtServer, NoneFailed, Served, ServerRight, Uptime!Holds, Uptime!Gone
  <2>3. AtChild(c) => c \in Uptime!Holds(c)
    BY DEF AtChild, Uptime!Holds, Uptime!Gone
  <2> QED BY <2>1, <2>2, <2>3 DEF Uptime!EOF, NoneFailed
<1>3. Told(c)
  BY <1>1, <1>2 DEF NoneFailed, Served, ClientRight
<1>4. ServerRight'
  BY <1>1 DEF NoneFailed, Served, ServerRight
<1>5. ASSUME NEW d \in Peers PROVE ClientRight(d)'
  <2>1. /\ (AtServer(d) => AtServer(d)') /\ (AtChild(d) => AtChild(d)') /\ (Told(d) => Told(d)')
        /\ (InQueue(d) => InQueue(d)')
    BY <1>1 DEF AtServer, AtChild, Told, InQueue
  <2> QED BY <1>1, <1>3, <2>1 DEF NoneFailed, Served, ClientRight
<1> QED BY <1>4, <1>5 DEF Served

\* The server.
LEMMA BootServed ==
  ASSUME NoneFailed, Uptime!initserver
  PROVE Served'
<1>1. /\ v1' = v1 /\ v2' = v2 /\ v3' = v3 /\ v5' = v5 /\ v4[M].pc = "boot"
      /\ v4'[M].pc \in {"accept", "exit"} /\ \A c \in Peers : v4'[c] = v4[c]
  BY DEF Uptime!initserver, Uptime!At, NoneFailed, M
<1>2. ServerRight' /\ \A c \in Peers : v2[c].pc \in {"start", "failed"}
  BY <1>1 DEF NoneFailed, Served, ServerRight
<1>3. ASSUME NEW c \in Peers PROVE ClientRight(c)'
  BY <1>1, <1>2 DEF NoneFailed, Served, ClientRight
<1> QED BY <1>2, <1>3 DEF Served

LEMMA AcceptServed ==
  ASSUME NoneFailed, Uptime!accept(M)
  PROVE Served'
<1>1. /\ v1' = v1 /\ v2' = v2 /\ v5' = v5 /\ v4[M].pc = "accept" /\ v3 # <<>> /\ v3' = Tail(v3)
      /\ v4'[M].pc = "fork" /\ v4'[M].c = Head(v3) /\ v4'[M].clfd = {Head(v3)}
      /\ \A c \in Peers : v4'[c] = v4[c]
  BY DEF Uptime!accept, Uptime!At, NoneFailed, UptimeProcs
<1>2. PICK n \in Nat : n = Len(v3) /\ DOMAIN v3 = 1..n
  BY SeqIs DEF NoneFailed
<1>3. n > 0 /\ Head(v3) = v3[1] /\ v3[1] \in Peers /\ DOMAIN v3' = 1..(n - 1) /\ \A k \in 1..(n - 1) : v3'[k] = v3[k + 1]
  BY <1>1, <1>2, TailIs DEF NoneFailed
<1>4. ServerRight'
  BY <1>1, <1>3 DEF NoneFailed, Served, ServerRight
<1>5. ASSUME NEW c \in Peers PROVE ClientRight(c)'
  <2>1. ASSUME InQueue(c) PROVE InQueue(c)' \/ AtServer(c)'
    <3>1. PICK k \in 1..n : v3[k] = c
      BY <1>2, <2>1 DEF InQueue
    <3>2. CASE k = 1
      BY <1>1, <1>3, <3>1, <3>2 DEF AtServer
    <3>3. CASE k # 1
      <4>1. k - 1 \in 1..(n - 1) /\ (k - 1) + 1 = k
        BY <3>3
      <4>2. v3'[k - 1] = c
        BY <1>3, <3>1, <4>1
      <4> QED BY <1>3, <4>1, <4>2 DEF InQueue
    <3> QED BY <3>2, <3>3
  <2>2. ~AtServer(c) /\ (AtChild(c) => AtChild(c)') /\ (Told(c) => Told(c)')
    BY <1>1 DEF AtServer, AtChild, Told
  <2> QED BY <1>1, <2>1, <2>2 DEF NoneFailed, Served, ClientRight
<1> QED BY <1>4, <1>5 DEF Served

\* A fork, by popen or by the server itself.
LEMMA ForkServed ==
  ASSUME NoneFailed, v4[M].pc = "fork", NEW a \in {"copy", "close"}, NEW b \in {"dup", "exec"},
         Uptime!Fork(M, a, b), v1' = v1, v2' = v2, v3' = v3, v5' = v5,
         IF v1.serve = "popen" THEN a = "copy" ELSE a = "close" /\ b = "dup"
  PROVE Served'
<1>1. PICK c \in Peers : c = v4[M].c /\ v4[M].clfd = {c}
  BY DEF NoneFailed, Served, ServerRight
<1>2. c # M
  BY DEF NoneFailed
<1>3. v4' = [v4 EXCEPT ![M].pc = a, ![c] = [v4[M] EXCEPT !.pc = b]]
  BY <1>1 DEF Uptime!Fork
<1>4. v4[M] \in UptimeProcs /\ M \in DOMAIN v4 /\ c \in DOMAIN v4
  BY DEF NoneFailed
<1>5. /\ v4'[M] = [v4[M] EXCEPT !.pc = a] /\ v4'[c] = [v4[M] EXCEPT !.pc = b]
      /\ \A d \in Peers : d # c => v4'[d] = v4[d]
  BY <1>2, <1>3, <1>4 DEF NoneFailed
<1>6. /\ v4'[M].pc = a /\ v4'[M].c = c /\ v4'[M].clfd = {c}
      /\ v4'[c].pc = b /\ v4'[c].clfd = {c}
  BY <1>1, <1>4, <1>5 DEF UptimeProcs
<1>7. ServerRight'
  BY <1>6 DEF NoneFailed, Served, ServerRight
<1>8. AtServer(c)' \/ AtChild(c)'
  BY <1>6 DEF AtServer, AtChild
<1>9. ASSUME NEW d \in Peers PROVE ClientRight(d)'
  <2>1. CASE d = c
    <3>1. Told(c) => Told(c)'
      BY DEF Told
    <3> QED BY <1>6, <1>8, <2>1, <3>1 DEF NoneFailed, Served, ClientRight
  <2>2. CASE d # c
    <3>1. /\ ~AtServer(d) /\ (AtChild(d) => AtChild(d)') /\ (Told(d) => Told(d)')
          /\ (InQueue(d) => InQueue(d)')
      BY <1>1, <1>5, <2>2 DEF AtServer, AtChild, Told, InQueue
    <3> QED BY <1>5, <2>2, <3>1 DEF NoneFailed, Served, ClientRight
  <2> QED BY <2>1, <2>2
<1> QED BY <1>7, <1>9 DEF Served

LEMMA PcloseServed ==
  ASSUME NoneFailed, Uptime!pclose
  PROVE Served'
<1>1. PICK c \in Peers : c = v4[M].c /\ v4[M].pc = "copy" /\ v1.serve = "popen"
  BY DEF NoneFailed, Served, ServerRight, Uptime!pclose, Uptime!At, M
<1>2. c # M /\ v4[M] \in UptimeProcs /\ v4[c] \in UptimeProcs /\ M \in DOMAIN v4 /\ c \in DOMAIN v4
  BY DEF NoneFailed
<1>3. /\ v1' = v1 /\ v2' = v2 /\ v3' = v3 /\ v5' = [v5 EXCEPT ![c] = "uptime"]
      /\ v4' = [v4 EXCEPT ![M].pc = "close", ![c].pc = "reaped"]
  BY <1>1 DEF Uptime!pclose, M
<1>4. /\ v4'[M].pc = "close" /\ v4'[M].c = c /\ v4'[c].pc = "reaped" /\ v5'[c] = "uptime"
      /\ \A d \in Peers : d # c => v4'[d] = v4[d] /\ v5'[d] = v5[d]
  BY <1>1, <1>2, <1>3 DEF NoneFailed, UptimeProcs
<1>5. ServerRight'
  BY <1>3, <1>4 DEF NoneFailed, Served, ServerRight
<1>6. ASSUME NEW d \in Peers PROVE ClientRight(d)'
  <2>1. CASE d = c
    BY <1>3, <1>4, <2>1 DEF ClientRight, Told
  <2>2. CASE d # c
    <3>1. /\ ~AtServer(d) /\ ~AtChild(d) /\ (Told(d) => Told(d)') /\ (InQueue(d) => InQueue(d)')
      BY <1>1, <1>3, <1>4, <2>2 DEF AtServer, AtChild, Told, InQueue
    <3> QED BY <1>3, <1>4, <2>2, <3>1 DEF NoneFailed, Served, ClientRight
  <2> QED BY <2>1, <2>2
<1> QED BY <1>5, <1>6 DEF Served

LEMMA CloseServed ==
  ASSUME NoneFailed, Uptime!close(M)
  PROVE Served'
<1>1. PICK l \in {"wait", "accept"} : l = IF v1.serve = "exec" THEN "wait" ELSE "accept"
  OBVIOUS
<1>2. v4[M] \in UptimeProcs /\ M \in DOMAIN v4 /\ v4[M].pc = "close"
  BY DEF NoneFailed, Uptime!close, Uptime!At
<1>3. /\ v1' = v1 /\ v2' = v2 /\ v3' = v3 /\ v5' = v5
      /\ v4' = [v4 EXCEPT ![M] = [v4[M] EXCEPT !.clfd = {}, !.pc = l]]
  BY <1>1 DEF Uptime!close
<1>4. v4'[M].pc = l /\ v4'[M].c = v4[M].c /\ \A d \in Peers : v4'[d] = v4[d]
  BY <1>2, <1>3 DEF NoneFailed, UptimeProcs
<1>5. ServerRight'
  BY <1>2, <1>3, <1>4 DEF NoneFailed, Served, ServerRight
<1>6. ASSUME NEW d \in Peers PROVE ClientRight(d)'
  <2>1. /\ ~AtServer(d) /\ (AtChild(d) => AtChild(d)') /\ (Told(d) => Told(d)') /\ (InQueue(d) => InQueue(d)')
    BY <1>2, <1>3, <1>4 DEF AtServer, AtChild, Told, InQueue
  <2> QED BY <1>3, <1>4, <2>1 DEF NoneFailed, Served, ClientRight
<1> QED BY <1>5, <1>6 DEF Served

LEMMA WaitServed ==
  ASSUME NoneFailed, Uptime!waitpid(M)
  PROVE Served'
<1>1. PICK c \in Peers : c = v4[M].c /\ v4[M].pc = "wait" /\ v4[c].pc = "zombie"
  BY DEF NoneFailed, Served, ServerRight, Uptime!waitpid, Uptime!At
<1>2. c # M /\ v4[M] \in UptimeProcs /\ v4[c] \in UptimeProcs /\ M \in DOMAIN v4 /\ c \in DOMAIN v4
  BY DEF NoneFailed
<1>3. /\ v1' = v1 /\ v2' = v2 /\ v3' = v3 /\ v5' = v5
      /\ v4' = [v4 EXCEPT ![M].pc = "accept", ![c].pc = "reaped"]
  BY <1>1 DEF Uptime!waitpid
<1>4. /\ v4'[M].pc = "accept" /\ v4'[c].pc = "reaped"
      /\ \A d \in Peers : d # c => v4'[d] = v4[d]
  BY <1>1, <1>2, <1>3 DEF NoneFailed, UptimeProcs
<1>5. ServerRight'
  BY <1>3, <1>4 DEF NoneFailed, Served, ServerRight
<1>6. ASSUME NEW d \in Peers PROVE ClientRight(d)'
  <2>1. /\ ~AtServer(d) /\ (AtChild(d) => AtChild(d)') /\ (Told(d) => Told(d)') /\ (InQueue(d) => InQueue(d)')
    BY <1>1, <1>3, <1>4 DEF AtServer, AtChild, Told, InQueue
  <2> QED BY <1>3, <1>4, <2>1 DEF NoneFailed, Served, ClientRight
<1> QED BY <1>5, <1>6 DEF Served

LEMMA HandlerServed ==
  ASSUME NoneFailed, Uptime!sigchld_handler
  PROVE Served'
<1>1. /\ v1' = v1 /\ v2' = v2 /\ v3' = v3 /\ v5' = v5
      /\ v4' = [p \in Uptime!Procs |-> IF v4[p].pc = "zombie" THEN [v4[p] EXCEPT !.pc = "reaped"] ELSE v4[p]]
  BY DEF Uptime!sigchld_handler, Uptime!At
<1>2. v4'[M] = v4[M]
  BY <1>1 DEF NoneFailed, Served, ServerRight
<1>3. \A d \in Peers : \/ v4'[d] = v4[d]
                       \/ v4[d].pc = "zombie" /\ v4'[d].pc = "reaped"
  <2> TAKE d \in Peers
  <2>1. v4[d] \in UptimeProcs /\ d \in Uptime!Procs
    BY DEF NoneFailed
  <2>2. v4'[d] = IF v4[d].pc = "zombie" THEN [v4[d] EXCEPT !.pc = "reaped"] ELSE v4[d]
    BY <1>1, <2>1
  <2> QED BY <2>1, <2>2 DEF UptimeProcs
<1>4. ServerRight'
  BY <1>1, <1>2, <1>3 DEF NoneFailed, Served, ServerRight
<1>5. ASSUME NEW d \in Peers PROVE ClientRight(d)'
  <2>1. /\ (AtServer(d) => AtServer(d)') /\ (AtChild(d) => AtChild(d)') /\ (Told(d) => Told(d)')
        /\ (InQueue(d) => InQueue(d)')
    BY <1>1, <1>2, <1>3 DEF AtServer, AtChild, Told, InQueue
  <2> QED BY <1>1, <1>3, <2>1 DEF NoneFailed, Served, ClientRight
<1> QED BY <1>4, <1>5 DEF Served

\* The children.
LEMMA ChildServed ==
  ASSUME NoneFailed, NEW c \in Peers, Uptime!dup2(c) \/ Uptime!execl(c)
  PROVE Served'
<1>1. c # M /\ v4[c] \in UptimeProcs /\ M \in DOMAIN v4 /\ c \in DOMAIN v4
  BY DEF NoneFailed
<1>2. /\ v1' = v1 /\ v2' = v2 /\ v3' = v3 /\ v5' = v5 /\ v4'[M] = v4[M]
      /\ \A d \in Peers : d # c => v4'[d] = v4[d]
  BY <1>1 DEF Uptime!dup2, Uptime!execl, NoneFailed
<1>3. \/ v4[c].pc = "dup" /\ v4'[c].pc = "exec" /\ v4'[c].out = {c}
      \/ v4[c].pc = "exec" /\ v4'[c].pc = "run" /\ v4'[c].out = v4[c].out
  <2>1. CASE Uptime!dup2(c)
    BY <1>1, <2>1 DEF Uptime!dup2, Uptime!At, UptimeProcs
  <2>2. CASE Uptime!execl(c)
    <3>1. PICK k : v4' = [v4 EXCEPT ![c] = [v4[c] EXCEPT !.pc = "run", !.clfd = k]]
      BY <2>2 DEF Uptime!execl
    <3> QED BY <1>1, <2>2, <3>1 DEF Uptime!execl, Uptime!At, UptimeProcs
  <2> QED BY <2>1, <2>2
<1>4. ServerRight'
  BY <1>2, <1>3 DEF NoneFailed, Served, ServerRight
<1>5. ASSUME NEW d \in Peers PROVE ClientRight(d)'
  <2>1. /\ (AtServer(d) => AtServer(d)') /\ (Told(d) => Told(d)') /\ (InQueue(d) => InQueue(d)')
    BY <1>2 DEF AtServer, Told, InQueue
  <2>2. AtChild(d) => AtChild(d)'
    BY <1>2, <1>3 DEF AtChild
  <2> QED BY <1>2, <1>3, <2>1, <2>2 DEF NoneFailed, Served, ClientRight
<1> QED BY <1>4, <1>5 DEF Served

LEMMA CommandServed ==
  ASSUME NoneFailed, NEW c \in Peers, Uptime!Command(c)
  PROVE Served'
<1>1. c # M /\ v4[c].pc = "run" /\ M \in DOMAIN v4 /\ c \in DOMAIN v4 /\ M \in Uptime!Procs
  BY DEF NoneFailed, Uptime!Command, Uptime!At
<1>2. /\ v1' = v1 /\ v2' = v2 /\ v4'[M] = v4[M] /\ v4'[c].pc = "zombie"
      /\ \A d \in Peers : d # c => v4'[d] = v4[d]
  BY <1>1 DEF Uptime!Command, Uptime!Exit, NoneFailed, M
<1>3. v4[M].pc \notin {"boot", "exit"}
  BY <1>1 DEF NoneFailed, Served, ServerRight
<1>4. v3' = v3
  <2>1. M \in Uptime!Listeners
    BY <1>1, <1>3 DEF NoneFailed, Served, ServerRight, Uptime!Listeners, Uptime!Gone
  <2> QED BY <1>1, <2>1 DEF Uptime!Command, Uptime!Exit
<1>5. /\ v1.serve = "popen" => v5' = v5
      /\ v1.serve # "popen" => v5'[c] = "uptime"
      /\ \A d \in Peers : d # c => v5'[d] = v5[d]
  BY DEF Uptime!Command, NoneFailed
<1>6. ServerRight'
  BY <1>2, <1>3, <1>4 DEF NoneFailed, Served, ServerRight
<1>7. ASSUME NEW d \in Peers PROVE ClientRight(d)'
  <2>1. (AtServer(d) => AtServer(d)') /\ (InQueue(d) => InQueue(d)')
    BY <1>2, <1>4 DEF AtServer, InQueue
  <2>2. (Told(d) => Told(d)') /\ (AtChild(d) => AtChild(d)' \/ Told(d)')
    BY <1>2, <1>5 DEF Told, AtChild
  <2> QED BY <1>2, <2>1, <2>2 DEF NoneFailed, Served, ClientRight
<1> QED BY <1>6, <1>7 DEF Served

\* What the steps do to the failures, to what was sent and to the clients.
UptimeLeaves ==
  /\ v7' = v7 \/ v7' = v7 + 1
  /\ DOMAIN v5' = DOMAIN v5
  /\ v2' = v2 \/ \E c \in Peers : Uptime!connect_retry(c) \/ Uptime!print_uptime(c)

LEMMA UptimeSteps ==
  ASSUME Uptime!Next
  PROVE UptimeLeaves
<1>1. CASE Uptime!initserver \/ Uptime!sigchld_handler
  BY <1>1 DEF Uptime!initserver, Uptime!sigchld_handler, UptimeLeaves
<1>2. CASE Uptime!popen
  BY <1>2 DEF Uptime!popen, Uptime!MayFail, UptimeLeaves
<1>3. CASE Uptime!pclose
  BY <1>3 DEF Uptime!pclose, UptimeLeaves
<1>4. CASE \E p \in Uptime!Procs : Uptime!Server(p)
  <2>1. PICK p \in Uptime!Procs : Uptime!Server(p)
    BY <1>4
  <2>2. CASE Uptime!fork(p)
    BY <2>2 DEF Uptime!fork, Uptime!MayFail, UptimeLeaves
  <2>3. CASE Uptime!accept(p) \/ Uptime!close(p) \/ Uptime!waitpid(p)
    BY <2>3 DEF Uptime!accept, Uptime!close, Uptime!waitpid, UptimeLeaves
  <2> QED BY <2>1, <2>2, <2>3 DEF Uptime!Server
<1>5. CASE \E c \in Peers : Uptime!Child(c)
  <2>1. PICK c \in Peers : Uptime!Child(c)
    BY <1>5
  <2>2. CASE Uptime!execl_fails(c)
    BY <2>2 DEF Uptime!execl_fails, Uptime!MayFail, UptimeLeaves
  <2>3. CASE Uptime!dup2(c) \/ Uptime!execl(c)
    BY <2>3 DEF Uptime!dup2, Uptime!execl, UptimeLeaves
  <2>4. CASE Uptime!Command(c)
    <3>1. v7' = v7 /\ v2' = v2 /\ (v5' = v5 \/ v5' = [v5 EXCEPT ![c] = "uptime"])
      BY <2>4 DEF Uptime!Command
    <3> QED BY <3>1 DEF UptimeLeaves
  <2> QED BY <2>1, <2>2, <2>3, <2>4 DEF Uptime!Child
<1>6. CASE \E c \in Peers : Uptime!connect_retry(c) \/ Uptime!print_uptime(c)
  <2>1. v7' = v7 /\ v5' = v5
    BY <1>6 DEF Uptime!connect_retry, Uptime!print_uptime
  <2> QED BY <1>6, <2>1 DEF UptimeLeaves
<1> QED BY <1>1, <1>2, <1>3, <1>4, <1>5, <1>6 DEF Uptime!Next

\* A step of a server, its children or its clients.
LEMMA AnsweredKept ==
  ASSUME AnsweredInv, Uptime!Next
  PROVE AnsweredInv'
<1>1. RuptimeInv'
  BY UptimeKept DEF AnsweredInv
<1>2. v7' = v7 \/ v7' = v7 + 1
  BY UptimeSteps DEF UptimeLeaves
<1>3. v2' \in [Peers -> [pc : {"start", "conn", "done", "failed"}, tries : Nat]]
  <2>1. CASE v2' = v2
    BY <2>1 DEF AnsweredInv
  <2>2. CASE \E c \in Peers : Uptime!connect_retry(c) \/ Uptime!print_uptime(c)
    <3>1. PICK c \in Peers : Uptime!connect_retry(c) \/ Uptime!print_uptime(c)
      BY <2>2
    <3>2. v2[c] \in [pc : {"start", "conn", "done", "failed"}, tries : Nat]
      BY DEF AnsweredInv
    <3>3. PICK l \in {"start", "conn", "done", "failed"}, n \in Nat : v2' = [v2 EXCEPT ![c] = [pc |-> l, tries |-> n]]
      <4>1. CASE Uptime!connect_retry(c) /\ Uptime!Listeners = {}
        <5>1. PICK l \in {"start", "failed"} : v2' = [v2 EXCEPT ![c] = [pc |-> l, tries |-> v2[c].tries + 1]]
          BY <4>1 DEF Uptime!connect_retry
        <5>2. v2[c].tries + 1 \in Nat
          BY <3>2
        <5> QED BY <5>1, <5>2
      <4>2. CASE ~(Uptime!connect_retry(c) /\ Uptime!Listeners = {})
        <5>1. PICK l \in {"conn", "done"} : v2' = [v2 EXCEPT ![c].pc = l]
          BY <3>1, <4>2 DEF Uptime!connect_retry, Uptime!print_uptime
        <5>2. [v2[c] EXCEPT !.pc = l] = [pc |-> l, tries |-> v2[c].tries] /\ v2[c].tries \in Nat
          BY <3>2
        <5> QED BY <5>1, <5>2
      <4> QED BY <4>1, <4>2
    <3> QED BY <3>3 DEF AnsweredInv
  <2>3. v2' = v2 \/ \E c \in Peers : Uptime!connect_retry(c) \/ Uptime!print_uptime(c)
    BY UptimeSteps DEF UptimeLeaves
  <2> QED BY <2>1, <2>2, <2>3
<1>4. DOMAIN v5' = Peers
  BY UptimeSteps DEF UptimeLeaves, AnsweredInv
<1>5. ASSUME v7' = 0 PROVE Served'
  <2>1. v7 = 0 /\ ~Uptime!MayFail
    BY <1>2, <1>5 DEF AnsweredInv, Uptime!MayFail
  <2>2. NoneFailed
    BY <2>1, NoneFailedYet
  <2>3. ASSUME NEW p \in Uptime!Procs, Uptime!Server(p) PROVE p = M
    BY <2>2, <2>3 DEF NoneFailed, Served, ClientRight, Uptime!Server, Uptime!accept, Uptime!fork, Uptime!close,
      Uptime!waitpid, Uptime!At
  <2>4. Uptime!fork(M) => Served'
    BY <2>1, <2>2, ForkServed DEF Uptime!fork, Uptime!At
  <2>5. Uptime!popen => Served'
    BY <2>1, <2>2, ForkServed DEF Uptime!popen, Uptime!At, M
  <2>6. Uptime!Server(M) => Served'
    BY <2>2, <2>4, AcceptServed, CloseServed, WaitServed DEF Uptime!Server
  <2>7. ASSUME NEW c \in Peers, Uptime!Child(c) PROVE Served'
    BY <2>1, <2>2, <2>7, ChildServed, CommandServed DEF Uptime!Child, Uptime!execl_fails
  <2> QED BY <2>2, <2>3, <2>5, <2>6, <2>7, BootServed, PcloseServed, HandlerServed, ConnectServed, EndServed
        DEF Uptime!Next
<1>6. v7' \in Nat
  BY <1>2 DEF AnsweredInv
<1> QED BY <1>1, <1>3, <1>4, <1>5, <1>6 DEF AnsweredInv

\* Nobody has connected.
LEMMA AnsweredStarts ==
  ASSUME Uptime!Init
  PROVE AnsweredInv
<1>1. RuptimeInv
  BY UptimeStarts
<1>2. /\ v2 = [c \in Peers |-> [pc |-> "start", tries |-> 0]] /\ v3 = <<>> /\ v7 = 0
      /\ v4 = [p \in Uptime!Procs |-> [pc |-> IF p = Uptime!Main THEN "boot" ELSE "none", c |-> p,
                                       clfd |-> {}, out |-> {}]]
      /\ DOMAIN v5 = Peers
  BY DEF Uptime!Init
<1>3. Uptime!Main \notin Peers /\ Uptime!Procs = Peers \cup {Uptime!Main}
  BY ProgramsAssumption DEF Uptime!RuptimeAssumption, Uptime!Procs
<1>4. v4[M].pc = "boot" /\ \A c \in Peers : v4[c].pc = "none" /\ v2[c].pc = "start"
  BY <1>2, <1>3 DEF M
<1>5. Served
  BY <1>2, <1>4 DEF Served, ServerRight, ClientRight
<1> QED BY <1>1, <1>2, <1>5 DEF AnsweredInv

LEMMA AnsweredStill ==
  ASSUME AnsweredInv, UNCHANGED vars
  PROVE AnsweredInv'
<1>1. v1' = v1 /\ v2' = v2 /\ v3' = v3 /\ v4' = v4 /\ v5' = v5 /\ v7' = v7
  BY DEF vars
<1>2. RuptimeInv'
  BY UptimeStill DEF AnsweredInv
<1>3. Served => Served'
  BY <1>1 DEF Served, ServerRight, ClientRight, InQueue, AtServer, AtChild, Told
<1> QED BY <1>1, <1>2, <1>3 DEF AnsweredInv

\* No client reads the end of its connection before an answer.
LEMMA AnsweredAll ==
  ASSUME AnsweredInv
  PROVE Uptime!AnsweredBeforeEnd
BY DEF AnsweredInv, Served, ClientRight, Told, Uptime!AnsweredBeforeEnd
-----------------------------------------------------------------------------
\* What comes out of pipes, queues, terminals, files and memory is what went in, in
\* order and within its buffer, for any number of lines, messages, blocks and bytes,
\* and whatever the processes and threads do in between.  Of exercise_1b, which never
\* ends the text it prints, only that a text begins with the one sent.
THEOREM DataAlwaysInOrder == Spec => []DataInOrder
<1> DEFINE Inv == /\ part = "pipes" => PipesInv
                  /\ part = "pollmsg" => MsgsInv /\ TextsInv
                  /\ part = "pty" => PtyInv
                  /\ part = "rot13" => Rot13Inv
                  /\ part = "mem" => MemInv
<1>1. Init => Inv
  BY PartInit, PipesStarts, MsgsStart, TextsStart, PtyStarts, Rot13Starts, MemStarts
<1>2. Inv /\ [Next]_vars => Inv'
  <2> SUFFICES ASSUME Inv, [Next]_vars PROVE Inv'
    OBVIOUS
  <2>1. CASE Next
    BY <2>1, PartNext, PipesKept, MsgsKept, TextsKept, PtyKept, Rot13Kept, MemKept
  <2>2. CASE UNCHANGED vars
    <3>1. part' = part
      BY <2>2 DEF vars
    <3> QED BY <2>2, <3>1, PipesStill, MsgsStill, TextsStill, PtyStill, Rot13Still, MemStill
  <2> QED BY <2>1, <2>2
<1>3. Inv => DataInOrder
  BY PipesOrder, MsgsOrder, PtyCopies, Rot13Whole, MemHolds DEF DataInOrder
<1> HIDE DEF Inv
<1> QED BY <1>1, <1>2, <1>3, PTL DEF Spec

\* printer_status returns what the printer answered, recv_fd what was sent for the
\* request of this csopen, and no client of a ruptime server reads the end of its
\* connection before an answer, for the responses of MCConversations and whatever
\* else fails.
THEOREM AnswersAlwaysRight == Spec => []AnswersRight
<1> DEFINE Inv == /\ part = "status" => StatusInv
                  /\ part = "fd" => FdInv
                  /\ part = "ruptime" => AnsweredInv
<1>1. Init => Inv
  BY PartInit, StatusStarts, FdStarts, AnsweredStarts
<1>2. Inv /\ [Next]_vars => Inv'
  <2> SUFFICES ASSUME Inv, [Next]_vars PROVE Inv'
    OBVIOUS
  <2>1. CASE Next
    BY <2>1, PartNext, StatusKept, FdKept, AnsweredKept
  <2>2. CASE UNCHANGED vars
    <3>1. part' = part
      BY <2>2 DEF vars
    <3> QED BY <2>2, <3>1, StatusStill, FdStill, AnsweredStill
  <2> QED BY <2>1, <2>2
<1>3. Inv => AnswersRight
  BY StatusTells, FdAnswers, AnsweredAll DEF AnswersRight
<1> HIDE DEF Inv
<1> QED BY <1>1, <1>2, <1>3, PTL DEF Spec
=============================================================================
