---------------------------- MODULE ServersProof ----------------------------
(***************************************************************************)
(* Proofs about the tables and descriptors of MCPrograms: the open server  *)
(* (Opend), the uptime servers (Ruptime), popen and pclose (Popen), my_dup2*)
(* (MyDup2); db_open's are in ProgramsProof.  Each has an inductive        *)
(* invariant ...Inv, with lemmas that it holds at the start (...Starts),   *)
(* is kept by every step (...Kept) and by none (...Still), and implies what*)
(* is promised.                                                            *)
(***************************************************************************)
EXTENDS ProgramsProof, FiniteSetTheorems, SequenceTheorems, WellFoundedInduction, TLAPS

\* A set of numbers that is not empty has a least one.
LEMMA LeastNumber ==
  ASSUME NEW T \in SUBSET Nat, T # {}
  PROVE \E x \in T : \A y \in T : x <= y
<1> DEFINE R == OpToRel(<, Nat)
<1>1. IsWellFoundedOn(R, Nat)
  BY NatLessThanWellFounded
<1>2. \A a, b \in Nat : <<a, b>> \in R <=> a < b
  BY DEF OpToRel
<1> HIDE DEF R
<1>3. PICK x \in T : \A y \in T : ~(<<y, x>> \in R)
  BY <1>1, WFMin
<1>4. x \in Nat /\ \A y \in T : y \in Nat /\ ~(y < x)
  BY <1>2, <1>3
<1> QED BY <1>3, <1>4
-----------------------------------------------------------------------------
(* Opend: v1 loop, v2 cl, v3 queue, v4 conn, v5 client, v6 watch, v7 size,
   v8 srv. *)
\* What Min picks is in the set.
LEMMA MinOfOpend == \A S \in SUBSET Nat : S # {} => Server!Min(S) \in S
<1> SUFFICES ASSUME NEW S \in SUBSET Nat, S # {} PROVE Server!Min(S) \in S
  OBVIOUS
<1>1. \E x \in S : \A y \in S : x <= y
  BY LeastNumber
<1> QED BY <1>1 DEF Server!Min

\* Cardinality is the same there and here.
LEMMA SameCardinality == \A S : Server!Cardinality(S) = Cardinality(S)
BY DEF Server!Cardinality, Cardinality

\* The descriptors of the connections, and the entries of the two tables.
Fds == DOMAIN v4
Entries == [fd : Int, uid : Peers \cup {"none"}]
PollEntries == [fd : Int, revents : SUBSET {"IN", "HUP"}]
Slots == Len(v5)

OpendTypes ==
  /\ v4 \in [Fds -> Peers] /\ Fds \in SUBSET (Nat \ {0}) /\ IsFiniteSet(Fds)
  /\ v5 \in Seq(Entries)
  /\ v8 \in [pc : {"poll", "accept", "scan"}, i : Nat, ready : SUBSET Nat]

\* Every connection has one entry in client[], with the uid of its client.
ClientTable ==
  /\ \A k \in 1..Slots : v5[k].fd > 0 => v5[k].fd \in Fds /\ v5[k].uid = v4[v5[k].fd]
  /\ \A j, k \in 1..Slots : v5[j].fd = v5[k].fd /\ v5[k].fd > 0 => j = k
  /\ \A f \in Fds : \E k \in 1..Slots : v5[k].fd = f

\* loop.poll.c: every connection has one entry in pollfd[], after the first.
PollSet ==
  /\ v6 \in Seq(PollEntries) /\ Len(v6) > 0
  /\ \A k \in 2..Len(v6) : v6[k].fd \in Fds
  /\ \A j, k \in 2..Len(v6) : v6[j].fd = v6[k].fd => j = k
  /\ \A f \in Fds : \E k \in 2..Len(v6) : v6[k].fd = f
  /\ v7 \in Nat /\ Len(v6) <= v7
  /\ v8.pc = "scan" => v8.i \in 1..(Len(v6) - 1)

\* loop.select.c: allset has every connection, maxfd and maxi are large enough,
\* and the loop over client[] is at an entry that select found ready.
SelectSet ==
  /\ v6 = {0} \cup Fds
  /\ v7 \in Nat \X Nat
  /\ \A f \in Fds : f <= v7[1]
  /\ \A k \in 1..Slots : v5[k].fd > 0 => k <= v7[2]
  /\ v7[2] <= Slots
  /\ v8.pc = "scan" => v8.i \in 1..v7[2] /\ v5[v8.i].fd \in v8.ready /\ 0 \notin v8.ready

OpendInv ==
  /\ v1 \in {"poll", "select"}
  /\ Server!Alive => OpendTypes /\ ClientTable /\ (v1 = "poll" => PollSet) /\ (v1 = "select" => SelectSet)

\* accept finds a descriptor: of the numbers from 1 to n + 1 one is not among the
\* n in use.
LEMMA LowestFree ==
  ASSUME OpendTypes
  PROVE Server!Lowest \in Nat \ {0} /\ Server!Lowest \notin Fds
<1> DEFINE n == Cardinality(Fds)
           S == (0..(n + 1)) \ ({0} \cup Fds)
<1>1. n \in Nat /\ IsFiniteSet(Fds)
  BY FS_CardinalityType DEF OpendTypes
<1>2. S # {}
  <2> SUFFICES ASSUME 0..(n + 1) \subseteq Fds \cup {0} PROVE FALSE
    OBVIOUS
  <2>1. IsFiniteSet(Fds \cup {0}) /\ Cardinality(Fds \cup {0}) <= n + 1
    BY <1>1, FS_AddElement
  <2>2. IsFiniteSet(0..(n + 1)) /\ Cardinality(0..(n + 1)) = n + 2
    <3>1. Cardinality(0..(n + 1)) = IF 0 > n + 1 THEN 0 ELSE (n + 1) - 0 + 1
      BY <1>1, FS_Interval
    <3>2. IsFiniteSet(0..(n + 1))
      BY <1>1, FS_Interval
    <3> QED BY <1>1, <3>1, <3>2
  <2>3. Cardinality(0..(n + 1)) <= Cardinality(Fds \cup {0})
    BY <2>1, FS_Subset
  <2>4. Cardinality(Fds \cup {0}) \in Nat
    BY <2>1, FS_CardinalityType
  <2> QED BY <1>1, <2>1, <2>2, <2>3, <2>4
<1>3. S \in SUBSET Nat
  BY <1>1
<1>4. Server!Lowest = Server!Min(S)
  BY SameCardinality DEF Server!Lowest, Fds
<1> HIDE DEF S
<1>5. Server!Lowest \in S
  BY <1>2, <1>3, <1>4, MinOfOpend
<1> QED BY <1>1, <1>5 DEF S

\* client_add puts the connection into an entry that was free or is new.
LEMMA ClientAdded ==
  ASSUME OpendTypes, NEW f \in Nat \ {0}, NEW u \in Peers
  PROVE \E t \in Seq(Entries), k \in Nat :
          /\ Server!client_add(f, u)[1] = t /\ Server!client_add(f, u)[2] = k
          /\ Slots <= Len(t) /\ k \in 1..Len(t) /\ t[k] = [fd |-> f, uid |-> u]
          /\ k <= Slots => v5[k].fd = -1
          /\ \A j \in 1..Len(t) : j # k => IF j <= Slots THEN t[j] = v5[j] ELSE t[j].fd = -1
<1> DEFINE b == IF Server!FreeEntries(v5) = {} THEN Server!client_alloc(v5) ELSE v5
           k == Server!Min(Server!FreeEntries(b))
           e == [fd |-> f, uid |-> u]
           t == [b EXCEPT ![k] = e]
<1>0. v5 \in Seq(Entries) /\ Slots \in Nat /\ Len(v5) = Slots /\ NALLOC \in Nat /\ NALLOC > 0
  BY ProgramsAssumption DEF OpendTypes, Slots, Server!OpendAssumption
<1>1. /\ b \in Seq(Entries) /\ Slots <= Len(b) /\ Server!FreeEntries(b) # {}
      /\ \A j \in 1..Len(b) : IF j <= Slots THEN b[j] = v5[j] ELSE b[j].fd = -1
  <2>1. CASE Server!FreeEntries(v5) = {}
    <3> DEFINE new == [j \in 1..NALLOC |-> [fd |-> -1, uid |-> "none"]]
    <3>1. new \in Seq(Entries) /\ Len(new) = NALLOC
      BY <1>0 DEF Entries
    <3>2. b = v5 \o new
      BY <2>1 DEF Server!client_alloc
    <3>3. b \in Seq(Entries) /\ Len(b) = Slots + NALLOC
      <4> HIDE DEF b, new
      <4>1. v5 \o new \in Seq(Entries) /\ Len(v5 \o new) = Len(v5) + Len(new)
        BY <1>0, <3>1, ConcatProperties
      <4> QED BY <1>0, <3>1, <3>2, <4>1
    <3>4. ASSUME NEW j \in 1..Len(b) PROVE b[j] = IF j <= Slots THEN v5[j] ELSE new[j - Slots]
      <4> HIDE DEF b, new
      <4>1. \A l \in 1..(Len(v5) + Len(new)) : (v5 \o new)[l] = IF l <= Len(v5) THEN v5[l] ELSE new[l - Len(v5)]
        BY <1>0, <3>1, ConcatProperties
      <4> QED BY <1>0, <3>1, <3>2, <3>3, <4>1
    <3>5. ASSUME NEW j \in 1..Len(b), j > Slots PROVE b[j].fd = -1
      <4>1. j - Slots \in 1..NALLOC /\ b[j] = new[j - Slots]
        BY <1>0, <3>3, <3>4, <3>5
      <4> QED BY <4>1
    <3>6. Slots + 1 \in 1..Len(b) /\ Slots + 1 > Slots /\ DOMAIN b = 1..Len(b)
      BY <1>0, <3>3
    <3>7. Server!FreeEntries(b) # {}
      BY <3>5, <3>6 DEF Server!FreeEntries
    <3>8. ASSUME NEW j \in 1..Len(b), j <= Slots PROVE b[j] = v5[j]
      BY <3>4, <3>8
    <3>9. \A j \in 1..Len(b) : IF j <= Slots THEN b[j] = v5[j] ELSE b[j].fd = -1
      <4> SUFFICES ASSUME NEW j \in 1..Len(b) PROVE IF j <= Slots THEN b[j] = v5[j] ELSE b[j].fd = -1
        OBVIOUS
      <4>1. Len(b) \in Nat
        BY <1>0, <3>3
      <4>2. CASE j <= Slots
        BY <3>8, <4>2
      <4>3. CASE j > Slots
        BY <3>5, <4>3, <1>0, <4>1
      <4> QED BY <1>0, <4>1, <4>2, <4>3
    <3> HIDE DEF b
    <3> QED BY <1>0, <3>3, <3>7, <3>9
  <2>2. CASE Server!FreeEntries(v5) # {}
    <3>1. b = v5
      BY <2>2
    <3> QED BY <1>0, <2>2, <3>1
  <2> QED BY <2>1, <2>2
<1> HIDE DEF b
<1>2. k \in Server!FreeEntries(b)
  <2>1. Server!FreeEntries(b) \in SUBSET Nat
    BY <1>1 DEF Server!FreeEntries
  <2> QED BY <1>1, <2>1, MinOfOpend
<1>3. k \in 1..Len(b) /\ b[k].fd = -1
  BY <1>1, <1>2 DEF Server!FreeEntries
<1>4. Server!client_add(f, u)[1] = t /\ Server!client_add(f, u)[2] = k
  BY DEF Server!client_add, b
<1> HIDE DEF k
<1>5. e \in Entries /\ e = [fd |-> f, uid |-> u]
  BY DEF Entries
<1> HIDE DEF e
<1>6. /\ t \in Seq(Entries) /\ Len(t) = Len(b) /\ t[k] = e
      /\ \A j \in 1..Len(t) : j # k => t[j] = b[j]
  BY <1>1, <1>3, <1>5
<1> HIDE DEF t
<1>7. k <= Slots => v5[k].fd = -1
  BY <1>1, <1>3
<1> QED BY <1>0, <1>1, <1>3, <1>4, <1>5, <1>6, <1>7

\* client_del frees the entry of the connection.
LEMMA ClientDeleted ==
  ASSUME OpendTypes, ClientTable, NEW f \in Fds
  PROVE \E k \in 1..Slots : v5[k].fd = f /\ Server!client_del(f) = [v5 EXCEPT ![k].fd = -1]
<1> DEFINE S == {j \in DOMAIN v5 : v5[j].fd = f}
<1>1. DOMAIN v5 = 1..Slots /\ Slots \in Nat
  BY DEF OpendTypes, Slots
<1>2. S \in SUBSET Nat /\ S # {}
  BY <1>1 DEF ClientTable
<1>3. Server!client_del(f) = [v5 EXCEPT ![Server!Min(S)].fd = -1]
  BY DEF Server!client_del
<1> HIDE DEF S
<1>4. Server!Min(S) \in S
  BY <1>2, MinOfOpend
<1> QED BY <1>1, <1>3, <1>4 DEF S
\* serv_accept: the new connection gets an entry with the uid of its client.
LEMMA TableAdds ==
  ASSUME OpendTypes, ClientTable, NEW c \in Peers, Server!Connect(c),
         v5' = Server!client_add(Server!Lowest, c)[1]
  PROVE /\ v4' \in [Fds' -> Peers] /\ Fds' \in SUBSET (Nat \ {0}) /\ IsFiniteSet(Fds')
        /\ v5' \in Seq(Entries) /\ ClientTable'
        /\ Fds' = Fds \cup {Server!Lowest}
        /\ \E k \in 1..Slots' : /\ Server!client_add(Server!Lowest, c)[2] = k /\ Slots <= Slots'
                                /\ \A j \in 1..Slots' : v5'[j].fd > 0 => j = k \/ (j \in 1..Slots /\ v5[j].fd > 0)
<1> DEFINE f == Server!Lowest
<1>1. f \in Nat \ {0} /\ f \notin Fds
  BY LowestFree
<1>2. v4' = [g \in Fds \cup {f} |-> IF g = f THEN c ELSE v4[g]]
  BY DEF Server!Connect, Fds
<1> HIDE DEF f
<1>3. Fds' = Fds \cup {f} /\ v4'[f] = c /\ \A g \in Fds : v4'[g] = v4[g]
  BY <1>1, <1>2 DEF Fds
<1>4. v4' \in [Fds' -> Peers] /\ Fds' \in SUBSET (Nat \ {0})
  BY <1>1, <1>2, <1>3 DEF OpendTypes
<1>5. IsFiniteSet(Fds')
  BY <1>3, FS_AddElement DEF OpendTypes
<1>6. PICK t \in Seq(Entries), k \in Nat :
          /\ Server!client_add(f, c)[1] = t /\ Server!client_add(f, c)[2] = k
          /\ Slots <= Len(t) /\ k \in 1..Len(t) /\ t[k] = [fd |-> f, uid |-> c]
          /\ k <= Slots => v5[k].fd = -1
          /\ \A j \in 1..Len(t) : j # k => IF j <= Slots THEN t[j] = v5[j] ELSE t[j].fd = -1
  BY <1>1, ClientAdded
<1>7. v5' = t /\ Slots' = Len(t) /\ Slots \in Nat /\ Slots' \in Nat
  BY <1>6 DEF f, Slots, OpendTypes
<1>8. k \in 1..Slots' /\ v5'[k].fd = f /\ v5'[k].uid = c /\ Slots <= Slots'
  BY <1>6, <1>7
<1>9. \A j \in 1..Slots : j # k => j \in 1..Slots' /\ v5'[j] = v5[j]
  BY <1>6, <1>7
<1>10. \A j \in 1..Slots' : j # k /\ v5'[j].fd > 0 => j \in 1..Slots /\ v5'[j] = v5[j]
  BY <1>6, <1>7
<1>11. ClientTable'
  <2>1. \A j \in 1..Slots' : v5'[j].fd > 0 => v5'[j].fd \in Fds' /\ v5'[j].uid = v4'[v5'[j].fd]
    <3> SUFFICES ASSUME NEW j \in 1..Slots', v5'[j].fd > 0
                 PROVE v5'[j].fd \in Fds' /\ v5'[j].uid = v4'[v5'[j].fd]
      OBVIOUS
    <3>1. CASE j = k
      BY <1>3, <1>8, <3>1
    <3>2. CASE j # k
      <4>1. j \in 1..Slots /\ v5'[j] = v5[j]
        BY <1>10, <3>2
      <4>2. v5[j].fd \in Fds /\ v5[j].uid = v4[v5[j].fd]
        BY <4>1 DEF ClientTable
      <4> QED BY <1>3, <4>1, <4>2
    <3> QED BY <3>1, <3>2
  <2>2. ASSUME NEW i \in 1..Slots', NEW j \in 1..Slots', v5'[i].fd = v5'[j].fd, v5'[j].fd > 0, j = k
        PROVE i = j
    <3> SUFFICES ASSUME i # k PROVE FALSE
      BY <2>2
    <3>1. i \in 1..Slots /\ v5[i].fd = f /\ f > 0
      BY <1>8, <1>10, <2>2
    <3> QED BY <1>1, <3>1 DEF ClientTable
  <2>3. ASSUME NEW i \in 1..Slots', NEW j \in 1..Slots', v5'[i].fd = v5'[j].fd, v5'[j].fd > 0
        PROVE i = j
    <3>1. CASE i = k \/ j = k
      BY <2>2, <2>3, <3>1
    <3>2. CASE i # k /\ j # k
      <4>1. i \in 1..Slots /\ v5'[i] = v5[i] /\ j \in 1..Slots /\ v5'[j] = v5[j]
        BY <1>10, <2>3, <3>2
      <4> QED BY <2>3, <4>1 DEF ClientTable
    <3> QED BY <3>1, <3>2
  <2>4. ASSUME NEW g \in Fds' PROVE \E j \in 1..Slots' : v5'[j].fd = g
    <3>1. CASE g = f
      BY <1>8, <3>1
    <3>2. CASE g # f
      <4>1. g \in Fds /\ g > 0
        BY <1>3, <3>2 DEF OpendTypes
      <4>2. PICK j \in 1..Slots : v5[j].fd = g
        BY <4>1 DEF ClientTable
      <4>3. j # k
        BY <1>6, <1>8, <4>1, <4>2
      <4> QED BY <1>9, <4>2, <4>3
    <3> QED BY <3>1, <3>2
  <2> QED BY <2>1, <2>3, <2>4 DEF ClientTable
<1>12. \A j \in 1..Slots' : v5'[j].fd > 0 => j = k \/ (j \in 1..Slots /\ v5[j].fd > 0)
  BY <1>10
<1>13. Server!client_add(f, c)[2] = k
  BY <1>6
<1>14. v5' \in Seq(Entries)
  BY <1>6, <1>7
<1> QED BY <1>3, <1>4, <1>5, <1>8, <1>11, <1>12, <1>13, <1>14 DEF f

\* A connection is closed and its entry freed.
LEMMA TableDrops ==
  ASSUME OpendTypes, ClientTable, NEW f \in Fds, Server!Close(f), v5' = Server!client_del(f)
  PROVE /\ v4' \in [Fds' -> Peers] /\ Fds' \in SUBSET (Nat \ {0}) /\ IsFiniteSet(Fds')
        /\ v5' \in Seq(Entries) /\ ClientTable'
        /\ Fds' = Fds \ {f}
        /\ Slots' = Slots /\ \A j \in 1..Slots : v5'[j].fd > 0 => v5[j].fd > 0
<1>1. v4' = [g \in Fds \ {f} |-> v4[g]]
  BY DEF Server!Close, Fds
<1>2. Fds' = Fds \ {f} /\ \A g \in Fds \ {f} : v4'[g] = v4[g]
  BY <1>1 DEF Fds
<1>3. v4' \in [Fds' -> Peers] /\ Fds' \in SUBSET (Nat \ {0})
  BY <1>1, <1>2 DEF OpendTypes
<1>4. IsFiniteSet(Fds')
  BY <1>2, FS_Subset DEF OpendTypes
<1>5. PICK k \in 1..Slots : v5[k].fd = f /\ v5' = [v5 EXCEPT ![k].fd = -1]
  BY ClientDeleted
<1>6. f \in Nat /\ f > 0
  BY DEF OpendTypes
<1>7. v5' \in Seq(Entries) /\ Len(v5') = Len(v5)
  <2>1. v5[k] \in Entries
    BY <1>5 DEF OpendTypes, Slots
  <2>2. [v5[k] EXCEPT !.fd = -1] \in Entries
    BY <2>1 DEF Entries
  <2> QED BY <1>5, <2>2 DEF OpendTypes, Slots
<1>8. Slots' = Slots
  BY <1>7 DEF Slots
<1>9. v5'[k].fd = -1 /\ \A j \in 1..Slots : j # k => v5'[j] = v5[j]
  BY <1>5 DEF OpendTypes, Slots, Entries
<1>10. \A j \in 1..Slots : v5'[j].fd > 0 => j # k /\ v5'[j] = v5[j]
  BY <1>9
<1>11. ClientTable'
  <2>1. ASSUME NEW j \in 1..Slots, v5'[j].fd > 0
        PROVE v5'[j].fd \in Fds' /\ v5'[j].uid = v4'[v5'[j].fd]
    <3>1. j # k /\ v5'[j] = v5[j] /\ v5[j].fd > 0
      BY <1>10, <2>1
    <3>2. v5[j].fd \in Fds /\ v5[j].uid = v4[v5[j].fd] /\ v5[j].fd # f
      BY <1>5, <1>6, <3>1 DEF ClientTable
    <3> QED BY <1>2, <3>1, <3>2
  <2>2. ASSUME NEW i \in 1..Slots, NEW j \in 1..Slots, v5'[i].fd = v5'[j].fd, v5'[j].fd > 0
        PROVE i = j
    BY <1>10, <2>2 DEF ClientTable
  <2>3. ASSUME NEW g \in Fds' PROVE \E j \in 1..Slots : v5'[j].fd = g
    <3>1. PICK j \in 1..Slots : v5[j].fd = g
      BY <1>2 DEF ClientTable
    <3> QED BY <1>2, <1>5, <1>9, <3>1
  <2> QED BY <1>8, <2>1, <2>2, <2>3 DEF ClientTable
<1> QED BY <1>2, <1>3, <1>4, <1>7, <1>8, <1>10, <1>11

\* The for loop of loop.poll.c stops at an entry of pollfd[] after the first, or
\* goes back to poll with the same entries.
LEMMA ScanStops ==
  ASSUME NEW w \in Seq(PollEntries), NEW i \in Nat \ {0}, Server!Scan(w, i),
         v8 \in [pc : {"poll", "accept", "scan"}, i : Nat, ready : SUBSET Nat]
  PROVE /\ v8' \in [pc : {"poll", "accept", "scan"}, i : Nat, ready : SUBSET Nat]
        /\ v8'.pc = "scan" => v8'.i \in 1..(Len(w) - 1)
        /\ v6' \in Seq(PollEntries) /\ Len(v6') = Len(w) /\ \A k \in 1..Len(w) : v6'[k].fd = w[k].fd
<1> DEFINE found == {k \in i..(Len(w) - 1) : w[k + 1].revents # {}}
<1>0. found \in SUBSET Nat /\ found \subseteq i..(Len(w) - 1) /\ Len(w) \in Nat
  OBVIOUS
<1>1. CASE found # {}
  <2> DEFINE m == Server!Min(found)
  <2>1. v8' = [v8 EXCEPT !.pc = "scan", !.i = m] /\ v6' = w
    BY <1>1 DEF Server!Scan
  <2>2. m \in found
    <3> HIDE DEF found
    <3> QED BY <1>0, <1>1, MinOfOpend
  <2> HIDE DEF found, m
  <2>3. m \in i..(Len(w) - 1)
    BY <1>0, <2>2
  <2>4. m \in 1..(Len(w) - 1) /\ m \in Nat
    BY <1>0, <2>3
  <2>5. v8' \in [pc : {"poll", "accept", "scan"}, i : Nat, ready : SUBSET Nat] /\ v8'.i = m
    BY <2>1, <2>4
  <2> QED BY <2>1, <2>4, <2>5
<1>2. CASE found = {}
  <2>1. /\ v8' = [v8 EXCEPT !.pc = "poll", !.i = 0]
        /\ v6' = [k \in DOMAIN w |-> [w[k] EXCEPT !.revents = {}]]
    BY <1>2 DEF Server!Scan
  <2>2. \A e \in PollEntries : [e EXCEPT !.revents = {}] \in PollEntries /\ [e EXCEPT !.revents = {}].fd = e.fd
    BY DEF PollEntries
  <2>3. \A k \in 1..Len(w) : w[k] \in PollEntries
    OBVIOUS
  <2>4. v6' = [k \in 1..Len(w) |-> [w[k] EXCEPT !.revents = {}]]
    BY <2>1
  <2>5. v6' \in Seq(PollEntries) /\ Len(v6') = Len(w)
    BY <1>0, <2>2, <2>3, <2>4
  <2>6. \A k \in 1..Len(w) : v6'[k].fd = w[k].fd
    BY <2>2, <2>3, <2>4
  <2>7. v8' \in [pc : {"poll", "accept", "scan"}, i : Nat, ready : SUBSET Nat] /\ v8'.pc = "poll"
    BY <2>1
  <2> QED BY <2>5, <2>6, <2>7
<1> QED BY <1>1, <1>2

\* The loop of loop.select.c stops at an entry that is ready, or goes back.
LEMMA SelectStops ==
  ASSUME NEW t \in Seq(Entries), NEW i \in Nat \ {0}, NEW r \in SUBSET Nat, Server!SelectScan(t, i, r),
         v7 \in Nat \X Nat
  PROVE /\ v8' \in [pc : {"poll", "accept", "scan"}, i : Nat, ready : SUBSET Nat]
        /\ v8'.pc = "scan" => v8'.i \in 1..v7[2] /\ t[v8'.i].fd \in v8'.ready /\ v8'.ready = r
<1> DEFINE found == {k \in i..v7[2] : t[k].fd \in r}
<1>0. found \in SUBSET Nat /\ found \subseteq i..v7[2]
  OBVIOUS
<1>1. v8' = IF found # {} THEN [pc |-> "scan", i |-> Server!Min(found), ready |-> r]
                          ELSE [pc |-> "poll", i |-> 0, ready |-> {}]
  BY DEF Server!SelectScan, Server!maxi
<1>2. CASE found # {}
  <2> DEFINE m == Server!Min(found)
  <2>1. m \in found
    <3> HIDE DEF found
    <3> QED BY <1>0, <1>2, MinOfOpend
  <2> HIDE DEF m
  <2>2. m \in 1..v7[2] /\ t[m].fd \in r
    BY <2>1
  <2>3. v8' = [pc |-> "scan", i |-> m, ready |-> r]
    BY <1>1, <1>2 DEF m
  <2> QED BY <2>2, <2>3
<1>3. CASE found = {}
  BY <1>1, <1>3
<1> QED BY <1>2, <1>3
\* What the steps of the server that keep it running leave to show.
LEMMA OpendBuilt ==
  ASSUME v1 \in {"poll", "select"}, v1' = v1,
         OpendTypes', ClientTable', v1 = "poll" => PollSet', v1 = "select" => SelectSet'
  PROVE OpendInv'
BY DEF OpendInv

\* A server that has ended.
LEMMA OpendEnds ==
  ASSUME v1 \in {"poll", "select"}, Server!Die
  PROVE OpendInv'
BY DEF OpendInv, Server!Die, Server!Alive

\* A step that leaves the tables alone.
LEMMA OpendSame ==
  ASSUME OpendInv, UNCHANGED <<v1, v4, v5, v6, v7, v8>>
  PROVE OpendInv'
<1>1. Fds' = Fds /\ Slots' = Slots /\ Server!Alive' = Server!Alive
  BY DEF Fds, Slots, Server!Alive
<1> QED BY <1>1 DEF OpendInv, OpendTypes, ClientTable, PollSet, SelectSet

\* poll: the entries of pollfd[] get their events.
LEMMA PollKeeps ==
  ASSUME OpendInv, Server!Poll
  PROVE OpendInv'
<1>1. /\ v1 = "poll" /\ v8.pc = "poll" /\ UNCHANGED <<v1, v4, v5, v7>>
  BY DEF Server!Poll, Server!At
<1>2. OpendTypes /\ ClientTable /\ PollSet
  BY <1>1 DEF OpendInv, Server!Alive
<1> DEFINE ev(k) == {e \in {"IN", "HUP"} : v6[k].fd \in Server!Ready
                                           /\ (e = "HUP" => k > 1 /\ Server!HungUp(v6[k].fd))}
           w == [k \in DOMAIN v6 |-> [v6[k] EXCEPT !.revents = ev(k)]]
<1>3. IF 0 \in Server!Ready THEN v8' = [v8 EXCEPT !.pc = "accept"] /\ v6' = w ELSE Server!Scan(w, 1)
  BY DEF Server!Poll
<1>4. \A e \in PollEntries : \A r \in SUBSET {"IN", "HUP"} :
        [e EXCEPT !.revents = r] \in PollEntries /\ [e EXCEPT !.revents = r].fd = e.fd
  BY DEF PollEntries
<1>5. \A k \in 1..Len(v6) : v6[k] \in PollEntries /\ ev(k) \in SUBSET {"IN", "HUP"}
  BY <1>2 DEF PollSet
<1> HIDE DEF ev
<1>6. w = [k \in 1..Len(v6) |-> [v6[k] EXCEPT !.revents = ev(k)]] /\ Len(v6) \in Nat
  BY <1>2 DEF PollSet
<1>7. w \in Seq(PollEntries) /\ Len(w) = Len(v6)
  BY <1>4, <1>5, <1>6
<1>8. \A k \in 1..Len(v6) : w[k].fd = v6[k].fd
  BY <1>4, <1>5, <1>6
<1> HIDE DEF w
<1>9. /\ v6' \in Seq(PollEntries) /\ Len(v6') = Len(v6) /\ \A k \in 1..Len(v6) : v6'[k].fd = v6[k].fd
      /\ v8' \in [pc : {"poll", "accept", "scan"}, i : Nat, ready : SUBSET Nat]
      /\ v8'.pc = "scan" => v8'.i \in 1..(Len(v6) - 1)
  <2>1. CASE 0 \in Server!Ready
    <3>1. v8' = [v8 EXCEPT !.pc = "accept"] /\ v6' = w
      BY <1>3, <2>1
    <3>2. v8' \in [pc : {"poll", "accept", "scan"}, i : Nat, ready : SUBSET Nat] /\ v8'.pc = "accept"
      BY <1>2, <3>1 DEF OpendTypes
    <3> QED BY <1>7, <1>8, <3>1, <3>2
  <2>2. CASE 0 \notin Server!Ready
    <3>1. Server!Scan(w, 1)
      BY <1>3, <2>2
    <3>2. v8 \in [pc : {"poll", "accept", "scan"}, i : Nat, ready : SUBSET Nat] /\ 1 \in Nat \ {0}
      BY <1>2 DEF OpendTypes
    <3> QED BY <1>7, <1>8, <3>1, <3>2, ScanStops
  <2> QED BY <2>1, <2>2
<1>10. Fds' = Fds /\ Slots' = Slots
  BY <1>1 DEF Fds, Slots
<1>11. PollSet'
  BY <1>1, <1>2, <1>9, <1>10 DEF PollSet
<1>12. OpendTypes' /\ ClientTable'
  BY <1>1, <1>2, <1>9, <1>10 DEF OpendTypes, ClientTable
<1> QED BY <1>1, <1>11, <1>12, OpendBuilt

\* accept in loop.poll.c: a new last entry.
LEMMA PollAcceptKeeps ==
  ASSUME OpendInv, Server!PollAccept
  PROVE OpendInv'
<1>1. /\ v1 = "poll" /\ v8.pc = "accept" /\ v1' = v1
      /\ v7' = IF Len(v6) = v7 THEN v7 + NALLOC ELSE v7
  BY DEF Server!PollAccept, Server!At, Server!numfd
<1>2. OpendTypes /\ ClientTable /\ PollSet
  BY <1>1 DEF OpendInv, Server!Alive
<1>3. PICK c \in Peers : Server!Connect(c) /\ v5' = Server!client_add(Server!Lowest, c)[1]
  BY DEF Server!PollAccept
<1> DEFINE f == Server!Lowest
           w == Append(v6, [fd |-> f, revents |-> {}])
<1>4. /\ v4' \in [Fds' -> Peers] /\ Fds' \in SUBSET (Nat \ {0}) /\ IsFiniteSet(Fds')
      /\ v5' \in Seq(Entries) /\ ClientTable' /\ Fds' = Fds \cup {f}
  BY <1>2, <1>3, TableAdds
<1>5. f \in Nat \ {0} /\ f \notin Fds
  BY <1>2, LowestFree
<1>6. Server!Scan(w, 1)
  BY DEF Server!PollAccept
<1> HIDE DEF f
<1>7. [fd |-> f, revents |-> {}] \in PollEntries /\ [fd |-> f, revents |-> {}].fd = f
  BY <1>5 DEF PollEntries
<1>8. /\ w \in Seq(PollEntries) /\ Len(w) = Len(v6) + 1 /\ Len(v6) \in Nat
      /\ w[Len(v6) + 1].fd = f /\ \A k \in 1..Len(v6) : w[k].fd = v6[k].fd
  BY <1>2, <1>7 DEF PollSet
<1> HIDE DEF w
<1>9. /\ v8' \in [pc : {"poll", "accept", "scan"}, i : Nat, ready : SUBSET Nat]
      /\ v8'.pc = "scan" => v8'.i \in 1..(Len(w) - 1)
      /\ v6' \in Seq(PollEntries) /\ Len(v6') = Len(w) /\ \A k \in 1..Len(w) : v6'[k].fd = w[k].fd
  <2>1. v8 \in [pc : {"poll", "accept", "scan"}, i : Nat, ready : SUBSET Nat] /\ 1 \in Nat \ {0}
    BY <1>2 DEF OpendTypes
  <2> QED BY <1>6, <1>8, <2>1, ScanStops
<1> PICK n \in Nat : n = Len(v6)
  BY <1>8
<1>10. /\ Len(v6') = n + 1 /\ v6'[n + 1].fd = f /\ \A k \in 1..n : v6'[k].fd = v6[k].fd
  BY <1>8, <1>9
<1>11. n > 0 /\ n <= v7 /\ v7 \in Nat
  BY <1>2 DEF PollSet
<1>12. \A k \in 2..n : k \in 1..n /\ v6'[k].fd \in Fds /\ v6'[k].fd # f
  BY <1>2, <1>5, <1>10 DEF PollSet
<1>13. \A k \in 2..(n + 1) : k = n + 1 \/ k \in 2..n
  OBVIOUS
<1>14. v7' \in Nat /\ n + 1 <= v7'
  BY <1>1, <1>11, ProgramsAssumption DEF Server!OpendAssumption
<1>15. \A k \in 2..(n + 1) : v6'[k].fd \in Fds'
  BY <1>4, <1>10, <1>12, <1>13
<1>16. \A j, k \in 2..(n + 1) : v6'[j].fd = v6'[k].fd => j = k
  <2> SUFFICES ASSUME NEW j \in 2..(n + 1), NEW k \in 2..(n + 1), v6'[j].fd = v6'[k].fd PROVE j = k
    OBVIOUS
  <2>1. CASE j = n + 1 \/ k = n + 1
    BY <1>10, <1>12, <1>13, <2>1
  <2>2. CASE j # n + 1 /\ k # n + 1
    BY <1>2, <1>10, <1>12, <1>13, <2>2 DEF PollSet
  <2> QED BY <2>1, <2>2
<1>17. \A g \in Fds' : \E k \in 2..(n + 1) : v6'[k].fd = g
  <2> SUFFICES ASSUME NEW g \in Fds' PROVE \E k \in 2..(n + 1) : v6'[k].fd = g
    OBVIOUS
  <2>1. CASE g = f
    <3>1. n + 1 \in 2..(n + 1)
      BY <1>11
    <3> QED BY <1>10, <2>1, <3>1
  <2>2. CASE g # f
    <3>1. PICK k \in 2..n : v6[k].fd = g
      BY <1>2, <1>4, <2>2 DEF PollSet
    <3>2. k \in 2..(n + 1) /\ k \in 1..n
      BY <3>1
    <3> QED BY <1>10, <3>1, <3>2
  <2> QED BY <2>1, <2>2
<1>18. PollSet'
  BY <1>8, <1>9, <1>10, <1>11, <1>14, <1>15, <1>16, <1>17 DEF PollSet
<1>19. OpendTypes'
  BY <1>4, <1>9 DEF OpendTypes
<1> QED BY <1>1, <1>4, <1>18, <1>19, OpendBuilt
\* A client of loop.poll.c hangs up: the last entry of pollfd[] takes its place.
LEMMA PollHangUpKeeps ==
  ASSUME OpendInv, Server!PollHangUp
  PROVE OpendInv'
<1>1. v1 = "poll" /\ v8.pc = "scan"
  BY DEF Server!PollHangUp, Server!At
<1>2. OpendTypes /\ ClientTable /\ PollSet
  BY <1>1 DEF OpendInv, Server!Alive
<1> PICK n \in Nat : n = Len(v6)
  BY <1>2 DEF PollSet
<1> PICK i \in Nat : i = v8.i
  BY <1>2 DEF OpendTypes
<1> DEFINE f == v6[i + 1].fd
<1>3. i \in 1..(n - 1) /\ i + 1 \in 2..n /\ n > 1
  BY <1>1, <1>2 DEF PollSet
<1>4. f \in Fds /\ Server!Entry.fd = f
  BY <1>2, <1>3 DEF PollSet, Server!Entry
<1>5. Server!Known(f)
  <2>1. \E k \in 1..Slots : v5[k].fd = f
    BY <1>2, <1>4 DEF ClientTable
  <2> QED BY <1>2, <2>1 DEF Server!Known, OpendTypes, Slots
<1> DEFINE w == Server!Pack(i)
<1>6. /\ v5' = Server!client_del(f) /\ Server!Close(f) /\ v1' = v1 /\ v7' = v7
      /\ Server!Scan(w, IF i < n - 1 THEN i ELSE i + 1)
  BY <1>4, <1>5 DEF Server!PollHangUp, Server!numfd
<1>7. /\ v4' \in [Fds' -> Peers] /\ Fds' \in SUBSET (Nat \ {0}) /\ IsFiniteSet(Fds')
      /\ v5' \in Seq(Entries) /\ ClientTable' /\ Fds' = Fds \ {f}
  BY <1>2, <1>4, <1>6, TableDrops
<1>8. /\ w \in Seq(PollEntries) /\ Len(w) = n - 1
      /\ \A k \in 1..(n - 1) : w[k] = IF k = i + 1 THEN v6[n] ELSE v6[k]
  <2>0. v6 \in Seq(PollEntries) /\ n \in 1..Len(v6) /\ n - 1 \in Nat
    BY <1>2, <1>3 DEF PollSet
  <2>1. CASE i < n - 1
    <3> DEFINE b == [v6 EXCEPT ![i + 1] = v6[n]]
    <3>1. w = SubSeq(b, 1, n - 1)
      BY <2>1 DEF Server!Pack, Server!numfd
    <3>2. b \in Seq(PollEntries) /\ Len(b) = n
      BY <1>3, <2>0
    <3>3. \A k \in 1..(n - 1) : b[k] = IF k = i + 1 THEN v6[n] ELSE v6[k]
      BY <1>3, <2>0
    <3> HIDE DEF b
    <3>4. SubSeq(b, 1, n - 1) \in Seq(PollEntries) /\ Len(SubSeq(b, 1, n - 1)) = n - 1
      BY <1>3, <2>0, <3>2
    <3>5. \A k \in 1..(n - 1) : SubSeq(b, 1, n - 1)[k] = b[k]
      BY <1>3, <2>0, <3>2
    <3> HIDE DEF w
    <3> QED BY <3>1, <3>3, <3>4, <3>5
  <2>2. CASE i = n - 1
    <3>1. w = SubSeq(v6, 1, n - 1)
      BY <2>2 DEF Server!Pack, Server!numfd
    <3>2. SubSeq(v6, 1, n - 1) \in Seq(PollEntries) /\ Len(SubSeq(v6, 1, n - 1)) = n - 1
      BY <1>3, <2>0
    <3>3. \A k \in 1..(n - 1) : SubSeq(v6, 1, n - 1)[k] = v6[k]
      BY <1>3, <2>0
    <3>4. \A k \in 1..(n - 1) : k # i + 1
      BY <2>2
    <3> HIDE DEF w
    <3> QED BY <3>1, <3>2, <3>3, <3>4
  <2> QED BY <1>3, <2>1, <2>2
<1> HIDE DEF w
<1>9. /\ v8' \in [pc : {"poll", "accept", "scan"}, i : Nat, ready : SUBSET Nat]
      /\ v8'.pc = "scan" => v8'.i \in 1..(n - 1 - 1)
      /\ v6' \in Seq(PollEntries) /\ Len(v6') = n - 1 /\ \A k \in 1..(n - 1) : v6'[k].fd = w[k].fd
  <2>1. v8 \in [pc : {"poll", "accept", "scan"}, i : Nat, ready : SUBSET Nat]
    BY <1>2 DEF OpendTypes
  <2> DEFINE j == IF i < n - 1 THEN i ELSE i + 1
  <2>2. j \in Nat \ {0}
    BY <1>3
  <2>3. Server!Scan(w, j)
    BY <1>6
  <2> HIDE DEF j
  <2> QED BY <1>8, <2>1, <2>2, <2>3, ScanStops
<1>10. \A k \in 1..(n - 1) : v6'[k].fd = IF k = i + 1 THEN v6[n].fd ELSE v6[k].fd
  BY <1>8, <1>9
<1>11. \A k \in 2..(n - 1) : /\ k \in 1..(n - 1) /\ k \in 2..n /\ k # n
  BY <1>3
<1>12. n \in 2..n
  BY <1>3
<1>13. \A j, k \in 2..n : v6[j].fd = v6[k].fd => j = k
  BY <1>2 DEF PollSet
<1>14. \A k \in 2..n : v6[k].fd \in Fds
  BY <1>2 DEF PollSet
<1>15. \A k \in 2..(n - 1) : v6'[k].fd \in Fds'
  <2> SUFFICES ASSUME NEW k \in 2..(n - 1) PROVE v6'[k].fd \in Fds'
    OBVIOUS
  <2>1. CASE k = i + 1
    <3>1. v6'[k].fd = v6[n].fd /\ n # i + 1
      BY <1>10, <1>11, <2>1
    <3> QED BY <1>3, <1>7, <1>12, <1>13, <1>14, <3>1
  <2>2. CASE k # i + 1
    <3>1. v6'[k].fd = v6[k].fd
      BY <1>10, <1>11, <2>2
    <3> QED BY <1>3, <1>7, <1>11, <1>13, <1>14, <2>2, <3>1
  <2> QED BY <2>1, <2>2
<1>16. \A j, k \in 2..(n - 1) : v6'[j].fd = v6'[k].fd => j = k
  <2> DEFINE from(k) == IF k = i + 1 THEN n ELSE k
  <2>1. \A k \in 2..(n - 1) : v6'[k].fd = v6[from(k)].fd /\ from(k) \in 2..n
    BY <1>10, <1>11, <1>12
  <2>2. \A j, k \in 2..(n - 1) : from(j) = from(k) => j = k
    BY <1>11
  <2> HIDE DEF from
  <2> SUFFICES ASSUME NEW j \in 2..(n - 1), NEW k \in 2..(n - 1), v6'[j].fd = v6'[k].fd
               PROVE from(j) = from(k)
    BY <2>2
  <2>3. /\ from(j) \in 2..n /\ from(k) \in 2..n
        /\ v6[from(j)].fd = v6[from(k)].fd
    BY <2>1
  <2> QED BY <1>13, <2>3
<1>17. \A g \in Fds' : \E k \in 2..(n - 1) : v6'[k].fd = g
  <2> SUFFICES ASSUME NEW g \in Fds' PROVE \E k \in 2..(n - 1) : v6'[k].fd = g
    OBVIOUS
  <2>1. PICK k \in 2..n : v6[k].fd = g
    BY <1>2, <1>7 DEF PollSet
  <2>2. k # i + 1
    BY <1>7, <2>1
  <2>3. CASE k = n
    <3>1. i + 1 \in 2..(n - 1)
      BY <1>3, <2>2, <2>3
    <3> QED BY <1>10, <1>11, <2>1, <2>3, <3>1
  <2>4. CASE k # n
    <3>1. k \in 2..(n - 1)
      BY <2>4
    <3> QED BY <1>10, <1>11, <2>1, <2>2, <3>1
  <2> QED BY <2>3, <2>4
<1>18. PollSet'
  <2>1. v7' \in Nat /\ n - 1 <= v7' /\ n - 1 > 0
    BY <1>2, <1>3, <1>6 DEF PollSet
  <2> QED BY <1>9, <1>15, <1>16, <1>17, <2>1 DEF PollSet
<1>19. OpendTypes'
  BY <1>7, <1>9 DEF OpendTypes
<1> QED BY <1>1, <1>6, <1>7, <1>18, <1>19, OpendBuilt

\* A request in loop.poll.c, or SIGPIPE.
LEMMA PollRequestKeeps ==
  ASSUME OpendInv, Server!PollRequest
  PROVE OpendInv'
<1>1. CASE \E c : Server!SigPipe(c)
  BY <1>1, OpendEnds DEF Server!SigPipe, OpendInv
<1>2. CASE Server!Scan(v6, v8.i + 1) /\ UNCHANGED <<v1, v4, v5, v7>> /\ v1 = "poll" /\ v8.pc = "scan"
  <2>1. OpendTypes /\ ClientTable /\ PollSet
    BY <1>2 DEF OpendInv, Server!Alive
  <2>2. /\ v8' \in [pc : {"poll", "accept", "scan"}, i : Nat, ready : SUBSET Nat]
        /\ v8'.pc = "scan" => v8'.i \in 1..(Len(v6) - 1)
        /\ v6' \in Seq(PollEntries) /\ Len(v6') = Len(v6) /\ \A k \in 1..Len(v6) : v6'[k].fd = v6[k].fd
    <3>1. v8 \in [pc : {"poll", "accept", "scan"}, i : Nat, ready : SUBSET Nat] /\ v6 \in Seq(PollEntries)
      BY <2>1 DEF OpendTypes, PollSet
    <3>2. v8.i + 1 \in Nat \ {0}
      BY <3>1
    <3> QED BY <1>2, <3>1, <3>2, ScanStops
  <2>3. Fds' = Fds /\ Slots' = Slots
    BY <1>2 DEF Fds, Slots
  <2> PICK n \in Nat : n = Len(v6)
    BY <2>1 DEF PollSet
  <2>4. PollSet'
    <3>1. /\ \A k \in 2..n : k \in 1..n /\ v6[k].fd \in Fds
          /\ \A j, k \in 2..n : v6[j].fd = v6[k].fd => j = k
          /\ \A f \in Fds : \E k \in 2..n : v6[k].fd = f
          /\ v7 \in Nat /\ n <= v7 /\ n > 0
      BY <2>1 DEF PollSet
    <3>2. Len(v6') = n /\ \A k \in 2..n : v6'[k].fd = v6[k].fd
      BY <2>2, <3>1
    <3>3. \A f \in Fds : \E k \in 2..n : v6'[k].fd = f
      BY <3>1, <3>2
    <3> QED BY <1>2, <2>2, <2>3, <3>1, <3>2, <3>3 DEF PollSet
  <2>5. OpendTypes' /\ ClientTable'
    BY <1>2, <2>1, <2>2, <2>3 DEF OpendTypes, ClientTable
  <2> QED BY <1>2, <2>4, <2>5, OpendBuilt
<1>3. \A h \in Server!PollHandles : v1 = "poll" /\ v8.pc = "scan"
  BY DEF Server!PollHandles, Server!At
<1> QED BY <1>1, <1>2, <1>3 DEF Server!PollRequest

\* select.
LEMMA SelectKeeps ==
  ASSUME OpendInv, Server!Select
  PROVE OpendInv'
<1>1. v1 = "select" /\ v8.pc = "poll" /\ UNCHANGED <<v1, v4, v5, v6, v7>>
  BY DEF Server!Select, Server!SelectAt
<1>2. OpendTypes /\ ClientTable /\ SelectSet
  BY <1>1 DEF OpendInv, Server!Alive
<1> DEFINE r == {f \in v6 : f <= v7[1] /\ f \in Server!Ready}
<1>3. IF 0 \in r THEN v8' = [v8 EXCEPT !.pc = "accept"] ELSE Server!SelectScan(v5, 1, r)
  BY DEF Server!Select, Server!maxfd
<1>4. r \in SUBSET Nat
  <2>1. v6 = {0} \cup Fds /\ Fds \in SUBSET Nat
    BY <1>2 DEF SelectSet, OpendTypes
  <2>2. v6 \in SUBSET Nat /\ r \subseteq v6
    BY <2>1
  <2> HIDE DEF r
  <2> QED BY <2>2
<1> HIDE DEF r
<1>5. Fds' = Fds /\ Slots' = Slots
  BY <1>1 DEF Fds, Slots
<1>6. /\ v8' \in [pc : {"poll", "accept", "scan"}, i : Nat, ready : SUBSET Nat]
      /\ v8'.pc = "scan" => v8'.i \in 1..v7[2] /\ v5[v8'.i].fd \in v8'.ready /\ 0 \notin v8'.ready
  <2>1. CASE 0 \in r
    <3>1. v8' = [v8 EXCEPT !.pc = "accept"]
      BY <1>3, <2>1
    <3> QED BY <1>2, <3>1 DEF OpendTypes
  <2>2. CASE 0 \notin r
    <3>1. Server!SelectScan(v5, 1, r) /\ 1 \in Nat \ {0} /\ v7 \in Nat \X Nat /\ v5 \in Seq(Entries)
      BY <1>2, <1>3, <2>2 DEF SelectSet, OpendTypes
    <3> QED BY <1>4, <2>2, <3>1, SelectStops
  <2> QED BY <2>1, <2>2
<1>7. SelectSet'
  BY <1>1, <1>2, <1>5, <1>6 DEF SelectSet
<1>8. OpendTypes' /\ ClientTable'
  BY <1>1, <1>2, <1>5, <1>6 DEF OpendTypes, ClientTable
<1> QED BY <1>1, <1>7, <1>8, OpendBuilt

\* Max of two numbers.
LEMMA MaxOfOpend == \A m, n \in Nat : Server!Max({m, n}) = IF m <= n THEN n ELSE m
BY DEF Server!Max

\* accept in loop.select.c.
LEMMA SelectAcceptKeeps ==
  ASSUME OpendInv, Server!SelectAccept
  PROVE OpendInv'
<1>1. /\ v1 = "select" /\ v8.pc = "accept" /\ v1' = v1
      /\ v6' = v6 \cup {Server!Lowest} /\ v8' = [v8 EXCEPT !.pc = "poll"]
  BY DEF Server!SelectAccept, Server!SelectAt
<1>2. OpendTypes /\ ClientTable /\ SelectSet
  BY <1>1 DEF OpendInv, Server!Alive
<1> DEFINE f == Server!Lowest
<1>3. PICK c \in Peers : /\ Server!Connect(c) /\ v5' = Server!client_add(f, c)[1]
                         /\ v7' = <<Server!Max({v7[1], f}), Server!Max({v7[2], Server!client_add(f, c)[2]})>>
  BY DEF Server!SelectAccept, Server!maxfd, Server!maxi
<1>4. /\ v4' \in [Fds' -> Peers] /\ Fds' \in SUBSET (Nat \ {0}) /\ IsFiniteSet(Fds')
      /\ v5' \in Seq(Entries) /\ ClientTable'
      /\ Fds' = Fds \cup {f}
      /\ \E k \in 1..Slots' : /\ Server!client_add(f, c)[2] = k /\ Slots <= Slots'
                              /\ \A j \in 1..Slots' : v5'[j].fd > 0 => j = k \/ (j \in 1..Slots /\ v5[j].fd > 0)
  BY <1>2, <1>3, TableAdds
<1>5. PICK k \in 1..Slots' : /\ Server!client_add(f, c)[2] = k /\ Slots <= Slots'
                             /\ \A j \in 1..Slots' : v5'[j].fd > 0 => j = k \/ (j \in 1..Slots /\ v5[j].fd > 0)
  BY <1>4
<1>6. f \in Nat
  BY <1>2, LowestFree
<1> HIDE DEF f
<1>7. Slots' \in Nat /\ Slots \in Nat /\ k \in Nat
  BY <1>2, <1>4 DEF OpendTypes, Slots
<1>8. v7[1] \in Nat /\ v7[2] \in Nat /\ v7[2] <= Slots
  BY <1>2 DEF SelectSet
<1>9. /\ v7' = <<Server!Max({v7[1], f}), Server!Max({v7[2], k})>>
      /\ Server!Max({v7[1], f}) = (IF v7[1] <= f THEN f ELSE v7[1])
      /\ Server!Max({v7[2], k}) = (IF v7[2] <= k THEN k ELSE v7[2])
  BY <1>3, <1>5, <1>6, <1>7, <1>8, MaxOfOpend
<1>10. /\ v7' \in Nat \X Nat /\ v7'[1] = (IF v7[1] <= f THEN f ELSE v7[1])
       /\ v7'[2] = (IF v7[2] <= k THEN k ELSE v7[2])
  BY <1>6, <1>7, <1>8, <1>9
<1>11. \A g \in Fds' : g <= v7'[1]
  <2>1. \A g \in Fds : g \in Nat /\ g <= v7[1]
    BY <1>2 DEF SelectSet, OpendTypes
  <2> QED BY <1>4, <1>6, <1>8, <1>10, <2>1
<1>12. \A j \in 1..Slots' : v5'[j].fd > 0 => j <= v7'[2]
  <2>1. \A j \in 1..Slots : v5[j].fd > 0 => j <= v7[2]
    BY <1>2 DEF SelectSet
  <2> QED BY <1>5, <1>7, <1>8, <1>10, <2>1
<1>13. v7'[2] <= Slots'
  BY <1>5, <1>7, <1>8, <1>10
<1>14. v6' = {0} \cup Fds'
  BY <1>1, <1>2, <1>4 DEF SelectSet, f
<1>15. v8' \in [pc : {"poll", "accept", "scan"}, i : Nat, ready : SUBSET Nat] /\ v8'.pc = "poll"
  BY <1>1, <1>2 DEF OpendTypes
<1>16. SelectSet'
  BY <1>10, <1>11, <1>12, <1>13, <1>14, <1>15 DEF SelectSet
<1>17. OpendTypes'
  BY <1>4, <1>15 DEF OpendTypes
<1> QED BY <1>1, <1>4, <1>16, <1>17, OpendBuilt
\* A client of loop.select.c hangs up.
LEMMA SelectHangUpKeeps ==
  ASSUME OpendInv, Server!SelectHangUp
  PROVE OpendInv'
<1>1. /\ v1 = "select" /\ v8.pc = "scan" /\ v1' = v1 /\ v7' = v7
      /\ v5' = Server!client_del(Server!Chosen.fd) /\ v6' = v6 \ {Server!Chosen.fd}
      /\ Server!Close(Server!Chosen.fd) /\ Server!SelectScan(v5', v8.i + 1, v8.ready)
  BY DEF Server!SelectHangUp, Server!SelectAt
<1>2. OpendTypes /\ ClientTable /\ SelectSet
  BY <1>1 DEF OpendInv, Server!Alive
<1> DEFINE f == Server!Chosen.fd
<1>3. f \in Fds /\ f > 0
  <2>1. v8.i \in 1..v7[2] /\ v5[v8.i].fd \in v8.ready /\ 0 \notin v8.ready /\ v7[2] <= Slots
    BY <1>1, <1>2 DEF SelectSet
  <2>2. v8.ready \in SUBSET Nat /\ v7[2] \in Nat /\ Slots \in Nat
    BY <1>2 DEF OpendTypes, SelectSet, Slots
  <2>3. v8.i \in 1..Slots /\ v5[v8.i].fd > 0
    BY <2>1, <2>2
  <2> QED BY <1>2, <2>3 DEF ClientTable, Server!Chosen
<1> HIDE DEF f
<1>4. /\ v4' \in [Fds' -> Peers] /\ Fds' \in SUBSET (Nat \ {0}) /\ IsFiniteSet(Fds')
      /\ v5' \in Seq(Entries) /\ ClientTable'
      /\ Fds' = Fds \ {f}
      /\ Slots' = Slots /\ \A j \in 1..Slots : v5'[j].fd > 0 => v5[j].fd > 0
  BY <1>1, <1>2, <1>3, TableDrops DEF f
<1>5. /\ v8' \in [pc : {"poll", "accept", "scan"}, i : Nat, ready : SUBSET Nat]
      /\ v8'.pc = "scan" => v8'.i \in 1..v7[2] /\ v5'[v8'.i].fd \in v8'.ready /\ 0 \notin v8'.ready
  <2>1. v8.ready \in SUBSET Nat /\ v8.i + 1 \in Nat \ {0} /\ v7 \in Nat \X Nat /\ 0 \notin v8.ready
    BY <1>1, <1>2 DEF OpendTypes, SelectSet
  <2> QED BY <1>1, <1>4, <2>1, SelectStops
<1>6. SelectSet'
  <2>1. v6' = {0} \cup Fds'
    BY <1>1, <1>2, <1>3, <1>4 DEF SelectSet, f
  <2> QED BY <1>1, <1>2, <1>4, <1>5, <2>1 DEF SelectSet
<1>7. OpendTypes'
  BY <1>4, <1>5 DEF OpendTypes
<1> QED BY <1>1, <1>4, <1>6, <1>7, OpendBuilt

\* A request in loop.select.c, or SIGPIPE.
LEMMA SelectRequestKeeps ==
  ASSUME OpendInv, Server!SelectRequest
  PROVE OpendInv'
<1>1. CASE \E c : Server!SigPipe(c)
  BY <1>1, OpendEnds DEF Server!SigPipe, OpendInv
<1>2. CASE Server!SelectScan(v5, v8.i + 1, v8.ready) /\ UNCHANGED <<v1, v4, v5, v6, v7>> /\ v1 = "select" /\ v8.pc = "scan"
  <2>1. OpendTypes /\ ClientTable /\ SelectSet
    BY <1>2 DEF OpendInv, Server!Alive
  <2>2. /\ v8' \in [pc : {"poll", "accept", "scan"}, i : Nat, ready : SUBSET Nat]
        /\ v8'.pc = "scan" => v8'.i \in 1..v7[2] /\ v5[v8'.i].fd \in v8'.ready /\ 0 \notin v8'.ready
    <3>1. /\ v8.ready \in SUBSET Nat /\ v8.i + 1 \in Nat \ {0} /\ v7 \in Nat \X Nat /\ 0 \notin v8.ready
          /\ v5 \in Seq(Entries)
      BY <1>2, <2>1 DEF OpendTypes, SelectSet
    <3> QED BY <1>2, <3>1, SelectStops
  <2>3. Fds' = Fds /\ Slots' = Slots
    BY <1>2 DEF Fds, Slots
  <2>4. SelectSet'
    BY <1>2, <2>1, <2>2, <2>3 DEF SelectSet
  <2>5. OpendTypes' /\ ClientTable'
    BY <1>2, <2>1, <2>2, <2>3 DEF OpendTypes, ClientTable
  <2> QED BY <1>2, <2>4, <2>5, OpendBuilt
<1>3. \A h \in Server!SelectHandles : v1 = "select" /\ v8.pc = "scan"
  BY DEF Server!SelectHandles, Server!SelectAt
<1> QED BY <1>1, <1>2, <1>3 DEF Server!SelectRequest

\* A step of opend or of a client.
LEMMA OpendKept ==
  ASSUME OpendInv, Server!Next
  PROVE OpendInv'
<1>1. CASE Server!Refuse
  BY <1>1, OpendEnds DEF Server!Refuse, OpendInv
<1>2. CASE Server!GrowStale
  BY <1>2, OpendSame DEF Server!GrowStale
<1>3. ASSUME NEW c \in Peers, Server!Client(c) PROVE OpendInv'
  BY <1>3, OpendSame DEF Server!Client, Server!cli_conn, Server!csopen, Server!Received, Server!Leave
<1>4. CASE Server!Server
  BY <1>1, <1>4, PollKeeps, PollAcceptKeeps, PollHangUpKeeps, PollRequestKeeps,
     SelectKeeps, SelectAcceptKeeps, SelectHangUpKeeps, SelectRequestKeeps DEF Server!Server
<1> QED BY <1>2, <1>3, <1>4 DEF Server!Next

\* Nobody is connected.
LEMMA OpendStarts ==
  ASSUME Server!Init
  PROVE OpendInv
<1>1. /\ v1 \in {"poll", "select"} /\ v4 = <<>> /\ v8 = [pc |-> "poll", i |-> 0, ready |-> {}]
      /\ v1 = "poll" => /\ v5 = [Server!client_alloc(<<>>) EXCEPT ![1] = [fd |-> 0, uid |-> "none"]]
                        /\ v6 = << [fd |-> 0, revents |-> {}] >> /\ v7 = NALLOC
      /\ v1 = "select" => v5 = <<>> /\ v6 = {0} /\ v7 = <<0, 0>>
  BY DEF Server!Init
<1>2. Fds = {} /\ v4 \in [Fds -> Peers] /\ IsFiniteSet(Fds)
  BY <1>1, FS_EmptySet DEF Fds
<1>3. v8 \in [pc : {"poll", "accept", "scan"}, i : Nat, ready : SUBSET Nat] /\ v8.pc = "poll"
  BY <1>1
<1>4. CASE v1 = "poll"
  <2>1. NALLOC \in Nat /\ NALLOC > 0
    BY ProgramsAssumption DEF Server!OpendAssumption
  <2> DEFINE new == [j \in 1..NALLOC |-> [fd |-> -1, uid |-> "none"]]
             e == [fd |-> 0, uid |-> "none"]
  <2>2. new \in Seq(Entries) /\ Len(new) = NALLOC /\ e \in Entries /\ e.fd = 0 /\ \A j \in 1..NALLOC : new[j].fd = -1
    BY <2>1 DEF Entries
  <2>3. Server!client_alloc(<<>>) = <<>> \o new
    BY DEF Server!client_alloc
  <2> HIDE DEF new, e
  <2>4. <<>> \o new = new
    BY <2>2
  <2>5. v5 = [new EXCEPT ![1] = e]
    BY <1>1, <1>4, <2>3, <2>4 DEF e
  <2>6. v5 \in Seq(Entries) /\ Slots = NALLOC /\ \A j \in 1..Slots : v5[j].fd = -1 \/ v5[j].fd = 0
    BY <2>1, <2>2, <2>5 DEF Slots
  <2>7. ClientTable
    BY <1>2, <2>6 DEF ClientTable
  <2>8. OpendTypes
    BY <1>2, <1>3, <2>6 DEF OpendTypes
  <2>9. PollSet
    <3> DEFINE p == [fd |-> 0, revents |-> {}]
    <3>1. p \in PollEntries /\ v6 = <<p>>
      BY <1>1, <1>4 DEF PollEntries
    <3> HIDE DEF p
    <3>2. v6 \in Seq(PollEntries) /\ Len(v6) = 1
      BY <3>1
    <3> QED BY <1>1, <1>2, <1>3, <1>4, <2>1, <3>2 DEF PollSet
  <2> QED BY <1>4, <2>7, <2>8, <2>9 DEF OpendInv
<1>5. CASE v1 = "select"
  <2>1. v5 \in Seq(Entries) /\ Slots = 0
    BY <1>1, <1>5 DEF Slots
  <2>2. OpendTypes /\ ClientTable
    BY <1>2, <1>3, <2>1 DEF OpendTypes, ClientTable
  <2>3. SelectSet
    BY <1>1, <1>2, <1>3, <1>5, <2>1 DEF SelectSet
  <2> QED BY <1>5, <2>2, <2>3 DEF OpendInv
<1> QED BY <1>1, <1>4, <1>5

\* The entries of client[] with a descriptor, and those of pollfd[] but the
\* first, are as many as the connections.
LEMMA AsMany ==
  ASSUME OpendTypes, ClientTable
  PROVE Cardinality({k \in 1..Slots : v5[k].fd > 0}) = Cardinality(Fds)
<1> DEFINE S == {k \in 1..Slots : v5[k].fd > 0}
           g == [k \in S |-> v5[k].fd]
<1>1. Slots \in Nat /\ \A f \in Fds : f > 0
  BY DEF OpendTypes, Slots
<1>2. g \in [S -> Fds]
  BY DEF ClientTable
<1>3. \A j, k \in S : g[j] = g[k] => j = k
  BY DEF ClientTable
<1>4. \A f \in Fds : \E k \in S : g[k] = f
  BY <1>1 DEF ClientTable
<1>5. IsFiniteSet(Fds)
  BY DEF OpendTypes
<1> HIDE DEF S, g
<1>6. g \in Bijection(S, Fds)
  BY <1>2, <1>3, <1>4 DEF Bijection, Injection, Surjection, IsInjective
<1>7. IsFiniteSet(S)
  <2>1. IsFiniteSet(1..Slots)
    BY <1>1, FS_Interval
  <2> QED BY <2>1, FS_Subset DEF S
<1>8. Cardinality(S) = Cardinality(Fds)
  BY <1>6, <1>7, FS_Bijection DEF ExistsBijection
<1> QED BY <1>8 DEF S
LEMMA AsManyPolled ==
  ASSUME OpendTypes, PollSet
  PROVE Len(v6) = Cardinality(Fds) + 1
<1> PICK n \in Nat : n = Len(v6)
  BY DEF PollSet
<1> DEFINE g == [k \in 2..n |-> v6[k].fd]
<1>1. n > 0
  BY DEF PollSet
<1>2. g \in [2..n -> Fds]
  BY DEF PollSet
<1>3. \A j, k \in 2..n : g[j] = g[k] => j = k
  BY DEF PollSet
<1>4. \A f \in Fds : \E k \in 2..n : g[k] = f
  BY DEF PollSet
<1> HIDE DEF g
<1>5. g \in Bijection(2..n, Fds)
  BY <1>2, <1>3, <1>4 DEF Bijection, Injection, Surjection, IsInjective
<1>6. IsFiniteSet(2..n) /\ Cardinality(2..n) = n - 1
  <2>1. IsFiniteSet(2..n)
    BY FS_Interval
  <2>0. 2 \in Int /\ n \in Int
    OBVIOUS
  <2>2. Cardinality(2..n) = IF 2 > n THEN 0 ELSE n - 2 + 1
    BY <2>0, FS_Interval
  <2> QED BY <1>1, <2>1, <2>2
<1>7. Cardinality(2..n) = Cardinality(Fds)
  BY <1>5, <1>6, FS_Bijection DEF ExistsBijection
<1> QED BY <1>1, <1>6, <1>7

\* Both tables name the connections,
LEMMA OpendTables ==
  ASSUME OpendInv
  PROVE Server!TablesAgree
<1> DEFINE E == {k \in 1..Slots : v5[k].fd > 0}
<1> SUFFICES ASSUME Server!Alive
             PROVE LET entries == {k \in DOMAIN v5 : v5[k].fd > 0}
                   IN  /\ {v5[k].fd : k \in entries} = Fds
                       /\ Server!Cardinality(entries) = Server!Cardinality(Fds)
                       /\ v1 = "poll" =>
                            /\ {v6[k].fd : k \in 2..Len(v6)} = Fds
                            /\ Len(v6) = Server!Cardinality(Fds) + 1 /\ Len(v6) <= v7
                       /\ v1 = "select" =>
                            /\ v6 = {0} \cup Fds
                            /\ \A f \in v6 : f <= v7[1]
                            /\ \A k \in entries : k <= v7[2]
  BY DEF Server!TablesAgree, Server!numfd, Server!maxfd, Server!maxi, Fds
<1>1. OpendTypes /\ ClientTable
  BY DEF OpendInv
<1>2. {k \in DOMAIN v5 : v5[k].fd > 0} = E
  BY <1>1 DEF OpendTypes, Slots
<1>3. {v5[k].fd : k \in E} = Fds
  <2>1. \A f \in Fds : f > 0 /\ \E k \in 1..Slots : v5[k].fd = f
    BY <1>1 DEF OpendTypes, ClientTable
  <2>2. \A f \in Fds : \E k \in E : v5[k].fd = f
    BY <2>1
  <2>3. \A k \in E : v5[k].fd \in Fds
    BY <1>1 DEF ClientTable
  <2> HIDE DEF E
  <2> QED BY <2>2, <2>3
<1>4. Server!Cardinality(E) = Server!Cardinality(Fds)
  BY <1>1, AsMany, SameCardinality
<1>5. v1 = "poll" =>
        /\ {v6[k].fd : k \in 2..Len(v6)} = Fds
        /\ Len(v6) = Server!Cardinality(Fds) + 1 /\ Len(v6) <= v7
  <2> SUFFICES ASSUME v1 = "poll"
               PROVE /\ {v6[k].fd : k \in 2..Len(v6)} = Fds
                     /\ Len(v6) = Server!Cardinality(Fds) + 1 /\ Len(v6) <= v7
    OBVIOUS
  <2>1. PollSet
    BY DEF OpendInv
  <2>2. {v6[k].fd : k \in 2..Len(v6)} = Fds
    BY <2>1 DEF PollSet
  <2>3. Len(v6) = Server!Cardinality(Fds) + 1
    BY <1>1, <2>1, AsManyPolled, SameCardinality
  <2> QED BY <2>1, <2>2, <2>3 DEF PollSet
<1>6. v1 = "select" => v6 = {0} \cup Fds /\ (\A f \in v6 : f <= v7[1]) /\ (\A k \in E : k <= v7[2])
  BY DEF OpendInv, SelectSet
<1> HIDE DEF E
<1> QED BY <1>2, <1>3, <1>4, <1>5, <1>6

\* and the select loop has the uid of the client.
LEMMA OpendUid ==
  ASSUME OpendInv, v1 = "select"
  PROVE Server!UidRight
<1> SUFFICES ASSUME NEW h \in Server!SelectHandles PROVE h.uid = h.c
  BY DEF Server!UidRight, Server!PollHandles, Server!At
<1>1. v8.pc = "scan" /\ h = [c |-> v4[Server!Chosen.fd], uid |-> Server!Chosen.uid]
  BY DEF Server!SelectHandles, Server!SelectAt
<1>2. OpendTypes /\ ClientTable /\ SelectSet
  BY <1>1 DEF OpendInv, Server!Alive
<1>3. v8.i \in 1..v7[2] /\ v5[v8.i].fd \in v8.ready /\ 0 \notin v8.ready /\ v7[2] <= Slots
  BY <1>1, <1>2 DEF SelectSet
<1>4. v8.ready \in SUBSET Nat /\ v7[2] \in Nat /\ Slots \in Nat
  BY <1>2 DEF OpendTypes, SelectSet, Slots
<1>5. v8.i \in 1..Slots /\ v5[v8.i].fd > 0
  BY <1>3, <1>4
<1> QED BY <1>1, <1>2, <1>5 DEF ClientTable, Server!Chosen

LEMMA OpendStill ==
  ASSUME OpendInv, UNCHANGED vars
  PROVE OpendInv'
BY OpendSame DEF vars
-----------------------------------------------------------------------------
(* Ruptime: v1 prog, v2 cli, v3 queue, v4 proc, v5 data, v6 chld, v7 fails. *)
UptimePCs == {"boot", "accept", "fork", "copy", "close", "wait", "none", "dup", "exec", "run", "zombie",
              "reaped", "exit"}
UptimeProcs == [pc : UptimePCs, c : Uptime!Procs, clfd : SUBSET Peers, out : SUBSET Peers]

\* Only dup2 makes a connection the output of a process, its own, and who calls
\* exec has called it, or is a child of popen; exec closes the other connections.
OutputRight(p, r) ==
  /\ r \in UptimeProcs
  /\ v1.serve = "popen" => r.out = {} /\ r.pc # "dup"
  /\ r.pc \in {"exec", "run"} => r.out \subseteq {p}
  /\ r.pc = "run" /\ v1.cloexec => r.clfd = {}

RuptimeInv ==
  /\ v3 \in Seq(Peers)
  /\ v4 \in [Uptime!Procs -> UptimeProcs]
  /\ \A p \in Uptime!Procs : OutputRight(p, v4[p])

\* A process that goes on to another place with what it has.
LEMMA UptimeMoves ==
  ASSUME NEW r \in UptimeProcs, NEW pc \in UptimePCs
  PROVE /\ [r EXCEPT !.pc = pc] \in UptimeProcs
        /\ [r EXCEPT !.pc = pc].pc = pc /\ [r EXCEPT !.pc = pc].c = r.c
        /\ [r EXCEPT !.pc = pc].clfd = r.clfd /\ [r EXCEPT !.pc = pc].out = r.out
BY DEF UptimeProcs

LEMMA UptimeGoes ==
  ASSUME NEW p \in Uptime!Procs, NEW r, OutputRight(p, r), NEW pc \in UptimePCs \ {"dup", "exec", "run"}
  PROVE OutputRight(p, [r EXCEPT !.pc = pc])
<1>1. r \in UptimeProcs
  BY DEF OutputRight
<1>2. /\ [r EXCEPT !.pc = pc] \in UptimeProcs
      /\ [r EXCEPT !.pc = pc].pc = pc /\ [r EXCEPT !.pc = pc].out = r.out
  BY <1>1, UptimeMoves
<1> QED BY <1>2 DEF OutputRight

\* One process changes, or two.
LEMMA UptimeOne ==
  ASSUME RuptimeInv, v1' = v1, v3' \in Seq(Peers),
         NEW p \in Uptime!Procs, NEW r, OutputRight(p, r), v4' = [v4 EXCEPT ![p] = r]
  PROVE RuptimeInv'
BY DEF RuptimeInv, OutputRight
LEMMA UptimeTwo ==
  ASSUME RuptimeInv, v1' = v1, v3' = v3,
         NEW p \in Uptime!Procs, NEW r, OutputRight(p, r),
         NEW q \in Uptime!Procs, NEW s, OutputRight(q, s),
         v4' = [v4 EXCEPT ![p] = r, ![q] = s]
  PROVE RuptimeInv'
BY DEF RuptimeInv, OutputRight

\* A process that exits.
LEMMA UptimeExit ==
  ASSUME RuptimeInv, v1' = v1, NEW p \in Uptime!Procs, Uptime!Exit(p)
  PROVE RuptimeInv'
<1> DEFINE r == [pc |-> IF p = Uptime!Main THEN "exit" ELSE "zombie", c |-> v4[p].c, clfd |-> {}, out |-> {}]
<1>1. v4' = [v4 EXCEPT ![p] = r]
  BY DEF Uptime!Exit
<1>2. v4[p] \in UptimeProcs
  BY DEF RuptimeInv
<1>3. OutputRight(p, r)
  BY <1>2 DEF OutputRight, UptimeProcs, UptimePCs
<1> HIDE DEF r
<1>4. v3' \in Seq(Peers)
  BY DEF Uptime!Exit, RuptimeInv
<1> QED BY <1>1, <1>3, <1>4, UptimeOne

\* fork: the child has what its parent has.
LEMMA UptimeFork ==
  ASSUME RuptimeInv, v1' = v1, v3' = v3, NEW p \in Uptime!Procs, NEW a \in {"copy", "close"},
         NEW b \in {"dup", "exec"}, Uptime!Fork(p, a, b),
         v4[p].pc \notin {"exec", "run"},
         IF b = "exec" THEN v1.serve = "popen" ELSE v1.serve # "popen"
  PROVE RuptimeInv'
<1> DEFINE q == v4[p].c
           r == [v4[p] EXCEPT !.pc = a]
           s == [v4[p] EXCEPT !.pc = b]
<1>1. v4[p] \in UptimeProcs /\ OutputRight(p, v4[p]) /\ q \in Uptime!Procs
  BY DEF RuptimeInv, UptimeProcs
<1>2. a \in UptimePCs /\ b \in UptimePCs
  BY DEF UptimePCs
<1>3. OutputRight(p, r)
  BY <1>1, <1>2, UptimeMoves DEF OutputRight
<1>4. OutputRight(q, s)
  BY <1>1, <1>2, UptimeMoves DEF OutputRight
<1>5. v4' = [v4 EXCEPT ![p] = r, ![q] = s]
  BY DEF Uptime!Fork
<1> HIDE DEF q, r, s
<1> QED BY <1>1, <1>3, <1>4, <1>5, UptimeTwo

\* accept, close, waitpid, and the fork of a server that becomes the command.
LEMMA UptimeServes ==
  ASSUME RuptimeInv, NEW p \in Uptime!Procs, Uptime!Server(p)
  PROVE RuptimeInv'
<1>0. v4[p] \in UptimeProcs /\ OutputRight(p, v4[p]) /\ v4[p].c \in Uptime!Procs
  BY DEF RuptimeInv, UptimeProcs
<1>1. CASE Uptime!accept(p)
  <2> DEFINE h == Head(v3)
             r == [v4[p] EXCEPT !.pc = "fork", !.c = h, !.clfd = {h}]
  <2>1. h \in Peers /\ v3' \in Seq(Peers)
    BY <1>1 DEF Uptime!accept, RuptimeInv
  <2>2. h \in Uptime!Procs
    BY <2>1 DEF Uptime!Procs
  <2>3. v4' = [v4 EXCEPT ![p] = r] /\ v1' = v1
    BY <1>1 DEF Uptime!accept
  <2> HIDE DEF h
  <2>4. r \in UptimeProcs /\ r.pc = "fork" /\ r.out = v4[p].out
    BY <1>0, <2>1, <2>2 DEF UptimeProcs, UptimePCs
  <2>5. OutputRight(p, r)
    BY <1>0, <2>4 DEF OutputRight
  <2> HIDE DEF r
  <2> QED BY <2>1, <2>3, <2>5, UptimeOne
<1>2. CASE Uptime!fork(p)
  <2>1. v1.serve # "popen" /\ v4[p].pc = "fork" /\ v1' = v1
    BY <1>2 DEF Uptime!fork, Uptime!At
  <2>2. CASE Uptime!Exit(p)
    BY <2>1, <2>2, UptimeExit
  <2>3. CASE Uptime!Fork(p, "close", "dup") /\ v3' = v3
    BY <2>1, <2>3, UptimeFork
  <2> QED BY <1>2, <2>2, <2>3 DEF Uptime!fork
<1>3. CASE Uptime!close(p)
  <2> PICK l \in UptimePCs : l = IF v1.serve = "exec" THEN "wait" ELSE "accept"
    BY DEF UptimePCs
  <2> DEFINE r == [v4[p] EXCEPT !.clfd = {}, !.pc = l]
  <2>1. v4' = [v4 EXCEPT ![p] = r] /\ v1' = v1 /\ v3' = v3
    BY <1>3 DEF Uptime!close
  <2>2. r \in UptimeProcs /\ r.pc = l /\ r.out = v4[p].out
    BY <1>0 DEF UptimeProcs
  <2>3. OutputRight(p, r)
    BY <1>0, <2>2 DEF OutputRight
  <2>4. v3' \in Seq(Peers)
    BY <2>1 DEF RuptimeInv
  <2> HIDE DEF r
  <2> QED BY <2>1, <2>3, <2>4, UptimeOne
<1>4. CASE Uptime!waitpid(p)
  <2> DEFINE q == v4[p].c
             r == [v4[p] EXCEPT !.pc = "accept"]
             s == [v4[q] EXCEPT !.pc = "reaped"]
  <2>1. /\ v1' = v1 /\ v3' = v3
        /\ v4' = [v4 EXCEPT ![p].pc = "accept", ![q].pc = "reaped"]
        /\ v4[p].pc = "wait" /\ v4[q].pc = "zombie"
    BY <1>4 DEF Uptime!waitpid, Uptime!At
  <2>2. p # q
    BY <2>1
  <2>3. q \in Uptime!Procs
    BY <1>0
  <2>4. v4' = [v4 EXCEPT ![p] = r, ![q] = s]
    BY <2>1, <2>2, <2>3 DEF RuptimeInv
  <2>5. OutputRight(q, v4[q]) /\ v4[q] \in UptimeProcs
    BY <2>3 DEF RuptimeInv
  <2>6. OutputRight(p, r) /\ OutputRight(q, s)
    BY <1>0, <2>3, <2>5, UptimeGoes DEF UptimePCs
  <2> HIDE DEF q, r, s
  <2> QED BY <2>1, <2>3, <2>4, <2>6, UptimeTwo
<1> QED BY <1>1, <1>2, <1>3, <1>4 DEF Uptime!Server

\* dup2, exec and the command.
LEMMA UptimeChild ==
  ASSUME RuptimeInv, NEW p \in Peers, Uptime!Child(p)
  PROVE RuptimeInv'
<1>0. p \in Uptime!Procs /\ v4[p] \in UptimeProcs /\ OutputRight(p, v4[p]) /\ v3 \in Seq(Peers)
  BY DEF RuptimeInv, Uptime!Procs
<1>1. CASE Uptime!dup2(p)
  <2> DEFINE r == [v4[p] EXCEPT !.pc = "exec", !.out = {p}, !.clfd = {}]
  <2>1. v4' = [v4 EXCEPT ![p] = r] /\ v1' = v1 /\ v3' = v3 /\ v4[p].pc = "dup"
    BY <1>1 DEF Uptime!dup2, Uptime!At
  <2>2. r \in UptimeProcs /\ r.pc = "exec" /\ r.out = {p}
    BY <1>0 DEF UptimeProcs, UptimePCs
  <2>3. OutputRight(p, r)
    BY <1>0, <2>1, <2>2 DEF OutputRight
  <2> HIDE DEF r
  <2> QED BY <1>0, <2>1, <2>3, UptimeOne
<1>2. CASE Uptime!execl(p)
  <2> PICK k \in SUBSET Peers : k = IF v1.cloexec THEN {} ELSE v4[p].clfd
    BY <1>0 DEF UptimeProcs
  <2> DEFINE r == [v4[p] EXCEPT !.pc = "run", !.clfd = IF v1.cloexec THEN {} ELSE v4[p].clfd]
  <2>1. v4' = [v4 EXCEPT ![p] = r] /\ v1' = v1 /\ v3' = v3 /\ v4[p].pc = "exec"
    BY <1>2 DEF Uptime!execl, Uptime!At
  <2>2. r \in UptimeProcs /\ r.pc = "run" /\ r.out = v4[p].out /\ r.clfd = k
    BY <1>0 DEF UptimeProcs, UptimePCs
  <2>3. OutputRight(p, r)
    BY <1>0, <2>1, <2>2 DEF OutputRight
  <2> HIDE DEF r
  <2> QED BY <1>0, <2>1, <2>3, UptimeOne
<1>3. CASE Uptime!execl_fails(p)
  <2>1. v1' = v1
    BY <1>3 DEF Uptime!execl_fails
  <2>2. CASE Uptime!Exit(p)
    BY <1>0, <2>1, <2>2, UptimeExit
  <2>3. CASE v4' = [v4 EXCEPT ![p].pc = "accept"] /\ v3' = v3
    <3> DEFINE r == [v4[p] EXCEPT !.pc = "accept"]
    <3>1. v4' = [v4 EXCEPT ![p] = r]
      BY <2>3
    <3>2. OutputRight(p, r)
      BY <1>0, UptimeGoes DEF UptimePCs
    <3> HIDE DEF r
    <3> QED BY <1>0, <2>1, <2>3, <3>1, <3>2, UptimeOne
  <2> QED BY <1>3, <2>2, <2>3 DEF Uptime!execl_fails
<1>4. CASE Uptime!Command(p)
  BY <1>0, <1>4, UptimeExit DEF Uptime!Command
<1> QED BY <1>1, <1>2, <1>3, <1>4 DEF Uptime!Child

\* A step of a server, its children or its clients.
LEMMA UptimeKept ==
  ASSUME RuptimeInv, Uptime!Next
  PROVE RuptimeInv'
<1>0. /\ Uptime!Main \in Uptime!Procs /\ v3 \in Seq(Peers)
      /\ \A p \in Uptime!Procs : v4[p] \in UptimeProcs /\ OutputRight(p, v4[p])
  BY DEF RuptimeInv, Uptime!Procs
<1> DEFINE m == Uptime!Main
<1>1. CASE Uptime!initserver
  <2>1. PICK l \in {"accept", "exit"} : v4' = [v4 EXCEPT ![m].pc = l]
    BY <1>1 DEF Uptime!initserver
  <2> DEFINE r == [v4[m] EXCEPT !.pc = l]
  <2>2. v4' = [v4 EXCEPT ![m] = r] /\ v1' = v1 /\ v3' = v3
    BY <1>1, <2>1 DEF Uptime!initserver
  <2>3. OutputRight(m, r)
    BY <1>0, UptimeGoes DEF UptimePCs
  <2> HIDE DEF r
  <2> QED BY <1>0, <2>2, <2>3, UptimeOne
<1>2. CASE Uptime!popen
  <2>1. v1.serve = "popen" /\ v4[m].pc = "fork" /\ v1' = v1 /\ v3' = v3
    BY <1>2 DEF Uptime!popen, Uptime!At
  <2>2. CASE Uptime!Fork(m, "copy", "exec")
    BY <1>0, <2>1, <2>2, UptimeFork
  <2>3. CASE v4' = [v4 EXCEPT ![m].pc = "close"]
    <3> DEFINE r == [v4[m] EXCEPT !.pc = "close"]
    <3>1. v4' = [v4 EXCEPT ![m] = r]
      BY <2>3
    <3>2. OutputRight(m, r)
      BY <1>0, UptimeGoes DEF UptimePCs
    <3> HIDE DEF r
    <3> QED BY <1>0, <2>1, <3>1, <3>2, UptimeOne
  <2> QED BY <1>2, <2>2, <2>3 DEF Uptime!popen
<1>3. CASE Uptime!pclose
  <2> DEFINE q == v4[m].c
             r == [v4[m] EXCEPT !.pc = "close"]
             s == [v4[q] EXCEPT !.pc = "reaped"]
  <2>1. /\ v1' = v1 /\ v3' = v3
        /\ v4' = [v4 EXCEPT ![m].pc = "close", ![q].pc = "reaped"]
        /\ v4[m].pc = "copy" /\ v4[q].pc = "zombie"
    BY <1>3 DEF Uptime!pclose, Uptime!At
  <2>2. m # q /\ q \in Uptime!Procs
    BY <1>0, <2>1 DEF UptimeProcs
  <2>3. v4' = [v4 EXCEPT ![m] = r, ![q] = s]
    BY <1>0, <2>1, <2>2 DEF RuptimeInv
  <2>4. OutputRight(m, r) /\ OutputRight(q, s)
    BY <1>0, <2>2, UptimeGoes DEF UptimePCs
  <2> HIDE DEF m, q, r, s
  <2>5. m \in Uptime!Procs
    BY <1>0 DEF m
  <2> QED BY <2>1, <2>2, <2>3, <2>4, <2>5, UptimeTwo
<1>4. CASE Uptime!sigchld_handler
  <2>1. /\ v1' = v1 /\ v3' = v3
        /\ v4' = [p \in Uptime!Procs |-> IF v4[p].pc = "zombie" THEN [v4[p] EXCEPT !.pc = "reaped"] ELSE v4[p]]
    BY <1>4 DEF Uptime!sigchld_handler, Uptime!At
  <2>2. ASSUME NEW p \in Uptime!Procs PROVE OutputRight(p, v4'[p]) /\ v4'[p] \in UptimeProcs
    <3>1. OutputRight(p, v4[p]) /\ OutputRight(p, [v4[p] EXCEPT !.pc = "reaped"])
      BY <1>0, UptimeGoes DEF UptimePCs
    <3>2. OutputRight(p, v4'[p])
      BY <2>1, <3>1
    <3> QED BY <3>2 DEF OutputRight
  <2>3. \A p \in Uptime!Procs : OutputRight(p, v4[p])'
    BY <2>1, <2>2 DEF OutputRight
  <2> QED BY <1>0, <2>1, <2>2, <2>3 DEF RuptimeInv
<1>5. ASSUME NEW c \in Peers, Uptime!connect_retry(c) \/ Uptime!print_uptime(c) PROVE RuptimeInv'
  <2>1. v1' = v1 /\ v4' = v4 /\ v3' \in Seq(Peers)
    BY <1>0, <1>5 DEF Uptime!connect_retry, Uptime!print_uptime
  <2> QED BY <1>0, <2>1 DEF RuptimeInv, OutputRight
<1> QED BY <1>1, <1>2, <1>3, <1>4, <1>5, UptimeServes, UptimeChild DEF Uptime!Next

\* Nothing is connected.
LEMMA UptimeStarts ==
  ASSUME Uptime!Init
  PROVE RuptimeInv
<1>1. /\ v3 = <<>>
      /\ v4 = [p \in Uptime!Procs |-> [pc |-> IF p = Uptime!Main THEN "boot" ELSE "none", c |-> p,
                                       clfd |-> {}, out |-> {}]]
  BY DEF Uptime!Init
<1>2. \A p \in Uptime!Procs : v4[p] \in UptimeProcs /\ OutputRight(p, v4[p])
  BY <1>1 DEF OutputRight, UptimeProcs, UptimePCs
<1> QED BY <1>1, <1>2 DEF RuptimeInv

\* A command has no connection but its own output.
LEMMA UptimeOwns ==
  ASSUME RuptimeInv
  PROVE Uptime!OwnSocketOnly
<1> SUFFICES ASSUME v1.cloexec, NEW c \in Peers, v4[c].pc = "run"
             PROVE Uptime!Holds(c) \subseteq {c} \cap v4[c].out
  BY DEF Uptime!OwnSocketOnly, Uptime!At
<1>1. OutputRight(c, v4[c])
  BY DEF RuptimeInv, Uptime!Procs
<1> QED BY <1>1 DEF OutputRight, Uptime!Holds, Uptime!Gone

LEMMA UptimeStill ==
  ASSUME RuptimeInv, UNCHANGED vars
  PROVE RuptimeInv'
BY DEF vars, RuptimeInv, OutputRight
-----------------------------------------------------------------------------
(* Popen: v1 start, v2 fd, v3 childpid, v4 cmd, v5 caller, v6 fails. *)
PopenSlots == 0..(MaxFd - 1)
PopenEnds == [pipe : Nat, end : {"r", "w", "rw"}]
PopenTables == UNION {[S -> PopenEnds] : S \in SUBSET PopenSlots}
PopenPids == [PopenSlots -> Nat]
PopenTypes == {"r", "w"}
PopenCmds == [pc : {"none", "child", "run", "zombie", "reaped"}, type : PopenTypes,
              fd : PopenTables, childpid : PopenPids]

\* The ends of pipe k: what a command of type y is given and what the caller keeps.
OwnOf(k, y) == [pipe |-> k, end |-> IF y = "r" THEN "w" ELSE "r"]
FarOf(k, y) == [pipe |-> k, end |-> IF y = "r" THEN "r" ELSE "w"]
Standard(t) == 0 \in DOMAIN t /\ 1 \in DOMAIN t /\ t[0] = Popen!Terminal /\ t[1] = Popen!Terminal

\* The caller's descriptors: at most one for an end of a pipe, and the pipes are
\* those of the calls so far.
FdsRight ==
  /\ v2 \in PopenTables
  /\ \A f \in DOMAIN v2 : \/ v2[f].pipe \in DOMAIN v4 /\ v2[f].end \in {"r", "w"}
                          \/ v2[f] = Popen!Terminal
  /\ \A f, g \in DOMAIN v2 : v2[f] = v2[g] /\ v2[f].pipe # 0 => f = g
  /\ {0, 1} \subseteq v1 => Standard(v2)

\* childpid[] names the far end of a command that has not been waited for.
PidsRight ==
  /\ v3 \in PopenPids
  /\ \A f \in PopenSlots : v3[f] # 0 =>
       /\ v3[f] \in DOMAIN v4 /\ v4[v3[f]].pc \in {"child", "run", "zombie"}
       /\ f \in DOMAIN v2 /\ v2[f] = FarOf(v3[f], v4[v3[f]].type)

\* popen has a command with its far end, pclose one that is no more in childpid[].
CallerRight ==
  /\ v5 \in [in : {"idle", "popen", "pclose"}, k : Nat]
  /\ v5.in = "idle" => v5.k = 0
  /\ v5.in = "popen" =>
       /\ v5.k \in DOMAIN v4 /\ v4[v5.k].pc \in {"child", "run", "zombie"}
       /\ \E f \in DOMAIN v2 : v2[f] = FarOf(v5.k, v4[v5.k].type)
  /\ v5.in = "pclose" => v5.k \in DOMAIN v4 /\ \A f \in PopenSlots : v3[f] # v5.k

\* Without failures every end of a pipe the caller has, and every command, is in
\* childpid[], but for those of the call it is in.
Known ==
  v6 = 0 =>
    /\ \A f \in DOMAIN v2 : v2[f].pipe # 0 /\ v3[f] = 0 => v5.in = "popen" /\ v2[f].pipe = v5.k
    /\ \A k \in DOMAIN v4 : v4[k].pc \in {"child", "run"} =>
         v5.k = k \/ \E f \in PopenSlots : v3[f] = k

\* A child has what its parent had at fork; a command that runs is connected.
\* (st is start, n the failures so far.)
CommandRight(st, n, k, r) ==
  /\ r.pc = "child" =>
       /\ \E f \in DOMAIN r.fd : r.fd[f] = OwnOf(k, r.type)
       /\ \A f \in PopenSlots : r.childpid[f] # 0 => f \in DOMAIN r.fd /\ r.fd[f].pipe # 0
       /\ {0, 1} \subseteq st => Standard(r.fd)
       /\ n = 0 => \A f \in DOMAIN r.fd : r.childpid[f] # 0 \/
                      r.fd[f] \in {Popen!Terminal, OwnOf(k, r.type), FarOf(k, r.type)}
  /\ r.pc = "run" =>
       LET s == IF r.type = "r" THEN 1 ELSE 0
       IN  /\ {0, 1} \subseteq st => s \in DOMAIN r.fd /\ r.fd[s] = OwnOf(k, r.type)
           /\ n = 0 => \A f \in DOMAIN r.fd : r.fd[f] \in {Popen!Terminal, OwnOf(k, r.type)}

CommandsRight == v4 \in Seq(PopenCmds) /\ \A k \in DOMAIN v4 : CommandRight(v1, v6, k, v4[k])

PopenInv == /\ v1 \in SUBSET {0, 1, 2} /\ v6 \in Nat
            /\ FdsRight /\ PidsRight /\ CallerRight /\ Known /\ CommandsRight

\* What Min picks is in the set.
LEMMA MinOfPopen == \A S \in SUBSET Nat : S # {} => Popen!Min(S) \in S
<1> SUFFICES ASSUME NEW S \in SUBSET Nat, S # {} PROVE Popen!Min(S) \in S
  OBVIOUS
<1>1. \E x \in S : \A y \in S : x <= y
  BY LeastNumber
<1> QED BY <1>1 DEF Popen!Min

\* Tables of descriptors, with one more and with fewer.
LEMMA TableIs ==
  ASSUME NEW t \in PopenTables
  PROVE DOMAIN t \in SUBSET PopenSlots /\ t \in [DOMAIN t -> PopenEnds]
BY DEF PopenTables
LEMMA IsTable ==
  ASSUME NEW t, DOMAIN t \in SUBSET PopenSlots, t \in [DOMAIN t -> PopenEnds]
  PROVE t \in PopenTables
BY DEF PopenTables
LEMMA TableWith ==
  \A t \in PopenTables : \A f \in PopenSlots : \A e \in PopenEnds :
     /\ Popen!With(t, f, e) \in PopenTables
     /\ DOMAIN Popen!With(t, f, e) = DOMAIN t \cup {f}
     /\ Popen!With(t, f, e)[f] = e
     /\ \A g \in DOMAIN t : g # f => Popen!With(t, f, e)[g] = t[g]
<1> SUFFICES ASSUME NEW t \in PopenTables, NEW f \in PopenSlots, NEW e \in PopenEnds
             PROVE /\ Popen!With(t, f, e) \in PopenTables
                   /\ DOMAIN Popen!With(t, f, e) = DOMAIN t \cup {f}
                   /\ Popen!With(t, f, e)[f] = e
                   /\ \A g \in DOMAIN t : g # f => Popen!With(t, f, e)[g] = t[g]
  OBVIOUS
<1>1. DOMAIN t \in SUBSET PopenSlots /\ t \in [DOMAIN t -> PopenEnds]
  BY TableIs
<1> DEFINE w == Popen!With(t, f, e)
<1>2. w = [g \in DOMAIN t \cup {f} |-> IF g = f THEN e ELSE t[g]]
  BY DEF Popen!With
<1>3. /\ DOMAIN w = DOMAIN t \cup {f} /\ w[f] = e
      /\ \A g \in DOMAIN t : g # f => w[g] = t[g]
      /\ w \in [DOMAIN t \cup {f} -> PopenEnds]
  BY <1>1, <1>2
<1> HIDE DEF w
<1>4. w \in PopenTables
  BY <1>1, <1>3, IsTable
<1> QED BY <1>3, <1>4 DEF w
LEMMA TableWithout ==
  \A t \in PopenTables : \A F :
     /\ Popen!Without(t, F) \in PopenTables
     /\ DOMAIN Popen!Without(t, F) = DOMAIN t \ F
     /\ \A g \in DOMAIN t \ F : Popen!Without(t, F)[g] = t[g]
<1> SUFFICES ASSUME NEW t \in PopenTables, NEW F
             PROVE /\ Popen!Without(t, F) \in PopenTables
                   /\ DOMAIN Popen!Without(t, F) = DOMAIN t \ F
                   /\ \A g \in DOMAIN t \ F : Popen!Without(t, F)[g] = t[g]
  OBVIOUS
<1>1. DOMAIN t \in SUBSET PopenSlots /\ t \in [DOMAIN t -> PopenEnds]
  BY TableIs
<1> DEFINE w == Popen!Without(t, F)
<1>2. w = [g \in DOMAIN t \ F |-> t[g]]
  BY DEF Popen!Without
<1>3. /\ DOMAIN w = DOMAIN t \ F
      /\ \A g \in DOMAIN t \ F : w[g] = t[g]
      /\ w \in [DOMAIN t \ F -> PopenEnds]
  BY <1>1, <1>2
<1> HIDE DEF w
<1>4. w \in PopenTables
  BY <1>1, <1>3, IsTable
<1> QED BY <1>3, <1>4 DEF w
LEMMA NoTable == <<>> \in PopenTables
<1>1. <<>> \in [{} -> PopenEnds]
  OBVIOUS
<1> QED BY <1>1 DEF PopenTables

\* pipe's descriptors are free and two.
LEMMA TwoFree ==
  ASSUME v2 \in PopenTables
  PROVE /\ Popen!pfd0 \in Nat /\ Popen!pfd1 \in Nat /\ Popen!pfd0 # Popen!pfd1
        /\ Popen!pfd0 \notin DOMAIN v2 /\ Popen!pfd1 \notin DOMAIN v2
<1>1. MaxFd \in Nat /\ DOMAIN v2 \subseteq 0..(MaxFd - 1)
  BY TableIs, ProgramsAssumption DEF Popen!PopenAssumption, PopenSlots
<1> DEFINE S == (0..(MaxFd + 1)) \ DOMAIN v2
           T == (0..(MaxFd + 1)) \ (DOMAIN v2 \cup {Popen!pfd0})
<1>2. MaxFd \in S /\ MaxFd + 1 \in S /\ S \in SUBSET Nat
  BY <1>1
<1>3. Popen!pfd0 \in S
  BY <1>2, MinOfPopen DEF Popen!pfd0
<1>4. (MaxFd \in T \/ MaxFd + 1 \in T) /\ T \in SUBSET Nat
  BY <1>1
<1> HIDE DEF S
<1>5. Popen!pfd1 \in T
  BY <1>4, MinOfPopen DEF Popen!pfd1
<1> QED BY <1>2, <1>3, <1>5 DEF S

\* One more command.
LEMMA OneMore ==
  ASSUME NEW R, NEW s \in Seq(R), NEW e \in R
  PROVE \E n \in Nat :
          /\ n = Len(s) /\ DOMAIN s = 1..n
          /\ Append(s, e) \in Seq(R) /\ DOMAIN Append(s, e) = 1..(n + 1)
          /\ Append(s, e)[n + 1] = e /\ \A i \in 1..n : Append(s, e)[i] = s[i]
<1>1. Len(s) \in Nat /\ DOMAIN s = 1..Len(s)
  OBVIOUS
<1>2. /\ Append(s, e) \in Seq(R) /\ Len(Append(s, e)) = Len(s) + 1
      /\ Append(s, e)[Len(s) + 1] = e /\ \A i \in 1..Len(s) : Append(s, e)[i] = s[i]
  OBVIOUS
<1>3. DOMAIN Append(s, e) = 1..Len(Append(s, e))
  BY <1>2
<1> QED BY <1>1, <1>2, <1>3

\* What is known of a command stays true when something fails.
LEMMA CommandStays ==
  ASSUME NEW st, NEW n \in Nat, NEW m \in Nat, m = n \/ m # 0, NEW k, NEW r, CommandRight(st, n, k, r)
  PROVE CommandRight(st, m, k, r)
BY DEF CommandRight
\* The ends of a pipe differ, and so do those of different pipes.
LEMMA EndsDiffer ==
  \A j, k, y, z : FarOf(j, y) = OwnOf(k, z) => j = k /\ y # z
BY DEF FarOf, OwnOf
LEMMA FarDiffer ==
  \A j, k, y, z : FarOf(j, y) = FarOf(k, z) => j = k
BY DEF FarOf
LEMMA OwnIs == \A k : Popen!Own(k) = OwnOf(k, v4[k].type) /\ Popen!Far(k) = FarOf(k, v4[k].type)
BY DEF Popen!Own, Popen!Far, OwnOf, FarOf, Popen!Read, Popen!Write, Popen!End
LEMMA PipeOf ==
  /\ \A k, y : OwnOf(k, y).pipe = k
  /\ \A k, y : FarOf(k, y).pipe = k
  /\ Popen!Terminal.pipe = 0
BY DEF OwnOf, FarOf, Popen!Terminal, Popen!End

\* A command goes on, and its call is not affected; or it is waited for.
LEMMA PopenGoes ==
  ASSUME PopenInv, v1' = v1, v2' = v2, v3' = v3, v6' = v6, v5' = v5,
         NEW k \in DOMAIN v4, NEW r \in PopenCmds, v4' = [v4 EXCEPT ![k] = r],
         r.type = v4[k].type, CommandRight(v1, v6, k, r),
         r.pc \in {"child", "run"} => v4[k].pc \in {"child", "run"},
         r.pc \in {"child", "run", "zombie"}
  PROVE PopenInv'
<1>1. /\ v4' \in Seq(PopenCmds) /\ DOMAIN v4' = DOMAIN v4 /\ v4'[k] = r
      /\ \A j \in DOMAIN v4 : j # k => v4'[j] = v4[j]
  BY DEF PopenInv, CommandsRight
<1>2. \A j \in DOMAIN v4 : v4'[j].type = v4[j].type
  BY <1>1
<1>3. CommandsRight'
  BY <1>1 DEF PopenInv, CommandsRight
<1>4. FdsRight'
  BY <1>1 DEF PopenInv, FdsRight
<1>5. PidsRight'
  <2> SUFFICES ASSUME NEW f \in PopenSlots, v3[f] # 0
               PROVE /\ v3[f] \in DOMAIN v4' /\ v4'[v3[f]].pc \in {"child", "run", "zombie"}
                     /\ f \in DOMAIN v2 /\ v2[f] = FarOf(v3[f], v4'[v3[f]].type)
    BY DEF PopenInv, PidsRight
  <2>1. /\ v3[f] \in DOMAIN v4 /\ v4[v3[f]].pc \in {"child", "run", "zombie"}
        /\ f \in DOMAIN v2 /\ v2[f] = FarOf(v3[f], v4[v3[f]].type)
    BY DEF PopenInv, PidsRight
  <2> QED BY <1>1, <1>2, <2>1
<1>6. CallerRight'
  BY <1>1, <1>2 DEF PopenInv, CallerRight
<1>7. Known'
  <2> SUFFICES ASSUME v6 = 0 PROVE Known'
    BY DEF Known
  <2>1. ASSUME NEW j \in DOMAIN v4, v4'[j].pc \in {"child", "run"}
        PROVE v5.k = j \/ \E f \in PopenSlots : v3[f] = j
    BY <1>1, <2>1 DEF PopenInv, Known
  <2> QED BY <1>1, <2>1 DEF PopenInv, Known
<1> QED BY <1>3, <1>4, <1>5, <1>6, <1>7 DEF PopenInv

\* exec.
LEMMA PopenExecs ==
  ASSUME PopenInv, NEW k \in DOMAIN v4, Popen!execl(k)
  PROVE PopenInv'
<1> DEFINE t == v4[k].fd
           y == v4[k].type
           s == IF y = "r" THEN 1 ELSE 0
           p == v4[k].childpid
           own == Popen!Min(Popen!Where(t, Popen!Own(k)))
           u == Popen!Without(t, Popen!Where(t, Popen!Far(k)))
           w == IF own = s THEN u ELSE Popen!Without(Popen!With(u, s, Popen!Own(k)), {own})
           x == Popen!Without(w, Popen!known(k))
           r == [v4[k] EXCEPT !.pc = "run", !.fd = x]
<1>1. /\ v4[k] \in PopenCmds /\ v4[k].pc = "child" /\ CommandRight(v1, v6, k, v4[k])
      /\ k \in Nat /\ k # 0
  BY DEF PopenInv, CommandsRight, Popen!execl
<1>2. t \in PopenTables /\ y \in {"r", "w"} /\ p \in PopenPids /\ v6 \in Nat
  BY <1>1 DEF PopenCmds, PopenTypes, PopenInv
<1>3. /\ \E f \in DOMAIN t : t[f] = OwnOf(k, y)
      /\ \A f \in PopenSlots : p[f] # 0 => f \in DOMAIN t /\ t[f].pipe # 0
      /\ {0, 1} \subseteq v1 => Standard(t)
      /\ v6 = 0 => \A f \in DOMAIN t : p[f] # 0 \/
                     t[f] \in {Popen!Terminal, OwnOf(k, y), FarOf(k, y)}
  BY <1>1 DEF CommandRight
<1>4. /\ v4' = [v4 EXCEPT ![k] = r]
      /\ v1' = v1 /\ v2' = v2 /\ v3' = v3 /\ v5' = v5 /\ v6' = v6
  BY DEF Popen!execl, Popen!redirect, Popen!Stream
<1>5. Popen!Own(k) = OwnOf(k, y) /\ Popen!Far(k) = FarOf(k, y) /\ OwnOf(k, y) \in PopenEnds
  BY <1>1, <1>2, OwnIs DEF OwnOf, PopenEnds
<1>6. own \in DOMAIN t /\ t[own] = OwnOf(k, y)
  <2>1. Popen!Where(t, Popen!Own(k)) \in SUBSET Nat /\ Popen!Where(t, Popen!Own(k)) # {}
    BY <1>2, <1>3, <1>5, TableIs DEF Popen!Where, PopenSlots
  <2>2. own \in Popen!Where(t, Popen!Own(k))
    BY <2>1, MinOfPopen
  <2> QED BY <1>5, <2>2 DEF Popen!Where
<1>7. s \in PopenSlots
  BY ProgramsAssumption DEF Popen!PopenAssumption, PopenSlots
<1>8. /\ u \in PopenTables /\ DOMAIN u \subseteq DOMAIN t
      /\ \A f \in DOMAIN u : u[f] = t[f] /\ u[f] # FarOf(k, y)
      /\ \A f \in DOMAIN t : t[f] # FarOf(k, y) => f \in DOMAIN u
  <2> DEFINE F == Popen!Where(t, Popen!Far(k))
  <2>1. \A f : f \in F <=> f \in DOMAIN t /\ t[f] = FarOf(k, y)
    BY <1>5 DEF Popen!Where
  <2> HIDE DEF F
  <2>2. /\ Popen!Without(t, F) \in PopenTables /\ DOMAIN Popen!Without(t, F) = DOMAIN t \ F
        /\ \A g \in DOMAIN t \ F : Popen!Without(t, F)[g] = t[g]
    BY <1>2, TableWithout
  <2>3. u = Popen!Without(t, F)
    BY DEF F
  <2> HIDE DEF u, t
  <2> QED BY <2>1, <2>2, <2>3
<1>9. OwnOf(k, y) # FarOf(k, y)
  BY <1>2 DEF OwnOf, FarOf
<1>10. /\ w \in PopenTables /\ s \in DOMAIN w /\ w[s] = OwnOf(k, y)
       /\ \A f \in DOMAIN w : f # s => f \in DOMAIN u /\ w[f] = u[f]
  <2> HIDE DEF u, s, own
  <2>1. CASE own = s
    BY <1>6, <1>8, <1>9, <2>1
  <2>2. CASE own # s
    <3> DEFINE v == Popen!With(u, s, Popen!Own(k))
    <3>1. /\ v \in PopenTables /\ DOMAIN v = DOMAIN u \cup {s} /\ v[s] = OwnOf(k, y)
          /\ \A f \in DOMAIN u : f # s => v[f] = u[f]
      BY <1>5, <1>7, <1>8, TableWith
    <3> HIDE DEF v
    <3>2. /\ Popen!Without(v, {own}) \in PopenTables /\ DOMAIN Popen!Without(v, {own}) = DOMAIN v \ {own}
          /\ \A f \in DOMAIN v \ {own} : Popen!Without(v, {own})[f] = v[f]
      BY <3>1, TableWithout
    <3>3. w = Popen!Without(v, {own})
      BY <2>2 DEF v
    <3> QED BY <2>2, <3>1, <3>2, <3>3
  <2> QED BY <2>1, <2>2
<1> HIDE DEF u, w, own
<1>11. /\ x \in PopenTables /\ DOMAIN x = DOMAIN w \ Popen!known(k)
       /\ \A f \in DOMAIN x : x[f] = w[f]
  <2> DEFINE F == Popen!known(k)
  <2> HIDE DEF F
  <2>1. /\ Popen!Without(w, F) \in PopenTables /\ DOMAIN Popen!Without(w, F) = DOMAIN w \ F
        /\ \A g \in DOMAIN w \ F : Popen!Without(w, F)[g] = w[g]
    BY <1>10, TableWithout
  <2>2. x = Popen!Without(w, F) /\ F = Popen!known(k)
    BY DEF F
  <2> HIDE DEF x
  <2> QED BY <2>1, <2>2
<1>12. \A f \in PopenSlots : f \in Popen!known(k) <=> p[f] # 0
  <2>1. \A f \in PopenSlots : p[f] \in Nat
    BY <1>2 DEF PopenPids
  <2> QED BY <2>1 DEF Popen!known, PopenSlots
<1>13. {0, 1} \subseteq v1 => s \in DOMAIN x /\ x[s] = OwnOf(k, y)
  <2> SUFFICES ASSUME {0, 1} \subseteq v1 PROVE s \notin Popen!known(k)
    BY <1>10, <1>11
  <2>1. s \in DOMAIN t /\ t[s].pipe = 0
    BY <1>3, PipeOf DEF Standard
  <2> QED BY <1>3, <1>7, <1>12, <2>1
<1>14. v6 = 0 => \A f \in DOMAIN x : x[f] \in {Popen!Terminal, OwnOf(k, y)}
  <2> SUFFICES ASSUME v6 = 0, NEW f \in DOMAIN x, f # s PROVE x[f] \in {Popen!Terminal, OwnOf(k, y)}
    BY <1>10, <1>11
  <2>1. f \in DOMAIN t /\ x[f] = t[f] /\ t[f] # FarOf(k, y) /\ f \notin Popen!known(k)
    BY <1>8, <1>10, <1>11
  <2>2. f \in PopenSlots
    BY <1>2, <2>1, TableIs
  <2> QED BY <1>3, <1>12, <2>1, <2>2
<1> HIDE DEF x
<1>15. r \in PopenCmds /\ r.pc = "run" /\ r.type = y /\ r.fd = x
  BY <1>1, <1>11 DEF PopenCmds
<1>16. CommandRight(v1, v6, k, r)
  <2> HIDE DEF r, t, p
  <2> QED BY <1>13, <1>14, <1>15 DEF CommandRight
<1> HIDE DEF r
<1> QED BY <1>1, <1>4, <1>15, <1>16, PopenGoes

\* The command ends.
LEMMA PopenEnding ==
  ASSUME PopenInv, NEW k \in DOMAIN v4, Popen!Quit(k) \/ Popen!Ends(k)
  PROVE PopenInv'
<1> DEFINE r == [v4[k] EXCEPT !.pc = "zombie", !.fd = <<>>]
<1>1. /\ v4' = [v4 EXCEPT ![k] = r] /\ v4[k].pc = "run"
      /\ v1' = v1 /\ v2' = v2 /\ v3' = v3 /\ v5' = v5 /\ v6' = v6
  BY DEF Popen!Quit, Popen!Ends, Popen!Ending
<1>2. v4[k] \in PopenCmds
  BY DEF PopenInv, CommandsRight
<1>3. r \in PopenCmds /\ r.pc = "zombie" /\ r.type = v4[k].type
  BY <1>2, NoTable DEF PopenCmds
<1> HIDE DEF r
<1>4. CommandRight(v1, v6, k, r)
  BY <1>3 DEF CommandRight
<1> QED BY <1>1, <1>3, <1>4, PopenGoes

\* waitpid returns.
LEMMA PopenWaits ==
  ASSUME PopenInv, Popen!waitpid
  PROVE PopenInv'
<1> DEFINE k == v5.k
           r == [v4[k] EXCEPT !.pc = "reaped"]
<1>1. /\ v4' = [v4 EXCEPT ![k] = r] /\ v4[k].pc = "zombie" /\ v5.in = "pclose"
      /\ v5' = [in |-> "idle", k |-> 0]
      /\ v1' = v1 /\ v2' = v2 /\ v3' = v3 /\ v6' = v6
  BY DEF Popen!waitpid, Popen!Idle
<1>2. k \in DOMAIN v4 /\ \A f \in PopenSlots : v3[f] # k
  BY <1>1 DEF PopenInv, CallerRight
<1>3. v4[k] \in PopenCmds
  BY <1>2 DEF PopenInv, CommandsRight
<1>4. r \in PopenCmds /\ r.pc = "reaped" /\ r.type = v4[k].type
  BY <1>3 DEF PopenCmds
<1> HIDE DEF r, k
<1>5. CommandRight(v1, v6, k, r)
  BY <1>4 DEF CommandRight
<1>6. /\ v4' \in Seq(PopenCmds) /\ DOMAIN v4' = DOMAIN v4 /\ v4'[k] = r
      /\ \A j \in DOMAIN v4 : j # k => v4'[j] = v4[j]
  BY <1>1, <1>2, <1>4 DEF PopenInv, CommandsRight
<1>7. CommandsRight'
  BY <1>1, <1>5, <1>6 DEF PopenInv, CommandsRight
<1>8. FdsRight'
  BY <1>1, <1>6 DEF PopenInv, FdsRight
<1>9. PidsRight'
  BY <1>1, <1>2, <1>6 DEF PopenInv, PidsRight
<1>10. CallerRight'
  BY <1>1 DEF CallerRight
<1>11. Known'
  BY <1>1, <1>4, <1>6 DEF PopenInv, Known, k
<1> QED BY <1>1, <1>7, <1>8, <1>9, <1>10, <1>11 DEF PopenInv
\* popen: a command is added to those before; the caller may have both ends of its
\* pipe, in descriptors that were free.
LEMMA PopenAdds ==
  ASSUME PopenInv, v1' = v1, v3' = v3, v5 = [in |-> "idle", k |-> 0],
         NEW e \in PopenCmds, v4' = Append(v4, e), NEW n \in Nat, n = Len(v4),
         v6' = v6 \/ v6' \in Nat \ {0}, v2' \in PopenTables,
         \A f \in DOMAIN v2 : f \in DOMAIN v2' /\ v2'[f] = v2[f],
         \A f \in DOMAIN v2' \ DOMAIN v2 : v2'[f].pipe = n + 1 /\ v2'[f].end \in {"r", "w"},
         \A f, g \in DOMAIN v2' \ DOMAIN v2 : v2'[f] = v2'[g] => f = g,
         \/ v2' = v2 /\ v5' = v5 /\ e.pc = "none"
         \/ v6' # 0 /\ v5' = v5 /\ e.pc = "none"
         \/ /\ v5' = [in |-> "popen", k |-> n + 1] /\ e.pc = "child"
            /\ \E f \in DOMAIN v2' : v2'[f] = FarOf(n + 1, e.type),
         CommandRight(v1, v6', n + 1, e)
  PROVE PopenInv'
<1>1. /\ DOMAIN v4 = 1..n /\ DOMAIN v4' = 1..(n + 1) /\ v4' \in Seq(PopenCmds)
      /\ v4'[n + 1] = e /\ \A i \in 1..n : v4'[i] = v4[i]
  BY OneMore DEF PopenInv, CommandsRight
<1>2. v6 \in Nat /\ v6' \in Nat /\ (v6' = 0 => v6 = 0)
  BY DEF PopenInv
<1>3. CommandsRight'
  <2>1. ASSUME NEW j \in 1..n PROVE CommandRight(v1, v6', j, v4[j])
    <3> PICK r : r = v4[j]
      OBVIOUS
    <3>1. CommandRight(v1, v6, j, r)
      BY <1>1 DEF PopenInv, CommandsRight
    <3>2. v6' = v6 \/ v6' # 0
      OBVIOUS
    <3> PICK m \in Nat : m = v6'
      BY <1>2
    <3>3. CommandRight(v1, m, j, r)
      BY <1>2, <3>1, <3>2, CommandStays
    <3> QED BY <3>3
  <2>2. ASSUME NEW j \in 1..(n + 1) PROVE CommandRight(v1', v6', j, v4'[j])
    BY <1>1, <2>1
  <2> QED BY <1>1, <2>2 DEF CommandsRight
<1>4. FdsRight'
  <2>1. \A f \in DOMAIN v2' : \/ v2'[f].pipe \in 1..(n + 1) /\ v2'[f].end \in {"r", "w"}
                              \/ v2'[f] = Popen!Terminal
    BY <1>1 DEF PopenInv, FdsRight
  <2>2. ASSUME NEW f \in DOMAIN v2', NEW g \in DOMAIN v2', v2'[f] = v2'[g], v2'[f].pipe # 0
        PROVE f = g
    <3>1. CASE f \in DOMAIN v2 /\ g \in DOMAIN v2
      BY <2>2, <3>1 DEF PopenInv, FdsRight
    <3>2. \A h \in DOMAIN v2 : v2'[h].pipe # n + 1
      BY <1>1, PipeOf DEF PopenInv, FdsRight
    <3> QED BY <2>2, <3>1, <3>2
  <2>3. {0, 1} \subseteq v1 => Standard(v2')
    BY DEF PopenInv, FdsRight, Standard
  <2> QED BY <1>1, <2>1, <2>2, <2>3 DEF FdsRight
<1>5. PidsRight'
  <2> SUFFICES ASSUME NEW f \in PopenSlots, v3[f] # 0
               PROVE /\ v3[f] \in DOMAIN v4' /\ v4'[v3[f]].pc \in {"child", "run", "zombie"}
                     /\ f \in DOMAIN v2' /\ v2'[f] = FarOf(v3[f], v4'[v3[f]].type)
    BY DEF PopenInv, PidsRight
  <2>1. /\ v3[f] \in DOMAIN v4 /\ v4[v3[f]].pc \in {"child", "run", "zombie"}
        /\ f \in DOMAIN v2 /\ v2[f] = FarOf(v3[f], v4[v3[f]].type)
    BY DEF PopenInv, PidsRight
  <2> QED BY <1>1, <2>1
<1>6. CallerRight'
  BY <1>1 DEF CallerRight
<1>7. Known'
  <2> SUFFICES ASSUME v6' = 0 PROVE Known'
    BY DEF Known
  <2>1. /\ \A f \in DOMAIN v2 : v2[f].pipe = 0 \/ v3[f] # 0
        /\ \A k \in 1..n : v4[k].pc \in {"child", "run"} => \E f \in PopenSlots : v3[f] = k
    BY <1>1, <1>2 DEF PopenInv, Known
  <2>2. ASSUME NEW f \in DOMAIN v2', v2'[f].pipe # 0 /\ v3[f] = 0
        PROVE v5'.in = "popen" /\ v2'[f].pipe = v5'.k
    <3>1. f \notin DOMAIN v2
      BY <2>1, <2>2
    <3> QED BY <3>1
  <2>3. ASSUME NEW k \in 1..(n + 1), v4'[k].pc \in {"child", "run"}
        PROVE v5'.k = k \/ \E f \in PopenSlots : v3[f] = k
    BY <1>1, <2>1, <2>3
  <2> QED BY <1>1, <2>2, <2>3 DEF Known
<1> QED BY <1>2, <1>3, <1>4, <1>5, <1>6, <1>7 DEF PopenInv

LEMMA PopenCalls ==
  ASSUME PopenInv, Popen!popen
  PROVE PopenInv'
<1>1. PICK n \in Nat : n = Len(v4) /\ DOMAIN v4 = 1..n
  BY DEF PopenInv, CommandsRight
<1>2. /\ v1' = v1 /\ v3' = v3 /\ v5 = [in |-> "idle", k |-> 0]
      /\ v2 \in PopenTables /\ v3 \in PopenPids /\ v6 \in Nat
  BY DEF Popen!popen, Popen!Idle, PopenInv, FdsRight, PidsRight
<1> DEFINE p == Popen!pfd0
           q == Popen!pfd1
           both == Popen!With(Popen!With(v2, p, Popen!Read(n + 1)), q, Popen!Write(n + 1))
           e(l, y, t) == [pc |-> l, type |-> y, fd |-> t, childpid |-> v3]
<1>3. PICK y \in PopenTypes :
        \/ v4' = Append(v4, e("none", y, <<>>)) /\ v2' = v2 /\ v5' = v5 /\ v6' = v6
        \/ /\ p < MaxFd /\ q < MaxFd /\ v2' = both
           /\ \/ /\ v4' = Append(v4, e("child", y, both)) /\ v6' = v6
                 /\ v5' = [in |-> "popen", k |-> n + 1]
              \/ v6' = v6 + 1 /\ v4' = Append(v4, e("none", y, <<>>)) /\ v5' = v5
  BY <1>1 DEF Popen!popen, PopenTypes, Popen!MayFail
<1>4. e("none", y, <<>>) \in PopenCmds /\ CommandRight(v1, v6', n + 1, e("none", y, <<>>))
  BY <1>2, NoTable DEF PopenCmds, CommandRight
<1>5. CASE v4' = Append(v4, e("none", y, <<>>)) /\ v2' = v2 /\ v5' = v5 /\ v6' = v6
  <2> DEFINE r == e("none", y, <<>>)
  <2>1. r \in PopenCmds /\ r.pc = "none" /\ CommandRight(v1, v6', n + 1, r) /\ v4' = Append(v4, r)
    BY <1>4, <1>5
  <2> HIDE DEF r
  <2> QED BY <1>1, <1>2, <1>5, <2>1, PopenAdds
<1>6. CASE p < MaxFd /\ q < MaxFd /\ v2' = both
  <2>1. /\ p \in PopenSlots /\ q \in PopenSlots /\ p # q /\ p \notin DOMAIN v2 /\ q \notin DOMAIN v2
    BY <1>2, <1>6, TwoFree, ProgramsAssumption DEF Popen!PopenAssumption, PopenSlots
  <2>2. /\ Popen!Read(n + 1) \in PopenEnds /\ Popen!Write(n + 1) \in PopenEnds
        /\ Popen!Read(n + 1).pipe = n + 1 /\ Popen!Write(n + 1).pipe = n + 1
        /\ Popen!Read(n + 1) # Popen!Write(n + 1)
        /\ Popen!Read(n + 1).end = "r" /\ Popen!Write(n + 1).end = "w"
    BY DEF Popen!Read, Popen!Write, Popen!End, PopenEnds
  <2> DEFINE x == Popen!Read(n + 1)
             z == Popen!Write(n + 1)
  <2>3. both = Popen!With(Popen!With(v2, p, x), q, z)
    OBVIOUS
  <2> HIDE DEF p, q, both, x, z
  <2>4. /\ both \in PopenTables
        /\ DOMAIN both = DOMAIN v2 \cup {p, q} /\ both[p] = x /\ both[q] = z
        /\ \A f \in DOMAIN v2 : both[f] = v2[f]
    <3>1. x \in PopenEnds /\ z \in PopenEnds
      BY <2>2 DEF x, z
    <3>2. DOMAIN v2 \in SUBSET PopenSlots /\ v2 \in [DOMAIN v2 -> PopenEnds]
      BY <1>2, TableIs
    <3> DEFINE u == [g \in DOMAIN v2 \cup {p} |-> IF g = p THEN x ELSE v2[g]]
    <3>3. both = [g \in DOMAIN u \cup {q} |-> IF g = q THEN z ELSE u[g]]
      BY <2>3 DEF Popen!With
    <3>4. /\ DOMAIN u = DOMAIN v2 \cup {p} /\ u[p] = x
          /\ \A g \in DOMAIN v2 : u[g] = v2[g]
          /\ \A g \in DOMAIN u : u[g] \in PopenEnds
      BY <2>1, <3>1, <3>2
    <3> HIDE DEF u
    <3>5. /\ DOMAIN both = DOMAIN u \cup {q} /\ both[q] = z /\ both \in [DOMAIN both -> PopenEnds]
          /\ \A g \in DOMAIN u : g # q => both[g] = u[g]
      BY <3>1, <3>3, <3>4
    <3>6. /\ DOMAIN both = DOMAIN v2 \cup {p, q} /\ both[p] = x
          /\ \A g \in DOMAIN v2 : both[g] = v2[g]
      BY <2>1, <3>4, <3>5
    <3>7. both \in PopenTables
      BY <2>1, <3>2, <3>5, <3>6, IsTable
    <3> QED BY <3>5, <3>6, <3>7
  <2>5. /\ v2' \in PopenTables
        /\ \A f \in DOMAIN v2 : f \in DOMAIN v2' /\ v2'[f] = v2[f]
        /\ \A f \in DOMAIN v2' \ DOMAIN v2 : v2'[f].pipe = n + 1 /\ v2'[f].end \in {"r", "w"}
        /\ \A f, g \in DOMAIN v2' \ DOMAIN v2 : v2'[f] = v2'[g] => f = g
        /\ p \in DOMAIN v2' /\ v2'[p] = Popen!Read(n + 1)
        /\ q \in DOMAIN v2' /\ v2'[q] = Popen!Write(n + 1)
        /\ \A f \in DOMAIN v2' \ DOMAIN v2 : f \in {p, q}
    <3>1. /\ x = Popen!Read(n + 1) /\ x.pipe = n + 1 /\ x.end = "r" /\ x # z
          /\ z = Popen!Write(n + 1) /\ z.pipe = n + 1 /\ z.end = "w"
      BY <2>2 DEF x, z
    <3> QED BY <1>6, <2>1, <2>4, <3>1
  <2>6. CASE v6' = v6 + 1 /\ v4' = Append(v4, e("none", y, <<>>)) /\ v5' = v5
    <3> DEFINE r == e("none", y, <<>>)
    <3>1. r \in PopenCmds /\ r.pc = "none" /\ CommandRight(v1, v6', n + 1, r) /\ v4' = Append(v4, r)
      BY <1>4, <2>6
    <3>2. v6' \in Nat \ {0}
      BY <1>2, <2>6
    <3> HIDE DEF r
    <3> QED BY <1>1, <1>2, <2>5, <2>6, <3>1, <3>2, PopenAdds
  <2>7. CASE v4' = Append(v4, e("child", y, both)) /\ v6' = v6 /\ v5' = [in |-> "popen", k |-> n + 1]
    <3> DEFINE r == e("child", y, both)
    <3>1. r \in PopenCmds /\ r.pc = "child" /\ r.type = y /\ r.fd = both /\ r.childpid = v3
      BY <1>2, <2>4 DEF PopenCmds
    <3> HIDE DEF r
    <3>2. /\ \E f \in DOMAIN v2' : v2'[f] = OwnOf(n + 1, y)
          /\ \E f \in DOMAIN v2' : v2'[f] = FarOf(n + 1, y)
          /\ {v2'[p], v2'[q]} = {OwnOf(n + 1, y), FarOf(n + 1, y)}
      BY <2>5 DEF OwnOf, FarOf, Popen!Read, Popen!Write, Popen!End, PopenTypes
    <3>3. \A f \in PopenSlots : v3[f] # 0 => f \in DOMAIN v2' /\ v2'[f].pipe # 0
      BY <2>5, PipeOf, <1>1 DEF PopenInv, PidsRight
    <3>4. {0, 1} \subseteq v1 => Standard(v2')
      BY <2>5 DEF PopenInv, FdsRight, Standard
    <3>5. v6 = 0 => \A f \in DOMAIN v2' : v3[f] # 0 \/
                      v2'[f] \in {Popen!Terminal, OwnOf(n + 1, y), FarOf(n + 1, y)}
      <4> SUFFICES ASSUME v6 = 0, NEW f \in DOMAIN v2', f \in DOMAIN v2, v3[f] = 0
                   PROVE v2[f] = Popen!Terminal
        BY <2>5, <3>2
      <4>1. v2[f].pipe = 0
        BY <1>2 DEF PopenInv, Known
      <4>2. 0 \notin DOMAIN v4
        BY <1>1
      <4> QED BY <4>1, <4>2 DEF PopenInv, FdsRight
    <3>6. CommandRight(v1, v6', n + 1, r)
      BY <1>6, <2>7, <3>1, <3>2, <3>3, <3>4, <3>5 DEF CommandRight
    <3>7. v4' = Append(v4, r)
      BY <2>7 DEF r
    <3>8. \E f \in DOMAIN v2' : v2'[f] = FarOf(n + 1, r.type)
      BY <3>1, <3>2
    <3> QED BY <1>1, <1>2, <2>5, <2>7, <3>1, <3>6, <3>7, <3>8, PopenAdds
  <2> QED BY <1>3, <1>5, <1>6, <2>6, <2>7
<1> QED BY <1>3, <1>5, <1>6

\* The rest of popen: the far end goes into childpid[].
LEMMA PopenOpens ==
  ASSUME PopenInv, Popen!fdopen
  PROVE PopenInv'
<1> DEFINE k == v5.k
           y == v4[k].type
           f == Popen!Min(Popen!Where(v2, Popen!Far(k)))
           F == Popen!Where(v2, Popen!Own(k))
<1>1. /\ v1' = v1 /\ v4' = v4 /\ v5' = [in |-> "idle", k |-> 0] /\ v5.in = "popen"
      /\ v2' = Popen!Without(v2, F)
      /\ \/ v3' = [v3 EXCEPT ![f] = k] /\ v6' = v6
         \/ v3' = v3 /\ v6' = v6 + 1
  BY DEF Popen!fdopen, Popen!Idle, Popen!MayFail
<1>2. /\ k \in DOMAIN v4 /\ v4[k].pc \in {"child", "run", "zombie"}
      /\ \E g \in DOMAIN v2 : v2[g] = FarOf(k, y)
  BY <1>1 DEF PopenInv, CallerRight
<1>3. /\ v2 \in PopenTables /\ v3 \in PopenPids /\ v6 \in Nat /\ k \in Nat /\ k # 0
      /\ DOMAIN v4 \subseteq Nat \ {0}
  BY <1>2 DEF PopenInv, FdsRight, PidsRight, CommandsRight
<1>4. Popen!Own(k) = OwnOf(k, y) /\ Popen!Far(k) = FarOf(k, y)
  BY OwnIs
<1>5. f \in DOMAIN v2 /\ v2[f] = FarOf(k, y)
  <2>1. Popen!Where(v2, Popen!Far(k)) \in SUBSET Nat /\ Popen!Where(v2, Popen!Far(k)) # {}
    BY <1>2, <1>3, <1>4, TableIs DEF Popen!Where, PopenSlots
  <2>2. f \in Popen!Where(v2, Popen!Far(k))
    BY <2>1, MinOfPopen
  <2> QED BY <1>4, <2>2 DEF Popen!Where
<1>6. \A g : g \in F <=> g \in DOMAIN v2 /\ v2[g] = OwnOf(k, y)
  BY <1>4 DEF Popen!Where
<1>7. f \in PopenSlots
  BY <1>3, <1>5, TableIs
<1> HIDE DEF f, F, k
<1>8. /\ v2' \in PopenTables /\ DOMAIN v2' = DOMAIN v2 \ F
      /\ \A g \in DOMAIN v2' : v2'[g] = v2[g]
  <2>1. /\ Popen!Without(v2, F) \in PopenTables /\ DOMAIN Popen!Without(v2, F) = DOMAIN v2 \ F
        /\ \A g \in DOMAIN v2 \ F : Popen!Without(v2, F)[g] = v2[g]
    BY <1>3, TableWithout
  <2> QED BY <1>1, <2>1
<1>9. \A g \in DOMAIN v2 : v2[g] = FarOf(k, y) => g = f
  BY <1>3, <1>5, PipeOf DEF PopenInv, FdsRight
<1>10. f \in DOMAIN v2'
  BY <1>5, <1>6, <1>8, EndsDiffer
<1>11. \A g \in PopenSlots : v3[g] # 0 =>
         /\ v3[g] \in DOMAIN v4 /\ v4[v3[g]].pc \in {"child", "run", "zombie"}
         /\ g \in DOMAIN v2' /\ v2'[g] = FarOf(v3[g], v4[v3[g]].type)
  <2> SUFFICES ASSUME NEW g \in PopenSlots, v3[g] # 0
               PROVE /\ v3[g] \in DOMAIN v4 /\ v4[v3[g]].pc \in {"child", "run", "zombie"}
                     /\ g \in DOMAIN v2' /\ v2'[g] = FarOf(v3[g], v4[v3[g]].type)
    OBVIOUS
  <2>1. /\ v3[g] \in DOMAIN v4 /\ v4[v3[g]].pc \in {"child", "run", "zombie"}
        /\ g \in DOMAIN v2 /\ v2[g] = FarOf(v3[g], v4[v3[g]].type)
    BY DEF PopenInv, PidsRight
  <2>2. g \notin F
    <3> SUFFICES ASSUME v2[g] = OwnOf(k, y) PROVE FALSE
      BY <1>6
    <3>1. v3[g] = k
      <4>1. v2[g].pipe = k
        BY PipeOf
      <4>2. v2[g].pipe = v3[g]
        BY <2>1, PipeOf
      <4> QED BY <4>1, <4>2
    <3>2. FarOf(k, y) # OwnOf(k, y)
      BY EndsDiffer
    <3> QED BY <2>1, <3>1, <3>2
  <2> QED BY <1>8, <2>1, <2>2
<1>12. /\ v3' \in PopenPids /\ \A g \in PopenSlots : g # f => v3'[g] = v3[g]
       /\ v6' \in Nat /\ (v6' = 0 => v6 = 0 /\ v3'[f] = k)
       /\ v3'[f] = k \/ v3'[f] = v3[f]
  BY <1>1, <1>3, <1>7 DEF PopenPids
<1>13. PidsRight'
  <2> SUFFICES ASSUME NEW g \in PopenSlots, v3'[g] # 0
               PROVE /\ v3'[g] \in DOMAIN v4 /\ v4[v3'[g]].pc \in {"child", "run", "zombie"}
                     /\ g \in DOMAIN v2' /\ v2'[g] = FarOf(v3'[g], v4[v3'[g]].type)
    BY <1>1, <1>12 DEF PidsRight
  <2>1. CASE v3'[g] = v3[g]
    BY <1>11, <2>1
  <2>2. CASE g = f /\ v3'[f] = k
    BY <1>2, <1>5, <1>8, <1>10, <2>2
  <2> QED BY <1>12, <2>1, <2>2
<1>14. FdsRight'
  <2>1. {0, 1} \subseteq v1 => Standard(v2')
    <3> SUFFICES ASSUME {0, 1} \subseteq v1 PROVE Standard(v2')
      OBVIOUS
    <3>1. Standard(v2)
      BY DEF PopenInv, FdsRight
    <3>2. OwnOf(k, y) # Popen!Terminal
      BY <1>3, PipeOf
    <3> QED BY <1>6, <1>8, <3>1, <3>2 DEF Standard
  <2>2. /\ \A g \in DOMAIN v2' : \/ v2'[g].pipe \in DOMAIN v4 /\ v2'[g].end \in {"r", "w"}
                                 \/ v2'[g] = Popen!Terminal
        /\ \A g, h \in DOMAIN v2' : v2'[g] = v2'[h] /\ v2'[g].pipe # 0 => g = h
    BY <1>8 DEF PopenInv, FdsRight
  <2> QED BY <1>1, <1>8, <2>1, <2>2 DEF FdsRight
<1>15. CallerRight'
  BY <1>1 DEF CallerRight
<1>16. Known'
  <2> SUFFICES ASSUME v6' = 0 PROVE Known'
    BY DEF Known
  <2>1. ASSUME NEW g \in DOMAIN v2' PROVE v2'[g].pipe = 0 \/ v3'[g] # 0
    <3>1. g \in DOMAIN v2 /\ v2'[g] = v2[g] /\ g \in PopenSlots
      BY <1>3, <1>8, TableIs
    <3>2. CASE g = f
      BY <1>3, <1>12, <3>2
    <3>3. CASE g # f
      <4> SUFFICES ASSUME v2[g].pipe # 0, v3[g] = 0 PROVE FALSE
        BY <1>12, <3>1, <3>3
      <4>1. v2[g].pipe = k
        BY <1>12, <3>1 DEF PopenInv, Known, k
      <4>2. v2[g] # FarOf(k, y) /\ v2[g] # OwnOf(k, y)
        BY <1>6, <1>8, <1>9, <3>1, <3>3
      <4>3. v2[g] \in PopenEnds /\ v2[g].end \in {"r", "w"}
        BY <1>3, <3>1, <3>3, TableIs, PipeOf DEF PopenInv, FdsRight
      <4> QED BY <4>1, <4>2, <4>3 DEF OwnOf, FarOf, PopenEnds
    <3> QED BY <3>2, <3>3
  <2>2. ASSUME NEW j \in DOMAIN v4, v4[j].pc \in {"child", "run"}
        PROVE \E g \in PopenSlots : v3'[g] = j
    <3>1. CASE j = k
      BY <1>7, <1>12, <3>1
    <3>2. CASE j # k
      <4>1. PICK g \in PopenSlots : v3[g] = j
        BY <1>12, <2>2, <3>2 DEF PopenInv, Known, k
      <4>2. v3[g] # 0
        BY <1>3, <4>1
      <4>3. v2'[g] = FarOf(j, v4[j].type)
        BY <1>11, <4>1, <4>2
      <4>4. g # f
        BY <1>5, <1>8, <1>10, <3>2, <4>3, FarDiffer
      <4> QED BY <1>12, <4>1, <4>4
    <3> QED BY <3>1, <3>2
  <2> QED BY <1>1, <2>1, <2>2 DEF Known
<1>17. CommandsRight'
  <2>1. ASSUME NEW j \in DOMAIN v4 PROVE CommandRight(v1, v6', j, v4[j])
    <3> PICK r : r = v4[j]
      OBVIOUS
    <3> PICK m \in Nat : m = v6'
      BY <1>12
    <3>1. CommandRight(v1, v6, j, r) /\ v6 \in Nat /\ (m = v6 \/ m # 0)
      BY <1>3, <1>12 DEF PopenInv, CommandsRight
    <3> QED BY <3>1, CommandStays
  <2> QED BY <1>1, <2>1 DEF PopenInv, CommandsRight
<1> QED BY <1>1, <1>12, <1>13, <1>14, <1>15, <1>16, <1>17 DEF PopenInv

\* pclose takes a descriptor out of childpid[] and closes it.
LEMMA PopenCloses ==
  ASSUME PopenInv, Popen!pclose
  PROVE PopenInv'
<1>1. PICK f \in PopenSlots :
        /\ v3[f] # 0 /\ v3' = [v3 EXCEPT ![f] = 0] /\ v2' = Popen!Without(v2, {f})
        /\ \/ v5' = [in |-> "pclose", k |-> v3[f]]
           \/ Popen!fclose_fails(v3[f]) /\ v5' = v5
  BY DEF Popen!pclose, Popen!forget, PopenSlots
<1>2. /\ v1' = v1 /\ v4' = v4 /\ v6' = v6 /\ v5 = [in |-> "idle", k |-> 0]
  BY DEF Popen!pclose, Popen!Idle
<1>3. /\ v2 \in PopenTables /\ v3 \in PopenPids /\ v6 \in Nat /\ DOMAIN v4 \subseteq Nat \ {0}
  BY DEF PopenInv, FdsRight, PidsRight, CommandsRight
<1> DEFINE k == v3[f]
<1>4. /\ k \in DOMAIN v4 /\ v4[k].pc \in {"child", "run", "zombie"}
      /\ f \in DOMAIN v2 /\ v2[f] = FarOf(k, v4[k].type)
  BY <1>1 DEF PopenInv, PidsRight
<1>5. /\ v2' \in PopenTables /\ DOMAIN v2' = DOMAIN v2 \ {f}
      /\ \A g \in DOMAIN v2' : v2'[g] = v2[g]
  <2>1. /\ Popen!Without(v2, {f}) \in PopenTables /\ DOMAIN Popen!Without(v2, {f}) = DOMAIN v2 \ {f}
        /\ \A g \in DOMAIN v2 \ {f} : Popen!Without(v2, {f})[g] = v2[g]
    BY <1>3, TableWithout
  <2> QED BY <1>1, <2>1
<1>6. v3' \in PopenPids /\ v3'[f] = 0 /\ \A g \in PopenSlots : g # f => v3'[g] = v3[g]
  BY <1>1, <1>3 DEF PopenPids
<1>7. k \in Nat \ {0} /\ k = v3[f]
  BY <1>3, <1>4
<1> HIDE DEF k
<1>8. \A g \in PopenSlots : g # f => v3[g] # k
  <2> SUFFICES ASSUME NEW g \in PopenSlots, v3[g] = k PROVE g = f
    OBVIOUS
  <2>1. g \in DOMAIN v2 /\ v2[g] = FarOf(k, v4[k].type)
    BY <1>7 DEF PopenInv, PidsRight
  <2>2. v2[f].pipe = k
    BY <1>4, PipeOf
  <2> QED BY <1>4, <1>7, <2>1, <2>2 DEF PopenInv, FdsRight
<1>9. FdsRight'
  <2>1. {0, 1} \subseteq v1 => Standard(v2')
    <3> SUFFICES ASSUME {0, 1} \subseteq v1 PROVE Standard(v2')
      OBVIOUS
    <3>1. Standard(v2)
      BY DEF PopenInv, FdsRight
    <3>2. v2[f] # Popen!Terminal
      <4>1. v2[f].pipe = k
        BY <1>4, PipeOf
      <4> QED BY <1>7, <4>1, PipeOf
    <3> QED BY <1>5, <3>1, <3>2 DEF Standard
  <2>2. /\ \A g \in DOMAIN v2' : \/ v2'[g].pipe \in DOMAIN v4 /\ v2'[g].end \in {"r", "w"}
                                 \/ v2'[g] = Popen!Terminal
        /\ \A g, h \in DOMAIN v2' : v2'[g] = v2'[h] /\ v2'[g].pipe # 0 => g = h
    BY <1>5 DEF PopenInv, FdsRight
  <2> QED BY <1>2, <1>5, <2>1, <2>2 DEF FdsRight
<1>10. PidsRight'
  <2> SUFFICES ASSUME NEW g \in PopenSlots, v3'[g] # 0
               PROVE /\ v3'[g] \in DOMAIN v4 /\ v4[v3'[g]].pc \in {"child", "run", "zombie"}
                     /\ g \in DOMAIN v2' /\ v2'[g] = FarOf(v3'[g], v4[v3'[g]].type)
    BY <1>2, <1>6 DEF PidsRight
  <2>1. g # f /\ v3'[g] = v3[g]
    BY <1>6
  <2>2. /\ v3[g] \in DOMAIN v4 /\ v4[v3[g]].pc \in {"child", "run", "zombie"}
        /\ g \in DOMAIN v2 /\ v2[g] = FarOf(v3[g], v4[v3[g]].type)
    BY <2>1 DEF PopenInv, PidsRight
  <2> QED BY <1>5, <2>1, <2>2
<1>11. v5' = [in |-> "pclose", k |-> k] \/ (v5' = v5 /\ v4[k].pc = "zombie")
  BY <1>1, <1>7 DEF Popen!fclose_fails
<1>12. CallerRight'
  <2>1. \A g \in PopenSlots : v3'[g] # k
    BY <1>6, <1>7, <1>8
  <2>2. v5' \in [in : {"idle", "popen", "pclose"}, k : Nat] /\ v5'.in # "popen"
        /\ (v5'.in = "idle" => v5'.k = 0) /\ (v5'.in = "pclose" => v5'.k = k)
    BY <1>2, <1>7, <1>11
  <2> QED BY <1>2, <1>4, <2>1, <2>2 DEF CallerRight
<1>13. Known'
  <2> SUFFICES ASSUME v6 = 0 PROVE Known'
    BY <1>2 DEF Known
  <2>1. /\ \A g \in DOMAIN v2 : v2[g].pipe # 0 => v3[g] # 0
        /\ \A j \in DOMAIN v4 : v4[j].pc \in {"child", "run"} => \E g \in PopenSlots : v3[g] = j
    BY <1>2, <1>3 DEF PopenInv, Known
  <2>2. ASSUME NEW g \in DOMAIN v2', v2'[g].pipe # 0 PROVE v3'[g] # 0
    <3>1. g \in DOMAIN v2 /\ g # f /\ g \in PopenSlots
      BY <1>3, <1>5, TableIs
    <3> QED BY <1>5, <1>6, <2>1, <2>2, <3>1
  <2>3. ASSUME NEW j \in DOMAIN v4, v4[j].pc \in {"child", "run"}
        PROVE v5'.k = j \/ \E g \in PopenSlots : v3'[g] = j
    <3>1. PICK g \in PopenSlots : v3[g] = j
      BY <2>1, <2>3
    <3>2. CASE g = f
      BY <1>7, <1>11, <2>3, <3>1, <3>2
    <3>3. CASE g # f
      BY <1>6, <3>1, <3>3
    <3> QED BY <3>2, <3>3
  <2> QED BY <1>2, <2>2, <2>3 DEF Known
<1>14. CommandsRight'
  BY <1>2 DEF PopenInv, CommandsRight
<1> QED BY <1>2, <1>9, <1>10, <1>12, <1>13, <1>14 DEF PopenInv

\* A step of the caller or of a command.
LEMMA PopenKept ==
  ASSUME PopenInv, Popen!Next
  PROVE PopenInv'
BY PopenCalls, PopenCloses, PopenOpens, PopenWaits, PopenExecs, PopenEnding
   DEF Popen!Next, Popen!Caller, Popen!Command

\* Nothing has been called.
LEMMA PopenStarts ==
  ASSUME Popen!Init
  PROVE PopenInv
<1>1. /\ v1 \in {{0, 1, 2}, {1, 2}, {0, 2}, {2}} /\ v2 = [f \in v1 |-> Popen!Terminal]
      /\ v3 = [f \in PopenSlots |-> 0] /\ v4 = <<>> /\ v5 = [in |-> "idle", k |-> 0] /\ v6 = 0
  BY DEF Popen!Init, Popen!Idle, PopenSlots
<1>2. MaxFd \in Nat /\ MaxFd > 2
  BY ProgramsAssumption DEF Popen!PopenAssumption
<1>3. v1 \in SUBSET {0, 1, 2} /\ v1 \in SUBSET PopenSlots
  BY <1>1, <1>2 DEF PopenSlots
<1>4. Popen!Terminal \in PopenEnds
  BY DEF Popen!Terminal, Popen!End, PopenEnds
<1>5. DOMAIN v2 = v1 /\ v2 \in [v1 -> PopenEnds] /\ \A f \in v1 : v2[f] = Popen!Terminal
  BY <1>1, <1>4
<1>6. v2 \in PopenTables
  BY <1>3, <1>5, IsTable
<1>7. FdsRight
  BY <1>5, <1>6, PipeOf DEF FdsRight, Standard
<1>8. PidsRight
  BY <1>1 DEF PidsRight, PopenPids
<1>9. CallerRight
  BY <1>1 DEF CallerRight
<1>10. v4 \in Seq(PopenCmds) /\ DOMAIN v4 = {}
  BY <1>1
<1>11. Known
  BY <1>5, <1>10, PipeOf DEF Known
<1>12. CommandsRight
  BY <1>10 DEF CommandsRight
<1> QED BY <1>1, <1>3, <1>7, <1>8, <1>9, <1>11, <1>12 DEF PopenInv

LEMMA PopenStill ==
  ASSUME PopenInv, UNCHANGED vars
  PROVE PopenInv'
BY DEF vars, PopenInv, FdsRight, PidsRight, CallerRight, Known, CommandsRight

\* A command has its own end of its own pipe and no other, and childpid[] has the
\* commands pclose must wait for.
LEMMA PopenConnects ==
  ASSUME PopenInv
  PROVE Popen!Connected /\ Popen!ChildTable
<1>1. Popen!Connected
  <2> SUFFICES ASSUME NEW k \in DOMAIN v4, v4[k].pc = "run"
               PROVE /\ {0, 1} \subseteq v1 => Popen!Stream(k) \in Popen!Where(v4[k].fd, Popen!Own(k))
                     /\ v6 = 0 => Popen!Range(v4[k].fd) \subseteq {Popen!Terminal, Popen!Own(k)}
    BY DEF Popen!Connected
  <2>1. CommandRight(v1, v6, k, v4[k])
    BY DEF PopenInv, CommandsRight
  <2>2. Popen!Own(k) = OwnOf(k, v4[k].type)
    BY OwnIs
  <2> QED BY <2>1, <2>2 DEF CommandRight, Popen!Stream, Popen!Where, Popen!Range
<1>2. Popen!ChildTable
  <2>1. DOMAIN v3 = PopenSlots
    BY DEF PopenInv, PidsRight, PopenPids
  <2>2. ASSUME NEW f \in PopenSlots, v3[f] # 0
        PROVE f \in DOMAIN v2 /\ v2[f] = Popen!Far(v3[f]) /\ v4[v3[f]].pc # "reaped"
    BY <2>2, OwnIs DEF PopenInv, PidsRight
  <2>3. ASSUME NEW k \in DOMAIN v4, v4[k].pc \in {"child", "run"} /\ v6 = 0
        PROVE v5.k = k \/ \E f \in PopenSlots : v3[f] = k
    BY <2>3 DEF PopenInv, Known
  <2> QED BY <2>1, <2>2, <2>3 DEF Popen!ChildTable
<1> QED BY <1>1, <1>2

-----------------------------------------------------------------------------
(* MyDup2: v1 arg, v2 before, v3 fd, v4 stack, v5 pc, v6 nopen. *)
OldFd == v1.oldfd
NewFd == v1.newfd

\* Nothing that was pushed is newfd.
StackRight == /\ v4 = [data |-> v4.data, size |-> v4.size]
              /\ v4.data \in Seq(Dup2!Numbers \ {NewFd}) /\ v4.size \in Nat

\* While the loop runs oldfd keeps its file, and nobody but it takes newfd if no
\* file was opened; after it newfd has the file of oldfd.
Dup2Inv ==
  /\ v1 \in [oldfd : Dup2!Numbers, newfd : 0..OPEN_MAX]
  /\ DOMAIN v3 \in SUBSET Dup2!Numbers
  /\ StackRight
  /\ v5 \in {"call", "EBADF", "error", "dup", "forever", "pop", "new"}
  /\ v6 \in Nat
  /\ v5 = "call" => v3 = v2
  /\ v5 = "dup" => /\ OldFd # NewFd /\ OldFd \in DOMAIN v3 /\ v3[OldFd] = v2[OldFd]
                   /\ NewFd < OPEN_MAX /\ v6 = 0 => NewFd \notin DOMAIN v3
  /\ v5 = "forever" => NewFd >= OPEN_MAX \/ v6 > 0
  /\ v5 \in {"pop", "new"} /\ OldFd # NewFd /\ NewFd \notin Residue =>
       NewFd \in DOMAIN v3 /\ v3[NewFd] = v2[OldFd]

\* What Min picks is in the set.
LEMMA MinOfDup2 == \A S \in SUBSET Nat : S # {} => Dup2!Min(S) \in S
<1> SUFFICES ASSUME NEW S \in SUBSET Nat, S # {} PROVE Dup2!Min(S) \in S
  OBVIOUS
<1>1. \E x \in S : \A y \in S : x <= y
  BY LeastNumber
<1> QED BY <1>1 DEF Dup2!Min

\* The lowest free descriptor gets a file; the others keep theirs.
LEMMA Dup2Opens ==
  ASSUME Dup2Inv, Dup2!FreeFds # {}, NEW x, v3' = Dup2!With(Dup2!Min(Dup2!FreeFds), x)
  PROVE \E f \in Dup2!Numbers :
          /\ f = Dup2!Min(Dup2!FreeFds) /\ f \notin DOMAIN v3
          /\ DOMAIN v3' = DOMAIN v3 \cup {f} /\ v3'[f] = x
          /\ \A g \in DOMAIN v3 : v3'[g] = v3[g]
<1> DEFINE f == Dup2!Min(Dup2!FreeFds)
<1>1. Dup2!FreeFds \in SUBSET Nat
  BY DEF Dup2!FreeFds, Dup2!Numbers
<1>2. f \in Dup2!FreeFds
  BY <1>1, MinOfDup2
<1>3. f \in Dup2!Numbers /\ f \notin DOMAIN v3
  BY <1>2 DEF Dup2!FreeFds
<1>4. v3' = [g \in DOMAIN v3 \cup {f} |-> IF g = f THEN x ELSE v3[g]]
  BY DEF Dup2!With
<1> HIDE DEF f
<1>5. DOMAIN v3' = DOMAIN v3 \cup {f} /\ v3'[f] = x /\ \A g \in DOMAIN v3 : v3'[g] = v3[g]
  BY <1>3, <1>4
<1> QED BY <1>3, <1>5 DEF f
LEMMA Dup2Closes ==
  ASSUME NEW f, v3' = Dup2!Without(f)
  PROVE DOMAIN v3' = DOMAIN v3 \ {f} /\ \A g \in DOMAIN v3' : v3'[g] = v3[g]
BY DEF Dup2!Without

LEMMA Dup2Calls ==
  ASSUME Dup2Inv, Dup2!my_dup2
  PROVE Dup2Inv'
<1>1. /\ v1' = v1 /\ v2' = v2 /\ v4' = v4 /\ v6' = v6 /\ v3 = v2
      /\ \/ OldFd = NewFd /\ v5' = "new" /\ v3' = v3
         \/ v5' = "EBADF" /\ v3' = v3
         \/ v5' = "error" /\ (v3' = v3 \/ v3' = Dup2!Without(NewFd))
         \/ OldFd # NewFd /\ OldFd \in DOMAIN v3 /\ v5' = "dup" /\ v3' = Dup2!Without(NewFd)
  BY DEF Dup2!my_dup2, Dup2!close_newfd, Dup2!Open, Dup2Inv, OldFd, NewFd
<1>2. StackRight' /\ OldFd' = OldFd /\ NewFd' = NewFd
  BY <1>1 DEF Dup2Inv, StackRight, OldFd, NewFd
<1>3. CASE v3' = v3 /\ ((OldFd = NewFd /\ v5' = "new") \/ v5' = "EBADF")
  BY <1>1, <1>2, <1>3 DEF Dup2Inv
<1>4. CASE OldFd # NewFd /\ OldFd \in DOMAIN v3 /\ v5' = "dup" /\ v3' = Dup2!Without(NewFd)
  <2>1. DOMAIN v3' = DOMAIN v3 \ {NewFd} /\ \A g \in DOMAIN v3' : v3'[g] = v3[g]
    BY <1>4, Dup2Closes
  <2> QED BY <1>1, <1>2, <1>4, <2>1 DEF Dup2Inv
<1>5. CASE v5' = "error" /\ (v3' = v3 \/ v3' = Dup2!Without(NewFd))
  <2>1. DOMAIN v3' \in SUBSET Dup2!Numbers
    BY <1>5, Dup2Closes DEF Dup2Inv
  <2> QED BY <1>1, <1>2, <1>5, <2>1 DEF Dup2Inv
<1> QED BY <1>1, <1>3, <1>4, <1>5

LEMMA Dup2Dups ==
  ASSUME Dup2Inv, Dup2!dup
  PROVE Dup2Inv'
<1>1. /\ v1' = v1 /\ v2' = v2 /\ v6' = v6 /\ v5 = "dup"
      /\ \/ Dup2!FreeFds = {} /\ v5' = "forever" /\ v3' = v3 /\ v4' = v4
         \/ /\ Dup2!FreeFds # {} /\ v3' = Dup2!With(Dup2!Min(Dup2!FreeFds), v3[OldFd])
            /\ \/ Dup2!Min(Dup2!FreeFds) = NewFd /\ v5' = "pop" /\ v4' = v4
               \/ /\ Dup2!Min(Dup2!FreeFds) # NewFd /\ v5' = v5
                  /\ v4' = [v4 EXCEPT !.data = Append(v4.data, Dup2!Min(Dup2!FreeFds)), !.size = v4.size + 1]
  BY DEF Dup2!dup, Dup2!is_newfd, Dup2!stack_push, OldFd, NewFd
<1>2. /\ OldFd' = OldFd /\ NewFd' = NewFd
      /\ OldFd # NewFd /\ OldFd \in DOMAIN v3 /\ v3[OldFd] = v2[OldFd]
      /\ NewFd < OPEN_MAX /\ v6 = 0 => NewFd \notin DOMAIN v3
      /\ NewFd \in 0..OPEN_MAX /\ OPEN_MAX \in Nat /\ v6 \in Nat
  BY <1>1, ProgramsAssumption DEF Dup2Inv, OldFd, NewFd, Dup2!DupAssumption
<1>3. CASE Dup2!FreeFds = {} /\ v5' = "forever" /\ v3' = v3 /\ v4' = v4
  <2>1. NewFd >= OPEN_MAX \/ v6 > 0
    BY <1>2, <1>3 DEF Dup2!FreeFds, Dup2!Numbers
  <2>2. StackRight'
    BY <1>2, <1>3 DEF Dup2Inv, StackRight
  <2> QED BY <1>1, <1>2, <1>3, <2>1, <2>2 DEF Dup2Inv
<1>4. CASE Dup2!FreeFds # {} /\ v3' = Dup2!With(Dup2!Min(Dup2!FreeFds), v3[OldFd])
  <2>1. PICK f \in Dup2!Numbers :
          /\ f = Dup2!Min(Dup2!FreeFds) /\ f \notin DOMAIN v3
          /\ DOMAIN v3' = DOMAIN v3 \cup {f} /\ v3'[f] = v3[OldFd]
          /\ \A g \in DOMAIN v3 : v3'[g] = v3[g]
    <3> PICK x : x = v3[OldFd]
      OBVIOUS
    <3> QED BY <1>4, Dup2Opens
  <2>2. CASE f = NewFd /\ v5' = "pop" /\ v4' = v4
    <3>1. StackRight'
      BY <1>2, <2>2 DEF Dup2Inv, StackRight
    <3> QED BY <1>1, <1>2, <2>1, <2>2, <3>1 DEF Dup2Inv
  <2>3. CASE f # NewFd /\ v5' = v5 /\ v4' = [v4 EXCEPT !.data = Append(v4.data, f), !.size = v4.size + 1]
    <3>1. /\ v4 = [data |-> v4.data, size |-> v4.size] /\ v4.size \in Nat
          /\ v4.data \in Seq(Dup2!Numbers \ {NewFd})
      BY DEF Dup2Inv, StackRight
    <3>2. Append(v4.data, f) \in Seq(Dup2!Numbers \ {NewFd})
      BY <2>3, <3>1
    <3>3. v4' = [data |-> Append(v4.data, f), size |-> v4.size + 1]
      BY <2>3, <3>1
    <3>4. StackRight'
      BY <1>2, <3>1, <3>2, <3>3 DEF StackRight
    <3> QED BY <1>1, <1>2, <2>1, <2>3, <3>4 DEF Dup2Inv
  <2> QED BY <1>1, <1>4, <2>1, <2>2, <2>3
<1> QED BY <1>1, <1>3, <1>4

LEMMA Dup2Pops ==
  ASSUME Dup2Inv, Dup2!close
  PROVE Dup2Inv'
<1>1. /\ v1' = v1 /\ v2' = v2 /\ v6' = v6 /\ v5 = "pop"
      /\ \/ v5' = "new" /\ v3' = v3 /\ v4' = v4
         \/ /\ v4.size # 0 /\ v4' = [v4 EXCEPT !.size = v4.size - 1] /\ v5' = v5
            /\ \E f \in Dup2!stack_pop : v3' = Dup2!Without(f)
  BY DEF Dup2!close
<1>2. OldFd' = OldFd /\ NewFd' = NewFd
  BY <1>1 DEF OldFd, NewFd
<1>3. CASE v5' = "new" /\ v3' = v3 /\ v4' = v4
  <2>1. StackRight'
    BY <1>2, <1>3 DEF Dup2Inv, StackRight
  <2> QED BY <1>1, <1>2, <1>3, <2>1 DEF Dup2Inv
<1>4. CASE /\ v4.size # 0 /\ v4' = [v4 EXCEPT !.size = v4.size - 1] /\ v5' = v5
           /\ \E f \in Dup2!stack_pop : v3' = Dup2!Without(f)
  <2>1. /\ v4 = [data |-> v4.data, size |-> v4.size] /\ v4.size \in Nat
        /\ v4.data \in Seq(Dup2!Numbers \ {NewFd})
    BY DEF Dup2Inv, StackRight
  <2>2. v4' = [data |-> v4.data, size |-> v4.size - 1] /\ v4.size - 1 \in Nat
    BY <1>4, <2>1
  <2>3. StackRight'
    BY <1>2, <2>1, <2>2 DEF StackRight
  <2>4. PICK f \in Dup2!stack_pop : v3' = Dup2!Without(f)
    BY <1>4
  <2>5. DOMAIN v3' = DOMAIN v3 \ {f} /\ \A g \in DOMAIN v3' : v3'[g] = v3[g]
    BY <2>4, Dup2Closes
  <2>6. NewFd \notin Residue => f # NewFd
    <3>1. CASE v4.size < Len(v4.data)
      <4>1. v4.size + 1 \in 1..Len(v4.data) /\ f = v4.data[v4.size + 1]
        BY <2>1, <3>1 DEF Dup2!stack_pop
      <4> QED BY <2>1, <4>1
    <3>2. CASE ~(v4.size < Len(v4.data))
      BY <3>2 DEF Dup2!stack_pop
    <3> QED BY <3>1, <3>2
  <2> QED BY <1>1, <1>2, <1>4, <2>3, <2>5, <2>6 DEF Dup2Inv
<1> QED BY <1>1, <1>3, <1>4

LEMMA Dup2Others ==
  ASSUME Dup2Inv, Dup2!OtherOpens
  PROVE Dup2Inv'
<1>1. /\ v1' = v1 /\ v2' = v2 /\ v4' = v4 /\ v5' = v5 /\ v6' = v6 + 1 /\ v5 # "call"
      /\ Dup2!FreeFds # {} /\ v3' = Dup2!With(Dup2!Min(Dup2!FreeFds), OPEN_MAX)
  BY DEF Dup2!OtherOpens
<1>2. OldFd' = OldFd /\ NewFd' = NewFd
  BY <1>1 DEF OldFd, NewFd
<1>3. StackRight'
  BY <1>1, <1>2 DEF Dup2Inv, StackRight
<1>4. PICK f \in Dup2!Numbers :
        /\ f = Dup2!Min(Dup2!FreeFds) /\ f \notin DOMAIN v3
        /\ DOMAIN v3' = DOMAIN v3 \cup {f}
        /\ \A g \in DOMAIN v3 : v3'[g] = v3[g]
  BY <1>1, Dup2Opens
<1>5. v6' \in Nat /\ v6' > 0
  BY <1>1 DEF Dup2Inv
<1> QED BY <1>1, <1>2, <1>3, <1>4, <1>5 DEF Dup2Inv

\* A step of my_dup2, or of the other thread.
LEMMA Dup2Kept ==
  ASSUME Dup2Inv, Dup2!Next
  PROVE Dup2Inv'
BY Dup2Calls, Dup2Dups, Dup2Pops, Dup2Others DEF Dup2!Next

\* Nothing has been pushed.
LEMMA Dup2Starts ==
  ASSUME Dup2!Init
  PROVE Dup2Inv
<1>1. /\ v1 \in [oldfd : Dup2!Numbers, newfd : 0..OPEN_MAX] /\ v3 = v2
      /\ v4 = [data |-> <<>>, size |-> 0] /\ v5 = "call" /\ v6 = 0
      /\ \E S \in SUBSET Dup2!Numbers : v2 = [f \in S |-> f]
  BY DEF Dup2!Init
<1>2. DOMAIN v3 \in SUBSET Dup2!Numbers
  BY <1>1
<1>3. StackRight
  BY <1>1 DEF StackRight
<1> QED BY <1>1, <1>2, <1>3 DEF Dup2Inv

LEMMA Dup2Still ==
  ASSUME Dup2Inv, UNCHANGED vars
  PROVE Dup2Inv'
BY DEF vars, Dup2Inv, StackRight, OldFd, NewFd

\* newfd is a duplicate of oldfd, and the loop ends.
LEMMA Dup2Works ==
  ASSUME Dup2Inv
  PROVE Dup2!NewIsOld /\ Dup2!LoopEnds
BY DEF Dup2Inv, Dup2!NewIsOld, Dup2!LoopEnds, Dup2!Open, OldFd, NewFd
-----------------------------------------------------------------------------
\* The select loop of opend handles every request with the uid of the client
\* that sent it, for any number of clients, requests and connections.
THEOREM UidAlwaysRight == Spec => []UidRight
<1> DEFINE Inv == part = "opend" => OpendInv
<1>1. Init => Inv
  BY PartInit, OpendStarts
<1>2. Inv /\ [Next]_vars => Inv'
  <2> SUFFICES ASSUME Inv, [Next]_vars PROVE Inv'
    OBVIOUS
  <2>1. CASE Next
    BY <2>1, PartNext, OpendKept
  <2>2. CASE UNCHANGED vars
    <3>1. part' = part
      BY <2>2 DEF vars
    <3> QED BY <2>2, <3>1, OpendStill
  <2> QED BY <2>1, <2>2
<1>3. Inv => UidRight
  BY OpendUid DEF UidRight
<1> HIDE DEF Inv
<1> QED BY <1>1, <1>2, <1>3, PTL DEF Spec

\* Tables and descriptors agree: in opend and the uptime servers, after popen and
\* pclose, in db_open and my_dup2, for any number of clients, commands and
\* descriptors and whatever fails.
THEOREM DescriptorsAlwaysRight == Spec => []DescriptorsRight
<1> DEFINE Inv == /\ part = "opend" => OpendInv
                  /\ part = "ruptime" => RuptimeInv
                  /\ part = "popen" => PopenInv
                  /\ part = "dbopen" => DbOpenInv
                  /\ part = "dup2" => Dup2Inv
<1>1. Init => Inv
  BY PartInit, OpendStarts, UptimeStarts, PopenStarts, DbOpenStarts, Dup2Starts
<1>2. Inv /\ [Next]_vars => Inv'
  <2> SUFFICES ASSUME Inv, [Next]_vars PROVE Inv'
    OBVIOUS
  <2>1. CASE Next
    BY <2>1, PartNext, OpendKept, UptimeKept, PopenKept, DbOpenKept, Dup2Kept
  <2>2. CASE UNCHANGED vars
    <3>1. part' = part
      BY <2>2 DEF vars
    <3> QED BY <2>2, <3>1, OpendStill, UptimeStill, PopenStill, DbOpenStill, Dup2Still
  <2> QED BY <2>1, <2>2
<1>3. Inv => DescriptorsRight
  BY OpendTables, UptimeOwns, PopenConnects, Dup2Works DEF DescriptorsRight, DbOpenInv
<1> HIDE DEF Inv
<1> QED BY <1>1, <1>2, <1>3, PTL DEF Spec
=============================================================================
