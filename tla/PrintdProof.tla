---------------------------- MODULE PrintdProof -----------------------------
(***************************************************************************)
(* Proofs about Printd.  What the types, the refused clients and SIGHUP    *)
(* need holds for every value of the constants.  What is about documents   *)
(* needs job numbers that are not given out twice (NoReuse): printd.c does *)
(* not save a number before its job is taken, so it holds for clients that *)
(* come before the first stop, and no more of them than there are numbers. *)
(***************************************************************************)
EXTENDS Printd, FiniteSetTheorems, SequenceTheorems, TLAPS

\* Threads that have ended or never began; threads with a job number; the
\* printer thread with a job in hand.
RestPCs == {"none", "done"}
NumberPCs == {"creat", "recv", "creatreq", "writereq", "respond", "addjob", "unreq", "undata"}
HandPCs == {"save", "config", "reload", "open", "connect", "status", "unreq"}

\* What a client thread knows of its own data file.
ThreadInv ==
  /\ \A c \in Clients : thr[c].pc \in NumberPCs => thr[c].id \in JobIds
  /\ \A c \in Clients : thr[c].pc = "creat" => thr[c].n = 0
  /\ main # "serve" => \A c \in Clients : thr[c].pc \in RestPCs
  /\ \A c \in Clients, j \in JobIds :
       thr[c].pc = "recv" /\ thr[c].id = j /\ data[j] # None /\ data[j].doc = c => data[j].n = thr[c].n

\* What the printer thread holds at which place.
HandInv ==
  /\ prn.pc \in HandPCs => prn.job \in Job
  /\ prn.pc \notin HandPCs => prn.job = None
  /\ prn.pc \in {"connect", "status"} => prn.buf \in File

\* What build_qonstart has still to read is there, and not queued yet.
ScanInv ==
  /\ main # "scan" => scan = {}
  /\ \A j \in scan : reqs[j] # None
  /\ \A j \in scan : prn.job # None => prn.job.id # j
  /\ \A j \in scan : \A i \in DOMAIN queue : queue[i].id # j

TInv == TypeOK /\ ThreadInv /\ HandInv /\ ScanInv
-----------------------------------------------------------------------------
(* The job list. *)

\* A job at the tail.
LEMMA AppendJob ==
  ASSUME NEW q \in Seq(Job), NEW x \in Job
  PROVE  /\ Append(q, x) \in Seq(Job)
         /\ \A i \in DOMAIN Append(q, x) :
              \/ i \in DOMAIN q /\ Append(q, x)[i] = q[i]
              \/ i \notin DOMAIN q /\ i = Len(q) + 1 /\ Append(q, x)[i] = x
<1> QED
  BY AppendProperties

\* Without the job at the head.
LEMMA TailJob ==
  ASSUME NEW q \in Seq(Job), q # <<>>
  PROVE  /\ Head(q) \in Job /\ 1 \in DOMAIN q /\ Head(q) = q[1]
         /\ Tail(q) \in Seq(Job)
         /\ \A i \in DOMAIN Tail(q) : i + 1 \in DOMAIN q /\ i \in Nat \ {0} /\ Tail(q)[i] = q[i + 1]
<1> QED
  BY HeadTailProperties, EmptySeq

\* A job at the head.
LEMMA ConsJob ==
  ASSUME NEW q \in Seq(Job), NEW x \in Job
  PROVE  /\ <<x>> \o q \in Seq(Job)
         /\ \A i \in DOMAIN (<<x>> \o q) :
              \/ i = 1 /\ (<<x>> \o q)[i] = x
              \/ i \in Nat /\ i # 1 /\ i - 1 \in DOMAIN q /\ (<<x>> \o q)[i] = q[i - 1]
<1>1. <<x>> \in Seq(Job) /\ Len(<<x>>) = 1 /\ <<x>>[1] = x
  OBVIOUS
<1> QED
  BY <1>1, ConcatProperties
-----------------------------------------------------------------------------
(* Types, for every value of the constants. *)

ThreadType == [Clients -> [pc : ThreadPCs, id : JobIds \cup {None}, n : 0..Size]]

\* A thread goes from l to m and keeps its number and its count.
LEMMA ThreadMoves ==
  ASSUME TypeOK, NEW c \in Clients, NEW l, NEW m \in ThreadPCs, Thr(c, l, m)
  PROVE  /\ thr' \in ThreadType
         /\ thr[c].pc = l /\ thr'[c].pc = m /\ thr'[c].id = thr[c].id /\ thr'[c].n = thr[c].n
         /\ \A d \in Clients : d # c => thr'[d] = thr[d]
<1> QED
  BY DEF TypeOK, Thr, ThreadType

\* If it does not write a data file and had a number for m, all threads still
\* know theirs.
LEMMA MoveKeepsThreads ==
  ASSUME TypeOK, ThreadInv, NEW c \in Clients, NEW l, NEW m \in ThreadPCs, Thr(c, l, m),
         l \notin RestPCs, m \notin {"creat", "recv"}, m \in NumberPCs => l \in NumberPCs,
         \A j \in JobIds : data'[j] \in {data[j], None}, main' = main
  PROVE  ThreadInv'
<1> USE ThreadMoves DEF RestPCs
<1>1. main = "serve"
  BY DEF ThreadInv
<1>2. \A d \in Clients : thr'[d].pc \in NumberPCs => thr'[d].id \in JobIds
  BY DEF ThreadInv
<1>3. \A d \in Clients : thr'[d].pc = "creat" => thr'[d].n = 0
  BY DEF ThreadInv
<1>4. \A d \in Clients, j \in JobIds :
        thr'[d].pc = "recv" /\ thr'[d].id = j /\ data'[j] # None /\ data'[j].doc = d => data'[j].n = thr'[d].n
  BY DEF ThreadInv
<1> QED
  BY <1>1, <1>2, <1>3, <1>4 DEF ThreadInv

\* A remainder is smaller than its divisor.
LEMMA Remainder == ASSUME NEW v \in Int, NEW b \in Nat \ {0} PROVE v % b \in 0..(b - 1)
  OBVIOUS

\* A long brought into the range of an int32_t, and the next job number.
LEMMA Int32InRange == ASSUME NEW n \in Int PROVE Int32(n) \in JobIds
<1> DEFINE v == n + MaxJob + 1
           b == 2 * (MaxJob + 1)
<1>1. MaxJob \in Nat /\ v \in Int /\ b \in Nat \ {0}
  BY PrintdAssumption
<1> HIDE DEF v, b
<1>2. v % b \in 0..(b - 1)
  BY <1>1, Remainder
<1>3. b - 1 - (MaxJob + 1) = MaxJob
  BY <1>1 DEF b
<1>4. (v % b) - (MaxJob + 1) \in JobIds
  BY <1>1, <1>2, <1>3 DEF JobIds
<1> QED
  BY <1>4 DEF Int32, v, b

LEMMA NextInRange == ASSUME NEW n \in JobIds PROVE NextAfter(n) \in 1..MaxJob
<1> QED
  BY PrintdAssumption DEF NextAfter, JobIds

\* What update_jobno leaves in the file is a text of an integer again, whatever
\* it was written over.
LEMMA TextWritten == ASSUME TypeOK, update_jobno PROVE jobfile' \in Text
<1> USE PrintdAssumption
<1>1. nextjob \in Int /\ jobfile.len \in Nat /\ Abs(jobfile.num) \in Nat
  BY DEF TypeOK, Text, JobIds, Abs
<1>2. Width(nextjob) \in Nat
  <2> DEFINE K == {k \in 1..(MaxJob + 1) : Radix^k <= Abs(nextjob)}
  <2>1. IsFiniteSet(1..(MaxJob + 1))
    <3>1. 1 \in Int /\ MaxJob + 1 \in Int
      OBVIOUS
    <3> QED
      BY <3>1, FS_Interval
  <2>2. Cardinality(K) \in Nat
    BY <2>1, FS_Subset, FS_CardinalityType
  <2> HIDE DEF K
  <2>3. Cardinality(K) + (IF nextjob < 0 THEN 2 ELSE 1) \in Nat
    BY <2>2
  <2> QED
    BY <2>3 DEF Width, K
<1> DEFINE w == Width(nextjob)
           rest == IF jobfile.len > w THEN jobfile.len - w ELSE 0
<1>3. w \in Nat /\ rest \in Nat
  BY <1>1, <1>2
<1>4. PICK tail \in 0..Abs(jobfile.num) :
        jobfile' = [len |-> w + rest, num |-> nextjob * Radix^rest + (IF nextjob < 0 THEN -tail ELSE tail)]
  BY DEF update_jobno
<1> HIDE DEF w, rest
<1>5. Radix^rest \in Int /\ tail \in Int
  BY <1>1, <1>3
<1>6. nextjob * Radix^rest + (IF nextjob < 0 THEN -tail ELSE tail) \in Int
  BY <1>1, <1>5
<1> QED
  BY <1>3, <1>4, <1>6 DEF Text

\* In the initial state.
LEMMA TInvInit == Init => TInv
<1> USE PrintdAssumption DEF Init, Up
<1>1. Init => TypeOK
  <2>1. Init => queue \in Seq(Job)
    BY EmptySeq
  <2>2. Init => thr \in [Clients -> [pc : ThreadPCs, id : JobIds \cup {None}, n : 0..Size]]
    BY DEF NoThread, ThreadPCs
  <2>3. Init => prn \in [pc : PrinterPCs, job : Job \cup {None}, buf : File \cup {None}]
    BY DEF Idle, PrinterPCs
  <2>4. Init => used \in [{"crash", "fail", "defer", "lost"} -> Nat]
    OBVIOUS
  <2>5. Init => reread \in BOOLEAN
    BY Zenon
  <2>6. Init => jobfile \in Text /\ nextjob \in JobIds
    BY DEF JobIds
  <2> QED
    BY <2>1, <2>2, <2>3, <2>4, <2>5, <2>6 DEF TypeOK
<1>2. Init => ThreadInv
  BY DEF ThreadInv, NoThread, RestPCs, NumberPCs
<1>3. Init => HandInv
  BY DEF HandInv, Idle, HandPCs
<1>4. Init => ScanInv
  BY DEF ScanInv, Idle
<1> QED
  BY <1>1, <1>2, <1>3, <1>4 DEF TInv

\* The main thread: start, build_qonstart, accept.
LEMMA StartTypes == ASSUME TInv, Start PROVE TInv'
<1> USE PrintdAssumption DEF TInv, Start, disk, mem, env, Up
<1>1. TypeOK'
  <2>1. queue' \in Seq(Job)
    BY EmptySeq
  <2>2. prn' \in [pc : PrinterPCs, job : Job \cup {None}, buf : File \cup {None}]
    BY DEF Idle, PrinterPCs
  <2>3. nextjob' \in JobIds
    <3>1. jobfile.num \in Int
      BY DEF TypeOK, Text
    <3>2. Int32(jobfile.num) \in JobIds
      BY <3>1, Int32InRange
    <3>3. 1 \in JobIds
      BY DEF JobIds
    <3> QED
      BY <3>2, <3>3
  <2>4. reread' \in BOOLEAN
    BY Zenon
  <2> QED
    BY <2>1, <2>2, <2>3, <2>4 DEF TypeOK
<1>2. ThreadInv'
  BY DEF ThreadInv
<1>3. HandInv'
  BY DEF HandInv, Idle, HandPCs
<1>4. ScanInv'
  BY DEF ScanInv, Idle
<1> QED
  BY <1>1, <1>2, <1>3, <1>4 

LEMMA ScanTypes == ASSUME TInv, ScanFile PROVE TInv'
<1> USE PrintdAssumption DEF TInv, disk, mem, env, Up
<1>1. PICK j \in scan :
       /\ main = "scan" /\ j \in JobIds /\ scan' = scan \ {j} /\ reqs[j] # None
       /\ IF reqs[j] = "empty"
          THEN /\ reqs' = [reqs EXCEPT ![j] = None]
               /\ data' = [data EXCEPT ![j] = None]
               /\ UNCHANGED <<queue, prn>>
          ELSE /\ add_job([id |-> j, doc |-> reqs[j]])
               /\ UNCHANGED <<data, reqs>>
       /\ UNCHANGED <<jobfile, main, nextjob, thr, reread, printer, env>>
  BY DEF ScanFile, TypeOK, ScanInv
<1>2. CASE reqs[j] = "empty"
  <2>1. TypeOK'
    <3> DEFINE F == File \cup {None}
               G == Clients \cup {None, "empty"}
    <3>1. data \in [JobIds -> F] /\ reqs \in [JobIds -> G] /\ None \in F /\ None \in G
      BY DEF TypeOK
    <3> HIDE DEF F, G
    <3>2. data' \in [JobIds -> F] /\ reqs' \in [JobIds -> G]
      BY <1>1, <1>2, <3>1
    <3> USE DEF F, G
    <3>3. scan' \subseteq JobIds /\ UNCHANGED <<queue, prn>>
      BY <1>1, <1>2 DEF TypeOK
    <3> QED
      BY <1>1, <3>2, <3>3 DEF TypeOK
  <2>2. ThreadInv'
    BY <1>1, <1>2 DEF ThreadInv, TypeOK, RestPCs, NumberPCs
  <2>3. HandInv'
    BY <1>1, <1>2 DEF HandInv
  <2>4. ScanInv'
    BY <1>1, <1>2 DEF ScanInv, TypeOK
  <2> QED
    BY <2>1, <2>2, <2>3, <2>4
<1>3. CASE reqs[j] # "empty"
  <2> DEFINE x == [id |-> j, doc |-> reqs[j]]
  <2>1. x \in Job /\ x.id = j /\ queue \in Seq(Job)
    BY <1>1, <1>3 DEF TypeOK, Job
  <2>2. /\ queue' = Append(queue, x) /\ UNCHANGED <<data, reqs>>
        /\ prn' = IF prn.pc = "wait" THEN [prn EXCEPT !.pc = "get"] ELSE prn
    BY <1>1, <1>3 DEF add_job
  <2>3. queue' \in Seq(Job) /\ \A i \in DOMAIN queue' : (i \in DOMAIN queue /\ queue'[i] = queue[i]) \/ queue'[i] = x
    BY <2>1, <2>2, AppendJob
  <2>4. /\ prn' \in [pc : PrinterPCs, job : Job \cup {None}, buf : File \cup {None}]
        /\ prn'.job = prn.job /\ prn'.buf = prn.buf
        /\ prn'.pc = IF prn.pc = "wait" THEN "get" ELSE prn.pc
    BY <2>2 DEF TypeOK, PrinterPCs
  <2> HIDE DEF x
  <2>5. TypeOK'
    BY <1>1, <2>2, <2>3, <2>4 DEF TypeOK
  <2>6. ThreadInv'
    BY <1>1, <2>2 DEF ThreadInv
  <2>7. HandInv'
    BY <2>4 DEF HandInv, HandPCs
  <2>8. prn.pc = "wait" => prn.job = None
    BY DEF HandInv, HandPCs
  <2>9. ScanInv'
    BY <1>1, <2>1, <2>2, <2>3, <2>4 DEF ScanInv
  <2> QED
    BY <2>5, <2>6, <2>7, <2>9
<1> QED
  BY <1>2, <1>3

LEMMA ServeTypes == ASSUME TInv, ScanDone \/ \E c \in Clients : Accept(c) PROVE TInv'
<1> USE PrintdAssumption DEF TInv, disk, mem, env, Up
<1>1. CASE ScanDone
  BY <1>1 DEF ScanDone, TypeOK, ThreadInv, HandInv, ScanInv
<1>2. ASSUME NEW c \in Clients, Accept(c) PROVE TInv'
  <2>1. thr' = [thr EXCEPT ![c].pc = "header"] /\ UNCHANGED <<data, reqs, main, scan, prn, queue>> /\ main = "serve"
    BY <1>2 DEF Accept
  <2>2. Thr(c, thr[c].pc, "header") /\ "header" \in ThreadPCs
    BY <2>1 DEF Thr, ThreadPCs
  <2>3. TypeOK'
    BY <1>2, <2>2, ThreadMoves DEF TypeOK, ThreadType, Accept
  <2>4. ThreadInv'
    BY <2>1, <2>2, ThreadMoves DEF ThreadInv, NumberPCs
  <2>5. HandInv' /\ ScanInv'
    BY <2>1 DEF HandInv, ScanInv
  <2> QED
    BY <2>3, <2>4, <2>5
<1> QED
  BY <1>1, <1>2

\* Outside build_qonstart there is nothing to scan.
LEMMA ServeKeepsScan ==
  ASSUME TInv, main = "serve", UNCHANGED <<main, scan>>
  PROVE  ScanInv'
<1> QED
  BY DEF TInv, ScanInv

\* A client thread is in a call: the daemon serves.
LEMMA ThreadServes ==
  ASSUME TInv, NEW c \in Clients, thr[c].pc \notin RestPCs
  PROVE  main = "serve" /\ Up
<1> QED
  BY DEF TInv, ThreadInv, Up

DataType == [JobIds -> File \cup {None}]
ReqsType == [JobIds -> Clients \cup {None, "empty"}]
PrnType == [pc : PrinterPCs, job : Job \cup {None}, buf : File \cup {None}]
UsedType == [{"crash", "fail", "defer", "lost"} -> Nat]

\* Removing a file, and writing one.
LEMMA FileTypes ==
  ASSUME TypeOK, NEW j
  PROVE  /\ [data EXCEPT ![j] = None] \in DataType /\ [reqs EXCEPT ![j] = None] \in ReqsType
         /\ [reqs EXCEPT ![j] = "empty"] \in ReqsType
         /\ \A c \in Clients : [reqs EXCEPT ![j] = c] \in ReqsType
         /\ \A f \in File : [data EXCEPT ![j] = f] \in DataType
<1> DEFINE F == File \cup {None}
           G == Clients \cup {None, "empty"}
<1>1. /\ data \in [JobIds -> F] /\ reqs \in [JobIds -> G]
      /\ None \in F /\ None \in G /\ "empty" \in G /\ Clients \subseteq G /\ File \subseteq F
  BY DEF TypeOK
<1> HIDE DEF F, G
<1>2. /\ [data EXCEPT ![j] = None] \in [JobIds -> F] /\ [reqs EXCEPT ![j] = None] \in [JobIds -> G]
      /\ [reqs EXCEPT ![j] = "empty"] \in [JobIds -> G]
      /\ \A c \in Clients : [reqs EXCEPT ![j] = c] \in [JobIds -> G]
      /\ \A f \in File : [data EXCEPT ![j] = f] \in [JobIds -> F]
  BY <1>1
<1> QED
  BY <1>2 DEF F, G, DataType, ReqsType

\* Adding a job: the list grows at its end, and the printer thread is awake.
LEMMA AddJobTypes ==
  ASSUME TypeOK, NEW x \in Job, add_job(x)
  PROVE  /\ queue' \in Seq(Job)
         /\ \A i \in DOMAIN queue' : \/ i \in DOMAIN queue /\ queue'[i] = queue[i]
                                     \/ i \notin DOMAIN queue /\ i = Len(queue) + 1 /\ queue'[i] = x
         /\ prn' \in PrnType /\ prn'.job = prn.job /\ prn'.buf = prn.buf
         /\ prn'.pc = IF prn.pc = "wait" THEN "get" ELSE prn.pc
<1>1. queue \in Seq(Job) /\ queue' = Append(queue, x)
  BY DEF TypeOK, add_job
<1>2. prn \in PrnType /\ prn' = IF prn.pc = "wait" THEN [prn EXCEPT !.pc = "get"] ELSE prn
  BY DEF TypeOK, add_job, PrnType
<1>3. "get" \in PrinterPCs
  BY DEF PrinterPCs
<1>4. /\ prn' \in PrnType /\ prn'.job = prn.job /\ prn'.buf = prn.buf
      /\ prn'.pc = IF prn.pc = "wait" THEN "get" ELSE prn.pc
  BY <1>2, <1>3 DEF PrnType
<1> QED
  BY <1>1, <1>4, AppendJob

\* An answer to a client, and a bounded fault.
LEMMA ReplyTypes ==
  ASSUME TypeOK, NEW c, NEW what \in {"acked", "rejected"}, Reply(c, what)
  PROVE  cli' \in [Clients -> {"new", "open", "acked", "rejected", "gone"}]
<1> QED
  BY DEF TypeOK, Reply

LEMMA SpendTypes ==
  ASSUME TypeOK, NEW what \in {"crash", "fail", "defer", "lost"}, NEW max, Spend(what, max)
  PROVE  /\ used' \in UsedType /\ used'[what] = used[what] + 1
         /\ \A w \in {"crash", "fail", "defer", "lost"} \ {what} : used'[w] = used[w]
<1> QED
  BY DEF TypeOK, Spend, UsedType

\* client_thread up to the end of the document.
LEMMA ReceiveTypes ==
  ASSUME TInv, NEW c \in Clients,
         ReadHeader(c) \/ get_newjobno(c) \/ CreatData(c) \/ RecvPiece(c) \/ EndOfData(c)
  PROVE  TInv'
<1> USE PrintdAssumption DEF TInv, disk, env, RestPCs, ThreadType
<1>1. CASE ReadHeader(c)
  <2>1. Thr(c, "header", "jobno") /\ "jobno" \in ThreadPCs /\ UNCHANGED <<disk, main, scan, nextjob, queue, prn, reread, printer, env>>
    BY <1>1 DEF ReadHeader, ThreadPCs
  <2>2. ThreadInv'
    BY <2>1, MoveKeepsThreads DEF NumberPCs
  <2>3. main = "serve"
    BY <2>1, ThreadServes DEF Thr
  <2> QED
    BY <2>1, <2>2, <2>3, ThreadMoves, ServeKeepsScan DEF TypeOK, HandInv, Up
<1>2. CASE get_newjobno(c)
  <2>1. main = "serve" /\ Up
    BY <1>2, ThreadServes DEF get_newjobno
  <2>2. nextjob \in JobIds /\ nextjob' \in JobIds
    BY <1>2, NextInRange DEF get_newjobno, JobIds, TypeOK
  <2>3. /\ thr' = [thr EXCEPT ![c] = [pc |-> "creat", id |-> nextjob, n |-> 0]]
        /\ UNCHANGED <<disk, main, scan, queue, prn, reread, printer, env>>
    BY <1>2 DEF get_newjobno
  <2>4. /\ thr' \in ThreadType /\ thr'[c] = [pc |-> "creat", id |-> nextjob, n |-> 0]
        /\ \A d \in Clients : d # c => thr'[d] = thr[d]
    BY <2>2, <2>3 DEF TypeOK, ThreadPCs
  <2>5. ThreadInv'
    BY <2>1, <2>2, <2>3, <2>4 DEF ThreadInv, NumberPCs
  <2>6. TypeOK'
    BY SMTT(60), <2>2, <2>3, <2>4 DEF TypeOK, Up
  <2> QED
    BY <2>1, <2>3, <2>5, <2>6, ServeKeepsScan DEF HandInv
<1>3. CASE CreatData(c)
  <2>1. /\ Thr(c, "creat", "recv") /\ "recv" \in ThreadPCs
        /\ data' = [data EXCEPT ![thr[c].id] = [doc |-> c, n |-> 0]]
        /\ UNCHANGED <<jobfile, reqs, main, scan, nextjob, queue, prn, reread, printer, env>>
    BY <1>3 DEF CreatData, ThreadPCs
  <2>2. main = "serve" /\ thr[c].id \in JobIds /\ thr[c].n = 0
    BY <2>1, ThreadServes DEF Thr, ThreadInv, NumberPCs
  <2>3. [doc |-> c, n |-> 0] \in File
    BY DEF File
  <2>4. data' \in DataType
    BY <2>1, <2>3, FileTypes
  <2>5. TypeOK'
    BY <2>1, <2>4, ThreadMoves DEF TypeOK, Up, DataType
  <2>6. data'[thr[c].id] = [doc |-> c, n |-> 0] /\ \A j \in JobIds : j # thr[c].id => data'[j] = data[j]
    BY <2>1, <2>2 DEF TypeOK
  <2>7. \A d \in Clients, j \in JobIds :
          thr'[d].pc = "recv" /\ thr'[d].id = j /\ data'[j] # None /\ data'[j].doc = d => data'[j].n = thr'[d].n
    BY <2>1, <2>2, <2>6, ThreadMoves DEF ThreadInv
  <2>8. ThreadInv'
    BY <2>1, <2>2, <2>7, ThreadMoves DEF ThreadInv, NumberPCs
  <2> QED
    BY <2>1, <2>2, <2>5, <2>8, ServeKeepsScan DEF HandInv
<1>4. CASE RecvPiece(c)
  <2> DEFINE j == thr[c].id
  <2>1. /\ thr[c].pc = "recv" /\ thr[c].n < Size
        /\ thr' = [thr EXCEPT ![c].n = @ + 1]
        /\ data' = IF data[j] # None /\ data[j].doc = c THEN [data EXCEPT ![j].n = @ + 1] ELSE data
        /\ UNCHANGED <<jobfile, reqs, main, scan, nextjob, queue, prn, reread, printer, env>>
    BY <1>4 DEF RecvPiece
  <2>2. main = "serve" /\ j \in JobIds
    BY <2>1, ThreadServes DEF ThreadInv, NumberPCs
  <2>3. thr \in ThreadType
    BY DEF TypeOK
  <2>4. thr[c].n + 1 \in 0..Size
    BY <2>1, <2>3
  <2>5. /\ thr' \in ThreadType /\ thr'[c].pc = "recv" /\ thr'[c].id = j /\ thr'[c].n = thr[c].n + 1
        /\ \A d \in Clients : d # c => thr'[d] = thr[d]
    BY <2>1, <2>3, <2>4
  <2>6. CASE data[j] # None /\ data[j].doc = c
    <3>1. data[j] \in File /\ data[j].n = thr[c].n
      BY <2>1, <2>2, <2>6 DEF TypeOK, ThreadInv
    <3>2. /\ [data[j] EXCEPT !.n = @ + 1] \in File /\ [data[j] EXCEPT !.n = @ + 1].doc = c
          /\ [data[j] EXCEPT !.n = @ + 1].n = thr[c].n + 1
      <4>1. data[j] \in [doc : Clients, n : 0..Size] /\ data[j].n + 1 \in 0..Size
        BY <2>4, <3>1 DEF File
      <4> QED
        BY <2>6, <3>1, <4>1 DEF File
    <3>3. data' = [data EXCEPT ![j] = [data[j] EXCEPT !.n = @ + 1]]
      BY <2>1, <2>6
    <3>4. data' \in DataType
      BY <3>2, <3>3, FileTypes
    <3>5. data'[j].doc = c /\ data'[j].n = thr[c].n + 1 /\ \A i \in JobIds : i # j => data'[i] = data[i]
      BY SMTT(60), <2>2, <3>2, <3>3 DEF TypeOK
    <3>6. ThreadInv'
      BY <2>1, <2>2, <2>5, <3>5 DEF ThreadInv, NumberPCs
    <3>7. TypeOK'
      BY <2>1, <2>5, <3>4 DEF TypeOK, Up, DataType
    <3> QED
      BY <2>1, <2>2, <3>6, <3>7, ServeKeepsScan DEF HandInv
  <2>7. CASE ~(data[j] # None /\ data[j].doc = c)
    <3>1. data' = data
      BY <2>1, <2>7
    <3>2. ThreadInv'
      BY <2>1, <2>2, <2>5, <2>7, <3>1 DEF ThreadInv, NumberPCs
    <3>3. TypeOK'
      BY <2>1, <2>5, <3>1 DEF TypeOK, Up
    <3> QED
      BY <2>1, <2>2, <3>2, <3>3, ServeKeepsScan DEF HandInv
  <2> QED
    BY <2>6, <2>7
<1>5. CASE EndOfData(c)
  <2>1. Thr(c, "recv", "creatreq") /\ "creatreq" \in ThreadPCs /\ UNCHANGED <<disk, main, scan, nextjob, queue, prn, reread, printer, env>>
    BY <1>5 DEF EndOfData, ThreadPCs
  <2>2. ThreadInv'
    BY <2>1, MoveKeepsThreads DEF NumberPCs
  <2>3. main = "serve"
    BY <2>1, ThreadServes DEF Thr
  <2> QED
    BY <2>1, <2>2, <2>3, ThreadMoves, ServeKeepsScan DEF TypeOK, HandInv, Up
<1> QED
  BY <1>1, <1>2, <1>3, <1>4, <1>5

CliType == [Clients -> {"new", "open", "acked", "rejected", "gone"}]

\* What the other steps of client_thread have in common.
LEMMA ThreadStepTypes ==
  ASSUME TInv, NEW c \in Clients, NEW l, NEW m \in ThreadPCs, Thr(c, l, m),
         l \notin RestPCs, m \notin {"creat", "recv"}, m \in NumberPCs => l \in NumberPCs,
         data' \in DataType, \A j \in JobIds : data'[j] \in {data[j], None},
         reqs' \in ReqsType, cli' \in CliType, used' \in UsedType,
         UNCHANGED <<jobfile, main, scan, nextjob, queue, prn, reread, printer, conf, printed, hupped>>
  PROVE  TInv'
<1>1. main = "serve" /\ Up
  BY ThreadServes DEF Thr
<1>2. ThreadInv'
  BY MoveKeepsThreads DEF TInv
<1>3. TypeOK'
  BY ThreadMoves DEF TInv, TypeOK, Up, DataType, ReqsType, CliType, UsedType, ThreadType
<1>4. HandInv' /\ ScanInv'
  BY <1>1, ServeKeepsScan DEF TInv, HandInv
<1> QED
  BY <1>2, <1>3, <1>4 DEF TInv

\* client_thread from the control file on, and its error paths.
LEMMA FinishTypes ==
  ASSUME TInv, NEW c \in Clients,
         CreatReq(c) \/ WriteReq(c) \/ UnlinkReqOf(c) \/ UnlinkDataOf(c) \/ Respond(c) \/ QueueJob(c)
  PROVE  TInv'
<1> USE PrintdAssumption DEF disk, env, RestPCs, NumberPCs, ThreadPCs
<1>1. TypeOK /\ data \in DataType /\ reqs \in ReqsType /\ cli \in CliType /\ used \in UsedType
  BY DEF TInv, TypeOK, DataType, ReqsType, CliType, UsedType
<1>2. CASE CreatReq(c)
  BY <1>1, <1>2, FileTypes, ThreadStepTypes DEF CreatReq
<1>3. CASE WriteReq(c)
  BY <1>1, <1>3, FileTypes, ThreadStepTypes DEF WriteReq
<1>4. CASE UnlinkReqOf(c)
  BY <1>1, <1>4, FileTypes, ThreadStepTypes DEF UnlinkReqOf
<1>5. CASE UnlinkDataOf(c)
  <2>1. \A j \in JobIds : data'[j] \in {data[j], None}
    BY <1>1, <1>5 DEF UnlinkDataOf, DataType
  <2> QED
    BY <1>1, <1>5, <2>1, FileTypes, ThreadStepTypes DEF UnlinkDataOf
<1>6. CASE Respond(c)
  <2>1. cli' \in CliType
    BY <1>1, <1>6, ReplyTypes DEF Respond, CliType
  <2> QED
    BY <1>1, <1>6, <2>1, ThreadStepTypes DEF Respond
<1>7. CASE QueueJob(c)
  <2>1. /\ Thr(c, "addjob", "done") /\ add_job([id |-> thr[c].id, doc |-> c])
        /\ UNCHANGED <<disk, main, scan, nextjob, reread, printer, env>>
    BY <1>7 DEF QueueJob
  <2>2. main = "serve" /\ thr[c].id \in JobIds
    BY <2>1, ThreadServes DEF Thr, TInv, ThreadInv
  <2>3. [id |-> thr[c].id, doc |-> c] \in Job
    BY <2>2 DEF Job
  <2>4. queue' \in Seq(Job) /\ prn' \in PrnType /\ prn'.job = prn.job /\ prn'.buf = prn.buf
        /\ prn'.pc = IF prn.pc = "wait" THEN "get" ELSE prn.pc
    BY <1>1, <2>1, <2>3, AddJobTypes
  <2>5. TypeOK'
    BY <1>1, <2>1, <2>4, ThreadMoves DEF TypeOK, Up, PrnType, ThreadType
  <2>6. ThreadInv'
    BY <2>1, MoveKeepsThreads DEF TInv
  <2>7. HandInv'
    BY <2>4 DEF TInv, HandInv, HandPCs
  <2> QED
    BY <2>1, <2>2, <2>5, <2>6, <2>7, ServeKeepsScan DEF TInv
<1> QED
  BY <1>2, <1>3, <1>4, <1>5, <1>6, <1>7

\* The failures of client_thread.
LEMMA RefuseTypes ==
  ASSUME TInv, NEW c \in Clients, ClientThreadFails(c)
  PROVE  TInv'
<1> USE PrintdAssumption DEF disk, RestPCs, NumberPCs, ThreadPCs
<1>1. TypeOK /\ data \in DataType /\ reqs \in ReqsType /\ used \in UsedType
  BY DEF TInv, TypeOK, DataType, ReqsType, UsedType
<1>2. used' \in UsedType
  BY <1>1, SpendTypes DEF ClientThreadFails, NoHeader, CreatDataFails, WritePieceFails, CreatReqFails, WriteReqFails
<1>3. PICK l \in ThreadPCs, m \in ThreadPCs :
        /\ Refuse(c, l, m)
        /\ l \notin RestPCs /\ m \notin {"creat", "recv"} /\ (m \in NumberPCs => l \in NumberPCs)
  BY DEF ClientThreadFails, NoHeader, CreatDataFails, WritePieceFails, CreatReqFails, WriteReqFails
<1>4. cli' \in CliType
  BY <1>1, <1>3, ReplyTypes DEF Refuse, CliType
<1> QED
  BY <1>1, <1>2, <1>3, <1>4, ThreadStepTypes DEF Refuse

\* The printer thread goes from l to m.
LEMMA PrinterMoves ==
  ASSUME TypeOK, NEW l, NEW m \in PrinterPCs, Prn(l, m)
  PROVE  /\ Up /\ prn.pc = l /\ prn' \in PrnType
         /\ prn'.pc = m /\ prn'.job = prn.job /\ prn'.buf = prn.buf
<1> QED
  BY DEF TypeOK, Prn, PrnType

\* printer_thread, up to the exchange with the printer.
LEMMA PrinterTypes ==
  ASSUME TInv, TakeJob \/ Wait \/ update_jobno \/ CheckReread \/ Reload \/ Awake
  PROVE  TInv'
<1> USE PrintdAssumption DEF disk, env, PrinterPCs, HandPCs
<1>1. TypeOK
  BY DEF TInv
<1>2. CASE TakeJob
  <2>1. /\ Up /\ prn.pc = "get" /\ queue # <<>> /\ prn' = [pc |-> "save", job |-> Head(queue), buf |-> None]
        /\ queue' = Tail(queue)
        /\ UNCHANGED <<disk, main, scan, nextjob, thr, reread, printer, env>>
    BY <1>2 DEF TakeJob
  <2>2. /\ Head(queue) \in Job /\ 1 \in DOMAIN queue /\ Head(queue) = queue[1]
        /\ queue' \in Seq(Job) /\ \A i \in DOMAIN queue' : i + 1 \in DOMAIN queue /\ queue'[i] = queue[i + 1]
    BY <1>1, <2>1, TailJob DEF TypeOK
  <2>3. TypeOK'
    <3>1. prn' \in PrnType
      BY <2>1, <2>2 DEF PrnType
    <3> QED
      BY <1>1, <2>1, <2>2, <3>1 DEF TypeOK, Up, PrnType
  <2>4. ThreadInv' /\ HandInv'
    BY <2>1, <2>2 DEF TInv, ThreadInv, HandInv
  <2>5. ScanInv'
    BY <2>1, <2>2 DEF TInv, ScanInv
  <2> QED
    BY <2>3, <2>4, <2>5 DEF TInv
<1>3. CASE Wait
  BY SMTT(60), <1>1, <1>3, PrinterMoves DEF Wait, TInv, TypeOK, ThreadInv, HandInv, ScanInv, Up, PrnType
<1>4. CASE update_jobno
  <2>1. /\ Prn("save", "config") /\ "config" \in PrinterPCs
        /\ UNCHANGED <<data, reqs, main, scan, nextjob, queue, thr, reread, printer, env>>
    BY <1>4 DEF update_jobno
  <2>2. TypeOK'
    BY SMTT(60), <1>1, <1>4, <2>1, TextWritten, PrinterMoves DEF TypeOK, Up, PrnType
  <2> QED
    BY SMTT(60), <1>1, <2>1, <2>2, PrinterMoves DEF TInv, ThreadInv, HandInv, ScanInv, PrnType
<1>5. CASE CheckReread
  BY ZenonT(60), <1>1, <1>5, PrinterMoves DEF CheckReread, TInv, TypeOK, ThreadInv, HandInv, ScanInv, Up, PrnType
<1>6. CASE Reload
  BY SMTT(60), <1>1, <1>6, PrinterMoves DEF Reload, TInv, TypeOK, ThreadInv, HandInv, ScanInv, Up, PrnType
<1>7. CASE Awake
  BY SMTT(60), <1>1, <1>7, PrinterMoves DEF Awake, TInv, TypeOK, ThreadInv, HandInv, ScanInv, Up, PrnType
<1> QED
  BY <1>2, <1>3, <1>4, <1>5, <1>6, <1>7

\* The exchange with the printer.
LEMMA ExchangeTypes ==
  ASSUME TInv, OpenData \/ Send \/ PrinterFails \/ UnlinkData \/ UnlinkReq
  PROVE  TInv'
<1> USE PrintdAssumption DEF disk, env, PrinterPCs, HandPCs
<1>1. TypeOK
  BY DEF TInv
<1>2. CASE OpenData
  <2>1. /\ Up /\ prn.pc = "open"
        /\ prn' = IF data[prn.job.id] = None THEN Idle ELSE [prn EXCEPT !.pc = "connect", !.buf = data[prn.job.id]]
        /\ UNCHANGED <<disk, main, scan, nextjob, queue, thr, reread, printer, env>>
    BY <1>2 DEF OpenData
  <2>2. prn.job \in Job /\ prn.job.id \in JobIds /\ data[prn.job.id] \in File \cup {None}
    BY <1>1, <2>1 DEF TInv, HandInv, Job, TypeOK
  <2>3. CASE data[prn.job.id] = None
    <3>1. prn' = [pc |-> "get", job |-> None, buf |-> None] /\ prn' \in PrnType
      BY <2>1, <2>3 DEF Idle, PrnType
    <3>2. TypeOK'
      BY <1>1, <2>1, <3>1 DEF TypeOK, Up, PrnType
    <3>3. ThreadInv'
      BY <2>1 DEF TInv, ThreadInv
    <3>5. prn'.pc = "get" /\ prn'.job = None
      BY <3>1
    <3>6. HandInv'
      BY <3>5 DEF HandInv
    <3>4. ScanInv'
      BY <2>1, <3>1 DEF TInv, ScanInv
    <3> QED
      BY <3>2, <3>3, <3>4, <3>6 DEF TInv
  <2>4. CASE data[prn.job.id] # None
    <3>1. prn' \in PrnType /\ prn'.pc = "connect" /\ prn'.job = prn.job /\ prn'.buf \in File
      BY <1>1, <2>1, <2>2, <2>4 DEF TypeOK, PrnType
    <3>2. TypeOK'
      BY <1>1, <2>1, <3>1 DEF TypeOK, Up, PrnType
    <3> QED
      BY <2>1, <2>2, <3>1, <3>2 DEF TInv, ThreadInv, HandInv, ScanInv
  <2> QED
    BY <2>3, <2>4
<1>3. CASE Send
  <2>1. printed' \in [Clients -> Nat]
    <3>1. printed \in [Clients -> Nat] /\ prn.pc = "connect"
      BY <1>1, <1>3 DEF TypeOK, Send, Prn
    <3>2. \A d \in Clients : [printed EXCEPT ![d] = @ + 1] \in [Clients -> Nat]
      BY <3>1
    <3>3. prn.job.id \in JobIds /\ prn.buf \in File
      BY <3>1 DEF TInv, HandInv, Job
    <3>4. (IF data[prn.job.id] = None THEN prn.buf ELSE data[prn.job.id]).doc \in Clients
      BY <1>1, <3>3 DEF TypeOK, File
    <3> QED
      BY <1>3, <3>2, <3>4 DEF Send
  <2>2. TypeOK'
    BY <1>1, <1>3, <2>1, PrinterMoves DEF Send, TypeOK, Up, PrnType
  <2> QED
    BY <1>1, <1>3, <2>2, PrinterMoves DEF Send, TInv, ThreadInv, HandInv, ScanInv
<1>4. CASE PrinterFails
  <2>1. used' \in UsedType
    BY <1>1, <1>4, SpendTypes DEF PrinterFails, SendFails, StatusLost
  <2>2. /\ Up /\ prn.pc \in {"connect", "status"} /\ queue' = <<prn.job>> \o queue
        /\ prn' = [pc |-> "sleep", job |-> None, buf |-> None]
        /\ UNCHANGED <<disk, main, scan, nextjob, thr, reread, printer, conf, cli, printed, hupped>>
    BY <1>4 DEF PrinterFails, SendFails, StatusLost, replace_job, Idle
  <2>3. prn.job \in Job /\ queue \in Seq(Job) /\ prn.job # None
    BY <1>1, <2>2 DEF TInv, HandInv, TypeOK
  <2>4. /\ queue' \in Seq(Job)
        /\ \A i \in DOMAIN queue' : queue'[i] = prn.job \/ (i - 1 \in DOMAIN queue /\ queue'[i] = queue[i - 1])
    BY <2>2, <2>3, ConsJob
  <2>5. TypeOK'
    BY <1>1, <2>1, <2>2, <2>4 DEF TypeOK, Up, UsedType
  <2>6. ScanInv'
    BY <2>2, <2>3, <2>4 DEF TInv, ScanInv
  <2> QED
    BY <2>2, <2>5, <2>6 DEF TInv, ThreadInv, HandInv
<1>5. CASE UnlinkData
  <2>1. data' = [data EXCEPT ![prn.job.id] = None] /\ data' \in DataType
    BY <1>1, <1>5, FileTypes DEF UnlinkData
  <2>2. \A j \in JobIds : data'[j] \in {data[j], None}
    BY <1>1, <2>1 DEF TypeOK
  <2>3. TypeOK'
    BY <1>1, <1>5, <2>1, PrinterMoves DEF UnlinkData, TypeOK, Up, PrnType, DataType
  <2>4. ThreadInv'
    BY <1>5, <2>2 DEF UnlinkData, TInv, ThreadInv
  <2> QED
    BY <1>1, <1>5, <2>3, <2>4, PrinterMoves DEF UnlinkData, TInv, HandInv, ScanInv
<1>6. CASE UnlinkReq
  <2>1. /\ prn.pc = "unreq" /\ reqs' = [reqs EXCEPT ![prn.job.id] = None] /\ reqs' \in ReqsType
        /\ prn' = [pc |-> "get", job |-> None, buf |-> None]
        /\ UNCHANGED <<jobfile, data, main, scan, nextjob, queue, thr, reread, printer, env>>
    BY <1>1, <1>6, FileTypes DEF UnlinkReq, Idle
  <2>2. prn.job \in Job /\ prn.job # None /\ \A j \in scan : reqs'[j] = reqs[j]
    BY <1>1, <2>1 DEF TInv, HandInv, ScanInv, TypeOK
  <2>3. TypeOK'
    BY <1>1, <2>1 DEF TypeOK, Up, ReqsType
  <2> QED
    BY <2>1, <2>2, <2>3 DEF TInv, ThreadInv, HandInv, ScanInv
<1> QED
  BY <1>2, <1>3, <1>4, <1>5, <1>6

\* Signals, stops and the outside world.
LEMMA OutsideTypes ==
  ASSUME TInv, Sighup \/ Stop \/ EditConf \/ (\E c \in Clients : Interrupt(c)) \/ UNCHANGED vars
  PROVE  TInv'
<1> USE PrintdAssumption DEF disk, mem
<1>1. TypeOK
  BY DEF TInv
<1>2. CASE Sighup
  <2>1. reread' \in BOOLEAN
    BY <1>2, Zenon DEF Sighup
  <2> QED
    BY <1>1, <1>2, <2>1 DEF Sighup, TInv, TypeOK, Up, ThreadInv, HandInv, ScanInv
<1>3. CASE Stop
  <2>1. used' \in UsedType
    BY <1>1, <1>3, SpendTypes DEF Stop
  <2>2. /\ thr' = [c \in Clients |-> [thr[c] EXCEPT !.pc = IF @ = "none" THEN @ ELSE "done"]]
        /\ thr \in ThreadType
    BY <1>1, <1>3 DEF Stop, TypeOK, ThreadType
  <2>3. thr' \in ThreadType /\ \A c \in Clients : thr'[c].pc \in RestPCs
    BY <2>2 DEF ThreadType, RestPCs, ThreadPCs
  <2>4. cli' \in CliType
    BY <1>1, <1>3 DEF Stop, TypeOK, CliType
  <2>5. /\ main' = "down" /\ scan' = {} /\ nextjob' = 0 /\ queue' = <<>>
        /\ prn' = [pc |-> "get", job |-> None, buf |-> None]
        /\ UNCHANGED <<disk, printer, conf, printed, hupped>>
    BY <1>3 DEF Stop, Idle
  <2>6. reread' \in BOOLEAN
    BY <1>3, Zenon DEF Stop
  <2>7. queue' \in Seq(Job) /\ prn' \in PrnType
    BY <2>5, EmptySeq DEF PrnType, PrinterPCs
  <2>8. TypeOK'
    <3>1. jobfile' \in Text /\ nextjob' \in JobIds /\ ~Up'
      BY <1>1, <2>5, PrintdAssumption DEF TypeOK, Up, JobIds
    <3> QED
    BY <1>1, <3>1, <2>1, <2>3, <2>4, <2>5, <2>6, <2>7 DEF TypeOK, Up, UsedType, ThreadType, CliType, PrnType
  <2> QED
    BY <2>3, <2>5, <2>8 DEF TInv, ThreadInv, HandInv, ScanInv, RestPCs, NumberPCs, HandPCs
<1>4. CASE EditConf
  BY <1>1, <1>4 DEF EditConf, TInv, TypeOK, Up, ThreadInv, HandInv, ScanInv
<1>5. ASSUME NEW c \in Clients, Interrupt(c) PROVE TInv'
  BY <1>1, <1>5 DEF Interrupt, TInv, TypeOK, Up, ThreadInv, HandInv, ScanInv
<1>6. CASE UNCHANGED vars
  BY <1>1, <1>6 DEF vars, env, TInv, TypeOK, Up, ThreadInv, HandInv, ScanInv
<1> QED
  BY <1>2, <1>3, <1>4, <1>5, <1>6

\* Every step keeps TInv.
LEMMA TInvNext == TInv /\ [Next]_vars => TInv'
<1> SUFFICES ASSUME TInv, [Next]_vars PROVE TInv'
  OBVIOUS
<1>1. CASE Main
  BY <1>1, StartTypes, ScanTypes, ServeTypes DEF Main
<1>2. CASE PrinterThread \/ PrinterFails
  BY <1>2, PrinterTypes, ExchangeTypes DEF PrinterThread
<1>3. CASE Sighup \/ Stop \/ EditConf \/ UNCHANGED vars
  BY <1>3, OutsideTypes
<1>4. ASSUME NEW c \in Clients, Accept(c) \/ ClientThread(c) \/ ClientThreadFails(c) \/ Interrupt(c)
      PROVE  TInv'
  BY <1>4, ServeTypes, ReceiveTypes, FinishTypes, RefuseTypes, OutsideTypes DEF ClientThread
<1> QED
  BY <1>1, <1>2, <1>3, <1>4 DEF Next

(* Every variable of printd keeps its type, whatever number earlier daemons left
   in the job file and however the file's old digits run on behind the new ones:
   a job number is an int32_t (it may be negative), a data file never grows
   beyond its document, the job list holds jobs, and the printer thread never
   opens or sends without a job in hand. *)
THEOREM SpoolerTypeCorrect == Spec => []TypeOK
<1>1. TInv => TypeOK
  BY DEF TInv
<1> QED
  BY <1>1, TInvInit, TInvNext, PTL DEF Spec
-----------------------------------------------------------------------------
(* SIGHUP. *)

\* A step that leaves the version of the printer's address and the flag alone,
\* and does not take the printer thread away from "reload".
LEMMA RereadFrame ==
  ASSUME RereadNotLost, UNCHANGED <<printer, hupped, reread>>, Up' => Up,
         prn.pc = "reload" /\ Up' => prn'.pc = "reload"
  PROVE  RereadNotLost'
<1> QED
  BY DEF RereadNotLost

(* A SIGHUP is never lost, for any number of clients, jobs, stops and edits: as
   long as the printer's address is older than the configuration at the last
   SIGHUP, the flag is set or the printer thread is in init_printer. *)
THEOREM RereadNeverLost == Spec => []RereadNotLost
<1>1. Init => RereadNotLost
  BY DEF Init, RereadNotLost, Up
<1>2. TInv /\ RereadNotLost /\ [Next]_vars => RereadNotLost'
  <2> SUFFICES ASSUME TInv, RereadNotLost, [Next]_vars PROVE RereadNotLost'
    OBVIOUS
  <2> USE DEF disk, mem, env
  <2>1. TypeOK /\ hupped <= conf /\ conf \in Nat /\ hupped \in Nat /\ printer \in Nat
    BY DEF TInv, TypeOK
  <2>2. CASE Start
    BY <2>1, <2>2 DEF Start, RereadNotLost
  <2>3. CASE ScanFile
    <3>1. prn.pc = "reload" => prn' = prn
      BY <2>3 DEF ScanFile, add_job
    <3> QED
      BY <2>3, <3>1, RereadFrame DEF ScanFile, Up
  <2>4. CASE ScanDone
    BY <2>4, RereadFrame DEF ScanDone, Up
  <2>5. CASE CheckReread
    <3>1. "open" \in PrinterPCs /\ "reload" \in PrinterPCs
      BY DEF PrinterPCs
    <3>2. prn.pc = "config" /\ prn'.pc = IF reread THEN "reload" ELSE "open"
      BY <2>1, <2>5, <3>1, PrinterMoves DEF CheckReread
    <3> QED
      BY <2>5, <3>2 DEF CheckReread, RereadNotLost, Up
  <2>6. CASE Reload
    BY <2>1, <2>6 DEF Reload, RereadNotLost
  <2>7. CASE TakeJob \/ Wait \/ update_jobno \/ OpenData \/ Send \/ Awake \/ UnlinkData \/ UnlinkReq
    <3>1. prn.pc # "reload" /\ UNCHANGED <<main, printer, hupped, reread>>
      BY <2>7 DEF TakeJob, Wait, update_jobno, OpenData, Send, Awake, UnlinkData, UnlinkReq, Prn
    <3> QED
      BY <3>1, RereadFrame DEF Up
  <2>8. CASE PrinterFails
    BY <2>8, RereadFrame DEF PrinterFails, SendFails, StatusLost, Up
  <2>9. CASE Sighup
    BY <2>9 DEF Sighup, RereadNotLost
  <2>10. CASE Stop
    BY <2>10 DEF Stop, RereadNotLost, Up
  <2>11. CASE EditConf \/ UNCHANGED vars
    BY <2>11, RereadFrame DEF EditConf, vars, Up
  <2>12. ASSUME NEW c \in Clients, Accept(c) \/ ClientThread(c) \/ ClientThreadFails(c) \/ Interrupt(c)
         PROVE  RereadNotLost'
    <3>1. UNCHANGED <<main, printer, hupped, reread>> /\ (prn.pc = "reload" => prn' = prn)
      BY <2>12 DEF Accept, ClientThread, ReadHeader, get_newjobno, CreatData, RecvPiece, EndOfData, CreatReq,
         WriteReq, UnlinkReqOf, UnlinkDataOf, Respond, QueueJob, add_job, ClientThreadFails, NoHeader,
         CreatDataFails, WritePieceFails, CreatReqFails, WriteReqFails, Refuse, Interrupt
    <3> QED
      BY <3>1, RereadFrame DEF Up
  <2> QED
    BY <2>2, <2>3, <2>4, <2>5, <2>6, <2>7, <2>8, <2>9, <2>10, <2>11, <2>12
       DEF Next, Main, PrinterThread
<1> QED
  BY <1>1, <1>2, TInvInit, TInvNext, PTL DEF Spec
-----------------------------------------------------------------------------
(* Refused clients. *)

\* Until the first stop the files of c are named by the number of its thread,
\* and exist only where the code has them: RefuseInv, client by client.
DataOf(c) == \A j \in JobIds : data[j] # None /\ data[j].doc = c =>
               thr[c].id = j /\ thr[c].pc \in (NumberPCs \ {"creat"}) \cup {"done"}
ReqsOf(c) == \A j \in JobIds : reqs[j] = c => thr[c].id = j /\ thr[c].pc \in {"respond", "addjob", "done"}
RefusedOf(c) ==
  cli[c] = "rejected" =>
    /\ thr[c].pc \in {"unreq", "undata", "done"}
    /\ thr[c].pc = "done" => \A j \in JobIds : (data[j] # None => data[j].doc # c) /\ reqs[j] # c
NewOf(c) == cli[c] = "new" => thr[c] = NoThread
RefuseOf(c) == DataOf(c) /\ ReqsOf(c) /\ RefusedOf(c) /\ NewOf(c)
RefuseInv == used.crash = 0 => \A c \in Clients : RefuseOf(c)

\* No file of c appears, its thread is where it was, and its client is not
\* newly refused.
RefuseSame(c) ==
  /\ thr'[c] = thr[c] /\ (cli'[c] \in {"new", "rejected"} => cli'[c] = cli[c])
  /\ \A j \in JobIds : data'[j] # None /\ data'[j].doc = c => data[j] # None /\ data[j].doc = c
  /\ \A j \in JobIds : reqs'[j] = c => reqs[j] = c

LEMMA RefuseFrame ==
  ASSUME NEW c, RefuseOf(c), RefuseSame(c)
  PROVE  RefuseOf(c)'
<1> QED
  BY DEF RefuseOf, RefuseSame, DataOf, ReqsOf, RefusedOf, NewOf

\* The thread of c reads the header, takes a number, creates the data file.
LEMMA RefuseBegin ==
  ASSUME TInv, NEW c \in Clients, RefuseOf(c),
         Accept(c) \/ ReadHeader(c) \/ get_newjobno(c) \/ CreatData(c) \/ RecvPiece(c) \/ EndOfData(c)
  PROVE  RefuseOf(c)'
<1> USE PrintdAssumption DEF RefuseOf, disk, env
<1>1. TypeOK
  BY DEF TInv
<1>2. CASE Accept(c)
  <2>1. thr'[c].pc = "header" /\ cli'[c] = "open" /\ UNCHANGED <<data, reqs>> /\ thr[c].pc = "none"
    BY <1>1, <1>2 DEF Accept, TypeOK, NewOf, NoThread
  <2> QED
    BY <2>1 DEF DataOf, ReqsOf, RefusedOf, NewOf, NumberPCs
<1>3. CASE ReadHeader(c)
  <2>1. thr[c].pc = "header" /\ thr'[c].pc = "jobno" /\ UNCHANGED <<data, reqs, cli>>
    BY <1>1, <1>3, ThreadMoves DEF ReadHeader, ThreadPCs
  <2> QED
    BY <2>1 DEF DataOf, ReqsOf, RefusedOf, NewOf, NumberPCs, NoThread
<1>4. CASE get_newjobno(c)
  <2>1. thr[c].pc = "jobno" /\ thr'[c].pc = "creat" /\ UNCHANGED <<data, reqs, cli>>
    BY <1>1, <1>4 DEF get_newjobno, TypeOK
  <2> QED
    BY <2>1 DEF DataOf, ReqsOf, RefusedOf, NewOf, NumberPCs, NoThread
<1>5. CASE CreatData(c)
  <2>1. thr[c].pc = "creat" /\ thr'[c].pc = "recv" /\ thr'[c].id = thr[c].id /\ UNCHANGED <<reqs, cli>>
    BY <1>1, <1>5, ThreadMoves DEF CreatData, ThreadPCs
  <2>2. \A j \in JobIds : j # thr[c].id => data'[j] = data[j]
    BY <1>1, <1>5 DEF CreatData, TypeOK
  <2> QED
    BY <2>1, <2>2 DEF DataOf, ReqsOf, RefusedOf, NewOf, NumberPCs, NoThread
<1>6. CASE RecvPiece(c)
  <2>1. /\ thr[c].pc = "recv" /\ thr'[c].pc = "recv" /\ thr'[c].id = thr[c].id /\ UNCHANGED <<reqs, cli>>
        /\ \A j \in JobIds : j # thr[c].id => data'[j] = data[j]
    BY <1>1, <1>6 DEF RecvPiece, TypeOK
  <2> QED
    BY <2>1 DEF DataOf, ReqsOf, RefusedOf, NewOf, NumberPCs, NoThread
<1>7. CASE EndOfData(c)
  <2>1. thr[c].pc = "recv" /\ thr'[c].pc = "creatreq" /\ thr'[c].id = thr[c].id /\ UNCHANGED <<data, reqs, cli>>
    BY <1>1, <1>7, ThreadMoves DEF EndOfData, ThreadPCs
  <2> QED
    BY <2>1 DEF DataOf, ReqsOf, RefusedOf, NewOf, NumberPCs, NoThread
<1> QED
  BY <1>2, <1>3, <1>4, <1>5, <1>6, <1>7

\* It writes the control file, answers and queues the job.
LEMMA RefuseFinish ==
  ASSUME TInv, NEW c \in Clients, RefuseOf(c),
         CreatReq(c) \/ WriteReq(c) \/ Respond(c) \/ QueueJob(c)
  PROVE  RefuseOf(c)'
<1> USE PrintdAssumption DEF RefuseOf, disk, env
<1>1. TypeOK
  BY DEF TInv
<1>2. CASE CreatReq(c)
  <2>1. thr[c].pc = "creatreq" /\ thr'[c].pc = "writereq" /\ thr'[c].id = thr[c].id /\ UNCHANGED <<data, cli>>
    BY <1>1, <1>2, ThreadMoves DEF CreatReq, ThreadPCs
  <2>2. \A j \in JobIds : reqs'[j] = reqs[j] \/ reqs'[j] = "empty"
    BY <1>1, <1>2 DEF CreatReq, TypeOK
  <2> QED
    BY <2>1, <2>2 DEF DataOf, ReqsOf, RefusedOf, NewOf, NumberPCs, NoThread
<1>3. CASE WriteReq(c)
  <2>1. thr[c].pc = "writereq" /\ thr'[c].pc = "respond" /\ thr'[c].id = thr[c].id /\ UNCHANGED <<data, cli>>
    BY <1>1, <1>3, ThreadMoves DEF WriteReq, ThreadPCs
  <2>2. \A j \in JobIds : j # thr[c].id => reqs'[j] = reqs[j]
    BY <1>1, <1>3 DEF WriteReq, TypeOK
  <2> QED
    BY <2>1, <2>2 DEF DataOf, ReqsOf, RefusedOf, NewOf, NumberPCs, NoThread
<1>4. CASE Respond(c)
  <2>1. /\ thr[c].pc = "respond" /\ thr'[c].pc = "addjob" /\ thr'[c].id = thr[c].id /\ UNCHANGED <<data, reqs>>
        /\ cli'[c] \in {cli[c], "acked"}
    BY SMTT(60), <1>1, <1>4, ThreadMoves DEF Respond, Reply, ThreadPCs, TypeOK
  <2> QED
    BY <2>1 DEF DataOf, ReqsOf, RefusedOf, NewOf, NumberPCs, NoThread
<1>5. CASE QueueJob(c)
  <2>1. /\ thr[c].pc = "addjob" /\ thr'[c].pc = "done" /\ thr'[c].id = thr[c].id /\ UNCHANGED <<data, reqs, cli>>
    BY <1>1, <1>5, ThreadMoves DEF QueueJob, ThreadPCs
  <2> QED
    BY <2>1 DEF DataOf, ReqsOf, RefusedOf, NewOf, NumberPCs, NoThread
<1> QED
  BY <1>2, <1>3, <1>4, <1>5

\* It refuses the client and removes what it has created.
LEMMA RefuseUndo ==
  ASSUME TInv, NEW c \in Clients, RefuseOf(c),
         UnlinkReqOf(c) \/ UnlinkDataOf(c) \/ ClientThreadFails(c)
  PROVE  RefuseOf(c)'
<1> USE PrintdAssumption DEF RefuseOf, disk, env
<1>1. TypeOK
  BY DEF TInv
<1>2. CASE UnlinkReqOf(c)
  <2>1. thr[c].pc = "unreq" /\ thr'[c].pc = "undata" /\ thr'[c].id = thr[c].id /\ UNCHANGED <<data, cli>>
    BY <1>1, <1>2, ThreadMoves DEF UnlinkReqOf, ThreadPCs
  <2>2. \A j \in JobIds : reqs'[j] = reqs[j] \/ reqs'[j] = None
    BY <1>1, <1>2 DEF UnlinkReqOf, TypeOK
  <2> QED
    BY <2>1, <2>2 DEF DataOf, ReqsOf, RefusedOf, NewOf, NumberPCs, NoThread
<1>3. CASE UnlinkDataOf(c)
  <2>1. thr[c].pc = "undata" /\ thr'[c].pc = "done" /\ thr'[c].id = thr[c].id /\ UNCHANGED <<reqs, cli>>
    BY <1>1, <1>3, ThreadMoves DEF UnlinkDataOf, ThreadPCs
  <2>2. \A j \in JobIds : data'[j] = IF j = thr[c].id THEN None ELSE data[j]
    BY <1>1, <1>3 DEF UnlinkDataOf, TypeOK
  <2> QED
    BY <2>1, <2>2 DEF DataOf, ReqsOf, RefusedOf, NewOf, NumberPCs, NoThread
<1>4. CASE ClientThreadFails(c)
  <2>1. PICK l \in ThreadPCs, m \in ThreadPCs :
          /\ Refuse(c, l, m)
          /\ <<l, m>> \in {<<"header", "done">>, <<"creat", "done">>, <<"recv", "undata">>,
                           <<"creatreq", "undata">>, <<"writereq", "unreq">>}
    BY <1>4 DEF ClientThreadFails, NoHeader, CreatDataFails, WritePieceFails, CreatReqFails, WriteReqFails, ThreadPCs
  <2>2. /\ thr[c].pc = l /\ thr'[c].pc = m /\ thr'[c].id = thr[c].id /\ UNCHANGED <<data, reqs>>
        /\ cli'[c] \in {cli[c], "rejected"}
    BY SMTT(60), <1>1, <2>1, ThreadMoves DEF Refuse, Reply, TypeOK
  <2> QED
    BY <2>1, <2>2 DEF DataOf, ReqsOf, RefusedOf, NewOf, NumberPCs, NoThread
<1> QED
  BY <1>2, <1>3, <1>4

\* A step of the thread of c leaves the other clients' files alone.
LEMMA RefuseOther ==
  ASSUME TInv, NEW c \in Clients, NEW d \in Clients, d # c,
         Accept(c) \/ ClientThread(c) \/ ClientThreadFails(c) \/ Interrupt(c)
  PROVE  RefuseSame(d)
<1> USE PrintdAssumption DEF disk, env, mem
<1>1. TypeOK
  BY DEF TInv
<1>2. thr'[d] = thr[d]
  BY <1>1 DEF TypeOK, Accept, ClientThread, ReadHeader, get_newjobno, CreatData, RecvPiece, EndOfData, CreatReq,
     WriteReq, UnlinkReqOf, UnlinkDataOf, Respond, QueueJob, ClientThreadFails, NoHeader, Interrupt,
     CreatDataFails, WritePieceFails, CreatReqFails, WriteReqFails, Refuse, Thr
<1>3. cli'[d] = cli[d]
  BY <1>1 DEF TypeOK, Accept, ClientThread, ReadHeader, get_newjobno, CreatData, RecvPiece, EndOfData, CreatReq,
     WriteReq, UnlinkReqOf, UnlinkDataOf, Respond, QueueJob, ClientThreadFails, NoHeader, Interrupt,
     CreatDataFails, WritePieceFails, CreatReqFails, WriteReqFails, Refuse, Reply
<1>4. \A j \in JobIds : reqs'[j] \in {reqs[j], None, "empty", c}
  BY <1>1 DEF TypeOK, Accept, ClientThread, ReadHeader, get_newjobno, CreatData, RecvPiece, EndOfData, CreatReq,
     WriteReq, UnlinkReqOf, UnlinkDataOf, Respond, QueueJob, ClientThreadFails, NoHeader, Interrupt,
     CreatDataFails, WritePieceFails, CreatReqFails, WriteReqFails, Refuse
<1>5. \A j \in JobIds : data'[j] = data[j] \/ data'[j] = None \/ data'[j].doc = c
  <2>1. CASE CreatData(c)
    BY <1>1, <2>1 DEF CreatData, TypeOK
  <2>2. CASE RecvPiece(c)
    BY SMTT(60), <1>1, <2>2 DEF RecvPiece, TypeOK, File
  <2>3. CASE UnlinkDataOf(c)
    BY <1>1, <2>3 DEF UnlinkDataOf, TypeOK
  <2> QED
    BY <2>1, <2>2, <2>3 DEF Accept, ClientThread, ReadHeader, get_newjobno, EndOfData, CreatReq,
     WriteReq, UnlinkReqOf, Respond, QueueJob, ClientThreadFails, NoHeader, Interrupt,
     CreatDataFails, WritePieceFails, CreatReqFails, WriteReqFails, Refuse
<1> QED
  BY <1>2, <1>3, <1>4, <1>5 DEF RefuseSame

\* The steps that are not a client's create no file.
LEMMA RefuseElse ==
  ASSUME TInv, NEW d \in Clients,
         Main \/ PrinterThread \/ PrinterFails \/ Sighup \/ EditConf \/ UNCHANGED vars
  PROVE  RefuseSame(d)
<1> USE PrintdAssumption DEF disk, env, mem
<1>1. TypeOK
  BY DEF TInv
<1>2. UNCHANGED <<thr, cli>>
  BY DEF Main, Start, ScanFile, ScanDone, PrinterThread, TakeJob, Wait, update_jobno, CheckReread, Reload, OpenData,
     Send, Awake, UnlinkData, UnlinkReq, PrinterFails, SendFails, StatusLost, Sighup, EditConf, vars
<1>3. /\ \A j \in JobIds : data'[j] \in {data[j], None}
      /\ \A j \in JobIds : reqs'[j] \in {reqs[j], None}
  <2>1. CASE ScanFile
    BY <1>1, <2>1 DEF ScanFile, TypeOK
  <2>2. CASE UnlinkData
    BY <1>1, <2>2 DEF UnlinkData, TypeOK
  <2>3. CASE UnlinkReq
    BY <1>1, <2>3 DEF UnlinkReq, TypeOK
  <2> QED
    BY <2>1, <2>2, <2>3 DEF Main, Start, ScanDone, PrinterThread, TakeJob, Wait, update_jobno, CheckReread, Reload,
       OpenData, Send, Awake, PrinterFails, SendFails, StatusLost, Sighup, EditConf, vars
<1> QED
  BY <1>2, <1>3 DEF RefuseSame

\* Only a stop counts as one, and only a lost answer as one.
LEMMA UsedCounts ==
  ASSUME TypeOK, [Next]_vars
  PROVE  /\ ~Stop => used'.crash = used.crash
         /\ ~StatusLost => used'.lost = used.lost
         /\ Stop => used'.crash = used.crash + 1
         /\ StatusLost => used'.lost = used.lost + 1
<1> USE DEF disk, env, mem
<1>1. CASE Main \/ PrinterThread \/ Sighup \/ EditConf \/ UNCHANGED vars
  <2>1. used' = used
    BY <1>1 DEF Main, Start, ScanFile, ScanDone, PrinterThread, TakeJob, Wait, update_jobno, CheckReread, Reload,
       OpenData, Send, Awake, UnlinkData, UnlinkReq, Sighup, EditConf, vars
  <2>2. ~Stop /\ ~StatusLost
    BY <2>1 DEF Stop, StatusLost, Spend, TypeOK
  <2> QED
    BY <2>1, <2>2
<1>2. CASE SendFails
  BY <1>2, SpendTypes DEF SendFails, Stop, StatusLost, replace_job, Up
<1>3. CASE StatusLost
  BY <1>3, SpendTypes DEF Stop, StatusLost, Up
<1>4. CASE Stop
  BY <1>4, SpendTypes DEF Stop, StatusLost, Up
<1>5. ASSUME NEW c \in Clients, Accept(c) \/ ClientThread(c) \/ Interrupt(c)
      PROVE  used' = used
  BY <1>5 DEF Accept, ClientThread, ReadHeader, get_newjobno, CreatData, RecvPiece, EndOfData, CreatReq,
     WriteReq, UnlinkReqOf, UnlinkDataOf, Respond, QueueJob, Interrupt
<1>6. ASSUME NEW c \in Clients, ClientThreadFails(c)
      PROVE  used'.crash = used.crash /\ used'.lost = used.lost
  BY <1>6, SpendTypes DEF ClientThreadFails, NoHeader, CreatDataFails, WritePieceFails, CreatReqFails, WriteReqFails
<1>7. TypeOK => used.crash # used.crash + 1 /\ used.lost # used.lost + 1
  BY DEF TypeOK
<1> QED
  BY <1>1, <1>2, <1>3, <1>4, <1>5, <1>6, <1>7, SpendTypes DEF Next, PrinterFails, Stop, StatusLost

\* RefuseInv holds at first and is kept by every step.
LEMMA RefuseInit == Init => RefuseInv
<1> QED
  BY PrintdAssumption DEF Init, RefuseInv, RefuseOf, DataOf, ReqsOf, RefusedOf, NewOf, JobIds

LEMMA RefuseNext == TInv /\ RefuseInv /\ [Next]_vars => RefuseInv'
<1> SUFFICES ASSUME TInv, RefuseInv, [Next]_vars, used'.crash = 0, NEW d \in Clients PROVE RefuseOf(d)'
  BY DEF RefuseInv
<1>1. TypeOK
  BY DEF TInv
<1>2. ~Stop /\ used.crash = 0
  BY <1>1, UsedCounts DEF TypeOK
<1>3. \A c \in Clients : RefuseOf(c)
  BY <1>2 DEF RefuseInv
<1>4. CASE Main \/ PrinterThread \/ PrinterFails \/ Sighup \/ EditConf \/ UNCHANGED vars
  BY <1>3, <1>4, RefuseElse, RefuseFrame
<1>5. ASSUME NEW c \in Clients, Accept(c) \/ ClientThread(c) \/ ClientThreadFails(c) \/ Interrupt(c)
      PROVE  RefuseOf(d)'
  <2>1. CASE d # c
    BY <1>3, <1>5, <2>1, RefuseOther, RefuseFrame
  <2>2. CASE d = c /\ Interrupt(c)
    BY <1>1, <1>3, <2>2, RefuseFrame DEF Interrupt, RefuseSame, TypeOK, mem, disk
  <2>3. CASE d = c /\ ~Interrupt(c)
    BY <1>3, <1>5, <2>3, RefuseBegin, RefuseFinish, RefuseUndo DEF ClientThread
  <2> QED
    BY <2>1, <2>2, <2>3
<1> QED
  BY <1>2, <1>4, <1>5 DEF Next

(* A refused client leaves no file behind in the spool, whichever call of its
   thread failed and whatever other clients and the printer thread do: for any
   clients, job files and failures. *)
THEOREM RefusedAlwaysClean == Spec => []RefusedLeavesNothing
<1>1. TInv /\ RefuseInv => RefusedLeavesNothing
  BY DEF RefuseInv, RefuseOf, RefusedOf, RefusedLeavesNothing
<1> QED
  BY <1>1, RefuseInit, RefuseNext, TInvInit, TInvNext, PTL DEF Spec
-----------------------------------------------------------------------------
(* Job numbers are not reused, and each document keeps its files. *)

NoReuse == ~Late /\ IsFiniteSet(Clients) /\ Cardinality(Clients) <= MaxJob

Taken == {c \in Clients : thr[c].id # None}

\* The number get_newjobno gives after i others when s, from the job file, was
\* the first: after the largest comes 1, and after one that is not positive too.
NumAt(s, i) == IF s <= 0 THEN IF i = 0 THEN s ELSE i
               ELSE IF s + i <= MaxJob THEN s + i ELSE s + i - MaxJob

\* Those of the threads are the first Cardinality(Taken) of them.
GivenFrom(s) ==
  /\ nextjob = NumAt(s, Cardinality(Taken))
  /\ \A c \in Taken : \E i \in Nat : i < Cardinality(Taken) /\ thr[c].id = NumAt(s, i)

\* Numbers are given out in turn until the first stop, and afterwards none is.
NumInv ==
  /\ \A c \in Clients : thr[c].pc \in {"header", "jobno"} => thr[c].id = None
  /\ \A c, d \in Clients : thr[c].id # None /\ thr[c].id = thr[d].id => c = d
  /\ used.crash > 0 => \A c \in Clients : thr[c].pc \in RestPCs
  /\ used.crash = 0 /\ Up => \E s \in JobIds : GivenFrom(s)
  /\ used.crash = 0 /\ ~Up => \A c \in Clients : thr[c].id = None

\* The files of c: they have its number, and those its thread relies on are
\* what it wrote.
FileOf(c) ==
  /\ \A j \in JobIds : data[j] # None /\ data[j].doc = c => thr[c].id = j
  /\ \A j \in JobIds : reqs[j] = c => thr[c].id = j /\ thr[c].pc \in {"respond", "addjob", "done"}
  /\ thr[c].pc \in {"respond", "addjob"} => reqs[thr[c].id] = c
  /\ thr[c].pc = "recv" => data[thr[c].id] = [doc |-> c, n |-> thr[c].n]
  /\ Prompt /\ thr[c].pc \in {"creatreq", "writereq", "respond", "addjob"} /\ cli[c] # "gone" =>
       data[thr[c].id] = [doc |-> c, n |-> Size]
FileInv == \A c \in Clients : FileOf(c)

\* A job in memory is in the spool and its client thread has ended.
JobDone(x) == reqs[x.id] = x.doc /\ thr[x.doc].pc = "done"

\* The jobs in memory, once each.
QueueInv ==
  /\ \A i, k \in DOMAIN queue : queue[i].id = queue[k].id => i = k
  /\ \A i \in DOMAIN queue : prn.job # None => queue[i].id # prn.job.id
  /\ \A i \in DOMAIN queue : JobDone(queue[i])
  /\ prn.job # None => JobDone(prn.job)
  /\ prn.pc \in {"connect", "status"} => prn.buf.doc = prn.job.doc

SpoolInv == TInv /\ RefuseInv /\ NumInv /\ FileInv /\ QueueInv

\* What a step of the client thread of c can touch.
LEMMA ClientStep ==
  ASSUME SpoolInv, NoReuse, NEW c \in Clients,
         Accept(c) \/ ClientThread(c) \/ ClientThreadFails(c) \/ Interrupt(c)
  PROVE  /\ \A d \in Clients : d # c => thr'[d] = thr[d] /\ cli'[d] = cli[d]
         /\ \A j \in JobIds : j # thr[c].id => data'[j] = data[j] /\ reqs'[j] = reqs[j]
         /\ UNCHANGED <<jobfile, main, scan, printed>>
         /\ ~QueueJob(c) => UNCHANGED <<queue, prn>>
         /\ ~get_newjobno(c) => nextjob' = nextjob /\ thr'[c].id = thr[c].id
         /\ Interrupt(c) \/ (Accept(c) /\ thr[c].pc = "none") \/ thr[c].pc \notin RestPCs
         /\ Interrupt(c) => thr' = thr
         /\ thr[c].pc = "none" => thr'[c].pc = "header" \/ Interrupt(c)
<1> USE PrintdAssumption DEF disk, env, mem
<1>1. TypeOK
  BY DEF SpoolInv, TInv
<1>2. \A d \in Clients : d # c => thr'[d] = thr[d]
  BY RefuseOther DEF SpoolInv, RefuseSame
<1>3. \A d \in Clients : d # c => cli'[d] = cli[d]
  BY <1>1 DEF TypeOK, Accept, ClientThread, ReadHeader, get_newjobno, CreatData, RecvPiece, EndOfData, CreatReq,
     WriteReq, UnlinkReqOf, UnlinkDataOf, Respond, QueueJob, ClientThreadFails, NoHeader, Interrupt,
     CreatDataFails, WritePieceFails, CreatReqFails, WriteReqFails, Refuse, Reply
<1>4. \A j \in JobIds : j # thr[c].id => data'[j] = data[j] /\ reqs'[j] = reqs[j]
  BY <1>1 DEF TypeOK, Accept, ClientThread, ReadHeader, get_newjobno, CreatData, RecvPiece, EndOfData, CreatReq,
     WriteReq, UnlinkReqOf, UnlinkDataOf, Respond, QueueJob, ClientThreadFails, NoHeader, Interrupt,
     CreatDataFails, WritePieceFails, CreatReqFails, WriteReqFails, Refuse
<1>5. /\ UNCHANGED <<jobfile, main, scan, printed>> /\ (~QueueJob(c) => UNCHANGED <<queue, prn>>)
      /\ (~get_newjobno(c) => nextjob' = nextjob) /\ (Interrupt(c) => thr' = thr)
  BY DEF Accept, ClientThread, ReadHeader, get_newjobno, CreatData, RecvPiece, EndOfData, CreatReq,
     WriteReq, UnlinkReqOf, UnlinkDataOf, Respond, QueueJob, ClientThreadFails, NoHeader, Interrupt,
     CreatDataFails, WritePieceFails, CreatReqFails, WriteReqFails, Refuse
<1>6. ~get_newjobno(c) => thr'[c].id = thr[c].id
  BY SMTT(60), <1>1 DEF TypeOK, Accept, ClientThread, ReadHeader, CreatData, RecvPiece, EndOfData, CreatReq,
     WriteReq, UnlinkReqOf, UnlinkDataOf, Respond, QueueJob, ClientThreadFails, NoHeader, Interrupt,
     CreatDataFails, WritePieceFails, CreatReqFails, WriteReqFails, Refuse, Thr
<1>7. Interrupt(c) \/ Accept(c) \/ thr[c].pc \notin RestPCs
  BY DEF ClientThread, ReadHeader, get_newjobno, CreatData, RecvPiece, EndOfData, CreatReq,
     WriteReq, UnlinkReqOf, UnlinkDataOf, Respond, QueueJob, ClientThreadFails, NoHeader, RestPCs,
     CreatDataFails, WritePieceFails, CreatReqFails, WriteReqFails, Refuse, Thr
<1>8. Accept(c) => thr[c].pc = "none" /\ thr'[c].pc = "header"
  <2> SUFFICES ASSUME Accept(c) PROVE thr[c].pc = "none" /\ thr'[c].pc = "header"
    OBVIOUS
  <2>1. used.crash = 0 /\ cli[c] = "new"
    BY DEF Accept, NoReuse
  <2>2. thr[c].pc = "none"
    BY <2>1 DEF SpoolInv, RefuseInv, RefuseOf, NewOf, NoThread
  <2> QED
    BY <1>1, <2>2 DEF Accept, TypeOK
<1>9. thr[c].pc = "none" => thr'[c].pc = "header" \/ Interrupt(c)
  BY <1>7, <1>8 DEF RestPCs
<1> QED
  BY <1>2, <1>3, <1>4, <1>5, <1>6, <1>7, <1>8, <1>9

\* The numbers given out are finitely many.
LEMMA TakenCount ==
  ASSUME NoReuse
  PROVE  IsFiniteSet(Taken) /\ Cardinality(Taken) \in Nat /\ Cardinality(Taken) <= Cardinality(Clients)
         /\ Cardinality(Clients) \in Nat
<1>1. Taken \subseteq Clients /\ IsFiniteSet(Clients)
  BY DEF Taken, NoReuse
<1> QED
  BY <1>1, FS_Subset, FS_CardinalityType

\* The first MaxJob numbers are different, and each follows the one before.
LEMMA NumAtTurns ==
  ASSUME NEW s \in JobIds, NEW k \in Nat, k < MaxJob
  PROVE  /\ NumAt(s, 0) = s
         /\ NumAt(s, k + 1) = NextAfter(NumAt(s, k))
         /\ \A i \in Nat : i < k => NumAt(s, i) # NumAt(s, k)
<1> QED
  BY PrintdAssumption DEF NumAt, NextAfter, JobIds

\* The numbers stay the same when no thread takes one.
LEMMA NumKept ==
  ASSUME SpoolInv, \A c \in Clients : thr'[c].id = thr[c].id, used'.crash = used.crash,
         \A c \in Clients : thr'[c].pc = thr[c].pc \/ thr[c].pc \notin RestPCs \/ used.crash = 0,
         \A c \in Clients : thr'[c].pc \in {"header", "jobno"} => thr[c].id = None,
         Up' <=> Up, nextjob' = nextjob
  PROVE  NumInv'
<1>1. Taken' = Taken
  BY DEF Taken
<1>2. used.crash \in Nat
  BY DEF SpoolInv, TInv, TypeOK
<1>3. used.crash > 0 => \A c \in Clients : thr'[c].pc \in RestPCs
  BY <1>2 DEF SpoolInv, NumInv
<1>4. \A s : GivenFrom(s) => GivenFrom(s)'
  BY <1>1 DEF GivenFrom, Taken
<1>5. used'.crash = 0 /\ Up' => \E s \in JobIds : GivenFrom(s)'
  BY <1>4 DEF SpoolInv, NumInv
<1> QED
  BY <1>1, <1>2, <1>3, <1>5 DEF SpoolInv, NumInv

\* get_newjobno gives out the next number, which no thread has.
LEMMA NumTaken ==
  ASSUME SpoolInv, NoReuse, NEW c \in Clients, get_newjobno(c)
  PROVE  NumInv'
<1> USE PrintdAssumption
<1> DEFINE k == Cardinality(Taken)
<1>1. TypeOK /\ NumInv /\ Up /\ used.crash = 0
  <2>1. TypeOK /\ TInv /\ NumInv /\ thr[c].pc = "jobno" /\ used.crash \in Nat
    BY DEF SpoolInv, TInv, TypeOK, get_newjobno
  <2> QED
    BY <2>1, ThreadServes DEF NumInv, RestPCs
<1>2. c \notin Taken /\ thr[c].id = None /\ thr[c].pc = "jobno"
  BY <1>1 DEF Taken, get_newjobno, NumInv
<1>3. k \in Nat /\ k < Cardinality(Clients) /\ IsFiniteSet(Taken)
  <2>1. Taken \cup {c} \subseteq Clients /\ IsFiniteSet(Taken) /\ IsFiniteSet(Clients)
    BY TakenCount DEF Taken, NoReuse
  <2>2. Cardinality(Taken \cup {c}) = k + 1
    BY <1>2, <2>1, FS_AddElement
  <2>3. Cardinality(Taken \cup {c}) <= Cardinality(Clients)
    BY <2>1, FS_Subset
  <2> QED
    BY <2>1, <2>2, <2>3, TakenCount
<1>4. k < MaxJob /\ nextjob' = NextAfter(nextjob) /\ used' = used /\ main' = main
  BY <1>1, <1>3, TakenCount DEF NoReuse, get_newjobno, env
<1>5. PICK s \in JobIds : GivenFrom(s)
  BY <1>1 DEF NumInv
<1>6. nextjob \in JobIds /\ nextjob # None /\ nextjob = NumAt(s, k)
  BY <1>1, <1>5 DEF TypeOK, GivenFrom
<1>7. /\ thr'[c].id = NumAt(s, k) /\ thr'[c].pc = "creat" /\ \A d \in Clients : d # c => thr'[d] = thr[d]
  BY <1>1, <1>6 DEF get_newjobno, TypeOK
<1>8. Taken' = Taken \cup {c}
  BY <1>6, <1>7 DEF Taken
<1>9. Cardinality(Taken') = k + 1
  BY <1>2, <1>3, <1>8, FS_AddElement
<1>10. nextjob' = NumAt(s, k + 1)
  BY <1>3, <1>4, <1>6, NumAtTurns
<1>11. \A d \in Taken : \E i \in Nat : i < k /\ thr[d].id = NumAt(s, i)
  BY <1>5 DEF GivenFrom
<1>12. \A d \in Taken : thr[d].id # NumAt(s, k)
  BY <1>3, <1>4, <1>11, NumAtTurns
<1>13. \A d \in Taken' : \E i \in Nat : i < k + 1 /\ thr'[d].id = NumAt(s, i)
  <2> TAKE d \in Taken'
  <2>1. CASE d = c
    BY <1>3, <1>7, <2>1
  <2>2. CASE d # c
    <3>1. d \in Taken /\ d \in Clients /\ thr'[d] = thr[d]
      BY <1>7, <1>8, <2>2 DEF Taken
    <3>2. PICK i \in Nat : i < k /\ thr[d].id = NumAt(s, i)
      BY <1>11, <3>1
    <3> QED
      BY <1>3, <3>1, <3>2
  <2> QED
    BY <2>1, <2>2
<1>14. \A d, e \in Clients : thr'[d].id # None /\ thr'[d].id = thr'[e].id => d = e
  BY <1>1, <1>6, <1>7, <1>12 DEF NumInv, Taken
<1> HIDE DEF k
<1>15. GivenFrom(s)'
  BY <1>9, <1>10, <1>13 DEF GivenFrom
<1> QED
  BY <1>1, <1>4, <1>7, <1>14, <1>15 DEF NumInv, Up

\* Every step keeps NumInv.
LEMMA NumNext ==
  ASSUME SpoolInv, NoReuse, [Next]_vars
  PROVE  NumInv'
<1> USE PrintdAssumption DEF disk, mem, env
<1>1. TypeOK /\ TInv /\ NumInv /\ used.crash \in Nat
  BY DEF SpoolInv, TInv, TypeOK
<1>2. CASE Start
  <2>1. UNCHANGED <<thr, used>> /\ ~Up /\ Up' /\ nextjob' \in JobIds
    BY <1>1, <1>2, StartTypes DEF Start, Up, TInv, TypeOK
  <2>2. Taken' = Taken
    BY <2>1 DEF Taken
  <2>3. CASE used.crash = 0
    <3>1. Taken = {}
      BY <1>1, <2>1, <2>3 DEF NumInv, Taken
    <3>2. Cardinality(Taken) = 0
      BY <3>1, FS_EmptySet
    <3>3. PICK s \in JobIds : s = nextjob'
      BY <2>1
    <3>4. NumAt(s, 0) = s
      BY NumAtTurns
    <3>5. GivenFrom(s)'
      BY <2>2, <3>1, <3>2, <3>3, <3>4 DEF GivenFrom
    <3> QED
      BY <1>1, <2>1, <2>3, <3>5 DEF NumInv
  <2>4. CASE used.crash # 0
    BY <1>1, <2>1, <2>2, <2>4 DEF NumInv
  <2> QED
    BY <2>3, <2>4
<1>3. CASE Stop
  <2>1. used'.crash = used.crash + 1 /\ used.crash \in Nat
    BY <1>1, <1>3, UsedCounts
  <2>2. thr' = [c \in Clients |-> [thr[c] EXCEPT !.pc = IF @ = "none" THEN @ ELSE "done"]]
    BY <1>3 DEF Stop
  <2>3. \A c \in Clients : thr'[c].pc \in RestPCs /\ thr'[c].id = thr[c].id
    BY SMTT(60), <1>1, <2>2 DEF TypeOK, RestPCs
  <2> QED
    BY <1>1, <2>1, <2>3 DEF NumInv, RestPCs
<1>4. CASE ScanFile \/ ScanDone \/ PrinterThread \/ PrinterFails \/ Sighup \/ EditConf \/ UNCHANGED vars
  <2>1. UNCHANGED <<thr, nextjob>>
    BY <1>4 DEF ScanFile, ScanDone, PrinterThread, TakeJob, Wait, update_jobno, CheckReread, Reload, OpenData,
       Send, Awake, UnlinkData, UnlinkReq, PrinterFails, SendFails, StatusLost, Sighup, EditConf, vars
  <2>2. (Up' <=> Up)
    BY <1>4 DEF ScanFile, ScanDone, PrinterThread, TakeJob, Wait, update_jobno, CheckReread, Reload, OpenData,
       Send, Awake, UnlinkData, UnlinkReq, PrinterFails, SendFails, StatusLost, Sighup, EditConf, vars, Up, Prn
  <2>3. used'.crash = used.crash
    <3>1. CASE Stop
      BY <1>4, <3>1, <2>2 DEF Stop, Up
    <3>2. CASE ~Stop
      BY <1>1, <3>2, UsedCounts
    <3> QED
      BY <3>1, <3>2
  <2> QED
    BY <1>1, <2>1, <2>2, <2>3, NumKept DEF NumInv
<1>5. ASSUME NEW c \in Clients, Accept(c) \/ ClientThread(c) \/ ClientThreadFails(c) \/ Interrupt(c)
      PROVE  NumInv'
  <2>1. CASE get_newjobno(c)
    BY <2>1, NumTaken
  <2>2. CASE ~get_newjobno(c)
    <3>1. /\ \A d \in Clients : thr'[d].id = thr[d].id /\ (d # c => thr'[d] = thr[d])
          /\ UNCHANGED <<jobfile, main, nextjob>>
          /\ Interrupt(c) \/ (Accept(c) /\ thr[c].pc = "none") \/ thr[c].pc \notin RestPCs
          /\ Interrupt(c) => thr' = thr
      BY <1>5, <2>2, ClientStep
    <3>2. used'.crash = used.crash
      <4>1. CASE Stop
        BY <3>1, <4>1 DEF Stop, Up
      <4>2. CASE ~Stop
        BY <1>1, <4>2, UsedCounts
      <4> QED
        BY <4>1, <4>2
    <3>3. Accept(c) => used.crash = 0 /\ thr[c].id = None
      BY DEF Accept, NoReuse, SpoolInv, RefuseInv, RefuseOf, NewOf, NoThread
    <3>4. \A d \in Clients : thr'[d].pc = thr[d].pc \/ thr[d].pc \notin RestPCs \/ used.crash = 0
      BY <3>1, <3>3
    <3>5. thr'[c].pc \in {"header", "jobno"} => thr[c].id = None
      <4>1. CASE Accept(c)
        BY <3>3, <4>1
      <4>2. CASE ReadHeader(c)
        BY <1>1, <4>2 DEF ReadHeader, Thr, NumInv
      <4>3. CASE Interrupt(c)
        BY <1>1, <3>1, <4>3 DEF NumInv
      <4>4. CASE RecvPiece(c)
        BY SMTT(60), <1>1, <4>4 DEF RecvPiece, TypeOK
      <4>5. CASE ~Accept(c) /\ ~ReadHeader(c) /\ ~Interrupt(c) /\ ~RecvPiece(c)
        <5>1. \E l, m \in ThreadPCs : Thr(c, l, m) /\ m \notin {"header", "jobno"}
          BY <1>5, <2>2, <4>5 DEF ClientThread, CreatData, EndOfData, CreatReq,
             WriteReq, UnlinkReqOf, UnlinkDataOf, Respond, QueueJob, ClientThreadFails, NoHeader,
             CreatDataFails, WritePieceFails, CreatReqFails, WriteReqFails, Refuse, ThreadPCs
        <5> QED
          BY <1>1, <5>1, ThreadMoves
      <4> QED
        BY <4>1, <4>2, <4>3, <4>4, <4>5
    <3>6. \A d \in Clients : thr'[d].pc \in {"header", "jobno"} => thr[d].id = None
      BY <1>1, <3>1, <3>5 DEF NumInv
    <3> QED
      BY <3>1, <3>2, <3>4, <3>6, NumKept DEF Up
  <2> QED
    BY <2>1, <2>2
<1> QED
  BY <1>2, <1>3, <1>4, <1>5 DEF Next, Main

\* The files of d are where they were as far as its thread relies on them.
FileSame(d) ==
  /\ thr'[d] = thr[d] /\ (cli'[d] # "gone" => cli[d] # "gone")
  /\ \A j \in JobIds : data'[j] # None /\ data'[j].doc = d => data[j] # None /\ data[j].doc = d
  /\ \A j \in JobIds : reqs'[j] = d => reqs[j] = d
  /\ thr[d].pc \in NumberPCs => data'[thr[d].id] = data[thr[d].id] /\ reqs'[thr[d].id] = reqs[thr[d].id]

LEMMA FileFrame ==
  ASSUME NEW d, FileOf(d), FileSame(d)
  PROVE  FileOf(d)'
<1> QED
  BY DEF FileOf, FileSame, NumberPCs

\* A job in memory has the number of its client's thread, and no thread that is
\* still at work has it.
LEMMA JobNumber ==
  ASSUME SpoolInv, NEW x \in Job, JobDone(x)
  PROVE  /\ x.doc \in Clients /\ x.id \in JobIds /\ thr[x.doc].id = x.id
         /\ \A d \in Clients : thr[d].id = x.id => d = x.doc
         /\ \A d \in Clients : thr[d].pc \in NumberPCs => thr[d].id # x.id
<1> USE PrintdAssumption
<1>1. x.doc \in Clients /\ x.id \in JobIds /\ x.id # None
  BY DEF Job, JobIds
<1>2. thr[x.doc].id = x.id /\ thr[x.doc].pc = "done"
  BY ZenonT(60), <1>1 DEF JobDone, SpoolInv, FileInv, FileOf
<1>3. \A d \in Clients : thr[d].id = x.id => d = x.doc
  BY <1>1, <1>2 DEF SpoolInv, NumInv
<1>4. "done" \notin NumberPCs
  BY DEF NumberPCs
<1> QED
  BY <1>1, <1>2, <1>3, <1>4

\* The data file with the number of a job in memory is the job's own.
LEMMA DataOwner ==
  ASSUME SpoolInv, NEW x \in Job, JobDone(x), data[x.id] # None
  PROVE  data[x.id].doc = x.doc
<1> DEFINE k == x.id
           d == data[k].doc
<1>1. k \in JobIds /\ data[k] # None /\ d \in Clients
  BY DEF SpoolInv, TInv, TypeOK, File, Job
<1> HIDE DEF k
<1>2. FileOf(d)
  BY <1>1 DEF SpoolInv, FileInv
<1>3. thr[d].id = k
  BY <1>1, <1>2 DEF FileOf
<1> QED
  BY <1>1, <1>3, JobNumber DEF k

\* A step of another client's thread leaves the files of d alone.
LEMMA FileOther ==
  ASSUME SpoolInv, NoReuse, NEW c \in Clients, NEW d \in Clients, d # c,
         Accept(c) \/ ClientThread(c) \/ ClientThreadFails(c) \/ Interrupt(c)
  PROVE  FileSame(d)
<1>1. RefuseSame(d)
  BY RefuseOther DEF SpoolInv
<1>2. thr'[d] = thr[d] /\ cli'[d] = cli[d]
  BY ClientStep
<1>3. ASSUME thr[d].pc \in NumberPCs
      PROVE  data'[thr[d].id] = data[thr[d].id] /\ reqs'[thr[d].id] = reqs[thr[d].id]
  <2>1. thr[d].id \in JobIds /\ thr[d].id # None
    BY <1>3, PrintdAssumption DEF SpoolInv, TInv, ThreadInv, JobIds
  <2>2. thr[d].id # thr[c].id
    BY <2>1 DEF SpoolInv, NumInv
  <2> QED
    BY <2>1, <2>2, ClientStep
<1> QED
  BY <1>1, <1>2, <1>3 DEF FileSame, RefuseSame

\* So do the main thread and the printer thread.
LEMMA FileElse ==
  ASSUME SpoolInv, NEW d \in Clients,
         Main \/ PrinterThread \/ PrinterFails \/ Sighup \/ EditConf \/ UNCHANGED vars
  PROVE  FileSame(d)
<1> USE PrintdAssumption DEF disk, env, mem
<1>1. TypeOK /\ TInv /\ QueueInv
  BY DEF SpoolInv, TInv
<1>2. RefuseSame(d)
  BY <1>1, RefuseElse
<1>3. UNCHANGED <<thr, cli>>
  BY DEF Main, Start, ScanFile, ScanDone, PrinterThread, TakeJob, Wait, update_jobno, CheckReread, Reload, OpenData,
     Send, Awake, UnlinkData, UnlinkReq, PrinterFails, SendFails, StatusLost, Sighup, EditConf, vars
<1>4. ASSUME thr[d].pc \in NumberPCs
      PROVE  data'[thr[d].id] = data[thr[d].id] /\ reqs'[thr[d].id] = reqs[thr[d].id]
  <2>1. thr[d].id \in JobIds /\ main = "serve"
    BY <1>1, <1>4 DEF TInv, ThreadInv, RestPCs, NumberPCs
  <2>2. CASE UnlinkData \/ UnlinkReq
    <3>1. prn.pc \in {"status", "unreq"}
      BY <2>2 DEF UnlinkData, UnlinkReq, Prn
    <3>2. prn.job \in Job /\ prn.job # None
      BY <1>1, <3>1 DEF TInv, HandInv, HandPCs
    <3>3. prn.job.id # thr[d].id
      BY <1>1, <1>4, <3>2, JobNumber DEF QueueInv
    <3> QED
      BY <1>1, <2>1, <2>2, <3>3 DEF UnlinkData, UnlinkReq, TypeOK
  <2>3. CASE ~(UnlinkData \/ UnlinkReq)
    <3>1. UNCHANGED <<data, reqs>>
      BY <2>1, <2>3 DEF Main, Start, ScanFile, ScanDone, PrinterThread, TakeJob, Wait, update_jobno, CheckReread,
         Reload, OpenData, Send, Awake, PrinterFails, SendFails, StatusLost, Sighup, EditConf, vars
    <3> QED
      BY <3>1
  <2> QED
    BY <2>2, <2>3
<1> QED
  BY <1>2, <1>3, <1>4 DEF FileSame, RefuseSame

\* The thread of c, up to the end of the document.
LEMMA FileBegin ==
  ASSUME SpoolInv, NoReuse, NEW c \in Clients,
         Accept(c) \/ ReadHeader(c) \/ get_newjobno(c) \/ CreatData(c) \/ RecvPiece(c) \/ EndOfData(c)
  PROVE  FileOf(c)'
<1> USE PrintdAssumption DEF disk, env, mem
<1>1. TypeOK /\ ThreadInv /\ FileOf(c) /\ TInv
  BY DEF SpoolInv, TInv, FileInv
<1>2. CASE Accept(c) \/ ReadHeader(c) \/ get_newjobno(c)
  <2>1. used.crash = 0
    <3>1. CASE Accept(c)
      BY <3>1 DEF Accept, NoReuse
    <3>2. CASE ReadHeader(c) \/ get_newjobno(c)
      <4>1. thr[c].pc \notin RestPCs /\ used.crash \in Nat
        BY <1>1, <3>2 DEF ReadHeader, get_newjobno, Thr, RestPCs, TypeOK
      <4> QED
        BY <4>1 DEF SpoolInv, NumInv
    <3> QED
      BY <1>2, <3>1, <3>2
  <2>2. thr[c].pc \in {"none", "header", "jobno"}
    BY <1>2, <2>1 DEF Accept, ReadHeader, get_newjobno, Thr, SpoolInv, RefuseInv, RefuseOf, NewOf, NoThread
  <2>3. \A j \in JobIds : ~(data[j] # None /\ data[j].doc = c) /\ reqs[j] # c
    BY <2>1, <2>2 DEF SpoolInv, RefuseInv, RefuseOf, DataOf, ReqsOf, NumberPCs
  <2>4. thr'[c].pc \in {"header", "jobno", "creat"} /\ UNCHANGED <<data, reqs>>
    <3>1. CASE Accept(c)
      BY <1>1, <3>1 DEF Accept, TypeOK
    <3>2. CASE ReadHeader(c)
      BY <1>1, <3>2, ThreadMoves DEF ReadHeader, ThreadPCs
    <3>3. CASE get_newjobno(c)
      BY <1>1, <3>3 DEF get_newjobno, TypeOK
    <3> QED
      BY <1>2, <3>1, <3>2, <3>3
  <2> QED
    BY <2>3, <2>4 DEF FileOf
<1>3. CASE CreatData(c)
  <2>1. /\ thr[c].pc = "creat" /\ thr'[c].pc = "recv" /\ thr'[c].id = thr[c].id /\ thr'[c].n = thr[c].n
        /\ UNCHANGED <<reqs, cli>> /\ thr[c].id \in JobIds /\ thr[c].n = 0
    BY <1>1, <1>3, ThreadMoves DEF CreatData, ThreadPCs, ThreadInv, NumberPCs
  <2>2. \A j \in JobIds : data'[j] = IF j = thr[c].id THEN [doc |-> c, n |-> 0] ELSE data[j]
    BY <1>1, <1>3 DEF CreatData, TypeOK
  <2> QED
    BY <1>1, <2>1, <2>2 DEF FileOf
<1>4. CASE RecvPiece(c)
  <2>1. /\ thr[c].pc = "recv" /\ thr'[c].pc = "recv" /\ thr'[c].id = thr[c].id /\ thr'[c].n = thr[c].n + 1
        /\ UNCHANGED <<reqs, cli>>
    BY <1>1, <1>4 DEF RecvPiece, TypeOK
  <2>2. thr[c].id \in JobIds /\ data[thr[c].id] = [doc |-> c, n |-> thr[c].n] /\ [doc |-> c, n |-> thr[c].n] # None
    <3>1. thr[c].id \in JobIds /\ data[thr[c].id] = [doc |-> c, n |-> thr[c].n]
      BY <1>1, <2>1 DEF ThreadInv, NumberPCs, FileOf
    <3>2. [doc |-> c, n |-> thr[c].n] \in File
      BY <1>1 DEF TypeOK, File
    <3> QED
      BY <3>1, <3>2
  <2>3. data' = [data EXCEPT ![thr[c].id].n = @ + 1]
    BY <1>4, <2>2 DEF RecvPiece
  <2>4. \A j \in JobIds : data'[j] = IF j = thr[c].id THEN [doc |-> c, n |-> thr[c].n + 1] ELSE data[j]
    BY SMTT(60), <1>1, <2>2, <2>3 DEF TypeOK
  <2> QED
    BY <1>1, <2>1, <2>2, <2>4 DEF FileOf
<1>5. CASE EndOfData(c)
  <2>1. /\ thr[c].pc = "recv" /\ thr'[c].pc = "creatreq" /\ thr'[c].id = thr[c].id
        /\ UNCHANGED <<data, reqs, cli>> /\ (Prompt => cli[c] = "gone" \/ thr[c].n = Size)
    BY <1>1, <1>5, ThreadMoves DEF EndOfData, Silent, ThreadPCs
  <2> QED
    BY <1>1, <2>1 DEF FileOf
<1> QED
  BY <1>2, <1>3, <1>4, <1>5

\* The thread of c, from the control file on, and its failures.
LEMMA FileFinish ==
  ASSUME SpoolInv, NEW c \in Clients,
         \/ CreatReq(c) \/ WriteReq(c) \/ Respond(c) \/ QueueJob(c)
         \/ UnlinkReqOf(c) \/ UnlinkDataOf(c) \/ ClientThreadFails(c) \/ Interrupt(c)
  PROVE  FileOf(c)'
<1> USE PrintdAssumption DEF disk, env, mem
<1>1. TypeOK /\ ThreadInv /\ FileOf(c)
  BY DEF SpoolInv, TInv, FileInv
<1>2. CASE CreatReq(c)
  <2>1. /\ thr[c].pc = "creatreq" /\ thr'[c].pc = "writereq" /\ thr'[c].id = thr[c].id /\ UNCHANGED <<data, cli>>
        /\ \A j \in JobIds : reqs'[j] = reqs[j] \/ reqs'[j] = "empty"
    BY SMTT(60), <1>1, <1>2, ThreadMoves DEF CreatReq, ThreadPCs, TypeOK
  <2> QED
    BY <1>1, <2>1 DEF FileOf
<1>3. CASE WriteReq(c)
  <2>1. /\ thr[c].pc = "writereq" /\ thr'[c].pc = "respond" /\ thr'[c].id = thr[c].id /\ UNCHANGED <<data, cli>>
        /\ thr[c].id \in JobIds
    BY <1>1, <1>3, ThreadMoves DEF WriteReq, ThreadPCs, ThreadInv, NumberPCs
  <2>2. \A j \in JobIds : reqs'[j] = IF j = thr[c].id THEN c ELSE reqs[j]
    BY <1>1, <1>3 DEF WriteReq, TypeOK
  <2> QED
    BY <1>1, <2>1, <2>2 DEF FileOf
<1>4. CASE Respond(c)
  <2>1. /\ thr[c].pc = "respond" /\ thr'[c].pc = "addjob" /\ thr'[c].id = thr[c].id /\ UNCHANGED <<data, reqs>>
        /\ cli'[c] \in {cli[c], "acked"} /\ (cli'[c] = "acked" /\ cli[c] # "acked" => cli[c] = "open")
    BY SMTT(60), <1>1, <1>4, ThreadMoves DEF Respond, Reply, ThreadPCs, TypeOK
  <2> QED
    BY <1>1, <2>1 DEF FileOf
<1>5. CASE QueueJob(c)
  <2>1. thr[c].pc = "addjob" /\ thr'[c].pc = "done" /\ thr'[c].id = thr[c].id /\ UNCHANGED <<data, reqs, cli>>
    BY <1>1, <1>5, ThreadMoves DEF QueueJob, ThreadPCs
  <2> QED
    BY <1>1, <2>1 DEF FileOf
<1>6. CASE UnlinkReqOf(c)
  <2>1. /\ thr[c].pc = "unreq" /\ thr'[c].pc = "undata" /\ thr'[c].id = thr[c].id /\ UNCHANGED <<data, cli>>
        /\ \A j \in JobIds : reqs'[j] = reqs[j] \/ reqs'[j] = None
    BY SMTT(60), <1>1, <1>6, ThreadMoves DEF UnlinkReqOf, ThreadPCs, TypeOK
  <2> QED
    BY <1>1, <2>1 DEF FileOf
<1>7. CASE UnlinkDataOf(c)
  <2>1. /\ thr[c].pc = "undata" /\ thr'[c].pc = "done" /\ thr'[c].id = thr[c].id /\ UNCHANGED <<reqs, cli>>
        /\ \A j \in JobIds : data'[j] = data[j] \/ data'[j] = None
    BY <1>1, <1>7, ThreadMoves DEF UnlinkDataOf, ThreadPCs, TypeOK
  <2> QED
    BY <1>1, <2>1 DEF FileOf
<1>8. CASE ClientThreadFails(c)
  <2>1. PICK l \in ThreadPCs, m \in ThreadPCs :
          /\ Refuse(c, l, m)
          /\ <<l, m>> \in {<<"header", "done">>, <<"creat", "done">>, <<"recv", "undata">>,
                           <<"creatreq", "undata">>, <<"writereq", "unreq">>}
    BY <1>8 DEF ClientThreadFails, NoHeader, CreatDataFails, WritePieceFails, CreatReqFails, WriteReqFails, ThreadPCs
  <2>2. thr[c].pc = l /\ thr'[c].pc = m /\ thr'[c].id = thr[c].id /\ UNCHANGED <<data, reqs>>
    BY <1>1, <2>1, ThreadMoves DEF Refuse
  <2> QED
    BY <1>1, <2>1, <2>2 DEF FileOf
<1>9. CASE Interrupt(c)
  <2>1. UNCHANGED <<data, reqs, thr>> /\ cli'[c] = "gone"
    BY <1>1, <1>9 DEF Interrupt, TypeOK
  <2> QED
    BY <1>1, <2>1 DEF FileOf
<1> QED
  BY <1>2, <1>3, <1>4, <1>5, <1>6, <1>7, <1>8, <1>9

\* A stop ends all threads and leaves the files.
LEMMA FileStop ==
  ASSUME SpoolInv, NEW c \in Clients, Stop
  PROVE  FileOf(c)'
<1>1. TypeOK /\ FileOf(c)
  BY DEF SpoolInv, TInv, FileInv
<1>2. UNCHANGED <<data, reqs>> /\ thr' = [d \in Clients |-> [thr[d] EXCEPT !.pc = IF @ = "none" THEN @ ELSE "done"]]
  BY DEF Stop, disk
<1>3. thr'[c].id = thr[c].id /\ thr'[c].pc = (IF thr[c].pc = "none" THEN "none" ELSE "done")
  BY <1>1, <1>2 DEF TypeOK
<1> QED
  BY <1>1, <1>2, <1>3 DEF FileOf

\* Every step keeps FileInv.
LEMMA FileNext ==
  ASSUME SpoolInv, NoReuse, [Next]_vars
  PROVE  FileInv'
<1> SUFFICES ASSUME NEW d \in Clients PROVE FileOf(d)'
  BY DEF FileInv
<1>1. FileOf(d)
  BY DEF SpoolInv, FileInv
<1>2. CASE Main \/ PrinterThread \/ PrinterFails \/ Sighup \/ EditConf \/ UNCHANGED vars
  BY <1>1, <1>2, FileElse, FileFrame
<1>3. CASE Stop
  BY <1>3, FileStop
<1>4. ASSUME NEW c \in Clients, Accept(c) \/ ClientThread(c) \/ ClientThreadFails(c) \/ Interrupt(c)
      PROVE  FileOf(d)'
  <2>1. CASE d # c
    BY <1>1, <1>4, <2>1, FileOther, FileFrame
  <2>2. CASE d = c
    BY <1>4, <2>2, FileBegin, FileFinish DEF ClientThread
  <2> QED
    BY <2>1, <2>2
<1> QED
  BY <1>2, <1>3, <1>4 DEF Next

\* The job x is in the spool after a step, and its client thread has ended.
StaysDone(x) == reqs'[x.id] = x.doc /\ thr'[x.doc].pc = "done"

\* A job in memory stays in the spool when a client's thread takes a step,
LEMMA JobStaysClient ==
  ASSUME SpoolInv, NoReuse, NEW c \in Clients, NEW x \in Job, JobDone(x),
         Accept(c) \/ ClientThread(c) \/ ClientThreadFails(c) \/ Interrupt(c)
  PROVE  StaysDone(x)
<1>1. x.doc \in Clients /\ x.id \in JobIds /\ thr[x.doc].id = x.id /\ thr[x.doc].pc = "done"
  BY JobNumber DEF JobDone
<1>2. CASE x.doc = c
  <2>1. Interrupt(c)
    BY <1>1, <1>2, ClientStep DEF RestPCs
  <2> QED
    BY <2>1 DEF Interrupt, JobDone, StaysDone, disk, mem
<1>3. CASE x.doc # c
  <2>1. thr[c].id # x.id
    BY <1>3, JobNumber
  <2> QED
    BY <1>1, <1>3, <2>1, ClientStep DEF JobDone, StaysDone
<1> QED
  BY <1>2, <1>3

\* and when the main thread or the printer thread does, unless this removes it.
LEMMA JobStaysElse ==
  ASSUME SpoolInv, NEW x \in Job, JobDone(x), UnlinkReq => x.id # prn.job.id,
         Main \/ PrinterThread \/ PrinterFails \/ Sighup \/ EditConf \/ UNCHANGED vars
  PROVE  StaysDone(x)
<1> USE PrintdAssumption DEF disk, env, mem
<1>1. TypeOK /\ x.doc \in Clients /\ x.id \in JobIds /\ reqs[x.id] # "empty"
  BY DEF SpoolInv, TInv, Job, JobDone
<1>2. UNCHANGED thr
  BY DEF Main, Start, ScanFile, ScanDone, PrinterThread, TakeJob, Wait, update_jobno, CheckReread, Reload, OpenData,
     Send, Awake, UnlinkData, UnlinkReq, PrinterFails, SendFails, StatusLost, Sighup, EditConf, vars
<1>3. reqs'[x.id] = reqs[x.id]
  <2>1. CASE ScanFile
    BY <1>1, <2>1 DEF ScanFile, TypeOK
  <2>2. CASE UnlinkReq
    BY <1>1, <2>2 DEF UnlinkReq, TypeOK
  <2> QED
    BY <2>1, <2>2 DEF Main, Start, ScanDone, PrinterThread, TakeJob, Wait, update_jobno, CheckReread, Reload,
       OpenData, Send, Awake, UnlinkData, PrinterFails, SendFails, StatusLost, Sighup, EditConf, vars
<1> QED
  BY <1>2, <1>3 DEF JobDone, StaysDone

\* The jobs are the same, in the list and in hand.
LEMMA QueueFrame ==
  ASSUME SpoolInv, queue' = queue, prn'.job = prn.job,
         \A x \in Job : JobDone(x) => StaysDone(x),
         prn'.pc \in {"connect", "status"} => prn'.buf.doc = prn'.job.doc
  PROVE  QueueInv'
<1>1. QueueInv /\ queue \in Seq(Job) /\ (prn.job # None => prn.job \in Job)
  BY DEF SpoolInv, TInv, TypeOK
<1>2. \A i \in DOMAIN queue : queue[i] \in Job
  BY <1>1, ElementOfSeq, LenProperties
<1>3. \A i \in DOMAIN queue : StaysDone(queue[i])
  BY <1>1, <1>2 DEF QueueInv
<1>4. prn.job # None => StaysDone(prn.job)
  BY <1>1 DEF QueueInv
<1> QED
  BY <1>1, <1>3, <1>4 DEF QueueInv, JobDone, StaysDone

\* A job is added that is not in the list and not in hand.
LEMMA QueueAdd ==
  ASSUME SpoolInv, NEW x \in Job, add_job(x), StaysDone(x),
         \A y \in Job : JobDone(y) => StaysDone(y),
         \A i \in DOMAIN queue : queue[i].id # x.id, prn.job # None => prn.job.id # x.id
  PROVE  QueueInv'
<1>1. QueueInv /\ TypeOK /\ queue \in Seq(Job) /\ (prn.job # None => prn.job \in Job)
  BY DEF SpoolInv, TInv, TypeOK
<1>2. \A i \in DOMAIN queue : queue[i] \in Job
  BY <1>1, ElementOfSeq, LenProperties
<1>3. /\ \A i \in DOMAIN queue' : \/ i \in DOMAIN queue /\ queue'[i] = queue[i]
                                  \/ i \notin DOMAIN queue /\ i = Len(queue) + 1 /\ queue'[i] = x
      /\ prn'.job = prn.job /\ prn'.buf = prn.buf
      /\ prn'.pc = IF prn.pc = "wait" THEN "get" ELSE prn.pc
  BY <1>1, AddJobTypes
<1>4. \A i \in DOMAIN queue' : StaysDone(queue'[i])
  BY <1>1, <1>2, <1>3 DEF QueueInv
<1>5. prn'.job # None => StaysDone(prn'.job)
  BY <1>1, <1>3 DEF QueueInv
<1>6. \A i, k \in DOMAIN queue' : queue'[i].id = queue'[k].id => i = k
  BY <1>1, <1>3 DEF QueueInv
<1>7. \A i \in DOMAIN queue' : prn'.job # None => queue'[i].id # prn'.job.id
  BY <1>1, <1>3 DEF QueueInv
<1> QED
  BY <1>1, <1>3, <1>4, <1>5, <1>6, <1>7 DEF QueueInv, JobDone, StaysDone

\* The printer thread takes, puts back and drops a job.
LEMMA QueuePrinter ==
  ASSUME SpoolInv, TakeJob \/ OpenData \/ PrinterFails \/ UnlinkReq
  PROVE  QueueInv'
<1> USE PrintdAssumption DEF HandPCs
<1>1. TInv /\ QueueInv /\ TypeOK /\ queue \in Seq(Job) /\ (prn.job # None => prn.job \in Job)
  BY DEF SpoolInv, TInv, TypeOK
<1>2. \A i \in DOMAIN queue : queue[i] \in Job
  BY <1>1, ElementOfSeq, LenProperties
<1>3. \A x \in Job : JobDone(x) /\ (UnlinkReq => x.id # prn.job.id) => StaysDone(x)
  BY JobStaysElse DEF PrinterThread
<1>4. CASE TakeJob
  <2>1. /\ prn.pc = "get" /\ queue # <<>> /\ queue' = Tail(queue)
        /\ prn' = [pc |-> "save", job |-> Head(queue), buf |-> None]
    BY <1>4 DEF TakeJob
  <2>2. ~UnlinkReq
    BY <2>1 DEF UnlinkReq
  <2>3. /\ Head(queue) \in Job /\ 1 \in DOMAIN queue /\ Head(queue) = queue[1]
        /\ \A i \in DOMAIN queue' : i + 1 \in DOMAIN queue /\ i \in Nat \ {0} /\ queue'[i] = queue[i + 1]
    BY <1>1, <2>1, TailJob
  <2>4. StaysDone(queue[1]) /\ \A i \in DOMAIN queue : StaysDone(queue[i])
    BY <1>1, <1>2, <1>3, <2>2, <2>3 DEF QueueInv
  <2>5. \A i, k \in DOMAIN queue' : queue'[i].id = queue'[k].id => i = k
    BY <1>1, <2>3 DEF QueueInv
  <2>6. \A i \in DOMAIN queue' : queue'[i].id # Head(queue).id
    BY <1>1, <2>3 DEF QueueInv
  <2>7. \A i \in DOMAIN queue' : StaysDone(queue'[i])
    BY <2>3, <2>4
  <2>8. prn'.job = Head(queue) /\ prn'.pc = "save"
    BY <2>1
  <2>9. StaysDone(prn'.job)
    BY <2>3, <2>4, <2>8
  <2> QED
    BY <2>5, <2>6, <2>7, <2>8, <2>9 DEF QueueInv, JobDone, StaysDone
<1>5. CASE OpenData
  <2>1. /\ prn.pc = "open" /\ UNCHANGED <<queue>>
        /\ prn' = IF data[prn.job.id] = None THEN Idle ELSE [prn EXCEPT !.pc = "connect", !.buf = data[prn.job.id]]
    BY <1>5 DEF OpenData
  <2>2. \A x \in Job : JobDone(x) => StaysDone(x)
    BY <1>3, <2>1 DEF UnlinkReq
  <2>3. prn.job \in Job /\ prn.job # None /\ JobDone(prn.job)
    BY <1>1, <2>1 DEF TInv, HandInv, QueueInv
  <2>4. CASE data[prn.job.id] = None
    <3>1. prn'.job = None /\ prn'.pc = "get"
      BY <2>1, <2>4 DEF Idle
    <3>2. \A i \in DOMAIN queue : StaysDone(queue[i])
      BY <1>1, <1>2, <2>2 DEF QueueInv
    <3> QED
      BY <1>1, <2>1, <3>1, <3>2 DEF QueueInv, JobDone, StaysDone
  <2>5. CASE data[prn.job.id] # None
    <3>1. prn'.job = prn.job /\ prn'.buf = data[prn.job.id]
      BY <1>1, <2>1, <2>5 DEF TypeOK
    <3>2. data[prn.job.id].doc = prn.job.doc
      BY <2>3, <2>5, DataOwner
    <3> QED
      BY <2>1, <2>2, <3>1, <3>2, QueueFrame
  <2> QED
    BY <2>4, <2>5
<1>6. CASE PrinterFails
  <2>1. /\ prn.pc \in {"connect", "status"} /\ queue' = <<prn.job>> \o queue
        /\ prn' = [pc |-> "sleep", job |-> None, buf |-> None]
    BY <1>6 DEF PrinterFails, SendFails, StatusLost, replace_job, Idle
  <2>2. \A x \in Job : JobDone(x) => StaysDone(x)
    BY <1>3, <2>1 DEF UnlinkReq
  <2>3. prn.job \in Job /\ prn.job # None /\ JobDone(prn.job)
    BY <1>1, <2>1 DEF TInv, HandInv, QueueInv
  <2>4. \A i \in DOMAIN queue' : \/ i = 1 /\ queue'[i] = prn.job
                                 \/ i \in Nat /\ i # 1 /\ i - 1 \in DOMAIN queue /\ queue'[i] = queue[i - 1]
    BY <1>1, <2>1, <2>3, ConsJob
  <2>5. \A i \in DOMAIN queue : StaysDone(queue[i]) /\ queue[i].id # prn.job.id
    BY <1>1, <1>2, <2>2, <2>3 DEF QueueInv
  <2>6. \A i \in DOMAIN queue' : StaysDone(queue'[i])
    BY <2>2, <2>3, <2>4, <2>5
  <2>7. \A i, k \in DOMAIN queue' : queue'[i].id = queue'[k].id => i = k
    BY <1>1, <2>4, <2>5 DEF QueueInv
  <2>8. prn'.job = None /\ prn'.pc = "sleep"
    BY <2>1
  <2> QED
    BY <2>6, <2>7, <2>8 DEF QueueInv, JobDone, StaysDone
<1>7. CASE UnlinkReq
  <2>1. prn.pc = "unreq" /\ queue' = queue /\ prn' = [pc |-> "get", job |-> None, buf |-> None]
    BY <1>7 DEF UnlinkReq, Idle
  <2>2. prn.job \in Job /\ prn.job # None
    BY <1>1, <2>1 DEF TInv, HandInv
  <2>3. \A i \in DOMAIN queue : StaysDone(queue[i])
    BY <1>1, <1>2, <1>3, <2>2 DEF QueueInv
  <2>4. prn'.job = None /\ prn'.pc = "get"
    BY <2>1
  <2> QED
    BY <1>1, <2>1, <2>3, <2>4 DEF QueueInv, JobDone, StaysDone
<1> QED
  BY <1>4, <1>5, <1>6, <1>7

\* The main thread queues what it finds in the spool, once.
LEMMA QueueScan ==
  ASSUME SpoolInv, ScanFile
  PROVE  QueueInv'
<1> USE PrintdAssumption
<1>1. TInv /\ QueueInv /\ TypeOK
  BY DEF SpoolInv, TInv
<1>2. PICK j \in scan :
       /\ main = "scan" /\ j \in JobIds /\ reqs[j] # None /\ UNCHANGED thr
       /\ IF reqs[j] = "empty"
          THEN UNCHANGED <<queue, prn>>
          ELSE add_job([id |-> j, doc |-> reqs[j]]) /\ UNCHANGED <<data, reqs>>
  BY <1>1 DEF ScanFile, TypeOK, TInv, ScanInv
<1>3. \A x \in Job : JobDone(x) => StaysDone(x)
  <2>1. UnlinkReq => FALSE
    BY DEF UnlinkReq, ScanFile
  <2> QED
    BY <2>1, JobStaysElse DEF Main
<1>4. CASE reqs[j] = "empty"
  BY <1>1, <1>2, <1>3, <1>4, QueueFrame DEF QueueInv
<1>5. CASE reqs[j] # "empty"
  <2> DEFINE x == [id |-> j, doc |-> reqs[j]]
  <2>1. x \in Job /\ x.id = j /\ x.doc = reqs[j] /\ x.doc \in Clients
    BY <1>1, <1>2, <1>5 DEF TypeOK, Job
  <2>2. add_job(x) /\ UNCHANGED <<reqs, thr>>
    BY <1>2, <1>5
  <2>3. thr[x.doc].pc = "done"
    <3>1. thr[x.doc].pc \in RestPCs
      BY <1>1, <1>2, <2>1 DEF TInv, ThreadInv
    <3>2. thr[x.doc].pc \in {"respond", "addjob", "done"}
      BY <1>2, <2>1 DEF SpoolInv, FileInv, FileOf
    <3> QED
      BY <3>1, <3>2 DEF RestPCs
  <2>4. (prn.job # None => prn.job.id # j) /\ \A i \in DOMAIN queue : queue[i].id # j
    BY <1>1, <1>2 DEF TInv, ScanInv
  <2> HIDE DEF x
  <2>5. StaysDone(x)
    BY <2>1, <2>2, <2>3 DEF StaysDone
  <2> QED
    BY <1>3, <2>1, <2>2, <2>4, <2>5, QueueAdd
<1> QED
  BY <1>4, <1>5

\* Every step keeps QueueInv.
LEMMA QueueNext ==
  ASSUME SpoolInv, NoReuse, [Next]_vars
  PROVE  QueueInv'
<1> USE PrintdAssumption DEF disk, env, mem
<1>1. TInv /\ QueueInv /\ TypeOK
  BY DEF SpoolInv, TInv
<1>2. CASE Start \/ Stop
  <2>1. queue' = <<>> /\ prn'.job = None /\ prn'.pc = "get"
    BY <1>2 DEF Start, Stop, Idle
  <2> QED
    BY <2>1 DEF QueueInv
<1>3. CASE ScanFile
  BY <1>3, QueueScan
<1>4. CASE TakeJob \/ OpenData \/ PrinterFails \/ UnlinkReq
  BY <1>4, QueuePrinter
<1>5. CASE /\ ScanDone \/ Sighup \/ EditConf \/ UNCHANGED vars
           /\ ~UnlinkReq
  <2>1. \A x \in Job : JobDone(x) => StaysDone(x)
    BY <1>5, JobStaysElse DEF Main
  <2>2. UNCHANGED <<queue, prn>>
    BY <1>5 DEF ScanDone, Sighup, EditConf, vars
  <2> QED
    BY <1>1, <2>1, <2>2, QueueFrame DEF QueueInv
<1>6. CASE Wait \/ update_jobno \/ CheckReread \/ Reload \/ Send \/ Awake \/ UnlinkData
  <2>1. PICK l \in PrinterPCs, m \in PrinterPCs :
          Prn(l, m) /\ (m \in {"connect", "status"} => l \in {"connect", "status"}) /\ queue' = queue
    BY <1>6 DEF Wait, update_jobno, CheckReread, Reload, Send, Awake, UnlinkData, PrinterPCs
  <2>2. prn'.job = prn.job /\ prn'.buf = prn.buf /\ prn.pc = l /\ prn'.pc = m
    BY <1>1, <2>1, PrinterMoves
  <2>3. \A x \in Job : JobDone(x) => StaysDone(x)
    <3>1. ~UnlinkReq
      BY <1>6 DEF UnlinkReq, Wait, update_jobno, CheckReread, Reload, Send, Awake, UnlinkData, Prn
    <3> QED
      BY <1>6, <3>1, JobStaysElse DEF PrinterThread
  <2> QED
    BY <1>1, <2>1, <2>2, <2>3, QueueFrame DEF QueueInv
<1>7. ASSUME NEW c \in Clients, Accept(c) \/ ClientThread(c) \/ ClientThreadFails(c) \/ Interrupt(c)
      PROVE  QueueInv'
  <2>1. \A x \in Job : JobDone(x) => StaysDone(x)
    BY <1>7, JobStaysClient
  <2>2. CASE QueueJob(c)
    <3> DEFINE x == [id |-> thr[c].id, doc |-> c]
    <3>1. /\ thr[c].pc = "addjob" /\ thr'[c].pc = "done" /\ UNCHANGED <<data, reqs, cli>> /\ add_job(x)
          /\ thr[c].id \in JobIds
      BY <1>1, <2>2, ThreadMoves DEF QueueJob, ThreadPCs, TInv, ThreadInv, NumberPCs
    <3>2. x \in Job /\ x.id = thr[c].id /\ x.doc = c
      BY <3>1 DEF Job
    <3>3. reqs[thr[c].id] = c
      BY <3>1 DEF SpoolInv, FileInv, FileOf
    <3>4. \A y \in Job : JobDone(y) => y.id # thr[c].id
      BY <3>1, JobNumber DEF NumberPCs
    <3>5. \A i \in DOMAIN queue : queue[i] \in Job
      BY <1>1, ElementOfSeq, LenProperties DEF TypeOK
    <3>6. \A i \in DOMAIN queue : queue[i].id # x.id
      BY <1>1, <3>2, <3>4, <3>5 DEF QueueInv
    <3>7. prn.job # None => prn.job.id # x.id
      BY <1>1, <3>2, <3>4 DEF QueueInv, TypeOK
    <3> HIDE DEF x
    <3>8. StaysDone(x)
      BY <3>1, <3>2, <3>3 DEF StaysDone
    <3> QED
      BY <2>1, <3>1, <3>2, <3>6, <3>7, <3>8, QueueAdd
  <2>3. CASE ~QueueJob(c)
    <3>1. UNCHANGED <<queue, prn>>
      BY <1>7, <2>3, ClientStep
    <3> QED
      BY <1>1, <2>1, <3>1, QueueFrame DEF QueueInv
  <2> QED
    BY <2>2, <2>3
<1> QED
  BY <1>2, <1>3, <1>4, <1>5, <1>6, <1>7 DEF Next, Main, PrinterThread

\* SpoolInv holds at first and is kept by every step.
LEMMA SpoolInvInit == NoReuse /\ Init => SpoolInv
<1> SUFFICES ASSUME NoReuse, Init PROVE SpoolInv
  OBVIOUS
<1> USE PrintdAssumption
<1>1. /\ \A c \in Clients : thr[c].id = None /\ thr[c].pc = "none"
      /\ \A j \in JobIds : data[j] = None /\ reqs[j] = None
      /\ queue = <<>> /\ prn.job = None /\ prn.pc = "get" /\ ~Up /\ used.crash = 0
  BY DEF Init, NoThread, Idle, Up
<1>2. Taken = {} /\ Cardinality(Taken) = 0
  BY <1>1, FS_EmptySet DEF Taken
<1>3. NumInv
  BY <1>1, <1>2 DEF NumInv
<1>4. FileInv
  BY <1>1 DEF FileInv, FileOf
<1>5. QueueInv
  BY <1>1 DEF QueueInv
<1> QED
  BY <1>3, <1>4, <1>5, TInvInit, RefuseInit DEF SpoolInv

LEMMA SpoolInvNext == NoReuse /\ SpoolInv /\ [Next]_vars => SpoolInv'
<1>1. SpoolInv => TInv /\ RefuseInv
  BY DEF SpoolInv
<1> QED
  BY <1>1, TInvNext, RefuseNext, NumNext, FileNext, QueueNext DEF SpoolInv

(* The list and the printer thread never hold a job twice, and every job they
   hold has its own control file: for any number of clients that come before
   the first stop, any stops, restarts, failures and deferrals. *)
THEOREM JobsAlwaysOwnTheirFiles ==
  ASSUME NoReuse
  PROVE  Spec => []JobsOwnTheirFiles
<1>1. SpoolInv => JobsOwnTheirFiles
  BY DEF SpoolInv, QueueInv, JobDone, JobsOwnTheirFiles, InHand
<1> QED
  BY <1>1, SpoolInvInit, SpoolInvNext, PTL DEF Spec
-----------------------------------------------------------------------------
(* What was acknowledged is printed or in the spool. *)

AckOf(c) ==
  cli[c] = "acked" =>
    /\ thr[c].pc \in {"addjob", "done"} /\ thr[c].id \in JobIds
    /\ printed[c] = 0 => data[thr[c].id] = [doc |-> c, n |-> Size] /\ reqs[thr[c].id] = c

\* The files of an acknowledged client are whole until it is printed, and the
\* printer thread removes files of printed documents only.
AckInv ==
  /\ prn.pc \in {"status", "unreq"} => printed[prn.job.doc] > 0
  /\ \A c \in Clients : AckOf(c)

\* A document is sent once, and once more after each lost answer and each stop;
\* one that was sent as often is not in memory any more, or its exchange with
\* the printer is over.
SentOf(c) == printed[c] = 1 + used.lost + used.crash =>
  /\ Up /\ thr[c].id \notin scan
  /\ \A i \in DOMAIN queue : queue[i].doc # c
  /\ prn.job # None /\ prn.job.doc = c => prn.pc \in {"status", "unreq"}
CountOf(c) ==
  /\ printed[c] <= 1 + used.lost + used.crash
  /\ thr[c].pc # "done" => printed[c] = 0
  /\ SentOf(c)
CountInv == \A c \in Clients : CountOf(c)

\* What is sent is the document of the job in hand.
LEMMA SendPrints ==
  ASSUME SpoolInv, Send
  PROVE  /\ prn.pc = "connect" /\ prn'.pc = "status" /\ prn'.job = prn.job /\ Up
         /\ prn.job \in Job /\ prn.job # None /\ JobDone(prn.job) /\ prn.job.doc \in Clients
         /\ printed'[prn.job.doc] = printed[prn.job.doc] + 1
         /\ \A c \in Clients : c # prn.job.doc => printed'[c] = printed[c]
<1> USE PrintdAssumption
<1>1. TInv /\ QueueInv /\ TypeOK
  BY DEF SpoolInv, TInv
<1>2. prn.pc = "connect" /\ prn'.pc = "status" /\ prn'.job = prn.job /\ Up
  BY <1>1, PrinterMoves DEF Send, PrinterPCs, Prn
<1>3. prn.job \in Job /\ prn.job # None /\ JobDone(prn.job) /\ prn.job.doc \in Clients
  BY <1>1, <1>2 DEF TInv, HandInv, HandPCs, QueueInv, Job
<1>4. (IF data[prn.job.id] = None THEN prn.buf ELSE data[prn.job.id]).doc = prn.job.doc
  BY <1>1, <1>2, <1>3, DataOwner DEF QueueInv
<1>5. printed' = [printed EXCEPT ![prn.job.doc] = @ + 1]
  BY <1>4 DEF Send
<1> QED
  BY <1>1, <1>2, <1>3, <1>5 DEF TypeOK

\* The client is no newly acknowledged one, and its files are there unless it
\* is printed.
AckSame(c) ==
  /\ cli'[c] = "acked" => cli[c] = "acked"
  /\ thr'[c].id = thr[c].id /\ (thr[c].pc \in {"addjob", "done"} => thr'[c].pc \in {"addjob", "done"})
  /\ cli[c] = "acked" /\ printed'[c] = 0 =>
       printed[c] = 0 /\ data'[thr[c].id] = data[thr[c].id] /\ reqs'[thr[c].id] = reqs[thr[c].id]

LEMMA AckFrame ==
  ASSUME NEW c, AckOf(c), AckSame(c)
  PROVE  AckOf(c)'
<1> QED
  BY DEF AckOf, AckSame

\* A step of a client's thread.
LEMMA AckClient ==
  ASSUME SpoolInv, AckInv, NoReuse, Prompt, NEW c \in Clients, NEW d \in Clients,
         Accept(c) \/ ClientThread(c) \/ ClientThreadFails(c) \/ Interrupt(c)
  PROVE  AckOf(d)'
<1> USE PrintdAssumption DEF disk, env, mem
<1>1. TypeOK /\ TInv /\ AckOf(d) /\ UNCHANGED printed
  BY ClientStep DEF SpoolInv, TInv, AckInv
<1>2. CASE d # c
  <2>1. thr'[d] = thr[d] /\ cli'[d] = cli[d]
    BY <1>2, ClientStep
  <2>2. CASE cli[d] = "acked"
    <3>1. thr[d].id \in JobIds /\ thr[d].id # None /\ thr[d].id # thr[c].id
      BY <1>1, <1>2, <2>2 DEF AckOf, JobIds, SpoolInv, NumInv
    <3>2. data'[thr[d].id] = data[thr[d].id] /\ reqs'[thr[d].id] = reqs[thr[d].id]
      BY <3>1, ClientStep
    <3> QED
      BY <1>1, <2>1, <3>2, AckFrame DEF AckSame
  <2>3. CASE cli[d] # "acked"
    BY <2>1, <2>3 DEF AckOf
  <2> QED
    BY <2>2, <2>3
<1>3. CASE d = c /\ Respond(c)
  <2>1. /\ thr[c].pc = "respond" /\ thr'[c].pc = "addjob" /\ thr'[c].id = thr[c].id /\ UNCHANGED <<data, reqs>>
        /\ thr[c].id \in JobIds /\ (cli'[c] = "acked" => cli[c] \in {"open", "acked"})
    BY <1>1, <1>3, ThreadMoves DEF Respond, Reply, ThreadPCs, TypeOK, TInv, ThreadInv, NumberPCs
  <2>2. cli[c] # "gone" => reqs[thr[c].id] = c /\ data[thr[c].id] = [doc |-> c, n |-> Size]
    BY <2>1 DEF SpoolInv, FileInv, FileOf
  <2> QED
    BY <1>3, <2>1, <2>2 DEF AckOf
<1>4. CASE d = c /\ ~Respond(c) /\ cli'[c] = "acked"
  <2>1. cli[c] = "acked"
    BY <1>1, <1>4 DEF TypeOK, Accept, ClientThread, ReadHeader, get_newjobno, CreatData, RecvPiece, EndOfData, CreatReq,
       WriteReq, UnlinkReqOf, UnlinkDataOf, QueueJob, ClientThreadFails, NoHeader, Interrupt,
       CreatDataFails, WritePieceFails, CreatReqFails, WriteReqFails, Refuse, Reply
  <2>2. thr[c].pc \in {"addjob", "done"}
    BY <1>1, <1>4, <2>1 DEF AckOf
  <2>3. QueueJob(c)
    BY <2>1, <2>2, <1>4 DEF Accept, ClientThread, ReadHeader, get_newjobno, CreatData, RecvPiece, EndOfData, CreatReq,
       WriteReq, UnlinkReqOf, UnlinkDataOf, ClientThreadFails, NoHeader, Interrupt,
       CreatDataFails, WritePieceFails, CreatReqFails, WriteReqFails, Refuse, Thr
  <2>4. thr'[c].pc = "done" /\ thr'[c].id = thr[c].id /\ UNCHANGED <<data, reqs>>
    BY <1>1, <2>3, ThreadMoves DEF QueueJob, ThreadPCs
  <2> QED
    BY <1>1, <1>4, <2>1, <2>4, AckFrame DEF AckSame
<1>5. CASE cli'[d] # "acked"
  BY <1>5 DEF AckOf
<1> QED
  BY <1>2, <1>3, <1>4, <1>5

\* A step of the main thread or the printer thread, and a stop.
LEMMA AckElse ==
  ASSUME SpoolInv, AckInv, NEW d \in Clients,
         Main \/ PrinterThread \/ PrinterFails \/ Sighup \/ EditConf \/ Stop \/ UNCHANGED vars
  PROVE  AckOf(d)'
<1> USE PrintdAssumption DEF disk, env, mem
<1>1. TypeOK /\ TInv /\ AckOf(d) /\ QueueInv /\ printed[d] \in Nat
  BY DEF SpoolInv, TInv, AckInv, TypeOK
<1>2. CASE Stop
  <2>1. UNCHANGED <<data, reqs, printed>>
    BY <1>2 DEF Stop
  <2>2. cli'[d] = "acked" => cli[d] = "acked"
    BY <1>1, <1>2 DEF Stop, TypeOK
  <2>3. thr'[d].id = thr[d].id /\ thr'[d].pc \in {"none", "done"} /\ (thr[d].pc # "none" => thr'[d].pc = "done")
    BY SMTT(60), <1>1, <1>2 DEF Stop, TypeOK
  <2> QED
    BY <1>1, <2>1, <2>2, <2>3, AckFrame DEF AckSame
<1>3. CASE Main \/ PrinterThread \/ PrinterFails \/ Sighup \/ EditConf \/ UNCHANGED vars
  <2>1. UNCHANGED <<thr, cli>>
    BY <1>3 DEF Main, Start, ScanFile, ScanDone, PrinterThread, TakeJob, Wait, update_jobno, CheckReread, Reload,
       OpenData, Send, Awake, UnlinkData, UnlinkReq, PrinterFails, SendFails, StatusLost, Sighup, EditConf, vars
  <2> SUFFICES ASSUME cli[d] = "acked", printed'[d] = 0
               PROVE  printed[d] = 0 /\ data'[thr[d].id] = data[thr[d].id] /\ reqs'[thr[d].id] = reqs[thr[d].id]
    BY <1>1, <2>1, AckFrame DEF AckSame
  <2>2. printed[d] = 0
    <3>1. CASE Send
      BY <1>1, <3>1, SendPrints
    <3>2. CASE ~Send
      BY <1>3, <3>2 DEF Main, Start, ScanFile, ScanDone, PrinterThread, TakeJob, Wait, update_jobno, CheckReread,
         Reload, OpenData, Awake, UnlinkData, UnlinkReq, PrinterFails, SendFails, StatusLost, Sighup, EditConf, vars
    <3> QED
      BY <3>1, <3>2
  <2>3. thr[d].id \in JobIds /\ reqs[thr[d].id] = d
    BY <1>1, <2>2 DEF AckOf
  <2>4. CASE ScanFile
    BY <1>1, <2>3, <2>4 DEF ScanFile, TypeOK
  <2>5. CASE UnlinkData \/ UnlinkReq
    <3>1. prn.pc \in {"status", "unreq"}
      BY <2>5 DEF UnlinkData, UnlinkReq, Prn
    <3>2. prn.job \in Job /\ prn.job # None /\ JobDone(prn.job)
      BY <1>1, <3>1 DEF TInv, HandInv, HandPCs, QueueInv
    <3>3. prn.job.doc # d
      BY <2>2, <3>1 DEF AckInv
    <3>4. thr[d].id # prn.job.id
      BY <3>2, <3>3, JobNumber
    <3> QED
      BY <1>1, <2>2, <2>3, <2>5, <3>4 DEF UnlinkData, UnlinkReq, TypeOK
  <2>6. CASE ~ScanFile /\ ~UnlinkData /\ ~UnlinkReq
    <3>1. UNCHANGED <<data, reqs>>
      BY <1>3, <2>6 DEF Main, Start, ScanDone, PrinterThread, TakeJob, Wait, update_jobno, CheckReread,
         Reload, OpenData, Send, Awake, PrinterFails, SendFails, StatusLost, Sighup, EditConf, vars
    <3> QED
      BY <2>2, <3>1
  <2> QED
    BY <2>4, <2>5, <2>6
<1> QED
  BY <1>2, <1>3

\* The printer thread removes files of printed documents only.
LEMMA AckPrinter ==
  ASSUME SpoolInv, AckInv, NoReuse, [Next]_vars, prn'.pc \in {"status", "unreq"}
  PROVE  printed'[prn'.job.doc] > 0
<1> USE PrintdAssumption DEF disk, env, mem
<1>1. TypeOK /\ TInv /\ QueueInv
  BY DEF SpoolInv, TInv
<1>2. CASE Send
  BY SMTT(60), <1>1, <1>2, SendPrints DEF TypeOK
<1>3. CASE ~Send
  <2>1. prn.pc \in {"status", "unreq"} /\ prn'.job = prn.job
    <3>1. CASE Main \/ Sighup \/ EditConf \/ Stop \/ UNCHANGED vars
      <4>1. prn' = prn \/ prn' = Idle \/ prn' = [prn EXCEPT !.pc = "get"]
        BY <3>1 DEF Main, Start, ScanFile, ScanDone, Sighup, EditConf, Stop, vars, add_job
      <4>2. Idle.pc = "get" /\ [prn EXCEPT !.pc = "get"].pc = "get"
        BY <1>1 DEF Idle, TypeOK
      <4> QED
        BY <4>1, <4>2
    <3>2. CASE Wait \/ update_jobno \/ CheckReread \/ Reload \/ Awake \/ UnlinkData
      <4>1. PICK l \in PrinterPCs, m \in PrinterPCs :
              Prn(l, m) /\ (m \in {"status", "unreq"} => l \in {"status", "unreq"})
        BY <3>2 DEF Wait, update_jobno, CheckReread, Reload, Awake, UnlinkData, PrinterPCs
      <4> QED
        BY <1>1, <4>1, PrinterMoves
    <3>3. CASE TakeJob \/ OpenData \/ PrinterFails \/ UnlinkReq
      <4>1. TakeJob => prn'.pc = "save"
        BY DEF TakeJob
      <4>2. OpenData => prn'.pc \in {"get", "connect"}
        BY <1>1 DEF OpenData, Idle, TypeOK
      <4>3. PrinterFails => prn'.pc = "sleep"
        BY DEF PrinterFails, SendFails, StatusLost, replace_job, Idle
      <4>4. UnlinkReq => prn'.pc = "get"
        BY DEF UnlinkReq, Idle
      <4> QED
        BY <3>3, <4>1, <4>2, <4>3, <4>4
    <3>4. ASSUME NEW c \in Clients, Accept(c) \/ ClientThread(c) \/ ClientThreadFails(c) \/ Interrupt(c)
          PROVE  prn.pc \in {"status", "unreq"} /\ prn'.job = prn.job
      <4>1. CASE QueueJob(c)
        BY <1>1, <4>1 DEF QueueJob, add_job, TypeOK
      <4>2. CASE ~QueueJob(c)
        BY <3>4, <4>2, ClientStep
      <4> QED
        BY <4>1, <4>2
    <3> QED
      BY <1>3, <3>1, <3>2, <3>3, <3>4 DEF Next, PrinterThread
  <2>2. printed' = printed
    <3>1. ASSUME NEW c \in Clients, Accept(c) \/ ClientThread(c) \/ ClientThreadFails(c) \/ Interrupt(c)
          PROVE  printed' = printed
      BY <3>1, ClientStep
    <3> QED
      BY <1>3, <3>1 DEF Next, Main, Start, ScanFile, ScanDone, PrinterThread, TakeJob, Wait, update_jobno, CheckReread,
         Reload, OpenData, Awake, UnlinkData, UnlinkReq, PrinterFails, SendFails, StatusLost, Sighup, EditConf, Stop, vars
  <2> QED
    BY <2>1, <2>2 DEF AckInv
<1> QED
  BY <1>2, <1>3

(* A document the client was told is accepted is never lost: until it has been
   printed its data file and its control file are whole in the spool, through
   any stops, restarts, failing calls and deferrals, when no number is given out
   twice and no client pauses longer than tread waits. *)
THEOREM AckedNeverLost ==
  ASSUME NoReuse, Prompt
  PROVE  Spec => []AckedNotLost
<1>1. Init => AckInv
  BY DEF Init, AckInv, AckOf, Idle
<1>2. SpoolInv /\ AckInv /\ [Next]_vars => AckInv'
  BY AckClient, AckElse, AckPrinter DEF AckInv, Next
<1>3. SpoolInv /\ AckInv => AckedNotLost
  <2> SUFFICES ASSUME SpoolInv, AckInv, NEW c \in Clients, cli[c] = "acked", ~(printed[c] > 0) PROVE Spooled(c)
    BY DEF AckedNotLost
  <2>1. printed[c] = 0
    BY DEF SpoolInv, TInv, TypeOK
  <2> QED
    BY <2>1 DEF AckInv, AckOf, Spooled
<1> QED
  BY <1>1, <1>2, <1>3, SpoolInvInit, SpoolInvNext, PTL DEF Spec
-----------------------------------------------------------------------------
(* What is printed twice. *)

Reasons == 1 + used.lost + used.crash

\* A step that prints nothing and gives no reason to print again.
LEMMA CountKept ==
  ASSUME NEW c, CountOf(c), printed'[c] = printed[c], Reasons' = Reasons,
         thr'[c].pc # "done" => thr[c].pc # "done",
         printed[c] = Reasons =>
           /\ Up' /\ thr'[c].id \notin scan'
           /\ \A i \in DOMAIN queue' : queue'[i].doc # c
           /\ prn'.job # None /\ prn'.job.doc = c => prn'.pc \in {"status", "unreq"}
  PROVE  CountOf(c)'
<1> QED
  BY DEF CountOf, SentOf, Reasons

\* What the count of c says of a document that has been sent as often as it may.
LEMMA CountSent ==
  ASSUME SpoolInv, NEW c, CountOf(c), c \in Clients, printed[c] = Reasons
  PROVE  /\ Up /\ thr[c].id \notin scan /\ thr[c].pc = "done"
         /\ \A i \in DOMAIN queue : queue[i].doc # c
         /\ prn.job # None /\ prn.job.doc = c => prn.pc \in {"status", "unreq"}
<1>1. Reasons \in Nat /\ Reasons # 0
  BY DEF SpoolInv, TInv, TypeOK, Reasons
<1> QED
  BY <1>1 DEF CountOf, SentOf, Reasons

\* Only a stop and a lost answer are reasons.
LEMMA ReasonsCount ==
  ASSUME TypeOK, [Next]_vars
  PROVE  /\ Reasons \in Nat
         /\ ~Stop /\ ~StatusLost => Reasons' = Reasons
         /\ Stop \/ StatusLost => Reasons' = Reasons + 1
<1>1. Stop /\ StatusLost => FALSE
  BY DEF Stop, StatusLost, Up
<1>2. used.lost \in Nat /\ used.crash \in Nat
  BY DEF TypeOK
<1> QED
  BY <1>1, <1>2, UsedCounts DEF Reasons

\* A step of a client's thread.
LEMMA CountClient ==
  ASSUME SpoolInv, NoReuse, [Next]_vars, NEW c \in Clients, CountOf(c), NEW d \in Clients,
         Accept(d) \/ ClientThread(d) \/ ClientThreadFails(d) \/ Interrupt(d)
  PROVE  CountOf(c)'
<1> USE PrintdAssumption
<1>1. TypeOK /\ TInv
  BY DEF SpoolInv, TInv
<1>2. UNCHANGED <<main, scan, printed>> /\ (c # d => thr'[c] = thr[c])
  BY ClientStep
<1>3. Reasons' = Reasons
  <2>1. ~Stop
    BY <1>2 DEF Stop, Up
  <2>2. ~StatusLost
    <3>1. CASE StatusLost
      <4>1. UNCHANGED <<thr, cli>> /\ prn' # prn /\ used'.lost = used.lost + 1
        BY <1>1, <3>1, SpendTypes DEF StatusLost, replace_job, Idle, TypeOK
      <4>2. QueueJob(d)
        BY <4>1, ClientStep
      <4> QED
        BY <1>1, <4>1, <4>2, ThreadMoves DEF QueueJob, ThreadPCs
    <3> QED
      BY <3>1
  <2> QED
    BY <1>1, <2>1, <2>2, ReasonsCount
<1>4. thr[c].pc = "done" => thr'[c] = thr[c]
  BY <1>2, ClientStep DEF RestPCs
<1>5. ASSUME printed[c] = Reasons
      PROVE  /\ Up' /\ thr'[c].id \notin scan'
             /\ \A i \in DOMAIN queue' : queue'[i].doc # c
             /\ prn'.job # None /\ prn'.job.doc = c => prn'.pc \in {"status", "unreq"}
  <2>1. /\ Up /\ thr[c].id \notin scan /\ thr[c].pc = "done"
        /\ \A i \in DOMAIN queue : queue[i].doc # c
        /\ prn.job # None /\ prn.job.doc = c => prn.pc \in {"status", "unreq"}
    BY <1>5, CountSent
  <2>2. CASE QueueJob(d)
    <3> DEFINE x == [id |-> thr[d].id, doc |-> d]
    <3>1. thr[d].pc = "addjob" /\ add_job(x) /\ d # c
      BY <1>1, <2>1, <2>2 DEF QueueJob, Thr
    <3>2. x \in Job /\ x.doc = d
      BY <1>1, <3>1 DEF TInv, ThreadInv, NumberPCs, Job
    <3> HIDE DEF x
    <3>3. /\ \A i \in DOMAIN queue' : (i \in DOMAIN queue /\ queue'[i] = queue[i]) \/ queue'[i] = x
          /\ prn'.job = prn.job /\ prn'.pc = IF prn.pc = "wait" THEN "get" ELSE prn.pc
      BY <1>1, <3>1, <3>2, AddJobTypes
    <3> QED
      BY <1>2, <1>4, <2>1, <3>1, <3>2, <3>3 DEF Up
  <2>3. CASE ~QueueJob(d)
    <3>1. UNCHANGED <<queue, prn>>
      BY <2>3, ClientStep
    <3> QED
      BY <1>2, <1>4, <2>1, <3>1 DEF Up
  <2> QED
    BY <2>2, <2>3
<1>6. thr'[c].pc # "done" => thr[c].pc # "done"
  BY <1>4
<1> QED
  BY <1>2, <1>3, <1>5, <1>6, CountKept

\* A document is sent: it was sent less often than it may.
LEMMA CountSend ==
  ASSUME SpoolInv, [Next]_vars, NEW c \in Clients, CountOf(c), Send
  PROVE  CountOf(c)'
<1> USE PrintdAssumption DEF env
<1>1. TypeOK /\ TInv /\ QueueInv /\ Reasons \in Nat /\ printed[c] \in Nat
  BY ReasonsCount DEF SpoolInv, TInv, TypeOK
<1>2. UNCHANGED <<thr, scan, queue, used, main>> /\ Up'
  BY DEF Send, Prn, Up
<1>3. Reasons' = Reasons
  BY <1>2 DEF Reasons
<1>4. /\ prn.pc = "connect" /\ prn'.pc = "status" /\ prn'.job = prn.job
      /\ prn.job \in Job /\ prn.job # None /\ JobDone(prn.job) /\ prn.job.doc \in Clients
      /\ printed'[prn.job.doc] = printed[prn.job.doc] + 1
      /\ \A d \in Clients : d # prn.job.doc => printed'[d] = printed[d]
  BY SendPrints
<1>5. CASE c = prn.job.doc
  <2>1. printed[c] # Reasons
    BY <1>4, <1>5, CountSent
  <2>2. printed'[c] <= Reasons
    BY <1>1, <1>4, <1>5, <2>1 DEF CountOf, Reasons
  <2>3. thr[c].pc = "done" /\ thr[c].id = prn.job.id
    BY <1>4, <1>5, JobNumber DEF JobDone
  <2>4. thr[c].id \notin scan
    BY <1>1, <1>4, <2>3 DEF TInv, ScanInv
  <2>5. \A i \in DOMAIN queue : queue[i].doc # c
    <3>1. \A i \in DOMAIN queue : queue[i] \in Job /\ JobDone(queue[i]) /\ queue[i].id # prn.job.id
      BY SMTT(60), <1>1, <1>4, ElementOfSeq, LenProperties DEF TypeOK, QueueInv
    <3> QED
      BY <2>3, <3>1, JobNumber
  <2> QED
    BY <1>2, <1>3, <1>4, <2>2, <2>3, <2>4, <2>5 DEF CountOf, SentOf, Reasons
<1>6. CASE c # prn.job.doc
  <2>1. printed[c] = Reasons => Up' /\ thr'[c].id \notin scan' /\ \A i \in DOMAIN queue' : queue'[i].doc # c
    BY <1>2, CountSent
  <2> QED
    BY <1>2, <1>3, <1>4, <1>6, <2>1, CountKept
<1> QED
  BY <1>5, <1>6

\* The printer thread takes, puts back and drops a job.
LEMMA CountPrinter ==
  ASSUME SpoolInv, [Next]_vars, NEW c \in Clients, CountOf(c), printed[c] = Reasons,
         TakeJob \/ OpenData \/ SendFails \/ UnlinkReq
  PROVE  /\ Up' /\ thr'[c].id \notin scan'
         /\ \A i \in DOMAIN queue' : queue'[i].doc # c
         /\ prn'.job # None /\ prn'.job.doc = c => prn'.pc \in {"status", "unreq"}
<1> USE PrintdAssumption
<1>1. TypeOK /\ TInv /\ queue \in Seq(Job)
  BY DEF SpoolInv, TInv, TypeOK
<1>2. UNCHANGED <<main, scan, thr>>
  BY DEF TakeJob, OpenData, SendFails, UnlinkReq
<1>3. /\ Up /\ thr[c].id \notin scan /\ thr[c].pc = "done"
      /\ \A i \in DOMAIN queue : queue[i].doc # c
      /\ prn.job # None /\ prn.job.doc = c => prn.pc \in {"status", "unreq"}
  BY CountSent
<1>4. CASE TakeJob
  <2>1. /\ queue # <<>> /\ queue' = Tail(queue) /\ prn'.job = Head(queue)
    BY <1>4 DEF TakeJob
  <2>2. /\ 1 \in DOMAIN queue /\ Head(queue) = queue[1]
        /\ \A i \in DOMAIN queue' : i + 1 \in DOMAIN queue /\ queue'[i] = queue[i + 1]
    BY <1>1, <2>1, TailJob
  <2> QED
    BY <1>2, <1>3, <2>1, <2>2 DEF Up
<1>5. CASE OpenData
  <2>1. prn.pc = "open" /\ queue' = queue /\ (prn'.job = None \/ prn'.job = prn.job)
    BY <1>1, <1>5 DEF OpenData, Idle, TypeOK
  <2> QED
    BY <1>2, <1>3, <2>1 DEF Up
<1>6. CASE SendFails
  <2>1. prn.pc = "connect" /\ queue' = <<prn.job>> \o queue /\ prn'.job = None
    BY <1>6 DEF SendFails, replace_job, Idle
  <2>2. prn.job \in Job /\ prn.job # None
    BY <1>1, <2>1 DEF TInv, HandInv, HandPCs
  <2>3. \A i \in DOMAIN queue' : queue'[i] = prn.job \/ (i - 1 \in DOMAIN queue /\ queue'[i] = queue[i - 1])
    BY <1>1, <2>1, <2>2, ConsJob
  <2> QED
    BY <1>2, <1>3, <2>1, <2>2, <2>3 DEF Up
<1>7. CASE UnlinkReq
  <2>1. queue' = queue /\ prn'.job = None
    BY <1>7 DEF UnlinkReq, Idle
  <2> QED
    BY <1>2, <1>3, <2>1 DEF Up
<1> QED
  BY <1>4, <1>5, <1>6, <1>7

\* build_qonstart, and the steps that leave the jobs alone, bring none back.
LEMMA CountElse ==
  ASSUME SpoolInv, [Next]_vars, NEW c \in Clients, CountOf(c), printed[c] = Reasons,
         \/ ScanFile \/ ScanDone \/ Sighup \/ EditConf \/ UNCHANGED vars
         \/ Wait \/ update_jobno \/ CheckReread \/ Reload \/ Awake \/ UnlinkData
  PROVE  /\ Up' /\ thr'[c].id \notin scan'
         /\ \A i \in DOMAIN queue' : queue'[i].doc # c
         /\ prn'.job # None /\ prn'.job.doc = c => prn'.pc \in {"status", "unreq"}
<1> USE PrintdAssumption DEF mem
<1>1. TypeOK /\ TInv /\ queue \in Seq(Job)
  BY DEF SpoolInv, TInv, TypeOK
<1>2. /\ Up /\ thr[c].id \notin scan /\ thr[c].pc = "done"
      /\ \A i \in DOMAIN queue : queue[i].doc # c
      /\ prn.job # None /\ prn.job.doc = c => prn.pc \in {"status", "unreq"}
  BY CountSent
<1>3. CASE ScanFile
  <2>1. PICK j \in scan :
         /\ j \in JobIds /\ scan' = scan \ {j} /\ UNCHANGED <<thr, main>> /\ reqs[j] # None
         /\ IF reqs[j] = "empty" THEN UNCHANGED <<queue, prn>> ELSE add_job([id |-> j, doc |-> reqs[j]])
    BY <1>1, <1>3 DEF ScanFile, TypeOK, TInv, ScanInv
  <2>2. CASE reqs[j] = "empty"
    BY <1>2, <2>1, <2>2 DEF Up
  <2>3. CASE reqs[j] # "empty"
    <3> DEFINE x == [id |-> j, doc |-> reqs[j]]
    <3>1. x \in Job /\ x.doc = reqs[j] /\ add_job(x)
      BY <1>1, <2>1, <2>3 DEF TypeOK, Job
    <3>2. reqs[j] # c
      <4>1. FileOf(c)
        BY DEF SpoolInv, FileInv
      <4> QED
        BY <1>2, <2>1, <4>1 DEF FileOf
    <3> HIDE DEF x
    <3>3. /\ \A i \in DOMAIN queue' : (i \in DOMAIN queue /\ queue'[i] = queue[i]) \/ queue'[i] = x
          /\ prn'.job = prn.job /\ prn'.pc = IF prn.pc = "wait" THEN "get" ELSE prn.pc
      BY <1>1, <3>1, AddJobTypes
    <3> QED
      BY <1>2, <2>1, <3>1, <3>2, <3>3 DEF Up
  <2> QED
    BY <2>2, <2>3
<1>4. CASE ScanDone \/ Sighup \/ EditConf \/ UNCHANGED vars
  <2>1. UNCHANGED <<scan, thr, queue, prn>> /\ Up'
    BY <1>2, <1>4 DEF ScanDone, Sighup, EditConf, vars, Up
  <2> QED
    BY <1>2, <2>1
<1>5. CASE Wait \/ update_jobno \/ CheckReread \/ Reload \/ Awake \/ UnlinkData
  <2>1. PICK l \in PrinterPCs, m \in PrinterPCs :
          /\ Prn(l, m) /\ (l \in {"status", "unreq"} => m \in {"status", "unreq"})
          /\ UNCHANGED <<scan, thr, queue, main>>
    BY <1>5 DEF Wait, update_jobno, CheckReread, Reload, Awake, UnlinkData, PrinterPCs
  <2> QED
    BY <1>1, <1>2, <2>1, PrinterMoves DEF Up
<1> QED
  BY <1>3, <1>4, <1>5

\* Every step keeps the count.
LEMMA CountNext ==
  ASSUME SpoolInv, NoReuse, CountInv, [Next]_vars, NEW c \in Clients
  PROVE  CountOf(c)'
<1> USE PrintdAssumption DEF disk, mem, env
<1>1. CountOf(c) /\ TypeOK /\ Reasons \in Nat /\ printed[c] \in Nat
  BY ReasonsCount DEF CountInv, SpoolInv, TInv, TypeOK
<1>2. CASE Send
  BY <1>1, <1>2, CountSend
<1>3. CASE Stop \/ StatusLost
  <2>1. Reasons' = Reasons + 1 /\ printed' = printed
    BY <1>1, <1>3, ReasonsCount DEF Stop, StatusLost
  <2>2. thr'[c].pc # "done" => thr[c].pc # "done"
    BY SMTT(60), <1>1, <1>3 DEF Stop, StatusLost, TypeOK
  <2>3. printed'[c] < Reasons'
    BY <1>1, <2>1 DEF CountOf, Reasons
  <2> QED
    BY <1>1, <2>1, <2>2, <2>3 DEF CountOf, SentOf, Reasons
<1>4. ASSUME NEW d \in Clients, Accept(d) \/ ClientThread(d) \/ ClientThreadFails(d) \/ Interrupt(d)
      PROVE  CountOf(c)'
  BY <1>1, <1>4, CountClient
<1>5. CASE /\ ~Stop /\ ~StatusLost /\ ~Send
           /\ Main \/ PrinterThread \/ PrinterFails \/ Sighup \/ EditConf \/ UNCHANGED vars
  <2>1. UNCHANGED <<thr, printed>>
    BY <1>5 DEF Main, Start, ScanFile, ScanDone, PrinterThread, TakeJob, Wait, update_jobno, CheckReread, Reload,
       OpenData, Awake, UnlinkData, UnlinkReq, PrinterFails, SendFails, Sighup, EditConf, vars
  <2>2. Reasons' = Reasons
    BY <1>1, <1>5, ReasonsCount
  <2>3. Start => printed[c] # Reasons
    BY <1>1, CountSent DEF Start, Up
  <2>4. printed[c] = Reasons =>
          /\ Up' /\ thr'[c].id \notin scan'
          /\ \A i \in DOMAIN queue' : queue'[i].doc # c
          /\ prn'.job # None /\ prn'.job.doc = c => prn'.pc \in {"status", "unreq"}
    BY <1>1, <1>5, <2>3, CountPrinter, CountElse DEF Main, PrinterThread, PrinterFails
  <2> QED
    BY <1>1, <2>1, <2>2, <2>4, CountKept
<1> QED
  BY <1>2, <1>3, <1>4, <1>5 DEF Next

(* A document is printed at most once, plus once for each answer of the printer
   that was lost and each stop of the daemon: no order of the client threads,
   the printer thread and build_qonstart prints it again for another reason. *)
THEOREM PrintedAgainOnlyForAReason ==
  ASSUME NoReuse
  PROVE  Spec => []PrintedAgainForAReason
<1>1. Init => CountInv
  BY DEF Init, CountInv, CountOf, SentOf
<1>2. SpoolInv /\ CountInv /\ [Next]_vars => CountInv'
  BY CountNext DEF CountInv
<1>3. CountInv => PrintedAgainForAReason
  BY DEF CountInv, CountOf, PrintedAgainForAReason
<1> QED
  BY <1>1, <1>2, <1>3, SpoolInvInit, SpoolInvNext, PTL DEF Spec
=============================================================================
