------------------------------- MODULE Printd -------------------------------
(***************************************************************************)
(* The print spooling daemon of apue.3e/printer: printd.c with the clients *)
(* of print.c and the timed reads of util.c.  One thread per client stores *)
(* a document as a data file and a control file named by a job number and  *)
(* queues it; one printer thread sends queued jobs to the printer and      *)
(* removes their files; a restarted daemon rebuilds the queue from the     *)
(* control files.  One action is one system call, or one stretch of code   *)
(* under a mutex; the daemon can stop between any two.                     *)
(***************************************************************************)
EXTENDS Integers, Sequences, FiniteSets

CONSTANTS
  Clients,   \* print commands, each with one document of its own
  Size,      \* pieces a document is read in (IOBUFSZ bytes each)
  MaxJob,    \* the largest int32_t
  Radix,     \* of the job file's digits: 10
  JobFiles,  \* what earlier daemons may have left in the job file
  Prompt,    \* no client pauses longer than tread waits
  Late,      \* clients connect after a restart as well
  MaxCrash,  \* bound: stops of the daemon
  MaxFail,   \* bound: failing creat and write calls of client threads
  MaxDefer,  \* bound: failed exchanges with the printer
  MaxEdit,   \* bound: edits of the configuration file
  None       \* no file, no job

\* int32_t, and a long brought into its range
JobIds == -(MaxJob + 1) .. MaxJob
Int32(n) == ((n + MaxJob + 1) % (2 * (MaxJob + 1))) - (MaxJob + 1)

\* The text of the job file: how many characters, and the number they spell.
Text == [len : Nat, num : Int]
Job == [id : JobIds, doc : Clients]
File == [doc : Clients, n : 0..Size]

ASSUME PrintdAssumption ==
  /\ Size \in Nat /\ MaxJob \in Nat \ {0} /\ Radix \in Nat \ {0, 1} /\ JobFiles \subseteq Text
  /\ Prompt \in BOOLEAN /\ Late \in BOOLEAN
  /\ {MaxCrash, MaxFail, MaxDefer, MaxEdit} \subseteq Nat
  /\ None \notin Clients \cup Job \cup File \cup JobIds \cup {"empty"} /\ "empty" \notin Clients

VARIABLES
  jobfile, \* the text in JOBFILE
  data,    \* DATADIR: job number -> document and pieces written
  reqs,    \* REQDIR: job number -> request; "empty" before it is written
  conf,    \* version of the configuration file
  main,    \* main thread: "down", "scan" (build_qonstart), "serve"
  scan,    \* control files build_qonstart has still to read
  nextjob,
  queue,   \* jobhead .. jobtail
  thr,     \* client threads: place and job number
  prn,     \* printer thread: place, job in hand, file as opened
  reread,
  printer, \* version of the configuration the printer address comes from
  cli,     \* the print command
  printed, \* document -> times printed
  hupped,  \* version of the configuration at the last SIGHUP
  used     \* how often each bounded fault happened

disk == <<jobfile, data, reqs>>
mem == <<main, scan, nextjob, queue, thr, prn, reread, printer>>
env == <<conf, cli, printed, hupped, used>>
vars == <<disk, mem, env>>

NoThread == [pc |-> "none", id |-> None, n |-> 0]
Idle == [pc |-> "get", job |-> None, buf |-> None]

Init ==
  /\ jobfile \in JobFiles
  /\ data = [j \in JobIds |-> None] /\ reqs = [j \in JobIds |-> None]
  /\ conf = 0 /\ main = "down" /\ scan = {} /\ nextjob = 0 /\ queue = <<>>
  /\ thr = [c \in Clients |-> NoThread] /\ prn = Idle
  /\ reread = FALSE /\ printer = 0
  /\ cli = [c \in Clients |-> "new"] /\ printed = [c \in Clients |-> 0] /\ hupped = 0
  /\ used = [crash |-> 0, fail |-> 0, defer |-> 0, lost |-> 0]

Up == main # "down"
Spend(what, max) == used[what] < max /\ used' = [used EXCEPT ![what] = @ + 1]
-----------------------------------------------------------------------------
(* main: start, rebuild the queue, serve. *)

\* daemonize .. pthread_create: init_request reads the job number, whatever the
\* digits in the file amount to, init_printer the configuration; printer_thread
\* starts before the scan.
Start ==
  /\ main = "down"
  /\ nextjob' = IF jobfile.len = 0 THEN 1 ELSE Int32(jobfile.num)
  /\ printer' = conf
  /\ prn' = Idle /\ queue' = <<>> /\ reread' = FALSE
  /\ main' = "scan" /\ scan' = {j \in JobIds : reqs[j] # None}
  /\ UNCHANGED <<disk, thr, env>>

\* Mutant: no pthread_cond_signal.
add_job_silent(j) == queue' = Append(queue, j) /\ UNCHANGED prn

\* add_job: under joblock, then signal the printer thread.
add_job(j) ==
  /\ queue' = Append(queue, j)
  /\ prn' = IF prn.pc = "wait" THEN [prn EXCEPT !.pc = "get"] ELSE prn

\* build_qonstart, one control file: queue the job, or drop a request that was
\* never completely written.
ScanFile ==
  /\ main = "scan"
  /\ \E j \in scan :
       /\ scan' = scan \ {j}
       /\ IF reqs[j] = "empty"
          THEN /\ reqs' = [reqs EXCEPT ![j] = None]
               /\ data' = [data EXCEPT ![j] = None]
               /\ UNCHANGED <<queue, prn>>
          ELSE /\ add_job([id |-> j, doc |-> reqs[j]])
               /\ UNCHANGED <<data, reqs>>
  /\ UNCHANGED <<jobfile, main, nextjob, thr, reread, printer, env>>

ScanDone ==
  /\ main = "scan" /\ scan = {}
  /\ main' = "serve"
  /\ UNCHANGED <<disk, scan, nextjob, queue, thr, prn, reread, printer, env>>

\* The select loop: accept and start a client thread.
Accept(c) ==
  /\ main = "serve" /\ cli[c] = "new" /\ (Late \/ used.crash = 0)
  /\ cli' = [cli EXCEPT ![c] = "open"]
  /\ thr' = [thr EXCEPT ![c].pc = "header"]
  /\ UNCHANGED <<disk, main, scan, nextjob, queue, prn, reread, printer,
                 conf, printed, hupped, used>>
-----------------------------------------------------------------------------
(* client_thread *)

Thr(c, from, to) == thr[c].pc = from /\ thr' = [thr EXCEPT ![c].pc = to]
\* The response reaches the client if it is still there.
Reply(c, what) == cli' = IF cli[c] = "open" THEN [cli EXCEPT ![c] = what] ELSE cli
\* A system call of the thread fails: answer the client, go on to clean up.
Refuse(c, from, to) ==
  /\ Thr(c, from, to)
  /\ Reply(c, "rejected")
  /\ UNCHANGED <<disk, main, scan, nextjob, queue, prn, reread, printer, conf, printed, hupped>>
\* The sender is silent for the whole timeout, or has closed its end.
Silent(c) == cli[c] = "gone" \/ ~Prompt

\* treadn of the header, 10 seconds
ReadHeader(c) ==
  /\ Thr(c, "header", "jobno")
  /\ UNCHANGED <<disk, main, scan, nextjob, queue, prn, reread, printer, env>>

NoHeader(c) == Silent(c) /\ Refuse(c, "header", "done") /\ UNCHANGED used

\* Mutant: the number is wider than an int32_t.
get_newjobno_nowrap(c) ==
  /\ thr[c].pc = "jobno"
  /\ thr' = [thr EXCEPT ![c] = [pc |-> "creat", id |-> nextjob, n |-> 0]]
  /\ nextjob' = nextjob + 1
  /\ UNCHANGED <<disk, main, scan, queue, prn, reread, printer, env>>

\* nextjob++ in an int32_t, and 1 when that is not positive
NextAfter(n) == IF n = MaxJob \/ n + 1 <= 0 THEN 1 ELSE n + 1

get_newjobno(c) ==
  /\ thr[c].pc = "jobno"
  /\ thr' = [thr EXCEPT ![c] = [pc |-> "creat", id |-> nextjob, n |-> 0]]
  /\ nextjob' = NextAfter(nextjob)
  /\ UNCHANGED <<disk, main, scan, queue, prn, reread, printer, env>>

\* creat truncates a file that exists.
CreatData(c) ==
  /\ Thr(c, "creat", "recv")
  /\ data' = [data EXCEPT ![thr[c].id] = [doc |-> c, n |-> 0]]
  /\ UNCHANGED <<jobfile, reqs, main, scan, nextjob, queue, prn, reread, printer, env>>

CreatDataFails(c) == Refuse(c, "creat", "done") /\ Spend("fail", MaxFail)

\* one turn of the tread loop: a piece arrives and is written to the open file,
\* wherever its name has gone
RecvPiece(c) ==
  LET j == thr[c].id
  IN /\ thr[c].pc = "recv" /\ thr[c].n < Size
     /\ thr' = [thr EXCEPT ![c].n = @ + 1]
     /\ data' = IF data[j] # None /\ data[j].doc = c THEN [data EXCEPT ![j].n = @ + 1] ELSE data
     /\ UNCHANGED <<jobfile, reqs, main, scan, nextjob, queue, prn, reread, printer, env>>

WritePieceFails(c) == Refuse(c, "recv", "undata") /\ Spend("fail", MaxFail)

\* tread returns 0 or -1: the print command never closes its end while it waits
\* for the answer, so the end of the document is a timeout of 20 seconds.
EndOfData(c) ==
  /\ Silent(c) \/ thr[c].n = Size
  /\ Thr(c, "recv", "creatreq")
  /\ UNCHANGED <<disk, main, scan, nextjob, queue, prn, reread, printer, env>>

\* Mutant: the request is not written to the control file.
CreatReqOnly(c) ==
  /\ Thr(c, "creatreq", "respond")
  /\ reqs' = [reqs EXCEPT ![thr[c].id] = "empty"]
  /\ UNCHANGED <<jobfile, data, main, scan, nextjob, queue, prn, reread, printer, env>>

CreatReq(c) ==
  /\ Thr(c, "creatreq", "writereq")
  /\ reqs' = [reqs EXCEPT ![thr[c].id] = "empty"]
  /\ UNCHANGED <<jobfile, data, main, scan, nextjob, queue, prn, reread, printer, env>>

\* Mutant: the data file is left behind.
CreatReqFailsLeaks(c) == Refuse(c, "creatreq", "done") /\ Spend("fail", MaxFail)

CreatReqFails(c) == Refuse(c, "creatreq", "undata") /\ Spend("fail", MaxFail)

WriteReq(c) ==
  /\ Thr(c, "writereq", "respond")
  /\ reqs' = [reqs EXCEPT ![thr[c].id] = c]
  /\ UNCHANGED <<jobfile, data, main, scan, nextjob, queue, prn, reread, printer, env>>

WriteReqFails(c) == Refuse(c, "writereq", "unreq") /\ Spend("fail", MaxFail)

\* the two unlinks of the error paths
UnlinkReqOf(c) ==
  /\ Thr(c, "unreq", "undata")
  /\ reqs' = [reqs EXCEPT ![thr[c].id] = None]
  /\ UNCHANGED <<jobfile, data, main, scan, nextjob, queue, prn, reread, printer, env>>

UnlinkDataOf(c) ==
  /\ Thr(c, "undata", "done")
  /\ data' = [data EXCEPT ![thr[c].id] = None]
  /\ UNCHANGED <<jobfile, reqs, main, scan, nextjob, queue, prn, reread, printer, env>>

Respond(c) ==
  /\ Thr(c, "respond", "addjob")
  /\ Reply(c, "acked")
  /\ UNCHANGED <<disk, main, scan, nextjob, queue, prn, reread, printer,
                 conf, printed, hupped, used>>

QueueJob(c) ==
  /\ Thr(c, "addjob", "done")
  /\ add_job([id |-> thr[c].id, doc |-> c])
  /\ UNCHANGED <<disk, main, scan, nextjob, reread, printer, env>>
-----------------------------------------------------------------------------
(* printer_thread *)

Prn(from, to) == Up /\ prn.pc = from /\ prn' = [prn EXCEPT !.pc = to]

\* Mutant: remove_job is forgotten.
TakeJobPeek ==
  /\ Up /\ prn.pc = "get" /\ queue # <<>>
  /\ prn' = [pc |-> "save", job |-> Head(queue), buf |-> None]
  /\ UNCHANGED <<disk, main, scan, nextjob, queue, thr, reread, printer, env>>

\* under joblock: take the head of the list
TakeJob ==
  /\ Up /\ prn.pc = "get" /\ queue # <<>>
  /\ prn' = [pc |-> "save", job |-> Head(queue), buf |-> None]
  /\ queue' = Tail(queue)
  /\ UNCHANGED <<disk, main, scan, nextjob, thr, reread, printer, env>>

\* pthread_cond_wait; a spurious wake-up finds the list empty and waits again
Wait ==
  /\ queue = <<>> /\ Prn("get", "wait")
  /\ UNCHANGED <<disk, main, scan, nextjob, queue, thr, reread, printer, env>>

Abs(n) == IF n < 0 THEN -n ELSE n
\* the characters of "%d"
Width(n) == Cardinality({k \in 1..(MaxJob + 1) : Radix^k <= Abs(n)}) + (IF n < 0 THEN 2 ELSE 1)

\* The number is written over the beginning of the file, which is not truncated:
\* the last characters of a longer text stay behind it and are read as its digits.
update_jobno ==
  /\ Prn("save", "config")
  /\ LET w == Width(nextjob)
         rest == IF jobfile.len > w THEN jobfile.len - w ELSE 0
     IN \E head, tail \in 0..Abs(jobfile.num) :
          /\ Abs(jobfile.num) = head * Radix^rest + tail /\ tail < Radix^rest
          /\ jobfile' = [len |-> w + rest,
                         num |-> nextjob * Radix^rest + (IF nextjob < 0 THEN -tail ELSE tail)]
  /\ UNCHANGED <<data, reqs, main, scan, nextjob, queue, thr, reread, printer, env>>

\* Mutant: the flag is cleared and the file not read.
CheckRereadForgets ==
  /\ Prn("config", "open")
  /\ reread' = FALSE
  /\ UNCHANGED <<disk, main, scan, nextjob, queue, thr, printer, env>>

\* under configlock: test and clear reread
CheckReread ==
  /\ Prn("config", IF reread THEN "reload" ELSE "open")
  /\ reread' = FALSE
  /\ UNCHANGED <<disk, main, scan, nextjob, queue, thr, printer, env>>

\* init_printer
Reload ==
  /\ Prn("reload", "open")
  /\ printer' = conf
  /\ UNCHANGED <<disk, main, scan, nextjob, queue, thr, reread, env>>

OpenData ==
  LET f == data[prn.job.id]
  IN /\ Up /\ prn.pc = "open"
     /\ prn' = IF f = None THEN Idle ELSE [prn EXCEPT !.pc = "connect", !.buf = f]
     /\ UNCHANGED <<disk, main, scan, nextjob, queue, thr, reread, printer, env>>

\* connect_retry, then the headers and the file; the printer prints what it got
Send ==
  LET f == IF data[prn.job.id] = None THEN prn.buf ELSE data[prn.job.id]
  IN /\ Prn("connect", "status")
     /\ printed' = [printed EXCEPT ![f.doc] = @ + 1]
     /\ UNCHANGED <<disk, main, scan, nextjob, queue, thr, reread, printer,
                    conf, cli, hupped, used>>

\* replace_job: back to the head of the list, then sleep a minute
replace_job ==
  /\ queue' = <<prn.job>> \o queue
  /\ prn' = [Idle EXCEPT !.pc = "sleep"]

\* no connection, or a write to the printer fails before it has the job
SendFails ==
  /\ Up /\ prn.pc = "connect"
  /\ Spend("defer", MaxDefer)
  /\ replace_job
  /\ UNCHANGED <<disk, main, scan, nextjob, thr, reread, printer, conf, cli, printed, hupped>>

\* printer_status does not return success although the job was printed
StatusLost ==
  /\ Up /\ prn.pc = "status"
  /\ Spend("lost", MaxDefer)
  /\ replace_job
  /\ UNCHANGED <<disk, main, scan, nextjob, thr, reread, printer, conf, cli, printed, hupped>>

Awake ==
  /\ Prn("sleep", "get")
  /\ UNCHANGED <<disk, main, scan, nextjob, queue, thr, reread, printer, env>>

\* Mutant: the result of printer_status is tested the wrong way round.
UnlinkNothing ==
  /\ Up /\ prn.pc = "status"
  /\ replace_job
  /\ UNCHANGED <<disk, main, scan, nextjob, thr, reread, printer, env>>

\* printer_status returned 1: unlink the data, then the control file
UnlinkData ==
  /\ Prn("status", "unreq")
  /\ data' = [data EXCEPT ![prn.job.id] = None]
  /\ UNCHANGED <<jobfile, reqs, main, scan, nextjob, queue, thr, reread, printer, env>>

UnlinkReq ==
  /\ Up /\ prn.pc = "unreq"
  /\ reqs' = [reqs EXCEPT ![prn.job.id] = None]
  /\ prn' = Idle
  /\ UNCHANGED <<jobfile, data, main, scan, nextjob, queue, thr, reread, printer, env>>
-----------------------------------------------------------------------------
(* Signals, stops, and the outside world. *)

\* signal_thread, SIGHUP
Sighup ==
  /\ Up
  /\ hupped' = conf
  /\ reread' = TRUE
  /\ UNCHANGED <<disk, main, scan, nextjob, queue, thr, prn, printer, conf, cli, printed, used>>

\* SIGTERM (kill_workers, exit), an exit of the daemon on an error (log_sys,
\* log_quit, init_printer without a printer), or a crash.
Stop ==
  /\ Up /\ Spend("crash", MaxCrash)
  /\ main' = "down" /\ scan' = {} /\ nextjob' = 0 /\ queue' = <<>>
  /\ prn' = Idle /\ reread' = FALSE
  /\ thr' = [c \in Clients |-> [thr[c] EXCEPT !.pc = IF @ = "none" THEN @ ELSE "done"]]
  /\ cli' = [c \in Clients |-> IF cli[c] = "open" THEN "gone" ELSE cli[c]]
  /\ UNCHANGED <<disk, printer, conf, printed, hupped>>

\* external: the user interrupts the print command; the configuration is edited
Interrupt(c) ==
  /\ cli[c] = "open"
  /\ cli' = [cli EXCEPT ![c] = "gone"]
  /\ UNCHANGED <<disk, mem, conf, printed, hupped, used>>

EditConf ==
  /\ conf < MaxEdit
  /\ conf' = conf + 1
  /\ UNCHANGED <<disk, mem, cli, printed, hupped, used>>
-----------------------------------------------------------------------------
Main == Start \/ ScanFile \/ ScanDone
ClientThread(c) ==
  \/ ReadHeader(c) \/ get_newjobno(c) \/ CreatData(c) \/ RecvPiece(c) \/ EndOfData(c)
  \/ CreatReq(c) \/ WriteReq(c) \/ UnlinkReqOf(c) \/ UnlinkDataOf(c)
  \/ Respond(c) \/ QueueJob(c)
ClientThreadFails(c) ==
  NoHeader(c) \/ CreatDataFails(c) \/ WritePieceFails(c) \/ CreatReqFails(c) \/ WriteReqFails(c)
PrinterThread ==
  \/ TakeJob \/ Wait \/ update_jobno \/ CheckReread \/ Reload \/ OpenData \/ Send
  \/ Awake \/ UnlinkData \/ UnlinkReq
PrinterFails == SendFails \/ StatusLost

Next ==
  \/ Main \/ PrinterThread \/ PrinterFails \/ Sighup \/ Stop \/ EditConf
  \/ \E c \in Clients : Accept(c) \/ ClientThread(c) \/ ClientThreadFails(c) \/ Interrupt(c)

\* The threads of the daemon are scheduled; stopping, failing, connecting and
\* giving up are choices of the outside world.
Fairness ==
  /\ WF_vars(ScanFile) /\ WF_vars(ScanDone) /\ WF_vars(PrinterThread)
  /\ \A c \in Clients : WF_vars(ClientThread(c))

Spec == Init /\ [][Next]_vars
FairSpec == Spec /\ Fairness
-----------------------------------------------------------------------------
(* Properties. *)

ThreadPCs == {"none", "header", "jobno", "creat", "recv", "creatreq", "writereq",
              "respond", "addjob", "unreq", "undata", "done"}
PrinterPCs == {"get", "wait", "save", "config", "reload", "open", "connect",
               "status", "sleep", "unreq"}

TypeOK ==
  /\ jobfile \in Text
  /\ data \in [JobIds -> File \cup {None}]
  /\ reqs \in [JobIds -> Clients \cup {None, "empty"}]
  /\ conf \in Nat /\ printer \in 0..conf /\ hupped \in 0..conf
  /\ main \in {"down", "scan", "serve"} /\ scan \subseteq JobIds
  /\ nextjob \in JobIds
  /\ queue \in Seq(Job)
  /\ thr \in [Clients -> [pc : ThreadPCs, id : JobIds \cup {None}, n : 0..Size]]
  /\ prn \in [pc : PrinterPCs, job : Job \cup {None}, buf : File \cup {None}]
  /\ reread \in BOOLEAN
  /\ cli \in [Clients -> {"new", "open", "acked", "rejected", "gone"}]
  /\ printed \in [Clients -> Nat]
  /\ used \in [{"crash", "fail", "defer", "lost"} -> Nat]

Spooled(c) ==
  \E j \in JobIds : data[j] = [doc |-> c, n |-> Size] /\ reqs[j] = c

(* A document the client was told is accepted ("request ID n") is printed, or
   its data file and control file are complete in the spool directory: stops
   between any two file operations, restarts, deferrals and the failures of
   other clients lose nothing. *)
AckedNotLost == \A c \in Clients : cli[c] = "acked" => printed[c] > 0 \/ Spooled(c)

\* The job the printer thread has taken.
InHand == {prn.job} \ {None}

(* The job list and the printer thread never hold one job twice, and every job
   they hold has its own control file in the spool, so a restart rebuilds what
   is in memory (build_qonstart, replace_job, remove_job). *)
JobsOwnTheirFiles ==
  LET ids == [i \in DOMAIN queue |-> queue[i].id]
  IN /\ \A i, k \in DOMAIN queue : ids[i] = ids[k] => i = k
     /\ \A i \in DOMAIN queue : \A j \in InHand : ids[i] # j.id
     /\ \A i \in DOMAIN queue : reqs[ids[i]] = queue[i].doc
     /\ \A j \in InHand : reqs[j.id] = j.doc

(* A document is printed again only when the printer's answer was lost or the
   daemon stopped before it removed the files. *)
PrintedAgainForAReason ==
  \A c \in Clients : printed[c] <= 1 + used.lost + used.crash

(* A client that was refused leaves no file behind once its thread has ended
   (the unlink calls of client_thread's error paths), unless a stop of the
   daemon ended the thread. *)
RefusedLeavesNothing ==
  \A c \in Clients :
    (cli[c] = "rejected" /\ thr[c].pc = "done" /\ used.crash = 0) =>
      \A j \in JobIds : (data[j] # None => data[j].doc # c) /\ reqs[j] # c

(* A SIGHUP is never lost: if the printer address is older than the
   configuration at the last SIGHUP, the next job will reload it. *)
RereadNotLost == (Up /\ printer < hupped) => reread \/ prn.pc = "reload"

(* A request whose control file is written is dealt with: its file goes. *)
JobsLeaveSpool ==
  \A j \in JobIds : (reqs[j] \in Clients) ~> (reqs[j] = None)

(* get_newjobno gives a number no accepted job in the spool has: "the job ID
   file" holds "the next job number", past them all. *)
JobIdsFresh == \A c \in Clients : thr[c].pc = "creat" => reqs[thr[c].id] \notin Clients
=============================================================================
