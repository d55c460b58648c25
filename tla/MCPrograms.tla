----------------------------- MODULE MCPrograms -----------------------------
(***************************************************************************)
(* Instances for TLC of components that share nothing with one another.    *)
(* Each behaviour is one of them, chosen by [part] in the initial state;   *)
(* they all keep their state in v1, v2, ...                                *)
(***************************************************************************)
EXTENDS Integers, FiniteSets, MCConversations

\* Their parameters; what each bounds is said where the component declares it.
CONSTANTS
  Peers,                        \* clients, copies or processes
  NALLOC, MaxReq, MaxStale,     \* Opend
  MAXLINE, Codes, MaxCalls,     \* FdPassing
  MaxTries,                     \* Ruptime
  MaxFd, MaxPopen,              \* Popen
  NLines, Room,                 \* Pipes
  NQ, MAXMSZ,                   \* PollMsg
  BUFLEN, MaxSent,              \* AsyncIO
  Flags, MaxOpen,               \* DbOpen
  MaxSend,                      \* Signals
  MaxSig,                       \* Daemon
  MaxOut,                       \* Pty
  NBUF, MaxSize,                \* Rot13
  Size, MaxOps,                 \* MemStream
  OPEN_MAX, Residue, MaxGrow,   \* MyDup2
  MaxFail, MaxMsg, MaxSpurious  \* calls that fail, messages, spurious wake-ups

VARIABLES part, v1, v2, v3, v4, v5, v6, v7, v8, v9, v10, v11

Status == INSTANCE PrinterStatus WITH
  Conversations <- MCTidy, Success <- MCSuccess, Failures <- MCFailures,
  conv <- v1, rest <- v2, pc <- v3, buf <- v4, i <- v5, datsz <- v6, result <- v7

Server == INSTANCE Opend WITH
  Clients <- Peers, Loops <- {"poll", "select"}, MaxReq <- [c \in Peers |-> MaxReq],
  loop <- v1, cl <- v2, queue <- v3, conn <- v4, client <- v5, watch <- v6, size <- v7,
  srv <- v8

Passing == INSTANCE FdPassing WITH
  variant <- v1, slack <- v2, pipe <- v3, call <- v4, inbox <- v5, chan <- v6,
  srv <- v7, result <- v8

Uptime == INSTANCE Ruptime WITH
  Clients <- Peers,
  prog <- v1, cli <- v2, queue <- v3, proc <- v4, data <- v5, chld <- v6, fails <- v7

Popen == INSTANCE Popen WITH
  maxfd <- MaxFd,
  start <- v1, fd <- v2, childpid <- v3, cmd <- v4, caller <- v5, fails <- v6

Pipes == INSTANCE Pipes WITH
  prog <- v1, par <- v2, chd <- v3, next <- v4, ends <- v5, pipe <- v6, buf <- v7,
  seen <- v8

Msgs == INSTANCE PollMsg WITH
  Programs <- {"pollmsg", "figure_17_3", "exercise_1a", "exercise_1b", "pollmsg2"},
  prog <- v1, sent <- v2, queue <- v3, helper <- v4, chan <- v5, main <- v6,
  printed <- v7, text <- v8, spurious <- v9

Async == INSTANCE AsyncIO WITH
  todo <- v1, handler <- v2, buffer <- v3, sock <- v4, early <- v5, set <- v6,
  pending <- v7, stop <- v8, left <- v9

DbOpen == INSTANCE DbOpen WITH
  Procs <- Peers,
  at <- v1, oflag <- v2, fds <- v3, size0 <- v4, idx <- v5, lock <- v6, fails <- v7,
  opens <- v8

Alarm == INSTANCE Alarm WITH
  Programs <- {"sleep", "sleep1", "sleep2", "figure_10_9", "read1", "read2", "ruptime_dg"},
  prog <- v1, pc <- v2, inside <- v3, timer <- v4, sig <- v5, jmpset <- v6, int <- v7,
  net <- v8

Signals == INSTANCE Signals WITH
  Programs <- {"suspend1", "suspend2", "critical", "mask", "abort", "proc_system", "system", "sigtstp"},
  prog <- v1, start <- v2, stack <- v3, act <- v4, mask <- v5, pending <- v6,
  flag <- v7, jmpbuf <- v8, kid <- v9, out <- v10, sent <- v11

Daemon == INSTANCE Daemon WITH
  Copies <- Peers, Programs <- {"reread", "reread2", "exercise_4"},
  prog <- v1, pc <- v2, proc <- v3, pending <- v4, in <- v5, out <- v6, lock <- v7,
  pidfile <- v8, due <- v9, nsig <- v10

Threads == INSTANCE Threads WITH
  Programs <- {"suspend", "condvar", "barrier", "exercise_5", "timeout", "atfork", "figure_12_17"},
  prog <- v1, pc <- v2, st <- v3, owner <- v4, data <- v5, spurious <- v6

Tty == INSTANCE Tty WITH
  Programs <- {"t_raw", "exercise_1", "getpass"},
  prog <- v1, pc <- v2, tty <- v3, ttystate <- v4, saved <- v5, blocked <- v6,
  pending <- v7, failed <- v8, out <- v9

Pty == INSTANCE Pty WITH
  opt <- v1, parent <- v2, child <- v3, program <- v4, driver <- v5, term <- v6,
  tty <- v7, lines <- v8, outside <- v9

Rot13 == INSTANCE Rot13 WITH
  st_size <- v1, off <- v2, i <- v3, numop <- v4, bufs <- v5, aiolist <- v6, out <- v7,
  pc <- v8, fails <- v9

Mem == INSTANCE MemStream WITH
  Modes <- {"r", "r+", "w", "w+", "a", "a+", "my"},
  mode <- v1, buf <- v2, vsize <- v3, curpos <- v4, file <- v5, nops <- v6

Dup2 == INSTANCE MyDup2 WITH
  MaxOpen <- MaxGrow, Garbage <- Residue,
  arg <- v1, before <- v2, fd <- v3, stack <- v4, pc <- v5, nopen <- v6

ASSUME ProgramsAssumption ==
  /\ Status!StatusAssumption
  /\ Server!OpendAssumption
  /\ Passing!FdAssumption
  /\ Uptime!RuptimeAssumption
  /\ Popen!PopenAssumption
  /\ Pipes!PipesAssumption
  /\ Msgs!PollMsgAssumption
  /\ Async!AsyncIOAssumption
  /\ DbOpen!DbOpenAssumption
  /\ Alarm!AlarmAssumption
  /\ Signals!SignalsAssumption
  /\ Threads!ThreadsAssumption
  /\ Rot13!Rot13Assumption
  /\ Mem!MemAssumption
  /\ Dup2!DupAssumption
-----------------------------------------------------------------------------
vars == <<part, v1, v2, v3, v4, v5, v6, v7, v8, v9, v10, v11>>

\* Init and Next of a part with n variables leave the others 0.
Unused6 == v7 = 0 /\ v8 = 0 /\ v9 = 0 /\ v10 = 0 /\ v11 = 0
Unused7 == v8 = 0 /\ v9 = 0 /\ v10 = 0 /\ v11 = 0
Unused8 == v9 = 0 /\ v10 = 0 /\ v11 = 0
Unused9 == v10 = 0 /\ v11 = 0
Unused10 == v11 = 0
Rest6 == UNCHANGED <<part, v7, v8, v9, v10, v11>>
Rest7 == UNCHANGED <<part, v8, v9, v10, v11>>
Rest8 == UNCHANGED <<part, v9, v10, v11>>
Rest9 == UNCHANGED <<part, v10, v11>>
Rest10 == UNCHANGED <<part, v11>>
Rest11 == UNCHANGED <<part>>

Init ==
  \/ part = "status" /\ Status!Init /\ Unused7
  \/ part = "opend" /\ Server!Init /\ Unused8
  \/ part = "fd" /\ Passing!Init /\ Unused8
  \/ part = "ruptime" /\ Uptime!Init /\ Unused7
  \/ part = "popen" /\ Popen!Init /\ Unused6
  \/ part = "pipes" /\ Pipes!Init /\ Unused8
  \/ part = "pollmsg" /\ Msgs!Init /\ Unused9
  \/ part = "async" /\ Async!Init /\ Unused9
  \/ part = "dbopen" /\ DbOpen!Init /\ Unused8
  \/ part = "alarm" /\ Alarm!Init /\ Unused8
  \/ part = "signals" /\ Signals!Init
  \/ part = "daemon" /\ Daemon!Init /\ Unused10
  \/ part = "threads" /\ Threads!Init /\ Unused6
  \/ part = "tty" /\ Tty!Init /\ Unused9
  \/ part = "pty" /\ Pty!Init /\ Unused9
  \/ part = "rot13" /\ Rot13!Init /\ Unused9
  \/ part = "mem" /\ Mem!Init /\ Unused6
  \/ part = "dup2" /\ Dup2!Init /\ Unused6

Next ==
  \/ part = "status" /\ Status!Next /\ Rest7
  \/ part = "opend" /\ Server!Next /\ Rest8
  \/ part = "fd" /\ Passing!Next /\ Rest8
  \/ part = "ruptime" /\ Uptime!Next /\ Rest7
  \/ part = "popen" /\ Popen!Next /\ Rest6
  \/ part = "pipes" /\ Pipes!Next /\ Rest8
  \/ part = "pollmsg" /\ Msgs!Next /\ Rest9
  \/ part = "async" /\ Async!Next /\ Rest9
  \/ part = "dbopen" /\ DbOpen!Next /\ Rest8
  \/ part = "alarm" /\ Alarm!Next /\ Rest8
  \/ part = "signals" /\ Signals!Next /\ Rest11
  \/ part = "daemon" /\ Daemon!Next /\ Rest10
  \/ part = "threads" /\ Threads!Next /\ Rest6
  \/ part = "tty" /\ Tty!Next /\ Rest9
  \/ part = "pty" /\ Pty!Next /\ Rest9
  \/ part = "rot13" /\ Rot13!Next /\ Rest9
  \/ part = "mem" /\ Mem!Next /\ Rest6
  \/ part = "dup2" /\ Dup2!Next /\ Rest6

\* Every process, thread and handler of a program is scheduled, the commands it
\* started and the kernel's timer and asynchronous I/O too; people, signals from
\* outside, spurious wake-ups and failures need not come.
Process1 ==
  \/ part = "status" /\ Status!Next /\ Rest7
  \/ part = "opend" /\ Server!Server /\ Rest8
  \/ part = "fd" /\ Passing!Server /\ Rest8
  \/ part = "ruptime" /\ (Uptime!initserver \/ Uptime!popen \/ Uptime!pclose \/ Uptime!Server(Uptime!Main)) /\ Rest7
  \/ part = "popen" /\ Popen!Caller /\ Rest6
  \/ part = "pipes" /\ Pipes!Parent /\ Rest8
  \/ part = "pollmsg" /\ Msgs!Main /\ Rest9
  \/ part = "async" /\ Async!Main /\ Rest9
  \/ part = "alarm" /\ Alarm!Program /\ Rest8
  \/ part = "signals" /\ Signals!Process /\ Rest11
  \/ part = "threads" /\ Threads!Thread("main") /\ Rest6
  \/ part = "pty" /\ Pty!Parent /\ Rest9
  \/ part = "rot13" /\ Rot13!Main /\ Rest9
Process2 ==
  \/ part = "fd" /\ (Passing!Receive \/ Passing!ReceiveEnd) /\ Rest8
  \/ part = "ruptime" /\ Uptime!sigchld_handler /\ Rest7
  \/ part = "popen" /\ 1 \in DOMAIN v4 /\ Popen!Command(1) /\ Rest6
  \/ part = "pipes" /\ Pipes!Child /\ Rest8
  \/ part = "pollmsg" /\ Msgs!Helper(1) /\ Rest9
  \/ part = "async" /\ Async!Sigio /\ Rest9
  \/ part = "alarm" /\ Alarm!Kernel /\ Rest8
  \/ part = "signals" /\ Signals!Child /\ Rest11
  \/ part = "threads" /\ Threads!Thread("t1") /\ Rest6
  \/ part = "pty" /\ Pty!Child /\ Rest9
  \/ part = "rot13" /\ Rot13!Completes /\ Rest9
Process3 ==
  \/ part = "popen" /\ 2 \in DOMAIN v4 /\ Popen!Command(2) /\ Rest6
  \/ part = "pollmsg" /\ Msgs!Helper(2) /\ Rest9
  \/ part = "threads" /\ Threads!Thread("t2") /\ Rest6
  \/ part = "pty" /\ Pty!Others /\ Rest9
Peer(c) ==
  \/ part = "opend" /\ (Server!cli_conn(c) \/ Server!Received(c)) /\ Rest8
  \/ part = "ruptime" /\ (Uptime!Child(c) \/ Uptime!Server(c)) /\ Rest7
  \/ part = "daemon" /\ Daemon!Running(c) /\ Rest10
UptimeClient(c) == part = "ruptime" /\ (Uptime!connect_retry(c) \/ Uptime!print_uptime(c)) /\ Rest7

Fairness ==
  /\ WF_vars(Process1) /\ WF_vars(Process2) /\ WF_vars(Process3)
  /\ \A c \in Peers : WF_vars(Peer(c)) /\ WF_vars(UptimeClient(c))

Spec == Init /\ [][Next]_vars /\ Fairness
-----------------------------------------------------------------------------
(* The select loop of opend handles a request with the uid of the client that
   sent it (run opend_uid: the poll loop does not). *)
UidRight == part = "opend" => (v1 = "select" => Server!UidRight)

(* Tables and descriptors agree.  opend: client[] and the set that is polled or
   selected name the same connections.  ruptime: a command has no connection but
   its own output.  popen: a command has its own end of its own pipe and no other,
   and childpid[] has the commands pclose must wait for.  db_open: one that fails
   leaves nothing open.  my_dup2: newfd is oldfd's duplicate and the loop ends. *)
DescriptorsRight ==
  CASE part = "opend" -> Server!TablesAgree
    [] part = "ruptime" -> Uptime!OwnSocketOnly
    [] part = "popen" -> Popen!Connected /\ Popen!ChildTable
    [] part = "dbopen" -> DbOpen!ClosedHasNone
    [] part = "dup2" -> Dup2!NewIsOld /\ Dup2!LoopEnds
    [] OTHER -> TRUE

(* Who asks gets the answer to this question, whole: printer_status returns 1 if
   and only if the printer accepted this job; recv_fd returns what was sent for
   the request of this csopen; no client of a ruptime server reads the end of its
   connection before an answer. *)
AnswersRight ==
  CASE part = "status" -> Status!StatusRight
    [] part = "fd" -> Passing!AnswerIsMine
    [] part = "ruptime" -> Uptime!AnsweredBeforeEnd
    [] OTHER -> TRUE

(* What comes out is what went in, in order and within its buffer: lines through
   pager and coprocess, messages through pollmsg and its variants (of exercise_1b's
   only the order, and that the text begins with the one sent), what the
   program under pty wrote before it ended, the blocks of rot13c2, the bytes of a
   memory stream with their terminator. *)
DataInOrder ==
  CASE part = "pipes" -> Pipes!LinesInOrder
    [] part = "pollmsg" -> Msgs!PrintedAsSent /\ Msgs!NoOverrun
    [] part = "pty" -> Pty!OutputCopied
    [] part = "rot13" -> Rot13!Translated
    [] part = "mem" -> Mem!FileKept /\ Mem!Terminated
    [] OTHER -> TRUE

(* What is for one at a time is: already_running lets one daemon serve; db_open
   never writes the hash table over records of another process; nobody is past a
   barrier before all have come; a message of condvar.c is taken once; retry runs
   once and not while its caller holds the mutex; a forked child finds its
   mutexes free. *)
OneAtATime ==
  CASE part = "daemon" -> Daemon!SingleDaemon
    [] part = "dbopen" -> DbOpen!NoTableOverRecords
    [] part = "threads" -> /\ Threads!NobodyEarly /\ Threads!TakenOnce
                           /\ Threads!RetryAlone /\ Threads!ChildMayLock
    [] OTHER -> TRUE

(* sleep and the versions with setjmp never wait for an alarm that has gone off,
   and no handler jumps to a frame that has not been saved. *)
WaitsSafely ==
  CASE part = "alarm" -> Alarm!NeverTooLate /\ Alarm!JumpIsSet
    [] part = "signals" -> Signals!JumpIsSet
    [] OTHER -> TRUE

(* Signals at the wrong moment do no harm: SIGIO before the handler is installed
   or while it runs; SIGABRT caught, blocked or ignored in abort; SIGINT and
   SIGQUIT for the command of system; a second SIGTSTP; SIGHUP in daemonize, and
   SIGTERM in reread. *)
SignalsHandled ==
  CASE part = "async" -> Async!NeverKilled /\ Async!NothingMissed
    [] part = "signals" -> Signals!AbortAborts /\ Signals!CommandAlone /\ Signals!HandlerBack
    [] part = "daemon" -> Daemon!HupSafe /\ Daemon!RereadWhole
    [] OTHER -> TRUE

(* What a program changes for itself is back when it ends: the mask, and in
   system the actions; the mode of the terminal after getpass, tty_reset,
   tty_atexit and pty; and a daemon has no terminal to give back. *)
LeftAsFound ==
  CASE part = "signals" -> Signals!MaskRestored
    [] part = "tty" -> Tty!TerminalRestored /\ Tty!SavedIsOriginal
    [] part = "pty" -> Pty!TerminalBack
    [] part = "daemon" -> Daemon!NoTerminal
    [] OTHER -> TRUE

(* A client of opend or of a ruptime server that waits gets its answer or the
   end of its connection; a daemon that runs rereads or ends after a SIGHUP. *)
Owed(c) ==
  CASE part = "opend" -> Server!Waiting(c)
    [] part = "ruptime" -> Uptime!Waits(c)
    [] part = "daemon" -> Daemon!Due(c)
    [] OTHER -> FALSE
RequestsHonoured == \A c \in Peers : Owed(c) ~> ~Owed(c)

(* opend closes the connection of every client that has gone; sigchld_handler
   waits for every child that has ended; when pty's parent has exited, its child,
   the program and the raw mode of the terminal go too. *)
LeftBehind(c) ==
  CASE part = "opend" -> Server!Abandoned(c)
    [] part = "ruptime" -> Uptime!Zombie(c)
    [] part = "pty" -> Pty!Left
    [] OTHER -> FALSE
LeftoversCleared == \A c \in Peers : LeftBehind(c) ~> ~LeftBehind(c)

(* Calls that block return: printer_status when no header line is cut in two,
   csopen whatever becomes of the server it started, pclose although other
   commands run, the calls on pipes, sleep and its relatives.  And what a program
   has been given is dealt with: messages printed, the peer's hang-up and SIGQUIT
   seen, the threads and the blocks of rot13c2 finished; pty's parent exits when
   the program on the slave has ended. *)
Unfinished ==
  CASE part = "status" -> v3 # "done"
    [] part = "fd" -> Passing!InCall
    [] part = "popen" -> Popen!InPclose
    [] part = "pipes" -> Pipes!Waits
    [] part = "alarm" -> Alarm!Asleep
    [] part = "pollmsg" -> Msgs!Unprinted
    [] part = "async" -> Async!HungUp
    [] part = "signals" -> Signals!MustEnd
    [] part = "threads" -> Threads!Unfinished
    [] part = "rot13" -> Rot13!Working
    [] part = "pty" -> Pty!Idle
    [] OTHER -> FALSE
WorkEnds == Unfinished ~> ~Unfinished
=============================================================================
