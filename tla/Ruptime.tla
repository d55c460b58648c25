------------------------------ MODULE Ruptime -------------------------------
(***************************************************************************)
(* The stream servers that answer each connection with the output of a     *)
(* command: sockets/ruptimed.c, ruptimed-fd.c and the servers of           *)
(* Chapter16, with their clients.  They differ in how the command is run   *)
(* and in what they do about their children:                               *)
(*   "popen"  the server copies the command's output from a pipe,          *)
(*   "exec"   a child becomes the command, the server waits for it,        *)
(*   "chld"   a child becomes the command, a SIGCHLD handler waits.        *)
(* A connection is at its end for the client when no process holds it.     *)
(***************************************************************************)
EXTENDS Integers, Sequences

CONSTANTS
  Clients,   \* clients; the child that serves c is called c
  MaxTries,  \* attempts of connect_retry
  MaxFail    \* bound on failing calls of fork and exec

VARIABLES
  prog,   \* the program that runs
  cli,    \* each client's state and number of attempts
  queue,  \* connections not accepted yet
  proc,   \* each process: pc, the client it works for, connections held
  data,   \* whether the client was sent anything
  chld,   \* a SIGCHLD is pending for the server
  fails   \* failures so far

vars == <<prog, cli, queue, proc, data, chld, fails>>

Main == "main"
Procs == Clients \cup {Main}
\* cloexec: the sockets are closed on exec; once: the client calls connect and
\* recv once each.
Program(s, x, o) == [serve |-> s, cloexec |-> x, once |-> o]
ruptimed     == Program("popen", TRUE, FALSE)
figure_16_17 == Program("popen", TRUE, FALSE)
exercise_3   == Program("popen", TRUE, FALSE)
exercise_4   == Program("popen", FALSE, TRUE)
ruptimed_fd  == Program("exec", TRUE, FALSE)
figure_16_18 == Program("exec", TRUE, FALSE)
exercise_5   == Program("chld", TRUE, FALSE)
Programs     == {ruptimed, figure_16_17, exercise_3, exercise_4, ruptimed_fd, figure_16_18, exercise_5}

RuptimeAssumption == MaxTries \in Nat \ {0} /\ MaxFail \in Nat /\ Main \notin Clients
-----------------------------------------------------------------------------
Gone == {"none", "zombie", "reaped", "exit"}
\* clfd and the standard output of a process, when they are connections.
Holds(p) == IF proc[p].pc \in Gone THEN {} ELSE proc[p].clfd \cup proc[p].out
\* Processes with the listening socket: everything that has not called exec.
Listeners == {p \in Procs : proc[p].pc \notin Gone \cup {"boot", "run"}}
At(p, l) == proc[p].pc = l
EOF(c) == c \notin {queue[k] : k \in DOMAIN queue} /\ \A p \in Procs : c \notin Holds(p)
MayFail == fails < MaxFail /\ fails' = fails + 1

\* exit: when the last listener goes, connections waiting for accept go too.
Exit(p) ==
  /\ proc' = [proc EXCEPT ![p] = [pc |-> IF p = Main THEN "exit" ELSE "zombie",
                                  c |-> @.c, clfd |-> {}, out |-> {}]]
  /\ queue' = IF Listeners \subseteq {p} THEN <<>> ELSE queue
  /\ chld' = (chld \/ p # Main)
-----------------------------------------------------------------------------
(* The clients: connect_retry and print_uptime of ruptime.c, or one connect
   and one recv. *)
connect_retry(c) ==
  /\ cli[c].pc = "start"
  /\ IF Listeners # {}
     THEN cli' = [cli EXCEPT ![c].pc = "conn"] /\ queue' = Append(queue, c)
     ELSE /\ cli' = [cli EXCEPT ![c] =
               [pc |-> IF prog.once \/ @.tries + 1 = MaxTries THEN "failed" ELSE "start",
                tries |-> @.tries + 1]]
          /\ UNCHANGED queue
  /\ UNCHANGED <<prog, proc, data, chld, fails>>

\* recv until it returns 0.
print_uptime(c) ==
  /\ cli[c].pc = "conn"
  /\ EOF(c) \/ (prog.once /\ data[c] # "none")
  /\ cli' = [cli EXCEPT ![c].pc = "done"]
  /\ UNCHANGED <<prog, queue, proc, data, chld, fails>>
-----------------------------------------------------------------------------
(* The servers. *)
\* main: daemonize, then initserver on each address; without one it can bind
\* the server exits.
initserver ==
  /\ At(Main, "boot")
  /\ \E l \in {"accept", "exit"} : proc' = [proc EXCEPT ![Main].pc = l]
  /\ UNCHANGED <<prog, cli, queue, data, chld, fails>>

\* The child of an exec server whose exec failed accepts too.
accept(p) ==
  /\ At(p, "accept") /\ queue # <<>>
  /\ proc' = [proc EXCEPT ![p] = [@ EXCEPT !.pc = "fork", !.c = Head(queue),
                                           !.clfd = {Head(queue)}]]
  /\ queue' = Tail(queue)
  /\ UNCHANGED <<prog, cli, data, chld, fails>>

\* A new process has copies of what its parent has.
Fork(p, parentpc, childpc) ==
  proc' = [proc EXCEPT ![p].pc = parentpc,
                       ![proc[p].c] = [proc[p] EXCEPT !.pc = childpc]]

\* serve of ruptimed.c: popen, whose failure is reported to the client.
popen ==
  /\ prog.serve = "popen" /\ At(Main, "fork")
  /\ \/ /\ Fork(Main, "copy", "exec")
        /\ UNCHANGED <<data, fails>>
     \/ /\ MayFail
        /\ data' = [data EXCEPT ![proc[Main].c] = "error"]
        /\ proc' = [proc EXCEPT ![Main].pc = "close"]
  /\ UNCHANGED <<prog, cli, queue, chld>>

\* fgets and send until the command has ended, and pclose.
pclose ==
  LET c == proc[Main].c
  IN  /\ At(Main, "copy") /\ At(c, "zombie")
      /\ data' = [data EXCEPT ![c] = "uptime"]
      /\ proc' = [proc EXCEPT ![Main].pc = "close", ![c].pc = "reaped"]
      /\ chld' = FALSE
      /\ UNCHANGED <<prog, cli, queue, fails>>

\* serve of ruptimed-fd.c and exercise_5.c: a failing fork ends the server.
fork(p) ==
  /\ prog.serve # "popen" /\ At(p, "fork")
  /\ \/ Fork(p, "close", "dup") /\ UNCHANGED <<queue, chld, fails>>
     \/ MayFail /\ Exit(p)
  /\ UNCHANGED <<prog, cli, data>>

close(p) ==
  /\ At(p, "close")
  /\ proc' = [proc EXCEPT ![p] =
       [@ EXCEPT !.clfd = {}, !.pc = IF prog.serve = "exec" THEN "wait" ELSE "accept"]]
  /\ UNCHANGED <<prog, cli, queue, data, chld, fails>>

waitpid(p) ==
  LET c == proc[p].c
  IN  /\ At(p, "wait") /\ At(c, "zombie")
      /\ proc' = [proc EXCEPT ![p].pc = "accept", ![c].pc = "reaped"]
      /\ UNCHANGED <<prog, cli, queue, data, chld, fails>>

\* exercise_5.c: sigchld_handler reaps every child that has ended.
sigchld_handler_one ==
  /\ prog.serve = "chld" /\ chld /\ ~At(Main, "exit")
  /\ chld' = FALSE
  /\ \E p \in Procs : At(p, "zombie") /\ proc' = [proc EXCEPT ![p].pc = "reaped"]
  /\ UNCHANGED <<prog, cli, queue, data, fails>>
sigchld_handler ==
  /\ prog.serve = "chld" /\ chld /\ ~At(Main, "exit")
  /\ chld' = FALSE
  /\ proc' = [p \in Procs |-> IF At(p, "zombie") THEN [proc[p] EXCEPT !.pc = "reaped"]
                                                 ELSE proc[p]]
  /\ UNCHANGED <<prog, cli, queue, data, fails>>

\* The child: dup2 to standard output and error, close; in exercise_5.c the
\* first child sleeps before exec.
dup2(c) ==
  /\ At(c, "dup")
  /\ proc' = [proc EXCEPT ![c] = [@ EXCEPT !.pc = "exec", !.out = {c}, !.clfd = {}]]
  /\ UNCHANGED <<prog, cli, queue, data, chld, fails>>

execl(c) ==
  /\ At(c, "exec")
  /\ proc' = [proc EXCEPT ![c] =
       [@ EXCEPT !.pc = "run", !.clfd = IF prog.cloexec THEN {} ELSE proc[c].clfd]]
  /\ UNCHANGED <<prog, cli, queue, data, chld, fails>>

\* exec fails: popen's child and that of exercise_5.c exit; that of
\* ruptimed-fd.c goes round the loop of serve.
execl_fails(c) ==
  /\ At(c, "exec") /\ MayFail
  /\ IF prog.serve = "exec"
     THEN proc' = [proc EXCEPT ![c].pc = "accept"] /\ UNCHANGED <<queue, chld>>
     ELSE Exit(c)
  /\ UNCHANGED <<prog, cli, data>>

\* The command prints its line and exits.
Command(c) ==
  /\ At(c, "run")
  /\ data' = IF prog.serve = "popen" THEN data ELSE [data EXCEPT ![c] = "uptime"]
  /\ Exit(c)
  /\ UNCHANGED <<prog, cli, fails>>
-----------------------------------------------------------------------------
Init ==
  /\ prog \in Programs
  /\ cli = [c \in Clients |-> [pc |-> "start", tries |-> 0]]
  /\ queue = <<>>
  /\ proc = [p \in Procs |-> [pc |-> IF p = Main THEN "boot" ELSE "none",
                              c |-> p, clfd |-> {}, out |-> {}]]
  /\ data = [c \in Clients |-> "none"]
  /\ chld = FALSE /\ fails = 0

Server(p) == accept(p) \/ fork(p) \/ close(p) \/ waitpid(p)
Child(c) == dup2(c) \/ execl(c) \/ execl_fails(c) \/ Command(c)

Next ==
  \/ initserver \/ popen \/ pclose \/ sigchld_handler
  \/ \E p \in Procs : Server(p)
  \/ \E c \in Clients : Child(c) \/ connect_retry(c) \/ print_uptime(c)
-----------------------------------------------------------------------------
\* A command started by a server that closes its sockets on exec has no
\* connection but its own output, so one client never waits for another's
\* command.
OwnSocketOnly ==
  prog.cloexec => \A c \in Clients : At(c, "run") => Holds(c) \subseteq {c} \cap proc[c].out

\* A client whose connection ends has an answer, unless a call failed.
AnsweredBeforeEnd ==
  \A c \in Clients : cli[c].pc = "done" /\ fails = 0 => data[c] # "none"

\* Is c still waiting, with no failed call to blame?  And is its child unreaped?
Waits(c) == cli[c].pc \in {"start", "conn"} /\ ~(prog.serve = "exec" /\ fails > 0)
Zombie(c) == At(c, "zombie") /\ ~At(Main, "exit") /\ prog.serve = "chld"
=============================================================================
