-------------------------------- MODULE Pty ---------------------------------
(***************************************************************************)
(* The pty program: pty/main.c, loop.c and driver.c with pty_fork and      *)
(* ptym_open (lib/ptyfork.c, ptyopen.c).  parent copies the master to      *)
(* standard output; child copies standard input to the master; the program *)
(* runs on the slave; the driver, if any, is at the other end of standard  *)
(* input and output.  A descriptor of the master in any process keeps the  *)
(* slave's session alive.                                                  *)
(***************************************************************************)
EXTENDS Integers, FiniteSets

CONSTANT MaxOut  \* bound on the writes of the program

VARIABLES
  opt,      \* interactive, driver, ignoreeof
  parent,   \* pc, whether sig_term is installed, sigcaught
  child,    \* pc of the copying child
  program,  \* pc of the program on the slave
  driver,   \* pc of the driver
  term,     \* processes with a SIGTERM pending
  tty,      \* mode of the user's terminal
  lines,    \* output waiting in the pty, and writes so far
  outside   \* a SIGTERM from elsewhere, or a failed write or atexit, has disturbed the parent

vars == <<opt, parent, child, program, driver, term, tty, lines, outside>>

Gone == {"none", "gone"}
Raw == opt.interactive /\ ~opt.driver
\* The processes that have the master open: a driver inherits it too.
Masters ==
  {p \in {"parent", "child", "driver"} :
     \/ p = "parent" /\ parent.pc \notin Gone \cup {"start"}
     \/ p = "child" /\ child \notin Gone
     \/ p = "driver" /\ driver \notin Gone}

\* exit runs tty_atexit, also in the child, which was forked after atexit.
ExitHandlers == tty' = IF tty = "raw" THEN "reset" ELSE tty
Go(l) == parent' = [parent EXCEPT !.pc = l]
At(l) == parent.pc = l /\ "parent" \notin term
-----------------------------------------------------------------------------
\* pty_fork; its failure ends the program.
pty_fork ==
  /\ At("start")
  /\ \/ Go("setup") /\ program' = "run"
     \/ Go("gone") /\ UNCHANGED program
  /\ UNCHANGED <<opt, child, driver, term, tty, lines, outside>>

\* tty_raw and atexit(tty_atexit), when interactive and without a driver.  A
\* failing tty_raw leaves the terminal as it was, if it can undo its changes;
\* when it cannot, or atexit fails, the program ends in raw mode.
raw_mode ==
  /\ At("setup")
  /\ \/ Go("driver") /\ tty' = (IF Raw THEN "raw" ELSE tty) /\ UNCHANGED outside
     \/ Raw /\ Go("gone") /\ UNCHANGED <<tty, outside>>
     \/ Raw /\ Go("gone") /\ tty' = "raw" /\ outside' = TRUE
  /\ UNCHANGED <<opt, child, program, driver, term, lines>>

do_driver ==
  /\ At("driver")
  /\ \/ /\ Go("fork") /\ driver' = IF opt.driver THEN "run" ELSE driver
        /\ UNCHANGED tty
     \/ opt.driver /\ Go("gone") /\ ExitHandlers /\ UNCHANGED driver
  /\ UNCHANGED <<opt, child, program, term, lines, outside>>

\* loop: fork of the child, or err_sys.
fork ==
  /\ At("fork")
  /\ \/ Go("signal") /\ child' = "read" /\ UNCHANGED tty
     \/ Go("gone") /\ ExitHandlers /\ UNCHANGED child
  /\ UNCHANGED <<opt, program, driver, term, lines, outside>>

signal_intr ==
  /\ At("signal") /\ parent' = [parent EXCEPT !.pc = "read", !.handler = TRUE]
  /\ UNCHANGED <<opt, child, program, driver, term, tty, lines, outside>>

\* read of the master: output, or end of file when the program is gone.
enter_read ==
  /\ At("read") /\ Go("blocked")
  /\ UNCHANGED <<opt, child, program, driver, term, tty, lines, outside>>

slave_closed == lines.n = 0 /\ program \in Gone

read ==
  /\ At("blocked")
  /\ \/ lines.n > 0 /\ lines' = [lines EXCEPT !.n = @ - 1] /\ Go("write")
     \/ slave_closed /\ Go("end") /\ UNCHANGED lines
  /\ UNCHANGED <<opt, child, program, driver, term, tty, outside>>

\* A failing write ends the parent at once.
writen ==
  /\ At("write")
  /\ \/ Go("read") /\ UNCHANGED <<tty, outside>>
     \/ Go("gone") /\ ExitHandlers /\ outside' = TRUE
  /\ UNCHANGED <<opt, child, program, driver, term, lines>>

\* kill(child), if the child did not send the signal, and exit.
tell_child == child \notin Gone /\ ~parent.caught

finish ==
  /\ At("end") /\ Go("gone") /\ ExitHandlers
  /\ term' = IF tell_child THEN term \cup {"child"} ELSE term
  /\ UNCHANGED <<opt, child, program, driver, lines, outside>>

\* SIGTERM reaches the parent: without sig_term it dies and no exit handler
\* runs; in read it ends the loop, in writen the program; else it sets a flag.
sig_term ==
  /\ "parent" \in term /\ term' = term \ {"parent"}
  /\ IF ~parent.handler THEN Go("gone") /\ UNCHANGED <<tty, outside>>
     ELSE \/ /\ parent.pc = "write" /\ Go("gone") /\ ExitHandlers /\ outside' = TRUE
          \/ /\ parent' = [parent EXCEPT !.caught = TRUE,
                                         !.pc = IF @ = "blocked" THEN "end" ELSE @]
             /\ UNCHANGED <<tty, outside>>
  /\ UNCHANGED <<opt, child, program, driver, lines>>
-----------------------------------------------------------------------------
\* The child: end of standard input, of which the parent is told, or an error.
notify == ~opt.ignoreeof

stdin_eof ==
  /\ child = "read" /\ "child" \notin term
  /\ child' = "exit"
  /\ term' = IF notify /\ parent.pc # "gone" THEN term \cup {"parent"} ELSE term
  /\ UNCHANGED <<opt, parent, program, driver, tty, lines, outside>>

\* err_sys after a failing read or writen: nobody is told.
child_error ==
  /\ child = "read" /\ "child" \notin term
  /\ child' = "exit"
  /\ UNCHANGED <<opt, parent, program, driver, term, tty, lines, outside>>

child_exit ==
  /\ child = "exit" /\ child' = "gone" /\ ExitHandlers
  /\ UNCHANGED <<opt, parent, program, driver, term, lines, outside>>

child_killed ==
  /\ "child" \in term /\ child' = "gone" /\ term' = term \ {"child"}
  /\ UNCHANGED <<opt, parent, program, driver, tty, lines, outside>>

\* The program on the slave writes, and ends by itself or by the SIGHUP it
\* gets when the last descriptor of the master is closed.
program_writes ==
  /\ program = "run" /\ lines.total < MaxOut
  /\ lines' = [n |-> lines.n + 1, total |-> lines.total + 1]
  /\ UNCHANGED <<opt, parent, child, program, driver, term, tty, outside>>
program_ends ==
  /\ program = "run" /\ program' = "gone"
  /\ UNCHANGED <<opt, parent, child, driver, term, tty, lines, outside>>
program_hup ==
  /\ program = "run" /\ parent.pc = "gone" /\ Masters = {} /\ program' = "gone"
  /\ UNCHANGED <<opt, parent, child, driver, term, tty, lines, outside>>

\* The driver sees end of file when nobody else has its pipe.
driver_ends ==
  /\ driver = "run" /\ parent.pc = "gone" /\ child \in Gone /\ driver' = "gone"
  /\ UNCHANGED <<opt, parent, child, program, term, tty, lines, outside>>

\* A SIGTERM from another process.
kill_parent ==
  /\ ~outside /\ parent.pc \notin Gone
  /\ term' = term \cup {"parent"} /\ outside' = TRUE
  /\ UNCHANGED <<opt, parent, child, program, driver, tty, lines>>
-----------------------------------------------------------------------------
Init ==
  /\ opt \in [interactive : BOOLEAN, driver : BOOLEAN, ignoreeof : BOOLEAN]
  /\ parent = [pc |-> "start", handler |-> FALSE, caught |-> FALSE]
  /\ child = "none" /\ program = "none" /\ driver = "none"
  /\ term = {} /\ tty = "normal" /\ lines = [n |-> 0, total |-> 0] /\ outside = FALSE

Parent ==
  \/ pty_fork \/ raw_mode \/ do_driver \/ fork \/ signal_intr \/ enter_read \/ read
  \/ writen \/ finish \/ sig_term
Child == child_exit \/ child_killed
Others == program_hup \/ driver_ends
Next ==
  Parent \/ Child \/ Others \/ stdin_eof \/ child_error \/ program_writes \/ program_ends \/ kill_parent
-----------------------------------------------------------------------------
\* When the parent has exited the terminal is back in its mode; only a SIGTERM
\* that comes before sig_term is installed leaves that to the child's exit, and
\* only a failing atexit, or tty_raw that cannot undo itself, to nobody.
TerminalBack ==
  parent.pc = "gone" /\ tty = "raw" => ~parent.handler /\ (outside \/ child = "exit")

\* Nothing the program wrote before it ended is left in the pty when the
\* parent stops because of its end.
OutputCopied == parent.pc = "end" /\ ~parent.caught => lines.n = 0

\* The parent is gone and something it started is not.
Left ==
  parent.pc = "gone" /\ ~outside /\ (child \notin Gone \/ program = "run" \/ tty = "raw")
\* The program is gone and the parent is not.
Idle == program = "gone" /\ parent.pc # "gone"
=============================================================================
