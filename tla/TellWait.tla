------------------------------ MODULE TellWait ------------------------------
(***************************************************************************)
(* Parent and child in turns: ipc1/devzero.c (and Chapter10/exercise_6.c,  *)
(* Chapter15/figure_15.33.c, exercise_15.c, which repeat the functions)    *)
(* over the TELL and WAIT functions of lib/tellwait.c, with signals, or of *)
(* ipc1/tellwait.c, with pipes.  "first" updates, tells and waits;         *)
(* "second" waits, updates and tells.  One action is one system call, one  *)
(* test or store of sigflag, or one half of the update.                    *)
(***************************************************************************)
EXTENDS Naturals

CONSTANT Loops \* how the two synchronise -> rounds each makes (NLOOPS / 2)

ASSUME TellAssumption ==
  /\ DOMAIN Loops \subseteq {"signal", "pipe"}
  /\ \A h \in DOMAIN Loops : Loops[h] \in Nat \ {0}

VARIABLES
  how,     \* "signal" or "pipe": which of the two tellwait.c is linked
  area,    \* the shared counter
  got,     \* process -> what update loaded
  i,       \* process -> rounds completed
  tpc,
  sigflag,
  blocked, \* process -> SIGUSR1 and SIGUSR2 are in its signal mask
  pending, \* process -> a signal has been sent and not delivered
  pipe     \* process -> bytes in the pipe it reads

tellVars == <<how, area, got, i, tpc, sigflag, blocked, pending, pipe>>

P == {"first", "second"}
Other(p) == CHOOSE q \in P : q # p

\* Mutant: TELL_WAIT does not block the signals.
TellInitUnblocked ==
  /\ how \in DOMAIN Loops
  /\ area = 0
  /\ got = [p \in P |-> 0]
  /\ i = [p \in P |-> 0]
  /\ tpc = [first |-> "load", second |-> "wait"]
  /\ sigflag = [p \in P |-> FALSE]
  /\ blocked = [p \in P |-> FALSE]
  /\ pending = [p \in P |-> FALSE]
  /\ pipe = [p \in P |-> 0]

\* After TELL_WAIT and fork.
TellInit ==
  /\ how \in DOMAIN Loops
  /\ area = 0
  /\ got = [p \in P |-> 0]
  /\ i = [p \in P |-> 0]
  /\ tpc = [first |-> "load", second |-> "wait"]
  /\ sigflag = [p \in P |-> FALSE]
  /\ blocked = [p \in P |-> how = "signal"]
  /\ pending = [p \in P |-> FALSE]
  /\ pipe = [p \in P |-> 0]

TellAt(p, l) == tpc[p] = l
TellJump(p, to) == tpc' = [tpc EXCEPT ![p] = to]
signals == <<sigflag, blocked, pending, pipe>>

\* The end of a round: "first" after its wait, "second" after its tell.
NextRound(p) ==
  /\ i' = [i EXCEPT ![p] = @ + 1]
  /\ TellJump(p, IF i'[p] = Loops[how] THEN "exit" ELSE IF p = "first" THEN "load" ELSE "wait")
-----------------------------------------------------------------------------
(* update: the load and the store of the increment, then the check in main. *)

Load(p) ==
  /\ TellAt(p, "load")
  /\ got' = [got EXCEPT ![p] = area]
  /\ TellJump(p, "store")
  /\ UNCHANGED <<how, area, i, signals>>

Expected(p) == 2 * i[p] + IF p = "first" THEN 0 ELSE 1

Store(p) ==
  /\ TellAt(p, "store")
  /\ area' = got[p] + 1
  /\ TellJump(p, IF got[p] = Expected(p) THEN "tell" ELSE "quit")   \* err_quit
  /\ UNCHANGED <<how, got, i, signals>>
-----------------------------------------------------------------------------
(* TELL_PARENT, TELL_CHILD: kill or write. *)

Told(p) == IF p = "first" THEN TellJump(p, "wait") /\ UNCHANGED i ELSE NextRound(p)

TellSignal(p) ==
  /\ how = "signal" /\ TellAt(p, "tell")
  /\ pending' = [pending EXCEPT ![Other(p)] = TRUE]
  /\ Told(p)
  /\ UNCHANGED <<how, area, got, sigflag, blocked, pipe>>

TellPipe(p) ==
  /\ how = "pipe" /\ TellAt(p, "tell")
  /\ pipe' = [pipe EXCEPT ![Other(p)] = @ + 1]
  /\ Told(p)
  /\ UNCHANGED <<how, area, got, sigflag, blocked, pending>>
-----------------------------------------------------------------------------
(* WAIT_PARENT, WAIT_CHILD *)

Waited(p) == IF p = "first" THEN NextRound(p) ELSE TellJump(p, "load") /\ UNCHANGED i

\* while (sigflag == 0)
TestFlag(p) ==
  /\ how = "signal" /\ TellAt(p, "wait")
  /\ TellJump(p, IF sigflag[p] THEN "clear" ELSE "suspend")
  /\ UNCHANGED <<how, area, got, i, signals>>

\* The handler, when the signal is not blocked or sigsuspend has unblocked it;
\* sigsuspend returns after the handler.
sig_usr(p) ==
  /\ pending[p] /\ (~blocked[p] \/ TellAt(p, "asleep"))
  /\ tpc[p] \notin {"exit", "quit"}
  /\ pending' = [pending EXCEPT ![p] = FALSE]
  /\ sigflag' = [sigflag EXCEPT ![p] = TRUE]
  /\ tpc' = IF TellAt(p, "asleep") THEN [tpc EXCEPT ![p] = "wait"] ELSE tpc
  /\ UNCHANGED <<how, area, got, i, blocked, pipe>>

\* sigsuspend installs the empty mask and sleeps; a pending signal is taken at
\* once.
sigsuspend(p) ==
  /\ TellAt(p, "suspend")
  /\ IF pending[p]
     THEN /\ pending' = [pending EXCEPT ![p] = FALSE]
          /\ sigflag' = [sigflag EXCEPT ![p] = TRUE]
          /\ TellJump(p, "wait")
     ELSE TellJump(p, "asleep") /\ UNCHANGED <<pending, sigflag>>
  /\ UNCHANGED <<how, area, got, i, blocked, pipe>>

ClearFlag(p) ==
  /\ TellAt(p, "clear")
  /\ sigflag' = [sigflag EXCEPT ![p] = FALSE]
  /\ TellJump(p, "unmask")
  /\ UNCHANGED <<how, area, got, i, blocked, pending, pipe>>

\* The mask saved by TELL_WAIT comes back: nothing is blocked any more.
ResetMask(p) ==
  /\ TellAt(p, "unmask")
  /\ blocked' = [blocked EXCEPT ![p] = FALSE]
  /\ Waited(p)
  /\ UNCHANGED <<how, area, got, sigflag, pending, pipe>>

\* read of one byte
ReadPipe(p) ==
  /\ how = "pipe" /\ TellAt(p, "wait") /\ pipe[p] > 0
  /\ pipe' = [pipe EXCEPT ![p] = @ - 1]
  /\ Waited(p)
  /\ UNCHANGED <<how, area, got, sigflag, blocked, pending>>
-----------------------------------------------------------------------------
update(p) == Load(p) \/ Store(p)
TELL(p) == TellSignal(p) \/ TellPipe(p)
WAIT(p) == TestFlag(p) \/ sigsuspend(p) \/ ClearFlag(p) \/ ResetMask(p) \/ ReadPipe(p)

TellNext == \E p \in P : update(p) \/ TELL(p) \/ WAIT(p) \/ sig_usr(p)

TellSpec == TellInit /\ [][TellNext]_tellVars
-----------------------------------------------------------------------------
(* Properties. *)

(* The processes take strict turns: none is in its update while the other is,
   and the counter never surprises either (err_quit in main). *)
InTurn ==
  /\ ~(tpc["first"] \in {"load", "store", "tell"} /\ tpc["second"] \in {"load", "store", "tell"})
  /\ \A p \in P : tpc[p] # "quit"

(* A process that waits is told in the end: it never sleeps with nothing
   coming, because the other also sleeps or has finished. *)
Sleeps(p) ==
  /\ TellAt(p, "asleep") \/ (how = "pipe" /\ TellAt(p, "wait") /\ pipe[p] = 0)
  /\ ~pending[p]
NobodyForgotten ==
  \A p \in P : Sleeps(p) => tpc[Other(p)] # "exit" /\ ~Sleeps(Other(p))

(* Parent and child alternate to the end: never both at the shared counter, and
   never neither, both in WAIT_PARENT or WAIT_CHILD.  With signals this holds for
   one round only: the first wait leaves the signals unblocked. *)
TurnsKept == InTurn /\ NobodyForgotten
=============================================================================
