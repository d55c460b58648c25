-------------------------------- MODULE Tty ---------------------------------
(***************************************************************************)
(* Programs that change the mode of the terminal and must put it back:     *)
(* tty_raw, tty_cbreak and tty_reset of lib/ttymodes.c as used by          *)
(* termios/t_raw.c and Chapter18/exercise_1.c, and termios/getpass.c.  The *)
(* mode is the set of attributes that differ from the original; tcsetattr  *)
(* may succeed in part only, and a signal may come between two calls.      *)
(***************************************************************************)
EXTENDS Integers, Sequences

CONSTANT Programs  \* the programs to consider

VARIABLES
  prog,      \* the program
  pc,        \* its place in its calls
  tty,       \* the attributes that differ from the original mode
  ttystate,  \* RESET, RAW or CBREAK
  saved,     \* save_termios, ots: the mode that was saved
  blocked,   \* signals that are blocked
  pending,   \* blocked signals that were sent
  failed,    \* has tcsetattr failed to restore the mode?
  out        \* "run", or how the program ended

vars == <<prog, pc, tty, ttystate, saved, blocked, pending, failed, out>>

I(op, arg) == [op |-> op, arg |-> arg]
Cbreak == {"echo", "icanon", "cc"}
Raw == Cbreak \cup {"isig", "opost"}
Echo == {"echo"}

tty_raw == <<I("check", {}), I("save", {}), I("set", Raw), I("verify", Raw), I("mark", "RAW")>>
tty_cbreak == <<I("check", {}), I("save", {}), I("set", Cbreak), I("verify", Cbreak), I("mark", "CBREAK")>>
t_raw ==
  <<I("catch", {})>> \o tty_raw \o <<I("read", {}), I("reset", {})>>
    \o tty_cbreak \o <<I("read", {}), I("reset", {}), I("exit", {})>>
exercise_1 == tty_raw \o <<I("exit", {})>>

getpass_unblocks_first ==
  <<I("block", {"INT", "TSTP"}), I("save", {}), I("set", Echo), I("read", {}),
    I("unblock", {}), I("restore", {}), I("exit", {})>>
getpass ==
  <<I("block", {"INT", "TSTP"}), I("save", {}), I("set", Echo), I("read", {}),
    I("restore", {}), I("unblock", {}), I("exit", {})>>

Code == CASE prog = "t_raw" -> t_raw [] prog = "exercise_1" -> exercise_1
          [] prog = "getpass" -> getpass
ins == Code[pc]
Deliverable == pending \ blocked
At(op) == out = "run" /\ Deliverable = {} /\ ins.op = op
Step == pc' = pc + 1
Quit(how) == out' = how /\ UNCHANGED pc
-----------------------------------------------------------------------------
\* signal and sigprocmask
Signals ==
  /\ At("catch") \/ At("block") \/ At("unblock")
  /\ blocked' = IF ins.op = "catch" THEN blocked ELSE ins.arg
  /\ Step
  /\ UNCHANGED <<prog, tty, ttystate, saved, pending, failed, out>>

\* A second change of mode without a reset is refused.
check ==
  /\ At("check")
  /\ IF ttystate = "RESET" THEN Step /\ UNCHANGED out ELSE Quit("error")
  /\ UNCHANGED <<prog, tty, ttystate, saved, blocked, pending, failed>>

tcgetattr ==
  /\ At("save") /\ saved' = tty /\ Step
  /\ UNCHANGED <<prog, tty, ttystate, blocked, pending, failed, out>>

\* tcsetattr fails, or makes some of the changes; getpass does not look.
tcsetattr ==
  /\ At("set")
  /\ \/ \E S \in SUBSET ins.arg : S # {} /\ tty' = S /\ Step /\ UNCHANGED out
     \/ /\ IF prog = "getpass" THEN Step /\ UNCHANGED out ELSE Quit("error")
        /\ UNCHANGED tty
  /\ UNCHANGED <<prog, ttystate, saved, blocked, pending, failed>>

\* The second tcgetattr: not all of the changes, or an error, and the original
\* settings are put back; nobody looks whether that works.
verified(want) == tty = want

verify ==
  /\ At("verify")
  /\ \/ verified(ins.arg) /\ Step /\ UNCHANGED <<tty, failed, out>>
     \/ tty' = saved /\ Quit("error") /\ UNCHANGED failed
     \/ failed' = TRUE /\ Quit("error") /\ UNCHANGED tty
  /\ UNCHANGED <<prog, ttystate, saved, blocked, pending>>

mark ==
  /\ At("mark") /\ ttystate' = ins.arg /\ Step
  /\ UNCHANGED <<prog, tty, saved, blocked, pending, failed, out>>

\* read and getc until the last character.
read ==
  /\ At("read") /\ Step
  /\ UNCHANGED <<prog, tty, ttystate, saved, blocked, pending, failed, out>>

\* tty_reset, also from the handler; the new mode and whether it worked.
ResetTo(ok) == IF ttystate = "RESET" \/ ~ok THEN tty ELSE saved

\* err_sys when tty_reset fails, and after it when the read before has failed.
tty_reset ==
  /\ At("reset")
  /\ \E ok \in BOOLEAN :
       /\ tty' = ResetTo(ok)
       /\ IF ok THEN /\ ttystate' = "RESET" /\ UNCHANGED failed
                     /\ (Step /\ UNCHANGED out) \/ Quit("error")
                ELSE failed' = TRUE /\ Quit("error") /\ UNCHANGED ttystate
  /\ UNCHANGED <<prog, saved, blocked, pending>>

restore ==
  /\ At("restore") /\ Step
  /\ \/ tty' = saved /\ UNCHANGED failed
     \/ failed' = TRUE /\ UNCHANGED tty
  /\ UNCHANGED <<prog, ttystate, saved, blocked, pending, out>>

exit ==
  /\ At("exit") /\ Quit("exit")
  /\ UNCHANGED <<prog, tty, ttystate, saved, blocked, pending, failed>>
-----------------------------------------------------------------------------
\* A signal: typed, unless that is turned off, or sent.
Send(s) ==
  /\ out = "run" /\ pending = {} /\ pending' = {s}
  /\ UNCHANGED <<prog, pc, tty, ttystate, saved, blocked, failed, out>>

\* sig_catch of t_raw.c resets the mode and exits; otherwise it is the end.
sig_catch ==
  /\ out = "run" /\ Deliverable # {} /\ pending' = pending \ Deliverable
  /\ IF prog = "t_raw" /\ pc > 1
     THEN \E ok \in BOOLEAN :
            /\ tty' = ResetTo(ok) /\ failed' = ~ok /\ Quit("caught")
            /\ ttystate' = IF ok THEN "RESET" ELSE ttystate
     ELSE Quit("killed") /\ UNCHANGED <<tty, ttystate, failed>>
  /\ UNCHANGED <<prog, saved, blocked>>

Init ==
  /\ prog \in Programs /\ pc = 1 /\ tty = {} /\ ttystate = "RESET" /\ saved = Raw
  /\ blocked = {} /\ pending = {} /\ failed = FALSE /\ out = "run"

Process ==
  \/ Signals \/ check \/ tcgetattr \/ tcsetattr \/ verify \/ mark \/ read
  \/ tty_reset \/ restore \/ exit \/ sig_catch
Next == Process \/ \E s \in {"INT", "TERM"} : Send(s)
-----------------------------------------------------------------------------
\* A program that has ended leaves the terminal as it was, whether a change
\* failed in part, or a signal came at any point.  Exceptions: tcsetattr cannot
\* restore it; sig_catch runs inside tty_raw or tty_cbreak, when the mode has
\* changed and ttystate has not; getpass is killed by a signal it does not block.
TerminalRestored ==
  out # "run" /\ prog # "exercise_1" /\ ~failed =>
    \/ tty = {}
    \/ out = "caught" /\ ins.op \in {"verify", "mark"}
    \/ prog = "getpass" /\ out = "killed" /\ blocked # {}

\* While the mode is changed, what was saved is the original mode, and all the
\* changes were made.
SavedIsOriginal ==
  ttystate # "RESET" => saved = {} /\ tty = IF ttystate = "RAW" THEN Raw ELSE Cbreak
=============================================================================
