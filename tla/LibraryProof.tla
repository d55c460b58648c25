---------------------------- MODULE LibraryProof ----------------------------
(***************************************************************************)
(* Proofs about the job queue (JobQueue), about parent and child in turns  *)
(* (TellWait), about the counting semaphores (Semaph) and about the        *)
(* reference-counted objects of mutex2.c (FooMutex2).                      *)
(***************************************************************************)
EXTENDS JobQueue, TellWait, Semaph, FooMutex2, FiniteSetTheorems, WellFoundedInduction, NaturalsInduction, TLAPS

(* TellWait.  One of the two has the turn: it is in its update, or it has been
   told and has not returned from WAIT_PARENT or WAIT_CHILD yet. *)
UpdatePCs == {"load", "store", "tell"}
WaitPCs == {"wait", "suspend", "asleep"}
TellPCs == UpdatePCs \cup WaitPCs \cup {"clear", "unmask", "exit"}

TellTypes ==
  /\ how \in DOMAIN Loops
  /\ area \in Nat
  /\ got \in [P -> Nat]
  /\ i \in [P -> Nat]
  /\ tpc \in [P -> TellPCs]
  /\ sigflag \in [P -> BOOLEAN]
  /\ blocked \in [P -> BOOLEAN]
  /\ pending \in [P -> BOOLEAN]
  /\ pipe \in [P -> Nat]

\* Nobody has told p anything that p has not acted upon.
NotTold(p) == ~pending[p] /\ ~sigflag[p] /\ pipe[p] = 0

\* p has been told once.  The signal is pending, then noted in sigflag, then
\* only p knows.
IsTold(p) ==
  /\ tpc[p] \in WaitPCs \cup {"clear", "unmask"}
  /\ how = "pipe" => pipe[p] = 1 /\ ~pending[p] /\ ~sigflag[p] /\ tpc[p] = "wait"
  /\ how = "signal" =>
       /\ pipe[p] = 0
       /\ tpc[p] = "unmask" => ~pending[p] /\ ~sigflag[p]
       /\ tpc[p] = "clear" => ~pending[p] /\ sigflag[p]
       /\ tpc[p] \in WaitPCs => (pending[p] <=> ~sigflag[p])

\* p works and o waits, both with n rounds done and the counter at c.
Working(p, o, c) ==
  /\ tpc[p] \in UpdatePCs /\ NotTold(p)
  /\ tpc[o] \in WaitPCs /\ NotTold(o)
  /\ tpc[p] = "store" => got[p] = area
  /\ area = IF tpc[p] = "tell" THEN c + 1 ELSE c

FirstWorks == Working("first", "second", 2 * i["first"]) /\ i["first"] = i["second"]
SecondTold ==
  /\ IsTold("second") /\ tpc["first"] \in WaitPCs /\ NotTold("first")
  /\ i["first"] = i["second"] /\ area = 2 * i["first"] + 1
SecondWorks == Working("second", "first", 2 * i["second"] + 1) /\ i["first"] = i["second"]
FirstTold ==
  /\ IsTold("first") /\ tpc["second"] \in {"exit"} \cup WaitPCs /\ NotTold("second")
  /\ i["second"] = i["first"] + 1 /\ area = 2 * i["second"]
BothDone == \A p \in P : tpc[p] = "exit"

Rounds ==
  /\ \A p \in P : i[p] <= Loops[how] /\ (i[p] = Loops[how] <=> tpc[p] = "exit")
  /\ how = "pipe" => \A p \in P : tpc[p] \notin {"suspend", "asleep"}

Turn == FirstWorks \/ SecondTold \/ SecondWorks \/ FirstTold \/ BothDone

TellInv == TellTypes /\ Rounds /\ Turn

\* In the only round with signals, they are blocked until the wait is over, and
\* sigsuspend does not run with the flag set.
OneRound == "signal" \in DOMAIN Loops => Loops["signal"] = 1
Held ==
  how = "signal" =>
    \A p \in P : /\ tpc[p] # "exit" /\ (p = "second" => tpc[p] \notin UpdatePCs) => blocked[p]
                 /\ tpc[p] \in {"suspend", "asleep"} => ~sigflag[p]
-----------------------------------------------------------------------------
\* The process p is not.
LEMMA TheOther == Other("first") = "second" /\ Other("second") = "first"
<1>1. \E r \in P : r # "first"
  BY DEF P
<1>2. \E r \in P : r # "second"
  BY DEF P
<1> QED BY <1>1, <1>2 DEF Other, P

\* The initial state, after TELL_WAIT and fork: the first process works.
LEMMA TellStarts ==
  ASSUME TellInit
  PROVE TellInv
<1> USE TellAssumption DEF P
<1>1. tpc["first"] = "load" /\ tpc["second"] = "wait" /\ tpc \in [P -> TellPCs]
  BY DEF TellInit, TellPCs, UpdatePCs, WaitPCs
<1>2. TellTypes
  BY <1>1 DEF TellInit, TellTypes
<1>3. Rounds
  BY <1>1 DEF TellInit, Rounds
<1>4. FirstWorks
  BY <1>1 DEF TellInit, FirstWorks, Working, NotTold, UpdatePCs, WaitPCs
<1> QED BY <1>2, <1>3, <1>4 DEF TellInv, Turn

\* The half of update that loads the counter.
LEMMA LoadTurn ==
  ASSUME TellInv, NEW p \in P, Load(p)
  PROVE TellInv'
<1> USE TellAssumption DEF P
<1>1. tpc[p] = "load" /\ tpc' = [tpc EXCEPT ![p] = "store"] /\ got' = [got EXCEPT ![p] = area]
      /\ UNCHANGED <<how, area, i, sigflag, blocked, pending, pipe>>
  BY DEF Load, TellAt, TellJump, signals
<1>2. TellTypes /\ Rounds /\ Turn
  BY DEF TellInv
<1>3. TellTypes'
  BY <1>1, <1>2 DEF TellTypes, TellPCs, UpdatePCs
<1>4. Rounds'
  BY <1>1, <1>2 DEF TellTypes, Rounds
<1>5. CASE p = "first"
  <2>1. FirstWorks
    BY <1>1, <1>2, <1>5 DEF Turn, FirstWorks, SecondTold, SecondWorks, FirstTold, BothDone,
       Working, IsTold, UpdatePCs, WaitPCs
  <2>2. FirstWorks'
    BY <1>1, <1>2, <1>5, <2>1 DEF FirstWorks, Working, NotTold, UpdatePCs, WaitPCs, TellTypes
  <2> QED BY <1>3, <1>4, <2>2 DEF TellInv, Turn
<1>6. CASE p = "second"
  <2>1. SecondWorks
    BY <1>1, <1>2, <1>6 DEF Turn, FirstWorks, SecondTold, SecondWorks, FirstTold, BothDone,
       Working, IsTold, UpdatePCs, WaitPCs
  <2>2. SecondWorks'
    BY <1>1, <1>2, <1>6, <2>1 DEF SecondWorks, Working, NotTold, UpdatePCs, WaitPCs, TellTypes
  <2> QED BY <1>3, <1>4, <2>2 DEF TellInv, Turn
<1> QED BY <1>5, <1>6

\* The half that stores, and the check in main: the process never quits.
LEMMA StoreTurn ==
  ASSUME TellInv, NEW p \in P, Store(p)
  PROVE TellInv'
<1> USE TellAssumption DEF P
<1>1. tpc[p] = "store" /\ area' = got[p] + 1
      /\ tpc' = [tpc EXCEPT ![p] = IF got[p] = Expected(p) THEN "tell" ELSE "quit"]
      /\ UNCHANGED <<how, got, i, sigflag, blocked, pending, pipe>>
  BY DEF Store, TellAt, TellJump, signals
<1>2. TellTypes /\ Rounds /\ Turn
  BY DEF TellInv
<1>3. (p = "first" => FirstWorks) /\ (p = "second" => SecondWorks)
  BY <1>1, <1>2 DEF Turn, FirstWorks, SecondTold, SecondWorks, FirstTold, BothDone,
     Working, IsTold, UpdatePCs, WaitPCs
<1>4. got[p] = Expected(p)
  BY <1>1, <1>2, <1>3 DEF FirstWorks, SecondWorks, Working, Expected, TellTypes
<1>5. tpc' = [tpc EXCEPT ![p] = "tell"]
  BY <1>1, <1>4
<1>6. TellTypes'
  BY <1>1, <1>2, <1>5 DEF TellTypes, TellPCs, UpdatePCs
<1>7. Rounds'
  BY <1>1, <1>2, <1>5 DEF TellTypes, Rounds
<1>8. CASE p = "first"
  <2>2. FirstWorks'
    BY <1>1, <1>2, <1>3, <1>5, <1>8 DEF FirstWorks, Working, NotTold, UpdatePCs, WaitPCs, TellTypes
  <2> QED BY <1>6, <1>7, <2>2 DEF TellInv, Turn
<1>9. CASE p = "second"
  <2>2. SecondWorks'
    BY <1>1, <1>2, <1>3, <1>5, <1>9 DEF SecondWorks, Working, NotTold, UpdatePCs, WaitPCs, TellTypes
  <2> QED BY <1>6, <1>7, <2>2 DEF TellInv, Turn
<1> QED BY <1>8, <1>9

\* TELL_CHILD, TELL_PARENT with kill: the turn passes.
LEMMA TellSignalTurn ==
  ASSUME TellInv, NEW p \in P, TellSignal(p)
  PROVE TellInv'
<1> USE TellAssumption, TheOther DEF P
<1>1. /\ how = "signal" /\ tpc[p] = "tell"
      /\ pending' = [pending EXCEPT ![Other(p)] = TRUE]
      /\ UNCHANGED <<how, area, got, sigflag, blocked, pipe>>
  BY DEF TellSignal, TellAt
<1>2. TellTypes /\ Rounds /\ Turn
  BY DEF TellInv
<1>3. (p = "first" => FirstWorks) /\ (p = "second" => SecondWorks)
  BY <1>1, <1>2 DEF Turn, FirstWorks, SecondTold, SecondWorks, FirstTold, BothDone,
     Working, IsTold, NotTold, UpdatePCs, WaitPCs
<1>4. CASE p = "first"
  <2>1. tpc' = [tpc EXCEPT !["first"] = "wait"] /\ i' = i
        /\ pending' = [pending EXCEPT !["second"] = TRUE]
    BY <1>1, <1>4 DEF TellSignal, Told, TellJump
  <2>2. TellTypes' /\ Rounds'
    BY <1>1, <1>2, <1>4, <2>1 DEF TellTypes, Rounds, TellPCs, WaitPCs
  <2>3. SecondTold'
    BY <1>1, <1>2, <1>3, <1>4, <2>1
       DEF TellTypes, FirstWorks, SecondTold, Working, IsTold, NotTold, WaitPCs
  <2> QED BY <2>2, <2>3 DEF TellInv, Turn
<1>5. CASE p = "second"
  <2>1. /\ i' = [i EXCEPT !["second"] = i["second"] + 1]
        /\ tpc' = [tpc EXCEPT !["second"] = IF i["second"] + 1 = Loops[how] THEN "exit" ELSE "wait"]
        /\ pending' = [pending EXCEPT !["first"] = TRUE]
    BY <1>1, <1>2, <1>5 DEF TellSignal, Told, NextRound, TellJump, TellTypes
  <2>2. TellTypes'
    BY <1>1, <1>2, <2>1 DEF TellTypes, TellPCs, WaitPCs
  <2>3. i["second"] < Loops[how]
    BY <1>1, <1>2, <1>5 DEF TellTypes, Rounds
  <2>4. Rounds'
    BY <1>1, <1>2, <2>1, <2>3 DEF TellTypes, Rounds
  <2>5. FirstTold'
    BY <1>1, <1>2, <1>3, <1>5, <2>1
       DEF TellTypes, FirstTold, SecondWorks, Working, IsTold, NotTold, WaitPCs
  <2> QED BY <2>2, <2>4, <2>5 DEF TellInv, Turn
<1> QED BY <1>4, <1>5

\* The same with a byte in the pipe of the other.
LEMMA TellPipeTurn ==
  ASSUME TellInv, NEW p \in P, TellPipe(p)
  PROVE TellInv'
<1> USE TellAssumption, TheOther DEF P
<1>1. /\ how = "pipe" /\ tpc[p] = "tell"
      /\ pipe' = [pipe EXCEPT ![Other(p)] = pipe[Other(p)] + 1]
      /\ UNCHANGED <<how, area, got, sigflag, blocked, pending>>
  BY DEF TellPipe, TellAt
<1>2. TellTypes /\ Rounds /\ Turn
  BY DEF TellInv
<1>3. (p = "first" => FirstWorks) /\ (p = "second" => SecondWorks)
  BY <1>1, <1>2 DEF Turn, FirstWorks, SecondTold, SecondWorks, FirstTold, BothDone,
     Working, IsTold, NotTold, UpdatePCs, WaitPCs
<1>4. CASE p = "first"
  <2>1. tpc' = [tpc EXCEPT !["first"] = "wait"] /\ i' = i
        /\ pipe' = [pipe EXCEPT !["second"] = pipe["second"] + 1]
    BY <1>1, <1>4 DEF TellPipe, Told, TellJump
  <2>2. TellTypes' /\ Rounds'
    BY <1>1, <1>2, <2>1 DEF TellTypes, Rounds, TellPCs, WaitPCs
  <2>3. SecondTold'
    BY <1>1, <1>2, <1>3, <1>4, <2>1
       DEF TellTypes, FirstWorks, SecondTold, Rounds, Working, IsTold, NotTold, WaitPCs
  <2> QED BY <2>2, <2>3 DEF TellInv, Turn
<1>5. CASE p = "second"
  <2>1. /\ i' = [i EXCEPT !["second"] = i["second"] + 1]
        /\ tpc' = [tpc EXCEPT !["second"] = IF i["second"] + 1 = Loops[how] THEN "exit" ELSE "wait"]
        /\ pipe' = [pipe EXCEPT !["first"] = pipe["first"] + 1]
    BY <1>1, <1>2, <1>5 DEF TellPipe, Told, NextRound, TellJump, TellTypes
  <2>2. TellTypes'
    BY <1>1, <1>2, <2>1 DEF TellTypes, TellPCs, WaitPCs
  <2>3. i["second"] < Loops[how]
    BY <1>1, <1>2, <1>5 DEF TellTypes, Rounds
  <2>4. Rounds'
    BY <1>1, <1>2, <2>1, <2>3 DEF TellTypes, Rounds
  <2>5. FirstTold'
    BY <1>1, <1>2, <1>3, <1>5, <2>1
       DEF TellTypes, FirstTold, SecondWorks, Rounds, Working, IsTold, NotTold, WaitPCs
  <2> QED BY <2>2, <2>4, <2>5 DEF TellInv, Turn
<1> QED BY <1>4, <1>5

\* The test of sigflag.
LEMMA TestFlagTurn ==
  ASSUME TellInv, NEW p \in P, TestFlag(p)
  PROVE TellInv'
<1> USE TellAssumption DEF P
<1>1. /\ how = "signal" /\ tpc[p] = "wait"
      /\ tpc' = [tpc EXCEPT ![p] = IF sigflag[p] THEN "clear" ELSE "suspend"]
      /\ UNCHANGED <<how, area, got, i, sigflag, blocked, pending, pipe>>
  BY DEF TestFlag, TellAt, TellJump, signals
<1>2. TellTypes /\ Rounds /\ Turn
  BY DEF TellInv
<1>3. TellTypes'
  BY <1>1, <1>2 DEF TellTypes, TellPCs, WaitPCs
<1>4. Rounds'
  BY <1>1, <1>2 DEF TellTypes, Rounds
<1>5. Turn'
  BY <1>1, <1>2 DEF TellTypes, Turn, FirstWorks, SecondTold, SecondWorks, FirstTold, BothDone,
     Working, IsTold, NotTold, UpdatePCs, WaitPCs
<1> QED BY <1>3, <1>4, <1>5 DEF TellInv

\* The handler.
LEMMA sig_usrTurn ==
  ASSUME TellInv, NEW p \in P, sig_usr(p)
  PROVE TellInv'
<1> USE TellAssumption DEF P
<1>1. /\ pending[p]
      /\ pending' = [pending EXCEPT ![p] = FALSE]
      /\ sigflag' = [sigflag EXCEPT ![p] = TRUE]
      /\ tpc' = IF tpc[p] = "asleep" THEN [tpc EXCEPT ![p] = "wait"] ELSE tpc
      /\ UNCHANGED <<how, area, got, i, blocked, pipe>>
      /\ tpc[p] # "exit"
  BY DEF sig_usr, TellAt
<1>2. TellTypes /\ Rounds /\ Turn
  BY DEF TellInv
<1>3. TellTypes'
  BY <1>1, <1>2 DEF TellTypes, TellPCs, WaitPCs
<1>4. Rounds'
  BY <1>1, <1>2 DEF TellTypes, Rounds
<1>5. (p = "first" => FirstTold) /\ (p = "second" => SecondTold)
  BY <1>1, <1>2 DEF Turn, FirstWorks, SecondTold, SecondWorks, FirstTold, BothDone,
     Working, IsTold, NotTold, UpdatePCs, WaitPCs
<1>6. (p = "first" => FirstTold') /\ (p = "second" => SecondTold')
  BY <1>1, <1>2, <1>5 DEF TellTypes, FirstTold, SecondTold, IsTold, NotTold, WaitPCs
<1> QED BY <1>3, <1>4, <1>6 DEF TellInv, Turn

\* sigsuspend, with a signal pending or without.
LEMMA sigsuspendTurn ==
  ASSUME TellInv, NEW p \in P, sigsuspend(p)
  PROVE TellInv'
<1> USE TellAssumption DEF P
<1>1. /\ tpc[p] = "suspend"
      /\ tpc' = [tpc EXCEPT ![p] = IF pending[p] THEN "wait" ELSE "asleep"]
      /\ pending' = IF pending[p] THEN [pending EXCEPT ![p] = FALSE] ELSE pending
      /\ sigflag' = IF pending[p] THEN [sigflag EXCEPT ![p] = TRUE] ELSE sigflag
      /\ UNCHANGED <<how, area, got, i, blocked, pipe>>
  BY DEF sigsuspend, TellAt, TellJump
<1>2. TellTypes /\ Rounds /\ Turn
  BY DEF TellInv
<1>3. TellTypes'
  BY <1>1, <1>2 DEF TellTypes, TellPCs, WaitPCs
<1>4. Rounds'
  BY <1>1, <1>2 DEF TellTypes, Rounds
<1>5. CASE pending[p]
  <2>1. (p = "first" => FirstTold) /\ (p = "second" => SecondTold)
    BY <1>1, <1>2, <1>5 DEF Turn, FirstWorks, SecondTold, SecondWorks, FirstTold, BothDone,
     Working, IsTold, NotTold, UpdatePCs, WaitPCs
  <2>2. (p = "first" => FirstTold') /\ (p = "second" => SecondTold')
    BY <1>1, <1>2, <1>5, <2>1 DEF TellTypes, FirstTold, SecondTold, IsTold, NotTold, WaitPCs
  <2> QED BY <1>3, <1>4, <2>2 DEF TellInv, Turn
<1>6. CASE ~pending[p]
  <2>1. Turn'
    BY <1>1, <1>2, <1>6 DEF TellTypes, Turn, FirstWorks, SecondTold, SecondWorks, FirstTold, BothDone,
     Working, IsTold, NotTold, UpdatePCs, WaitPCs
  <2> QED BY <1>3, <1>4, <2>1 DEF TellInv
<1> QED BY <1>5, <1>6

\* sigflag = 0
LEMMA ClearFlagTurn ==
  ASSUME TellInv, NEW p \in P, ClearFlag(p)
  PROVE TellInv'
<1> USE TellAssumption DEF P
<1>1. /\ tpc[p] = "clear"
      /\ tpc' = [tpc EXCEPT ![p] = "unmask"]
      /\ sigflag' = [sigflag EXCEPT ![p] = FALSE]
      /\ UNCHANGED <<how, area, got, i, blocked, pending, pipe>>
  BY DEF ClearFlag, TellAt, TellJump
<1>2. TellTypes /\ Rounds /\ Turn
  BY DEF TellInv
<1>3. TellTypes'
  BY <1>1, <1>2 DEF TellTypes, TellPCs
<1>4. Rounds'
  BY <1>1, <1>2 DEF TellTypes, Rounds
<1>5. (p = "first" => FirstTold) /\ (p = "second" => SecondTold)
  BY <1>1, <1>2 DEF Turn, FirstWorks, SecondTold, SecondWorks, FirstTold, BothDone,
     Working, IsTold, NotTold, UpdatePCs, WaitPCs
<1>6. (p = "first" => FirstTold') /\ (p = "second" => SecondTold')
  BY <1>1, <1>2, <1>5 DEF TellTypes, FirstTold, SecondTold, IsTold, NotTold, WaitPCs
<1> QED BY <1>3, <1>4, <1>6 DEF TellInv, Turn

\* The return from the wait: "first" begins a round or ends, "second" works.
LEMMA WaitedTurn ==
  ASSUME TellInv, NEW p \in P, Waited(p), IsTold(p), NotTold(p)',
         UNCHANGED <<how, area, got>>, NEW q2 \in P, q2 # p,
         pending'[q2] = pending[q2], sigflag'[q2] = sigflag[q2], pipe'[q2] = pipe[q2],
         sigflag' \in [P -> BOOLEAN], blocked' \in [P -> BOOLEAN], pending' \in [P -> BOOLEAN],
         pipe' \in [P -> Nat]
  PROVE TellInv'
<1> USE TellAssumption DEF P
<1>2. TellTypes /\ Rounds /\ Turn
  BY DEF TellInv
<1>3. (p = "first" => FirstTold) /\ (p = "second" => SecondTold)
  BY <1>2 DEF TellTypes, Turn, FirstWorks, SecondTold, SecondWorks, FirstTold, BothDone,
     Working, IsTold, NotTold, UpdatePCs, WaitPCs
<1>4. CASE p = "first"
  <2>1. /\ i' = [i EXCEPT !["first"] = i["first"] + 1]
        /\ tpc' = [tpc EXCEPT !["first"] = IF i["first"] + 1 = Loops[how] THEN "exit" ELSE "load"]
    BY <1>2, <1>4 DEF Waited, NextRound, TellJump, TellTypes
  <2>2. TellTypes'
    BY <1>2, <2>1 DEF TellTypes, TellPCs, UpdatePCs
  <2>3. i["first"] < Loops[how]
    BY <1>2, <1>3, <1>4 DEF FirstTold, IsTold, WaitPCs, TellTypes, Rounds
  <2>4. Rounds'
    BY <1>2, <2>1, <2>3 DEF TellTypes, Rounds
  <2>5. i["second"] = i["first"] + 1 /\ area = 2 * i["second"] /\ tpc["second"] \in {"exit"} \cup WaitPCs
        /\ NotTold("second")
    BY <1>3, <1>4 DEF FirstTold
  <2>6. CASE i["first"] + 1 = Loops[how]
    <3>1. tpc["second"] = "exit"
      BY <1>2, <2>5, <2>6 DEF TellTypes, Rounds
    <3>2. BothDone'
      BY <1>2, <2>1, <2>6, <3>1 DEF BothDone, TellTypes
    <3> QED BY <2>2, <2>4, <3>2 DEF TellInv, Turn
  <2>7. CASE i["first"] + 1 # Loops[how]
    <3>1. tpc["second"] # "exit"
      BY <1>2, <2>5, <2>7 DEF TellTypes, Rounds
    <3>2. FirstWorks'
      BY <1>2, <1>4, <2>1, <2>5, <2>7, <3>1 DEF FirstWorks, Working, TellTypes, NotTold, UpdatePCs, WaitPCs
    <3> QED BY <2>2, <2>4, <3>2 DEF TellInv, Turn
  <2> QED BY <2>6, <2>7
<1>5. CASE p = "second"
  <2>1. i' = i /\ tpc' = [tpc EXCEPT !["second"] = "load"]
    BY <1>5 DEF Waited, TellJump
  <2>2. TellTypes'
    BY <1>2, <2>1 DEF TellTypes, TellPCs, UpdatePCs
  <2>3. Rounds'
    BY <1>2, <1>3, <1>5, <2>1 DEF TellTypes, Rounds, SecondTold, IsTold, WaitPCs
  <2>4. SecondWorks'
    BY <1>2, <1>3, <1>5, <2>1 DEF SecondTold, SecondWorks, Working, TellTypes, NotTold, UpdatePCs, WaitPCs
  <2> QED BY <2>2, <2>3, <2>4 DEF TellInv, Turn
<1> QED BY <1>4, <1>5

\* The mask comes back and the wait is over.
LEMMA ResetMaskTurn ==
  ASSUME TellInv, NEW p \in P, ResetMask(p)
  PROVE TellInv'
<1> USE DEF P
<1>1. /\ tpc[p] = "unmask" /\ Waited(p)
      /\ blocked' = [blocked EXCEPT ![p] = FALSE]
      /\ UNCHANGED <<how, area, got, sigflag, pending, pipe>>
  BY DEF ResetMask, TellAt
<1>2. TellTypes /\ Rounds /\ Turn
  BY DEF TellInv
<1>3. IsTold(p) /\ how = "signal"
  BY TellAssumption, <1>1, <1>2 DEF TellTypes, Turn, FirstWorks, SecondTold, SecondWorks, FirstTold, BothDone,
     Working, IsTold, NotTold, UpdatePCs, WaitPCs
<1>4. NotTold(p)'
  BY <1>1, <1>3 DEF IsTold, NotTold
<1>5. PICK q2 \in P : q2 # p
  OBVIOUS
<1>6. blocked' \in [P -> BOOLEAN] /\ sigflag' \in [P -> BOOLEAN] /\ pending' \in [P -> BOOLEAN]
      /\ pipe' \in [P -> Nat]
  BY <1>1, <1>2 DEF TellTypes
<1> QED BY <1>1, <1>3, <1>4, <1>5, <1>6, WaitedTurn

\* The byte is read and the wait is over.
LEMMA ReadPipeTurn ==
  ASSUME TellInv, NEW p \in P, ReadPipe(p)
  PROVE TellInv'
<1> USE DEF P
<1>1. /\ how = "pipe" /\ tpc[p] = "wait" /\ pipe[p] > 0 /\ Waited(p)
      /\ pipe' = [pipe EXCEPT ![p] = pipe[p] - 1]
      /\ UNCHANGED <<how, area, got, sigflag, blocked, pending>>
  BY DEF ReadPipe, TellAt
<1>2. TellTypes /\ Rounds /\ Turn
  BY DEF TellInv
<1>3. IsTold(p)
  BY TellAssumption, <1>1, <1>2 DEF TellTypes, Turn, FirstWorks, SecondTold, SecondWorks, FirstTold, BothDone,
     Working, IsTold, NotTold, UpdatePCs, WaitPCs
<1>4. pipe[p] = 1
  BY <1>1, <1>3 DEF IsTold
<1>5. NotTold(p)'
  BY <1>1, <1>2, <1>3, <1>4 DEF IsTold, NotTold, TellTypes
<1>6. PICK q2 \in P : q2 # p
  OBVIOUS
<1>7. blocked' \in [P -> BOOLEAN] /\ sigflag' \in [P -> BOOLEAN] /\ pending' \in [P -> BOOLEAN]
      /\ pipe' \in [P -> Nat] /\ pipe'[q2] = pipe[q2]
  BY <1>1, <1>2, <1>4, <1>6 DEF TellTypes
<1> QED BY <1>1, <1>3, <1>5, <1>6, <1>7, WaitedTurn

\* Every step keeps the turn.
LEMMA TellStep ==
  ASSUME TellInv, [TellNext]_tellVars
  PROVE TellInv'
<1>1. ASSUME NEW p \in P, update(p) \/ TELL(p) \/ WAIT(p) \/ sig_usr(p) PROVE TellInv'
  BY <1>1, LoadTurn, StoreTurn, TellSignalTurn, TellPipeTurn, TestFlagTurn, sigsuspendTurn,
     ClearFlagTurn, ResetMaskTurn, ReadPipeTurn, sig_usrTurn DEF update, TELL, WAIT
<1>2. CASE UNCHANGED tellVars
  BY <1>2 DEF tellVars, TellInv, TellTypes, Rounds, Turn, FirstWorks, SecondTold, SecondWorks, FirstTold, BothDone,
     Working, IsTold, NotTold, UpdatePCs, WaitPCs
<1> QED BY <1>1, <1>2 DEF TellNext

(* Parent and child take strict turns at the shared counter, with pipes and with signals, for any
   number of rounds: neither is in its update while the other is, and the check in main that the
   counter has the expected value never fails. *)
THEOREM AlwaysInTurn == TellSpec => []InTurn
<1>1. TellInit => TellInv
  BY TellStarts
<1>2. TellInv /\ [TellNext]_tellVars => TellInv'
  BY TellStep
<1>3. TellInv => InTurn
  <2> SUFFICES ASSUME TellInv PROVE InTurn
    OBVIOUS
  <2>1. TellTypes /\ Turn
    BY DEF TellInv
  <2>2. \A p \in P : tpc[p] # "quit"
    BY <2>1 DEF TellTypes, TellPCs, UpdatePCs, WaitPCs
  <2>3. ~(tpc["first"] \in UpdatePCs /\ tpc["second"] \in UpdatePCs)
    BY <2>1 DEF Turn, FirstWorks, SecondTold, SecondWorks, FirstTold, BothDone, P,
       Working, IsTold, UpdatePCs, WaitPCs
  <2> QED BY <2>2, <2>3 DEF InTurn, UpdatePCs
<1> QED BY <1>1, <1>2, <1>3, PTL DEF TellSpec
-----------------------------------------------------------------------------
\* With one round, the signals stay blocked until the wait is over.
LEMMA HeldStep ==
  ASSUME OneRound, TellInv, Held, [TellNext]_tellVars
  PROVE Held'
<1> USE TellAssumption, TheOther DEF P
<1>1. TellTypes /\ Rounds /\ Turn
  BY DEF TellInv
<1> SUFFICES ASSUME how' = "signal", NEW r \in P
             PROVE /\ (tpc[r] # "exit" /\ (r = "second" => tpc[r] \notin UpdatePCs) => blocked[r])'
                   /\ (tpc[r] \in {"suspend", "asleep"} => ~sigflag[r])'
  BY DEF Held
<1>2. CASE UNCHANGED tellVars
  BY <1>2 DEF tellVars, Held
<1>3. ASSUME NEW p \in P, update(p) \/ TELL(p) \/ WAIT(p) \/ sig_usr(p), how = "signal"
      PROVE /\ (tpc[r] # "exit" /\ (r = "second" => tpc[r] \notin UpdatePCs) => blocked[r])'
            /\ (tpc[r] \in {"suspend", "asleep"} => ~sigflag[r])'
  <2>0. /\ tpc[r] # "exit" /\ (r = "second" => tpc[r] \notin UpdatePCs) => blocked[r]
        /\ tpc[r] \in {"suspend", "asleep"} => ~sigflag[r]
    BY <1>3 DEF Held
  <2>1. Loops[how] = 1
    BY <1>1, <1>3 DEF TellTypes, OneRound
  <2>2. CASE Load(p)
    BY <1>1, <2>0, <2>2 DEF Load, TellJump, TellAt, signals, UpdatePCs, TellTypes
  <2>3. CASE Store(p)
    <3>1. TellTypes'
      BY TellStep DEF TellInv
    <3>2. tpc'[p] # "quit"
      BY <3>1 DEF TellTypes, TellPCs, UpdatePCs, WaitPCs
    <3>3. tpc' = [tpc EXCEPT ![p] = "tell"]
      BY <1>1, <2>3, <3>2 DEF Store, TellJump, TellTypes
    <3> QED BY <1>1, <2>0, <2>3, <3>3 DEF Store, TellAt, signals, UpdatePCs, TellTypes
  <2>4. CASE TellSignal(p)
    <3>1. p = "second" => i'["second"] = i["second"] + 1
      BY <1>1, <2>4 DEF TellSignal, Told, NextRound, TellTypes
    <3>2. p = "second" => i["second"] = 0
      BY <1>1, <1>3, <2>1, <2>4 DEF TellSignal, TellAt, Rounds, TellTypes
    <3>3. p = "second" => tpc' = [tpc EXCEPT !["second"] = "exit"]
      BY <1>1, <1>3, <2>1, <2>4, <3>1, <3>2 DEF TellSignal, Told, NextRound, TellJump, TellTypes
    <3>4. p = "first" => tpc' = [tpc EXCEPT !["first"] = "wait"]
      BY <2>4 DEF TellSignal, Told, TellJump
    <3>5. UNCHANGED <<sigflag, blocked>> /\ tpc[p] = "tell"
      BY <2>4 DEF TellSignal, TellAt
    <3> QED BY <1>1, <2>0, <3>3, <3>4, <3>5 DEF TellTypes
  <2>5. CASE TestFlag(p)
    BY <1>1, <2>0, <2>5 DEF TestFlag, TellJump, TellAt, signals, UpdatePCs, TellTypes
  <2>6. CASE sig_usr(p)
    <3>1. tpc[p] \in WaitPCs \cup {"clear", "unmask"}
      BY <1>1, <2>6 DEF sig_usr, Turn, FirstWorks, SecondTold, SecondWorks, FirstTold, BothDone,
         Working, IsTold, NotTold, UpdatePCs, WaitPCs
    <3>2. blocked[p]
      BY <1>3, <3>1 DEF Held, UpdatePCs, WaitPCs
    <3>3. tpc[p] = "asleep" /\ tpc' = [tpc EXCEPT ![p] = "wait"]
          /\ sigflag' = [sigflag EXCEPT ![p] = TRUE] /\ blocked' = blocked
      BY <2>6, <3>2 DEF sig_usr, TellAt
    <3> QED BY <1>1, <2>0, <3>3 DEF TellTypes, UpdatePCs
  <2>7. CASE sigsuspend(p)
    <3>1. /\ tpc[p] = "suspend"
          /\ tpc' = [tpc EXCEPT ![p] = IF pending[p] THEN "wait" ELSE "asleep"]
          /\ sigflag' = IF pending[p] THEN [sigflag EXCEPT ![p] = TRUE] ELSE sigflag
          /\ UNCHANGED <<blocked>>
      BY <2>7 DEF sigsuspend, TellAt, TellJump
    <3> QED BY <1>1, <2>0, <3>1 DEF TellTypes, UpdatePCs
  <2>8. CASE ClearFlag(p)
    BY <1>1, <2>0, <2>8 DEF ClearFlag, TellAt, TellJump, TellTypes, UpdatePCs
  <2>9. CASE ResetMask(p)
    <3>1. tpc[p] = "unmask" /\ UNCHANGED sigflag /\ blocked' = [blocked EXCEPT ![p] = FALSE]
      BY <2>9 DEF ResetMask, TellAt
    <3>2. p = "first" => i["first"] = 0
      BY <1>1, <2>1, <3>1 DEF Rounds, TellTypes
    <3>3. p = "first" => i'["first"] = i["first"] + 1
      BY <1>1, <2>9 DEF ResetMask, Waited, NextRound, TellTypes
    <3>4. tpc' = [tpc EXCEPT ![p] = IF p = "first" THEN "exit" ELSE "load"]
      BY <1>1, <1>3, <2>1, <2>9, <3>2, <3>3 DEF ResetMask, Waited, NextRound, TellJump, TellTypes
    <3> QED BY <1>1, <2>0, <3>1, <3>4 DEF TellTypes, UpdatePCs
  <2>10. CASE TellPipe(p) \/ ReadPipe(p)
    BY <1>3, <2>10 DEF TellPipe, ReadPipe
  <2> QED BY <1>3, <2>2, <2>3, <2>4, <2>5, <2>6, <2>7, <2>8, <2>9, <2>10 DEF update, TELL, WAIT
<1>4. UNCHANGED how
  BY DEF TellNext, tellVars, update, Load, Store, TELL, TellSignal, TellPipe, WAIT, TestFlag,
     sigsuspend, ClearFlag, ResetMask, ReadPipe, sig_usr
<1> QED BY <1>2, <1>3, <1>4 DEF TellNext

(* Parent and child alternate to the end: a process in WAIT_PARENT or WAIT_CHILD never sleeps with
   nothing coming.  For pipes in any number of rounds; for signals in one. *)
THEOREM TurnsAlwaysKept ==
  ASSUME OneRound
  PROVE TellSpec => []TurnsKept
<1>1. TellInit => TellInv /\ Held
  <2>1. TellInit => Held
    BY DEF TellInit, Held, UpdatePCs, P
  <2> QED BY <2>1, TellStarts
<1>2. TellInv /\ Held /\ [TellNext]_tellVars => (TellInv /\ Held)'
  BY TellStep, HeldStep
<1>3. TellInv /\ Held => NobodyForgotten
  <2> USE TellAssumption DEF P
  <2> SUFFICES ASSUME TellInv, Held, NEW p \in P, Sleeps(p)
               PROVE tpc[Other(p)] # "exit" /\ ~Sleeps(Other(p))
    BY DEF NobodyForgotten
  <2>1. TellTypes /\ Rounds /\ Turn
    BY DEF TellInv
  <2>2. ~IsTold(p)
    BY <2>1 DEF Sleeps, TellAt, IsTold, Held, TellTypes, WaitPCs
  <2>3. p = "first" => FirstWorks \/ SecondTold \/ SecondWorks
    BY <2>1, <2>2 DEF Turn, FirstTold, BothDone, Sleeps, TellAt
  <2>4. p = "second" => FirstWorks \/ FirstTold \/ SecondWorks
    BY <2>1, <2>2 DEF Turn, SecondTold, BothDone, Sleeps, TellAt
  <2>5. tpc[Other(p)] \in UpdatePCs \/ IsTold(Other(p))
    BY <2>1, <2>3, <2>4, TheOther DEF FirstWorks, FirstTold, SecondWorks, SecondTold, Working, Sleeps, TellAt,
       UpdatePCs, WaitPCs
  <2>6. Other(p) \in P
    BY TheOther
  <2>7. CASE tpc[Other(p)] \in UpdatePCs
    BY <2>6, <2>7 DEF Sleeps, TellAt, UpdatePCs
  <2>8. CASE IsTold(Other(p))
    BY <2>1, <2>6, <2>8 DEF IsTold, Sleeps, TellAt, Held, WaitPCs, TellTypes
  <2> QED BY <2>5, <2>7, <2>8
<1> QED BY <1>1, <1>2, <1>3, AlwaysInTurn, PTL DEF TellSpec, TurnsKept
-----------------------------------------------------------------------------
(* JobQueue.  main inserts even jobs at the head and appends odd ones, so a job
   has a place in the order that does not change while others come and go. *)
Links == Workers \cup {NoJob}
Place(j) == IF j % 2 = 0 THEN 0 - j ELSE j

\* The jobs scheduled and not removed.
OnQueue == {w \in Workers : w < made /\ wpc[w] \notin {"free", "done"}}

QueueTypes ==
  /\ q \in [head : Links, tail : Links, next : [Workers -> Links], prev : [Workers -> Links]]
  /\ made \in 0..NUM_THREADS
  /\ mpc \in {"create", "schedule", "broadcast", "join", "exit"}
  /\ wpc \in [Workers -> {"none", "find", "wait", "work", "free", "done"}]
  /\ mem \in [Workers -> {"none", "made", "freed"}]

\* h is the first of S in the order of r, or there is none.
HeadOf(h, S, r) ==
  \/ h = NoJob /\ S = {}
  \/ h \in S /\ \A x \in S : r[h] <= r[x]

\* link leads from every member of S to the next one in the order of r.
Leads(link, S, r) ==
  \A j \in S :
    \/ link[j] = NoJob /\ \A x \in S : r[x] <= r[j]
    \/ /\ link[j] \in S /\ r[j] < r[link[j]]
       /\ \A x \in S : r[x] <= r[j] \/ r[link[j]] <= r[x]

Up == [j \in Workers |-> Place(j)]
Down == [j \in Workers |-> 0 - Place(j)]

Linked ==
  /\ HeadOf(q.head, OnQueue, Up) /\ Leads(q.next, OnQueue, Up)
  /\ HeadOf(q.tail, OnQueue, Down) /\ Leads(q.prev, OnQueue, Down)

\* What main and the workers have done so far.
Course ==
  /\ mpc = "create" => made = 0
  /\ mpc = "schedule" => made < NUM_THREADS
  /\ \A w \in Workers :
       /\ wpc[w] \in {"work", "free", "done"} => w < made
       /\ mem[w] = "made" <=> w < made /\ wpc[w] # "done"

QueueInv == QueueTypes /\ Linked /\ Course /\ NoLostWakeup
-----------------------------------------------------------------------------
\* A set of numbers that is not empty has a least one,
LEMMA LeastNumber ==
  ASSUME NEW T \in SUBSET Nat, T # {}
  PROVE \E x \in T : \A y \in T : x <= y
<1> DEFINE R == OpToRel(<, Nat)
<1>1. IsWellFoundedOn(R, Nat)
  BY NatLessThanWellFounded
<1>2. \A a, b \in Nat : <<a, b>> \in R <=> a < b
  BY DEF OpToRel
<1> HIDE DEF R
<1>3. PICK x \in T : \A y \in T : ~(<<y, x>> \in R)
  BY <1>1, WFMin
<1>4. x \in Nat /\ \A y \in T : y \in Nat /\ ~(y < x)
  BY <1>2, <1>3
<1> QED BY <1>3, <1>4

\* so what holds at 0 and is handed on holds up to any number.
LEMMA FromZero ==
  ASSUME NEW S, 0 \in S, \A n \in Nat : n \in S => n + 1 \in S
  PROVE \A n \in Nat : n \in S
<1> SUFFICES ASSUME NEW m \in Nat, m \notin S PROVE FALSE
  OBVIOUS
<1> DEFINE T == {n \in Nat : n \notin S}
<1>1. T \in SUBSET Nat /\ T # {}
  OBVIOUS
<1> HIDE DEF T
<1>2. PICK x \in T : \A y \in T : x <= y
  BY <1>1, LeastNumber
<1>3. x \in Nat /\ x \notin S /\ x # 0
  BY <1>2 DEF T
<1>4. x - 1 \in Nat /\ x - 1 \notin T
  BY <1>1, <1>2, <1>3
<1>5. x - 1 \in S
  BY <1>4 DEF T
<1> QED BY <1>3, <1>4, <1>5

\* One step along a link, staying at the end.
Beyond(x, link) == IF x = NoJob THEN NoJob ELSE link[x]

\* Following the links is well defined.
LEMMA FollowIs ==
  ASSUME NEW h \in Links, NEW link \in [Workers -> Links]
  PROVE /\ Follow(h, link) \in [0..NUM_THREADS -> Links]
        /\ Follow(h, link)[0] = h
        /\ \A n \in 1..NUM_THREADS : Follow(h, link)[n] = Beyond(Follow(h, link)[n - 1], link)
<1> PICK N \in Nat : N = NUM_THREADS
  BY QueueAssumption
<1> DEFINE Is(f, m) == /\ f \in [0..m -> Links] /\ f[0] = h
                       /\ \A n \in 1..m : f[n] = Beyond(f[n - 1], link)
<1>1. \A x \in Links : Beyond(x, link) \in Links
  BY DEF Beyond, Links
<1> DEFINE S == {m \in Nat : \E f : Is(f, m)}
<1>2. 0 \in S
  <2> DEFINE g == [n \in 0..0 |-> h]
  <2>1. Is(g, 0)
    OBVIOUS
  <2> QED BY <2>1
<1>3. ASSUME NEW m \in Nat, m \in S PROVE m + 1 \in S
  <2> PICK f : Is(f, m)
    BY <1>3
  <2> PICK k \in Nat : k = m + 1
    OBVIOUS
  <2> DEFINE g == [n \in 0..k |-> IF n = k THEN Beyond(f[m], link) ELSE f[n]]
  <2>1. \A n \in 0..k : n # k => n \in 0..m
    OBVIOUS
  <2>2. m \in 0..m /\ 0 \in 0..k /\ 0 # k /\ k - 1 = m /\ m \in 0..k /\ m # k
    OBVIOUS
  <2>3. g \in [0..k -> Links]
    BY <1>1, <2>1, <2>2
  <2>4. g[0] = h
    BY <2>2
  <2>5. ASSUME NEW n \in 1..k PROVE g[n] = Beyond(g[n - 1], link)
    <3>1. CASE n = k
      BY <2>2, <3>1
    <3>2. CASE n # k
      <4>1. n \in 1..m /\ n - 1 \in 0..k /\ n - 1 # k /\ n \in 0..k
        BY <3>2
      <4> QED BY <3>2, <4>1
    <3> QED BY <3>1, <3>2
  <2> HIDE DEF g
  <2>6. Is(g, k)
    BY <2>3, <2>4, <2>5
  <2> QED BY <2>6
<1>4. N \in S
  <2> HIDE DEF S
  <2> QED BY <1>2, <1>3, FromZero
<1>5. PICK F : Is(F, N)
  BY <1>4
<1> DEFINE Fits(f) == f = [n \in 0..N |-> IF n = 0 THEN h ELSE IF f[n - 1] = NoJob THEN NoJob ELSE link[f[n - 1]]]
<1>6. Follow(h, link) = CHOOSE f : Fits(f)
  BY DEF Follow
<1>7. Fits(F)
  <2> DEFINE G == [n \in 0..N |-> IF n = 0 THEN h ELSE IF F[n - 1] = NoJob THEN NoJob ELSE link[F[n - 1]]]
  <2>1. ASSUME NEW n \in 0..N PROVE F[n] = G[n]
    <3>1. G[n] = IF n = 0 THEN h ELSE IF F[n - 1] = NoJob THEN NoJob ELSE link[F[n - 1]]
      OBVIOUS
    <3> HIDE DEF G
    <3>2. CASE n = 0
      BY <1>5, <3>1, <3>2
    <3>3. CASE n # 0
      <4>1. n \in 1..N
        BY <3>3
      <4> QED BY <1>5, <3>1, <3>3, <4>1 DEF Beyond
    <3> QED BY <3>2, <3>3
  <2>2. G = [n \in 0..N |-> G[n]] /\ F = [n \in 0..N |-> F[n]]
    BY <1>5
  <2> HIDE DEF G
  <2>3. F = G
    BY <2>1, <2>2
  <2> QED BY <2>3 DEF G
<1>8. PICK f : f = Follow(h, link)
  OBVIOUS
<1>9. Fits(f)
  <2> HIDE DEF Fits
  <2> QED BY <1>6, <1>7, <1>8, Zenon
<1> DEFINE U == {n \in Nat : n \in 0..N => f[n] = F[n]}
<1>10. 0 \in U
  BY <1>7, <1>9
<1>11. ASSUME NEW n \in Nat, n \in U PROVE n + 1 \in U
  <2>1. CASE n + 1 \in 0..N
    <3> PICK k : k = n + 1
      OBVIOUS
    <3>1. k \in 0..N /\ k # 0 /\ k - 1 = n /\ n \in 0..N
      BY <2>1
    <3>2. f[n] = F[n]
      BY <1>11, <3>1
    <3>3. f[k] = IF f[k - 1] = NoJob THEN NoJob ELSE link[f[k - 1]]
      BY <1>9, <3>1
    <3>4. F[k] = IF F[k - 1] = NoJob THEN NoJob ELSE link[F[k - 1]]
      BY <1>7, <3>1
    <3>5. f[k] = F[k]
      BY <3>1, <3>2, <3>3, <3>4
    <3> QED BY <3>5
  <2>2. CASE n + 1 \notin 0..N
    BY <2>2
  <2> QED BY <2>1, <2>2
<1>12. \A n \in 0..N : f[n] = F[n]
  <2>1. \A n \in Nat : n \in U
    <3> HIDE DEF U
    <3> QED BY <1>10, <1>11, FromZero
  <2> QED BY <2>1
<1>13. f = [n \in 0..N |-> f[n]] /\ F = [n \in 0..N |-> F[n]]
  BY <1>7, <1>9
<1>14. f = F
  <2> HIDE DEF Fits, U
  <2> QED BY <1>12, <1>13
<1> QED BY <1>5, <1>8, <1>14

\* From the first of S, the links meet exactly S.  Were a member never met, every job met would lie
\* before it, each after the last: more jobs than there are.
LEMMA MetAll ==
  ASSUME NEW h \in Links, NEW link \in [Workers -> Links], NEW S \in SUBSET Workers,
         NEW r \in [Workers -> Int], \A x, y \in Workers : r[x] = r[y] => x = y,
         HeadOf(h, S, r), Leads(link, S, r)
  PROVE Met(h, link) = S
<1> PICK N \in Nat \ {0} : N = NUM_THREADS
  BY QueueAssumption
<1>0. NoJob \notin Workers /\ Workers = 0..(N - 1)
  BY QueueAssumption DEF Workers
<1>1. PICK f : f = Follow(h, link)
  OBVIOUS
<1>2. /\ f \in [0..N -> Links] /\ f[0] = h
      /\ \A n \in 1..N : f[n] = Beyond(f[n - 1], link)
  BY <1>1, FollowIs
<1>3. \A n \in Nat : n + 1 \in 0..N => n \in 0..N /\ f[n + 1] = Beyond(f[n], link)
  <2> TAKE n \in Nat
  <2> HAVE n + 1 \in 0..N
  <2> PICK k : k = n + 1
    OBVIOUS
  <2>1. k \in 1..N /\ k - 1 = n /\ n \in 0..N
    OBVIOUS
  <2>2. f[k] = Beyond(f[k - 1], link)
    BY <1>2, <2>1
  <2> QED BY <2>1, <2>2
<1>4. \A n \in 0..N : f[n] \in S \cup {NoJob}
  <2> DEFINE D == {n \in Nat : n \in 0..N => f[n] \in S \cup {NoJob}}
  <2>1. 0 \in D
    BY <1>2 DEF HeadOf
  <2>2. ASSUME NEW n \in Nat, n \in D PROVE n + 1 \in D
    BY <1>3, <2>2 DEF Beyond, Leads
  <2> HIDE DEF D
  <2>3. \A n \in Nat : n \in D
    BY <2>1, <2>2, FromZero
  <2> QED BY <2>3 DEF D
<1>5. ASSUME NEW x \in S, \A n \in 0..N : f[n] # x PROVE FALSE
  <2> DEFINE D == {n \in Nat : n \in 0..N => /\ f[n] \in S /\ r[f[n]] < r[x]
                                             /\ \A m \in 0..(n - 1) : f[m] \in S /\ r[f[m]] < r[f[n]]}
  <2>0. \A y \in S : y \in Workers /\ r[y] \in Int /\ y # NoJob
    BY <1>0
  <2>1. 0 \in D
    <3>1. f[0] \in S /\ r[f[0]] <= r[x]
      BY <1>2 DEF HeadOf
    <3>2. 0 \in 0..N
      OBVIOUS
    <3>3. f[0] # x
      BY <1>5, <3>2
    <3>4. r[f[0]] # r[x]
      BY <2>0, <3>1, <3>3
    <3> QED BY <2>0, <3>1, <3>4
  <2>2. ASSUME NEW n \in Nat, n \in D PROVE n + 1 \in D
    <3> SUFFICES ASSUME n + 1 \in 0..N
                 PROVE /\ f[n + 1] \in S /\ r[f[n + 1]] < r[x]
                       /\ \A m \in 0..(n + 1 - 1) : f[m] \in S /\ r[f[m]] < r[f[n + 1]]
      OBVIOUS
    <3> PICK y, z : y = f[n] /\ z = f[n + 1]
      OBVIOUS
    <3>1. n \in 0..N /\ z = Beyond(y, link)
      BY <1>3
    <3>2. y \in S /\ r[y] < r[x] /\ \A m \in 0..(n - 1) : f[m] \in S /\ r[f[m]] < r[y]
      BY <2>2, <3>1
    <3>3. z = link[y]
      BY <2>0, <3>1, <3>2 DEF Beyond
    <3>4. z \in S /\ r[y] < r[z] /\ r[z] <= r[x]
      <4>1. ~(r[x] <= r[y])
        BY <2>0, <3>2
      <4> QED BY <3>2, <3>3, <4>1 DEF Leads
    <3>5. r[z] < r[x]
      <4>1. z # x
        BY <1>5
      <4> QED BY <2>0, <3>4, <4>1
    <3>6. ASSUME NEW m \in 0..(n + 1 - 1) PROVE f[m] \in S /\ r[f[m]] < r[z]
      <4>1. CASE m = n
        BY <3>2, <3>4, <4>1
      <4>2. CASE m # n
        <5>1. m \in 0..(n - 1) /\ m \in 0..N
          BY <3>1, <4>2
        <5>2. f[m] \in S /\ r[f[m]] < r[y]
          BY <3>2, <5>1
        <5> QED BY <2>0, <3>2, <3>4, <5>2
      <4> QED BY <4>1, <4>2
    <3> QED BY <3>4, <3>5, <3>6
  <2> HIDE DEF D
  <2>3. \A n \in Nat : n \in D
    BY <2>1, <2>2, FromZero
  <2>4. \A n \in 0..N : /\ f[n] \in S /\ \A m \in 0..(n - 1) : r[f[m]] < r[f[n]]
    BY <2>3 DEF D
  <2>5. f \in [0..N -> Workers]
    BY <1>2, <2>4
  <2>6. IsFiniteSet(0..N) /\ Cardinality(0..N) = N + 1
    <3>1. 0 \in Int /\ N \in Int
      OBVIOUS
    <3>2. IsFiniteSet(0..N) /\ Cardinality(0..N) = IF 0 > N THEN 0 ELSE N - 0 + 1
      BY <3>1, FS_Interval
    <3> QED BY <3>2
  <2>7. IsFiniteSet(Workers) /\ Cardinality(Workers) = N
    <3> PICK M \in Int : M = N - 1
      OBVIOUS
    <3>1. 0 \in Int
      OBVIOUS
    <3>2. IsFiniteSet(0..M) /\ Cardinality(0..M) = IF 0 > M THEN 0 ELSE M - 0 + 1
      BY <3>1, FS_Interval
    <3> QED BY <1>0, <3>2
  <2>8. Cardinality(Workers) < Cardinality(0..N)
    BY <2>6, <2>7
  <2>9. PICK a, b \in 0..N : a # b /\ f[a] = f[b]
    BY <2>5, <2>6, <2>7, <2>8, FS_PigeonHole
  <2>10. r[f[a]] \in Int
    BY <2>4, <2>0
  <2>11. CASE a < b
    <3>1. a \in 0..(b - 1)
      BY <2>11
    <3>2. r[f[a]] < r[f[b]]
      BY <2>4, <3>1
    <3> QED BY <2>9, <2>10, <3>2
  <2>12. CASE b < a
    <3>1. b \in 0..(a - 1)
      BY <2>12
    <3>2. r[f[b]] < r[f[a]]
      BY <2>4, <3>1
    <3> QED BY <2>9, <2>10, <3>2
  <2> QED BY <2>9, <2>11, <2>12
<1>6. Met(h, link) = {f[n] : n \in 0..N} \ {NoJob}
  BY <1>1 DEF Met
<1>7. Met(h, link) \subseteq S
  BY <1>4, <1>6
<1>8. ASSUME NEW x \in S PROVE x \in Met(h, link)
  <2>1. PICK n \in 0..N : f[n] = x
    BY <1>5
  <2>2. x # NoJob
    BY <1>0
  <2> QED BY <1>6, <2>1, <2>2
<1> QED BY <1>7, <1>8

\* A job main inserts comes before all others in the order, a job it appends after them.
LEMMA PlaceOrder ==
  ASSUME NEW j \in Nat, NEW k \in Nat
  PROVE /\ Place(j) \in Int
        /\ Place(j) = Place(k) => j = k
        /\ k < j /\ j % 2 = 0 => Place(j) < Place(k)
        /\ k < j /\ j % 2 # 0 => Place(k) < Place(j)
<1>1. j % 2 \in 0..1 /\ k % 2 \in 0..1
  OBVIOUS
<1>2. j % 2 # 0 => j # 0
  OBVIOUS
<1>3. k % 2 # 0 => k # 0
  OBVIOUS
<1>4. Place(j) = Place(k) => j = k
  BY <1>1, <1>2, <1>3 DEF Place
<1> QED BY <1>1, <1>2, <1>3, <1>4 DEF Place

\* Up and Down are the order and its reverse.
LEMMA Orders ==
  /\ Up \in [Workers -> Int] /\ Down \in [Workers -> Int]
  /\ \A x \in Workers : Down[x] = 0 - Up[x] /\ Up[x] = 0 - Down[x] /\ Up[x] = Place(x)
  /\ \A x, y \in Workers : Up[x] = Up[y] => x = y
  /\ \A x, y \in Workers : Down[x] = Down[y] => x = y
<1>1. Workers \subseteq Nat
  BY QueueAssumption DEF Workers
<1>2. \A x \in Workers : Place(x) \in Int
  BY <1>1, PlaceOrder
<1>3. Up \in [Workers -> Int] /\ Down \in [Workers -> Int]
  BY <1>2 DEF Up, Down
<1>4. \A x \in Workers : Down[x] = 0 - Place(x) /\ Up[x] = Place(x)
  BY DEF Up, Down
<1>5. \A x \in Workers : Down[x] = 0 - Up[x] /\ Up[x] = 0 - Down[x]
  BY <1>2, <1>4
<1>6. \A x, y \in Workers : Place(x) = Place(y) => x = y
  BY <1>1, PlaceOrder
<1>7. \A x, y \in Workers : Up[x] = Up[y] => x = y
  BY <1>4, <1>6
<1>8. \A x, y \in Workers : Down[x] = Down[y] => x = y
  BY <1>2, <1>4, <1>6
<1> QED BY <1>3, <1>4, <1>5, <1>7, <1>8

\* job_find meets the jobs on the queue, and so does whoever goes the other way.
LEMMA MetQueue ==
  ASSUME QueueTypes, Linked
  PROVE Met(q.head, q.next) = OnQueue /\ Met(q.tail, q.prev) = OnQueue
<1>1. OnQueue \in SUBSET Workers
  BY DEF OnQueue
<1>2. q.head \in Links /\ q.tail \in Links /\ q.next \in [Workers -> Links]
      /\ q.prev \in [Workers -> Links]
  BY DEF QueueTypes
<1>3. Met(q.head, q.next) = OnQueue
  BY <1>1, <1>2, Orders, MetAll DEF Linked
<1>4. Met(q.tail, q.prev) = OnQueue
  BY <1>1, <1>2, Orders, MetAll DEF Linked
<1> QED BY <1>3, <1>4

\* The forward links after a job has been put before the first one.
LEMMA PutForward ==
  ASSUME NEW S \in SUBSET Workers, NEW r \in [Workers -> Int], NEW h, NEW fw \in [Workers -> Links],
         NEW m \in Workers, m \notin S, \A x \in S : r[m] < r[x],
         HeadOf(h, S, r), Leads(fw, S, r)
  PROVE HeadOf(m, S \cup {m}, r) /\ Leads([fw EXCEPT ![m] = h], S \cup {m}, r)
<1> USE QueueAssumption
<1>0. \A x \in S : x \in Workers /\ r[x] \in Int /\ x # NoJob
  OBVIOUS
<1>1. HeadOf(m, S \cup {m}, r)
  BY <1>0 DEF HeadOf
<1> PICK g : g = [fw EXCEPT ![m] = h]
  OBVIOUS
<1>2. g[m] = h /\ \A x \in S : g[x] = fw[x]
  OBVIOUS
<1>3. ASSUME NEW j \in S \cup {m}
      PROVE \/ g[j] = NoJob /\ \A x \in S \cup {m} : r[x] <= r[j]
            \/ /\ g[j] \in S \cup {m} /\ r[j] < r[g[j]]
               /\ \A x \in S \cup {m} : r[x] <= r[j] \/ r[g[j]] <= r[x]
  <2>1. CASE j = m
    BY <1>0, <1>2, <2>1 DEF HeadOf
  <2>2. CASE j \in S /\ fw[j] = NoJob
    <3>1. \A x \in S : r[x] <= r[j]
      BY <1>0, <2>2 DEF Leads
    <3> QED BY <1>0, <1>2, <2>2, <3>1
  <2>3. CASE j \in S /\ fw[j] # NoJob
    <3>1. fw[j] \in S /\ r[j] < r[fw[j]] /\ \A x \in S : r[x] <= r[j] \/ r[fw[j]] <= r[x]
      BY <2>3 DEF Leads
    <3> QED BY <1>0, <1>2, <2>3, <3>1
  <2> QED BY <2>1, <2>2, <2>3
<1> QED BY <1>1, <1>3 DEF Leads

\* m is put before h, the first of S: the links back are b instead of bw.
PutBefore(S, r, rn, h, t, bw, b, m) ==
  /\ S \in SUBSET Workers /\ r \in [Workers -> Int] /\ rn \in [Workers -> Int]
  /\ \A x \in Workers : rn[x] = 0 - r[x]
  /\ \A x, y \in Workers : r[x] = r[y] => x = y
  /\ bw \in [Workers -> Links] /\ m \in Workers /\ m \notin S /\ \A x \in S : r[m] < r[x]
  /\ HeadOf(h, S, r) /\ HeadOf(t, S, rn) /\ Leads(bw, S, rn)
  /\ b = IF h # NoJob THEN [[bw EXCEPT ![m] = NoJob] EXCEPT ![h] = m]
                      ELSE [bw EXCEPT ![m] = NoJob]

\* j is taken out of S: the links on are f instead of fw.
TakenOut(S, r, rn, h, fw, bw, f, j) ==
  /\ S \in SUBSET Workers /\ r \in [Workers -> Int] /\ rn \in [Workers -> Int]
  /\ \A x \in Workers : rn[x] = 0 - r[x]
  /\ \A x, y \in Workers : r[x] = r[y] => x = y
  /\ fw \in [Workers -> Links] /\ bw \in [Workers -> Links] /\ j \in S
  /\ HeadOf(h, S, r) /\ Leads(fw, S, r) /\ Leads(bw, S, rn)
  /\ f = IF bw[j] = NoJob THEN fw ELSE [fw EXCEPT ![bw[j]] = fw[j]]

\* The backward links: the one that was first has the new job before it.
LEMMA PutBackward ==
  ASSUME NEW S, NEW r, NEW rn, NEW h, NEW t, NEW bw, NEW b, NEW m,
         PutBefore(S, r, rn, h, t, bw, b, m)
  PROVE HeadOf(IF h # NoJob THEN t ELSE m, S \cup {m}, rn) /\ Leads(b, S \cup {m}, rn)
<1> USE QueueAssumption DEF PutBefore
<1>0. \A x \in S \cup {m} : x \in Workers /\ r[x] \in Int /\ x # NoJob /\ rn[x] = 0 - r[x] /\ rn[x] \in Int
  OBVIOUS
<1>1. h = NoJob <=> S = {}
  BY <1>0 DEF HeadOf
<1>2. HeadOf(IF h # NoJob THEN t ELSE m, S \cup {m}, rn)
  <2>1. CASE h = NoJob
    BY <1>0, <1>1, <2>1 DEF HeadOf
  <2>2. CASE h # NoJob
    <3>1. t \in S /\ \A x \in S : rn[t] <= rn[x]
      BY <1>1, <2>2 DEF HeadOf
    <3>2. rn[t] <= rn[m]
      BY <1>0, <3>1
    <3> QED BY <2>2, <3>1, <3>2 DEF HeadOf
  <2> QED BY <2>1, <2>2
<1>3. b[m] = NoJob /\ \A x \in S : b[x] = IF x = h THEN m ELSE bw[x]
  <2>1. CASE h = NoJob
    BY <1>1, <2>1
  <2>2. CASE h # NoJob
    <3>1. h \in S /\ h # m
      BY <2>2 DEF HeadOf
    <3> QED BY <2>2, <3>1
  <2> QED BY <2>1, <2>2
<1>4. ASSUME NEW j \in S \cup {m}
      PROVE \/ b[j] = NoJob /\ \A x \in S \cup {m} : rn[x] <= rn[j]
            \/ /\ b[j] \in S \cup {m} /\ rn[j] < rn[b[j]]
               /\ \A x \in S \cup {m} : rn[x] <= rn[j] \/ rn[b[j]] <= rn[x]
  <2>1. CASE j = m
    BY <1>0, <1>3, <2>1
  <2>2. CASE j = h /\ j # m
    <3>1. b[j] = m /\ rn[j] < rn[m]
      BY <1>0, <1>3, <2>2
    <3>2. \A x \in S : rn[x] <= rn[j]
      BY <1>0, <2>2 DEF HeadOf
    <3> QED BY <1>0, <3>1, <3>2
  <2>3. CASE j # h /\ j # m
    <3>1. j \in S /\ b[j] = bw[j]
      BY <1>3, <2>3
    <3>2. h \in S /\ r[h] <= r[j]
      BY <3>1 DEF HeadOf
    <3>3. rn[j] < rn[h]
      BY <1>0, <2>3, <3>1, <3>2
    <3>4. ~(\A x \in S : rn[x] <= rn[j])
      BY <1>0, <3>1, <3>2, <3>3
    <3>5. bw[j] \in S /\ rn[j] < rn[bw[j]] /\ \A x \in S : rn[x] <= rn[j] \/ rn[bw[j]] <= rn[x]
      BY <3>1, <3>4 DEF Leads
    <3>6. rn[bw[j]] <= rn[m]
      BY <1>0, <3>5
    <3> QED BY <3>1, <3>5, <3>6
  <2> QED BY <2>1, <2>2, <2>3
<1> QED BY <1>2, <1>4 DEF Leads

\* One direction after a job has been taken out, wherever it was.
LEMMA CutForward ==
  ASSUME NEW S, NEW r, NEW rn, NEW h, NEW fw, NEW bw, NEW f, NEW j,
         TakenOut(S, r, rn, h, fw, bw, f, j)
  PROVE HeadOf(IF j = h THEN fw[j] ELSE h, S \ {j}, r) /\ Leads(f, S \ {j}, r)
<1> USE QueueAssumption DEF TakenOut
<1>0. \A x \in S : x \in Workers /\ r[x] \in Int /\ x # NoJob /\ rn[x] = 0 - r[x] /\ rn[x] \in Int
  OBVIOUS
<1> PICK n, p : n = fw[j] /\ p = bw[j]
  OBVIOUS
<1>1. \/ n = NoJob /\ \A x \in S : r[x] <= r[j]
      \/ n \in S /\ r[j] < r[n] /\ \A x \in S : r[x] <= r[j] \/ r[n] <= r[x]
  BY DEF Leads
<1>2. \/ p = NoJob /\ \A x \in S : r[j] <= r[x]
      \/ p \in S /\ r[p] < r[j] /\ \A x \in S : r[j] <= r[x] \/ r[x] <= r[p]
  <2>1. \/ p = NoJob /\ \A x \in S : rn[x] <= rn[j]
        \/ p \in S /\ rn[j] < rn[p] /\ \A x \in S : rn[x] <= rn[j] \/ rn[p] <= rn[x]
    BY DEF Leads
  <2>2. CASE p = NoJob
    <3>1. p \notin S
      BY <1>0, <2>2
    <3> QED BY <1>0, <2>1, <2>2, <3>1
  <2>3. CASE p # NoJob
    <3>1. p \in S /\ rn[j] < rn[p] /\ \A x \in S : rn[x] <= rn[j] \/ rn[p] <= rn[x]
      BY <2>1, <2>3
    <3>2. r[p] < r[j]
      BY <1>0, <3>1
    <3>3. ASSUME NEW x \in S PROVE r[j] <= r[x] \/ r[x] <= r[p]
      BY <1>0, <3>1
    <3> QED BY <3>1, <3>2, <3>3
  <2> QED BY <2>2, <2>3
<1>3. HeadOf(IF j = h THEN n ELSE h, S \ {j}, r)
  <2>1. h \in S /\ \A x \in S : r[h] <= r[x]
    BY DEF HeadOf
  <2>2. CASE j # h
    BY <2>1, <2>2 DEF HeadOf
  <2>3. CASE j = h /\ n = NoJob
    <3>1. \A x \in S : r[x] = r[j]
      BY <1>0, <1>1, <2>1, <2>3
    <3>2. S \ {j} = {}
      BY <1>0, <3>1
    <3> QED BY <2>3, <3>2 DEF HeadOf
  <2>4. CASE j = h /\ n # NoJob
    <3>1. n \in S /\ r[j] < r[n] /\ \A x \in S : r[x] <= r[j] \/ r[n] <= r[x]
      BY <1>1, <2>4
    <3>2. ASSUME NEW x \in S \ {j} PROVE r[n] <= r[x]
      <4>1. r[x] # r[j] /\ r[j] <= r[x]
        BY <1>0, <2>1, <2>4
      <4> QED BY <1>0, <3>1, <4>1
    <3>3. n \in S \ {j}
      BY <1>0, <3>1
    <3> QED BY <2>4, <3>2, <3>3 DEF HeadOf
  <2> QED BY <2>2, <2>3, <2>4
<1>4. \A x \in S : f[x] = IF x = p THEN n ELSE fw[x]
  <2>1. CASE p = NoJob
    BY <1>0, <2>1
  <2>2. CASE p # NoJob
    <3>1. p \in Workers
      BY <1>2, <2>2
    <3> QED BY <2>2, <3>1
  <2> QED BY <2>1, <2>2
<1>5. ASSUME NEW k \in S \ {j}
      PROVE \/ f[k] = NoJob /\ \A x \in S \ {j} : r[x] <= r[k]
            \/ /\ f[k] \in S \ {j} /\ r[k] < r[f[k]]
               /\ \A x \in S \ {j} : r[x] <= r[k] \/ r[f[k]] <= r[x]
  <2>1. CASE k = p
    <3>1. f[k] = n
      BY <1>4, <2>1
    <3>2. p \in S /\ r[p] < r[j] /\ \A x \in S : r[j] <= r[x] \/ r[x] <= r[p]
      BY <1>0, <1>2, <2>1
    <3>3. CASE n = NoJob
      <4>1. \A x \in S : r[x] <= r[j]
        BY <1>0, <1>1, <3>3
      <4>2. ASSUME NEW x \in S \ {j} PROVE r[x] <= r[k]
        <5>1. r[x] # r[j]
          BY <1>0
        <5> QED BY <1>0, <2>1, <3>2, <4>1, <5>1
      <4> QED BY <3>1, <3>3, <4>2
    <3>4. CASE n # NoJob
      <4>1. n \in S /\ r[j] < r[n] /\ \A x \in S : r[x] <= r[j] \/ r[n] <= r[x]
        BY <1>1, <3>4
      <4>2. n \in S \ {j} /\ r[k] < r[n]
        BY <1>0, <2>1, <3>2, <4>1
      <4>3. ASSUME NEW x \in S \ {j} PROVE r[x] <= r[k] \/ r[n] <= r[x]
        <5>1. r[x] # r[j]
          BY <1>0
        <5>2. r[j] <= r[x] \/ r[x] <= r[p]
          BY <3>2
        <5>3. r[x] <= r[j] \/ r[n] <= r[x]
          BY <4>1
        <5> QED BY <1>0, <2>1, <5>1, <5>2, <5>3
      <4> QED BY <3>1, <4>2, <4>3
    <3> QED BY <3>3, <3>4
  <2>2. CASE k # p
    <3>1. f[k] = fw[k] /\ k \in S
      BY <1>4, <2>2
    <3>2. CASE fw[k] = NoJob
      <4>1. \A x \in S : r[x] <= r[k]
        BY <1>0, <3>1, <3>2 DEF Leads
      <4> QED BY <3>1, <3>2, <4>1
    <3>3. CASE fw[k] # NoJob
      <4>1. fw[k] \in S /\ r[k] < r[fw[k]] /\ \A x \in S : r[x] <= r[k] \/ r[fw[k]] <= r[x]
        BY <3>1, <3>3 DEF Leads
      <4>2. fw[k] # j
        <5> SUFFICES ASSUME fw[k] = j PROVE FALSE
          OBVIOUS
        <5>1. r[k] < r[j] /\ \A x \in S : r[x] <= r[k] \/ r[j] <= r[x]
          BY <4>1
        <5>2. p # NoJob
          BY <1>0, <1>2, <3>1, <5>1
        <5>3. p \in S /\ r[p] < r[j] /\ \A x \in S : r[j] <= r[x] \/ r[x] <= r[p]
          BY <1>2, <5>2
        <5>4. r[k] <= r[p] /\ r[p] <= r[k]
          BY <1>0, <3>1, <5>1, <5>3
        <5> QED BY <1>0, <2>2, <3>1, <5>3, <5>4
      <4> QED BY <3>1, <4>1, <4>2
    <3> QED BY <3>2, <3>3
  <2> QED BY <2>1, <2>2
<1> QED BY <1>3, <1>5 DEF Leads

\* What the three operations do to the queue, field by field.
LEMMA InsertIs ==
  ASSUME QueueTypes, NEW m \in Workers, q' = job_insert(m)
  PROVE /\ q' \in [head : Links, tail : Links, next : [Workers -> Links], prev : [Workers -> Links]]
        /\ q'.head = m
        /\ q'.next = [q.next EXCEPT ![m] = q.head]
        /\ q'.prev = IF q.head # NoJob THEN [[q.prev EXCEPT ![m] = NoJob] EXCEPT ![q.head] = m]
                                       ELSE [q.prev EXCEPT ![m] = NoJob]
        /\ q'.tail = IF q.head # NoJob THEN q.tail ELSE m
<1>0. q.head \in Links /\ q.tail \in Links /\ q.next \in [Workers -> Links] /\ q.prev \in [Workers -> Links]
      /\ q \in [head : Links, tail : Links, next : [Workers -> Links], prev : [Workers -> Links]]
  BY DEF QueueTypes
<1>1. q'.head = m
  BY DEF job_insert
<1>2. q'.next = [q.next EXCEPT ![m] = q.head]
  BY DEF job_insert
<1>3. q'.prev = IF q.head # NoJob THEN [[q.prev EXCEPT ![m] = NoJob] EXCEPT ![q.head] = m]
                                  ELSE [q.prev EXCEPT ![m] = NoJob]
  BY DEF job_insert
<1>4. q'.tail = IF q.head # NoJob THEN q.tail ELSE m
  BY DEF job_insert
<1>5. q' = [head |-> q'.head, tail |-> q'.tail, next |-> q'.next, prev |-> q'.prev]
  BY DEF job_insert
<1>6. q'.head \in Links /\ q'.tail \in Links
  BY <1>0, <1>1, <1>4 DEF Links
<1>7. q'.next \in [Workers -> Links] /\ q'.prev \in [Workers -> Links]
  BY <1>0, <1>2, <1>3 DEF Links
<1> QED BY <1>1, <1>2, <1>3, <1>4, <1>5, <1>6, <1>7

\* job_append is job_insert with head and tail, next and prev changed over.
LEMMA AppendIs ==
  ASSUME QueueTypes, NEW m \in Workers, q' = job_append(m)
  PROVE /\ q' \in [head : Links, tail : Links, next : [Workers -> Links], prev : [Workers -> Links]]
        /\ q'.tail = m
        /\ q'.prev = [q.prev EXCEPT ![m] = q.tail]
        /\ q'.next = IF q.tail # NoJob THEN [[q.next EXCEPT ![m] = NoJob] EXCEPT ![q.tail] = m]
                                       ELSE [q.next EXCEPT ![m] = NoJob]
        /\ q'.head = IF q.tail # NoJob THEN q.head ELSE m
<1>0. q.head \in Links /\ q.tail \in Links /\ q.next \in [Workers -> Links] /\ q.prev \in [Workers -> Links]
      /\ q \in [head : Links, tail : Links, next : [Workers -> Links], prev : [Workers -> Links]]
  BY DEF QueueTypes
<1>1. q'.tail = m
  BY DEF job_append
<1>2. q'.prev = [q.prev EXCEPT ![m] = q.tail]
  BY DEF job_append
<1>3. q'.next = IF q.tail # NoJob THEN [[q.next EXCEPT ![m] = NoJob] EXCEPT ![q.tail] = m]
                                  ELSE [q.next EXCEPT ![m] = NoJob]
  BY DEF job_append
<1>4. q'.head = IF q.tail # NoJob THEN q.head ELSE m
  BY DEF job_append
<1>5. q' = [head |-> q'.head, tail |-> q'.tail, next |-> q'.next, prev |-> q'.prev]
  BY DEF job_append
<1>6. q'.head \in Links /\ q'.tail \in Links
  BY <1>0, <1>1, <1>4 DEF Links
<1>7. q'.next \in [Workers -> Links] /\ q'.prev \in [Workers -> Links]
  BY <1>0, <1>2, <1>3 DEF Links
<1> QED BY <1>1, <1>2, <1>3, <1>4, <1>5, <1>6, <1>7

\* The four cases of job_remove are one: the neighbours j has are joined.
LEMMA RemoveIs ==
  ASSUME QueueTypes, Linked, NEW j \in OnQueue, q' = job_remove(j)
  PROVE /\ q' \in [head : Links, tail : Links, next : [Workers -> Links], prev : [Workers -> Links]]
        /\ q'.head = IF j = q.head THEN q.next[j] ELSE q.head
        /\ q'.tail = IF j = q.tail THEN q.prev[j] ELSE q.tail
        /\ q'.next = IF q.prev[j] = NoJob THEN q.next ELSE [q.next EXCEPT ![q.prev[j]] = q.next[j]]
        /\ q'.prev = IF q.next[j] = NoJob THEN q.prev ELSE [q.prev EXCEPT ![q.next[j]] = q.prev[j]]
<1>0. q.head \in Links /\ q.tail \in Links /\ q.next \in [Workers -> Links] /\ q.prev \in [Workers -> Links]
      /\ q \in [head : Links, tail : Links, next : [Workers -> Links], prev : [Workers -> Links]]
      /\ OnQueue \subseteq Workers /\ NoJob \notin Workers
  BY QueueAssumption DEF QueueTypes, OnQueue
<1>1. j = q.tail <=> q.next[j] = NoJob
  <2>1. \A x \in OnQueue : Up[x] \in Int /\ Down[x] \in Int /\ Down[x] = 0 - Up[x]
    BY <1>0, Orders
  <2>2. q.tail \in OnQueue /\ \A x \in OnQueue : Down[q.tail] <= Down[x]
    BY DEF Linked, HeadOf
  <2>3. \/ q.next[j] = NoJob /\ \A x \in OnQueue : Up[x] <= Up[j]
        \/ q.next[j] \in OnQueue /\ Up[j] < Up[q.next[j]]
    BY DEF Linked, Leads
  <2>4. CASE q.next[j] = NoJob
    <3>1. \A x \in OnQueue : Up[x] <= Up[j]
      BY <1>0, <2>3, <2>4
    <3>2. Up[q.tail] = Up[j]
      BY <2>1, <2>2, <3>1
    <3> QED BY <1>0, <2>2, <2>4, <3>2, Orders
  <2>5. CASE q.next[j] # NoJob
    <3>1. q.next[j] \in OnQueue /\ Up[j] < Up[q.next[j]]
      BY <2>3, <2>5
    <3>2. Down[q.next[j]] < Down[j]
      BY <2>1, <3>1
    <3>3. j # q.tail
      BY <2>1, <2>2, <3>1, <3>2
    <3> QED BY <2>5, <3>3
  <2> QED BY <2>4, <2>5
<1>2. j = q.head <=> q.prev[j] = NoJob
  <2>1. \A x \in OnQueue : Up[x] \in Int /\ Down[x] \in Int /\ Down[x] = 0 - Up[x]
    BY <1>0, Orders
  <2>2. q.head \in OnQueue /\ \A x \in OnQueue : Up[q.head] <= Up[x]
    BY DEF Linked, HeadOf
  <2>3. \/ q.prev[j] = NoJob /\ \A x \in OnQueue : Down[x] <= Down[j]
        \/ q.prev[j] \in OnQueue /\ Down[j] < Down[q.prev[j]]
    BY DEF Linked, Leads
  <2>4. CASE q.prev[j] = NoJob
    <3>1. \A x \in OnQueue : Down[x] <= Down[j]
      BY <1>0, <2>3, <2>4
    <3>2. Up[q.head] = Up[j]
      BY <2>1, <2>2, <3>1
    <3> QED BY <1>0, <2>2, <2>4, <3>2, Orders
  <2>5. CASE q.prev[j] # NoJob
    <3>1. q.prev[j] \in OnQueue /\ Down[j] < Down[q.prev[j]]
      BY <2>3, <2>5
    <3>2. Up[q.prev[j]] < Up[j]
      BY <2>1, <3>1
    <3>3. j # q.head
      BY <2>1, <2>2, <3>1, <3>2
    <3> QED BY <2>5, <3>3
  <2> QED BY <2>4, <2>5
<1>3. q'.head = IF j = q.head THEN q.next[j] ELSE q.head
  BY <1>0 DEF job_remove
<1>4. q'.tail = IF j = q.tail THEN q.prev[j] ELSE q.tail
  BY <1>0, <1>1, <1>2 DEF job_remove
<1>5. q'.next = IF q.prev[j] = NoJob THEN q.next ELSE [q.next EXCEPT ![q.prev[j]] = q.next[j]]
  BY <1>0, <1>1, <1>2 DEF job_remove
<1>6. q'.prev = IF q.next[j] = NoJob THEN q.prev ELSE [q.prev EXCEPT ![q.next[j]] = q.prev[j]]
  BY <1>0, <1>1, <1>2 DEF job_remove
<1>7. q' = [head |-> q'.head, tail |-> q'.tail, next |-> q'.next, prev |-> q'.prev]
  BY <1>0 DEF job_remove
<1>8. q.next[j] \in Links /\ q.prev[j] \in Links
  BY <1>0
<1>9. q'.head \in Links /\ q'.tail \in Links
  BY <1>0, <1>3, <1>4, <1>8
<1>10. q'.next \in [Workers -> Links] /\ q'.prev \in [Workers -> Links]
  BY <1>0, <1>5, <1>6, <1>8
<1> QED BY <1>3, <1>4, <1>5, <1>6, <1>7, <1>9, <1>10

\* Before main creates the workers.
LEMMA QueueStarts ==
  ASSUME QueueInit
  PROVE QueueInv
<1> USE QueueAssumption
<1>1. QueueTypes
  BY DEF QueueInit, QueueTypes, Links, Workers
<1>2. OnQueue = {}
  BY DEF QueueInit, OnQueue, Workers
<1>3. q.head = NoJob /\ q.tail = NoJob
  BY DEF QueueInit
<1>4. Linked
  BY <1>2, <1>3 DEF Linked, HeadOf, Leads
<1>5. Course
  BY DEF QueueInit, Course, Workers
<1>6. NoLostWakeup
  BY DEF QueueInit, NoLostWakeup
<1> QED BY <1>1, <1>4, <1>5, <1>6 DEF QueueInv

\* The steps that leave the list alone keep it.
LEMMA LinkedKept ==
  ASSUME Linked, UNCHANGED q, OnQueue' = OnQueue
  PROVE Linked'
BY DEF Linked, HeadOf, Leads, Up, Down

\* main creates a worker.
LEMMA CreateKeeps ==
  ASSUME QueueInv, NEW w \in Workers, Create(w)
  PROVE QueueInv'
<1> USE QueueAssumption
<1>0. QueueTypes /\ Linked /\ Course /\ NoLostWakeup
  BY DEF QueueInv
<1>1. /\ mpc = "create" /\ wpc[w] = "none" /\ made = 0
      /\ wpc' = [wpc EXCEPT ![w] = "find"] /\ UNCHANGED <<q, made, mem>>
      /\ mpc' \in {"create", "schedule"}
  BY <1>0 DEF Create, Course
<1>2. QueueTypes'
  BY <1>0, <1>1 DEF QueueTypes
<1>3. OnQueue' = OnQueue
  BY <1>0, <1>1 DEF OnQueue, QueueTypes
<1>4. Linked'
  BY <1>0, <1>1, <1>3, LinkedKept
<1>5. Course'
  BY <1>0, <1>1 DEF Course, QueueTypes
<1>6. NoLostWakeup'
  BY <1>0, <1>1 DEF NoLostWakeup, Course, QueueTypes, Workers
<1> QED BY <1>2, <1>4, <1>5, <1>6 DEF QueueInv

\* main makes a job and puts it at one end of the queue.
LEMMA ScheduleKeeps ==
  ASSUME QueueInv, Schedule
  PROVE QueueInv'
<1> USE QueueAssumption
<1>0. QueueTypes /\ Linked /\ Course /\ NoLostWakeup
  BY DEF QueueInv
<1> PICK m : m = made
  OBVIOUS
<1>1. /\ mpc = "schedule" /\ mpc' = "broadcast" /\ made' = m + 1 /\ UNCHANGED wpc
      /\ mem' = [mem EXCEPT ![m] = "made"]
      /\ q' = IF m % 2 = 0 THEN job_insert(m) ELSE job_append(m)
  BY DEF Schedule
<1>2. m \in Workers /\ m \in Nat /\ m < NUM_THREADS
  BY <1>0, <1>1 DEF QueueTypes, Course, Workers
<1>3. OnQueue \in SUBSET Workers /\ m \notin OnQueue /\ \A x \in OnQueue : x \in Nat /\ x < m
  BY <1>0 DEF OnQueue, QueueTypes, Workers
<1>4. OnQueue' = OnQueue \cup {m}
  <2>1. wpc[m] \notin {"free", "done"}
    BY <1>0, <1>2 DEF Course, QueueTypes
  <2>2. \A x \in Workers : x < m + 1 <=> x < m \/ x = m
    BY <1>2 DEF Workers
  <2> QED BY <1>1, <1>2, <2>1, <2>2 DEF OnQueue
<1>5. q.head \in Links /\ q.tail \in Links /\ q.next \in [Workers -> Links]
      /\ q.prev \in [Workers -> Links]
  BY <1>0 DEF QueueTypes
<1>6. /\ HeadOf(q.head, OnQueue, Up) /\ Leads(q.next, OnQueue, Up)
      /\ HeadOf(q.tail, OnQueue, Down) /\ Leads(q.prev, OnQueue, Down)
  BY <1>0 DEF Linked
<1>7. \A x \in OnQueue : Up[x] = Place(x) /\ Down[x] = 0 - Up[x] /\ Up[x] \in Int
  BY <1>3, Orders
<1>8. Up[m] = Place(m) /\ Down[m] = 0 - Up[m] /\ Up[m] \in Int
  BY <1>2, Orders
<1> DEFINE Types == [head : Links, tail : Links, next : [Workers -> Links], prev : [Workers -> Links]]
<1>9. ASSUME m % 2 = 0 PROVE q' \in Types /\ Linked'
  <2>1. q' = job_insert(m)
    BY <1>1, <1>9
  <2>2. \A x \in OnQueue : Up[m] < Up[x]
    BY <1>2, <1>3, <1>7, <1>8, <1>9, PlaceOrder
  <2>3. /\ q' \in [head : Links, tail : Links, next : [Workers -> Links], prev : [Workers -> Links]]
        /\ q'.head = m
        /\ q'.next = [q.next EXCEPT ![m] = q.head]
        /\ q'.prev = IF q.head # NoJob THEN [[q.prev EXCEPT ![m] = NoJob] EXCEPT ![q.head] = m]
                                       ELSE [q.prev EXCEPT ![m] = NoJob]
        /\ q'.tail = IF q.head # NoJob THEN q.tail ELSE m
    BY <1>0, <1>2, <2>1, InsertIs
  <2>4. HeadOf(m, OnQueue \cup {m}, Up) /\ Leads([q.next EXCEPT ![m] = q.head], OnQueue \cup {m}, Up)
    BY <1>2, <1>3, <1>5, <1>6, <2>2, Orders, PutForward
  <2>5. HeadOf(q'.tail, OnQueue \cup {m}, Down) /\ Leads(q'.prev, OnQueue \cup {m}, Down)
    <3> PICK h, t, bw, b : h = q.head /\ t = q.tail /\ bw = q.prev /\ b = q'.prev
      OBVIOUS
    <3>1. bw \in [Workers -> Links] /\ HeadOf(h, OnQueue, Up) /\ HeadOf(t, OnQueue, Down)
          /\ Leads(bw, OnQueue, Down)
      BY <1>5, <1>6
    <3>2. b = IF h # NoJob THEN [[bw EXCEPT ![m] = NoJob] EXCEPT ![h] = m]
                            ELSE [bw EXCEPT ![m] = NoJob]
      BY <2>3
    <3>3. /\ Up \in [Workers -> Int] /\ Down \in [Workers -> Int]
          /\ \A x \in Workers : Down[x] = 0 - Up[x]
          /\ \A x, y \in Workers : Up[x] = Up[y] => x = y
      BY Orders
    <3>4. PutBefore(OnQueue, Up, Down, h, t, bw, b, m)
      BY <1>2, <1>3, <2>2, <3>1, <3>2, <3>3 DEF PutBefore
    <3>5. HeadOf(IF h # NoJob THEN t ELSE m, OnQueue \cup {m}, Down) /\ Leads(b, OnQueue \cup {m}, Down)
      BY <3>4, PutBackward
    <3> QED BY <2>3, <3>5
  <2>6. HeadOf(q'.head, OnQueue', Up) /\ Leads(q'.next, OnQueue', Up)
    BY <1>4, <2>3, <2>4
  <2>7. HeadOf(q'.tail, OnQueue', Down) /\ Leads(q'.prev, OnQueue', Down)
    BY <1>4, <2>5
  <2>8. Linked'
    BY <2>6, <2>7 DEF Linked, HeadOf, Leads, Up, Down
  <2> QED BY <2>3, <2>8
<1>10. ASSUME m % 2 # 0 PROVE q' \in Types /\ Linked'
  <2>1. q' = job_append(m)
    BY <1>1, <1>10
  <2>2. \A x \in OnQueue : Down[m] < Down[x]
    BY <1>2, <1>3, <1>7, <1>8, <1>10, PlaceOrder
  <2>3. /\ q' \in [head : Links, tail : Links, next : [Workers -> Links], prev : [Workers -> Links]]
        /\ q'.tail = m
        /\ q'.prev = [q.prev EXCEPT ![m] = q.tail]
        /\ q'.next = IF q.tail # NoJob THEN [[q.next EXCEPT ![m] = NoJob] EXCEPT ![q.tail] = m]
                                       ELSE [q.next EXCEPT ![m] = NoJob]
        /\ q'.head = IF q.tail # NoJob THEN q.head ELSE m
    BY <1>0, <1>2, <2>1, AppendIs
  <2>4. HeadOf(m, OnQueue \cup {m}, Down) /\ Leads([q.prev EXCEPT ![m] = q.tail], OnQueue \cup {m}, Down)
    BY <1>2, <1>3, <1>5, <1>6, <2>2, Orders, PutForward
  <2>5. HeadOf(q'.head, OnQueue \cup {m}, Up) /\ Leads(q'.next, OnQueue \cup {m}, Up)
    <3> PICK h, t, bw, b : h = q.tail /\ t = q.head /\ bw = q.next /\ b = q'.next
      OBVIOUS
    <3>1. bw \in [Workers -> Links] /\ HeadOf(h, OnQueue, Down) /\ HeadOf(t, OnQueue, Up)
          /\ Leads(bw, OnQueue, Up)
      BY <1>5, <1>6
    <3>2. b = IF h # NoJob THEN [[bw EXCEPT ![m] = NoJob] EXCEPT ![h] = m]
                            ELSE [bw EXCEPT ![m] = NoJob]
      BY <2>3
    <3>3. /\ Up \in [Workers -> Int] /\ Down \in [Workers -> Int]
          /\ \A x \in Workers : Up[x] = 0 - Down[x]
          /\ \A x, y \in Workers : Down[x] = Down[y] => x = y
      BY Orders
    <3>4. PutBefore(OnQueue, Down, Up, h, t, bw, b, m)
      BY <1>2, <1>3, <2>2, <3>1, <3>2, <3>3 DEF PutBefore
    <3>5. HeadOf(IF h # NoJob THEN t ELSE m, OnQueue \cup {m}, Up) /\ Leads(b, OnQueue \cup {m}, Up)
      BY <3>4, PutBackward
    <3> QED BY <2>3, <3>5
  <2>6. HeadOf(q'.tail, OnQueue', Down) /\ Leads(q'.prev, OnQueue', Down)
    BY <1>4, <2>3, <2>4
  <2>7. HeadOf(q'.head, OnQueue', Up) /\ Leads(q'.next, OnQueue', Up)
    BY <1>4, <2>5
  <2>8. Linked'
    BY <2>6, <2>7 DEF Linked, HeadOf, Leads, Up, Down
  <2> QED BY <2>3, <2>8
<1>11. q' \in [head : Links, tail : Links, next : [Workers -> Links], prev : [Workers -> Links]]
       /\ Linked'
  BY <1>9, <1>10
<1>12. QueueTypes'
  <2>1. made' \in 0..NUM_THREADS
    BY <1>1, <1>2
  <2>2. mem' \in [Workers -> {"none", "made", "freed"}]
    BY <1>0, <1>1, <1>2 DEF QueueTypes
  <2> QED BY <1>0, <1>1, <1>11, <2>1, <2>2 DEF QueueTypes
<1>13. Course'
  <2>1. ASSUME NEW w \in Workers
        PROVE /\ wpc'[w] \in {"work", "free", "done"} => w < made'
              /\ mem'[w] = "made" <=> w < made' /\ wpc'[w] # "done"
    <3>1. w \in Nat /\ (w < m + 1 <=> w < m \/ w = m)
      BY <1>2 DEF Workers
    <3>2. mem'[w] = IF w = m THEN "made" ELSE mem[w]
      BY <1>0, <1>1, <1>2 DEF QueueTypes
    <3>3. wpc[m] # "done"
      BY <1>0, <1>2 DEF Course
    <3>4. /\ wpc[w] \in {"work", "free", "done"} => w < m
          /\ mem[w] = "made" <=> w < m /\ wpc[w] # "done"
      BY <1>0 DEF Course
    <3> QED BY <1>1, <3>1, <3>2, <3>3, <3>4
  <2> QED BY <1>1, <2>1 DEF Course
<1>14. NoLostWakeup'
  BY <1>1 DEF NoLostWakeup
<1> QED BY <1>11, <1>12, <1>13, <1>14 DEF QueueInv

\* The broadcast wakes every worker that waits.
LEMMA BroadcastKeeps ==
  ASSUME QueueInv, Broadcast
  PROVE QueueInv'
<1> USE QueueAssumption
<1>0. QueueTypes /\ Linked /\ Course /\ NoLostWakeup
  BY DEF QueueInv
<1>1. /\ wpc' = [w \in Workers |-> IF wpc[w] = "wait" THEN "find" ELSE wpc[w]]
      /\ mpc' = IF made = NUM_THREADS THEN "join" ELSE "schedule"
      /\ UNCHANGED <<q, made, mem>>
  BY DEF Broadcast
<1>2. QueueTypes'
  BY <1>0, <1>1 DEF QueueTypes
<1>3. OnQueue' = OnQueue
  BY <1>0, <1>1 DEF OnQueue, QueueTypes
<1>4. Linked'
  BY <1>0, <1>1, <1>3, LinkedKept
<1>5. Course'
  BY <1>0, <1>1 DEF Course, QueueTypes
<1>6. NoLostWakeup'
  BY <1>0, <1>1 DEF NoLostWakeup, QueueTypes
<1> QED BY <1>2, <1>4, <1>5, <1>6 DEF QueueInv

\* job_find meets the whole list, so a worker sleeps only if its job has not been made.
LEMMA job_findKeeps ==
  ASSUME QueueInv, NEW w \in Workers, job_find(w)
  PROVE QueueInv'
<1> USE QueueAssumption
<1>0. QueueTypes /\ Linked /\ Course /\ NoLostWakeup
  BY DEF QueueInv
<1>1. /\ wpc[w] = "find" /\ UNCHANGED <<q, made, mpc, mem>>
      /\ wpc' = [wpc EXCEPT ![w] = IF w \in OnQueue THEN "work" ELSE "wait"]
  BY <1>0, MetQueue DEF job_find
<1>2. QueueTypes'
  BY <1>0, <1>1 DEF QueueTypes
<1>3. OnQueue' = OnQueue
  BY <1>0, <1>1 DEF OnQueue, QueueTypes
<1>4. Linked'
  BY <1>0, <1>1, <1>3, LinkedKept
<1>5. Course'
  BY <1>0, <1>1 DEF Course, QueueTypes, OnQueue
<1>6. NoLostWakeup'
  BY <1>0, <1>1 DEF NoLostWakeup, QueueTypes, Course, OnQueue
<1> QED BY <1>2, <1>4, <1>5, <1>6 DEF QueueInv

\* pthread_cond_wait returns for no reason; main joins its workers; a worker frees its job.
LEMMA OthersKeep ==
  ASSUME QueueInv, NEW w \in Workers, Spurious(w) \/ Free(w) \/ Join
  PROVE QueueInv'
<1> USE QueueAssumption
<1>0. QueueTypes /\ Linked /\ Course /\ NoLostWakeup
  BY DEF QueueInv
<1>1. CASE Spurious(w)
  <2>1. wpc[w] = "wait" /\ wpc' = [wpc EXCEPT ![w] = "find"] /\ UNCHANGED <<q, made, mpc, mem>>
    BY <1>1 DEF Spurious
  <2>2. QueueTypes'
    BY <1>0, <2>1 DEF QueueTypes
  <2>3. OnQueue' = OnQueue
    BY <1>0, <2>1 DEF OnQueue, QueueTypes
  <2>4. Linked'
    BY <1>0, <2>1, <2>3, LinkedKept
  <2>5. Course' /\ NoLostWakeup'
    BY <1>0, <2>1 DEF Course, QueueTypes, NoLostWakeup
  <2> QED BY <2>2, <2>4, <2>5 DEF QueueInv
<1>2. CASE Free(w)
  <2>1. wpc[w] = "free" /\ wpc' = [wpc EXCEPT ![w] = "done"]
        /\ mem' = [mem EXCEPT ![w] = "freed"] /\ UNCHANGED <<q, made, mpc>>
    BY <1>2 DEF Free
  <2>2. QueueTypes'
    BY <1>0, <2>1 DEF QueueTypes
  <2>3. OnQueue' = OnQueue
    BY <1>0, <2>1 DEF OnQueue, QueueTypes
  <2>4. Linked'
    BY <1>0, <2>1, <2>3, LinkedKept
  <2>5. Course' /\ NoLostWakeup'
    BY <1>0, <2>1 DEF Course, QueueTypes, NoLostWakeup
  <2> QED BY <2>2, <2>4, <2>5 DEF QueueInv
<1>3. CASE Join
  <2>1. mpc = "join" /\ mpc' = "exit" /\ UNCHANGED <<q, made, wpc, mem>>
        /\ \A v \in Workers : wpc[v] = "done"
    BY <1>3 DEF Join
  <2>2. QueueTypes'
    BY <1>0, <2>1 DEF QueueTypes
  <2>3. OnQueue' = OnQueue
    BY <2>1 DEF OnQueue
  <2>4. Linked'
    BY <1>0, <2>1, <2>3, LinkedKept
  <2>5. Course' /\ NoLostWakeup'
    BY <1>0, <2>1 DEF Course, NoLostWakeup
  <2> QED BY <2>2, <2>4, <2>5 DEF QueueInv
<1> QED BY <1>1, <1>2, <1>3

\* A worker takes its job off the list.
LEMMA RemoveKeeps ==
  ASSUME QueueInv, NEW w \in Workers, Remove(w)
  PROVE QueueInv'
<1> USE QueueAssumption
<1>0. QueueTypes /\ Linked /\ Course /\ NoLostWakeup
  BY DEF QueueInv
<1>1. wpc[w] = "work" /\ wpc' = [wpc EXCEPT ![w] = "free"] /\ UNCHANGED <<made, mpc, mem>>
      /\ q' = job_remove(w)
  BY DEF Remove
<1>2. w \in OnQueue
  BY <1>0, <1>1 DEF Course, OnQueue
<1>3. OnQueue' = OnQueue \ {w} /\ OnQueue \in SUBSET Workers
  BY <1>0, <1>1 DEF OnQueue, QueueTypes
<1>4. q.head \in Links /\ q.tail \in Links /\ q.next \in [Workers -> Links]
      /\ q.prev \in [Workers -> Links]
  BY <1>0 DEF QueueTypes
<1>5. /\ HeadOf(q.head, OnQueue, Up) /\ Leads(q.next, OnQueue, Up)
      /\ HeadOf(q.tail, OnQueue, Down) /\ Leads(q.prev, OnQueue, Down)
  BY <1>0 DEF Linked
<1>6. /\ q' \in [head : Links, tail : Links, next : [Workers -> Links], prev : [Workers -> Links]]
      /\ q'.head = IF w = q.head THEN q.next[w] ELSE q.head
      /\ q'.tail = IF w = q.tail THEN q.prev[w] ELSE q.tail
      /\ q'.next = IF q.prev[w] = NoJob THEN q.next ELSE [q.next EXCEPT ![q.prev[w]] = q.next[w]]
      /\ q'.prev = IF q.next[w] = NoJob THEN q.prev ELSE [q.prev EXCEPT ![q.next[w]] = q.prev[w]]
  BY <1>0, <1>1, <1>2, RemoveIs
<1>7. HeadOf(q'.head, OnQueue \ {w}, Up) /\ Leads(q'.next, OnQueue \ {w}, Up)
  <2> PICK h, fw, bw, f : h = q.head /\ fw = q.next /\ bw = q.prev /\ f = q'.next
    OBVIOUS
  <2>1. /\ Up \in [Workers -> Int] /\ Down \in [Workers -> Int]
        /\ \A x \in Workers : Down[x] = 0 - Up[x]
        /\ \A x, y \in Workers : Up[x] = Up[y] => x = y
    BY Orders
  <2>2. fw \in [Workers -> Links] /\ bw \in [Workers -> Links]
        /\ HeadOf(h, OnQueue, Up) /\ Leads(fw, OnQueue, Up) /\ Leads(bw, OnQueue, Down)
    BY <1>4, <1>5
  <2>3. f = IF bw[w] = NoJob THEN fw ELSE [fw EXCEPT ![bw[w]] = fw[w]]
    BY <1>6
  <2>4. TakenOut(OnQueue, Up, Down, h, fw, bw, f, w)
    BY <1>2, <1>3, <2>1, <2>2, <2>3 DEF TakenOut
  <2>5. HeadOf(IF w = h THEN fw[w] ELSE h, OnQueue \ {w}, Up) /\ Leads(f, OnQueue \ {w}, Up)
    BY <2>4, CutForward
  <2> QED BY <1>6, <2>5
<1>8. HeadOf(q'.tail, OnQueue \ {w}, Down) /\ Leads(q'.prev, OnQueue \ {w}, Down)
  <2> PICK h, fw, bw, f : h = q.tail /\ fw = q.prev /\ bw = q.next /\ f = q'.prev
    OBVIOUS
  <2>1. /\ Up \in [Workers -> Int] /\ Down \in [Workers -> Int]
        /\ \A x \in Workers : Up[x] = 0 - Down[x]
        /\ \A x, y \in Workers : Down[x] = Down[y] => x = y
    BY Orders
  <2>2. fw \in [Workers -> Links] /\ bw \in [Workers -> Links]
        /\ HeadOf(h, OnQueue, Down) /\ Leads(fw, OnQueue, Down) /\ Leads(bw, OnQueue, Up)
    BY <1>4, <1>5
  <2>3. f = IF bw[w] = NoJob THEN fw ELSE [fw EXCEPT ![bw[w]] = fw[w]]
    BY <1>6
  <2>4. TakenOut(OnQueue, Down, Up, h, fw, bw, f, w)
    BY <1>2, <1>3, <2>1, <2>2, <2>3 DEF TakenOut
  <2>5. HeadOf(IF w = h THEN fw[w] ELSE h, OnQueue \ {w}, Down) /\ Leads(f, OnQueue \ {w}, Down)
    BY <2>4, CutForward
  <2> QED BY <1>6, <2>5
<1>9. HeadOf(q'.head, OnQueue', Up) /\ Leads(q'.next, OnQueue', Up)
      /\ HeadOf(q'.tail, OnQueue', Down) /\ Leads(q'.prev, OnQueue', Down)
  BY <1>3, <1>7, <1>8
<1>10. Linked'
  BY <1>9 DEF Linked, HeadOf, Leads, Up, Down
<1>11. QueueTypes'
  BY <1>0, <1>1, <1>6 DEF QueueTypes
<1>12. Course' /\ NoLostWakeup'
  BY <1>0, <1>1 DEF Course, QueueTypes, NoLostWakeup
<1> QED BY <1>10, <1>11, <1>12 DEF QueueInv

(* The job queue of rwlock.c serves its workers, however many there are: job_insert, job_append and
   job_remove keep the list whole in both directions with exactly the jobs scheduled and not yet
   removed on it, none of them freed, and no worker sleeps while its job is queued unless the
   broadcast for it is still to come. *)
THEOREM QueueAlwaysServes == QueueSpec => []QueueServes
<1>1. QueueInit => QueueInv
  BY QueueStarts
<1>2. QueueInv /\ [QueueNext]_queueVars => QueueInv'
  <2> SUFFICES ASSUME QueueInv, [QueueNext]_queueVars PROVE QueueInv'
    OBVIOUS
  <2>0. 0 \in Workers
    BY QueueAssumption DEF Workers
  <2>1. CASE Join
    BY <2>0, <2>1, OthersKeep
  <2>2. CASE UNCHANGED queueVars
    <3>1. QueueTypes /\ Linked /\ Course /\ NoLostWakeup
      BY DEF QueueInv
    <3>2. OnQueue' = OnQueue
      BY <2>2 DEF OnQueue, queueVars
    <3>3. Linked'
      BY <2>2, <3>1, <3>2, LinkedKept DEF queueVars
    <3>4. QueueTypes' /\ Course' /\ NoLostWakeup'
      BY <2>2, <3>1 DEF QueueTypes, Course, NoLostWakeup, queueVars
    <3> QED BY <3>3, <3>4 DEF QueueInv
  <2> QED BY <2>1, <2>2, ScheduleKeeps, BroadcastKeeps, CreateKeeps, job_findKeeps, OthersKeep,
             RemoveKeeps DEF QueueNext
<1>3. QueueInv => QueueServes
  <2> SUFFICES ASSUME QueueInv PROVE QueueWhole
    BY DEF QueueInv, QueueServes
  <2>0. QueueTypes /\ Linked /\ Course
    BY DEF QueueInv
  <2> PICK on : on = OnQueue
    OBVIOUS
  <2>1. Met(q.head, q.next) = on /\ Met(q.tail, q.prev) = on
    BY <2>0, MetQueue
  <2>2. on \subseteq Workers /\ NoJob \notin on
    BY QueueAssumption DEF OnQueue
  <2>3. \A x \in on : Up[x] \in Int /\ Down[x] \in Int /\ Down[x] = 0 - Up[x]
    BY <2>2, Orders
  <2>4. \A x, y \in on : Up[x] = Up[y] => x = y
    BY <2>2, Orders
  <2>5. /\ HeadOf(q.head, on, Up) /\ Leads(q.next, on, Up)
        /\ HeadOf(q.tail, on, Down) /\ Leads(q.prev, on, Down)
    BY <2>0 DEF Linked
  <2>6. \A j \in on : mem[j] = "made"
    BY <2>0 DEF Course, OnQueue
  <2>7. ASSUME NEW j \in on PROVE q.next[j] = NoJob <=> j = q.tail
    <3>1. q.tail \in on /\ \A x \in on : Up[x] <= Up[q.tail]
      <4>1. q.tail \in on /\ \A x \in on : Down[q.tail] <= Down[x]
        BY <2>5 DEF HeadOf
      <4> QED BY <2>3, <4>1
    <3>2. \/ q.next[j] = NoJob /\ \A x \in on : Up[x] <= Up[j]
          \/ q.next[j] \in on /\ Up[j] < Up[q.next[j]]
      BY <2>5 DEF Leads
    <3>3. CASE q.next[j] = NoJob
      <4>1. Up[q.tail] = Up[j]
        BY <2>2, <2>3, <3>1, <3>2, <3>3
      <4> QED BY <2>4, <3>1, <3>3, <4>1
    <3>4. CASE q.next[j] # NoJob
      BY <2>3, <3>1, <3>2, <3>4
    <3> QED BY <3>3, <3>4
  <2>8. ASSUME NEW j \in on PROVE q.prev[j] = NoJob <=> j = q.head
    <3>1. q.head \in on /\ \A x \in on : Up[q.head] <= Up[x]
      BY <2>5 DEF HeadOf
    <3>2. \/ q.prev[j] = NoJob /\ \A x \in on : Up[j] <= Up[x]
          \/ q.prev[j] \in on /\ Up[q.prev[j]] < Up[j]
      <4>1. \/ q.prev[j] = NoJob /\ \A x \in on : Down[x] <= Down[j]
            \/ q.prev[j] \in on /\ Down[j] < Down[q.prev[j]]
        BY <2>5 DEF Leads
      <4>2. CASE q.prev[j] = NoJob
        BY <2>2, <2>3, <4>1, <4>2
      <4>3. CASE q.prev[j] # NoJob
        BY <2>3, <4>1, <4>3
      <4> QED BY <4>2, <4>3
    <3>3. CASE q.prev[j] = NoJob
      <4>1. Up[q.head] = Up[j]
        BY <2>2, <2>3, <3>1, <3>2, <3>3
      <4> QED BY <2>4, <3>1, <3>3, <4>1
    <3>4. CASE q.prev[j] # NoJob
      BY <2>3, <3>1, <3>2, <3>4
    <3> QED BY <3>3, <3>4
  <2>9. ASSUME NEW j \in on, q.next[j] # NoJob PROVE q.prev[q.next[j]] = j
    <3> PICK k : k = q.next[j]
      OBVIOUS
    <3>1. k \in on /\ Up[j] < Up[k] /\ \A x \in on : Up[x] <= Up[j] \/ Up[k] <= Up[x]
      BY <2>5, <2>9 DEF Leads
    <3> PICK p : p = q.prev[k]
      OBVIOUS
    <3>2. \/ p = NoJob /\ \A x \in on : Down[x] <= Down[k]
          \/ p \in on /\ Down[k] < Down[p] /\ \A x \in on : Down[x] <= Down[k] \/ Down[p] <= Down[x]
      BY <2>5, <3>1 DEF Leads
    <3>3. Down[k] < Down[j]
      BY <2>3, <3>1
    <3>4. p \in on /\ Down[k] < Down[p] /\ Down[p] <= Down[j]
      BY <2>3, <3>1, <3>2, <3>3
    <3>5. Up[p] = Up[j]
      BY <2>3, <3>1, <3>4
    <3> QED BY <2>4, <3>4, <3>5
  <2> QED BY <2>1, <2>6, <2>7, <2>8, <2>9 DEF QueueWhole, OnQueue
<1> QED BY <1>1, <1>2, <1>3, PTL DEF QueueSpec

-----------------------------------------------------------------------------
(* Semaph, for every number of processes, sets and kills.  A process has undo
   adjustments for exactly what it holds: one count while it has the semaphore
   open, one lock while it is between locking and unlocking, one unit after a
   wait.  So a kill at any call gives all of it back (SInv). *)
Locked == {p \in Procs : Valid(p) /\ spc[p] \in LockedPCs}
Holders == {p \in Procs : adj[p].val = 1}
\* An initialised set is open, or being left, at these.
ReadyPCs == UserPCs \cup {"c_end", "cl_get", "cl_rm", "cl_unlock"}

\* What the adjustments of u say of it, and what it may rely on where.
ProcOk(u) ==
  /\ id[u] <= cur
  /\ adj[u].lock = IF u \in Locked THEN -1 ELSE 0
  /\ adj[u].cnt = IF u \in Users THEN 1 ELSE 0
  /\ sem.cnt = 0 => adj[u].val = 0
  /\ spc[u] = "o_op" => "open" \in Ops[u]
  /\ Valid(u) =>
       /\ spc[u] = "wait" => adj[u].val = 0
       /\ spc[u] = "signal" => adj[u].val = 1
       /\ spc[u] \in {"c_init0", "c_init1"} => sem.cnt = 0
       /\ spc[u] = "c_init1" => sem.val = InitVal
       /\ spc[u] \in ReadyPCs => sem.cnt # 0
       /\ spc[u] = "cl_rm" => Creators = {}

LockInv == (sem.lock = 0 /\ Locked = {}) \/ (sem.lock = 1 /\ \E p \in Procs : Locked = {p})
CountInv == sem.cnt # 0 => sem.cnt = BIGCOUNT - Cardinality(Users)
UnitInv == sem.cnt # 0 => sem.val + Cardinality(Holders) = InitVal

SInv ==
  /\ SemTypeOK
  /\ (exists => cur > 0) /\ (~exists => sem = Zero)
  /\ \A u \in Procs : ProcOk(u)
  /\ LockInv /\ CountInv /\ UnitInv
-----------------------------------------------------------------------------
(* Counting. *)

\* A subset of the processes, and one process more or less.
LEMMA Counting ==
  ASSUME SemaphAssumption, NEW S \in SUBSET Procs, NEW T \in SUBSET Procs, NEW p \in Procs,
         \A u \in Procs : u # p => (u \in T <=> u \in S)
  PROVE  /\ Cardinality(S) \in 0..Cardinality(Procs) /\ Cardinality(T) \in 0..Cardinality(Procs)
         /\ Cardinality(Procs) \in Nat /\ Cardinality(Procs) < BIGCOUNT
         /\ (p \in S <=> p \in T) => Cardinality(T) = Cardinality(S)
         /\ p \notin S /\ p \in T => Cardinality(T) = Cardinality(S) + 1
         /\ p \in S /\ p \notin T => Cardinality(T) = Cardinality(S) - 1
<1>1. IsFiniteSet(Procs) /\ BIGCOUNT \in Nat /\ BIGCOUNT > Cardinality(Procs)
  BY DEF SemaphAssumption
<1>2. IsFiniteSet(S) /\ IsFiniteSet(T) /\ Cardinality(S) <= Cardinality(Procs) /\ Cardinality(T) <= Cardinality(Procs)
  BY <1>1, FS_Subset
<1>3. Cardinality(S) \in Nat /\ Cardinality(T) \in Nat /\ Cardinality(Procs) \in Nat
  BY <1>1, <1>2, FS_CardinalityType
<1>4. (p \in S <=> p \in T) => T = S
  OBVIOUS
<1>5. p \notin S /\ p \in T => Cardinality(T) = Cardinality(S) + 1
  <2>1. p \notin S /\ p \in T => T = S \cup {p}
    OBVIOUS
  <2> QED
    BY <1>2, <2>1, FS_AddElement
<1>6. p \in S /\ p \notin T => Cardinality(S) = Cardinality(T) + 1
  <2>1. p \in S /\ p \notin T => S = T \cup {p}
    OBVIOUS
  <2> QED
    BY <1>2, <2>1, FS_AddElement
<1> QED
  BY <1>1, <1>2, <1>3, <1>4, <1>5, <1>6

LEMMA NoneCounted == Cardinality({}) = 0 /\ \A x : Cardinality({x}) = 1
<1> QED
  BY FS_EmptySet, FS_Singleton
-----------------------------------------------------------------------------
(* The effect of a semop. *)

\* o is an array with SEM_UNDO that waits for the lock (w) and adds v, n and k.
Step == {-1, 0, 1}
IsOp(o, w, v, n, k) ==
  /\ o.undo /\ (o.wait <=> w)
  /\ o.d \in [val : Step, cnt : Step, lock : Step] /\ o.d.val = v /\ o.d.cnt = n /\ o.d.lock = k

LEMMA OpValues ==
  ASSUME NEW p
  PROVE  /\ SemAt(p, "c_lock") => IsOp(OpOf(p), TRUE, 0, 0, 1)
         /\ SemAt(p, "c_end") => IsOp(OpOf(p), FALSE, 0, -1, -1)
         /\ SemAt(p, "o_op") => IsOp(OpOf(p), FALSE, 0, -1, 0)
         /\ SemAt(p, "cl_op") => IsOp(OpOf(p), TRUE, 0, 1, 1)
         /\ SemAt(p, "cl_unlock") => IsOp(OpOf(p), FALSE, 0, 0, -1)
         /\ SemAt(p, "wait") => IsOp(OpOf(p), FALSE, -1, 0, 0)
         /\ SemAt(p, "signal") => IsOp(OpOf(p), FALSE, 1, 0, 0)
<1>1. /\ IsOp(op_lock, TRUE, 0, 0, 1)
      /\ IsOp(op_endcreate, FALSE, 0, -1, -1)
      /\ IsOp(op_open, FALSE, 0, -1, 0)
      /\ IsOp(op_close, TRUE, 0, 1, 1)
      /\ IsOp(op_unlock, FALSE, 0, 0, -1)
      /\ IsOp(op_op(-1), FALSE, -1, 0, 0)
      /\ IsOp(op_op(1), FALSE, 1, 0, 0)
  <2> USE DEF IsOp, Step, Zero
  <2>1. IsOp(op_lock, TRUE, 0, 0, 1)
    BY DEF op_lock
  <2>2. IsOp(op_endcreate, FALSE, 0, -1, -1)
    BY DEF op_endcreate
  <2>3. IsOp(op_open, FALSE, 0, -1, 0)
    BY DEF op_open
  <2>4. IsOp(op_close, TRUE, 0, 1, 1)
    BY DEF op_close
  <2>5. IsOp(op_unlock, FALSE, 0, 0, -1)
    BY DEF op_unlock
  <2>6. IsOp(op_op(-1), FALSE, -1, 0, 0)
    BY DEF op_op
  <2>7. IsOp(op_op(1), FALSE, 1, 0, 0)
    BY DEF op_op
  <2> QED
    BY <2>1, <2>2, <2>3, <2>4, <2>5, <2>6, <2>7
<1>2. /\ SemAt(p, "c_lock") => OpOf(p) = op_lock
      /\ SemAt(p, "c_end") => OpOf(p) = op_endcreate
      /\ SemAt(p, "o_op") => OpOf(p) = op_open
      /\ SemAt(p, "cl_op") => OpOf(p) = op_close
      /\ SemAt(p, "cl_unlock") => OpOf(p) = op_unlock
      /\ SemAt(p, "wait") => OpOf(p) = op_op(-1)
      /\ SemAt(p, "signal") => OpOf(p) = op_op(1)
  BY DEF OpOf, SemAt
<1> QED
  BY <1>1, <1>2

\* What a semop does with the array o.
LEMMA SemopEffect ==
  ASSUME SemTypeOK, NEW p \in Procs, NEW to, semop(p, to), NEW o, OpOf(p) = o,
         o.undo, o.d \in [val : Step, cnt : Step, lock : Step]
  PROVE  /\ sem' = [val |-> sem.val + o.d.val, cnt |-> sem.cnt + o.d.cnt, lock |-> sem.lock + o.d.lock]
         /\ sem.val + o.d.val >= 0 /\ sem.cnt + o.d.cnt >= 0 /\ sem.lock + o.d.lock >= 0
         /\ adj' = [adj EXCEPT ![p] = [val |-> adj[p].val - o.d.val, cnt |-> adj[p].cnt - o.d.cnt,
                                       lock |-> adj[p].lock - o.d.lock]]
         /\ o.wait => sem.lock = 0
         /\ Valid(p) /\ UNCHANGED <<cur, exists, kills>> /\ spc' = [spc EXCEPT ![p] = to] /\ asleep' = asleep \ {p}
<1>1. o.undo /\ o.d.val \in Int /\ o.d.cnt \in Int /\ o.d.lock \in Int
  BY DEF Step
<1>2. /\ Valid(p) /\ CanDo(p) /\ UNCHANGED <<cur, exists, kills>> /\ spc' = [spc EXCEPT ![p] = to] /\ asleep' = asleep \ {p}
      /\ sem' = [m \in Members |-> sem[m] + o.d[m]]
      /\ adj' = IF o.undo THEN [adj EXCEPT ![p] = [m \in Members |-> @[m] - o.d[m]]] ELSE adj
  BY DEF semop, SemJump
<1>3. (o.wait => sem.lock = 0) /\ \A m \in Members : sem[m] + o.d[m] >= 0
  BY <1>2 DEF CanDo
<1>4. sem' = [val |-> sem.val + o.d.val, cnt |-> sem.cnt + o.d.cnt, lock |-> sem.lock + o.d.lock]
  BY <1>2 DEF Members
<1>5. sem.val + o.d.val >= 0 /\ sem.cnt + o.d.cnt >= 0 /\ sem.lock + o.d.lock >= 0
  BY <1>3 DEF Members
<1>6. adj' = [adj EXCEPT ![p] = [m \in Members |-> adj[p][m] - o.d[m]]]
  BY <1>1, <1>2 DEF SemTypeOK
<1>7. [m \in Members |-> adj[p][m] - o.d[m]]
        = [val |-> adj[p].val - o.d.val, cnt |-> adj[p].cnt - o.d.cnt, lock |-> adj[p].lock - o.d.lock]
  BY DEF Members
<1> QED
  BY <1>2, <1>3, <1>4, <1>5, <1>6, <1>7
-----------------------------------------------------------------------------
(* Steps of p that leave the other processes alone. *)

LEMMA OtherOk ==
  ASSUME SInv, NEW p \in Procs, UNCHANGED <<cur, exists>>,
         \A u \in Procs : u # p => spc'[u] = spc[u] /\ id'[u] = id[u] /\ adj'[u] = adj[u],
         sem'.cnt = 0 <=> sem.cnt = 0,
         sem'.val = sem.val \/ sem.cnt # 0 \/ p \in Locked,
         p \in Creators' => p \in Creators \/ p \in Locked
  PROVE  /\ \A u \in Procs : u # p => ProcOk(u)'
         /\ \A u \in Procs : u # p => (u \in Users' <=> u \in Users) /\ (u \in Locked' <=> u \in Locked)
<1>1. \A u \in Procs : u # p => (Valid(u)' <=> Valid(u))
  BY DEF Valid
<1>2. \A u \in Procs : u # p => (u \in Users' <=> u \in Users) /\ (u \in Locked' <=> u \in Locked)
  BY <1>1 DEF Users, Locked
<1>3. Creators' \subseteq Creators \cup {p}
  BY <1>2 DEF Creators, Users
<1> SUFFICES ASSUME NEW u \in Procs, u # p PROVE ProcOk(u)'
  BY <1>2
<1>4. ProcOk(u) /\ LockInv
  BY DEF SInv
<1>5. Valid(u) /\ spc[u] \in LockedPCs => p \notin Locked
  BY <1>4 DEF LockInv, Locked
<1>6. Valid(u) /\ spc[u] = "cl_rm" => Creators' = {}
  BY <1>3, <1>4, <1>5 DEF ProcOk, LockedPCs
<1>7. Valid(u) /\ spc[u] = "c_init1" => sem'.val = InitVal
  BY <1>4, <1>5 DEF ProcOk, LockedPCs
<1> QED
  BY <1>1, <1>2, <1>4, <1>6, <1>7 DEF ProcOk

\* The kernel's state is unchanged.
LEMMA LocalStep ==
  ASSUME SemaphAssumption, SInv, NEW p \in Procs, UNCHANGED kernel, NEW l \in SemPCs, spc' = [spc EXCEPT ![p] = l],
         NEW j \in 0..MaxSets, id' = [id EXCEPT ![p] = j], j <= cur,
         asleep' \subseteq Procs, kills' \in 0..MaxKills,
         p \in Users' <=> p \in Users, p \in Locked' <=> p \in Locked, ProcOk(p)'
  PROVE  SInv'
<1>1. /\ SemTypeOK /\ UNCHANGED <<cur, exists, sem, adj>> /\ LockInv /\ CountInv /\ UnitInv
      /\ (exists => cur > 0) /\ (~exists => sem = Zero)
  BY DEF SInv, kernel
<1>2. spc' \in [Procs -> SemPCs] /\ id' \in [Procs -> 0..MaxSets] /\ \A u \in Procs : u # p => spc'[u] = spc[u] /\ id'[u] = id[u]
  BY <1>1 DEF SemTypeOK
<1>3. SemTypeOK'
  BY <1>1, <1>2 DEF SemTypeOK
<1>4. p \in Creators' => p \in Creators
  BY DEF Creators
<1>5. /\ \A u \in Procs : u # p => ProcOk(u)'
      /\ \A u \in Procs : u # p => (u \in Users' <=> u \in Users) /\ (u \in Locked' <=> u \in Locked)
  BY <1>1, <1>2, <1>4, OtherOk
<1>6. Users' = Users /\ Locked' = Locked /\ Holders' = Holders
  BY <1>1, <1>5 DEF Users, Locked, Holders
<1>7. LockInv' /\ CountInv' /\ UnitInv'
  BY <1>1, <1>6 DEF LockInv, CountInv, UnitInv
<1> QED
  BY <1>1, <1>3, <1>5, <1>7 DEF SInv

\* The calls themselves and the answers of semctl(GETVAL).
LEMMA CallsKeep ==
  ASSUME SemaphAssumption, SInv, NEW p \in Procs,
         CreateAgain(p) \/ CreateGetval(p) \/ SemgetOpen(p) \/ CallOp(p) \/ CallClose(p) \/ CallRm(p) \/ Sleep(p)
  PROVE  SInv'
<1> USE DEF SemAt, SemJump
<1>1. SemTypeOK /\ ProcOk(p) /\ (exists => cur > 0) /\ UNCHANGED kernel /\ kills' = kills /\ asleep' \subseteq Procs
  BY DEF SInv, CreateAgain, CreateGetval, SemgetOpen, CallOp, CallClose, CallRm, Sleep, SemTypeOK
<1>2. spc[p] \in SemPCs /\ id[p] \in 0..MaxSets /\ id[p] <= cur /\ cur \in 0..MaxSets /\ kills \in 0..MaxKills
      /\ spc = [spc EXCEPT ![p] = spc[p]] /\ id = [id EXCEPT ![p] = id[p]]
  BY <1>1 DEF SemTypeOK, ProcOk
<1>3. {"again", "c_init0", "c_end", "o_op", "wait", "signal", "cl_op", "rm"} \subseteq SemPCs
  BY DEF SemPCs, SemopPCs, SemctlPCs
<1>4. UNCHANGED <<cur, exists, sem, adj>>
  BY <1>1 DEF kernel
<1> DEFINE l == spc'[p]
           j == id'[p]
<1>5. /\ l \in SemPCs /\ spc' = [spc EXCEPT ![p] = l] /\ j \in 0..MaxSets /\ id' = [id EXCEPT ![p] = j] /\ j <= cur
      /\ \/ l = spc[p] /\ j = id[p]
         \/ spc[p] = "c_lock" /\ ~Valid(p) /\ l = "again" /\ j = id[p]
         \/ spc[p] = "c_get" /\ l = (IF sem.cnt = 0 THEN "c_init0" ELSE "c_end") /\ j = id[p] /\ Valid(p)
         \/ spc[p] = "idle" /\ id[p] = 0 /\ l = "o_op" /\ j = cur /\ "open" \in Ops[p] /\ exists
         \/ spc[p] = "idle" /\ l = (IF adj[p].val = 0 THEN "wait" ELSE "signal") /\ j = id[p]
         \/ spc[p] = "idle" /\ l \in {"cl_op", "rm"} /\ j = id[p]
  <2>1. CASE CreateAgain(p)
    BY <1>1, <1>2, <1>3, <2>1 DEF CreateAgain, SemTypeOK
  <2>2. CASE CreateGetval(p)
    BY <1>1, <1>2, <1>3, <2>2 DEF CreateGetval, SemTypeOK
  <2>3. CASE SemgetOpen(p)
    BY <1>1, <1>2, <1>3, <2>3 DEF SemgetOpen, SemTypeOK
  <2>4. CASE CallOp(p)
    BY <1>1, <1>2, <1>3, <2>4 DEF CallOp, SemTypeOK
  <2>5. CASE CallClose(p)
    BY <1>1, <1>2, <1>3, <2>5 DEF CallClose, SemTypeOK
  <2>6. CASE CallRm(p)
    BY <1>1, <1>2, <1>3, <2>6 DEF CallRm, SemTypeOK
  <2>7. CASE Sleep(p)
    BY <1>1, <1>2, <1>3, <2>7 DEF Sleep, SemTypeOK
  <2> QED
    BY <2>1, <2>2, <2>3, <2>4, <2>5, <2>6, <2>7
<1>6. Valid(p)' <=> exists /\ j = cur
  BY <1>4 DEF Valid
<1>7. (p \in Users' <=> p \in Users) /\ (p \in Locked' <=> p \in Locked)
  BY <1>1, <1>5, <1>6 DEF Users, Locked, UserPCs, LockedPCs, Valid
<1>8. adj[p].val \in {0, 1}
  BY <1>1 DEF SemTypeOK
<1>9. Creators' = Creators
  <2>1. \A u \in Procs : u # p => (Valid(u)' <=> Valid(u)) /\ spc'[u] = spc[u]
    BY <1>1, <1>4, <1>5 DEF Valid, SemTypeOK
  <2> QED
    BY <1>7, <2>1 DEF Creators, Users
<1>10. ProcOk(p)'
  BY <1>1, <1>4, <1>5, <1>6, <1>7, <1>8, <1>9 DEF ProcOk, Valid, ReadyPCs, UserPCs
<1> HIDE DEF l, j
<1> QED
  BY <1>1, <1>2, <1>5, <1>7, <1>10, LocalStep
-----------------------------------------------------------------------------
(* semop. *)

\* p takes and gives what its new place says: the lock, its count, a unit.
LEMMA SemopKeeps ==
  ASSUME SemaphAssumption, SInv, NEW p \in Procs, NEW l \in SemPCs, semop(p, l), NEW o, OpOf(p) = o,
         o.undo, o.d \in [val : Step, cnt : Step, lock : Step],
         id' = [id EXCEPT ![p] = id'[p]], id'[p] \in {id[p], 0},
         o.d.lock = 1 => o.wait /\ p \in Locked', o.d.lock = -1 => p \in Locked /\ p \notin Locked',
         o.d.lock = 0 => p \notin Locked /\ p \notin Locked',
         o.d.cnt = 1 => p \in Users /\ p \notin Users', o.d.cnt = -1 => p \notin Users /\ p \in Users',
         o.d.cnt = 0 => (p \in Users <=> p \in Users'),
         o.d.val = -1 => p \in Users /\ adj[p].val = 0, o.d.val = 1 => p \in Users /\ adj[p].val = 1,
         p \in Creators' => p \in Creators \/ p \in Locked,
         l \in {"idle", "c_get", "cl_get"}, l = "cl_get" => sem.cnt # 0, l = "idle" /\ id'[p] # 0 => sem.cnt # 0
  PROVE  SInv'
<1> DEFINE w == o.wait
           v == o.d.val
           n == o.d.cnt
           k == o.d.lock
           j == id'[p]
<1>0. v \in {-1, 0, 1} /\ n \in {-1, 0, 1} /\ k \in {-1, 0, 1} /\ j \in {id[p], 0}
      /\ id' = [id EXCEPT ![p] = j]
      /\ (k = 1 => w /\ p \in Locked') /\ (k = -1 => p \in Locked /\ p \notin Locked')
      /\ (k = 0 => p \notin Locked /\ p \notin Locked')
      /\ (n = 1 => p \in Users /\ p \notin Users') /\ (n = -1 => p \notin Users /\ p \in Users')
      /\ (n = 0 => (p \in Users <=> p \in Users'))
      /\ (v = -1 => p \in Users /\ adj[p].val = 0) /\ (v = 1 => p \in Users /\ adj[p].val = 1)
      /\ (l = "idle" /\ j # 0 => sem.cnt # 0)
  BY DEF Step
<1>1. /\ SemTypeOK /\ ProcOk(p) /\ LockInv /\ CountInv /\ UnitInv /\ (exists => cur > 0) /\ (~exists => sem = Zero)
      /\ InitVal \in Nat /\ BIGCOUNT \in Nat
  BY DEF SInv, SemaphAssumption
<1>2. /\ sem' = [val |-> sem.val + v, cnt |-> sem.cnt + n, lock |-> sem.lock + k]
      /\ sem.val + v >= 0 /\ sem.cnt + n >= 0 /\ sem.lock + k >= 0
      /\ adj' = [adj EXCEPT ![p] = [val |-> adj[p].val - v, cnt |-> adj[p].cnt - n, lock |-> adj[p].lock - k]]
      /\ w => sem.lock = 0
      /\ Valid(p) /\ UNCHANGED <<cur, exists, kills>> /\ spc' = [spc EXCEPT ![p] = l] /\ asleep' = asleep \ {p}
  BY <1>1, SemopEffect
<1> HIDE DEF w, v, n, k, j
<1> USE <1>0
<1>3. sem.val \in Nat /\ sem.cnt \in Nat /\ sem.lock \in {0, 1} /\ adj[p].val \in {0, 1} /\ adj[p].cnt \in Int /\ adj[p].lock \in Int
  BY <1>1 DEF SemTypeOK
<1>4. sem'.val = sem.val + v /\ sem'.cnt = sem.cnt + n /\ sem'.lock = sem.lock + k
  BY <1>2
<1>5. /\ adj'[p] = [val |-> adj[p].val - v, cnt |-> adj[p].cnt - n, lock |-> adj[p].lock - k]
      /\ spc'[p] = l /\ id'[p] = j
      /\ \A u \in Procs : u # p => spc'[u] = spc[u] /\ id'[u] = id[u] /\ adj'[u] = adj[u]
  BY <1>1, <1>2 DEF SemTypeOK
<1>6. adj'[p].val = adj[p].val - v /\ adj'[p].cnt = adj[p].cnt - n /\ adj'[p].lock = adj[p].lock - k
  BY <1>5
<1>7. sem.cnt = 0 => Users = {} /\ n # -1
  <2>1. \A u \in Procs : u \in Users => sem.cnt # 0
    BY DEF SInv, ProcOk, Users, ReadyPCs
  <2> QED
    BY <1>2, <1>3, <2>1 DEF Users
<1>8. \A u \in Procs : u # p => (u \in Users' <=> u \in Users) /\ (u \in Locked' <=> u \in Locked)
  <2>1. \A u \in Procs : u # p => (Valid(u)' <=> Valid(u))
    BY <1>2, <1>5 DEF Valid
  <2> QED
    BY <1>5, <2>1 DEF Users, Locked
<1>9. /\ Cardinality(Users') = Cardinality(Users) - n
      /\ Cardinality(Users) \in Nat /\ Cardinality(Users') \in Nat /\ Cardinality(Users') < BIGCOUNT
  <2>1. Users \in SUBSET Procs /\ Users' \in SUBSET Procs
    BY DEF Users
  <2>2. /\ (p \in Users <=> p \in Users') => Cardinality(Users') = Cardinality(Users)
        /\ p \notin Users /\ p \in Users' => Cardinality(Users') = Cardinality(Users) + 1
        /\ p \in Users /\ p \notin Users' => Cardinality(Users') = Cardinality(Users) - 1
        /\ Cardinality(Users) \in 0..Cardinality(Procs) /\ Cardinality(Users') \in 0..Cardinality(Procs)
        /\ Cardinality(Procs) \in Nat /\ Cardinality(Procs) < BIGCOUNT
    BY <1>8, <2>1, Counting
  <2> QED
    BY <1>1, <2>2
<1>10. CountInv' /\ (sem'.cnt = 0 <=> sem.cnt = 0) /\ sem'.cnt \in 0..BIGCOUNT
  <2>1. CASE sem.cnt = 0
    BY <1>1, <1>3, <1>4, <1>7, <2>1 DEF CountInv
  <2>2. CASE sem.cnt # 0
    BY <1>1, <1>3, <1>4, <1>9, <2>2 DEF CountInv
  <2> QED
    BY <2>1, <2>2
<1>11. UnitInv' /\ sem'.val \in 0..InitVal
  <2>1. CASE v = 0
    <3>1. Holders' = Holders
      BY <1>3, <1>5, <1>6, <2>1 DEF Holders
    <3> QED
      BY <1>1, <1>3, <1>4, <1>10, <2>1, <3>1 DEF UnitInv, SemTypeOK
  <2>2. CASE v # 0
    <3>1. Holders \in SUBSET Procs /\ Holders' \in SUBSET Procs /\ \A u \in Procs : u # p => (u \in Holders' <=> u \in Holders)
      BY <1>5 DEF Holders
    <3>2. p \in Holders <=> v = 1
      BY <2>2 DEF Holders
    <3>3. p \in Holders' <=> v = -1
      BY <1>3, <1>6, <2>2 DEF Holders
    <3>4. Cardinality(Holders') = Cardinality(Holders) - v /\ Cardinality(Holders) \in Nat /\ Cardinality(Holders') \in Nat
      BY <2>2, <3>1, <3>2, <3>3, Counting
    <3>5. sem.cnt # 0
      BY <1>7, <2>2
    <3> QED
      BY <1>1, <1>2, <1>3, <1>4, <3>4, <3>5 DEF UnitInv
  <2> QED
    BY <2>1, <2>2
<1>12. LockInv'
  <2>0. Locked \subseteq Procs /\ Locked' \subseteq Procs
    BY DEF Locked
  <2>1. CASE k = 1
    <3>1. sem.lock = 0 /\ Locked = {}
      BY <1>1, <1>2, <2>1 DEF LockInv
    <3>2. Locked' = {p}
      BY <1>8, <2>0, <2>1, <3>1
    <3> QED
      BY <1>4, <2>1, <3>1, <3>2 DEF LockInv
  <2>2. CASE k = -1
    <3>1. sem.lock = 1 /\ Locked = {p}
      BY <1>1, <2>2 DEF LockInv
    <3>2. Locked' = {}
      BY <1>8, <2>0, <2>2, <3>1
    <3> QED
      BY <1>4, <2>2, <3>1, <3>2 DEF LockInv
  <2>3. CASE k = 0
    <3>1. Locked' = Locked
      BY <1>8, <2>0, <2>3
    <3> QED
      BY <1>1, <1>3, <1>4, <2>3, <3>1 DEF LockInv
  <2> QED
    BY <2>1, <2>2, <2>3
<1>13. /\ adj'[p].lock = (IF p \in Locked' THEN -1 ELSE 0)
       /\ adj'[p].cnt = (IF p \in Users' THEN 1 ELSE 0)
       /\ adj'[p].val \in {0, 1}
       /\ sem'.lock \in {0, 1}
  <2>1. k = 1 => p \notin Locked
    BY <1>1, <1>2 DEF LockInv
  <2>2. adj'[p].lock = (IF p \in Locked' THEN -1 ELSE 0)
    BY <1>1, <1>6, <2>1 DEF ProcOk
  <2>3. adj'[p].cnt = (IF p \in Users' THEN 1 ELSE 0)
    BY <1>1, <1>6 DEF ProcOk
  <2>4. adj'[p].val \in {0, 1}
    BY <1>3, <1>6
  <2>5. sem'.lock \in {0, 1}
    BY <1>12 DEF LockInv
  <2> QED
    BY <2>2, <2>3, <2>4, <2>5
<1>14. SemTypeOK'
  <2>1. sem' \in [val : 0..InitVal, cnt : 0..BIGCOUNT, lock : 0..1]
    BY <1>2, <1>4, <1>10, <1>11, <1>13
  <2>2. adj'[p] \in [val : 0..1, cnt : -1..1, lock : -1..0]
    BY <1>5, <1>6, <1>13
  <2>3. adj' \in [Procs -> [val : 0..1, cnt : -1..1, lock : -1..0]]
    BY <1>1, <1>2, <1>5, <2>2 DEF SemTypeOK
  <2>4. spc' \in [Procs -> SemPCs] /\ id' \in [Procs -> 0..MaxSets] /\ asleep' \subseteq Procs
    BY <1>1, <1>2, SemaphAssumption DEF SemTypeOK, SemaphAssumption
  <2> QED
    BY <1>1, <1>2, <2>1, <2>3, <2>4 DEF SemTypeOK
<1>15. ProcOk(p)'
  <2>1. id'[p] <= cur'
    BY <1>1, <1>2, <1>5 DEF ProcOk, SemTypeOK
  <2>2. Valid(p)' /\ l = "idle" => sem'.cnt # 0
    <3>1. Valid(p)' /\ l = "idle" => j # 0
      BY <1>1, <1>2, <1>5 DEF Valid
    <3> QED
      BY <1>10, <3>1
  <2>3. sem'.cnt = 0 => adj'[p].val = 0
    BY <1>1, <1>3, <1>6, <1>7, <1>10 DEF ProcOk
  <2> QED
    BY <1>5, <1>10, <1>13, <2>1, <2>2, <2>3 DEF ProcOk, ReadyPCs, UserPCs
<1>16. \A u \in Procs : u # p => ProcOk(u)'
  BY <1>2, <1>3, <1>4, <1>5, <1>7, <1>10, OtherOk
<1>17. (exists' => cur' > 0) /\ (~exists' => sem' = Zero)
  BY <1>1, <1>2 DEF Valid
<1> QED
  BY <1>10, <1>11, <1>12, <1>14, <1>15, <1>16, <1>17 DEF SInv

\* The seven semop calls.
LEMMA SemopsKeep ==
  ASSUME SemaphAssumption, SInv, NEW p \in Procs,
         CreateLock(p) \/ EndCreate(p) \/ Open(p) \/ sem_op(p) \/ CloseLock(p) \/ CloseUnlock(p)
  PROVE  SInv'
<1> USE DEF SemAt
<1>1. SemTypeOK /\ ProcOk(p) /\ (exists => cur > 0) /\ id[p] \in 0..MaxSets
  BY DEF SInv, SemTypeOK
<1>2. {"idle", "c_get", "cl_get"} \subseteq SemPCs
  BY DEF SemPCs, SemopPCs, SemctlPCs
<1>3. \A to : semop(p, to) => Valid(p) /\ UNCHANGED <<cur, exists>> /\ spc' = [spc EXCEPT ![p] = to] /\ CanDo(p)
  BY DEF semop, SemJump
<1>4. id = [id EXCEPT ![p] = id[p]]
  BY <1>1 DEF SemTypeOK
<1>5. Valid(p) => id[p] # 0
  BY <1>1 DEF Valid, SemTypeOK
<1>6. CASE CreateLock(p)
  <2>1. /\ spc[p] = "c_lock" /\ semop(p, "c_get") /\ spc'[p] = "c_get" /\ UNCHANGED <<id, cur, exists>> /\ Valid(p) /\ Valid(p)'
    BY <1>1, <1>3, <1>6 DEF CreateLock, SemTypeOK, Valid
  <2>2. p \in Locked' /\ p \notin Users /\ p \notin Users'
    BY <2>1 DEF Locked, Users, LockedPCs, UserPCs
  <2>3. p \notin Creators'
    BY <2>2 DEF Creators
  <2>4. IsOp(OpOf(p), TRUE, 0, 0, 1)
    BY <2>1, OpValues
  <2> QED
    BY <1>2, <1>4, <2>1, <2>2, <2>3, <2>4, SemopKeeps DEF IsOp
<1>7. CASE EndCreate(p)
  <2>1. /\ spc[p] = "c_end" /\ semop(p, "idle") /\ spc'[p] = "idle" /\ UNCHANGED <<id, cur, exists>> /\ Valid(p) /\ Valid(p)'
    BY <1>1, <1>3, <1>7 DEF EndCreate, SemTypeOK, Valid
  <2>2. p \in Locked /\ p \notin Locked' /\ p \notin Users /\ p \in Users'
    BY <2>1 DEF Locked, Users, LockedPCs, UserPCs
  <2>3. sem.cnt # 0
    BY <1>1, <2>1 DEF ProcOk, ReadyPCs
  <2>4. IsOp(OpOf(p), FALSE, 0, -1, -1)
    BY <2>1, OpValues
  <2> QED
    BY <1>2, <1>4, <2>1, <2>2, <2>3, <2>4, SemopKeeps DEF IsOp
<1>8. CASE Open(p)
  <2>1. /\ spc[p] = "o_op" /\ semop(p, "idle") /\ spc'[p] = "idle" /\ UNCHANGED <<id, cur, exists>> /\ Valid(p) /\ Valid(p)'
    BY <1>1, <1>3, <1>8 DEF Open, SemTypeOK, Valid
  <2>2. p \notin Locked /\ p \notin Locked' /\ p \notin Users /\ p \in Users'
    BY <2>1 DEF Locked, Users, LockedPCs, UserPCs
  <2>3. p \notin Creators'
    BY <1>1, <2>1 DEF ProcOk, Creators
  <2>4. IsOp(OpOf(p), FALSE, 0, -1, 0)
    BY <2>1, OpValues
  <2>5. sem.cnt # 0
    BY <1>1, <2>1, <2>4, SemopEffect DEF SemTypeOK, IsOp
  <2> QED
    BY <1>2, <1>4, <2>1, <2>2, <2>3, <2>4, <2>5, SemopKeeps DEF IsOp
<1>9. CASE sem_op(p)
  <2>1. /\ spc[p] \in {"wait", "signal"} /\ semop(p, "idle") /\ spc'[p] = "idle" /\ UNCHANGED <<id, cur, exists>> /\ Valid(p) /\ Valid(p)'
    BY <1>1, <1>3, <1>9 DEF sem_op, SemTypeOK, Valid
  <2>2. p \notin Locked /\ p \notin Locked' /\ p \in Users /\ p \in Users'
    BY <2>1 DEF Locked, Users, LockedPCs, UserPCs
  <2>3. sem.cnt # 0 /\ (spc[p] = "wait" => adj[p].val = 0) /\ (spc[p] = "signal" => adj[p].val = 1)
    BY <1>1, <2>1 DEF ProcOk, ReadyPCs, UserPCs
  <2>4. p \in Creators' => p \in Creators
    BY <2>2 DEF Creators
  <2>5. CASE spc[p] = "wait"
    <3>1. IsOp(OpOf(p), FALSE, -1, 0, 0)
      BY <2>5, OpValues
    <3> QED
      BY <1>2, <1>4, <2>1, <2>2, <2>3, <2>4, <2>5, <3>1, SemopKeeps DEF IsOp
  <2>6. CASE spc[p] = "signal"
    <3>1. IsOp(OpOf(p), FALSE, 1, 0, 0)
      BY <2>6, OpValues
    <3> QED
      BY <1>2, <1>4, <2>1, <2>2, <2>3, <2>4, <2>6, <3>1, SemopKeeps DEF IsOp
  <2> QED
    BY <2>1, <2>5, <2>6
<1>10. CASE CloseLock(p)
  <2>1. /\ spc[p] = "cl_op" /\ semop(p, "cl_get") /\ spc'[p] = "cl_get" /\ UNCHANGED <<id, cur, exists>> /\ Valid(p) /\ Valid(p)'
    BY <1>1, <1>3, <1>10 DEF CloseLock, SemTypeOK, Valid
  <2>2. p \in Locked' /\ p \in Users /\ p \notin Users'
    BY <2>1 DEF Locked, Users, LockedPCs, UserPCs
  <2>3. sem.cnt # 0 /\ p \notin Creators'
    BY <1>1, <2>1, <2>2 DEF ProcOk, ReadyPCs, UserPCs, Creators
  <2>4. IsOp(OpOf(p), TRUE, 0, 1, 1)
    BY <2>1, OpValues
  <2> QED
    BY <1>2, <1>4, <2>1, <2>2, <2>3, <2>4, SemopKeeps DEF IsOp
<1>11. CASE CloseUnlock(p)
  <2>1. /\ spc[p] = "cl_unlock" /\ semop(p, "idle") /\ spc'[p] = "idle" /\ id' = [id EXCEPT ![p] = 0] /\ Valid(p)
        /\ UNCHANGED <<cur, exists>> /\ id'[p] = 0
    BY <1>1, <1>3, <1>11 DEF CloseUnlock, SemTypeOK
  <2>2. ~Valid(p)'
    BY <1>1, <2>1 DEF Valid, SemTypeOK
  <2>3. p \in Locked /\ p \notin Locked' /\ p \notin Users /\ p \notin Users'
    BY <2>1, <2>2 DEF Locked, Users, LockedPCs, UserPCs
  <2>4. IsOp(OpOf(p), FALSE, 0, 0, -1)
    BY <2>1, OpValues
  <2>5. p \notin Creators'
    BY <2>3 DEF Creators
  <2>6. id' = [id EXCEPT ![p] = id'[p]] /\ id'[p] \in {id[p], 0}
    BY <2>1
  <2>7. semop(p, "idle") /\ id'[p] = 0
    BY <2>1
  <2> QED
    BY <1>2, <2>3, <2>4, <2>5, <2>6, <2>7, SemopKeeps DEF IsOp
<1> QED
  BY <1>6, <1>7, <1>8, <1>9, <1>10, <1>11
-----------------------------------------------------------------------------
(* semctl, and the end of a process. *)

\* SETVAL happens under the lock, to a set nobody has open.
LEMMA SetvalsKeep ==
  ASSUME SemaphAssumption, SInv, NEW p \in Procs, CreateSetval0(p) \/ CreateSetval1(p)
  PROVE  SInv' /\ Users = {}
<1> USE DEF SemAt, SemJump
<1>1. /\ SemTypeOK /\ LockInv /\ (exists => cur > 0) /\ \A u \in Procs : ProcOk(u)
      /\ InitVal \in Nat /\ BIGCOUNT \in Nat /\ BIGCOUNT # 0
  <2>1. Cardinality(Procs) \in Nat
    BY FS_CardinalityType DEF SemaphAssumption
  <2> QED
    BY <2>1 DEF SInv, SemaphAssumption
<1>2. /\ Valid(p) /\ exists /\ spc[p] \in {"c_init0", "c_init1"} /\ UNCHANGED <<cur, exists, id, asleep, kills>>
      /\ p \in Locked /\ Locked = {p}
  BY <1>1 DEF CreateSetval0, CreateSetval1, Valid, Locked, LockedPCs, LockInv
<1>3. sem.cnt = 0 /\ Users = {} /\ \A u \in Procs : adj[u].val = 0
  <2>1. sem.cnt = 0
    BY <1>1, <1>2 DEF ProcOk
  <2> QED
    BY <1>1, <2>1 DEF ProcOk, Users, ReadyPCs
<1>4. \A u \in Procs : /\ adj[u] \in [val : 0..1, cnt : -1..1, lock : -1..0]
                       /\ adj[u].val = 0 /\ adj[u].cnt = 0 /\ adj[u].lock = IF u = p THEN -1 ELSE 0
  BY <1>1, <1>2, <1>3 DEF SemTypeOK, ProcOk
<1>5. adj' = adj
  <2>1. adj' = [u \in Procs |-> [adj[u] EXCEPT !.val = 0]] \/ adj' = [u \in Procs |-> [adj[u] EXCEPT !.cnt = 0]]
    BY DEF CreateSetval0, CreateSetval1, SETVAL
  <2>2. \A r \in [val : 0..1, cnt : -1..1, lock : -1..0] :
          (r.val = 0 => [r EXCEPT !.val = 0] = r) /\ (r.cnt = 0 => [r EXCEPT !.cnt = 0] = r)
    OBVIOUS
  <2>3. \A u \in Procs : [adj[u] EXCEPT !.val = 0] = adj[u] /\ [adj[u] EXCEPT !.cnt = 0] = adj[u]
    BY <1>4, <2>2
  <2>4. \A u \in Procs : adj'[u] = adj[u]
    BY <2>1, <2>3
  <2> QED
    BY <1>1, <2>1, <2>4 DEF SemTypeOK
<1>6. /\ sem.val \in 0..InitVal /\ sem.lock \in 0..1 /\ sem \in [val : 0..InitVal, cnt : 0..BIGCOUNT, lock : 0..1]
      /\ spc \in [Procs -> SemPCs]
  BY <1>1 DEF SemTypeOK
<1>7. /\ sem' \in [val : 0..InitVal, cnt : 0..BIGCOUNT, lock : 0..1] /\ sem'.lock = sem.lock
      /\ \/ spc[p] = "c_init0" /\ spc'[p] = "c_init1" /\ sem'.cnt = 0 /\ sem'.val = InitVal
         \/ spc[p] = "c_init1" /\ spc'[p] = "c_end" /\ sem'.cnt = BIGCOUNT /\ sem'.val = sem.val
      /\ \A u \in Procs : u # p => spc'[u] = spc[u]
      /\ spc' \in [Procs -> SemPCs]
  <2>1. {"c_init1", "c_end"} \subseteq SemPCs
    BY DEF SemPCs, SemopPCs, SemctlPCs
  <2>2. CASE CreateSetval0(p)
    <3>1. sem' = [sem EXCEPT !.val = InitVal] /\ spc[p] = "c_init0" /\ spc' = [spc EXCEPT ![p] = "c_init1"]
      BY <2>2 DEF CreateSetval0, SETVAL
    <3> QED
      BY <1>1, <1>3, <1>6, <2>1, <3>1
  <2>3. CASE CreateSetval1(p)
    <3>1. sem' = [sem EXCEPT !.cnt = BIGCOUNT] /\ spc[p] = "c_init1" /\ spc' = [spc EXCEPT ![p] = "c_end"]
      BY <2>3 DEF CreateSetval1, SETVAL
    <3> QED
      BY <1>1, <1>3, <1>6, <2>1, <3>1
  <2> QED
    BY <2>2, <2>3
<1>8. Users' = {} /\ Locked' = {p} /\ Creators' = {} /\ \A u \in Procs : Valid(u)' <=> Valid(u)
  <2>1. \A u \in Procs : Valid(u)' <=> Valid(u)
    BY <1>2 DEF Valid
  <2>2. Users' = {}
    BY <1>3, <1>7, <2>1 DEF Users, UserPCs
  <2>3. Locked' = {p}
    BY <1>2, <1>7, <2>1 DEF Locked, LockedPCs
  <2> QED
    BY <2>1, <2>2, <2>3 DEF Creators
<1>9. SemTypeOK'
  BY <1>1, <1>2, <1>5, <1>7 DEF SemTypeOK
<1>10. LockInv'
  BY <1>1, <1>2, <1>7, <1>8 DEF LockInv
<1>11. CountInv'
  BY <1>1, <1>7, <1>8, NoneCounted DEF CountInv
<1>12. UnitInv'
  <2>1. Holders' = {}
    BY <1>3, <1>5 DEF Holders
  <2>2. spc[p] = "c_init1" => sem.val = InitVal
    BY <1>1, <1>2 DEF ProcOk
  <2> QED
    BY <1>1, <1>7, <2>1, <2>2, NoneCounted DEF UnitInv
<1>13. ASSUME NEW u \in Procs PROVE ProcOk(u)'
  <2>1. ProcOk(u) /\ adj'[u] = adj[u] /\ adj[u].val = 0 /\ adj[u].cnt = 0 /\ adj[u].lock = (IF u = p THEN -1 ELSE 0)
        /\ id'[u] = id[u] /\ cur' = cur
    BY <1>1, <1>2, <1>4, <1>5
  <2>2. CASE u = p
    BY <1>1, <1>7, <1>8, <2>1, <2>2 DEF ProcOk, ReadyPCs, UserPCs
  <2>3. CASE u # p
    <3>1. Valid(u) => spc[u] \notin LockedPCs /\ spc[u] \notin UserPCs
      BY <1>2, <1>3, <2>3 DEF Locked, Users
    <3>2. Valid(u) => spc[u] \notin ReadyPCs /\ spc[u] \notin {"c_init0", "c_init1", "cl_rm", "wait", "signal"}
      BY <3>1 DEF ReadyPCs, LockedPCs, UserPCs
    <3> QED
      BY <1>7, <1>8, <2>1, <2>3, <3>2 DEF ProcOk
  <2> QED
    BY <2>2, <2>3
<1> QED
  BY <1>1, <1>2, <1>3, <1>9, <1>10, <1>11, <1>12, <1>13 DEF SInv

\* IPC_RMID: nobody has a valid identifier any more.
LEMMA SemRemoveKeeps ==
  ASSUME SemaphAssumption, SInv, NEW p \in Procs, CloseRemove(p) \/ sem_rm(p)
  PROVE  SInv'
<1>1. /\ SemTypeOK /\ \A u \in Procs : ProcOk(u)
      /\ InitVal \in Nat /\ BIGCOUNT \in Nat
  BY DEF SInv, SemaphAssumption
<1>2. /\ exists' = FALSE /\ sem' = Zero /\ adj' = [u \in Procs |-> Zero] /\ cur' = cur
      /\ spc' = [spc EXCEPT ![p] = "idle"] /\ id' = [id EXCEPT ![p] = 0] /\ UNCHANGED <<asleep, kills>>
      /\ spc[p] \in {"cl_rm", "rm"}
  BY DEF CloseRemove, sem_rm, IPC_RMID, SemJump, SemAt
<1>3. \A u \in Procs : ~Valid(u)'
  BY <1>2 DEF Valid
<1>4. Users' = {} /\ Locked' = {}
  BY <1>3 DEF Users, Locked
<1>5. Zero \in [val : 0..InitVal, cnt : 0..BIGCOUNT, lock : 0..1] /\ Zero \in [val : 0..1, cnt : -1..1, lock : -1..0]
      /\ Zero.val = 0 /\ Zero.cnt = 0 /\ Zero.lock = 0
  BY <1>1 DEF Zero
<1>6. SemTypeOK'
  <2>1. spc' \in [Procs -> SemPCs] /\ id' \in [Procs -> 0..MaxSets]
    BY <1>1, <1>2 DEF SemTypeOK, SemPCs, SemaphAssumption
  <2>2. exists' \in BOOLEAN
    BY <1>2, Zenon
  <2> QED
    BY <1>1, <1>2, <1>5, <2>1, <2>2 DEF SemTypeOK
<1>7. LockInv' /\ CountInv' /\ UnitInv'
  BY <1>2, <1>4, <1>5 DEF LockInv, CountInv, UnitInv
<1>8. ASSUME NEW u \in Procs PROVE ProcOk(u)'
  <2>1. adj'[u].val = 0 /\ adj'[u].cnt = 0 /\ adj'[u].lock = 0 /\ id'[u] <= cur' /\ (spc'[u] = "o_op" => "open" \in Ops[u])
    BY <1>1, <1>2, <1>5 DEF ProcOk, SemTypeOK
  <2> QED
    BY <1>3, <1>4, <2>1 DEF ProcOk
<1> QED
  BY <1>2, <1>6, <1>7, <1>8 DEF SInv

\* A new set, of which only p knows.
LEMMA SemCreateKeeps ==
  ASSUME SemaphAssumption, SInv, NEW p \in Procs, SemgetCreate(p)
  PROVE  SInv'
<1> USE DEF SemAt, SemJump
<1>1. /\ SemTypeOK /\ ProcOk(p) /\ (exists => cur > 0) /\ (~exists => sem = Zero) /\ \A u \in Procs : ProcOk(u)
      /\ MaxSets \in Nat /\ cur \in 0..MaxSets /\ kills \in 0..MaxKills /\ asleep \subseteq Procs
  BY DEF SInv, SemaphAssumption, SemTypeOK
<1>2. /\ spc[p] = "again" \/ (spc[p] = "idle" /\ id[p] = 0)
      /\ id' = [id EXCEPT ![p] = cur'] /\ spc' = [spc EXCEPT ![p] = "c_lock"] /\ UNCHANGED <<asleep, kills, sem, adj>>
      /\ IF exists THEN UNCHANGED kernel ELSE cur < MaxSets /\ cur' = cur + 1 /\ exists' = TRUE
      /\ "c_lock" \in SemPCs
  BY DEF SemgetCreate, kernel, SemPCs, SemopPCs
<1>3. spc'[p] = "c_lock" /\ id'[p] = cur' /\ \A u \in Procs : u # p => spc'[u] = spc[u] /\ id'[u] = id[u]
  BY <1>1, <1>2 DEF SemTypeOK
<1>4. p \notin Users /\ p \notin Users' /\ p \notin Locked /\ p \notin Locked'
  BY <1>1, <1>2, <1>3 DEF Users, Locked, UserPCs, LockedPCs, Valid
<1>5. CASE exists
  <2>1. UNCHANGED <<cur, exists>> /\ UNCHANGED kernel
    BY <1>2, <1>5 DEF kernel
  <2>2. ProcOk(p)'
    BY <1>1, <1>2, <1>3, <1>4, <2>1 DEF ProcOk, ReadyPCs, UserPCs
  <2>3. id' = [id EXCEPT ![p] = cur] /\ cur <= cur
    BY <1>1, <1>2, <2>1
  <2>4. asleep' \subseteq Procs /\ kills' \in 0..MaxKills
    BY <1>1, <1>2
  <2> QED
    BY <1>1, <1>2, <1>4, <2>1, <2>2, <2>3, <2>4, LocalStep
<1>6. CASE ~exists
  <2>1. cur' = cur + 1 /\ exists' = TRUE /\ cur < MaxSets /\ sem = Zero
    BY <1>1, <1>2, <1>6
  <2>2. \A u \in Procs : u # p => ~Valid(u)' /\ ~Valid(u)
    BY <1>1, <1>3, <1>6, <2>1 DEF Valid, ProcOk, SemTypeOK
  <2>3. Users' = {} /\ Locked' = {}
    BY <1>4, <2>2 DEF Users, Locked
  <2>4. Zero.cnt = 0 /\ Zero.lock = 0
    BY DEF Zero
  <2>5. SemTypeOK'
    <3>1. cur' \in 0..MaxSets
      BY <1>1, <2>1
    <3>2. spc' \in [Procs -> SemPCs] /\ id' \in [Procs -> 0..MaxSets]
      BY <1>1, <1>2, <3>1 DEF SemTypeOK
    <3>3. exists' \in BOOLEAN
      BY <2>1, Zenon
    <3> QED
      BY <1>1, <1>2, <3>1, <3>2, <3>3 DEF SemTypeOK
  <2>6. LockInv' /\ CountInv' /\ UnitInv'
    BY <1>2, <2>1, <2>3, <2>4 DEF LockInv, CountInv, UnitInv
  <2>7. ASSUME NEW u \in Procs PROVE ProcOk(u)'
    <3>1. adj[u].lock = 0 /\ adj[u].cnt = 0 /\ adj[u].val = 0
      <4>1. ~Valid(u)
        BY <1>6 DEF Valid
      <4> QED
        BY <1>1, <2>1, <2>4, <4>1 DEF ProcOk, Users, Locked
    <3>2. id'[u] <= cur' /\ (spc'[u] = "o_op" => "open" \in Ops[u])
      BY <1>1, <1>3, <2>1 DEF ProcOk, SemTypeOK
    <3> QED
      BY <1>2, <1>3, <2>1, <2>2, <2>3, <2>4, <3>1, <3>2 DEF ProcOk, ReadyPCs, UserPCs
  <2> QED
    BY <1>2, <2>1, <2>5, <2>6, <2>7, <1>1 DEF SInv, SemTypeOK
<1> QED
  BY <1>5, <1>6

\* The kernel gives back what p holds.
LEMMA DieKeeps ==
  ASSUME SemaphAssumption, SInv, NEW p \in Procs, Die(p), kills' \in 0..MaxKills
  PROVE  SInv'
<1>1. /\ SemTypeOK /\ ProcOk(p) /\ LockInv /\ CountInv /\ UnitInv /\ (exists => cur > 0) /\ (~exists => sem = Zero)
      /\ InitVal \in Nat /\ BIGCOUNT \in Nat
  BY DEF SInv, SemaphAssumption
<1>2. /\ sem' = [m \in Members |-> IF sem[m] + adj[p][m] < 0 THEN 0 ELSE sem[m] + adj[p][m]]
      /\ adj' = [adj EXCEPT ![p] = Zero] /\ spc' = [spc EXCEPT ![p] = "dead"] /\ id' = [id EXCEPT ![p] = 0]
      /\ asleep' = asleep \ {p} /\ UNCHANGED <<cur, exists>>
  BY DEF Die, SemJump
<1>3. sem.val \in Nat /\ sem.cnt \in Nat /\ sem.lock \in {0, 1} /\ adj[p].val \in {0, 1} /\ cur \in Nat
  BY <1>1 DEF SemTypeOK
<1>4. /\ adj'[p] = Zero /\ spc'[p] = "dead" /\ id'[p] = 0
      /\ \A u \in Procs : u # p => spc'[u] = spc[u] /\ id'[u] = id[u] /\ adj'[u] = adj[u]
  BY <1>1, <1>2 DEF SemTypeOK
<1>5. Zero.val = 0 /\ Zero.cnt = 0 /\ Zero.lock = 0 /\ Zero \in [val : 0..1, cnt : -1..1, lock : -1..0]
  BY DEF Zero
<1>6. p \notin Users' /\ p \notin Locked' /\ p \notin Holders' /\ p \notin Creators'
  BY <1>4, <1>5 DEF Users, UserPCs, Locked, LockedPCs, Holders, Creators
<1>7. /\ adj[p].lock = (IF p \in Locked THEN -1 ELSE 0) /\ adj[p].cnt = (IF p \in Users THEN 1 ELSE 0)
      /\ (sem.cnt = 0 => adj[p].val = 0) /\ (p \in Locked => sem.lock = 1) /\ (p \in Users => sem.cnt # 0)
  BY <1>1 DEF ProcOk, LockInv, Users, ReadyPCs
<1>8. /\ sem'.val = sem.val + adj[p].val /\ sem'.cnt = sem.cnt + adj[p].cnt /\ sem'.lock = sem.lock + adj[p].lock
      /\ sem' = [val |-> sem'.val, cnt |-> sem'.cnt, lock |-> sem'.lock]
  BY <1>2, <1>3, <1>7 DEF Members
<1>9. \A u \in Procs : u # p => (u \in Users' <=> u \in Users) /\ (u \in Locked' <=> u \in Locked)
                                /\ (u \in Holders' <=> u \in Holders)
  <2>1. \A u \in Procs : u # p => (Valid(u)' <=> Valid(u))
    BY <1>2, <1>4 DEF Valid
  <2> QED
    BY <1>4, <2>1 DEF Users, Locked, Holders
<1>10. /\ Cardinality(Users') = Cardinality(Users) - adj[p].cnt
       /\ Cardinality(Users) \in Nat /\ Cardinality(Users') \in Nat /\ Cardinality(Users') < BIGCOUNT
  <2>1. Users \in SUBSET Procs /\ Users' \in SUBSET Procs
    BY DEF Users
  <2>2. /\ p \notin Users => Cardinality(Users') = Cardinality(Users)
        /\ p \in Users => Cardinality(Users') = Cardinality(Users) - 1
        /\ Cardinality(Users) \in 0..Cardinality(Procs) /\ Cardinality(Users') \in 0..Cardinality(Procs)
        /\ Cardinality(Procs) \in Nat /\ Cardinality(Procs) < BIGCOUNT
    BY <1>6, <1>9, <2>1, Counting
  <2> QED
    BY <1>1, <1>7, <2>2
<1>11. /\ Cardinality(Holders') = Cardinality(Holders) - adj[p].val
       /\ Cardinality(Holders) \in Nat /\ Cardinality(Holders') \in Nat
  <2>1. Holders \in SUBSET Procs /\ Holders' \in SUBSET Procs /\ (p \in Holders <=> adj[p].val = 1)
    BY DEF Holders
  <2>2. /\ p \notin Holders => Cardinality(Holders') = Cardinality(Holders)
        /\ p \in Holders => Cardinality(Holders') = Cardinality(Holders) - 1
        /\ Cardinality(Holders) \in 0..Cardinality(Procs) /\ Cardinality(Holders') \in 0..Cardinality(Procs)
        /\ Cardinality(Procs) \in Nat
    BY <1>6, <1>9, <2>1, Counting
  <2> QED
    BY <1>3, <2>1, <2>2
<1>12. CountInv' /\ (sem'.cnt = 0 <=> sem.cnt = 0) /\ sem'.cnt \in 0..BIGCOUNT
  <2>1. CASE sem.cnt = 0
    BY <1>1, <1>3, <1>7, <1>8, <2>1 DEF CountInv
  <2>2. CASE sem.cnt # 0
    BY <1>1, <1>3, <1>7, <1>8, <1>10, <2>2 DEF CountInv
  <2> QED
    BY <2>1, <2>2
<1>13. UnitInv' /\ sem'.val \in 0..InitVal
  <2>1. CASE sem.cnt = 0
    BY <1>1, <1>7, <1>8, <1>12, <2>1 DEF UnitInv, SemTypeOK
  <2>2. CASE sem.cnt # 0
    BY <1>1, <1>3, <1>8, <1>11, <2>2 DEF UnitInv
  <2> QED
    BY <2>1, <2>2
<1>14. LockInv'
  <2>0. Locked \subseteq Procs /\ Locked' \subseteq Procs
    BY DEF Locked
  <2>1. CASE p \in Locked
    <3>1. Locked = {p} /\ sem.lock = 1
      BY <1>1, <2>1 DEF LockInv
    <3>2. Locked' = {}
      BY <1>6, <1>9, <2>0, <3>1
    <3> QED
      BY <1>7, <1>8, <2>1, <3>1, <3>2 DEF LockInv
  <2>2. CASE p \notin Locked
    <3>1. Locked' = Locked
      BY <1>6, <1>9, <2>0, <2>2
    <3> QED
      BY <1>1, <1>3, <1>7, <1>8, <2>2, <3>1 DEF LockInv
  <2> QED
    BY <2>1, <2>2
<1>15. SemTypeOK'
  <2>1. sem'.lock \in 0..1
    BY <1>14 DEF LockInv
  <2>2. sem' \in [val : 0..InitVal, cnt : 0..BIGCOUNT, lock : 0..1]
    BY <1>8, <1>12, <1>13, <2>1
  <2>3. adj' \in [Procs -> [val : 0..1, cnt : -1..1, lock : -1..0]]
    BY <1>1, <1>2, <1>5 DEF SemTypeOK
  <2>4. "dead" \in SemPCs /\ MaxSets \in Nat
    BY DEF SemPCs, SemaphAssumption
  <2>5. spc' \in [Procs -> SemPCs] /\ id' \in [Procs -> 0..MaxSets]
    BY <1>1, <1>2, <2>4 DEF SemTypeOK
  <2> QED
    BY <1>1, <1>2, <2>2, <2>3, <2>5 DEF SemTypeOK
<1>16. ProcOk(p)'
  BY <1>2, <1>3, <1>4, <1>5, <1>6 DEF ProcOk, ReadyPCs, UserPCs
<1>17. \A u \in Procs : u # p => ProcOk(u)'
  <2>1. sem'.val = sem.val \/ sem.cnt # 0
    BY <1>3, <1>7, <1>8
  <2> QED
    BY <1>2, <1>4, <1>6, <1>12, <2>1, OtherOk
<1>18. ~exists' => sem' = Zero
  <2>1. CASE ~exists
    <3>1. sem = Zero /\ p \notin Users /\ p \notin Locked
      BY <1>1, <2>1 DEF Users, Locked, Valid
    <3>2. sem'.val = 0 /\ sem'.cnt = 0 /\ sem'.lock = 0
      BY <1>5, <1>7, <1>8, <3>1
    <3> QED
      BY <1>8, <3>2 DEF Zero
  <2> QED
    BY <1>2, <2>1
<1> QED
  BY <1>1, <1>2, <1>12, <1>13, <1>14, <1>15, <1>16, <1>17, <1>18 DEF SInv

\* The last close finds the counter at BIGCOUNT: nobody has the set open.
LEMMA CloseKeeps ==
  ASSUME SemaphAssumption, SInv, NEW p \in Procs, CloseGetval(p)
  PROVE  SInv'
<1> USE DEF SemAt, SemJump
<1>1. /\ SemTypeOK /\ ProcOk(p) /\ CountInv /\ kills' = kills /\ kills \in 0..MaxKills /\ BIGCOUNT \in Nat
      /\ spc[p] = "cl_get" /\ Valid(p) /\ sem.cnt \in 0..BIGCOUNT /\ asleep \subseteq Procs
      /\ id[p] \in 0..MaxSets /\ id[p] <= cur /\ id = [id EXCEPT ![p] = id[p]]
  BY DEF SInv, CloseGetval, SemaphAssumption, SemTypeOK, ProcOk
<1>2. UNCHANGED <<cur, exists, sem, adj, id, asleep>> /\ UNCHANGED kernel
      /\ spc' = [spc EXCEPT ![p] = IF sem.cnt = BIGCOUNT THEN "cl_rm" ELSE "cl_unlock"]
  BY <1>1 DEF CloseGetval, kernel
<1> DEFINE l == IF sem.cnt = BIGCOUNT THEN "cl_rm" ELSE "cl_unlock"
<1>3. l \in SemPCs /\ l \in {"cl_rm", "cl_unlock"} /\ spc' = [spc EXCEPT ![p] = l] /\ spc'[p] = l
  BY <1>1, <1>2 DEF SemPCs, SemctlPCs, SemopPCs, SemTypeOK
<1>4. Valid(p)' /\ \A u \in Procs : u # p => (Valid(u)' <=> Valid(u)) /\ spc'[u] = spc[u]
  BY <1>1, <1>2 DEF Valid, SemTypeOK
<1>5. p \notin Users /\ p \notin Users' /\ p \in Locked /\ p \in Locked'
  BY <1>1, <1>3, <1>4 DEF Users, Locked, UserPCs, LockedPCs
<1>6. Users' = Users
  BY <1>4, <1>5 DEF Users
<1>7. l = "cl_rm" => Creators' = {}
  <2> SUFFICES ASSUME sem.cnt = BIGCOUNT PROVE Users = {}
    BY <1>6 DEF Creators
  <2>1. Users \in SUBSET Procs /\ IsFiniteSet(Procs) /\ BIGCOUNT # 0
    BY FS_CardinalityType DEF Users, SemaphAssumption
  <2>2. IsFiniteSet(Users) /\ Cardinality(Users) \in Nat
    BY <2>1, FS_Subset, FS_CardinalityType
  <2>3. Cardinality(Users) = 0
    BY <1>1, <2>1, <2>2 DEF CountInv
  <2> QED
    BY <2>2, <2>3, FS_EmptySet
<1>8. sem.cnt # 0
  BY <1>1 DEF ProcOk, ReadyPCs
<1>9. ProcOk(p)'
  BY <1>1, <1>2, <1>3, <1>5, <1>7, <1>8 DEF ProcOk
<1> HIDE DEF l
<1> QED
  BY <1>1, <1>2, <1>3, <1>5, <1>9, LocalStep
-----------------------------------------------------------------------------
(* The properties. *)

LEMMA SInvInit == SemaphAssumption /\ SemInit => SInv
<1> SUFFICES ASSUME SemaphAssumption, SemInit PROVE SInv
  OBVIOUS
<1>1. InitVal \in Nat /\ MaxSets \in Nat /\ MaxKills \in Nat /\ BIGCOUNT \in Nat
  BY DEF SemaphAssumption
<1>2. Zero \in [val : 0..InitVal, cnt : 0..BIGCOUNT, lock : 0..1] /\ Zero \in [val : 0..1, cnt : -1..1, lock : -1..0]
      /\ Zero.val = 0 /\ Zero.cnt = 0 /\ Zero.lock = 0
  BY <1>1 DEF Zero
<1>3. \A u \in Procs : spc[u] = "idle" /\ id[u] = 0 /\ adj[u] = Zero /\ ~Valid(u)
  BY DEF SemInit, Valid
<1>4. Users = {} /\ Locked = {}
  BY <1>3 DEF Users, Locked
<1>5. SemTypeOK
  <2>1. exists \in BOOLEAN
    BY Zenon DEF SemInit
  <2> QED
    BY <1>1, <1>2, <2>1 DEF SemInit, SemTypeOK, SemPCs
<1>6. \A u \in Procs : ProcOk(u)
  BY <1>2, <1>3, <1>4 DEF SemInit, ProcOk
<1>7. LockInv /\ CountInv /\ UnitInv
  BY <1>2, <1>4 DEF SemInit, LockInv, CountInv, UnitInv
<1> QED
  BY <1>5, <1>6, <1>7 DEF SemInit, SInv

LEMMA SInvNext == SemaphAssumption /\ SInv /\ [SemNext]_semVars => SInv'
<1> SUFFICES ASSUME SemaphAssumption, SInv, [SemNext]_semVars PROVE SInv'
  OBVIOUS
<1>1. ASSUME NEW p \in Procs, sem_create(p) PROVE SInv'
  BY <1>1, SemCreateKeeps, SemopsKeep, CallsKeep, SetvalsKeep DEF sem_create
<1>2. ASSUME NEW p \in Procs, sem_open(p) \/ CallOp(p) \/ sem_op(p) \/ CallRm(p) \/ Sleep(p) PROVE SInv'
  BY <1>2, SemopsKeep, CallsKeep DEF sem_open
<1>3. ASSUME NEW p \in Procs, sem_close(p) \/ sem_rm(p) PROVE SInv'
  BY <1>3, CallsKeep, SemopsKeep, CloseKeeps, SemRemoveKeeps DEF sem_close
<1>4. ASSUME NEW p \in Procs, Fails(p) \/ Kill(p) PROVE SInv'
  <2>1. Die(p) /\ kills' \in 0..MaxKills
    BY <1>4 DEF Fails, Kill, SInv, SemTypeOK, SemaphAssumption
  <2> QED
    BY <2>1, DieKeeps
<1>5. CASE UNCHANGED semVars
  <2>1. UNCHANGED <<cur, exists, sem, adj, spc, id, asleep, kills>>
    BY <1>5 DEF semVars
  <2> QED
    BY <2>1 DEF SInv, SemTypeOK, ProcOk, LockInv, CountInv, UnitInv, Users, Locked, Holders, Creators, Valid
<1> QED
  BY <1>1, <1>2, <1>3, <1>4, <1>5 DEF SemNext

(* However many processes there are, and however creates, opens, closes,
   removals and kills interleave: the counter of a set counts the live processes
   that have it open, its lock is owned by exactly the process that is between
   locking and unlocking, and no unit of its value is lost or made. *)
THEOREM SemaphoresAccounted == SemSpec => []ValuesAccounted
<1>1. SInv => ValuesAccounted
  <2> SUFFICES ASSUME SInv PROVE ValuesAccounted
    OBVIOUS
  <2>1. LockOwned
    BY NoneCounted DEF SInv, LockInv, LockOwned, Locked
  <2> QED
    BY <2>1 DEF SInv, ValuesAccounted, CountInv, UnitInv, CounterCounts, UnitsConserved, Holders
<1> QED
  BY <1>1, SemaphConstants, SInvInit, SInvNext, PTL DEF SemSpec

(* sem_create never sets the value or the counter of a set that a process has
   open. *)
THEOREM NeverInitialisedTwice == SemSpec => InitialisedOnce
<1>1. SInv /\ [SemNext]_semVars => [NotReset]_semVars
  BY SemaphConstants, SetvalsKeep DEF NotReset
<1> QED
  BY <1>1, SemaphConstants, SInvInit, SInvNext, PTL DEF SemSpec, InitialisedOnce

(* sem_close never removes a set that a process got from sem_create and has open: a
   creator has locked it before, or starts again with a new set. *)
THEOREM CreatorAlwaysKeepsSet == SemSpec => CreatorKeepsSet
<1>1. SInv /\ [SemNext]_semVars => [\A p \in Procs : CloseRemove(p) => Creators = {}]_semVars
  BY DEF CloseRemove, SInv, ProcOk, SemAt
<1> QED
  BY <1>1, SemaphConstants, SInvInit, SInvNext, PTL DEF SemSpec, CreatorKeepsSet
-----------------------------------------------------------------------------
(* FooMutex2, for any threads, objects, ids, hash chains and references.  The
   invariant has five parts: the types, who has which lock, where a thread can be
   with an object, what counts the references, and the shape of the chains. *)
\* Where a thread has hashlock; f_lock of its object; a reference to it; and
\* where it has found the object on a chain.
HashPCs == {"initlock", "findlock", "findhold", "findunlock", "relelock", "recheck"}
FPCs == {"initdone", "hold", "findhold", "rele", "recheck", "free"}
RefPCs == {"initlock", "initdone", "hold", "rele", "relehash", "relelock", "recheck"}
FindPCs == {"findlock", "findhold", "findunlock"}

\* The object is in the table: live and not about to be freed.
InTable(o) == heap[o] = "live" /\ ~Dying(o)
RefsTo(o) == {ts \in Threads \X Slots : refs[ts] = o}

TInv ==
  /\ TypeOK
  /\ \A t \in Threads : pc[t] = "idle" <=> fp[t] = NULL

LInv ==
  /\ \A t \in Threads : pc[t] \in HashPCs => hashlock = t
  /\ \A t \in Threads : pc[t] \in FPCs => f_lock[fp[t]] = t
  /\ \A o \in Objs : f_lock[o] # NULL => pc[f_lock[o]] \in FPCs /\ fp[f_lock[o]] = o

PInv ==
  /\ \A t \in Threads : pc[t] = "insert" => heap[fp[t]] = "new" /\ f_count[fp[t]] = 1
  /\ \A t, u \in Threads : t # u /\ pc[t] = "insert" /\ pc[u] = "insert" => fp[t] # fp[u]
  /\ \A t \in Threads : pc[t] \in RefPCs => \A o \in Objs : fp[t] = o => Has(t, o)
  /\ \A t \in Threads : pc[t] \in FindPCs => \A o \in Objs : fp[t] = o => InTable(o)
  /\ \A t \in Threads : pc[t] = "free" =>
       heap[fp[t]] = "live" /\ \A u \in Threads \ {t} : fp[u] # fp[t]

RInv ==
  /\ \A ts \in Threads \X Slots, o \in Objs : refs[ts] = o => InTable(o)
  /\ \A o \in Objs : InTable(o) => f_count[o] = Cardinality(RefsTo(o))

CInv ==
  /\ \A h \in Hashes, o \in Objs : fh[h] = o => InTable(o)
  /\ \A o, x \in Objs : InTable(o) /\ f_next[o] = x => InTable(x)
  /\ \A o, x \in Objs : InTable(o) /\ InTable(x) /\ f_next[o] = f_next[x] /\ f_next[o] # NULL => o = x
  /\ \A h \in Hashes, o \in Objs : InTable(o) /\ fh[h] # NULL => f_next[o] # fh[h]
  /\ \A h, g \in Hashes : fh[h] = fh[g] /\ fh[h] # NULL => h = g

Inv == TInv /\ LInv /\ PInv /\ RInv /\ CInv
-----------------------------------------------------------------------------
(* The references. *)

\* The references to an object are finitely many.
LEMMA RefsFinite ==
  ASSUME FooAssumption, NEW o
  PROVE  IsFiniteSet(RefsTo(o)) /\ Cardinality(RefsTo(o)) \in Nat
<1>1. IsFiniteSet(Threads \X Slots)
  BY FS_Product DEF FooAssumption
<1>2. RefsTo(o) \subseteq Threads \X Slots
  BY DEF RefsTo
<1> QED
  BY <1>1, <1>2, FS_Subset, FS_CardinalityType

\* Take adds one reference to o and none to another object.
LEMMA TakeCounts ==
  ASSUME FooAssumption, TypeOK, NEW t \in Threads, NEW o \in Objs, Take(t, o)
  PROVE  /\ Cardinality(RefsTo(o)') = Cardinality(RefsTo(o)) + 1
         /\ \A x \in Objs \ {o} : RefsTo(x)' = RefsTo(x)
         /\ refs' \in [Threads \X Slots -> Objs \cup {NULL}]
         /\ \A ts \in Threads \X Slots : refs'[ts] # NULL => refs'[ts] \in {refs[ts], o}
         /\ \A u \in Threads, x \in Objs : Has(u, x) => Has(u, x)'
         /\ Has(t, o)'
<1>1. PICK sl \in Slots : refs[<<t, sl>>] = NULL /\ refs' = [refs EXCEPT ![<<t, sl>>] = o]
  BY DEF Take
<1> DEFINE ti == <<t, sl>>
<1>2. /\ ti \in Threads \X Slots /\ refs[ti] = NULL /\ refs' = [refs EXCEPT ![ti] = o]
      /\ refs \in [Threads \X Slots -> Objs \cup {NULL}] /\ NULL \notin Objs
  BY <1>1 DEF TypeOK, FooAssumption
<1>3. RefsTo(o)' = RefsTo(o) \cup {ti} /\ ti \notin RefsTo(o)
  BY <1>2 DEF RefsTo
<1>4. Cardinality(RefsTo(o)') = Cardinality(RefsTo(o)) + 1
  BY <1>3, RefsFinite, FS_AddElement
<1>5. \A x \in Objs \ {o} : RefsTo(x)' = RefsTo(x)
  BY <1>2 DEF RefsTo
<1>6. \A u \in Threads, x \in Objs : Has(u, x) => Has(u, x)'
  BY <1>2 DEF Has
<1>7. Has(t, o)'
  BY <1>2 DEF Has
<1> QED
  BY <1>2, <1>4, <1>5, <1>6, <1>7

\* Drop takes one reference to o and none to another object; if o had one
\* reference it has none left.
LEMMA DropCounts ==
  ASSUME FooAssumption, TypeOK, NEW t \in Threads, NEW o \in Objs, Drop(t, o)
  PROVE  /\ Cardinality(RefsTo(o)') = Cardinality(RefsTo(o)) - 1
         /\ \A x \in Objs \ {o} : RefsTo(x)' = RefsTo(x)
         /\ refs' \in [Threads \X Slots -> Objs \cup {NULL}]
         /\ \A ts \in Threads \X Slots : refs'[ts] # NULL => refs'[ts] = refs[ts]
         /\ \A u \in Threads \ {t}, x \in Objs : Has(u, x) => Has(u, x)'
         /\ Cardinality(RefsTo(o)) = 1 =>
              /\ \A ts \in Threads \X Slots : refs'[ts] # o
              /\ \A u \in Threads \ {t} : ~Has(u, o)
<1>1. PICK sl \in Slots : refs[<<t, sl>>] = o /\ refs' = [refs EXCEPT ![<<t, sl>>] = NULL]
  BY DEF Drop
<1> DEFINE ti == <<t, sl>>
<1>2. /\ ti \in Threads \X Slots /\ refs[ti] = o /\ refs' = [refs EXCEPT ![ti] = NULL]
      /\ refs \in [Threads \X Slots -> Objs \cup {NULL}] /\ NULL \notin Objs
  BY <1>1 DEF TypeOK, FooAssumption
<1>3. RefsTo(o)' = RefsTo(o) \ {ti} /\ ti \in RefsTo(o)
  BY <1>2 DEF RefsTo
<1>4. Cardinality(RefsTo(o)') = Cardinality(RefsTo(o)) - 1
  BY <1>3, RefsFinite, FS_RemoveElement
<1>5. \A x \in Objs \ {o} : RefsTo(x)' = RefsTo(x)
  BY <1>2 DEF RefsTo
<1>6. \A u \in Threads \ {t}, x \in Objs : Has(u, x) => Has(u, x)'
  BY <1>2 DEF Has
<1>7. ASSUME Cardinality(RefsTo(o)) = 1
      PROVE  /\ \A ts \in Threads \X Slots : refs'[ts] # o
             /\ \A u \in Threads \ {t} : ~Has(u, o)
  <2>1. Cardinality(RefsTo(o) \ {ti}) = 0
    BY <1>3, <1>4, <1>7
  <2>2. RefsTo(o) \ {ti} = {}
    BY <2>1, RefsFinite, FS_Subset, FS_EmptySet
  <2>3. \A ts \in Threads \X Slots : refs[ts] = o => ts = ti
    BY <2>2 DEF RefsTo
  <2>4. \A ts \in Threads \X Slots : refs'[ts] # o
    BY <1>2, <2>3
  <2>5. \A u \in Threads \ {t} : ~Has(u, o)
    BY <2>3 DEF Has
  <2> QED
    BY <2>4, <2>5
<1> QED
  BY <1>2, <1>4, <1>5, <1>6, <1>7

\* Give keeps the number of references to every object.
LEMMA GiveCounts ==
  ASSUME FooAssumption, TypeOK, NEW t \in Threads, Give(t)
  PROVE  /\ \A x \in Objs : Cardinality(RefsTo(x)') = Cardinality(RefsTo(x))
         /\ refs' \in [Threads \X Slots -> Objs \cup {NULL}]
         /\ \A ts \in Threads \X Slots : refs'[ts] # NULL =>
              \E us \in Threads \X Slots : refs[us] = refs'[ts]
         /\ \A w \in Threads, x \in Objs : pc[w] # "idle" => (Has(w, x) => Has(w, x)')
<1>1. PICK u \in Threads, sl \in Slots, j \in Slots :
        /\ At(t, "idle") /\ At(u, "idle") /\ u # t
        /\ refs[<<t, sl>>] # NULL /\ refs[<<u, j>>] = NULL
        /\ refs' = [refs EXCEPT ![<<t, sl>>] = NULL, ![<<u, j>>] = refs[<<t, sl>>]]
  BY DEF Give
<1> DEFINE a == <<t, sl>>
           b == <<u, j>>
<1>o. PICK o \in Objs : o = refs[a]
  BY <1>1 DEF TypeOK
<1>2. /\ a \in Threads \X Slots /\ b \in Threads \X Slots /\ a # b
      /\ refs \in [Threads \X Slots -> Objs \cup {NULL}] /\ NULL \notin Objs
      /\ refs[a] = o /\ refs[b] = NULL
  BY <1>1, <1>o DEF TypeOK, FooAssumption
<1>3. refs' = [refs EXCEPT ![a] = NULL, ![b] = o]
  BY <1>1, <1>o
<1> HIDE DEF a, b
<1>4. ASSUME NEW x \in Objs
      PROVE  Cardinality(RefsTo(x)') = Cardinality(RefsTo(x))
  <2>1. CASE x = o
    <3>1. a \in RefsTo(o) /\ b \notin RefsTo(o)
      BY <1>2 DEF RefsTo
    <3>2. RefsTo(o)' = (RefsTo(o) \ {a}) \cup {b}
      BY <1>2, <1>3 DEF RefsTo
    <3>3. /\ IsFiniteSet(RefsTo(o) \ {a})
          /\ Cardinality(RefsTo(o) \ {a}) = Cardinality(RefsTo(o)) - 1
      BY <3>1, RefsFinite, FS_RemoveElement
    <3>4. b \notin RefsTo(o) \ {a}
      BY <3>1
    <3>5. Cardinality(RefsTo(o)') = Cardinality(RefsTo(o) \ {a}) + 1
      BY <3>2, <3>3, <3>4, FS_AddElement
    <3> QED
      BY <3>3, <3>5, <2>1, RefsFinite
  <2>2. CASE x # o
    <3>1. RefsTo(x)' = RefsTo(x)
      BY <1>2, <1>3, <2>2 DEF RefsTo
    <3> QED
      BY <3>1
  <2> QED
    BY <2>1, <2>2
<1>5. /\ refs' \in [Threads \X Slots -> Objs \cup {NULL}]
      /\ \A ts \in Threads \X Slots : refs'[ts] # NULL =>
           \E us \in Threads \X Slots : refs[us] = refs'[ts]
  BY <1>2, <1>3
<1>6. \A w \in Threads, k \in Slots : pc[w] # "idle" => refs'[<<w, k>>] = refs[<<w, k>>]
  BY <1>1, <1>2 DEF At, a, b
<1>7. \A w \in Threads, x \in Objs : pc[w] # "idle" => (Has(w, x) => Has(w, x)')
  BY <1>6 DEF Has
<1> QED
  BY <1>4, <1>5, <1>7
-----------------------------------------------------------------------------
(* What a step leaves alone. *)

\* An object stays in or out of the table when no object becomes or stops
\* being live and no thread comes to or leaves the place before free.
LEMMA SameTable ==
  ASSUME \A x \in Objs : heap'[x] = "live" <=> heap[x] = "live",
         \A u \in Threads : pc'[u] = "free" <=> pc[u] = "free",
         \A u \in Threads : pc[u] = "free" => fp'[u] = fp[u]
  PROVE  \A x \in Objs : InTable(x)' <=> InTable(x)
BY DEF InTable, Dying

\* The chains keep their shape when nothing about them changes.
LEMMA SameChains ==
  ASSUME TypeOK, CInv, fh' = fh, f_next' = f_next,
         \A x \in Objs : InTable(x)' <=> InTable(x)
  PROVE  CInv'
BY DEF CInv

\* The references are right when none of them, no count and no object in the
\* table changes.
LEMMA SameRefs ==
  ASSUME TypeOK, RInv, refs' = refs,
         \A x \in Objs : InTable(x)' <=> InTable(x),
         \A x \in Objs : InTable(x) => f_count'[x] = f_count[x]
  PROVE  RInv'
<1>1. \A x \in Objs : RefsTo(x)' = RefsTo(x)
  BY DEF RefsTo
<1>2. \A ts \in Threads \X Slots, o \in Objs : refs'[ts] = o => InTable(o)'
  BY DEF RInv
<1>3. \A x \in Objs : InTable(x)' => f_count'[x] = Cardinality(RefsTo(x)')
  BY <1>1 DEF RInv
<1> QED
  BY <1>2, <1>3 DEF RInv

\* An object a loop over a chain meets is in the table.
LEMMA OnInTable ==
  ASSUME TypeOK, CInv, NEW h \in Hashes, NEW stop, NEW o \in On(h, stop)
  PROVE  o \in Objs /\ InTable(o)
<1> DEFINE S == {x \in Objs : InTable(x)}
<1>1. Closed(S, h, stop)
  BY DEF Closed, CInv, TypeOK
<1>2. S \in SUBSET Objs
  OBVIOUS
<1>3. o \in S
  BY <1>1, <1>2 DEF On
<1> QED
  BY <1>3
-----------------------------------------------------------------------------
(* Every step preserves the invariant. *)

LEMMA InitInv ==
  ASSUME FooAssumption, Init
  PROVE  Inv
<1> USE DEF Init, FooAssumption
<1>1. TInv
  BY DEF TInv, TypeOK, PCs
<1>2. LInv
  BY DEF LInv, HashPCs, FPCs
<1>3. PInv
  BY DEF PInv, RefPCs, FindPCs
<1>4. RInv
  BY DEF RInv, InTable
<1>5. CInv
  BY DEF CInv, InTable
<1> QED
  BY <1>1, <1>2, <1>3, <1>4, <1>5 DEF Inv

LEMMA mallocInv ==
  ASSUME FooAssumption, Inv, NEW t \in Threads, malloc(t)
  PROVE  Inv'
<1>1. PICK o \in Objs, ident \in Ids :
        /\ pc[t] = "idle" /\ heap[o] = "free"
        /\ heap' = [heap EXCEPT ![o] = "new"]
        /\ f_count' = [f_count EXCEPT ![o] = 1]
        /\ f_id' = [f_id EXCEPT ![o] = ident]
        /\ fp' = [fp EXCEPT ![t] = o]
        /\ pc' = [pc EXCEPT ![t] = "insert"]
        /\ UNCHANGED <<fh, f_next, hashlock, f_lock, refs>>
  BY DEF malloc, At, Jump
<1> USE DEF Inv, FooAssumption
<1>2. TInv'
  BY <1>1 DEF TInv, TypeOK, PCs
<1>3. LInv'
  BY <1>1 DEF TInv, TypeOK, LInv, HashPCs, FPCs
<1>4. \A x \in Objs : InTable(x)' <=> InTable(x)
  BY <1>1, SameTable DEF TInv, TypeOK
<1>5. PInv'
  <2>1. \A u \in Threads, x \in Objs : Has(u, x)' <=> Has(u, x)
    BY <1>1 DEF Has
  <2> QED
    BY <1>1, <1>4, <2>1 DEF TInv, TypeOK, PInv, RefPCs, FindPCs
<1>6. \A x \in Objs : InTable(x) => f_count'[x] = f_count[x]
  BY <1>1 DEF TInv, TypeOK, InTable
<1>7. RInv'
  BY <1>1, <1>4, <1>6, SameRefs DEF TInv
<1>8. CInv'
  BY <1>1, <1>4, SameChains DEF TInv
<1> QED
  BY <1>2, <1>3, <1>5, <1>7, <1>8

LEMMA AllocInsertInv ==
  ASSUME FooAssumption, Inv, NEW t \in Threads, AllocInsert(t)
  PROVE  Inv'
<1> USE DEF Inv, FooAssumption
<1>1. PICK o \in Objs, h \in Hashes :
        /\ pc[t] = "insert" /\ fp[t] = o /\ h = HASH[f_id[o]] /\ heap[o] = "new"
        /\ hashlock = NULL /\ hashlock' = t
        /\ f_next' = [f_next EXCEPT ![o] = fh[h]]
        /\ fh' = [fh EXCEPT ![h] = o]
        /\ heap' = [heap EXCEPT ![o] = "live"]
        /\ Take(t, o)
        /\ pc' = [pc EXCEPT ![t] = "initlock"]
        /\ UNCHANGED <<f_count, f_id, f_lock, fp>>
  <2>1. fp[t] \in Objs
    BY DEF AllocInsert, At, TInv, TypeOK
  <2>2. f_id[fp[t]] \in Ids /\ heap[fp[t]] = "new"
    BY <2>1 DEF AllocInsert, At, PInv, TInv, TypeOK
  <2> QED
    BY <2>1, <2>2 DEF AllocInsert, At, Jump, LockHash
<1>2. /\ Cardinality(RefsTo(o)') = Cardinality(RefsTo(o)) + 1
      /\ \A x \in Objs \ {o} : RefsTo(x)' = RefsTo(x)
      /\ refs' \in [Threads \X Slots -> Objs \cup {NULL}]
      /\ \A ts \in Threads \X Slots : refs'[ts] # NULL => refs'[ts] \in {refs[ts], o}
      /\ \A u \in Threads, x \in Objs : Has(u, x) => Has(u, x)'
      /\ Has(t, o)'
  BY <1>1, TakeCounts DEF TInv
<1>3. TInv'
  BY <1>1, <1>2 DEF TInv, TypeOK, PCs
<1>4. LInv'
  BY <1>1 DEF TInv, TypeOK, LInv, HashPCs, FPCs
<1>5. /\ ~InTable(o) /\ InTable(o)'
      /\ \A x \in Objs \ {o} : InTable(x)' <=> InTable(x)
  BY <1>1 DEF InTable, Dying, TInv, TypeOK, PInv
<1>6. PInv'
  BY <1>1, <1>2, <1>5 DEF TInv, TypeOK, PInv, RefPCs, FindPCs
<1>7. RInv'
  <2>1. RefsTo(o) = {}
    BY <1>5 DEF RInv, RefsTo
  <2>2. Cardinality(RefsTo(o)') = 1
    BY <1>2, <2>1, FS_EmptySet
  <2>3. f_count'[o] = 1
    BY <1>1 DEF PInv
  <2>4. \A x \in Objs : InTable(x)' => f_count'[x] = Cardinality(RefsTo(x)')
    BY <1>1, <1>2, <1>5, <2>2, <2>3 DEF RInv
  <2>5. \A ts \in Threads \X Slots, x \in Objs : refs'[ts] = x => InTable(x)'
    BY <1>2, <1>5 DEF RInv, TInv, TypeOK
  <2> QED
    BY <2>4, <2>5 DEF RInv
<1>8. CInv'
  <2>1. /\ \A g \in Hashes, x \in Objs : fh'[g] = x => InTable(x)'
        /\ \A x, y \in Objs : InTable(x)' /\ f_next'[x] = y => InTable(y)'
    BY <1>1, <1>5 DEF CInv, TInv, TypeOK
  <2>2. \A x, y \in Objs : InTable(x)' /\ InTable(y)' /\ f_next'[x] = f_next'[y] /\ f_next'[x] # NULL
          => x = y
    BY <1>1, <1>5 DEF CInv, TInv, TypeOK
  <2>3. \A g \in Hashes, x \in Objs : InTable(x)' /\ fh'[g] # NULL => f_next'[x] # fh'[g]
    BY <1>1, <1>5 DEF CInv, TInv, TypeOK
  <2>4. \A g, k \in Hashes : fh'[g] = fh'[k] /\ fh'[g] # NULL => g = k
    BY <1>1, <1>5 DEF CInv, TInv, TypeOK
  <2> QED
    BY <2>1, <2>2, <2>3, <2>4 DEF CInv
<1> QED
  BY <1>3, <1>4, <1>6, <1>7, <1>8

\* A step that only takes or lets go of locks.
LEMMA QuietStep ==
  ASSUME TypeOK, RInv, CInv, UNCHANGED <<table, f_count, refs>>,
         \A u \in Threads : pc'[u] = "free" <=> pc[u] = "free",
         \A u \in Threads : pc[u] = "free" => fp'[u] = fp[u]
  PROVE  /\ \A x \in Objs : InTable(x)' <=> InTable(x)
         /\ \A u \in Threads, x \in Objs : Has(u, x)' <=> Has(u, x)
         /\ RInv'
         /\ CInv'
<1>1. \A x \in Objs : InTable(x)' <=> InTable(x)
  BY SameTable DEF table
<1>2. \A u \in Threads, x \in Objs : Has(u, x)' <=> Has(u, x)
  BY DEF Has
<1>3. RInv'
  BY <1>1, SameRefs
<1>4. CInv'
  BY <1>1, SameChains DEF table
<1> QED
  BY <1>1, <1>2, <1>3, <1>4

LEMMA AllocLockInv ==
  ASSUME FooAssumption, Inv, NEW t \in Threads, AllocLock(t)
  PROVE  Inv'
<1> USE DEF Inv, FooAssumption
<1>1. PICK o \in Objs :
        /\ pc[t] = "initlock"
        /\ pc' = [pc EXCEPT ![t] = "initdone"]
        /\ fp[t] = o /\ fp' = fp
        /\ f_lock[o] = NULL
        /\ f_lock' = [f_lock EXCEPT ![o] = t]
        /\ hashlock' = NULL
        /\ UNCHANGED <<table, f_count, refs>>
  BY DEF AllocLock, At, Jump, Lock, UnlockHash, TInv, TypeOK
<1>2. TInv'
  BY <1>1 DEF TInv, TypeOK, PCs, table
<1>3. LInv'
  BY <1>1 DEF TInv, TypeOK, LInv, HashPCs, FPCs
<1>4. /\ \A x \in Objs : InTable(x)' <=> InTable(x)
      /\ \A u \in Threads, x \in Objs : Has(u, x)' <=> Has(u, x)
      /\ RInv'
      /\ CInv'
  BY <1>1, QuietStep DEF TInv, TypeOK
<1>5. PInv'
  BY <1>1, <1>4 DEF TInv, TypeOK, PInv, RefPCs, FindPCs, table
<1> QED
  BY <1>2, <1>3, <1>4, <1>5

LEMMA AllocDoneInv ==
  ASSUME FooAssumption, Inv, NEW t \in Threads, AllocDone(t)
  PROVE  Inv'
<1> USE DEF Inv, FooAssumption
<1>1. PICK o \in Objs :
        /\ pc[t] = "initdone"
        /\ pc' = [pc EXCEPT ![t] = "idle"]
        /\ fp[t] = o /\ fp' = [fp EXCEPT ![t] = NULL]
        /\ f_lock' = [f_lock EXCEPT ![o] = NULL]
        /\ UNCHANGED hashlock
        /\ UNCHANGED <<table, f_count, refs>>
  BY DEF AllocDone, At, Jump, Return, Unlock, TInv, TypeOK
<1>2. TInv'
  BY <1>1 DEF TInv, TypeOK, PCs, table
<1>3. LInv'
  BY <1>1 DEF TInv, TypeOK, LInv, HashPCs, FPCs
<1>4. /\ \A x \in Objs : InTable(x)' <=> InTable(x)
      /\ \A u \in Threads, x \in Objs : Has(u, x)' <=> Has(u, x)
      /\ RInv'
      /\ CInv'
  BY <1>1, QuietStep DEF TInv, TypeOK
<1>5. PInv'
  BY <1>1, <1>4 DEF TInv, TypeOK, PInv, RefPCs, FindPCs, table
<1> QED
  BY <1>2, <1>3, <1>4, <1>5

LEMMA HoldLockInv ==
  ASSUME FooAssumption, Inv, NEW t \in Threads, HoldLock(t)
  PROVE  Inv'
<1> USE DEF Inv, FooAssumption
<1>1. PICK o \in Objs :
        /\ pc[t] = "idle"
        /\ pc' = [pc EXCEPT ![t] = "hold"]
        /\ fp' = [fp EXCEPT ![t] = o]
        /\ Has(t, o) /\ InTable(o)
        /\ f_lock[o] = NULL
        /\ f_lock' = [f_lock EXCEPT ![o] = t]
        /\ UNCHANGED hashlock
        /\ UNCHANGED <<table, f_count, refs>>
  <2>1. PICK o \in Objs : /\ At(t, "idle") /\ Has(t, o) /\ Lock(t, o)
                         /\ fp' = [fp EXCEPT ![t] = o] /\ Jump(t, "hold")
                         /\ UNCHANGED <<table, f_count, hashlock, refs>>
    BY DEF HoldLock
  <2>2. InTable(o)
    BY <2>1 DEF Has, RInv
  <2> QED
    BY <2>1, <2>2 DEF At, Jump, Lock
<1>2. TInv'
  BY <1>1 DEF TInv, TypeOK, PCs, table
<1>3. LInv'
  BY <1>1 DEF TInv, TypeOK, LInv, HashPCs, FPCs
<1>4. /\ \A x \in Objs : InTable(x)' <=> InTable(x)
      /\ \A u \in Threads, x \in Objs : Has(u, x)' <=> Has(u, x)
      /\ RInv'
      /\ CInv'
  BY <1>1, QuietStep DEF TInv, TypeOK
<1>5. PInv'
  <2>1. \A u \in Threads : pc[u] = "free" => fp[u] # o
    BY <1>1 DEF InTable, Dying
  <2> QED
    BY <1>1, <1>4, <2>1 DEF TInv, TypeOK, PInv, RefPCs, FindPCs, table
<1> QED
  BY <1>2, <1>3, <1>4, <1>5

LEMMA ReleLockInv ==
  ASSUME FooAssumption, Inv, NEW t \in Threads, ReleLock(t)
  PROVE  Inv'
<1> USE DEF Inv, FooAssumption
<1>1. PICK o \in Objs :
        /\ pc[t] = "idle"
        /\ pc' = [pc EXCEPT ![t] = "rele"]
        /\ fp' = [fp EXCEPT ![t] = o]
        /\ Has(t, o) /\ InTable(o)
        /\ f_lock[o] = NULL
        /\ f_lock' = [f_lock EXCEPT ![o] = t]
        /\ UNCHANGED hashlock
        /\ UNCHANGED <<table, f_count, refs>>
  <2>1. PICK o \in Objs : /\ At(t, "idle") /\ Has(t, o) /\ Lock(t, o)
                         /\ fp' = [fp EXCEPT ![t] = o] /\ Jump(t, "rele")
                         /\ UNCHANGED <<table, f_count, hashlock, refs>>
    BY DEF ReleLock
  <2>2. InTable(o)
    BY <2>1 DEF Has, RInv
  <2> QED
    BY <2>1, <2>2 DEF At, Jump, Lock
<1>2. TInv'
  BY <1>1 DEF TInv, TypeOK, PCs, table
<1>3. LInv'
  BY <1>1 DEF TInv, TypeOK, LInv, HashPCs, FPCs
<1>4. /\ \A x \in Objs : InTable(x)' <=> InTable(x)
      /\ \A u \in Threads, x \in Objs : Has(u, x)' <=> Has(u, x)
      /\ RInv'
      /\ CInv'
  BY <1>1, QuietStep DEF TInv, TypeOK
<1>5. PInv'
  <2>1. \A u \in Threads : pc[u] = "free" => fp[u] # o
    BY <1>1 DEF InTable, Dying
  <2> QED
    BY <1>1, <1>4, <2>1 DEF TInv, TypeOK, PInv, RefPCs, FindPCs, table
<1> QED
  BY <1>2, <1>3, <1>4, <1>5

LEMMA FindWalkInv ==
  ASSUME FooAssumption, Inv, NEW t \in Threads, FindWalk(t)
  PROVE  Inv'
<1> USE DEF Inv, FooAssumption
<1>1. PICK o \in Objs :
        /\ pc[t] = "idle"
        /\ pc' = [pc EXCEPT ![t] = "findlock"]
        /\ fp' = [fp EXCEPT ![t] = o]
        /\ InTable(o)
        /\ hashlock = NULL /\ hashlock' = t
        /\ UNCHANGED f_lock
        /\ UNCHANGED <<table, f_count, refs>>
  <2>1. PICK ident \in Ids, o \in Objs :
          /\ At(t, "idle") /\ LockHash(t) /\ First(ident, o)
          /\ fp' = [fp EXCEPT ![t] = o] /\ Jump(t, "findlock")
          /\ UNCHANGED <<table, f_count, f_lock, refs>>
    BY DEF FindWalk
  <2>2. InTable(o)
    BY <2>1, OnInTable DEF First, TInv
  <2> QED
    BY <2>1, <2>2 DEF At, Jump, LockHash
<1>2. TInv'
  BY <1>1 DEF TInv, TypeOK, PCs, table
<1>3. LInv'
  BY <1>1 DEF TInv, TypeOK, LInv, HashPCs, FPCs
<1>4. /\ \A x \in Objs : InTable(x)' <=> InTable(x)
      /\ \A u \in Threads, x \in Objs : Has(u, x)' <=> Has(u, x)
      /\ RInv'
      /\ CInv'
  BY <1>1, QuietStep DEF TInv, TypeOK
<1>5. PInv'
  <2>1. \A u \in Threads : pc[u] = "free" => fp[u] # o
    BY <1>1 DEF InTable, Dying
  <2> QED
    BY <1>1, <1>4, <2>1 DEF TInv, TypeOK, PInv, RefPCs, FindPCs, table
<1> QED
  BY <1>2, <1>3, <1>4, <1>5

LEMMA FindLockInv ==
  ASSUME FooAssumption, Inv, NEW t \in Threads, FindLock(t)
  PROVE  Inv'
<1> USE DEF Inv, FooAssumption
<1>1. PICK o \in Objs :
        /\ pc[t] = "findlock"
        /\ pc' = [pc EXCEPT ![t] = "findhold"]
        /\ fp[t] = o /\ fp' = fp
        /\ f_lock[o] = NULL
        /\ f_lock' = [f_lock EXCEPT ![o] = t]
        /\ UNCHANGED hashlock
        /\ UNCHANGED <<table, f_count, refs>>
  BY DEF FindLock, At, Jump, Lock, TInv, TypeOK
<1>2. TInv'
  BY <1>1 DEF TInv, TypeOK, PCs, table
<1>3. LInv'
  BY <1>1 DEF TInv, TypeOK, LInv, HashPCs, FPCs
<1>4. /\ \A x \in Objs : InTable(x)' <=> InTable(x)
      /\ \A u \in Threads, x \in Objs : Has(u, x)' <=> Has(u, x)
      /\ RInv'
      /\ CInv'
  BY <1>1, QuietStep DEF TInv, TypeOK
<1>5. PInv'
  BY <1>1, <1>4 DEF TInv, TypeOK, PInv, RefPCs, FindPCs, table
<1> QED
  BY <1>2, <1>3, <1>4, <1>5

LEMMA FindUnlockInv ==
  ASSUME FooAssumption, Inv, NEW t \in Threads, FindUnlock(t)
  PROVE  Inv'
<1> USE DEF Inv, FooAssumption
<1>1. PICK o \in Objs :
        /\ pc[t] = "findunlock"
        /\ pc' = [pc EXCEPT ![t] = "idle"]
        /\ fp[t] = o /\ fp' = [fp EXCEPT ![t] = NULL]
        /\ UNCHANGED f_lock
        /\ hashlock' = NULL
        /\ UNCHANGED <<table, f_count, refs>>
  BY DEF FindUnlock, At, Jump, Return, UnlockHash, TInv, TypeOK
<1>2. TInv'
  BY <1>1 DEF TInv, TypeOK, PCs, table
<1>3. LInv'
  BY <1>1 DEF TInv, TypeOK, LInv, HashPCs, FPCs
<1>4. /\ \A x \in Objs : InTable(x)' <=> InTable(x)
      /\ \A u \in Threads, x \in Objs : Has(u, x)' <=> Has(u, x)
      /\ RInv'
      /\ CInv'
  BY <1>1, QuietStep DEF TInv, TypeOK
<1>5. PInv'
  BY <1>1, <1>4 DEF TInv, TypeOK, PInv, RefPCs, FindPCs, table
<1> QED
  BY <1>2, <1>3, <1>4, <1>5

LEMMA ReleHashInv ==
  ASSUME FooAssumption, Inv, NEW t \in Threads, ReleHash(t)
  PROVE  Inv'
<1> USE DEF Inv, FooAssumption
<1>1. PICK o \in Objs :
        /\ pc[t] = "relehash"
        /\ pc' = [pc EXCEPT ![t] = "relelock"]
        /\ fp[t] = o /\ fp' = fp
        /\ hashlock = NULL /\ hashlock' = t
        /\ UNCHANGED f_lock
        /\ UNCHANGED <<table, f_count, refs>>
  BY DEF ReleHash, At, Jump, LockHash, TInv, TypeOK
<1>2. TInv'
  BY <1>1 DEF TInv, TypeOK, PCs, table
<1>3. LInv'
  BY <1>1 DEF TInv, TypeOK, LInv, HashPCs, FPCs
<1>4. /\ \A x \in Objs : InTable(x)' <=> InTable(x)
      /\ \A u \in Threads, x \in Objs : Has(u, x)' <=> Has(u, x)
      /\ RInv'
      /\ CInv'
  BY <1>1, QuietStep DEF TInv, TypeOK
<1>5. PInv'
  BY <1>1, <1>4 DEF TInv, TypeOK, PInv, RefPCs, FindPCs, table
<1> QED
  BY <1>2, <1>3, <1>4, <1>5

LEMMA ReleLockAgainInv ==
  ASSUME FooAssumption, Inv, NEW t \in Threads, ReleLockAgain(t)
  PROVE  Inv'
<1> USE DEF Inv, FooAssumption
<1>1. PICK o \in Objs :
        /\ pc[t] = "relelock"
        /\ pc' = [pc EXCEPT ![t] = "recheck"]
        /\ fp[t] = o /\ fp' = fp
        /\ f_lock[o] = NULL
        /\ f_lock' = [f_lock EXCEPT ![o] = t]
        /\ UNCHANGED hashlock
        /\ UNCHANGED <<table, f_count, refs>>
  BY DEF ReleLockAgain, At, Jump, Lock, TInv, TypeOK
<1>2. TInv'
  BY <1>1 DEF TInv, TypeOK, PCs, table
<1>3. LInv'
  BY <1>1 DEF TInv, TypeOK, LInv, HashPCs, FPCs
<1>4. /\ \A x \in Objs : InTable(x)' <=> InTable(x)
      /\ \A u \in Threads, x \in Objs : Has(u, x)' <=> Has(u, x)
      /\ RInv'
      /\ CInv'
  BY <1>1, QuietStep DEF TInv, TypeOK
<1>5. PInv'
  BY <1>1, <1>4 DEF TInv, TypeOK, PInv, RefPCs, FindPCs, table
<1> QED
  BY <1>2, <1>3, <1>4, <1>5

\* f_count goes up by one with a new reference to o.
LEMMA CountUp ==
  ASSUME FooAssumption, TypeOK, RInv, NEW t \in Threads, NEW o \in Objs, Take(t, o), InTable(o),
         f_count' = [f_count EXCEPT ![o] = @ + 1],
         \A x \in Objs : InTable(x)' <=> InTable(x)
  PROVE  RInv' /\ f_count' \in [Objs -> Nat]
<1>1. /\ Cardinality(RefsTo(o)') = Cardinality(RefsTo(o)) + 1
      /\ \A x \in Objs \ {o} : RefsTo(x)' = RefsTo(x)
      /\ \A ts \in Threads \X Slots : refs'[ts] # NULL => refs'[ts] \in {refs[ts], o}
  BY TakeCounts
<1>2. \A x \in Objs : InTable(x)' => f_count'[x] = Cardinality(RefsTo(x)')
  BY <1>1 DEF RInv, TypeOK
<1>3. \A ts \in Threads \X Slots, x \in Objs : refs'[ts] = x => InTable(x)'
  BY <1>1 DEF RInv, TypeOK, FooAssumption
<1>4. f_count \in [Objs -> Nat] /\ f_count[o] + 1 \in Nat
  BY DEF TypeOK
<1>5. f_count' \in [Objs -> Nat]
  BY <1>4
<1> QED
  BY <1>2, <1>3, <1>5 DEF RInv

\* f_count goes down by one with a reference to o.
LEMMA CountDown ==
  ASSUME FooAssumption, TypeOK, RInv, NEW t \in Threads, NEW o \in Objs, Drop(t, o), InTable(o),
         f_count' = [f_count EXCEPT ![o] = @ - 1],
         \A x \in Objs : InTable(x)' <=> InTable(x)
  PROVE  RInv' /\ f_count' \in [Objs -> Nat]
<1>1. /\ Cardinality(RefsTo(o)') = Cardinality(RefsTo(o)) - 1
      /\ \A x \in Objs \ {o} : RefsTo(x)' = RefsTo(x)
      /\ refs' \in [Threads \X Slots -> Objs \cup {NULL}]
      /\ \A ts \in Threads \X Slots : refs'[ts] # NULL => refs'[ts] = refs[ts]
  BY DropCounts
<1>2. \A x \in Objs : InTable(x)' => f_count'[x] = Cardinality(RefsTo(x)')
  BY <1>1 DEF RInv, TypeOK
<1>3. \A ts \in Threads \X Slots, x \in Objs : refs'[ts] = x => InTable(x)'
  BY <1>1 DEF RInv, TypeOK, FooAssumption
<1>4. IsFiniteSet(RefsTo(o)) /\ Cardinality(RefsTo(o)) \in Nat
  BY RefsFinite
<1>5. RefsTo(o) # {}
  BY DEF Drop, RefsTo
<1>6. Cardinality(RefsTo(o)) # 0
  BY <1>4, <1>5, FS_EmptySet
<1>7. f_count[o] = Cardinality(RefsTo(o))
  BY DEF RInv
<1>8. f_count \in [Objs -> Nat] /\ f_count[o] - 1 \in Nat
  <2>1. \A n \in Nat : n # 0 => n - 1 \in Nat
    OBVIOUS
  <2>2. Cardinality(RefsTo(o)) - 1 \in Nat
    BY <1>4, <1>6, <2>1
  <2> QED
    BY <1>7, <2>2 DEF TypeOK
<1>9. f_count' \in [Objs -> Nat]
  BY <1>8
<1> QED
  BY <1>2, <1>3, <1>9 DEF RInv

LEMMA HoldCountInv ==
  ASSUME FooAssumption, Inv, NEW t \in Threads, HoldCount(t)
  PROVE  Inv'
<1> USE DEF Inv, FooAssumption
<1>1. PICK o \in Objs :
        /\ pc[t] = "hold" /\ fp[t] = o
        /\ f_count' = [f_count EXCEPT ![o] = @ + 1]
        /\ Take(t, o)
        /\ f_lock' = [f_lock EXCEPT ![o] = NULL]
        /\ pc' = [pc EXCEPT ![t] = "idle"]
        /\ fp' = [fp EXCEPT ![t] = NULL]
        /\ UNCHANGED <<table, hashlock>>
  BY DEF HoldCount, At, Jump, Return, Unlock, TInv, TypeOK
<1>2. /\ refs' \in [Threads \X Slots -> Objs \cup {NULL}]
      /\ \A u \in Threads, x \in Objs : Has(u, x) => Has(u, x)'
  BY <1>1, TakeCounts DEF TInv
<1>3. InTable(o)
  <2>1. Has(t, o)
    BY <1>1 DEF PInv, RefPCs
  <2> QED
    BY <2>1 DEF Has, RInv
<1>4. LInv'
  BY <1>1 DEF TInv, TypeOK, LInv, HashPCs, FPCs
<1>5. \A x \in Objs : InTable(x)' <=> InTable(x)
  BY <1>1, SameTable DEF TInv, TypeOK, table
<1>6. PInv'
  <2>1. \A u \in Threads : pc[u] = "insert" => fp[u] # o
    BY <1>3 DEF PInv, InTable
  <2> QED
    BY <1>1, <1>2, <1>5, <2>1 DEF TInv, TypeOK, PInv, RefPCs, FindPCs, table
<1>7. RInv' /\ f_count' \in [Objs -> Nat]
  BY <1>1, <1>3, <1>5, CountUp DEF TInv
<1>8. TInv'
  BY <1>1, <1>2, <1>7 DEF TInv, TypeOK, PCs, table
<1>9. CInv'
  BY <1>1, <1>5, SameChains DEF TInv, table
<1> QED
  BY <1>4, <1>6, <1>7, <1>8, <1>9

LEMMA FindHoldInv ==
  ASSUME FooAssumption, Inv, NEW t \in Threads, FindHold(t)
  PROVE  Inv'
<1> USE DEF Inv, FooAssumption
<1>1. PICK o \in Objs :
        /\ pc[t] = "findhold" /\ fp[t] = o
        /\ f_count' = [f_count EXCEPT ![o] = @ + 1]
        /\ Take(t, o)
        /\ f_lock' = [f_lock EXCEPT ![o] = NULL]
        /\ pc' = [pc EXCEPT ![t] = "findunlock"]
        /\ UNCHANGED <<table, hashlock, fp>>
  BY DEF FindHold, At, Jump, Unlock, TInv, TypeOK
<1>2. /\ refs' \in [Threads \X Slots -> Objs \cup {NULL}]
      /\ \A u \in Threads, x \in Objs : Has(u, x) => Has(u, x)'
  BY <1>1, TakeCounts DEF TInv
<1>3. InTable(o)
  BY <1>1 DEF PInv, FindPCs
<1>4. LInv'
  BY <1>1 DEF TInv, TypeOK, LInv, HashPCs, FPCs
<1>5. \A x \in Objs : InTable(x)' <=> InTable(x)
  BY <1>1, SameTable DEF TInv, TypeOK, table
<1>6. PInv'
  <2>1. \A u \in Threads : pc[u] = "insert" => fp[u] # o
    BY <1>3 DEF PInv, InTable
  <2> QED
    BY <1>1, <1>2, <1>5, <2>1 DEF TInv, TypeOK, PInv, RefPCs, FindPCs, table
<1>7. RInv' /\ f_count' \in [Objs -> Nat]
  BY <1>1, <1>3, <1>5, CountUp DEF TInv
<1>8. TInv'
  BY <1>1, <1>2, <1>7 DEF TInv, TypeOK, PCs, table
<1>9. CInv'
  BY <1>1, <1>5, SameChains DEF TInv, table
<1> QED
  BY <1>4, <1>6, <1>7, <1>8, <1>9

LEMMA ReleCheckInv ==
  ASSUME FooAssumption, Inv, NEW t \in Threads, ReleCheck(t)
  PROVE  Inv'
<1> USE DEF Inv, FooAssumption
<1>1. PICK o \in Objs :
        /\ pc[t] = "rele" /\ fp[t] = o
        /\ f_lock' = [f_lock EXCEPT ![o] = NULL]
        /\ UNCHANGED <<table, hashlock>>
        /\ \/ pc' = [pc EXCEPT ![t] = "relehash"] /\ UNCHANGED <<f_count, refs, fp>>
           \/ /\ f_count' = [f_count EXCEPT ![o] = @ - 1]
              /\ Drop(t, o)
              /\ pc' = [pc EXCEPT ![t] = "idle"]
              /\ fp' = [fp EXCEPT ![t] = NULL]
  BY DEF ReleCheck, At, Jump, Return, Unlock, TInv, TypeOK
<1>2. InTable(o)
  <2>1. Has(t, o)
    BY <1>1 DEF PInv, RefPCs
  <2> QED
    BY <2>1 DEF Has, RInv
<1>3. LInv'
  BY <1>1 DEF TInv, TypeOK, LInv, HashPCs, FPCs
<1>4. \A x \in Objs : InTable(x)' <=> InTable(x)
  BY <1>1, SameTable DEF TInv, TypeOK, table
<1>5. CInv'
  BY <1>1, <1>4, SameChains DEF TInv, table
<1>6. CASE pc' = [pc EXCEPT ![t] = "relehash"] /\ UNCHANGED <<f_count, refs, fp>>
  <2>1. TInv'
    BY <1>1, <1>6 DEF TInv, TypeOK, PCs, table
  <2>2. \A u \in Threads, x \in Objs : Has(u, x)' <=> Has(u, x)
    BY <1>6 DEF Has
  <2>3. PInv'
    BY <1>1, <1>4, <1>6, <2>2 DEF TInv, TypeOK, PInv, RefPCs, FindPCs, table
  <2>4. RInv'
    BY <1>4, <1>6, SameRefs DEF TInv
  <2> QED
    BY <1>3, <1>5, <2>1, <2>3, <2>4
<1>7. CASE /\ f_count' = [f_count EXCEPT ![o] = @ - 1]
           /\ Drop(t, o)
           /\ pc' = [pc EXCEPT ![t] = "idle"]
           /\ fp' = [fp EXCEPT ![t] = NULL]
  <2>1. RInv' /\ f_count' \in [Objs -> Nat]
    BY <1>2, <1>4, <1>7, CountDown DEF TInv
  <2>2. /\ refs' \in [Threads \X Slots -> Objs \cup {NULL}]
        /\ \A u \in Threads \ {t}, x \in Objs : Has(u, x) => Has(u, x)'
    BY <1>7, DropCounts DEF TInv
  <2>3. TInv'
    BY <1>1, <1>7, <2>1, <2>2 DEF TInv, TypeOK, PCs, table
  <2>4. \A u \in Threads : pc[u] = "insert" => fp[u] # o
    BY <1>2 DEF PInv, InTable
  <2>5. PInv'
    BY <1>1, <1>4, <1>7, <2>2, <2>4 DEF TInv, TypeOK, PInv, RefPCs, FindPCs, table
  <2> QED
    BY <1>3, <1>5, <2>1, <2>3, <2>5
<1> QED
  BY <1>1, <1>6, <1>7

LEMMA ReleFreeInv ==
  ASSUME FooAssumption, Inv, NEW t \in Threads, ReleFree(t)
  PROVE  Inv'
<1> USE DEF Inv, FooAssumption
<1>1. PICK o \in Objs :
        /\ pc[t] = "free" /\ fp[t] = o
        /\ f_lock' = [f_lock EXCEPT ![o] = NULL]
        /\ heap' = [heap EXCEPT ![o] = "free"]
        /\ pc' = [pc EXCEPT ![t] = "idle"]
        /\ fp' = [fp EXCEPT ![t] = NULL]
        /\ UNCHANGED <<fh, f_next, f_count, f_id, hashlock, refs>>
  BY DEF ReleFree, At, Jump, Return, Unlock, TInv, TypeOK
<1>2. TInv'
  BY <1>1 DEF TInv, TypeOK, PCs
<1>3. LInv'
  BY <1>1 DEF TInv, TypeOK, LInv, HashPCs, FPCs
<1>4. \A x \in Objs : InTable(x)' <=> InTable(x)
  BY <1>1 DEF InTable, Dying, TInv, TypeOK
<1>5. PInv'
  <2>1. \A u \in Threads, x \in Objs : Has(u, x)' <=> Has(u, x)
    BY <1>1 DEF Has
  <2> QED
    BY <1>1, <1>4, <2>1 DEF TInv, TypeOK, PInv, RefPCs, FindPCs
<1>6. RInv'
  BY <1>1, <1>4, SameRefs DEF TInv
<1>7. CInv'
  BY <1>1, <1>4, SameChains DEF TInv
<1> QED
  BY <1>2, <1>3, <1>5, <1>6, <1>7

LEMMA GiveInv ==
  ASSUME FooAssumption, Inv, NEW t \in Threads, Give(t)
  PROVE  Inv'
<1> USE DEF Inv, FooAssumption
<1>1. UNCHANGED <<table, f_count, hashlock, f_lock, pc, fp>>
  BY DEF Give
<1>2. /\ \A x \in Objs : Cardinality(RefsTo(x)') = Cardinality(RefsTo(x))
      /\ refs' \in [Threads \X Slots -> Objs \cup {NULL}]
      /\ \A ts \in Threads \X Slots : refs'[ts] # NULL =>
           \E us \in Threads \X Slots : refs[us] = refs'[ts]
      /\ \A w \in Threads, x \in Objs : pc[w] # "idle" => (Has(w, x) => Has(w, x)')
  BY GiveCounts DEF TInv
<1>3. TInv'
  BY <1>1, <1>2 DEF TInv, TypeOK, table
<1>4. LInv'
  BY <1>1 DEF LInv
<1>5. \A x \in Objs : InTable(x)' <=> InTable(x)
  BY <1>1, SameTable DEF table
<1>6. PInv'
  BY <1>1, <1>2, <1>5 DEF TInv, TypeOK, PInv, RefPCs, table
<1>7. RInv'
  <2>1. \A x \in Objs : InTable(x)' => f_count'[x] = Cardinality(RefsTo(x)')
    BY <1>1, <1>2, <1>5 DEF RInv
  <2>2. \A ts \in Threads \X Slots, x \in Objs : refs'[ts] = x => InTable(x)'
    BY <1>2, <1>5 DEF RInv
  <2> QED
    BY <2>1, <2>2 DEF RInv
<1>8. CInv'
  BY <1>1, <1>5, SameChains DEF TInv, table
<1> QED
  BY <1>3, <1>4, <1>6, <1>7, <1>8

\* The chain without o, which has no reference left.
LEMMA UnlinkChains ==
  ASSUME FooAssumption, Inv, NEW o \in Objs, InTable(o), Unlink(o),
         ~InTable(o)', \A x \in Objs \ {o} : InTable(x)' <=> InTable(x)
  PROVE  /\ CInv'
         /\ fh' \in [Hashes -> Objs \cup {NULL}]
         /\ f_next' \in [Objs -> Objs \cup {NULL}]
<1> USE DEF Inv, FooAssumption
<1>1. PICK h \in Hashes : h = HASH[f_id[o]]
  BY DEF InTable, TInv, TypeOK
<1>2. CASE fh[h] = o
  <2>1. fh' = [fh EXCEPT ![h] = f_next[o]] /\ f_next' = f_next
    BY <1>1, <1>2 DEF Unlink
  <2>2. /\ fh' \in [Hashes -> Objs \cup {NULL}]
        /\ f_next' \in [Objs -> Objs \cup {NULL}]
    BY <2>1 DEF TInv, TypeOK
  <2>3. \A g \in Hashes, x \in Objs : fh'[g] = x => InTable(x)'
    BY <1>2, <2>1 DEF CInv, TInv, TypeOK
  <2>4. \A x, y \in Objs : InTable(x)' /\ f_next'[x] = y => InTable(y)'
    BY <1>2, <2>1 DEF CInv, TInv, TypeOK
  <2>5. \A x, y \in Objs : InTable(x)' /\ InTable(y)' /\ f_next'[x] = f_next'[y] /\ f_next'[x] # NULL
          => x = y
    BY <2>1 DEF CInv
  <2>6. \A g \in Hashes, x \in Objs : InTable(x)' /\ fh'[g] # NULL => f_next'[x] # fh'[g]
    BY ZenonT(90), <1>2, <2>1 DEF CInv, TInv, TypeOK
  <2>7. \A g, k \in Hashes : fh'[g] = fh'[k] /\ fh'[g] # NULL => g = k
    BY <1>2, <2>1 DEF CInv, TInv, TypeOK
  <2> QED
    BY <2>2, <2>3, <2>4, <2>5, <2>6, <2>7 DEF CInv
<1>3. CASE fh[h] # o
  <2>1. PICK pred \in On(h, {}) : /\ f_next[pred] = o
                               /\ f_next' = [f_next EXCEPT ![pred] = f_next[o]] /\ fh' = fh
    BY <1>1, <1>3 DEF Unlink
  <2>2. pred \in Objs /\ InTable(pred)
    BY OnInTable DEF TInv
  <2>3. pred # o
    <3>1. SUFFICES ASSUME pred = o PROVE FALSE
      OBVIOUS
    <3> DEFINE S == {x \in Objs : InTable(x)} \ {o}
    <3>2. Closed(S, h, {})
      BY <1>3, <2>1, <3>1 DEF Closed, CInv, TInv, TypeOK
    <3>3. S \in SUBSET Objs
      OBVIOUS
    <3>4. pred \in S
      BY <3>2, <3>3 DEF On
    <3> QED
      BY <3>1, <3>4
  <2>4. /\ fh' \in [Hashes -> Objs \cup {NULL}]
        /\ f_next' \in [Objs -> Objs \cup {NULL}]
    BY <2>1, <2>2 DEF TInv, TypeOK
  <2>5. \A g \in Hashes, x \in Objs : fh'[g] = x => InTable(x)'
    BY <2>1, <2>2 DEF CInv, TInv, TypeOK
  <2>6. \A x, y \in Objs : InTable(x)' /\ f_next'[x] = y => InTable(y)'
    BY <2>1, <2>2, <2>3 DEF CInv, TInv, TypeOK
  <2>7. \A x, y \in Objs : InTable(x)' /\ InTable(y)' /\ f_next'[x] = f_next'[y] /\ f_next'[x] # NULL
          => x = y
    BY <2>1, <2>2, <2>3 DEF CInv, TInv, TypeOK
  <2>8. \A g \in Hashes, x \in Objs : InTable(x)' /\ fh'[g] # NULL => f_next'[x] # fh'[g]
    BY <2>1, <2>2, <2>3 DEF CInv, TInv, TypeOK
  <2>9. \A g, k \in Hashes : fh'[g] = fh'[k] /\ fh'[g] # NULL => g = k
    BY <2>1 DEF CInv
  <2> QED
    BY <2>4, <2>5, <2>6, <2>7, <2>8, <2>9 DEF CInv
<1> QED
  BY <1>2, <1>3

LEMMA ReleRecheckInv ==
  ASSUME FooAssumption, Inv, NEW t \in Threads, ReleRecheck(t)
  PROVE  Inv'
<1> USE DEF Inv, FooAssumption
<1>1. PICK o \in Objs :
        /\ pc[t] = "recheck" /\ fp[t] = o
        /\ hashlock' = NULL /\ Drop(t, o)
        /\ UNCHANGED <<f_id, heap>>
        /\ IF f_count[o] # 1
           THEN /\ f_count' = [f_count EXCEPT ![o] = @ - 1]
                /\ f_lock' = [f_lock EXCEPT ![o] = NULL]
                /\ pc' = [pc EXCEPT ![t] = "idle"]
                /\ fp' = [fp EXCEPT ![t] = NULL]
                /\ UNCHANGED <<fh, f_next>>
           ELSE Unlink(o) /\ pc' = [pc EXCEPT ![t] = "free"] /\ UNCHANGED <<f_count, f_lock, fp>>
  BY DEF ReleRecheck, At, Jump, Return, Unlock, UnlockHash, TInv, TypeOK
<1>2. InTable(o)
  <2>1. Has(t, o)
    BY <1>1 DEF PInv, RefPCs
  <2> QED
    BY <2>1 DEF Has, RInv
<1>3. /\ refs' \in [Threads \X Slots -> Objs \cup {NULL}]
      /\ \A x \in Objs \ {o} : RefsTo(x)' = RefsTo(x)
      /\ \A ts \in Threads \X Slots : refs'[ts] # NULL => refs'[ts] = refs[ts]
      /\ \A u \in Threads \ {t}, x \in Objs : Has(u, x) => Has(u, x)'
      /\ Cardinality(RefsTo(o)) = 1 =>
           /\ \A ts \in Threads \X Slots : refs'[ts] # o
           /\ \A u \in Threads \ {t} : ~Has(u, o)
  BY <1>1, DropCounts DEF TInv
<1>4. CASE f_count[o] # 1
  <2>0. /\ f_lock' = [f_lock EXCEPT ![o] = NULL]
        /\ pc' = [pc EXCEPT ![t] = "idle"]
        /\ fp' = [fp EXCEPT ![t] = NULL]
        /\ f_count' = [f_count EXCEPT ![o] = @ - 1]
        /\ UNCHANGED <<fh, f_next>>
    BY <1>1, <1>4
  <2>7. LInv'
    BY <1>1, <2>0 DEF TInv, TypeOK, LInv, HashPCs, FPCs
  <2>1. \A x \in Objs : InTable(x)' <=> InTable(x)
    BY <1>1, <1>4, SameTable DEF TInv, TypeOK
  <2>2. RInv' /\ f_count' \in [Objs -> Nat]
    BY <1>1, <1>2, <1>4, <2>1, CountDown DEF TInv
  <2>3. TInv'
    <3>1. f_id' = f_id /\ heap' = heap /\ hashlock' = NULL
      BY <1>1
    <3>2. pc' \in [Threads -> PCs] /\ fp' \in [Threads -> Objs \cup {NULL}]
      BY <2>0 DEF TInv, TypeOK, PCs
    <3>3. \A u \in Threads : pc'[u] = "idle" <=> fp'[u] = NULL
      BY <2>0 DEF TInv, TypeOK
    <3>4. f_lock' \in [Objs -> Threads \cup {NULL}]
      BY <2>0 DEF TInv, TypeOK
    <3>5. fh' = fh /\ f_next' = f_next
      BY <2>0
    <3>6. refs' \in [Threads \X Slots -> Objs \cup {NULL}]
      BY <1>3
    <3>7. f_count' \in [Objs -> Nat]
      BY <2>2
    <3> HIDE DEF Inv
    <3>8. TInv
      BY DEF Inv
    <3> QED
      BY ONLY <3>1, <3>2, <3>3, <3>4, <3>5, <3>6, <3>7, <3>8 DEF TInv, TypeOK
  <2>4. \A u \in Threads : pc[u] = "insert" => fp[u] # o
    BY <1>2 DEF PInv, InTable
  <2>5. PInv'
    BY <1>1, <1>3, <2>0, <2>1, <2>4 DEF TInv, TypeOK, PInv, RefPCs, FindPCs
  <2>6. CInv'
    BY <1>1, <1>4, <2>1, SameChains DEF TInv
  <2> QED
    BY <2>7, <2>2, <2>3, <2>5, <2>6
<1>5. CASE f_count[o] = 1
  <2>8. LInv'
    BY <1>1, <1>5 DEF TInv, TypeOK, LInv, HashPCs, FPCs
  <2>1. Cardinality(RefsTo(o)) = 1
    BY <1>2, <1>5 DEF RInv
  <2>2. /\ ~InTable(o)'
        /\ \A x \in Objs \ {o} : InTable(x)' <=> InTable(x)
    BY <1>1, <1>5 DEF InTable, Dying, TInv, TypeOK
  <2>3. /\ CInv'
        /\ fh' \in [Hashes -> Objs \cup {NULL}]
        /\ f_next' \in [Objs -> Objs \cup {NULL}]
    BY <1>1, <1>2, <1>5, <2>2, UnlinkChains
  <2>4. TInv'
    BY ZenonT(90), <1>1, <1>3, <1>5, <2>3 DEF TInv, TypeOK, PCs
  <2>5. \A u \in Threads \ {t} : fp[u] # o
    <3>1. SUFFICES ASSUME NEW u \in Threads \ {t}, fp[u] = o PROVE FALSE
      OBVIOUS
    <3>2. ~Has(u, o)
      BY <1>3, <2>1
    <3>3. pc[u] \notin RefPCs
      BY <3>1, <3>2 DEF PInv
    <3>4. pc[u] # "insert" /\ pc[u] # "free"
      BY <1>2, <3>1 DEF InTable, Dying, PInv
    <3>5. pc[u] \notin FindPCs
      BY <1>1 DEF LInv, HashPCs, FindPCs
    <3>6. pc[u] # "idle"
      BY <3>1 DEF TInv
    <3> QED
      BY <3>3, <3>4, <3>5, <3>6 DEF TInv, TypeOK, PCs, RefPCs, FindPCs
  <2>6. PInv'
    BY SMTT(60), <1>1, <1>2, <1>3, <1>5, <2>2, <2>5 DEF TInv, TypeOK, PInv, RefPCs, FindPCs, InTable
  <2>7. RInv'
    <3>1. \A x \in Objs : InTable(x)' => f_count'[x] = Cardinality(RefsTo(x)')
      BY <1>1, <1>3, <1>5, <2>2 DEF RInv
    <3>2. \A ts \in Threads \X Slots, x \in Objs : refs'[ts] = x => InTable(x)'
      BY <1>3, <2>1, <2>2 DEF RInv
    <3> QED
      BY <3>1, <3>2 DEF RInv
  <2> QED
    BY <2>8, <2>3, <2>4, <2>6, <2>7
<1> QED
  BY <1>4, <1>5

LEMMA NextInv ==
  ASSUME FooAssumption, Inv, [Next]_vars
  PROVE  Inv'
<1>1. CASE UNCHANGED vars
  BY SMTT(60), <1>1 DEF vars, Inv, TInv, TypeOK, LInv, PInv, RInv, CInv, InTable, Dying, Has, RefsTo
<1>2. CASE Next
  <2>1. PICK t \in Threads : foo_alloc(t) \/ foo_hold(t) \/ foo_find(t) \/ foo_rele(t) \/ Give(t)
    BY <1>2 DEF Next
  <2>2. CASE foo_alloc(t)
    BY <2>2, mallocInv, AllocInsertInv, AllocLockInv, AllocDoneInv DEF foo_alloc
  <2>3. CASE foo_hold(t)
    BY <2>3, HoldLockInv, HoldCountInv DEF foo_hold
  <2>4. CASE foo_find(t)
    BY <2>4, FindWalkInv, FindLockInv, FindHoldInv, FindUnlockInv DEF foo_find
  <2>5. CASE foo_rele(t)
    BY <2>5, ReleLockInv, ReleCheckInv, ReleHashInv, ReleLockAgainInv, ReleRecheckInv, ReleFreeInv
       DEF foo_rele
  <2>6. CASE Give(t)
    BY <2>6, GiveInv
  <2> QED
    BY <2>1, <2>2, <2>3, <2>4, <2>5, <2>6
<1> QED
  BY <1>1, <1>2
-----------------------------------------------------------------------------
(* What the invariant says of mutex2.c. *)

LEMMA AlwaysInv ==
  Spec => []Inv
<1>1. Init => Inv
  BY InitInv, FooConstants
<1>2. Inv /\ [Next]_vars => Inv'
  BY NextInv, FooConstants
<1> QED
  BY <1>1, <1>2, PTL DEF Spec

(* Every variable of mutex2.c keeps its type; an object that is allocated has
   an id, so HASH is never applied to garbage. *)
THEOREM FooTypeCorrect ==
  Spec => []TypeOK
<1>1. Inv => TypeOK
  BY DEF Inv, TInv
<1> QED
  BY <1>1, AlwaysInv, PTL

(* foo_find and foo_rele may race for the last reference in any way: no thread
   touches an object that was freed, and no caller keeps a reference to it. *)
THEOREM NeverUsedAfterFree ==
  Spec => []NoUseAfterFree
<1>1. ASSUME Inv
      PROVE  NoUseAfterFree
  <2> USE <1>1 DEF Inv
  <2>1. \A ts \in Threads \X Slots : refs[ts] # NULL => heap[refs[ts]] = "live" /\ ~Dying(refs[ts])
    BY DEF RInv, InTable, TInv, TypeOK
  <2>2. ASSUME NEW t \in Threads, pc[t] # "idle"
        PROVE  heap[fp[t]] # "free"
    <3>1. fp[t] \in Objs
      BY <2>2 DEF TInv, TypeOK
    <3>2. CASE pc[t] \in RefPCs
      <4>1. Has(t, fp[t])
        BY <3>1, <3>2 DEF PInv
      <4> QED
        BY <2>1, <3>1, <4>1, FooConstants DEF Has, FooAssumption
    <3>3. CASE pc[t] \in FindPCs
      BY <3>1, <3>3 DEF PInv, InTable
    <3>4. CASE pc[t] \in {"insert", "free"}
      BY <3>4 DEF PInv
    <3> QED
      BY <2>2, <3>2, <3>3, <3>4 DEF TInv, TypeOK, PCs, RefPCs, FindPCs
  <2> QED
    BY <2>1, <2>2 DEF NoUseAfterFree
<1> QED
  BY <1>1, AlwaysInv, PTL

(* f_count of an object in the table is the number of references to it. *)
THEOREM AlwaysCountsReferences ==
  Spec => []CountsReferences
<1>1. Inv => CountsReferences
  BY DEF Inv, RInv, InTable, RefsTo, CountsReferences
<1> QED
  BY <1>1, AlwaysInv, PTL

(* foo_rele frees an object that is on no chain and that no other thread is at. *)
THEOREM AlwaysFreedAlone ==
  Spec => []FreedAlone
<1>1. ASSUME Inv
      PROVE  FreedAlone
  <2>1. SUFFICES ASSUME NEW t \in Threads, pc[t] = "free"
                 PROVE  /\ \A u \in Threads \ {t} : fp[u] # fp[t]
                        /\ \A h \in Hashes : fp[t] \notin On(h, {})
    BY DEF FreedAlone
  <2>2. \A u \in Threads \ {t} : fp[u] # fp[t]
    BY <1>1, <2>1 DEF Inv, PInv
  <2>3. ASSUME NEW h \in Hashes, fp[t] \in On(h, {})
        PROVE  FALSE
    <3>1. InTable(fp[t])
      BY <1>1, <2>3, OnInTable DEF Inv, TInv
    <3> QED
      BY <2>1, <3>1 DEF InTable, Dying
  <2> QED
    BY <2>2, <2>3
<1> QED
  BY <1>1, AlwaysInv, PTL

(* Every wait for a lock in mutex2.c is in the one order hashlock, f_lock. *)
THEOREM LocksAlwaysInOrder ==
  Spec => []LocksInOrder
<1>1. Inv => LocksInOrder
  BY FooConstants DEF Inv, LInv, FPCs, TInv, TypeOK, LocksInOrder, FooAssumption
<1> QED
  BY <1>1, AlwaysInv, PTL
=============================================================================
