--------------------------- MODULE ProgramsProof ----------------------------
(***************************************************************************)
(* Proofs about the programs of MCPrograms, for every value of its         *)
(* constants.  A behaviour is one of the programs, so each has an          *)
(* invariant of its own over v1, v2, ..., which stand for the variables of *)
(* the component in the order of its INSTANCE.                             *)
(***************************************************************************)
EXTENDS MCPrograms, TLAPS

\* A behaviour of MCPrograms is a behaviour of the part it begins with.
LEMMA PartInit ==
  ASSUME Init
  PROVE /\ part = "status" => Status!Init
        /\ part = "opend" => Server!Init
        /\ part = "fd" => Passing!Init
        /\ part = "ruptime" => Uptime!Init
        /\ part = "popen" => Popen!Init
        /\ part = "pipes" => Pipes!Init
        /\ part = "pollmsg" => Msgs!Init
        /\ part = "async" => Async!Init
        /\ part = "dbopen" => DbOpen!Init
        /\ part = "alarm" => Alarm!Init
        /\ part = "signals" => Signals!Init
        /\ part = "daemon" => Daemon!Init
        /\ part = "threads" => Threads!Init
        /\ part = "tty" => Tty!Init
        /\ part = "pty" => Pty!Init
        /\ part = "rot13" => Rot13!Init
        /\ part = "mem" => Mem!Init
        /\ part = "dup2" => Dup2!Init
BY DEF Init

\* Every step is a step of that part.
LEMMA PartNext ==
  ASSUME Next
  PROVE /\ UNCHANGED part
        /\ part = "status" => Status!Next
        /\ part = "opend" => Server!Next
        /\ part = "fd" => Passing!Next
        /\ part = "ruptime" => Uptime!Next
        /\ part = "popen" => Popen!Next
        /\ part = "pipes" => Pipes!Next
        /\ part = "pollmsg" => Msgs!Next
        /\ part = "async" => Async!Next
        /\ part = "dbopen" => DbOpen!Next
        /\ part = "alarm" => Alarm!Next
        /\ part = "signals" => Signals!Next
        /\ part = "daemon" => Daemon!Next
        /\ part = "threads" => Threads!Next
        /\ part = "tty" => Tty!Next
        /\ part = "pty" => Pty!Next
        /\ part = "rot13" => Rot13!Next
        /\ part = "mem" => Mem!Next
        /\ part = "dup2" => Dup2!Next
BY DEF Next, Rest6, Rest7, Rest8, Rest9, Rest10, Rest11
-----------------------------------------------------------------------------
(* Daemon: v1 prog, v2 pc, v3 proc, v4 pending, v5 in, v6 out, v7 lock,
   v8 pidfile. *)
DaemonPCs == {"start", "leader", "ignoring", "daemon", "open", "lockfile", "ftruncate", "write",
              "signals", "block", "hup", "run"}

\* The places and the settings of each copy of the daemon.
DaemonTypes ==
  /\ v1 \in {"reread", "reread2", "exercise_4"}
  /\ v2 \in [Peers -> DaemonPCs]
  /\ v3 \in [Peers -> [leader : BOOLEAN, tty : BOOLEAN, hup : {"dfl", "ign", "catch"},
                       term : {"dfl", "catch"}, blocked : BOOLEAN]]
  /\ v5 \in [Peers -> BOOLEAN]
  /\ v6 \in [Peers -> {"alive", "exit", "crash", "hup", "term"}]

\* A copy past already_running has the lock, nobody else has, and once it has
\* written LOCKFILE its process id stays there.
Locked ==
  /\ \A d, e \in v7 : d = e
  /\ v1 # "exercise_4" => \A d \in Peers : v6[d] = "alive" =>
       /\ v2[d] \in {"ftruncate", "write", "signals", "block", "hup", "run"} => d \in v7
       /\ v2[d] \in {"signals", "block", "hup", "run"} => v8 = d

\* What daemonize and the setting up of the signals leave behind.
Prepared ==
  \A d \in Peers :
    /\ v3[d].leader => v2[d] \in {"leader", "ignoring"}
    /\ v3[d].tty => v2[d] = "start"
    /\ v3[d].hup = "dfl" => v2[d] \in {"start", "leader", "block"} \/ (v2[d] = "run" /\ v3[d].blocked)
    /\ v3[d].hup = "catch" => v1 = "reread2"
    /\ v2[d] = "hup" => v1 = "reread2" /\ v3[d].term = "catch"
    /\ v2[d] = "block" => v1 = "reread"
    /\ v2[d] = "run" /\ v1 = "reread" => v3[d].blocked
    /\ v2[d] = "run" /\ v1 = "reread2" => v3[d].term = "catch"
    /\ v1 = "exercise_4" => ~v5[d]

\* The invariant of the daemons.
DaemonInv ==
  DaemonTypes /\ Locked /\ Prepared /\ Daemon!NoTerminal /\ Daemon!HupSafe /\ Daemon!RereadWhole

\* The copies have been started.
LEMMA DaemonStarts ==
  ASSUME Daemon!Init
  PROVE DaemonInv
<1> USE DEF Daemon!Init
<1>1. DaemonTypes
  BY DEF DaemonTypes, DaemonPCs
<1>2. Locked
  BY DEF Locked
<1>3. Prepared
  BY DEF Prepared
<1>4. Daemon!NoTerminal /\ Daemon!HupSafe /\ Daemon!RereadWhole
  BY DEF Daemon!NoTerminal, Daemon!HupSafe, Daemon!RereadWhole
<1> QED BY <1>1, <1>2, <1>3, <1>4 DEF DaemonInv

\* Every step of a copy keeps it, death by a signal and a crash included.
LEMMA DaemonMoves ==
  ASSUME DaemonInv, NEW d \in Peers,
         \/ Daemon!Running(d) \/ Daemon!OpenTerminal(d) \/ Daemon!Exit(d)
  PROVE DaemonInv'
<1> USE DEF DaemonInv
<1>1. CASE Daemon!fork_setsid(d)
  <2> USE <1>1 DEF Daemon!fork_setsid, Daemon!Alive, Daemon!Step
  <2>1. DaemonTypes'
    BY DEF DaemonTypes, DaemonPCs
  <2>2. Locked'
    BY DEF DaemonTypes, DaemonPCs, Locked
  <2>3. Prepared'
    BY DEF DaemonTypes, DaemonPCs, Prepared
  <2>4. (Daemon!NoTerminal /\ Daemon!HupSafe /\ Daemon!RereadWhole)'
    BY DEF DaemonTypes, DaemonPCs, Prepared, Daemon!NoTerminal, Daemon!HupSafe, Daemon!RereadWhole
  <2> QED BY <2>1, <2>2, <2>3, <2>4
<1>2. CASE Daemon!ignore_hup(d)
  <2> USE <1>2 DEF Daemon!ignore_hup, Daemon!Alive, Daemon!Step, Daemon!hup_ignored
  <2>1. DaemonTypes'
    BY DEF DaemonTypes, DaemonPCs
  <2>2. Locked'
    BY DEF DaemonTypes, DaemonPCs, Locked
  <2>3. Prepared'
    BY DEF DaemonTypes, DaemonPCs, Prepared
  <2>4. (Daemon!NoTerminal /\ Daemon!HupSafe /\ Daemon!RereadWhole)'
    BY DEF DaemonTypes, DaemonPCs, Prepared, Daemon!NoTerminal, Daemon!HupSafe, Daemon!RereadWhole
  <2> QED BY <2>1, <2>2, <2>3, <2>4
<1>3. CASE Daemon!fork_again(d)
  <2> USE <1>3 DEF Daemon!fork_again, Daemon!Alive, Daemon!Step, Daemon!not_leader
  <2>1. DaemonTypes'
    BY DEF DaemonTypes, DaemonPCs
  <2>2. Locked'
    BY DEF DaemonTypes, DaemonPCs, Locked
  <2>3. Prepared'
    BY DEF DaemonTypes, DaemonPCs, Prepared
  <2>4. (Daemon!NoTerminal /\ Daemon!HupSafe /\ Daemon!RereadWhole)'
    BY DEF DaemonTypes, DaemonPCs, Prepared, Daemon!NoTerminal, Daemon!HupSafe, Daemon!RereadWhole
  <2> QED BY <2>1, <2>2, <2>3, <2>4
<1>4. CASE Daemon!null_stdio(d)
  <2> USE <1>4 DEF Daemon!null_stdio, Daemon!Step, Daemon!Die, Daemon!Alive
  <2>1. DaemonTypes'
    BY DEF DaemonTypes, DaemonPCs
  <2>2. Locked'
    BY DEF DaemonTypes, DaemonPCs, Locked
  <2>3. Prepared'
    BY DEF DaemonTypes, DaemonPCs, Prepared
  <2>4. (Daemon!NoTerminal /\ Daemon!HupSafe /\ Daemon!RereadWhole)'
    BY DEF DaemonTypes, DaemonPCs, Prepared, Daemon!NoTerminal, Daemon!HupSafe, Daemon!RereadWhole
  <2> QED BY <2>1, <2>2, <2>3, <2>4
<1>5. CASE Daemon!open(d)
  <2> USE <1>5 DEF Daemon!open, Daemon!Alive, Daemon!Step, Daemon!open_creat
  <2>1. DaemonTypes'
    BY DEF DaemonTypes, DaemonPCs
  <2>2. Locked'
    BY DEF DaemonTypes, DaemonPCs, Locked
  <2>3. Prepared'
    BY DEF DaemonTypes, DaemonPCs, Prepared
  <2>4. (Daemon!NoTerminal /\ Daemon!HupSafe /\ Daemon!RereadWhole)'
    BY DEF DaemonTypes, DaemonPCs, Prepared, Daemon!NoTerminal, Daemon!HupSafe, Daemon!RereadWhole
  <2> QED BY <2>1, <2>2, <2>3, <2>4
<1>6. CASE Daemon!already_running(d)
  <2> USE <1>6 DEF Daemon!already_running, Daemon!Step, Daemon!Die, Daemon!Alive, Daemon!lockfile
  <2>1. DaemonTypes'
    BY DEF DaemonTypes, DaemonPCs
  <2>2. Locked'
    BY DEF DaemonTypes, DaemonPCs, Locked
  <2>3. Prepared'
    BY DEF DaemonTypes, DaemonPCs, Prepared
  <2>4. (Daemon!NoTerminal /\ Daemon!HupSafe /\ Daemon!RereadWhole)'
    BY DEF DaemonTypes, DaemonPCs, Prepared, Daemon!NoTerminal, Daemon!HupSafe, Daemon!RereadWhole
  <2> QED BY <2>1, <2>2, <2>3, <2>4
<1>7. CASE Daemon!ftruncate(d)
  <2> USE <1>7 DEF Daemon!ftruncate, Daemon!Alive, Daemon!Step
  <2>1. DaemonTypes'
    BY DEF DaemonTypes, DaemonPCs
  <2>2. Locked'
    BY DEF DaemonTypes, DaemonPCs, Locked
  <2>3. Prepared'
    BY DEF DaemonTypes, DaemonPCs, Prepared
  <2>4. (Daemon!NoTerminal /\ Daemon!HupSafe /\ Daemon!RereadWhole)'
    BY DEF DaemonTypes, DaemonPCs, Prepared, Daemon!NoTerminal, Daemon!HupSafe, Daemon!RereadWhole
  <2> QED BY <2>1, <2>2, <2>3, <2>4
<1>8. CASE Daemon!write(d)
  <2> USE <1>8 DEF Daemon!write, Daemon!Alive, Daemon!Step
  <2>1. DaemonTypes'
    BY DEF DaemonTypes, DaemonPCs
  <2>2. Locked'
    BY DEF DaemonTypes, DaemonPCs, Locked
  <2>3. Prepared'
    BY DEF DaemonTypes, DaemonPCs, Prepared
  <2>4. (Daemon!NoTerminal /\ Daemon!HupSafe /\ Daemon!RereadWhole)'
    BY DEF DaemonTypes, DaemonPCs, Prepared, Daemon!NoTerminal, Daemon!HupSafe, Daemon!RereadWhole
  <2> QED BY <2>1, <2>2, <2>3, <2>4
<1>9. CASE Daemon!default_hup(d)
  <2> USE <1>9 DEF Daemon!default_hup, Daemon!Alive, Daemon!Step
  <2>1. DaemonTypes'
    BY DEF DaemonTypes, DaemonPCs
  <2>2. Locked'
    BY DEF DaemonTypes, DaemonPCs, Locked
  <2>3. Prepared'
    BY DEF DaemonTypes, DaemonPCs, Prepared
  <2>4. (Daemon!NoTerminal /\ Daemon!HupSafe /\ Daemon!RereadWhole)'
    BY DEF DaemonTypes, DaemonPCs, Prepared, Daemon!NoTerminal, Daemon!HupSafe, Daemon!RereadWhole
  <2> QED BY <2>1, <2>2, <2>3, <2>4
<1>10. CASE Daemon!block_all(d)
  <2> USE <1>10 DEF Daemon!block_all, Daemon!Alive, Daemon!Step
  <2>1. DaemonTypes'
    BY DEF DaemonTypes, DaemonPCs
  <2>2. Locked'
    BY DEF DaemonTypes, DaemonPCs, Locked
  <2>3. Prepared'
    BY DEF DaemonTypes, DaemonPCs, Prepared
  <2>4. (Daemon!NoTerminal /\ Daemon!HupSafe /\ Daemon!RereadWhole)'
    BY DEF DaemonTypes, DaemonPCs, Prepared, Daemon!NoTerminal, Daemon!HupSafe, Daemon!RereadWhole
  <2> QED BY <2>1, <2>2, <2>3, <2>4
<1>11. CASE Daemon!catch_term(d)
  <2> USE <1>11 DEF Daemon!catch_term, Daemon!Alive, Daemon!Step
  <2>1. DaemonTypes'
    BY DEF DaemonTypes, DaemonPCs
  <2>2. Locked'
    BY DEF DaemonTypes, DaemonPCs, Locked
  <2>3. Prepared'
    BY DEF DaemonTypes, DaemonPCs, Prepared
  <2>4. (Daemon!NoTerminal /\ Daemon!HupSafe /\ Daemon!RereadWhole)'
    BY DEF DaemonTypes, DaemonPCs, Prepared, Daemon!NoTerminal, Daemon!HupSafe, Daemon!RereadWhole
  <2> QED BY <2>1, <2>2, <2>3, <2>4
<1>12. CASE Daemon!catch_hup(d)
  <2> USE <1>12 DEF Daemon!catch_hup, Daemon!Alive, Daemon!Step
  <2>1. DaemonTypes'
    BY DEF DaemonTypes, DaemonPCs
  <2>2. Locked'
    BY DEF DaemonTypes, DaemonPCs, Locked
  <2>3. Prepared'
    BY DEF DaemonTypes, DaemonPCs, Prepared
  <2>4. (Daemon!NoTerminal /\ Daemon!HupSafe /\ Daemon!RereadWhole)'
    BY DEF DaemonTypes, DaemonPCs, Prepared, Daemon!NoTerminal, Daemon!HupSafe, Daemon!RereadWhole
  <2> QED BY <2>1, <2>2, <2>3, <2>4
<1>13. CASE Daemon!thr_fn(d)
  <2> USE <1>13 DEF Daemon!thr_fn, Daemon!Alive, Daemon!Die, Daemon!reread
  <2>1. DaemonTypes'
    BY DEF DaemonTypes, DaemonPCs
  <2>2. Locked'
    BY DEF DaemonTypes, DaemonPCs, Locked
  <2>3. Prepared'
    BY DEF DaemonTypes, DaemonPCs, Prepared
  <2>4. (Daemon!NoTerminal /\ Daemon!HupSafe /\ Daemon!RereadWhole)'
    BY DEF DaemonTypes, DaemonPCs, Prepared, Daemon!NoTerminal, Daemon!HupSafe, Daemon!RereadWhole
  <2> QED BY <2>1, <2>2, <2>3, <2>4
<1>14. CASE Daemon!sighup(d)
  <2> USE <1>14 DEF Daemon!sighup, Daemon!Alive, Daemon!sa_mask, Daemon!Action, Daemon!reread
  <2>1. DaemonTypes'
    BY DEF DaemonTypes, DaemonPCs
  <2>2. Locked'
    BY DEF DaemonTypes, DaemonPCs, Locked
  <2>3. Prepared'
    BY DEF DaemonTypes, DaemonPCs, Prepared
  <2>4. (Daemon!NoTerminal /\ Daemon!HupSafe /\ Daemon!RereadWhole)'
    BY DEF DaemonTypes, DaemonPCs, Prepared, Daemon!NoTerminal, Daemon!HupSafe, Daemon!RereadWhole
  <2> QED BY <2>1, <2>2, <2>3, <2>4
<1>15. CASE Daemon!sigterm(d)
  <2> USE <1>15 DEF Daemon!sigterm, Daemon!Alive, Daemon!Die, Daemon!sa_mask, Daemon!Action
  <2>1. DaemonTypes'
    BY DEF DaemonTypes, DaemonPCs
  <2>2. Locked'
    BY DEF DaemonTypes, DaemonPCs, Locked
  <2>3. Prepared'
    BY DEF DaemonTypes, DaemonPCs, Prepared
  <2>4. (Daemon!NoTerminal /\ Daemon!HupSafe /\ Daemon!RereadWhole)'
    BY DEF DaemonTypes, DaemonPCs, Prepared, Daemon!NoTerminal, Daemon!HupSafe, Daemon!RereadWhole
  <2> QED BY <2>1, <2>2, <2>3, <2>4
<1>16. CASE Daemon!Kill(d)
  <2> USE <1>16 DEF Daemon!Kill, Daemon!Alive, Daemon!Die, Daemon!Action
  <2>1. DaemonTypes'
    BY DEF DaemonTypes, DaemonPCs
  <2>2. Locked'
    BY DEF DaemonTypes, DaemonPCs, Locked
  <2>3. Prepared'
    BY DEF DaemonTypes, DaemonPCs, Prepared
  <2>4. (Daemon!NoTerminal /\ Daemon!HupSafe /\ Daemon!RereadWhole)'
    BY DEF DaemonTypes, DaemonPCs, Prepared, Daemon!NoTerminal, Daemon!HupSafe, Daemon!RereadWhole
  <2> QED BY <2>1, <2>2, <2>3, <2>4
<1>17. CASE Daemon!RereadReturns(d)
  <2> USE <1>17 DEF Daemon!RereadReturns, Daemon!Alive
  <2>1. DaemonTypes'
    BY DEF DaemonTypes, DaemonPCs
  <2>2. Locked'
    BY DEF DaemonTypes, DaemonPCs, Locked
  <2>3. Prepared'
    BY DEF DaemonTypes, DaemonPCs, Prepared
  <2>4. (Daemon!NoTerminal /\ Daemon!HupSafe /\ Daemon!RereadWhole)'
    BY DEF DaemonTypes, DaemonPCs, Prepared, Daemon!NoTerminal, Daemon!HupSafe, Daemon!RereadWhole
  <2> QED BY <2>1, <2>2, <2>3, <2>4
<1>18. CASE Daemon!OpenTerminal(d)
  <2> USE <1>18 DEF Daemon!OpenTerminal, Daemon!Alive
  <2>1. DaemonTypes'
    BY DEF DaemonTypes, DaemonPCs
  <2>2. Locked'
    BY DEF DaemonTypes, DaemonPCs, Locked
  <2>3. Prepared'
    BY DEF DaemonTypes, DaemonPCs, Prepared
  <2>4. (Daemon!NoTerminal /\ Daemon!HupSafe /\ Daemon!RereadWhole)'
    BY DEF DaemonTypes, DaemonPCs, Prepared, Daemon!NoTerminal, Daemon!HupSafe, Daemon!RereadWhole
  <2> QED BY <2>1, <2>2, <2>3, <2>4
<1>19. CASE Daemon!Exit(d)
  <2> USE <1>19 DEF Daemon!Exit, Daemon!Alive, Daemon!Die
  <2>1. DaemonTypes'
    BY DEF DaemonTypes, DaemonPCs
  <2>2. Locked'
    BY DEF DaemonTypes, DaemonPCs, Locked
  <2>3. Prepared'
    BY DEF DaemonTypes, DaemonPCs, Prepared
  <2>4. (Daemon!NoTerminal /\ Daemon!HupSafe /\ Daemon!RereadWhole)'
    BY DEF DaemonTypes, DaemonPCs, Prepared, Daemon!NoTerminal, Daemon!HupSafe, Daemon!RereadWhole
  <2> QED BY <2>1, <2>2, <2>3, <2>4
<1> QED BY <1>1, <1>2, <1>3, <1>4, <1>5, <1>6, <1>7, <1>8, <1>9, <1>10, <1>11, <1>12, <1>13, <1>14, <1>15, <1>16, <1>17, <1>18, <1>19 DEF Daemon!Running

\* A signal from outside changes neither a copy's place nor its actions.
LEMMA DaemonSignalled ==
  ASSUME DaemonInv, NEW d \in Peers, NEW s \in {"HUP", "TERM"}, Daemon!Send(d, s)
  PROVE DaemonInv'
BY DEF DaemonInv, DaemonTypes, DaemonPCs, Locked, Prepared, Daemon!NoTerminal, Daemon!HupSafe,
       Daemon!RereadWhole, Daemon!Send

\* DaemonInv is inductive.
LEMMA DaemonKept ==
  ASSUME DaemonInv, Daemon!Next
  PROVE DaemonInv'
BY DaemonMoves, DaemonSignalled DEF Daemon!Next

\* The lock makes the daemon single.
LEMMA DaemonIsSingle ==
  ASSUME DaemonInv
  PROVE Daemon!SingleDaemon
BY DEF DaemonInv, Locked, Daemon!SingleDaemon, Daemon!Serving, Daemon!Alive
-----------------------------------------------------------------------------
(* DbOpen: v1 at, v2 oflag, v3 fds, v4 size0, v5 idx, v6 lock. *)
IndexFiles == [exists : BOOLEAN, table : BOOLEAN, recs : SUBSET Peers, lost : SUBSET Peers]

\* The places of each process, what it has allocated, and the index file.
DbOpenTypes ==
  /\ v1 \in [Peers -> {"closed", "openidx", "opendat", "check", "lock", "fstat", "init", "unlock",
                      "open", "dumped"}]
  /\ v3 \in [Peers -> SUBSET {"idx", "dat"}]
  /\ v4 \in [Peers -> BOOLEAN]
  /\ v5 \in IndexFiles

\* From writew_lock to un_lock a process has the lock, and a file it found empty
\* has had no hash table since: who writes one, or a record, needs the lock.
TableLocked ==
  /\ \A p \in Peers :
       /\ v1[p] \in {"fstat", "init", "unlock"} => v6 = p
       /\ v1[p] = "init" /\ v4[p] => ~v5.table
  /\ v5.recs # {} => v5.table

\* The invariant of db_open.
DbOpenInv == DbOpenTypes /\ TableLocked /\ DbOpen!NoTableOverRecords /\ DbOpen!ClosedHasNone

\* The file does not exist and nobody has opened it.
LEMMA DbOpenStarts ==
  ASSUME DbOpen!Init
  PROVE DbOpenInv
<1> USE DEF DbOpen!Init, DbOpen!NoFile
<1>1. DbOpenTypes
  BY DEF DbOpenTypes, IndexFiles
<1>2. TableLocked
  BY DEF TableLocked
<1> QED
  BY <1>1, <1>2 DEF DbOpenInv, DbOpen!NoTableOverRecords, DbOpen!ClosedHasNone

\* Every call keeps it, also one that fails, and whoever makes the next.
LEMMA DbOpenMoves ==
  ASSUME DbOpenInv, NEW p \in Peers,
         \/ \E f \in Flags : DbOpen!db_open(p, f)
         \/ DbOpen!Open(p) \/ DbOpen!OpenFails(p) \/ DbOpen!Store(p) \/ DbOpen!db_close(p)
  PROVE DbOpenInv'
<1> USE DEF DbOpenInv
<1>0. "none" \notin Peers
  BY ProgramsAssumption DEF DbOpen!DbOpenAssumption, DbOpen!None
<1>12. [DbOpen!NoFile EXCEPT !.exists = TRUE] \in IndexFiles
      /\ [DbOpen!NoFile EXCEPT !.exists = TRUE].recs = {}
      /\ [DbOpen!NoFile EXCEPT !.exists = TRUE].lost = {}
      /\ [DbOpen!NoFile EXCEPT !.exists = TRUE].table = FALSE
  <2>1. DbOpen!NoFile \in IndexFiles /\ DbOpen!NoFile.recs = {} /\ DbOpen!NoFile.lost = {} /\ DbOpen!NoFile.table = FALSE
    BY DEF DbOpen!NoFile, IndexFiles
  <2> QED BY <2>1 DEF IndexFiles
<1>1. CASE (\E f \in Flags : DbOpen!db_open(p, f))
  <2> USE <1>1, <1>0, <1>12 DEF DbOpen!db_open, DbOpen!Go
  <2>1. DbOpenTypes'
    BY DEF DbOpenTypes, IndexFiles
  <2>2. TableLocked'
    BY DEF DbOpenTypes, IndexFiles, TableLocked
  <2>3. (DbOpen!NoTableOverRecords /\ DbOpen!ClosedHasNone)'
    BY DEF DbOpenTypes, IndexFiles, TableLocked, DbOpen!NoTableOverRecords, DbOpen!ClosedHasNone
  <2> QED BY <2>1, <2>2, <2>3
<1>2. CASE DbOpen!OpenIdx(p)
  <2> USE <1>2, <1>0, <1>12 DEF DbOpen!OpenIdx, DbOpen!Go
  <2>0. v5' \in IndexFiles
    <3>1. [v5 EXCEPT !.exists = TRUE] \in IndexFiles
      BY DEF DbOpenTypes, IndexFiles
    <3> QED BY <3>1 DEF DbOpenTypes
  <2>1. DbOpenTypes'
    BY <2>0 DEF DbOpenTypes
  <2>2. TableLocked'
    BY DEF DbOpenTypes, IndexFiles, TableLocked
  <2>3. (DbOpen!NoTableOverRecords /\ DbOpen!ClosedHasNone)'
    BY DEF DbOpenTypes, IndexFiles, TableLocked, DbOpen!NoTableOverRecords, DbOpen!ClosedHasNone
  <2> QED BY <2>1, <2>2, <2>3
<1>3. CASE DbOpen!OpenDat(p)
  <2> USE <1>3, <1>0, <1>12 DEF DbOpen!OpenDat, DbOpen!Go
  <2>1. DbOpenTypes'
    BY DEF DbOpenTypes, IndexFiles
  <2>2. TableLocked'
    BY DEF DbOpenTypes, IndexFiles, TableLocked
  <2>3. (DbOpen!NoTableOverRecords /\ DbOpen!ClosedHasNone)'
    BY DEF DbOpenTypes, IndexFiles, TableLocked, DbOpen!NoTableOverRecords, DbOpen!ClosedHasNone
  <2> QED BY <2>1, <2>2, <2>3
<1>4. CASE DbOpen!OpenFails(p)
  <2> USE <1>4, <1>0, <1>12 DEF DbOpen!OpenFails, DbOpen!Go
  <2>1. DbOpenTypes'
    BY DEF DbOpenTypes, IndexFiles
  <2>2. TableLocked'
    BY DEF DbOpenTypes, IndexFiles, TableLocked
  <2>3. (DbOpen!NoTableOverRecords /\ DbOpen!ClosedHasNone)'
    BY DEF DbOpenTypes, IndexFiles, TableLocked, DbOpen!NoTableOverRecords, DbOpen!ClosedHasNone
  <2> QED BY <2>1, <2>2, <2>3
<1>5. CASE DbOpen!Check(p)
  <2> USE <1>5, <1>0, <1>12 DEF DbOpen!Check, DbOpen!Go, DbOpen!_db_free
  <2>1. DbOpenTypes'
    BY DEF DbOpenTypes, IndexFiles
  <2>2. TableLocked'
    BY DEF DbOpenTypes, IndexFiles, TableLocked
  <2>3. (DbOpen!NoTableOverRecords /\ DbOpen!ClosedHasNone)'
    BY DEF DbOpenTypes, IndexFiles, TableLocked, DbOpen!NoTableOverRecords, DbOpen!ClosedHasNone
  <2> QED BY <2>1, <2>2, <2>3
<1>6. CASE DbOpen!Lock(p)
  <2> USE <1>6, <1>0, <1>12 DEF DbOpen!Lock, DbOpen!Go, DbOpen!None
  <2>1. DbOpenTypes'
    BY DEF DbOpenTypes, IndexFiles
  <2>2. TableLocked'
    BY DEF DbOpenTypes, IndexFiles, TableLocked
  <2>3. (DbOpen!NoTableOverRecords /\ DbOpen!ClosedHasNone)'
    BY DEF DbOpenTypes, IndexFiles, TableLocked, DbOpen!NoTableOverRecords, DbOpen!ClosedHasNone
  <2> QED BY <2>1, <2>2, <2>3
<1>7. CASE DbOpen!Fstat(p)
  <2> USE <1>7, <1>0, <1>12 DEF DbOpen!Fstat, DbOpen!Go
  <2>1. DbOpenTypes'
    BY DEF DbOpenTypes, IndexFiles
  <2>2. TableLocked'
    BY DEF DbOpenTypes, IndexFiles, TableLocked
  <2>3. (DbOpen!NoTableOverRecords /\ DbOpen!ClosedHasNone)'
    BY DEF DbOpenTypes, IndexFiles, TableLocked, DbOpen!NoTableOverRecords, DbOpen!ClosedHasNone
  <2> QED BY <2>1, <2>2, <2>3
<1>8. CASE DbOpen!InitTable(p)
  <2> USE <1>8, <1>0, <1>12 DEF DbOpen!InitTable, DbOpen!Go
  <2>1. DbOpenTypes'
    BY DEF DbOpenTypes, IndexFiles
  <2>2. TableLocked'
    BY DEF DbOpenTypes, IndexFiles, TableLocked
  <2>3. (DbOpen!NoTableOverRecords /\ DbOpen!ClosedHasNone)'
    BY DEF DbOpenTypes, IndexFiles, TableLocked, DbOpen!NoTableOverRecords, DbOpen!ClosedHasNone
  <2> QED BY <2>1, <2>2, <2>3
<1>9. CASE DbOpen!Unlock(p)
  <2> USE <1>9, <1>0, <1>12 DEF DbOpen!Unlock, DbOpen!Go
  <2>1. DbOpenTypes'
    BY DEF DbOpenTypes, IndexFiles
  <2>2. TableLocked'
    BY DEF DbOpenTypes, IndexFiles, TableLocked
  <2>3. (DbOpen!NoTableOverRecords /\ DbOpen!ClosedHasNone)'
    BY DEF DbOpenTypes, IndexFiles, TableLocked, DbOpen!NoTableOverRecords, DbOpen!ClosedHasNone
  <2> QED BY <2>1, <2>2, <2>3
<1>10. CASE DbOpen!Store(p)
  <2> USE <1>10, <1>0, <1>12 DEF DbOpen!Store, DbOpen!Go, DbOpen!None
  <2>1. DbOpenTypes'
    BY DEF DbOpenTypes, IndexFiles
  <2>2. TableLocked'
    BY DEF DbOpenTypes, IndexFiles, TableLocked
  <2>3. (DbOpen!NoTableOverRecords /\ DbOpen!ClosedHasNone)'
    BY DEF DbOpenTypes, IndexFiles, TableLocked, DbOpen!NoTableOverRecords, DbOpen!ClosedHasNone
  <2> QED BY <2>1, <2>2, <2>3
<1>11. CASE DbOpen!db_close(p)
  <2> USE <1>11, <1>0, <1>12 DEF DbOpen!db_close, DbOpen!Go, DbOpen!_db_free
  <2>1. DbOpenTypes'
    BY DEF DbOpenTypes, IndexFiles
  <2>2. TableLocked'
    BY DEF DbOpenTypes, IndexFiles, TableLocked
  <2>3. (DbOpen!NoTableOverRecords /\ DbOpen!ClosedHasNone)'
    BY DEF DbOpenTypes, IndexFiles, TableLocked, DbOpen!NoTableOverRecords, DbOpen!ClosedHasNone
  <2> QED BY <2>1, <2>2, <2>3
<1> QED BY <1>1, <1>2, <1>3, <1>4, <1>5, <1>6, <1>7, <1>8, <1>9, <1>10, <1>11 DEF DbOpen!Open

\* DbOpenInv is inductive.
LEMMA DbOpenKept ==
  ASSUME DbOpenInv, DbOpen!Next
  PROVE DbOpenInv'
BY DbOpenMoves DEF DbOpen!Next
-----------------------------------------------------------------------------
(* Threads: v1 prog, v2 pc, v3 st, v4 owner, v5 data, v6 spurious. *)
ThreadNames == {"main", "t1", "t2"}
MutexNames == {"lock1", "lock2"}
Owners == [by : ThreadNames \cup {"none"}, n : Int]
ThreadData ==
  [flag : BOOLEAN, pending : SUBSET {"INT", "QUIT"}, sent : SUBSET {"INT", "QUIT"},
   workq : Seq(Nat), taken : Seq(Nat), n : Nat, count : Int, arrived : SUBSET ThreadNames,
   serial : Nat, sorted : SUBSET ThreadNames, created : BOOLEAN,
   child : SUBSET [MutexNames -> Owners], bad : BOOLEAN]

\* How many calls each thread of a program makes, the last one included.
Calls(t) ==
  CASE v1 = "suspend" -> IF t = "main" THEN 5 ELSE IF t = "t1" THEN 6 ELSE 1
    [] v1 = "condvar" -> 5
    [] v1 = "barrier" -> 4
    [] v1 = "exercise_5" -> 7
    [] v1 = "timeout" -> IF t = "main" THEN 8 ELSE IF t = "t1" THEN 5 ELSE 1
    [] OTHER -> IF t = "main" THEN 6 ELSE IF t = "t1" THEN 5 ELSE 1

\* Each thread is at one of its calls, and running, waiting or just woken.
ThreadTypes ==
  /\ v1 \in {"suspend", "condvar", "barrier", "exercise_5", "timeout", "atfork", "figure_12_17"}
  /\ v2 \in [ThreadNames -> Nat] /\ \A t \in ThreadNames : v2[t] \in 1..Calls(t)
  /\ v3 \in [ThreadNames -> {"run", "waiting", "woken"}]
  /\ v4 \in [MutexNames -> Owners]
  /\ v5 \in ThreadData
  /\ v6 \in Nat

\* A thread at place k is about to make this call, on this mutex.
Does(t, k, op) == v2[t] = k => Threads!ins(t).op = op
On(t, k, op, m) == v2[t] = k => Threads!ins(t).op = op /\ Threads!ins(t).m = m

\* The calls of suspend.
LEMMA SuspendCalls ==
  ASSUME ThreadTypes, v1 = "suspend"
  PROVE /\ v2["main"] \in 1..5 /\ On("main", 1, "lock", "lock1")
        /\ Does("main", 2, "until_flag") /\ On("main", 3, "unlock", "lock1")
        /\ Does("main", 4, "clear") /\ Does("main", 5, "end")
        /\ v2["t1"] \in 1..6 /\ Does("t1", 1, "sigwait") /\ On("t1", 2, "lock", "lock1")
        /\ Does("t1", 3, "set") /\ On("t1", 4, "unlock", "lock1") /\ Does("t1", 5, "signal")
        /\ Does("t1", 6, "end")
        /\ v2["t2"] \in 1..1 /\ Does("t2", 1, "end")
<1>1. /\ v2["main"] \in 1..5 /\ On("main", 1, "lock", "lock1")
      /\ Does("main", 2, "until_flag") /\ On("main", 3, "unlock", "lock1")
      /\ Does("main", 4, "clear") /\ Does("main", 5, "end")
  BY DEF Threads!suspend_main, Threads!suspend_thr_fn, ThreadTypes, Calls, ThreadNames, Does, On, Threads!ins,
         Threads!Code, Threads!L, Threads!U, Threads!E, Threads!I, Threads!Lock, Threads!Unlock
<1>2. /\ v2["t1"] \in 1..6 /\ Does("t1", 1, "sigwait") /\ On("t1", 2, "lock", "lock1")
      /\ Does("t1", 3, "set") /\ On("t1", 4, "unlock", "lock1") /\ Does("t1", 5, "signal")
      /\ Does("t1", 6, "end")
  BY DEF Threads!suspend_main, Threads!suspend_thr_fn, ThreadTypes, Calls, ThreadNames, Does, On, Threads!ins,
         Threads!Code, Threads!L, Threads!U, Threads!E, Threads!I, Threads!Lock, Threads!Unlock
<1>3. /\ v2["t2"] \in 1..1 /\ Does("t2", 1, "end")
  BY DEF Threads!suspend_main, Threads!suspend_thr_fn, ThreadTypes, Calls, ThreadNames, Does, On, Threads!ins,
         Threads!Code, Threads!L, Threads!U, Threads!E, Threads!I, Threads!Lock, Threads!Unlock
<1> QED BY <1>1, <1>2, <1>3

\* The calls of condvar.
LEMMA CondvarCalls ==
  ASSUME ThreadTypes, v1 = "condvar"
  PROVE /\ v2["main"] \in 1..5 /\ On("main", 1, "lock", "lock1") /\ Does("main", 2, "push")
        /\ On("main", 3, "unlock", "lock1") /\ Does("main", 4, "signal")
        /\ Does("main", 5, "again")
        /\ \A t \in {"t1", "t2"} :
             /\ v2[t] \in 1..5 /\ On(t, 1, "lock", "lock1") /\ Does(t, 2, "until_workq")
             /\ Does(t, 3, "take") /\ On(t, 4, "unlock", "lock1") /\ Does(t, 5, "again")
<1>1. /\ v2["main"] \in 1..5 /\ On("main", 1, "lock", "lock1") /\ Does("main", 2, "push")
      /\ On("main", 3, "unlock", "lock1") /\ Does("main", 4, "signal")
      /\ Does("main", 5, "again")
  BY DEF Threads!enqueue_msg, Threads!process_msg, ThreadTypes, Calls, ThreadNames, Does, On, Threads!ins,
         Threads!Code, Threads!L, Threads!U, Threads!E, Threads!I, Threads!Lock, Threads!Unlock
<1>2. /\ \A t \in {"t1", "t2"} :
           /\ v2[t] \in 1..5 /\ On(t, 1, "lock", "lock1") /\ Does(t, 2, "until_workq")
           /\ Does(t, 3, "take") /\ On(t, 4, "unlock", "lock1") /\ Does(t, 5, "again")
  BY DEF Threads!enqueue_msg, Threads!process_msg, ThreadTypes, Calls, ThreadNames, Does, On, Threads!ins,
         Threads!Code, Threads!L, Threads!U, Threads!E, Threads!I, Threads!Lock, Threads!Unlock
<1> QED BY <1>1, <1>2

\* The calls of barrier.
LEMMA BarrierCalls ==
  ASSUME ThreadTypes, v1 = "barrier"
  PROVE /\ v2["main"] \in 1..4 /\ Does("main", 1, "arrive") /\ Does("main", 2, "pass")
        /\ Does("main", 3, "merge") /\ Does("main", 4, "end")
        /\ \A t \in {"t1", "t2"} :
             /\ v2[t] \in 1..4 /\ Does(t, 1, "sort") /\ Does(t, 2, "arrive") /\ Does(t, 3, "pass")
             /\ Does(t, 4, "end")
<1>1. /\ v2["main"] \in 1..4 /\ Does("main", 1, "arrive") /\ Does("main", 2, "pass")
      /\ Does("main", 3, "merge") /\ Does("main", 4, "end")
  BY DEF Threads!barrier_main, Threads!barrier_thr_fn, ThreadTypes, Calls, ThreadNames, Does, On, Threads!ins,
         Threads!Code, Threads!L, Threads!U, Threads!E, Threads!I, Threads!Lock, Threads!Unlock
<1>2. /\ \A t \in {"t1", "t2"} :
           /\ v2[t] \in 1..4 /\ Does(t, 1, "sort") /\ Does(t, 2, "arrive") /\ Does(t, 3, "pass")
           /\ Does(t, 4, "end")
  BY DEF Threads!barrier_main, Threads!barrier_thr_fn, ThreadTypes, Calls, ThreadNames, Does, On, Threads!ins,
         Threads!Code, Threads!L, Threads!U, Threads!E, Threads!I, Threads!Lock, Threads!Unlock
<1> QED BY <1>1, <1>2

\* The calls of exercise_5.
LEMMA MyBarrierCalls ==
  ASSUME ThreadTypes, v1 = "exercise_5"
  PROVE /\ \A t \in {"main", "t1", "t2"} :
             /\ v2[t] \in 1..7 /\ On(t, 1, "lock", "lock1") /\ Does(t, 2, "dec")
             /\ Does(t, 3, "once_count") /\ On(t, 4, "unlock", "lock1") /\ Does(t, 5, "broadcast")
             /\ Does(t, 6, "passed") /\ Does(t, 7, "end")
<1>1. /\ \A t \in {"main", "t1", "t2"} :
           /\ v2[t] \in 1..7 /\ On(t, 1, "lock", "lock1") /\ Does(t, 2, "dec")
           /\ Does(t, 3, "once_count") /\ On(t, 4, "unlock", "lock1") /\ Does(t, 5, "broadcast")
           /\ Does(t, 6, "passed") /\ Does(t, 7, "end")
  BY DEF Threads!my_barrier_wait, ThreadTypes, Calls, ThreadNames, Does, On, Threads!ins,
         Threads!Code, Threads!L, Threads!U, Threads!E, Threads!I, Threads!Lock, Threads!Unlock
<1> QED BY <1>1

\* The calls of timeout.
LEMMA TimeoutCalls ==
  ASSUME ThreadTypes, v1 = "timeout"
  PROVE /\ v2["main"] \in 1..8 /\ On("main", 1, "lock", "lock1")
        /\ Does("main", 2, "timeout") /\ On("main", 3, "unlock", "lock1")
        /\ Does("main", 4, "end") /\ On("main", 5, "lock", "lock1")
        /\ Does("main", 6, "retry") /\ On("main", 7, "unlock", "lock1")
        /\ Does("main", 8, "return")
        /\ v2["t1"] \in 1..5 /\ Does("t1", 1, "created") /\ On("t1", 2, "lock", "lock1")
        /\ Does("t1", 3, "retry") /\ On("t1", 4, "unlock", "lock1") /\ Does("t1", 5, "end")
        /\ v2["t2"] \in 1..1 /\ Does("t2", 1, "end")
<1>1. /\ v2["main"] \in 1..8 /\ On("main", 1, "lock", "lock1")
      /\ Does("main", 2, "timeout") /\ On("main", 3, "unlock", "lock1")
      /\ Does("main", 4, "end") /\ On("main", 5, "lock", "lock1")
      /\ Does("main", 6, "retry") /\ On("main", 7, "unlock", "lock1")
      /\ Does("main", 8, "return")
  BY DEF Threads!timeout_main, Threads!timeout_helper, ThreadTypes, Calls, ThreadNames, Does, On, Threads!ins,
         Threads!Code, Threads!L, Threads!U, Threads!E, Threads!I, Threads!Lock, Threads!Unlock
<1>2. /\ v2["t1"] \in 1..5 /\ Does("t1", 1, "created") /\ On("t1", 2, "lock", "lock1")
      /\ Does("t1", 3, "retry") /\ On("t1", 4, "unlock", "lock1") /\ Does("t1", 5, "end")
  BY DEF Threads!timeout_main, Threads!timeout_helper, ThreadTypes, Calls, ThreadNames, Does, On, Threads!ins,
         Threads!Code, Threads!L, Threads!U, Threads!E, Threads!I, Threads!Lock, Threads!Unlock
<1>3. /\ v2["t2"] \in 1..1 /\ Does("t2", 1, "end")
  BY DEF Threads!timeout_main, Threads!timeout_helper, ThreadTypes, Calls, ThreadNames, Does, On, Threads!ins,
         Threads!Code, Threads!L, Threads!U, Threads!E, Threads!I, Threads!Lock, Threads!Unlock
<1> QED BY <1>1, <1>2, <1>3

\* The calls of atfork.
LEMMA AtforkCalls ==
  ASSUME ThreadTypes, v1 = "atfork"
  PROVE /\ v2["main"] \in 1..6 /\ On("main", 1, "lock", "lock1")
        /\ On("main", 2, "lock", "lock2") /\ Does("main", 3, "fork")
        /\ On("main", 4, "unlock", "lock1") /\ On("main", 5, "unlock", "lock2")
        /\ Does("main", 6, "end")
        /\ v2["t1"] \in 1..5 /\ On("t1", 1, "lock", "lock1") /\ On("t1", 2, "lock", "lock2")
        /\ On("t1", 3, "unlock", "lock1") /\ On("t1", 4, "unlock", "lock2")
        /\ Does("t1", 5, "end")
        /\ v2["t2"] \in 1..1 /\ Does("t2", 1, "end")
<1>1. /\ v2["main"] \in 1..6 /\ On("main", 1, "lock", "lock1")
      /\ On("main", 2, "lock", "lock2") /\ Does("main", 3, "fork")
      /\ On("main", 4, "unlock", "lock1") /\ On("main", 5, "unlock", "lock2")
      /\ Does("main", 6, "end")
  BY DEF Threads!atfork_main, Threads!prepare, Threads!parent, Threads!locker, ThreadTypes, Calls, ThreadNames, Does, On, Threads!ins,
         Threads!Code, Threads!L, Threads!U, Threads!E, Threads!I, Threads!Lock, Threads!Unlock
<1>2. /\ v2["t1"] \in 1..5 /\ On("t1", 1, "lock", "lock1") /\ On("t1", 2, "lock", "lock2")
      /\ On("t1", 3, "unlock", "lock1") /\ On("t1", 4, "unlock", "lock2")
      /\ Does("t1", 5, "end")
  BY DEF Threads!atfork_main, Threads!prepare, Threads!parent, Threads!locker, ThreadTypes, Calls, ThreadNames, Does, On, Threads!ins,
         Threads!Code, Threads!L, Threads!U, Threads!E, Threads!I, Threads!Lock, Threads!Unlock
<1>3. /\ v2["t2"] \in 1..1 /\ Does("t2", 1, "end")
  BY DEF Threads!atfork_main, Threads!prepare, Threads!parent, Threads!locker, ThreadTypes, Calls, ThreadNames, Does, On, Threads!ins,
         Threads!Code, Threads!L, Threads!U, Threads!E, Threads!I, Threads!Lock, Threads!Unlock
<1> QED BY <1>1, <1>2, <1>3

\* The calls of figure_12_17.
LEMMA Figure1217Calls ==
  ASSUME ThreadTypes, v1 = "figure_12_17"
  PROVE /\ v2["main"] \in 1..6 /\ On("main", 1, "lock", "lock1")
        /\ On("main", 2, "lock", "lock2") /\ Does("main", 3, "fork")
        /\ On("main", 4, "unlock", "lock1") /\ On("main", 5, "unlock", "lock2")
        /\ Does("main", 6, "end")
        /\ v2["t1"] \in 1..5 /\ On("t1", 1, "lock", "lock1") /\ On("t1", 2, "lock", "lock2")
        /\ On("t1", 3, "unlock", "lock1") /\ On("t1", 4, "unlock", "lock2")
        /\ Does("t1", 5, "end")
        /\ v2["t2"] \in 1..1 /\ Does("t2", 1, "end")
<1>1. /\ v2["main"] \in 1..6 /\ On("main", 1, "lock", "lock1")
      /\ On("main", 2, "lock", "lock2") /\ Does("main", 3, "fork")
      /\ On("main", 4, "unlock", "lock1") /\ On("main", 5, "unlock", "lock2")
      /\ Does("main", 6, "end")
  BY DEF Threads!figure_12_17, Threads!locker, ThreadTypes, Calls, ThreadNames, Does, On, Threads!ins,
         Threads!Code, Threads!L, Threads!U, Threads!E, Threads!I, Threads!Lock, Threads!Unlock
<1>2. /\ v2["t1"] \in 1..5 /\ On("t1", 1, "lock", "lock1") /\ On("t1", 2, "lock", "lock2")
      /\ On("t1", 3, "unlock", "lock1") /\ On("t1", 4, "unlock", "lock2")
      /\ Does("t1", 5, "end")
  BY DEF Threads!figure_12_17, Threads!locker, ThreadTypes, Calls, ThreadNames, Does, On, Threads!ins,
         Threads!Code, Threads!L, Threads!U, Threads!E, Threads!I, Threads!Lock, Threads!Unlock
<1>3. /\ v2["t2"] \in 1..1 /\ Does("t2", 1, "end")
  BY DEF Threads!figure_12_17, Threads!locker, ThreadTypes, Calls, ThreadNames, Does, On, Threads!ins,
         Threads!Code, Threads!L, Threads!U, Threads!E, Threads!I, Threads!Lock, Threads!Unlock
<1> QED BY <1>1, <1>2, <1>3

\* Which calls name a mutex, whatever the program.
LEMMA MutexOfCall ==
  ASSUME ThreadTypes, NEW t \in ThreadNames, Threads!ins(t).op \in {"lock", "unlock"}
  PROVE Threads!ins(t).m \in MutexNames
<1> USE DEF ThreadNames, MutexNames, Does, On
<1>1. CASE v1 = "suspend"
  BY <1>1, SuspendCalls
<1>2. CASE v1 = "condvar"
  BY <1>2, CondvarCalls
<1>3. CASE v1 = "barrier"
  BY <1>3, BarrierCalls
<1>4. CASE v1 = "exercise_5"
  BY <1>4, MyBarrierCalls
<1>5. CASE v1 = "timeout"
  BY <1>5, TimeoutCalls
<1>6. CASE v1 = "atfork"
  BY <1>6, AtforkCalls
<1>7. CASE v1 = "figure_12_17"
  BY <1>7, Figure1217Calls
<1> QED BY <1>1, <1>2, <1>3, <1>4, <1>5, <1>6, <1>7 DEF ThreadTypes

\* The shared data with some of its fields changed.
LEMMA ThreadDataSet ==
  ASSUME NEW d \in ThreadData
  PROVE /\ \A b \in BOOLEAN : /\ [d EXCEPT !.flag = b] \in ThreadData
                              /\ [d EXCEPT !.bad = b] \in ThreadData
                              /\ [d EXCEPT !.created = b] \in ThreadData
        /\ \A k \in Nat : [d EXCEPT !.n = k] \in ThreadData
        /\ \A q \in Seq(Nat), k \in Nat : [d EXCEPT !.workq = q, !.n = k] \in ThreadData
        /\ \A q, u \in Seq(Nat) : [d EXCEPT !.workq = q, !.taken = u] \in ThreadData
        /\ \A c \in Int, A \in SUBSET ThreadNames, k \in Nat :
             [d EXCEPT !.count = c, !.arrived = A, !.serial = k] \in ThreadData
        /\ \A A \in SUBSET ThreadNames : /\ [d EXCEPT !.arrived = A] \in ThreadData
                                         /\ [d EXCEPT !.sorted = A] \in ThreadData
        /\ \A P, S \in SUBSET {"INT", "QUIT"} : /\ [d EXCEPT !.pending = P] \in ThreadData
                                                /\ [d EXCEPT !.pending = P, !.sent = S] \in ThreadData
        /\ \A C \in SUBSET [MutexNames -> Owners] : [d EXCEPT !.child = C] \in ThreadData
BY DEF ThreadData

\* The types of everything but the place in the code, for a step of any thread.
LEMMA ThreadStepTypes ==
  ASSUME ThreadTypes, NEW t \in ThreadNames, Threads!Thread(t)
  PROVE /\ v1' = v1 /\ v6' = v6
        /\ v2' \in [ThreadNames -> Nat]
        /\ \A w \in ThreadNames : w # t => v2'[w] = v2[w]
        /\ v3' \in [ThreadNames -> {"run", "waiting", "woken"}]
        /\ v4' \in [MutexNames -> Owners]
        /\ v5' \in ThreadData
<1> USE DEF ThreadTypes, ThreadNames, MutexNames, Threads!Step, Threads!Go, Threads!At
<1>0. \A m \in MutexNames : Threads!Released(m) \in [MutexNames -> Owners]
  <2> TAKE m \in MutexNames
  <2>1. (IF v4[m].n = 1 THEN Threads!Free ELSE [by |-> v4[m].by, n |-> v4[m].n - 1]) \in Owners
    <3>0. v4[m] \in Owners
      OBVIOUS
    <3>1. CASE v4[m].n = 1
      BY <3>1 DEF Threads!Free, Owners
    <3>2. CASE v4[m].n # 1
      BY <3>0, <3>2 DEF Owners
    <3> QED BY <3>1, <3>2
  <2>2. PICK o \in Owners : o = IF v4[m].n = 1 THEN Threads!Free ELSE [by |-> v4[m].by, n |-> v4[m].n - 1]
    BY <2>1
  <2>3. Threads!Released(m) = [v4 EXCEPT ![m] = o]
    BY <2>2 DEF Threads!Released
  <2> QED BY <2>3
<1>1. CASE Threads!lock(t)
  <2>1. Threads!ins(t).m \in MutexNames
    BY <1>1, MutexOfCall DEF Threads!lock
  <2> QED BY <1>1, <2>1 DEF Threads!lock, Owners
<1>2. CASE Threads!unlock(t)
  <2>1. Threads!ins(t).m \in MutexNames
    BY <1>2, MutexOfCall DEF Threads!unlock
  <2> QED BY <1>2, <2>1, <1>0 DEF Threads!unlock
<1>3. CASE Threads!cond_wait(t)
  BY <1>3, <1>0 DEF Threads!cond_wait
<1>4. CASE Threads!relock(t)
  BY <1>4 DEF Threads!relock, Owners
<1>5. CASE Threads!signal(t)
  BY <1>5 DEF Threads!signal, Threads!Waiters, Threads!T
<1>6. CASE Threads!broadcast(t)
  BY <1>6 DEF Threads!broadcast, Threads!T
<1>7. CASE Threads!Compute(t)
  <2>1. v5' \in ThreadData
    <3>0. /\ v5.n \in Nat /\ v5.count \in Int /\ v5.serial \in Nat /\ v5.workq \in Seq(Nat)
          /\ v5.taken \in Seq(Nat) /\ v5.arrived \in SUBSET ThreadNames
          /\ v5.sorted \in SUBSET ThreadNames /\ v5.bad \in BOOLEAN /\ v5 \in ThreadData
      BY DEF ThreadData
    <3> HIDE DEF ThreadTypes, ThreadNames, MutexNames, Threads!At
    <3>1. PICK k, l : k = v5.n + 1 /\ l = v5.serial + 1 /\ {k, l} \subseteq Nat
      BY <3>0
    <3>2. <<v5.n + 1>> \o v5.workq \in Seq(Nat)
      BY <3>0
    <3>3. PICK c : c = v5.count - 1 /\ c \in Int
      BY <3>0
    <3>4. v5.workq # <<>> => Tail(v5.workq) \in Seq(Nat) /\ Append(v5.taken, Head(v5.workq)) \in Seq(Nat)
      BY <3>0
    <3>5. v5.arrived \cup {t} \in SUBSET ThreadNames /\ v5.sorted \cup {t} \in SUBSET ThreadNames
      BY <3>0
    <3>11. [v5 EXCEPT !.flag = TRUE] \in ThreadData /\ [v5 EXCEPT !.flag = FALSE] \in ThreadData
      BY <3>0, ThreadDataSet
    <3>12. [v5 EXCEPT !.workq = <<v5.n + 1>> \o @, !.n = @ + 1] \in ThreadData
      BY <3>0, <3>1, <3>2, ThreadDataSet
    <3>13. [v5 EXCEPT !.bad = TRUE] \in ThreadData
      BY <3>0, ThreadDataSet
    <3>14. v5.workq # <<>> => [v5 EXCEPT !.workq = Tail(@), !.taken = Append(@, Head(v5.workq))] \in ThreadData
      BY <3>0, <3>4, ThreadDataSet
    <3>15. [v5 EXCEPT !.count = @ - 1, !.arrived = @ \cup {t},
                      !.serial = IF v5.count = 1 THEN @ + 1 ELSE @] \in ThreadData
      BY <3>0, <3>1, <3>3, <3>5, ThreadDataSet
    <3>16. [v5 EXCEPT !.arrived = @ \cup {t}] \in ThreadData
      BY <3>0, <3>5, ThreadDataSet
    <3>17. [v5 EXCEPT !.sorted = @ \cup {t}] \in ThreadData
      BY <3>0, <3>5, ThreadDataSet
    <3>18. [v5 EXCEPT !.bad = v5.sorted # {"t1", "t2"}] \in ThreadData
      BY <3>0, ThreadDataSet
    <3>19. [v5 EXCEPT !.bad = @ \/ v5.arrived # Threads!T] \in ThreadData
      BY <3>0, ThreadDataSet
    <3>20. [v5 EXCEPT !.n = @ + 1] \in ThreadData
      BY <3>0, <3>1, ThreadDataSet
    <3>21. Threads!ins(t).op \in {"set", "clear", "take", "push", "dec", "sort", "arrive", "merge", "passed", "retry"}
      BY <1>7 DEF Threads!Compute, Threads!At
    <3>22. CASE Threads!ins(t).op = "set"
      BY <1>7, <3>22, <3>11 DEF Threads!Compute
    <3>23. CASE Threads!ins(t).op = "clear"
      BY <1>7, <3>23, <3>11 DEF Threads!Compute
    <3>24. CASE Threads!ins(t).op = "push"
      BY <1>7, <3>24, <3>12 DEF Threads!Compute
    <3>25. CASE Threads!ins(t).op = "take"
      <4>1. CASE v5.workq = <<>>
        BY <1>7, <3>25, <3>13, <4>1 DEF Threads!Compute
      <4>2. CASE v5.workq # <<>>
        BY <1>7, <3>25, <3>14, <4>2 DEF Threads!Compute
      <4> QED BY <4>1, <4>2
    <3>26. CASE Threads!ins(t).op = "dec"
      BY <1>7, <3>26, <3>15 DEF Threads!Compute
    <3>27. CASE Threads!ins(t).op = "arrive"
      BY <1>7, <3>27, <3>16 DEF Threads!Compute
    <3>28. CASE Threads!ins(t).op = "sort"
      BY <1>7, <3>28, <3>17 DEF Threads!Compute
    <3>29. CASE Threads!ins(t).op = "merge"
      BY <1>7, <3>29, <3>18 DEF Threads!Compute
    <3>30. CASE Threads!ins(t).op = "passed"
      BY <1>7, <3>30, <3>19 DEF Threads!Compute
    <3>31. CASE Threads!ins(t).op = "retry"
      BY <1>7, <3>31, <3>20 DEF Threads!Compute
    <3> QED BY <3>21, <3>22, <3>23, <3>24, <3>25, <3>26, <3>27, <3>28, <3>29, <3>30, <3>31
  <2> QED BY <1>7, <2>1 DEF Threads!Compute
<1>8. CASE Threads!pass(t)
  BY <1>8 DEF Threads!pass
<1>9. CASE Threads!sigwait(t)
  <2>1. PICK s \in v5.pending : v5' = [v5 EXCEPT !.pending = @ \ {s}]
    BY <1>9 DEF Threads!sigwait
  <2>2. v5 \in ThreadData /\ v5.pending \ {s} \in SUBSET {"INT", "QUIT"}
    BY DEF ThreadData
  <2>3. v5' \in ThreadData
    BY <2>1, <2>2, ThreadDataSet
  <2> QED BY <1>9, <2>3 DEF Threads!sigwait
<1>10. CASE Threads!Again(t)
  BY <1>10 DEF Threads!Again
<1>11. CASE Threads!timeout(t)
  <2>1. [v5 EXCEPT !.created = TRUE] \in ThreadData
    BY ThreadDataSet
  <2>2. v5' \in ThreadData
    BY <1>11, <2>1 DEF Threads!timeout
  <2>3. v2' \in [ThreadNames -> Nat] /\ \A w \in ThreadNames : w # t => v2'[w] = v2[w]
    BY <1>11 DEF Threads!timeout
  <2> QED BY <1>11, <2>2, <2>3 DEF Threads!timeout
<1>12. CASE Threads!Control(t)
  BY <1>12 DEF Threads!Control
<1>13. CASE Threads!fork(t)
  <2>1. Threads!child_fn(v4) \in [MutexNames -> Owners]
    BY DEF Threads!child_fn, Threads!Mutexes, Threads!Free, Owners
  <2>2. [v5 EXCEPT !.child = {Threads!child_fn(v4)}] \in ThreadData
    BY <2>1, ThreadDataSet
  <2> QED BY <1>13, <2>2 DEF Threads!fork
<1> QED BY <1>1, <1>2, <1>3, <1>4, <1>5, <1>6, <1>7, <1>8, <1>9, <1>10, <1>11, <1>12, <1>13 DEF Threads!Thread

\* condvar.c: who is between lock and unlock has the mutex, also after
\* pthread_cond_wait; past the loop there is a message; and the messages in the
\* queue and the messages taken are all different.
CondvarLocks ==
  /\ \A t \in ThreadNames :
       /\ v3[t] # "run" => t # "main" /\ v2[t] = 2
       /\ v3[t] = "run" /\ v2[t] \in 2..(IF t = "main" THEN 3 ELSE 4) => v4["lock1"] = [by |-> t, n |-> 1]
  /\ \A t \in {"t1", "t2"} : v2[t] = 3 => v5.workq # <<>>

\* Every number is on the queue or taken once at most, and none is ahead of the last.
Messages ==
  /\ \A i \in 1..Len(v5.workq) : v5.workq[i] <= v5.n
  /\ \A i \in 1..Len(v5.taken) : v5.taken[i] <= v5.n
  /\ \A i, j \in 1..Len(v5.workq) : v5.workq[i] = v5.workq[j] => i = j
  /\ \A i, j \in 1..Len(v5.taken) : v5.taken[i] = v5.taken[j] => i = j
  /\ \A i \in 1..Len(v5.workq), j \in 1..Len(v5.taken) : v5.workq[i] # v5.taken[j]

\* The invariant of condvar.c.
CondvarInv == CondvarLocks /\ Messages /\ ~v5.bad /\ v5.child = {}

\* A step of condvar.c.
LEMMA CondvarKept ==
  ASSUME ThreadTypes, CondvarInv, v1 = "condvar", NEW t \in ThreadNames, Threads!Thread(t)
  PROVE CondvarInv' /\ v2'[t] \in 1..5
<1>0. /\ v2 \in [ThreadNames -> Nat] /\ v3 \in [ThreadNames -> {"run", "waiting", "woken"}]
      /\ v4 \in [MutexNames -> Owners] /\ v5 \in ThreadData
  BY DEF ThreadTypes
<1>1. CASE Threads!lock(t)
  <2>1. v2[t] = 1 /\ v3[t] = "run" /\ Threads!ins(t).m = "lock1"
    BY <1>1, CondvarCalls DEF Threads!lock, Threads!At, Does, On, ThreadNames
  <2>2. /\ v4["lock1"] = [by |-> "none", n |-> 0]
        /\ v4' = [v4 EXCEPT !["lock1"] = [by |-> t, n |-> 1]]
        /\ v2' = [v2 EXCEPT ![t] = 2] /\ v3' = v3 /\ v5' = v5
    <3>1. v4["lock1"] = [by |-> "none", n |-> 0]
      BY <1>1, <2>1 DEF Threads!lock, Threads!MayLock, Threads!Free
    <3>2. v4["lock1"].n + 1 = 1
      BY <3>1
    <3> QED BY <1>1, <2>1, <1>0, <3>1, <3>2 DEF Threads!lock, Threads!Step, Threads!Go
  <2>8. CondvarLocks'
    BY <1>0, <2>1, <2>2 DEF CondvarInv, CondvarLocks, ThreadNames, MutexNames
  <2>9. Messages'
    BY <1>0, <2>1, <2>2 DEF CondvarInv, Messages
  <2> QED BY <1>0, <2>1, <2>2, <2>8, <2>9 DEF CondvarInv, ThreadNames
<1>2. CASE Threads!unlock(t)
  <2>1. v2[t] = (IF t = "main" THEN 3 ELSE 4) /\ v3[t] = "run" /\ Threads!ins(t).m = "lock1"
    BY <1>2, CondvarCalls DEF Threads!unlock, Threads!At, Does, On, ThreadNames
  <2>2. /\ v4["lock1"] = [by |-> t, n |-> 1]
        /\ v2' = [v2 EXCEPT ![t] = @ + 1] /\ v3' = v3 /\ v5' = v5
    BY <1>2, <2>1, <1>0 DEF Threads!unlock, Threads!Step, Threads!Go, CondvarInv, CondvarLocks
  <2>8. CondvarLocks'
    BY <1>0, <2>1, <2>2 DEF CondvarInv, CondvarLocks, ThreadNames
  <2>9. Messages'
    BY <1>0, <2>1, <2>2 DEF CondvarInv, Messages
  <2> QED BY <1>0, <2>1, <2>2, <2>8, <2>9 DEF CondvarInv, ThreadNames
<1>3. CASE Threads!cond_wait(t)
  <2>1. v2[t] = 2 /\ t # "main" /\ v3[t] = "run" /\ Threads!ins(t).op = "until_workq"
    BY <1>3, CondvarCalls DEF Threads!cond_wait, Threads!At, Does, On, ThreadNames
  <2>2. CASE v5.workq # <<>>
    <3>1. v2' = [v2 EXCEPT ![t] = 3] /\ v3' = v3 /\ v4' = v4 /\ v5' = v5
      BY <1>3, <2>1, <2>2, <1>0 DEF Threads!cond_wait, Threads!Holds, Threads!Step, Threads!Go
    <3>8. CondvarLocks'
      BY <1>0, <2>1, <2>2, <3>1 DEF CondvarInv, CondvarLocks, ThreadNames
    <3>9. Messages'
      BY <1>0, <2>1, <2>2, <3>1 DEF CondvarInv, Messages
    <3> QED BY <1>0, <2>1, <2>2, <3>1, <3>8, <3>9 DEF CondvarInv, ThreadNames
  <2>3. CASE v5.workq = <<>>
    <3>1. v2' = v2 /\ v3' = [v3 EXCEPT ![t] = "waiting"] /\ v5' = v5
      BY <1>3, <2>1, <2>3, <1>0 DEF Threads!cond_wait, Threads!Holds
    <3>2. v4["lock1"] = [by |-> t, n |-> 1]
      BY <2>1 DEF CondvarInv, CondvarLocks
    <3>8. CondvarLocks'
      BY <1>0, <2>1, <2>3, <3>1, <3>2 DEF CondvarInv, CondvarLocks, ThreadNames
    <3>9. Messages'
      BY <1>0, <2>1, <2>3, <3>1, <3>2 DEF CondvarInv, Messages
    <3> QED BY <1>0, <2>1, <2>3, <3>1, <3>2, <3>8, <3>9 DEF CondvarInv, ThreadNames
  <2> QED BY <2>2, <2>3
<1>4. CASE Threads!relock(t)
  <2>1. v2[t] = 2 /\ t # "main" /\ Threads!ins(t).op = "until_workq"
    BY <1>4, CondvarCalls DEF Threads!relock, Does, On, ThreadNames, CondvarInv, CondvarLocks
  <2>2. /\ v4["lock1"] = [by |-> "none", n |-> 0] /\ v4' = [v4 EXCEPT !["lock1"] = [by |-> t, n |-> 1]]
        /\ v2' = v2 /\ v3' = [v3 EXCEPT ![t] = "run"] /\ v5' = v5
    BY <1>4, <2>1, <1>0 DEF Threads!relock, Threads!Free
  <2>8. CondvarLocks'
    BY <1>0, <2>1, <2>2 DEF CondvarInv, CondvarLocks, ThreadNames, MutexNames
  <2>9. Messages'
    BY <1>0, <2>1, <2>2 DEF CondvarInv, Messages
  <2> QED BY <1>0, <2>1, <2>2, <2>8, <2>9 DEF CondvarInv, ThreadNames
<1>5. CASE Threads!signal(t)
  <2>1. v2[t] = 4 /\ t = "main" /\ v3[t] = "run"
    BY <1>5, CondvarCalls DEF Threads!signal, Threads!At, Does, On, ThreadNames
  <2>2. /\ v2' = [v2 EXCEPT ![t] = 5] /\ v4' = v4 /\ v5' = v5
        /\ v3' = v3 \/ \E w \in ThreadNames : v3[w] = "waiting" /\ v3' = [v3 EXCEPT ![w] = "woken"]
    BY <1>5, <2>1, <1>0 DEF Threads!signal, Threads!Waiters, Threads!T, Threads!Step, Threads!Go, ThreadNames
  <2>8. CondvarLocks'
    BY <1>0, <2>1, <2>2 DEF CondvarInv, CondvarLocks, ThreadNames
  <2>9. Messages'
    BY <1>0, <2>1, <2>2 DEF CondvarInv, Messages
  <2> QED BY <1>0, <2>1, <2>2, <2>8, <2>9 DEF CondvarInv, ThreadNames
<1>6. CASE Threads!Compute(t)
  <2>1. \/ v2[t] = 2 /\ t = "main" /\ v3[t] = "run" /\ Threads!ins(t).op = "push"
        \/ v2[t] = 3 /\ t # "main" /\ v3[t] = "run" /\ Threads!ins(t).op = "take"
    BY <1>6, CondvarCalls DEF Threads!Compute, Threads!At, Does, On, ThreadNames
  <2>2. v2' = [v2 EXCEPT ![t] = @ + 1] /\ v3' = v3 /\ v4' = v4
    BY <1>6 DEF Threads!Compute, Threads!Step, Threads!Go
  <2>3. v4["lock1"] = [by |-> t, n |-> 1]
    BY <2>1 DEF CondvarInv, CondvarLocks
  <2>4. CASE Threads!ins(t).op = "push"
    <3>1. v5' = [v5 EXCEPT !.workq = <<v5.n + 1>> \o @, !.n = @ + 1]
      BY <1>6, <2>4 DEF Threads!Compute
    <3>2. /\ v5.n \in Nat /\ v5.workq \in Seq(Nat) /\ v5.taken \in Seq(Nat)
          /\ v5'.workq = <<v5.n + 1>> \o v5.workq /\ v5'.n = v5.n + 1
          /\ v5'.taken = v5.taken /\ v5'.bad = v5.bad /\ v5'.child = v5.child
      BY <3>1, <1>0 DEF ThreadData
    <3>3. /\ Len(v5'.workq) = Len(v5.workq) + 1 /\ v5'.workq[1] = v5.n + 1 /\ v5'.workq # <<>>
          /\ \A i \in 2..Len(v5'.workq) : v5'.workq[i] = v5.workq[i - 1] /\ i - 1 \in 1..Len(v5.workq)
      BY <3>2
    <3>4. Messages'
      <4>0. /\ v5.n \in Nat /\ v5'.n = v5.n + 1 /\ v5'.taken = v5.taken
            /\ \A k \in 1..Len(v5.workq) : v5.workq[k] \in Nat
            /\ \A k \in 1..Len(v5.taken) : v5.taken[k] \in Nat
        BY <3>2
      <4>1. \A i \in 1..Len(v5'.workq) : \/ i = 1 /\ v5'.workq[i] = v5.n + 1
                                        \/ \E k \in 1..Len(v5.workq) : i = k + 1 /\ v5'.workq[i] = v5.workq[k]
        <5> TAKE i \in 1..Len(v5'.workq)
        <5>1. CASE i = 1
          BY <5>1, <3>3
        <5>2. CASE i # 1
          <6>1. PICK k : k = i - 1
            OBVIOUS
          <6> QED BY <5>2, <6>1, <3>2, <3>3
        <5> QED BY <5>1, <5>2
      <4>2. /\ \A i \in 1..Len(v5.workq) : v5.workq[i] <= v5.n
            /\ \A i \in 1..Len(v5.taken) : v5.taken[i] <= v5.n
            /\ \A i, j \in 1..Len(v5.workq) : v5.workq[i] = v5.workq[j] => i = j
            /\ \A i, j \in 1..Len(v5.taken) : v5.taken[i] = v5.taken[j] => i = j
            /\ \A i \in 1..Len(v5.workq), j \in 1..Len(v5.taken) : v5.workq[i] # v5.taken[j]
        BY DEF CondvarInv, Messages
      <4>3. \A i \in 1..Len(v5'.workq) : v5'.workq[i] <= v5'.n
        <5> TAKE i \in 1..Len(v5'.workq)
        <5>1. CASE v5'.workq[i] = v5.n + 1
          BY <5>1, <4>0
        <5>2. CASE v5'.workq[i] # v5.n + 1
          <6>1. PICK k \in 1..Len(v5.workq) : v5'.workq[i] = v5.workq[k]
            BY <5>2, <4>1
          <6>2. v5.workq[k] <= v5.n /\ v5.workq[k] \in Nat
            BY <4>0, <4>2
          <6> QED BY <6>1, <6>2, <4>0
        <5> QED BY <5>1, <5>2
      <4>4. \A i \in 1..Len(v5'.taken) : v5'.taken[i] <= v5'.n
        BY <4>0, <4>2
      <4>5. \A i, j \in 1..Len(v5'.workq) : v5'.workq[i] = v5'.workq[j] => i = j
        <5> TAKE i, j \in 1..Len(v5'.workq)
        <5>1. CASE i = 1 \/ j = 1
          BY <5>1, <4>0, <4>1, <4>2
        <5>2. CASE i # 1 /\ j # 1
          <6>1. PICK k, l \in 1..Len(v5.workq) : /\ i = k + 1 /\ v5'.workq[i] = v5.workq[k]
                                                /\ j = l + 1 /\ v5'.workq[j] = v5.workq[l]
            BY <5>2, <4>1
          <6> QED BY <6>1, <4>2
        <5> QED BY <5>1, <5>2
      <4>6. \A i \in 1..Len(v5'.workq), j \in 1..Len(v5'.taken) : v5'.workq[i] # v5'.taken[j]
        BY <4>0, <4>1, <4>2
      <4> QED BY <4>0, <4>2, <4>3, <4>4, <4>5, <4>6 DEF Messages
    <3>5. CondvarLocks'
      BY <1>0, <2>1, <2>2, <2>3, <2>4, <3>3 DEF CondvarInv, CondvarLocks, ThreadNames
    <3> QED BY <1>0, <2>1, <2>2, <3>2, <3>4, <3>5 DEF CondvarInv, ThreadNames
  <2>5. CASE Threads!ins(t).op = "take"
    <3>0. v5.workq # <<>>
      BY <2>1, <2>5 DEF CondvarInv, CondvarLocks, ThreadNames
    <3>1. v5' = [v5 EXCEPT !.workq = Tail(@), !.taken = Append(@, Head(v5.workq))]
      BY <1>6, <2>5, <3>0 DEF Threads!Compute
    <3>2. /\ v5.n \in Nat /\ v5.workq \in Seq(Nat) /\ v5.taken \in Seq(Nat)
          /\ v5'.workq = Tail(v5.workq) /\ v5'.n = v5.n
          /\ v5'.taken = Append(v5.taken, Head(v5.workq)) /\ v5'.bad = v5.bad /\ v5'.child = v5.child
      BY <3>1, <1>0 DEF ThreadData
    <3>3. /\ Len(v5'.workq) = Len(v5.workq) - 1
          /\ \A i \in 1..Len(v5'.workq) : v5'.workq[i] = v5.workq[i + 1] /\ i + 1 \in 2..Len(v5.workq)
          /\ Len(v5'.taken) = Len(v5.taken) + 1 /\ v5'.taken[Len(v5.taken) + 1] = v5.workq[1]
          /\ \A i \in 1..Len(v5.taken) : v5'.taken[i] = v5.taken[i]
          /\ 1 \in 1..Len(v5.workq) /\ Len(v5.taken) \in Nat
      BY <3>0, <3>2
    <3>4. Messages'
      <4> USE <3>2, <3>3 DEF CondvarInv, Messages
      <4>1. \A i \in 1..Len(v5'.workq) : v5'.workq[i] <= v5'.n
        OBVIOUS
      <4>2. \A i \in 1..Len(v5'.taken) : v5'.taken[i] <= v5'.n
        OBVIOUS
      <4>3. \A i, j \in 1..Len(v5'.workq) : v5'.workq[i] = v5'.workq[j] => i = j
        OBVIOUS
      <4>4. \A i, j \in 1..Len(v5'.taken) : v5'.taken[i] = v5'.taken[j] => i = j
        OBVIOUS
      <4>5. \A i \in 1..Len(v5'.workq), j \in 1..Len(v5'.taken) : v5'.workq[i] # v5'.taken[j]
        OBVIOUS
      <4> QED BY <4>1, <4>2, <4>3, <4>4, <4>5
    <3>5. CondvarLocks'
      BY <1>0, <2>1, <2>2, <2>3, <2>5 DEF CondvarInv, CondvarLocks, ThreadNames
    <3> QED BY <1>0, <2>1, <2>2, <3>2, <3>4, <3>5 DEF CondvarInv, ThreadNames
  <2> QED BY <2>1, <2>4, <2>5
<1>7. CASE Threads!Again(t)
  <2>1. v2[t] = 5 /\ v3[t] = "run" /\ v2' = [v2 EXCEPT ![t] = 1] /\ v3' = v3 /\ v4' = v4 /\ v5' = v5
    BY <1>7, CondvarCalls DEF Threads!Again, Threads!At, Threads!Go, Does, On, ThreadNames
  <2>8. CondvarLocks'
    BY <1>0, <2>1 DEF CondvarInv, CondvarLocks, ThreadNames
  <2>9. Messages'
    BY <1>0, <2>1 DEF CondvarInv, Messages
  <2> QED BY <1>0, <2>1, <2>8, <2>9 DEF CondvarInv, ThreadNames
<1>8. ~(Threads!broadcast(t) \/ Threads!pass(t) \/ Threads!sigwait(t) \/ Threads!timeout(t)
        \/ Threads!Control(t) \/ Threads!fork(t))
  BY CondvarCalls DEF Threads!broadcast, Threads!pass, Threads!sigwait, Threads!timeout, Threads!Control,
       Threads!fork, Threads!At, Does, On, ThreadNames
<1> QED BY <1>1, <1>2, <1>3, <1>4, <1>5, <1>6, <1>7, <1>8 DEF Threads!Thread

\* barrier.c: who has sorted and who has arrived can be seen from the places.
BarrierInv ==
  /\ v5.sorted = {t \in {"t1", "t2"} : v2[t] > 1}
  /\ v5.arrived = {t \in ThreadNames : v2[t] > (IF t = "main" THEN 1 ELSE 2)}
  /\ v2["main"] >= 3 => v5.arrived = ThreadNames
  /\ ~v5.bad /\ v5.child = {} /\ \A t \in ThreadNames : v3[t] = "run"

\* A step of barrier.c.
LEMMA BarrierKept ==
  ASSUME ThreadTypes, BarrierInv, v1 = "barrier", NEW t \in ThreadNames, Threads!Thread(t)
  PROVE BarrierInv' /\ v2'[t] \in 1..4
<1>0. v2 \in [ThreadNames -> Nat] /\ v5 \in ThreadData /\ v2["main"] \in 1..4 /\ v2["t1"] \in 1..4 /\ v2["t2"] \in 1..4
  BY BarrierCalls DEF ThreadTypes
<1>1. CASE Threads!Compute(t)
  <2>1. \/ v2[t] = 1 /\ t = "main" /\ Threads!ins(t).op = "arrive"
        \/ v2[t] = 3 /\ t = "main" /\ Threads!ins(t).op = "merge"
        \/ v2[t] = 1 /\ t # "main" /\ Threads!ins(t).op = "sort"
        \/ v2[t] = 2 /\ t # "main" /\ Threads!ins(t).op = "arrive"
    BY <1>1, BarrierCalls DEF Threads!Compute, Threads!At, Does, On, ThreadNames
  <2>2. v2' = [v2 EXCEPT ![t] = @ + 1] /\ v3' = v3
    BY <1>1 DEF Threads!Compute, Threads!Step, Threads!Go
  <2>3. CASE Threads!ins(t).op = "arrive"
    <3>1. v5' = [v5 EXCEPT !.arrived = @ \cup {t}]
      BY <1>1, <2>3 DEF Threads!Compute
    <3>2. /\ v5'.arrived = v5.arrived \cup {t} /\ v5'.sorted = v5.sorted /\ v5'.bad = v5.bad
          /\ v5'.child = v5.child
      BY <3>1, <1>0 DEF ThreadData
    <3> QED BY <1>0, <2>1, <2>2, <2>3, <3>2 DEF BarrierInv, ThreadNames
  <2>4. CASE Threads!ins(t).op = "sort"
    <3>1. v5' = [v5 EXCEPT !.sorted = @ \cup {t}]
      BY <1>1, <2>4 DEF Threads!Compute
    <3>2. /\ v5'.sorted = v5.sorted \cup {t} /\ v5'.arrived = v5.arrived /\ v5'.bad = v5.bad
          /\ v5'.child = v5.child
      BY <3>1, <1>0 DEF ThreadData
    <3> QED BY <1>0, <2>1, <2>2, <2>4, <3>2 DEF BarrierInv, ThreadNames
  <2>5. CASE Threads!ins(t).op = "merge"
    <3>1. v5' = [v5 EXCEPT !.bad = v5.sorted # {"t1", "t2"}]
      BY <1>1, <2>5 DEF Threads!Compute
    <3>2. v5.sorted = {"t1", "t2"}
      BY <1>0, <2>1, <2>5 DEF BarrierInv, ThreadNames
    <3>3. /\ v5'.arrived = v5.arrived /\ v5'.sorted = v5.sorted /\ ~v5'.bad
          /\ v5'.child = v5.child
      BY <3>1, <3>2, <1>0 DEF ThreadData
    <3> QED BY <1>0, <2>1, <2>2, <2>5, <3>3 DEF BarrierInv, ThreadNames
  <2> QED BY <2>1, <2>3, <2>4, <2>5
<1>2. CASE Threads!pass(t)
  <2>1. /\ v2[t] = (IF t = "main" THEN 2 ELSE 3) /\ v5.arrived = ThreadNames
        /\ v2' = [v2 EXCEPT ![t] = @ + 1] /\ v3' = v3 /\ v5' = v5
    BY <1>2, BarrierCalls DEF Threads!pass, Threads!At, Threads!Step, Threads!Go, Threads!T, Does, On, ThreadNames
  <2> QED BY <1>0, <2>1 DEF BarrierInv, ThreadNames
<1>3. ~(\/ Threads!lock(t) \/ Threads!unlock(t) \/ Threads!cond_wait(t) \/ Threads!relock(t)
        \/ Threads!signal(t) \/ Threads!broadcast(t) \/ Threads!sigwait(t) \/ Threads!Again(t)
        \/ Threads!timeout(t) \/ Threads!Control(t) \/ Threads!fork(t))
  BY BarrierCalls DEF Threads!lock, Threads!unlock, Threads!cond_wait, Threads!relock, Threads!signal,
       Threads!broadcast, Threads!sigwait, Threads!Again, Threads!timeout, Threads!Control,
       Threads!fork, Threads!At, Does, On, ThreadNames, BarrierInv
<1> QED BY <1>1, <1>2, <1>3 DEF Threads!Thread

\* exercise_5.c: the count is what is left of the three threads, the serial
\* thread is the one that made it 0, and without spurious wake-ups nobody is
\* past the wait before.
Came(t) == IF v2[t] > 2 THEN 1 ELSE 0
MyBarrierInv ==
  /\ v5.count = 3 - (Came("main") + Came("t1") + Came("t2"))
  /\ v5.arrived = {t \in ThreadNames : v2[t] > 2}
  /\ v5.serial = IF v5.count = 0 THEN 1 ELSE 0
  /\ \A t \in ThreadNames : v3[t] # "run" => v2[t] = 3
  /\ v6 = 0 => /\ ~v5.bad
               /\ \A t \in ThreadNames : v3[t] = "woken" \/ v2[t] > 3 => v5.count <= 0
  /\ v5.child = {}

\* A step of exercise_5.c.
LEMMA MyBarrierKept ==
  ASSUME ThreadTypes, MyBarrierInv, v1 = "exercise_5", NEW t \in ThreadNames, Threads!Thread(t)
  PROVE MyBarrierInv' /\ v2'[t] \in 1..7
<1>0. /\ v2 \in [ThreadNames -> Nat] /\ \A w \in ThreadNames : v2[w] \in 1..7
      /\ v3 \in [ThreadNames -> {"run", "waiting", "woken"}] /\ v5 \in ThreadData
  BY MyBarrierCalls DEF ThreadTypes, ThreadNames
<1>6. v6' = v6
  BY ThreadStepTypes
<1>1. CASE Threads!lock(t) \/ Threads!unlock(t) \/ (Threads!cond_wait(t) /\ v3' = v3) \/ Threads!broadcast(t)
  <2>1. v3[t] = "run" /\ v2[t] \in {1, 3, 4, 5} /\ (v6 = 0 /\ v2[t] = 3 => v5.count <= 0)
    <3>1. Threads!At(t, {"lock", "unlock", "once_count", "broadcast"})
      BY <1>1, MyBarrierCalls
      DEF Threads!lock, Threads!unlock, Threads!cond_wait, Threads!broadcast, Threads!At, Does, On, ThreadNames
    <3>2. v2[t] # 2 /\ v2[t] # 6 /\ v2[t] # 7
      BY <3>1, MyBarrierCalls DEF Threads!At, Does, On, ThreadNames
    <3>3. v2[t] = 3 => v5.count <= 0
      BY <1>0, <1>1, <3>1, MyBarrierCalls
      DEF Threads!cond_wait, Threads!lock, Threads!unlock, Threads!broadcast, Threads!At, Threads!Holds, Does, On, ThreadNames
    <3> QED BY <1>0, <3>1, <3>2, <3>3 DEF Threads!At
  <2>2. v5' = v5 /\ v2' = [v2 EXCEPT ![t] = @ + 1]
    BY <1>1, <1>0, <2>1 DEF Threads!lock, Threads!unlock, Threads!cond_wait, Threads!broadcast, Threads!Step, Threads!Go
  <2>3. \A w \in ThreadNames : v3'[w] = v3[w] \/ (v3[w] = "waiting" /\ v3'[w] = "woken" /\ v2[t] = 5)
    BY <1>1, <1>0, MyBarrierCalls DEF Threads!lock, Threads!unlock, Threads!cond_wait, Threads!broadcast, Threads!T, ThreadNames,
         Threads!At, Does, On
  <2> QED BY <1>0, <1>6, <2>1, <2>2, <2>3 DEF MyBarrierInv, Came, ThreadNames
<1>2. CASE Threads!cond_wait(t) /\ v3' # v3
  <2>1. v2[t] = 3 /\ v2' = v2 /\ v3' = [v3 EXCEPT ![t] = "waiting"] /\ v5' = v5
    BY <1>2, MyBarrierCalls DEF Threads!cond_wait, Threads!At, Does, On, ThreadNames
  <2> QED BY <1>0, <1>6, <2>1 DEF MyBarrierInv, Came, ThreadNames
<1>3. CASE Threads!relock(t)
  <2>1. v2[t] = 3 /\ Threads!ins(t).op = "once_count"
    BY <1>3, MyBarrierCalls DEF Threads!relock, Does, On, ThreadNames, MyBarrierInv
  <2>2. /\ v3[t] = "woken" /\ v2' = [v2 EXCEPT ![t] = 4] /\ v3' = [v3 EXCEPT ![t] = "run"] /\ v5' = v5
    BY <1>3, <2>1, <1>0 DEF Threads!relock, Threads!Step, Threads!Go
  <2> QED BY <1>0, <1>6, <2>1, <2>2 DEF MyBarrierInv, Came, ThreadNames
<1>4. CASE Threads!Compute(t)
  <2>1. /\ v3[t] = "run"
        /\ \/ v2[t] = 2 /\ Threads!ins(t).op = "dec"
           \/ v2[t] = 6 /\ Threads!ins(t).op = "passed"
    BY <1>4, MyBarrierCalls DEF Threads!Compute, Threads!At, Does, On, ThreadNames
  <2>2. v2' = [v2 EXCEPT ![t] = @ + 1] /\ v3' = v3
    BY <1>4 DEF Threads!Compute, Threads!Step, Threads!Go
  <2>3. CASE Threads!ins(t).op = "dec"
    <3>1. v5' = [v5 EXCEPT !.count = @ - 1, !.arrived = @ \cup {t},
                           !.serial = IF v5.count = 1 THEN @ + 1 ELSE @]
      BY <1>4, <2>3 DEF Threads!Compute
    <3>2. /\ v5'.count = v5.count - 1 /\ v5'.arrived = v5.arrived \cup {t} /\ v5'.bad = v5.bad
          /\ v5'.serial = (IF v5.count = 1 THEN v5.serial + 1 ELSE v5.serial)
          /\ v5'.child = v5.child
      BY <3>1, <1>0 DEF ThreadData
    <3>3. v5.count \in 1..3 /\ v5'.count = 3 - (Came("main") + Came("t1") + Came("t2"))'
      BY <1>0, <2>1, <2>2, <2>3, <3>2 DEF MyBarrierInv, Came, ThreadNames
    <3> QED BY <1>0, <1>6, <2>1, <2>2, <2>3, <3>2, <3>3 DEF MyBarrierInv, ThreadNames
  <2>4. CASE Threads!ins(t).op = "passed"
    <3>1. v5' = [v5 EXCEPT !.bad = @ \/ v5.arrived # Threads!T]
      BY <1>4, <2>4 DEF Threads!Compute
    <3>2. /\ v5'.count = v5.count /\ v5'.arrived = v5.arrived /\ v5'.serial = v5.serial
          /\ v5'.bad = (v5.bad \/ v5.arrived # Threads!T) /\ v5'.child = v5.child
      BY <3>1, <1>0 DEF ThreadData
    <3>3. v6 = 0 => v5.arrived = Threads!T
      BY <1>0, <2>1, <2>4 DEF MyBarrierInv, Came, Threads!T, ThreadNames
    <3>4. v6 = 0 => ~v5'.bad
      BY <3>2, <3>3 DEF MyBarrierInv
    <3>5. v5'.count = 3 - (Came("main") + Came("t1") + Came("t2"))'
      BY <1>0, <2>1, <2>2, <2>4, <3>2 DEF MyBarrierInv, Came, ThreadNames
    <3> QED BY <1>0, <1>6, <2>1, <2>2, <2>4, <3>2, <3>4, <3>5 DEF MyBarrierInv, ThreadNames
  <2> QED BY <2>1, <2>3, <2>4
<1>5. ~(\/ Threads!signal(t) \/ Threads!pass(t) \/ Threads!sigwait(t) \/ Threads!Again(t)
        \/ Threads!timeout(t) \/ Threads!Control(t) \/ Threads!fork(t))
  BY MyBarrierCalls DEF Threads!signal, Threads!pass, Threads!sigwait, Threads!Again, Threads!timeout,
       Threads!Control, Threads!fork, Threads!At, Does, On, ThreadNames
<1> QED BY <1>1, <1>2, <1>3, <1>4, <1>5 DEF Threads!Thread

\* timeout.c: how often main and the helper hold the mutex where they are, and
\* who has run retry.
TimeoutInv ==
  /\ \A t \in ThreadNames : v3[t] = "run"
  /\ v2["main"] \in {2, 3, 5, 8} => v4["lock1"] = [by |-> "main", n |-> 1]
  /\ v2["main"] \in {6, 7} => v4["lock1"] = [by |-> "main", n |-> 2]
  /\ v2["t1"] \in {3, 4} => v4["lock1"] = [by |-> "t1", n |-> 1]
  /\ v2["main"] = 1 => v4["lock1"] = [by |-> "none", n |-> 0]
  /\ v4["lock1"].by = "t1" => v2["t1"] \in {3, 4}
  /\ v5.created => v2["main"] \in {3, 4}
  /\ v2["t1"] > 1 => v5.created
  /\ v5.n = IF v5.created THEN (IF v2["t1"] > 3 THEN 1 ELSE 0)
                          ELSE (IF v2["main"] \in {3, 4, 7, 8} THEN 1 ELSE 0)
  /\ v5.child = {}

\* A step of timeout.c.
LEMMA TimeoutKept ==
  ASSUME ThreadTypes, TimeoutInv, v1 = "timeout", NEW t \in ThreadNames, Threads!Thread(t)
  PROVE TimeoutInv' /\ v2'[t] \in 1..(IF t = "main" THEN 8 ELSE 5) /\ t # "t2"
<1>0. /\ v2 \in [ThreadNames -> Nat] /\ v2["main"] \in 1..8 /\ v2["t1"] \in 1..5
      /\ v4 \in [MutexNames -> Owners] /\ v5 \in ThreadData
  BY TimeoutCalls DEF ThreadTypes
<1>1. CASE Threads!lock(t)
  <2>1. /\ \/ t = "main" /\ v2[t] \in {1, 5}
           \/ t = "t1" /\ v2[t] = 2
        /\ Threads!ins(t).m = "lock1"
    BY <1>1, TimeoutCalls DEF Threads!lock, Threads!At, Does, On, ThreadNames
  <2>2. /\ v2' = [v2 EXCEPT ![t] = @ + 1] /\ v3' = v3 /\ v5' = v5
        /\ v4["lock1"].by \in {"none", t}
    BY <1>1, <2>1 DEF Threads!lock, Threads!MayLock, Threads!Free, Threads!Step, Threads!Go
  <2>3. PICK k : k = v4["lock1"].n + 1
    OBVIOUS
  <2>4. v4' = [v4 EXCEPT !["lock1"] = [by |-> t, n |-> k]]
    BY <1>1, <2>1, <2>3 DEF Threads!lock
  <2>5. CASE t = "main"
    <3>1. k = IF v2[t] = 1 THEN 1 ELSE 2
      BY <2>1, <2>3, <2>5 DEF TimeoutInv
    <3> QED BY <1>0, <2>1, <2>2, <2>4, <2>5, <3>1 DEF TimeoutInv, ThreadNames, MutexNames
  <2>6. CASE t = "t1"
    <3>1. v2["main"] = 4
      BY <1>0, <2>1, <2>2, <2>6 DEF TimeoutInv
    <3>2. v4["lock1"] = Threads!Free
      BY <1>1, <1>0, <2>1, <2>6, <3>1 DEF Threads!lock, Threads!MayLock, TimeoutInv
    <3>3. k = 1
      BY <2>3, <3>2 DEF Threads!Free
    <3> QED BY <1>0, <2>1, <2>2, <2>4, <2>6, <3>1, <3>3 DEF TimeoutInv, ThreadNames, MutexNames
  <2> QED BY <2>1, <2>5, <2>6
<1>2. CASE Threads!unlock(t)
  <2>1. /\ \/ t = "main" /\ v2[t] \in {3, 7}
           \/ t = "t1" /\ v2[t] = 4
        /\ Threads!ins(t).m = "lock1"
    BY <1>2, TimeoutCalls DEF Threads!unlock, Threads!At, Does, On, ThreadNames
  <2>2. /\ v2' = [v2 EXCEPT ![t] = @ + 1] /\ v3' = v3 /\ v5' = v5
        /\ v4' = Threads!Released("lock1")
    BY <1>2, <2>1 DEF Threads!unlock, Threads!Step, Threads!Go
  <2>3. CASE t = "main" /\ v2[t] = 7
    <3>1. v4["lock1"] = [by |-> "main", n |-> 2]
      BY <2>3 DEF TimeoutInv
    <3>2. v4["lock1"].by = "main" /\ v4["lock1"].n # 1 /\ v4["lock1"].n - 1 = 1
      BY <3>1
    <3>3. v4' = [v4 EXCEPT !["lock1"] = [by |-> "main", n |-> 1]]
      BY <2>2, <3>2 DEF Threads!Released
    <3> QED BY <1>0, <2>2, <2>3, <3>3 DEF TimeoutInv, ThreadNames, MutexNames
  <2>4. CASE t = "t1" \/ v2[t] = 3
    <3>1. v4["lock1"] = [by |-> t, n |-> 1]
      BY <2>1, <2>4 DEF TimeoutInv
    <3>2. v4["lock1"].n = 1
      BY <3>1
    <3>3. v4' = [v4 EXCEPT !["lock1"] = [by |-> "none", n |-> 0]]
      BY <2>2, <3>2 DEF Threads!Released, Threads!Free
    <3> QED BY <1>0, <2>1, <2>2, <2>4, <3>3 DEF TimeoutInv, ThreadNames, MutexNames
  <2> QED BY <2>1, <2>3, <2>4
<1>3. CASE Threads!Compute(t)
  <2>1. /\ \/ t = "main" /\ v2[t] = 6
           \/ t = "t1" /\ v2[t] = 3
        /\ Threads!ins(t).op = "retry"
    BY <1>3, TimeoutCalls DEF Threads!Compute, Threads!At, Does, On, ThreadNames
  <2>2. v2' = [v2 EXCEPT ![t] = @ + 1] /\ v3' = v3 /\ v4' = v4
    BY <1>3 DEF Threads!Compute, Threads!Step, Threads!Go
  <2>3. v5' = [v5 EXCEPT !.n = @ + 1]
    BY <1>3, <2>1 DEF Threads!Compute
  <2>4. v5'.n = v5.n + 1 /\ v5'.created = v5.created /\ v5'.child = v5.child
    BY <1>0, <2>3 DEF ThreadData
  <2> QED BY <1>0, <2>1, <2>2, <2>4 DEF TimeoutInv, ThreadNames
<1>4. CASE Threads!timeout(t)
  <2>1. t = "main" /\ v2[t] = 2 /\ v3' = v3 /\ v4' = v4
    BY <1>4, TimeoutCalls DEF Threads!timeout, Threads!At, Does, On, ThreadNames
  <2>2. CASE v5' = [v5 EXCEPT !.created = TRUE] /\ Threads!Step(t)
    <3>1. v5'.created /\ v5'.n = v5.n /\ v5'.child = v5.child /\ v2' = [v2 EXCEPT ![t] = @ + 1]
      BY <1>0, <2>2 DEF ThreadData, Threads!Step, Threads!Go
    <3> QED BY <1>0, <2>1, <3>1 DEF TimeoutInv, ThreadNames
  <2>3. CASE Threads!Go(t, 5) /\ v5' = v5
    BY <1>0, <2>1, <2>3 DEF TimeoutInv, ThreadNames, Threads!Go
  <2> QED BY <1>4, <2>2, <2>3 DEF Threads!timeout
<1>5. CASE Threads!Control(t)
  <2>1. v3' = v3 /\ v4' = v4 /\ v5' = v5
    BY <1>5 DEF Threads!Control
  <2>2. \/ t = "t1" /\ v2[t] = 1 /\ v5.created /\ v2' = [v2 EXCEPT ![t] = @ + 1]
        \/ t = "main" /\ v2[t] = 8 /\ v2' = [v2 EXCEPT ![t] = 3]
    BY <1>5, TimeoutCalls DEF Threads!Control, Threads!At, Threads!Step, Threads!Go, Does, On, ThreadNames
  <2> QED BY <1>0, <2>1, <2>2 DEF TimeoutInv, ThreadNames
<1>6. ~(\/ Threads!cond_wait(t) \/ Threads!relock(t) \/ Threads!signal(t) \/ Threads!broadcast(t)
        \/ Threads!pass(t) \/ Threads!sigwait(t) \/ Threads!Again(t) \/ Threads!fork(t))
  BY TimeoutCalls DEF Threads!cond_wait, Threads!relock, Threads!signal, Threads!broadcast, Threads!pass,
       Threads!sigwait, Threads!Again, Threads!fork, Threads!At, Does, On, ThreadNames, TimeoutInv
<1> QED BY <1>1, <1>2, <1>3, <1>4, <1>5, <1>6 DEF Threads!Thread

\* atfork.c and figure_12.17.c: where a thread has each mutex.
AtforkInv ==
  /\ \A t \in ThreadNames : v3[t] = "run"
  /\ v2["main"] \in 2..4 => v4["lock1"] = [by |-> "main", n |-> 1]
  /\ v2["main"] \in 3..5 => v4["lock2"] = [by |-> "main", n |-> 1]
  /\ v2["t1"] \in 2..3 => v4["lock1"] = [by |-> "t1", n |-> 1]
  /\ v2["t1"] \in 3..4 => v4["lock2"] = [by |-> "t1", n |-> 1]
  /\ Threads!ChildMayLock

\* A step of atfork.c or figure_12.17.c.
LEMMA AtforkKept ==
  ASSUME ThreadTypes, AtforkInv, v1 \in {"atfork", "figure_12_17"}, NEW t \in ThreadNames,
         Threads!Thread(t)
  PROVE AtforkInv' /\ v2'[t] \in 1..(IF t = "main" THEN 6 ELSE 5) /\ t # "t2"
<1>0. /\ v2 \in [ThreadNames -> Nat] /\ v2["main"] \in 1..6 /\ v2["t1"] \in 1..5
      /\ v4 \in [MutexNames -> Owners] /\ v5 \in ThreadData
  BY AtforkCalls, Figure1217Calls DEF ThreadTypes
<1>1. CASE Threads!lock(t)
  <2>1. PICK m \in MutexNames :
        /\ m = Threads!ins(t).m
        /\ t \in {"main", "t1"} /\ v2[t] = IF m = "lock1" THEN 1 ELSE 2
    BY <1>1, AtforkCalls, Figure1217Calls DEF Threads!lock, Threads!At, Does, On, ThreadNames, MutexNames
  <2>2. /\ v2' = [v2 EXCEPT ![t] = @ + 1] /\ v3' = v3 /\ v5' = v5
        /\ v4[m] = Threads!Free
    BY <1>1, <2>1 DEF Threads!lock, Threads!MayLock, Threads!Step, Threads!Go
  <2>3. v4[m].n + 1 = 1 /\ v4[m].by = "none"
    BY <2>2 DEF Threads!Free
  <2>4. v4' = [v4 EXCEPT ![m] = [by |-> t, n |-> 1]]
    BY <1>1, <2>1, <2>3 DEF Threads!lock
  <2> QED BY <1>0, <2>1, <2>2, <2>3, <2>4 DEF AtforkInv, ThreadNames, MutexNames, Threads!ChildMayLock
<1>2. CASE Threads!unlock(t)
  <2>1. PICK m \in MutexNames :
        /\ m = Threads!ins(t).m
        /\ t \in {"main", "t1"} /\ v2[t] = (IF m = "lock1" THEN 3 ELSE 4) + (IF t = "main" THEN 1 ELSE 0)
    BY <1>2, AtforkCalls, Figure1217Calls DEF Threads!unlock, Threads!At, Does, On, ThreadNames, MutexNames
  <2>2. /\ v2' = [v2 EXCEPT ![t] = @ + 1] /\ v3' = v3 /\ v5' = v5
        /\ v4[m] = [by |-> t, n |-> 1]
    BY <1>0, <1>2, <2>1 DEF Threads!unlock, Threads!Step, Threads!Go, AtforkInv, MutexNames
  <2>3. v4[m].n = 1
    BY <2>2
  <2>4. v4' = [v4 EXCEPT ![m] = Threads!Free]
    BY <1>2, <2>1, <2>3 DEF Threads!unlock, Threads!Released
  <2> QED BY <1>0, <2>1, <2>2, <2>4 DEF AtforkInv, ThreadNames, MutexNames, Threads!ChildMayLock
<1>3. CASE Threads!fork(t)
  <2>1. t = "main" /\ v2[t] = 3 /\ v2' = [v2 EXCEPT ![t] = @ + 1] /\ v3' = v3 /\ v4' = v4
    BY <1>3, AtforkCalls, Figure1217Calls DEF Threads!fork, Threads!At, Threads!Step, Threads!Go, Does, On, ThreadNames
  <2>2. v4["lock1"].by = "main" /\ v4["lock2"].by = "main"
    BY <2>1 DEF AtforkInv
  <2>3. \A m \in MutexNames : Threads!child_fn(v4)[m] = Threads!Free
    BY <2>2 DEF Threads!child_fn, Threads!Mutexes, MutexNames
  <2>4. v5'.child = {Threads!child_fn(v4)}
    BY <1>0, <1>3 DEF Threads!fork, ThreadData
  <2>5. Threads!ChildMayLock'
    BY <2>3, <2>4 DEF Threads!ChildMayLock, Threads!Mutexes, MutexNames, Threads!Free
  <2> QED BY <1>0, <2>1, <2>5 DEF AtforkInv, ThreadNames
<1>4. ~(\/ Threads!cond_wait(t) \/ Threads!relock(t) \/ Threads!signal(t) \/ Threads!broadcast(t)
        \/ Threads!Compute(t) \/ Threads!pass(t) \/ Threads!sigwait(t) \/ Threads!Again(t)
        \/ Threads!timeout(t) \/ Threads!Control(t))
  BY AtforkCalls, Figure1217Calls
  DEF Threads!cond_wait, Threads!relock, Threads!signal, Threads!broadcast, Threads!Compute, Threads!pass,
      Threads!sigwait, Threads!Again, Threads!timeout, Threads!Control, Threads!At, Does, On, ThreadNames, AtforkInv
<1> QED BY <1>1, <1>2, <1>3, <1>4 DEF Threads!Thread

\* A step of suspend.c, which has no part in these properties.
LEMMA SuspendKept ==
  ASSUME ThreadTypes, v5.child = {}, v1 = "suspend", NEW t \in ThreadNames, Threads!Thread(t)
  PROVE v5'.child = {} /\ v2'[t] \in 1..(IF t = "main" THEN 5 ELSE IF t = "t1" THEN 6 ELSE 1)
<1>0. /\ v2 \in [ThreadNames -> Nat] /\ v2["main"] \in 1..5 /\ v2["t1"] \in 1..6 /\ v2["t2"] \in 1..1
      /\ v5 \in ThreadData
  BY SuspendCalls DEF ThreadTypes
<1>1. CASE \/ Threads!lock(t) \/ Threads!unlock(t) \/ Threads!cond_wait(t) \/ Threads!signal(t)
           \/ Threads!relock(t)
  <2>1. v5' = v5
    BY <1>1 DEF Threads!lock, Threads!unlock, Threads!cond_wait, Threads!signal, Threads!relock
  <2>2. v2' = v2 \/ (v2' = [v2 EXCEPT ![t] = @ + 1] /\ Threads!ins(t).op # "end")
    BY <1>1 DEF Threads!lock, Threads!unlock, Threads!cond_wait, Threads!signal, Threads!relock, Threads!At,
       Threads!Step, Threads!Go
  <2> QED BY <1>0, <2>1, <2>2, SuspendCalls DEF Does, On, ThreadNames
<1>2. CASE Threads!Compute(t)
  <2>1. Threads!ins(t).op \in {"set", "clear"}
    BY <1>2, SuspendCalls DEF Threads!Compute, Threads!At, Does, On, ThreadNames
  <2>2. v5' = [v5 EXCEPT !.flag = TRUE] \/ v5' = [v5 EXCEPT !.flag = FALSE]
    BY <1>2, <2>1 DEF Threads!Compute
  <2>3. v5'.child = v5.child
    BY <1>0, <2>2 DEF ThreadData
  <2>4. v2' = [v2 EXCEPT ![t] = @ + 1]
    BY <1>2 DEF Threads!Compute, Threads!Step, Threads!Go
  <2> QED BY <1>0, <2>1, <2>3, <2>4, SuspendCalls DEF Does, On, ThreadNames
<1>3. CASE Threads!sigwait(t)
  <2>1. PICK s \in v5.pending : v5' = [v5 EXCEPT !.pending = @ \ {s}]
    BY <1>3 DEF Threads!sigwait
  <2>2. v5'.child = v5.child
    BY <1>0, <2>1 DEF ThreadData
  <2>3. v2' = v2 \/ (v2' = [v2 EXCEPT ![t] = @ + 1] /\ Threads!ins(t).op # "end")
    BY <1>3 DEF Threads!sigwait, Threads!At, Threads!Step, Threads!Go
  <2> QED BY <1>0, <2>2, <2>3, SuspendCalls DEF Does, On, ThreadNames
<1>4. ~(\/ Threads!broadcast(t) \/ Threads!pass(t) \/ Threads!Again(t)
        \/ Threads!timeout(t) \/ Threads!Control(t) \/ Threads!fork(t))
  BY SuspendCalls
  DEF Threads!broadcast, Threads!pass, Threads!Again, Threads!timeout, Threads!Control, Threads!fork, Threads!At,
      Does, On, ThreadNames
<1> QED BY <1>1, <1>2, <1>3, <1>4 DEF Threads!Thread

\* What holds in each program.
ThreadsInv ==
  /\ ThreadTypes
  /\ v1 = "suspend" => v5.child = {}
  /\ v1 = "condvar" => CondvarInv
  /\ v1 = "barrier" => BarrierInv
  /\ v1 = "exercise_5" => MyBarrierInv
  /\ v1 = "timeout" => TimeoutInv
  /\ v1 \in {"atfork", "figure_12_17"} => AtforkInv

\* All threads are at their first call and no mutex is held.
LEMMA ThreadsStart ==
  ASSUME Threads!Init
  PROVE ThreadsInv
<1> USE DEF Threads!Init, Threads!T, Threads!Mutexes, Threads!Free, Threads!NTHR, ThreadNames, MutexNames
<1>1. /\ v5 \in ThreadData /\ v5.child = {} /\ ~v5.bad /\ v5.n = 0 /\ v5.count = 3 /\ v5.serial = 0
      /\ v5.arrived = {} /\ v5.sorted = {} /\ v5.workq = <<>> /\ v5.taken = <<>> /\ ~v5.created
  BY DEF ThreadData
<1>2. ThreadTypes
  BY <1>1 DEF ThreadTypes, Calls, Owners
<1>3. CondvarInv
  BY <1>1 DEF CondvarInv, CondvarLocks, Messages
<1>4. BarrierInv
  BY <1>1 DEF BarrierInv
<1>5. MyBarrierInv
  BY <1>1 DEF MyBarrierInv, Came
<1>6. TimeoutInv
  BY <1>1 DEF TimeoutInv
<1>7. AtforkInv
  BY <1>1 DEF AtforkInv, Threads!ChildMayLock
<1> QED BY <1>1, <1>2, <1>3, <1>4, <1>5, <1>6, <1>7 DEF ThreadsInv

\* ThreadsInv is inductive.
LEMMA ThreadsKept ==
  ASSUME ThreadsInv, Threads!Next
  PROVE ThreadsInv'
<1>1. CASE \E t \in Threads!T : Threads!Thread(t)
  <2>1. PICK t \in ThreadNames : Threads!Thread(t)
    BY <1>1 DEF Threads!T, ThreadNames
  <2>2. /\ v1' = v1 /\ v6' = v6 /\ v2' \in [ThreadNames -> Nat]
        /\ \A w \in ThreadNames : w # t => v2'[w] = v2[w]
        /\ v3' \in [ThreadNames -> {"run", "waiting", "woken"}]
        /\ v4' \in [MutexNames -> Owners]
        /\ v5' \in ThreadData
    BY <2>1, ThreadStepTypes DEF ThreadsInv
  <2>3. v1 = "suspend" => v5'.child = {} /\ v2'[t] \in 1..Calls(t)
    BY <2>1, SuspendKept DEF ThreadsInv, Calls, ThreadNames
  <2>4. v1 = "condvar" => CondvarInv' /\ v2'[t] \in 1..Calls(t)
    BY <2>1, CondvarKept DEF ThreadsInv, Calls
  <2>5. v1 = "barrier" => BarrierInv' /\ v2'[t] \in 1..Calls(t)
    BY <2>1, BarrierKept DEF ThreadsInv, Calls
  <2>6. v1 = "exercise_5" => MyBarrierInv' /\ v2'[t] \in 1..Calls(t)
    BY <2>1, MyBarrierKept DEF ThreadsInv, Calls
  <2>7. v1 = "timeout" => TimeoutInv' /\ v2'[t] \in 1..Calls(t)
    BY <2>1, TimeoutKept DEF ThreadsInv, Calls, ThreadNames
  <2>8. v1 \in {"atfork", "figure_12_17"} => AtforkInv' /\ v2'[t] \in 1..Calls(t)
    BY <2>1, AtforkKept DEF ThreadsInv, Calls, ThreadNames
  <2>9. v2'[t] \in 1..Calls(t)
    BY <2>3, <2>4, <2>5, <2>6, <2>7, <2>8 DEF ThreadsInv, ThreadTypes
  <2>10. ThreadTypes'
    BY <2>2, <2>9 DEF ThreadsInv, ThreadTypes, Calls
  <2> QED BY <2>2, <2>3, <2>4, <2>5, <2>6, <2>7, <2>8, <2>10 DEF ThreadsInv
<1>2. CASE Threads!Spurious
  <2>1. /\ v1' = v1 /\ v2' = v2 /\ v4' = v4 /\ v5' = v5 /\ v6' = v6 + 1 /\ v6 \in Nat
        /\ \E w \in ThreadNames : v3[w] = "waiting" /\ v3' = [v3 EXCEPT ![w] = "woken"]
    BY <1>2 DEF Threads!Spurious, Threads!Waiters, Threads!T, ThreadNames, ThreadsInv, ThreadTypes
  <2>2. PICK w \in ThreadNames : v3[w] = "waiting" /\ v3' = [v3 EXCEPT ![w] = "woken"]
    BY <2>1
  <2>3. ThreadTypes'
    BY <2>1, <2>2 DEF ThreadsInv, ThreadTypes, Calls
  <2>4. v1 = "condvar" => CondvarInv'
    BY <2>1, <2>2 DEF ThreadsInv, ThreadTypes, CondvarInv, CondvarLocks, Messages
  <2>5. v1 = "exercise_5" => MyBarrierInv'
    BY <2>1, <2>2 DEF ThreadsInv, ThreadTypes, MyBarrierInv, Came
  <2>6. v1 \notin {"barrier", "timeout", "atfork", "figure_12_17"}
    BY <2>2 DEF ThreadsInv, BarrierInv, TimeoutInv, AtforkInv
  <2> QED BY <2>1, <2>3, <2>4, <2>5, <2>6 DEF ThreadsInv
<1>3. CASE \E s \in {"INT", "QUIT"} : Threads!Send(s)
  <2>1. PICK s \in {"INT", "QUIT"} : Threads!Send(s)
    BY <1>3
  <2>2. /\ v1 = "suspend" /\ v1' = v1 /\ v2' = v2 /\ v3' = v3 /\ v4' = v4 /\ v6' = v6
        /\ v5' = [v5 EXCEPT !.pending = @ \cup {s}, !.sent = @ \cup {s}]
    BY <2>1 DEF Threads!Send
  <2>3. /\ v5 \in ThreadData /\ v5.pending \cup {s} \in SUBSET {"INT", "QUIT"}
        /\ v5.sent \cup {s} \in SUBSET {"INT", "QUIT"}
    BY DEF ThreadsInv, ThreadTypes, ThreadData
  <2>4. v5' \in ThreadData
    BY <2>2, <2>3, ThreadDataSet
  <2>5. v5'.child = v5.child
    BY <2>2, <2>3 DEF ThreadData
  <2>6. ThreadTypes'
    BY <2>2, <2>4 DEF ThreadsInv, ThreadTypes, Calls
  <2> QED BY <2>2, <2>5, <2>6 DEF ThreadsInv
<1> QED BY <1>1, <1>2, <1>3 DEF Threads!Next

\* It implies the four properties.
LEMMA ThreadsAlone ==
  ASSUME ThreadsInv
  PROVE Threads!NobodyEarly /\ Threads!TakenOnce /\ Threads!RetryAlone /\ Threads!ChildMayLock
<1>0. ThreadTypes
  BY DEF ThreadsInv
<1>1. Threads!NobodyEarly
  <2>1. v1 = "exercise_5" /\ (\A t \in Threads!T : Threads!Ended(t)) => v5.serial = 1
    <3> SUFFICES ASSUME v1 = "exercise_5", \A t \in Threads!T : Threads!Ended(t)
                 PROVE v5.serial = 1
      OBVIOUS
    <3>1. v2["main"] = 7 /\ v2["t1"] = 7 /\ v2["t2"] = 7
      BY <1>0, MyBarrierCalls DEF Threads!Ended, Threads!T, Does, On
    <3> QED BY <3>1 DEF ThreadsInv, MyBarrierInv, Came
  <2> QED BY <2>1 DEF Threads!NobodyEarly, ThreadsInv, BarrierInv, MyBarrierInv
<1>2. Threads!TakenOnce
  <2>1. v5.taken \in Seq(Nat)
    BY <1>0 DEF ThreadTypes, ThreadData
  <2> QED BY <2>1 DEF Threads!TakenOnce, ThreadsInv, CondvarInv, Messages
<1>3. Threads!RetryAlone
  <2> SUFFICES ASSUME v1 = "timeout"
               PROVE /\ v5.n <= 1
                     /\ Threads!At("main", {"timeout", "unlock"}) => ~Threads!At("t1", {"retry", "unlock"})
    BY DEF Threads!RetryAlone
  <2>1. v5.n <= 1
    BY DEF ThreadsInv, TimeoutInv
  <2>2. Threads!At("main", {"timeout", "unlock"}) => v2["main"] \in {2, 3, 7}
    BY <1>0, TimeoutCalls DEF Threads!At, Does, On
  <2>3. Threads!At("t1", {"retry", "unlock"}) => v2["t1"] \in {3, 4}
    BY <1>0, TimeoutCalls DEF Threads!At, Does, On
  <2>4. v2["main"] \in {2, 3, 7} => v4["lock1"].by = "main"
    BY DEF ThreadsInv, TimeoutInv
  <2>5. v2["t1"] \in {3, 4} => v4["lock1"].by = "t1"
    BY DEF ThreadsInv, TimeoutInv
  <2> QED BY <2>1, <2>2, <2>3, <2>4, <2>5
<1>4. Threads!ChildMayLock
  BY <1>0 DEF Threads!ChildMayLock, ThreadsInv, ThreadTypes, CondvarInv, BarrierInv, MyBarrierInv, TimeoutInv, AtforkInv
<1> QED BY <1>1, <1>2, <1>3, <1>4
-----------------------------------------------------------------------------
(* Alarm: v1 prog, v2 pc, v3 inside, v4 timer, v5 sig, v6 jmpset, v7 int. *)
Jumping == {"sleep2", "figure_10_9", "read2"}
AlarmSignals == [act : {"caller", "return", "jump"}, blocked : BOOLEAN, pending : BOOLEAN]

\* The action of SIGALRM, whether it is blocked and pending, and how sig_int goes.
AlarmTypes ==
  /\ v1 \in {"sleep", "sleep1", "read1", "ruptime_dg"} \cup Jumping
  /\ v5 \in AlarmSignals
  /\ v7 \in {"none", "running", "done", "cut"}

\* The programs that jump: from alarm on to the call that waits, the alarm is
\* running or SIGALRM is pending, and the frame has been saved.
JumpingInv ==
  /\ v2 \in 1..6 /\ ~v5.blocked
  /\ v5.act = (IF v2 = 1 THEN "caller" ELSE "jump")
  /\ v2 > 2 => v6
  /\ v2 <= 3 => ~v4 /\ ~v5.pending
  /\ v3 => v2 = 4
  /\ v2 = 4 => v4 \/ v5.pending

\* lib/sleep.c: SIGALRM can come only inside sigsuspend; when sig_int runs on
\* top of that, its return ends sigsuspend too.
SleepInv ==
  /\ v2 \in 1..8
  /\ v5.act = (IF v2 \in 2..6 THEN "return" ELSE "caller")
  /\ v5.blocked <=> v2 \in 3..7
  /\ v2 <= 3 => ~v4 /\ ~v5.pending
  /\ v3 => v2 = 4
  /\ v2 = 4 => v4 \/ v5.pending \/ (v3 /\ v7 = "running")

\* The invariant of the timed waits. Who does not jump registers no handler that does.
AlarmInv ==
  /\ AlarmTypes
  /\ v1 \in Jumping => JumpingInv
  /\ v1 = "sleep" => SleepInv
  /\ v1 \notin Jumping => v5.act # "jump"

\* The calls of the programs that jump, where read2 has read for pause.
LEMMA JumpingCalls ==
  ASSUME v1 \in Jumping, v2 \in 1..6
  PROVE /\ v2 = 1 => Alarm!step = "handler"
        /\ v2 = 2 => Alarm!step = "setjmp"
        /\ v2 = 3 => Alarm!step = "alarm"
        /\ v2 = 4 => Alarm!step \in {"pause", "read"} /\ (v1 # "read2" => Alarm!step = "pause")
        /\ v2 = 5 => Alarm!step = "off"
        /\ v2 = 6 => Alarm!step = "end"
        /\ Alarm!Landing = IF v1 = "read2" THEN 6 ELSE 5
<1> USE DEF Jumping, Alarm!step, Alarm!Landing, Alarm!Steps
<1>1. CASE v1 = "sleep2"
  BY <1>1 DEF Alarm!sleep2
<1>2. CASE v1 = "figure_10_9"
  BY <1>2 DEF Alarm!figure_10_9
<1>3. CASE v1 = "read2"
  BY <1>3 DEF Alarm!read2
<1> QED BY <1>1, <1>2, <1>3

\* The calls of sleep.
LEMMA SleepCalls ==
  ASSUME v1 = "sleep", v2 \in 1..8
  PROVE /\ v2 = 1 => Alarm!step = "handler"
        /\ v2 = 2 => Alarm!step = "block"
        /\ v2 = 3 => Alarm!step = "alarm"
        /\ v2 = 4 => Alarm!step = "sigsuspend"
        /\ v2 = 5 => Alarm!step = "off"
        /\ v2 = 6 => Alarm!step = "restore"
        /\ v2 = 7 => Alarm!step = "unblock"
        /\ v2 = 8 => Alarm!step = "end"
BY DEF Alarm!step, Alarm!Steps, Alarm!sleep

\* Nothing has been called and nothing is pending.
LEMMA AlarmStarts ==
  ASSUME Alarm!Init
  PROVE AlarmInv
<1> USE DEF Alarm!Init
<1>1. AlarmTypes
  BY DEF AlarmTypes, AlarmSignals, Jumping
<1>2. v5.act = "caller" /\ v5.blocked = FALSE /\ v5.pending = FALSE
  OBVIOUS
<1>3. JumpingInv
  BY <1>2 DEF JumpingInv
<1>4. SleepInv
  BY <1>2 DEF SleepInv
<1> QED BY <1>1, <1>2, <1>3, <1>4 DEF AlarmInv

\* Every call, every signal and every return keeps it.
LEMMA AlarmKept ==
  ASSUME AlarmInv, Alarm!Next
  PROVE AlarmInv'
<1>0. AlarmTypes
  BY DEF AlarmInv
<1>1. CASE Alarm!Handler
  <2> USE <1>0, <1>1 DEF Alarm!Handler, Alarm!Do, Alarm!Running, Alarm!Jumps
  <2>0. v5' \in AlarmSignals
    BY DEF AlarmTypes, AlarmSignals
  <2>1. v1' = v1 /\ AlarmTypes'
    BY <2>0 DEF AlarmTypes
  <2>2. v1 \in Jumping => JumpingInv'
    BY JumpingCalls DEF AlarmInv, AlarmTypes, AlarmSignals, JumpingInv, Jumping
  <2>3. v1 = "sleep" => SleepInv'
    BY SleepCalls DEF AlarmInv, AlarmTypes, AlarmSignals, SleepInv, Jumping
  <2>4. v1 \notin Jumping => v5'.act # "jump"
    BY DEF AlarmInv, AlarmTypes, AlarmSignals, Jumping
  <2> QED BY <2>1, <2>2, <2>3, <2>4 DEF AlarmInv
<1>2. CASE Alarm!SetJmp
  <2> USE <1>0, <1>2 DEF Alarm!SetJmp, Alarm!Do, Alarm!Running
  <2>0. v5' \in AlarmSignals
    BY DEF AlarmTypes, AlarmSignals
  <2>1. v1' = v1 /\ AlarmTypes'
    BY <2>0 DEF AlarmTypes
  <2>2. v1 \in Jumping => JumpingInv'
    BY JumpingCalls DEF AlarmInv, AlarmTypes, AlarmSignals, JumpingInv
  <2>3. v1 = "sleep" => SleepInv'
    BY SleepCalls DEF AlarmInv, AlarmTypes, AlarmSignals, SleepInv
  <2>4. v1 \notin Jumping => v5'.act # "jump"
    BY DEF AlarmInv, AlarmTypes, AlarmSignals
  <2> QED BY <2>1, <2>2, <2>3, <2>4 DEF AlarmInv
<1>3. CASE Alarm!SetAlarm
  <2> USE <1>0, <1>3 DEF Alarm!SetAlarm, Alarm!Do, Alarm!Running
  <2>0. v5' \in AlarmSignals
    BY DEF AlarmTypes, AlarmSignals
  <2>1. v1' = v1 /\ AlarmTypes'
    BY <2>0 DEF AlarmTypes
  <2>2. v1 \in Jumping => JumpingInv'
    BY JumpingCalls DEF AlarmInv, AlarmTypes, AlarmSignals, JumpingInv
  <2>3. v1 = "sleep" => SleepInv'
    BY SleepCalls DEF AlarmInv, AlarmTypes, AlarmSignals, SleepInv
  <2>4. v1 \notin Jumping => v5'.act # "jump"
    BY DEF AlarmInv, AlarmTypes, AlarmSignals
  <2> QED BY <2>1, <2>2, <2>3, <2>4 DEF AlarmInv
<1>4. CASE Alarm!AlarmOff
  <2> USE <1>0, <1>4 DEF Alarm!AlarmOff, Alarm!Do, Alarm!Running
  <2>0. v5' \in AlarmSignals
    BY DEF AlarmTypes, AlarmSignals
  <2>1. v1' = v1 /\ AlarmTypes'
    BY <2>0 DEF AlarmTypes
  <2>2. v1 \in Jumping => JumpingInv'
    BY JumpingCalls DEF AlarmInv, AlarmTypes, AlarmSignals, JumpingInv
  <2>3. v1 = "sleep" => SleepInv'
    BY SleepCalls DEF AlarmInv, AlarmTypes, AlarmSignals, SleepInv
  <2>4. v1 \notin Jumping => v5'.act # "jump"
    BY DEF AlarmInv, AlarmTypes, AlarmSignals
  <2> QED BY <2>1, <2>2, <2>3, <2>4 DEF AlarmInv
<1>5. CASE Alarm!Block
  <2> USE <1>0, <1>5 DEF Alarm!Block, Alarm!Do, Alarm!Running
  <2>0. v5' \in AlarmSignals
    BY DEF AlarmTypes, AlarmSignals
  <2>1. v1' = v1 /\ AlarmTypes'
    BY <2>0 DEF AlarmTypes
  <2>2. v1 \in Jumping => JumpingInv'
    BY JumpingCalls DEF AlarmInv, AlarmTypes, AlarmSignals, JumpingInv
  <2>3. v1 = "sleep" => SleepInv'
    BY SleepCalls DEF AlarmInv, AlarmTypes, AlarmSignals, SleepInv
  <2>4. v1 \notin Jumping => v5'.act # "jump"
    BY DEF AlarmInv, AlarmTypes, AlarmSignals
  <2> QED BY <2>1, <2>2, <2>3, <2>4 DEF AlarmInv
<1>6. CASE Alarm!Restore
  <2> USE <1>0, <1>6 DEF Alarm!Restore, Alarm!Do, Alarm!Running
  <2>0. v5' \in AlarmSignals
    BY DEF AlarmTypes, AlarmSignals
  <2>1. v1' = v1 /\ AlarmTypes'
    BY <2>0 DEF AlarmTypes
  <2>2. v1 \in Jumping => JumpingInv'
    BY JumpingCalls DEF AlarmInv, AlarmTypes, AlarmSignals, JumpingInv
  <2>3. v1 = "sleep" => SleepInv'
    BY SleepCalls DEF AlarmInv, AlarmTypes, AlarmSignals, SleepInv
  <2>4. v1 \notin Jumping => v5'.act # "jump"
    BY DEF AlarmInv, AlarmTypes, AlarmSignals
  <2> QED BY <2>1, <2>2, <2>3, <2>4 DEF AlarmInv
<1>7. CASE Alarm!Unblock
  <2> USE <1>0, <1>7 DEF Alarm!Unblock, Alarm!Do, Alarm!Running
  <2>0. v5' \in AlarmSignals
    BY DEF AlarmTypes, AlarmSignals
  <2>1. v1' = v1 /\ AlarmTypes'
    BY <2>0 DEF AlarmTypes
  <2>2. v1 \in Jumping => JumpingInv'
    BY JumpingCalls DEF AlarmInv, AlarmTypes, AlarmSignals, JumpingInv
  <2>3. v1 = "sleep" => SleepInv'
    BY SleepCalls DEF AlarmInv, AlarmTypes, AlarmSignals, SleepInv
  <2>4. v1 \notin Jumping => v5'.act # "jump"
    BY DEF AlarmInv, AlarmTypes, AlarmSignals
  <2> QED BY <2>1, <2>2, <2>3, <2>4 DEF AlarmInv
<1>8. CASE Alarm!SendTo
  <2> USE <1>0, <1>8 DEF Alarm!SendTo, Alarm!Do, Alarm!Running
  <2>0. v5' \in AlarmSignals
    BY DEF AlarmTypes, AlarmSignals
  <2>1. v1' = v1 /\ AlarmTypes'
    BY <2>0 DEF AlarmTypes
  <2>2. v1 \in Jumping => JumpingInv'
    BY JumpingCalls DEF AlarmInv, AlarmTypes, AlarmSignals, JumpingInv
  <2>3. v1 = "sleep" => SleepInv'
    BY SleepCalls DEF AlarmInv, AlarmTypes, AlarmSignals, SleepInv
  <2>4. v1 \notin Jumping => v5'.act # "jump"
    BY DEF AlarmInv, AlarmTypes, AlarmSignals
  <2> QED BY <2>1, <2>2, <2>3, <2>4 DEF AlarmInv
<1>9. CASE Alarm!Wait
  <2> USE <1>0, <1>9 DEF Alarm!Wait, Alarm!Running, Alarm!Waits
  <2>0. v5' \in AlarmSignals
    BY DEF AlarmTypes, AlarmSignals
  <2>1. v1' = v1 /\ AlarmTypes'
    BY <2>0 DEF AlarmTypes
  <2>2. v1 \in Jumping => JumpingInv'
    BY JumpingCalls DEF AlarmInv, AlarmTypes, AlarmSignals, JumpingInv
  <2>3. v1 = "sleep" => SleepInv'
    BY SleepCalls DEF AlarmInv, AlarmTypes, AlarmSignals, SleepInv
  <2>4. v1 \notin Jumping => v5'.act # "jump"
    BY DEF AlarmInv, AlarmTypes, AlarmSignals
  <2> QED BY <2>1, <2>2, <2>3, <2>4 DEF AlarmInv
<1>10. CASE Alarm!Got
  <2> USE <1>0, <1>10 DEF Alarm!Got, Alarm!Running
  <2>0. v5' \in AlarmSignals
    BY DEF AlarmTypes, AlarmSignals
  <2>1. v1' = v1 /\ AlarmTypes'
    BY <2>0 DEF AlarmTypes
  <2>2. v1 \in Jumping => JumpingInv'
    BY JumpingCalls DEF AlarmInv, AlarmTypes, AlarmSignals, JumpingInv
  <2>3. v1 = "sleep" => SleepInv'
    BY SleepCalls DEF AlarmInv, AlarmTypes, AlarmSignals, SleepInv
  <2>4. v1 \notin Jumping => v5'.act # "jump"
    BY DEF AlarmInv, AlarmTypes, AlarmSignals
  <2> QED BY <2>1, <2>2, <2>3, <2>4 DEF AlarmInv
<1>11. CASE Alarm!IntReturns
  <2> USE <1>0, <1>11 DEF Alarm!IntReturns
  <2>0. v5' \in AlarmSignals
    BY DEF AlarmTypes, AlarmSignals
  <2>1. v1' = v1 /\ AlarmTypes'
    BY <2>0 DEF AlarmTypes
  <2>2. v1 \in Jumping => JumpingInv'
    BY JumpingCalls DEF AlarmInv, AlarmTypes, AlarmSignals, JumpingInv
  <2>3. v1 = "sleep" => SleepInv'
    BY SleepCalls DEF AlarmInv, AlarmTypes, AlarmSignals, SleepInv
  <2>4. v1 \notin Jumping => v5'.act # "jump"
    BY DEF AlarmInv, AlarmTypes, AlarmSignals
  <2> QED BY <2>1, <2>2, <2>3, <2>4 DEF AlarmInv
<1>12. CASE Alarm!Expire
  <2> USE <1>0, <1>12 DEF Alarm!Expire
  <2>0. v5' \in AlarmSignals
    BY DEF AlarmTypes, AlarmSignals
  <2>1. v1' = v1 /\ AlarmTypes'
    BY <2>0 DEF AlarmTypes
  <2>2. v1 \in Jumping => JumpingInv'
    BY JumpingCalls DEF AlarmInv, AlarmTypes, AlarmSignals, JumpingInv
  <2>3. v1 = "sleep" => SleepInv'
    BY SleepCalls DEF AlarmInv, AlarmTypes, AlarmSignals, SleepInv
  <2>4. v1 \notin Jumping => v5'.act # "jump"
    BY DEF AlarmInv, AlarmTypes, AlarmSignals
  <2> QED BY <2>1, <2>2, <2>3, <2>4 DEF AlarmInv
<1>13. CASE Alarm!sig_alrm
  <2> USE <1>0, <1>13 DEF Alarm!sig_alrm, Alarm!Running
  <2>0. v5' \in AlarmSignals
    BY DEF AlarmTypes, AlarmSignals
  <2>1. v1' = v1 /\ AlarmTypes'
    BY <2>0 DEF AlarmTypes
  <2>2. v1 \in Jumping => JumpingInv'
    BY JumpingCalls DEF AlarmInv, AlarmTypes, AlarmSignals, JumpingInv
  <2>3. v1 = "sleep" => SleepInv'
    BY SleepCalls DEF AlarmInv, AlarmTypes, AlarmSignals, SleepInv
  <2>4. v1 \notin Jumping => v5'.act # "jump"
    BY DEF AlarmInv, AlarmTypes, AlarmSignals
  <2> QED BY <2>1, <2>2, <2>3, <2>4 DEF AlarmInv
<1>14. CASE Alarm!sig_int
  <2> USE <1>0, <1>14 DEF Alarm!sig_int
  <2>0. v5' \in AlarmSignals
    BY DEF AlarmTypes, AlarmSignals
  <2>1. v1' = v1 /\ AlarmTypes'
    BY <2>0 DEF AlarmTypes
  <2>2. v1 \in Jumping => JumpingInv'
    BY JumpingCalls DEF AlarmInv, AlarmTypes, AlarmSignals, JumpingInv
  <2>3. v1 = "sleep" => SleepInv'
    BY SleepCalls DEF AlarmInv, AlarmTypes, AlarmSignals, SleepInv
  <2>4. v1 \notin Jumping => v5'.act # "jump"
    BY DEF AlarmInv, AlarmTypes, AlarmSignals
  <2> QED BY <2>1, <2>2, <2>3, <2>4 DEF AlarmInv
<1>15. CASE Alarm!serve
  <2> USE <1>0, <1>15 DEF Alarm!serve
  <2>0. v5' \in AlarmSignals
    BY DEF AlarmTypes, AlarmSignals
  <2>1. v1' = v1 /\ AlarmTypes'
    BY <2>0 DEF AlarmTypes
  <2>2. v1 \in Jumping => JumpingInv'
    BY JumpingCalls DEF AlarmInv, AlarmTypes, AlarmSignals, JumpingInv
  <2>3. v1 = "sleep" => SleepInv'
    BY SleepCalls DEF AlarmInv, AlarmTypes, AlarmSignals, SleepInv
  <2>4. v1 \notin Jumping => v5'.act # "jump"
    BY DEF AlarmInv, AlarmTypes, AlarmSignals
  <2> QED BY <2>1, <2>2, <2>3, <2>4 DEF AlarmInv
<1> QED BY <1>1, <1>2, <1>3, <1>4, <1>5, <1>6, <1>7, <1>8, <1>9, <1>10, <1>11, <1>12, <1>13, <1>14, <1>15 DEF Alarm!Next, Alarm!Program, Alarm!Kernel

\* It implies what WaitsSafely says of these programs.
LEMMA AlarmSafe ==
  ASSUME AlarmInv
  PROVE Alarm!NeverTooLate /\ Alarm!JumpIsSet
<1>1. Alarm!NeverTooLate
  BY DEF AlarmInv, AlarmTypes, JumpingInv, SleepInv, Jumping, Alarm!NeverTooLate, Alarm!TooLate, Alarm!Running, Alarm!Racy
<1>2. Alarm!JumpIsSet
  BY DEF AlarmInv, AlarmTypes, JumpingInv, Alarm!JumpIsSet
<1> QED BY <1>1, <1>2
-----------------------------------------------------------------------------
(* Tty: v1 prog, v2 pc, v3 tty, v4 ttystate, v5 saved, v6 blocked, v7 pending,
   v8 failed, v9 out. *)
Op(k, op) == v2 = k => Tty!ins.op = op
OpArg(k, op, arg) == v2 = k => Tty!ins.op = op /\ Tty!ins.arg = arg

\* The calls of t_raw.
LEMMA TRawCalls ==
  ASSUME v1 = "t_raw", v2 \in 1..16
  PROVE /\ Op(1, "catch") /\ Op(2, "check") /\ Op(3, "save") /\ OpArg(4, "set", Tty!Raw)
        /\ OpArg(5, "verify", Tty!Raw) /\ OpArg(6, "mark", "RAW") /\ Op(7, "read") /\ Op(8, "reset")
        /\ Op(9, "check") /\ Op(10, "save") /\ OpArg(11, "set", Tty!Cbreak)
        /\ OpArg(12, "verify", Tty!Cbreak) /\ OpArg(13, "mark", "CBREAK") /\ Op(14, "read")
        /\ Op(15, "reset") /\ Op(16, "exit")
BY DEF Op, OpArg, Tty!ins, Tty!I, Tty!Code, Tty!t_raw, Tty!tty_raw, Tty!tty_cbreak

\* The calls of exercise_1.
LEMMA Exercise1Calls ==
  ASSUME v1 = "exercise_1", v2 \in 1..6
  PROVE /\ Op(1, "check") /\ Op(2, "save") /\ OpArg(3, "set", Tty!Raw) /\ OpArg(4, "verify", Tty!Raw)
        /\ OpArg(5, "mark", "RAW") /\ Op(6, "exit")
BY DEF Op, OpArg, Tty!ins, Tty!I, Tty!Code, Tty!exercise_1, Tty!tty_raw

\* The calls of getpass.
LEMMA GetpassCalls ==
  ASSUME v1 = "getpass", v2 \in 1..7
  PROVE /\ OpArg(1, "block", {"INT", "TSTP"}) /\ Op(2, "save") /\ OpArg(3, "set", Tty!Echo)
        /\ Op(4, "read") /\ Op(5, "restore") /\ OpArg(6, "unblock", {}) /\ Op(7, "exit")
BY DEF Op, OpArg, Tty!ins, Tty!I, Tty!Code, Tty!getpass

\* What the terminal and ttystate are at each call, while the program runs.
TRawInv ==
  /\ v2 \in 1..16 /\ v6 = {}
  /\ v2 \notin {5, 6, 7, 8, 12, 13, 14, 15} => v3 = {}
  /\ v2 \in {4} \cup 5..8 \cup 11..15 => v5 = {}
  /\ v2 \in {6, 7, 8} => v3 = Tty!Raw
  /\ v2 \in {13, 14, 15} => v3 = Tty!Cbreak
  /\ v4 = IF v2 \in {7, 8} THEN "RAW" ELSE IF v2 \in {14, 15} THEN "CBREAK" ELSE "RESET"

\* The same in Chapter18/exercise_1.c, which only goes to raw mode.
Exercise1Inv ==
  /\ v2 \in 1..6
  /\ v2 \in 1..3 => v3 = {}
  /\ v2 \in 3..6 => v5 = {}
  /\ v2 \in 5..6 => v3 = Tty!Raw
  /\ v4 = IF v2 = 6 THEN "RAW" ELSE "RESET"

\* In getpass, echo is off while the line is read, and signals are blocked.
GetpassInv ==
  /\ v2 \in 1..7
  /\ v2 \in 1..3 => v3 = {}
  /\ v2 \in 3..7 => v5 = {}
  /\ v2 \in 6..7 => v3 = {} \/ v8
  /\ v2 \in 2..6 => v6 # {}
  /\ v4 = "RESET"

\* The invariant of the terminal programs, while the program runs and after.
TtyInv ==
  /\ v1 \in {"t_raw", "exercise_1", "getpass"}
  /\ v9 = "run" => /\ v1 = "t_raw" => TRawInv
                   /\ v1 = "exercise_1" => Exercise1Inv
                   /\ v1 = "getpass" => GetpassInv
  /\ Tty!TerminalRestored /\ Tty!SavedIsOriginal

\* The terminal is in its original mode.
LEMMA TtyStarts ==
  ASSUME Tty!Init
  PROVE TtyInv
BY DEF Tty!Init, TtyInv, TRawInv, Exercise1Inv, GetpassInv, Tty!TerminalRestored, Tty!SavedIsOriginal

\* Every call keeps it, also one that fails or is interrupted.
LEMMA TtyKept ==
  ASSUME TtyInv, Tty!Next
  PROVE TtyInv'
<1>0. Tty!Raw # {} /\ Tty!Cbreak # {} /\ Tty!Echo # {}
  BY DEF Tty!Raw, Tty!Cbreak, Tty!Echo
<1>1. CASE Tty!Signals
  <2> USE <1>0, <1>1 DEF Tty!Signals, Tty!At, Tty!Step, Op, OpArg, Tty!TerminalRestored, Tty!SavedIsOriginal
  <2>1. CASE v1 = "t_raw"
    BY <2>1, TRawCalls DEF TtyInv, TRawInv
  <2>2. CASE v1 = "exercise_1"
    BY <2>2, Exercise1Calls DEF TtyInv, Exercise1Inv
  <2>3. CASE v1 = "getpass"
    BY <2>3, GetpassCalls DEF TtyInv, GetpassInv
  <2> QED BY <2>1, <2>2, <2>3 DEF TtyInv
<1>2. CASE Tty!check
  <2> USE <1>0, <1>2 DEF Tty!check, Tty!At, Tty!Step, Tty!Quit, Op, OpArg, Tty!TerminalRestored, Tty!SavedIsOriginal
  <2>1. CASE v1 = "t_raw"
    BY <2>1, TRawCalls DEF TtyInv, TRawInv
  <2>2. CASE v1 = "exercise_1"
    BY <2>2, Exercise1Calls DEF TtyInv, Exercise1Inv
  <2>3. CASE v1 = "getpass"
    BY <2>3, GetpassCalls DEF TtyInv, GetpassInv
  <2> QED BY <2>1, <2>2, <2>3 DEF TtyInv
<1>3. CASE Tty!tcgetattr
  <2> USE <1>0, <1>3 DEF Tty!tcgetattr, Tty!At, Tty!Step, Op, OpArg, Tty!TerminalRestored, Tty!SavedIsOriginal
  <2>1. CASE v1 = "t_raw"
    BY <2>1, TRawCalls DEF TtyInv, TRawInv
  <2>2. CASE v1 = "exercise_1"
    BY <2>2, Exercise1Calls DEF TtyInv, Exercise1Inv
  <2>3. CASE v1 = "getpass"
    BY <2>3, GetpassCalls DEF TtyInv, GetpassInv
  <2> QED BY <2>1, <2>2, <2>3 DEF TtyInv
<1>4. CASE Tty!tcsetattr
  <2> USE <1>0, <1>4 DEF Tty!tcsetattr, Tty!At, Tty!Step, Tty!Quit, Op, OpArg, Tty!TerminalRestored, Tty!SavedIsOriginal
  <2>1. CASE v1 = "t_raw"
    BY <2>1, TRawCalls DEF TtyInv, TRawInv
  <2>2. CASE v1 = "exercise_1"
    BY <2>2, Exercise1Calls DEF TtyInv, Exercise1Inv
  <2>3. CASE v1 = "getpass"
    BY <2>3, GetpassCalls DEF TtyInv, GetpassInv
  <2> QED BY <2>1, <2>2, <2>3 DEF TtyInv
<1>5. CASE Tty!verify
  <2> USE <1>0, <1>5 DEF Tty!verify, Tty!At, Tty!Step, Tty!verified, Tty!Quit, Op, OpArg, Tty!TerminalRestored, Tty!SavedIsOriginal
  <2>1. CASE v1 = "t_raw"
    BY <2>1, TRawCalls DEF TtyInv, TRawInv
  <2>2. CASE v1 = "exercise_1"
    BY <2>2, Exercise1Calls DEF TtyInv, Exercise1Inv
  <2>3. CASE v1 = "getpass"
    BY <2>3, GetpassCalls DEF TtyInv, GetpassInv
  <2> QED BY <2>1, <2>2, <2>3 DEF TtyInv
<1>6. CASE Tty!mark
  <2> USE <1>0, <1>6 DEF Tty!mark, Tty!At, Tty!Step, Op, OpArg, Tty!TerminalRestored, Tty!SavedIsOriginal
  <2>1. CASE v1 = "t_raw"
    BY <2>1, TRawCalls DEF TtyInv, TRawInv
  <2>2. CASE v1 = "exercise_1"
    BY <2>2, Exercise1Calls DEF TtyInv, Exercise1Inv
  <2>3. CASE v1 = "getpass"
    BY <2>3, GetpassCalls DEF TtyInv, GetpassInv
  <2> QED BY <2>1, <2>2, <2>3 DEF TtyInv
<1>7. CASE Tty!read
  <2> USE <1>0, <1>7 DEF Tty!read, Tty!At, Tty!Step, Op, OpArg, Tty!TerminalRestored, Tty!SavedIsOriginal
  <2>1. CASE v1 = "t_raw"
    BY <2>1, TRawCalls DEF TtyInv, TRawInv
  <2>2. CASE v1 = "exercise_1"
    BY <2>2, Exercise1Calls DEF TtyInv, Exercise1Inv
  <2>3. CASE v1 = "getpass"
    BY <2>3, GetpassCalls DEF TtyInv, GetpassInv
  <2> QED BY <2>1, <2>2, <2>3 DEF TtyInv
<1>8. CASE Tty!tty_reset
  <2> USE <1>0, <1>8 DEF Tty!tty_reset, Tty!At, Tty!Step, Tty!Quit, Tty!ResetTo, Op, OpArg, Tty!TerminalRestored, Tty!SavedIsOriginal
  <2>1. CASE v1 = "t_raw"
    BY <2>1, TRawCalls DEF TtyInv, TRawInv
  <2>2. CASE v1 = "exercise_1"
    BY <2>2, Exercise1Calls DEF TtyInv, Exercise1Inv
  <2>3. CASE v1 = "getpass"
    BY <2>3, GetpassCalls DEF TtyInv, GetpassInv
  <2> QED BY <2>1, <2>2, <2>3 DEF TtyInv
<1>9. CASE Tty!restore
  <2> USE <1>0, <1>9 DEF Tty!restore, Tty!At, Tty!Step, Op, OpArg, Tty!TerminalRestored, Tty!SavedIsOriginal
  <2>1. CASE v1 = "t_raw"
    BY <2>1, TRawCalls DEF TtyInv, TRawInv
  <2>2. CASE v1 = "exercise_1"
    BY <2>2, Exercise1Calls DEF TtyInv, Exercise1Inv
  <2>3. CASE v1 = "getpass"
    BY <2>3, GetpassCalls DEF TtyInv, GetpassInv
  <2> QED BY <2>1, <2>2, <2>3 DEF TtyInv
<1>10. CASE Tty!exit
  <2> USE <1>0, <1>10 DEF Tty!exit, Tty!At, Tty!Step, Tty!Quit, Op, OpArg, Tty!TerminalRestored, Tty!SavedIsOriginal
  <2>1. CASE v1 = "t_raw"
    BY <2>1, TRawCalls DEF TtyInv, TRawInv
  <2>2. CASE v1 = "exercise_1"
    BY <2>2, Exercise1Calls DEF TtyInv, Exercise1Inv
  <2>3. CASE v1 = "getpass"
    BY <2>3, GetpassCalls DEF TtyInv, GetpassInv
  <2> QED BY <2>1, <2>2, <2>3 DEF TtyInv
<1>11. CASE Tty!sig_catch
  <2> USE <1>0, <1>11 DEF Tty!sig_catch, Tty!Quit, Tty!ResetTo, Op, OpArg, Tty!TerminalRestored, Tty!SavedIsOriginal
  <2>0. Tty!ins' = Tty!ins /\ v9 = "run" /\ v9' # "run"
    BY DEF Tty!ins, Tty!Code
  <2>1. CASE v1 = "t_raw"
    <3>0. TRawInv
      BY <2>0, <2>1 DEF TtyInv
    <3>1. CASE v2 = 1
      BY <2>0, <2>1, <3>0, <3>1 DEF TtyInv, TRawInv
    <3>2. CASE v2 # 1
      <4>1. PICK ok \in BOOLEAN : /\ v3' = (IF v4 = "RESET" \/ ~ok THEN v3 ELSE v5) /\ v8' = ~ok
                                 /\ v9' = "caught" /\ v4' = (IF ok THEN "RESET" ELSE v4)
        BY <2>1, <3>0, <3>2 DEF TRawInv
      <4>2. v1' = v1 /\ v5' = v5
        OBVIOUS
      <4>3. v2 \in {5, 6, 12, 13} => Tty!ins.op \in {"verify", "mark"}
        BY <2>1, <3>0, TRawCalls DEF TRawInv
      <4>4. Tty!TerminalRestored'
        <5>1. CASE ~ok
          BY <4>1, <5>1
        <5>2. CASE ok
          <6>1. CASE v2 \in {5, 6, 12, 13}
            <7>1. v9' = "caught" /\ Tty!ins'.op \in {"verify", "mark"}
              BY <2>0, <4>1, <4>3, <6>1
            <7> QED BY <7>1
          <6>2. CASE v2 \notin {5, 6, 12, 13}
            <7>1. v3' = {}
              BY <3>0, <4>1, <5>2, <6>2 DEF TRawInv
            <7> QED BY <7>1
          <6> QED BY <6>1, <6>2
        <5> QED BY <5>1, <5>2
      <4>5. Tty!SavedIsOriginal'
        BY <3>0, <4>1, <4>2 DEF TRawInv
      <4> QED BY <2>0, <2>1, <4>2, <4>4, <4>5 DEF TtyInv
    <3> QED BY <3>1, <3>2
  <2>2. CASE v1 = "exercise_1"
    BY <2>2, Exercise1Calls DEF TtyInv, Exercise1Inv
  <2>3. CASE v1 = "getpass"
    BY <2>3, GetpassCalls DEF TtyInv, GetpassInv
  <2> QED BY <2>1, <2>2, <2>3 DEF TtyInv
<1>12. CASE \E s \in {"INT", "TERM"} : Tty!Send(s)
  BY <1>12 DEF Tty!Send, TtyInv, TRawInv, Exercise1Inv, GetpassInv, Tty!TerminalRestored, Tty!SavedIsOriginal
<1> QED BY <1>1, <1>2, <1>3, <1>4, <1>5, <1>6, <1>7, <1>8, <1>9, <1>10, <1>11, <1>12 DEF Tty!Next, Tty!Process
-----------------------------------------------------------------------------
(* Pty: v1 opt, v2 parent, v3 child, v4 program, v6 term, v7 tty, v8 lines,
   v9 outside. *)
PtyParents == [pc : {"start", "setup", "driver", "fork", "signal", "read", "blocked", "write", "end", "gone"},
               handler : BOOLEAN, caught : BOOLEAN]

\* The places of the parent, the child and the other parts of pty.
PtyTypes ==
  /\ v2 \in PtyParents
  /\ v3 \in {"none", "read", "exit", "gone"}
  /\ v7 \in {"normal", "raw", "reset"}
  /\ v8 \in [n : Nat, total : Nat]

\* A SIGTERM for the parent comes from outside or from a child that is about to
\* exit, one for the child from a parent that has put the mode back; and the
\* copying child has put it back when it is gone.
PtyInv ==
  /\ PtyTypes
  /\ v2.pc \in {"start", "setup"} => v7 = "normal"
  /\ v2.pc \in {"start", "setup", "driver", "fork", "signal"} => ~v2.handler
  /\ v2.pc \in {"start", "setup", "driver", "fork"} => v3 = "none"
  /\ "parent" \in v6 => v9 \/ v3 \in {"exit", "gone"}
  /\ "child" \in v6 => v7 # "raw" /\ v2.pc = "gone"
  /\ v3 = "gone" => v7 # "raw"
  /\ v2.pc = "end" /\ ~v2.caught => v8.n = 0 /\ v4 \in {"none", "gone"}
  /\ Pty!TerminalBack

\* Nothing has been forked.
LEMMA PtyStarts ==
  ASSUME Pty!Init
  PROVE PtyInv
<1>1. PtyTypes
  BY DEF Pty!Init, PtyTypes, PtyParents
<1> QED BY <1>1 DEF Pty!Init, PtyInv, Pty!TerminalBack

\* Every step of every process keeps it.
LEMMA PtyKept ==
  ASSUME PtyInv, Pty!Next
  PROVE PtyInv'
<1>1. CASE Pty!pty_fork
  <2> USE <1>1 DEF Pty!pty_fork, Pty!At, Pty!Go
  <2>1. PtyTypes'
    BY DEF PtyInv, PtyTypes, PtyParents
  <2> QED BY <2>1 DEF PtyInv, PtyTypes, PtyParents, Pty!TerminalBack
<1>2. CASE Pty!raw_mode
  <2> USE <1>2 DEF Pty!raw_mode, Pty!At, Pty!Go, Pty!Raw
  <2>1. PtyTypes'
    BY DEF PtyInv, PtyTypes, PtyParents
  <2> QED BY <2>1 DEF PtyInv, PtyTypes, PtyParents, Pty!TerminalBack
<1>3. CASE Pty!do_driver
  <2> USE <1>3 DEF Pty!do_driver, Pty!At, Pty!Go, Pty!ExitHandlers
  <2>1. PtyTypes'
    BY DEF PtyInv, PtyTypes, PtyParents
  <2> QED BY <2>1 DEF PtyInv, PtyTypes, PtyParents, Pty!TerminalBack
<1>4. CASE Pty!fork
  <2> USE <1>4 DEF Pty!fork, Pty!At, Pty!Go, Pty!ExitHandlers
  <2>1. PtyTypes'
    BY DEF PtyInv, PtyTypes, PtyParents
  <2> QED BY <2>1 DEF PtyInv, PtyTypes, PtyParents, Pty!TerminalBack
<1>5. CASE Pty!signal_intr
  <2> USE <1>5 DEF Pty!signal_intr, Pty!At
  <2>1. PtyTypes'
    BY DEF PtyInv, PtyTypes, PtyParents
  <2> QED BY <2>1 DEF PtyInv, PtyTypes, PtyParents, Pty!TerminalBack
<1>6. CASE Pty!enter_read
  <2> USE <1>6 DEF Pty!enter_read, Pty!At, Pty!Go
  <2>1. PtyTypes'
    BY DEF PtyInv, PtyTypes, PtyParents
  <2> QED BY <2>1 DEF PtyInv, PtyTypes, PtyParents, Pty!TerminalBack
<1>7. CASE Pty!read
  <2> USE <1>7 DEF Pty!read, Pty!At, Pty!Go, Pty!slave_closed, Pty!Gone
  <2>1. PtyTypes'
    BY DEF PtyInv, PtyTypes, PtyParents
  <2> QED BY <2>1 DEF PtyInv, PtyTypes, PtyParents, Pty!TerminalBack
<1>8. CASE Pty!writen
  <2> USE <1>8 DEF Pty!writen, Pty!At, Pty!Go, Pty!ExitHandlers
  <2>1. PtyTypes'
    BY DEF PtyInv, PtyTypes, PtyParents
  <2> QED BY <2>1 DEF PtyInv, PtyTypes, PtyParents, Pty!TerminalBack
<1>9. CASE Pty!finish
  <2> USE <1>9 DEF Pty!finish, Pty!At, Pty!Go, Pty!ExitHandlers, Pty!tell_child, Pty!Gone
  <2>1. PtyTypes'
    BY DEF PtyInv, PtyTypes, PtyParents
  <2> QED BY <2>1 DEF PtyInv, PtyTypes, PtyParents, Pty!TerminalBack
<1>10. CASE Pty!sig_term
  <2> USE <1>10 DEF Pty!sig_term, Pty!Go, Pty!ExitHandlers
  <2>1. PtyTypes'
    BY DEF PtyInv, PtyTypes, PtyParents
  <2> QED BY <2>1 DEF PtyInv, PtyTypes, PtyParents, Pty!TerminalBack
<1>11. CASE Pty!child_exit
  <2> USE <1>11 DEF Pty!child_exit, Pty!ExitHandlers
  <2>1. PtyTypes'
    BY DEF PtyInv, PtyTypes, PtyParents
  <2> QED BY <2>1 DEF PtyInv, PtyTypes, PtyParents, Pty!TerminalBack
<1>12. CASE Pty!child_killed
  <2> USE <1>12 DEF Pty!child_killed
  <2>1. PtyTypes'
    BY DEF PtyInv, PtyTypes, PtyParents
  <2> QED BY <2>1 DEF PtyInv, PtyTypes, PtyParents, Pty!TerminalBack
<1>13. CASE Pty!program_hup
  <2> USE <1>13 DEF Pty!program_hup, Pty!Masters, Pty!Gone
  <2>1. PtyTypes'
    BY DEF PtyInv, PtyTypes, PtyParents
  <2> QED BY <2>1 DEF PtyInv, PtyTypes, PtyParents, Pty!TerminalBack
<1>14. CASE Pty!driver_ends
  <2> USE <1>14 DEF Pty!driver_ends, Pty!Gone
  <2>1. PtyTypes'
    BY DEF PtyInv, PtyTypes, PtyParents
  <2> QED BY <2>1 DEF PtyInv, PtyTypes, PtyParents, Pty!TerminalBack
<1>15. CASE Pty!stdin_eof
  <2> USE <1>15 DEF Pty!stdin_eof, Pty!notify
  <2>1. PtyTypes'
    BY DEF PtyInv, PtyTypes, PtyParents
  <2> QED BY <2>1 DEF PtyInv, PtyTypes, PtyParents, Pty!TerminalBack
<1>16. CASE Pty!child_error
  <2> USE <1>16 DEF Pty!child_error
  <2>1. PtyTypes'
    BY DEF PtyInv, PtyTypes, PtyParents
  <2> QED BY <2>1 DEF PtyInv, PtyTypes, PtyParents, Pty!TerminalBack
<1>17. CASE Pty!program_writes
  <2> USE <1>17 DEF Pty!program_writes
  <2>1. PtyTypes'
    BY DEF PtyInv, PtyTypes, PtyParents
  <2> QED BY <2>1 DEF PtyInv, PtyTypes, PtyParents, Pty!TerminalBack
<1>18. CASE Pty!program_ends
  <2> USE <1>18 DEF Pty!program_ends
  <2>1. PtyTypes'
    BY DEF PtyInv, PtyTypes, PtyParents
  <2> QED BY <2>1 DEF PtyInv, PtyTypes, PtyParents, Pty!TerminalBack
<1>19. CASE Pty!kill_parent
  <2> USE <1>19 DEF Pty!kill_parent, Pty!Gone
  <2>1. PtyTypes'
    BY DEF PtyInv, PtyTypes, PtyParents
  <2> QED BY <2>1 DEF PtyInv, PtyTypes, PtyParents, Pty!TerminalBack
<1> QED BY <1>1, <1>2, <1>3, <1>4, <1>5, <1>6, <1>7, <1>8, <1>9, <1>10, <1>11, <1>12, <1>13, <1>14, <1>15, <1>16, <1>17, <1>18, <1>19 DEF Pty!Next, Pty!Parent, Pty!Child, Pty!Others

\* It implies that no output is left behind.
LEMMA PtyCopies ==
  ASSUME PtyInv
  PROVE Pty!OutputCopied
BY DEF PtyInv, Pty!OutputCopied
-----------------------------------------------------------------------------
(* AsyncIO: v1 todo, v2 handler, v4 sock, v5 early, v6 set, v7 pending. *)
\* What main has before it is the rest of main, and the calls in force then.
AsyncCalls == {"nonblock", "signal", "own", "async", "loop", "end"}
AsyncLeft == Len(v1)
AsyncTodo ==
  /\ v1 \in Seq(AsyncCalls) /\ AsyncLeft \in 1..10
  /\ \A i \in 1..AsyncLeft : v1[i] = Async!main[i + 10 - AsyncLeft]
AsyncSet ==
  /\ AsyncLeft > 1 => ("nonblock" \in v6 <=> AsyncLeft < 10)
  /\ AsyncLeft > 1 => ("signal" \in v6 <=> AsyncLeft \in 3..8)
  /\ AsyncLeft > 1 => ("own" \in v6 <=> AsyncLeft \in 4..7)
  /\ AsyncLeft > 1 => ("async" \in v6 <=> AsyncLeft \in 5..6)

\* The invariant of asynchronous I/O.
AsyncInv ==
  /\ AsyncTodo /\ AsyncSet
  /\ v2 \in BOOLEAN /\ v7 \in BOOLEAN /\ v5 \in Nat
  /\ v4 \in Seq({"stop", "text", "hup"})
  \* SIGIO can be on its way only while the handler is registered
  /\ v2 \/ v7 => AsyncLeft \in 5..6
  /\ AsyncLeft > 6 => v5 = Len(v4)
  /\ AsyncLeft = 6 => v2 \/ v7 \/ Async!Lines <= v5

\* enable_async_io, the loop, disable_async_io and the end.
LEMMA AsyncMain ==
  /\ Async!main \in Seq(AsyncCalls) /\ Len(Async!main) = 10
  /\ Async!main[1] = "nonblock" /\ Async!main[2] = "signal" /\ Async!main[3] = "own"
  /\ Async!main[4] = "async" /\ Async!main[5] = "loop" /\ Async!main[6] = "async"
  /\ Async!main[7] = "own" /\ Async!main[8] = "signal" /\ Async!main[9] = "nonblock"
  /\ Async!main[10] = "end"
BY DEF Async!main, Async!enable_async_io, Async!disable_async_io, AsyncCalls

\* Nothing has been called.
LEMMA AsyncStarts ==
  ASSUME Async!Init
  PROVE AsyncInv
<1> USE DEF Async!Init
<1>0. AsyncLeft = 10
  BY DEF AsyncLeft, Async!main, Async!enable_async_io, Async!disable_async_io
<1>1. AsyncTodo
  BY <1>0, AsyncMain DEF AsyncTodo
<1>2. AsyncSet
  BY <1>0 DEF AsyncSet
<1>3. v4 \in Seq({"stop", "text", "hup"}) /\ v5 = Len(v4) /\ v5 \in Nat
  OBVIOUS
<1>4. (v2 <=> FALSE) /\ (v7 <=> FALSE) /\ v2 \in BOOLEAN /\ v7 \in BOOLEAN
  OBVIOUS
<1> HIDE DEF Async!Init
<1> QED BY <1>0, <1>1, <1>2, <1>3, <1>4 DEF AsyncInv

\* The end is a sequence of one call.
LEMMA AsyncEnded ==
  ASSUME AsyncTodo
  PROVE /\ Async!Ended <=> AsyncLeft = 1
        /\ v1 # <<"killed">>
<1>1. AsyncLeft = 1 => v1 = <<"end">>
  BY AsyncMain DEF AsyncTodo, AsyncLeft
<1>2. v1 = <<"end">> \/ v1 = <<"killed">> => AsyncLeft = 1
  BY DEF AsyncLeft
<1>3. v1 # <<"killed">>
  BY <1>1, <1>2
<1> QED BY <1>1, <1>2, <1>3 DEF Async!Ended

\* The next call, told from how many are left.
LEMMA AsyncHead ==
  ASSUME AsyncTodo, AsyncLeft > 1
  PROVE /\ AsyncLeft = 2 => Head(v1) = "nonblock"
        /\ AsyncLeft = 3 => Head(v1) = "signal"
        /\ AsyncLeft = 4 => Head(v1) = "own"
        /\ AsyncLeft = 5 => Head(v1) = "async"
        /\ AsyncLeft = 6 => Head(v1) = "loop"
        /\ AsyncLeft = 7 => Head(v1) = "async"
        /\ AsyncLeft = 8 => Head(v1) = "own"
        /\ AsyncLeft = 9 => Head(v1) = "signal"
        /\ AsyncLeft = 10 => Head(v1) = "nonblock"
<1>1. Head(v1) = v1[1] /\ AsyncLeft \in 2..10
  BY DEF AsyncTodo, AsyncLeft
<1>2. v1[1] = Async!main[11 - AsyncLeft]
  BY <1>1 DEF AsyncTodo
<1>3. AsyncLeft = 2 => Head(v1) = Async!main[9]
  BY <1>1, <1>2
<1>4. AsyncLeft = 3 => Head(v1) = Async!main[8]
  BY <1>1, <1>2
<1>5. AsyncLeft = 4 => Head(v1) = Async!main[7]
  BY <1>1, <1>2
<1>6. AsyncLeft = 5 => Head(v1) = Async!main[6]
  BY <1>1, <1>2
<1>7. AsyncLeft = 6 => Head(v1) = Async!main[5]
  BY <1>1, <1>2
<1>8. AsyncLeft = 7 => Head(v1) = Async!main[4]
  BY <1>1, <1>2
<1>9. AsyncLeft = 8 => Head(v1) = Async!main[3]
  BY <1>1, <1>2
<1>10. AsyncLeft = 9 => Head(v1) = Async!main[2]
  BY <1>1, <1>2
<1>11. AsyncLeft = 10 => Head(v1) = Async!main[1]
  BY <1>1, <1>2
<1> QED BY <1>1, <1>3, <1>4, <1>5, <1>6, <1>7, <1>8, <1>9, <1>10, <1>11, AsyncMain

\* A call that is made is no longer before main.
LEMMA AsyncTail ==
  ASSUME AsyncTodo, AsyncLeft > 1, v1' = Tail(v1)
  PROVE AsyncTodo' /\ AsyncLeft' = AsyncLeft - 1
<1>1. PICK k \in 2..10 : k = AsyncLeft
  BY DEF AsyncTodo
<1>2. /\ v1' \in Seq(AsyncCalls) /\ AsyncLeft' = k - 1
      /\ \A i \in 1..(k - 1) : v1'[i] = v1[i + 1]
  BY <1>1 DEF AsyncTodo, AsyncLeft
<1>3. \A i \in 1..k : v1[i] = Async!main[i + 10 - k]
  BY <1>1 DEF AsyncTodo
<1>4. \A i \in 1..(k - 1) : v1'[i] = Async!main[(i + 1) + 10 - k]
  <2>1. ASSUME NEW i \in 1..(k - 1) PROVE v1'[i] = Async!main[(i + 1) + 10 - k]
    <3>1. i + 1 \in 1..k
      OBVIOUS
    <3>2. v1'[i] = v1[i + 1]
      BY <1>2
    <3> QED BY <3>1, <3>2, <1>3
  <2> QED BY <2>1
<1>5. \A i \in 1..(k - 1) : (i + 1) + 10 - k = i + 10 - (k - 1)
  OBVIOUS
<1>6. \A i \in 1..(k - 1) : v1'[i] = Async!main[i + 10 - (k - 1)]
  BY <1>4, <1>5
<1>7. Async!main' = Async!main
  BY DEF Async!main, Async!enable_async_io, Async!disable_async_io
<1> DEFINE m == Async!main
<1>8. AsyncLeft' = k - 1 /\ k - 1 \in 1..10 /\ \A i \in 1..(k - 1) : v1'[i] = m'[i + 10 - (k - 1)]
  <2>1. ASSUME NEW i \in 1..(k - 1) PROVE v1'[i] = m'[i + 10 - (k - 1)]
    BY <1>6, <1>7
  <2>2. k - 1 \in 1..10
    OBVIOUS
  <2> HIDE DEF m
  <2> QED BY <1>2, <2>1, <2>2
<1> QED BY <1>1, <1>2, <1>8 DEF AsyncTodo

\* What has arrived is at most the socket's queue.
LEMMA AsyncLines ==
  ASSUME v4 \in Seq({"stop", "text", "hup"})
  PROVE Async!Lines \in Nat /\ Async!Lines <= Len(v4)
<1>1. Async!Closed => Len(v4) > 0
  BY DEF Async!Closed
<1> QED BY <1>1 DEF Async!Lines

\* AsyncInv is inductive.
LEMMA AsyncKept ==
  ASSUME AsyncInv, Async!Next
  PROVE AsyncInv'
<1>t. AsyncTodo /\ AsyncSet
  BY DEF AsyncInv
<1>e. (Async!Ended <=> AsyncLeft = 1) /\ AsyncLeft \in 1..10
  BY <1>t, AsyncEnded DEF AsyncTodo
<1>i. /\ v2 \in BOOLEAN /\ v7 \in BOOLEAN /\ v5 \in Nat
      /\ v4 \in Seq({"stop", "text", "hup"})
      /\ v2 \/ v7 => AsyncLeft \in 5..6
      /\ AsyncLeft > 6 => v5 = Len(v4)
      /\ AsyncLeft = 6 => v2 \/ v7 \/ Async!Lines <= v5
  BY DEF AsyncInv
<1>l. Async!Lines \in Nat /\ Async!Lines <= Len(v4)
  BY <1>i, AsyncLines
<1>s. v4' = v4 => Async!Lines' = Async!Lines
  BY DEF Async!Lines, Async!Closed
<1>v. v1' = v1 => AsyncLeft' = AsyncLeft
  BY DEF AsyncLeft
<1>1. CASE Async!Call
  <2>a. ~Async!Ended /\ Head(v1) # "loop"
    BY <1>1 DEF Async!Call, Async!InMain
  <2>0. AsyncLeft > 1 /\ Head(v1) # "loop"
    BY <2>a, <1>e
  <2>1. /\ AsyncLeft > 1 /\ AsyncLeft # 6 /\ ~v2 /\ ~v7 /\ v1' = Tail(v1)
        /\ v6' = IF Head(v1) \in v6 THEN v6 \ {Head(v1)} ELSE v6 \cup {Head(v1)}
        /\ v2' = v2 /\ v4' = v4 /\ v5' = v5 /\ v7' = v7
    BY <1>1, <2>0, <1>t, <1>e, AsyncHead DEF Async!Call, Async!InMain
  <2>2. AsyncTodo' /\ AsyncLeft' = AsyncLeft - 1
    BY <2>1, <1>t, AsyncTail
  <2>3. AsyncSet'
    BY <2>1, <2>2, <1>t, <1>e, AsyncHead DEF AsyncSet
  <2> QED BY <1>i, <1>v, <1>e, <2>1, <2>2, <2>3, <1>e, <1>l, <1>s DEF AsyncInv
<1>2. CASE Async!CallFails
  <2>1. ~v2 /\ ~v7 /\ v1' = <<"end">> /\ v2' = v2 /\ v4' = v4 /\ v5' = v5 /\ v7' = v7
    BY <1>2 DEF Async!CallFails, Async!InMain
  <2>2. AsyncLeft' = 1 /\ v1' \in Seq(AsyncCalls) /\ v1'[1] = "end"
    BY <2>1 DEF AsyncCalls, AsyncLeft
  <2>3. AsyncTodo' /\ AsyncSet'
    BY <2>2, AsyncMain DEF AsyncTodo, AsyncLeft, AsyncSet, Async!main, Async!enable_async_io, Async!disable_async_io
  <2> QED BY <1>i, <1>v, <1>e, <2>1, <2>2, <2>3 DEF AsyncInv
<1>3. CASE Async!Loop
  <2>a. ~Async!Ended /\ Head(v1) = "loop"
    BY <1>3 DEF Async!Loop, Async!InMain
  <2>0. AsyncLeft > 1 /\ Head(v1) = "loop"
    BY <2>a, <1>e
  <2>1. /\ AsyncLeft = 6 /\ ~v2 /\ ~v7 /\ v1' = Tail(v1) /\ v6' = v6
        /\ v2' = v2 /\ v4' = v4 /\ v5' = v5 /\ v7' = v7
    BY <1>3, <2>0, <1>t, <1>e, AsyncHead DEF Async!Loop, Async!InMain
  <2>2. AsyncTodo' /\ AsyncLeft' = 5
    BY <2>1, <1>t, AsyncTail
  <2>3. AsyncSet'
    BY <2>1, <2>2, <1>t DEF AsyncSet
  <2> QED BY <1>i, <1>v, <1>e, <2>1, <2>2, <2>3 DEF AsyncInv
<1>4. CASE Async!sigio_handler
  <2>1. v2 /\ v1' = v1 /\ v6' = v6 /\ v7' = v7 /\ AsyncLeft \in 5..6
    BY <1>4, <1>i DEF Async!sigio_handler, Async!ReadSome, Async!ReadNone
  <2>2. AsyncTodo' /\ AsyncSet'
    BY <1>t, <2>1 DEF AsyncTodo, AsyncLeft, AsyncSet, Async!main, Async!enable_async_io, Async!disable_async_io
  <2>3. CASE Async!ReadSome(FALSE)
    <3>1. PICK n \in Nat : n > 0 /\ n <= Async!Lines /\ v4' = SubSeq(v4, n + 1, Len(v4)) /\ v5' = 0 /\ v2' = TRUE
      <4>1. Async!Least(BUFLEN, Async!Lines) \in Nat /\ Async!Least(BUFLEN, Async!Lines) <= Async!Lines
        BY <1>l, ProgramsAssumption DEF Async!Least, Async!AsyncIOAssumption
      <4> QED BY <2>3, <4>1 DEF Async!ReadSome
    <3>2. v4' \in Seq({"stop", "text", "hup"})
      BY <1>i, <3>1, <1>l
    <3> QED BY <1>i, <1>v, <1>e, <2>1, <2>2, <3>1, <3>2 DEF AsyncInv
  <2>4. CASE Async!ReadNone
    <3>1. v2' = FALSE /\ v4' = v4 /\ v5' = v5 /\ Async!Lines = 0
      BY <2>4 DEF Async!ReadNone
    <3>2. v2' \in BOOLEAN /\ (v2' <=> FALSE)
      BY <3>1
    <3>3. Async!Lines' <= v5'
      <4>1. Async!Lines' = 0 /\ v5' \in Nat
        BY <1>i, <3>1, <1>s
      <4> QED BY <4>1
    <3> QED BY <1>i, <1>v, <1>e, <2>1, <2>2, <3>1, <3>2, <3>3 DEF AsyncInv
  <2> QED BY <1>4, <2>3, <2>4 DEF Async!sigio_handler
<1>5. CASE Async!Sigio
  <2>1. v7 /\ AsyncLeft \in 5..6 /\ "signal" \in v6
    BY <1>5, <1>i, <1>t DEF Async!Sigio, AsyncSet
  <2>2. v7' = FALSE /\ v2' = TRUE /\ v1' = v1 /\ v4' = v4 /\ v5' = v5 /\ v6' = v6
    BY <1>5, <2>1 DEF Async!Sigio
  <2>3. AsyncTodo' /\ AsyncSet'
    BY <1>t, <2>2 DEF AsyncTodo, AsyncLeft, AsyncSet, Async!main, Async!enable_async_io, Async!disable_async_io
  <2> QED BY <1>i, <1>v, <1>e, <2>1, <2>2, <2>3, <1>s DEF AsyncInv
<1>6. CASE Async!Peer
  <2>1. PICK l \in {"stop", "text", "hup"} : Async!Arrives(l)
    BY <1>6 DEF Async!Peer, Async!Send, Async!Hangup
  <2>2. /\ AsyncLeft > 1 /\ v1' = v1 /\ v2' = v2 /\ v6' = v6 /\ v4' = Append(v4, l)
        /\ v7' = (v7 \/ {"own", "async"} \subseteq v6)
        /\ v5' = IF "async" \in v6 THEN v5 ELSE v5 + 1
    BY <2>1, <1>e DEF Async!Arrives
  <2>3. AsyncTodo' /\ AsyncSet'
    BY <1>t, <2>2 DEF AsyncTodo, AsyncLeft, AsyncSet, Async!main, Async!enable_async_io, Async!disable_async_io
  <2>4. v4' \in Seq({"stop", "text", "hup"}) /\ Len(v4') = Len(v4) + 1
    BY <1>i, <2>2
  <2>5. /\ "async" \in v6 <=> AsyncLeft \in 5..6
        /\ "own" \in v6 <=> AsyncLeft \in 4..7
    BY <1>t, <2>2 DEF AsyncSet
  <2>6. v7' <=> (v7 \/ AsyncLeft \in 5..6)
    <3>1. v7' <=> v7 \/ ("own" \in v6 /\ "async" \in v6)
      BY <2>2
    <3> QED BY <3>1, <2>5, <1>e
  <2>7. v5' \in Nat /\ (AsyncLeft > 6 => v5' = v5 + 1)
    BY <1>i, <1>e, <2>2, <2>5
  <2>8. v7' \in BOOLEAN
    BY <2>2
  <2> QED BY <1>i, <1>v, <1>e, <2>2, <2>3, <2>4, <2>6, <2>7, <2>8, <1>e DEF AsyncInv
<1> QED BY <1>1, <1>2, <1>3, <1>4, <1>5, <1>6 DEF Async!Next, Async!Main

\* It implies both properties.
LEMMA AsyncHandled ==
  ASSUME AsyncInv
  PROVE Async!NeverKilled /\ Async!NothingMissed
<1>1. Async!NeverKilled
  BY AsyncEnded DEF AsyncInv, Async!NeverKilled
<1>2. Async!InMain /\ Head(v1) = "loop" => AsyncLeft = 6 /\ ~v2 /\ ~v7
  BY AsyncEnded, AsyncHead DEF AsyncInv, AsyncTodo, Async!InMain
<1> QED BY <1>1, <1>2 DEF AsyncInv, Async!NothingMissed
-----------------------------------------------------------------------------
(* Signals: v1 prog, v2 start, v3 stack, v4 act, v5 mask, v6 pending, v7 flag, *)
(* v8 jmpbuf, v9 kid, v10 out.                                               *)
SigNames == {"INT", "QUIT", "USR1", "ALRM", "ABRT", "TSTP", "CHLD"}
Actions == {"dfl", "ign", "catch"}
Frames == [of : SigNames \cup {"main"}, pc : Nat, in : BOOLEAN, ret : SUBSET SigNames]
Stacks == Seq(Frames)
Depth == Len(v3)

\* The stack after a frame is put on it, replaced on top, or taken from it.
LEMMA Pushed ==
  \A s \in Stacks : \A f \in Frames :
    /\ Append(s, f) \in Stacks /\ Len(Append(s, f)) = Len(s) + 1 /\ Append(s, f)[Len(s) + 1] = f
    /\ \A k \in 1..Len(s) : Append(s, f)[k] = s[k]
BY DEF Stacks

\* The same for a frame that replaces the top one.
LEMMA Replaced ==
  \A s \in Stacks : \A f \in Frames : Len(s) > 0 =>
    /\ [s EXCEPT ![Len(s)] = f] \in Stacks
    /\ Len([s EXCEPT ![Len(s)] = f]) = Len(s)
    /\ [s EXCEPT ![Len(s)] = f][Len(s)] = f
    /\ \A k \in 1..(Len(s) - 1) : [s EXCEPT ![Len(s)] = f][k] = s[k]
BY DEF Stacks

\* The same for a stack whose top frame has gone.
LEMMA Popped ==
  \A s \in Stacks : Len(s) > 1 =>
    /\ SubSeq(s, 1, Len(s) - 1) \in Stacks
    /\ Len(SubSeq(s, 1, Len(s) - 1)) = Len(s) - 1
    /\ \A k \in 1..(Len(s) - 1) : SubSeq(s, 1, Len(s) - 1)[k] = s[k]
BY DEF Stacks

\* The signals each program catches, the length of its handlers and of main.
Caught ==
  CASE v1 = "suspend1" -> {"INT"}
    [] v1 = "suspend2" -> {"INT", "QUIT"}
    [] v1 = "critical" -> {"QUIT"}
    [] v1 = "mask" -> {"USR1", "ALRM"}
    [] v1 = "abort" -> {"ABRT"}
    [] v1 = "sigtstp" -> {"TSTP"}
    [] OTHER -> {"INT", "CHLD"}

\* How many calls a handler makes, the last one included.
HandlerLen(s) == CASE s = "USR1" -> 6 [] s = "TSTP" -> 5 [] s = "QUIT" -> 2 [] OTHER -> 1

\* How many calls main makes.
MainLen ==
  CASE v1 = "suspend1" -> 5
    [] v1 \in {"suspend2", "abort", "system"} -> 9
    [] v1 \in {"critical", "mask"} -> 6
    [] v1 = "proc_system" -> 3
    [] OTHER -> 4

\* The programs, and the call a frame is at.
SigPrograms == {"suspend1", "suspend2", "critical", "mask", "abort", "proc_system", "system", "sigtstp"}
At(f) == Signals!Code(f)[f.pc]

\* What each call is. sig_int and its like only return.
LEMMA Suspend1Ops ==
  ASSUME v1 = "suspend1"
  PROVE \A f \in Frames : f.of = "main" =>
          /\ f.pc = 1 => At(f).op = "catch" /\ At(f).arg = "INT"
          /\ f.pc = 2 => At(f).op = "block" /\ At(f).arg = {"INT"}
          /\ f.pc = 3 => At(f).op = "suspend" /\ At(f).arg = {"USR1"}
          /\ f.pc = 4 => At(f).op = "setmask"
          /\ f.pc = 5 => At(f).op = "exit"
BY DEF At, Signals!Code, Signals!Main, Signals!suspend1, Signals!I, Signals!Block, Signals!Catch, Signals!Old, Signals!Exit

\* The calls of main in suspend2.c.
LEMMA Suspend2Ops ==
  ASSUME v1 = "suspend2"
  PROVE \A f \in Frames : f.of = "main" =>
          /\ f.pc = 1 => At(f).op = "catch" /\ At(f).arg = "INT"
          /\ f.pc = 2 => At(f).op = "catch" /\ At(f).arg = "QUIT"
          /\ f.pc = 3 => At(f).op = "block" /\ At(f).arg = {"QUIT"}
          /\ f.pc = 4 => At(f).op = "if" /\ At(f).arg = 7
          /\ f.pc = 5 => At(f).op = "suspend" /\ At(f).arg = {}
          /\ f.pc = 6 => At(f).op = "goto" /\ At(f).arg = 4
          /\ f.pc = 7 => At(f).op = "flag"
          /\ f.pc = 8 => At(f).op = "setmask"
          /\ f.pc = 9 => At(f).op = "exit"
BY DEF At, Signals!Code, Signals!Main, Signals!suspend2, Signals!I, Signals!Block, Signals!Catch, Signals!Old, Signals!Exit

\* The calls of main in critical.c.
LEMMA CriticalOps ==
  ASSUME v1 = "critical"
  PROVE \A f \in Frames : f.of = "main" =>
          /\ f.pc = 1 => At(f).op = "catch" /\ At(f).arg = "QUIT"
          /\ f.pc = 2 => At(f).op = "block" /\ At(f).arg = {"QUIT"}
          /\ f.pc = 3 => At(f).op = "sleep"
          /\ f.pc = 5 => At(f).op = "sleep"
          /\ f.pc = 4 => At(f).op = "setmask"
          /\ f.pc = 6 => At(f).op = "exit"
BY DEF At, Signals!Code, Signals!Main, Signals!critical, Signals!I, Signals!Block, Signals!Catch, Signals!Old, Signals!Exit

\* The calls of main in mask.c.
LEMMA MaskOps ==
  ASSUME v1 = "mask"
  PROVE \A f \in Frames : f.of = "main" =>
          /\ f.pc = 1 => At(f).op = "catch" /\ At(f).arg = "USR1"
          /\ f.pc = 2 => At(f).op = "catch" /\ At(f).arg = "ALRM"
          /\ f.pc = 3 => At(f).op = "sigsetjmp"
          /\ f.pc = 4 => At(f).op = "flag"
          /\ f.pc = 5 => At(f).op = "pause"
          /\ f.pc = 6 => At(f).op = "exit"
BY DEF At, Signals!Code, Signals!Main, Signals!mask_c, Signals!I, Signals!Block, Signals!Catch, Signals!Old, Signals!Exit

\* The calls of abort.
LEMMA AbortOps ==
  ASSUME v1 = "abort"
  PROVE \A f \in Frames : f.of = "main" =>
          /\ f.pc = 1 => At(f).op = "noign" /\ At(f).arg = "ABRT"
          /\ f.pc = 2 => At(f).op = "flushdfl" /\ At(f).arg = "ABRT"
          /\ f.pc = 3 => At(f).op = "fill" /\ At(f).arg = "ABRT"
          /\ f.pc = 4 => At(f).op = "raise" /\ At(f).arg = "ABRT"
          /\ f.pc = 7 => At(f).op = "fill" /\ At(f).arg = "ABRT"
          /\ f.pc = 8 => At(f).op = "raise" /\ At(f).arg = "ABRT"
          /\ f.pc = 5 => At(f).op = "flag" /\ At(f).arg = TRUE
          /\ f.pc = 6 => At(f).op = "dfl" /\ At(f).arg = "ABRT"
          /\ f.pc = 9 => At(f).op = "exit"
BY DEF At, Signals!Code, Signals!Main, Signals!abort, Signals!I, Signals!Block, Signals!Catch, Signals!Old, Signals!Exit

\* The calls of proc/system.c.
LEMMA ProcSystemOps ==
  ASSUME v1 = "proc_system"
  PROVE \A f \in Frames : f.of = "main" =>
          /\ f.pc = 1 => At(f).op = "fork"
          /\ f.pc = 2 => At(f).op = "waitpid"
          /\ f.pc = 3 => At(f).op = "exit"
BY DEF At, Signals!Code, Signals!Main, Signals!proc_system, Signals!I, Signals!Block, Signals!Catch, Signals!Old, Signals!Exit

\* The calls of signals/system.c.
LEMMA SystemOps ==
  ASSUME v1 = "system"
  PROVE \A f \in Frames : f.of = "main" =>
          /\ f.pc = 1 => At(f).op = "ign" /\ At(f).arg = "INT"
          /\ f.pc = 2 => At(f).op = "ign" /\ At(f).arg = "QUIT"
          /\ f.pc = 3 => At(f).op = "block" /\ At(f).arg = {"CHLD"}
          /\ f.pc = 4 => At(f).op = "fork"
          /\ f.pc = 5 => At(f).op = "waitpid"
          /\ f.pc = 6 => At(f).op = "old" /\ At(f).arg = "INT"
          /\ f.pc = 7 => At(f).op = "old" /\ At(f).arg = "QUIT"
          /\ f.pc = 8 => At(f).op = "setmask"
          /\ f.pc = 9 => At(f).op = "exit"
BY DEF At, Signals!Code, Signals!Main, Signals!system, Signals!I, Signals!Block, Signals!Catch, Signals!Old, Signals!Exit

\* The calls of main in sigtstp.c.
LEMMA SigtstpOps ==
  ASSUME v1 = "sigtstp"
  PROVE \A f \in Frames : f.of = "main" =>
          /\ f.pc = 1 => At(f).op = "ign" /\ At(f).arg = "TSTP"
          /\ f.pc = 2 => At(f).op = "catchdfl" /\ At(f).arg = "TSTP"
          /\ f.pc = 3 => At(f).op = "read"
          /\ f.pc = 4 => At(f).op = "exit"
BY DEF At, Signals!Code, Signals!Main, Signals!sigtstp, Signals!I, Signals!Block, Signals!Catch, Signals!Old, Signals!Exit

\* The calls of the handlers.
LEMMA HandlerOps ==
  ASSUME v1 \in SigPrograms
  PROVE \A f \in Frames : f.of \in Caught =>
          /\ f.of \in {"INT", "ALRM", "ABRT", "CHLD"} /\ f.pc = 1 => At(f).op = "ret"
          /\ f.of = "QUIT" /\ f.pc = 1 /\ v1 = "suspend2" => At(f).op = "flag"
          /\ f.of = "QUIT" /\ f.pc = 1 /\ v1 = "critical" => At(f).op = "dfl" /\ At(f).arg = "QUIT"
          /\ f.of = "QUIT" => v1 \in {"suspend2", "critical"}
          /\ f.of = "QUIT" /\ f.pc = 2 => At(f).op = "ret"
          /\ f.of = "USR1" /\ f.pc = 1 => At(f).op = "if" /\ At(f).arg = 3
          /\ f.of = "USR1" /\ f.pc = 2 => At(f).op = "ret"
          /\ f.of = "USR1" /\ f.pc = 3 => At(f).op = "alarm" /\ At(f).arg = "ALRM"
          /\ f.of = "USR1" /\ f.pc = 4 => At(f).op = "busy"
          /\ f.of = "USR1" /\ f.pc = 5 => At(f).op = "flag" /\ At(f).arg = FALSE
          /\ f.of = "USR1" /\ f.pc = 6 => At(f).op = "siglongjmp"
          /\ f.of = "TSTP" /\ f.pc = 1 => At(f).op = "unblock" /\ At(f).arg = {"TSTP"}
          /\ f.of = "TSTP" /\ f.pc = 2 => At(f).op = "dfl" /\ At(f).arg = "TSTP"
          /\ f.of = "TSTP" /\ f.pc = 3 => At(f).op = "raise" /\ At(f).arg = "TSTP"
          /\ f.of = "TSTP" /\ f.pc = 4 => At(f).op = "catch" /\ At(f).arg = "TSTP"
          /\ f.of = "TSTP" /\ f.pc = 5 => At(f).op = "ret"
<1> USE DEF At, Signals!Code, Signals!HandlerOf, Signals!I, Signals!Catch, Signals!Ret
<1> SUFFICES ASSUME NEW f \in Frames, f.of \in Caught
             PROVE /\ f.of \in {"INT", "ALRM", "ABRT", "CHLD"} /\ f.pc = 1 => At(f).op = "ret"
                   /\ f.of = "QUIT" /\ f.pc = 1 /\ v1 = "suspend2" => At(f).op = "flag"
                   /\ f.of = "QUIT" /\ f.pc = 1 /\ v1 = "critical" => At(f).op = "dfl" /\ At(f).arg = "QUIT"
                   /\ f.of = "QUIT" => v1 \in {"suspend2", "critical"}
                   /\ f.of = "QUIT" /\ f.pc = 2 => At(f).op = "ret"
                   /\ f.of = "USR1" /\ f.pc = 1 => At(f).op = "if" /\ At(f).arg = 3
                   /\ f.of = "USR1" /\ f.pc = 2 => At(f).op = "ret"
                   /\ f.of = "USR1" /\ f.pc = 3 => At(f).op = "alarm" /\ At(f).arg = "ALRM"
                   /\ f.of = "USR1" /\ f.pc = 4 => At(f).op = "busy"
                   /\ f.of = "USR1" /\ f.pc = 5 => At(f).op = "flag" /\ At(f).arg = FALSE
                   /\ f.of = "USR1" /\ f.pc = 6 => At(f).op = "siglongjmp"
                   /\ f.of = "TSTP" /\ f.pc = 1 => At(f).op = "unblock" /\ At(f).arg = {"TSTP"}
                   /\ f.of = "TSTP" /\ f.pc = 2 => At(f).op = "dfl" /\ At(f).arg = "TSTP"
                   /\ f.of = "TSTP" /\ f.pc = 3 => At(f).op = "raise" /\ At(f).arg = "TSTP"
                   /\ f.of = "TSTP" /\ f.pc = 4 => At(f).op = "catch" /\ At(f).arg = "TSTP"
                   /\ f.of = "TSTP" /\ f.pc = 5 => At(f).op = "ret"
  OBVIOUS
<1>1. f.of \in {"INT", "ALRM", "ABRT", "CHLD"} /\ f.pc = 1 => At(f).op = "ret"
  BY DEF Signals!sig_int
<1>2. f.of = "QUIT" => v1 \in {"suspend2", "critical"}
  BY DEF SigPrograms, Caught
<1>3. /\ f.of = "QUIT" /\ f.pc = 1 /\ v1 = "suspend2" => At(f).op = "flag"
      /\ f.of = "QUIT" /\ f.pc = 1 /\ v1 = "critical" => At(f).op = "dfl" /\ At(f).arg = "QUIT"
      /\ f.of = "QUIT" /\ f.pc = 2 => At(f).op = "ret"
  BY <1>2 DEF Signals!sig_flag, Signals!sig_quit
<1>4. f.of = "USR1" => Signals!HandlerOf(f.of) = Signals!sig_usr1
  OBVIOUS
<1>5. /\ f.of = "USR1" /\ f.pc = 1 => At(f).op = "if" /\ At(f).arg = 3
      /\ f.of = "USR1" /\ f.pc = 2 => At(f).op = "ret"
      /\ f.of = "USR1" /\ f.pc = 3 => At(f).op = "alarm" /\ At(f).arg = "ALRM"
      /\ f.of = "USR1" /\ f.pc = 4 => At(f).op = "busy"
      /\ f.of = "USR1" /\ f.pc = 5 => At(f).op = "flag" /\ At(f).arg = FALSE
      /\ f.of = "USR1" /\ f.pc = 6 => At(f).op = "siglongjmp"
  BY DEF Signals!sig_usr1
<1>6. /\ f.of = "TSTP" /\ f.pc = 1 => At(f).op = "unblock" /\ At(f).arg = {"TSTP"}
      /\ f.of = "TSTP" /\ f.pc = 2 => At(f).op = "dfl" /\ At(f).arg = "TSTP"
      /\ f.of = "TSTP" /\ f.pc = 3 => At(f).op = "raise" /\ At(f).arg = "TSTP"
      /\ f.of = "TSTP" /\ f.pc = 4 => At(f).op = "catch" /\ At(f).arg = "TSTP"
      /\ f.of = "TSTP" /\ f.pc = 5 => At(f).op = "ret"
  BY DEF Signals!sig_tstp
<1> QED BY <1>1, <1>2, <1>3, <1>5, <1>6

\* The main frame is at the bottom of the stack and the rest are handlers, each at
\* one of its calls; only a signal the program catches has a handler.
SigTypes ==
  /\ v1 \in SigPrograms
  /\ v2.act \in [SigNames -> Actions] /\ v2.mask \in SUBSET SigNames
  /\ \A s \in SigNames : v2.act[s] = "catch" => s \in Caught
  /\ v3 \in Stacks /\ Depth > 0
  /\ v3[1].of = "main" /\ v3[1].pc \in 1..MainLen
  /\ \A k \in 2..Depth : v3[k].of \in Caught /\ v3[k].pc \in 1..HandlerLen(v3[k].of)
  /\ v4 \in [SigNames -> Actions]
  /\ \A s \in SigNames : v4[s] = "catch" => s \in Caught
  /\ v5 \in SUBSET SigNames /\ v6 \in SUBSET SigNames
  /\ v8 \in SUBSET SUBSET SigNames

\* The mask after a call, and what a step does to the stack and to the mask.
MaskAfter(i) ==
  CASE i.op = "block" -> v5 \cup i.arg
    [] i.op = "unblock" -> v5 \ i.arg
    [] i.op = "setmask" -> v2.mask
    [] i.op = "fill" -> SigNames \ {i.arg}
    [] OTHER -> v5
Here == v3[Depth]
Blocking == {"suspend", "pause", "read", "sleep", "busy", "waitpid"}
SigStill == v3' = v3 /\ v5' = v5
SigCatches == \E s \in Caught : /\ v3' = Append(v3, [of |-> s, pc |-> 1, in |-> FALSE, ret |-> v5])
                                /\ v5' \in SUBSET SigNames /\ v4[s] = "catch"
SigReturns ==
  /\ Depth > 1 /\ At(Here).op = "ret" /\ v5' = Here.ret
  /\ \E f \in Frames :
       /\ v3' = [SubSeq(v3, 1, Depth - 1) EXCEPT ![Depth - 1] = f]
       /\ f.of = v3[Depth - 1].of /\ f.ret = v3[Depth - 1].ret
       /\ \/ f.pc = v3[Depth - 1].pc
          \/ f.pc = v3[Depth - 1].pc + 1 /\ At(v3[Depth - 1]).op \in {"suspend", "sleep"}
SigJumps ==
  /\ At(Here).op = "siglongjmp" /\ v5' = CHOOSE m \in v8 : TRUE
  /\ \E f \in Frames : v3' = <<f>> /\ f.of = v3[1].of /\ f.pc = 6
SigCalls ==
  /\ At(Here).op \notin {"ret", "exit", "siglongjmp"}
  /\ v5' = MaskAfter(At(Here))
  /\ At(Here).op = "sigsetjmp" => v8' = {v5}
  /\ \E f \in Frames :
       /\ v3' = [v3 EXCEPT ![Depth] = f] /\ f.of = Here.of /\ f.ret = Here.ret
       /\ \/ f.pc = Here.pc /\ At(Here).op \in Blocking
          \/ f.pc = Here.pc + 1 /\ At(Here).op \notin {"goto", "pause"}
          \/ f.pc = At(Here).arg /\ (At(Here).op = "goto" \/ (At(Here).op = "if" /\ v7))

\* A frame with another place in its code is a frame.
LEMMA FrameSet ==
  \A f \in Frames : \A n \in Nat, b \in BOOLEAN :
    /\ [f EXCEPT !.pc = n, !.in = b] \in Frames
    /\ [f EXCEPT !.pc = n, !.in = b].of = f.of
    /\ [f EXCEPT !.pc = n, !.in = b].ret = f.ret
    /\ [f EXCEPT !.pc = n, !.in = b].pc = n
    /\ [f EXCEPT !.in = b] \in Frames
    /\ [f EXCEPT !.in = b].of = f.of
    /\ [f EXCEPT !.in = b].ret = f.ret
    /\ [f EXCEPT !.in = b].pc = f.pc
BY DEF Frames

\* The calls of main and of a handler, and what they are given.
MainOps == {"catch", "catchdfl", "dfl", "ign", "noign", "old", "block", "setmask", "fill", "flag", "flushdfl",
            "if", "goto", "suspend", "pause", "read", "sleep", "waitpid", "raise", "sigsetjmp", "fork", "exit"}

\* A call of main is one of these, and stays inside main.
LEMMA MainKinds ==
  ASSUME v1 \in SigPrograms
  PROVE \A f \in Frames : f.of = "main" /\ f.pc \in 1..MainLen =>
          /\ At(f).op \in MainOps
          /\ At(f).op \in {"suspend", "block"} => At(f).arg \in SUBSET SigNames
          /\ At(f).op \in {"if", "goto"} => At(f).arg \in 1..MainLen
          /\ f.pc = MainLen => At(f).op = "exit"
<1> SUFFICES ASSUME NEW f \in Frames, f.of = "main", f.pc \in 1..MainLen
             PROVE /\ At(f).op \in MainOps
                   /\ At(f).op \in {"suspend", "block"} => At(f).arg \in SUBSET SigNames
                   /\ At(f).op \in {"if", "goto"} => At(f).arg \in 1..MainLen
                   /\ f.pc = MainLen => At(f).op = "exit"
  OBVIOUS
<1>1. CASE v1 = "suspend1"
  <2>1. f.pc \in {1, 2, 3, 4, 5} /\ MainLen = 5
    BY <1>1 DEF MainLen
  <2> QED BY <1>1, <2>1, Suspend1Ops DEF MainOps, SigNames
<1>2. CASE v1 = "suspend2"
  <2>1. f.pc \in {1, 2, 3, 4, 5, 6, 7, 8, 9} /\ MainLen = 9
    BY <1>2 DEF MainLen
  <2> QED BY <1>2, <2>1, Suspend2Ops DEF MainOps, SigNames
<1>3. CASE v1 = "critical"
  <2>1. f.pc \in {1, 2, 3, 4, 5, 6} /\ MainLen = 6
    BY <1>3 DEF MainLen
  <2> QED BY <1>3, <2>1, CriticalOps DEF MainOps, SigNames
<1>4. CASE v1 = "mask"
  <2>1. f.pc \in {1, 2, 3, 4, 5, 6} /\ MainLen = 6
    BY <1>4 DEF MainLen
  <2> QED BY <1>4, <2>1, MaskOps DEF MainOps
<1>5. CASE v1 = "abort"
  <2>1. f.pc \in {1, 2, 3, 4, 5, 6, 7, 8, 9} /\ MainLen = 9
    BY <1>5 DEF MainLen
  <2> QED BY <1>5, <2>1, AbortOps DEF MainOps
<1>6. CASE v1 = "proc_system"
  <2>1. f.pc \in {1, 2, 3} /\ MainLen = 3
    BY <1>6 DEF MainLen
  <2> QED BY <1>6, <2>1, ProcSystemOps DEF MainOps
<1>7. CASE v1 = "system"
  <2>1. f.pc \in {1, 2, 3, 4, 5, 6, 7, 8, 9} /\ MainLen = 9
    BY <1>7 DEF MainLen
  <2>2. At(f).op \in {"ign", "block", "fork", "waitpid", "old", "setmask", "exit"}
    BY <1>7, <2>1, SystemOps
  <2>3. At(f).op = "block" => At(f).arg \in SUBSET SigNames
    BY <1>7, <2>1, SystemOps DEF SigNames
  <2>4. f.pc = 9 => At(f).op = "exit"
    BY <1>7, SystemOps
  <2> QED BY <2>1, <2>2, <2>3, <2>4 DEF MainOps
<1>8. CASE v1 = "sigtstp"
  <2>1. f.pc \in {1, 2, 3, 4} /\ MainLen = 4
    BY <1>8 DEF MainLen
  <2> QED BY <1>8, <2>1, SigtstpOps DEF MainOps
<1> QED BY <1>1, <1>2, <1>3, <1>4, <1>5, <1>6, <1>7, <1>8 DEF SigPrograms

\* The calls of a handler, and what they are given.
HandlerOpNames == {"ret", "flag", "dfl", "if", "alarm", "busy", "siglongjmp", "unblock", "raise", "catch"}

\* A call of a handler is one of these, stays inside it, and ends it only at its end.
LEMMA HandlerKinds ==
  ASSUME v1 \in SigPrograms
  PROVE \A f \in Frames : f.of \in Caught /\ f.pc \in 1..HandlerLen(f.of) =>
          /\ At(f).op \in HandlerOpNames
          /\ At(f).op = "if" => At(f).arg \in 1..HandlerLen(f.of)
          /\ f.pc = HandlerLen(f.of) => At(f).op \in {"ret", "siglongjmp"}
<1> SUFFICES ASSUME NEW f \in Frames, f.of \in Caught, f.pc \in 1..HandlerLen(f.of)
             PROVE /\ At(f).op \in HandlerOpNames
                   /\ At(f).op = "if" => At(f).arg \in 1..HandlerLen(f.of)
                   /\ f.pc = HandlerLen(f.of) => At(f).op \in {"ret", "siglongjmp"}
  OBVIOUS
<1>0. f.of \in {"INT", "QUIT", "USR1", "ALRM", "ABRT", "TSTP", "CHLD"}
  BY DEF Caught
<1>1. CASE f.of \in {"INT", "ALRM", "ABRT", "CHLD"}
  <2>1. f.pc = 1 /\ HandlerLen(f.of) = 1
    BY <1>1 DEF HandlerLen
  <2> QED BY <1>1, <2>1, HandlerOps DEF HandlerOpNames
<1>2. CASE f.of = "QUIT"
  <2>1. f.pc \in {1, 2} /\ HandlerLen(f.of) = 2
    BY <1>2 DEF HandlerLen
  <2> QED BY <1>2, <2>1, HandlerOps DEF HandlerOpNames
<1>3. CASE f.of = "USR1"
  <2>1. f.pc \in {1, 2, 3, 4, 5, 6} /\ HandlerLen(f.of) = 6
    BY <1>3 DEF HandlerLen
  <2>2. /\ f.pc = 1 => At(f).op = "if" /\ At(f).arg = 3
        /\ f.pc = 2 => At(f).op = "ret"
        /\ f.pc = 3 => At(f).op = "alarm"
        /\ f.pc = 4 => At(f).op = "busy"
        /\ f.pc = 5 => At(f).op = "flag"
        /\ f.pc = 6 => At(f).op = "siglongjmp"
    BY <1>3, HandlerOps
  <2> QED BY <2>1, <2>2 DEF HandlerOpNames
<1>4. CASE f.of = "TSTP"
  <2>1. f.pc \in {1, 2, 3, 4, 5} /\ HandlerLen(f.of) = 5
    BY <1>4 DEF HandlerLen
  <2> QED BY <1>4, <2>1, HandlerOps DEF HandlerOpNames
<1> QED BY <1>0, <1>1, <1>2, <1>3, <1>4

\* What runs is main or a handler, at a call of its code.
LEMMA WhatRuns ==
  ASSUME SigTypes
  PROVE /\ Depth \in Nat /\ Depth > 0 /\ v1 \in SigPrograms
        /\ Here \in Frames /\ Signals!top = Here /\ Signals!ins = At(Here)
        /\ v3[1] \in Frames /\ v3[1].of = "main" /\ v3[1].pc \in 1..MainLen
        /\ Depth = 1 => Here = v3[1] /\ At(Here).op \in MainOps
        /\ Depth > 1 => /\ Here.of \in Caught /\ Here.pc \in 1..HandlerLen(Here.of)
                         /\ At(Here).op \in HandlerOpNames
        /\ At(Here).op \in {"if", "goto"} => At(Here).arg \in Nat
        /\ At(Here).op \in {"suspend", "block"} => At(Here).arg \in SUBSET SigNames
<1>1. Depth \in Nat /\ Depth > 0 /\ v1 \in SigPrograms
  BY DEF SigTypes, Depth, Stacks
<1>2. Here \in Frames /\ v3[1] \in Frames
  BY DEF SigTypes, Here, Depth, Stacks
<1>3. Signals!top = Here /\ Signals!ins = At(Here)
  BY DEF Signals!top, Signals!ins, Here, At, Depth
<1>4. v3[1].of = "main" /\ v3[1].pc \in 1..MainLen
  BY DEF SigTypes
<1>5. Depth > 1 => Here.of \in Caught /\ Here.pc \in 1..HandlerLen(Here.of)
  BY <1>1 DEF SigTypes, Here
<1>6. Depth = 1 => Here = v3[1]
  BY DEF Here
<1>7. MainLen \in Nat
  BY DEF MainLen
<1>8. \A s \in Caught : HandlerLen(s) \in Nat
  BY DEF HandlerLen
<1>9. CASE Depth = 1
  BY <1>1, <1>2, <1>3, <1>4, <1>6, <1>7, <1>9, MainKinds
<1>10. CASE Depth > 1
  BY <1>1, <1>2, <1>3, <1>4, <1>5, <1>8, <1>10, HandlerKinds DEF HandlerOpNames
<1> QED BY <1>1, <1>9, <1>10

\* Every step is one of these.
LEMMA SigSteps ==
  ASSUME SigTypes, Signals!Next
  PROVE /\ v1' = v1 /\ v2' = v2
        /\ SigStill \/ SigCatches \/ SigReturns \/ SigJumps \/ SigCalls
<1>0. /\ Here \in Frames /\ Signals!top = Here /\ Signals!ins = At(Here)
      /\ At(Here).op \in {"if", "goto"} => At(Here).arg \in Nat
  BY WhatRuns
<1>p. Here.pc \in Nat /\ Here.pc + 1 \in Nat
  BY <1>0 DEF Frames
<1>1. ASSUME NEW n \in Nat, Signals!Goto(n)
      PROVE \E f \in Frames : v3' = [v3 EXCEPT ![Depth] = f] /\ f.of = Here.of /\ f.ret = Here.ret /\ f.pc = n
  BY <1>0, <1>1, FrameSet DEF Signals!Goto, Signals!Top, Depth
<1>2. ASSUME Signals!Step
      PROVE \E f \in Frames : v3' = [v3 EXCEPT ![Depth] = f] /\ f.of = Here.of /\ f.ret = Here.ret /\ f.pc = Here.pc + 1
  BY <1>0, <1>p, <1>1, <1>2 DEF Signals!Step
<1>3. CASE Signals!Sigaction
  <2>1. /\ v1' = v1 /\ v2' = v2 /\ v5' = v5 /\ Signals!Step
        /\ At(Here).op \in {"catch", "catchdfl", "dfl", "ign", "noign", "old"}
    BY <1>0, <1>3 DEF Signals!Sigaction, Signals!Ready
  <2>2. SigCalls
    BY <2>1, <1>2 DEF SigCalls, MaskAfter
  <2> QED BY <2>1, <2>2
<1>4. CASE Signals!sigprocmask
  <2>1. /\ v1' = v1 /\ v2' = v2 /\ Signals!Step
        /\ At(Here).op \in {"block", "unblock", "setmask", "fill"}
        /\ v5' = MaskAfter(At(Here))
    BY <1>0, <1>4 DEF Signals!sigprocmask, Signals!Ready, MaskAfter, Signals!Sigs, SigNames
  <2>2. SigCalls
    BY <2>1, <1>2 DEF SigCalls
  <2> QED BY <2>1, <2>2
<1>5. CASE Signals!SetFlag \/ Signals!Raise \/ Signals!sigsetjmp \/ Signals!fork
  <2>1. /\ v1' = v1 /\ v2' = v2 /\ v5' = v5 /\ Signals!Step
        /\ At(Here).op \in {"flag", "flushdfl", "raise", "alarm", "sigsetjmp", "fork"}
        /\ At(Here).op = "sigsetjmp" => v8' = {v5}
    BY <1>0, <1>5 DEF Signals!SetFlag, Signals!Raise, Signals!sigsetjmp, Signals!fork, Signals!Ready
  <2>2. SigCalls
    BY <2>1, <1>2 DEF SigCalls, MaskAfter
  <2> QED BY <2>1, <2>2
<1>6. CASE Signals!Branch
  <2>1. /\ v1' = v1 /\ v2' = v2 /\ v5' = v5 /\ At(Here).op \in {"if", "goto"}
        /\ \/ At(Here).op = "goto" /\ Signals!Goto(At(Here).arg)
           \/ At(Here).op = "if" /\ v7 /\ Signals!Goto(At(Here).arg)
           \/ At(Here).op = "if" /\ Signals!Goto(Here.pc + 1)
    BY <1>0, <1>6 DEF Signals!Branch, Signals!Ready
  <2>2. SigCalls
    BY <2>1, <1>0, <1>p, <1>1 DEF SigCalls, MaskAfter
  <2> QED BY <2>1, <2>2
<1>7. CASE Signals!Enter
  <2>1. /\ v1' = v1 /\ v2' = v2 /\ v5' = v5
        /\ At(Here).op \in {"suspend", "pause", "read", "sleep", "busy", "waitpid"}
        /\ v3' = [v3 EXCEPT ![Depth] = [Here EXCEPT !.in = TRUE]]
    BY <1>0, <1>7 DEF Signals!Enter, Signals!Ready, Signals!Top, Depth
  <2>2. SigCalls
    BY <2>1, <1>0, FrameSet DEF SigCalls, MaskAfter, Blocking
  <2> QED BY <2>1, <2>2
<1>8. CASE Signals!Leave
  <2>1. /\ v1' = v1 /\ v2' = v2 /\ v5' = v5 /\ Signals!Step
        /\ At(Here).op \in {"read", "sleep", "busy", "waitpid"}
    BY <1>0, <1>8 DEF Signals!Leave
  <2>2. SigCalls
    BY <2>1, <1>2 DEF SigCalls, MaskAfter
  <2> QED BY <2>1, <2>2
<1>9. CASE Signals!siglongjmp
  <2>1. v3[1] \in Frames
    BY DEF SigTypes, Depth, Stacks
  <2> DEFINE f == [v3[1] EXCEPT !.pc = 6, !.in = FALSE]
  <2>2. /\ v1' = v1 /\ v2' = v2 /\ At(Here).op = "siglongjmp" /\ v3' = <<f>>
        /\ v5' = CHOOSE m \in v8 : TRUE
    BY <1>0, <1>9 DEF Signals!siglongjmp, Signals!Ready
  <2>3. f \in Frames /\ f.of = v3[1].of /\ f.pc = 6
    BY <2>1, FrameSet
  <2> HIDE DEF f
  <2> QED BY <2>2, <2>3 DEF SigJumps
<1>10. CASE Signals!HandlerReturns
  <2>1. /\ v1' = v1 /\ v2' = v2 /\ v5' = Here.ret /\ At(Here).op = "ret"
    BY <1>0, <1>10 DEF Signals!HandlerReturns, Signals!Ready
  <2>2. Depth > 1
    BY <2>1, WhatRuns DEF MainOps
  <2> DEFINE below == v3[Depth - 1]
  <2>3. below \in Frames /\ below.pc \in Nat /\ below.pc + 1 \in Nat
    <3>1. below \in Frames
      BY <2>2 DEF SigTypes, Depth, Stacks
    <3> QED BY <3>1 DEF Frames
  <2>4. \E f \in Frames : /\ v3' = [SubSeq(v3, 1, Depth - 1) EXCEPT ![Depth - 1] = f]
                          /\ f.of = below.of /\ f.ret = below.ret
                          /\ \/ f.pc = below.pc
                             \/ f.pc = below.pc + 1 /\ At(below).op \in {"suspend", "sleep"}
    <3> DEFINE n == IF At(below).op = "pause" THEN below.pc ELSE below.pc + 1
    <3>0. n \in Nat /\ FALSE \in BOOLEAN
      BY <2>3
    <3> DEFINE f == IF below.in /\ At(below).op \in {"suspend", "pause", "sleep"}
                    THEN [below EXCEPT !.pc = n, !.in = FALSE]
                    ELSE below
    <3>1. v3' = [SubSeq(v3, 1, Depth - 1) EXCEPT ![Depth - 1] = f]
      BY <1>10 DEF Signals!HandlerReturns, Depth, At
    <3> HIDE DEF below, n
    <3>2. CASE below.in /\ At(below).op \in {"suspend", "pause", "sleep"}
      <4>1. f = [below EXCEPT !.pc = n, !.in = FALSE]
        BY <3>2
      <4> HIDE DEF f
      <4>2. f \in Frames /\ f.of = below.of /\ f.ret = below.ret /\ f.pc = n
        BY <4>1, <3>0, <2>3, FrameSet
      <4>3. n = below.pc \/ (n = below.pc + 1 /\ At(below).op \in {"suspend", "sleep"})
        BY <3>2 DEF n
      <4> QED BY <3>1, <4>2, <4>3
    <3>3. CASE ~(below.in /\ At(below).op \in {"suspend", "pause", "sleep"})
      <4>1. f = below
        BY <3>3
      <4> HIDE DEF f
      <4> QED BY <3>1, <4>1, <2>3
    <3> QED BY <3>2, <3>3
  <2>5. SigReturns
    BY <2>1, <2>2, <2>4 DEF SigReturns
  <2> QED BY <2>1, <2>5
<1>11. CASE Signals!exit \/ Signals!Continue \/ Signals!Child \/ \E s \in Signals!Sigs : Signals!Send(s)
  BY <1>11 DEF Signals!exit, Signals!Continue, Signals!Child, Signals!Send, SigStill
<1>12. CASE \E s \in Signals!Sigs : Signals!Deliver(s)
  <2>1. PICK s \in SigNames : Signals!Deliver(s)
    BY <1>12 DEF Signals!Sigs, SigNames
  <2>2. CASE v4[s] # "catch"
    BY <2>1, <2>2 DEF Signals!Deliver, SigStill
  <2>3. CASE v4[s] = "catch"
    <3>1. s \in Caught
      BY <2>3 DEF SigTypes
    <3>2. Signals!Effective \in SUBSET SigNames
      <4>1. At(Here).op = "suspend" => At(Here).arg \in SUBSET SigNames
        BY WhatRuns
      <4> QED BY <4>1, <1>0 DEF Signals!Effective, SigTypes
    <3>3. /\ v1' = v1 /\ v2' = v2
          /\ v3' = Append(v3, [of |-> s, pc |-> 1, in |-> FALSE, ret |-> v5])
          /\ v5' = Signals!Effective \cup {s}
      BY <2>1, <2>3 DEF Signals!Deliver
    <3>4. v5' \in SUBSET SigNames
      BY <3>2, <3>3
    <3> QED BY <2>3, <3>1, <3>3, <3>4 DEF SigCatches
  <2> QED BY <2>2, <2>3
<1> QED BY <1>3, <1>4, <1>5, <1>6, <1>7, <1>8, <1>9, <1>10, <1>11, <1>12 DEF Signals!Next, Signals!Process

\* The mask of main: the one that is in force, or that its handler restores.
Base == IF Depth = 1 THEN v5 ELSE v3[2].ret

\* What SigTypes says of the stack.
SigStack ==
  /\ v3 \in Stacks /\ Depth > 0
  /\ v3[1].of = "main" /\ v3[1].pc \in 1..MainLen
  /\ \A k \in 2..Depth : v3[k].of \in Caught /\ v3[k].pc \in 1..HandlerLen(v3[k].of)

\* Main goes on only by its own calls, by the return of a handler that interrupts
\* sigsuspend or sleep, or by siglongjmp.
MainStays == Base' = Base /\ v3'[1].pc = v3[1].pc
MainWoken == /\ Base' = Base /\ v3'[1].pc = v3[1].pc + 1 /\ Depth = 2
             /\ At(v3[1]).op \in {"suspend", "sleep"}
MainJumps == SigJumps /\ Depth' = 1 /\ v3'[1].pc = 6 /\ Base' = CHOOSE m \in v8 : TRUE
MainCalls ==
  /\ SigCalls /\ Depth = 1 /\ Depth' = 1 /\ Base' = MaskAfter(At(v3[1])) /\ Base = v5
  /\ At(v3[1]).op \notin {"ret", "exit", "siglongjmp"}
  /\ \/ v3'[1].pc = v3[1].pc /\ At(v3[1]).op \in Blocking
     \/ v3'[1].pc = v3[1].pc + 1 /\ At(v3[1]).op \notin {"goto", "pause"}
     \/ v3'[1].pc = At(v3[1]).arg /\ (At(v3[1]).op = "goto" \/ (At(v3[1]).op = "if" /\ v7))

\* The stack after a delivery, a return and a call.
LEMMA AfterCatch ==
  ASSUME v3 \in Stacks, Depth > 0
  PROVE \A f \in Frames : v3' = Append(v3, f) =>
          /\ v3' \in Stacks /\ Depth' = Depth + 1 /\ v3'[Depth + 1] = f
          /\ \A k \in 1..Depth : v3'[k] = v3[k]
<1> SUFFICES ASSUME NEW f \in Frames, v3' = Append(v3, f)
             PROVE /\ v3' \in Stacks /\ Depth' = Depth + 1 /\ v3'[Depth + 1] = f
                   /\ \A k \in 1..Depth : v3'[k] = v3[k]
  OBVIOUS
<1>1. /\ Append(v3, f) \in Stacks /\ Len(Append(v3, f)) = Len(v3) + 1 /\ Append(v3, f)[Len(v3) + 1] = f
      /\ \A k \in 1..Len(v3) : Append(v3, f)[k] = v3[k]
  BY Pushed
<1> QED BY <1>1 DEF Depth

\* The top frame goes and the one below is replaced.
LEMMA AfterReturn ==
  ASSUME v3 \in Stacks, Depth > 1
  PROVE \A f \in Frames : v3' = [SubSeq(v3, 1, Depth - 1) EXCEPT ![Depth - 1] = f] =>
          /\ v3' \in Stacks /\ Depth' = Depth - 1 /\ v3'[Depth - 1] = f
          /\ \A k \in 1..(Depth - 2) : v3'[k] = v3[k]
<1> SUFFICES ASSUME NEW f \in Frames, v3' = [SubSeq(v3, 1, Depth - 1) EXCEPT ![Depth - 1] = f]
             PROVE /\ v3' \in Stacks /\ Depth' = Depth - 1 /\ v3'[Depth - 1] = f
                   /\ \A k \in 1..(Depth - 2) : v3'[k] = v3[k]
  OBVIOUS
<1>0. Depth \in Nat
  BY DEF Depth, Stacks
<1> DEFINE r == SubSeq(v3, 1, Depth - 1)
<1>1. r \in Stacks /\ Len(r) = Depth - 1 /\ \A k \in 1..(Depth - 1) : r[k] = v3[k]
  BY Popped DEF Depth
<1>2. v3' = [r EXCEPT ![Len(r)] = f] /\ Len(r) > 0
  BY <1>0, <1>1
<1> HIDE DEF r
<1>3. /\ [r EXCEPT ![Len(r)] = f] \in Stacks /\ Len([r EXCEPT ![Len(r)] = f]) = Len(r)
      /\ [r EXCEPT ![Len(r)] = f][Len(r)] = f
      /\ \A k \in 1..(Len(r) - 1) : [r EXCEPT ![Len(r)] = f][k] = r[k]
  BY <1>1, <1>2, Replaced
<1>4. /\ v3' \in Stacks /\ Len(v3') = Len(r) /\ v3'[Len(r)] = f
      /\ \A k \in 1..(Len(r) - 1) : v3'[k] = r[k]
  BY <1>2, <1>3
<1>5. Depth' = Depth - 1 /\ v3'[Depth - 1] = f
  BY <1>1, <1>4 DEF Depth
<1>6. ASSUME NEW k \in 1..(Depth - 2) PROVE v3'[k] = v3[k]
  <2>1. k \in 1..(Depth - 1) /\ Depth - 1 - 1 = Depth - 2
    BY <1>0
  <2> QED BY <1>1, <1>4, <2>1
<1> QED BY <1>4, <1>5, <1>6

\* The top frame is replaced.
LEMMA AfterCall ==
  ASSUME v3 \in Stacks, Depth > 0
  PROVE \A f \in Frames : v3' = [v3 EXCEPT ![Depth] = f] =>
          /\ v3' \in Stacks /\ Depth' = Depth /\ v3'[Depth] = f
          /\ \A k \in 1..(Depth - 1) : v3'[k] = v3[k]
<1> SUFFICES ASSUME NEW f \in Frames, v3' = [v3 EXCEPT ![Depth] = f]
             PROVE /\ v3' \in Stacks /\ Depth' = Depth /\ v3'[Depth] = f
                   /\ \A k \in 1..(Depth - 1) : v3'[k] = v3[k]
  OBVIOUS
<1>1. /\ [v3 EXCEPT ![Len(v3)] = f] \in Stacks /\ Len([v3 EXCEPT ![Len(v3)] = f]) = Len(v3)
      /\ [v3 EXCEPT ![Len(v3)] = f][Len(v3)] = f
      /\ \A k \in 1..(Len(v3) - 1) : [v3 EXCEPT ![Len(v3)] = f][k] = v3[k]
  BY Replaced DEF Depth
<1>2. v3' = [v3 EXCEPT ![Len(v3)] = f]
  BY DEF Depth
<1> QED BY <1>1, <1>2 DEF Depth

\* The stack stays one, and main does one of these.
LEMMA StackKept ==
  ASSUME SigTypes, Signals!Next, SigJumps => v8 # {}, SigJumps => v1 = "mask"
  PROVE /\ SigStack' /\ v5' \in SUBSET SigNames
        /\ MainStays \/ MainWoken \/ MainJumps \/ MainCalls
<1>0. /\ Depth \in Nat /\ Depth > 0 /\ v1 \in SigPrograms
      /\ Here \in Frames
      /\ v3[1] \in Frames /\ v3[1].of = "main" /\ v3[1].pc \in 1..MainLen
      /\ Depth = 1 => Here = v3[1] /\ At(Here).op \in MainOps
      /\ Depth > 1 => /\ Here.of \in Caught /\ Here.pc \in 1..HandlerLen(Here.of)
                      /\ At(Here).op \in HandlerOpNames
      /\ At(Here).op \in {"suspend", "block"} => At(Here).arg \in SUBSET SigNames
  BY WhatRuns
<1>1. v1' = v1 /\ v2' = v2 /\ Caught' = Caught /\ MainLen' = MainLen
  BY SigSteps DEF Caught, MainLen
<1>2. v3 \in Stacks /\ v5 \in SUBSET SigNames
  BY DEF SigTypes
<1>3. \A k \in 2..Depth : v3[k].of \in Caught /\ v3[k].pc \in 1..HandlerLen(v3[k].of)
  BY DEF SigTypes
<1>4. \A k \in 1..Depth : v3[k] \in Frames /\ v3[k].ret \in SUBSET SigNames
  <2>1. \A k \in 1..Depth : v3[k] \in Frames
    BY <1>2 DEF Stacks, Depth
  <2> QED BY <2>1 DEF Frames
<1>5. CASE SigStill
  <2>1. v3' = v3 /\ v5' = v5 /\ Depth' = Depth
    BY <1>5 DEF SigStill, Depth
  <2>2. SigStack'
    BY <2>1, <1>0, <1>1, <1>2, <1>3 DEF SigStack
  <2>3. MainStays
    BY <2>1 DEF MainStays, Base
  <2> QED BY <2>1, <2>2, <2>3, <1>2
<1>6. CASE SigCatches
  <2>1. PICK s \in Caught : /\ v3' = Append(v3, [of |-> s, pc |-> 1, in |-> FALSE, ret |-> v5])
                            /\ v5' \in SUBSET SigNames
    BY <1>6 DEF SigCatches
  <2> DEFINE f == [of |-> s, pc |-> 1, in |-> FALSE, ret |-> v5]
  <2>2. f \in Frames /\ f.of = s /\ f.pc = 1 /\ f.ret = v5 /\ v3' = Append(v3, f)
    BY <2>1, <1>2 DEF Frames, Caught, SigNames
  <2> HIDE DEF f
  <2>3. v3' \in Stacks /\ Depth' = Depth + 1 /\ v3'[Depth + 1] = f /\ \A k \in 1..Depth : v3'[k] = v3[k]
    BY <2>2, <1>0, <1>2, AfterCatch
  <2>4. 1 \in 1..HandlerLen(s)
    BY DEF HandlerLen
  <2>5. v3'[1] = v3[1]
    BY <2>3, <1>0
  <2>6. \A k \in 2..Depth' : v3'[k].of \in Caught /\ v3'[k].pc \in 1..HandlerLen(v3'[k].of)
    <3>1. ASSUME NEW k \in 2..Depth' PROVE v3'[k].of \in Caught /\ v3'[k].pc \in 1..HandlerLen(v3'[k].of)
      <4>1. CASE k = Depth + 1
        BY <4>1, <2>2, <2>3, <2>4
      <4>2. CASE k # Depth + 1
        <5>1. k \in 2..Depth /\ k \in 1..Depth
          BY <4>2, <2>3, <1>0
        <5> QED BY <5>1, <2>3, <1>3
      <4> QED BY <4>1, <4>2
    <3> QED BY <3>1
  <2>7. SigStack'
    BY <2>3, <2>5, <2>6, <1>0, <1>1 DEF SigStack
  <2>8. Base' = Base
    <3>1. CASE Depth = 1
      <4>1. Depth' = 2 /\ v3'[2] = f
        BY <3>1, <2>3
      <4> QED BY <3>1, <4>1, <2>2 DEF Base
    <3>2. CASE Depth > 1
      <4>1. v3'[2] = v3[2] /\ Depth' # 1 /\ Depth # 1
        BY <3>2, <2>3, <1>0
      <4> QED BY <4>1 DEF Base
    <3> QED BY <3>1, <3>2, <1>0
  <2> QED BY <2>1, <2>5, <2>7, <2>8 DEF MainStays
<1>7. CASE SigReturns
  <2>1. Depth > 1 /\ v5' = Here.ret
    BY <1>7 DEF SigReturns
  <2>2. PICK f \in Frames : /\ v3' = [SubSeq(v3, 1, Depth - 1) EXCEPT ![Depth - 1] = f]
                            /\ f.of = v3[Depth - 1].of /\ f.ret = v3[Depth - 1].ret
                            /\ \/ f.pc = v3[Depth - 1].pc
                               \/ f.pc = v3[Depth - 1].pc + 1 /\ At(v3[Depth - 1]).op \in {"suspend", "sleep"}
    BY <1>7 DEF SigReturns
  <2>3. v3' \in Stacks /\ Depth' = Depth - 1 /\ v3'[Depth - 1] = f /\ \A k \in 1..(Depth - 2) : v3'[k] = v3[k]
    BY <2>1, <2>2, <1>2, AfterReturn
  <2>4. Depth - 1 \in 1..Depth /\ v3[Depth - 1] \in Frames
    BY <2>1, <1>0, <1>4
  <2>5. v5' \in SUBSET SigNames
    BY <2>1, <1>0, <1>4 DEF Here
  <2>6. CASE Depth = 2
    <3>1. v3'[1] = f /\ Depth' = 1 /\ Depth - 1 = 1 /\ Here = v3[2]
      BY <2>3, <2>6 DEF Here
    <3>2. f.of = "main" /\ (f.pc = v3[1].pc \/ (f.pc = v3[1].pc + 1 /\ At(v3[1]).op \in {"suspend", "sleep"}))
      BY <2>2, <3>1, <1>0
    <3>3. f.pc \in 1..MainLen
      <4>1. At(v3[1]).op \in {"suspend", "sleep"} => v3[1].pc # MainLen
        BY <1>0, MainKinds
      <4>2. MainLen \in Nat
        BY DEF MainLen
      <4> QED BY <3>2, <4>1, <4>2, <1>0
    <3>4. \A k \in 2..Depth' : v3'[k].of \in Caught /\ v3'[k].pc \in 1..HandlerLen(v3'[k].of)
      BY <3>1
    <3>5. SigStack'
      BY <2>3, <3>1, <3>2, <3>3, <3>4, <1>1 DEF SigStack
    <3>6. Base' = Base
      BY <3>1, <2>1, <2>6 DEF Base
    <3> QED BY <2>5, <2>6, <3>1, <3>2, <3>5, <3>6 DEF MainStays, MainWoken
  <2>7. CASE Depth > 2
    <3>1. v3[Depth - 1].of \in Caught /\ v3[Depth - 1].pc \in 1..HandlerLen(v3[Depth - 1].of)
      <4>1. Depth - 1 \in 2..Depth
        BY <2>7, <1>0
      <4> QED BY <4>1, <1>3
    <3>2. f.of \in Caught /\ f.pc \in 1..HandlerLen(f.of)
      <4>1. At(v3[Depth - 1]).op \in HandlerOpNames
        BY <3>1, <2>4, <1>0, HandlerKinds
      <4>2. f.pc = v3[Depth - 1].pc
        BY <4>1, <2>2 DEF HandlerOpNames
      <4> QED BY <4>2, <3>1, <2>2
    <3>3. v3'[1] = v3[1]
      BY <2>3, <2>7, <1>0
    <3>4. \A k \in 2..Depth' : v3'[k].of \in Caught /\ v3'[k].pc \in 1..HandlerLen(v3'[k].of)
      <4>1. ASSUME NEW k \in 2..Depth' PROVE v3'[k].of \in Caught /\ v3'[k].pc \in 1..HandlerLen(v3'[k].of)
        <5>1. CASE k = Depth - 1
          BY <5>1, <2>3, <3>2
        <5>2. CASE k # Depth - 1
          <6>1. k \in 2..Depth /\ k \in 1..(Depth - 2)
            BY <5>2, <2>3, <1>0
          <6> QED BY <6>1, <2>3, <1>3
        <5> QED BY <5>1, <5>2
      <4> QED BY <4>1
    <3>5. SigStack'
      BY <2>3, <3>3, <3>4, <1>0, <1>1, <2>7 DEF SigStack
    <3>6. Base' = Base
      <4>1. v3'[2].ret = v3[2].ret
        <5>1. CASE Depth = 3
          BY <5>1, <2>2, <2>3
        <5>2. CASE Depth # 3
          <6>1. 2 \in 1..(Depth - 2)
            BY <5>2, <2>7, <1>0
          <6> QED BY <6>1, <2>3
        <5> QED BY <5>1, <5>2
      <4>2. Depth' # 1 /\ Depth # 1
        BY <2>3, <2>7, <1>0
      <4> QED BY <4>1, <4>2 DEF Base
    <3> QED BY <2>5, <3>3, <3>5, <3>6 DEF MainStays
  <2> QED BY <2>1, <2>6, <2>7, <1>0
<1>8. CASE SigJumps
  <2>1. PICK f \in Frames : v3' = <<f>> /\ f.of = v3[1].of /\ f.pc = 6
    BY <1>8 DEF SigJumps
  <2>2. v3' \in Stacks /\ Depth' = 1 /\ v3'[1] = f
    BY <2>1 DEF Stacks, Depth
  <2>3. v5' = CHOOSE m \in v8 : TRUE
    BY <1>8 DEF SigJumps
  <2>4. v8 # {} /\ v8 \in SUBSET SUBSET SigNames /\ v1 = "mask"
    BY <1>8 DEF SigTypes
  <2>5. v5' \in v8
    BY <2>3, <2>4
  <2>6. MainLen = 6
    BY <2>4 DEF MainLen
  <2>7. \A k \in 2..Depth' : v3'[k].of \in Caught /\ v3'[k].pc \in 1..HandlerLen(v3'[k].of)
    BY <2>2
  <2>8. SigStack'
    BY <2>1, <2>2, <2>6, <2>7, <1>0, <1>1 DEF SigStack
  <2>9. MainJumps
    BY <1>8, <2>1, <2>2, <2>3 DEF MainJumps, Base
  <2> QED BY <2>4, <2>5, <2>8, <2>9
<1>9. CASE SigCalls
  <2>1. At(Here).op \notin {"ret", "exit", "siglongjmp"} /\ v5' = MaskAfter(At(Here))
    BY <1>9 DEF SigCalls
  <2>2. PICK f \in Frames : /\ v3' = [v3 EXCEPT ![Depth] = f] /\ f.of = Here.of /\ f.ret = Here.ret
                            /\ \/ f.pc = Here.pc /\ At(Here).op \in Blocking
                               \/ f.pc = Here.pc + 1 /\ At(Here).op \notin {"goto", "pause"}
                               \/ f.pc = At(Here).arg /\ (At(Here).op = "goto" \/ (At(Here).op = "if" /\ v7))
    BY <1>9 DEF SigCalls
  <2>3. v3' \in Stacks /\ Depth' = Depth /\ v3'[Depth] = f /\ \A k \in 1..(Depth - 1) : v3'[k] = v3[k]
    BY <2>2, <1>0, <1>2, AfterCall
  <2>4. v5' \in SUBSET SigNames
    <3>1. v2.mask \in SUBSET SigNames
      BY DEF SigTypes
    <3> QED BY <2>1, <3>1, <1>0, <1>2 DEF MaskAfter
  <2>5. CASE Depth = 1
    <3>1. v3'[1] = f /\ Here = v3[1] /\ f.of = "main"
      BY <2>2, <2>3, <2>5, <1>0
    <3>2. f.pc \in 1..MainLen
      <4>1. /\ At(Here).op \in {"if", "goto"} => At(Here).arg \in 1..MainLen
            /\ Here.pc = MainLen => At(Here).op = "exit"
        BY <3>1, <1>0, MainKinds
      <4>2. MainLen \in Nat
        BY DEF MainLen
      <4> QED BY <4>1, <4>2, <3>1, <2>1, <2>2, <1>0
    <3>3. SigStack'
      BY <2>3, <2>5, <3>1, <3>2, <1>1 DEF SigStack
    <3>4. MainCalls
      BY <1>9, <2>1, <2>2, <2>3, <2>5, <3>1 DEF MainCalls, Base
    <3> QED BY <2>4, <3>3, <3>4
  <2>6. CASE Depth > 1
    <3>1. v3'[1] = v3[1]
      BY <2>3, <2>6, <1>0
    <3>2. f.of \in Caught /\ f.pc \in 1..HandlerLen(f.of)
      <4>1. /\ At(Here).op = "if" => At(Here).arg \in 1..HandlerLen(Here.of)
            /\ Here.pc = HandlerLen(Here.of) => At(Here).op \in {"ret", "siglongjmp"}
        BY <2>6, <1>0, HandlerKinds
      <4>2. HandlerLen(Here.of) \in Nat /\ At(Here).op # "goto"
        BY <2>6, <1>0 DEF HandlerLen, HandlerOpNames
      <4> QED BY <4>1, <4>2, <2>1, <2>2, <2>6, <1>0
    <3>3. \A k \in 2..Depth' : v3'[k].of \in Caught /\ v3'[k].pc \in 1..HandlerLen(v3'[k].of)
      <4>1. ASSUME NEW k \in 2..Depth' PROVE v3'[k].of \in Caught /\ v3'[k].pc \in 1..HandlerLen(v3'[k].of)
        <5>1. CASE k = Depth
          BY <5>1, <2>3, <3>2
        <5>2. CASE k # Depth
          <6>1. k \in 2..Depth /\ k \in 1..(Depth - 1)
            BY <5>2, <2>3, <1>0
          <6> QED BY <6>1, <2>3, <1>3
        <5> QED BY <5>1, <5>2
      <4> QED BY <4>1
    <3>4. SigStack'
      BY <2>3, <3>1, <3>3, <1>0, <1>1 DEF SigStack
    <3>5. Base' = Base
      <4>1. v3'[2].ret = v3[2].ret
        <5>1. CASE Depth = 2
          BY <5>1, <2>2, <2>3 DEF Here
        <5>2. CASE Depth # 2
          <6>1. 2 \in 1..(Depth - 1)
            BY <5>2, <2>6, <1>0
          <6> QED BY <6>1, <2>3
        <5> QED BY <5>1, <5>2
      <4>2. Depth' # 1 /\ Depth # 1
        BY <2>3, <2>6
      <4> QED BY <4>1, <4>2 DEF Base
    <3> QED BY <2>4, <3>1, <3>4, <3>5 DEF MainStays
  <2> QED BY <2>5, <2>6, <1>0
<1> QED BY <1>5, <1>6, <1>7, <1>8, <1>9, SigSteps

\* The mask of each program at each place of main.
MainMask(p) ==
  CASE v1 = "suspend1" -> IF p \in 3..4 THEN {"INT"} ELSE {}
    [] v1 = "suspend2" -> IF p \in 4..8 THEN {"QUIT"} ELSE {}
    [] v1 = "critical" -> IF p \in 3..4 THEN {"QUIT"} ELSE {}
    [] v1 = "system" -> IF p \in 4..8 THEN {"CHLD"} ELSE {}
    [] v1 = "abort" -> IF p \in 1..3 THEN v2.mask ELSE SigNames \ {"ABRT"}
    [] OTHER -> {}

\* The mask of main is the one of its place.
SigMask ==
  /\ v1 # "abort" => v2.mask = {}
  /\ Base = MainMask(v3[1].pc)

\* mask.c: canjump is set, and sig_usr1 past its test, only after sigsetjmp,
\* which has saved an empty mask.
SigJump ==
  /\ v8 \subseteq {{}}
  /\ v1 = "mask" /\ v7 => v8 # {}
  /\ v1 = "mask" /\ v3[1].pc > 3 => v8 # {}
  /\ \A k \in 2..Depth : v3[k].of = "USR1" /\ v3[k].pc > 2 => v8 # {}

\* What all the programs share.
SigBasics == SigTypes /\ SigMask /\ SigJump

\* A call of main leaves the mask of the next place.
LEMMA MaskCalls ==
  ASSUME SigTypes, SigMask, MainCalls
  PROVE MaskAfter(At(v3[1])) = MainMask(v3'[1].pc)
<1> DEFINE p == v3[1].pc  q == v3'[1].pc  i == At(v3[1])  m == MaskAfter(i)
<1>0. v3[1] \in Frames /\ v3[1].of = "main" /\ p \in 1..MainLen /\ v1 \in SigPrograms
  BY WhatRuns
<1>1. /\ v5 = MainMask(p)
      /\ i.op \notin {"ret", "exit", "siglongjmp"}
      /\ \/ q = p /\ i.op \in {"suspend", "pause", "read", "sleep", "busy", "waitpid"}
         \/ q = p + 1 /\ i.op \notin {"goto", "pause"}
         \/ q = i.arg /\ i.op \in {"if", "goto"}
  BY DEF SigMask, MainCalls, Blocking
<1>2. /\ i.op \notin {"block", "unblock", "setmask", "fill"} => m = v5
      /\ i.op = "block" => m = v5 \cup i.arg
      /\ i.op = "setmask" => m = v2.mask
      /\ i.op = "fill" => m = SigNames \ {i.arg}
  BY DEF MaskAfter
<1>3. v1 # "abort" => v2.mask = {}
  BY DEF SigMask
<1> HIDE DEF p, q, i, m
<1>4. ASSUME v1 = "suspend1" PROVE m = MainMask(q)
  <2>1. p \in {1, 2, 3, 4, 5}
    BY <1>0, <1>4 DEF MainLen
  <2>2. /\ MainMask(p) = IF p \in 3..4 THEN {"INT"} ELSE {}
        /\ MainMask(q) = IF q \in 3..4 THEN {"INT"} ELSE {}
    BY <1>4 DEF MainMask
  <2>3. /\ p = 1 => i.op = "catch" /\ i.arg = "INT"
        /\ p = 2 => i.op = "block" /\ i.arg = {"INT"}
        /\ p = 3 => i.op = "suspend" /\ i.arg = {"USR1"}
        /\ p = 4 => i.op = "setmask"
        /\ p = 5 => i.op = "exit"
    BY <1>0, <1>4, Suspend1Ops DEF i, p
  <2>4. CASE p = 1
    BY <1>1, <1>2, <1>3, <1>4, <2>2, <2>3, <2>4
  <2>5. CASE p = 2
    BY <1>1, <1>2, <1>3, <1>4, <2>2, <2>3, <2>5
  <2>6. CASE p = 3
    BY <1>1, <1>2, <1>3, <1>4, <2>2, <2>3, <2>6
  <2>7. CASE p = 4
    BY <1>1, <1>2, <1>3, <1>4, <2>2, <2>3, <2>7
  <2>8. CASE p = 5
    BY <1>1, <1>2, <1>3, <1>4, <2>2, <2>3, <2>8
  <2> QED BY <2>1, <2>4, <2>5, <2>6, <2>7, <2>8
<1>5. ASSUME v1 = "suspend2" PROVE m = MainMask(q)
  <2>1. p \in {1, 2, 3, 4, 5, 6, 7, 8, 9}
    BY <1>0, <1>5 DEF MainLen
  <2>2. /\ MainMask(p) = IF p \in 4..8 THEN {"QUIT"} ELSE {}
        /\ MainMask(q) = IF q \in 4..8 THEN {"QUIT"} ELSE {}
    BY <1>5 DEF MainMask
  <2>3. /\ p = 1 => i.op = "catch" /\ i.arg = "INT"
        /\ p = 2 => i.op = "catch" /\ i.arg = "QUIT"
        /\ p = 3 => i.op = "block" /\ i.arg = {"QUIT"}
        /\ p = 4 => i.op = "if" /\ i.arg = 7
        /\ p = 5 => i.op = "suspend" /\ i.arg = {}
        /\ p = 6 => i.op = "goto" /\ i.arg = 4
        /\ p = 7 => i.op = "flag"
        /\ p = 8 => i.op = "setmask"
        /\ p = 9 => i.op = "exit"
    BY <1>0, <1>5, Suspend2Ops DEF i, p
  <2>4. CASE p = 1
    BY <1>1, <1>2, <1>3, <1>5, <2>2, <2>3, <2>4
  <2>5. CASE p = 2
    BY <1>1, <1>2, <1>3, <1>5, <2>2, <2>3, <2>5
  <2>6. CASE p = 3
    BY <1>1, <1>2, <1>3, <1>5, <2>2, <2>3, <2>6
  <2>7. CASE p = 4
    BY <1>1, <1>2, <1>3, <1>5, <2>2, <2>3, <2>7
  <2>8. CASE p = 5
    BY <1>1, <1>2, <1>3, <1>5, <2>2, <2>3, <2>8
  <2>9. CASE p = 6
    BY <1>1, <1>2, <1>3, <1>5, <2>2, <2>3, <2>9
  <2>10. CASE p = 7
    BY <1>1, <1>2, <1>3, <1>5, <2>2, <2>3, <2>10
  <2>11. CASE p = 8
    BY <1>1, <1>2, <1>3, <1>5, <2>2, <2>3, <2>11
  <2>12. CASE p = 9
    BY <1>1, <1>2, <1>3, <1>5, <2>2, <2>3, <2>12
  <2> QED BY <2>1, <2>4, <2>5, <2>6, <2>7, <2>8, <2>9, <2>10, <2>11, <2>12
<1>6. ASSUME v1 = "critical" PROVE m = MainMask(q)
  <2>1. p \in {1, 2, 3, 4, 5, 6}
    BY <1>0, <1>6 DEF MainLen
  <2>2. /\ MainMask(p) = IF p \in 3..4 THEN {"QUIT"} ELSE {}
        /\ MainMask(q) = IF q \in 3..4 THEN {"QUIT"} ELSE {}
    BY <1>6 DEF MainMask
  <2>3. /\ p = 1 => i.op = "catch" /\ i.arg = "QUIT"
        /\ p = 2 => i.op = "block" /\ i.arg = {"QUIT"}
        /\ p = 3 => i.op = "sleep"
        /\ p = 5 => i.op = "sleep"
        /\ p = 4 => i.op = "setmask"
        /\ p = 6 => i.op = "exit"
    BY <1>0, <1>6, CriticalOps DEF i, p
  <2>4. CASE p = 1
    BY <1>1, <1>2, <1>3, <1>6, <2>2, <2>3, <2>4
  <2>5. CASE p = 2
    BY <1>1, <1>2, <1>3, <1>6, <2>2, <2>3, <2>5
  <2>6. CASE p = 3
    BY <1>1, <1>2, <1>3, <1>6, <2>2, <2>3, <2>6
  <2>7. CASE p = 4
    BY <1>1, <1>2, <1>3, <1>6, <2>2, <2>3, <2>7
  <2>8. CASE p = 5
    BY <1>1, <1>2, <1>3, <1>6, <2>2, <2>3, <2>8
  <2>9. CASE p = 6
    BY <1>1, <1>2, <1>3, <1>6, <2>2, <2>3, <2>9
  <2> QED BY <2>1, <2>4, <2>5, <2>6, <2>7, <2>8, <2>9
<1>7. ASSUME v1 = "mask" PROVE m = MainMask(q)
  <2>1. p \in {1, 2, 3, 4, 5, 6}
    BY <1>0, <1>7 DEF MainLen
  <2>2. /\ MainMask(p) = {}
        /\ MainMask(q) = {}
    BY <1>7 DEF MainMask
  <2>3. /\ p = 1 => i.op = "catch" /\ i.arg = "USR1"
        /\ p = 2 => i.op = "catch" /\ i.arg = "ALRM"
        /\ p = 3 => i.op = "sigsetjmp"
        /\ p = 4 => i.op = "flag"
        /\ p = 5 => i.op = "pause"
        /\ p = 6 => i.op = "exit"
    BY <1>0, <1>7, MaskOps DEF i, p
  <2>4. CASE p = 1
    BY <1>1, <1>2, <1>3, <1>7, <2>2, <2>3, <2>4
  <2>5. CASE p = 2
    BY <1>1, <1>2, <1>3, <1>7, <2>2, <2>3, <2>5
  <2>6. CASE p = 3
    BY <1>1, <1>2, <1>3, <1>7, <2>2, <2>3, <2>6
  <2>7. CASE p = 4
    BY <1>1, <1>2, <1>3, <1>7, <2>2, <2>3, <2>7
  <2>8. CASE p = 5
    BY <1>1, <1>2, <1>3, <1>7, <2>2, <2>3, <2>8
  <2>9. CASE p = 6
    BY <1>1, <1>2, <1>3, <1>7, <2>2, <2>3, <2>9
  <2> QED BY <2>1, <2>4, <2>5, <2>6, <2>7, <2>8, <2>9
<1>8. ASSUME v1 = "abort" PROVE m = MainMask(q)
  <2>1. p \in {1, 2, 3, 4, 5, 6, 7, 8, 9}
    BY <1>0, <1>8 DEF MainLen
  <2>2. /\ MainMask(p) = IF p \in 1..3 THEN v2.mask ELSE SigNames \ {"ABRT"}
        /\ MainMask(q) = IF q \in 1..3 THEN v2.mask ELSE SigNames \ {"ABRT"}
    BY <1>8 DEF MainMask
  <2>3. /\ p = 1 => i.op = "noign" /\ i.arg = "ABRT"
        /\ p = 2 => i.op = "flushdfl" /\ i.arg = "ABRT"
        /\ p = 3 => i.op = "fill" /\ i.arg = "ABRT"
        /\ p = 4 => i.op = "raise" /\ i.arg = "ABRT"
        /\ p = 7 => i.op = "fill" /\ i.arg = "ABRT"
        /\ p = 8 => i.op = "raise" /\ i.arg = "ABRT"
        /\ p = 5 => i.op = "flag" /\ i.arg = TRUE
        /\ p = 6 => i.op = "dfl" /\ i.arg = "ABRT"
        /\ p = 9 => i.op = "exit"
    BY <1>0, <1>8, AbortOps DEF i, p
  <2>4. CASE p = 1
    BY <1>1, <1>2, <1>3, <1>8, <2>2, <2>3, <2>4
  <2>5. CASE p = 2
    BY <1>1, <1>2, <1>3, <1>8, <2>2, <2>3, <2>5
  <2>6. CASE p = 3
    BY <1>1, <1>2, <1>3, <1>8, <2>2, <2>3, <2>6
  <2>7. CASE p = 4
    BY <1>1, <1>2, <1>3, <1>8, <2>2, <2>3, <2>7
  <2>8. CASE p = 5
    BY <1>1, <1>2, <1>3, <1>8, <2>2, <2>3, <2>8
  <2>9. CASE p = 6
    BY <1>1, <1>2, <1>3, <1>8, <2>2, <2>3, <2>9
  <2>10. CASE p = 7
    BY <1>1, <1>2, <1>3, <1>8, <2>2, <2>3, <2>10
  <2>11. CASE p = 8
    BY <1>1, <1>2, <1>3, <1>8, <2>2, <2>3, <2>11
  <2>12. CASE p = 9
    BY <1>1, <1>2, <1>3, <1>8, <2>2, <2>3, <2>12
  <2> QED BY <2>1, <2>4, <2>5, <2>6, <2>7, <2>8, <2>9, <2>10, <2>11, <2>12
<1>9. ASSUME v1 = "proc_system" PROVE m = MainMask(q)
  <2>1. p \in {1, 2, 3}
    BY <1>0, <1>9 DEF MainLen
  <2>2. /\ MainMask(p) = {}
        /\ MainMask(q) = {}
    BY <1>9 DEF MainMask
  <2>3. /\ p = 1 => i.op = "fork"
        /\ p = 2 => i.op = "waitpid"
        /\ p = 3 => i.op = "exit"
    BY <1>0, <1>9, ProcSystemOps DEF i, p
  <2>4. CASE p = 1
    BY <1>1, <1>2, <1>3, <1>9, <2>2, <2>3, <2>4
  <2>5. CASE p = 2
    BY <1>1, <1>2, <1>3, <1>9, <2>2, <2>3, <2>5
  <2>6. CASE p = 3
    BY <1>1, <1>2, <1>3, <1>9, <2>2, <2>3, <2>6
  <2> QED BY <2>1, <2>4, <2>5, <2>6
<1>10. ASSUME v1 = "system" PROVE m = MainMask(q)
  <2>1. p \in {1, 2, 3, 4, 5, 6, 7, 8, 9}
    BY <1>0, <1>10 DEF MainLen
  <2>2. /\ MainMask(p) = IF p \in 4..8 THEN {"CHLD"} ELSE {}
        /\ MainMask(q) = IF q \in 4..8 THEN {"CHLD"} ELSE {}
    BY <1>10 DEF MainMask
  <2>3. /\ p = 1 => i.op = "ign" /\ i.arg = "INT"
        /\ p = 2 => i.op = "ign" /\ i.arg = "QUIT"
        /\ p = 3 => i.op = "block" /\ i.arg = {"CHLD"}
        /\ p = 4 => i.op = "fork"
        /\ p = 5 => i.op = "waitpid"
        /\ p = 6 => i.op = "old" /\ i.arg = "INT"
        /\ p = 7 => i.op = "old" /\ i.arg = "QUIT"
        /\ p = 8 => i.op = "setmask"
        /\ p = 9 => i.op = "exit"
    BY <1>0, <1>10, SystemOps DEF i, p
  <2>4. CASE p = 1
    BY <1>1, <1>2, <1>3, <1>10, <2>2, <2>3, <2>4
  <2>5. CASE p = 2
    BY <1>1, <1>2, <1>3, <1>10, <2>2, <2>3, <2>5
  <2>6. CASE p = 3
    BY <1>1, <1>2, <1>3, <1>10, <2>2, <2>3, <2>6
  <2>7. CASE p = 4
    BY <1>1, <1>2, <1>3, <1>10, <2>2, <2>3, <2>7
  <2>8. CASE p = 5
    BY <1>1, <1>2, <1>3, <1>10, <2>2, <2>3, <2>8
  <2>9. CASE p = 6
    BY <1>1, <1>2, <1>3, <1>10, <2>2, <2>3, <2>9
  <2>10. CASE p = 7
    BY <1>1, <1>2, <1>3, <1>10, <2>2, <2>3, <2>10
  <2>11. CASE p = 8
    BY <1>1, <1>2, <1>3, <1>10, <2>2, <2>3, <2>11
  <2>12. CASE p = 9
    BY <1>1, <1>2, <1>3, <1>10, <2>2, <2>3, <2>12
  <2> QED BY <2>1, <2>4, <2>5, <2>6, <2>7, <2>8, <2>9, <2>10, <2>11, <2>12
<1>11. ASSUME v1 = "sigtstp" PROVE m = MainMask(q)
  <2>1. p \in {1, 2, 3, 4}
    BY <1>0, <1>11 DEF MainLen
  <2>2. /\ MainMask(p) = {}
        /\ MainMask(q) = {}
    BY <1>11 DEF MainMask
  <2>3. /\ p = 1 => i.op = "ign" /\ i.arg = "TSTP"
        /\ p = 2 => i.op = "catchdfl" /\ i.arg = "TSTP"
        /\ p = 3 => i.op = "read"
        /\ p = 4 => i.op = "exit"
    BY <1>0, <1>11, SigtstpOps DEF i, p
  <2>4. CASE p = 1
    BY <1>1, <1>2, <1>3, <1>11, <2>2, <2>3, <2>4
  <2>5. CASE p = 2
    BY <1>1, <1>2, <1>3, <1>11, <2>2, <2>3, <2>5
  <2>6. CASE p = 3
    BY <1>1, <1>2, <1>3, <1>11, <2>2, <2>3, <2>6
  <2>7. CASE p = 4
    BY <1>1, <1>2, <1>3, <1>11, <2>2, <2>3, <2>7
  <2> QED BY <2>1, <2>4, <2>5, <2>6, <2>7
<1> QED BY <1>0, <1>4, <1>5, <1>6, <1>7, <1>8, <1>9, <1>10, <1>11 DEF SigPrograms, m, i, q

\* sigaction only for signals the program catches.
LEMMA ActionArgs ==
  ASSUME SigTypes
  PROVE /\ At(Here).op \in {"catch", "catchdfl", "dfl", "ign", "noign", "old"} => At(Here).arg \in SigNames
        /\ At(Here).op \in {"catch", "catchdfl"} => At(Here).arg \in Caught
        /\ At(Here).op = "sigsetjmp" => v1 = "mask" /\ Depth = 1 /\ v3[1].pc = 3
        /\ At(Here).op = "siglongjmp" => Depth > 1 /\ Here.of = "USR1" /\ Here.pc = 6 /\ v1 = "mask"
        /\ At(Here).op = "flag" /\ v1 = "mask" => \/ Depth = 1 /\ v3[1].pc = 4
                                                 \/ At(Here).arg = FALSE
        /\ At(Here).op = "flushdfl" => v1 = "abort"
        /\ At(Here).op \in {"raise", "alarm"} => At(Here).arg \in SigNames
<1>0. /\ Depth \in Nat /\ Depth > 0 /\ v1 \in SigPrograms /\ Here \in Frames
      /\ v3[1].of = "main" /\ v3[1].pc \in 1..MainLen
      /\ Depth = 1 => Here = v3[1]
      /\ Depth > 1 => Here.of \in Caught /\ Here.pc \in 1..HandlerLen(Here.of)
  BY WhatRuns
<1> DEFINE f == Here  i == At(f)
           Fine == /\ i.op \in {"catch", "catchdfl", "dfl", "ign", "noign", "old"} => i.arg \in SigNames
                   /\ i.op \in {"catch", "catchdfl"} => i.arg \in Caught
                   /\ i.op = "sigsetjmp" => v1 = "mask" /\ f.of = "main" /\ f.pc = 3
                   /\ i.op = "siglongjmp" => f.of = "USR1" /\ f.pc = 6
                   /\ i.op = "flag" /\ v1 = "mask" => (f.of = "main" /\ f.pc = 4) \/ i.arg = FALSE
                   /\ i.op = "flushdfl" => v1 = "abort"
                   /\ i.op \in {"raise", "alarm"} => i.arg \in SigNames
<1> HIDE DEF f, i
<1>1. ASSUME f.of = "main", f.pc \in 1..MainLen, f \in Frames PROVE Fine
  <2>1. ASSUME v1 = "suspend1" PROVE Fine
    <3>1. f.pc \in {1, 2, 3, 4, 5}
      BY <1>1, <2>1 DEF MainLen
    <3> QED BY <1>1, <2>1, <3>1, Suspend1Ops DEF Caught, SigNames, i
  <2>2. ASSUME v1 = "suspend2" PROVE Fine
    <3>1. f.pc \in {1, 2, 3, 4, 5, 6, 7, 8, 9}
      BY <1>1, <2>2 DEF MainLen
    <3> QED BY <1>1, <2>2, <3>1, Suspend2Ops DEF Caught, SigNames, i
  <2>3. ASSUME v1 = "critical" PROVE Fine
    <3>1. f.pc \in {1, 2, 3, 4, 5, 6}
      BY <1>1, <2>3 DEF MainLen
    <3> QED BY <1>1, <2>3, <3>1, CriticalOps DEF Caught, SigNames, i
  <2>4. ASSUME v1 = "mask" PROVE Fine
    <3>1. f.pc \in {1, 2, 3, 4, 5, 6}
      BY <1>1, <2>4 DEF MainLen
    <3> QED BY <1>1, <2>4, <3>1, MaskOps DEF Caught, SigNames, i
  <2>5. ASSUME v1 = "abort" PROVE Fine
    <3>1. f.pc \in {1, 2, 3, 4, 5, 6, 7, 8, 9}
      BY <1>1, <2>5 DEF MainLen
    <3>2. i.op \in {"noign", "flushdfl", "fill", "raise", "flag", "dfl", "exit"}
      BY <1>1, <2>5, <3>1, AbortOps DEF i
    <3>3. i.op \in {"noign", "dfl", "raise"} => i.arg = "ABRT"
      BY <1>1, <2>5, <3>1, AbortOps DEF i
    <3> QED BY <2>5, <3>2, <3>3 DEF SigNames
  <2>6. ASSUME v1 = "proc_system" PROVE Fine
    <3>1. f.pc \in {1, 2, 3}
      BY <1>1, <2>6 DEF MainLen
    <3> QED BY <1>1, <2>6, <3>1, ProcSystemOps DEF i
  <2>7. ASSUME v1 = "system" PROVE Fine
    <3>1. f.pc \in {1, 2, 3, 4, 5, 6, 7, 8, 9}
      BY <1>1, <2>7 DEF MainLen
    <3>2. i.op \in {"ign", "block", "fork", "waitpid", "old", "setmask", "exit"}
      BY <1>1, <2>7, <3>1, SystemOps DEF i
    <3>3. i.op \in {"ign", "old"} => i.arg \in {"INT", "QUIT"}
      BY <1>1, <2>7, <3>1, SystemOps DEF i
    <3> QED BY <2>7, <3>2, <3>3 DEF SigNames
  <2>8. ASSUME v1 = "sigtstp" PROVE Fine
    <3>1. f.pc \in {1, 2, 3, 4}
      BY <1>1, <2>8 DEF MainLen
    <3> QED BY <1>1, <2>8, <3>1, SigtstpOps DEF Caught, SigNames, i
  <2> QED BY <1>0, <2>1, <2>2, <2>3, <2>4, <2>5, <2>6, <2>7, <2>8 DEF SigPrograms
<1>2. ASSUME f.of \in Caught, f.pc \in 1..HandlerLen(f.of), f \in Frames PROVE Fine
  <2>0. f.of \in {"INT", "QUIT", "USR1", "ALRM", "ABRT", "TSTP", "CHLD"}
    BY <1>2 DEF Caught
  <2>1. ASSUME f.of \in {"INT", "ALRM", "ABRT", "CHLD"} PROVE Fine
    <3>1. f.pc = 1
      BY <1>2, <2>1 DEF HandlerLen
    <3> QED BY <1>0, <1>2, <2>1, <3>1, HandlerOps DEF i
  <2>2. ASSUME f.of = "QUIT" PROVE Fine
    <3>1. f.pc \in {1, 2}
      BY <1>2, <2>2 DEF HandlerLen
    <3>2. v1 \in {"suspend2", "critical"}
      BY <1>0, <1>2, <2>2, HandlerOps
    <3> QED BY <1>0, <1>2, <2>2, <3>1, <3>2, HandlerOps DEF i, SigNames
  <2>3. ASSUME f.of = "USR1" PROVE Fine
    <3>1. f.pc \in {1, 2, 3, 4, 5, 6}
      BY <1>2, <2>3 DEF HandlerLen
    <3>2. /\ i.op \in {"if", "ret", "alarm", "busy", "flag", "siglongjmp"}
          /\ i.op = "flag" => i.arg = FALSE
          /\ i.op = "siglongjmp" => f.pc = 6
          /\ i.op = "alarm" => i.arg = "ALRM"
      BY <1>0, <1>2, <2>3, <3>1, HandlerOps DEF i
    <3> QED BY <2>3, <3>2 DEF SigNames
  <2>4. ASSUME f.of = "TSTP" PROVE Fine
    <3>1. f.pc \in {1, 2, 3, 4, 5} /\ v1 = "sigtstp"
      BY <1>0, <1>2, <2>4 DEF HandlerLen, Caught, SigPrograms
    <3>2. /\ i.op \in {"unblock", "dfl", "raise", "catch", "ret"}
          /\ i.op \in {"dfl", "catch", "raise"} => i.arg = "TSTP"
      BY <1>0, <1>2, <2>4, <3>1, HandlerOps DEF i
    <3> QED BY <3>1, <3>2 DEF Caught, SigNames
  <2> QED BY <2>0, <2>1, <2>2, <2>3, <2>4
<1>3. "main" \notin Caught
  BY DEF Caught
<1>4. f.of = "USR1" => v1 = "mask" \/ f.of \notin Caught
  BY <1>0 DEF Caught, SigPrograms
<1>5. CASE Depth = 1
  <2>1. f = v3[1] /\ f.of = "main" /\ f.pc \in 1..MainLen /\ f \in Frames
    BY <1>0, <1>5 DEF f
  <2>2. Fine
    BY <1>1, <2>1
  <2> QED BY <1>5, <2>1, <2>2 DEF i, f
<1>6. CASE Depth > 1
  <2>1. f.of \in Caught /\ f.pc \in 1..HandlerLen(f.of) /\ f \in Frames
    BY <1>0, <1>6 DEF f
  <2>2. Fine
    BY <1>2, <2>1
  <2> QED BY <1>3, <1>4, <1>6, <2>1, <2>2 DEF i, f
<1>7. Depth = 1 \/ Depth > 1
  BY <1>0
<1> QED BY <1>5, <1>6, <1>7

\* What a step does to the actions, the pending signals, the flag and the
\* saved mask.
LEMMA SigData ==
  ASSUME SigTypes, Signals!Next
  PROVE /\ v4' \in [SigNames -> Actions]
        /\ \A s \in SigNames : v4'[s] = "catch" => s \in Caught
        /\ v6' \in SUBSET SigNames
        /\ \/ v8' = v8
           \/ v8' = {v5} /\ At(Here).op = "sigsetjmp"
        /\ \/ v7' = v7
           \/ At(Here).op = "flag" /\ v7' = At(Here).arg
           \/ At(Here).op = "flushdfl"
<1>0. /\ Here \in Frames /\ Signals!top = Here /\ Signals!ins = At(Here)
  BY WhatRuns
<1>1. /\ v4 \in [SigNames -> Actions] /\ v6 \in SUBSET SigNames
      /\ \A s \in SigNames : v4[s] = "catch" => s \in Caught
      /\ v2.act \in [SigNames -> Actions]
      /\ \A s \in SigNames : v2.act[s] = "catch" => s \in Caught
      /\ Signals!Sigs = SigNames
  BY DEF SigTypes, Signals!Sigs, SigNames
<1>2. CASE Signals!Sigaction
  <2> DEFINE i == At(Here)
             a == CASE i.op \in {"catch", "dfl", "ign"} -> i.op
                    [] i.op = "noign" -> IF v4[i.arg] = "ign" THEN "dfl" ELSE v4[i.arg]
                    [] i.op = "catchdfl" -> IF v2.act["TSTP"] = "dfl" THEN "catch" ELSE v4[i.arg]
                    [] i.op = "old" -> v2.act[i.arg]
  <2>1. i.op \in {"catch", "catchdfl", "dfl", "ign", "noign", "old"}
    BY <1>0, <1>2 DEF Signals!Sigaction, Signals!Ready
  <2>2. i.arg \in SigNames /\ (i.op \in {"catch", "catchdfl"} => i.arg \in Caught)
    BY <2>1, ActionArgs
  <2>3. v4' = [v4 EXCEPT ![i.arg] = a] /\ v7' = v7 /\ v8' = v8 /\ v6' = {s \in v6 : v4'[s] # "ign"}
    BY <1>0, <1>2 DEF Signals!Sigaction
  <2>4. a \in Actions /\ (a = "catch" => i.arg \in Caught)
    <3>1. v4[i.arg] \in Actions /\ v2.act[i.arg] \in Actions
      BY <1>1, <2>2
    <3> HIDE DEF i
    <3>2. CASE i.op \in {"catch", "dfl", "ign"}
      BY <2>2, <3>2 DEF Actions
    <3>3. CASE i.op = "noign"
      BY <1>1, <2>2, <3>1, <3>3 DEF Actions
    <3>4. CASE i.op = "catchdfl"
      BY <1>1, <2>2, <3>1, <3>4 DEF Actions
    <3>5. CASE i.op = "old"
      BY <1>1, <2>2, <3>1, <3>5
    <3> QED BY <2>1, <3>2, <3>3, <3>4, <3>5
  <2> HIDE DEF i, a
  <2>5. v6' \in SUBSET SigNames
    BY <1>1, <2>3
  <2>6. v4' \in [SigNames -> Actions]
    BY <1>1, <2>2, <2>3, <2>4
  <2>7. \A s \in SigNames : v4'[s] = "catch" => s \in Caught
    BY <1>1, <2>2, <2>3, <2>4
  <2> QED BY <2>3, <2>5, <2>6, <2>7
<1>3. CASE \/ Signals!sigprocmask \/ Signals!Branch \/ Signals!Enter \/ Signals!Leave \/ Signals!siglongjmp
           \/ Signals!HandlerReturns \/ Signals!fork \/ Signals!exit
  BY <1>1, <1>3 DEF Signals!sigprocmask, Signals!Branch, Signals!Enter, Signals!Leave, Signals!siglongjmp,
     Signals!HandlerReturns, Signals!fork, Signals!exit
<1>4. CASE Signals!SetFlag
  <2>1. v4' = v4 /\ v6' = v6 /\ v8' = v8
    BY <1>4 DEF Signals!SetFlag
  <2>2. \/ At(Here).op = "flag" /\ v7' = At(Here).arg
        \/ At(Here).op = "flushdfl"
    BY <1>0, <1>4 DEF Signals!SetFlag, Signals!Ready
  <2> QED BY <1>1, <2>1, <2>2
<1>5. CASE Signals!Raise
  <2>1. v4' = v4 /\ v7' = v7 /\ v8' = v8 /\ v6' = v6 \cup {At(Here).arg} /\ At(Here).op \in {"raise", "alarm"}
    BY <1>0, <1>5 DEF Signals!Raise, Signals!Ready
  <2>2. At(Here).arg \in SigNames
    BY <2>1, ActionArgs
  <2> QED BY <1>1, <2>1, <2>2
<1>6. CASE Signals!sigsetjmp
  BY <1>0, <1>1, <1>6 DEF Signals!sigsetjmp, Signals!Ready
<1>7. CASE Signals!Child
  <2>1. v4' = v4 /\ v7' = v7 /\ v8' = v8 /\ v6' \subseteq v6 \cup {"CHLD"}
    BY <1>7 DEF Signals!Child
  <2> QED BY <1>1, <2>1 DEF SigNames
<1>8. CASE Signals!Continue
  BY <1>1, <1>8 DEF Signals!Continue
<1>9. CASE \E s \in Signals!Sigs : Signals!Deliver(s)
  <2>1. PICK s \in SigNames : Signals!Deliver(s)
    BY <1>1, <1>9
  <2> QED BY <1>1, <2>1 DEF Signals!Deliver
<1>10. CASE \E s \in Signals!Sigs : Signals!Send(s)
  <2>1. PICK s \in SigNames : Signals!Send(s)
    BY <1>1, <1>10
  <2>2. v4' = v4 /\ v7' = v7 /\ v8' = v8 /\ v6' \subseteq v6 \cup {s}
    BY <2>1 DEF Signals!Send
  <2> QED BY <1>1, <2>2
<1> QED BY <1>2, <1>3, <1>4, <1>5, <1>6, <1>7, <1>8, <1>9, <1>10 DEF Signals!Next, Signals!Process

\* SigBasics is inductive.
LEMMA BasicsKept ==
  ASSUME SigBasics, Signals!Next
  PROVE /\ SigBasics' /\ v1' = v1 /\ v2' = v2
        /\ MainStays \/ MainWoken \/ MainJumps \/ MainCalls
<1>0. SigTypes /\ SigMask /\ SigJump
  BY DEF SigBasics
<1>1. /\ v1' = v1 /\ v2' = v2 /\ Caught' = Caught /\ MainLen' = MainLen
      /\ SigStill \/ SigCatches \/ SigReturns \/ SigJumps \/ SigCalls
  BY <1>0, SigSteps DEF Caught, MainLen
<1>2. /\ Depth \in Nat /\ Depth > 0 /\ v1 \in SigPrograms /\ Here \in Frames
      /\ v3[1] \in Frames /\ v3[1].of = "main" /\ v3[1].pc \in 1..MainLen
      /\ Depth = 1 => Here = v3[1]
      /\ Depth > 1 => /\ Here.of \in Caught /\ Here.pc \in 1..HandlerLen(Here.of)
  BY <1>0, WhatRuns
<1>3. At(Here).op = "siglongjmp" => v8 # {} /\ v1 = "mask"
  <2> SUFFICES ASSUME At(Here).op = "siglongjmp" PROVE v8 # {} /\ v1 = "mask"
    OBVIOUS
  <2>1. Depth > 1 /\ Here.of = "USR1" /\ Here.pc = 6 /\ v1 = "mask"
    BY <1>0, ActionArgs
  <2>2. Depth \in 2..Depth
    BY <2>1, <1>2
  <2> QED BY <1>0, <2>1, <2>2 DEF SigJump, Here
<1>4. /\ SigStack' /\ v5' \in SUBSET SigNames
      /\ MainStays \/ MainWoken \/ MainJumps \/ MainCalls
  BY <1>0, <1>3, StackKept DEF SigJumps
<1>5. /\ v4' \in [SigNames -> Actions]
      /\ \A s \in SigNames : v4'[s] = "catch" => s \in Caught
      /\ v6' \in SUBSET SigNames
      /\ \/ v8' = v8
         \/ v8' = {v5} /\ At(Here).op = "sigsetjmp"
      /\ \/ v7' = v7
         \/ At(Here).op = "flag" /\ v7' = At(Here).arg
         \/ At(Here).op = "flushdfl"
  BY <1>0, SigData
<1>6. At(Here).op = "sigsetjmp" => v5 = {}
  <2> SUFFICES ASSUME At(Here).op = "sigsetjmp" PROVE v5 = {}
    OBVIOUS
  <2>1. v1 = "mask" /\ Depth = 1
    BY <1>0, ActionArgs
  <2> QED BY <1>0, <2>1 DEF SigMask, Base, MainMask
<1>7. v8' \subseteq {{}} /\ (v8 # {} => v8' # {})
  BY <1>0, <1>5, <1>6 DEF SigJump
<1>8. SigTypes'
  <2>1. v8' \in SUBSET SUBSET SigNames
    BY <1>7
  <2>2. /\ v1' \in SigPrograms /\ v2'.act \in [SigNames -> Actions] /\ v2'.mask \in SUBSET SigNames
        /\ \A s \in SigNames : v2'.act[s] = "catch" => s \in Caught
    BY <1>0, <1>1 DEF SigTypes
  <2> QED BY <1>1, <1>4, <1>5, <2>1, <2>2 DEF SigTypes, SigStack
<1>9. SigMask'
  <2>1. v1 # "abort" => v2.mask = {}
    BY <1>0 DEF SigMask
  <2>2. Base = MainMask(v3[1].pc)
    BY <1>0 DEF SigMask
  <2>3. \A p \in Nat : MainMask(p)' = MainMask(p)
    BY <1>1 DEF MainMask
  <2>4. Base' = MainMask(v3'[1].pc)
    <3>1. CASE MainStays
      BY <2>2, <3>1 DEF MainStays
    <3>2. CASE MainWoken
      <4> DEFINE p == v3[1].pc
      <4>1. Base' = Base /\ v3'[1].pc = p + 1 /\ At(v3[1]).op \in {"suspend", "sleep"}
        BY <3>2 DEF MainWoken
      <4>2. p \in 1..MainLen /\ v3[1] \in Frames /\ v3[1].of = "main"
        BY <1>2
      <4>3. v1 = "suspend1" => MainMask(p + 1) = MainMask(p)
        <5> SUFFICES ASSUME v1 = "suspend1" PROVE MainMask(p + 1) = MainMask(p)
          OBVIOUS
        <5>1. p \in {1, 2, 3, 4, 5}
          BY <4>2 DEF MainLen
        <5>2. p = 3
          BY <4>1, <4>2, <5>1, Suspend1Ops
        <5> QED BY <5>2 DEF MainMask
      <4>4. v1 = "suspend2" => MainMask(p + 1) = MainMask(p)
        <5> SUFFICES ASSUME v1 = "suspend2" PROVE MainMask(p + 1) = MainMask(p)
          OBVIOUS
        <5>1. p \in {1, 2, 3, 4, 5, 6, 7, 8, 9}
          BY <4>2 DEF MainLen
        <5>2. p = 5
          BY <4>1, <4>2, <5>1, Suspend2Ops
        <5> QED BY <5>2 DEF MainMask
      <4>5. v1 = "critical" => MainMask(p + 1) = MainMask(p)
        <5> SUFFICES ASSUME v1 = "critical" PROVE MainMask(p + 1) = MainMask(p)
          OBVIOUS
        <5>1. p \in {1, 2, 3, 4, 5, 6}
          BY <4>2 DEF MainLen
        <5>2. p \in {3, 5}
          BY <4>1, <4>2, <5>1, CriticalOps
        <5> QED BY <5>2 DEF MainMask
      <4>6. v1 = "abort" => MainMask(p + 1) = MainMask(p)
        <5> SUFFICES ASSUME v1 = "abort" PROVE FALSE
          OBVIOUS
        <5>1. p \in {1, 2, 3, 4, 5, 6, 7, 8, 9}
          BY <4>2 DEF MainLen
        <5> QED BY <4>1, <4>2, <5>1, AbortOps
      <4>7. v1 = "system" => MainMask(p + 1) = MainMask(p)
        <5> SUFFICES ASSUME v1 = "system" PROVE FALSE
          OBVIOUS
        <5>1. p \in {1, 2, 3, 4, 5, 6, 7, 8, 9}
          BY <4>2 DEF MainLen
        <5> QED BY <4>1, <4>2, <5>1, SystemOps
      <4>8. v1 \in {"mask", "proc_system", "sigtstp"} => MainMask(p + 1) = MainMask(p)
        BY DEF MainMask
      <4> HIDE DEF p
      <4>9. MainMask(p + 1) = MainMask(p)
        BY <1>2, <4>3, <4>4, <4>5, <4>6, <4>7, <4>8 DEF SigPrograms
      <4> QED BY <2>2, <4>1, <4>9 DEF p
    <3>3. CASE MainJumps
      <4>1. v3'[1].pc = 6 /\ Base' = CHOOSE m \in v8 : TRUE
        BY <3>3 DEF MainJumps
      <4>2. v8 # {} /\ v8 \subseteq {{}} /\ v1 = "mask"
        BY <1>0, <1>3, <3>3 DEF MainJumps, SigJumps, SigJump
      <4>3. (CHOOSE m \in v8 : TRUE) = {}
        BY <4>2
      <4> QED BY <4>1, <4>2, <4>3 DEF MainMask
    <3>4. CASE MainCalls
      <4>1. Base' = MaskAfter(At(v3[1]))
        BY <3>4 DEF MainCalls
      <4> QED BY <1>0, <3>4, <4>1, MaskCalls
    <3> QED BY <1>4, <3>1, <3>2, <3>3, <3>4
  <2>5. MainMask(v3'[1].pc) = MainMask(v3[1].pc)'
    BY <1>1 DEF MainMask
  <2> QED BY <1>1, <2>1, <2>4, <2>5 DEF SigMask
<1>10. SigJump'
  <2>1. v1 = "mask" /\ v3'[1].pc > 3 => v8' # {}
    <3> SUFFICES ASSUME v1 = "mask", v3'[1].pc > 3, v8 = {} PROVE v8' # {}
      BY <1>7
    <3>1. v3[1].pc \in {1, 2, 3}
      BY <1>0, <1>2 DEF SigJump, MainLen
    <3>2. At(v3[1]).op \in {"catch", "sigsetjmp"} /\ (v3[1].pc < 3 => At(v3[1]).op = "catch")
      BY <1>2, <3>1, MaskOps
    <3>3. MainCalls /\ v3[1].pc = 3
      BY <1>3, <1>4, <3>1, <3>2 DEF MainStays, MainWoken, MainJumps, SigJumps, MainCalls
    <3>4. At(Here).op = "sigsetjmp"
      BY <1>2, <3>2, <3>3, MaskOps DEF MainCalls
    <3>5. SigCalls
      BY <3>3 DEF MainCalls
    <3> QED BY <3>4, <3>5 DEF SigCalls
  <2>2. v1 = "mask" /\ v7' => v8' # {}
    <3> SUFFICES ASSUME v1 = "mask", v7', v8 = {} PROVE v8' # {}
      BY <1>7
    <3>1. ~v7 /\ ~(v3[1].pc > 3)
      BY <1>0 DEF SigJump
    <3>2. At(Here).op # "flushdfl"
      BY <1>0, ActionArgs
    <3>3. At(Here).op = "flag" => At(Here).arg = FALSE
      <4>1. v3[1].pc # 4
        BY <1>2, <3>1 DEF MainLen
      <4> QED BY <1>0, <4>1, ActionArgs
    <3> QED BY <1>5, <3>1, <3>2, <3>3
  <2>3. \A k \in 2..Depth' : v3'[k].of = "USR1" /\ v3'[k].pc > 2 => v8' # {}
    <3> SUFFICES ASSUME NEW k \in 2..Depth', v3'[k].of = "USR1", v3'[k].pc > 2, v8 = {} PROVE FALSE
      BY <1>7
    <3>1. ASSUME NEW j \in 2..Depth, v3[j].of = "USR1" PROVE v3[j].pc \in {1, 2} /\ v1 = "mask"
      <4>1. v3[j].of \in Caught /\ v3[j].pc \in 1..HandlerLen(v3[j].of) /\ ~(v3[j].pc > 2)
        BY <1>0, <3>1 DEF SigTypes, SigJump
      <4> QED BY <4>1, <3>1, <1>2 DEF HandlerLen, Caught, SigPrograms
    <3>2. CASE SigStill
      BY <3>1, <3>2 DEF SigStill, Depth
    <3>3. CASE SigCatches
      <4>1. PICK s \in Caught : v3' = Append(v3, [of |-> s, pc |-> 1, in |-> FALSE, ret |-> v5])
        BY <3>3 DEF SigCatches
      <4> DEFINE f == [of |-> s, pc |-> 1, in |-> FALSE, ret |-> v5]
      <4>2. f \in Frames /\ f.pc = 1 /\ v3' = Append(v3, f) /\ v3 \in Stacks
        BY <4>1, <1>0 DEF Frames, Caught, SigNames, SigTypes
      <4> HIDE DEF f
      <4>3. /\ Len(Append(v3, f)) = Len(v3) + 1 /\ Append(v3, f)[Len(v3) + 1] = f
            /\ \A j \in 1..Len(v3) : Append(v3, f)[j] = v3[j]
        BY <4>2, Pushed
      <4>4. Depth' = Depth + 1 /\ v3'[Depth + 1] = f /\ \A j \in 1..Depth : v3'[j] = v3[j]
        BY <4>2, <4>3 DEF Depth
      <4>5. k = Depth + 1 \/ k \in 2..Depth
        BY <4>4, <1>2
      <4>6. k \in 2..Depth => k \in 1..Depth
        BY <1>2
      <4>7. CASE k = Depth + 1
        <5>1. v3'[k] = f
          BY <4>4, <4>7
        <5>2. ~(f.pc > 2)
          BY <4>2
        <5>3. v3'[k].pc > 2
          OBVIOUS
        <5> QED BY <5>1, <5>2, <5>3
      <4>8. CASE k \in 2..Depth
        BY <4>4, <4>6, <4>8, <3>1
      <4> QED BY <4>5, <4>7, <4>8
    <3>4. CASE SigReturns
      <4>1. PICK f \in Frames : /\ v3' = [SubSeq(v3, 1, Depth - 1) EXCEPT ![Depth - 1] = f]
                                /\ f.of = v3[Depth - 1].of
                                /\ \/ f.pc = v3[Depth - 1].pc
                                   \/ f.pc = v3[Depth - 1].pc + 1 /\ At(v3[Depth - 1]).op \in {"suspend", "sleep"}
        BY <3>4 DEF SigReturns
      <4>2. Depth > 1 /\ v3 \in Stacks
        BY <3>4, <1>0 DEF SigReturns, SigTypes
      <4>3. Depth' = Depth - 1 /\ v3'[Depth - 1] = f /\ \A j \in 1..(Depth - 2) : v3'[j] = v3[j]
        BY <4>1, <4>2, <1>2, AfterReturn
      <4>4. CASE k = Depth - 1
        <5>1. Depth - 1 \in 2..Depth
          BY <4>4, <1>2
        <5>2. v3[Depth - 1] \in Frames /\ v3[Depth - 1].of \in Caught /\ v3[Depth - 1].pc \in 1..HandlerLen(v3[Depth - 1].of)
          BY <5>1, <1>0, <1>2 DEF SigTypes, Stacks, Depth
        <5>3. At(v3[Depth - 1]).op \notin {"suspend", "sleep"}
          BY <5>2, <1>2, HandlerKinds DEF HandlerOpNames
        <5>4. v3[Depth - 1].of = "USR1" /\ v3[Depth - 1].pc > 2
          BY <4>1, <4>3, <4>4, <5>3
        <5> QED BY <5>1, <5>4, <3>1
      <4>5. CASE k # Depth - 1
        <5>1. k \in 1..(Depth - 2) /\ k \in 2..Depth
          BY <4>3, <4>5, <1>2
        <5> QED BY <5>1, <4>3, <3>1
      <4> QED BY <4>4, <4>5
    <3>5. CASE SigJumps
      BY <1>3, <3>5 DEF SigJumps
    <3>6. CASE SigCalls
      <4>1. PICK f \in Frames : /\ v3' = [v3 EXCEPT ![Depth] = f] /\ f.of = Here.of
                                /\ \/ f.pc = Here.pc /\ At(Here).op \in Blocking
                                   \/ f.pc = Here.pc + 1 /\ At(Here).op \notin {"goto", "pause"}
                                   \/ f.pc = At(Here).arg /\ (At(Here).op = "goto" \/ (At(Here).op = "if" /\ v7))
        BY <3>6 DEF SigCalls
      <4>2. Depth' = Depth /\ v3'[Depth] = f /\ \A j \in 1..(Depth - 1) : v3'[j] = v3[j]
        BY <4>1, <1>0, <1>2, AfterCall DEF SigTypes
      <4>3. CASE k = Depth
        <5>1. Here.of = "USR1" /\ v3[k] = Here
          BY <4>1, <4>2, <4>3 DEF Here
        <5>2. Here.pc \in {1, 2} /\ v1 = "mask" /\ ~v7 /\ Here.of \in Caught
          BY <1>0, <1>2, <4>2, <4>3, <5>1, <3>1 DEF SigJump
        <5>3. Here.pc = 2 => At(Here).op = "ret"
          BY <1>2, <5>1, <5>2, HandlerOps
        <5>4. Here.pc = 1 => At(Here).op = "if"
          BY <1>2, <5>1, <5>2, HandlerOps
        <5>5. At(Here).op # "ret"
          BY <3>6 DEF SigCalls
        <5> QED BY <4>1, <4>2, <4>3, <5>2, <5>3, <5>4, <5>5 DEF Blocking
      <4>4. CASE k # Depth
        <5>1. k \in 1..(Depth - 1) /\ k \in 2..Depth
          BY <4>2, <4>4, <1>2
        <5> QED BY <5>1, <4>2, <3>1
      <4> QED BY <4>3, <4>4
    <3> QED BY <1>1, <3>2, <3>3, <3>4, <3>5, <3>6
  <2> QED BY <1>1, <1>7, <2>1, <2>2, <2>3 DEF SigJump
<1> QED BY <1>1, <1>4, <1>8, <1>9, <1>10 DEF SigBasics

\* A program starts with main at its first call and the mask it was given.
LEMMA SigStarts ==
  ASSUME Signals!Init
  PROVE SigBasics
<1> DEFINE f == [of |-> "main", pc |-> 1, in |-> FALSE, ret |-> {}]
<1>1. f \in Frames /\ f.of = "main" /\ f.pc = 1 /\ v3 = <<f>>
  BY DEF Frames, SigNames, Signals!Init
<1> HIDE DEF f
<1>2. v3 \in Stacks /\ Depth = 1 /\ v3[1] = f
  BY <1>1 DEF Stacks, Depth
<1>3. v1 \in SigPrograms /\ 1 \in 1..MainLen
  BY DEF Signals!Init, SigPrograms, MainLen
<1>4. /\ v2.act \in [SigNames -> Actions] /\ v4 = v2.act /\ v5 = v2.mask
      /\ \A s \in SigNames : v2.act[s] \in Signals!Given(v1, s)
      /\ v2.mask \in (IF v1 = "abort" THEN {{}, {"ABRT"}} ELSE {{}})
      /\ v6 = {} /\ v7 = FALSE /\ v8 = {}
  BY DEF Signals!Init, Signals!Sigs, SigNames, Actions
<1>5. \A s \in SigNames : v2.act[s] = "catch" => s \in Caught
  <2> SUFFICES ASSUME NEW s \in SigNames, "catch" \in Signals!Given(v1, s) PROVE s \in Caught
    BY <1>4
  <2>1. \/ v1 = "abort" /\ s = "ABRT"
        \/ v1 \in {"system", "proc_system"} /\ s \in {"INT", "CHLD"}
    BY <1>3 DEF Signals!Given
  <2> QED BY <2>1 DEF Caught
<1>6. v2.mask \in SUBSET SigNames
  BY <1>4 DEF SigNames
<1>7. SigTypes
  BY <1>1, <1>2, <1>3, <1>4, <1>5, <1>6 DEF SigTypes
<1>8. SigMask
  <2>1. Base = v5 /\ v3[1].pc = 1
    BY <1>1, <1>2 DEF Base
  <2>2. MainMask(1) = v2.mask
    <3>1. 1 \in 1..3 /\ 1 \notin 3..4 /\ 1 \notin 4..8
      OBVIOUS
    <3>2. CASE v1 = "abort"
      BY <3>1, <3>2 DEF MainMask
    <3>3. CASE v1 # "abort"
      <4>1. v2.mask = {}
        BY <1>4, <3>3
      <4>2. MainMask(1) = {}
        BY <1>3, <3>1, <3>3 DEF MainMask, SigPrograms
      <4> QED BY <4>1, <4>2
    <3> QED BY <3>2, <3>3
  <2>3. v1 # "abort" => v2.mask = {}
    BY <1>4
  <2> QED BY <1>4, <2>1, <2>2, <2>3 DEF SigMask
<1>9. SigJump
  BY <1>1, <1>2, <1>4 DEF SigJump
<1> QED BY <1>7, <1>8, <1>9 DEF SigBasics

\* sig_usr1 jumps only after sigsetjmp.
LEMMA SigJumpIsSet ==
  ASSUME SigBasics
  PROVE Signals!JumpIsSet
<1>0. SigTypes /\ SigJump
  BY DEF SigBasics
<1> SUFFICES ASSUME At(Here).op = "siglongjmp" PROVE v8 # {}
  BY <1>0, WhatRuns DEF Signals!JumpIsSet
<1>1. Depth > 1 /\ Here.of = "USR1" /\ Here.pc = 6 /\ Depth \in Nat
  BY <1>0, ActionArgs, WhatRuns
<1>2. Depth \in 2..Depth
  BY <1>1
<1> QED BY <1>0, <1>1, <1>2 DEF SigJump, Here
-----------------------------------------------------------------------------
\* An exit is the last call of main.
Exited == v10 = "exit" => Depth = 1 /\ v3[1].pc = MainLen

\* abort: SIGABRT is not ignored after the first test and cannot be blocked when it
\* is raised; the second time, the action is the default and main gets no further.
AbortInv ==
  /\ v4["INT"] = "dfl" /\ v6 \subseteq {"INT", "ABRT"} /\ v7 \in BOOLEAN
  /\ v9.pc = "none" /\ v10 \in {"run", "INT", "ABRT"}
  /\ "ABRT" \in v6 => v3[1].pc \in {5, 9} /\ Depth = 1
  /\ Depth > 1 => v3[1].pc = 5
  /\ v3[1].pc > 1 => v4["ABRT"] # "ign"
  /\ v3[1].pc \in 3..6 /\ v4["ABRT"] = "dfl" => v7
  /\ v3[1].pc > 5 => v7
  /\ v3[1].pc > 6 => v4["ABRT"] = "dfl"
  /\ v3[1].pc = 9 => "ABRT" \in v6 \/ v10 # "run"
  /\ v10 = "ABRT" => v7

\* system: the actions by place in main, and while the command runs there is
\* nothing that could be delivered.
SystemAct(s, p) ==
  IF (s = "INT" /\ p \in 2..6) \/ (s = "QUIT" /\ p \in 3..7) THEN "ign" ELSE v2.act[s]
Kids == [pc : {"none", "child", "run", "zombie", "failed", "reaped"}, act : [SigNames -> Actions], mask : SUBSET SigNames]
SystemInv ==
  /\ \A s \in SigNames : v4[s] = SystemAct(s, v3[1].pc)
  /\ v2.act["QUIT"] = "dfl"
  /\ v6 \subseteq {"INT", "QUIT", "CHLD"}
  /\ "INT" \in v6 => v3[1].pc \notin 2..6
  /\ "QUIT" \in v6 => v3[1].pc \notin 3..7
  /\ "CHLD" \in v6 => v3[1].pc > 4
  /\ Depth > 1 => v3[1].pc \in {1, 7, 8, 9}
  /\ v9 \in Kids
  /\ v9.pc \in {"child", "run"} => v3[1].pc = 5 /\ v10 = "run" /\ Depth = 1
  /\ v9.pc = "run" => v9.act = v2.act /\ v9.mask = v2.mask

\* sigtstp: the action of SIGTSTP by place in main or in the handler that runs;
\* those below it were interrupted where the action was to catch.
MainAct(p) == IF p = 1 THEN "dfl" ELSE IF p = 2 THEN "ign" ELSE "catch"
HandlerAct(p) == IF p \in {3, 4} THEN "dfl" ELSE "catch"
TstpInv ==
  /\ v2.act["TSTP"] \in {"dfl", "ign"}
  /\ v2.act["TSTP"] = "ign" => Depth = 1 /\ v4["TSTP"] = "ign"
  /\ v2.act["TSTP"] = "dfl" =>
       /\ Depth = 1 => v4["TSTP"] = MainAct(v3[1].pc)
       /\ Depth > 1 => v3[1].pc > 2 /\ v4["TSTP"] = HandlerAct(Here.pc)
       /\ \A k \in 2..(Depth - 1) : v3[k].pc \in {1, 2, 5}

\* What each kind of step does to the frames.
LEMMA StepMoves ==
  ASSUME SigTypes, Signals!Step
  PROVE /\ Depth' = Depth /\ v3'[Depth].of = Here.of /\ v3'[Depth].pc = Here.pc + 1
        /\ \A k \in 1..(Depth - 1) : v3'[k] = v3[k]
<1>0. Here \in Frames /\ Signals!top = Here /\ v3 \in Stacks /\ Depth > 0
  BY WhatRuns DEF SigTypes
<1>1. Here.pc + 1 \in Nat /\ FALSE \in BOOLEAN
  BY <1>0 DEF Frames
<1> DEFINE f == [Here EXCEPT !.pc = Here.pc + 1, !.in = FALSE]
<1>2. f \in Frames /\ f.of = Here.of /\ f.pc = Here.pc + 1
  BY <1>0, <1>1, FrameSet
<1>3. v3' = [v3 EXCEPT ![Depth] = f]
  BY <1>0 DEF Signals!Step, Signals!Goto, Signals!Top, Depth
<1> HIDE DEF f
<1> QED BY <1>0, <1>2, <1>3, AfterCall

\* A call that blocks leaves every frame at its place.
LEMMA EnterMoves ==
  ASSUME SigTypes, Signals!Enter
  PROVE /\ Depth' = Depth /\ v3'[Depth].of = Here.of /\ v3'[Depth].pc = Here.pc
        /\ \A k \in 1..(Depth - 1) : v3'[k] = v3[k]
<1>0. Here \in Frames /\ Signals!top = Here /\ v3 \in Stacks /\ Depth > 0
  BY WhatRuns DEF SigTypes
<1> DEFINE f == [Here EXCEPT !.in = TRUE]
<1>2. f \in Frames /\ f.of = Here.of /\ f.pc = Here.pc
  BY <1>0, FrameSet
<1>3. v3' = [v3 EXCEPT ![Depth] = f]
  BY <1>0 DEF Signals!Enter, Signals!Top, Depth
<1> HIDE DEF f
<1> QED BY <1>0, <1>2, <1>3, AfterCall

\* A delivery puts the handler, at its first call, on top.
LEMMA CatchMoves ==
  ASSUME SigTypes, NEW s \in SigNames, Signals!Deliver(s), v4[s] = "catch"
  PROVE /\ Depth' = Depth + 1 /\ v3'[Depth + 1].of = s /\ v3'[Depth + 1].pc = 1
        /\ \A k \in 1..Depth : v3'[k] = v3[k]
<1>0. v3 \in Stacks /\ Depth > 0
  BY DEF SigTypes
<1> DEFINE f == [of |-> s, pc |-> 1, in |-> FALSE, ret |-> v5]
<1>2. f \in Frames /\ f.of = s /\ f.pc = 1
  BY DEF Frames, SigTypes
<1>3. v3' = Append(v3, f)
  BY DEF Signals!Deliver
<1> HIDE DEF f
<1> QED BY <1>0, <1>2, <1>3, AfterCatch

\* A handler that returns leaves the one below at its place, or past the call it
\* interrupted.
LEMMA ReturnMoves ==
  ASSUME SigTypes, Signals!HandlerReturns
  PROVE /\ Depth > 1 /\ Depth' = Depth - 1
        /\ v3'[Depth - 1].of = v3[Depth - 1].of
        /\ \/ v3'[Depth - 1].pc = v3[Depth - 1].pc
           \/ At(v3[Depth - 1]).op \in {"suspend", "sleep"}
        /\ \A k \in 1..(Depth - 2) : v3'[k] = v3[k]
<1>1. v3 \in Stacks /\ Depth > 0 /\ Depth \in Nat /\ Signals!top = Here /\ Signals!ins = At(Here)
  BY WhatRuns DEF SigTypes
<1>2. At(Here).op = "ret"
  BY <1>1 DEF Signals!HandlerReturns, Signals!Ready
<1>3. Depth > 1
  BY <1>1, <1>2, WhatRuns DEF MainOps
<1> DEFINE below == v3[Depth - 1]
<1>4. below \in Frames /\ below.pc \in Nat /\ below.pc + 1 \in Nat
  <2>1. below \in Frames
    BY <1>3 DEF SigTypes, Depth, Stacks
  <2> QED BY <2>1 DEF Frames
<1> DEFINE n == IF At(below).op = "pause" THEN below.pc ELSE below.pc + 1
           f == IF below.in /\ At(below).op \in {"suspend", "pause", "sleep"}
                THEN [below EXCEPT !.pc = n, !.in = FALSE]
                ELSE below
<1>5. n \in Nat /\ FALSE \in BOOLEAN
  BY <1>4
<1>6. v3' = [SubSeq(v3, 1, Depth - 1) EXCEPT ![Depth - 1] = f]
  BY DEF Signals!HandlerReturns, Depth, At
<1> HIDE DEF below
<1>7. f \in Frames /\ f.of = below.of /\ (f.pc = below.pc \/ At(below).op \in {"suspend", "sleep"})
  <2> HIDE DEF n
  <2>2. CASE below.in /\ At(below).op \in {"suspend", "pause", "sleep"}
    <3>1. f = [below EXCEPT !.pc = n, !.in = FALSE]
      BY <2>2
    <3> HIDE DEF f
    <3>2. f \in Frames /\ f.of = below.of /\ f.pc = n
      BY <3>1, <1>4, <1>5, FrameSet
    <3> QED BY <2>2, <3>2 DEF n
  <2>3. CASE ~(below.in /\ At(below).op \in {"suspend", "pause", "sleep"})
    BY <1>4, <2>3
  <2> QED BY <2>2, <2>3
<1> HIDE DEF f
<1> QED BY <1>1, <1>3, <1>6, <1>7, AfterReturn DEF below

\* Only main exits, by its last call.
LEMMA ExitIsLast ==
  ASSUME SigTypes, At(Here).op = "exit"
  PROVE Depth = 1 /\ v3[1].pc = MainLen
<1>0. /\ Depth \in Nat /\ Depth > 0 /\ v1 \in SigPrograms
      /\ Depth > 1 => At(Here).op \in HandlerOpNames
      /\ v3[1] \in Frames /\ v3[1].of = "main" /\ v3[1].pc \in 1..MainLen
      /\ Depth = 1 => Here = v3[1]
  BY WhatRuns
<1>1. Depth = 1
  BY <1>0 DEF HandlerOpNames
<1>2. At(v3[1]).op = "exit"
  BY <1>0, <1>1
<1>3. CASE v1 = "suspend1"
  <2>1. v3[1].pc \in {1, 2, 3, 4, 5} /\ MainLen = 5
    BY <1>0, <1>3 DEF MainLen
  <2> QED BY <1>0, <1>1, <1>2, <1>3, <2>1, Suspend1Ops
<1>4. CASE v1 = "suspend2"
  <2>1. v3[1].pc \in {1, 2, 3, 4, 5, 6, 7, 8, 9} /\ MainLen = 9
    BY <1>0, <1>4 DEF MainLen
  <2> QED BY <1>0, <1>1, <1>2, <1>4, <2>1, Suspend2Ops
<1>5. CASE v1 = "critical"
  <2>1. v3[1].pc \in {1, 2, 3, 4, 5, 6} /\ MainLen = 6
    BY <1>0, <1>5 DEF MainLen
  <2> QED BY <1>0, <1>1, <1>2, <1>5, <2>1, CriticalOps
<1>6. CASE v1 = "mask"
  <2>1. v3[1].pc \in {1, 2, 3, 4, 5, 6} /\ MainLen = 6
    BY <1>0, <1>6 DEF MainLen
  <2> QED BY <1>0, <1>1, <1>2, <1>6, <2>1, MaskOps
<1>7. CASE v1 = "abort"
  <2>1. v3[1].pc \in {1, 2, 3, 4, 5, 6, 7, 8, 9} /\ MainLen = 9
    BY <1>0, <1>7 DEF MainLen
  <2> QED BY <1>0, <1>1, <1>2, <1>7, <2>1, AbortOps
<1>8. CASE v1 = "proc_system"
  <2>1. v3[1].pc \in {1, 2, 3} /\ MainLen = 3
    BY <1>0, <1>8 DEF MainLen
  <2> QED BY <1>0, <1>1, <1>2, <1>8, <2>1, ProcSystemOps
<1>9. CASE v1 = "system"
  <2>1. v3[1].pc \in {1, 2, 3, 4, 5, 6, 7, 8, 9} /\ MainLen = 9
    BY <1>0, <1>9 DEF MainLen
  <2> QED BY <1>0, <1>1, <1>2, <1>9, <2>1, SystemOps
<1>10. CASE v1 = "sigtstp"
  <2>1. v3[1].pc \in {1, 2, 3, 4} /\ MainLen = 4
    BY <1>0, <1>10 DEF MainLen
  <2> QED BY <1>0, <1>1, <1>2, <1>10, <2>1, SigtstpOps
<1> QED BY <1>0, <1>3, <1>4, <1>5, <1>6, <1>7, <1>8, <1>9, <1>10 DEF SigPrograms

\* Once it has ended, a program does nothing more.
LEMMA ExitedKept ==
  ASSUME SigBasics, Exited, Signals!Next
  PROVE Exited'
<1>0. SigTypes /\ v1' = v1
  BY BasicsKept DEF SigBasics
<1>1. MainLen' = MainLen
  BY <1>0 DEF MainLen
<1>2. Signals!ins = At(Here)
  BY <1>0, WhatRuns
<1>3. ASSUME v3' = v3, v10' = v10 PROVE Exited'
  <2>1. Depth' = Depth
    BY <1>3 DEF Depth
  <2> QED BY <1>1, <1>3, <2>1 DEF Exited
<1>4. ASSUME v10' # "exit" PROVE Exited'
  BY <1>4 DEF Exited
<1>5. CASE \/ Signals!Sigaction \/ Signals!sigprocmask \/ Signals!SetFlag \/ Signals!Branch \/ Signals!Enter
           \/ Signals!Leave \/ Signals!Raise \/ Signals!sigsetjmp \/ Signals!siglongjmp \/ Signals!HandlerReturns
           \/ Signals!fork \/ Signals!Continue
  <2>1. v10' # "exit"
    BY <1>5 DEF Signals!Sigaction, Signals!sigprocmask, Signals!SetFlag, Signals!Branch, Signals!Enter,
       Signals!Leave, Signals!Raise, Signals!sigsetjmp, Signals!siglongjmp, Signals!HandlerReturns,
       Signals!fork, Signals!Continue, Signals!Ready
  <2> QED BY <1>4, <2>1
<1>6. CASE Signals!exit
  <2>1. At(Here).op = "exit" /\ v3' = v3
    BY <1>2, <1>6 DEF Signals!exit, Signals!Ready
  <2>2. Depth' = Depth
    BY <2>1 DEF Depth
  <2> QED BY <1>0, <1>1, <2>1, <2>2, ExitIsLast DEF Exited
<1>7. CASE Signals!Child
  BY <1>3, <1>7 DEF Signals!Child
<1>8. CASE \E s \in Signals!Sigs : Signals!Send(s)
  BY <1>3, <1>8 DEF Signals!Send
<1>9. CASE \E s \in Signals!Sigs : Signals!Deliver(s)
  <2>1. PICK s \in Signals!Sigs : Signals!Deliver(s)
    BY <1>9
  <2>2. s # "exit"
    BY DEF Signals!Sigs
  <2>3. v10' # "exit"
    BY <2>1, <2>2 DEF Signals!Deliver
  <2> QED BY <1>4, <2>3
<1> QED BY <1>5, <1>6, <1>7, <1>8, <1>9 DEF Signals!Next, Signals!Process

\* abort, by place: its handler only returns.
LEMMA AbortRuns ==
  ASSUME SigTypes, v1 = "abort"
  PROVE /\ v3[1].pc \in {1, 2, 3, 4, 5, 6, 7, 8, 9} /\ Depth \in Nat /\ Depth > 0
        /\ Signals!ins = At(Here) /\ Signals!top = Here
        /\ Depth = 1 => Here = v3[1]
        /\ Depth > 1 => At(Here).op = "ret"
        /\ At(v3[1]).op \notin {"suspend", "sleep"}
        /\ v3[1].pc = 1 => At(v3[1]).op = "noign" /\ At(v3[1]).arg = "ABRT"
        /\ v3[1].pc = 2 => At(v3[1]).op = "flushdfl" /\ At(v3[1]).arg = "ABRT"
        /\ v3[1].pc = 3 => At(v3[1]).op = "fill" /\ At(v3[1]).arg = "ABRT"
        /\ v3[1].pc = 4 => At(v3[1]).op = "raise" /\ At(v3[1]).arg = "ABRT"
        /\ v3[1].pc = 5 => At(v3[1]).op = "flag" /\ At(v3[1]).arg = TRUE
        /\ v3[1].pc = 6 => At(v3[1]).op = "dfl" /\ At(v3[1]).arg = "ABRT"
        /\ v3[1].pc = 7 => At(v3[1]).op = "fill" /\ At(v3[1]).arg = "ABRT"
        /\ v3[1].pc = 8 => At(v3[1]).op = "raise" /\ At(v3[1]).arg = "ABRT"
        /\ v3[1].pc = 9 => At(v3[1]).op = "exit"
<1>1. /\ Depth \in Nat /\ Depth > 0 /\ Here \in Frames /\ v1 \in SigPrograms
      /\ Signals!ins = At(Here) /\ Signals!top = Here
      /\ v3[1] \in Frames /\ v3[1].of = "main" /\ v3[1].pc \in 1..MainLen
      /\ Depth = 1 => Here = v3[1]
      /\ Depth > 1 => Here.of \in Caught /\ Here.pc \in 1..HandlerLen(Here.of)
  BY WhatRuns
<1>2. v3[1].pc \in {1, 2, 3, 4, 5, 6, 7, 8, 9}
  BY <1>1 DEF MainLen
<1>3. Depth > 1 => At(Here).op = "ret"
  <2> SUFFICES ASSUME Depth > 1 PROVE At(Here).op = "ret"
    OBVIOUS
  <2>1. Here.of = "ABRT"
    BY <1>1 DEF Caught
  <2>2. Here.pc = 1
    BY <1>1, <2>1 DEF HandlerLen
  <2> QED BY <1>1, <2>1, <2>2, HandlerOps
<1>4. At(v3[1]).op \notin {"suspend", "sleep"}
  BY <1>1, <1>2, AbortOps
<1>5. /\ v3[1].pc = 1 => At(v3[1]).op = "noign" /\ At(v3[1]).arg = "ABRT"
      /\ v3[1].pc = 2 => At(v3[1]).op = "flushdfl" /\ At(v3[1]).arg = "ABRT"
      /\ v3[1].pc = 3 => At(v3[1]).op = "fill" /\ At(v3[1]).arg = "ABRT"
      /\ v3[1].pc = 4 => At(v3[1]).op = "raise" /\ At(v3[1]).arg = "ABRT"
      /\ v3[1].pc = 5 => At(v3[1]).op = "flag" /\ At(v3[1]).arg = TRUE
      /\ v3[1].pc = 6 => At(v3[1]).op = "dfl" /\ At(v3[1]).arg = "ABRT"
      /\ v3[1].pc = 7 => At(v3[1]).op = "fill" /\ At(v3[1]).arg = "ABRT"
      /\ v3[1].pc = 8 => At(v3[1]).op = "raise" /\ At(v3[1]).arg = "ABRT"
      /\ v3[1].pc = 9 => At(v3[1]).op = "exit"
  BY <1>1, AbortOps
<1> QED BY <1>1, <1>2, <1>3, <1>4, <1>5

\* abort has been called.
LEMMA AbortStarts ==
  ASSUME Signals!Init, v1 = "abort"
  PROVE AbortInv
<1>1. v3[1].pc = 1 /\ Depth = 1
  BY DEF Signals!Init, Depth
<1>2. v4["INT"] = "dfl"
  <2>1. "INT" \in Signals!Sigs
    BY DEF Signals!Sigs
  <2>2. v4["INT"] \in Signals!Given(v1, "INT")
    BY <2>1 DEF Signals!Init
  <2> QED BY <2>2 DEF Signals!Given
<1>3. v6 = {} /\ v7 = FALSE /\ v9.pc = "none" /\ v10 = "run"
  BY DEF Signals!Init
<1>4. /\ v6 \subseteq {"INT", "ABRT"} /\ v7 \in BOOLEAN /\ v10 \in {"run", "INT", "ABRT"}
      /\ "ABRT" \notin v6 /\ v10 # "ABRT"
  BY <1>3
<1>5. ~(v3[1].pc > 1) /\ v3[1].pc \notin 3..6 /\ ~(v3[1].pc > 5) /\ ~(v3[1].pc > 6) /\ v3[1].pc # 9 /\ ~(Depth > 1)
  BY <1>1
<1> QED BY <1>2, <1>3, <1>4, <1>5 DEF AbortInv

\* Every step of abort keeps it.
LEMMA AbortKept ==
  ASSUME SigBasics, v1 = "abort", AbortInv, Signals!Next
  PROVE AbortInv'
<1> DEFINE p == v3[1].pc
<1>0. SigTypes /\ v1' = v1 /\ v4 \in [SigNames -> Actions] /\ v4' \in [SigNames -> Actions] /\ SigNames = Signals!Sigs
  BY BasicsKept, SigData DEF SigBasics, SigTypes, Signals!Sigs, SigNames
<1>1. /\ p \in {1, 2, 3, 4, 5, 6, 7, 8, 9} /\ Depth \in Nat /\ Depth > 0
      /\ Signals!ins = At(Here) /\ Signals!top = Here
      /\ Depth = 1 => Here = v3[1]
      /\ Depth > 1 => At(Here).op = "ret"
      /\ At(v3[1]).op \notin {"suspend", "sleep"}
      /\ p = 1 => At(v3[1]).op = "noign" /\ At(v3[1]).arg = "ABRT"
      /\ p = 2 => At(v3[1]).op = "flushdfl" /\ At(v3[1]).arg = "ABRT"
      /\ p = 3 => At(v3[1]).op = "fill" /\ At(v3[1]).arg = "ABRT"
      /\ p = 4 => At(v3[1]).op = "raise" /\ At(v3[1]).arg = "ABRT"
      /\ p = 5 => At(v3[1]).op = "flag" /\ At(v3[1]).arg = TRUE
      /\ p = 6 => At(v3[1]).op = "dfl" /\ At(v3[1]).arg = "ABRT"
      /\ p = 7 => At(v3[1]).op = "fill" /\ At(v3[1]).arg = "ABRT"
      /\ p = 8 => At(v3[1]).op = "raise" /\ At(v3[1]).arg = "ABRT"
      /\ p = 9 => At(v3[1]).op = "exit"
  BY <1>0, AbortRuns
<1>2. /\ v4["INT"] = "dfl" /\ v6 \subseteq {"INT", "ABRT"} /\ v7 \in BOOLEAN
      /\ v9.pc = "none" /\ v10 \in {"run", "INT", "ABRT"}
      /\ "ABRT" \in v6 => p \in {5, 9} /\ Depth = 1
      /\ Depth > 1 => p = 5
      /\ p > 1 => v4["ABRT"] # "ign"
      /\ p \in 3..6 /\ v4["ABRT"] = "dfl" => v7
      /\ p > 5 => v7
      /\ p > 6 => v4["ABRT"] = "dfl"
      /\ p = 9 => "ABRT" \in v6 \/ v10 # "run"
      /\ v10 = "ABRT" => v7
  BY DEF AbortInv
<1>3. p > 3 => Base = SigNames \ {"ABRT"}
  BY <1>1 DEF SigBasics, SigMask, MainMask
<1>s. ASSUME Signals!Step, At(Here).op # "ret" PROVE Depth = 1 /\ Depth' = 1 /\ v3'[1].pc = p + 1
  BY <1>0, <1>1, <1>s, StepMoves
<1> HIDE DEF p

\* Nothing is called while SIGABRT is pending.
<1>4. ASSUME Depth = 1, p > 3, Signals!Deliverable = {} PROVE "ABRT" \notin v6
  <2>1. Signals!Effective = v5
    BY <1>1, <1>4 DEF Signals!Effective
  <2>2. v5 = Base
    BY <1>4 DEF Base
  <2> QED BY <1>3, <1>4, <2>1, <2>2 DEF Signals!Deliverable
<1>5. CASE Signals!Sigaction
  <2>1. At(Here).op \in {"catch", "catchdfl", "dfl", "ign", "noign", "old"} /\ Signals!Step
        /\ v10 = "run" /\ v10' = v10 /\ v7' = v7 /\ v9' = v9 /\ v6' \subseteq v6 /\ Signals!Deliverable = {}
    BY <1>1, <1>5 DEF Signals!Sigaction, Signals!Ready
  <2>2. Depth = 1 /\ Depth' = 1 /\ v3'[1].pc = p + 1
    BY <2>1, <1>s
  <2>3. Here = v3[1] /\ p \in {1, 6}
    BY <2>1, <2>2, <1>1
  <2>4. v4' = [v4 EXCEPT !["ABRT"] = IF p = 1 THEN IF v4["ABRT"] = "ign" THEN "dfl" ELSE v4["ABRT"] ELSE "dfl"]
    BY <2>3, <1>1, <1>5 DEF Signals!Sigaction
  <2>5. v4'["INT"] = "dfl" /\ v4'["ABRT"] # "ign" /\ (p = 6 => v4'["ABRT"] = "dfl")
    BY <2>3, <2>4, <1>0, <1>2 DEF SigNames
  <2> QED BY <2>1, <2>2, <2>3, <2>5, <1>2 DEF AbortInv
<1>6. CASE Signals!sigprocmask
  <2>1. At(Here).op \in {"block", "unblock", "setmask", "fill"} /\ Signals!Step
        /\ v10' = v10 /\ v7' = v7 /\ v9' = v9 /\ v6' = v6 /\ v4' = v4 /\ Signals!Deliverable = {}
    BY <1>1, <1>6 DEF Signals!sigprocmask, Signals!Ready
  <2>2. Depth = 1 /\ Depth' = 1 /\ v3'[1].pc = p + 1
    BY <2>1, <1>s
  <2>3. Here = v3[1] /\ p \in {3, 7}
    BY <2>1, <2>2, <1>1
  <2> QED BY <2>1, <2>2, <2>3, <1>2 DEF AbortInv
<1>7. CASE Signals!SetFlag
  <2>1. At(Here).op \in {"flag", "flushdfl"} /\ Signals!Step
        /\ v10' = v10 /\ v9' = v9 /\ v6' = v6 /\ v4' = v4 /\ Signals!Deliverable = {}
        /\ v7' = IF At(Here).op = "flag" THEN At(Here).arg ELSE v7 \/ v4[At(Here).arg] = "dfl"
    BY <1>1, <1>7 DEF Signals!SetFlag, Signals!Ready
  <2>2. Depth = 1 /\ Depth' = 1 /\ v3'[1].pc = p + 1
    BY <2>1, <1>s
  <2>3. Here = v3[1] /\ p \in {2, 5}
    BY <2>1, <2>2, <1>1
  <2>4. p = 5 => v7' = TRUE
    BY <2>1, <2>3, <1>1
  <2>5. p = 2 => v7' = (v7 \/ v4["ABRT"] = "dfl")
    BY <2>1, <2>3, <1>1
  <2>6. p = 5 => "ABRT" \notin v6
    BY <2>1, <2>2, <1>4
  <2>7. v4' = v4 /\ v6' = v6 /\ v9' = v9 /\ v10' = v10 /\ Depth' = 1 /\ v3'[1].pc = p + 1
    BY <2>1, <2>2
  <2>8. CASE p = 2
    <3>1. v3'[1].pc = 3 /\ "ABRT" \notin v6 /\ v4["ABRT"] # "ign" /\ (v10 # "ABRT" \/ v7)
      BY <2>7, <2>8, <1>2
    <3>2. v7' \in BOOLEAN /\ (v4["ABRT"] = "dfl" => v7') /\ (v7 => v7')
      BY <2>5, <2>8, <1>2
    <3> QED BY <2>7, <2>8, <3>1, <3>2, <1>2 DEF AbortInv
  <2>9. CASE p = 5
    <3>1. v3'[1].pc = 6 /\ "ABRT" \notin v6 /\ v4["ABRT"] # "ign" /\ v7'
      BY <2>4, <2>6, <2>7, <2>9, <1>2
    <3>2. v7' \in BOOLEAN
      BY <2>4, <2>9
    <3> QED BY <2>7, <2>9, <3>1, <3>2, <1>2 DEF AbortInv
  <2> QED BY <2>3, <2>8, <2>9
<1>8. CASE Signals!Raise
  <2>1. At(Here).op \in {"raise", "alarm"} /\ Signals!Step
        /\ v10' = v10 /\ v7' = v7 /\ v9' = v9 /\ v6' = v6 \cup {At(Here).arg} /\ v4' = v4
    BY <1>1, <1>8 DEF Signals!Raise, Signals!Ready
  <2>2. Depth = 1 /\ Depth' = 1 /\ v3'[1].pc = p + 1
    BY <2>1, <1>s
  <2>3. Here = v3[1] /\ p \in {4, 8}
    BY <2>1, <2>2, <1>1
  <2>4. v6' = v6 \cup {"ABRT"}
    BY <2>1, <2>3, <1>1
  <2>5. v3'[1].pc \in {5, 9} /\ "ABRT" \in v6' /\ v6' \subseteq {"INT", "ABRT"}
    BY <2>2, <2>3, <2>4, <1>2
  <2>6. CASE p = 4
    <3>1. v3'[1].pc = 5
      BY <2>2, <2>6
    <3> QED BY <2>1, <2>2, <2>5, <2>6, <3>1, <1>2 DEF AbortInv
  <2>7. CASE p = 8
    <3>1. v3'[1].pc = 9
      BY <2>2, <2>7
    <3> QED BY <2>1, <2>2, <2>5, <2>7, <3>1, <1>2 DEF AbortInv
  <2> QED BY <2>3, <2>6, <2>7
<1>9. CASE Signals!Branch \/ Signals!Enter \/ Signals!sigsetjmp \/ Signals!siglongjmp \/ Signals!fork
  <2>1. At(Here).op \in {"if", "goto", "suspend", "pause", "read", "sleep", "busy", "waitpid", "sigsetjmp", "siglongjmp", "fork"}
    BY <1>1, <1>9 DEF Signals!Branch, Signals!Enter, Signals!sigsetjmp, Signals!siglongjmp, Signals!fork, Signals!Ready
  <2> QED BY <2>1, <1>1
<1>10. CASE Signals!Leave
  <2>1. At(Here).op \in {"read", "sleep", "busy", "waitpid"}
    BY <1>1, <1>10 DEF Signals!Leave
  <2> QED BY <2>1, <1>1
<1>11. CASE Signals!HandlerReturns
  <2>1. v10' = v10 /\ v7' = v7 /\ v9' = v9 /\ v6' = v6 /\ v4' = v4
    BY <1>11 DEF Signals!HandlerReturns
  <2>2. /\ Depth > 1 /\ Depth' = Depth - 1
        /\ \/ v3'[Depth - 1].pc = v3[Depth - 1].pc
           \/ At(v3[Depth - 1]).op \in {"suspend", "sleep"}
        /\ \A k \in 1..(Depth - 2) : v3'[k] = v3[k]
    BY <1>0, <1>11, ReturnMoves
  <2>3. v3'[1].pc = p
    BY <2>2, <1>1 DEF p
  <2> QED BY <2>1, <2>2, <2>3, <1>1, <1>2 DEF AbortInv
<1>12. CASE Signals!exit
  <2>1. At(Here).op = "exit" /\ v10 = "run" /\ Signals!Deliverable = {}
    BY <1>1, <1>12 DEF Signals!exit, Signals!Ready
  <2>2. Depth = 1 /\ p = 9
    BY <2>1, <1>1
  <2> QED BY <2>1, <2>2, <1>2, <1>4
<1>13. CASE Signals!Continue \/ Signals!Child
  BY <1>2, <1>13 DEF Signals!Continue, Signals!Child
<1>14. CASE \E s \in Signals!Sigs : Signals!Send(s)
  <2>1. PICK s \in Signals!Sigs : Signals!Send(s)
    BY <1>14
  <2>2. s = "INT"
    BY <2>1 DEF Signals!Send, Signals!Wanted
  <2>3. v10' = v10 /\ v7' = v7 /\ v9' = v9 /\ v4' = v4 /\ v3' = v3 /\ v6' \in {v6, v6 \cup {"INT"}}
    BY <2>1, <2>2 DEF Signals!Send
  <2>4. Depth' = Depth /\ v3'[1].pc = p
    BY <2>3 DEF Depth, p
  <2> QED BY <2>3, <2>4, <1>2 DEF AbortInv
<1>15. CASE \E s \in Signals!Sigs : Signals!Deliver(s)
  <2>1. PICK s \in SigNames : Signals!Deliver(s)
    BY <1>0, <1>15
  <2>2. s \in v6 /\ v6' = v6 \ {s} /\ v7' = v7 /\ v9' = v9 /\ v4' = v4 /\ v10 = "run"
    BY <2>1 DEF Signals!Deliver, Signals!Deliverable
  <2>3. CASE v4[s] = "catch"
    <3>1. s = "ABRT" /\ v10' = v10
      BY <2>1, <2>2, <2>3, <1>2 DEF Signals!Deliver
    <3>2. Depth' = Depth + 1 /\ \A k \in 1..Depth : v3'[k] = v3[k]
      BY <2>1, <2>3, <1>0, CatchMoves
    <3>3. v3'[1].pc = p /\ Depth = 1 /\ p = 5
      BY <2>2, <2>3, <3>1, <3>2, <1>1, <1>2 DEF p
    <3> QED BY <2>2, <3>1, <3>2, <3>3, <1>2 DEF AbortInv
  <2>4. CASE v4[s] # "catch"
    <3>1. v3' = v3 /\ v10' = (IF s = "TSTP" THEN "stopped" ELSE s)
      BY <2>1, <2>4 DEF Signals!Deliver
    <3>2. Depth' = Depth /\ v3'[1].pc = p
      BY <3>1 DEF Depth, p
    <3>3. s \in {"INT", "ABRT"} /\ v10' = s
      BY <2>2, <3>1, <1>2
    <3>4. s = "ABRT" => v7
      BY <2>2, <2>4, <1>0, <1>2 DEF SigNames, Actions
    <3> QED BY <2>2, <3>2, <3>3, <3>4, <1>2 DEF AbortInv
  <2> QED BY <2>3, <2>4
<1> QED BY <1>5, <1>6, <1>7, <1>8, <1>9, <1>10, <1>11, <1>12, <1>13, <1>14, <1>15 DEF Signals!Next, Signals!Process

\* system, by place: the handlers of its caller only return.
LEMMA SystemRuns ==
  ASSUME SigTypes, v1 = "system"
  PROVE /\ v3[1].pc \in {1, 2, 3, 4, 5, 6, 7, 8, 9} /\ Depth \in Nat /\ Depth > 0
        /\ Signals!ins = At(Here) /\ Signals!top = Here
        /\ Depth = 1 => Here = v3[1]
        /\ Depth > 1 => At(Here).op = "ret"
        /\ At(v3[1]).op \in {"ign", "block", "fork", "waitpid", "old", "setmask", "exit"}
        /\ v3[1].pc = 1 => At(v3[1]).op = "ign" /\ At(v3[1]).arg = "INT"
        /\ v3[1].pc = 2 => At(v3[1]).op = "ign" /\ At(v3[1]).arg = "QUIT"
        /\ v3[1].pc = 3 => At(v3[1]).op = "block"
        /\ v3[1].pc = 4 => At(v3[1]).op = "fork"
        /\ v3[1].pc = 5 => At(v3[1]).op = "waitpid"
        /\ v3[1].pc = 6 => At(v3[1]).op = "old" /\ At(v3[1]).arg = "INT"
        /\ v3[1].pc = 7 => At(v3[1]).op = "old" /\ At(v3[1]).arg = "QUIT"
        /\ v3[1].pc = 8 => At(v3[1]).op = "setmask"
        /\ v3[1].pc = 9 => At(v3[1]).op = "exit"
<1>1. /\ Depth \in Nat /\ Depth > 0 /\ Here \in Frames /\ v1 \in SigPrograms
      /\ Signals!ins = At(Here) /\ Signals!top = Here
      /\ v3[1] \in Frames /\ v3[1].of = "main" /\ v3[1].pc \in 1..MainLen
      /\ Depth = 1 => Here = v3[1]
      /\ Depth > 1 => Here.of \in Caught /\ Here.pc \in 1..HandlerLen(Here.of)
  BY WhatRuns
<1>2. v3[1].pc \in {1, 2, 3, 4, 5, 6, 7, 8, 9}
  BY <1>1 DEF MainLen
<1>3. Depth > 1 => At(Here).op = "ret"
  <2> SUFFICES ASSUME Depth > 1 PROVE At(Here).op = "ret"
    OBVIOUS
  <2>1. Here.of \in {"INT", "CHLD"}
    BY <1>1 DEF Caught
  <2>2. Here.pc = 1
    BY <1>1, <2>1 DEF HandlerLen
  <2> QED BY <1>1, <2>1, <2>2, HandlerOps
<1>5. /\ v3[1].pc = 1 => At(v3[1]).op = "ign" /\ At(v3[1]).arg = "INT"
      /\ v3[1].pc = 2 => At(v3[1]).op = "ign" /\ At(v3[1]).arg = "QUIT"
      /\ v3[1].pc = 3 => At(v3[1]).op = "block"
      /\ v3[1].pc = 4 => At(v3[1]).op = "fork"
      /\ v3[1].pc = 5 => At(v3[1]).op = "waitpid"
      /\ v3[1].pc = 6 => At(v3[1]).op = "old" /\ At(v3[1]).arg = "INT"
      /\ v3[1].pc = 7 => At(v3[1]).op = "old" /\ At(v3[1]).arg = "QUIT"
      /\ v3[1].pc = 8 => At(v3[1]).op = "setmask"
      /\ v3[1].pc = 9 => At(v3[1]).op = "exit"
  BY <1>1, SystemOps
<1>6. At(v3[1]).op \in {"ign", "block", "fork", "waitpid", "old", "setmask", "exit"}
  BY <1>2, <1>5
<1> QED BY <1>1, <1>2, <1>3, <1>5, <1>6

\* system has been called.
LEMMA SystemStarts ==
  ASSUME Signals!Init, v1 = "system"
  PROVE SystemInv
<1>1. v3[1].pc = 1 /\ Depth = 1
  BY DEF Signals!Init, Depth
<1>2. v4 = v2.act /\ v2.act \in [SigNames -> Actions] /\ v2.act["QUIT"] = "dfl"
  <2>1. "QUIT" \in Signals!Sigs /\ SigNames = Signals!Sigs
    BY DEF Signals!Sigs, SigNames
  <2>2. v4 = v2.act /\ v2.act \in [SigNames -> Actions] /\ v2.act["QUIT"] \in Signals!Given(v1, "QUIT")
    BY <2>1 DEF Signals!Init, Actions
  <2> QED BY <2>2 DEF Signals!Given
<1>3. v6 = {} /\ v9 = [pc |-> "none", act |-> v2.act, mask |-> {}] /\ v10 = "run"
  BY DEF Signals!Init
<1>4. v9 \in Kids /\ v9.pc = "none"
  BY <1>2, <1>3 DEF Kids
<1>5. 1 \notin 2..6 /\ 1 \notin 3..7
  OBVIOUS
<1>6. \A s \in SigNames : v4[s] = SystemAct(s, v3[1].pc)
  BY <1>1, <1>2, <1>5 DEF SystemAct
<1>7. v6 \subseteq {"INT", "QUIT", "CHLD"} /\ "INT" \notin v6 /\ "QUIT" \notin v6 /\ "CHLD" \notin v6
  BY <1>3
<1>8. ~(Depth > 1)
  BY <1>1
<1> QED BY <1>2, <1>4, <1>6, <1>7, <1>8 DEF SystemInv

\* Every step of system keeps it.
LEMMA SystemKept ==
  ASSUME SigBasics, v1 = "system", SystemInv, Signals!Next
  PROVE SystemInv'
<1> DEFINE p == v3[1].pc
<1>0. /\ SigTypes /\ v1' = v1 /\ v2' = v2 /\ v4 \in [SigNames -> Actions] /\ v2.act \in [SigNames -> Actions]
      /\ SigNames = Signals!Sigs /\ v5 \in SUBSET SigNames /\ v2.mask \in SUBSET SigNames
  BY BasicsKept DEF SigBasics, SigTypes, Signals!Sigs, SigNames
<1>1. /\ p \in {1, 2, 3, 4, 5, 6, 7, 8, 9} /\ Depth \in Nat /\ Depth > 0
      /\ Signals!ins = At(Here) /\ Signals!top = Here
      /\ Depth = 1 => Here = v3[1]
      /\ Depth > 1 => At(Here).op = "ret"
      /\ At(v3[1]).op \in {"ign", "block", "fork", "waitpid", "old", "setmask", "exit"}
      /\ p = 1 => At(v3[1]).op = "ign" /\ At(v3[1]).arg = "INT"
      /\ p = 2 => At(v3[1]).op = "ign" /\ At(v3[1]).arg = "QUIT"
      /\ p = 3 => At(v3[1]).op = "block"
      /\ p = 4 => At(v3[1]).op = "fork"
      /\ p = 5 => At(v3[1]).op = "waitpid"
      /\ p = 6 => At(v3[1]).op = "old" /\ At(v3[1]).arg = "INT"
      /\ p = 7 => At(v3[1]).op = "old" /\ At(v3[1]).arg = "QUIT"
      /\ p = 8 => At(v3[1]).op = "setmask"
      /\ p = 9 => At(v3[1]).op = "exit"
  BY <1>0, SystemRuns
<1>2. /\ \A s \in SigNames : v4[s] = SystemAct(s, p)
      /\ v2.act["QUIT"] = "dfl"
      /\ v6 \subseteq {"INT", "QUIT", "CHLD"}
      /\ "INT" \in v6 => p \notin 2..6
      /\ "QUIT" \in v6 => p \notin 3..7
      /\ "CHLD" \in v6 => p > 4
      /\ Depth > 1 => p \in {1, 7, 8, 9}
      /\ v9 \in Kids
      /\ v9.pc \in {"child", "run"} => p = 5 /\ v10 = "run" /\ Depth = 1
      /\ v9.pc = "run" => v9.act = v2.act /\ v9.mask = v2.mask
  BY DEF SystemInv
<1>3. p \in {5, 6, 7, 8} => Base = {"CHLD"}
  BY <1>1 DEF SigBasics, SigMask, MainMask
<1>s. ASSUME Signals!Step, At(Here).op # "ret" PROVE Depth = 1 /\ Depth' = 1 /\ v3'[1].pc = p + 1
  BY <1>0, <1>1, <1>s, StepMoves
\* The actions at the next place when they do not change.
<1>a. \A q \in {3, 4, 5, 8} : \A s \in SigNames : SystemAct(s, q) = SystemAct(s, q + 1)
  BY DEF SystemAct
\* A state with the same actions and kid.
<1>k. ASSUME \A s \in SigNames : v4'[s] = SystemAct(s, v3'[1].pc),
             v6' \subseteq {"INT", "QUIT", "CHLD"},
             "INT" \in v6' => v3'[1].pc \notin 2..6,
             "QUIT" \in v6' => v3'[1].pc \notin 3..7,
             "CHLD" \in v6' => v3'[1].pc > 4,
             Depth' > 1 => v3'[1].pc \in {1, 7, 8, 9},
             v9' \in Kids,
             v9'.pc \in {"child", "run"} => v3'[1].pc = 5 /\ v10' = "run" /\ Depth' = 1,
             v9'.pc = "run" => v9'.act = v2.act /\ v9'.mask = v2.mask
      PROVE SystemInv'
  <2>1. \A s \in SigNames : SystemAct(s, v3[1].pc)' = SystemAct(s, v3'[1].pc)
    BY <1>0 DEF SystemAct
  <2> QED BY <1>0, <1>2, <1>k, <2>1 DEF SystemInv
<1> HIDE DEF p
<1>5. CASE Signals!Sigaction
  <2>1. At(Here).op \in {"catch", "catchdfl", "dfl", "ign", "noign", "old"} /\ Signals!Step
        /\ v10' = v10 /\ v9' = v9 /\ v6' = {s \in v6 : v4'[s] # "ign"}
    BY <1>1, <1>5 DEF Signals!Sigaction, Signals!Ready
  <2>2. Depth = 1 /\ Depth' = 1 /\ v3'[1].pc = p + 1
    BY <2>1, <1>s
  <2>3. Here = v3[1] /\ p \in {1, 2, 6, 7}
    BY <2>1, <2>2, <1>1
  <2>4. /\ p = 1 => v4' = [v4 EXCEPT !["INT"] = "ign"]
        /\ p = 2 => v4' = [v4 EXCEPT !["QUIT"] = "ign"]
        /\ p = 6 => v4' = [v4 EXCEPT !["INT"] = v2.act["INT"]]
        /\ p = 7 => v4' = [v4 EXCEPT !["QUIT"] = v2.act["QUIT"]]
    BY <2>3, <1>1, <1>5 DEF Signals!Sigaction
  <2>5. \A s \in SigNames : v4'[s] = SystemAct(s, p + 1)
    <3> SUFFICES ASSUME NEW s \in SigNames PROVE v4'[s] = SystemAct(s, p + 1)
      OBVIOUS
    <3>1. v4[s] = SystemAct(s, p)
      BY <1>2
    <3>2. CASE p = 1
      BY <1>0, <2>4, <3>1, <3>2 DEF SystemAct
    <3>3. CASE p = 2
      BY <1>0, <2>4, <3>1, <3>3 DEF SystemAct
    <3>4. CASE p = 6
      BY <1>0, <2>4, <3>1, <3>4 DEF SystemAct
    <3>5. CASE p = 7
      BY <1>0, <2>4, <3>1, <3>5 DEF SystemAct
    <3> QED BY <2>3, <3>2, <3>3, <3>4, <3>5
  <2>6. v6' \subseteq v6 /\ v6' \subseteq {"INT", "QUIT", "CHLD"} /\ ("CHLD" \in v6' => p + 1 > 4)
    <3>1. v6' \subseteq v6
      BY <2>1
    <3>2. p > 4 => p + 1 > 4
      BY <2>3
    <3> QED BY <3>1, <3>2, <1>2
  <2>7. "INT" \in v6' => p + 1 \notin 2..6
    <3>1. p = 1 => v4'["INT"] = "ign"
      BY <2>4, <1>0 DEF SigNames
    <3> QED BY <2>1, <2>3, <1>2, <3>1
  <2>8. "QUIT" \in v6' => p + 1 \notin 3..7
    <3>1. p = 2 => v4'["QUIT"] = "ign"
      BY <2>4, <1>0 DEF SigNames
    <3> QED BY <2>1, <2>3, <1>2, <3>1
  <2>9. ~(v9.pc \in {"child", "run"}) /\ ~(Depth' > 1)
    BY <2>2, <2>3, <1>2
  <2> QED BY <2>1, <2>2, <2>5, <2>6, <2>7, <2>8, <2>9, <1>2, <1>k
<1>6. CASE Signals!sigprocmask
  <2>1. At(Here).op \in {"block", "unblock", "setmask", "fill"} /\ Signals!Step
        /\ v10' = v10 /\ v9' = v9 /\ v6' = v6 /\ v4' = v4
    BY <1>1, <1>6 DEF Signals!sigprocmask, Signals!Ready
  <2>2. Depth = 1 /\ Depth' = 1 /\ v3'[1].pc = p + 1
    BY <2>1, <1>s
  <2>3. Here = v3[1] /\ p \in {3, 8}
    BY <2>1, <2>2, <1>1
  <2>4. \A s \in SigNames : v4'[s] = SystemAct(s, p + 1)
    BY <2>1, <2>3, <1>2, <1>a
  <2>5. /\ "INT" \in v6' => p + 1 \notin 2..6
        /\ "QUIT" \in v6' => p + 1 \notin 3..7
        /\ "CHLD" \in v6' => p + 1 > 4
        /\ ~(v9.pc \in {"child", "run"}) /\ ~(Depth' > 1)
    BY <2>1, <2>2, <2>3, <1>2
  <2> QED BY <2>1, <2>2, <2>4, <2>5, <1>2, <1>k
<1>7. CASE Signals!SetFlag \/ Signals!Raise \/ Signals!Branch \/ Signals!sigsetjmp \/ Signals!siglongjmp
  <2>1. At(Here).op \in {"flag", "flushdfl", "raise", "alarm", "if", "goto", "sigsetjmp", "siglongjmp"}
    BY <1>1, <1>7 DEF Signals!Branch, Signals!SetFlag, Signals!Raise, Signals!sigsetjmp, Signals!siglongjmp, Signals!Ready
  <2> QED BY <2>1, <1>1
<1>8. CASE Signals!Enter
  <2>1. v10' = v10 /\ v9' = v9 /\ v6' = v6 /\ v4' = v4
    BY <1>8 DEF Signals!Enter
  <2>2. Depth' = Depth /\ v3'[1].pc = p
    <3>1. /\ Depth' = Depth /\ v3'[Depth].of = Here.of /\ v3'[Depth].pc = Here.pc
          /\ \A k \in 1..(Depth - 1) : v3'[k] = v3[k]
      BY <1>0, <1>8, EnterMoves
    <3>2. CASE Depth = 1
      BY <3>1, <3>2, <1>1 DEF p
    <3>3. CASE Depth > 1
      BY <3>1, <3>3, <1>1 DEF p
    <3> QED BY <3>1, <3>2, <3>3, <1>1
  <2> QED BY <2>1, <2>2, <1>2, <1>k
<1>9. CASE Signals!Leave
  <2>1. At(Here).op \in {"read", "sleep", "busy", "waitpid"} /\ Signals!Step
        /\ v10' = v10 /\ v6' = v6 /\ v4' = v4
    BY <1>1, <1>9 DEF Signals!Leave
  <2>2. Depth = 1 /\ Depth' = 1 /\ v3'[1].pc = p + 1
    BY <2>1, <1>s
  <2>3. Here = v3[1] /\ p = 5 /\ At(Here).op = "waitpid"
    BY <2>1, <2>2, <1>1
  <2>4. v9' = [v9 EXCEPT !.pc = "reaped"]
    BY <2>3, <1>1, <1>9 DEF Signals!Leave
  <2>5. v9' \in Kids /\ v9'.pc = "reaped"
    BY <2>4, <1>2 DEF Kids
  <2>6. \A s \in SigNames : v4'[s] = SystemAct(s, p + 1)
    BY <2>1, <2>3, <1>2, <1>a
  <2>7. /\ "INT" \in v6' => p + 1 \notin 2..6
        /\ "QUIT" \in v6' => p + 1 \notin 3..7
        /\ "CHLD" \in v6' => p + 1 > 4
        /\ ~(Depth' > 1)
    BY <2>1, <2>2, <2>3, <1>2
  <2> QED BY <2>1, <2>2, <2>5, <2>6, <2>7, <1>2, <1>k
<1>10. CASE Signals!fork
  <2>1. At(Here).op = "fork" /\ Signals!Step /\ v10 = "run" /\ v10' = v10 /\ v6' = v6 /\ v4' = v4
        /\ v9' \in {[pc |-> "child", act |-> v4, mask |-> v5], [v9 EXCEPT !.pc = "failed"]}
    BY <1>1, <1>10 DEF Signals!fork, Signals!Ready
  <2>2. Depth = 1 /\ Depth' = 1 /\ v3'[1].pc = p + 1
    BY <2>1, <1>s
  <2>3. Here = v3[1] /\ p = 4
    BY <2>1, <2>2, <1>1
  <2>4. v9' \in Kids /\ v9'.pc # "run"
    BY <2>1, <1>0, <1>2 DEF Kids
  <2>5. \A s \in SigNames : v4'[s] = SystemAct(s, p + 1)
    BY <2>1, <2>3, <1>2, <1>a
  <2>6. /\ "INT" \in v6' => p + 1 \notin 2..6
        /\ "QUIT" \in v6' => p + 1 \notin 3..7
        /\ "CHLD" \in v6' => p + 1 > 4
        /\ ~(Depth' > 1) /\ p + 1 = 5
    BY <2>1, <2>2, <2>3, <1>2
  <2> QED BY <2>1, <2>2, <2>4, <2>5, <2>6, <1>2, <1>k
<1>11. CASE Signals!HandlerReturns
  <2>1. v10' = v10 /\ v9' = v9 /\ v6' = v6 /\ v4' = v4
    BY <1>11 DEF Signals!HandlerReturns
  <2>2. /\ Depth > 1 /\ Depth' = Depth - 1
        /\ \/ v3'[Depth - 1].pc = v3[Depth - 1].pc
           \/ At(v3[Depth - 1]).op \in {"suspend", "sleep"}
        /\ \A k \in 1..(Depth - 2) : v3'[k] = v3[k]
    BY <1>0, <1>11, ReturnMoves
  <2>3. v3'[1].pc = p
    BY <2>2, <1>1 DEF p
  <2>4. p \in {1, 7, 8, 9} /\ ~(v9.pc \in {"child", "run"})
    BY <2>2, <1>2
  <2> QED BY <2>1, <2>3, <2>4, <1>2, <1>k
<1>12. CASE Signals!exit
  <2>1. At(Here).op = "exit" /\ v9' = v9 /\ v6' = v6 /\ v4' = v4 /\ v3' = v3
    BY <1>1, <1>12 DEF Signals!exit, Signals!Ready
  <2>2. Depth' = Depth /\ v3'[1].pc = p
    BY <2>1 DEF Depth, p
  <2>3. Depth = 1 /\ p = 9
    BY <2>1, <1>1
  <2> QED BY <2>1, <2>2, <2>3, <1>2, <1>k
<1>13. CASE Signals!Continue
  <2>1. v9' = v9 /\ v6' \subseteq v6 /\ v4' = v4 /\ v3' = v3 /\ v10' = "run"
    BY <1>13 DEF Signals!Continue
  <2>2. Depth' = Depth /\ v3'[1].pc = p
    BY <2>1 DEF Depth, p
  <2> QED BY <2>1, <2>2, <1>2, <1>k
<1>14. CASE Signals!Child
  <2>1. v10' = v10 /\ v4' = v4 /\ v3' = v3 /\ v9.pc \in {"child", "run"}
    BY <1>14 DEF Signals!Child
  <2>2. Depth' = Depth /\ v3'[1].pc = p /\ p = 5 /\ Depth = 1 /\ v10 = "run"
    BY <2>1, <1>2 DEF Depth, p
  <2>3. v6' \subseteq v6 \cup {"CHLD"}
    BY <1>14 DEF Signals!Child
  <2>4. v9' \in {[v9 EXCEPT !.pc = "run", !.act = v2.act, !.mask = v2.mask], [v9 EXCEPT !.pc = "zombie"]}
    BY <1>14 DEF Signals!Child, Signals!execl
  <2>5. v9' \in Kids /\ (v9'.pc = "run" => v9'.act = v2.act /\ v9'.mask = v2.mask)
    <3>1. CASE v9' = [v9 EXCEPT !.pc = "run", !.act = v2.act, !.mask = v2.mask]
      BY <3>1, <1>0, <1>2 DEF Kids
    <3>2. CASE v9' = [v9 EXCEPT !.pc = "zombie"]
      BY <3>2, <1>0, <1>2 DEF Kids
    <3> QED BY <2>4, <3>1, <3>2
  <2>6. /\ v6' \subseteq {"INT", "QUIT", "CHLD"} /\ "INT" \notin v6' /\ "QUIT" \notin v6' /\ p > 4 /\ ~(Depth' > 1)
    BY <2>2, <2>3, <1>2
  <2> QED BY <2>1, <2>2, <2>5, <2>6, <1>2, <1>k
<1>15. CASE \E s \in Signals!Sigs : Signals!Send(s)
  <2>1. PICK s \in Signals!Sigs : Signals!Send(s)
    BY <1>15
  <2>2. s \in {"INT", "QUIT"}
    BY <2>1 DEF Signals!Send, Signals!Wanted
  <2>3. v10' = v10 /\ v9' = v9 /\ v4' = v4 /\ v3' = v3 /\ v6' = IF v4[s] = "ign" THEN v6 ELSE v6 \cup {s}
    BY <2>1 DEF Signals!Send
  <2>4. Depth' = Depth /\ v3'[1].pc = p
    BY <2>3 DEF Depth, p
  <2>5. v6' \subseteq {"INT", "QUIT", "CHLD"} /\ ("CHLD" \in v6' => "CHLD" \in v6)
    BY <2>2, <2>3, <1>2
  <2>6. "INT" \in v6' => p \notin 2..6
    <3>1. p \in 2..6 => v4["INT"] = "ign"
      BY <1>2 DEF SystemAct, SigNames
    <3> QED BY <2>2, <2>3, <1>2, <3>1
  <2>7. "QUIT" \in v6' => p \notin 3..7
    <3>1. p \in 3..7 => v4["QUIT"] = "ign"
      BY <1>2 DEF SystemAct, SigNames
    <3> QED BY <2>2, <2>3, <1>2, <3>1
  <2> QED BY <2>3, <2>4, <2>5, <2>6, <2>7, <1>2, <1>k
<1>16. CASE \E s \in Signals!Sigs : Signals!Deliver(s)
  <2>1. PICK s \in SigNames : Signals!Deliver(s)
    BY <1>0, <1>16
  <2>2. s \in v6 /\ s \notin Signals!Effective /\ v6' = v6 \ {s} /\ v9' = v9 /\ v4' = v4
    BY <2>1 DEF Signals!Deliver, Signals!Deliverable
  <2>3. Depth = 1 => Signals!Effective = Base
    <3> SUFFICES ASSUME Depth = 1 PROVE Signals!Effective = v5 /\ Base = v5
      OBVIOUS
    <3>1. At(Here).op # "suspend"
      BY <1>1
    <3> QED BY <3>1, <1>1 DEF Signals!Effective, Base
  \* Nothing is delivered at 4 and 5.
  <2>4. p \notin {2, 3, 4, 5, 6} \/ s # "INT"
    BY <2>2, <1>2
  <2>5. p \notin {3, 4, 5, 6, 7} \/ s # "QUIT"
    BY <2>2, <1>2
  <2>6. s = "CHLD" /\ Depth = 1 => p = 9
    BY <2>2, <2>3, <1>1, <1>2, <1>3
  <2>7. s \in {"INT", "QUIT", "CHLD"}
    BY <2>2, <1>2
  <2>8. ~(v9.pc \in {"child", "run"})
    BY <2>4, <2>5, <2>6, <2>7, <1>2
  <2>9. CASE v4[s] = "catch"
    <3>1. v10' = v10
      BY <2>1, <2>9 DEF Signals!Deliver
    <3>2. Depth' = Depth + 1 /\ \A k \in 1..Depth : v3'[k] = v3[k]
      BY <2>1, <2>9, <1>0, CatchMoves
    <3>3. v3'[1].pc = p
      BY <3>2, <1>1 DEF p
    <3>4. s # "QUIT"
      <4>1. "QUIT" \in SigNames
        BY DEF SigNames
      <4>2. v4["QUIT"] \in {"ign", "dfl"}
        BY <4>1, <1>2 DEF SystemAct
      <4> QED BY <4>2, <2>9
    <3>5. p \in {1, 7, 8, 9}
      BY <2>4, <2>6, <2>7, <3>4, <1>1, <1>2
    <3> QED BY <2>2, <2>8, <3>1, <3>3, <3>5, <1>2, <1>k
  <2>10. CASE v4[s] # "catch"
    <3>1. v3' = v3
      BY <2>1, <2>10 DEF Signals!Deliver
    <3>2. Depth' = Depth /\ v3'[1].pc = p
      BY <3>1 DEF Depth, p
    <3> QED BY <2>2, <2>8, <3>2, <1>2, <1>k
  <2> QED BY <2>9, <2>10
<1> QED BY <1>5, <1>6, <1>7, <1>8, <1>9, <1>10, <1>11, <1>12, <1>13, <1>14, <1>15, <1>16 DEF Signals!Next, Signals!Process

\* sigtstp, by place in main and in sig_tstp.
LEMMA TstpRuns ==
  ASSUME SigTypes, v1 = "sigtstp"
  PROVE /\ v3[1].pc \in {1, 2, 3, 4} /\ Depth \in Nat /\ Depth > 0
        /\ Signals!ins = At(Here) /\ Signals!top = Here
        /\ Depth = 1 => Here = v3[1]
        /\ \A k \in 1..Depth : At(v3[k]).op \notin {"suspend", "sleep"}
        /\ Depth > 1 => /\ Here.pc \in {1, 2, 3, 4, 5}
                        /\ Here.pc = 1 => At(Here).op = "unblock"
                        /\ Here.pc = 2 => At(Here).op = "dfl" /\ At(Here).arg = "TSTP"
                        /\ Here.pc = 3 => At(Here).op = "raise"
                        /\ Here.pc = 4 => At(Here).op = "catch" /\ At(Here).arg = "TSTP"
                        /\ Here.pc = 5 => At(Here).op = "ret"
        /\ v3[1].pc = 1 => At(v3[1]).op = "ign" /\ At(v3[1]).arg = "TSTP"
        /\ v3[1].pc = 2 => At(v3[1]).op = "catchdfl" /\ At(v3[1]).arg = "TSTP"
        /\ v3[1].pc = 3 => At(v3[1]).op = "read"
        /\ v3[1].pc = 4 => At(v3[1]).op = "exit"
<1>1. /\ Depth \in Nat /\ Depth > 0 /\ Here \in Frames /\ v1 \in SigPrograms
      /\ Signals!ins = At(Here) /\ Signals!top = Here
      /\ v3[1] \in Frames /\ v3[1].of = "main" /\ v3[1].pc \in 1..MainLen
      /\ Depth = 1 => Here = v3[1]
      /\ Depth > 1 => Here.of \in Caught /\ Here.pc \in 1..HandlerLen(Here.of)
  BY WhatRuns
<1>2. v3[1].pc \in {1, 2, 3, 4}
  BY <1>1 DEF MainLen
<1>3. Depth > 1 => Here.of = "TSTP" /\ Here.pc \in {1, 2, 3, 4, 5} /\ Here.of \in Caught
  <2>1. Depth > 1 => Here.of = "TSTP"
    BY <1>1 DEF Caught
  <2> QED BY <2>1, <1>1 DEF HandlerLen
<1>4. /\ v3[1].pc = 1 => At(v3[1]).op = "ign" /\ At(v3[1]).arg = "TSTP"
      /\ v3[1].pc = 2 => At(v3[1]).op = "catchdfl" /\ At(v3[1]).arg = "TSTP"
      /\ v3[1].pc = 3 => At(v3[1]).op = "read"
      /\ v3[1].pc = 4 => At(v3[1]).op = "exit"
  BY <1>1, SigtstpOps
<1>5. Depth > 1 => /\ Here.pc = 1 => At(Here).op = "unblock"
                   /\ Here.pc = 2 => At(Here).op = "dfl" /\ At(Here).arg = "TSTP"
                   /\ Here.pc = 3 => At(Here).op = "raise"
                   /\ Here.pc = 4 => At(Here).op = "catch" /\ At(Here).arg = "TSTP"
                   /\ Here.pc = 5 => At(Here).op = "ret"
  BY <1>1, <1>3, HandlerOps
<1>6. \A k \in 1..Depth : At(v3[k]).op \notin {"suspend", "sleep"}
  <2> SUFFICES ASSUME NEW k \in 1..Depth PROVE At(v3[k]).op \notin {"suspend", "sleep"}
    OBVIOUS
  <2>1. CASE k = 1
    BY <1>2, <1>4, <2>1
  <2>2. CASE k # 1
    <3>1. k \in 2..Depth
      BY <1>1, <2>2
    <3>2. v3[k] \in Frames
      BY DEF SigTypes, Stacks, Depth
    <3>3. v3[k].of \in Caught /\ v3[k].pc \in 1..HandlerLen(v3[k].of)
      BY <3>1 DEF SigTypes
    <3>4. At(v3[k]).op \in HandlerOpNames
      BY <1>1, <3>2, <3>3, HandlerKinds
    <3> QED BY <3>4 DEF HandlerOpNames
  <2> QED BY <2>1, <2>2
<1> QED BY <1>1, <1>2, <1>3, <1>4, <1>5, <1>6

\* sigtstp has been started, with SIGTSTP ignored or not.
LEMMA TstpStarts ==
  ASSUME Signals!Init, v1 = "sigtstp"
  PROVE TstpInv
<1>1. v3[1].pc = 1 /\ Depth = 1 /\ MainAct(1) = "dfl"
  BY DEF Signals!Init, Depth, MainAct
<1>2. v4 = v2.act /\ v2.act["TSTP"] \in {"dfl", "ign"}
  <2>1. "TSTP" \in Signals!Sigs
    BY DEF Signals!Sigs
  <2>2. v4 = v2.act /\ v2.act["TSTP"] \in Signals!Given(v1, "TSTP")
    BY <2>1 DEF Signals!Init
  <2> QED BY <2>2 DEF Signals!Given
<1> QED BY <1>1, <1>2 DEF TstpInv

\* Every step of sigtstp keeps it.
LEMMA TstpKept ==
  ASSUME SigBasics, v1 = "sigtstp", TstpInv, Signals!Next
  PROVE TstpInv'
<1> DEFINE p == v3[1].pc  q == Here.pc  a == v4["TSTP"]  o == v2.act["TSTP"]
<1>0. /\ SigTypes /\ v1' = v1 /\ v2' = v2 /\ v4 \in [SigNames -> Actions] /\ SigNames = Signals!Sigs
      /\ \A s \in SigNames : v4[s] = "catch" => s = "TSTP"
  <2>1. \A s \in SigNames : v4[s] = "catch" => s \in Caught
    BY DEF SigBasics, SigTypes
  <2> QED BY <2>1, BasicsKept DEF SigBasics, SigTypes, Signals!Sigs, SigNames, Caught
<1>1. /\ p \in {1, 2, 3, 4} /\ Depth \in Nat /\ Depth > 0
      /\ Signals!ins = At(Here) /\ Signals!top = Here
      /\ Depth = 1 => Here = v3[1]
      /\ \A k \in 1..Depth : At(v3[k]).op \notin {"suspend", "sleep"}
      /\ Depth > 1 => /\ q \in {1, 2, 3, 4, 5}
                      /\ q = 1 => At(Here).op = "unblock"
                      /\ q = 2 => At(Here).op = "dfl" /\ At(Here).arg = "TSTP"
                      /\ q = 3 => At(Here).op = "raise"
                      /\ q = 4 => At(Here).op = "catch" /\ At(Here).arg = "TSTP"
                      /\ q = 5 => At(Here).op = "ret"
      /\ p = 1 => At(v3[1]).op = "ign" /\ At(v3[1]).arg = "TSTP"
      /\ p = 2 => At(v3[1]).op = "catchdfl" /\ At(v3[1]).arg = "TSTP"
      /\ p = 3 => At(v3[1]).op = "read"
      /\ p = 4 => At(v3[1]).op = "exit"
  BY <1>0, TstpRuns
<1>2. /\ o \in {"dfl", "ign"}
      /\ o = "ign" => Depth = 1 /\ a = "ign"
      /\ o = "dfl" /\ Depth = 1 => a = MainAct(p)
      /\ o = "dfl" /\ Depth > 1 => p > 2 /\ a = HandlerAct(q)
      /\ o = "dfl" => \A k \in 2..(Depth - 1) : v3[k].pc \in {1, 2, 5}
  BY <1>1 DEF TstpInv, MainAct, HandlerAct
\* What the invariant is after the step.
<1>k. ASSUME Depth' \in Nat, Depth' > 0,
             o = "ign" => Depth' = 1 /\ v4'["TSTP"] = "ign",
             o = "dfl" /\ Depth' = 1 => v4'["TSTP"] = MainAct(v3'[1].pc),
             o = "dfl" /\ Depth' > 1 => v3'[1].pc > 2 /\ v4'["TSTP"] = HandlerAct(v3'[Depth'].pc),
             o = "dfl" => \A k \in 2..(Depth' - 1) : v3'[k].pc \in {1, 2, 5}
      PROVE TstpInv'
  BY <1>0, <1>2, <1>k DEF TstpInv, MainAct, HandlerAct, Here
<1>s. ASSUME Signals!Step PROVE /\ Depth' = Depth /\ v3'[Depth].pc = q + 1
                                /\ \A k \in 1..(Depth - 1) : v3'[k] = v3[k]
  BY <1>0, <1>s, StepMoves
\* A call of main.
<1>m. ASSUME Depth = 1, Depth' = 1,
             o = "ign" => v4'["TSTP"] = "ign",
             o = "dfl" => v4'["TSTP"] = MainAct(v3'[1].pc)
      PROVE TstpInv'
  BY <1>m, <1>k
\* A call of sig_tstp.
<1>h. ASSUME Depth > 1, Depth' = Depth, v4'["TSTP"] = HandlerAct(v3'[Depth].pc),
             \A k \in 1..(Depth - 1) : v3'[k] = v3[k]
      PROVE TstpInv'
  <2>1. v3'[1].pc = p
    BY <1>1, <1>h
  <2>2. \A k \in 2..(Depth - 1) : v3'[k].pc = v3[k].pc
    BY <1>1, <1>h
  <2> HIDE DEF p, q, a, o
  <2> QED BY <1>1, <1>2, <1>h, <1>k, <2>1, <2>2
<1>u. ASSUME v3' = v3, v4' = v4 PROVE TstpInv'
  <2>1. Depth' = Depth
    BY <1>u DEF Depth
  <2> QED BY <1>0, <1>u, <2>1 DEF TstpInv, Here
<1> HIDE DEF p, q, a, o
<1>5. CASE Signals!Sigaction
  <2>1. At(Here).op \in {"catch", "catchdfl", "dfl", "ign", "noign", "old"} /\ Signals!Step
    BY <1>1, <1>5 DEF Signals!Sigaction, Signals!Ready
  <2>2. CASE Depth = 1
    <3>1. Here = v3[1] /\ p \in {1, 2} /\ q = p
      BY <2>1, <2>2, <1>1 DEF p, q
    <3>2. Depth' = 1 /\ v3'[1].pc = p + 1
      BY <2>1, <2>2, <1>s, <3>1
    <3>3. CASE p = 1
      <4>1. v4' = [v4 EXCEPT !["TSTP"] = "ign"]
        BY <3>1, <3>3, <1>1, <1>5 DEF Signals!Sigaction
      <4>2. v4'["TSTP"] = "ign" /\ MainAct(2) = "ign"
        BY <4>1, <1>0 DEF SigNames, MainAct
      <4> QED BY <2>2, <3>2, <3>3, <4>2, <1>m
    <3>4. CASE p = 2
      <4>1. v4' = [v4 EXCEPT !["TSTP"] = IF o = "dfl" THEN "catch" ELSE a]
        BY <3>1, <3>4, <1>1, <1>5 DEF Signals!Sigaction, o, a
      <4>2. v4'["TSTP"] = (IF o = "dfl" THEN "catch" ELSE a) /\ MainAct(3) = "catch"
        BY <4>1, <1>0 DEF SigNames, MainAct
      <4> QED BY <2>2, <3>2, <3>4, <4>2, <1>2, <1>m
    <3> QED BY <3>1, <3>3, <3>4
  <2>3. CASE Depth > 1
    <3>1. q \in {2, 4}
      BY <2>1, <2>3, <1>1
    <3>2. /\ Depth' = Depth /\ v3'[Depth].pc = q + 1
          /\ \A k \in 1..(Depth - 1) : v3'[k] = v3[k]
      BY <2>1, <1>s
    <3>3. v4' = [v4 EXCEPT !["TSTP"] = IF q = 2 THEN "dfl" ELSE "catch"]
      BY <2>3, <3>1, <1>1, <1>5 DEF Signals!Sigaction
    <3>4. v4'["TSTP"] = IF q = 2 THEN "dfl" ELSE "catch"
      BY <3>3, <1>0 DEF SigNames
    <3>5. HandlerAct(q + 1) = IF q = 2 THEN "dfl" ELSE "catch"
      BY <3>1 DEF HandlerAct
    <3> QED BY <2>3, <3>2, <3>4, <3>5, <1>h
  <2> QED BY <2>2, <2>3, <1>1
<1>6. CASE Signals!sigprocmask \/ Signals!Raise
  <2>1. At(Here).op \in {"block", "unblock", "setmask", "fill", "raise", "alarm"} /\ Signals!Step /\ v4' = v4
    BY <1>1, <1>6 DEF Signals!sigprocmask, Signals!Raise, Signals!Ready
  <2>2. Depth > 1 /\ q \in {1, 3}
    BY <2>1, <1>1
  <2>3. /\ Depth' = Depth /\ v3'[Depth].pc = q + 1
        /\ \A k \in 1..(Depth - 1) : v3'[k] = v3[k]
    BY <2>1, <1>s
  <2>4. HandlerAct(q + 1) = HandlerAct(q)
    BY <2>2 DEF HandlerAct
  <2>5. v4'["TSTP"] = HandlerAct(q)
    BY <2>1, <2>2, <1>2 DEF a
  <2> QED BY <2>2, <2>3, <2>4, <2>5, <1>h
<1>7. CASE Signals!SetFlag \/ Signals!Branch \/ Signals!sigsetjmp \/ Signals!siglongjmp \/ Signals!fork
  <2>1. At(Here).op \in {"flag", "flushdfl", "if", "goto", "sigsetjmp", "siglongjmp", "fork"}
    BY <1>1, <1>7 DEF Signals!SetFlag, Signals!Branch, Signals!sigsetjmp, Signals!siglongjmp, Signals!fork, Signals!Ready
  <2> QED BY <2>1, <1>1
<1>8. CASE Signals!Enter
  <2>1. At(Here).op \in {"suspend", "pause", "read", "sleep", "busy", "waitpid"} /\ v4' = v4
    BY <1>1, <1>8 DEF Signals!Enter, Signals!Ready
  <2>2. Depth = 1
    BY <2>1, <1>1
  <2>3. Depth' = 1 /\ v3'[1].pc = p
    BY <1>0, <1>1, <1>8, <2>2, EnterMoves DEF p
  <2> QED BY <2>1, <2>2, <2>3, <1>2, <1>m DEF a
<1>9. CASE Signals!Leave
  <2>1. At(Here).op \in {"read", "sleep", "busy", "waitpid"} /\ v4' = v4 /\ Signals!Step
    BY <1>1, <1>9 DEF Signals!Leave
  <2>2. Depth = 1
    BY <2>1, <1>1
  <2>3. Here = v3[1] /\ p = 3 /\ q = p
    BY <2>1, <2>2, <1>1 DEF p, q
  <2>4. Depth' = 1 /\ v3'[1].pc = 4
    BY <2>1, <2>2, <2>3, <1>s
  <2>5. MainAct(4) = MainAct(3)
    BY DEF MainAct
  <2> QED BY <2>1, <2>2, <2>3, <2>4, <2>5, <1>2, <1>m DEF a
<1>10. CASE Signals!HandlerReturns
  <2>1. At(Here).op = "ret" /\ v4' = v4
    BY <1>1, <1>10 DEF Signals!HandlerReturns, Signals!Ready
  <2>2. /\ Depth > 1 /\ Depth' = Depth - 1
        /\ \/ v3'[Depth - 1].pc = v3[Depth - 1].pc
           \/ At(v3[Depth - 1]).op \in {"suspend", "sleep"}
        /\ \A k \in 1..(Depth - 2) : v3'[k] = v3[k]
    BY <1>0, <1>10, ReturnMoves
  <2>3. v3'[Depth - 1].pc = v3[Depth - 1].pc
    BY <2>2, <1>1
  <2>4. q = 5 /\ HandlerAct(q) = "catch" /\ o = "dfl" /\ a = "catch" /\ p > 2
    <3>1. q = 5
      BY <2>1, <2>2, <1>1
    <3>2. o = "dfl"
      BY <2>2, <1>2
    <3> QED BY <2>2, <3>1, <3>2, <1>2 DEF HandlerAct
  <2>5. v3'[1].pc = p
    BY <2>2, <2>3, <1>1 DEF p
  <2>6. CASE Depth = 2
    <3>1. MainAct(p) = "catch"
      BY <2>4, <1>1 DEF MainAct
    <3> QED BY <2>1, <2>2, <2>4, <2>5, <2>6, <3>1, <1>k DEF a
  <2>7. CASE Depth > 2
    <3>1. v3[Depth - 1].pc \in {1, 2, 5}
      BY <2>4, <2>7, <1>1, <1>2
    <3>2. HandlerAct(v3'[Depth'].pc) = "catch"
      BY <2>2, <2>3, <3>1 DEF HandlerAct
    <3>3. \A k \in 2..(Depth' - 1) : v3'[k].pc \in {1, 2, 5}
      <4> SUFFICES ASSUME NEW k \in 2..(Depth' - 1) PROVE v3'[k].pc \in {1, 2, 5}
        OBVIOUS
      <4>1. k \in 1..(Depth - 2) /\ k \in 2..(Depth - 1)
        BY <2>2, <1>1
      <4> QED BY <4>1, <2>2, <2>4, <1>2
    <3> QED BY <2>1, <2>2, <2>4, <2>5, <2>7, <3>2, <3>3, <1>1, <1>k DEF a
  <2> QED BY <2>2, <2>6, <2>7, <1>1
<1>11. CASE Signals!exit \/ Signals!Continue \/ Signals!Child \/ \E s \in Signals!Sigs : Signals!Send(s)
  BY <1>11, <1>u DEF Signals!exit, Signals!Continue, Signals!Child, Signals!Send
<1>12. CASE \E s \in Signals!Sigs : Signals!Deliver(s)
  <2>1. PICK s \in SigNames : Signals!Deliver(s)
    BY <1>0, <1>12
  <2>2. CASE v4[s] # "catch"
    BY <2>1, <2>2, <1>u DEF Signals!Deliver
  <2>3. CASE v4[s] = "catch"
    <3>1. s = "TSTP" /\ a = "catch" /\ v4' = v4
      BY <2>1, <2>3, <1>0 DEF Signals!Deliver, a
    <3>2. /\ Depth' = Depth + 1 /\ v3'[Depth + 1].pc = 1
          /\ \A k \in 1..Depth : v3'[k] = v3[k]
      BY <2>1, <2>3, <1>0, CatchMoves
    <3>3. o = "dfl" /\ HandlerAct(1) = "catch"
      BY <3>1, <1>2 DEF HandlerAct
    <3>4. v3'[1].pc = p /\ p > 2
      <4>1. v3'[1].pc = p
        BY <3>2, <1>1 DEF p
      <4>2. Depth = 1 => p > 2
        BY <3>1, <3>3, <1>1, <1>2 DEF MainAct
      <4> QED BY <4>1, <4>2, <3>3, <1>1, <1>2
    <3>5. Depth > 1 => q \in {1, 2, 5}
      BY <3>1, <3>3, <1>1, <1>2 DEF HandlerAct
    <3>6. \A k \in 2..(Depth' - 1) : v3'[k].pc \in {1, 2, 5}
      <4> SUFFICES ASSUME NEW k \in 2..(Depth' - 1) PROVE v3'[k].pc \in {1, 2, 5}
        OBVIOUS
      <4>1. k \in 2..Depth /\ k \in 1..Depth
        BY <3>2, <1>1
      <4>2. v3'[k] = v3[k]
        BY <4>1, <3>2
      <4>3. CASE k = Depth
        BY <4>1, <4>2, <4>3, <3>5 DEF q, Here
      <4>4. CASE k # Depth
        <5>1. k \in 2..(Depth - 1)
          BY <4>1, <4>4, <1>1
        <5> QED BY <5>1, <4>2, <3>3, <1>2
      <4> QED BY <4>3, <4>4
    <3> QED BY <3>1, <3>2, <3>3, <3>4, <3>6, <1>1, <1>k DEF a
  <2> QED BY <2>2, <2>3
<1> QED BY <1>5, <1>6, <1>7, <1>8, <1>9, <1>10, <1>11, <1>12 DEF Signals!Next, Signals!Process

\* The invariant of the programs of Signals.
SignalsInv ==
  /\ SigBasics /\ Exited
  /\ v1 = "abort" => AbortInv
  /\ v1 = "system" => SystemInv
  /\ v1 = "sigtstp" => TstpInv

\* A program has been started.
LEMMA SignalsStart ==
  ASSUME Signals!Init
  PROVE SignalsInv
<1>1. Exited
  BY DEF Exited, Signals!Init
<1> QED BY <1>1, SigStarts, AbortStarts, SystemStarts, TstpStarts DEF SignalsInv

\* Every step keeps it.
LEMMA SignalsKept ==
  ASSUME SignalsInv, Signals!Next
  PROVE SignalsInv'
BY BasicsKept, ExitedKept, AbortKept, SystemKept, TstpKept DEF SignalsInv

\* So does a step that changes nothing.
LEMMA SignalsStill ==
  ASSUME SignalsInv, UNCHANGED vars
  PROVE SignalsInv'
<1>1. UNCHANGED <<v1, v2, v3, v4, v5, v6, v7, v8, v9, v10>>
  BY DEF vars
<1>2. Depth' = Depth /\ Caught' = Caught /\ MainLen' = MainLen /\ Base' = Base
  BY <1>1 DEF Depth, Caught, MainLen, Base
<1>3. Here' = Here /\ \A p : MainMask(p)' = MainMask(p)
  BY <1>1, <1>2 DEF Here, MainMask
<1>4. SigBasics'
  BY <1>1, <1>2, <1>3 DEF SignalsInv, SigBasics, SigTypes, SigMask, SigJump, MainMask
<1>5. Exited'
  BY <1>1, <1>2 DEF SignalsInv, Exited
<1>6. v1 = "abort" => AbortInv'
  BY <1>1, <1>2 DEF SignalsInv, AbortInv
<1>7. v1 = "system" => SystemInv'
  BY <1>1, <1>2 DEF SignalsInv, SystemInv, SystemAct
<1>8. v1 = "sigtstp" => TstpInv'
  BY <1>1, <1>2, <1>3 DEF SignalsInv, TstpInv
<1> QED BY <1>1, <1>4, <1>5, <1>6, <1>7, <1>8 DEF SignalsInv

\* A program that exits has its mask again, and system its caller's actions.
LEMMA SigMaskRestored ==
  ASSUME SignalsInv
  PROVE Signals!MaskRestored
<1> SUFFICES ASSUME v10 = "exit" PROVE v5 = v2.mask /\ (v1 = "system" => v4 = v2.act)
  BY DEF Signals!MaskRestored
<1>1. Depth = 1 /\ v3[1].pc = MainLen /\ v1 \in SigPrograms /\ v5 = MainMask(MainLen)
      /\ (v1 # "abort" => v2.mask = {})
  BY DEF SignalsInv, Exited, SigBasics, SigMask, SigTypes, Base
<1>2. v1 # "abort"
  BY DEF SignalsInv, AbortInv
<1>3. MainMask(MainLen) = {}
  <2>1. 5 \notin 3..4 /\ 6 \notin 3..4 /\ 9 \notin 4..8
    OBVIOUS
  <2>2. /\ v1 = "suspend1" => MainLen = 5
        /\ v1 = "critical" => MainLen = 6
        /\ v1 \in {"suspend2", "system"} => MainLen = 9
    BY DEF MainLen
  <2> HIDE DEF MainLen
  <2> QED BY <1>1, <1>2, <2>1, <2>2 DEF MainMask, SigPrograms
<1>4. v1 = "system" => v4 = v2.act
  <2> SUFFICES ASSUME v1 = "system" PROVE v4 = v2.act
    OBVIOUS
  <2>1. v3[1].pc = 9 /\ 9 \notin 2..6 /\ 9 \notin 3..7
    BY <1>1 DEF MainLen
  <2>2. \A s \in SigNames : v4[s] = v2.act[s]
    BY <2>1 DEF SignalsInv, SystemInv, SystemAct
  <2>3. v4 \in [SigNames -> Actions] /\ v2.act \in [SigNames -> Actions]
    BY DEF SignalsInv, SigBasics, SigTypes
  <2> QED BY <2>2, <2>3
<1> QED BY <1>1, <1>2, <1>3, <1>4

\* abort, the command of system, and sig_tstp.
LEMMA SigHandled ==
  ASSUME SignalsInv
  PROVE Signals!AbortAborts /\ Signals!CommandAlone /\ Signals!HandlerBack
<1>1. Signals!AbortAborts
  BY DEF Signals!AbortAborts, SignalsInv, AbortInv
<1>2. Signals!CommandAlone
  BY DEF Signals!CommandAlone, SignalsInv, SystemInv, Depth
<1>3. Signals!HandlerBack
  <2> SUFFICES ASSUME v1 = "sigtstp", Depth = 1, Signals!top.pc > 2
               PROVE v4["TSTP"] = IF v2.act["TSTP"] = "dfl" THEN "catch" ELSE "ign"
    BY DEF Signals!HandlerBack, Depth
  <2>1. Signals!top = v3[1] /\ v3[1].pc > 2
    BY WhatRuns DEF SignalsInv, SigBasics
  <2>2. MainAct(v3[1].pc) = "catch"
    BY <2>1 DEF MainAct
  <2> QED BY <2>2 DEF SignalsInv, TstpInv
<1> QED BY <1>1, <1>2, <1>3
-----------------------------------------------------------------------------
\* A step that changes nothing keeps each of the invariants.
LEMMA DaemonStill ==
  ASSUME DaemonInv, UNCHANGED vars
  PROVE DaemonInv'
BY DEF vars, DaemonInv, DaemonTypes, DaemonPCs, Locked, Prepared,
   Daemon!NoTerminal, Daemon!HupSafe, Daemon!RereadWhole

\* The same for db_open.
LEMMA DbOpenStill ==
  ASSUME DbOpenInv, UNCHANGED vars
  PROVE DbOpenInv'
BY DEF vars, DbOpenInv, DbOpenTypes, TableLocked, DbOpen!NoTableOverRecords, DbOpen!ClosedHasNone

\* The same for the threads.
LEMMA ThreadsStill ==
  ASSUME ThreadsInv, UNCHANGED vars
  PROVE ThreadsInv'
BY DEF vars, ThreadsInv, ThreadTypes, Calls, CondvarInv, CondvarLocks, Messages, BarrierInv, MyBarrierInv,
   Came, TimeoutInv, AtforkInv, Threads!ChildMayLock

\* The same for the timed waits.
LEMMA AlarmStill ==
  ASSUME AlarmInv, UNCHANGED vars
  PROVE AlarmInv'
BY DEF vars, AlarmInv, AlarmTypes, AlarmSignals, Jumping, JumpingInv, SleepInv, Alarm!Running

\* The same for asynchronous I/O.
LEMMA AsyncStill ==
  ASSUME AsyncInv, UNCHANGED vars
  PROVE AsyncInv'
<1>1. UNCHANGED <<v1, v2, v3, v4, v5, v6, v7, v8, v9>>
  BY DEF vars
<1>2. AsyncLeft' = AsyncLeft /\ Async!Lines' = Async!Lines
  BY <1>1 DEF AsyncLeft, Async!Lines, Async!Closed
<1> QED BY <1>1, <1>2 DEF AsyncInv, AsyncTodo, AsyncSet, Async!main

\* The same for the terminal modes.
LEMMA TtyStill ==
  ASSUME TtyInv, UNCHANGED vars
  PROVE TtyInv'
<1>1. UNCHANGED <<v1, v2, v3, v4, v5, v6, v7, v8, v9>>
  BY DEF vars
<1>2. TRawInv => TRawInv'
  BY <1>1 DEF TRawInv
<1>3. Exercise1Inv => Exercise1Inv'
  BY <1>1 DEF Exercise1Inv
<1>4. GetpassInv => GetpassInv'
  BY <1>1 DEF GetpassInv
<1>5. (Tty!TerminalRestored /\ Tty!SavedIsOriginal)'
  <2>1. Tty!ins' = Tty!ins
    BY <1>1 DEF Tty!ins, Tty!Code
  <2> QED BY <1>1, <2>1 DEF TtyInv, Tty!TerminalRestored, Tty!SavedIsOriginal
<1> QED BY <1>1, <1>2, <1>3, <1>4, <1>5 DEF TtyInv

\* The same for pty.
LEMMA PtyStill ==
  ASSUME PtyInv, UNCHANGED vars
  PROVE PtyInv'
BY DEF vars, PtyInv, PtyTypes, PtyParents, Pty!TerminalBack
-----------------------------------------------------------------------------
\* What is for one at a time is, for any number of daemons, of processes that
\* open the database, of messages and of spurious wake-ups.
THEOREM AlwaysOneAtATime == Spec => []OneAtATime
<1> DEFINE Inv == /\ part = "daemon" => DaemonInv
                  /\ part = "dbopen" => DbOpenInv
                  /\ part = "threads" => ThreadsInv
<1>1. Init => Inv
  BY PartInit, DaemonStarts, DbOpenStarts, ThreadsStart
<1>2. Inv /\ [Next]_vars => Inv'
  <2> SUFFICES ASSUME Inv, [Next]_vars PROVE Inv'
    OBVIOUS
  <2>1. CASE Next
    BY <2>1, PartNext, DaemonKept, DbOpenKept, ThreadsKept
  <2>2. CASE UNCHANGED vars
    <3>1. part' = part
      BY <2>2 DEF vars
    <3> QED BY <2>2, <3>1, DaemonStill, DbOpenStill, ThreadsStill
  <2> QED BY <2>1, <2>2
<1>3. Inv => OneAtATime
  BY DaemonIsSingle, ThreadsAlone DEF OneAtATime, DbOpenInv
<1> HIDE DEF Inv
<1> QED BY <1>1, <1>2, <1>3, PTL DEF Spec

\* No call waits for an alarm that has gone off and no handler jumps to a frame
\* that has not been saved, in the versions of sleep and the timed reads and in
\* mask.c, whatever signals come and however often.
THEOREM AlwaysWaitsSafely == Spec => []WaitsSafely
<1> DEFINE Inv == /\ part = "alarm" => AlarmInv
                  /\ part = "signals" => SignalsInv
<1>1. Init => Inv
  BY PartInit, AlarmStarts, SignalsStart
<1>2. Inv /\ [Next]_vars => Inv'
  <2> SUFFICES ASSUME Inv, [Next]_vars PROVE Inv'
    OBVIOUS
  <2>1. CASE Next
    BY <2>1, PartNext, AlarmKept, SignalsKept
  <2>2. CASE UNCHANGED vars
    <3>1. part' = part
      BY <2>2 DEF vars
    <3> QED BY <2>2, <3>1, AlarmStill, SignalsStill
  <2> QED BY <2>1, <2>2
<1>3. Inv => WaitsSafely
  BY AlarmSafe, SigJumpIsSet DEF WaitsSafely, SignalsInv
<1> HIDE DEF Inv
<1> QED BY <1>1, <1>2, <1>3, PTL DEF Spec

\* Signals at the wrong moment do no harm, for any number of them and of bytes,
\* lines and copies of the daemon.
THEOREM AlwaysSignalsHandled == Spec => []SignalsHandled
<1> DEFINE Inv == /\ part = "async" => AsyncInv
                  /\ part = "signals" => SignalsInv
                  /\ part = "daemon" => DaemonInv
<1>1. Init => Inv
  BY PartInit, AsyncStarts, SignalsStart, DaemonStarts
<1>2. Inv /\ [Next]_vars => Inv'
  <2> SUFFICES ASSUME Inv, [Next]_vars PROVE Inv'
    OBVIOUS
  <2>1. CASE Next
    BY <2>1, PartNext, AsyncKept, SignalsKept, DaemonKept
  <2>2. CASE UNCHANGED vars
    <3>1. part' = part
      BY <2>2 DEF vars
    <3> QED BY <2>2, <3>1, AsyncStill, SignalsStill, DaemonStill
  <2> QED BY <2>1, <2>2
<1>3. Inv => SignalsHandled
  BY AsyncHandled, SigHandled DEF SignalsHandled, DaemonInv
<1> HIDE DEF Inv
<1> QED BY <1>1, <1>2, <1>3, PTL DEF Spec

\* What a program changes for itself is back when it ends, whatever fails or
\* interrupts it.
THEOREM AlwaysLeftAsFound == Spec => []LeftAsFound
<1> DEFINE Inv == /\ part = "signals" => SignalsInv
                  /\ part = "tty" => TtyInv
                  /\ part = "pty" => PtyInv
                  /\ part = "daemon" => DaemonInv
<1>1. Init => Inv
  BY PartInit, SignalsStart, TtyStarts, PtyStarts, DaemonStarts
<1>2. Inv /\ [Next]_vars => Inv'
  <2> SUFFICES ASSUME Inv, [Next]_vars PROVE Inv'
    OBVIOUS
  <2>1. CASE Next
    BY <2>1, PartNext, SignalsKept, TtyKept, PtyKept, DaemonKept
  <2>2. CASE UNCHANGED vars
    <3>1. part' = part
      BY <2>2 DEF vars
    <3> QED BY <2>2, <3>1, SignalsStill, TtyStill, PtyStill, DaemonStill
  <2> QED BY <2>1, <2>2
<1>3. Inv => LeftAsFound
  BY SigMaskRestored DEF LeftAsFound, TtyInv, PtyInv, DaemonInv
<1> HIDE DEF Inv
<1> QED BY <1>1, <1>2, <1>3, PTL DEF Spec
=============================================================================
