------------------------------- MODULE Popen --------------------------------
(***************************************************************************)
(* popen and pclose (lib/popen.c, the same as ipc1/popen.c).  A command is *)
(* numbered as its pipe is; Own(k) is the end of the pipe the command is   *)
(* given as its standard input or output, Far(k) the end the caller keeps. *)
(* The command blocks in read or write for as long as somebody has the     *)
(* other end and does not use it.                                          *)
(***************************************************************************)
EXTENDS Integers, Sequences, FiniteSetsExt

CONSTANTS
  maxfd,     \* open_max()
  MaxPopen,  \* bound on the calls of popen
  MaxFail    \* bound on the failures of fork and fdopen

VARIABLES
  start,     \* the descriptors the program was started with
  fd,        \* its descriptors and the pipe ends they refer to
  childpid,  \* childpid[]: the command of a descriptor, or 0
  cmd,       \* the commands: state, type, descriptors, childpid[] at fork
  caller,    \* what the caller is in: idle, popen, pclose, and of which command
  fails      \* failures so far

vars == <<start, fd, childpid, cmd, caller, fails>>

PopenAssumption == maxfd \in Nat /\ maxfd > 2 /\ MaxPopen \in Nat /\ MaxFail \in Nat

End(k, e) == [pipe |-> k, end |-> e]
Terminal == End(0, "rw")
Read(k) == End(k, "r")
Write(k) == End(k, "w")
Own(k) == IF cmd[k].type = "r" THEN Write(k) ELSE Read(k)
Far(k) == IF cmd[k].type = "r" THEN Read(k) ELSE Write(k)
Stream(k) == IF cmd[k].type = "r" THEN 1 ELSE 0

Without(t, F) == [f \in DOMAIN t \ F |-> t[f]]
With(t, f, e) == [g \in DOMAIN t \cup {f} |-> IF g = f THEN e ELSE t[g]]
Where(t, e) == {f \in DOMAIN t : t[f] = e}
MayFail == fails < MaxFail /\ fails' = fails + 1
Idle == [in |-> "idle", k |-> 0]
-----------------------------------------------------------------------------
\* pipe: the two lowest descriptors that are free.
pfd0 == Min((0..(maxfd + 1)) \ DOMAIN fd)
pfd1 == Min((0..(maxfd + 1)) \ (DOMAIN fd \cup {pfd0}))

\* popen up to fork.  Descriptors beyond maxfd are closed again; when fork
\* fails both ends stay open.
popen ==
  /\ caller = Idle /\ Len(cmd) < MaxPopen
  /\ \E type \in {"r", "w"} :
       LET k == Len(cmd) + 1
           both == With(With(fd, pfd0, Read(k)), pfd1, Write(k))
           Entry(l, t) == Append(cmd, [pc |-> l, type |-> type, fd |-> t, childpid |-> childpid])
       IN  \/ /\ pfd0 >= maxfd \/ pfd1 >= maxfd
              /\ cmd' = Entry("none", <<>>) /\ UNCHANGED <<fd, caller, fails>>
           \/ /\ pfd0 < maxfd /\ pfd1 < maxfd /\ fd' = both
              /\ \/ /\ cmd' = Entry("child", both) /\ caller' = [in |-> "popen", k |-> k]
                    /\ UNCHANGED fails
                 \/ /\ MayFail /\ cmd' = Entry("none", <<>>) /\ UNCHANGED caller
  /\ UNCHANGED <<start, childpid>>

\* The rest of popen in the caller; fdopen may fail.
fdopen ==
  LET k == caller.k
      f == Min(Where(fd, Far(k)))
  IN  /\ caller.in = "popen"
      /\ fd' = Without(fd, Where(fd, Own(k)))
      /\ \/ childpid' = [childpid EXCEPT ![f] = k] /\ UNCHANGED fails
         \/ MayFail /\ UNCHANGED childpid
      /\ caller' = Idle
      /\ UNCHANGED <<start, cmd>>

\* The child: the far end is closed, its own end becomes standard input or
\* output, then everything the copy of childpid[] names is closed.
redirect_keeping_far(k) ==
  LET own == Min(Where(cmd[k].fd, Own(k)))
  IN  IF own = Stream(k) THEN cmd[k].fd ELSE Without(With(cmd[k].fd, Stream(k), Own(k)), {own})
redirect(k) ==
  LET t == Without(cmd[k].fd, Where(cmd[k].fd, Far(k)))
      own == Min(Where(cmd[k].fd, Own(k)))
  IN  IF own = Stream(k) THEN t ELSE Without(With(t, Stream(k), Own(k)), {own})

known(k) == {f \in 0..(maxfd - 1) : cmd[k].childpid[f] > 0}

execl(k) ==
  /\ cmd[k].pc = "child"
  /\ cmd' = [cmd EXCEPT ![k] = [@ EXCEPT !.pc = "run", !.fd = Without(redirect(k), known(k))]]
  /\ UNCHANGED <<start, fd, childpid, caller, fails>>

\* The command ends: when it likes, or because the other end of its pipe is
\* gone (end of file, SIGPIPE).
Gone(e) == e \notin Range(fd) /\ \A j \in DOMAIN cmd : e \notin Range(cmd[j].fd)
Ending(k) == cmd' = [cmd EXCEPT ![k] = [@ EXCEPT !.pc = "zombie", !.fd = <<>>]]

Quit(k) ==
  /\ cmd[k].pc = "run" /\ ~Gone(Far(k)) /\ Ending(k)
  /\ UNCHANGED <<start, fd, childpid, caller, fails>>
Ends(k) ==
  /\ cmd[k].pc = "run" /\ Gone(Far(k)) /\ Ending(k)
  /\ UNCHANGED <<start, fd, childpid, caller, fails>>

\* pclose up to waitpid.  fclose fails when it cannot write what is buffered,
\* and then nobody waits for the command.
fclose_fails(k) == cmd[k].type = "w" /\ cmd[k].pc = "zombie"

forget(f) == [childpid EXCEPT ![f] = 0]

pclose ==
  /\ caller = Idle
  /\ \E f \in 0..(maxfd - 1) :
       LET k == childpid[f]
       IN  /\ k # 0
           /\ childpid' = forget(f)
           /\ fd' = Without(fd, {f})
           /\ \/ caller' = [in |-> "pclose", k |-> k]
              \/ fclose_fails(k) /\ UNCHANGED caller
  /\ UNCHANGED <<start, cmd, fails>>

waitpid ==
  /\ caller.in = "pclose" /\ cmd[caller.k].pc = "zombie"
  /\ cmd' = [cmd EXCEPT ![caller.k].pc = "reaped"]
  /\ caller' = Idle
  /\ UNCHANGED <<start, fd, childpid, fails>>
-----------------------------------------------------------------------------
Init ==
  /\ start \in {{0, 1, 2}, {1, 2}, {0, 2}, {2}}
  /\ fd = [f \in start |-> Terminal]
  /\ childpid = [f \in 0..(maxfd - 1) |-> 0]
  /\ cmd = <<>> /\ caller = Idle /\ fails = 0

Caller == fdopen \/ waitpid
Command(k) == execl(k) \/ Ends(k)
Next ==
  \/ popen \/ pclose \/ Caller
  \/ \E k \in DOMAIN cmd : Command(k) \/ Quit(k)
-----------------------------------------------------------------------------
\* A command that runs has its own end as its standard stream, and no other
\* end of a pipe but those of calls that failed: the caller's other pipes are
\* closed in it.  With standard input or output closed at the start a
\* descriptor of childpid[] can be the command's own stream, and is closed.
Connected ==
  \A k \in DOMAIN cmd :
    cmd[k].pc = "run" =>
      /\ {0, 1} \subseteq start => Stream(k) \in Where(cmd[k].fd, Own(k))
      /\ fails = 0 => Range(cmd[k].fd) \subseteq {Terminal, Own(k)}

\* childpid[] names the caller's end of the pipe of a command nobody has waited
\* for; a command is missing from it only because fdopen or fclose failed.
ChildTable ==
  /\ \A f \in DOMAIN childpid : childpid[f] # 0 =>
       f \in DOMAIN fd /\ fd[f] = Far(childpid[f]) /\ cmd[childpid[f]].pc # "reaped"
  /\ \A k \in DOMAIN cmd : cmd[k].pc \in {"child", "run"} /\ fails = 0 =>
       caller.k = k \/ \E f \in DOMAIN childpid : childpid[f] = k

\* The caller waits for its command.
InPclose == caller.in = "pclose"
=============================================================================
