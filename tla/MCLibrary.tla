----------------------------- MODULE MCLibrary ------------------------------
(***************************************************************************)
(* Instances for TLC of the small independent components: lib/semaph.c,    *)
(* threads/mutex2.c, the job queue and tellwait.c.  They share nothing, so *)
(* each behaviour is one of them, chosen by [part] in the initial state.   *)
(***************************************************************************)
EXTENDS FooMutex2, Semaph, JobQueue, TellWait, TLC

CONSTANTS p1, p2, p3, i1, i2, a, b, c, s1, s2

VARIABLE part

\* Semaph: a server, a process that creates, and one that creates or opens.
MCOps == p1 :> {"create", "rm"} @@ p2 :> {"create"} @@ p3 :> {"create", "open"}

\* FooMutex2, with all ids on one chain of up to three objects.
MCHASH == [x \in {i1, i2} |-> 0]

\* TellWait: signals for one round, pipes for several.
MCLoops == [signal |-> 1, pipe |-> 3]

Alike == Permutations({a, b, c}) \cup Permutations({s1, s2})

fooVars == <<fh, f_next, f_count, f_id, heap, hashlock, f_lock, refs, pc, fp>>
libVars == <<part, semVars, fooVars, queueVars, tellVars>>

LibInit ==
  /\ part \in {"sem", "foo", "queue", "tell"}
  /\ SemInit /\ Init /\ QueueInit
  /\ TellInit /\ (part # "tell" => how = "pipe")

LibNext ==
  \/ part = "sem" /\ SemNext /\ UNCHANGED <<part, fooVars, queueVars, tellVars>>
  \/ part = "foo" /\ Next /\ UNCHANGED <<part, semVars, queueVars, tellVars>>
  \/ part = "queue" /\ QueueNext /\ UNCHANGED <<part, semVars, fooVars, tellVars>>
  \/ part = "tell" /\ TellNext /\ UNCHANGED <<part, semVars, fooVars, queueVars>>

LibSpec == LibInit /\ [][LibNext]_libVars
=============================================================================
