---------------------------- MODULE PrintdWorkers ---------------------------
(***************************************************************************)
(* The list of worker threads of apue.3e/printer/printd.c: add_worker,     *)
(* client_cleanup and kill_workers, each under workerlock.  The node of a  *)
(* thread is named by the thread.  Touching a node after free is undefined *)
(* behaviour: the model records it and stops there.                        *)
(***************************************************************************)
EXTENDS Naturals, FiniteSets

CONSTANTS Threads, Null

VARIABLES
  workers,   \* head of the list
  next, prev,
  state,     \* thread -> "new", "running", "ended"
  freed,     \* nodes given back by free
  open,      \* threads whose socket is open
  cancelled, \* threads kill_workers cancelled
  over,      \* SIGTERM was handled
  ub         \* a freed node was used

vars == <<workers, next, prev, state, freed, open, cancelled, over, ub>>

Init ==
  /\ workers = Null
  /\ next = [t \in Threads |-> Null] /\ prev = [t \in Threads |-> Null]
  /\ state = [t \in Threads |-> "new"]
  /\ freed = {} /\ open = {} /\ cancelled = {} /\ over = FALSE /\ ub = FALSE

\* The nodes a loop over the list comes to, a freed one included.
Listed ==
  LET visit[n \in 0..Cardinality(Threads)] ==
        IF n = 0 THEN {workers} \ {Null}
        ELSE visit[n - 1] \cup ({next[t] : t \in visit[n - 1] \ freed} \ {Null})
  IN visit[Cardinality(Threads)]

\* client_thread starts with the socket accept returned
add_worker(t) ==
  /\ ~ub /\ ~over /\ state[t] = "new"
  /\ state' = [state EXCEPT ![t] = "running"]
  /\ open' = open \cup {t}
  /\ next' = [next EXCEPT ![t] = workers]
  /\ IF workers = Null
     THEN workers' = t /\ UNCHANGED <<prev, ub>>
     ELSE /\ prev' = [prev EXCEPT ![workers] = t]
          /\ ub' = (workers \in freed)
          /\ UNCHANGED workers
  /\ UNCHANGED <<freed, cancelled, over>>

\* Unlink, close and free the node of t.
Remove(t) ==
  /\ prev' = IF next[t] = Null THEN prev ELSE [prev EXCEPT ![next[t]] = prev[t]]
  /\ IF prev[t] # Null
     THEN next' = [next EXCEPT ![prev[t]] = next[t]] /\ UNCHANGED workers
     ELSE workers' = next[t] /\ UNCHANGED next
  /\ ub' = ({next[t], prev[t]} \cap freed # {})
  /\ open' = open \ {t} /\ freed' = freed \cup {t}

\* The thread returns, exits or is cancelled.
client_cleanup(t) ==
  /\ ~ub /\ state[t] = "running"
  /\ state' = [state EXCEPT ![t] = "ended"]
  /\ \/ t \in Listed /\ Remove(t)
     \/ /\ t \notin Listed
        /\ ub' = (Listed \cap freed # {})
        /\ UNCHANGED <<workers, next, prev, freed, open>>
  /\ UNCHANGED <<cancelled, over>>

\* signal_thread, SIGTERM: the last thing the daemon does
kill_workers ==
  /\ ~ub /\ ~over
  /\ over' = TRUE
  /\ cancelled' = Listed
  /\ ub' = (Listed \cap freed # {})
  /\ UNCHANGED <<workers, next, prev, state, freed, open>>

Next == kill_workers \/ \E t \in Threads : add_worker(t) \/ client_cleanup(t)

Spec == Init /\ [][Next]_vars
-----------------------------------------------------------------------------
(* Properties. *)

(* "Cancel (kill) all outstanding workers": when SIGTERM is handled every
   running worker is cancelled. *)
KillReachesAll == over => {t \in Threads : state[t] = "running"} \subseteq cancelled
=============================================================================
