------------------------------- MODULE DbMap --------------------------------
(***************************************************************************)
(* What db.c promises its callers: db_fetch, db_store and db_delete act    *)
(* atomically on one map from keys to data, somewhere between the call and *)
(* its return.                                                             *)
(***************************************************************************)
CONSTANTS Procs, Keys, Vals, Flags, None

VARIABLES
  kv, \* key -> data, or None
  st  \* process -> the call it has in progress

mapvars == <<kv, st>>

Idle == [phase |-> "idle"]

Init == kv = [k \in Keys |-> None] /\ st = [p \in Procs |-> Idle]

Request(phase, ops, vals, flags, rc) ==
  [phase : {phase}, op : ops, key : Keys, val : vals, flag : flags, rc : {rc}]

\* A call begins; db_store refuses an unknown flag at once.
Invoke(p) ==
  /\ st[p] = Idle
  /\ \/ st'[p] \in Request("called", {"fetch", "delete"}, {None}, {None}, None)
     \/ st'[p] \in Request("called", {"store"}, Vals, Flags \ {"other"}, None)
     \/ st'[p] \in Request("done", {"store"}, Vals, Flags \cap {"other"}, "EINVAL")
  /\ st' = [st EXCEPT ![p] = st'[p]]
  /\ UNCHANGED kv

\* The result of the pending call of p on the present map.
Result(c) ==
  LET here == kv[c.key] # None
  IN CASE c.op = "fetch"  -> IF here THEN kv[c.key] ELSE "notfound"
       [] c.op = "delete" -> IF here THEN "ok" ELSE "notfound"
       [] c.op = "store"  ->
            IF here /\ c.flag = "DB_INSERT" THEN "exists"
            ELSE IF ~here /\ c.flag = "DB_REPLACE" THEN "notfound"
            ELSE "ok"

Commit(p) ==
  LET c == st[p]
      r == Result(c)
  IN /\ c.phase = "called"
     /\ st' = [st EXCEPT ![p].phase = "done", ![p].rc = r]
     /\ kv' = IF c.op = "fetch" \/ r # "ok" THEN kv
              ELSE [kv EXCEPT ![c.key] = IF c.op = "store" THEN c.val ELSE None]

Return(p) ==
  /\ st[p].phase = "done"
  /\ st' = [st EXCEPT ![p] = Idle]
  /\ UNCHANGED kv

\* The library quits inside a call.  A store that had begun to replace a record
\* then leaves no record.
Quit(p) ==
  /\ st' = [st EXCEPT ![p] = [phase |-> "dead"]]
  /\ \/ st[p].phase \in {"idle", "called"} /\ UNCHANGED kv
     \/ /\ st[p].phase = "done" /\ st[p].op = "store" /\ st[p].rc = "ok"
        /\ kv' = [kv EXCEPT ![st[p].key] = None]

Next == \E p \in Procs : Invoke(p) \/ Commit(p) \/ Return(p) \/ Quit(p)

Spec == Init /\ [][Next]_mapvars
=============================================================================
