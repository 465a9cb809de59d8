------------------------ MODULE ExperimentLifecycle ------------------------
(***************************************************************************)
(* The lifecycle of one experiments row under PATCH .../status and DELETE  *)
(* by several clients (experiment_service, routers/experiments.py).        *)
(*                                                                         *)
(* Each request loads the row, validates against what it loaded, and then  *)
(* writes: UPDATE or DELETE ... WHERE id = ..., with no check that the row *)
(* is still as loaded.  The write takes the row lock, which PostgreSQL     *)
(* holds until the session commits, after the response.                    *)
(***************************************************************************)
EXTENDS ExperimentStatus

CONSTANTS Clients,     \* slots for requests in flight
          None,        \* no client
          MaxTime      \* bound on the clock

VARIABLES
    row,       \* the committed row, or Deleted
    txn,       \* txn[c]: the request of client c
    lock,      \* the client that holds the row lock, or None
    clock,     \* datetime.utcnow(), advanced at every reading
    enrolled   \* some user has an assignments row

vars == <<row, txn, lock, clock, enrolled>>

\* 0 stands for the NULL of started_at and ended_at.
Row == [status : Status, started : 0 .. MaxTime, ended : 0 .. MaxTime]
Deleted == [deleted |-> TRUE]

Idle == [at |-> "idle"]

\* The columns an UPDATE sets; SQLAlchemy leaves out what did not change.
Patch == UNION {[D -> 0 .. MaxTime] : D \in SUBSET {"started", "ended"}}

Txn ==
    {Idle}
      \cup [at : {"loaded"}, seen : Row]
      \cup [at : {"update"}, to : Status, patch : Patch]
      \cup [at : {"delete"}]
      \cup [at : {"updated"}, result : Row]

Init ==
    /\ row = [status |-> "draft", started |-> 0, ended |-> 0]
    /\ txn = [c \in Clients |-> Idle]
    /\ lock = None
    /\ clock = 0
    /\ enrolled = FALSE

Become(c, t) == txn' = [txn EXCEPT ![c] = t]

\* Mutant: no 404 for a missing row.
LoadWithout404(c) ==
    /\ txn[c] = Idle
    /\ Become(c, [at |-> "loaded", seen |-> row])
    /\ UNCHANGED <<row, lock, clock, enrolled>>

\* get_experiment_by_id; a missing row is answered 404.
Load(c) ==
    /\ txn[c] = Idle
    /\ row # Deleted
    /\ Become(c, [at |-> "loaded", seen |-> row])
    /\ UNCHANGED <<row, lock, clock, enrolled>>

\* Mutants: a completed experiment gets no end date; any status is accepted;
\* every start stamps the start date.
Stamp(c, new, stamped) ==
    /\ txn[c].at = "loaded"
    /\ clock < MaxTime
    /\ clock' = clock + 1
    /\ Become(c, [at |-> "update", to |-> new, patch |-> [col \in stamped |-> clock + 1]])
    /\ UNCHANGED <<row, lock, enrolled>>

ValidateWithoutEnd(c, new) ==
    /\ txn[c].at = "loaded"
    /\ new \in AllowedTransitions[txn[c].seen.status]
    /\ Stamp(c, new, IF new = "running" /\ txn[c].seen.started = 0 THEN {"started"} ELSE {})

ValidateAnything(c, new) ==
    Stamp(c, new, IF new = "running" /\ txn[c].seen.started = 0 THEN {"started"} ELSE {})

ValidateRestamping(c, new) ==
    /\ txn[c].at = "loaded"
    /\ new \in AllowedTransitions[txn[c].seen.status]
    /\ Stamp(c, new, IF new = "running" THEN {"started"}
                     ELSE IF new = "completed" THEN {"ended"} ELSE {})

\* update_experiment_status: validate, stamp, and queue for the row.
Validate(c, new) ==
    /\ txn[c].at = "loaded"
    /\ new \in AllowedTransitions[txn[c].seen.status]
    /\ clock < MaxTime
    /\ clock' = clock + 1
    /\ LET stamped == {col \in {"started", "ended"} :
                         \/ col = "started" /\ new = "running" /\ txn[c].seen.started = 0
                         \/ col = "ended" /\ new = "completed"}
       IN Become(c, [at |-> "update", to |-> new, patch |-> [col \in stamped |-> clock + 1]])
    /\ UNCHANGED <<row, lock, enrolled>>

\* delete_experiment: the DELETE itself is sent at the commit.
ValidateDelete(c) ==
    /\ txn[c].at = "loaded"
    /\ txn[c].seen.status = "draft"
    /\ Become(c, [at |-> "delete"])
    /\ UNCHANGED <<row, lock, clock, enrolled>>

\* A ValueError (400), or any other end of a request that wrote nothing.
Reject(c) ==
    /\ txn[c].at = "loaded"
    /\ Become(c, Idle)
    /\ UNCHANGED <<row, lock, clock, enrolled>>

\* The UPDATE of the flush: waits for the row lock, then applies to the row
\* as it is by now; if that is gone, SQLAlchemy raises and rolls back.
Update(c) ==
    /\ txn[c].at = "update"
    /\ lock = None
    /\ IF row = Deleted
         THEN Become(c, Idle) /\ UNCHANGED lock
         ELSE /\ lock' = c
              /\ LET set(col) == IF col \in DOMAIN txn[c].patch
                                   THEN txn[c].patch[col] ELSE row[col]
                 IN Become(c, [at |-> "updated",
                               result |-> [status |-> txn[c].to, started |-> set("started"),
                                           ended |-> set("ended")]])
    /\ UNCHANGED <<row, clock, enrolled>>

\* get_db commits, or fails and rolls back; the lock is released.
Commit(c) ==
    /\ txn[c].at = "updated"
    /\ row' = txn[c].result
    /\ lock' = None
    /\ Become(c, Idle)
    /\ UNCHANGED <<clock, enrolled>>

Rollback(c) ==
    /\ txn[c].at = "updated"
    /\ lock' = None
    /\ Become(c, Idle)
    /\ UNCHANGED <<row, clock, enrolled>>

\* Mutant: the assignments go with the experiment.
CommitCascadingDelete(c) ==
    /\ txn[c].at = "delete"
    /\ lock = None
    /\ row' = Deleted
    /\ Become(c, Idle)
    /\ UNCHANGED <<lock, clock, enrolled>>

\* The flush of the commit: variants and metrics are deleted with the row;
\* an assignments row refers to a variant, so with one the delete fails.
CommitDelete(c) ==
    /\ txn[c].at = "delete"
    /\ lock = None
    /\ row' = IF enrolled THEN row ELSE Deleted
    /\ Become(c, Idle)
    /\ UNCHANGED <<lock, clock, enrolled>>

\* get_or_create_assignment writes the first row of a running experiment.
Enrol ==
    /\ row # Deleted /\ row.status = "running"
    /\ enrolled' = TRUE
    /\ UNCHANGED <<row, txn, lock, clock>>

\* A step of a request other than the commit of a DELETE.
Step(c) ==
    \/ Load(c)
    \/ \E new \in Status : Validate(c, new)
    \/ ValidateDelete(c)
    \/ Reject(c)
    \/ Update(c)
    \/ Commit(c)
    \/ Rollback(c)

Next ==
    \/ \E c \in Clients : Step(c) \/ CommitDelete(c)
    \/ Enrol

Spec == Init /\ [][Next]_vars

-----------------------------------------------------------------------------
(***************************************************************************)
(* Properties; those of ExperimentAdmin are about this module too.         *)
(***************************************************************************)
Exists == row # Deleted

\* Each change of the committed status is one the table of transitions has.
EachMoveIsAllowed ==
    [][Exists /\ Exists' /\ row'.status # row.status
         => row'.status \in AllowedTransitions[row.status]]_vars

=============================================================================
