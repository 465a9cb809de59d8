--------------------------- MODULE ExperimentAdmin ---------------------------
(***************************************************************************)
(* The administration of one experiment by several clients: updates of its *)
(* status, its deletion (ExperimentLifecycle) and its decisions            *)
(* (DecisionLog) share the row of the experiment and its lock.             *)
(*                                                                         *)
(* Inserting a decision takes a key lock on the row it refers to: it fails *)
(* when the row is gone, and a DELETE waits for it.  A DELETE takes the    *)
(* decisions along (ON DELETE CASCADE).                                    *)
(***************************************************************************)
EXTENDS ExperimentStatus

CONSTANTS
    Clients,     \* slots for requests in flight
    Outcomes,    \* ship, stop, iterate, inconclusive
    None,        \* no client, no outcome
    MaxTime      \* bound on the clock

ASSUME AdminAssumption ==
    /\ None \notin Outcomes /\ None \notin Clients
    /\ MaxTime \in Nat

VARIABLES
    row, txn, lock, clock, enrolled,     \* ExperimentLifecycle
    log, mirror,                         \* DecisionLog
    overlap      \* history: two requests have been in flight at once

vars == <<row, txn, lock, clock, enrolled, log, mirror, overlap>>

Lifecycle == INSTANCE ExperimentLifecycle
Decisions == INSTANCE DecisionLog

Idle == Lifecycle!Idle

Exists == Lifecycle!Exists

Init ==
    /\ Lifecycle!Init
    /\ Decisions!Init
    /\ overlap = FALSE

ChangeOrAskDelete(c) ==
    /\ Lifecycle!Step(c)
    /\ UNCHANGED <<log, mirror>>

Delete(c) ==
    /\ \A d \in Clients : txn[d].at \notin {"inserted", "mirrored"}
    /\ Lifecycle!CommitDelete(c)
    /\ IF row' = row
         THEN UNCHANGED <<log, mirror>>
         ELSE log' = {} /\ mirror' = None

Decide(c) ==
    /\ txn[c].at \in {"idle", "opened"} => Exists
    /\ Decisions!Step(c)
    /\ UNCHANGED <<row, enrolled>>

\* The insert of a decision on an experiment that was deleted meanwhile.
DecideTooLate(c) ==
    /\ ~Exists
    /\ txn[c].at = "opened"
    /\ txn' = [txn EXCEPT ![c] = Idle]
    /\ UNCHANGED <<row, lock, clock, enrolled, log, mirror>>

Enrol ==
    /\ Lifecycle!Enrol
    /\ UNCHANGED <<log, mirror>>

InFlight == {c \in Clients : txn[c] # Idle}

Next ==
    /\ \/ \E c \in Clients : ChangeOrAskDelete(c) \/ Delete(c) \/ Decide(c) \/ DecideTooLate(c)
       \/ Enrol
    /\ overlap' = (overlap \/ \E c, d \in InFlight' : c # d)

Spec == Init /\ [][Next]_vars

-----------------------------------------------------------------------------
(***************************************************************************)
(* Properties.  Where two requests overlap, the code promises less; the    *)
(* ones about ~overlap say what a single administrator may rely on.        *)
(***************************************************************************)
TypeOK ==
    /\ row \in Lifecycle!Row \cup {Lifecycle!Deleted}
    /\ txn \in [Clients -> Lifecycle!Txn \cup Decisions!Txn]
    /\ lock \in Clients \cup {None}
    /\ clock \in 0 .. MaxTime
    /\ enrolled \in BOOLEAN /\ overlap \in BOOLEAN
    /\ log \subseteq Decisions!Decision
    /\ mirror \in Outcomes \cup {None}

\* Whatever requests overlap, the committed status moves along MayBecome:
\* it leaves draft for running only and never returns to draft.
StatusMoves ==
    [][Exists /\ Exists' /\ row'.status # row.status
         => MayBecome(row.status, row'.status)]_vars

\* The dates go with the status even when updates overlap: an experiment
\* has a start date from the moment it leaves draft, and a completed one has
\* an end date.
DatesFollowStatus ==
    Exists => /\ row.status = "draft" <=> row.started = 0
              /\ row.status = "completed" => row.ended # 0

\* Users that were enrolled keep their experiment, and with it its decisions:
\* the delete that was validated against a draft cannot take the row from
\* under them.
EnrolledIsKept == enrolled => Exists

\* As long as requests do not overlap, completed is final, the start date is
\* written once, an end date means the experiment is over, and "only
\* experiments in status DRAFT can be deleted".
SerialHistory ==
    [][Exists /\ ~overlap' =>
         /\ row.status = "completed" => row' = row
         /\ Exists' /\ row.started # 0 => row'.started = row.started
         /\ Exists' /\ row'.ended # 0 => row'.status = "completed"
         /\ ~Exists' => row.status = "draft"]_vars

\* The mirror never shows an outcome that is not in the log, and shows one
\* as soon as the log has any: the two writes of a POST stand or fall
\* together however POSTs, updates and deletions overlap.
MirrorIsLogged ==
    /\ mirror # None => \E d \in log : d.status = mirror
    /\ log # {} => mirror # None

\* "keeps experiments.decision_status in sync with the latest decision's
\* status", as long as requests do not overlap.
SerialMirror == ~overlap => Decisions!MirrorInSync

=============================================================================
