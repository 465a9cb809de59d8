---------------------------- MODULE DecisionLog ----------------------------
(***************************************************************************)
(* The decision log of one experiment and its mirror in the column         *)
(* experiments.decision_status (decision_service, routers/decisions.py).   *)
(*                                                                         *)
(* A POST loads the experiment, inserts the decision (decided_at is read   *)
(* from the clock of the application at that flush), assigns the mirror    *)
(* and flushes again.  SQLAlchemy sends an UPDATE for the mirror only if   *)
(* the new value differs from the one loaded.                              *)
(***************************************************************************)
EXTENDS Naturals, FiniteSets

CONSTANTS Clients, Outcomes, None, MaxTime

VARIABLES
    log,      \* the committed decisions
    mirror,   \* the committed decision_status
    txn,      \* txn[c]: the request of client c
    lock,     \* the client holding the lock of the experiments row, or None
    clock

vars == <<log, mirror, txn, lock, clock>>

Decision == [status : Outcomes, decidedAt : 1 .. MaxTime]

Idle == [at |-> "idle"]

Txn == {Idle}
         \cup [at : {"opened"}, seen : Outcomes \cup {None}]
         \cup [at : {"inserted", "mirrored"}, seen : Outcomes \cup {None},
               decision : Decision]

Init ==
    /\ log = {}
    /\ mirror = None
    /\ txn = [c \in Clients |-> Idle]
    /\ lock = None
    /\ clock = 0

Open(c) ==
    /\ txn[c] = Idle
    /\ txn' = [txn EXCEPT ![c] = [at |-> "opened", seen |-> mirror]]
    /\ UNCHANGED <<log, mirror, lock, clock>>

\* The first flush of create_decision: the row exists for this session only.
Insert(c, outcome) ==
    /\ txn[c].at = "opened"
    /\ clock < MaxTime
    /\ clock' = clock + 1
    /\ txn' = [txn EXCEPT ![c] =
                 [at |-> "inserted", seen |-> @.seen,
                  decision |-> [status |-> outcome, decidedAt |-> clock + 1]]]
    /\ UNCHANGED <<log, mirror, lock>>

\* Mutant: only the first decision is mirrored.
MirrorIsEmpty(c) == txn[c].seen = None

MirrorChanges(c) == txn[c].decision.status # txn[c].seen

\* Mutant: the mirror is committed on its own, before the decision.
SetMirrorAtOnce(c) ==
    /\ txn[c].at = "inserted"
    /\ lock = None
    /\ mirror' = txn[c].decision.status
    /\ txn' = [txn EXCEPT ![c].at = "mirrored"]
    /\ UNCHANGED <<log, lock, clock>>

\* The second flush: an UPDATE that waits for the row lock, or nothing.
SetMirror(c) ==
    /\ txn[c].at = "inserted"
    /\ IF MirrorChanges(c) THEN lock = None /\ lock' = c ELSE UNCHANGED lock
    /\ txn' = [txn EXCEPT ![c].at = "mirrored"]
    /\ UNCHANGED <<log, mirror, clock>>

Release(c) == IF lock = c THEN None ELSE lock

Commit(c) ==
    /\ txn[c].at = "mirrored"
    /\ log' = log \cup {txn[c].decision}
    /\ mirror' = IF MirrorChanges(c) THEN txn[c].decision.status ELSE mirror
    /\ lock' = Release(c)
    /\ txn' = [txn EXCEPT ![c] = Idle]
    /\ UNCHANGED clock

\* Any statement, the audit row or the commit itself fails.
Rollback(c) ==
    /\ txn[c].at \in {"opened", "inserted", "mirrored"}
    /\ lock' = Release(c)
    /\ txn' = [txn EXCEPT ![c] = Idle]
    /\ UNCHANGED <<log, mirror, clock>>

Step(c) ==
    \/ Open(c)
    \/ \E outcome \in Outcomes : Insert(c, outcome)
    \/ SetMirror(c)
    \/ Commit(c)
    \/ Rollback(c)

Next == \E c \in Clients : Step(c)

Spec == Init /\ [][Next]_vars

-----------------------------------------------------------------------------
\* The first item of list_decisions_for_experiment (decided_at DESC).
Latest == CHOOSE d \in log : \A x \in log : x.decidedAt <= d.decidedAt

\* "keeps experiments.decision_status in sync with the latest decision's
\* status": the mirror is the status of the decision listed first.
MirrorInSync == mirror = IF log = {} THEN None ELSE Latest.status

=============================================================================
