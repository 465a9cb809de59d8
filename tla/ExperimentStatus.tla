-------------------------- MODULE ExperimentStatus --------------------------
(***************************************************************************)
(* The status of an experiment and the transitions the service allows      *)
(* (backend/app/models/db.py, backend/app/services/experiment_service.py). *)
(***************************************************************************)
EXTENDS Naturals

Status == {"draft", "running", "paused", "completed"}

\* ALLOWED_TRANSITIONS: what one update may do to the status it has loaded.
AllowedTransitions ==
    [s \in Status |->
        CASE s = "draft"     -> {"running"}
          [] s = "running"   -> {"paused", "completed"}
          [] s = "paused"    -> {"running", "completed"}
          [] s = "completed" -> {}]

\* What the stored status may change to when the updates of several clients
\* overlap, each having validated against the status it loaded: any change
\* among the statuses reached after the start.  ExperimentLifecycle derives
\* this relation from the update handler (its property StatusMoves).
MayBecome(s, t) ==
    \/ t \in AllowedTransitions[s]
    \/ s # "draft" /\ t \in {"running", "paused", "completed"}

=============================================================================
