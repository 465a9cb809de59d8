---------------------------- MODULE MCAssignment ----------------------------
(***************************************************************************)
(* Instances of Assignment for TLC: one user of two experiments in a       *)
(* mutex group.  Variant names are 1 and 2, in name order.  A behaviour    *)
(* keeps to its scope, so that the scopes add up instead of multiplying.   *)
(***************************************************************************)
EXTENDS Assignment, TLC

CONSTANTS E1, E2, G, R1, R2, Scopes

VARIABLE scope

TwoWay == {[name |-> 1, split |-> 5000], [name |-> 2, split |-> 5000]}

OneUser   == {1}
OneExp    == {E1}
TwoExps   == {E1, E2}
TwoSlots  == {R1, R2}
NoExps    == {}

\* The last bucket of the first variant.
MCBucket == [u \in Users |-> [e \in Experiments |-> 49]]
AllIn    == [u \in Users |-> [e \in Experiments |-> 0]]

Half == [e \in Experiments |-> 50 * Percent]

TwoVariants == [e \in Experiments |-> TwoWay]

Grouped == [e \in Experiments |-> G]

MCInit ==
    /\ scope \in Scopes
    /\ Init
    /\ scope # "one experiment" => held = {} /\ excluded = {}

\* Bounds: requests overlap for one experiment, whose holdout changes; or
\* come one at a time for both, which nobody stops; or overlap for both.
InScope ==
    /\ scope = "one experiment" =>
          /\ status'[E2] = status[E2]
          /\ \A r \in Requests : ~OnExperiment(r, E2)'
    /\ scope = "one request" =>
          /\ req'[R2] = Idle
          /\ \A e \in Experiments : status'[e] \in {"draft", "running"}
    /\ scope # "one experiment" => UNCHANGED <<held, excluded>>

MCSpec == MCInit /\ [][Next /\ InScope /\ UNCHANGED scope]_<<vars, scope>>

\* No scope keeps a request or an expiry from its next step.
MCFairSpec == MCSpec /\ Fairness

=============================================================================
