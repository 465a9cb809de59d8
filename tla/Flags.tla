------------------------------- MODULE Flags -------------------------------
(***************************************************************************)
(* Evaluation of feature flags and of holdouts                             *)
(* (backend/app/services/flag_service.py, holdout_service.py): the kill    *)
(* switch, the first enabled rule whose segment the user is in, the first  *)
(* enabled rule without a segment, and the rollout of the flag itself.     *)
(*                                                                         *)
(* A flag is [enabled, rollout, rules], its rules a set of                 *)
(* [priority, segment, rollout, enabled] with the rules of the segment in  *)
(* place of its id; rules of one priority are in the order of their load,  *)
(* which "order" numbers.  SHA-256 is a bucket the callers choose.         *)
(***************************************************************************)
EXTENDS Filters

CONSTANT NoSegment      \* segment_id = None

FlagBucket == 0 .. 99

RuleBefore(r, s) == r.priority < s.priority \/ (r.priority = s.priority /\ r.order < s.order)

FirstOf(rules) == CHOOSE r \in rules : \A s \in rules \ {r} : RuleBefore(r, s)

\* The rules of a segment that the user is in.  Without user_properties no
\* segment is looked at.
SegmentHits(flag, props) ==
    {r \in Enabled(flag.rules) :
        /\ DOMAIN props # {}
        /\ r.segment # NoSegment
        /\ EvaluateSegment(r.segment, props).matches}

DefaultRules(flag) == {r \in Enabled(flag.rules) : r.segment = NoSegment}

\* Mutant: the rule for everyone is taken before the segments.
ResolveRolloutDefaultFirst(flag, props) ==
    IF DefaultRules(flag) # {}
      THEN [rollout |-> FirstOf(DefaultRules(flag)).rollout, reason |-> "rule_override"]
    ELSE IF SegmentHits(flag, props) # {}
      THEN [rollout |-> FirstOf(SegmentHits(flag, props)).rollout, reason |-> "segment_in"]
    ELSE [rollout |-> flag.rollout, reason |-> "flag_rollout"]

\* _resolve_rollout
ResolveRollout(flag, props) ==
    IF SegmentHits(flag, props) # {}
      THEN [rollout |-> FirstOf(SegmentHits(flag, props)).rollout, reason |-> "segment_in"]
    ELSE IF DefaultRules(flag) # {}
      THEN [rollout |-> FirstOf(DefaultRules(flag)).rollout, reason |-> "rule_override"]
    ELSE [rollout |-> flag.rollout, reason |-> "flag_rollout"]

Outcome(value, reason) ==
    IF reason = "segment_in"
      THEN IF value THEN "segment_in" ELSE "segment_out"
      ELSE IF value THEN "rollout_in" ELSE "rollout_out"

\* The body of the loop of evaluate_flags, for a flag that exists.
EvaluateInBatch(flag, bucket, props) ==
    IF ~flag.enabled
      THEN [value |-> FALSE, reason |-> "kill_switch"]
      ELSE LET r     == ResolveRollout(flag, props)
               value == bucket < r.rollout
           IN [value |-> value, reason |-> Outcome(value, r.reason)]

\* evaluate_flag does not load the segments of the rules: the first enabled
\* rule with one, met with properties, raises MissingGreenlet (a 500).
EvaluateAlone(flag, bucket, props) ==
    IF /\ flag.enabled
       /\ DOMAIN props # {}
       /\ \E r \in Enabled(flag.rules) : r.segment # NoSegment
      THEN [value |-> FALSE, reason |-> "error"]
      ELSE EvaluateInBatch(flag, bucket, props)

\* is_in_holdout: an exclusion wins over the bucket.
IsInHoldout(enabled, excluded, bucket, percentage) ==
    enabled /\ ~excluded /\ bucket < percentage

\* is_user_in_any_linked_holdout: an experiment has at most one holdout.
InLinkedHoldout(linked, enabled, excluded, bucket, percentage) ==
    linked /\ IsInHoldout(enabled, excluded, bucket, percentage)

\* _user_matches_any_segment: an experiment without segments is for everyone.
MatchesAnySegment(segments, props) ==
    segments # {} => \E rules \in segments : EvaluateSegment(rules, props).matches

=============================================================================
