----------------------------- MODULE Targeting -----------------------------
(***************************************************************************)
(* Who sees what, and the administrators that change it: a feature flag    *)
(* with its rules, a segment with its rules and its links to experiments,  *)
(* a holdout with its exclusions (flag_service.py, segment_service.py,     *)
(* holdout_service.py and their routers).                                  *)
(*                                                                         *)
(* One key of each kind; deleted and created again it is a row with        *)
(* another id.  The condition of a segment rule and the rollout are        *)
(* opaque (module Flags evaluates them).  A rule of a flag is for the      *)
(* users of a segment, or for everyone.                                    *)
(*                                                                         *)
(* told is what somebody who reads the audit log in order knows of each    *)
(* resource.                                                               *)
(***************************************************************************)
EXTENDS Requests

CONSTANTS
    NoSegment,      \* segment_id = None: the rule is for everyone
    Rollouts,       \* rollout_percentage, size_pct
    Conditions,     \* what a segment rule may ask for
    Experiments,
    Users

ASSUME TargetingAssumption ==
    /\ NoSegment \notin Nat
    /\ Absent \notin [id : Nat, enabled : BOOLEAN, rollout : Rollouts]
    /\ Absent \notin [id : Nat]
    /\ Absent \notin [id : Nat, active : BOOLEAN, size : Rollouts]
    /\ Absent \notin [id : Nat, enabled : BOOLEAN, rollout : Rollouts, rules : Nat]
    /\ Absent \notin [id : Nat, rules : Nat, links : SUBSET Experiments]
    /\ Absent \notin [id : Nat, active : BOOLEAN, size : Rollouts, exclusions : SUBSET Users]

VARIABLES
    flag, flagRules,                    \* feature_flags, flag_rules
    segment, segmentRules, links,       \* segments, segment_rules, experiment_segments
    holdout, exclusions, held,          \* holdout_groups, holdout_exclusions, experiments.holdout_group_id
    told                                \* resource -> the audit log's story of it

flagVars    == <<flag, flagRules>>
segmentVars == <<segment, segmentRules, links>>
holdoutVars == <<holdout, exclusions, held>>
targetingVars == <<flag, flagRules, segment, segmentRules, links, holdout, exclusions, held, told>>

FlagRow    == [id : Nat, enabled : BOOLEAN, rollout : Rollouts]
SegmentRow == [id : Nat]
HoldoutRow == [id : Nat, active : BOOLEAN, size : Rollouts]

FlagRule    == [id : Nat, segment : Nat \cup {NoSegment}]
SegmentRule == [id : Nat, condition : Conditions]

-----------------------------------------------------------------------------
(* What is asked.  refs are the segments a rule may name, rules the ids of   *)
(* the rules there are.                                                      *)

FlagAsks(refs, rules) ==
    [op : {"create_flag"}, enabled : BOOLEAN, rollout : Rollouts, segments : {{}} \cup {{s} : s \in refs}]
      \cup [op : {"update_flag"}, enabled : BOOLEAN \cup {Null}, rollout : Rollouts \cup {Null}]
      \cup [op : {"toggle_flag"}, enabled : BOOLEAN]
      \cup [op : {"add_flag_rule"}, segment : refs]
      \cup [op : {"delete_flag_rule"}, rule : rules]
      \cup [op : {"delete_flag"}]

\* The rules of a body: however many, not without end.
RuleLists == {rules \in SUBSET Conditions : IsFiniteSet(rules)}

SegmentAsks(rules) ==
    [op : {"create_segment"}, rules : RuleLists]
      \cup [op : {"update_segment"}, rules : RuleLists \cup {Null}]
      \cup [op : {"add_segment_rule"}, condition : Conditions]
      \cup [op : {"delete_segment_rule"}, rule : rules]
      \cup [op : {"link_experiments"}, experiments : (SUBSET Experiments) \ {{}}]
      \cup [op : {"unlink_experiment"}, experiment : Experiments]
      \cup [op : {"delete_segment"}]

HoldoutAsks ==
    [op : {"create_holdout"}, active : BOOLEAN, size : Rollouts]
      \cup [op : {"update_holdout"}, active : BOOLEAN \cup {Null}, size : Rollouts \cup {Null}]
      \cup [op : {"add_exclusion", "remove_exclusion"}, user : Users]
      \cup [op : {"delete_holdout"}]

SegmentRefs == {NoSegment} \cup (IF segment = Absent THEN {} ELSE {segment.id})

\* The handlers of flags: 404 for a flag or a rule that is not there, 409
\* for a key that is taken.
AskFlag(c) ==
    /\ \E a \in FlagAsks(SegmentRefs, {r.id : r \in flagRules}) :
          /\ (a.op = "create_flag") <=> (flag = Absent)
          /\ Begin(c, a, flag, {r.id : r \in flagRules})
    /\ UNCHANGED targetingVars

\* The handlers of segments.  For a link, the experiments that have it
\* already are loaded with the segment.
AskSegment(c) ==
    /\ \E a \in SegmentAsks(segmentRules) :
          /\ (a.op = "create_segment") <=> (segment = Absent)
          /\ Begin(c, a, segment, IF a.op = "link_experiments" THEN links ELSE segmentRules)
    /\ UNCHANGED targetingVars

\* The handlers of holdouts.  remove_exclusion answers 204, and logs
\* nothing, when the user is not excluded.
AskHoldout(c) ==
    /\ \E a \in HoldoutAsks :
          /\ (a.op = "create_holdout") <=> (holdout = Absent)
          /\ a.op = "remove_exclusion" => a.user \in exclusions
          /\ Begin(c, a, holdout, exclusions)
    /\ UNCHANGED targetingVars

-----------------------------------------------------------------------------
(* What the audit rows tell.  Each carries the id of the row it is about.    *)

FlagDetails(id, enabled, rollout, count) ==
    [id |-> id, enabled |-> enabled, rollout |-> rollout, rules |-> count]

SegmentDetails(id, count, linked) == [id |-> id, rules |-> count, links |-> linked]

HoldoutDetails(id, active, size, excluded) ==
    [id |-> id, active |-> active, size |-> size, exclusions |-> excluded]

\* A row that is about another id than the one the reader knows of leaves
\* what he knows as it is.
Tell(kind, loaded, news) ==
    told' = IF StillThere(told[kind], loaded) THEN [told EXCEPT ![kind] = news] ELSE told

-----------------------------------------------------------------------------
(* Flags.                                                                    *)

SegmentExists(ref) == ref = NoSegment \/ StillThere(segment, [id |-> ref])

\* create_flag: a key that was taken meanwhile, or a segment that is gone,
\* violates a constraint (409).
CreateFlag(c) ==
    LET t == txn[c] IN
    /\ Doing(c, "create_flag")
    /\ flag = Absent
    /\ \A s \in t.ask.segments : SegmentExists(s)
    /\ flag' = [id |-> t.n, enabled |-> t.ask.enabled, rollout |-> t.ask.rollout]
    /\ flagRules' = {[id |-> t.n, segment |-> s] : s \in t.ask.segments}
    /\ told' = [told EXCEPT !.flag =
                  FlagDetails(t.n, t.ask.enabled, t.ask.rollout, Cardinality(t.ask.segments))]
    /\ Done(c)
    /\ UNCHANGED <<segmentVars, holdoutVars>>

\* Mutant: the row is written as it was loaded, with the fields of the body.
WrittenFlagWhole(loaded, a) ==
    [flag EXCEPT !.enabled = Shown(loaded.enabled, a.enabled),
                 !.rollout = Shown(loaded.rollout, a.rollout)]

\* update_flag: the fields of the body that are not None.
WrittenFlag(loaded, a) ==
    [flag EXCEPT !.enabled = Column(@, loaded.enabled, a.enabled),
                 !.rollout = Column(@, loaded.rollout, a.rollout)]

UpdateFlag(c) ==
    LET t == txn[c] IN
    /\ Doing(c, "update_flag")
    /\ StillThere(flag, t.row)
    /\ flag' = WrittenFlag(t.row, t.ask)
    /\ Tell("flag", t.row, FlagDetails(t.row.id, Shown(t.row.enabled, t.ask.enabled),
                                       Shown(t.row.rollout, t.ask.rollout), Cardinality(t.kids)))
    /\ Done(c)
    /\ UNCHANGED <<flagRules, segmentVars, holdoutVars>>

\* toggle_flag: the kill switch.  Its audit row has nothing but enabled.
ToggleFlag(c) ==
    LET t == txn[c] IN
    /\ Doing(c, "toggle_flag")
    /\ StillThere(flag, t.row)
    /\ flag' = [flag EXCEPT !.enabled = Column(@, t.row.enabled, t.ask.enabled)]
    /\ Tell("flag", t.row, [told.flag EXCEPT !.enabled = t.ask.enabled])
    /\ Done(c)
    /\ UNCHANGED <<flagRules, segmentVars, holdoutVars>>

\* delete_flag, with its rules; a second delete of the same row finds
\* nothing to delete, and is answered and logged like the first.
DeleteFlag(c) ==
    LET t == txn[c] IN
    /\ Doing(c, "delete_flag")
    /\ IF StillThere(flag, t.row) THEN flag' = Absent /\ flagRules' = {} ELSE UNCHANGED flagVars
    /\ Tell("flag", t.row, Absent)
    /\ Done(c)
    /\ UNCHANGED <<segmentVars, holdoutVars>>

\* add_rule: the flag and the segment have to be there (foreign keys).
AddFlagRule(c) ==
    LET t == txn[c] IN
    /\ Doing(c, "add_flag_rule")
    /\ StillThere(flag, t.row)
    /\ SegmentExists(t.ask.segment)
    /\ flagRules' = flagRules \cup {[id |-> t.n, segment |-> t.ask.segment]}
    /\ Tell("flag", t.row, [told.flag EXCEPT !.rules = @ + 1])
    /\ Done(c)
    /\ UNCHANGED <<flag, segmentVars, holdoutVars>>

\* delete_rule: also of a rule that is gone already.
DeleteFlagRule(c) ==
    LET t == txn[c] IN
    /\ Doing(c, "delete_flag_rule")
    /\ flagRules' = {r \in flagRules : r.id # t.ask.rule}
    /\ Tell("flag", t.row, [told.flag EXCEPT !.rules = @ - 1])
    /\ Done(c)
    /\ UNCHANGED <<flag, segmentVars, holdoutVars>>

FlagStep(c) ==
    \/ AskFlag(c) \/ CreateFlag(c) \/ UpdateFlag(c) \/ ToggleFlag(c) \/ DeleteFlag(c)
    \/ AddFlagRule(c) \/ DeleteFlagRule(c)

-----------------------------------------------------------------------------
(* Segments.                                                                 *)

NewRules(conditions, n) == {[id |-> n, condition |-> x] : x \in conditions}

CreateSegment(c) ==
    LET t == txn[c] IN
    /\ Doing(c, "create_segment")
    /\ segment = Absent
    /\ segment' = [id |-> t.n]
    /\ segmentRules' = NewRules(t.ask.rules, t.n)
    /\ told' = [told EXCEPT !.segment = SegmentDetails(t.n, Cardinality(t.ask.rules), {})]
    /\ Done(c)
    /\ UNCHANGED <<flagVars, links, holdoutVars>>

\* update_segment: the rules that were loaded are deleted and the ones of
\* the body inserted; rules that were added meanwhile stay.
Rewritten(rules, t) ==
    IF t.ask.rules = Null THEN rules ELSE (rules \ t.kids) \cup NewRules(t.ask.rules, t.n)

\* Mutant: the audit row counts the rules that were loaded.
RulesShownOld(t) == t.kids

\* The rules the object has when the audit row is written.
RulesShown(t) == IF t.ask.rules = Null THEN t.kids ELSE t.ask.rules

UpdateSegment(c) ==
    LET t == txn[c] IN
    /\ Doing(c, "update_segment")
    /\ StillThere(segment, t.row)
    /\ segmentRules' = Rewritten(segmentRules, t)
    /\ Tell("segment", t.row, [told.segment EXCEPT !.rules = Cardinality(RulesShown(t))])
    /\ Done(c)
    /\ UNCHANGED <<flagVars, segment, links, holdoutVars>>

\* Mutant: the rules of flags keep the id of the segment that is deleted.
DeleteSegmentOnly(c) ==
    LET t == txn[c] IN
    /\ Doing(c, "delete_segment")
    /\ IF StillThere(segment, t.row)
         THEN segment' = Absent /\ segmentRules' = {} /\ links' = {} /\ UNCHANGED flagRules
         ELSE UNCHANGED <<segmentVars, flagRules>>
    /\ Tell("segment", t.row, Absent)
    /\ Done(c)
    /\ UNCHANGED <<flag, holdoutVars>>

\* delete_segment: its rules and links go with it; a rule of a flag that was
\* for its users is for everyone from now on (ON DELETE SET NULL).
DeleteSegment(c) ==
    LET t == txn[c] IN
    /\ Doing(c, "delete_segment")
    /\ IF StillThere(segment, t.row)
         THEN /\ segment' = Absent /\ segmentRules' = {} /\ links' = {}
              /\ flagRules' = {[id |-> r.id, segment |-> NoSegment] : r \in flagRules}
         ELSE UNCHANGED <<segmentVars, flagRules>>
    /\ Tell("segment", t.row, Absent)
    /\ Done(c)
    /\ UNCHANGED <<flag, holdoutVars>>

AddSegmentRule(c) ==
    LET t == txn[c] IN
    /\ Doing(c, "add_segment_rule")
    /\ StillThere(segment, t.row)
    /\ segmentRules' = segmentRules \cup NewRules({t.ask.condition}, t.n)
    /\ Tell("segment", t.row, [told.segment EXCEPT !.rules = @ + 1])
    /\ Done(c)
    /\ UNCHANGED <<flagVars, segment, links, holdoutVars>>

DeleteSegmentRule(c) ==
    LET t == txn[c] IN
    /\ Doing(c, "delete_segment_rule")
    /\ segmentRules' = segmentRules \ {t.ask.rule}
    /\ Tell("segment", t.row, [told.segment EXCEPT !.rules = @ - 1])
    /\ Done(c)
    /\ UNCHANGED <<flagVars, segment, links, holdoutVars>>

\* link_segment_to_experiments: a link that was made meanwhile violates the
\* primary key; nothing is logged when there is nothing to insert.
NewLinks(t) == t.ask.experiments \ t.kids

LinkExperiments(c) ==
    LET t   == txn[c]
        new == NewLinks(t)
    IN
    /\ Doing(c, "link_experiments")
    /\ new # {} => StillThere(segment, t.row)
    /\ new \cap links = {}
    /\ links' = links \cup new
    /\ IF new = {} THEN UNCHANGED told
       ELSE Tell("segment", t.row, [told.segment EXCEPT !.links = @ \cup t.ask.experiments])
    /\ Done(c)
    /\ UNCHANGED <<flagVars, segment, segmentRules, holdoutVars>>

\* unlink_segment_from_experiment: one DELETE by the two ids.
UnlinkExperiment(c) ==
    LET t    == txn[c]
        mine == StillThere(segment, t.row) /\ t.ask.experiment \in links
    IN
    /\ Doing(c, "unlink_experiment")
    /\ links' = IF mine THEN links \ {t.ask.experiment} ELSE links
    /\ IF mine THEN Tell("segment", t.row, [told.segment EXCEPT !.links = @ \ {t.ask.experiment}])
       ELSE UNCHANGED told
    /\ Done(c)
    /\ UNCHANGED <<flagVars, segment, segmentRules, holdoutVars>>

SegmentStep(c) ==
    \/ AskSegment(c) \/ CreateSegment(c) \/ UpdateSegment(c) \/ DeleteSegment(c)
    \/ AddSegmentRule(c) \/ DeleteSegmentRule(c) \/ LinkExperiments(c) \/ UnlinkExperiment(c)

-----------------------------------------------------------------------------
(* Holdouts.  No request links an experiment to a holdout; held changes      *)
(* only when the holdout goes.                                               *)

CreateHoldout(c) ==
    LET t == txn[c] IN
    /\ Doing(c, "create_holdout")
    /\ holdout = Absent
    /\ holdout' = [id |-> t.n, active |-> t.ask.active, size |-> t.ask.size]
    /\ told' = [told EXCEPT !.holdout = HoldoutDetails(t.n, t.ask.active, t.ask.size, {})]
    /\ Done(c)
    /\ UNCHANGED <<flagVars, segmentVars, exclusions, held>>

\* update_holdout: the fields of the body that are not None.
WrittenHoldout(loaded, a) ==
    [holdout EXCEPT !.active = Column(@, loaded.active, a.active),
                    !.size   = Column(@, loaded.size, a.size)]

UpdateHoldout(c) ==
    LET t == txn[c] IN
    /\ Doing(c, "update_holdout")
    /\ StillThere(holdout, t.row)
    /\ holdout' = WrittenHoldout(t.row, t.ask)
    /\ Tell("holdout", t.row, [told.holdout EXCEPT !.active = Shown(t.row.active, t.ask.active),
                                                   !.size   = Shown(t.row.size, t.ask.size)])
    /\ Done(c)
    /\ UNCHANGED <<flagVars, segmentVars, exclusions, held>>

DeleteHoldout(c) ==
    LET t == txn[c] IN
    /\ Doing(c, "delete_holdout")
    /\ IF StillThere(holdout, t.row)
         THEN holdout' = Absent /\ exclusions' = {} /\ held' = {}
         ELSE UNCHANGED holdoutVars
    /\ Tell("holdout", t.row, Absent)
    /\ Done(c)
    /\ UNCHANGED <<flagVars, segmentVars>>

\* add_exclusion: a user who was excluded when it looked is answered and
\* logged as if the row had just been made.
AddExclusion(c) ==
    LET t   == txn[c]
        had == t.ask.user \in t.kids
    IN
    /\ Doing(c, "add_exclusion")
    /\ ~had => StillThere(holdout, t.row) /\ t.ask.user \notin exclusions
    /\ exclusions' = IF had THEN exclusions ELSE exclusions \cup {t.ask.user}
    /\ Tell("holdout", t.row, [told.holdout EXCEPT !.exclusions = @ \cup {t.ask.user}])
    /\ Done(c)
    /\ UNCHANGED <<flagVars, segmentVars, holdout, held>>

RemoveExclusion(c) ==
    LET t == txn[c] IN
    /\ Doing(c, "remove_exclusion")
    /\ exclusions' = IF StillThere(holdout, t.row) THEN exclusions \ {t.ask.user} ELSE exclusions
    /\ Tell("holdout", t.row, [told.holdout EXCEPT !.exclusions = @ \ {t.ask.user}])
    /\ Done(c)
    /\ UNCHANGED <<flagVars, segmentVars, holdout, held>>

HoldoutStep(c) ==
    \/ AskHoldout(c) \/ CreateHoldout(c) \/ UpdateHoldout(c) \/ DeleteHoldout(c)
    \/ AddExclusion(c) \/ RemoveExclusion(c)

-----------------------------------------------------------------------------
(* Rows that earlier requests, numbered 0, have left.                        *)

InitFlag ==
    /\ flag \in {Absent} \cup [id : {0}, enabled : BOOLEAN, rollout : Rollouts]
    /\ flagRules \in {{}} \cup (IF flag = Absent THEN {} ELSE {{[id |-> 0, segment |-> s]} : s \in SegmentRefs})

InitSegment ==
    /\ segment \in {Absent, [id |-> 0]}
    /\ \E rules \in RuleLists : segmentRules = IF segment = Absent THEN {} ELSE NewRules(rules, 0)
    /\ links \in SUBSET (IF segment = Absent THEN {} ELSE Experiments)

InitHoldout ==
    /\ holdout \in {Absent} \cup [id : {0}, active : BOOLEAN, size : Rollouts]
    /\ exclusions \in SUBSET (IF holdout = Absent THEN {} ELSE Users)
    /\ held \in SUBSET (IF holdout = Absent THEN {} ELSE Experiments)

FlagStory ==
    IF flag = Absent THEN Absent
    ELSE FlagDetails(flag.id, flag.enabled, flag.rollout, Cardinality(flagRules))

SegmentStory ==
    IF segment = Absent THEN Absent
    ELSE SegmentDetails(segment.id, Cardinality(segmentRules), links)

HoldoutStory ==
    IF holdout = Absent THEN Absent
    ELSE HoldoutDetails(holdout.id, holdout.active, holdout.size, exclusions)

\* The story of rows whose requests did not overlap.
Story == [flag |-> FlagStory, segment |-> SegmentStory, holdout |-> HoldoutStory]

TargetingInit ==
    /\ InitSegment /\ InitFlag /\ InitHoldout
    /\ told = Story

TargetingStep(c) == FlagStep(c) \/ SegmentStep(c) \/ HoldoutStep(c)

-----------------------------------------------------------------------------
(* The constraints of the tables: what hangs from a row goes with it, and    *)
(* what a rule refers to is there.                                           *)

TargetingIntact ==
    /\ flag \in FlagRow \cup {Absent}
    /\ flagRules \subseteq FlagRule
    /\ segment \in SegmentRow \cup {Absent}
    /\ segmentRules \subseteq SegmentRule /\ links \subseteq Experiments
    /\ holdout \in HoldoutRow \cup {Absent}
    /\ exclusions \subseteq Users /\ held \subseteq Experiments
    /\ flag = Absent => flagRules = {}
    /\ \A r \in flagRules : SegmentExists(r.segment)
    /\ segment = Absent => segmentRules = {} /\ links = {}
    /\ holdout = Absent => exclusions = {} /\ held = {}

=============================================================================
