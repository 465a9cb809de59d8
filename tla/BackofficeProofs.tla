--------------------------- MODULE BackofficeProofs ---------------------------
(***************************************************************************)
(* What holds of the tables of the back office for any number of clients,  *)
(* requests, experiments, users and conditions.                            *)
(*                                                                         *)
(* A request relies on little when it commits: the body it was given       *)
(* (AskOK), a marked metric that was there and stays (in AskOK), and an id *)
(* nobody else has (IdsOK).  As long as requests do not overlap it is      *)
(* alone (AloneOK) and has loaded every row that its audit row is going to *)
(* tell of as it is (LoadedOK, in SerialInv).                              *)
(***************************************************************************)
EXTENDS Backoffice, FiniteSetTheorems, TLAPS

tables == <<targetingVars, measureVars>>

Marked(id) == \E m \in metrics : m.id = id /\ m.guardrail

TargetingAskOK(a) ==
    /\ a.op = "create_flag" => a.enabled \in BOOLEAN /\ a.rollout \in Rollouts
    /\ a.op = "update_flag" => a.enabled \in BOOLEAN \cup {Null} /\ a.rollout \in Rollouts \cup {Null}
    /\ a.op = "toggle_flag" => a.enabled \in BOOLEAN
    /\ a.op = "create_segment" => a.rules \in SUBSET Conditions
    /\ a.op = "update_segment" => a.rules \in (SUBSET Conditions) \cup {Null}
    /\ a.op = "add_segment_rule" => a.condition \in Conditions
    /\ a.op = "link_experiments" => a.experiments \in SUBSET Experiments
    /\ a.op = "create_holdout" => a.active \in BOOLEAN /\ a.size \in Rollouts
    /\ a.op = "update_holdout" => a.active \in BOOLEAN \cup {Null} /\ a.size \in Rollouts \cup {Null}
    /\ a.op = "add_exclusion" => a.user \in Users

MeasuresAskOK(a, row) ==
    /\ a.op = "create_metric" =>
         /\ a.type \in {"conversion", "revenue"} /\ a.filters \in FilterList /\ a.denominator \in Event
         /\ a.aggregation \in Aggregation /\ a.denominatorFilters \in FilterList
    /\ a.op = "update_metric" =>
         /\ a.filters \in FilterList /\ a.denominator \in Event
         /\ a.aggregation \in Aggregation /\ a.denominatorFilters \in FilterList
    /\ a.op = "create_experiment" =>
         /\ a.type \in {"conversion", "revenue"} /\ a.filters \in FilterList /\ a.denominator \in Event
         /\ a.guardrail \in BOOLEAN
         /\ a.template => row \in Template
    /\ a.op = "create_guardrail" =>
         /\ a.metric \in Nat /\ a.direction \in Direction /\ a.severity \in Severity
         /\ a.threshold \in Thresholds /\ a.enabled \in BOOLEAN
    /\ a.op = "update_guardrail" =>
         /\ a.severity \in Severity \cup {Null} /\ a.threshold \in Thresholds \cup {Null}
         /\ a.enabled \in BOOLEAN \cup {Null}

AskOK(t) ==
    /\ TargetingAskOK(t.ask)
    /\ MeasuresAskOK(t.ask, t.row)
    /\ t.ask.op = "create_guardrail" => Marked(t.ask.metric)

RequestsOK ==
    /\ DOMAIN txn = Clients /\ asked \in Nat
    /\ \A c \in Clients : AskOK(txn[c])

\* The id a new row gets is nobody's.
IdsOK ==
    /\ \A c \in Clients : txn[c].n \in Nat /\ txn[c].n <= asked
    /\ \A c, d \in Clients : c # d /\ txn[c] # Idle /\ txn[d] # Idle => txn[c].n # txn[d].n
    /\ \A g \in guardrails : g.id <= asked
    /\ \A g \in guardrails, c \in Clients : txn[c] # Idle => g.id # txn[c].n \/ txn[c].ask.op # "create_guardrail"
    /\ \A g, h \in guardrails : g.id = h.id => g = h

AloneOK == ~overlap => \A c, d \in Clients : txn[c] # Idle /\ txn[d] # Idle => c = d

IInv ==
    /\ TargetingIntact /\ MeasuresIntact
    /\ RequestsOK
    /\ IdsOK
    /\ AloneOK

-----------------------------------------------------------------------------
LEMMA IdleOK == AskOK(Idle) /\ Idle.ask.op = "none" /\ Idle.n = 0
  BY DEF AskOK, TargetingAskOK, MeasuresAskOK, Idle, NoAsk

LEMMA Busy == ASSUME NEW c, NEW op, op # "none", Doing(c, op) PROVE txn[c] # Idle
  BY DEF Doing, Idle, NoAsk

\* What a request was given stays as it is; the metrics that are marked do.
LEMMA AskStays ==
    ASSUME NEW d, AskOK(txn[d]), txn'[d] = txn[d], \A id : Marked(id) => Marked(id)'
    PROVE  AskOK(txn[d])'
<1>1. TargetingAskOK(txn[d].ask)'
  BY DEF AskOK, TargetingAskOK
<1>2. MeasuresAskOK(txn[d].ask, txn[d].row)'
  BY DEF AskOK, MeasuresAskOK
<1>3. txn[d].ask.op = "create_guardrail" => Marked(txn[d].ask.metric)
  BY DEF AskOK
<1>4. (txn[d].ask.op = "create_guardrail" => Marked(txn[d].ask.metric))'
  BY <1>3 DEF Marked
<1> QED
  BY <1>1, <1>2, <1>4 DEF AskOK

LEMMA InitOK == Init => IInv
<1> SUFFICES ASSUME Init PROVE IInv
  OBVIOUS
<1> USE DEF Init
<1>1. segment \in SegmentRow \cup {Absent} /\ segmentRules \subseteq SegmentRule /\ links \subseteq Experiments
      /\ (segment = Absent => segmentRules = {} /\ links = {})
  BY DEF TargetingInit, InitSegment, SegmentRow, SegmentRule, NewRules, RuleLists
<1>2. /\ flag \in FlagRow \cup {Absent} /\ flagRules \subseteq FlagRule
      /\ flag = Absent => flagRules = {}
      /\ \A r \in flagRules : SegmentExists(r.segment)
  <2>1. flag \in FlagRow \cup {Absent} /\ (flag = Absent => flagRules = {})
    BY DEF TargetingInit, InitFlag, FlagRow
  <2>2. \A r \in flagRules : r.id = 0 /\ r.segment \in SegmentRefs /\ r = [id |-> 0, segment |-> r.segment]
    BY DEF TargetingInit, InitFlag
  <2>3. \A s \in SegmentRefs : s \in Nat \cup {NoSegment} /\ SegmentExists(s)
    BY <1>1 DEF SegmentRefs, SegmentExists, StillThere, SegmentRow
  <2>4. \A r \in flagRules : r \in FlagRule /\ SegmentExists(r.segment)
    BY <2>2, <2>3 DEF FlagRule
  <2> QED
    BY <2>1, <2>4
<1>3. /\ holdout \in HoldoutRow \cup {Absent} /\ exclusions \subseteq Users /\ held \subseteq Experiments
      /\ holdout = Absent => exclusions = {} /\ held = {}
  BY DEF TargetingInit, InitHoldout, HoldoutRow
<1>4. TargetingIntact
  BY <1>1, <1>2, <1>3 DEF TargetingIntact
<1>5. MeasuresIntact
  BY DEF MeasuresInit, MeasuresIntact
<1>6. RequestsOK
  BY IdleOK DEF InitRequests, RequestsOK
<1>7. IdsOK /\ AloneOK
  BY IdleOK DEF InitRequests, MeasuresInit, IdsOK, AloneOK
<1> QED
  BY <1>4, <1>5, <1>6, <1>7 DEF IInv

-----------------------------------------------------------------------------
(* Requests that begin.                                                      *)

LEMMA Begins ==
    ASSUME IInv, NEW c \in Clients, NEW a, NEW row, NEW kids, Begin(c, a, row, kids),
           UNCHANGED tables,
           TargetingAskOK(a), MeasuresAskOK(a, row),
           a.op = "create_guardrail" => Marked(a.metric),
           a.op = "update_metric" => row = template
    PROVE  IInv'
<1>1. PICK t : t = [ask |-> a, row |-> row, kids |-> kids, n |-> asked + 1]
  OBVIOUS
<1>2. t.ask = a /\ t.row = row /\ t.n = asked + 1 /\ t # Idle
  <2>1. asked \in Nat
    BY DEF IInv, RequestsOK
  <2> QED
    BY <1>1, <2>1, IdleOK
<1>3. /\ DOMAIN txn' = Clients /\ asked' = asked + 1 /\ asked \in Nat /\ txn[c] = Idle
      /\ txn'[c] = t /\ \A d \in Clients \ {c} : txn'[d] = txn[d]
  BY <1>1 DEF Begin, IInv, RequestsOK
<1>4. TargetingIntact' /\ MeasuresIntact'
  BY DEF IInv, tables, targetingVars, measureVars, TargetingIntact, MeasuresIntact, SegmentExists
<1>5. RequestsOK'
  <2>1. metrics' = metrics
    BY DEF tables, measureVars
  <2>2. TargetingAskOK(t.ask)'
    BY <1>2 DEF TargetingAskOK
  <2>3. MeasuresAskOK(t.ask, t.row)'
    BY <1>2 DEF MeasuresAskOK
  <2>4. AskOK(t)'
    BY <1>2, <2>1, <2>2, <2>3 DEF AskOK, Marked
  <2>5. ASSUME NEW d \in Clients \ {c} PROVE AskOK(txn[d])'
    <3>1. AskOK(txn[d]) /\ txn'[d] = txn[d]
      BY <1>3 DEF IInv, RequestsOK
    <3>2. \A id : Marked(id) => Marked(id)'
      BY <2>1 DEF Marked
    <3> QED
      BY <3>1, <3>2, AskStays
  <2> QED
    BY <1>3, <2>4, <2>5 DEF RequestsOK
<1>6. IdsOK'
  <2>1. IdsOK /\ guardrails' = guardrails /\ \A g \in guardrails : g.id \in Nat
    BY DEF IInv, tables, measureVars, MeasuresIntact, Guardrail
  <2> QED
    BY <1>2, <1>3, <2>1 DEF IdsOK
<1>7. AloneOK'
  <2> SUFFICES ASSUME ~overlap'
               PROVE  /\ \A d, e \in Clients : txn'[d] # Idle /\ txn'[e] # Idle => d = e
                      /\ \A d \in Clients : txn'[d].ask.op = "update_metric" => txn'[d].row = template'
    BY DEF AloneOK
  <2>1. \A d \in Clients \ {c} : txn'[d] = Idle
    BY <1>3 DEF Begin
  <2>2. template' = template
    BY DEF tables, measureVars
  <2> QED
    BY <1>2, <1>3, <2>1, <2>2, IdleOK
<1> QED
  BY <1>4, <1>5, <1>6, <1>7 DEF IInv

LEMMA AsksOK ==
    ASSUME IInv, NEW c \in Clients,
           \/ (AskFlag(c) \/ AskSegment(c) \/ AskHoldout(c)) /\ UNCHANGED measureVars
           \/ (AskTemplate(c) \/ AskExperiment(c) \/ AskGuardrail(c)) /\ UNCHANGED targetingVars
    PROVE  IInv'
<1>0. UNCHANGED tables
  BY DEF tables, AskFlag, AskSegment, AskHoldout, AskTemplate, AskExperiment, AskGuardrail
<1>1. CASE AskFlag(c)
  <2>1. PICK a \in FlagAsks(SegmentRefs, {r.id : r \in flagRules}) : Begin(c, a, flag, {r.id : r \in flagRules})
    BY <1>1 DEF AskFlag
  <2>2. TargetingAskOK(a) /\ MeasuresAskOK(a, flag) /\ a.op \notin {"create_guardrail", "update_metric"}
    BY DEF FlagAsks, TargetingAskOK, MeasuresAskOK
  <2> QED
    BY <1>0, <2>1, <2>2, Begins
<1>2. CASE AskSegment(c)
  <2>1. PICK a \in SegmentAsks(segmentRules) :
           Begin(c, a, segment, IF a.op = "link_experiments" THEN links ELSE segmentRules)
    BY <1>2 DEF AskSegment
  <2>2. TargetingAskOK(a) /\ MeasuresAskOK(a, segment) /\ a.op \notin {"create_guardrail", "update_metric"}
    <3>1. /\ a.op \in {"create_segment", "update_segment", "add_segment_rule", "delete_segment_rule",
                      "link_experiments", "unlink_experiment", "delete_segment"}
          /\ a.op = "create_segment" => a.rules \in SUBSET Conditions
          /\ a.op = "update_segment" => a.rules \in (SUBSET Conditions) \cup {Null}
          /\ a.op = "add_segment_rule" => a.condition \in Conditions
          /\ a.op = "link_experiments" => a.experiments \in SUBSET Experiments
      BY DEF SegmentAsks, RuleLists
    <3> QED
      BY <3>1 DEF TargetingAskOK, MeasuresAskOK
  <2> QED
    BY <1>0, <2>1, <2>2, Begins
<1>3. CASE AskHoldout(c)
  <2>1. PICK a \in HoldoutAsks : Begin(c, a, holdout, exclusions)
    BY <1>3 DEF AskHoldout
  <2>2. TargetingAskOK(a) /\ MeasuresAskOK(a, holdout) /\ a.op \notin {"create_guardrail", "update_metric"}
    BY DEF HoldoutAsks, TargetingAskOK, MeasuresAskOK
  <2> QED
    BY <1>0, <2>1, <2>2, Begins
<1>4. CASE AskTemplate(c)
  <2>1. PICK a \in TemplateAsks : Begin(c, a, template, {})
    BY <1>4 DEF AskTemplate
  <2>2. /\ a.op \in {"create_metric", "update_metric", "delete_metric"}
        /\ a.op \in {"create_metric", "update_metric"} =>
             /\ a.filters \in FilterList /\ a.denominator \in Event
             /\ a.aggregation \in Aggregation /\ a.denominatorFilters \in FilterList
        /\ a.op = "create_metric" => a.type \in {"conversion", "revenue"}
    <3>1. CASE a \in [op : {"create_metric"}, type : {"conversion", "revenue"}, filters : FilterList,
                      denominator : Event, aggregation : Aggregation, denominatorFilters : FilterList]
      BY <3>1
    <3>2. CASE a \in [op : {"update_metric"}, filters : FilterList, denominator : Event,
                      aggregation : Aggregation, denominatorFilters : FilterList]
      BY <3>2
    <3>3. CASE a \in [op : {"delete_metric"}]
      BY <3>3
    <3> QED
      BY <3>1, <3>2, <3>3 DEF TemplateAsks
  <2>3. TargetingAskOK(a) /\ MeasuresAskOK(a, template) /\ a.op # "create_guardrail"
    BY <2>2 DEF TargetingAskOK, MeasuresAskOK
  <2> QED
    BY <1>0, <2>1, <2>3, Begins
<1>5. CASE AskExperiment(c)
  <2>1. PICK a \in MetricAsks : (a.template => template # Absent) /\ Begin(c, a, template, {})
    BY <1>5 DEF AskExperiment
  <2>2. template \in Template \cup {Absent}
    BY DEF IInv, MeasuresIntact
  <2>3. TargetingAskOK(a) /\ MeasuresAskOK(a, template) /\ a.op = "create_experiment"
    BY <2>1, <2>2 DEF MetricAsks, TargetingAskOK, MeasuresAskOK, FilterList, Event
  <2> QED
    BY <1>0, <2>1, <2>3, Begins
<1>6. CASE AskGuardrail(c)
  <2>1. ASSUME NEW a \in GuardrailAsks({m.id : m \in {k \in metrics : k.guardrail}}), Begin(c, a, Absent, {})
        PROVE  IInv'
    <3>1. Marked(a.metric) /\ a.metric \in Nat
      BY DEF GuardrailAsks, Marked, IInv, MeasuresIntact, Metric
    <3>2. TargetingAskOK(a) /\ MeasuresAskOK(a, Absent) /\ a.op # "update_metric"
      BY <3>1 DEF GuardrailAsks, TargetingAskOK, MeasuresAskOK
    <3> QED
      BY <1>0, <2>1, <3>1, <3>2, Begins
  <2>2. ASSUME NEW g \in guardrails, NEW a \in GuardrailChanges, Begin(c, a, g, {})
        PROVE  IInv'
    <3>1. TargetingAskOK(a) /\ MeasuresAskOK(a, g) /\ a.op \notin {"create_guardrail", "update_metric"}
      BY DEF GuardrailChanges, TargetingAskOK, MeasuresAskOK
    <3> QED
      BY <1>0, <2>2, <3>1, Begins
  <2> QED
    BY <1>6, <2>1, <2>2 DEF AskGuardrail
<1> QED
  BY <1>1, <1>2, <1>3, <1>4, <1>5, <1>6

-----------------------------------------------------------------------------
(* Requests that end.                                                        *)

\* Whatever it has written, when no guardrail gets an id that is taken.
LEMMA Ends ==
    ASSUME IInv, NEW c \in Clients, txn[c] # Idle, Done(c),
           TargetingIntact', MeasuresIntact',
           \A id : Marked(id) => Marked(id)',
           \A h \in guardrails' : \/ \E g \in guardrails : g.id = h.id
                                  \/ h.id = txn[c].n,
           \A g, h \in guardrails' : g.id = h.id => g = h
    PROVE  IInv'
<1>1. /\ DOMAIN txn' = Clients /\ UNCHANGED <<asked, overlap>> /\ asked \in Nat
      /\ txn'[c] = Idle /\ \A d \in Clients \ {c} : txn'[d] = txn[d]
  BY DEF Done, IInv, RequestsOK
<1>2. RequestsOK'
  <2>1. ASSUME NEW d \in Clients \ {c} PROVE AskOK(txn[d])'
    <3>1. AskOK(txn[d]) /\ txn'[d] = txn[d]
      BY <1>1 DEF IInv, RequestsOK
    <3> QED
      BY <3>1, AskStays
  <2>2. AskOK(txn[c])'
    BY <1>1, IdleOK DEF AskOK, TargetingAskOK, MeasuresAskOK
  <2> QED
    BY <1>1, <2>1, <2>2 DEF RequestsOK
<1>3. IdsOK'
  <2>1. IdsOK
    BY DEF IInv
  <2>2. \A d \in Clients : txn'[d].n \in Nat /\ txn'[d].n <= asked
    BY <1>1, <2>1, IdleOK DEF IdsOK
  <2>3. \A d \in Clients : txn'[d] # Idle => d # c /\ txn'[d] = txn[d]
    BY <1>1
  <2>4. \A g \in guardrails' : g.id <= asked
    BY <2>1 DEF IdsOK
  <2>5. \A g \in guardrails', d \in Clients :
           txn'[d] # Idle => g.id # txn'[d].n \/ txn'[d].ask.op # "create_guardrail"
    BY <2>1, <2>3 DEF IdsOK
  <2>6. \A d, e \in Clients : d # e /\ txn'[d] # Idle /\ txn'[e] # Idle => txn'[d].n # txn'[e].n
    BY <2>1, <2>3 DEF IdsOK
  <2> QED
    BY <1>1, <2>2, <2>4, <2>5, <2>6 DEF IdsOK
<1>4. AloneOK'
  <2> SUFFICES ASSUME ~overlap PROVE \A d \in Clients : txn'[d] = Idle
    BY <1>1, IdleOK DEF AloneOK
  <2>1. \A d \in Clients \ {c} : txn[d] = Idle
    BY DEF IInv, AloneOK
  <2> QED
    BY <1>1, <2>1
<1> QED
  BY <1>2, <1>3, <1>4 DEF IInv

\* The measures are left alone.
LEMMA TargetingEnds ==
    ASSUME IInv, NEW c \in Clients, txn[c] # Idle, Done(c), TargetingIntact', UNCHANGED measureVars
    PROVE  IInv'
<1>1. MeasuresIntact' /\ guardrails' = guardrails /\ \A id : Marked(id) => Marked(id)'
  BY DEF IInv, measureVars, MeasuresIntact, Marked
<1>2. \A g, h \in guardrails' : g.id = h.id => g = h
  BY <1>1 DEF IInv, IdsOK
<1> QED
  BY <1>1, <1>2, Ends

LEMMA FlagsOK ==
    ASSUME IInv, NEW c \in Clients, UNCHANGED measureVars,
           \/ CreateFlag(c) \/ UpdateFlag(c) \/ ToggleFlag(c) \/ DeleteFlag(c)
           \/ AddFlagRule(c) \/ DeleteFlagRule(c)
    PROVE  IInv'
<1>0. /\ TargetingIntact /\ TargetingAskOK(txn[c].ask) /\ txn[c].n \in Nat
      /\ Done(c) /\ txn[c] # Idle /\ UNCHANGED <<segmentVars, holdoutVars>>
  BY Busy DEF IInv, RequestsOK, IdsOK, AskOK, CreateFlag, UpdateFlag, ToggleFlag, DeleteFlag,
     AddFlagRule, DeleteFlagRule
<1>1. \A s : SegmentExists(s) => s \in Nat \cup {NoSegment} /\ SegmentExists(s)'
  BY <1>0 DEF SegmentExists, StillThere, TargetingIntact, SegmentRow, segmentVars
<1>2. ASSUME flag' \in FlagRow \cup {Absent}, flag' = Absent => flagRules' = {},
             \A r \in flagRules' : r \in FlagRule /\ SegmentExists(r.segment)
      PROVE  IInv'
  <2>1. TargetingIntact'
    BY <1>0, <1>1, <1>2 DEF TargetingIntact, segmentVars, holdoutVars
  <2> QED
    BY <1>0, <2>1, TargetingEnds
<1>3. \A r \in flagRules : r \in FlagRule /\ SegmentExists(r.segment)
  BY <1>0 DEF TargetingIntact
<1>4. CASE CreateFlag(c)
  <2>1. flag' \in FlagRow
    BY <1>0, <1>4 DEF CreateFlag, Doing, TargetingAskOK, FlagRow
  <2>2. flag' # Absent
    BY <2>1, TargetingAssumption DEF FlagRow
  <2>3. \A r \in flagRules' : r \in FlagRule /\ SegmentExists(r.segment)
    BY <1>0, <1>1, <1>4 DEF CreateFlag, FlagRule
  <2> QED
    BY <1>2, <2>1, <2>2, <2>3
<1>5. CASE UpdateFlag(c) \/ ToggleFlag(c)
  <2>1. flag \in FlagRow /\ flagRules' = flagRules
    BY <1>0, <1>5 DEF UpdateFlag, ToggleFlag, StillThere, TargetingIntact
  <2>2. flag' \in FlagRow
    BY <1>0, <1>5, <2>1 DEF UpdateFlag, ToggleFlag, Doing, WrittenFlag, Column, TargetingAskOK, FlagRow
  <2>3. flag' # Absent
    BY <2>2, TargetingAssumption DEF FlagRow
  <2> QED
    BY <1>2, <1>3, <2>1, <2>2, <2>3
<1>6. CASE DeleteFlag(c)
  BY <1>0, <1>2, <1>3, <1>6 DEF DeleteFlag, flagVars, TargetingIntact
<1>7. CASE AddFlagRule(c)
  <2>1. flag # Absent /\ flag' = flag
    BY <1>7 DEF AddFlagRule, StillThere
  <2>2. \A r \in flagRules' : r \in FlagRule /\ SegmentExists(r.segment)
    BY <1>0, <1>1, <1>3, <1>7 DEF AddFlagRule, FlagRule
  <2> QED
    BY <1>0, <1>2, <2>1, <2>2 DEF TargetingIntact
<1>8. CASE DeleteFlagRule(c)
  BY <1>0, <1>2, <1>3, <1>8 DEF DeleteFlagRule, TargetingIntact
<1> QED
  BY <1>4, <1>5, <1>6, <1>7, <1>8

LEMMA SegmentsOK ==
    ASSUME IInv, NEW c \in Clients, UNCHANGED measureVars,
           \/ CreateSegment(c) \/ UpdateSegment(c) \/ DeleteSegment(c) \/ AddSegmentRule(c)
           \/ DeleteSegmentRule(c) \/ LinkExperiments(c) \/ UnlinkExperiment(c)
    PROVE  IInv'
<1>0. /\ TargetingIntact /\ TargetingAskOK(txn[c].ask) /\ txn[c].n \in Nat
      /\ Done(c) /\ txn[c] # Idle /\ UNCHANGED <<flag, holdoutVars>>
  BY Busy DEF IInv, RequestsOK, IdsOK, AskOK, CreateSegment, UpdateSegment, DeleteSegment,
     AddSegmentRule, DeleteSegmentRule, LinkExperiments, UnlinkExperiment, flagVars
<1>1. ASSUME TargetingIntact' PROVE IInv'
  BY <1>0, <1>1, TargetingEnds
<1>2. ASSUME segment = Absent => segmentRules' = {} /\ links' = {},
             segmentRules' \subseteq SegmentRule, links' \subseteq Experiments,
             UNCHANGED <<segment, flagRules>>
      PROVE  IInv'
  <2>1. \A s : SegmentExists(s)' <=> SegmentExists(s)
    BY <1>2 DEF SegmentExists
  <2> QED
    BY <1>0, <1>1, <1>2, <2>1 DEF TargetingIntact, holdoutVars
<1>3. (segment = Absent => segmentRules = {} /\ links = {})
      /\ segmentRules \subseteq SegmentRule /\ links \subseteq Experiments
  BY <1>0 DEF TargetingIntact
<1>9. CASE CreateSegment(c)
  <2>1. segment = Absent /\ segment' \in SegmentRow /\ segment' # Absent
    BY <1>0, <1>9, TargetingAssumption DEF CreateSegment, SegmentRow
  <2>2. segmentRules' \subseteq SegmentRule /\ links' = links /\ flagRules' = flagRules
    BY <1>0, <1>9 DEF CreateSegment, Doing, NewRules, TargetingAskOK, SegmentRule, flagVars
  <2>3. \A r \in flagRules : r.segment = NoSegment
    BY <1>0, <2>1 DEF TargetingIntact, SegmentExists, StillThere
  <2>4. \A r \in flagRules' : SegmentExists(r.segment)'
    BY <2>2, <2>3 DEF SegmentExists
  <2> QED
    BY <1>0, <1>1, <2>1, <2>2, <2>4 DEF TargetingIntact, holdoutVars
<1>4. CASE UpdateSegment(c)
  <2>1. segment # Absent /\ UNCHANGED <<segment, flagRules, links>>
    BY <1>4 DEF UpdateSegment, StillThere, flagVars
  <2>2. txn[c].ask.rules # Null => NewRules(txn[c].ask.rules, txn[c].n) \subseteq SegmentRule
    BY <1>0, <1>4 DEF UpdateSegment, Doing, NewRules, TargetingAskOK, SegmentRule
  <2>3. segmentRules' \subseteq SegmentRule
    BY <1>0, <1>4, <2>2 DEF UpdateSegment, Rewritten, TargetingIntact
  <2> QED
    BY <1>2, <1>3, <2>1, <2>3
<1>5. CASE DeleteSegment(c)
  <2>1. CASE StillThere(segment, txn[c].row)
    <3>1. /\ segment' = Absent /\ segmentRules' = {} /\ links' = {}
          /\ flagRules' = {[id |-> r.id, segment |-> NoSegment] : r \in flagRules}
      BY <1>5, <2>1 DEF DeleteSegment
    <3>2. \A r \in flagRules' : r \in FlagRule /\ r.segment = NoSegment
      BY <1>0, <3>1 DEF TargetingIntact, FlagRule
    <3>3. \A r \in flagRules' : SegmentExists(r.segment)'
      BY <3>2 DEF SegmentExists
    <3>4. flag = Absent => flagRules' = {}
      BY <1>0, <3>1 DEF TargetingIntact
    <3> QED
      BY <1>0, <1>1, <3>1, <3>2, <3>3, <3>4 DEF TargetingIntact, holdoutVars
  <2>2. CASE ~StillThere(segment, txn[c].row)
    BY <1>2, <1>3, <1>5, <2>2 DEF DeleteSegment, segmentVars
  <2> QED
    BY <2>1, <2>2
<1>6. CASE AddSegmentRule(c)
  <2>1. segment # Absent /\ UNCHANGED <<segment, flagRules, links>>
    BY <1>6 DEF AddSegmentRule, StillThere, flagVars
  <2>2. segmentRules' \subseteq SegmentRule
    BY <1>0, <1>6 DEF AddSegmentRule, Doing, NewRules, TargetingAskOK, SegmentRule, TargetingIntact
  <2> QED
    BY <1>2, <1>3, <2>1, <2>2
<1>7. CASE DeleteSegmentRule(c) \/ UnlinkExperiment(c)
  <2>1. UNCHANGED <<segment, flagRules>> /\ segmentRules' \subseteq segmentRules /\ links' \subseteq links
    BY <1>7 DEF DeleteSegmentRule, UnlinkExperiment, flagVars
  <2> QED
    BY <1>2, <1>3, <2>1
<1>8. CASE LinkExperiments(c)
  <2>1. UNCHANGED <<segment, flagRules, segmentRules>> /\ links' = links \cup NewLinks(txn[c])
        /\ (NewLinks(txn[c]) # {} => segment # Absent)
    BY <1>8 DEF LinkExperiments, StillThere, flagVars
  <2>2. NewLinks(txn[c]) \subseteq Experiments
    BY <1>0, <1>8 DEF LinkExperiments, Doing, NewLinks, TargetingAskOK
  <2> QED
    BY <1>2, <1>3, <2>1, <2>2
<1> QED
  BY <1>4, <1>5, <1>6, <1>7, <1>8, <1>9

LEMMA HoldoutsOK ==
    ASSUME IInv, NEW c \in Clients, UNCHANGED measureVars,
           CreateHoldout(c) \/ UpdateHoldout(c) \/ DeleteHoldout(c) \/ AddExclusion(c) \/ RemoveExclusion(c)
    PROVE  IInv'
<1>0. /\ TargetingIntact /\ TargetingAskOK(txn[c].ask) /\ txn[c].n \in Nat
      /\ Done(c) /\ txn[c] # Idle /\ UNCHANGED <<flagVars, segmentVars>>
  BY Busy DEF IInv, RequestsOK, IdsOK, AskOK, CreateHoldout, UpdateHoldout, DeleteHoldout,
     AddExclusion, RemoveExclusion
<1>1. ASSUME holdout' \in HoldoutRow \cup {Absent}, exclusions' \subseteq Users, held' \subseteq held,
             holdout' = Absent => exclusions' = {} /\ held' = {}
      PROVE  IInv'
  <2>1. \A s : SegmentExists(s)' <=> SegmentExists(s)
    BY <1>0 DEF SegmentExists, segmentVars
  <2>2. TargetingIntact'
    BY <1>0, <1>1, <2>1 DEF TargetingIntact, flagVars, segmentVars
  <2> QED
    BY <1>0, <2>2, TargetingEnds
<1>2. CASE CreateHoldout(c)
  <2>1. holdout' \in HoldoutRow /\ UNCHANGED <<exclusions, held>>
    BY <1>0, <1>2 DEF CreateHoldout, Doing, TargetingAskOK, HoldoutRow
  <2>2. holdout' # Absent
    BY <2>1, TargetingAssumption DEF HoldoutRow
  <2> QED
    BY <1>0, <1>1, <2>1, <2>2 DEF TargetingIntact
<1>3. CASE UpdateHoldout(c)
  <2>1. holdout \in HoldoutRow /\ UNCHANGED <<exclusions, held>>
    BY <1>0, <1>3 DEF UpdateHoldout, StillThere, TargetingIntact
  <2>2. holdout' \in HoldoutRow
    BY <1>0, <1>3, <2>1 DEF UpdateHoldout, Doing, WrittenHoldout, Column, TargetingAskOK, HoldoutRow
  <2>3. holdout' # Absent
    BY <2>2, TargetingAssumption DEF HoldoutRow
  <2> QED
    BY <1>0, <1>1, <2>1, <2>2, <2>3 DEF TargetingIntact
<1>4. CASE DeleteHoldout(c)
  BY <1>0, <1>1, <1>4 DEF DeleteHoldout, holdoutVars, TargetingIntact
<1>5. CASE AddExclusion(c)
  <2>1. /\ UNCHANGED <<holdout, held>> /\ exclusions' \subseteq Users
        /\ holdout = Absent => exclusions' = exclusions
    BY <1>0, <1>5 DEF AddExclusion, Doing, StillThere, TargetingAskOK, TargetingIntact
  <2> QED
    BY <1>0, <1>1, <2>1 DEF TargetingIntact
<1>6. CASE RemoveExclusion(c)
  <2>1. UNCHANGED <<holdout, held>> /\ exclusions' \subseteq exclusions
    BY <1>6 DEF RemoveExclusion
  <2> QED
    BY <1>0, <1>1, <2>1 DEF TargetingIntact
<1> QED
  BY <1>2, <1>3, <1>4, <1>5, <1>6

LEMMA TargetingStays == ASSUME IInv, UNCHANGED targetingVars PROVE TargetingIntact'
  BY DEF IInv, targetingVars, TargetingIntact, SegmentExists

LEMMA TemplatesOK ==
    ASSUME IInv, NEW c \in Clients, UNCHANGED targetingVars,
           CreateTemplate(c) \/ UpdateTemplate(c) \/ DeleteTemplate(c) \/ CreateExperiment(c)
    PROVE  IInv'
<1>0. /\ MeasuresIntact /\ MeasuresAskOK(txn[c].ask, txn[c].row) /\ txn[c].n \in Nat
      /\ Done(c) /\ txn[c] # Idle /\ guardrails' = guardrails /\ TargetingIntact'
  BY Busy, TargetingStays DEF IInv, RequestsOK, IdsOK, AskOK, CreateTemplate, UpdateTemplate, DeleteTemplate,
     CreateExperiment
<1>1. ASSUME template' \in Template \cup {Absent}, metrics' \subseteq Metric,
             \A m \in metrics' : m.source # Null => template' # Absent /\ template'.id = m.source,
             \A m \in metrics : \E k \in metrics' : k.id = m.id /\ k.guardrail = m.guardrail
      PROVE  IInv'
  <2>1. \A id : Marked(id) => Marked(id)'
    BY <1>1 DEF Marked
  <2>2. MeasuresIntact'
    BY <1>0, <1>1 DEF MeasuresIntact
  <2>3. \A g, h \in guardrails' : g.id = h.id => g = h
    BY <1>0 DEF IInv, IdsOK
  <2> QED
    BY <1>0, <2>1, <2>2, <2>3, Ends
<1>2. CASE CreateTemplate(c)
  <2>1. template = Absent /\ template' \in Template /\ metrics' = metrics
    BY <1>0, <1>2 DEF CreateTemplate, Doing, MeasuresAskOK, Template
  <2>2. \A m \in metrics : m.source = Null
    BY <1>0, <2>1 DEF MeasuresIntact
  <2> QED
    BY <1>0, <1>1, <2>1, <2>2 DEF MeasuresIntact
<1>3. CASE UpdateTemplate(c)
  <2>1. template \in Template /\ metrics' = metrics
    BY <1>0, <1>3 DEF UpdateTemplate, StillThere, MeasuresIntact
  <2>2. template' \in Template /\ template'.id = template.id
    <3>1. template' = WrittenTemplate(txn[c].row, txn[c].ask)
      BY <1>3 DEF UpdateTemplate
    <3>2. /\ txn[c].ask.filters \in FilterList /\ txn[c].ask.denominator \in Event
          /\ txn[c].ask.aggregation \in Aggregation /\ txn[c].ask.denominatorFilters \in FilterList
      BY <1>0, <1>3 DEF UpdateTemplate, Doing, MeasuresAskOK
    <3>3. \A S, now, loaded : \A x \in S : now \in S => Column(now, loaded, x) \in S
      BY DEF Column
    <3> QED
      BY <2>1, <3>1, <3>2, <3>3 DEF WrittenTemplate, Template
  <2>3. template' # Absent
    BY <2>2, MeasuresAssumption
  <2> QED
    BY <1>0, <1>1, <2>1, <2>2, <2>3 DEF MeasuresIntact
<1>4. CASE DeleteTemplate(c)
  <2>1. CASE StillThere(template, txn[c].row)
    <3> DEFINE Cut(m) == [m EXCEPT !.source = IF @ = txn[c].row.id THEN Null ELSE @]
    <3>1. /\ template' = Absent /\ template.id = txn[c].row.id
          /\ metrics' = {Cut(m) : m \in metrics}
      BY <1>4, <2>1 DEF DeleteTemplate, StillThere
    <3>2. ASSUME NEW m \in metrics
          PROVE  Cut(m) \in Metric /\ Cut(m).source = Null /\ Cut(m).id = m.id /\ Cut(m).guardrail = m.guardrail
      <4>1. m \in Metric /\ (m.source # Null => m.source = txn[c].row.id)
        BY <1>0, <3>1 DEF MeasuresIntact
      <4> QED
        BY <4>1 DEF Metric
    <3> HIDE DEF Cut
    <3>3. \A m \in metrics' : m \in Metric /\ m.source = Null
      BY <3>1, <3>2
    <3>4. \A m \in metrics : \E k \in metrics' : k.id = m.id /\ k.guardrail = m.guardrail
      BY <3>1, <3>2
    <3> QED
      BY <1>1, <3>1, <3>3, <3>4
  <2>2. CASE ~StillThere(template, txn[c].row)
    BY <1>0, <1>1, <1>4, <2>2 DEF DeleteTemplate, MeasuresIntact
  <2> QED
    BY <2>1, <2>2
<1>5. CASE CreateExperiment(c)
  <2> DEFINE copy == Resolved(txn[c])
             new  == [id |-> txn[c].n, type |-> copy.type, filters |-> copy.filters,
                      denominator |-> copy.denominator, guardrail |-> txn[c].ask.guardrail,
                      source |-> copy.source]
  <2>1. template' = template /\ metrics' = metrics \cup {new}
    BY <1>5 DEF CreateExperiment
  <2>2. new \in Metric
    BY <1>0, <1>5 DEF CreateExperiment, Doing, MeasuresAskOK, Resolved, CopyToMetric, Inline, Template, Metric
  <2>3. new.source # Null => template # Absent /\ template.id = new.source
    BY <1>5 DEF CreateExperiment, Resolved, CopyToMetric, Inline, StillThere
  <2> QED
    BY <1>0, <1>1, <2>1, <2>2, <2>3 DEF MeasuresIntact
<1> QED
  BY <1>2, <1>3, <1>4, <1>5

\* Guardrails that are written, one by one.
LEMMA GuardrailWritten ==
    ASSUME NEW g \in Guardrail, NEW row, NEW a,
           a.severity \in Severity \cup {Null}, a.threshold \in Thresholds \cup {Null},
           a.enabled \in BOOLEAN \cup {Null}
    PROVE  /\ Updated(g, row, a) \in Guardrail
           /\ Updated(g, row, a).id = g.id /\ Updated(g, row, a).metric = g.metric
  BY DEF Updated, Column, Guardrail

LEMMA GuardrailsOK ==
    ASSUME IInv, NEW c \in Clients, UNCHANGED targetingVars,
           CreateGuardrail(c) \/ UpdateGuardrail(c) \/ DeleteGuardrail(c)
    PROVE  IInv'
<1>0. /\ MeasuresIntact /\ AskOK(txn[c]) /\ IdsOK /\ txn[c].n \in Nat
      /\ Done(c) /\ txn[c] # Idle /\ UNCHANGED <<template, metrics>> /\ TargetingIntact'
  BY Busy, TargetingStays DEF IInv, RequestsOK, IdsOK, CreateGuardrail, UpdateGuardrail, DeleteGuardrail
<1>1. ASSUME guardrails' \subseteq Guardrail,
             \A g, h \in guardrails' : Clash(g, h) => g = h,
             \A g \in guardrails' : Marked(g.metric),
             \A h \in guardrails' : (\E g \in guardrails : g.id = h.id) \/ h.id = txn[c].n,
             \A g, h \in guardrails' : g.id = h.id => g = h
      PROVE  IInv'
  <2>1. MeasuresIntact'
    BY <1>0, <1>1 DEF MeasuresIntact, Marked
  <2>2. \A id : Marked(id) => Marked(id)'
    BY <1>0 DEF Marked
  <2> QED
    BY <1>0, <1>1, <2>1, <2>2, Ends
<1>2. /\ guardrails \subseteq Guardrail
      /\ \A g, h \in guardrails : Clash(g, h) => g = h
      /\ \A g \in guardrails : Marked(g.metric)
      /\ \A g, h \in guardrails : g.id = h.id => g = h
  BY <1>0 DEF MeasuresIntact, IdsOK, Marked
<1>3. CASE CreateGuardrail(c)
  <2> DEFINE a == txn[c].ask
  <2>1. PICK g : g = [id |-> txn[c].n, metric |-> a.metric, direction |-> a.direction,
                      severity |-> a.severity, threshold |-> a.threshold, enabled |-> a.enabled]
    OBVIOUS
  <2>2. guardrails' = guardrails \cup {g} /\ \A h \in guardrails : ~Clash(g, h)
    BY <1>3, <2>1 DEF CreateGuardrail
  <2>3. g \in Guardrail /\ Marked(g.metric) /\ g.id = txn[c].n
    BY <1>0, <1>3, <2>1 DEF CreateGuardrail, Doing, AskOK, MeasuresAskOK, Guardrail
  <2>4. \A h \in guardrails : h.id # g.id
    BY <1>0, <1>3, <2>3 DEF CreateGuardrail, Doing, IdsOK
  <2>5. \A x, y \in guardrails' : Clash(x, y) => x = y
    BY <1>2, <2>2 DEF Clash
  <2> QED
    BY <1>1, <1>2, <2>2, <2>3, <2>4, <2>5
<1>4. CASE UpdateGuardrail(c)
  <2>1. PICK g \in guardrails :
           /\ g.id = txn[c].row.id
           /\ \A h \in guardrails \ {g} : ~Clash(Updated(g, txn[c].row, txn[c].ask), h)
           /\ guardrails' = (guardrails \ {g}) \cup {Updated(g, txn[c].row, txn[c].ask)}
    BY <1>4 DEF UpdateGuardrail
  <2>2. PICK u : u = Updated(g, txn[c].row, txn[c].ask)
    OBVIOUS
  <2>3. u \in Guardrail /\ u.id = g.id /\ u.metric = g.metric
    BY <1>0, <1>2, <1>4, <2>2, GuardrailWritten DEF UpdateGuardrail, Doing, AskOK, MeasuresAskOK
  <2>4. \A x, y \in guardrails' : Clash(x, y) => x = y
    BY <1>2, <2>1, <2>2 DEF Clash
  <2> QED
    BY <1>1, <1>2, <2>1, <2>2, <2>3, <2>4
<1>5. CASE DeleteGuardrail(c)
  BY <1>1, <1>2, <1>5 DEF DeleteGuardrail
<1> QED
  BY <1>3, <1>4, <1>5

-----------------------------------------------------------------------------
LEMMA StepOK == ASSUME IInv, [Next]_vars PROVE IInv'
<1>1. ASSUME NEW c \in Clients, Step(c) PROVE IInv'
  <2>1. CASE FlagStep(c) /\ UNCHANGED measureVars
    BY <2>1, AsksOK, FlagsOK DEF FlagStep
  <2>2. CASE SegmentStep(c) /\ UNCHANGED measureVars
    BY <2>2, AsksOK, SegmentsOK DEF SegmentStep
  <2>3. CASE HoldoutStep(c) /\ UNCHANGED measureVars
    BY <2>3, AsksOK, HoldoutsOK DEF HoldoutStep
  <2>4. CASE TemplateStep(c) /\ UNCHANGED targetingVars
    BY <2>4, AsksOK, TemplatesOK DEF TemplateStep
  <2>5. CASE GuardrailStep(c) /\ UNCHANGED targetingVars
    BY <2>5, AsksOK, GuardrailsOK DEF GuardrailStep
  <2>6. CASE GiveUp(c)
    <3>1. TargetingIntact'
      BY <2>6, TargetingStays DEF GiveUp
    <3> QED
      BY <2>6, <3>1, TargetingEnds DEF GiveUp, Fail
  <2> QED
    BY <1>1, <2>1, <2>2, <2>3, <2>4, <2>5, <2>6 DEF Step, TargetingStep, MeasuresStep
<1>2. CASE UNCHANGED vars
  <2>1. UNCHANGED <<targetingVars, measureVars, txn, asked, overlap>>
    BY <1>2 DEF vars, requestVars
  <2>2. TargetingIntact'
    BY <2>1, TargetingStays
  <2>3. MeasuresIntact' /\ IdsOK' /\ AloneOK'
    BY <2>1 DEF IInv, measureVars, MeasuresIntact, IdsOK, AloneOK
  <2>4. \A id : Marked(id) => Marked(id)'
    BY <2>1 DEF measureVars, Marked
  <2>5. \A c \in Clients : AskOK(txn[c])'
    BY <2>1, <2>4, AskStays DEF IInv, RequestsOK
  <2> QED
    BY <2>1, <2>2, <2>3, <2>5 DEF IInv, RequestsOK
<1> QED
  BY <1>1, <1>2 DEF Next

LEMMA Inductive == Spec => []IInv
  BY InitOK, StepOK, PTL DEF Spec

\* Nothing in the back office refers to what is gone, and no metric has two
\* guardrails of a kind, however the requests of administrators overlap: the
\* foreign keys and unique constraints make up for what the handlers have
\* loaded before.
THEOREM TablesAreIntact == Spec => []TablesIntact
<1>1. IInv => TablesIntact
  BY DEF IInv, TablesIntact
<1> QED
  BY <1>1, Inductive, PTL

-----------------------------------------------------------------------------
(* Switches.                                                                 *)

LEMMA FlagHolds ==
    ASSUME IInv, [Next]_vars, Kept(flag), ~flag.enabled, flag'.enabled
    PROVE  \E c \in Clients : Wants(c, {"update_flag", "toggle_flag"}, TRUE)
<1>1. flag' # flag /\ flag # Absent /\ flag' # Absent
  BY DEF Kept, StillThere
<1>2. PICK c \in Clients : CreateFlag(c) \/ UpdateFlag(c) \/ ToggleFlag(c) \/ DeleteFlag(c)
  <2>1. PICK c \in Clients : Step(c)
    BY <1>1 DEF Next, vars, targetingVars
  <2>2. ~(AskFlag(c) \/ AddFlagRule(c) \/ DeleteFlagRule(c) \/ SegmentStep(c) \/ HoldoutStep(c)
          \/ UNCHANGED targetingVars)
    BY <1>1 DEF AskFlag, AddFlagRule, DeleteFlagRule, SegmentStep, HoldoutStep, targetingVars, flagVars,
       AskSegment, CreateSegment, UpdateSegment, DeleteSegment, AddSegmentRule, DeleteSegmentRule,
       LinkExperiments, UnlinkExperiment, AskHoldout, CreateHoldout, UpdateHoldout, DeleteHoldout,
       AddExclusion, RemoveExclusion
  <2> QED
    BY <2>1, <2>2 DEF Step, TargetingStep, FlagStep, GiveUp
<1>3. UpdateFlag(c) \/ ToggleFlag(c)
  BY <1>1, <1>2 DEF CreateFlag, DeleteFlag, flagVars
<1>4. flag \in FlagRow /\ flag.enabled = FALSE
  BY <1>1 DEF IInv, TargetingIntact, FlagRow
<1>5. txn[c].ask.op \in {"update_flag", "toggle_flag"} /\ txn[c] # Idle /\ txn'[c] = Idle
  BY <1>3, Busy DEF UpdateFlag, ToggleFlag, Doing, Done, IInv, RequestsOK
<1>6. flag'.enabled = Column(flag.enabled, txn[c].row.enabled, txn[c].ask.enabled)
  BY <1>3, <1>4 DEF UpdateFlag, ToggleFlag, WrittenFlag, FlagRow
<1>7. txn[c].ask.enabled \in BOOLEAN /\ flag'.enabled = txn[c].ask.enabled
  <2>1. txn[c].ask.enabled \in BOOLEAN \cup {Null}
    BY <1>5 DEF IInv, RequestsOK, AskOK, TargetingAskOK
  <2> QED
    BY <1>4, <1>6, <2>1 DEF Column
<1> QED
  BY <1>5, <1>7 DEF Wants, Commits

LEMMA HoldoutHolds ==
    ASSUME IInv, [Next]_vars, Kept(holdout), holdout.active, ~holdout'.active
    PROVE  \E c \in Clients : Commits(c) /\ txn[c].ask.op = "update_holdout" /\ txn[c].ask.active = FALSE
<1>1. holdout' # holdout /\ holdout # Absent /\ holdout' # Absent
  BY DEF Kept, StillThere
<1>2. PICK c \in Clients : CreateHoldout(c) \/ UpdateHoldout(c) \/ DeleteHoldout(c)
  <2>1. PICK c \in Clients : Step(c)
    BY <1>1 DEF Next, vars, targetingVars
  <2>2. ~(AskHoldout(c) \/ AddExclusion(c) \/ RemoveExclusion(c) \/ SegmentStep(c) \/ FlagStep(c)
          \/ UNCHANGED targetingVars)
    BY <1>1 DEF AskFlag, AddFlagRule, DeleteFlagRule, SegmentStep, FlagStep, targetingVars, holdoutVars,
       AskSegment, CreateSegment, UpdateSegment, DeleteSegment, AddSegmentRule, DeleteSegmentRule,
       LinkExperiments, UnlinkExperiment, AskHoldout, CreateFlag, UpdateFlag, ToggleFlag, DeleteFlag,
       AddExclusion, RemoveExclusion
  <2> QED
    BY <2>1, <2>2 DEF Step, TargetingStep, HoldoutStep, GiveUp
<1>3. UpdateHoldout(c)
  BY <1>1, <1>2 DEF CreateHoldout, DeleteHoldout, holdoutVars
<1>4. holdout \in HoldoutRow /\ holdout.active = TRUE
  BY <1>1 DEF IInv, TargetingIntact, HoldoutRow
<1>5. txn[c].ask.op = "update_holdout" /\ txn[c] # Idle /\ txn'[c] = Idle
  BY <1>3, Busy DEF UpdateHoldout, Doing, Done, IInv, RequestsOK
<1>6. holdout'.active = Column(holdout.active, txn[c].row.active, txn[c].ask.active)
  BY <1>3, <1>4 DEF UpdateHoldout, WrittenHoldout, HoldoutRow
<1>7. txn[c].ask.active \in BOOLEAN /\ holdout'.active = txn[c].ask.active
  <2>1. txn[c].ask.active \in BOOLEAN \cup {Null}
    BY <1>5 DEF IInv, RequestsOK, AskOK, TargetingAskOK
  <2> QED
    BY <1>4, <1>6, <2>1 DEF Column
<1> QED
  BY <1>5, <1>7 DEF Commits

LEMMA GuardrailHolds ==
    ASSUME IInv, [Next]_vars, NEW g \in guardrails, NEW h \in guardrails',
           g.id = h.id, g.enabled, ~h.enabled
    PROVE  \E c \in Clients : Wants(c, {"update_guardrail"}, FALSE)
<1>0. IdsOK /\ g \in Guardrail /\ h \notin guardrails
  BY DEF IInv, IdsOK, MeasuresIntact
<1>1. PICK c \in Clients : CreateGuardrail(c) \/ UpdateGuardrail(c) \/ DeleteGuardrail(c)
  <2>1. PICK c \in Clients : Step(c)
    BY <1>0 DEF Next, vars, measureVars
  <2>2. ~(AskGuardrail(c) \/ TemplateStep(c) \/ UNCHANGED measureVars)
    BY <1>0 DEF AskGuardrail, TemplateStep, measureVars, AskTemplate, CreateTemplate, UpdateTemplate,
       DeleteTemplate, AskExperiment, CreateExperiment
  <2> QED
    BY <2>1, <2>2 DEF Step, MeasuresStep, GuardrailStep, GiveUp
<1>2. ~CreateGuardrail(c)
  <2> SUFFICES ASSUME CreateGuardrail(c) PROVE FALSE
    OBVIOUS
  <2>1. h.id = txn[c].n
    BY <1>0 DEF CreateGuardrail
  <2> QED
    BY <1>0, <2>1, Busy DEF CreateGuardrail, Doing, IdsOK
<1>3. UpdateGuardrail(c)
  BY <1>0, <1>1, <1>2 DEF DeleteGuardrail
<1>4. PICK old \in guardrails : h = Updated(old, txn[c].row, txn[c].ask)
  BY <1>0, <1>3 DEF UpdateGuardrail
<1>5. txn[c].ask.op = "update_guardrail" /\ txn[c] # Idle /\ txn'[c] = Idle
  BY <1>3, Busy DEF UpdateGuardrail, Doing, Done, IInv, RequestsOK
<1>6. /\ txn[c].ask.severity \in Severity \cup {Null} /\ txn[c].ask.threshold \in Thresholds \cup {Null}
      /\ txn[c].ask.enabled \in BOOLEAN \cup {Null}
  BY <1>5 DEF IInv, RequestsOK, AskOK, MeasuresAskOK
<1>7. old = g
  <2>1. old \in Guardrail
    BY DEF IInv, MeasuresIntact
  <2>2. h.id = old.id
    BY <1>4, <1>6, <2>1, GuardrailWritten
  <2> QED
    BY <1>0, <2>2 DEF IdsOK
<1>8. h.enabled = Column(g.enabled, txn[c].row.enabled, txn[c].ask.enabled)
  BY <1>0, <1>4, <1>7 DEF Updated, Guardrail
<1>9. g.enabled = TRUE
  BY <1>0 DEF Guardrail
<1>10. txn[c].ask.enabled = FALSE
  BY <1>6, <1>8, <1>9 DEF Column
<1> QED
  BY <1>5, <1>10 DEF Wants, Commits

\* A kill switch, a guardrail or a holdout is only switched off, or on, by a
\* request that asks for it, whatever the request had loaded: SQLAlchemy
\* writes the columns that were set and no others.
THEOREM SwitchesStay == Spec => SwitchesHold
<1>1. IInv /\ [Next]_vars =>
        [/\ Kept(flag) /\ ~flag.enabled /\ flag'.enabled
              => \E c \in Clients : Wants(c, {"update_flag", "toggle_flag"}, TRUE)
         /\ \A g \in guardrails, h \in guardrails' :
              g.id = h.id /\ g.enabled /\ ~h.enabled
                => \E c \in Clients : Wants(c, {"update_guardrail"}, FALSE)
         /\ Kept(holdout) /\ holdout.active /\ ~holdout'.active
              => \E c \in Clients : Commits(c) /\ txn[c].ask.op = "update_holdout"
                                      /\ txn[c].ask.active = FALSE]_vars
  BY FlagHolds, GuardrailHolds, HoldoutHolds
<1> QED
  BY <1>1, Inductive, PTL DEF Spec, SwitchesHold

-----------------------------------------------------------------------------
(* The audit log.  A request that nothing comes in between has loaded the    *)
(* rows as they are when it commits, so what it tells of the objects in its  *)
(* session is true of the tables.  The counts come out because no two rules  *)
(* of a flag have the same id, and none the id a new rule will get.          *)

FlagOps    == {"update_flag", "toggle_flag", "delete_flag", "add_flag_rule", "delete_flag_rule"}
SegmentOps == {"update_segment", "delete_segment", "add_segment_rule", "delete_segment_rule",
               "link_experiments", "unlink_experiment"}
HoldoutOps == {"update_holdout", "delete_holdout", "add_exclusion", "remove_exclusion"}

Body(a) ==
    /\ a.op = "create_flag" => a.segments = {} \/ \E s \in a.segments : a.segments = {s}
    /\ a.op = "create_segment" => IsFiniteSet(a.rules)
    /\ a.op = "update_segment" => a.rules = Null \/ IsFiniteSet(a.rules)

UpToDate(a, row, kids) ==
    /\ a.op \in FlagOps => flag # Absent /\ row = flag /\ kids = {r.id : r \in flagRules}
    /\ a.op = "delete_flag_rule" => a.rule \in kids
    /\ a.op \in SegmentOps => segment # Absent /\ row = segment
    /\ a.op = "update_segment" => kids = segmentRules
    /\ a.op = "delete_segment_rule" => a.rule \in segmentRules
    /\ a.op = "link_experiments" => kids = links
    /\ a.op \in HoldoutOps => holdout # Absent /\ row = holdout /\ kids = exclusions

Loaded(t) == Body(t.ask) /\ UpToDate(t.ask, t.row, t.kids)

LoadedOK == \A c \in Clients : Loaded(txn[c])

Distinct(rules) == \A r, q \in rules : r.id = q.id => r = q

RulesOK ==
    /\ IsFiniteSet(flagRules) /\ Distinct(flagRules)
    /\ IsFiniteSet(segmentRules)
    /\ \A r \in flagRules \cup segmentRules : r.id <= asked

NumbersOK ==
    \A c \in Clients : txn[c] # Idle => \A r \in flagRules \cup segmentRules : r.id < txn[c].n

SerialInv == ~overlap => LoadedOK /\ RulesOK /\ NumbersOK /\ told = Story

\* Giving every element of a finite set another name keeps its size.
LEMMA Renamed ==
    ASSUME NEW S, NEW T, IsFiniteSet(S), NEW f \in [S -> T],
           \A t \in T : \E x \in S : f[x] = t,
           \A x, y \in S : f[x] = f[y] => x = y
    PROVE  IsFiniteSet(T) /\ Cardinality(T) = Cardinality(S)
<1>1. f \in Bijection(S, T)
  BY DEF Bijection, Injection, Surjection, IsInjective
<1> QED
  BY <1>1, FS_Bijection DEF ExistsBijection

LEMMA NewRulesCount ==
    ASSUME NEW conditions, IsFiniteSet(conditions), NEW n
    PROVE  /\ IsFiniteSet(NewRules(conditions, n))
           /\ Cardinality(NewRules(conditions, n)) = Cardinality(conditions)
<1> DEFINE f == [x \in conditions |-> [id |-> n, condition |-> x]]
<1>1. f \in [conditions -> NewRules(conditions, n)]
  BY DEF NewRules
<1>2. \A r \in NewRules(conditions, n) : \E x \in conditions : f[x] = r
  BY DEF NewRules
<1>3. \A x, y \in conditions : f[x] = f[y] => x = y
  OBVIOUS
<1> HIDE DEF f
<1> QED
  BY <1>1, <1>2, <1>3, Renamed

LEMMA RuleIdsCount ==
    ASSUME IsFiniteSet(flagRules), Distinct(flagRules)
    PROVE  Cardinality({r.id : r \in flagRules}) = Cardinality(flagRules)
<1> DEFINE T == {r.id : r \in flagRules}
           f == [r \in flagRules |-> r.id]
<1>1. f \in [flagRules -> T]
  OBVIOUS
<1>2. \A t \in T : \E r \in flagRules : f[r] = t
  OBVIOUS
<1>3. \A r, q \in flagRules : f[r] = f[q] => r = q
  BY DEF Distinct
<1> HIDE DEF f, T
<1>4. Cardinality(T) = Cardinality(flagRules)
  BY <1>1, <1>2, <1>3, Renamed
<1> QED
  BY <1>4 DEF T

LEMMA ClearedCount ==
    ASSUME IsFiniteSet(flagRules), Distinct(flagRules),
           NEW rules, rules = {[id |-> r.id, segment |-> NoSegment] : r \in flagRules}
    PROVE  IsFiniteSet(rules) /\ Distinct(rules) /\ Cardinality(rules) = Cardinality(flagRules)
<1> DEFINE f == [r \in flagRules |-> [id |-> r.id, segment |-> NoSegment]]
<1>1. f \in [flagRules -> rules]
  OBVIOUS
<1>2. \A t \in rules : \E r \in flagRules : f[r] = t
  OBVIOUS
<1>3. \A r, q \in flagRules : f[r] = f[q] => r = q
  BY DEF Distinct
<1> HIDE DEF f
<1>4. IsFiniteSet(rules) /\ Cardinality(rules) = Cardinality(flagRules)
  BY <1>1, <1>2, <1>3, Renamed
<1> QED
  BY <1>4 DEF Distinct

LEMMA SerialInit == Init => SerialInv
<1> SUFFICES ASSUME Init PROVE SerialInv
  OBVIOUS
<1>1. \A c \in Clients : txn[c] = Idle
  BY DEF Init, InitRequests
<1>2. LoadedOK
  BY <1>1, IdleOK DEF LoadedOK, Loaded, Body, UpToDate, FlagOps, SegmentOps, HoldoutOps
<1>3. NumbersOK /\ told = Story /\ asked = 0
  BY <1>1 DEF NumbersOK, Init, InitRequests, TargetingInit
<1>4. IsFiniteSet(flagRules) /\ Distinct(flagRules) /\ \A r \in flagRules : r.id = 0
  <2>1. flagRules = {} \/ \E s : flagRules = {[id |-> 0, segment |-> s]}
    BY DEF Init, TargetingInit, InitFlag
  <2>2. CASE flagRules = {}
    BY <2>2, FS_EmptySet DEF Distinct
  <2>3. ASSUME NEW s, flagRules = {[id |-> 0, segment |-> s]}
        PROVE  IsFiniteSet(flagRules) /\ Distinct(flagRules) /\ \A r \in flagRules : r.id = 0
    <3>1. \A r \in flagRules : r.id = 0 /\ r = [id |-> 0, segment |-> s]
      BY <2>3
    <3>2. IsFiniteSet(flagRules)
      BY <2>3, FS_Singleton, Zenon
    <3> QED
      BY <3>1, <3>2 DEF Distinct
  <2> QED
    BY <2>1, <2>2, <2>3
<1>5. IsFiniteSet(segmentRules) /\ \A r \in segmentRules : r.id = 0
  <2>1. PICK rules \in RuleLists : segmentRules = IF segment = Absent THEN {} ELSE NewRules(rules, 0)
    BY DEF Init, TargetingInit, InitSegment
  <2>2. IsFiniteSet(NewRules(rules, 0))
    BY NewRulesCount DEF RuleLists
  <2>3. \A r \in NewRules(rules, 0) : r.id = 0
    BY DEF NewRules
  <2> QED
    BY <2>1, <2>2, <2>3, FS_EmptySet
<1> QED
  BY <1>2, <1>3, <1>4, <1>5 DEF SerialInv, RulesOK

\* A request that begins has just loaded what it will tell of.
LEMMA SerialBegins ==
    ASSUME IInv, SerialInv, NEW c \in Clients, NEW a, NEW row, NEW kids, Begin(c, a, row, kids),
           UNCHANGED targetingVars, Body(a), UpToDate(a, row, kids)
    PROVE  SerialInv'
<1> SUFFICES ASSUME ~overlap' PROVE (LoadedOK /\ RulesOK /\ NumbersOK /\ told = Story)'
  BY DEF SerialInv
<1>1. PICK t : t = [ask |-> a, row |-> row, kids |-> kids, n |-> asked + 1]
  OBVIOUS
<1>2. t.ask = a /\ t.row = row /\ t.kids = kids /\ t.n = asked + 1
  BY <1>1
<1>3. /\ ~overlap /\ asked \in Nat /\ asked' = asked + 1 /\ txn'[c] = t
      /\ \A d \in Clients \ {c} : txn'[d] = Idle
  BY <1>1 DEF Begin, IInv, RequestsOK
<1>4. LoadedOK /\ RulesOK /\ NumbersOK /\ told = Story
  BY <1>3 DEF SerialInv
<1>5. told' = Story'
  BY <1>4 DEF targetingVars, Story, FlagStory, SegmentStory, HoldoutStory
<1>6. \A r \in flagRules' \cup segmentRules' : r.id \in Nat /\ r.id <= asked
  BY <1>4 DEF targetingVars, RulesOK, IInv, TargetingIntact, FlagRule, SegmentRule
<1>7. RulesOK' /\ NumbersOK'
  <2>1. IsFiniteSet(flagRules') /\ Distinct(flagRules') /\ IsFiniteSet(segmentRules')
    BY <1>4 DEF targetingVars, RulesOK
  <2>2. \A r \in flagRules' \cup segmentRules' : r.id <= asked' /\ r.id < t.n
    BY <1>2, <1>3, <1>6
  <2> QED
    BY <1>3, <2>1, <2>2 DEF RulesOK, NumbersOK
<1>8. LoadedOK'
  <2>1. Loaded(txn[c])'
    BY <1>2, <1>3 DEF targetingVars, Loaded, Body, UpToDate
  <2>2. ASSUME NEW d \in Clients \ {c} PROVE Loaded(txn[d])'
    BY <1>3, IdleOK DEF Loaded, Body, UpToDate, FlagOps, SegmentOps, HoldoutOps
  <2> QED
    BY <2>1, <2>2 DEF LoadedOK
<1> QED
  BY <1>5, <1>7, <1>8

\* A request that ends leaves nobody, so only the tables matter.
LEMMA SerialEnds ==
    ASSUME IInv, SerialInv, NEW c \in Clients, txn[c] # Idle, Done(c),
           ~overlap => /\ IsFiniteSet(flagRules') /\ Distinct(flagRules') /\ IsFiniteSet(segmentRules')
                       /\ \A r \in flagRules' \cup segmentRules' : r.id <= asked
                       /\ told' = Story'
    PROVE  SerialInv'
<1> SUFFICES ASSUME ~overlap' PROVE (LoadedOK /\ RulesOK /\ NumbersOK /\ told = Story)'
  BY DEF SerialInv
<1>1. ~overlap /\ asked' = asked /\ \A d \in Clients : txn'[d] = Idle
  BY DEF Done, IInv, RequestsOK, AloneOK
<1>2. RulesOK' /\ NumbersOK' /\ told' = Story'
  BY <1>1 DEF RulesOK, NumbersOK
<1>3. LoadedOK'
  BY <1>1, IdleOK DEF LoadedOK, Loaded, Body, UpToDate, FlagOps, SegmentOps, HoldoutOps
<1> QED
  BY <1>2, <1>3

\* What the facts of a request alone are good for: the audit row is about
\* the row there is.
LEMMA Alone ==
    ASSUME IInv, SerialInv, ~overlap, NEW c \in Clients, txn[c] # Idle
    PROVE  /\ Body(txn[c].ask) /\ UpToDate(txn[c].ask, txn[c].row, txn[c].kids)
           /\ RulesOK /\ told = Story
           /\ txn[c].n \in Nat /\ txn[c].n <= asked /\ asked \in Nat
           /\ \A r \in flagRules \cup segmentRules : r.id \in Nat /\ r.id < txn[c].n
           /\ flag # Absent => flag \in FlagRow /\ told.flag # Absent /\ told.flag.id = flag.id
           /\ segment # Absent => segment \in SegmentRow /\ told.segment # Absent /\ told.segment.id = segment.id
           /\ holdout # Absent => holdout \in HoldoutRow /\ told.holdout # Absent /\ told.holdout.id = holdout.id
<1>1. LoadedOK /\ RulesOK /\ NumbersOK /\ told = Story
  BY DEF SerialInv
<1>2. TargetingIntact /\ txn[c].n \in Nat /\ txn[c].n <= asked /\ asked \in Nat
  BY DEF IInv, IdsOK, RequestsOK
<1>3. Body(txn[c].ask) /\ UpToDate(txn[c].ask, txn[c].row, txn[c].kids)
  BY <1>1 DEF LoadedOK, Loaded
<1>4. \A r \in flagRules \cup segmentRules : r.id \in Nat /\ r.id < txn[c].n
  BY <1>1, <1>2 DEF NumbersOK, TargetingIntact, FlagRule, SegmentRule
<1>5. Cardinality(flagRules) \in Nat /\ Cardinality(segmentRules) \in Nat
  BY <1>1, FS_CardinalityType DEF RulesOK
<1>6. flag # Absent => flag \in FlagRow /\ told.flag # Absent /\ told.flag.id = flag.id
  <2> SUFFICES ASSUME flag # Absent PROVE flag \in FlagRow /\ told.flag # Absent /\ told.flag.id = flag.id
    OBVIOUS
  <2>1. flag \in FlagRow
    BY <1>2 DEF TargetingIntact
  <2>2. told.flag = FlagDetails(flag.id, flag.enabled, flag.rollout, Cardinality(flagRules))
    BY <1>1 DEF Story, FlagStory
  <2>3. told.flag \in [id : Nat, enabled : BOOLEAN, rollout : Rollouts, rules : Nat]
    BY <1>5, <2>1, <2>2 DEF FlagRow, FlagDetails
  <2> QED
    BY <2>1, <2>2, <2>3, TargetingAssumption DEF FlagDetails
<1>7. segment # Absent => segment \in SegmentRow /\ told.segment # Absent /\ told.segment.id = segment.id
  <2> SUFFICES ASSUME segment # Absent
               PROVE  segment \in SegmentRow /\ told.segment # Absent /\ told.segment.id = segment.id
    OBVIOUS
  <2>1. segment \in SegmentRow /\ links \in SUBSET Experiments
    BY <1>2 DEF TargetingIntact
  <2>2. told.segment = SegmentDetails(segment.id, Cardinality(segmentRules), links)
    BY <1>1 DEF Story, SegmentStory
  <2>3. told.segment \in [id : Nat, rules : Nat, links : SUBSET Experiments]
    BY <1>5, <2>1, <2>2 DEF SegmentRow, SegmentDetails
  <2> QED
    BY <2>1, <2>2, <2>3, TargetingAssumption DEF SegmentDetails
<1>8. holdout # Absent => holdout \in HoldoutRow /\ told.holdout # Absent /\ told.holdout.id = holdout.id
  <2> SUFFICES ASSUME holdout # Absent
               PROVE  holdout \in HoldoutRow /\ told.holdout # Absent /\ told.holdout.id = holdout.id
    OBVIOUS
  <2>1. holdout \in HoldoutRow /\ exclusions \in SUBSET Users
    BY <1>2 DEF TargetingIntact
  <2>2. told.holdout = HoldoutDetails(holdout.id, holdout.active, holdout.size, exclusions)
    BY <1>1 DEF Story, HoldoutStory
  <2>3. told.holdout \in [id : Nat, active : BOOLEAN, size : Rollouts, exclusions : SUBSET Users]
    BY <2>1, <2>2 DEF HoldoutRow, HoldoutDetails
  <2> QED
    BY <2>1, <2>2, <2>3, TargetingAssumption DEF HoldoutDetails
<1> QED
  BY <1>1, <1>2, <1>3, <1>4, <1>6, <1>7, <1>8

LEMMA FlagsAreTold ==
    ASSUME IInv, SerialInv, NEW c \in Clients,
           \/ CreateFlag(c) \/ UpdateFlag(c) \/ ToggleFlag(c) \/ DeleteFlag(c)
           \/ AddFlagRule(c) \/ DeleteFlagRule(c)
    PROVE  SerialInv'
<1>0. /\ TargetingAskOK(txn[c].ask) /\ Done(c) /\ txn[c] # Idle /\ UNCHANGED <<segmentVars, holdoutVars>>
      /\ txn[c].ask.op \in FlagOps \cup {"create_flag"}
  BY Busy DEF IInv, RequestsOK, AskOK, CreateFlag, UpdateFlag, ToggleFlag, DeleteFlag, AddFlagRule,
     DeleteFlagRule, Doing, FlagOps
<1> SUFFICES ASSUME ~overlap
             PROVE  /\ IsFiniteSet(flagRules') /\ Distinct(flagRules')
                    /\ \A r \in flagRules' : r.id <= asked
                    /\ told' = Story'
  <2>1. ASSUME ~overlap
        PROVE  IsFiniteSet(segmentRules') /\ \A r \in segmentRules' : r.id <= asked
    BY <1>0, <2>1, Alone DEF RulesOK, segmentVars
  <2> QED
    BY <1>0, <2>1, SerialEnds
<1> DEFINE t == txn[c]
<1>1. /\ Body(t.ask) /\ UpToDate(t.ask, t.row, t.kids) /\ RulesOK /\ told = Story
      /\ t.n \in Nat /\ t.n <= asked /\ asked \in Nat
      /\ \A r \in flagRules : r.id \in Nat /\ r.id < t.n
      /\ flag # Absent => flag \in FlagRow /\ told.flag # Absent /\ told.flag.id = flag.id
  BY <1>0, Alone
<1>2. /\ IsFiniteSet(flagRules) /\ Distinct(flagRules) /\ \A r \in flagRules : r.id <= asked
      /\ Cardinality(flagRules) \in Nat
  BY <1>1, FS_CardinalityType DEF RulesOK
<1>3. \A news : news = FlagStory' /\ told' = [told EXCEPT !.flag = news] => told' = Story'
  BY <1>0, <1>1 DEF Story, SegmentStory, HoldoutStory, segmentVars, holdoutVars
<1>4. CASE CreateFlag(c)
  <2>1. flag' = [id |-> t.n, enabled |-> t.ask.enabled, rollout |-> t.ask.rollout]
        /\ flagRules' = {[id |-> t.n, segment |-> s] : s \in t.ask.segments}
    BY <1>4 DEF CreateFlag
  <2>2. flag' # Absent
    BY <1>0, <1>1, <1>4, <2>1, TargetingAssumption DEF CreateFlag, Doing, TargetingAskOK
  <2>3. /\ IsFiniteSet(flagRules') /\ Distinct(flagRules') /\ \A r \in flagRules' : r.id = t.n
        /\ Cardinality(flagRules') = Cardinality(t.ask.segments)
    <3>1. CASE t.ask.segments = {}
      <4>1. flagRules' = {}
        BY <2>1, <3>1
      <4> QED
        BY <3>1, <4>1, FS_EmptySet DEF Distinct
    <3>2. CASE \E s \in t.ask.segments : t.ask.segments = {s}
      <4>1. PICK s : t.ask.segments = {s}
        BY <3>2
      <4>2. PICK r : r = [id |-> t.n, segment |-> s]
        OBVIOUS
      <4>3. flagRules' = {r} /\ r.id = t.n
        BY <2>1, <4>1, <4>2
      <4>4. IsFiniteSet({r}) /\ Cardinality({r}) = 1 /\ Cardinality({s}) = 1
        BY FS_Singleton, Zenon
      <4> QED
        BY <4>1, <4>3, <4>4 DEF Distinct
    <3> QED
      BY <1>1, <1>4, <3>1, <3>2 DEF Body, CreateFlag, Doing
  <2>4. FlagStory' = FlagDetails(t.n, t.ask.enabled, t.ask.rollout, Cardinality(t.ask.segments))
    BY <2>1, <2>2, <2>3 DEF FlagStory
  <2>5. told' = Story'
    BY <1>3, <1>4, <2>4 DEF CreateFlag
  <2> QED
    BY <1>1, <2>3, <2>5
<1>5. ASSUME t.ask.op \in FlagOps
      PROVE  /\ flag \in FlagRow /\ flag # Absent /\ t.row = flag /\ t.kids = {r.id : r \in flagRules}
             /\ StillThere(flag, t.row) /\ StillThere(told["flag"], t.row)
             /\ told.flag = FlagDetails(flag.id, flag.enabled, flag.rollout, Cardinality(flagRules))
  BY <1>1, <1>5 DEF UpToDate, StillThere, Story, FlagStory
<1>6. CASE UpdateFlag(c)
  <2>1. t.ask.op \in FlagOps
    BY <1>6 DEF UpdateFlag, Doing, FlagOps
  <2>2. flag' = WrittenFlag(flag, t.ask) /\ flagRules' = flagRules
    BY <1>5, <1>6, <2>1 DEF UpdateFlag
  <2>3. flag' = [id |-> flag.id, enabled |-> Shown(flag.enabled, t.ask.enabled),
                 rollout |-> Shown(flag.rollout, t.ask.rollout)]
    BY <1>5, <2>1, <2>2 DEF WrittenFlag, Column, Shown, FlagRow
  <2>4. flag' # Absent
    <3>1. t.ask.enabled \in BOOLEAN \cup {Null} /\ t.ask.rollout \in Rollouts \cup {Null}
      BY <1>0, <1>6 DEF TargetingAskOK, UpdateFlag, Doing
    <3>2. flag' \in FlagRow
      BY <1>5, <2>1, <2>3, <3>1 DEF FlagRow, Shown
    <3> QED
      BY <3>2, TargetingAssumption DEF FlagRow
  <2>5. Cardinality(t.kids) = Cardinality(flagRules)
    BY <1>2, <1>5, <2>1, RuleIdsCount
  <2>6. FlagStory' = FlagDetails(t.row.id, Shown(t.row.enabled, t.ask.enabled),
                                 Shown(t.row.rollout, t.ask.rollout), Cardinality(t.kids))
    BY <1>5, <2>1, <2>2, <2>3, <2>4, <2>5 DEF FlagStory
  <2>7. told' = Story'
    BY <1>3, <1>5, <1>6, <2>1, <2>6 DEF UpdateFlag, Tell
  <2> QED
    BY <1>2, <2>2, <2>7
<1>7. CASE ToggleFlag(c)
  <2>1. t.ask.op \in FlagOps /\ t.ask.enabled \in BOOLEAN
    BY <1>0, <1>7 DEF ToggleFlag, Doing, FlagOps, TargetingAskOK
  <2>2. flag' = [flag EXCEPT !.enabled = t.ask.enabled] /\ flagRules' = flagRules
    BY <1>5, <1>7, <2>1, RequestsAssumption DEF ToggleFlag, Column, FlagRow
  <2>3. flag' # Absent
    BY <1>5, <2>1, <2>2, TargetingAssumption DEF FlagRow
  <2>4. FlagStory' = [told.flag EXCEPT !.enabled = t.ask.enabled]
    BY <1>5, <2>1, <2>2, <2>3 DEF FlagStory, FlagDetails, FlagRow
  <2>5. told' = Story'
    BY <1>3, <1>5, <1>7, <2>1, <2>4 DEF ToggleFlag, Tell
  <2> QED
    BY <1>2, <2>2, <2>5
<1>8. CASE DeleteFlag(c)
  <2>1. t.ask.op \in FlagOps
    BY <1>8 DEF DeleteFlag, Doing, FlagOps
  <2>2. flag' = Absent /\ flagRules' = {}
    BY <1>5, <1>8, <2>1 DEF DeleteFlag
  <2>3. told' = Story'
    BY <1>3, <1>5, <1>8, <2>1, <2>2 DEF DeleteFlag, Tell, FlagStory
  <2> QED
    BY <2>2, <2>3, FS_EmptySet DEF Distinct
<1>9. CASE AddFlagRule(c)
  <2>1. t.ask.op \in FlagOps
    BY <1>9 DEF AddFlagRule, Doing, FlagOps
  <2>2. PICK r : r = [id |-> t.n, segment |-> t.ask.segment]
    OBVIOUS
  <2>3. flag' = flag /\ flagRules' = flagRules \cup {r} /\ r.id = t.n
    BY <1>9, <2>2 DEF AddFlagRule
  <2>4. r \notin flagRules /\ Distinct(flagRules') /\ \A q \in flagRules' : q.id <= asked
    BY <1>1, <1>2, <2>3 DEF Distinct
  <2>5. IsFiniteSet(flagRules') /\ Cardinality(flagRules') = Cardinality(flagRules) + 1
    BY <1>2, <2>3, <2>4, FS_AddElement
  <2>6. FlagStory' = [told.flag EXCEPT !.rules = @ + 1]
    BY <1>5, <2>1, <2>3, <2>5 DEF FlagStory, FlagDetails
  <2>7. told' = Story'
    BY <1>3, <1>5, <1>9, <2>1, <2>6 DEF AddFlagRule, Tell
  <2> QED
    BY <2>4, <2>5, <2>7
<1>10. CASE DeleteFlagRule(c)
  <2>1. t.ask.op \in FlagOps /\ t.ask.op = "delete_flag_rule"
    BY <1>10 DEF DeleteFlagRule, Doing, FlagOps
  <2>2. flag' = flag /\ flagRules' = {r \in flagRules : r.id # t.ask.rule}
    BY <1>10 DEF DeleteFlagRule
  <2>3. PICK r \in flagRules : r.id = t.ask.rule
    BY <1>1, <1>5, <2>1 DEF UpToDate
  <2>4. flagRules' = flagRules \ {r}
    BY <1>2, <2>2, <2>3 DEF Distinct
  <2>5. IsFiniteSet(flagRules') /\ Cardinality(flagRules') = Cardinality(flagRules) - 1
    BY <1>2, <2>3, <2>4, FS_RemoveElement
  <2>6. FlagStory' = [told.flag EXCEPT !.rules = @ - 1]
    BY <1>5, <2>1, <2>2, <2>5 DEF FlagStory, FlagDetails
  <2>7. told' = Story'
    BY <1>3, <1>5, <1>10, <2>1, <2>6 DEF DeleteFlagRule, Tell
  <2> QED
    BY <1>2, <2>2, <2>5, <2>7 DEF Distinct
<1> QED
  BY <1>4, <1>6, <1>7, <1>8, <1>9, <1>10

LEMMA SegmentsAreTold ==
    ASSUME IInv, SerialInv, NEW c \in Clients,
           \/ CreateSegment(c) \/ UpdateSegment(c) \/ DeleteSegment(c) \/ AddSegmentRule(c)
           \/ DeleteSegmentRule(c) \/ LinkExperiments(c) \/ UnlinkExperiment(c)
    PROVE  SerialInv'
<1>0. /\ TargetingAskOK(txn[c].ask) /\ Done(c) /\ txn[c] # Idle /\ UNCHANGED <<flag, holdoutVars>>
      /\ txn[c].ask.op \in SegmentOps \cup {"create_segment"}
  BY Busy DEF IInv, RequestsOK, AskOK, CreateSegment, UpdateSegment, DeleteSegment, AddSegmentRule,
     DeleteSegmentRule, LinkExperiments, UnlinkExperiment, Doing, SegmentOps, flagVars
<1> SUFFICES ASSUME ~overlap
             PROVE  /\ IsFiniteSet(flagRules') /\ Distinct(flagRules') /\ IsFiniteSet(segmentRules')
                    /\ \A r \in flagRules' \cup segmentRules' : r.id <= asked
                    /\ told' = Story'
  BY <1>0, SerialEnds
<1> DEFINE t == txn[c]
<1>1. /\ Body(t.ask) /\ UpToDate(t.ask, t.row, t.kids) /\ RulesOK /\ told = Story
      /\ t.n \in Nat /\ t.n <= asked /\ asked \in Nat
      /\ \A r \in segmentRules : r.id \in Nat /\ r.id < t.n
      /\ segment # Absent => segment \in SegmentRow /\ told.segment # Absent /\ told.segment.id = segment.id
  BY <1>0, Alone
<1>2. /\ IsFiniteSet(segmentRules) /\ Cardinality(segmentRules) \in Nat
      /\ \A r \in flagRules \cup segmentRules : r.id <= asked
  BY <1>1, FS_CardinalityType DEF RulesOK
\* All but a deletion leave the rules of the flags.
<1>3. ASSUME flagRules' = flagRules, IsFiniteSet(segmentRules'), \A r \in segmentRules' : r.id <= asked,
             NEW news, news = SegmentStory', told' = [told EXCEPT !.segment = news]
      PROVE  /\ IsFiniteSet(flagRules') /\ Distinct(flagRules') /\ IsFiniteSet(segmentRules')
             /\ \A r \in flagRules' \cup segmentRules' : r.id <= asked
             /\ told' = Story'
  <2>1. told' = Story'
    BY <1>0, <1>1, <1>3 DEF Story, FlagStory, HoldoutStory, holdoutVars
  <2> QED
    BY <1>1, <1>2, <1>3, <2>1 DEF RulesOK
<1>4. CASE CreateSegment(c)
  <2>1. /\ segment' = [id |-> t.n] /\ segmentRules' = NewRules(t.ask.rules, t.n)
        /\ segment = Absent /\ links' = links /\ flagRules' = flagRules /\ IsFiniteSet(t.ask.rules)
    BY <1>1, <1>4 DEF CreateSegment, Doing, Body, flagVars
  <2>2. segment' # Absent /\ links = {}
    BY <1>1, <2>1, TargetingAssumption DEF IInv, TargetingIntact
  <2>3. IsFiniteSet(segmentRules') /\ Cardinality(segmentRules') = Cardinality(t.ask.rules)
    BY <2>1, NewRulesCount
  <2>4. \A r \in segmentRules' : r.id <= asked
    BY <1>1, <2>1 DEF NewRules
  <2>5. SegmentDetails(t.n, Cardinality(t.ask.rules), {}) = SegmentStory'
    BY <2>1, <2>2, <2>3 DEF SegmentStory
  <2>6. told' = [told EXCEPT !.segment = SegmentDetails(t.n, Cardinality(t.ask.rules), {})]
    BY <1>4 DEF CreateSegment
  <2> QED
    BY <1>3, <2>1, <2>3, <2>4, <2>5, <2>6
<1>5. ASSUME t.ask.op \in SegmentOps
      PROVE  /\ segment # Absent /\ t.row = segment
             /\ StillThere(segment, t.row) /\ StillThere(told["segment"], t.row)
             /\ told.segment = SegmentDetails(segment.id, Cardinality(segmentRules), links)
  BY <1>1, <1>5 DEF UpToDate, StillThere, Story, SegmentStory
<1>6. CASE UpdateSegment(c)
  <2>1. t.ask.op \in SegmentOps /\ t.kids = segmentRules /\ (t.ask.rules # Null => IsFiniteSet(t.ask.rules))
    BY <1>1, <1>6 DEF UpdateSegment, Doing, SegmentOps, UpToDate, Body
  <2>2. UNCHANGED <<segment, links, flagRules>> /\ segmentRules' = Rewritten(segmentRules, t)
    BY <1>6 DEF UpdateSegment, flagVars
  <2>3. /\ IsFiniteSet(segmentRules') /\ \A r \in segmentRules' : r.id <= asked
        /\ Cardinality(segmentRules') = Cardinality(RulesShown(t))
    <3>1. CASE t.ask.rules = Null
      BY <1>2, <2>1, <2>2, <3>1 DEF Rewritten, RulesShown
    <3>2. CASE t.ask.rules # Null
      <4>1. segmentRules' = NewRules(t.ask.rules, t.n) /\ RulesShown(t) = t.ask.rules
        BY <2>1, <2>2, <3>2 DEF Rewritten, RulesShown
      <4>2. \A r \in segmentRules' : r.id = t.n
        BY <4>1 DEF NewRules
      <4> QED
        BY <1>1, <2>1, <3>2, <4>1, <4>2, NewRulesCount
    <3> QED
      BY <3>1, <3>2
  <2>4. [told.segment EXCEPT !.rules = Cardinality(RulesShown(t))] = SegmentStory'
    BY <1>5, <2>1, <2>2, <2>3 DEF SegmentStory, SegmentDetails
  <2>5. told' = [told EXCEPT !.segment = [told.segment EXCEPT !.rules = Cardinality(RulesShown(t))]]
    BY <1>5, <1>6, <2>1 DEF UpdateSegment, Tell
  <2> QED
    BY <1>3, <2>2, <2>3, <2>4, <2>5
<1>7. CASE DeleteSegment(c)
  <2>1. t.ask.op \in SegmentOps
    BY <1>7 DEF DeleteSegment, Doing, SegmentOps
  <2>2. /\ segment' = Absent /\ segmentRules' = {} /\ links' = {}
        /\ flagRules' = {[id |-> r.id, segment |-> NoSegment] : r \in flagRules}
        /\ told' = [told EXCEPT !.segment = Absent]
    BY <1>5, <1>7, <2>1 DEF DeleteSegment, Tell
  <2>3. IsFiniteSet(flagRules') /\ Distinct(flagRules') /\ Cardinality(flagRules') = Cardinality(flagRules)
    BY <1>1, <2>2, ClearedCount DEF RulesOK
  <2>4. \A r \in flagRules' : r.id <= asked
    BY <1>2, <2>2
  <2>5. SegmentStory' = Absent /\ FlagStory' = FlagStory /\ HoldoutStory' = HoldoutStory
    BY <1>0, <2>2, <2>3 DEF SegmentStory, FlagStory, HoldoutStory, holdoutVars
  <2>6. told' = Story'
    BY <1>1, <2>2, <2>5 DEF Story
  <2> QED
    BY <2>2, <2>3, <2>4, <2>6, FS_EmptySet
<1>8. CASE AddSegmentRule(c)
  <2>1. t.ask.op \in SegmentOps
    BY <1>8 DEF AddSegmentRule, Doing, SegmentOps
  <2>2. PICK r : r = [id |-> t.n, condition |-> t.ask.condition]
    OBVIOUS
  <2>3. UNCHANGED <<segment, links, flagRules>> /\ segmentRules' = segmentRules \cup {r} /\ r.id = t.n
    BY <1>8, <2>2 DEF AddSegmentRule, NewRules, flagVars
  <2>4. r \notin segmentRules /\ \A q \in segmentRules' : q.id <= asked
    BY <1>1, <1>2, <2>3
  <2>5. IsFiniteSet(segmentRules') /\ Cardinality(segmentRules') = Cardinality(segmentRules) + 1
    BY <1>2, <2>3, <2>4, FS_AddElement
  <2>6. [told.segment EXCEPT !.rules = @ + 1] = SegmentStory'
    BY <1>5, <2>1, <2>3, <2>5 DEF SegmentStory, SegmentDetails
  <2>7. told' = [told EXCEPT !.segment = [told.segment EXCEPT !.rules = @ + 1]]
    BY <1>5, <1>8, <2>1 DEF AddSegmentRule, Tell
  <2> QED
    BY <1>3, <2>3, <2>4, <2>5, <2>6, <2>7
<1>9. CASE DeleteSegmentRule(c)
  <2>1. t.ask.op \in SegmentOps /\ t.ask.rule \in segmentRules
    BY <1>1, <1>9 DEF DeleteSegmentRule, Doing, SegmentOps, UpToDate
  <2>2. UNCHANGED <<segment, links, flagRules>> /\ segmentRules' = segmentRules \ {t.ask.rule}
    BY <1>9 DEF DeleteSegmentRule, flagVars
  <2>3. IsFiniteSet(segmentRules') /\ Cardinality(segmentRules') = Cardinality(segmentRules) - 1
    BY <1>2, <2>1, <2>2, FS_RemoveElement
  <2>4. [told.segment EXCEPT !.rules = @ - 1] = SegmentStory'
    BY <1>5, <2>1, <2>2, <2>3 DEF SegmentStory, SegmentDetails
  <2>5. told' = [told EXCEPT !.segment = [told.segment EXCEPT !.rules = @ - 1]]
    BY <1>5, <1>9, <2>1 DEF DeleteSegmentRule, Tell
  <2> QED
    BY <1>2, <1>3, <2>2, <2>3, <2>4, <2>5
\* Links are told one by one, or not at all when none is new.
<1>10. CASE LinkExperiments(c) \/ UnlinkExperiment(c)
  <2>1. t.ask.op \in SegmentOps /\ UNCHANGED <<segment, segmentRules, flagRules>>
    BY <1>10 DEF LinkExperiments, UnlinkExperiment, Doing, SegmentOps, flagVars
  <2>2. SegmentStory' = [told.segment EXCEPT !.links = links'] /\ told.segment.links = links
    BY <1>5, <2>1 DEF SegmentStory, SegmentDetails
  <2>3. told' = [told EXCEPT !.segment = [told.segment EXCEPT !.links = links']]
    <3>1. ASSUME links' = links, UNCHANGED told PROVE <2>3
      BY <1>1, <1>5, <2>1, <3>1 DEF SegmentDetails, Story
    <3>2. CASE LinkExperiments(c)
      <4>1. t.kids = links
        BY <1>1, <3>2 DEF LinkExperiments, Doing, UpToDate
      <4>2. CASE NewLinks(t) = {}
        BY <3>1, <3>2, <4>2 DEF LinkExperiments
      <4>3. CASE NewLinks(t) # {}
        <5>1. told' = [told EXCEPT !.segment = [told.segment EXCEPT !.links = @ \cup t.ask.experiments]]
          BY <1>5, <2>1, <3>2, <4>3 DEF LinkExperiments, Tell
        <5>2. links' = links \cup t.ask.experiments
          BY <3>2, <4>1 DEF LinkExperiments, NewLinks
        <5> QED
          BY <2>2, <5>1, <5>2
      <4> QED
        BY <4>2, <4>3
    <3>3. CASE UnlinkExperiment(c)
      <4>1. CASE t.ask.experiment \notin links
        BY <3>1, <3>3, <4>1 DEF UnlinkExperiment
      <4>2. CASE t.ask.experiment \in links
        <5>1. /\ told' = [told EXCEPT !.segment = [told.segment EXCEPT !.links = @ \ {t.ask.experiment}]]
              /\ links' = links \ {t.ask.experiment}
          BY <1>5, <2>1, <3>3, <4>2 DEF UnlinkExperiment, Tell
        <5> QED
          BY <2>2, <5>1
      <4> QED
        BY <4>1, <4>2
    <3> QED
      BY <1>10, <3>2, <3>3
  <2> QED
    BY <1>2, <1>3, <2>1, <2>2, <2>3
<1> QED
  BY <1>4, <1>6, <1>7, <1>8, <1>9, <1>10

LEMMA HoldoutsAreTold ==
    ASSUME IInv, SerialInv, NEW c \in Clients,
           CreateHoldout(c) \/ UpdateHoldout(c) \/ DeleteHoldout(c) \/ AddExclusion(c) \/ RemoveExclusion(c)
    PROVE  SerialInv'
<1>0. /\ TargetingAskOK(txn[c].ask) /\ Done(c) /\ txn[c] # Idle /\ UNCHANGED <<flagVars, segmentVars>>
      /\ txn[c].ask.op \in HoldoutOps \cup {"create_holdout"}
  BY Busy DEF IInv, RequestsOK, AskOK, CreateHoldout, UpdateHoldout, DeleteHoldout, AddExclusion,
     RemoveExclusion, Doing, HoldoutOps
<1> DEFINE t == txn[c]
<1> SUFFICES ASSUME ~overlap PROVE told' = [told EXCEPT !.holdout = HoldoutStory']
  <2>1. ASSUME ~overlap, told' = [told EXCEPT !.holdout = HoldoutStory']
        PROVE  /\ IsFiniteSet(flagRules') /\ Distinct(flagRules') /\ IsFiniteSet(segmentRules')
               /\ \A r \in flagRules' \cup segmentRules' : r.id <= asked
               /\ told' = Story'
    <3>1. RulesOK /\ told = Story
      BY <1>0, <2>1, Alone
    <3>2. told' = Story'
      BY <1>0, <2>1, <3>1 DEF Story, FlagStory, SegmentStory, flagVars, segmentVars
    <3> QED
      BY <1>0, <3>1, <3>2 DEF RulesOK, flagVars, segmentVars
  <2> QED
    BY <1>0, <2>1, SerialEnds
<1>1. /\ UpToDate(t.ask, t.row, t.kids) /\ told = Story /\ t.n \in Nat
      /\ holdout # Absent => holdout \in HoldoutRow /\ told.holdout # Absent /\ told.holdout.id = holdout.id
  BY <1>0, Alone
<1>2. CASE CreateHoldout(c)
  <2>1. /\ holdout' = [id |-> t.n, active |-> t.ask.active, size |-> t.ask.size]
        /\ holdout = Absent /\ exclusions' = exclusions
    BY <1>2 DEF CreateHoldout
  <2>2. holdout' # Absent /\ exclusions = {}
    BY <1>0, <1>1, <1>2, <2>1, TargetingAssumption
    DEF IInv, TargetingIntact, CreateHoldout, Doing, TargetingAskOK
  <2> QED
    BY <1>2, <2>1, <2>2 DEF CreateHoldout, HoldoutStory
<1>3. ASSUME t.ask.op \in HoldoutOps
      PROVE  /\ holdout \in HoldoutRow /\ holdout # Absent /\ t.row = holdout /\ t.kids = exclusions
             /\ StillThere(holdout, t.row) /\ StillThere(told["holdout"], t.row)
             /\ told.holdout = HoldoutDetails(holdout.id, holdout.active, holdout.size, exclusions)
  BY <1>1, <1>3 DEF UpToDate, StillThere, Story, HoldoutStory
<1>4. CASE UpdateHoldout(c)
  <2>1. t.ask.op \in HoldoutOps
    BY <1>4 DEF UpdateHoldout, Doing, HoldoutOps
  <2>2. holdout' = WrittenHoldout(holdout, t.ask) /\ exclusions' = exclusions
    BY <1>3, <1>4, <2>1 DEF UpdateHoldout
  <2>3. holdout' = [id |-> holdout.id, active |-> Shown(holdout.active, t.ask.active),
                    size |-> Shown(holdout.size, t.ask.size)]
    BY <1>3, <2>1, <2>2 DEF WrittenHoldout, Column, Shown, HoldoutRow
  <2>4. holdout' # Absent
    <3>1. t.ask.active \in BOOLEAN \cup {Null} /\ t.ask.size \in Rollouts \cup {Null}
      BY <1>0, <1>4 DEF TargetingAskOK, UpdateHoldout, Doing
    <3>2. holdout' \in HoldoutRow
      BY <1>3, <2>1, <2>3, <3>1 DEF HoldoutRow, Shown
    <3> QED
      BY <3>2, TargetingAssumption DEF HoldoutRow
  <2>5. HoldoutStory' = [told.holdout EXCEPT !.active = Shown(t.row.active, t.ask.active),
                                             !.size   = Shown(t.row.size, t.ask.size)]
    <3>1. HoldoutStory' = HoldoutDetails(holdout.id, Shown(t.row.active, t.ask.active),
                                         Shown(t.row.size, t.ask.size), exclusions)
      BY <1>3, <2>1, <2>2, <2>3, <2>4 DEF HoldoutStory
    <3>2. \A x, y : [told.holdout EXCEPT !.active = x, !.size = y] = HoldoutDetails(holdout.id, x, y, exclusions)
      <4>1. PICK d : d = told.holdout
        OBVIOUS
      <4>2. d = [id |-> holdout.id, active |-> holdout.active, size |-> holdout.size, exclusions |-> exclusions]
        BY <1>3, <2>1, <4>1 DEF HoldoutDetails
      <4>3. ASSUME NEW x, NEW y
            PROVE  [d EXCEPT !.active = x, !.size = y] = HoldoutDetails(holdout.id, x, y, exclusions)
        <5>1. DOMAIN d = {"id", "active", "size", "exclusions"}
          BY <4>2
        <5>2. d = [k \in DOMAIN d |-> d[k]] /\ d.id = holdout.id /\ d.exclusions = exclusions
          BY <4>2
        <5>3. [d EXCEPT !.active = x, !.size = y]
                = [k \in DOMAIN d |-> IF k = "size" THEN y ELSE IF k = "active" THEN x ELSE d[k]]
          BY <5>1
        <5> QED
          BY <5>1, <5>2, <5>3 DEF HoldoutDetails
      <4> QED
        BY <4>1, <4>3
    <3> QED
      BY <3>1, <3>2
  <2> QED
    BY <1>3, <1>4, <2>1, <2>5 DEF UpdateHoldout, Tell
<1>5. CASE DeleteHoldout(c)
  <2>1. t.ask.op \in HoldoutOps
    BY <1>5 DEF DeleteHoldout, Doing, HoldoutOps
  <2> QED
    BY <1>3, <1>5, <2>1 DEF DeleteHoldout, Tell, HoldoutStory
<1>6. CASE AddExclusion(c)
  <2>1. t.ask.op \in HoldoutOps
    BY <1>6 DEF AddExclusion, Doing, HoldoutOps
  <2>2. holdout' = holdout /\ exclusions' = exclusions \cup {t.ask.user}
    BY <1>3, <1>6, <2>1 DEF AddExclusion
  <2>3. HoldoutStory' = [told.holdout EXCEPT !.exclusions = @ \cup {t.ask.user}]
    BY <1>3, <2>1, <2>2 DEF HoldoutStory, HoldoutDetails
  <2> QED
    BY <1>3, <1>6, <2>1, <2>3 DEF AddExclusion, Tell
<1>7. CASE RemoveExclusion(c)
  <2>1. t.ask.op \in HoldoutOps
    BY <1>7 DEF RemoveExclusion, Doing, HoldoutOps
  <2>2. holdout' = holdout /\ exclusions' = exclusions \ {t.ask.user}
    BY <1>3, <1>7, <2>1 DEF RemoveExclusion
  <2>3. HoldoutStory' = [told.holdout EXCEPT !.exclusions = @ \ {t.ask.user}]
    BY <1>3, <2>1, <2>2 DEF HoldoutStory, HoldoutDetails
  <2> QED
    BY <1>3, <1>7, <2>1, <2>3 DEF RemoveExclusion, Tell
<1> QED
  BY <1>0, <1>2, <1>4, <1>5, <1>6, <1>7

LEMMA SerialStep == ASSUME IInv, SerialInv, [Next]_vars PROVE SerialInv'
<1>1. ASSUME NEW c \in Clients, UNCHANGED targetingVars, NEW a, NEW row, NEW kids, Begin(c, a, row, kids),
             a.op \in {"create_metric", "update_metric", "delete_metric", "create_experiment",
                       "create_guardrail", "update_guardrail", "delete_guardrail"}
      PROVE  SerialInv'
  BY <1>1, SerialBegins DEF Body, UpToDate, FlagOps, SegmentOps, HoldoutOps
<1>2. ASSUME NEW c \in Clients, UNCHANGED targetingVars, Done(c), txn[c] # Idle PROVE SerialInv'
  <2>1. ASSUME ~overlap
        PROVE  /\ IsFiniteSet(flagRules') /\ Distinct(flagRules') /\ IsFiniteSet(segmentRules')
               /\ \A r \in flagRules' \cup segmentRules' : r.id <= asked
               /\ told' = Story'
    BY <1>2, <2>1 DEF SerialInv, RulesOK, targetingVars, Story, FlagStory, SegmentStory, HoldoutStory
  <2> QED
    BY <1>2, <2>1, SerialEnds
<1>3. ASSUME NEW c \in Clients, AskFlag(c) PROVE SerialInv'
  <2>1. PICK a \in FlagAsks(SegmentRefs, {r.id : r \in flagRules}) :
           /\ (a.op = "create_flag") <=> (flag = Absent)
           /\ Begin(c, a, flag, {r.id : r \in flagRules})
    BY <1>3 DEF AskFlag
  <2>2. a.op \in FlagOps \cup {"create_flag"}
    BY DEF FlagAsks, FlagOps
  <2>3. /\ a.op = "create_flag" => a.segments = {} \/ \E s \in a.segments : a.segments = {s}
        /\ a.op = "delete_flag_rule" => a.rule \in {r.id : r \in flagRules}
    BY DEF FlagAsks
  <2>4. Body(a) /\ UpToDate(a, flag, {r.id : r \in flagRules})
    BY <2>1, <2>2, <2>3 DEF Body, UpToDate, FlagOps, SegmentOps, HoldoutOps
  <2> QED
    BY <1>3, <2>1, <2>4, SerialBegins DEF AskFlag
<1>4. ASSUME NEW c \in Clients, AskSegment(c) PROVE SerialInv'
  <2>1. PICK a \in SegmentAsks(segmentRules) :
           /\ (a.op = "create_segment") <=> (segment = Absent)
           /\ Begin(c, a, segment, IF a.op = "link_experiments" THEN links ELSE segmentRules)
    BY <1>4 DEF AskSegment
  <2>2. a.op \in SegmentOps \cup {"create_segment"}
    BY DEF SegmentAsks, SegmentOps
  <2>3. /\ a.op = "create_segment" => IsFiniteSet(a.rules)
        /\ a.op = "update_segment" => a.rules = Null \/ IsFiniteSet(a.rules)
        /\ a.op = "delete_segment_rule" => a.rule \in segmentRules
    BY DEF SegmentAsks, RuleLists
  <2>4. Body(a) /\ UpToDate(a, segment, IF a.op = "link_experiments" THEN links ELSE segmentRules)
    BY <2>1, <2>2, <2>3 DEF Body, UpToDate, FlagOps, SegmentOps, HoldoutOps
  <2> QED
    BY <1>4, <2>1, <2>4, SerialBegins DEF AskSegment
<1>5. ASSUME NEW c \in Clients, AskHoldout(c) PROVE SerialInv'
  <2>1. PICK a \in HoldoutAsks :
           /\ (a.op = "create_holdout") <=> (holdout = Absent)
           /\ Begin(c, a, holdout, exclusions)
    BY <1>5 DEF AskHoldout
  <2>2. a.op \in HoldoutOps \cup {"create_holdout"}
    BY DEF HoldoutAsks, HoldoutOps
  <2>3. Body(a) /\ UpToDate(a, holdout, exclusions)
    BY <2>1, <2>2 DEF Body, UpToDate, FlagOps, SegmentOps, HoldoutOps
  <2> QED
    BY <1>5, <2>1, <2>3, SerialBegins DEF AskHoldout
<1>6. ASSUME NEW c \in Clients, MeasuresStep(c), UNCHANGED targetingVars PROVE SerialInv'
  <2>1. CASE AskTemplate(c)
    <3>1. PICK a \in TemplateAsks : Begin(c, a, template, {})
      BY <2>1 DEF AskTemplate
    <3> QED
      BY <1>1, <1>6, <3>1 DEF TemplateAsks
  <2>2. CASE AskExperiment(c)
    <3>1. PICK a \in MetricAsks : Begin(c, a, template, {})
      BY <2>2 DEF AskExperiment
    <3> QED
      BY <1>1, <1>6, <3>1 DEF MetricAsks
  <2>3. CASE AskGuardrail(c)
    <3>1. ASSUME NEW a \in GuardrailAsks({m.id : m \in {k \in metrics : k.guardrail}}), Begin(c, a, Absent, {})
          PROVE  SerialInv'
      BY <1>1, <1>6, <3>1 DEF GuardrailAsks
    <3>2. ASSUME NEW g \in guardrails, NEW a \in GuardrailChanges, Begin(c, a, g, {})
          PROVE  SerialInv'
      BY <1>1, <1>6, <3>2 DEF GuardrailChanges
    <3> QED
      BY <2>3, <3>1, <3>2 DEF AskGuardrail
  <2>4. CASE CreateTemplate(c) \/ UpdateTemplate(c) \/ DeleteTemplate(c) \/ CreateExperiment(c)
             \/ CreateGuardrail(c) \/ UpdateGuardrail(c) \/ DeleteGuardrail(c)
    <3>1. Done(c) /\ txn[c] # Idle
      BY <2>4, Busy DEF CreateTemplate, UpdateTemplate, DeleteTemplate, CreateExperiment,
         CreateGuardrail, UpdateGuardrail, DeleteGuardrail
    <3> QED
      BY <1>2, <1>6, <3>1
  <2> QED
    BY <1>6, <2>1, <2>2, <2>3, <2>4 DEF MeasuresStep, TemplateStep, GuardrailStep
<1>7. ASSUME NEW c \in Clients, Step(c) PROVE SerialInv'
  <2>1. CASE TargetingStep(c)
    BY <1>3, <1>4, <1>5, <2>1, FlagsAreTold, SegmentsAreTold, HoldoutsAreTold
    DEF TargetingStep, FlagStep, SegmentStep, HoldoutStep
  <2>2. CASE GiveUp(c)
    BY <1>2, <2>2 DEF GiveUp, Fail
  <2> QED
    BY <1>6, <1>7, <2>1, <2>2 DEF Step
<1>8. CASE UNCHANGED vars
  <2>1. UNCHANGED <<targetingVars, txn, asked, overlap>>
    BY <1>8 DEF vars, requestVars
  <2>2. \A c \in Clients : Loaded(txn[c])' <=> Loaded(txn[c])
    BY <2>1 DEF targetingVars, Loaded, Body, UpToDate
  <2> QED
    BY <2>1, <2>2 DEF SerialInv, LoadedOK, RulesOK, NumbersOK, targetingVars, Story, FlagStory,
       SegmentStory, HoldoutStory, Distinct
<1> QED
  BY <1>7, <1>8 DEF Next

\* As long as requests do not overlap, who reads the audit log knows the
\* flag, its rules, the segment and the holdout as they are, for any number
\* of requests, rules, links and exclusions: the counts that the handlers
\* take from the objects in their sessions are those of the tables.
THEOREM SerialLogIsRight == Spec => []LogTellsRows
<1>1. SerialInv => LogTellsRows
  BY DEF SerialInv, LogTellsRows
<1> QED
  BY <1>1, SerialInit, SerialStep, InitOK, StepOK, PTL DEF Spec

=============================================================================
