------------------------------ MODULE Measures ------------------------------
(***************************************************************************)
(* What an experiment is measured by: a template of a metric (a custom     *)
(* metric), the metrics that experiments copy from it, and the guardrails  *)
(* of those (custom_metric_service.py, guardrail_service.py,               *)
(* experiment_service.create_experiment and their routers).                *)
(*                                                                         *)
(* Names are opaque; an event name is Own, the one of the numerator, or    *)
(* Other.  A list of filters is Null, empty or not.                        *)
(***************************************************************************)
EXTENDS Requests

CONSTANTS Thresholds

VARIABLES
    template,       \* custom_metrics: the row of one key, or Absent
    metrics,        \* metrics: the copies of experiments
    guardrails      \* guardrail_configs

measureVars == <<template, metrics, guardrails>>

FilterList == {Null, "empty", "some"}

Event == {Null, "own", "other"}

Aggregation == {Null, "sum", "unique_count"}

Template ==
    [id : Nat, type : {"conversion", "revenue"}, filters : FilterList,
     denominator : Event, aggregation : Aggregation, denominatorFilters : FilterList]

Metric ==
    [id : Nat, type : {"conversion", "revenue"}, filters : FilterList, denominator : Event,
     guardrail : BOOLEAN, source : Nat \cup {Null}]

Direction == {"above", "below"}
Severity  == {"critical", "warning"}

Guardrail ==
    [id : Nat, metric : Nat, direction : Direction, severity : Severity,
     threshold : Thresholds, enabled : BOOLEAN]

ASSUME MeasuresAssumption == Absent \notin Template

-----------------------------------------------------------------------------
(* Templates.                                                                *)

\* validate_definition.
ValidDefinition(d) ==
    /\ d.denominator # Null => d.type # "conversion" /\ d.denominator # "own" /\ d.aggregation # Null
    /\ d.aggregation # "unique_count"

\* _filters_to_dict reads the attributes of the filters of a body; the ones
\* of a row are dictionaries and have none.
Readable(filters) == filters # "some"

TemplateAsks ==
    [op : {"create_metric"}, type : {"conversion", "revenue"}, filters : FilterList,
     denominator : Event, aggregation : Aggregation, denominatorFilters : FilterList]
      \cup [op : {"update_metric"}, filters : FilterList, denominator : Event,
            aggregation : Aggregation, denominatorFilters : FilterList]
      \cup [op : {"delete_metric"}]

AskTemplate(c) ==
    /\ \E a \in TemplateAsks :
          /\ (a.op = "create_metric") <=> (template = Absent)
          /\ a.op = "create_metric" => ValidDefinition(a)
          /\ Begin(c, a, template, {})
    /\ UNCHANGED measureVars

\* create_custom_metric.
CreateTemplate(c) ==
    LET t == txn[c] IN
    /\ Doing(c, "create_metric")
    /\ template = Absent
    /\ template' = [id |-> t.n, type |-> t.ask.type, filters |-> t.ask.filters,
                    denominator |-> t.ask.denominator, aggregation |-> t.ask.aggregation,
                    denominatorFilters |-> t.ask.denominatorFilters]
    /\ Done(c)
    /\ UNCHANGED <<metrics, guardrails>>

\* The two validations of an update, in the order they are made: the one for
\* new filters sees the denominator of the row, the one for new filters of
\* the denominator the row with all else the body sets.
FiltersPass(row, a) ==
    a.filters # Null => Readable(row.denominatorFilters) /\ ValidDefinition(row)

DenominatorFiltersPass(row, a) ==
    a.denominatorFilters # Null =>
        /\ Readable(Shown(row.filters, a.filters))
        /\ ValidDefinition([row EXCEPT !.denominator = Shown(@, a.denominator),
                                       !.aggregation = Shown(@, a.aggregation)])

\* update_custom_metric: a new event or aggregation of the denominator alone
\* is not validated.
WrittenTemplate(loaded, a) ==
    [template EXCEPT
        !.filters            = Column(@, loaded.filters, a.filters),
        !.denominator        = Column(@, loaded.denominator, a.denominator),
        !.aggregation        = Column(@, loaded.aggregation, a.aggregation),
        !.denominatorFilters = Column(@, loaded.denominatorFilters, a.denominatorFilters)]

UpdateTemplate(c) ==
    LET t == txn[c] IN
    /\ Doing(c, "update_metric")
    /\ StillThere(template, t.row)
    /\ FiltersPass(t.row, t.ask)
    /\ DenominatorFiltersPass(t.row, t.ask)
    /\ template' = WrittenTemplate(t.row, t.ask)
    /\ Done(c)
    /\ UNCHANGED <<metrics, guardrails>>

\* delete_custom_metric: the copies stay, without the reference.
DeleteTemplate(c) ==
    LET t == txn[c] IN
    /\ Doing(c, "delete_metric")
    /\ IF StillThere(template, t.row)
         THEN /\ template' = Absent
              /\ metrics' = {[m EXCEPT !.source = IF @ = t.row.id THEN Null ELSE @] : m \in metrics}
         ELSE UNCHANGED <<template, metrics>>
    /\ Done(c)
    /\ UNCHANGED <<guardrails>>

-----------------------------------------------------------------------------
(* Experiments that are created with a metric.                               *)

MetricAsks ==
    [op : {"create_experiment"}, template : BOOLEAN, guardrail : BOOLEAN,
     type : {"revenue"}, filters : {Null}, denominator : {Null}]
      \cup [op : {"create_experiment"}, template : {FALSE}, guardrail : {TRUE},
            type : {"conversion", "revenue"}, filters : {"some"}, denominator : Event]

\* MetricCreate._validate looks at the inline fields only.
ValidMetric(a) == a.denominator # Null => a.type # "conversion" /\ a.denominator # "own"

\* copy_to_metric: all but the aggregation and the filters of the denominator.
CopyToMetric(row) ==
    [type |-> row.type, filters |-> row.filters, denominator |-> row.denominator, source |-> row.id]

Inline(a) ==
    [type |-> a.type, filters |-> a.filters, denominator |-> a.denominator, source |-> Null]

AskExperiment(c) ==
    /\ \E a \in MetricAsks :
          /\ ValidMetric(a)
          /\ a.template => template # Absent
          /\ Begin(c, a, template, {})
    /\ UNCHANGED measureVars

\* _resolve_metric_kwargs
Resolved(t) == IF t.ask.template THEN CopyToMetric(t.row) ELSE Inline(t.ask)

\* create_experiment: the reference to a template that is gone violates the
\* foreign key.
CreateExperiment(c) ==
    LET t    == txn[c]
        copy == Resolved(t)
    IN
    /\ Doing(c, "create_experiment")
    /\ t.ask.template => StillThere(template, t.row)
    /\ metrics' = metrics \cup
         {[id |-> t.n, type |-> copy.type, filters |-> copy.filters, denominator |-> copy.denominator,
           guardrail |-> t.ask.guardrail, source |-> copy.source]}
    /\ Done(c)
    /\ UNCHANGED <<template, guardrails>>

-----------------------------------------------------------------------------
(* Guardrails.                                                               *)

GuardrailAsks(marked) ==
    [op : {"create_guardrail"}, metric : marked, direction : Direction, severity : Severity,
     threshold : Thresholds, enabled : BOOLEAN]

GuardrailChanges ==
    [op : {"update_guardrail"}, severity : Severity \cup {Null}, threshold : Thresholds \cup {Null},
     enabled : BOOLEAN \cup {Null}]
      \cup [op : {"delete_guardrail"}]

\* _validate_metric_for_guardrail: only a metric that is marked.
AskGuardrail(c) ==
    /\ \/ \E a \in GuardrailAsks({m.id : m \in {k \in metrics : k.guardrail}}) : Begin(c, a, Absent, {})
       \/ \E g \in guardrails, a \in GuardrailChanges : Begin(c, a, g, {})
    /\ UNCHANGED measureVars

\* uq_guardrail_exp_metric_dir_severity
Clash(g, h) == g.metric = h.metric /\ g.direction = h.direction /\ g.severity = h.severity

CreateGuardrail(c) ==
    LET t == txn[c]
        g == [id |-> t.n, metric |-> t.ask.metric, direction |-> t.ask.direction,
              severity |-> t.ask.severity, threshold |-> t.ask.threshold, enabled |-> t.ask.enabled]
    IN
    /\ Doing(c, "create_guardrail")
    /\ \A h \in guardrails : ~Clash(g, h)
    /\ guardrails' = guardrails \cup {g}
    /\ Done(c)
    /\ UNCHANGED <<template, metrics>>

\* The row of a guardrail as an update leaves it.
Updated(g, row, a) ==
    [g EXCEPT !.severity  = Column(@, row.severity, a.severity),
              !.threshold = Column(@, row.threshold, a.threshold),
              !.enabled   = Column(@, row.enabled, a.enabled)]

\* update_guardrail: a severity that another guardrail of the metric has
\* violates the constraint, which nobody catches (500).
UpdateGuardrail(c) ==
    LET t == txn[c] IN
    /\ Doing(c, "update_guardrail")
    /\ \E g \in guardrails :
          /\ g.id = t.row.id
          /\ \A h \in guardrails \ {g} : ~Clash(Updated(g, t.row, t.ask), h)
          /\ guardrails' = (guardrails \ {g}) \cup {Updated(g, t.row, t.ask)}
    /\ Done(c)
    /\ UNCHANGED <<template, metrics>>

DeleteGuardrail(c) ==
    LET t == txn[c] IN
    /\ Doing(c, "delete_guardrail")
    /\ guardrails' = {g \in guardrails : g.id # t.row.id}
    /\ Done(c)
    /\ UNCHANGED <<template, metrics>>

-----------------------------------------------------------------------------
MeasuresInit ==
    /\ template \in {Absent} \cup {d \in Template : d.id = 0 /\ ValidDefinition(d)}
    /\ metrics = {} /\ guardrails = {}

TemplateStep(c) ==
    \/ AskTemplate(c) \/ CreateTemplate(c) \/ UpdateTemplate(c) \/ DeleteTemplate(c)
    \/ AskExperiment(c) \/ CreateExperiment(c)

GuardrailStep(c) ==
    AskGuardrail(c) \/ CreateGuardrail(c) \/ UpdateGuardrail(c) \/ DeleteGuardrail(c)

MeasuresStep(c) == TemplateStep(c) \/ GuardrailStep(c)

-----------------------------------------------------------------------------
(* The constraints of the tables.                                            *)

MeasuresIntact ==
    /\ template \in Template \cup {Absent}
    /\ metrics \subseteq Metric /\ guardrails \subseteq Guardrail
    /\ \A m \in metrics : m.source # Null => template # Absent /\ template.id = m.source
    /\ \A g, h \in guardrails : Clash(g, h) => g = h
    /\ \A g \in guardrails : \E m \in metrics : m.id = g.metric /\ m.guardrail

=============================================================================
