------------------------------ MODULE Verdict ------------------------------
(***************************************************************************)
(* What an analysis decides (backend/app/services/stats): which test runs, *)
(* the correction of its p-values, the guardrails, the winners, the        *)
(* insights and the events that are sent out for them.                     *)
(*                                                                         *)
(* The numerics are abstracted to estimates: a p-value in thousandths, the *)
(* sign of the effect, the relative lift in tenths of a percent.  NaN is a *)
(* p-value that is never significant.  Only the test of ratio metrics is   *)
(* calculated, since what it compares does not depend on the numerics.     *)
(***************************************************************************)
EXTENDS Integers, FiniteSets, FiniteSetsExt, Functions

CONSTANTS
    NoValue,        \* None
    Control,        \* the variant name "control"
    Before(_, _)    \* Before(a, b): name a sorts before name b

ASSUME NoValueIsNoNumber == NoValue \notin Int \cup BOOLEAN

Alpha == 50     \* 0.05

NoTest == [p |-> NoValue, effect |-> 0, lift |-> NoValue]

\* _find_control: "control", or the first variant in the order of names.
FindControl(variants) ==
    IF Control \in variants THEN Control
    ELSE CHOOSE v \in variants : \A w \in variants \ {v} : Before(v, w)

-----------------------------------------------------------------------------
(* A sample is [n, varies, normal]; est is what the numerics of a test that  *)
(* runs come to.                                                             *)

MinSample == 30

EnoughUsers(c, t) == c.n >= MinSample /\ t.n >= MinSample

\* check_normality
CheckNormality(s) == s.n < 3 \/ s.n > 5000 \/ ~s.varies \/ s.normal

\* z_test_proportions: nothing to test when all users of both converted, or
\* none.
ZTest(c, t, est) == IF EnoughUsers(c, t) /\ (c.varies \/ t.varies) THEN est ELSE NoTest

\* welch_t_test
WelchTest(c, t, est) == IF EnoughUsers(c, t) THEN est ELSE NoTest

\* mann_whitney_test
MannWhitneyTest(c, t, est) == IF EnoughUsers(c, t) THEN est ELSE NoTest

\* The choice of run_analysis between the two.
ContinuousTest(c, t, est) ==
    IF ~(CheckNormality(c) /\ CheckNormality(t)) /\ t.n < 5000
      THEN [used |-> "mann_whitney", est |-> MannWhitneyTest(c, t, est)]
      ELSE [used |-> "welch_t_test", est |-> WelchTest(c, t, est)]

\* Per-user numerators and denominators of a ratio metric: a users with
\* (x, y) and b users with (u, v).
RatioSample(a, x, y, b, u, v) == [a |-> a, x |-> x, y |-> y, b |-> b, u |-> u, v |-> v]

RatioUsers(s)  == s.a + s.b
Numerator(s)   == s.a * s.x + s.b * s.u
Denominator(s) == s.a * s.y + s.b * s.v

\* A linearised observation z = x - theta * y, times the denominator of theta;
\* the sum of those of a sample, and whether they differ from each other.
Z(s, x, y) == x * Denominator(s) - Numerator(s) * y

Linearised(s) == s.a * Z(s, s.x, s.y) + s.b * Z(s, s.u, s.v)

Varies(s) == s.a > 0 /\ s.b > 0 /\ Z(s, s.x, s.y) # Z(s, s.u, s.v)

\* delta_method_test: each sample is linearised around its own theta, and
\* the Welch test compares the means of the two.  Equal means have p = 1, but
\* where nothing varies the p-value is 0 / 0 or what rounding makes of it.
DeltaMethodTest(c, t, est) ==
    IF RatioUsers(c) < MinSample \/ RatioUsers(t) < MinSample
       \/ Denominator(c) = 0 \/ Denominator(t) = 0
      THEN NoTest
      ELSE IF /\ Linearised(c) * RatioUsers(t) * Denominator(t)
                   = Linearised(t) * RatioUsers(c) * Denominator(c)
              /\ Varies(c) \/ Varies(t)
             THEN [est EXCEPT !.p = 1000] ELSE est

\* always_valid_pvalue: None when a sample is small or nothing varies; TRUE
\* and FALSE say whether the boundary is crossed, which the numerics decide.
AlwaysValid(c, t, crossed) ==
    IF EnoughUsers(c, t) /\ (c.varies \/ t.varies) THEN crossed ELSE NoValue

\* _maybe_sequential: only for experiments that are sequential.
MaybeSequential(isSequential, c, t, crossed) ==
    IF isSequential THEN AlwaysValid(c, t, crossed) ELSE NoValue

-----------------------------------------------------------------------------
(* Corrections: p is a function from the tests to their p-values.            *)

\* Mutant: only the p-values below their own threshold.
BenjaminiHochbergOwnThreshold(p) ==
    LET n  == Cardinality(DOMAIN p)
        by == CHOOSE f \in Bijection(1 .. n, DOMAIN p) :
                \A i, j \in 1 .. n : i < j => p[f[i]] <= p[f[j]]
    IN {by[i] : i \in {j \in 1 .. n : p[by[j]] * n <= j * Alpha}}

\* benjamini_hochberg: the tests that remain significant.  One p-value is
\* compared with <, several with <=.
BenjaminiHochberg(p) ==
    LET n     == Cardinality(DOMAIN p)
        by    == CHOOSE f \in Bijection(1 .. n, DOMAIN p) :
                   \A i, j \in 1 .. n : i < j => p[f[i]] <= p[f[j]]
        below == {i \in 1 .. n : p[by[i]] * n <= i * Alpha}
    IN IF n = 1 THEN {k \in DOMAIN p : p[k] < Alpha}
       ELSE IF below = {} THEN {} ELSE {by[i] : i \in 1 .. Max(below)}

\* check_srm: chisquare refuses counts whose expected sum is not the sum of
\* the observed; the splits are in hundredths of a percent.
SrmRuns(splits, total) ==
    total = 0 \/ MapThenSumSet(LAMBDA v : splits[v], DOMAIN splits) = 10000

-----------------------------------------------------------------------------
(* An experiment under analysis: its variants, whether it is sequential and   *)
(* has a mismatch (srm), and for every metric                                 *)
(* [primary, guardrail, type, configs] and for every treatment the data       *)
(* [c, t, est, insensitive, crossed]: the samples, the estimate, whether the  *)
(* achieved MDE is over half of the mean, the outcome of the sequential test. *)

\* _direction_matches; thresholds are positive.
DirectionMatches(config, lift) ==
    IF config.direction = "below" THEN lift < -config.threshold ELSE lift > config.threshold

\* check_threshold
CheckThreshold(config, row) ==
    row.lift # NoValue /\ row.significant /\ DirectionMatches(config, row.lift)

\* The treatments: the variants but the control.
Treatments(exp) == exp.variants \ {FindControl(exp.variants)}

Rows(exp) == (DOMAIN exp.metrics) \X Treatments(exp)

\* The branches of run_analysis: which test a metric gets.
TestOf(exp, m, v) ==
    LET pair == exp.data[m][v]
    IN CASE exp.metrics[m].type = "conversion" -> ZTest(pair.c, pair.t, pair.est)
         [] exp.metrics[m].type = "ratio"      -> DeltaMethodTest(pair.c, pair.t, pair.est)
         [] OTHER                              -> ContinuousTest(pair.c, pair.t, pair.est).est

\* Ratio metrics have no sequential test.
Crossed(exp, m, v) ==
    /\ exp.metrics[m].type # "ratio"
    /\ MaybeSequential(exp.sequential, exp.data[m][v].c, exp.data[m][v].t, exp.data[m][v].crossed)
         \notin {FALSE, NoValue}

\* The achieved MDE is worked out for a control of enough users, and is over
\* half of the mean of the control.
Insensitive(exp, m, v) ==
    LET c == exp.data[m][v].c
    IN /\ (IF exp.metrics[m].type = "ratio" THEN RatioUsers(c) ELSE c.n) >= MinSample
       /\ exp.data[m][v].insensitive

\* The rows of run_analysis before the correction.
RawRow(exp, m, v) ==
    LET e == TestOf(exp, m, v)
    IN [p |-> e.p, effect |-> e.effect, lift |-> e.lift,
        significant |-> e.p # NoValue /\ e.p < Alpha,
        insensitive |-> Insensitive(exp, m, v)]

\* The p-values of the primary metrics go into one correction.
PrimaryTests(exp) ==
    {mv \in Rows(exp) :
        exp.metrics[mv[1]].primary /\ TestOf(exp, mv[1], mv[2]).p # NoValue}

CorrectedRows(exp) ==
    LET primary == PrimaryTests(exp)
        kept    == BenjaminiHochberg([mv \in primary |-> TestOf(exp, mv[1], mv[2]).p])
    IN [mv \in Rows(exp) |->
          IF mv \in primary
            THEN [RawRow(exp, mv[1], mv[2]) EXCEPT !.significant = mv \in kept]
            ELSE RawRow(exp, mv[1], mv[2])]

\* evaluate_metric_guardrails: every enabled configuration against every
\* variant that is not called "control"; the control of an experiment that
\* has none of this name has no lift, so it never fires.
FiredConfigs(exp, rows, m, severity) ==
    {cv \in exp.metrics[m].configs \X Treatments(exp) :
        cv[1].severity = severity /\ CheckThreshold(cv[1], rows[m, cv[2]])}

\* The fallback of a guardrail metric without a configuration.
LegacyViolation(exp, rows, m) ==
    \E v \in Treatments(exp) : rows[m, v].significant /\ rows[m, v].effect < 0

GuardrailViolated(exp, rows, m) ==
    /\ exp.metrics[m].guardrail
    /\ IF exp.metrics[m].configs # {}
         THEN FiredConfigs(exp, rows, m, "critical") # {}
         ELSE LegacyViolation(exp, rows, m)

AnyViolated(exp, rows) == \E m \in DOMAIN exp.metrics : GuardrailViolated(exp, rows, m)

\* Mutant: the guardrails are not asked.
WinnersUnguarded(exp, rows) ==
    {mv \in DOMAIN rows :
        exp.metrics[mv[1]].primary /\ rows[mv].significant /\ rows[mv].effect > 0}

\* is_winner, set by run_analysis.
Winners(exp, rows) ==
    {mv \in DOMAIN rows :
        /\ exp.metrics[mv[1]].primary
        /\ rows[mv].significant /\ rows[mv].effect > 0
        /\ ~AnyViolated(exp, rows)}

-----------------------------------------------------------------------------
(* interpret: insights, [type, metric, variant].                             *)

Insight(type, m, v) == [type |-> type, metric |-> m, variant |-> v]

\* Insights of the experiment and of a guardrail metric.
ExperimentInsights(exp, rows) ==
    {i \in {Insight("guardrail_violated", NoValue, NoValue)} : AnyViolated(exp, rows)}
      \cup {i \in {Insight("srm_detected", NoValue, NoValue)} : exp.srm}
      \cup {Insight("guardrail_warning", m, NoValue) :
              m \in {k \in DOMAIN exp.metrics :
                       /\ exp.metrics[k].guardrail
                       /\ FiredConfigs(exp, rows, k, "warning") # {}}}

ClearlyBetter(row) == row.p < 10 /\ row.lift # NoValue /\ (row.lift > 20 \/ row.lift < -20)

\* The chain of if and elif for one variant that has been tested.
VerdictOf(exp, rows, mv) ==
    LET row == rows[mv]
        ok  == row.significant /\ row.effect > 0 /\ ~AnyViolated(exp, rows)
    IN CASE ok /\ ClearlyBetter(row)      -> {"clear_winner"}
         [] ok /\ ~ClearlyBetter(row)     -> {"likely_winner"}
         [] ~row.significant /\ row.insensitive   -> {"underpowered"}
         [] ~row.significant /\ ~row.insensitive  -> {"no_significance"}
         [] OTHER                         -> {}

\* The insights of the variants are for experiments that have a "control".
VariantInsights(exp, rows) ==
    IF Control \notin exp.variants THEN {}
    ELSE UNION {
        {Insight(t, mv[1], mv[2]) :
            t \in (IF rows[mv].p = NoValue THEN {} ELSE VerdictOf(exp, rows, mv))
                    \cup (IF Crossed(exp, mv[1], mv[2]) THEN {"sequential_boundary_crossed"} ELSE {})}
        : mv \in DOMAIN rows}

Interpret(exp, rows) == ExperimentInsights(exp, rows) \cup VariantInsights(exp, rows)

\* _publish_sse_events and _enqueue_webhooks look for these insights; the
\* third is a type that interpret never writes.
EventOf(insight) ==
    CASE insight.type = "clear_winner"        -> {"winner_detected"}
      [] insight.type = "guardrail_violated"  -> {"guardrail_violated"}
      [] insight.type = "sequential_boundary" -> {"sequential_boundary_crossed"}
      [] OTHER                                -> {}

\* srm_alert is sent once, beside the events of the insights.
PublishedEvents(exp, rows) ==
    (IF exp.srm THEN {"srm_alert"} ELSE {})
      \cup UNION {EventOf(i) : i \in Interpret(exp, rows)}

=============================================================================
