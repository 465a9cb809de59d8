------------------------------ MODULE MCRules ------------------------------
(***************************************************************************)
(* The pure rules of the service over bounded inputs.  A state is a        *)
(* question that a caller may ask (how do these splits divide the buckets, *)
(* does this filter match, what does this flag say, what follows from      *)
(* these tests) and, after one step, the answer of the code; properties    *)
(* compare the answer with what the rule promises.                         *)
(***************************************************************************)
EXTENDS Bucketing, Flags, Samples, Verdict, TLC

VARIABLES question, answer

vars == <<question, answer>>

\* answer is <<>>, then <<the answer>>.
Open == <<>>

-----------------------------------------------------------------------------
(* Splits: around a whole percent, a third and a half, and the extremes.     *)

SplitValues == {1, 50, 99, 100, 101, 3333, 3334, 4999, 5000, 5001, 9899,
                9900, 9901, 9950, 9999}

VariantSets ==
    {V \in {{[name |-> i, split |-> s[i]] : i \in DOMAIN s} :
              s \in (SplitValues \X SplitValues) \cup (SplitValues \X SplitValues \X SplitValues)} :
        ValidSplits(V)}

SplitQuestions ==
    [kind : {"split"}, variants : VariantSets, traffic : {1, 99, 100, 101, 5000, 9901, 10000}]

\* Who gets what when the database or the cached JSON lists the variants
\* in the order vs.
Shares(vs) == [v \in Range(vs) \cup {[name |-> NoVariant]} |->
                 Cardinality({b \in BucketNo : PickVariant(b, vs) = v.name})]

SplitAnswer ==
    [shares   |-> {Shares(vs) : vs \in Bijection(1 .. Cardinality(question.variants),
                                                question.variants)},
     admitted |-> Cardinality({b \in BucketNo : InTraffic(b, question.traffic)}),
     srmRuns  |-> SrmRuns([v \in question.variants |-> v.split], 100)]

AnswerSplit == question.kind = "split" /\ answer' = <<SplitAnswer>>

-----------------------------------------------------------------------------
(* Filters on two fields.                                                    *)

De == Text({"de"}, FALSE)
DE == Text({"de"}, TRUE)

Scalars == {De, DE, Text({"1"}, FALSE), Text({"de", "1"}, FALSE), Number("1"), Number("2"),
            Bool("true"), Bool("false")}

Values == Scalars \cup {List({}), List({De}), List({De, Number("1")}), List({Number("1"), Number("2")})}

FiltersOn(field, values) ==
    {Filter(field, op, v) : op \in Operator, v \in values}
      \cup {[Filter(field, op, v) EXCEPT !.enabled = FALSE] : op \in {"eq", "lt"}, v \in {De, Number("2")}}

Props(fields, values) == UNION {[F -> values] : F \in SUBSET fields}

FilterQuestions ==
    [kind : {"filter"},
     filters : {{f} : f \in FiltersOn(1, Values)} \cup {{}},
     props : Props({1}, Scalars)]
    \cup
    [kind : {"filter"},
     filters : {{f, g} : f \in FiltersOn(1, {De, Number("1")}), g \in FiltersOn(2, {De, Number("2")})},
     props : Props({1, 2}, {De, DE, Number("2")})]

FilterAnswer ==
    [preview |-> EvaluatePreview(question.filters, question.props),
     segment |-> EvaluateSegment(question.filters, question.props),
     query   |-> QueryRow(question.filters, question.props)]

AnswerFilter == question.kind = "filter" /\ answer' = <<FilterAnswer>>

-----------------------------------------------------------------------------
(* Flags with up to two rules.                                               *)

Germans == {Filter(1, "eq", De)}

Rules(order, segments) ==
    [order : {order}, priority : {0, 1}, segment : segments, rollout : {0, 25, 100}, enabled : BOOLEAN]

RuleSets ==
    {{}} \cup {{r} : r \in Rules(1, {NoSegment, {}, Germans})}
         \cup {{r, s} : r \in Rules(1, {NoSegment, Germans}), s \in Rules(2, {NoSegment, {}, Germans})}

FlagQuestions ==
    [kind : {"flag"},
     flag : [enabled : BOOLEAN, rollout : {0, 25, 100}, rules : RuleSets],
     props : {<<>>, <<De>>, <<DE>>}]

FlagAnswer ==
    [batch |-> [b \in {0, 24, 25, 99} |-> EvaluateInBatch(question.flag, b, question.props)],
     alone |-> [b \in {0, 24, 25, 99} |-> EvaluateAlone(question.flag, b, question.props)]]

AnswerFlag == question.kind = "flag" /\ answer' = <<FlagAnswer>>

\* Holdouts and linked segments, as the assignment service asks them.
AudienceQuestions ==
    [kind : {"audience"}, linked : BOOLEAN, enabled : BOOLEAN, excluded : BOOLEAN,
     bucket : {0, 4, 5, 99}, size : {0, 5, 100},
     segments : SUBSET {{}, Germans, {Filter(1, "neq", De)}}, props : {<<>>, <<De>>, <<DE>>}]

AudienceAnswer ==
    [held  |-> InLinkedHoldout(question.linked, question.enabled, question.excluded,
                               question.bucket, question.size),
     meant |-> MatchesAnySegment(question.segments, question.props)]

AnswerAudience == question.kind = "audience" /\ answer' = <<AudienceAnswer>>

-----------------------------------------------------------------------------
(* Two users of a variant, assigned at 1 and 2, with up to two events each.  *)

Events == [name : {"a", "b"}, at : {1, 2}, value : {Null, 5}, props : {<<>>, <<De>>}]

Users(events1, events2) == {[assigned |-> 1, events |-> events1], [assigned |-> 2, events |-> events2]}

SampleQuestions ==
    {[kind |-> "sample", users |-> Users(E1, E2), filters |-> filters] :
        E1 \in {E \in SUBSET Events : Cardinality(E) <= 1},
        E2 \in {E \in SUBSET Events : Cardinality(E) <= 2},
        filters \in {{}, Germans}}

SampleAnswer ==
    [conversion |-> ConversionData(question.users, "a", question.filters),
     revenue    |-> RevenueData(question.users, "a", question.filters),
     ratio      |-> RatioData(question.users, "a", "b", question.filters)]

AnswerSample == question.kind = "sample" /\ answer' = <<SampleAnswer>>

-----------------------------------------------------------------------------
(* Corrections of up to four p-values, around the thresholds.                *)

PValues == {0, 12, 13, 16, 17, 25, 26, 33, 37, 38, 49, 50, 51, 1000}

CorrectionQuestions ==
    [kind : {"correction"}, p : (UNION {[1 .. n -> PValues] : n \in 0 .. 3})
                                   \cup [1 .. 4 -> {0, 12, 13, 25, 38, 50, 51}]]

CorrectionAnswer == BenjaminiHochberg(question.p)

AnswerCorrection == question.kind = "correction" /\ answer' = <<CorrectionAnswer>>

-----------------------------------------------------------------------------
(* Ratio metrics.                                                            *)

RatioSamples ==
    {RatioSample(n[1], x, y, n[2], u, v) :
        n \in {<<29, 1>>, <<10, 20>>, <<28, 1>>}, x \in {0, 3}, u \in {0, 5},
        y \in {0, 1, 2}, v \in {0, 1}}

Strong == [p |-> 1, effect |-> 1, lift |-> 100]

\* Where the test leaves it to the numerics, they may find a lot or nothing.
Weak == [Strong EXCEPT !.p = 200]

RatioQuestions ==
    [kind : {"ratio"}, c : RatioSamples, t : RatioSamples, est : {Strong, Weak}]

RatioAnswer == DeltaMethodTest(question.c, question.t, question.est)

AnswerRatio == question.kind = "ratio" /\ answer' = <<RatioAnswer>>

-----------------------------------------------------------------------------
(* Analyses of a primary metric and a guardrail metric.                      *)

Sample(n) == [n |-> n, varies |-> TRUE, normal |-> FALSE]

Estimate(p, effect, lift) == [p |-> p, effect |-> effect, lift |-> lift]

Estimates == {Estimate(5, 1, 30), Estimate(5, 1, NoValue), Estimate(30, 1, 10), Estimate(30, -1, -30),
              Estimate(49, 1, 30), Estimate(50, 1, 30), Estimate(200, 1, 30)}

Data(est) ==
    [c : {Sample(30)}, t : {Sample(30)}, est : est, insensitive : {FALSE}, crossed : {TRUE}]
      \cup {[c |-> Sample(30), t |-> Sample(29), est |-> Strong, insensitive |-> TRUE, crossed |-> TRUE]}

Config(direction, severity) == [direction |-> direction, severity |-> severity, threshold |-> 20]

ConfigSets == {{}, {Config("below", "critical")}, {Config("below", "warning")},
               {Config("above", "critical"), Config("below", "warning")}}

\* Names sort as they are listed here.
Names == <<"a", "b", "control", "d">>

NameBefore(a, b) == \E i, j \in DOMAIN Names : i < j /\ Names[i] = a /\ Names[j] = b

Metrics == [main : [primary : {TRUE}, guardrail : {FALSE}, type : {"conversion"}, configs : {{}}],
            side : [primary : BOOLEAN, guardrail : {TRUE}, type : {"revenue"}, configs : ConfigSets]]

ThreeArms ==
    {Estimate(5, 1, 30), Estimate(30, -1, -30), Estimate(49, 1, 30)}

VerdictQuestions ==
    {[kind |-> "verdict",
      exp |-> [variants |-> vs, sequential |-> seq, srm |-> seq, metrics |-> ms,
               data |-> [main |-> [v \in {"a", "b", "d"} |-> d],
                         side |-> [v \in {"a", "b", "d"} |-> g]]]] :
        vs \in {{"control", "a"}, {"a", "b"}}, seq \in BOOLEAN, ms \in Metrics,
        d \in Data(Estimates), g \in Data(Estimates)}
    \cup
    {[kind |-> "verdict",
      exp |-> [variants |-> {"a", "control", "d"}, sequential |-> FALSE, srm |-> FALSE, metrics |-> ms,
               data |-> [main |-> [v \in {"a", "d"} |-> IF v = "a" THEN d ELSE e],
                         side |-> [v \in {"a", "d"} |-> IF v = "a" THEN g ELSE h]]]] :
        ms \in Metrics,
        d \in Data(ThreeArms), e \in Data(ThreeArms), g \in Data(ThreeArms), h \in Data(ThreeArms)}

VerdictAnswer ==
    LET rows == CorrectedRows(question.exp)
    IN [rows |-> rows, winners |-> Winners(question.exp, rows),
        insights |-> Interpret(question.exp, rows),
        events |-> PublishedEvents(question.exp, rows)]

AnswerVerdict == question.kind = "verdict" /\ answer' = <<VerdictAnswer>>

-----------------------------------------------------------------------------
Asked ==
    \/ question \in SplitQuestions      \/ question \in FilterQuestions
    \/ question \in FlagQuestions       \/ question \in AudienceQuestions
    \/ question \in CorrectionQuestions \/ question \in RatioQuestions
    \/ question \in VerdictQuestions    \/ question \in SampleQuestions

Init == Asked /\ answer = Open

Answer ==
    \/ AnswerSplit \/ AnswerFilter \/ AnswerFlag \/ AnswerAudience
    \/ AnswerCorrection \/ AnswerRatio \/ AnswerVerdict \/ AnswerSample

Next == answer = Open /\ Answer /\ UNCHANGED question

Spec == Init /\ [][Next]_vars

Answered(kind) == question.kind = kind /\ answer # Open

-----------------------------------------------------------------------------
Said == answer[1]

Distance(a, b) == IF a > b THEN a - b ELSE b - a

\* pick_variant and is_in_traffic: the order in which the variants come from
\* the database or the cache changes nothing; no bucket is left without a
\* variant, for all that validate_splits tolerates; each variant gets its
\* split to within a bucket, and exactly when the splits are whole percents;
\* the experiment gets its traffic percentage, rounded up to a bucket.
BucketsFollowSplits ==
    Answered("split") =>
        \A shares \in Said.shares :
            /\ Said.shares = {shares}
            /\ shares[[name |-> NoVariant]] = 0
            /\ \A v \in question.variants : Distance(shares[v] * Percent, v.split) <= Percent
            /\ (\A v \in question.variants : v.split % Percent = 0)
                  => \A v \in question.variants : shares[v] * Percent = v.split
            /\ Said.admitted * Percent >= question.traffic
            /\ Said.admitted * Percent < question.traffic + Percent

\* evaluate_preview and the SQL of the analysis: on plain data (texts against
\* texts in their own case, numbers against numbers, no empty list of excluded
\* values for a field that is absent) the builder's preview is what the query
\* counts, and the rules of a segment read as those of a metric, except that
\* no filter means no preview and every event.
PreviewMatchesQuery ==
    Answered("filter") =>
        /\ Plain(question.filters, question.props) =>
              /\ Said.query # "fails"
              /\ (Said.query = "true") = Said.segment.matches
        /\ Said.preview.matches = (Said.segment.matches /\ Said.segment.total > 0)

Raise(n) == IF n = 0 THEN 25 ELSE 100

Raised(flag, rules) ==
    [flag EXCEPT !.rollout = Raise(@),
                 !.rules = {IF r \in rules THEN [r EXCEPT !.rollout = Raise(@)] ELSE r : r \in flag.rules}]

\* _resolve_rollout: raising the rollout of a flag and of any of its rules
\* takes the flag from nobody; a rule for everyone, whatever its priority,
\* changes nothing for a user whom the rule of a segment covers.  One flag
\* or all of them, the SDK gets the same answer, but for a flag with the rule
\* of a segment that evaluate_flag has not loaded and fails on.
RolloutOnlyGrows ==
    /\ Answered("flag") =>
        /\ \A b \in DOMAIN Said.batch, rules \in SUBSET question.flag.rules :
              Said.batch[b].value =>
                  EvaluateInBatch(Raised(question.flag, rules), b, question.props).value
        /\ \A b \in DOMAIN Said.batch, r \in Rules(3, {NoSegment}) :
              Said.batch[b].reason \in {"segment_in", "segment_out", "kill_switch"} =>
                  EvaluateInBatch([question.flag EXCEPT !.rules = @ \cup {r}], b, question.props)
                    = Said.batch[b]
        /\ \A b \in DOMAIN Said.batch :
              \/ Said.alone[b] = Said.batch[b]
              \/ Said.alone[b].reason = "error" /\ Said.batch[b].reason # "kill_switch"
                 /\ question.props # <<>>
    /\ Answered("audience") =>
        /\ Said.held => \A size \in question.size .. 100 :
              InLinkedHoldout(TRUE, question.enabled, question.excluded, question.bucket, size)
        /\ Said.meant /\ question.segments # {} => \A rules \in {{}, Germans} :
              MatchesAnySegment(question.segments \cup {rules}, question.props)

\* benjamini_hochberg is the step-up procedure: a test is significant when
\* some p-value at least as large is within its share of alpha, where the
\* share counts the p-values up to it.  A single p-value has to be below.
CorrectionIsStepUp ==
    Answered("correction") =>
        LET p == question.p
            n == Cardinality(DOMAIN p)
        IN Said = {i \in DOMAIN p :
                        \E j \in DOMAIN p :
                            /\ p[i] <= p[j]
                            /\ p[j] * n <= Cardinality({k \in DOMAIN p : p[k] <= p[j]}) * Alpha
                            /\ n = 1 => p[j] # Alpha}

\* The three queries tell one story: every assigned user is in each, whoever
\* has revenue has converted and it is the numerator of the ratio, and what
\* a user did before being assigned changes nothing.
SamplesAgree ==
    Answered("sample") =>
        LET users == question.users
            late  == {[u EXCEPT !.events = {e \in @ : e.at >= u.assigned}] : u \in users}
        IN /\ Said.conversion.total = 2 /\ DOMAIN Said.ratio = users
           /\ \A u \in users : Said.ratio[u].num = Said.revenue[u]
           /\ Cardinality({u \in users : Said.revenue[u] > 0}) <= Said.conversion.converted
           /\ ConversionData(late, "a", question.filters) = Said.conversion
           /\ \A u \in late, w \in users :
                 u.assigned = w.assigned =>
                    RatioData(late, "a", "b", question.filters)[u] = Said.ratio[w]

\* What the delta method is for: two samples that are tested, of which one at
\* least varies, and whose ratios differ are some evidence of a difference.
RatioDifferenceCounts ==
    Answered("ratio") =>
        LET c == question.c
            t == question.t
        IN /\ Said.p # NoValue /\ (Varies(c) \/ Varies(t))
           /\ Numerator(c) * Denominator(t) # Numerator(t) * Denominator(c)
           => Said.p # 1000

\* run_analysis, interpret and the publishers: with a variant named "control"
\* a winner has a success insight and every success insight of a primary
\* metric is of a winner; nobody wins while a significant loss on a guardrail
\* crosses a critical threshold, or has no configuration to be judged by.
WinnersAreExplained ==
    Answered("verdict") =>
        LET exp      == question.exp
            praised  == {i \in Said.insights : i.type \in {"clear_winner", "likely_winner"}}
            harmed   == \E mv \in DOMAIN Said.rows :
                           LET m == exp.metrics[mv[1]] IN
                             /\ m.guardrail /\ Said.rows[mv].significant
                             /\ \/ m.configs = {} /\ Said.rows[mv].effect < 0
                                \/ \E c \in m.configs :
                                     /\ c.severity = "critical" /\ c.direction = "below"
                                     /\ Said.rows[mv].lift # NoValue
                                     /\ Said.rows[mv].lift < -c.threshold
        IN /\ harmed => Said.winners = {} /\ praised = {}
           /\ Control \in exp.variants =>
                {<<i.metric, i.variant>> : i \in {j \in praised : exp.metrics[j.metric].primary}}
                  = Said.winners
           /\ "winner_detected" \in Said.events => \E i \in praised : i.type = "clear_winner"

=============================================================================
