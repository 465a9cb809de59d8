----------------------------- MODULE RulesProofs -----------------------------
(***************************************************************************)
(* What the pure rules of the service promise, proved of the operators for *)
(* all their inputs and then of the questions that the run asks.           *)
(***************************************************************************)
EXTENDS MCRules, FiniteSetTheorems, WellFoundedInduction, TLAPS

(* The answer of a state belongs to its question.                            *)

AnswerOf ==
    \/ question.kind = "split"      /\ answer = <<SplitAnswer>>
    \/ question.kind = "filter"     /\ answer = <<FilterAnswer>>
    \/ question.kind = "flag"       /\ answer = <<FlagAnswer>>
    \/ question.kind = "audience"   /\ answer = <<AudienceAnswer>>
    \/ question.kind = "sample"     /\ answer = <<SampleAnswer>>
    \/ question.kind = "correction" /\ answer = <<CorrectionAnswer>>
    \/ question.kind = "ratio"      /\ answer = <<RatioAnswer>>
    \/ question.kind = "verdict"    /\ answer = <<VerdictAnswer>>

RInv == Asked /\ (answer = Open \/ AnswerOf)

LEMMA AnswersStand == Spec => []RInv
<1>1. Init => RInv
  BY DEF Init, RInv
<1>2. ASSUME RInv, [Next]_vars PROVE RInv'
  <2>1. CASE UNCHANGED vars
    BY <1>2, <2>1 DEF RInv, Asked, AnswerOf, vars, SplitAnswer, FilterAnswer, FlagAnswer, AudienceAnswer,
      SampleAnswer, CorrectionAnswer, RatioAnswer, VerdictAnswer
  <2>2. CASE Next
    <3>1. UNCHANGED question /\ Answer
      BY <2>2 DEF Next
    <3>2. AnswerOf'
      BY <3>1 DEF Answer, AnswerOf, AnswerSplit, AnswerFilter, AnswerFlag, AnswerAudience,
        AnswerSample, AnswerCorrection, AnswerRatio, AnswerVerdict, SplitAnswer, FilterAnswer,
        FlagAnswer, AudienceAnswer, SampleAnswer, CorrectionAnswer, RatioAnswer, VerdictAnswer
    <3> QED
      BY <1>2, <3>1, <3>2 DEF RInv, Asked
  <2> QED
    BY <1>2, <2>1, <2>2
<1> QED
  BY <1>1, <1>2, PTL DEF Spec

\* A question of a kind is one of the questions of that kind.
LEMMA KindsAreApart ==
    /\ \A q \in SplitQuestions : q.kind = "split"
    /\ \A q \in FilterQuestions : q.kind = "filter"
    /\ \A q \in FlagQuestions : q.kind = "flag"
    /\ \A q \in AudienceQuestions : q.kind = "audience"
    /\ \A q \in SampleQuestions : q.kind = "sample"
    /\ \A q \in CorrectionQuestions : q.kind = "correction"
    /\ \A q \in RatioQuestions : q.kind = "ratio"
    /\ \A q \in VerdictQuestions : q.kind = "verdict"
<1>1. \A q \in SplitQuestions : q.kind = "split"
  BY DEF SplitQuestions
<1>2. \A q \in FilterQuestions : q.kind = "filter"
  BY DEF FilterQuestions
<1>3. \A q \in FlagQuestions : q.kind = "flag"
  BY DEF FlagQuestions
<1>4. \A q \in AudienceQuestions : q.kind = "audience"
  BY DEF AudienceQuestions
<1>5. \A q \in SampleQuestions : q.kind = "sample"
  BY DEF SampleQuestions
<1>6. \A q \in CorrectionQuestions : q.kind = "correction"
  BY DEF CorrectionQuestions
<1>7. \A q \in RatioQuestions : q.kind = "ratio"
  BY DEF RatioQuestions
<1>8. \A q \in VerdictQuestions : q.kind = "verdict"
  BY DEF VerdictQuestions
<1> QED
  BY <1>1, <1>2, <1>3, <1>4, <1>5, <1>6, <1>7, <1>8

LEMMA AnsweredRight ==
    ASSUME RInv
    PROVE  /\ Answered("filter") => question \in FilterQuestions /\ Said = FilterAnswer
           /\ Answered("flag") => question \in FlagQuestions /\ Said = FlagAnswer
           /\ Answered("audience") => question \in AudienceQuestions /\ Said = AudienceAnswer
           /\ Answered("sample") => question \in SampleQuestions /\ Said = SampleAnswer
           /\ Answered("correction") => question \in CorrectionQuestions /\ Said = CorrectionAnswer
           /\ Answered("ratio") => question \in RatioQuestions /\ Said = RatioAnswer
           /\ Answered("verdict") => question \in VerdictQuestions /\ Said = VerdictAnswer
  BY KindsAreApart DEF RInv, Asked, AnswerOf, Answered, Said

-----------------------------------------------------------------------------
(* Preview and query.                                                        *)

IsScalar(v) ==
    \/ \E words : \E caps \in BOOLEAN : v = Text(words, caps)
    \/ \E n \in Numerals : v = Number(n)
    \/ \E b \in {"true", "false"} : v = Bool(b)

IsValue(v) ==
    \/ IsScalar(v)
    \/ \E items : v = List(items) /\ \A w \in items : IsScalar(w)

IsFilter(f) == f.operator \in Operator /\ IsValue(f.value)

IsProps(props) == \A field \in DOMAIN props : IsScalar(props[field])

\* The kinds of values are what they are built as.
LEMMA ValueShapes ==
    ASSUME NEW v, IsValue(v)
    PROVE  /\ v.kind \in {"text", "number", "bool", "list"}
           /\ v.kind # "list" => IsScalar(v)
           /\ v.kind = "list" => v = List(v.items) /\ \A w \in v.items : IsScalar(w)
           /\ v.kind = "text" => v = Text(v.words, v.caps) /\ v.caps \in BOOLEAN
           /\ v.kind = "number" => \E n \in Numerals : v = Number(n)
  BY DEF IsValue, IsScalar, Text, Number, Bool, List

LEMMA NumbersAreNumerals ==
    ASSUME NEW n \in Numerals
    PROVE  /\ Float(Number(n)) = NumeralValue[n] /\ CoerceNumber(Number(n)) = NumeralValue[n]
           /\ NumeralValue[n] \in Nat /\ NumeralValue[n] # NoNumber
<1>1. \A w \in Numerals : {n} = {w} => w = n
  OBVIOUS
<1>2. (CHOOSE w \in Numerals : {n} = {w}) = n
  BY <1>1
<1> QED
  BY <1>2 DEF Float, CoerceNumber, Number, NumeralValue, NoNumber, Numerals

\* Where equality is asked of two texts, or of two numbers, Python's and that
\* of the renderings agree.
LEMMA PlainEquality ==
    ASSUME NEW v, NEW w, IsScalar(v), IsScalar(w), v.kind = w.kind, v.kind # "bool"
    PROVE  PyEqual(v, w) <=> Rendering(v) = PyText(w)
<1>0. IsValue(v) /\ IsValue(w) /\ v.kind # "list"
  BY DEF IsValue, IsScalar, Text, Number, Bool
<1>1. CASE v.kind = "text"
  <2>1. v = Text(v.words, v.caps) /\ w = Text(w.words, w.caps) /\ v.caps \in BOOLEAN /\ w.caps \in BOOLEAN
    BY <1>0, <1>1, ValueShapes
  <2>2. PyEqual(v, w) <=> v = w
    BY <1>1 DEF PyEqual
  <2>3. PyText(w) = [words |-> w.words, caps |-> w.caps]
    BY <1>1, <2>1 DEF PyText
  <2>4. Rendering(v) = [words |-> v.words, caps |-> v.caps]
    BY DEF Rendering
  <2>5. v = w <=> v.words = w.words /\ v.caps = w.caps
    BY <2>1 DEF Text
  <2>6. Rendering(v) = PyText(w) <=> v.words = w.words /\ v.caps = w.caps
    BY <2>3, <2>4
  <2> QED
    BY <2>2, <2>5, <2>6
<1>2. CASE v.kind = "number"
  <2>1. PICK m \in Numerals, n \in Numerals : v = Number(m) /\ w = Number(n)
    BY <1>0, <1>2, ValueShapes
  <2>2. NumeralValue[m] = NumeralValue[n] <=> m = n
    BY DEF NumeralValue, Numerals
  <2>3. PyEqual(v, w) <=> m = n
    BY <1>2, <2>1, <2>2, NumbersAreNumerals DEF PyEqual
  <2>4. Rendering(v) = [words |-> {m}, caps |-> FALSE] /\ PyText(w) = [words |-> {n}, caps |-> FALSE]
    BY <2>1 DEF Rendering, PyText, Number
  <2>5. {m} = {n} <=> m = n
    OBVIOUS
  <2>6. Rendering(v) = PyText(w) <=> {m} = {n}
    <3>1. \A x, y : [words |-> x, caps |-> FALSE] = [words |-> y, caps |-> FALSE] <=> x = y
      OBVIOUS
    <3> QED
      BY <2>4, <3>1, Zenon
  <2> QED
    BY <2>3, <2>5, <2>6
<1> QED
  BY <1>0, <1>1, <1>2, ValueShapes

PlainValue(f) ==
    /\ f.operator \in {"eq", "neq", "contains"} => f.value.kind = "text"
    /\ f.operator \in {"in", "not_in"} => f.value.kind = "list"
    /\ f.operator \in {"gt", "lt", "gte", "lte"} => f.value.kind = "number"

\* build_filter_clause and match_rule on one filter of plain data.
LEMMA PlainClause ==
    ASSUME NEW f, NEW props, IsFilter(f), IsProps(props), PlainFilter(f, props), PlainValue(f),
           f.operator = "not_in" => f.field \in DOMAIN props \/ f.value.items # {}
    PROVE  Clause(f, props) = Truth(MatchRule(f, props))
<1> DEFINE actual == props[f.field]
           there  == f.field \in DOMAIN props
<1>0. IsValue(f.value) /\ (there => IsScalar(actual))
  BY DEF IsFilter, IsProps
<1>1. CASE f.operator \in {"eq", "neq"}
  <2>1. f.value.kind = "text" /\ IsScalar(f.value)
    BY <1>0, <1>1, ValueShapes DEF PlainValue
  <2>2. there => actual.kind = "text"
    BY <1>1 DEF PlainFilter
  <2>3. PyText(f.value) = Rendering(f.value)
    BY <1>0, <2>1, ValueShapes DEF PyText, Rendering
  <2>4. there => (PyEqual(actual, f.value) <=> Rendering(actual) = Rendering(f.value))
    BY <1>0, <2>1, <2>2, <2>3, PlainEquality
  <2>5. MatchRule(f, props) <=>
          there /\ IF f.operator = "eq" THEN PyEqual(actual, f.value) ELSE ~PyEqual(actual, f.value)
    BY <1>1 DEF MatchRule, Matches, Compare
  <2> QED
    BY <1>1, <2>1, <2>4, <2>5 DEF Clause, Truth
<1>2. CASE f.operator \in {"in", "not_in"}
  <2>1. f.value.kind = "list" /\ \A w \in f.value.items : IsScalar(w)
    BY <1>0, <1>2, ValueShapes DEF PlainValue
  <2>2. there => \A w \in f.value.items : w.kind = actual.kind /\ w.kind # "bool"
    BY <1>2 DEF PlainFilter
  <2>3. there => (InList(actual, f.value) <=> Rendering(actual) \in {PyText(w) : w \in f.value.items})
    BY <1>0, <2>1, <2>2, PlainEquality DEF InList
  <2>4. MatchRule(f, props) <=>
          there /\ IF f.operator = "in" THEN InList(actual, f.value) ELSE ~InList(actual, f.value)
    BY <1>2, <2>1 DEF MatchRule, Matches, Compare
  <2> DEFINE listed == Rendering(actual) \in {PyText(w) : w \in f.value.items}
  <2>5. f.value.items = {} => ~listed
    OBVIOUS
  <2>6. CASE f.operator = "in"
    <3>1. Clause(f, props) = Truth(there /\ listed)
      BY <2>1, <2>6 DEF Clause, Truth
    <3> QED
      BY <2>3, <2>4, <2>6, <3>1 DEF Truth
  <2>7. CASE f.operator = "not_in"
    <3>1. Clause(f, props) = Truth((there /\ ~listed) \/ f.value.items = {})
      BY <2>1, <2>7 DEF Clause, Truth
    <3>2. f.value.items = {} => there /\ ~listed
      BY <2>5, <2>7
    <3>3. Clause(f, props) = Truth(there /\ ~listed)
      BY <3>1, <3>2 DEF Truth
    <3> QED
      BY <2>3, <2>4, <2>7, <3>3 DEF Truth
  <2> QED
    BY <1>2, <2>6, <2>7
<1>3. CASE f.operator = "contains"
  <2>1. f.value.kind = "text" /\ f.value.caps \in BOOLEAN
    BY <1>0, <1>3, ValueShapes DEF PlainValue
  <2>2. there => actual.kind = "text" /\ f.value.caps = actual.caps
    BY <1>3 DEF PlainFilter
  <2>3. there => PyText(actual) = Rendering(actual)
    BY <1>0, <2>2, ValueShapes DEF PyText, Rendering, IsValue
  <2>4. MatchRule(f, props) <=> there /\ f.value.words \subseteq actual.words
    BY <1>3, <2>1, <2>2, <2>3 DEF MatchRule, Matches, Compare, Rendering
  <2> QED
    BY <1>3, <2>1, <2>4 DEF Clause, Truth
<1>4. CASE f.operator \in {"gt", "lt", "gte", "lte"}
  <2>1. PICK n \in Numerals : f.value = Number(n)
    BY <1>0, <1>4, ValueShapes DEF PlainValue
  <2>2. CASE ~there
    <3>1. ~MatchRule(f, props)
      BY <2>2 DEF MatchRule
    <3>2. Clause(f, props) = "false"
      BY <1>4, <2>1, <2>2, NumbersAreNumerals DEF Clause
    <3> QED
      BY <3>1, <3>2 DEF Truth
  <2>3. CASE there
    <3>1. PICK m \in Numerals : actual = Number(m)
      BY <1>0, <1>4, <2>3, ValueShapes DEF PlainFilter, IsValue
    <3>2. Clause(f, props) = Truth(Compare(f.operator, NumeralValue[m], NumeralValue[n]))
      BY <1>4, <2>1, <2>3, <3>1, NumbersAreNumerals DEF Clause
    <3>3. MatchRule(f, props) <=> Compare(f.operator, NumeralValue[m], NumeralValue[n])
      BY <1>4, <2>1, <2>3, <3>1, NumbersAreNumerals DEF MatchRule, Matches
    <3> QED
      BY <3>2, <3>3 DEF Truth
  <2> QED
    BY <2>2, <2>3
<1> QED
  BY <1>1, <1>2, <1>3, <1>4 DEF IsFilter, Operator

\* On plain data the preview of the builder is what the query of the analysis
\* counts, and on any data it is the reading of a segment, but for no filter.
THEOREM PreviewIsTheQuery ==
    ASSUME NEW filters, NEW props, IsFiniteSet(filters), \A f \in filters : IsFilter(f), IsProps(props)
    PROVE  /\ Plain(filters, props) =>
                 QueryRow(filters, props) = Truth(EvaluateSegment(filters, props).matches)
           /\ EvaluatePreview(filters, props).matches =
                 (EvaluateSegment(filters, props).matches /\ EvaluateSegment(filters, props).total > 0)
<1> DEFINE on == Enabled(filters)
<1>1. on \subseteq filters
  BY DEF Enabled
<1>2. ASSUME Plain(filters, props)
      PROVE  QueryRow(filters, props) = Truth(EvaluateSegment(filters, props).matches)
  <2>1. \A f \in on : /\ PlainFilter(f, props) /\ PlainValue(f)
                      /\ f.operator = "not_in" => f.field \in DOMAIN props \/ f.value.items # {}
    BY <1>2 DEF Plain, PlainValue
  <2>2. \A f \in on : Clause(f, props) = Truth(MatchRule(f, props))
    BY <1>1, <2>1, PlainClause
  <2> DEFINE parts == {Clause(f, props) : f \in on} \ {"skipped"}
  <2>3. \A f \in on : /\ Clause(f, props) \in {"true", "false"}
                      /\ Clause(f, props) = "true" <=> MatchRule(f, props)
    BY <2>2 DEF Truth
  <2>4. parts = {Clause(f, props) : f \in on}
    BY <2>3
  <2>5. "fails" \notin parts
    BY <2>3, <2>4
  <2>6. parts \subseteq {"true"} <=> \A f \in on : MatchRule(f, props)
    BY <2>3, <2>4
  <2>7. EvaluateSegment(filters, props).matches = ({r \in on : MatchRule(r, props)} = on)
    BY DEF EvaluateSegment
  <2>8. EvaluateSegment(filters, props).matches <=> \A f \in on : MatchRule(f, props)
    BY <2>7
  <2>9. QueryRow(filters, props) = Truth(parts \subseteq {"true"})
    BY <2>5 DEF QueryRow
  <2> QED
    BY <2>6, <2>8, <2>9 DEF Truth
<1>3. Cardinality(on) \in Nat /\ (Cardinality(on) = 0 <=> on = {})
  BY <1>1, FS_Subset, FS_CardinalityType, FS_EmptySet
<1>4. EvaluatePreview(filters, props).matches = ({r \in on : MatchRule(r, props)} = on /\ on # {})
  BY DEF EvaluatePreview, MatchFilter
<1>5. /\ EvaluateSegment(filters, props).matches = ({r \in on : MatchRule(r, props)} = on)
      /\ EvaluateSegment(filters, props).total = Cardinality(on)
  BY DEF EvaluateSegment
<1>6. EvaluateSegment(filters, props).total > 0 <=> on # {}
  BY <1>3, <1>5
<1>7. EvaluatePreview(filters, props).matches =
        (EvaluateSegment(filters, props).matches /\ EvaluateSegment(filters, props).total > 0)
  BY <1>4, <1>5, <1>6
<1> QED
  BY <1>2, <1>7

\* Of the questions: evaluate_preview against build_filter_clause, and the
\* rules of a segment against the filters of a metric.
THEOREM PreviewsMatchQueries == Spec => []PreviewMatchesQuery
<1>1. ASSUME RInv PROVE PreviewMatchesQuery
  <2>1. SUFFICES ASSUME question \in FilterQuestions, Said = FilterAnswer
                 PROVE  /\ Plain(question.filters, question.props) =>
                              /\ Said.query # "fails"
                              /\ (Said.query = "true") = Said.segment.matches
                        /\ Said.preview.matches = (Said.segment.matches /\ Said.segment.total > 0)
    BY <1>1, AnsweredRight DEF PreviewMatchesQuery
  <2>2. \A v \in Scalars : IsScalar(v)
    BY DEF Scalars, De, DE, IsScalar, Numerals
  <2>3. \A v \in Values : IsValue(v)
    <3>1. \A items : (\A w \in items : IsScalar(w)) => IsValue(List(items))
      BY DEF IsValue
    <3>2. IsScalar(De) /\ IsScalar(Number("1")) /\ IsScalar(Number("2"))
      BY <2>2 DEF Scalars
    <3>3. \A v \in {List({}), List({De}), List({De, Number("1")}), List({Number("1"), Number("2")})} : IsValue(v)
      BY <3>1, <3>2
    <3> QED
      BY <2>2, <3>3 DEF Values, IsValue
  <2>4. De \in Values /\ Number("1") \in Values /\ Number("2") \in Values
    BY DEF Values, Scalars
  <2>5. \A field \in {1, 2}, values \in SUBSET Values : \A f \in FiltersOn(field, values) : IsFilter(f)
    BY <2>3, <2>4 DEF FiltersOn, Filter, IsFilter, Operator
  <2>6. IsFiniteSet(question.filters) /\ \A f \in question.filters : IsFilter(f)
    <3>1. CASE question.filters \in {{f} : f \in FiltersOn(1, Values)} \cup {{}}
      <4>1. CASE question.filters = {}
        BY <4>1, FS_EmptySet
      <4>2. CASE question.filters # {}
        <5>1. PICK f \in FiltersOn(1, Values) : question.filters = {f}
          BY <3>1, <4>2
        <5>2. IsFilter(f)
          BY <2>5
        <5> QED
          BY <5>1, <5>2, FS_Singleton
      <4> QED
        BY <4>1, <4>2
    <3>2. CASE question.filters \in {{f, g} : f \in FiltersOn(1, {De, Number("1")}),
                                             g \in FiltersOn(2, {De, Number("2")})}
      <4>1. PICK f \in FiltersOn(1, {De, Number("1")}), g \in FiltersOn(2, {De, Number("2")}) :
                   question.filters = {f, g}
        BY <3>2
      <4>2. IsFilter(f) /\ IsFilter(g)
        BY <2>4, <2>5
      <4>3. IsFiniteSet({f} \cup {g}) /\ {f, g} = {f} \cup {g}
        BY FS_Singleton, FS_AddElement
      <4> QED
        BY <4>1, <4>2, <4>3
    <3> QED
      BY <2>1, <3>1, <3>2 DEF FilterQuestions
  <2>7. IsProps(question.props)
    <3>1. \E F, V : V \subseteq Scalars /\ question.props \in [F -> V]
      <4>1. question.props \in Props({1}, Scalars) \/ question.props \in Props({1, 2}, {De, DE, Number("2")})
        BY <2>1 DEF FilterQuestions
      <4>2. {De, DE, Number("2")} \subseteq Scalars
        BY DEF Scalars
      <4> QED
        BY <4>1, <4>2 DEF Props
    <3> QED
      BY <2>2, <3>1 DEF IsProps
  <2>8. /\ Said.query = QueryRow(question.filters, question.props)
        /\ Said.segment = EvaluateSegment(question.filters, question.props)
        /\ Said.preview = EvaluatePreview(question.filters, question.props)
    BY <2>1 DEF FilterAnswer
  <2>9. Said.segment.matches \in BOOLEAN
    BY <2>8 DEF EvaluateSegment
  <2>10. Plain(question.filters, question.props) => Said.query = Truth(Said.segment.matches)
    BY <2>6, <2>7, <2>8, PreviewIsTheQuery
  <2>11. Said.preview.matches = (Said.segment.matches /\ Said.segment.total > 0)
    BY <2>6, <2>7, <2>8, PreviewIsTheQuery
  <2> QED
    BY <2>9, <2>10, <2>11 DEF Truth
<1> QED
  BY <1>1, AnswersStand, PTL

-----------------------------------------------------------------------------
(* Winners, guardrails and insights.                                         *)

\* A row of a metric that is a guardrail shows a loss that its configurations
\* forbid, or a significant one where nothing is configured.
Harmed(exp, rows) ==
    \E mv \in DOMAIN rows :
        LET m == exp.metrics[mv[1]] IN
          /\ m.guardrail /\ rows[mv].significant
          /\ \/ m.configs = {} /\ rows[mv].effect < 0
             \/ \E c \in m.configs :
                  /\ c.severity = "critical" /\ c.direction = "below"
                  /\ rows[mv].lift # NoValue
                  /\ rows[mv].lift < -c.threshold

Praise == {"clear_winner", "likely_winner"}

Praised(exp, rows) == {i \in Interpret(exp, rows) : i.type \in Praise}

LEMMA RowsOf ==
    ASSUME NEW exp
    PROVE  /\ DOMAIN CorrectedRows(exp) = Rows(exp)
           /\ \A mv \in Rows(exp) :
                 /\ mv = <<mv[1], mv[2]>> /\ mv[1] \in DOMAIN exp.metrics /\ mv[2] \in Treatments(exp)
                 /\ CorrectedRows(exp)[mv].significant \in BOOLEAN
                 /\ CorrectedRows(exp)[mv].significant => CorrectedRows(exp)[mv].p # NoValue
<1> DEFINE primary == PrimaryTests(exp)
           kept == BenjaminiHochberg([mv \in primary |-> TestOf(exp, mv[1], mv[2]).p])
           rows == CorrectedRows(exp)
<1>1. rows = [mv \in Rows(exp) |->
                IF mv \in primary
                  THEN [RawRow(exp, mv[1], mv[2]) EXCEPT !.significant = mv \in kept]
                  ELSE RawRow(exp, mv[1], mv[2])]
  BY DEF CorrectedRows
<1>2. ASSUME NEW mv \in Rows(exp)
      PROVE  /\ mv = <<mv[1], mv[2]>> /\ mv[1] \in DOMAIN exp.metrics /\ mv[2] \in Treatments(exp)
             /\ rows[mv].significant \in BOOLEAN
             /\ rows[mv].significant => rows[mv].p # NoValue
  <2>1. mv = <<mv[1], mv[2]>> /\ mv[1] \in DOMAIN exp.metrics /\ mv[2] \in Treatments(exp)
    BY DEF Rows
  <2> DEFINE raw == RawRow(exp, mv[1], mv[2])
  <2>2. /\ raw.p = TestOf(exp, mv[1], mv[2]).p
        /\ raw.significant = (raw.p # NoValue /\ raw.p < Alpha)
        /\ "significant" \in DOMAIN raw
    BY DEF RawRow
  <2>3. CASE mv \in primary
    <3>1. rows[mv] = [raw EXCEPT !.significant = mv \in kept]
      BY <1>1, <2>3
    <3>2. rows[mv].significant = (mv \in kept) /\ rows[mv].p = raw.p
      BY <2>2, <3>1 DEF RawRow
    <3>3. raw.p # NoValue
      BY <2>2, <2>3 DEF PrimaryTests
    <3> QED
      BY <2>1, <3>2, <3>3
  <2>4. CASE mv \notin primary
    <3>1. rows[mv] = raw
      BY <1>1, <2>4
    <3> QED
      BY <2>1, <2>2, <3>1
  <2> QED
    BY <2>3, <2>4
<1> QED
  BY <1>1, <1>2

LEMMA HarmIsViolation ==
    ASSUME NEW exp, Harmed(exp, CorrectedRows(exp))
    PROVE  AnyViolated(exp, CorrectedRows(exp))
<1> DEFINE rows == CorrectedRows(exp)
<1> HIDE DEF rows
<1>1. PICK mv \in DOMAIN rows :
        LET m == exp.metrics[mv[1]] IN
          /\ m.guardrail /\ rows[mv].significant
          /\ \/ m.configs = {} /\ rows[mv].effect < 0
             \/ \E c \in m.configs :
                  /\ c.severity = "critical" /\ c.direction = "below"
                  /\ rows[mv].lift # NoValue
                  /\ rows[mv].lift < -c.threshold
  BY DEF Harmed, rows
<1>2. /\ mv[1] \in DOMAIN exp.metrics /\ mv[2] \in Treatments(exp)
      /\ rows[mv[1], mv[2]] = rows[mv]
  BY RowsOf DEF rows
<1>3. GuardrailViolated(exp, rows, mv[1])
  <2>1. CASE exp.metrics[mv[1]].configs = {}
    BY <1>1, <1>2, <2>1 DEF GuardrailViolated, LegacyViolation
  <2>2. CASE exp.metrics[mv[1]].configs # {}
    <3>1. PICK c \in exp.metrics[mv[1]].configs :
                /\ c.severity = "critical" /\ c.direction = "below"
                /\ rows[mv].lift # NoValue
                /\ rows[mv].lift < -c.threshold
      BY <1>1, <2>2
    <3>2. CheckThreshold(c, rows[mv[1], mv[2]])
      BY <1>1, <1>2, <3>1 DEF CheckThreshold, DirectionMatches
    <3>3. <<c, mv[2]>> \in FiredConfigs(exp, rows, mv[1], "critical")
      BY <1>2, <3>1, <3>2 DEF FiredConfigs
    <3> QED
      BY <1>1, <2>2, <3>3 DEF GuardrailViolated
  <2> QED
    BY <2>1, <2>2
<1> QED
  BY <1>2, <1>3 DEF AnyViolated, rows

\* The rows that win, but for the metric being primary.
Ok(exp, rows, mv) ==
    rows[mv].significant /\ rows[mv].effect > 0 /\ ~AnyViolated(exp, rows)

LEMMA PraiseIsForTheOk ==
    ASSUME NEW exp, NEW mv \in Rows(exp)
    PROVE  LET rows == CorrectedRows(exp)
           IN  /\ ~Ok(exp, rows, mv) => VerdictOf(exp, rows, mv) \cap Praise = {}
               /\ Ok(exp, rows, mv) => VerdictOf(exp, rows, mv) \in {{"clear_winner"}, {"likely_winner"}}
<1> DEFINE rows == CorrectedRows(exp)
           ok == rows[mv].significant /\ rows[mv].effect > 0 /\ ~AnyViolated(exp, rows)
<1> HIDE DEF rows
<1>1. rows[mv].significant \in BOOLEAN
  BY RowsOf DEF rows
<1>2. CASE ok
  BY <1>1, <1>2 DEF VerdictOf, Ok, rows
<1>3. CASE ~ok
  BY <1>1, <1>3 DEF VerdictOf, Ok, Praise, rows
<1> QED
  BY <1>2, <1>3 DEF Ok, rows

LEMMA PraisedInsights ==
    ASSUME NEW exp, NEW i
    PROVE  LET rows == CorrectedRows(exp)
           IN  i \in Praised(exp, rows) <=>
                  /\ Control \in exp.variants
                  /\ \E mv \in Rows(exp), t \in Praise :
                        rows[mv].p # NoValue /\ t \in VerdictOf(exp, rows, mv) /\ i = Insight(t, mv[1], mv[2])
<1> DEFINE rows == CorrectedRows(exp)
           Told(mv) == {Insight(t, mv[1], mv[2]) :
                          t \in (IF rows[mv].p = NoValue THEN {} ELSE VerdictOf(exp, rows, mv))
                                  \cup (IF Crossed(exp, mv[1], mv[2]) THEN {"sequential_boundary_crossed"} ELSE {})}
<1>1. \A t, m, v : Insight(t, m, v).type = t
  BY DEF Insight
<1>2. \A k \in ExperimentInsights(exp, rows) : k.type \notin Praise
  <2>1. \A k \in ExperimentInsights(exp, rows) :
           k.type \in {"guardrail_violated", "srm_detected", "guardrail_warning"}
    BY <1>1 DEF ExperimentInsights
  <2> QED
    BY <2>1 DEF Praise
<1>3. VariantInsights(exp, rows) = IF Control \notin exp.variants THEN {} ELSE UNION {Told(mv) : mv \in Rows(exp)}
  BY RowsOf DEF VariantInsights
<1>4. \A mv \in Rows(exp) : i \in Told(mv) /\ i.type \in Praise <=>
         \E t \in Praise : rows[mv].p # NoValue /\ t \in VerdictOf(exp, rows, mv) /\ i = Insight(t, mv[1], mv[2])
  <2> HIDE DEF rows
  <2>1. SUFFICES ASSUME NEW mv \in Rows(exp)
                 PROVE  i \in Told(mv) /\ i.type \in Praise <=>
                          \E t \in Praise : rows[mv].p # NoValue /\ t \in VerdictOf(exp, rows, mv)
                                           /\ i = Insight(t, mv[1], mv[2])
    OBVIOUS
  <2>2. "sequential_boundary_crossed" \notin Praise
    BY DEF Praise
  <2> QED
    BY <1>1, <2>2
<1> HIDE DEF Told
<1>5. i \in Praised(exp, rows) <=> i \in VariantInsights(exp, rows) /\ i.type \in Praise
  BY <1>2 DEF Praised, Interpret
<1>6. i \in VariantInsights(exp, rows) <=>
        Control \in exp.variants /\ \E mv \in Rows(exp) : i \in Told(mv)
  BY <1>3
<1> QED
  BY <1>4, <1>5, <1>6

\* Winners, insights and events of any analysis: what a guardrail forbids
\* nobody wins, nobody is praised for and nothing is sent for; with a control
\* the winners are those of the primary metrics that are praised; and whoever
\* gets winner_detected can read why (run_analysis, interpret, the publishers).
THEOREM WinnersHaveReasons ==
    ASSUME NEW exp
    PROVE  LET rows == CorrectedRows(exp)
               praised == Praised(exp, rows)
           IN  /\ Harmed(exp, rows) => Winners(exp, rows) = {} /\ praised = {}
               /\ Control \in exp.variants =>
                    {<<i.metric, i.variant>> : i \in {j \in praised : exp.metrics[j.metric].primary}}
                      = Winners(exp, rows)
               /\ "winner_detected" \in PublishedEvents(exp, rows) =>
                    \E i \in praised : i.type = "clear_winner"
<1> DEFINE rows == CorrectedRows(exp)
           praised == Praised(exp, rows)
           named == {<<i.metric, i.variant>> : i \in {j \in praised : exp.metrics[j.metric].primary}}
<1>0. DOMAIN rows = Rows(exp)
  BY RowsOf
<1>1. \A i \in praised :
        \E mv \in Rows(exp) : i.metric = mv[1] /\ i.variant = mv[2] /\ Ok(exp, rows, mv)
  <2>1. SUFFICES ASSUME NEW i \in praised
                 PROVE  \E mv \in Rows(exp) : i.metric = mv[1] /\ i.variant = mv[2] /\ Ok(exp, rows, mv)
    OBVIOUS
  <2>2. PICK mv \in Rows(exp), t \in Praise : t \in VerdictOf(exp, rows, mv) /\ i = Insight(t, mv[1], mv[2])
    BY PraisedInsights
  <2>3. Ok(exp, rows, mv)
    BY <2>2, PraiseIsForTheOk
  <2> QED
    BY <2>2, <2>3 DEF Insight
<1>2. ASSUME NEW mv \in Rows(exp), Ok(exp, rows, mv), Control \in exp.variants
      PROVE  \E i \in praised : i.metric = mv[1] /\ i.variant = mv[2]
  <2>1. PICK t \in Praise : t \in VerdictOf(exp, rows, mv)
    BY <1>2, PraiseIsForTheOk DEF Praise
  <2>2. rows[mv].p # NoValue
    BY <1>2, RowsOf DEF Ok
  <2>3. Insight(t, mv[1], mv[2]) \in praised
    BY <1>2, <2>1, <2>2, PraisedInsights
  <2> QED
    BY <2>3 DEF Insight
<1>3. Winners(exp, rows) = {mv \in Rows(exp) : exp.metrics[mv[1]].primary /\ Ok(exp, rows, mv)}
  BY <1>0 DEF Winners, Ok
<1>4. Harmed(exp, rows) => Winners(exp, rows) = {} /\ praised = {}
  BY <1>1, <1>3, HarmIsViolation DEF Ok
<1>5. ASSUME Control \in exp.variants PROVE named = Winners(exp, rows)
  <2> HIDE DEF rows, praised
  <2>1. \A mv \in Rows(exp) : mv = <<mv[1], mv[2]>>
    BY RowsOf
  <2>2. ASSUME NEW x \in named PROVE x \in Winners(exp, rows)
    <3>1. PICK i \in praised : exp.metrics[i.metric].primary /\ x = <<i.metric, i.variant>>
      BY <2>2
    <3>2. PICK mv \in Rows(exp) : i.metric = mv[1] /\ i.variant = mv[2] /\ Ok(exp, rows, mv)
      BY <1>1
    <3>3. x = mv
      BY <2>1, <3>1, <3>2
    <3> QED
      BY <1>3, <3>1, <3>2, <3>3
  <2>3. ASSUME NEW mv \in Winners(exp, rows) PROVE mv \in named
    <3>1. mv \in Rows(exp) /\ exp.metrics[mv[1]].primary /\ Ok(exp, rows, mv)
      BY <1>3
    <3>2. PICK i \in praised : i.metric = mv[1] /\ i.variant = mv[2]
      BY <1>2, <1>5, <3>1
    <3> QED
      BY <2>1, <3>1, <3>2
  <2> QED
    BY <2>2, <2>3
<1>6. ASSUME "winner_detected" \in PublishedEvents(exp, rows)
      PROVE  \E i \in praised : i.type = "clear_winner"
  <2>1. PICK i \in Interpret(exp, rows) : "winner_detected" \in EventOf(i)
    BY <1>6 DEF PublishedEvents
  <2>2. i.type = "clear_winner"
    BY <2>1 DEF EventOf
  <2> QED
    BY <2>1, <2>2 DEF Praised, Praise
<1> QED
  BY <1>4, <1>5, <1>6

\* Of the questions that the run asks.
THEOREM WinnersAreAlwaysExplained == Spec => []WinnersAreExplained
<1>1. ASSUME RInv PROVE WinnersAreExplained
  <2>1. SUFFICES ASSUME Answered("verdict") PROVE WinnersAreExplained
    BY DEF WinnersAreExplained
  <2> DEFINE exp == question.exp
             rows == CorrectedRows(exp)
  <2>2. /\ Said.rows = rows /\ Said.winners = Winners(exp, rows)
        /\ Said.insights = Interpret(exp, rows) /\ Said.events = PublishedEvents(exp, rows)
    BY <1>1, <2>1, AnsweredRight DEF VerdictAnswer
  <2>3. {i \in Said.insights : i.type \in {"clear_winner", "likely_winner"}} = Praised(exp, rows)
    BY <2>2 DEF Praised, Praise
  <2> QED
    BY <2>2, <2>3, WinnersHaveReasons DEF WinnersAreExplained, Harmed
<1> QED
  BY <1>1, AnswersStand, PTL

-----------------------------------------------------------------------------
(* Rollouts.                                                                 *)

\* A nonempty set of naturals has a least element.
LessThan == {ss \in Nat \X Nat : ss[1] < ss[2]}

LEMMA LeastNatural ==
    ASSUME NEW T \in SUBSET Nat, T # {}
    PROVE  \E n \in T : \A m \in T : n <= m
<1>1. IsWellFoundedOn(LessThan, Nat)
  BY NatLessThanWellFounded DEF OpToRel, LessThan
<1>2. PICK n \in T : \A m \in T : ~ (<<m, n>> \in LessThan)
  BY <1>1, WFMin
<1>3. ASSUME NEW m \in T PROVE n <= m
  <2>1. n \in Nat /\ m \in Nat /\ ~ (<<m, n>> \in LessThan)
    BY <1>2
  <2> QED
    BY <2>1 DEF LessThan
<1> QED
  BY <1>3

\* The rules of a flag: the column of a priority has a least value, and the
\* order of the load tells two rules apart.
AreRules(R) ==
    /\ \A r \in R : r.priority \in Int /\ r.order \in Nat
    /\ \E least \in Int : \A r \in R : least <= r.priority
    /\ \A r, s \in R : r.order = s.order => r = s

LEMMA FirstIsOne ==
    ASSUME NEW R, AreRules(R), NEW r \in R, \A s \in R \ {r} : RuleBefore(r, s)
    PROVE  FirstOf(R) = r
<1> DEFINE P(x) == x \in R /\ \A s \in R \ {x} : RuleBefore(x, s)
<1>1. \A x : P(x) => x = r
  BY DEF AreRules, RuleBefore
<1>2. FirstOf(R) = CHOOSE x : P(x)
  BY DEF FirstOf
<1>3. P(r)
  OBVIOUS
<1> HIDE DEF P
<1>4. P(CHOOSE x : P(x))
  BY <1>3
<1> QED
  BY <1>1, <1>2, <1>4

\* sorted(rules)[0], of rules that there are.
LEMMA FirstIsThere ==
    ASSUME NEW R, AreRules(R), R # {}
    PROVE  FirstOf(R) \in R /\ \A s \in R \ {FirstOf(R)} : RuleBefore(FirstOf(R), s)
<1>1. PICK least \in Int : \A r \in R : least <= r.priority
  BY DEF AreRules
<1>2. PICK p \in R : \A r \in R : p.priority <= r.priority
  <2> DEFINE T == {r.priority - least : r \in R}
  <2>1. T \subseteq Nat /\ T # {}
    BY <1>1 DEF AreRules
  <2>2. PICK n \in T : \A m \in T : n <= m
    BY <2>1, LeastNatural
  <2>3. PICK p \in R : n = p.priority - least
    BY <2>2
  <2>4. ASSUME NEW r \in R PROVE p.priority <= r.priority
    <3>1. n <= r.priority - least
      BY <2>2
    <3> QED
      BY <1>1, <2>3, <3>1 DEF AreRules
  <2> QED
    BY <2>4
<1> DEFINE Q == {r \in R : r.priority = p.priority}
<1>3. PICK q \in Q : \A r \in Q : q.order <= r.order
  <2> DEFINE T == {r.order : r \in Q}
  <2>1. T \subseteq Nat /\ T # {}
    BY DEF AreRules
  <2>2. PICK n \in T : \A m \in T : n <= m
    BY <2>1, LeastNatural
  <2> QED
    BY <2>2
<1>4. \A s \in R \ {q} : RuleBefore(q, s)
  <2>1. SUFFICES ASSUME NEW s \in R \ {q} PROVE RuleBefore(q, s)
    OBVIOUS
  <2>2. CASE s \in Q
    BY <1>3, <2>2 DEF AreRules, RuleBefore
  <2>3. CASE s \notin Q
    BY <1>2, <1>3, <2>3 DEF AreRules, RuleBefore
  <2> QED
    BY <2>2, <2>3
<1> QED
  BY <1>4, FirstIsOne

\* The rules of one flag are those of another with as much rollout or more.
RaisedBy(up, f, g) ==
    /\ g.rules = {up[r] : r \in f.rules}
    /\ \A r \in f.rules :
          /\ up[r].enabled = r.enabled /\ up[r].segment = r.segment
          /\ up[r].priority = r.priority /\ up[r].order = r.order
          /\ r.rollout \in Int /\ up[r].rollout \in Int /\ r.rollout <= up[r].rollout
    /\ g.enabled = f.enabled
    /\ f.rollout \in Int /\ g.rollout \in Int /\ f.rollout <= g.rollout

LEMMA FirstOfRaised ==
    ASSUME NEW f, NEW g, NEW up, AreRules(f.rules), RaisedBy(up, f, g),
           NEW R \in SUBSET f.rules, R # {}
    PROVE  /\ FirstOf(R) \in f.rules
           /\ FirstOf({up[r] : r \in R}) = up[FirstOf(R)]
<1> DEFINE S == {up[r] : r \in R}
<1>1. AreRules(R)
  BY DEF AreRules
<1>2. AreRules(S)
  BY <1>1 DEF AreRules, RaisedBy
<1>3. FirstOf(R) \in R /\ \A s \in R \ {FirstOf(R)} : RuleBefore(FirstOf(R), s)
  BY <1>1, FirstIsThere
<1>4. \A t \in S \ {up[FirstOf(R)]} : RuleBefore(up[FirstOf(R)], t)
  BY <1>3 DEF RaisedBy, RuleBefore
<1> HIDE DEF S
<1>5. up[FirstOf(R)] \in S
  BY <1>3 DEF S
<1>6. FirstOf(S) = up[FirstOf(R)]
  BY <1>2, <1>4, <1>5, FirstIsOne
<1> QED
  BY <1>3, <1>6 DEF S

\* Raising the rollout of a flag and of any of its rules takes the flag from
\* nobody (_resolve_rollout).
THEOREM RaisingTakesFromNobody ==
    ASSUME NEW f, NEW g, NEW up, NEW bucket \in Int, NEW props,
           AreRules(f.rules), RaisedBy(up, f, g), EvaluateInBatch(f, bucket, props).value
    PROVE  EvaluateInBatch(g, bucket, props).value
<1>1. f.enabled /\ g.enabled
  BY DEF EvaluateInBatch, RaisedBy
<1>2. /\ bucket < ResolveRollout(f, props).rollout
      /\ bucket < ResolveRollout(g, props).rollout => EvaluateInBatch(g, bucket, props).value
  BY <1>1 DEF EvaluateInBatch
<1>3. Enabled(g.rules) = {up[r] : r \in Enabled(f.rules)}
  BY DEF Enabled, RaisedBy
<1>4. Enabled(f.rules) \subseteq f.rules
  BY DEF Enabled
<1>5. /\ SegmentHits(g, props) = {up[r] : r \in SegmentHits(f, props)}
      /\ SegmentHits(f, props) \subseteq f.rules
  BY <1>3, <1>4 DEF SegmentHits, RaisedBy
<1>6. /\ DefaultRules(g) = {up[r] : r \in DefaultRules(f)}
      /\ DefaultRules(f) \subseteq f.rules
  BY <1>3, <1>4 DEF DefaultRules, RaisedBy
<1>7. /\ ResolveRollout(f, props).rollout \in Int /\ ResolveRollout(g, props).rollout \in Int
      /\ ResolveRollout(f, props).rollout <= ResolveRollout(g, props).rollout
  <2>1. CASE SegmentHits(f, props) # {}
    <3>1. SegmentHits(g, props) # {}
      BY <1>5, <2>1
    <3>2. /\ ResolveRollout(f, props).rollout = FirstOf(SegmentHits(f, props)).rollout
          /\ ResolveRollout(g, props).rollout = FirstOf(SegmentHits(g, props)).rollout
      BY <2>1, <3>1 DEF ResolveRollout
    <3>3. /\ FirstOf(SegmentHits(f, props)) \in f.rules
          /\ FirstOf(SegmentHits(g, props)) = up[FirstOf(SegmentHits(f, props))]
      BY <1>5, <2>1, FirstOfRaised
    <3> QED
      BY <3>2, <3>3 DEF RaisedBy
  <2>2. CASE SegmentHits(f, props) = {} /\ DefaultRules(f) # {}
    <3>1. SegmentHits(g, props) = {} /\ DefaultRules(g) # {}
      BY <1>5, <1>6, <2>2
    <3>2. /\ ResolveRollout(f, props).rollout = FirstOf(DefaultRules(f)).rollout
          /\ ResolveRollout(g, props).rollout = FirstOf(DefaultRules(g)).rollout
      BY <2>2, <3>1 DEF ResolveRollout
    <3>3. /\ FirstOf(DefaultRules(f)) \in f.rules
          /\ FirstOf(DefaultRules(g)) = up[FirstOf(DefaultRules(f))]
      BY <1>6, <2>2, FirstOfRaised
    <3> QED
      BY <3>2, <3>3 DEF RaisedBy
  <2>3. CASE SegmentHits(f, props) = {} /\ DefaultRules(f) = {}
    <3>1. SegmentHits(g, props) = {} /\ DefaultRules(g) = {}
      BY <1>5, <1>6, <2>3
    <3> QED
      BY <2>3, <3>1 DEF ResolveRollout, RaisedBy
  <2> QED
    BY <2>1, <2>2, <2>3
<1> QED
  BY <1>2, <1>7

\* A rule for everyone, whatever its priority, changes nothing for a user whom
\* the rule of a segment covers, and nothing under the kill switch.
THEOREM DefaultsDisturbNoSegment ==
    ASSUME NEW flag, {"enabled", "rules"} \subseteq DOMAIN flag, NEW r, r.segment = NoSegment,
           NEW bucket, NEW props,
           EvaluateInBatch(flag, bucket, props).reason \in {"segment_in", "segment_out", "kill_switch"}
    PROVE  EvaluateInBatch([flag EXCEPT !.rules = @ \cup {r}], bucket, props)
             = EvaluateInBatch(flag, bucket, props)
<1> DEFINE more == [flag EXCEPT !.rules = @ \cup {r}]
<1>1. more.enabled = flag.enabled /\ more.rules = flag.rules \cup {r}
  OBVIOUS
<1>2. SegmentHits(more, props) = SegmentHits(flag, props)
  BY <1>1 DEF SegmentHits, Enabled
<1> SUFFICES EvaluateInBatch(more, bucket, props) = EvaluateInBatch(flag, bucket, props)
  OBVIOUS
<1> HIDE DEF more
<1>3. CASE ~flag.enabled
  BY <1>1, <1>3 DEF EvaluateInBatch
<1>4. CASE flag.enabled
  <2>1. SegmentHits(flag, props) # {}
    BY <1>4 DEF EvaluateInBatch, ResolveRollout, Outcome
  <2>2. ResolveRollout(more, props) = ResolveRollout(flag, props)
    BY <1>2, <2>1 DEF ResolveRollout
  <2> QED
    BY <1>1, <1>4, <2>2 DEF EvaluateInBatch
<1> QED
  BY <1>3, <1>4

\* evaluate_flag says what evaluate_flags says, or fails on the rule of a
\* segment that it has not loaded, met with properties.
THEOREM AloneAsInBatch ==
    ASSUME NEW flag, NEW bucket, NEW props
    PROVE  \/ EvaluateAlone(flag, bucket, props) = EvaluateInBatch(flag, bucket, props)
           \/ /\ EvaluateAlone(flag, bucket, props).reason = "error"
              /\ EvaluateInBatch(flag, bucket, props).reason # "kill_switch"
              /\ props # <<>>
<1>1. CASE /\ flag.enabled /\ DOMAIN props # {}
           /\ \E r \in Enabled(flag.rules) : r.segment # NoSegment
  <2>1. EvaluateAlone(flag, bucket, props).reason = "error"
    BY <1>1 DEF EvaluateAlone
  <2>2. EvaluateInBatch(flag, bucket, props).reason # "kill_switch"
    BY <1>1 DEF EvaluateInBatch, Outcome
  <2> QED
    BY <1>1, <2>1, <2>2
<1> QED
  BY <1>1 DEF EvaluateAlone

AnyRule ==
    [order : {1, 2}, priority : {0, 1}, segment : {NoSegment, {}, Germans},
     rollout : {0, 25, 100}, enabled : BOOLEAN]

LEMMA QuestionRules ==
    ASSUME NEW R \in RuleSets
    PROVE  R \subseteq AnyRule /\ AreRules(R)
<1>1. \A segments \in SUBSET {NoSegment, {}, Germans}, n \in {1, 2} :
         \A r \in Rules(n, segments) : r \in AnyRule /\ r.order = n
  BY DEF Rules, AnyRule
<1> DEFINE ones == {{r} : r \in Rules(1, {NoSegment, {}, Germans})}
           First  == Rules(1, {NoSegment, Germans})
           Second == Rules(2, {NoSegment, {}, Germans})
           twos == {{r, s} : r \in First, s \in Second}
<1>2. R \subseteq AnyRule /\ \A r, s \in R : r.order = s.order => r = s
  <2>1. RuleSets = {{}} \cup ones \cup twos
    BY DEF RuleSets
  <2>2. ASSUME R \in ones
        PROVE  R \subseteq AnyRule /\ \A r, s \in R : r.order = s.order => r = s
    <3>1. PICK r \in Rules(1, {NoSegment, {}, Germans}) : R = {r}
      BY <2>2
    <3>2. r \in AnyRule
      BY <1>1
    <3> QED
      BY <3>1, <3>2
  <2>3. ASSUME R \in twos
        PROVE  R \subseteq AnyRule /\ \A r, s \in R : r.order = s.order => r = s
    <3>1. PICK r \in First, s \in Second : R = {r, s}
      <4> HIDE DEF First, Second
      <4> QED BY <2>3
    <3>2. r \in AnyRule /\ r.order = 1 /\ s \in AnyRule /\ s.order = 2
      BY <1>1
    <3> HIDE DEF First, Second
    <3> QED
      BY <3>1, <3>2
  <2> HIDE DEF ones, twos
  <2> QED
    BY <2>1, <2>2, <2>3
<1>3. \A r \in AnyRule : r.priority \in Int /\ r.order \in Nat /\ 0 <= r.priority
  BY DEF AnyRule
<1> QED
  BY <1>2, <1>3 DEF AreRules

LEMMA QuestionsRaise ==
    ASSUME NEW flag \in [enabled : BOOLEAN, rollout : {0, 25, 100}, rules : RuleSets],
           NEW rules \in SUBSET flag.rules
    PROVE  /\ AreRules(flag.rules)
           /\ \E up : RaisedBy(up, flag, Raised(flag, rules))
<1> DEFINE up == [r \in flag.rules |-> IF r \in rules THEN [r EXCEPT !.rollout = Raise(@)] ELSE r]
<1>5. flag.rules \subseteq AnyRule /\ AreRules(flag.rules)
  BY QuestionRules
<1>6. ASSUME NEW r \in flag.rules
      PROVE  /\ up[r].enabled = r.enabled /\ up[r].segment = r.segment
             /\ up[r].priority = r.priority /\ up[r].order = r.order
             /\ r.rollout \in Int /\ up[r].rollout \in Int /\ r.rollout <= up[r].rollout
  <2>1. r \in AnyRule
    BY <1>5
  <2>2. up[r] = IF r \in rules THEN [r EXCEPT !.rollout = Raise(@)] ELSE r
    OBVIOUS
  <2> HIDE DEF up
  <2>3. CASE r \in rules
    <3>1. /\ up[r].enabled = r.enabled /\ up[r].segment = r.segment
          /\ up[r].priority = r.priority /\ up[r].order = r.order
          /\ up[r].rollout = Raise(r.rollout)
      BY <2>1, <2>2, <2>3 DEF AnyRule
    <3>2. r.rollout \in {0, 25, 100}
      BY <2>1 DEF AnyRule
    <3> QED
      BY <3>1, <3>2 DEF Raise
  <2>4. CASE r \notin rules
    BY <2>1, <2>2, <2>4 DEF AnyRule
  <2> QED
    BY <2>3, <2>4
<1>7. /\ Raised(flag, rules).rules = {up[r] : r \in flag.rules}
      /\ Raised(flag, rules).enabled = flag.enabled
      /\ Raised(flag, rules).rollout = Raise(flag.rollout)
  <2> DEFINE new(r) == IF r \in rules THEN [r EXCEPT !.rollout = Raise(@)] ELSE r
             raised == {new(r) : r \in flag.rules}
  <2>1. raised = {up[r] : r \in flag.rules}
    <3>1. \A r \in flag.rules : up[r] = new(r)
      OBVIOUS
    <3> HIDE DEF up, new
    <3> QED
      BY <3>1
  <2>2. Raised(flag, rules) = [flag EXCEPT !.rollout = Raise(@), !.rules = raised]
    BY DEF Raised
  <2> HIDE DEF raised, up
  <2> QED
    BY <2>1, <2>2
<1>8. flag.rollout \in Int /\ Raise(flag.rollout) \in Int /\ flag.rollout <= Raise(flag.rollout)
  BY DEF Raise
<1> HIDE DEF up
<1>9. RaisedBy(up, flag, Raised(flag, rules))
  BY <1>6, <1>7, <1>8 DEF RaisedBy
<1> QED
  BY <1>5, <1>9

\* Of the questions that the run asks: flags, and the holdouts and segments of
\* the assignment service.
THEOREM RolloutsOnlyGrow == Spec => []RolloutOnlyGrows
<1>1. ASSUME RInv PROVE RolloutOnlyGrows
  <2>1. ASSUME Answered("flag")
        PROVE  /\ \A b \in DOMAIN Said.batch, rules \in SUBSET question.flag.rules :
                     Said.batch[b].value =>
                         EvaluateInBatch(Raised(question.flag, rules), b, question.props).value
               /\ \A b \in DOMAIN Said.batch, r \in Rules(3, {NoSegment}) :
                     Said.batch[b].reason \in {"segment_in", "segment_out", "kill_switch"} =>
                         EvaluateInBatch([question.flag EXCEPT !.rules = @ \cup {r}], b, question.props)
                           = Said.batch[b]
               /\ \A b \in DOMAIN Said.batch :
                     \/ Said.alone[b] = Said.batch[b]
                     \/ Said.alone[b].reason = "error" /\ Said.batch[b].reason # "kill_switch"
                        /\ question.props # <<>>
    <3>1. question \in FlagQuestions /\ Said = FlagAnswer
      BY <1>1, <2>1, AnsweredRight
    <3>2. question.flag \in [enabled : BOOLEAN, rollout : {0, 25, 100}, rules : RuleSets]
      BY <3>1 DEF FlagQuestions
    <3>3. /\ DOMAIN Said.batch = {0, 24, 25, 99}
          /\ \A b \in {0, 24, 25, 99} :
                /\ Said.batch[b] = EvaluateInBatch(question.flag, b, question.props)
                /\ Said.alone[b] = EvaluateAlone(question.flag, b, question.props)
      BY <3>1 DEF FlagAnswer
    <3>4. ASSUME NEW b \in {0, 24, 25, 99}, NEW rules \in SUBSET question.flag.rules,
                 EvaluateInBatch(question.flag, b, question.props).value
          PROVE  EvaluateInBatch(Raised(question.flag, rules), b, question.props).value
      <4>1. AreRules(question.flag.rules)
        BY <3>2, QuestionsRaise
      <4>2. PICK up : RaisedBy(up, question.flag, Raised(question.flag, rules))
        BY <3>2, QuestionsRaise
      <4> QED
        BY <3>4, <4>1, <4>2, RaisingTakesFromNobody
    <3>5. ASSUME NEW b \in {0, 24, 25, 99}, NEW r \in Rules(3, {NoSegment}),
                 EvaluateInBatch(question.flag, b, question.props).reason
                   \in {"segment_in", "segment_out", "kill_switch"}
          PROVE  EvaluateInBatch([question.flag EXCEPT !.rules = @ \cup {r}], b, question.props)
                   = EvaluateInBatch(question.flag, b, question.props)
      <4>1. {"enabled", "rules"} \subseteq DOMAIN question.flag /\ r.segment = NoSegment
        BY <3>2 DEF Rules
      <4> QED
        BY <3>5, <4>1, DefaultsDisturbNoSegment
    <3>6. ASSUME NEW b \in {0, 24, 25, 99}
          PROVE  \/ EvaluateAlone(question.flag, b, question.props)
                      = EvaluateInBatch(question.flag, b, question.props)
                 \/ /\ EvaluateAlone(question.flag, b, question.props).reason = "error"
                    /\ EvaluateInBatch(question.flag, b, question.props).reason # "kill_switch"
                    /\ question.props # <<>>
      BY AloneAsInBatch
    <3> HIDE DEF Rules
    <3>7. /\ \A b \in {0, 24, 25, 99} : \A rules \in SUBSET question.flag.rules :
                EvaluateInBatch(question.flag, b, question.props).value =>
                   EvaluateInBatch(Raised(question.flag, rules), b, question.props).value
          /\ \A b \in {0, 24, 25, 99} : \A r \in Rules(3, {NoSegment}) :
                EvaluateInBatch(question.flag, b, question.props).reason
                  \in {"segment_in", "segment_out", "kill_switch"} =>
                   EvaluateInBatch([question.flag EXCEPT !.rules = @ \cup {r}], b, question.props)
                     = EvaluateInBatch(question.flag, b, question.props)
      BY <3>4, <3>5
    <3>8. \A b \in DOMAIN Said.batch, rules \in SUBSET question.flag.rules :
             Said.batch[b].value =>
                 EvaluateInBatch(Raised(question.flag, rules), b, question.props).value
      BY <3>3, <3>7
    <3>9. \A b \in DOMAIN Said.batch, r \in Rules(3, {NoSegment}) :
             Said.batch[b].reason \in {"segment_in", "segment_out", "kill_switch"} =>
                 EvaluateInBatch([question.flag EXCEPT !.rules = @ \cup {r}], b, question.props)
                   = Said.batch[b]
      BY <3>3, <3>7
    <3>10. \A b \in DOMAIN Said.batch :
              \/ Said.alone[b] = Said.batch[b]
              \/ Said.alone[b].reason = "error" /\ Said.batch[b].reason # "kill_switch"
                 /\ question.props # <<>>
      BY <3>3, <3>6
    <3> QED
      BY <3>8, <3>9, <3>10
  <2>2. ASSUME Answered("audience")
        PROVE  /\ Said.held => \A size \in question.size .. 100 :
                     InLinkedHoldout(TRUE, question.enabled, question.excluded, question.bucket, size)
               /\ Said.meant /\ question.segments # {} => \A rules \in {{}, Germans} :
                     MatchesAnySegment(question.segments \cup {rules}, question.props)
    <3>1. question \in AudienceQuestions /\ Said = AudienceAnswer
      BY <1>1, <2>2, AnsweredRight
    <3>2. question.bucket \in Int /\ question.size \in Int
      BY <3>1 DEF AudienceQuestions
    <3>3. Said.held = InLinkedHoldout(question.linked, question.enabled, question.excluded,
                                      question.bucket, question.size)
          /\ Said.meant = MatchesAnySegment(question.segments, question.props)
      BY <3>1 DEF AudienceAnswer
    <3>4. ASSUME Said.held, NEW size \in question.size .. 100
          PROVE  InLinkedHoldout(TRUE, question.enabled, question.excluded, question.bucket, size)
      <4>1. question.enabled /\ ~question.excluded /\ question.bucket < question.size
        BY <3>3, <3>4 DEF InLinkedHoldout, IsInHoldout
      <4>2. question.bucket < size
        BY <3>2, <4>1
      <4> QED
        BY <4>1, <4>2 DEF InLinkedHoldout, IsInHoldout
    <3>5. ASSUME Said.meant, question.segments # {}, NEW rules \in {{}, Germans}
          PROVE  MatchesAnySegment(question.segments \cup {rules}, question.props)
      BY <3>3, <3>5 DEF MatchesAnySegment
    <3> QED
      BY <3>4, <3>5
  <2> QED
    BY <2>1, <2>2 DEF RolloutOnlyGrows
<1> QED
  BY <1>1, AnswersStand, PTL

-----------------------------------------------------------------------------
(* Samples.                                                                  *)

\* A sum over no events is nothing: the recursion of a fold has one step.
LEMMA NothingSumsToZero == ASSUME NEW otherwise PROVE Total({}, otherwise) = 0
<1> DEFINE One(g, s) == IF s = {} THEN 0
                        ELSE LET x == CHOOSE x \in s : TRUE
                             IN (IF x.value = Null THEN otherwise ELSE x.value) + g[s \ {x}]
           F(g) == [s \in SUBSET {} |-> One(g, s)]
           g0 == [s \in SUBSET {} |-> 0]
           h == CHOOSE g : g = F(g)
<1>1. g0 = F(g0)
  OBVIOUS
<1>2. h = F(h)
  <2> HIDE DEF F, g0
  <2> QED BY <1>1
<1>3. h[{}] = 0
  <2> HIDE DEF h
  <2> QED BY <1>2
<1>4. Total({}, otherwise) = h[{}]
  BY DEF Total, MapThenSumSet, MapThenFoldSet
<1> QED
  BY <1>3, <1>4

\* What a user did from the assignment on.
Late(u) == [u EXCEPT !.events = {e \in @ : e.at >= u.assigned}]

AreUsers(users) ==
    /\ IsFiniteSet(users)
    /\ \A u \in users : {"assigned", "events"} \subseteq DOMAIN u
    /\ \A u, w \in users : Late(u) = Late(w) => u = w

LEMMA LateIsEnough ==
    ASSUME NEW u, {"assigned", "events"} \subseteq DOMAIN u, NEW name, NEW filters
    PROVE  Late(u).assigned = u.assigned /\ Joined(Late(u), name, filters) = Joined(u, name, filters)
<1>1. Late(u).assigned = u.assigned /\ Late(u).events = {e \in u.events : e.at >= u.assigned}
  BY DEF Late
<1> QED
  BY <1>1 DEF Joined

LEMMA LateAreAsMany ==
    ASSUME NEW users, AreUsers(users), NEW U \in SUBSET users
    PROVE  Cardinality({Late(u) : u \in U}) = Cardinality(U)
<1> DEFINE f == [u \in U |-> Late(u)]
           T == {Late(u) : u \in U}
<1>1. IsFiniteSet(U)
  BY FS_Subset DEF AreUsers
<1>2. f \in [U -> T]
  OBVIOUS
<1>3. \A u, w \in U : f[u] = f[w] => u = w
  BY DEF AreUsers
<1>4. \A t \in T : \E u \in U : f[u] = t
  OBVIOUS
<1> HIDE DEF f, T
<1>5. f \in Bijection(U, T)
  BY <1>2, <1>3, <1>4 DEF Bijection, Injection, Surjection, IsInjective
<1>6. ExistsBijection(U, T)
  BY <1>5 DEF ExistsBijection
<1> QED
  BY <1>1, <1>6, FS_Bijection DEF T

\* Everybody is in each of the queries, revenue is the numerator of the ratio,
\* whoever has some has converted, and what was done before the assignment
\* does not count.
OneStory(users, name, other, filters) ==
    LET late == {Late(u) : u \in users}
    IN  /\ ConversionData(users, name, filters).total = Cardinality(users)
        /\ DOMAIN RatioData(users, name, other, filters) = users
        /\ \A u \in users :
              RatioData(users, name, other, filters)[u].num = RevenueData(users, name, filters)[u]
        /\ Cardinality({u \in users : RevenueData(users, name, filters)[u] > 0})
              <= ConversionData(users, name, filters).converted
        /\ ConversionData(late, name, filters) = ConversionData(users, name, filters)
        /\ \A u \in users :
              RatioData(late, name, other, filters)[Late(u)] = RatioData(users, name, other, filters)[u]

\* The queries of the engine tell one story of any users, metrics and filters
\* (_get_conversion_data, _get_revenue_data, _get_ratio_data).
THEOREM QueriesAgree ==
    ASSUME NEW users, AreUsers(users), NEW name, NEW other, NEW filters
    PROVE  OneStory(users, name, other, filters)
<1> DEFINE late == {Late(u) : u \in users}
           earning == {u \in users : RevenueData(users, name, filters)[u] > 0}
           converted == {u \in users : Joined(u, name, filters) # {}}
           convertedLate == {u \in late : Joined(u, name, filters) # {}}
<1>1. /\ ConversionData(users, name, filters).total = Cardinality(users)
      /\ ConversionData(users, name, filters).converted = Cardinality(converted)
      /\ ConversionData(late, name, filters).total = Cardinality(late)
      /\ ConversionData(late, name, filters).converted = Cardinality(convertedLate)
  BY DEF ConversionData
<1>2. /\ DOMAIN RatioData(users, name, other, filters) = users
      /\ \A u \in users :
            RatioData(users, name, other, filters)[u].num = RevenueData(users, name, filters)[u]
  BY DEF RatioData, RevenueData
<1>3. Cardinality(earning) <= Cardinality(converted)
  <2>1. ASSUME NEW u \in earning PROVE u \in converted
    <3>1. u \in users /\ Total(Joined(u, name, filters), 0) > 0
      BY <2>1 DEF RevenueData
    <3>2. Joined(u, name, filters) # {}
      BY <3>1, NothingSumsToZero
    <3> QED
      BY <3>1, <3>2
  <2>2. IsFiniteSet(converted)
    BY FS_Subset DEF AreUsers
  <2> QED
    BY <2>1, <2>2, FS_Subset
<1>4. \A u \in users : \A n : Joined(Late(u), n, filters) = Joined(u, n, filters)
  BY LateIsEnough DEF AreUsers
<1>5. Cardinality(late) = Cardinality(users)
  BY LateAreAsMany
<1>6. Cardinality(convertedLate) = Cardinality(converted)
  <2>1. convertedLate = {Late(u) : u \in converted}
    BY <1>4
  <2>2. Cardinality({Late(u) : u \in converted}) = Cardinality(converted)
    BY LateAreAsMany
  <2> QED
    BY <2>1, <2>2
<1>7. ConversionData(late, name, filters) = ConversionData(users, name, filters)
  BY <1>5, <1>6 DEF ConversionData
<1>8. ASSUME NEW u \in users
      PROVE  RatioData(late, name, other, filters)[Late(u)] = RatioData(users, name, other, filters)[u]
  BY <1>4 DEF RatioData
<1> HIDE DEF late, earning, converted, convertedLate
<1> QED
  BY <1>1, <1>2, <1>3, <1>7, <1>8 DEF OneStory, late, earning

\* Of the questions that the run asks.
THEOREM SamplesAlwaysAgree == Spec => []SamplesAgree
<1>1. ASSUME RInv PROVE SamplesAgree
  <2>1. SUFFICES ASSUME Answered("sample") PROVE SamplesAgree
    BY DEF SamplesAgree
  <2> DEFINE users == question.users
             late  == {[u EXCEPT !.events = {e \in @ : e.at >= u.assigned}] : u \in users}
  <2>2. question \in SampleQuestions /\ Said = SampleAnswer
    BY <1>1, <2>1, AnsweredRight
  <2>3. PICK E1, E2 : users = Users(E1, E2)
    BY <2>2 DEF SampleQuestions
  <2> DEFINE first  == [assigned |-> 1, events |-> E1]
             second == [assigned |-> 2, events |-> E2]
  <2>4. users = {first} \cup {second} /\ first.assigned = 1 /\ second.assigned = 2
    BY <2>3 DEF Users
  <2>5. \A u \in users : {"assigned", "events"} \subseteq DOMAIN u
    BY <2>4
  <2>6. IsFiniteSet(users) /\ Cardinality(users) = 2
    <3>1. second \notin {first}
      OBVIOUS
    <3> HIDE DEF first, second, users
    <3>2. IsFiniteSet({first}) /\ Cardinality({first}) = 1
      BY FS_Singleton
    <3>3. IsFiniteSet({first} \cup {second}) /\ Cardinality({first} \cup {second}) = 1 + 1
      BY <3>1, <3>2, FS_AddElement
    <3> QED
      BY <2>4, <3>3
  <2>7. \A u, w \in users : u.assigned = w.assigned => u = w
    BY <2>4
  <2>8. \A u \in users : Late(u).assigned = u.assigned
    BY <2>5, LateIsEnough
  <2>9. AreUsers(users)
    BY <2>5, <2>6, <2>7, <2>8 DEF AreUsers
  <2>10. late = {Late(u) : u \in users}
    BY DEF Late
  <2>11. /\ Said.conversion = ConversionData(users, "a", question.filters)
         /\ Said.revenue = RevenueData(users, "a", question.filters)
         /\ Said.ratio = RatioData(users, "a", "b", question.filters)
    BY <2>2 DEF SampleAnswer
  <2>12. OneStory(users, "a", "b", question.filters)
    BY <2>9, QueriesAgree
  <2> HIDE DEF users, late
  <2>13. /\ Said.conversion.total = 2 /\ DOMAIN Said.ratio = users
         /\ \A u \in users : Said.ratio[u].num = Said.revenue[u]
         /\ Cardinality({u \in users : Said.revenue[u] > 0}) <= Said.conversion.converted
         /\ ConversionData(late, "a", question.filters) = Said.conversion
    BY <2>6, <2>10, <2>11, <2>12 DEF OneStory
  <2>14. ASSUME NEW u \in late, NEW w \in users, u.assigned = w.assigned
         PROVE  RatioData(late, "a", "b", question.filters)[u] = Said.ratio[w]
    <3>1. PICK x \in users : u = Late(x)
      BY <2>10
    <3>2. x = w
      BY <2>7, <2>8, <2>14, <3>1
    <3> QED
      BY <2>10, <2>11, <2>12, <3>1, <3>2 DEF OneStory
  <2> QED
    BY <2>13, <2>14 DEF SamplesAgree, users, late
<1> QED
  BY <1>1, AnswersStand, PTL

-----------------------------------------------------------------------------
(* The correction.                                                           *)

\* Tests and their p-values in thousandths.
ArePValues(p) == IsFiniteSet(DOMAIN p) /\ \A k \in DOMAIN p : p[k] \in 0 .. 1000

SortedOn(p, f, T) ==
    /\ f \in Bijection(1 .. Cardinality(T), T)
    /\ \A i, j \in 1 .. Cardinality(T) : i < j => p[f[i]] <= p[f[j]]

\* A nonempty set of numbers up to m has a greatest.
LEMMA GreatestBelow ==
    ASSUME NEW m \in Int, NEW T, T # {}, \A t \in T : t \in Int /\ t <= m
    PROVE  \E n \in T : \A t \in T : t <= n
<1> DEFINE U == {m - t : t \in T}
<1>1. U \subseteq Nat /\ U # {}
  OBVIOUS
<1>2. PICK u \in U : \A v \in U : u <= v
  BY <1>1, LeastNatural
<1>3. PICK n \in T : u = m - n
  BY <1>2
<1>4. ASSUME NEW t \in T PROVE t <= n
  <2>1. u <= m - t
    BY <1>2
  <2> QED
    BY <1>3, <2>1
<1> QED
  BY <1>4

LEMMA LastAppended ==
    ASSUME NEW p, NEW T, IsFiniteSet(T), NEW x \in T, \A t \in T : p[t] \in Int /\ p[t] <= p[x],
           NEW g, SortedOn(p, g, T \ {x})
    PROVE  \E f : SortedOn(p, f, T)
<1> DEFINE n == Cardinality(T)
           f == [i \in 1 .. n |-> IF i = n THEN x ELSE g[i]]
<1>1. n \in Nat /\ n > 0 /\ Cardinality(T \ {x}) = n - 1
  BY FS_CardinalityType, FS_RemoveElement, FS_EmptySet
<1>2. /\ g \in [1 .. n - 1 -> T \ {x}]
      /\ \A i, j \in 1 .. n - 1 : g[i] = g[j] => i = j
      /\ \A t \in T \ {x} : \E i \in 1 .. n - 1 : g[i] = t
      /\ \A i, j \in 1 .. n - 1 : i < j => p[g[i]] <= p[g[j]]
  BY <1>1 DEF SortedOn, Bijection, Injection, Surjection, IsInjective
<1>3. /\ f[n] = x
      /\ \A i \in 1 .. n : i # n => i \in 1 .. n - 1 /\ f[i] = g[i]
  BY <1>1
<1>4. f \in [1 .. n -> T]
  BY <1>1, <1>2
<1> HIDE DEF f, n
<1>5. \A i, j \in 1 .. n : f[i] = f[j] => i = j
  BY <1>1, <1>2, <1>3
<1>6. \A t \in T : \E i \in 1 .. n : f[i] = t
  <2>1. SUFFICES ASSUME NEW t \in T PROVE \E i \in 1 .. n : f[i] = t
    OBVIOUS
  <2>2. CASE t = x
    BY <1>1, <1>3, <2>2
  <2>3. CASE t # x
    <3>1. PICK i \in 1 .. n - 1 : g[i] = t
      BY <1>2, <2>3
    <3>2. i \in 1 .. n /\ i # n
      BY <1>1
    <3> QED
      BY <1>3, <3>1, <3>2
  <2> QED
    BY <2>2, <2>3
<1>7. \A i, j \in 1 .. n : i < j => p[f[i]] <= p[f[j]]
  <2>1. SUFFICES ASSUME NEW i \in 1 .. n, NEW j \in 1 .. n, i < j PROVE p[f[i]] <= p[f[j]]
    OBVIOUS
  <2>2. i # n /\ i \in 1 .. n - 1 /\ f[i] = g[i]
    BY <1>1, <1>3, <2>1
  <2>3. CASE j = n
    BY <1>3, <1>4, <2>3
  <2>4. CASE j # n
    BY <1>2, <1>3, <2>1, <2>2, <2>4
  <2> QED
    BY <2>3, <2>4
<1>8. f \in Bijection(1 .. n, T)
  BY <1>4, <1>5, <1>6 DEF Bijection, Injection, Surjection, IsInjective
<1> QED
  BY <1>7, <1>8 DEF SortedOn, n

\* p-values can be sorted: there is no smallest set of them that cannot.
LEMMA PValuesSort ==
    ASSUME NEW p, ArePValues(p)
    PROVE  \E f : SortedOn(p, f, DOMAIN p)
<1> DEFINE Unsorted == {T \in SUBSET DOMAIN p : ~ \E f : SortedOn(p, f, T)}
           sizes == {Cardinality(T) : T \in Unsorted}
<1>0. \A T \in SUBSET DOMAIN p : IsFiniteSet(T) /\ Cardinality(T) \in Nat
  BY FS_Subset, FS_CardinalityType DEF ArePValues
<1>1. SUFFICES ASSUME Unsorted # {} PROVE FALSE
  OBVIOUS
<1>2. sizes \subseteq Nat /\ sizes # {}
  BY <1>0, <1>1
<1>3. PICK n \in sizes : \A m \in sizes : n <= m
  BY <1>2, LeastNatural
<1>4. PICK T \in Unsorted : n = Cardinality(T)
  BY <1>3
<1>5. T # {}
  <2>1. ASSUME T = {} PROVE SortedOn(p, <<>>, T)
    <3>1. Cardinality({}) = 0 /\ 1 .. 0 = {}
      BY FS_EmptySet
    <3>2. <<>> \in Bijection({}, {})
      BY DEF Bijection, Injection, Surjection, IsInjective
    <3> QED
      BY <2>1, <3>1, <3>2 DEF SortedOn
  <2> QED
    BY <1>4, <2>1
<1>6. PICK x \in T : \A t \in T : p[t] <= p[x]
  <2> DEFINE V == {p[t] : t \in T}
  <2>1. V # {} /\ \A v \in V : v \in Int /\ v <= 1000
    BY <1>5 DEF ArePValues
  <2>2. PICK v \in V : \A w \in V : w <= v
    <3> HIDE DEF V
    <3> QED BY <2>1, GreatestBelow
  <2> QED
    BY <2>2
<1>7. T \ {x} \in SUBSET DOMAIN p /\ Cardinality(T \ {x}) = n - 1 /\ n \in Nat
  BY <1>0, <1>4, FS_RemoveElement
<1>8. T \ {x} \notin Unsorted
  BY <1>3, <1>7
<1>9. PICK g : SortedOn(p, g, T \ {x})
  BY <1>7, <1>8
<1>10. \A t \in T : p[t] \in Int
  BY DEF ArePValues
<1> QED
  BY <1>0, <1>4, <1>6, <1>9, <1>10, LastAppended

\* The tests whose p-value is not larger than that of j.
UpTo(p, j) == {k \in DOMAIN p : p[k] <= p[j]}

\* In sorted order, the tests up to j are the first ones.
LEMMA FirstOnesUpTo ==
    ASSUME NEW p, ArePValues(p), NEW f, SortedOn(p, f, DOMAIN p), NEW j \in DOMAIN p
    PROVE  LET c == Cardinality(UpTo(p, j))
           IN  /\ c \in 1 .. Cardinality(DOMAIN p)
               /\ \A t \in 1 .. Cardinality(DOMAIN p) : p[f[t]] <= p[j] <=> t <= c
<1> DEFINE n == Cardinality(DOMAIN p)
           L == {t \in 1 .. n : p[f[t]] <= p[j]}
<1>1. n \in Nat /\ \A k \in DOMAIN p : p[k] \in Int
  <2>1. n \in Nat
    BY FS_CardinalityType DEF ArePValues
  <2>2. \A k \in DOMAIN p : p[k] \in Int
    BY DEF ArePValues
  <2> QED
    BY <2>1, <2>2
<1>2. /\ f \in [1 .. n -> DOMAIN p]
      /\ \A s, t \in 1 .. n : f[s] = f[t] => s = t
      /\ \A k \in DOMAIN p : \E t \in 1 .. n : f[t] = k
      /\ \A s, t \in 1 .. n : s < t => p[f[s]] <= p[f[t]]
  BY DEF SortedOn, Bijection, Injection, Surjection, IsInjective
<1> HIDE DEF n
<1>3. PICK m \in L : \A t \in L : t <= m
  <2>1. L # {} /\ \A t \in L : t \in Int /\ t <= n
    BY <1>1, <1>2
  <2> HIDE DEF L
  <2> QED
    BY <1>1, <2>1, GreatestBelow
<1>4. \A t \in 1 .. n : t <= m => t \in L
  BY <1>1, <1>2, <1>3
<1>5. L = 1 .. m
  BY <1>1, <1>3, <1>4
<1>6. IsFiniteSet(L) /\ Cardinality(L) = m
  <2>1. m \in Nat /\ m > 0
    BY <1>1, <1>3
  <2>2. IsFiniteSet(1 .. m) /\ Cardinality(1 .. m) = IF 1 > m THEN 0 ELSE m - 1 + 1
    BY <2>1, FS_Interval
  <2> HIDE DEF L
  <2> QED
    BY <1>5, <2>1, <2>2
<1>7. Cardinality(UpTo(p, j)) = Cardinality(L)
  <2> DEFINE g == [t \in L |-> f[t]]
  <2>1. g \in [L -> UpTo(p, j)]
    BY <1>2 DEF UpTo
  <2>2. \A s, t \in L : g[s] = g[t] => s = t
    BY <1>2
  <2>3. \A k \in UpTo(p, j) : \E t \in L : g[t] = k
    <3>1. SUFFICES ASSUME NEW k \in UpTo(p, j) PROVE \E t \in L : g[t] = k
      OBVIOUS
    <3>2. PICK t \in 1 .. n : f[t] = k
      BY <1>2 DEF UpTo
    <3>3. t \in L
      BY <3>2 DEF UpTo
    <3> QED
      BY <3>2, <3>3
  <2>4. IsFiniteSet(L)
    BY <1>6
  <2> HIDE DEF g, L
  <2>5. g \in Bijection(L, UpTo(p, j))
    BY <2>1, <2>2, <2>3 DEF Bijection, Injection, Surjection, IsInjective
  <2>6. ExistsBijection(L, UpTo(p, j))
    BY <2>5 DEF ExistsBijection
  <2> QED
    BY <2>4, <2>6, FS_Bijection
<1>8. \A t \in 1 .. n : p[f[t]] <= p[j] <=> t <= m
  BY <1>3, <1>4
<1> QED
  BY <1>3, <1>6, <1>7, <1>8 DEF n

\* What the step-up procedure calls significant: a test with a p-value at
\* least as large that is within its share of alpha, where the share counts
\* the p-values up to it; a single one has to be below.
StepUp(p) ==
    LET n == Cardinality(DOMAIN p)
    IN  {i \in DOMAIN p :
            \E j \in DOMAIN p :
                /\ p[i] <= p[j]
                /\ p[j] * n <= Cardinality({k \in DOMAIN p : p[k] <= p[j]}) * Alpha
                /\ n = 1 => p[j] # Alpha}

\* benjamini_hochberg, for any number of tests and any p-values with ties.
THEOREM CorrectionStepsUp ==
    ASSUME NEW p, ArePValues(p)
    PROVE  BenjaminiHochberg(p) = StepUp(p)
<1> DEFINE n == Cardinality(DOMAIN p)
           Sorted(f) == f \in Bijection(1 .. n, DOMAIN p) /\ \A i, j \in 1 .. n : i < j => p[f[i]] <= p[f[j]]
           by == CHOOSE f \in Bijection(1 .. n, DOMAIN p) : \A i, j \in 1 .. n : i < j => p[f[i]] <= p[f[j]]
           below == {i \in 1 .. n : p[by[i]] * n <= i * Alpha}
<1>1. SortedOn(p, by, DOMAIN p)
  <2>1. PICK f : Sorted(f)
    BY PValuesSort DEF SortedOn
  <2>2. Sorted(by)
    BY <2>1
  <2> QED
    BY <2>2 DEF SortedOn
<1>2. n \in Nat /\ \A k \in DOMAIN p : p[k] \in Nat
  <2>1. n \in Nat
    BY FS_CardinalityType DEF ArePValues
  <2>2. \A k \in DOMAIN p : p[k] \in Nat
    BY DEF ArePValues
  <2> QED
    BY <2>1, <2>2
<1>3. BenjaminiHochberg(p) = IF n = 1 THEN {k \in DOMAIN p : p[k] < Alpha}
                             ELSE IF below = {} THEN {} ELSE {by[i] : i \in 1 .. Max(below)}
  BY DEF BenjaminiHochberg
<1> HIDE DEF by
<1>4. /\ by \in [1 .. n -> DOMAIN p]
      /\ \A k \in DOMAIN p : \E t \in 1 .. n : by[t] = k
      /\ \A s, t \in 1 .. n : s < t => p[by[s]] <= p[by[t]]
  BY <1>1 DEF SortedOn, Bijection, Injection, Surjection, IsInjective
<1>5. \A j \in DOMAIN p : /\ Cardinality(UpTo(p, j)) \in 1 .. n
                          /\ \A t \in 1 .. n : p[by[t]] <= p[j] <=> t <= Cardinality(UpTo(p, j))
  BY <1>1, FirstOnesUpTo
<1> DEFINE Good(i, j) == /\ p[i] <= p[j]
                         /\ p[j] * n <= Cardinality(UpTo(p, j)) * Alpha
                         /\ n = 1 => p[j] # Alpha
<1>6. StepUp(p) = {i \in DOMAIN p : \E j \in DOMAIN p : Good(i, j)}
  BY DEF StepUp, UpTo
<1>7. CASE n = 1
  <2>1. \A j \in DOMAIN p : Cardinality(UpTo(p, j)) = 1
    BY <1>5, <1>7
  <2>2. \A i, j \in DOMAIN p : i = j
    BY <1>4, <1>7
  <2>3. \A i, j \in DOMAIN p : Good(i, j) <=> p[i] < Alpha
    BY <1>2, <1>7, <2>1, <2>2 DEF Alpha
  <2> HIDE DEF Good
  <2> QED
    BY <1>3, <1>6, <1>7, <2>3
<1>8. CASE n # 1
  <2>1. ASSUME NEW i \in DOMAIN p, NEW j \in DOMAIN p, Good(i, j)
        PROVE  below # {} /\ \E t \in 1 .. n : by[t] = i /\ \E l \in below : t <= l
    <3> DEFINE l == Cardinality(UpTo(p, j))
    <3>1. l \in 1 .. n /\ p[by[l]] <= p[j]
      BY <1>2, <1>5
    <3>2. p[by[l]] \in Nat /\ p[j] \in Nat
      BY <1>2, <1>4, <3>1
    <3>3. p[j] * n <= l * Alpha
      BY <2>1
    <3> HIDE DEF l
    <3>4. p[by[l]] * n <= p[j] * n
      BY <1>2, <3>1, <3>2, Z3
    <3>5. l \in below
      BY <1>2, <3>1, <3>2, <3>3, <3>4 DEF Alpha
    <3>6. PICK t \in 1 .. n : by[t] = i
      BY <1>4
    <3>7. t <= l
      BY <1>5, <2>1, <3>6 DEF l
    <3> QED
      BY <3>5, <3>6, <3>7
  <2>2. ASSUME NEW m \in below, NEW t \in 1 .. m
        PROVE  t \in 1 .. n /\ Good(by[t], by[m])
    <3>1. t \in 1 .. n /\ m \in 1 .. n /\ t <= m
      BY <1>2
    <3>2. by[t] \in DOMAIN p /\ by[m] \in DOMAIN p
      BY <1>4, <3>1
    <3>3. p[by[t]] <= p[by[m]]
      BY <1>2, <1>4, <3>1, <3>2
    <3> DEFINE c == Cardinality(UpTo(p, by[m]))
    <3>4. c \in 1 .. n /\ m <= c
      BY <1>2, <1>5, <3>1, <3>2
    <3>5. p[by[m]] * n <= m * Alpha
      OBVIOUS
    <3>6. p[by[m]] * n <= c * Alpha
      <4> HIDE DEF c
      <4>1. p[by[m]] * n \in Int
        BY <1>2, <3>2
      <4> QED
        BY <1>2, <3>1, <3>4, <3>5, <4>1 DEF Alpha
    <3> QED
      BY <1>8, <3>1, <3>3, <3>6
  <2>3. below # {} => Max(below) \in below /\ \A l \in below : l <= Max(below)
    <3>1. SUFFICES ASSUME below # {} PROVE Max(below) \in below /\ \A l \in below : l <= Max(below)
      OBVIOUS
    <3>2. \A l \in below : l \in Int /\ l <= n
      BY <1>2
    <3> HIDE DEF below
    <3>3. PICK l \in below : \A k \in below : k <= l
      BY <1>2, <3>1, <3>2, GreatestBelow
    <3>4. \A k \in below : l >= k
      BY <3>2, <3>3
    <3>5. Max(below) \in below /\ \A k \in below : Max(below) >= k
      BY <3>4 DEF Max
    <3> QED
      BY <3>2, <3>5
  <2>4. \A l \in below : l \in 1 .. n
    OBVIOUS
  <2> HIDE DEF below, Good
  <2>5. CASE below = {}
    BY <1>3, <1>6, <1>8, <2>1, <2>5
  <2>6. CASE below # {}
    <3>1. \A i \in StepUp(p) : i \in {by[t] : t \in 1 .. Max(below)}
      <4>1. SUFFICES ASSUME NEW i \in StepUp(p) PROVE \E t \in 1 .. Max(below) : by[t] = i
        OBVIOUS
      <4>2. PICK j \in DOMAIN p : i \in DOMAIN p /\ Good(i, j)
        BY <1>6
      <4>3. PICK t \in 1 .. n, l \in below : by[t] = i /\ t <= l
        BY <2>1, <4>2
      <4>4. t \in 1 .. Max(below)
        BY <1>2, <2>3, <2>4, <2>6, <4>3
      <4> QED
        BY <4>3, <4>4
    <3>2. \A t \in 1 .. Max(below) : by[t] \in StepUp(p)
      <4>1. SUFFICES ASSUME NEW t \in 1 .. Max(below) PROVE by[t] \in StepUp(p)
        OBVIOUS
      <4>2. t \in 1 .. n /\ Good(by[t], by[Max(below)]) /\ Max(below) \in 1 .. n
        BY <2>2, <2>3, <2>4, <2>6
      <4>3. by[t] \in DOMAIN p /\ by[Max(below)] \in DOMAIN p
        BY <1>4, <4>2
      <4> QED
        BY <1>6, <4>2, <4>3
    <3> QED
      BY <1>3, <1>8, <2>6, <3>1, <3>2
  <2> QED
    BY <2>5, <2>6
<1> QED
  BY <1>7, <1>8

\* Of the questions that the run asks.
THEOREM CorrectionsStepUp == Spec => []CorrectionIsStepUp
<1>1. ASSUME RInv PROVE CorrectionIsStepUp
  <2>1. SUFFICES ASSUME question \in CorrectionQuestions, Said = CorrectionAnswer
                 PROVE  Said = StepUp(question.p)
    BY <1>1, AnsweredRight DEF CorrectionIsStepUp, StepUp
  <2>2. ASSUME NEW D, IsFiniteSet(D), NEW p \in [D -> PValues] PROVE ArePValues(p)
    <3>1. \A v \in PValues : v \in 0 .. 1000
      BY DEF PValues
    <3>2. DOMAIN p = D /\ \A k \in D : p[k] \in PValues
      OBVIOUS
    <3>3. IsFiniteSet(DOMAIN p)
      BY <2>2, <3>2, Zenon
    <3>4. \A k \in DOMAIN p : p[k] \in 0 .. 1000
      BY <3>1, <3>2
    <3> QED
      BY <3>3, <3>4 DEF ArePValues
  <2>3. ArePValues(question.p)
    <3>1. \/ question.p \in UNION {[1 .. n -> PValues] : n \in 0 .. 3}
          \/ question.p \in [1 .. 4 -> {0, 12, 13, 25, 38, 50, 51}]
      BY <2>1, Zenon DEF CorrectionQuestions
    <3>2. ASSUME NEW p, p \in UNION {[1 .. n -> PValues] : n \in 0 .. 3} PROVE ArePValues(p)
      <4>1. PICK n \in 0 .. 3 : p \in [1 .. n -> PValues]
        BY <3>2
      <4>2. IsFiniteSet(1 .. n)
        BY FS_Interval
      <4> QED
        BY <2>2, <4>1, <4>2
    <3>3. ASSUME NEW p \in [1 .. 4 -> {0, 12, 13, 25, 38, 50, 51}] PROVE ArePValues(p)
      <4>1. {0, 12, 13, 25, 38, 50, 51} \subseteq PValues
        BY DEF PValues
      <4>2. PICK n \in Int : n = 4
        OBVIOUS
      <4>3. p \in [1 .. n -> PValues]
        BY <4>1, <4>2
      <4>4. IsFiniteSet(1 .. n)
        BY FS_Interval
      <4> QED
        BY <2>2, <4>3, <4>4
    <3> QED
      BY <3>1, <3>2, <3>3
  <2> QED
    BY <2>1, <2>3, CorrectionStepsUp DEF CorrectionAnswer
<1> QED
  BY <1>1, AnswersStand, PTL

-----------------------------------------------------------------------------
(* Buckets.  pick_variant adds up splits in the order of the names; the sum  *)
(* over a set is a fold, whose recursion is unfolded here step by step: that *)
(* it has a solution, that the solution for a set is that for its subsets,   *)
(* and that the order of the fold does not matter, each by a smallest        *)
(* counterexample.                                                           *)

Sum(S) == MapThenSumSet(LAMBDA v : v.split, S)

One(g, s) == IF s = {} THEN 0 ELSE LET x == CHOOSE x \in s : TRUE IN x.split + g[s \ {x}]

Solves(g, D) == g = [s \in D |-> One(g, s)]

Upto(S, n) == {s \in SUBSET S : Cardinality(s) <= n}

LEMMA OneLess ==
    ASSUME NEW S, IsFiniteSet(S), NEW x \in S
    PROVE  /\ IsFiniteSet(S \ {x}) /\ Cardinality(S) \in Nat
           /\ Cardinality(S \ {x}) = Cardinality(S) - 1 /\ Cardinality(S) - 1 \in Nat
<1>1. IsFiniteSet(S \ {x}) /\ Cardinality(S \ {x}) = Cardinality(S) - 1
  BY FS_RemoveElement
<1>2. Cardinality(S) \in Nat /\ Cardinality(S \ {x}) \in Nat
  BY <1>1, FS_CardinalityType
<1> QED
  BY <1>1, <1>2

LEMMA SumHasSolution ==
    ASSUME NEW S, IsFiniteSet(S)
    PROVE  \E g : Solves(g, SUBSET S)
<1> DEFINE Bad == {n \in Nat : ~ \E g : Solves(g, Upto(S, n))}
<1>1. Bad = {}
  <2> SUFFICES ASSUME Bad # {} PROVE FALSE
    OBVIOUS
  <2>1. PICK n \in Bad : \A m \in Bad : n <= m
    BY LeastNatural
  <2>2. n # 0
    <3> SUFFICES ASSUME n = 0 PROVE \E g : Solves(g, Upto(S, 0))
      BY <2>1
    <3>1. \A s \in Upto(S, 0) : s = {}
      BY FS_Subset, FS_CardinalityType, FS_EmptySet DEF Upto
    <3> DEFINE g == [s \in Upto(S, 0) |-> 0]
    <3>2. \A s \in Upto(S, 0) : One(g, s) = 0
      BY <3>1 DEF One
    <3>3. Solves(g, Upto(S, 0))
      BY <3>2 DEF Solves
    <3> QED
      BY <3>3
  <2>3. n - 1 \in Nat /\ n - 1 \notin Bad
    BY <2>1, <2>2
  <2>4. PICK g : Solves(g, Upto(S, n - 1))
    BY <2>3
  <2> DEFINE h == [s \in Upto(S, n) |-> One(g, s)]
  <2>5. ASSUME NEW s \in Upto(S, n) PROVE One(h, s) = One(g, s)
    <3>1. CASE s = {}
      BY <3>1 DEF One
    <3>2. CASE s # {}
      <4>1. PICK x : x = CHOOSE y \in s : TRUE
        OBVIOUS
      <4>2. s \ {x} \in Upto(S, n - 1) /\ s \ {x} \in Upto(S, n)
        <5>1. x \in s /\ s \in SUBSET S /\ IsFiniteSet(s) /\ Cardinality(s) <= n
          BY <3>2, <4>1, FS_Subset DEF Upto
        <5>2. Cardinality(s) \in Nat /\ Cardinality(s \ {x}) = Cardinality(s) - 1
          BY <5>1, OneLess
        <5>3. Cardinality(s \ {x}) <= n - 1 /\ Cardinality(s \ {x}) <= n
          BY <2>1, <5>1, <5>2
        <5> QED
          BY <5>1, <5>3 DEF Upto
      <4>3. h[s \ {x}] = One(g, s \ {x}) /\ g[s \ {x}] = One(g, s \ {x})
        BY <2>4, <4>2 DEF Solves
      <4> HIDE DEF h
      <4> QED
        BY <3>2, <4>1, <4>3 DEF One
    <3> QED
      BY <3>1, <3>2
  <2>6. h = [s \in Upto(S, n) |-> One(h, s)]
    <3>1. \A s \in Upto(S, n) : h[s] = One(h, s)
      BY <2>5
    <3> QED
      BY <3>1
  <2>7. Solves(h, Upto(S, n))
    BY <2>6 DEF Solves
  <2> QED
    BY <2>1, <2>7
<1>2. Cardinality(S) \in Nat /\ Upto(S, Cardinality(S)) = SUBSET S
  BY FS_CardinalityType, FS_Subset DEF Upto
<1>3. \E g : Solves(g, Upto(S, Cardinality(S)))
  BY <1>1, <1>2
<1> QED
  BY <1>2, <1>3

LEMMA SumSolved ==
    ASSUME NEW S, IsFiniteSet(S)
    PROVE  \E h : Solves(h, SUBSET S) /\ Sum(S) = h[S]
<1> DEFINE F(g) == [s \in SUBSET S |-> One(g, s)]
           h == CHOOSE g : g = F(g)
<1>1. h = F(h)
  <2>1. \E g : g = F(g)
    BY SumHasSolution DEF Solves
  <2> HIDE DEF F
  <2> QED
    BY <2>1
<1>2. Sum(S) = h[S]
  BY DEF Sum, MapThenSumSet, MapThenFoldSet, One
<1>3. Solves(h, SUBSET S)
  <2> HIDE DEF h
  <2> QED BY <1>1 DEF Solves
<1> HIDE DEF h
<1> QED
  BY <1>2, <1>3

\* Two solutions do not differ where both are defined.
LEMMA OneSolution ==
    ASSUME NEW S, IsFiniteSet(S), NEW T \in SUBSET S,
           NEW g, Solves(g, SUBSET S), NEW h, Solves(h, SUBSET T)
    PROVE  g[T] = h[T]
<1> DEFINE Bad == {n \in Nat : \E s \in SUBSET T : Cardinality(s) = n /\ g[s] # h[s]}
<1>1. \A s \in SUBSET T : Cardinality(s) \in Nat /\ s \in SUBSET S
  BY FS_Subset, FS_CardinalityType
<1>2. Bad = {}
  <2> SUFFICES ASSUME Bad # {} PROVE FALSE
    OBVIOUS
  <2>1. PICK n \in Bad : \A m \in Bad : n <= m
    BY LeastNatural
  <2>2. PICK s \in SUBSET T : Cardinality(s) = n /\ g[s] # h[s]
    BY <2>1
  <2>3. g[s] = One(g, s) /\ h[s] = One(h, s)
    BY <1>1 DEF Solves
  <2>4. s # {}
    BY <2>2, <2>3 DEF One
  <2>5. PICK x : x = CHOOSE y \in s : TRUE
    OBVIOUS
  <2>6. s \ {x} \in SUBSET T /\ Cardinality(s \ {x}) = n - 1 /\ n - 1 \in Nat
    <3>1. x \in s /\ IsFiniteSet(s) /\ s \ {x} \in SUBSET T
      BY <2>4, <2>5, FS_Subset
    <3> QED
      BY <2>2, <3>1, OneLess
  <2>7. g[s \ {x}] = h[s \ {x}]
    BY <2>1, <2>6
  <2> QED
    BY <2>2, <2>3, <2>4, <2>5, <2>7 DEF One
<1> QED
  BY <1>1, <1>2

LEMMA SumUnfolds ==
    ASSUME NEW S, IsFiniteSet(S)
    PROVE  /\ Sum({}) = 0
           /\ S # {} => \E x \in S : Sum(S) = x.split + Sum(S \ {x})
<1>1. Sum({}) = 0
  <2>1. PICK h : Solves(h, SUBSET {}) /\ Sum({}) = h[{}]
    BY SumSolved, FS_EmptySet
  <2>2. h[{}] = One(h, {})
    BY <2>1 DEF Solves
  <2> QED
    BY <2>1, <2>2 DEF One
<1>2. ASSUME S # {} PROVE \E x \in S : Sum(S) = x.split + Sum(S \ {x})
  <2>1. PICK h : Solves(h, SUBSET S) /\ Sum(S) = h[S]
    BY SumSolved
  <2>2. PICK x : x = CHOOSE y \in S : TRUE
    OBVIOUS
  <2>3. h[S] = One(h, S)
    BY <2>1 DEF Solves
  <2>4. Sum(S) = x.split + h[S \ {x}]
    BY <1>2, <2>1, <2>2, <2>3 DEF One
  <2>5. IsFiniteSet(S \ {x})
    BY FS_RemoveElement
  <2>6. PICK k : Solves(k, SUBSET (S \ {x})) /\ Sum(S \ {x}) = k[S \ {x}]
    BY <2>5, SumSolved
  <2>7. h[S \ {x}] = k[S \ {x}]
    <3>1. S \ {x} \in SUBSET S
      OBVIOUS
    <3> QED
      BY <2>1, <2>6, <3>1, OneSolution
  <2> QED
    BY <1>2, <2>2, <2>4, <2>6, <2>7
<1> QED
  BY <1>1, <1>2

Weighed(S) == IsFiniteSet(S) /\ \A x \in S : x.split \in Nat

LEMMA SumIsNatural == ASSUME NEW S, Weighed(S) PROVE Sum(S) \in Nat
<1> DEFINE Bad == {n \in Nat : \E s \in SUBSET S : Cardinality(s) = n /\ Sum(s) \notin Nat}
<1>1. \A s \in SUBSET S : IsFiniteSet(s) /\ Cardinality(s) \in Nat
  BY FS_Subset, FS_CardinalityType DEF Weighed
<1>2. Bad = {}
  <2> SUFFICES ASSUME Bad # {} PROVE FALSE
    OBVIOUS
  <2>1. PICK n \in Bad : \A m \in Bad : n <= m
    BY LeastNatural
  <2>2. PICK s \in SUBSET S : Cardinality(s) = n /\ Sum(s) \notin Nat
    BY <2>1
  <2>3. s # {}
    BY <1>1, <2>2, SumUnfolds
  <2>4. PICK x \in s : Sum(s) = x.split + Sum(s \ {x})
    BY <1>1, <2>3, SumUnfolds
  <2>5. Cardinality(s \ {x}) = n - 1 /\ n - 1 \in Nat
    BY <1>1, <2>2, OneLess
  <2>6. Sum(s \ {x}) \in Nat
    BY <2>1, <2>5
  <2> QED
    BY <2>2, <2>4, <2>6 DEF Weighed
<1> QED
  BY <1>1, <1>2

\* Whichever element the fold takes first.
LEMMA SumTakesAny ==
    ASSUME NEW S, Weighed(S), NEW x \in S
    PROVE  Sum(S) = x.split + Sum(S \ {x})
<1> DEFINE Bad == {n \in Nat : \E s \in SUBSET S : \E y \in s :
                                  Cardinality(s) = n /\ Sum(s) # y.split + Sum(s \ {y})}
<1>1. \A s \in SUBSET S : Weighed(s) /\ IsFiniteSet(s) /\ Cardinality(s) \in Nat /\ Sum(s) \in Nat
  BY FS_Subset, FS_CardinalityType, SumIsNatural DEF Weighed
<1>2. Bad = {}
  <2> SUFFICES ASSUME Bad # {} PROVE FALSE
    OBVIOUS
  <2>1. PICK n \in Bad : \A m \in Bad : n <= m
    BY LeastNatural
  <2>0. PICK s \in SUBSET S : \E y \in s : Cardinality(s) = n /\ Sum(s) # y.split + Sum(s \ {y})
    BY <2>1
  <2>2. PICK y \in s : Cardinality(s) = n /\ Sum(s) # y.split + Sum(s \ {y})
    BY <2>0
  <2>3. PICK z \in s : Sum(s) = z.split + Sum(s \ {z})
    BY <1>1, <2>2, SumUnfolds
  <2>4. z # y
    BY <2>2, <2>3
  <2>5. /\ Cardinality(s \ {y}) = n - 1 /\ Cardinality(s \ {z}) = n - 1 /\ n - 1 \in Nat
        /\ z \in s \ {y} /\ y \in s \ {z} /\ s \ {y} \in SUBSET S /\ s \ {z} \in SUBSET S
    <3>1. /\ Cardinality(s \ {y}) = n - 1 /\ n - 1 \in Nat
      BY <1>1, <2>2, OneLess
    <3>2. Cardinality(s \ {z}) = n - 1
      BY <1>1, <2>2, OneLess
    <3> QED
      BY <2>4, <3>1, <3>2
  <2>6. /\ Sum(s \ {y}) = z.split + Sum((s \ {y}) \ {z})
        /\ Sum(s \ {z}) = y.split + Sum((s \ {z}) \ {y})
    <3>1. n - 1 \notin Bad
      BY <2>1, <2>5
    <3> QED
      BY <2>5, <3>1
  <2>7. (s \ {y}) \ {z} = (s \ {z}) \ {y} /\ (s \ {y}) \ {z} \in SUBSET S
    OBVIOUS
  <2>8. y.split \in Nat /\ z.split \in Nat /\ Sum((s \ {y}) \ {z}) \in Nat
    BY <1>1, <2>7 DEF Weighed
  <2> QED
    BY <2>2, <2>3, <2>6, <2>7, <2>8
<1> QED
  BY <1>1, <1>2

LEMMA SumGrows ==
    ASSUME NEW S, Weighed(S), NEW T \in SUBSET S
    PROVE  Sum(T) <= Sum(S)
<1> DEFINE Bad == {n \in Nat : \E s \in SUBSET S : T \subseteq s /\ Cardinality(s) = n /\ ~(Sum(T) <= Sum(s))}
<1>1. \A s \in SUBSET S : Weighed(s) /\ IsFiniteSet(s) /\ Cardinality(s) \in Nat /\ Sum(s) \in Nat
  BY FS_Subset, FS_CardinalityType, SumIsNatural DEF Weighed
<1>2. Bad = {}
  <2> SUFFICES ASSUME Bad # {} PROVE FALSE
    OBVIOUS
  <2>1. PICK n \in Bad : \A m \in Bad : n <= m
    BY LeastNatural
  <2>2. PICK s \in SUBSET S : T \subseteq s /\ Cardinality(s) = n /\ ~(Sum(T) <= Sum(s))
    BY <2>1
  <2>3. PICK x : x \in s \ T
    BY <1>1, <2>2
  <2>4. Sum(s) = x.split + Sum(s \ {x}) /\ x.split \in Nat
    BY <1>1, <2>3, SumTakesAny DEF Weighed
  <2>5. Cardinality(s \ {x}) = n - 1 /\ n - 1 \in Nat /\ T \subseteq s \ {x} /\ s \ {x} \in SUBSET S
    <3>1. Cardinality(s \ {x}) = n - 1 /\ n - 1 \in Nat
      BY <1>1, <2>2, <2>3, OneLess
    <3> QED
      BY <2>2, <2>3, <3>1
  <2>6. Sum(T) <= Sum(s \ {x})
    BY <2>1, <2>5
  <2> QED
    BY <1>1, <2>2, <2>4, <2>5, <2>6
<1> QED
  BY <1>1, <1>2

LEMMA SumOfPercents ==
    ASSUME NEW S, Weighed(S), \A x \in S : \E k \in Nat : x.split = k * Percent
    PROVE  \E k \in Nat : Sum(S) = k * Percent
<1> DEFINE Bad == {n \in Nat : \E s \in SUBSET S : Cardinality(s) = n /\ ~ \E k \in Nat : Sum(s) = k * Percent}
<1>1. \A s \in SUBSET S : Weighed(s) /\ IsFiniteSet(s) /\ Cardinality(s) \in Nat /\ Sum(s) \in Nat
  BY FS_Subset, FS_CardinalityType, SumIsNatural DEF Weighed
<1>2. Bad = {}
  <2> SUFFICES ASSUME Bad # {} PROVE FALSE
    OBVIOUS
  <2>1. PICK n \in Bad : \A m \in Bad : n <= m
    BY LeastNatural
  <2>2. PICK s \in SUBSET S : Cardinality(s) = n /\ ~ \E k \in Nat : Sum(s) = k * Percent
    BY <2>1
  <2>3. s # {}
    <3>1. Sum({}) = 0
      BY SumUnfolds, FS_EmptySet
    <3>2. 0 \in Nat /\ 0 = 0 * Percent
      BY DEF Percent
    <3> QED
      BY <2>2, <3>1, <3>2
  <2>4. PICK x : x \in s
    BY <2>3
  <2>5. Sum(s) = x.split + Sum(s \ {x})
    BY <1>1, <2>4, SumTakesAny
  <2>6. Cardinality(s \ {x}) = n - 1 /\ n - 1 \in Nat /\ s \ {x} \in SUBSET S
    <3>1. Cardinality(s \ {x}) = n - 1 /\ n - 1 \in Nat
      BY <1>1, <2>2, <2>4, OneLess
    <3> QED
      BY <3>1
  <2>7. PICK k \in Nat : Sum(s \ {x}) = k * Percent
    BY <2>1, <2>6
  <2>8. PICK j \in Nat : x.split = j * Percent
    BY <2>4
  <2>9. Sum(s) = (j + k) * Percent /\ j + k \in Nat
    BY <2>5, <2>7, <2>8 DEF Percent
  <2> QED
    BY <2>2, <2>9
<1> QED
  BY <1>1, <1>2

AreVariants(V) == V \subseteq Variant /\ IsFiniteSet(V) /\ ValidSplits(V)

Ahead(V, v) == {w \in V : w.name < v.name}

LEMMA SumOfNone == Sum({}) = 0
  BY SumUnfolds, FS_EmptySet

LEMMA EachVariant ==
    ASSUME NEW V, AreVariants(V), NEW v \in V
    PROVE  v.name \in Nat /\ v.split \in Nat /\ 1 <= v.split /\ v.split <= 10000
<1>1. v \in Variant
  BY DEF AreVariants
<1>2. v.name \in Nat /\ v.split \in 1 .. 100 * Percent
  BY <1>1 DEF Variant
<1>3. 100 * Percent = 10000
  BY DEF Percent
<1> QED
  BY <1>2, <1>3

LEMMA OneOfAName ==
    ASSUME NEW V, AreVariants(V), NEW v \in V, NEW w \in V, v.name = w.name
    PROVE  v = w
  BY DEF AreVariants, ValidSplits

LEMMA SomeVariants ==
    ASSUME NEW V, AreVariants(V), NEW T \in SUBSET V
    PROVE  Weighed(T) /\ Sum(T) \in Nat /\ Sum(T) <= Sum(V)
<1>1. ASSUME NEW S \in SUBSET V PROVE Weighed(S)
  <2>1. IsFiniteSet(S)
    BY FS_Subset DEF AreVariants
  <2>2. \A x \in S : x.split \in Nat
    BY EachVariant
  <2> QED
    BY <2>1, <2>2 DEF Weighed
<1>2. Weighed(T) /\ Weighed(V)
  BY <1>1
<1> QED
  BY <1>2, SumIsNatural, SumGrows

LEMMA AllVariants ==
    ASSUME NEW V, AreVariants(V)
    PROVE  Sum(V) \in Nat /\ 9999 <= Sum(V) /\ Sum(V) <= 10001
<1>1. Sum(V) \in 100 * Percent - Tolerance .. 100 * Percent + Tolerance
  BY DEF AreVariants, ValidSplits, Sum
<1> QED
  BY <1>1 DEF Percent, Tolerance

\* A variant's buckets begin where those of the variants ahead of it end.
LEMMA CumulativeIs ==
    ASSUME NEW V, AreVariants(V), NEW v \in V
    PROVE  /\ CumulativeSplit(V, v) = Sum(Ahead(V, v)) + v.split
           /\ CumulativeSplit(V, v) <= Sum(V)
           /\ \A w \in V : w.name < v.name => CumulativeSplit(V, w) <= Sum(Ahead(V, v))
<1> DEFINE Upon(x) == {w \in V : w.name <= x.name}
<1>1. \A x \in V : CumulativeSplit(V, x) = Sum(Upon(x))
  BY DEF CumulativeSplit, Sum
<1>2. v \in Upon(v) /\ Upon(v) \in SUBSET V /\ Ahead(V, v) \in SUBSET V /\ Upon(v) \ {v} = Ahead(V, v)
  <2>1. \A w \in V : w.name \in Nat /\ (w.name = v.name => w = v)
    BY EachVariant, OneOfAName
  <2> QED
    BY <2>1 DEF Ahead
<1>3. Weighed(Upon(v)) /\ Weighed(Ahead(V, v))
  BY <1>2, SomeVariants
<1>4. Sum(Upon(v)) = v.split + Sum(Ahead(V, v))
  BY <1>2, <1>3, SumTakesAny
<1>5. Sum(Upon(v)) <= Sum(V)
  BY <1>2, SomeVariants
<1>6. ASSUME NEW w \in V, w.name < v.name PROVE Sum(Upon(w)) <= Sum(Ahead(V, v))
  <2>1. Upon(w) \in SUBSET Ahead(V, v)
    <3>1. \A x \in V : x.name \in Nat
      BY EachVariant
    <3> QED
      BY <1>6, <3>1 DEF Ahead
  <2> QED
    BY <1>3, <2>1, SumGrows
<1>7. v.split \in Nat /\ Sum(Ahead(V, v)) \in Nat
  BY <1>2, EachVariant, SomeVariants
<1> HIDE DEF Upon
<1> QED
  BY <1>1, <1>4, <1>5, <1>6, <1>7

LEMMA LastName ==
    ASSUME NEW S, IsFiniteSet(S), \A x \in S : x.name \in Nat, S # {}
    PROVE  \E u \in S : \A w \in S : w.name <= u.name
<1> DEFINE HasLast(T) == \E u \in T : \A w \in T : w.name <= u.name
           Bad == {n \in Nat : \E T \in SUBSET S : T # {} /\ Cardinality(T) = n /\ ~HasLast(T)}
<1>1. Bad = {}
  <2> SUFFICES ASSUME Bad # {} PROVE FALSE
    OBVIOUS
  <2>1. PICK n \in Bad : \A m \in Bad : n <= m
    BY LeastNatural
  <2>2. PICK T \in SUBSET S : T # {} /\ Cardinality(T) = n /\ ~HasLast(T)
    BY <2>1
  <2>3. PICK x : x \in T
    BY <2>2
  <2>4. Cardinality(T \ {x}) = n - 1 /\ n - 1 \in Nat
    BY <2>2, <2>3, FS_Subset, OneLess
  <2>5. T \ {x} # {} => HasLast(T \ {x})
    <3>1. n - 1 \notin Bad
      BY <2>1, <2>4
    <3>2. T \ {x} \in SUBSET S
      OBVIOUS
    <3> HIDE DEF HasLast
    <3> QED
      BY <2>4, <3>1, <3>2
  <2>6. \A w \in T : w.name \in Nat
    OBVIOUS
  <2>7. CASE T \ {x} = {}
    BY <2>2, <2>3, <2>6, <2>7
  <2>8. CASE T \ {x} # {}
    <3>1. PICK u \in T \ {x} : \A w \in T \ {x} : w.name <= u.name
      BY <2>5, <2>8
    <3>2. CASE x.name <= u.name
      <4>1. \A w \in T : w.name <= u.name
        BY <3>1, <3>2
      <4> QED
        BY <2>2, <3>1, <4>1
    <3>3. CASE u.name <= x.name
      <4>1. \A w \in T : w.name <= x.name
        BY <2>3, <2>6, <3>1, <3>3
      <4> QED
        BY <2>2, <2>3, <4>1
    <3> QED
      BY <2>3, <2>6, <3>1, <3>2, <3>3
  <2> QED
    BY <2>7, <2>8
<1>2. Cardinality(S) \in Nat
  BY FS_CardinalityType
<1>3. HasLast(S)
  BY <1>1, <1>2
<1> QED
  BY <1>3

\* The last of the variants ahead of one, or of all, has their whole sum.
LEMMA LastOfThem ==
    ASSUME NEW V, AreVariants(V), NEW T \in SUBSET V, T # {},
           \A w \in V, u \in T : w.name <= u.name => w \in T
    PROVE  \E u \in T : CumulativeSplit(V, u) = Sum(T)
<1>1. IsFiniteSet(T) /\ \A v \in T : v.name \in Nat
  BY EachVariant, FS_Subset DEF AreVariants
<1>2. PICK u \in T : \A w \in T : w.name <= u.name
  BY <1>1, LastName
<1>3. {w \in V : w.name <= u.name} = T
  BY <1>2
<1>4. CumulativeSplit(V, u) = Sum({w \in V : w.name <= u.name})
  BY DEF CumulativeSplit, Sum
<1> QED
  BY <1>2, <1>3, <1>4

\* pick_variant, whatever the order of the list.
LEMMA PickedBySplit ==
    ASSUME NEW V, AreVariants(V), NEW vs, Range(vs) = V, NEW b \in BucketNo
    PROVE  /\ PickVariant(b, vs) # NoVariant
           /\ \A v \in V : PickVariant(b, vs) = v.name
                <=> Sum(Ahead(V, v)) <= b * Percent /\ b * Percent < CumulativeSplit(V, v)
<1> DEFINE hits == {v \in V : b * Percent < CumulativeSplit(V, v)}
           First(v) == v \in hits /\ \A w \in hits : v.name <= w.name
<1>0. /\ b * Percent \in Nat /\ b * Percent <= 9900
      /\ \A v \in V : CumulativeSplit(V, v) \in Nat /\ Sum(Ahead(V, v)) \in Nat /\ v.name \in Nat
  <2>1. b * Percent \in Nat /\ b * Percent <= 9900
    BY DEF BucketNo, NumBuckets, Percent
  <2>2. ASSUME NEW v \in V PROVE Sum(Ahead(V, v)) \in Nat /\ v.split \in Nat /\ v.name \in Nat
    <3>1. Ahead(V, v) \in SUBSET V
      BY DEF Ahead
    <3> QED
      BY <3>1, SomeVariants, EachVariant
  <2> QED
    BY <2>1, <2>2, CumulativeIs
<1>1. hits # {}
  <2>1. V # {}
    <3>1. Sum(V) # 0
      BY AllVariants
    <3> QED
      BY <3>1, SumOfNone
  <2>2. PICK u \in V : CumulativeSplit(V, u) = Sum(V)
    BY <2>1, LastOfThem
  <2> QED
    BY <1>0, <2>2, AllVariants
<1>2. \E v : First(v)
  <2> DEFINE names == {v.name : v \in hits}
  <2>1. names \in SUBSET Nat /\ names # {}
    BY <1>0, <1>1
  <2>2. PICK n \in names : \A m \in names : n <= m
    BY <2>1, LeastNatural
  <2> QED
    BY <2>2
<1>3. PickVariant(b, vs) = (CHOOSE v \in hits : \A w \in hits : v.name <= w.name).name
  BY <1>1 DEF PickVariant
<1>4. PICK p : p = CHOOSE v \in hits : \A w \in hits : v.name <= w.name
  OBVIOUS
<1>5. First(p)
  <2> HIDE DEF hits
  <2> QED
    BY <1>2, <1>4
<1>6. p \in V /\ PickVariant(b, vs) = p.name /\ p.name \in Nat
  BY <1>0, <1>3, <1>4, <1>5
<1>7. ASSUME NEW v \in V PROVE First(v) <=> Sum(Ahead(V, v)) <= b * Percent /\ b * Percent < CumulativeSplit(V, v)
  <2>1. ASSUME Sum(Ahead(V, v)) <= b * Percent, b * Percent < CumulativeSplit(V, v) PROVE First(v)
    <3>1. ASSUME NEW w \in hits, w.name < v.name PROVE FALSE
      <4>1. CumulativeSplit(V, w) <= Sum(Ahead(V, v))
        BY <3>1, CumulativeIs
      <4> QED
        BY <1>0, <2>1, <3>1, <4>1
    <3> QED
      BY <1>0, <2>1, <3>1
  <2>2. ASSUME First(v) PROVE Sum(Ahead(V, v)) <= b * Percent
    <3> SUFFICES ASSUME ~(Sum(Ahead(V, v)) <= b * Percent) PROVE FALSE
      OBVIOUS
    <3>1. Ahead(V, v) # {}
      <4>1. Sum(Ahead(V, v)) # 0
        BY <1>0
      <4> QED
        BY <4>1, SumOfNone
    <3>2. PICK u \in Ahead(V, v) : CumulativeSplit(V, u) = Sum(Ahead(V, v))
      <4>1. Ahead(V, v) \in SUBSET V /\ \A w \in V, x \in Ahead(V, v) : w.name <= x.name => w \in Ahead(V, v)
        <5>1. \A w \in V : w.name \in Nat
          BY EachVariant
        <5> QED
          BY <5>1 DEF Ahead
      <4> QED
        BY <3>1, <4>1, LastOfThem
    <3>3. u \in hits /\ u.name < v.name
      BY <1>0, <3>2 DEF Ahead
    <3> QED
      BY <1>0, <2>2, <3>3
  <2> QED
    BY <2>1, <2>2
<1>8. \A v \in V : First(v) <=> v = p
  <2>1. \A v \in V : First(v) => v.name = p.name
    BY <1>0, <1>5
  <2> QED
    BY <1>5, <1>6, <2>1, OneOfAName
<1>9. \A v \in V : PickVariant(b, vs) = v.name <=> First(v)
  BY <1>6, <1>8, OneOfAName
<1> QED
  BY <1>6, <1>7, <1>9, NoVariantIsNoName

\* The whole percents from lo to hi.
LEMMA PercentsBetween ==
    ASSUME NEW lo \in Nat, NEW hi \in Nat, lo < hi, hi <= 10001,
           NEW B \in SUBSET BucketNo,
           \A b \in BucketNo : b \in B <=> lo <= b * Percent /\ b * Percent < hi
    PROVE  \E i, j \in Nat :
             /\ Cardinality(B) = j - i /\ i <= j
             /\ lo <= i * Percent /\ i * Percent < lo + Percent
             /\ hi <= 10000 => hi <= j * Percent /\ j * Percent < hi + Percent
             /\ hi > 10000 => j = 100
<1>1. ASSUME NEW n \in Nat PROVE \E i \in Nat : n <= i * Percent /\ i * Percent < n + Percent
  <2>1. (n + 99) \div 100 \in Nat /\ n <= ((n + 99) \div 100) * 100 /\ ((n + 99) \div 100) * 100 < n + 100
    OBVIOUS
  <2> QED
    BY <2>1 DEF Percent
<1>2. PICK i \in Nat : lo <= i * Percent /\ i * Percent < lo + Percent
  BY <1>1
<1>3. PICK j \in Nat : /\ hi <= 10000 => hi <= j * Percent /\ j * Percent < hi + Percent
                       /\ hi > 10000 => j = 100
  <2>1. CASE hi <= 10000
    BY <1>1, <2>1
  <2>2. CASE hi > 10000
    BY <2>2
  <2> QED
    BY <2>1, <2>2
<1>4. i <= j /\ j <= 100
  BY <1>2, <1>3 DEF Percent
<1>5. PICK k \in Int : k = j - 1
  OBVIOUS
<1>0. PICK C : C = i .. k
  OBVIOUS
<1>6. B = C
  <2>1. BucketNo = 0 .. 99
    BY DEF BucketNo, NumBuckets
  <2>2. ASSUME NEW b \in 0 .. 99 PROVE b \in B <=> i <= b /\ b <= k
    <3>1. b \in B <=> lo <= b * 100 /\ b * 100 < hi
      BY <2>1, <2>2 DEF Percent
    <3>2. lo <= b * 100 <=> i <= b
      BY <1>2, <2>2 DEF Percent
    <3>3. b * 100 < hi <=> b <= k
      BY <1>3, <1>4, <1>5, <2>2 DEF Percent
    <3> QED
      BY <3>1, <3>2, <3>3
  <2>3. ASSUME NEW b \in B PROVE b \in C
    <3>1. b \in 0 .. 99
      BY <2>1
    <3>2. b \in i .. k
      BY <1>5, <2>2, <2>3, <3>1
    <3> QED
      BY <1>0, <3>2
  <2>4. ASSUME NEW b \in C PROVE b \in B
    <3>1. b \in i .. k
      BY <1>0, <2>4
    <3>2. b \in 0 .. 99 /\ i <= b /\ b <= k
      BY <1>4, <1>5, <3>1
    <3> QED
      BY <2>2, <3>2
  <2> QED
    BY <2>3, <2>4
<1>7. Cardinality(B) = j - i
  <2>1. Cardinality(C) = IF i > k THEN 0 ELSE k - i + 1
    BY <1>0, FS_Interval
  <2>2. Cardinality(C) = j - i
    BY <1>4, <1>5, <2>1
  <2> QED
    BY <1>6, <2>2
<1> WITNESS i \in Nat, j \in Nat
<1> QED
  BY <1>2, <1>3, <1>4, <1>7

SplitsKept(V, shares) ==
    /\ shares[[name |-> NoVariant]] = 0
    /\ \A v \in V : Distance(shares[v] * Percent, v.split) <= Percent
    /\ (\A v \in V : v.split % Percent = 0) => \A v \in V : shares[v] * Percent = v.split

\* pick_variant: whatever the number of variants, their splits (as
\* validate_splits lets them pass) and the order of the list, every bucket has
\* a variant, and each variant has its split to within a bucket, exactly when
\* the splits are whole percents.
THEOREM BucketsGoBySplits ==
    ASSUME NEW V, AreVariants(V), NEW vs, Range(vs) = V
    PROVE  SplitsKept(V, Shares(vs))
<1>1. Shares(vs)[[name |-> NoVariant]] = 0
  <2>1. {b \in BucketNo : PickVariant(b, vs) = NoVariant} = {}
    BY PickedBySplit
  <2>2. Shares(vs)[[name |-> NoVariant]] = Cardinality({b \in BucketNo : PickVariant(b, vs) = NoVariant})
    BY DEF Shares
  <2> QED
    BY <2>1, <2>2, FS_EmptySet
<1>2. ASSUME NEW v \in V
      PROVE  /\ Distance(Shares(vs)[v] * Percent, v.split) <= Percent
             /\ (\A w \in V : w.split % Percent = 0) => Shares(vs)[v] * Percent = v.split
  <2>1. PICK lo, hi : lo = Sum(Ahead(V, v)) /\ hi = CumulativeSplit(V, v)
    OBVIOUS
  <2>2. Ahead(V, v) \in SUBSET V
    BY DEF Ahead
  <2>3. lo \in Nat /\ hi \in Nat /\ hi = lo + v.split /\ lo < hi /\ hi <= 10001 /\ v.split \in Nat
    BY <2>1, <2>2, SomeVariants, AllVariants, EachVariant, CumulativeIs
  <2>4. PICK B : B = {b \in BucketNo : PickVariant(b, vs) = v.name}
    OBVIOUS
  <2>5. B \in SUBSET BucketNo /\ \A b \in BucketNo : b \in B <=> lo <= b * Percent /\ b * Percent < hi
    BY <2>1, <2>4, PickedBySplit
  <2>6. PICK i, j \in Nat :
             /\ Cardinality(B) = j - i /\ i <= j
             /\ lo <= i * Percent /\ i * Percent < lo + Percent
             /\ hi <= 10000 => hi <= j * Percent /\ j * Percent < hi + Percent
             /\ hi > 10000 => j = 100
    <3>1. lo \in Nat /\ hi \in Nat /\ lo < hi /\ hi <= 10001
      BY <2>3
    <3> HIDE DEF BucketNo, Percent
    <3> QED
      BY <2>5, <3>1, PercentsBetween
  <2>7. Shares(vs)[v] = j - i
    <3>1. Shares(vs)[v] = Cardinality({b \in BucketNo : PickVariant(b, vs) = v.name})
      BY DEF Shares
    <3> QED
      BY <2>4, <2>6, <3>1
  <2>8. Distance((j - i) * Percent, v.split) <= Percent
    <3>1. CASE hi <= 10000
      BY <2>3, <2>6, <3>1 DEF Distance, Percent
    <3>2. CASE hi > 10000
      BY <2>3, <2>6, <3>2 DEF Distance, Percent
    <3> QED
      BY <2>3, <3>1, <3>2
  <2>9. ASSUME \A w \in V : w.split % Percent = 0 PROVE (j - i) * Percent = v.split
    <3>1. \A w \in V : \E k \in Nat : w.split = k * Percent
      <4>1. ASSUME NEW n \in Nat, n % 100 = 0 PROVE n \div 100 \in Nat /\ n = (n \div 100) * 100
        BY <4>1
      <4> QED
        BY <2>9, <4>1, EachVariant DEF Percent
    <3>2. PICK a \in Nat : lo = a * Percent
      BY <2>1, <2>2, <3>1, SomeVariants, SumOfPercents
    <3>3. PICK s \in Nat : v.split = s * Percent
      BY <3>1
    <3>4. i = a /\ hi = (a + s) * Percent /\ hi <= 10000
      BY <2>3, <2>6, <3>2, <3>3 DEF Percent
    <3>5. j = a + s
      BY <2>6, <3>2, <3>3, <3>4 DEF Percent
    <3> QED
      BY <3>3, <3>4, <3>5 DEF Percent
  <2> QED
    BY <2>7, <2>8, <2>9
<1> QED
  BY <1>1, <1>2 DEF SplitsKept

\* is_in_traffic: the percentage, rounded up to a bucket.
LEMMA AdmittedToTheBucket ==
    ASSUME NEW traffic \in Nat, 1 <= traffic, traffic <= 10000
    PROVE  LET admitted == Cardinality({b \in BucketNo : InTraffic(b, traffic)})
           IN admitted * Percent >= traffic /\ admitted * Percent < traffic + Percent
<1> DEFINE Admitted == {b \in BucketNo : InTraffic(b, traffic)}
<1>1. PICK B : B = Admitted
  <2> HIDE DEF Admitted
  <2> QED
    OBVIOUS
<1>2. \A b \in BucketNo : 0 <= b * Percent
  BY DEF BucketNo, NumBuckets, Percent
<1>3. B \in SUBSET BucketNo /\ \A b \in BucketNo : b \in B <=> 0 <= b * Percent /\ b * Percent < traffic
  BY <1>1, <1>2 DEF InTraffic
<1>4. PICK i, j \in Nat :
             /\ Cardinality(B) = j - i /\ i <= j
             /\ 0 <= i * Percent /\ i * Percent < 0 + Percent
             /\ traffic <= 10000 => traffic <= j * Percent /\ j * Percent < traffic + Percent
             /\ traffic > 10000 => j = 100
  BY <1>3, PercentsBetween
<1>5. Cardinality(B) = j
  BY <1>4 DEF Percent
<1> QED
  BY <1>1, <1>4, <1>5

LEMMA PairsAreFunctions == ASSUME NEW S, NEW s \in S \X S PROVE s \in [1 .. 2 -> S]
  OBVIOUS

LEMMA TriplesAreFunctions == ASSUME NEW S, NEW s \in S \X S \X S PROVE s \in [1 .. 3 -> S]
  OBVIOUS

LEMMA SplitsMakeVariants ==
    ASSUME NEW n \in Int, NEW s \in [1 .. n -> SplitValues],
           NEW V, V = {[name |-> i, split |-> s[i]] : i \in DOMAIN s}
    PROVE  V \subseteq Variant /\ IsFiniteSet(V)
<1>2. \A i \in 1 .. n : [name |-> i, split |-> s[i]] \in Variant
  <2>2. \A x \in SplitValues : x \in 1 .. 100 * Percent
    BY DEF Percent, SplitValues
  <2>3. \A i \in 1 .. n : i \in Nat /\ s[i] \in SplitValues
    OBVIOUS
  <2> HIDE DEF Percent, SplitValues
  <2> QED
    BY <2>2, <2>3 DEF Variant
<1> DEFINE f == [i \in 1 .. n |-> [name |-> i, split |-> s[i]]]
<1>3. f \in Surjection(1 .. n, V)
  BY DEF Surjection
<1>4. IsFiniteSet(1 .. n)
  BY FS_Interval
<1> QED
  BY <1>2, <1>3, <1>4, FS_Surjection

LEMMA QuestionsSplit ==
    ASSUME NEW q \in SplitQuestions
    PROVE  AreVariants(q.variants) /\ q.traffic \in Nat /\ 1 <= q.traffic /\ q.traffic <= 10000
<1>1. q.variants \in VariantSets /\ q.traffic \in {1, 99, 100, 101, 5000, 9901, 10000}
  BY DEF SplitQuestions
<1>2. PICK s : /\ s \in (SplitValues \X SplitValues) \cup (SplitValues \X SplitValues \X SplitValues)
               /\ q.variants = {[name |-> i, split |-> s[i]] : i \in DOMAIN s}
               /\ ValidSplits(q.variants)
  BY <1>1 DEF VariantSets
<1>3. s \in [1 .. 2 -> SplitValues] \/ s \in [1 .. 3 -> SplitValues]
  <2>1. s \in SplitValues \X SplitValues \/ s \in SplitValues \X SplitValues \X SplitValues
    BY <1>2
  <2> QED
    BY <2>1, PairsAreFunctions, TriplesAreFunctions, Zenon
<1>4. q.variants \subseteq Variant /\ IsFiniteSet(q.variants)
  <2>1. \A n \in Int : s \in [1 .. n -> SplitValues] => q.variants \subseteq Variant /\ IsFiniteSet(q.variants)
    BY <1>2, SplitsMakeVariants
  <2>2. 2 \in Int /\ 3 \in Int
    OBVIOUS
  <2> QED
    BY <1>3, <2>1, <2>2, Zenon
<1> QED
  BY <1>1, <1>2, <1>4 DEF AreVariants

\* The split answers of the run, for every question it asks.
THEOREM BucketsAlwaysFollowSplits == Spec => []BucketsFollowSplits
<1>1. ASSUME RInv PROVE BucketsFollowSplits
  <2>1. SUFFICES ASSUME Answered("split") PROVE BucketsFollowSplits
    BY DEF BucketsFollowSplits
  <2>2. question \in SplitQuestions /\ Said = SplitAnswer
    BY <1>1, <2>1, KindsAreApart DEF RInv, Asked, AnswerOf, Answered, Said
  <2>3. /\ AreVariants(question.variants)
        /\ question.traffic \in Nat /\ 1 <= question.traffic /\ question.traffic <= 10000
    BY <2>2, QuestionsSplit
  <2> DEFINE Orders == Bijection(1 .. Cardinality(question.variants), question.variants)
  <2>4. Said.shares = {Shares(vs) : vs \in Orders}
    BY <2>2 DEF SplitAnswer
  <2>5. Said.admitted = Cardinality({b \in BucketNo : InTraffic(b, question.traffic)})
    BY <2>2 DEF SplitAnswer
  <2>6. \A vs \in Orders : Range(vs) = question.variants
    BY DEF Bijection, Surjection, Range
  <2>7. \A vs, ws : Range(vs) = Range(ws) => Shares(vs) = Shares(ws)
    <3>1. \A vs, ws, b : Range(vs) = Range(ws) => PickVariant(b, vs) = PickVariant(b, ws)
      BY DEF PickVariant
    <3> QED
      BY <3>1 DEF Shares
  <2>8. \A shares \in Said.shares : Said.shares = {shares} /\ SplitsKept(question.variants, shares)
    <3>1. \A vs \in Orders : SplitsKept(question.variants, Shares(vs))
      BY <2>3, <2>6, BucketsGoBySplits
    <3>2. \A vs, ws \in Orders : Shares(vs) = Shares(ws)
      BY <2>6, <2>7
    <3> HIDE DEF Orders
    <3> QED
      BY <2>4, <3>1, <3>2
  <2>9. /\ Said.admitted * Percent >= question.traffic
        /\ Said.admitted * Percent < question.traffic + Percent
    BY <2>3, <2>5, AdmittedToTheBucket
  <2> QED
    BY <2>8, <2>9 DEF BucketsFollowSplits, SplitsKept
<1> QED
  BY <1>1, AnswersStand, PTL

=============================================================================
