------------------------------ MODULE Filters ------------------------------
(***************************************************************************)
(* The rules of segments and the filters of metrics: one vocabulary of     *)
(* nine operators with three readings of it.                               *)
(*                                                                         *)
(*   MatchRule          Python, on the properties of a user                *)
(*                      (segment_service.py, and its copy in               *)
(*                      custom_metric_service.py for the preview)          *)
(*   Clause, QueryRow   SQL, on the JSON properties of an event            *)
(*                      (custom_metric_service.build_filter_clause)        *)
(*                                                                         *)
(* A scalar of JSON is a text, a number or a boolean.  A text is the set   *)
(* of its words and whether it is in capitals, which is all that substring *)
(* search with and without case needs; numbers and booleans have the words *)
(* of their JSON rendering.  Wildcards inside a searched text, nested      *)
(* properties and null are left out.  Fields are naturals; properties are  *)
(* functions on the fields that are present.                               *)
(***************************************************************************)
EXTENDS Integers, Sequences, FiniteSets

Operator == {"eq", "neq", "in", "not_in", "gt", "lt", "gte", "lte", "contains"}

Text(words, caps) == [kind |-> "text", words |-> words, caps |-> caps]
Number(n)         == [kind |-> "number", words |-> {n}, caps |-> FALSE]
Bool(b)           == [kind |-> "bool", words |-> {b}, caps |-> FALSE]
List(items)       == [kind |-> "list", items |-> items]

Numerals == {"0", "1", "2"}

NumeralValue == [w \in Numerals |-> IF w = "0" THEN 0 ELSE IF w = "1" THEN 1 ELSE 2]

Rendering(v) == [words |-> v.words, caps |-> v.caps]

\* str(v): as JSON writes it, but for the capital of True and False.
PyText(v) == [words |-> v.words, caps |-> v.caps \/ v.kind = "bool"]

NoNumber == -1

\* float(v) of a number or of a text that reads as one; a boolean is its
\* 0 or 1 to Python.
Float(v) ==
    CASE v.kind = "list" -> NoNumber
      [] v.kind = "bool" -> IF v.words = {"true"} THEN 1 ELSE 0
      [] OTHER -> IF \E w \in Numerals : v.words = {w}
                    THEN NumeralValue[CHOOSE w \in Numerals : v.words = {w}]
                    ELSE NoNumber

\* _coerce_number: float(v), but a boolean is not a number.
CoerceNumber(v) == IF v.kind = "bool" THEN NoNumber ELSE Float(v)

\* Python's ==: True equals 1, a text equals no number.
PyEqual(v, w) ==
    \/ v = w
    \/ /\ v.kind \in {"number", "bool"} /\ w.kind \in {"number", "bool"}
       /\ Float(v) = Float(w)

Compare(op, a, b) ==
    \/ op = "gt"  /\ a > b
    \/ op = "lt"  /\ a < b
    \/ op = "gte" /\ a >= b
    \/ op = "lte" /\ a <= b

Filter(field, op, value) == [field |-> field, operator |-> op, value |-> value, enabled |-> TRUE]

InList(v, expected) == \E w \in expected.items : PyEqual(v, w)

\* The branches of match_rule on a property that is there.
Matches(op, actual, expected) ==
    \/ op = "eq"  /\ PyEqual(actual, expected)
    \/ op = "neq" /\ ~PyEqual(actual, expected)
    \/ op = "in"     /\ expected.kind = "list" /\ InList(actual, expected)
    \/ op = "not_in" /\ expected.kind = "list" /\ ~InList(actual, expected)
    \/ /\ CoerceNumber(actual) # NoNumber /\ CoerceNumber(expected) # NoNumber
       /\ Compare(op, CoerceNumber(actual), CoerceNumber(expected))
    \/ /\ op = "contains" /\ expected.kind = "text"
       /\ expected.words \subseteq PyText(actual).words
       /\ expected.words = {} \/ expected.caps = PyText(actual).caps

\* Mutant: what is not there differs from everything.
MatchRuleAbsentDiffers(rule, props) ==
    IF rule.field \in DOMAIN props
      THEN Matches(rule.operator, props[rule.field], rule.value)
      ELSE rule.operator \in {"neq", "not_in"}

\* match_rule: a rule on a field that is not there never matches, also
\* with neq and not_in.
MatchRule(rule, props) ==
    rule.field \in DOMAIN props /\ Matches(rule.operator, props[rule.field], rule.value)

\* _match_filter: the copy for metrics, which the code keeps apart.
MatchFilter(rule, props) == MatchRule(rule, props)

Enabled(rules) == {r \in rules : r.enabled}

\* evaluate_segment: all enabled rules; a segment without one is everybody.
EvaluateSegment(rules, props) ==
    LET matched == {r \in Enabled(rules) : MatchRule(r, props)}
    IN [matches |-> matched = Enabled(rules),
        matched |-> Cardinality(matched),
        total   |-> Cardinality(Enabled(rules))]

\* evaluate_preview: as evaluate_segment, but no filter is no match.
EvaluatePreview(filters, props) ==
    LET matched == {f \in Enabled(filters) : MatchFilter(f, props)}
    IN [matches |-> matched = Enabled(filters) /\ Enabled(filters) # {},
        matched |-> Cardinality(matched),
        total   |-> Cardinality(Enabled(filters))]

\* One part of build_filter_clause on an event: left out of the WHERE
\* ("skipped"), true, false (null included), or an error that fails the
\* whole query: a parameter that is not text where text is compared, or
\* ::float of a property that is not a number.
Truth(b) == IF b THEN "true" ELSE "false"

Clause(f, props) ==
    LET op      == f.operator
        value   == f.value
        present == f.field \in DOMAIN props
        actual  == props[f.field]
    IN CASE op \in {"eq", "neq"} ->
                IF value.kind # "text" THEN "fails"
                ELSE Truth(present /\ (Rendering(actual) = Rendering(value) <=> op = "eq"))
         \* what is not there is null, and null <> ALL of nothing is true
         [] op \in {"in", "not_in"} ->
                IF value.kind # "list" THEN "skipped"
                ELSE Truth(\/ /\ present
                              /\ Rendering(actual) \in {PyText(w) : w \in value.items} <=> op = "in"
                           \/ op = "not_in" /\ value.items = {})
         [] op = "contains" ->
                IF value.kind = "list" THEN "false"
                ELSE Truth(present /\ value.words \subseteq actual.words)
         [] OTHER ->
                IF Float(value) = NoNumber THEN "skipped"
                ELSE IF ~present THEN "false"
                ELSE IF CoerceNumber(actual) = NoNumber THEN "fails"
                ELSE Truth(Compare(op, CoerceNumber(actual), Float(value)))

\* build_filter_clause under a query: which events it lets through.  An
\* error in one part fails the query, unless another part that PostgreSQL
\* evaluates first already refuses the event; which one is first is not
\* determined, so a failing part counts.
QueryRow(filters, props) ==
    LET parts == {Clause(f, props) : f \in Enabled(filters)} \ {"skipped"}
    IN IF "fails" \in parts THEN "fails" ELSE Truth(parts \subseteq {"true"})

\* Data on which the preview and the query mean the same: texts are compared
\* with texts, searched in their own case, numbers with numbers, and what must
\* not be in a list is there or the list is not empty.
PlainFilter(f, props) ==
    f.field \in DOMAIN props =>
        LET actual == props[f.field]
            op     == f.operator
        IN CASE op \in {"eq", "neq"} -> actual.kind = "text" /\ f.value.kind = "text"
             [] op \in {"in", "not_in"} ->
                    /\ f.value.kind = "list"
                    /\ \A w \in f.value.items : w.kind = actual.kind /\ w.kind # "bool"
             [] op = "contains" ->
                    actual.kind = "text" /\ f.value.kind = "text" /\ f.value.caps = actual.caps
             [] OTHER -> actual.kind = "number" /\ f.value.kind = "number"

Plain(filters, props) ==
    /\ \A f \in Enabled(filters) : PlainFilter(f, props)
    \* what the parts on absent fields are is fixed by the value alone
    /\ \A f \in Enabled(filters) :
          /\ f.operator \in {"eq", "neq", "contains"} => f.value.kind = "text"
          /\ f.operator \in {"in", "not_in"} => f.value.kind = "list"
          /\ f.operator = "not_in" => f.field \in DOMAIN props \/ f.value.items # {}
          /\ f.operator \in {"gt", "lt", "gte", "lte"} => f.value.kind = "number"

=============================================================================
