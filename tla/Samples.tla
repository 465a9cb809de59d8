------------------------------ MODULE Samples ------------------------------
(***************************************************************************)
(* The queries that load the data of an analysis                           *)
(* (backend/app/services/stats/engine.py): every assigned user is counted  *)
(* once, with the events that carry the name of the metric, pass its       *)
(* filters and are not older than the assignment.                          *)
(*                                                                         *)
(* A user is [assigned, events], an event [name, at, value, props]; value  *)
(* may be Null.  A filter that fails fails the query, hence the analysis.  *)
(***************************************************************************)
EXTENDS Filters, FiniteSetsExt

CONSTANT Null

\* Mutant: events of before the assignment count.
JoinedFromEver(user, name, filters) ==
    {e \in user.events : e.name = name /\ QueryRow(filters, e.props) = "true"}

\* The LEFT JOIN on events.
Joined(user, name, filters) ==
    {e \in user.events :
        e.name = name /\ e.at >= user.assigned /\ QueryRow(filters, e.props) = "true"}

QueryFails(users, name, filters) ==
    \E u \in users : \E e \in u.events :
        e.name = name /\ e.at >= u.assigned /\ QueryRow(filters, e.props) = "fails"

\* SUM(COALESCE(e.value, otherwise))
Total(events, otherwise) ==
    MapThenSumSet(LAMBDA e : IF e.value = Null THEN otherwise ELSE e.value, events)

\* _get_conversion_data: how many of the users have converted.
ConversionData(users, name, filters) ==
    [total     |-> Cardinality(users),
     converted |-> Cardinality({u \in users : Joined(u, name, filters) # {}})]

\* _get_revenue_data: a value per user, 0 for those without one.
RevenueData(users, name, filters) ==
    [u \in users |-> Total(Joined(u, name, filters), 0)]

\* _get_ratio_data: a numerator and a denominator per user; an event without
\* a value counts 0 above and 1 below.  The filters of the metric stand for
\* those of its denominator too.
RatioData(users, numerator, denominator, filters) ==
    [u \in users |->
        [num |-> Total(Joined(u, numerator, filters), 0),
         den |-> Total(Joined(u, denominator, filters), 1)]]

=============================================================================
