---------------------------- MODULE MCBackoffice ----------------------------
(***************************************************************************)
(* The administrators of a platform: Backoffice from a few sets of rows,   *)
(* and Access from an empty platform, with the requests of a behaviour in  *)
(* one area of work, so that the areas add up instead of multiplying.      *)
(***************************************************************************)
EXTENDS Backoffice, Access, TLC

CONSTANT FewRequests    \* bound on the requests of the areas but accounts

VARIABLE area

PlainTemplate ==
    [id |-> 0, type |-> "revenue", filters |-> Null, denominator |-> Null,
     aggregation |-> Null, denominatorFilters |-> Null]

FilteredTemplate == [PlainTemplate EXCEPT !.filters = "some"]

RatioTemplate ==
    [PlainTemplate EXCEPT !.denominator = "other", !.aggregation = "sum",
                          !.denominatorFilters = "some"]

MCInit ==
    /\ area \in {"targeting", "holdouts", "templates", "guardrails", "accounts"}
    /\ InitRequests
    /\ flag = [id |-> 0, enabled |-> FALSE, rollout |-> 50]
    /\ segment = [id |-> 0]
    /\ segmentRules = NewRules(Conditions, 0)
    /\ flagRules \in {{}, {[id |-> 0, segment |-> 0]}}
    /\ area # "targeting" => flagRules = {}
    /\ links = {}
    /\ holdout = [id |-> 0, active |-> TRUE, size |-> 50]
    /\ exclusions = {} /\ held = Experiments
    /\ told = Story
    /\ template \in {PlainTemplate, FilteredTemplate, RatioTemplate}
    /\ area # "templates" => template = PlainTemplate
    /\ metrics = {[id |-> 0, type |-> "revenue", filters |-> Null, denominator |-> Null,
                   guardrail |-> TRUE, source |-> 0]}
    /\ guardrails = {[id |-> 0, metric |-> 0, direction |-> "below", severity |-> "critical",
                      threshold |-> 5, enabled |-> TRUE]}
    /\ AccessInit

\* Bound: the bodies of an update are many; it is the second request.
FewUpdates(c) == txn'[c].ask.op = "update_metric" => txn'[c].n = 2

\* Bounds: one SDK key, and roles that somebody makes or changes have the
\* permission to manage users or none.
FewKeys == Cardinality(keys') <= 1

FewPermissions ==
    \A c \in Clients :
        txn'[c].ask.op \in {"create_role", "update_role"} => txn'[c].ask.permissions \subseteq {Manage}

\* Bound: a token ends while no request is under way, which nothing can tell
\* from an end during a request, as a token is read when a request begins.
RestfulExpiry == \A u \in tokens \ tokens' : \A c \in Clients : txn[c] = Idle

WorkOnRows(c) ==
    /\ \/ /\ area = "targeting"
          /\ FlagStep(c) \/ SegmentStep(c)
          /\ UNCHANGED measureVars
       \/ /\ area = "holdouts"
          /\ HoldoutStep(c)
          /\ UNCHANGED measureVars
       \/ /\ area = "templates"
          /\ TemplateStep(c) /\ FewUpdates(c)
          /\ UNCHANGED targetingVars
       \/ /\ area = "guardrails"
          /\ GuardrailStep(c)
          /\ UNCHANGED targetingVars
       \/ area # "accounts" /\ GiveUp(c)
    /\ asked' <= FewRequests
    /\ UNCHANGED accessVars

MCNext ==
    /\ \/ \E c \in Clients : WorkOnRows(c)
       \/ area = "accounts" /\ AccessNext /\ FewKeys /\ FewPermissions /\ RestfulExpiry
          /\ UNCHANGED <<targetingVars, measureVars>>
    /\ UNCHANGED area

\* A client is a slot, nothing more, and accounts are alike before they
\* register.
Symmetry == Permutations(Clients) \cup Permutations(Accounts)

MCSpec == MCInit /\ [][MCNext]_<<vars, accessVars, area>>

=============================================================================
