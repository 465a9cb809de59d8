----------------------------- MODULE Backoffice -----------------------------
(***************************************************************************)
(* The administrators at work on everything around an experiment at once:  *)
(* flags, segments and holdouts (Targeting), templates of metrics, the     *)
(* metrics of experiments and guardrails (Measures).                       *)
(***************************************************************************)
EXTENDS Targeting, Measures

vars == <<targetingVars, measureVars, requestVars>>

Init == TargetingInit /\ MeasuresInit /\ InitRequests

\* An exception, a constraint that is violated, a client that hangs up.
GiveUp(c) == Fail(c) /\ UNCHANGED <<targetingVars, measureVars>>

Step(c) ==
    \/ TargetingStep(c) /\ UNCHANGED measureVars
    \/ MeasuresStep(c) /\ UNCHANGED targetingVars
    \/ GiveUp(c)

Next == \E c \in Clients : Step(c)

Spec == Init /\ [][Next]_vars

-----------------------------------------------------------------------------
\* However requests overlap, the tables keep their types and hang together:
\* no rule names a segment that is gone, nothing hangs from a deleted flag,
\* segment or holdout, no metric refers to a deleted template, and a metric
\* has one guardrail per direction and severity, and only if it is marked.
TablesIntact == TargetingIntact /\ MeasuresIntact

\* The row that is there before a step is there after it.
Kept(row) == row # Absent /\ StillThere(row', row)

\* The request of c is the one that this step commits.
Commits(c) == txn[c] # Idle /\ txn'[c] = Idle

Wants(c, op, enabled) == Commits(c) /\ txn[c].ask.op \in op /\ txn[c].ask.enabled = enabled

\* Switches that protect users stay as they are until somebody asks for the
\* contrary: a request that loaded the row before the kill switch was thrown,
\* the guardrail armed or the holdout activated, and commits afterwards, does
\* not put the old setting back.
SwitchesHold ==
    [][/\ Kept(flag) /\ ~flag.enabled /\ flag'.enabled
            => \E c \in Clients : Wants(c, {"update_flag", "toggle_flag"}, TRUE)
       /\ \A g \in guardrails, h \in guardrails' :
            g.id = h.id /\ g.enabled /\ ~h.enabled
              => \E c \in Clients : Wants(c, {"update_guardrail"}, FALSE)
       /\ Kept(holdout) /\ holdout.active /\ ~holdout'.active
            => \E c \in Clients : Commits(c) /\ txn[c].ask.op = "update_holdout"
                                    /\ txn[c].ask.active = FALSE]_vars

\* Who reads the audit log knows how the flag is switched and rolled out, how
\* many rules it and the segment have, what the segment is linked to and who
\* is excluded from the holdout, as long as requests do not overlap: what the
\* handlers log comes from objects that are not read again after the flush.
LogTellsRows == ~overlap => told = Story

\* The template as an update is to leave it.
Wanted(row, a) ==
    [row EXCEPT !.filters            = Shown(@, a.filters),
                !.denominator        = Shown(@, a.denominator),
                !.aggregation        = Shown(@, a.aggregation),
                !.denominatorFilters = Shown(@, a.denominatorFilters)]

\* What a partial update of a template promises: one that leads from a valid
\* definition to a valid one, with filters on both sides or not, is not
\* refused.
ValidUpdatesPass ==
    \A c \in Clients :
        LET t == txn[c] IN
        t.ask.op = "update_metric" /\ ValidDefinition(t.row) /\ ValidDefinition(Wanted(t.row, t.ask))
          => FiltersPass(t.row, t.ask) /\ DenominatorFiltersPass(t.row, t.ask)

=============================================================================
