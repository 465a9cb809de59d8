-------------------------- MODULE ResultsAnalysis --------------------------
(***************************************************************************)
(* run_and_save (analysis_service) as POST /analyze (routers/results) and  *)
(* the hourly cron job (worker) call it, the results table, and the page   *)
(* of an experiment that refetches results on the SSE event                *)
(* result_updated.                                                         *)
(*                                                                         *)
(* The facts of an experiment (assignments and events) only grow: a        *)
(* version number stands for them and for the results computed from them.  *)
(* A POST has a session of its own that get_db commits; all experiments of *)
(* the hourly job share one session, which is closed without a commit.     *)
(* Rows written by a session stay locked until it ends.                    *)
(***************************************************************************)
EXTENDS Naturals, FiniteSets

CONSTANTS
    Experiments,   \* the RUNNING experiments
    Pages,         \* those whose page somebody has open
    Posts,         \* slots for POST /analyze requests in flight
    Hourly,        \* the cron job; arq never runs two of them at once
    None,
    MaxFacts,      \* MaxFacts[e]: bound on the versions of the facts
    Alarming       \* Alarming[e]: versions with an SRM or an insight sent out

ASSUME AnalysisAssumption ==
    /\ Hourly \notin Posts /\ None \notin Posts \cup {Hourly}
    /\ Pages \subseteq Experiments
    /\ MaxFacts \in [Experiments -> Nat]
    /\ Alarming \in [Experiments -> SUBSET Nat]

VARIABLES
    facts,     \* facts[e]: 0 means no assignments
    results,   \* results[e]: the committed rows of e; 0 means none
    owner,     \* owner[e]: the session that has upserted the rows of e
    task,      \* task[s]: where session s is in run_and_save
    batch,     \* the hourly job
    view,      \* view[e]: the open page of e
    queue,     \* deliver_webhooks jobs in Redis, by experiment
    before     \* history, before[e]: results[e] before the last commit

vars == <<facts, results, owner, task, batch, view, queue, before>>

Sessions == Posts \cup {Hourly}
Version  == UNION {0 .. MaxFacts[e] : e \in Experiments}

Idle == [at |-> "idle"]

Task ==
    {Idle}
      \cup [at : {"analyse"}, exp : Experiments]
      \cup [at : {"upsert", "publish", "enqueue", "commit"}, exp : Experiments,
            saw : Version \ {0}]

NoBatch == [todo |-> {}, wrote |-> {}, aborted |-> FALSE, sound |-> {}, on |-> FALSE]

\* wrote: the experiments upserted; sound is history: those that had facts
\* when the job began and whose computation has not failed, as long as the
\* transaction is not aborted.
Batch == [todo : SUBSET Experiments, wrote : SUBSET Experiments, aborted : BOOLEAN,
          sound : SUBSET Experiments, on : BOOLEAN]

Init ==
    /\ facts = [e \in Experiments |-> 0]
    /\ results = [e \in Experiments |-> 0]
    /\ owner = [e \in Experiments |-> None]
    /\ task = [s \in Sessions |-> Idle]
    /\ batch = NoBatch
    /\ view = [e \in Pages |-> [up |-> TRUE, stale |-> FALSE, missed |-> FALSE, shown |-> 0]]
    /\ queue = {}
    /\ before = [e \in Pages |-> 0]

Become(s, t) == task' = [task EXCEPT ![s] = t]

\* The end of a transaction of s, whichever way.
Release(s) == owner' = [e \in Experiments |-> IF owner[e] = s THEN None ELSE owner[e]]

\* Users are assigned and events are tracked.
GrowFacts(e) ==
    /\ facts[e] < MaxFacts[e]
    /\ facts' = [facts EXCEPT ![e] = @ + 1]
    /\ UNCHANGED <<results, owner, task, batch, view, queue, before>>

\* trigger_analysis
StartPost(p, e) ==
    /\ task[p] = Idle
    /\ Become(p, [at |-> "analyse", exp |-> e])
    /\ UNCHANGED <<facts, results, owner, batch, view, queue, before>>

\* analyze_running_experiments lists the RUNNING experiments...
StartHourly ==
    /\ ~batch.on
    /\ batch' = [todo |-> Experiments, wrote |-> {}, aborted |-> FALSE,
                 sound |-> {e \in Experiments : facts[e] > 0}, on |-> TRUE]
    /\ UNCHANGED <<facts, results, owner, task, view, queue, before>>

\* ... and goes through them; in an aborted transaction the first SELECT of
\* run_and_save raises, and the loop goes on.
NextExperiment(e) ==
    /\ batch.on /\ task[Hourly] = Idle
    /\ e \in batch.todo
    /\ batch' = [batch EXCEPT !.todo = @ \ {e}]
    /\ IF batch.aborted
         THEN UNCHANGED task
         ELSE Become(Hourly, [at |-> "analyse", exp |-> e])
    /\ UNCHANGED <<facts, results, owner, view, queue, before>>

\* Mutant: an exception ends the loop of the hourly job.
AnalyseOrStop(s) ==
    /\ task[s].at = "analyse"
    /\ IF facts[task[s].exp] = 0
         THEN /\ Become(s, Idle)
              /\ batch' = IF s = Hourly THEN [batch EXCEPT !.todo = {}] ELSE batch
         ELSE /\ Become(s, [at |-> "upsert", exp |-> task[s].exp,
                            saw |-> facts[task[s].exp]])
              /\ UNCHANGED batch
    /\ UNCHANGED <<facts, results, owner, view, queue, before>>

\* run_analysis; without assignments it raises a ValueError.
Analyse(s) ==
    /\ task[s].at = "analyse"
    /\ IF facts[task[s].exp] = 0
         THEN Become(s, Idle)
         ELSE Become(s, [at |-> "upsert", exp |-> task[s].exp,
                         saw |-> facts[task[s].exp]])
    /\ UNCHANGED <<facts, results, owner, batch, view, queue, before>>

\* The computation raises anything else: the request ends, the job goes on
\* with its next experiment in a transaction that is intact.
ComputationFails(s) ==
    /\ task[s].at = "analyse" /\ facts[task[s].exp] # 0
    /\ Become(s, Idle)
    /\ batch' = IF s = Hourly THEN [batch EXCEPT !.sound = @ \ {task[s].exp}] ELSE batch
    /\ UNCHANGED <<facts, results, owner, view, queue, before>>

\* INSERT ... ON CONFLICT DO UPDATE waits for the session that has written
\* the rows.
Upsert(s) ==
    /\ task[s].at = "upsert"
    /\ LET e == task[s].exp IN
         /\ owner[e] = None
         /\ owner' = [owner EXCEPT ![e] = s]
         /\ batch' = IF s = Hourly THEN [batch EXCEPT !.wrote = @ \cup {e}] ELSE batch
    /\ task' = [task EXCEPT ![s].at = "publish"]
    /\ UNCHANGED <<facts, results, view, queue, before>>

\* A query or the upsert fails: the request is rolled back; the transaction
\* of the job is aborted, and the job goes on with the next experiment.
QueryFails(s) ==
    /\ task[s].at \in {"analyse", "upsert"}
    /\ Become(s, Idle)
    /\ Release(s)
    /\ batch' = IF s = Hourly THEN [batch EXCEPT !.wrote = {}, !.sound = {}, !.aborted = TRUE] ELSE batch
    /\ UNCHANGED <<facts, results, view, queue, before>>

\* Only a page that is connected gets the event.
Announce(e) ==
    view' = [v \in Pages |-> [view[v] EXCEPT !.stale = @ \/ (v = e /\ view[v].up)]]

\* Mutant: the event is only published with an alarm.
PublishAlarms(s) ==
    /\ task[s].at = "publish"
    /\ IF task[s].saw \in Alarming[task[s].exp] THEN Announce(task[s].exp) ELSE UNCHANGED view
    /\ task' = [task EXCEPT ![s].at = "enqueue"]
    /\ UNCHANGED <<facts, results, owner, batch, queue, before>>

\* result_updated, before the commit; only a page that is connected gets it.
Publish(s) ==
    /\ task[s].at = "publish"
    /\ Announce(task[s].exp)
    /\ task' = [task EXCEPT ![s].at = "enqueue"]
    /\ UNCHANGED <<facts, results, owner, batch, queue, before>>

\* publish_experiment_event swallows the errors of Redis.
PublishFails(s) ==
    /\ task[s].at = "publish"
    /\ view' = [e \in Pages |-> IF e = task[s].exp THEN [view[e] EXCEPT !.missed = TRUE]
                                                    ELSE view[e]]
    /\ task' = [task EXCEPT ![s].at = "enqueue"]
    /\ UNCHANGED <<facts, results, owner, batch, queue, before>>

\* The request goes on to its commit, the job to its next experiment.
AfterEnqueue(s) == IF s = Hourly THEN Idle ELSE [task[s] EXCEPT !.at = "commit"]

\* _enqueue_webhooks
Enqueue(s) ==
    /\ task[s].at = "enqueue"
    /\ queue' = IF task[s].saw \in Alarming[task[s].exp] THEN queue \cup {task[s].exp} ELSE queue
    /\ Become(s, AfterEnqueue(s))
    /\ UNCHANGED <<facts, results, owner, batch, view, before>>

EnqueueFails(s) ==
    /\ task[s].at = "enqueue"
    /\ Become(s, AfterEnqueue(s))
    /\ UNCHANGED <<facts, results, owner, batch, view, queue, before>>

\* get_db, after the response
Commit(p) ==
    /\ task[p].at = "commit"
    /\ results' = [results EXCEPT ![task[p].exp] = task[p].saw]
    /\ before' = [e \in Pages |-> IF e = task[p].exp THEN results[e] ELSE before[e]]
    /\ Release(p)
    /\ Become(p, Idle)
    /\ UNCHANGED <<facts, batch, view, queue>>

CommitFails(p) ==
    /\ task[p].at = "commit"
    /\ Release(p)
    /\ Become(p, Idle)
    /\ UNCHANGED <<facts, results, batch, view, queue, before>>

\* Mutant: the session of the job is not closed.
EndHourlyOpen ==
    /\ batch.on /\ batch.todo = {} /\ task[Hourly] = Idle
    /\ batch' = NoBatch
    /\ UNCHANGED <<facts, results, owner, task, view, queue, before>>

\* The session of the job is closed, which rolls it back.
EndHourly ==
    /\ batch.on /\ batch.todo = {} /\ task[Hourly] = Idle
    /\ batch' = NoBatch
    /\ Release(Hourly)
    /\ UNCHANGED <<facts, results, task, view, queue, before>>

\* arq cancels the job after its job_timeout, or the worker stops.
CancelHourly ==
    /\ batch.on
    /\ batch' = NoBatch
    /\ Become(Hourly, Idle)
    /\ Release(Hourly)
    /\ UNCHANGED <<facts, results, view, queue, before>>

\* The page reads GET /results after it was told to.
Refetch(e) ==
    /\ view[e].stale
    /\ view' = [view EXCEPT ![e] =
                 [@ EXCEPT !.stale = FALSE, !.missed = ~view[e].up, !.shown = results[e]]]
    /\ UNCHANGED <<facts, results, owner, task, batch, queue, before>>

\* The stream breaks, perhaps with an event in it; when EventSource has
\* reconnected, nothing is fetched.
Disconnect(e) ==
    /\ view[e].up
    /\ \E stale \in {FALSE, view[e].stale} :
         view' = [view EXCEPT ![e] = [@ EXCEPT !.up = FALSE, !.stale = stale, !.missed = TRUE]]
    /\ UNCHANGED <<facts, results, owner, task, batch, queue, before>>

Reconnect(e) ==
    /\ ~view[e].up
    /\ view' = [view EXCEPT ![e].up = TRUE]
    /\ UNCHANGED <<facts, results, owner, task, batch, queue, before>>

\* The worker takes a deliver_webhooks job (WebhookDelivery).
Dequeue(e) ==
    /\ e \in queue
    /\ queue' = queue \ {e}
    /\ UNCHANGED <<facts, results, owner, task, batch, view, before>>

PostStep(p) == Analyse(p) \/ Upsert(p) \/ Publish(p) \/ Enqueue(p) \/ Commit(p)

HourlyStep ==
    \/ StartHourly
    \/ \E e \in Experiments : NextExperiment(e)
    \/ Analyse(Hourly) \/ Upsert(Hourly) \/ Publish(Hourly) \/ Enqueue(Hourly)
    \/ EndHourly

Failure ==
    \/ \E s \in Sessions :
          QueryFails(s) \/ ComputationFails(s) \/ PublishFails(s) \/ EnqueueFails(s)
    \/ \E p \in Posts : CommitFails(p)
    \/ CancelHourly

Next ==
    \/ \E p \in Posts : PostStep(p) \/ \E e \in Experiments : StartPost(p, e)
    \/ HourlyStep
    \/ Failure
    \/ \E e \in Experiments : GrowFacts(e) \/ Dequeue(e)
    \/ \E e \in Pages : Refetch(e) \/ Disconnect(e) \/ Reconnect(e)

Spec == Init /\ [][Next]_vars

\* Sessions go on, cron starts the job again and again, and whoever waits for
\* a row lock gets it in turn: PostgreSQL queues them.
FairSpec == Spec /\ SF_vars(HourlyStep) /\ \A p \in Posts : SF_vars(PostStep(p))

-----------------------------------------------------------------------------
TypeOK ==
    /\ facts \in [Experiments -> Version]
    /\ results \in [Experiments -> Version]
    /\ owner \in [Experiments -> Sessions \cup {None}]
    /\ task \in [Sessions -> Task]
    /\ batch \in Batch
    /\ view \in [Pages -> [up : BOOLEAN, stale : BOOLEAN, missed : BOOLEAN, shown : Version]]
    /\ queue \subseteq Experiments
    /\ before \in [Pages -> Version]

\* An experiment that cannot be analysed does not keep the hourly job from
\* the others, unless it breaks the transaction they share.
OthersAreAnalysed ==
    [][EndHourly /\ ~batch.aborted => batch.sound \subseteq batch.wrote]_vars

\* "any open ExperimentDetailPage sees updates without a manual refresh": the
\* event comes before the commit, so a page may miss what it announced, but
\* no more: a page that has got every event and has fetched is at most one
\* commit behind the table, as the row lock keeps the next event back.
PageAtMostOneBehind ==
    \A e \in Pages : ~view[e].stale /\ ~view[e].missed
                     => view[e].shown \in {results[e], before[e]}

\* A POST is answered, though it may have to wait for a whole hourly job.
PostsEnd == \A p \in Posts : task[p] # Idle ~> task[p] = Idle

\* "Calculated totals of an experiment. Updated by the worker (upsert)": what
\* an hourly job has computed is in the table when it has ended well.
HourlySaves ==
    [][EndHourly => \A e \in batch.wrote : results'[e] # 0]_vars

=============================================================================
