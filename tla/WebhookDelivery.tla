-------------------------- MODULE WebhookDelivery --------------------------
(***************************************************************************)
(* The worker's job deliver_webhooks: one event is posted to every active  *)
(* webhook, at most MaxAttempts times each (worker, webhook_service),      *)
(* while administrators pause, resume and delete webhooks.                 *)
(*                                                                         *)
(* All attempts of a run share one session.  Its INSERTs take a key lock   *)
(* on the webhooks rows they refer to and live in a transaction that       *)
(* nobody commits: the session of the worker is closed, not committed.     *)
(* When a flush fails the session is rolled back and its objects expire;   *)
(* the handler of deliver_event then reads webhook.id and raises again, so *)
(* the job ends there.                                                     *)
(***************************************************************************)
EXTENDS Naturals, Sequences, SequencesExt

CONSTANTS
    Webhooks,
    Jobs,            \* the jobs enqueued
    MaxAttempts,     \* MAX_ATTEMPTS
    MaxTries         \* arq: runs of one job; a bound

ASSUME DeliveryAssumption == MaxAttempts \in Nat \ {0} /\ MaxTries \in Nat \ {0}

VARIABLES
    hook,      \* hook[w]: the committed row of a webhook, as the job's query sees it
    job,       \* job[j]
    tries,     \* tries[j]: how often j has been run
    session,   \* session[j]: the deliveries flushed and not committed
    log,       \* the committed webhook_deliveries
    posted     \* history, posted[j][w]: what w answered in the present run of j

vars == <<hook, job, tries, session, log, posted>>

\* "paused" is every row that the job's query leaves out: not active, not
\* subscribed to the event, or not created yet.
HookState == {"active", "paused", "deleted"}

Delivery == [job : Jobs, hook : Webhooks, attempt : 1 .. MaxAttempts, success : BOOLEAN]

\* webhooks is the list that deliver_event loops over, todo what is left of it.
Job ==
    [at : {"queued", "done", "failed"}]
      \cup [at : {"next"}, webhooks : SUBSET Webhooks, todo : SUBSET Webhooks]
      \cup [at : {"send"}, webhooks : SUBSET Webhooks, todo : SUBSET Webhooks,
            to : Webhooks, attempt : 1 .. MaxAttempts]
      \cup [at : {"flush"}, webhooks : SUBSET Webhooks, todo : SUBSET Webhooks,
            to : Webhooks, attempt : 1 .. MaxAttempts, success : BOOLEAN]

Running(j) == job[j].at \in {"next", "send", "flush"}

Become(j, state) == job' = [job EXCEPT ![j] = state]

NothingPosted == [w \in Webhooks |-> <<>>]

Init ==
    /\ hook \in [Webhooks -> {"active", "paused"}]
    /\ job = [j \in Jobs |-> [at |-> "queued"]]
    /\ tries = [j \in Jobs |-> 0]
    /\ session = [j \in Jobs |-> {}]
    /\ log = {}
    /\ posted = [j \in Jobs |-> NothingPosted]

\* Mutant: is_active is not looked at.
ListedEvenPaused == {w \in Webhooks : hook[w] # "deleted"}

\* list_active_webhooks_for_event
Listed == {w \in Webhooks : hook[w] = "active"}

\* deliver_event: the objects listed here are what the run works with.
Start(j) ==
    /\ job[j].at = "queued"
    /\ Become(j, [at |-> "next", webhooks |-> Listed, todo |-> Listed])
    /\ tries' = [tries EXCEPT ![j] = @ + 1]
    /\ posted' = [posted EXCEPT ![j] = NothingPosted]
    /\ UNCHANGED <<hook, session, log>>

Offer(j, left, w, n) ==
    [at |-> "send", webhooks |-> job[j].webhooks, todo |-> left, to |-> w, attempt |-> n]

GoOn(j, left) == [at |-> "next", webhooks |-> job[j].webhooks, todo |-> left]

NextWebhook(j, w) ==
    /\ job[j].at = "next"
    /\ w \in job[j].todo
    /\ Become(j, Offer(j, job[j].todo \ {w}, w, 1))
    /\ UNCHANGED <<hook, tries, session, log, posted>>

\* _send_one: any answer but 2xx, and any transport error, is a failure.
Send(j, success) ==
    /\ job[j].at = "send"
    /\ Become(j, [at |-> "flush", webhooks |-> job[j].webhooks, todo |-> job[j].todo,
                  to |-> job[j].to, attempt |-> job[j].attempt, success |-> success])
    /\ posted' = [posted EXCEPT ![j][job[j].to] = Append(@, success)]
    /\ UNCHANGED <<hook, tries, session, log>>

Again(j, n) == Offer(j, job[j].todo, job[j].to, n)

\* Mutants: every attempt is made whatever the answer; a webhook that fails
\* ends the run.
AfterEachAttempt(j) ==
    IF job[j].attempt = MaxAttempts THEN GoOn(j, job[j].todo) ELSE Again(j, job[j].attempt + 1)

AfterFailureStop(j) ==
    IF job[j].success THEN GoOn(j, job[j].todo)
    ELSE IF job[j].attempt = MaxAttempts THEN GoOn(j, {}) ELSE Again(j, job[j].attempt + 1)

\* After an attempt: the next one, after a pause, unless this one succeeded
\* or was the last.
AfterAttempt(j) ==
    IF job[j].success \/ job[j].attempt = MaxAttempts
      THEN GoOn(j, job[j].todo)
      ELSE Again(j, job[j].attempt + 1)

Flush(j) ==
    /\ job[j].at = "flush"
    /\ hook[job[j].to] # "deleted"
    /\ session' = [session EXCEPT ![j] =
                     @ \cup {[job |-> j, hook |-> job[j].to, attempt |-> job[j].attempt,
                              success |-> job[j].success]}]
    /\ Become(j, AfterAttempt(j))
    /\ UNCHANGED <<hook, tries, log, posted>>

\* Mutant: a flush that failed is tried again.
FlushFailsAgain(j) ==
    /\ job[j].at = "flush"
    /\ session' = [session EXCEPT ![j] = {}]
    /\ UNCHANGED <<hook, job, tries, log, posted>>

\* A webhook that was deleted meanwhile violates the foreign key; the
\* database may also be gone.
FlushFails(j) ==
    /\ job[j].at = "flush"
    /\ Become(j, [at |-> "failed"])
    /\ session' = [session EXCEPT ![j] = {}]
    /\ UNCHANGED <<hook, tries, log, posted>>

\* The session is closed and what it had flushed is rolled back.
Finish(j) ==
    /\ job[j].at = "next" /\ job[j].todo = {}
    /\ Become(j, [at |-> "done"])
    /\ session' = [session EXCEPT ![j] = {}]
    /\ UNCHANGED <<hook, tries, log, posted>>

\* arq cancels a job that takes longer than its job_timeout.
TimeOut(j) ==
    /\ Running(j)
    /\ Become(j, [at |-> "failed"])
    /\ session' = [session EXCEPT ![j] = {}]
    /\ UNCHANGED <<hook, tries, log, posted>>

\* The worker dies or is shut down: arq runs the job again from the start.
Crash(j) ==
    /\ Running(j)
    /\ tries[j] < MaxTries
    /\ Become(j, [at |-> "queued"])
    /\ session' = [session EXCEPT ![j] = {}]
    /\ UNCHANGED <<hook, tries, log, posted>>

\* PATCH is_active or events.  It does not wait for the key locks of running jobs.
Pause(w) ==
    /\ hook[w] = "active"
    /\ hook' = [hook EXCEPT ![w] = "paused"]
    /\ UNCHANGED <<job, tries, session, log, posted>>

\* PATCH the other way round, or POST of a webhook.
Resume(w) ==
    /\ hook[w] = "paused"
    /\ hook' = [hook EXCEPT ![w] = "active"]
    /\ UNCHANGED <<job, tries, session, log, posted>>

\* DELETE takes the committed deliveries along and waits for the key locks.
Delete(w) ==
    /\ hook[w] # "deleted"
    /\ \A j \in Jobs : \A d \in session[j] : d.hook # w
    /\ hook' = [hook EXCEPT ![w] = "deleted"]
    /\ log' = {d \in log : d.hook # w}
    /\ UNCHANGED <<job, tries, session, posted>>

WorkerStep(j) ==
    \/ Start(j)
    \/ \E w \in Webhooks : NextWebhook(j, w)
    \/ \E success \in BOOLEAN : Send(j, success)
    \/ Flush(j)
    \/ FlushFails(j)
    \/ Finish(j)

Next ==
    \/ \E j \in Jobs : WorkerStep(j) \/ TimeOut(j) \/ Crash(j)
    \/ \E w \in Webhooks : Pause(w) \/ Resume(w) \/ Delete(w)

Spec == Init /\ [][Next]_vars

\* The worker goes on with a job it has; nothing is assumed of the timeout,
\* the receivers or the administrators.
FairSpec == Spec /\ \A j \in Jobs : WF_vars(WorkerStep(j))

-----------------------------------------------------------------------------
TypeOK ==
    /\ hook \in [Webhooks -> HookState]
    /\ job \in [Jobs -> Job]
    /\ tries \in [Jobs -> 0 .. MaxTries]
    /\ session \in [Jobs -> SUBSET Delivery]
    /\ \A j \in Jobs : \A d \in session[j] : d.job = j
    /\ log \subseteq Delivery
    /\ posted \in [Jobs -> [Webhooks -> Seq(BOOLEAN)]]

\* A run posts to a webhook at most MaxAttempts times and stops at the first
\* answer it takes for a success (the loop of send_with_retries).
StopsAtSuccess ==
    \A j \in Jobs : \A w \in Webhooks :
        /\ Len(posted[j][w]) <= MaxAttempts
        /\ \A i \in 1 .. Len(posted[j][w]) - 1 : ~posted[j][w][i]

\* "A single failing webhook MUST NOT block the others": a run that comes to
\* its end has left no webhook of its list before it took the event or
\* failed MaxAttempts times, whatever the others did.  (A run that is cut
\* short, by a failing flush or the timeout, does block the rest.)
Offered(j, w) ==
    LET answers == posted[j][w]
    IN answers # <<>> /\ (Last(answers) \/ Len(answers) = MaxAttempts)

NoneIsBlocked ==
    [][\A j \in Jobs : Finish(j) => \A w \in job[j].webhooks : Offered(j, w)]_vars

\* No run still has w to post to.
Quiet(w) ==
    /\ hook[w] # "active"
    /\ \A j \in Jobs : Running(j) =>
         /\ w \notin job[j].todo
         /\ job[j].at \in {"send", "flush"} => job[j].to # w

\* Pausing a webhook takes effect when the runs that listed it are over, and
\* lasts until it is resumed, through crashes and repeated runs.
PausedMeansQuiet ==
    [][\A w \in Webhooks : Quiet(w) /\ hook'[w] # "active" => Quiet(w)']_vars

\* Every job comes to an end, without the help of the timeout.
JobsEnd == \A j \in Jobs : <>(job[j].at \in {"done", "failed"})

=============================================================================
