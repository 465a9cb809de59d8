---------------------------- MODULE WebhookProofs ----------------------------
(***************************************************************************)
(* What the worker promises of the delivery of an event, for any number of *)
(* webhooks and jobs, any MaxAttempts and any number of repeated runs.     *)
(*                                                                         *)
(* The inductive invariant relates the place of a run in its loop to what  *)
(* it has posted: nothing yet to the webhooks left over (todo), attempt -  *)
(* 1 or attempt failures to the one at hand, and to all others either a    *)
(* success or MaxAttempts failures.                                        *)
(***************************************************************************)
EXTENDS WebhookDelivery, TLAPS

\* All answers before the n-th were failures.
FailedBefore(s, n) == \A i \in 1 .. n - 1 : ~s[i]

\* A run is where posted says it is.
RunOK(j) ==
    /\ job[j].at = "queued" => tries[j] < MaxTries
    /\ Running(j) =>
         /\ job[j].todo \subseteq job[j].webhooks
         /\ \A w \in job[j].todo : posted[j][w] = <<>>
         /\ \A w \in job[j].webhooks \ job[j].todo :
               job[j].at = "next" \/ w # job[j].to => Offered(j, w)
    /\ job[j].at \in {"send", "flush"} => job[j].to \notin job[j].todo
    /\ job[j].at = "send" =>
         /\ Len(posted[j][job[j].to]) = job[j].attempt - 1
         /\ FailedBefore(posted[j][job[j].to], job[j].attempt)
    /\ job[j].at = "flush" =>
         /\ Len(posted[j][job[j].to]) = job[j].attempt
         /\ posted[j][job[j].to][job[j].attempt] = job[j].success
         /\ FailedBefore(posted[j][job[j].to], job[j].attempt)

Bounded(j) ==
    \A w \in Webhooks :
        /\ Len(posted[j][w]) <= MaxAttempts
        /\ FailedBefore(posted[j][w], Len(posted[j][w]))

IInv == TypeOK /\ \A j \in Jobs : RunOK(j) /\ Bounded(j)

-----------------------------------------------------------------------------
\* What the place of a run says of the fields it has.
LEMMA Fields ==
    ASSUME NEW x \in Job
    PROVE  /\ x.at \in {"queued", "done", "failed", "next", "send", "flush"}
           /\ x.at \in {"next", "send", "flush"} =>
                x.webhooks \in SUBSET Webhooks /\ x.todo \in SUBSET Webhooks
           /\ x.at \in {"send", "flush"} => x.to \in Webhooks /\ x.attempt \in 1 .. MaxAttempts
           /\ x.at = "flush" => x.success \in BOOLEAN
  BY DEF Job

\* A step that leaves a job and its records alone leaves its invariant alone.
LEMMA Untouched ==
    ASSUME NEW j, job'[j] = job[j], tries'[j] = tries[j], posted'[j] = posted[j],
           RunOK(j), Bounded(j)
    PROVE  RunOK(j)' /\ Bounded(j)'
  BY DEF RunOK, Bounded, Running, Offered, FailedBefore

\* The types of the parts that no step of the worker's loop changes together.
LEMMA TypeIsEnough ==
    ASSUME NEW j \in Jobs, TypeOK
    PROVE  job[j] \in Job /\ posted[j] \in [Webhooks -> Seq(BOOLEAN)] /\ tries[j] \in 0 .. MaxTries
  BY DEF TypeOK

LEMMA InitOK == Init => IInv
<1> SUFFICES ASSUME Init PROVE IInv
  OBVIOUS
<1> USE DeliveryAssumption
<1>1. TypeOK
  BY DEF Init, TypeOK, Job, NothingPosted, HookState
<1>2. ASSUME NEW j \in Jobs PROVE RunOK(j) /\ Bounded(j)
  BY DEF Init, RunOK, Bounded, FailedBefore, Running, NothingPosted
<1> QED
  BY <1>1, <1>2 DEF IInv

\* A job's own step in which it does not go on to post.
LEMMA Stops ==
    ASSUME IInv, NEW j \in Jobs, NEW state \in {"queued", "done", "failed"},
           Become(j, [at |-> state]),
           state = "queued" => tries[j] < MaxTries,
           session' = [session EXCEPT ![j] = {}],
           UNCHANGED <<hook, tries, log, posted>>
    PROVE  IInv'
<1>1. TypeOK'
  <2>1. [at |-> state] \in Job
    BY DEF Job
  <2> QED
    BY <2>1 DEF IInv, TypeOK, Become
<1>2. ASSUME NEW k \in Jobs PROVE RunOK(k)' /\ Bounded(k)'
  <2>1. CASE k = j
    <3>1. job'[j] = [at |-> state]
      BY DEF IInv, TypeOK, Become
    <3> QED
      BY <2>1, <3>1 DEF IInv, RunOK, Bounded, Running, FailedBefore
  <2>2. CASE k # j
    BY <2>2, Untouched DEF IInv, TypeOK, Become
  <2> QED
    BY <2>1, <2>2
<1> QED
  BY <1>1, <1>2 DEF IInv

\* Steps of administrators.
LEMMA Administration ==
    ASSUME IInv, hook' \in [Webhooks -> HookState], log' \subseteq log,
           UNCHANGED <<job, tries, session, posted>>
    PROVE  IInv'
<1>1. TypeOK'
  BY DEF IInv, TypeOK
<1>2. ASSUME NEW k \in Jobs PROVE RunOK(k)' /\ Bounded(k)'
  BY Untouched DEF IInv
<1> QED
  BY <1>1, <1>2 DEF IInv

\* What a step changes of one job only is nobody else's.
LEMMA OthersOK ==
    ASSUME IInv, NEW j \in Jobs, NEW k \in Jobs \ {j}, NEW x, NEW n, NEW f,
           job' = [job EXCEPT ![j] = x], tries' = [tries EXCEPT ![j] = n],
           posted' = [posted EXCEPT ![j] = f]
    PROVE  RunOK(k)' /\ Bounded(k)'
  BY Untouched DEF IInv, TypeOK

-----------------------------------------------------------------------------
(***************************************************************************)
(* One lemma per step of the loops of a run.                               *)
(***************************************************************************)
LEMMA StartOK == ASSUME IInv, NEW j \in Jobs, Start(j) PROVE IInv'
<1> DEFINE x == [at |-> "next", webhooks |-> Listed, todo |-> Listed]
<1> USE DeliveryAssumption
<1>1. /\ job' = [job EXCEPT ![j] = x] /\ tries' = [tries EXCEPT ![j] = tries[j] + 1]
      /\ posted' = [posted EXCEPT ![j] = NothingPosted] /\ UNCHANGED <<hook, session, log>>
  BY DEF Start, Become
<1>2. tries[j] + 1 \in 0 .. MaxTries
  BY DEF Start, IInv, TypeOK, RunOK
<1>3. x \in Job /\ NothingPosted \in [Webhooks -> Seq(BOOLEAN)]
  BY DEF Job, Listed, NothingPosted
<1>4. TypeOK'
  <2> HIDE DEF x
  <2> QED
    BY <1>1, <1>2, <1>3 DEF IInv, TypeOK
<1>5. RunOK(j)' /\ Bounded(j)'
  <2>1. job'[j] = x /\ posted'[j] = NothingPosted
    <3> HIDE DEF x
    <3> QED
      BY <1>1 DEF IInv, TypeOK
  <2> QED
    BY <2>1 DEF RunOK, Bounded, Running, FailedBefore, NothingPosted, Listed
<1>6. \A k \in Jobs \ {j} : RunOK(k)' /\ Bounded(k)'
  <2> HIDE DEF x
  <2> QED
    BY <1>1, OthersOK
<1> QED
  BY <1>4, <1>5, <1>6 DEF IInv

LEMMA NextWebhookOK ==
    ASSUME IInv, NEW j \in Jobs, NEW w \in Webhooks, NextWebhook(j, w) PROVE IInv'
<1> DEFINE x == Offer(j, job[j].todo \ {w}, w, 1)
<1> USE DeliveryAssumption
<1>1. /\ job' = [job EXCEPT ![j] = x] /\ UNCHANGED <<tries, posted, hook, session, log>>
      /\ job[j].at = "next" /\ w \in job[j].todo
  BY DEF NextWebhook, Become
<1>2. job[j].todo \in SUBSET Webhooks /\ job[j].webhooks \in SUBSET Webhooks
  BY <1>1, TypeIsEnough, Fields DEF IInv
<1>3. x \in Job
  BY <1>2 DEF Job, Offer
<1>4. TypeOK'
  <2> HIDE DEF x
  <2> QED
    BY <1>1, <1>3 DEF IInv, TypeOK
<1>5. RunOK(j)' /\ Bounded(j)'
  <2>1. job'[j] = x /\ posted'[j] = posted[j] /\ tries'[j] = tries[j]
    <3> HIDE DEF x
    <3> QED
      BY <1>1 DEF IInv, TypeOK
  <2>2. Bounded(j)'
    BY <2>1 DEF IInv, Bounded, FailedBefore
  <2>3. posted[j][w] = <<>>
    BY <1>1 DEF IInv, RunOK, Running
  <2>4. RunOK(j)'
    BY <2>1, <2>3, <1>1 DEF IInv, RunOK, Running, FailedBefore, Offer, Offered
  <2> QED
    BY <2>2, <2>4
<1>6. \A k \in Jobs \ {j} : RunOK(k)' /\ Bounded(k)'
  <2> HIDE DEF x
  <2> QED
    BY <1>1, Untouched DEF IInv, TypeOK
<1> QED
  BY <1>4, <1>5, <1>6 DEF IInv

\* One more answer, after failures only.
LEMMA OneMore ==
    ASSUME NEW s \in Seq(BOOLEAN), NEW b \in BOOLEAN, NEW n \in Nat,
           Len(s) = n, FailedBefore(s, n + 1)
    PROVE  /\ Append(s, b) \in Seq(BOOLEAN)
           /\ Len(Append(s, b)) = n + 1
           /\ Append(s, b)[n + 1] = b
           /\ FailedBefore(Append(s, b), n + 1)
  BY DEF FailedBefore

LEMMA SendOK ==
    ASSUME IInv, NEW j \in Jobs, NEW success \in BOOLEAN, Send(j, success) PROVE IInv'
<1> DEFINE w == job[j].to
           n == job[j].attempt
           x == [at |-> "flush", webhooks |-> job[j].webhooks, todo |-> job[j].todo,
                 to |-> w, attempt |-> n, success |-> success]
           f == [posted[j] EXCEPT ![w] = Append(@, success)]
<1> USE DeliveryAssumption
<1>1. /\ job' = [job EXCEPT ![j] = x] /\ posted' = [posted EXCEPT ![j] = f]
      /\ UNCHANGED <<tries, hook, session, log>> /\ job[j].at = "send"
  BY DEF Send, Become
<1>2. /\ job[j].todo \in SUBSET Webhooks /\ job[j].webhooks \in SUBSET Webhooks
      /\ w \in Webhooks /\ n \in 1 .. MaxAttempts
  BY <1>1, TypeIsEnough, Fields DEF IInv
<1>3. /\ posted[j][w] \in Seq(BOOLEAN) /\ Len(posted[j][w]) = n - 1
      /\ FailedBefore(posted[j][w], n)
  BY <1>1, <1>2, TypeIsEnough DEF IInv, RunOK
<1>4. /\ Append(posted[j][w], success) \in Seq(BOOLEAN)
      /\ Len(Append(posted[j][w], success)) = n
      /\ Append(posted[j][w], success)[n] = success
      /\ FailedBefore(Append(posted[j][w], success), n)
  <2>1. n - 1 \in Nat /\ (n - 1) + 1 = n
    BY <1>2
  <2> QED
    BY <1>3, <2>1, OneMore
<1>5. x \in Job
  BY <1>2 DEF Job
<1>6. /\ f \in [Webhooks -> Seq(BOOLEAN)]
      /\ f[w] = Append(posted[j][w], success)
      /\ \A v \in Webhooks \ {w} : f[v] = posted[j][v]
  BY <1>2, <1>4, TypeIsEnough DEF IInv
<1>7. TypeOK'
  <2> HIDE DEF x, f
  <2> QED
    BY <1>1, <1>5, <1>6 DEF IInv, TypeOK
<1>8. job'[j] = x /\ posted'[j] = f /\ tries'[j] = tries[j]
  <2> HIDE DEF x, f
  <2> QED
    BY <1>1 DEF IInv, TypeOK
<1>9. RunOK(j)' /\ Bounded(j)'
  <2> HIDE DEF f
  <2>1. Bounded(j)'
    <3>1. SUFFICES ASSUME NEW v \in Webhooks
                   PROVE  Len(f[v]) <= MaxAttempts /\ FailedBefore(f[v], Len(f[v]))
      BY <1>8 DEF Bounded
    <3>2. CASE v = w
      BY <3>2, <1>2, <1>4, <1>6
    <3>3. CASE v # w
      BY <3>3, <1>6 DEF IInv, Bounded
    <3> QED
      BY <3>2, <3>3
  <2>2. /\ job[j].todo \subseteq job[j].webhooks /\ w \notin job[j].todo
        /\ \A v \in job[j].todo : posted[j][v] = <<>>
        /\ \A v \in job[j].webhooks \ job[j].todo : v # w => Offered(j, v)
    BY <1>1 DEF IInv, RunOK, Running
  <2>3. \A v \in job[j].webhooks \ job[j].todo : v # w => Offered(j, v)'
    BY <2>2, <1>2, <1>6, <1>8 DEF Offered
  <2>4. \A v \in job[j].todo : posted'[j][v] = <<>>
    BY <2>2, <1>2, <1>6, <1>8
  <2>5. /\ x.at = "flush" /\ x.webhooks = job[j].webhooks /\ x.todo = job[j].todo
        /\ x.to = w /\ x.attempt = n /\ x.success = success
    OBVIOUS
  <2>6. RunOK(j)'
    <3> HIDE DEF x
    <3> QED
      BY <2>2, <2>3, <2>4, <2>5, <1>4, <1>6, <1>8 DEF RunOK, Running
  <2> QED
    BY <2>1, <2>6
<1>10. \A k \in Jobs \ {j} : RunOK(k)' /\ Bounded(k)'
  <2> HIDE DEF x, f
  <2> QED
    BY <1>1, Untouched DEF IInv, TypeOK
<1> QED
  BY <1>7, <1>9, <1>10 DEF IInv

LEMMA FlushOK == ASSUME IInv, NEW j \in Jobs, Flush(j) PROVE IInv'
<1> DEFINE w == job[j].to
           n == job[j].attempt
           d == [job |-> j, hook |-> w, attempt |-> n, success |-> job[j].success]
           x == AfterAttempt(j)
<1> USE DeliveryAssumption
<1>1. /\ job' = [job EXCEPT ![j] = x] /\ session' = [session EXCEPT ![j] = @ \cup {d}]
      /\ UNCHANGED <<tries, hook, posted, log>> /\ job[j].at = "flush"
  BY DEF Flush, Become
<1>2. /\ job[j].todo \in SUBSET Webhooks /\ job[j].webhooks \in SUBSET Webhooks
      /\ w \in Webhooks /\ n \in 1 .. MaxAttempts /\ job[j].success \in BOOLEAN
  BY <1>1, TypeIsEnough, Fields DEF IInv
<1>3. \/ x = GoOn(j, job[j].todo) /\ (job[j].success \/ n = MaxAttempts)
      \/ x = Again(j, n + 1) /\ ~job[j].success /\ n + 1 \in 1 .. MaxAttempts
  BY <1>2 DEF AfterAttempt
<1>4. x \in Job
  BY <1>2, <1>3 DEF Job, GoOn, Again, Offer
<1>5. d \in Delivery /\ d.job = j
  BY <1>2 DEF Delivery
<1>6. TypeOK'
  <2> HIDE DEF x, d
  <2> QED
    BY <1>1, <1>4, <1>5 DEF IInv, TypeOK
<1>7. job'[j] = x /\ posted'[j] = posted[j] /\ tries'[j] = tries[j]
  <2> HIDE DEF x, d
  <2> QED
    BY <1>1 DEF IInv, TypeOK
<1>8. /\ job[j].todo \subseteq job[j].webhooks /\ w \notin job[j].todo
      /\ \A v \in job[j].todo : posted[j][v] = <<>>
      /\ \A v \in job[j].webhooks \ job[j].todo : v # w => Offered(j, v)
      /\ posted[j][w] \in Seq(BOOLEAN) /\ Len(posted[j][w]) = n
      /\ posted[j][w][n] = job[j].success /\ FailedBefore(posted[j][w], n)
  BY <1>1, <1>2, TypeIsEnough DEF IInv, RunOK, Running
<1>9. Bounded(j)'
  BY <1>7 DEF IInv, Bounded
<1>10. \A v \in Webhooks : Offered(j, v)' = Offered(j, v)
  BY <1>7 DEF Offered
<1>11. RunOK(j)'
  <2>1. CASE x = GoOn(j, job[j].todo) /\ (job[j].success \/ n = MaxAttempts)
    <3>1. Offered(j, w)
      BY <2>1, <1>2, <1>8 DEF Offered, Last
    <3>2. x.at = "next" /\ x.webhooks = job[j].webhooks /\ x.todo = job[j].todo
      BY <2>1 DEF GoOn
    <3> HIDE DEF x
    <3> QED
      BY <3>1, <3>2, <1>2, <1>7, <1>8, <1>10 DEF RunOK, Running
  <2>2. CASE x = Again(j, n + 1) /\ ~job[j].success /\ n + 1 \in 1 .. MaxAttempts
    <3>1. /\ x.at = "send" /\ x.webhooks = job[j].webhooks /\ x.todo = job[j].todo
          /\ x.to = w /\ x.attempt = n + 1
      BY <2>2 DEF Again, Offer
    <3>2. FailedBefore(posted[j][w], n + 1)
      BY <2>2, <1>2, <1>8 DEF FailedBefore
    <3> HIDE DEF x
    <3> QED
      BY <3>1, <3>2, <1>2, <1>7, <1>8, <1>10 DEF RunOK, Running
  <2> QED
    BY <1>3, <2>1, <2>2
<1>12. \A k \in Jobs \ {j} : RunOK(k)' /\ Bounded(k)'
  <2> HIDE DEF x, d
  <2> QED
    BY <1>1, Untouched DEF IInv, TypeOK
<1> QED
  BY <1>6, <1>9, <1>11, <1>12 DEF IInv

LEMMA StepOK == IInv /\ [Next]_vars => IInv'
<1> SUFFICES ASSUME IInv, [Next]_vars PROVE IInv'
  OBVIOUS
<1>1. ASSUME NEW j \in Jobs, Start(j) PROVE IInv'
  BY <1>1, StartOK
<1>2. ASSUME NEW j \in Jobs, NEW w \in Webhooks, NextWebhook(j, w) PROVE IInv'
  BY <1>2, NextWebhookOK
<1>3. ASSUME NEW j \in Jobs, NEW success \in BOOLEAN, Send(j, success) PROVE IInv'
  BY <1>3, SendOK
<1>4. ASSUME NEW j \in Jobs, Flush(j) PROVE IInv'
  BY <1>4, FlushOK
<1>5. ASSUME NEW j \in Jobs, FlushFails(j) \/ TimeOut(j) PROVE IInv'
  BY <1>5, Stops DEF FlushFails, TimeOut
<1>6. ASSUME NEW j \in Jobs, Finish(j) PROVE IInv'
  BY <1>6, Stops DEF Finish
<1>7. ASSUME NEW j \in Jobs, Crash(j) PROVE IInv'
  BY <1>7, Stops DEF Crash
<1>8. ASSUME NEW w \in Webhooks, Pause(w) \/ Resume(w) \/ Delete(w) PROVE IInv'
  <2>1. hook' \in [Webhooks -> HookState] /\ log' \subseteq log
    BY <1>8 DEF Pause, Resume, Delete, IInv, TypeOK, HookState
  <2>2. UNCHANGED <<job, tries, session, posted>>
    BY <1>8 DEF Pause, Resume, Delete
  <2> QED
    BY <2>1, <2>2, Administration
<1>9. CASE UNCHANGED vars
  <2>1. hook' \in [Webhooks -> HookState] /\ log' \subseteq log
    BY <1>9 DEF vars, IInv, TypeOK
  <2>2. UNCHANGED <<job, tries, session, posted>>
    BY <1>9 DEF vars
  <2> QED
    BY <2>1, <2>2, Administration
<1> QED
  BY <1>1, <1>2, <1>3, <1>4, <1>5, <1>6, <1>7, <1>8, <1>9 DEF Next, WorkerStep

LEMMA Invariance == Spec => []IInv
<1> QED
  BY InitOK, StepOK, PTL DEF Spec

-----------------------------------------------------------------------------
\* Every run, list and attempt has its type; no attempt is numbered beyond
\* MaxAttempts (send_with_retries) and no job is run too often (arq).
THEOREM TypeCorrect == Spec => []TypeOK
<1>1. IInv => TypeOK
  BY DEF IInv
<1> QED
  BY <1>1, Invariance, PTL

\* A run posts to a webhook at most MaxAttempts times and never again after
\* an answer that it took for a success.
THEOREM RetriesStop == Spec => []StopsAtSuccess
<1>1. IInv => StopsAtSuccess
  BY DEF IInv, Bounded, FailedBefore, StopsAtSuccess
<1> QED
  BY <1>1, Invariance, PTL

\* A run that comes to its end has offered the event to every webhook of its
\* list, whatever the others answered.
THEOREM NobodyBlocks == Spec => NoneIsBlocked
<1>1. ASSUME IInv, NEW j \in Jobs, Finish(j), NEW w \in job[j].webhooks PROVE Offered(j, w)
  BY <1>1 DEF IInv, Finish, RunOK, Running
<1>2. IInv => [\A j \in Jobs : Finish(j) => \A w \in job[j].webhooks : Offered(j, w)]_vars
  BY <1>1
<1> QED
  BY <1>2, Invariance, PTL DEF NoneIsBlocked

\* A webhook that is paused, with no run that has it on its list still to
\* post to, is left alone until it is resumed.
THEOREM PauseIsKept == Spec => PausedMeansQuiet
<1>1. ASSUME IInv, [Next]_vars, NEW w \in Webhooks, Quiet(w), hook'[w] # "active"
      PROVE  Quiet(w)'
  <2> SUFFICES ASSUME NEW j \in Jobs, Running(j)'
               PROVE  /\ w \notin job'[j].todo
                      /\ job'[j].at \in {"send", "flush"} => job'[j].to # w
    BY <1>1 DEF Quiet
  <2>1. CASE job'[j] = job[j]
    BY <2>1, <1>1 DEF Quiet, Running
  <2>2. CASE Start(j)
    BY <2>2, <1>1 DEF Start, Become, Quiet, Listed, IInv, TypeOK
  <2>3. ASSUME NEW v \in Webhooks, NextWebhook(j, v)
        PROVE  /\ w \notin job'[j].todo
               /\ job'[j].at \in {"send", "flush"} => job'[j].to # w
    BY <2>3, <1>1 DEF NextWebhook, Become, Offer, Quiet, Running, IInv, TypeOK
  <2>4. ASSUME NEW success \in BOOLEAN, Send(j, success)
        PROVE  /\ w \notin job'[j].todo
               /\ job'[j].at \in {"send", "flush"} => job'[j].to # w
    BY <2>4, <1>1 DEF Send, Become, Quiet, Running, IInv, TypeOK
  <2>5. CASE Flush(j)
    BY <2>5, <1>1 DEF Flush, Become, AfterAttempt, GoOn, Again, Offer, Quiet, Running, IInv, TypeOK
  <2>6. CASE FlushFails(j) \/ Finish(j) \/ TimeOut(j) \/ Crash(j)
    <3>1. job'[j].at \in {"queued", "done", "failed"}
      BY <2>6, <1>1 DEF FlushFails, Finish, TimeOut, Crash, Become, IInv, TypeOK
    <3> QED
      BY <3>1 DEF Running
  <2>7. ASSUME NEW k \in Jobs \ {j}, WorkerStep(k) \/ TimeOut(k) \/ Crash(k)
        PROVE  job'[j] = job[j]
    BY <2>7, <1>1 DEF WorkerStep, Start, NextWebhook, Send, Flush, FlushFails, Finish,
                      TimeOut, Crash, Become, IInv, TypeOK
  <2>8. ASSUME NEW v \in Webhooks, Pause(v) \/ Resume(v) \/ Delete(v) PROVE job'[j] = job[j]
    BY <2>8 DEF Pause, Resume, Delete
  <2>9. CASE UNCHANGED vars
    BY <2>9, <2>1 DEF vars
  <2> QED
    BY <1>1, <2>1, <2>2, <2>3, <2>4, <2>5, <2>6, <2>7, <2>8, <2>9 DEF Next, WorkerStep
<1>2. IInv /\ [Next]_vars
        => [\A w \in Webhooks : Quiet(w) /\ hook'[w] # "active" => Quiet(w)']_vars
  BY <1>1
<1> QED
  BY <1>2, Invariance, PTL DEF PausedMeansQuiet, Spec

=============================================================================
