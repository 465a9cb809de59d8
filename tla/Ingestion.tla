----------------------------- MODULE Ingestion ------------------------------
(***************************************************************************)
(* From track_event in an application to the table events: the SDK         *)
(* (SdkClient), the batch endpoint, and the partitions (EventStore), with  *)
(* a flag that is switched on the server while the application asks for    *)
(* it.                                                                     *)
(***************************************************************************)
EXTENDS SdkClient, EventStore

VARIABLES
    stored,         \* stored[e]: how many rows the event e has
    flag            \* what the server says of the flag

vars == <<sdkVars, storeVars, stored, flag>>

Init ==
    /\ SdkInit /\ StoreInit
    /\ stored = [e \in Events |-> 0]
    /\ flag \in BOOLEAN

\* The batch is stored; the answer may still be lost, which the SDK treats
\* like any other failure: it does not send again.
Deliver(t) ==
    /\ Sent(t) /\ SaveBatch
    /\ stored' = [e \in Events |-> stored[e] + (IF e \in sending[t] THEN 1 ELSE 0)]
    /\ UNCHANGED flag

Answer(t) == Evaluated(t, flag) /\ UNCHANGED <<storeVars, stored, flag>>

Switch == flag' = ~flag /\ UNCHANGED <<sdkVars, storeVars, stored>>

Application(t) ==
    \/ \E e \in Events : Track(t, e)
    \/ Flush(t) \/ Close(t) \/ GetFlag(t)

\* What a thread does that has begun something.
Continue(t) == Take(t) \/ NotSent(t) \/ DropEntry(t) \/ SetCache(t) \/ Default(t)

SdkStep ==
    \/ \E t \in Threads : Application(t)
    \/ \E t \in All : Continue(t)
    \/ Wake \/ Exit \/ Age

ServerStep ==
    \/ EnsurePartitions \/ MonthEnds
    \/ \E date \in MonthsAhead(First, MaxMonths + 5) : SaveDated(date)

Next ==
    \/ SdkStep /\ UNCHANGED <<storeVars, stored, flag>>
    \/ \E t \in All : Deliver(t)
    \/ \E t \in Threads : Answer(t)
    \/ Switch
    \/ ServerStep /\ UNCHANGED <<sdkVars, stored, flag>>

\* Threads that are scheduled again and again: a thread goes on with what it
\* has begun, POSTs end by their timeout, the flush thread sleeps for a while.
Progress(t) ==
    \/ Continue(t) /\ UNCHANGED <<storeVars, stored, flag>>
    \/ Deliver(t)

Fairness ==
    /\ \A t \in All : WF_vars(Progress(t))
    /\ WF_vars(Wake /\ UNCHANGED <<storeVars, stored, flag>>)

Spec == Init /\ [][Next]_vars /\ Fairness

-----------------------------------------------------------------------------
One(b) == IF b THEN 1 ELSE 0

\* An event is in the buffer, in one batch under way, given up, or stored,
\* and stored once: however threads track, flush and close, no event is sent
\* twice, and none disappears without its batch having failed or the process
\* having ended.
EventsAccounted ==
    \A e \in Events :
        Cardinality({t \in All : e \in sending[t]}) + One(e \in buffer) + One(e \in gone) + stored[e]
          = One(e \in tracked)

\* The flush thread and the one that closes leave nothing behind: an event
\* that is tracked before close does not stay in the buffer.
BufferDrains == \A e \in Events : (e \in buffer /\ ~closed) ~> e \notin buffer

\* get_flag raises only when two threads have seen the same expired entry
\* before either has deleted it.
RaisesOnlyInRace == raised => raced

\* No thread has an answer from before the flag was switched off, and no
\* entry in the cache says that it is on.
Dark ==
    /\ ~flag
    /\ Live(cache) => ~cache.value
    /\ \A t \in Threads : at[t] = "set" => ~got[t]

\* A flag that is off and that the application has seen the last of stays
\* off in it until it is switched on; before that, an answer that comes late
\* may switch the application on again for a whole TTL.
OffStaysOff ==
    [][Dark /\ ~flag' => /\ Dark'
                         /\ \A t \in Threads : shown'[t] => shown[t]]_vars

\* "Data are not lost even if the partition of a month is not there yet", but
\* nothing ever leaves events_default, and rows in it keep the job from
\* creating partitions: there are none as long as no month and no date of an
\* event is more than three months after the last success of the job.
PartitionsAhead ==
    ~late /\ ~astray => inDefault = {} /\ \E p \in partitions : Takes(p, now)

-----------------------------------------------------------------------------
(* What the pipeline promises an application, and that it keeps the promise. *)

waiting == buffer \cup UNION {sending[t] : t \in All}

Delivery == INSTANCE EventDelivery

\* From track_event over the lock, the POST and the transaction of the batch
\* to the table: an event waits, and then its batch is stored, once and as a
\* whole, or given up; what is given up is not stored later, whichever thread
\* flushes, and the events of a process that ends are given up.
DeliverySpec == Delivery!Spec

=============================================================================
