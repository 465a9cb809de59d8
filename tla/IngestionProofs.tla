--------------------------- MODULE IngestionProofs ---------------------------
(***************************************************************************)
(* What holds of the SDK and the batch endpoint for any number of threads  *)
(* and events, any size of the batches and any calendar.                   *)
(*                                                                         *)
(* An event is in one place (Once) because a batch belongs to the thread   *)
(* that is posting it (BatchesOK).  The cache needs that, until two        *)
(* threads have met at it, one thread at most is about to delete an entry, *)
(* and there is one to delete (CacheOK).                                   *)
(***************************************************************************)
EXTENDS Ingestion, FiniteSetTheorems, WellFoundedInduction, TLAPS

Entry == [value : BOOLEAN, live : BOOLEAN]

Places == {"idle", "flush", "post", "drop", "ask", "set", "ended"}

TypeOK ==
    /\ at \in [All -> Places \cup {"sleep", "check"}]
    /\ \A t \in Threads : at[t] \in Places
    /\ at[Timer] \in {"sleep", "check", "flush", "post", "ended"}
    /\ buffer \subseteq Events /\ tracked \subseteq Events /\ gone \subseteq Events
    /\ sending \in [All -> SUBSET Events]
    /\ cache \in Entry \cup {None}
    /\ got \in [Threads -> BOOLEAN] /\ shown \in [Threads -> BOOLEAN]
    /\ raised \in BOOLEAN /\ raced \in BOOLEAN
    /\ stored \in [Events -> Nat] /\ flag \in BOOLEAN

BatchesOK == \A t \in All : sending[t] # {} => at[t] = "post"

UnderWay(e) == \E t \in All : e \in sending[t]

Once(e) ==
    /\ stored[e] \in {0, 1}
    /\ \A s, t \in All : e \in sending[s] /\ e \in sending[t] => s = t
    /\ e \in buffer => ~UnderWay(e) /\ e \notin gone /\ stored[e] = 0
    /\ e \in gone => ~UnderWay(e) /\ stored[e] = 0
    /\ stored[e] = 1 => ~UnderWay(e)
    /\ e \in tracked <=> (e \in buffer \/ e \in gone \/ stored[e] = 1 \/ UnderWay(e))

CacheOK ==
    /\ raised => raced
    /\ ~raced => /\ \A s, t \in Threads : at[s] = "drop" /\ at[t] = "drop" => s = t
                 /\ \A t \in Threads : at[t] = "drop" => cache # None

IInv ==
    /\ TypeOK
    /\ BatchesOK
    /\ \A e \in Events : Once(e)
    /\ CacheOK

-----------------------------------------------------------------------------
LEMMA InitOK == Init => IInv
<1> SUFFICES ASSUME Init PROVE IInv
  OBVIOUS
<1> USE SdkAssumption DEF Init, SdkInit, All
<1>1. TypeOK
  BY DEF TypeOK, Places
<1>2. BatchesOK /\ \A e \in Events : Once(e)
  BY DEF BatchesOK, Once, UnderWay
<1>3. CacheOK
  BY DEF CacheOK
<1> QED
  BY <1>1, <1>2, <1>3 DEF IInv

-----------------------------------------------------------------------------
(* The way of the events.                                                    *)

LEMMA EventsStay ==
    ASSUME BatchesOK, \A e \in Events : Once(e), UNCHANGED <<buffer, sending, tracked, gone, stored>>,
           \A t \in All : at[t] = "post" => at'[t] = "post"
    PROVE  BatchesOK' /\ \A e \in Events : Once(e)'
  BY DEF BatchesOK, Once, UnderWay

LEMMA TrackOK ==
    ASSUME IInv, NEW t \in Threads, NEW e \in Events, Track(t, e), UNCHANGED <<stored, flag>>
    PROVE  IInv'
<1>0. TypeOK /\ BatchesOK /\ CacheOK /\ t \in All /\ t # Timer
  BY SdkAssumption DEF IInv, All
<1>1. /\ at[t] = "idle" /\ at'[t] \in {"idle", "flush"}
      /\ at' \in [All -> Places \cup {"sleep", "check"}]
      /\ \A s \in All \ {t} : at'[s] = at[s]
  BY <1>0 DEF Track, Goes, TypeOK, Places
<1>2. TypeOK'
  BY <1>0, <1>1, SdkAssumption DEF Track, cacheVars, TypeOK, Places, All
<1>3. BatchesOK'
  BY <1>0, <1>1 DEF Track, BatchesOK
<1>4. ASSUME NEW f \in Events PROVE Once(f)'
  <2>1. Once(f) /\ (UnderWay(f)' <=> UnderWay(f)) /\ UNCHANGED <<sending, gone, stored>>
    BY DEF IInv, Track, UnderWay
  <2>2. (f \in buffer' <=> f \in buffer \/ f = e) /\ (f \in tracked' <=> f \in tracked \/ f = e)
        /\ e \notin tracked
    BY DEF Track
  <2> QED
    BY <2>1, <2>2 DEF Once
<1>5. CacheOK'
  BY <1>0, <1>1 DEF Track, cacheVars, CacheOK, All
<1> QED
  BY <1>2, <1>3, <1>4, <1>5 DEF IInv

LEMMA TakeOK ==
    ASSUME IInv, NEW t \in All, Take(t), UNCHANGED <<stored, flag>>
    PROVE  IInv'
<1>0. TypeOK /\ BatchesOK /\ CacheOK
  BY DEF IInv
<1>1. /\ at[t] = "flush" /\ at'[t] \in {"post", AfterFlush(t)}
      /\ at' \in [All -> Places \cup {"sleep", "check"}]
      /\ \A s \in All \ {t} : at'[s] = at[s]
      /\ buffer # {} => at'[t] = "post"
  BY <1>0 DEF Take, Goes, TypeOK, Places, AfterFlush
<1>2. sending[t] = {} /\ sending'[t] = buffer /\ \A s \in All \ {t} : sending'[s] = sending[s]
  BY <1>0, <1>1 DEF Take, TypeOK, BatchesOK
<1>3. TypeOK'
  BY <1>0, <1>1, SdkAssumption DEF Take, cacheVars, TypeOK, Places, All, AfterFlush
<1>4. BatchesOK'
  BY <1>0, <1>1, <1>2 DEF BatchesOK
<1>5. ASSUME NEW e \in Events PROVE Once(e)'
  <2>1. Once(e) /\ buffer' = {} /\ UNCHANGED <<tracked, gone, stored>>
    BY DEF IInv, Take
  <2>2. UnderWay(e)' <=> UnderWay(e) \/ e \in buffer
    BY <1>2 DEF UnderWay
  <2> QED
    BY <1>2, <2>1, <2>2 DEF Once, UnderWay
<1>6. CacheOK'
  BY <1>0, <1>1, SdkAssumption DEF Take, cacheVars, CacheOK, All, AfterFlush
<1> QED
  BY <1>3, <1>4, <1>5, <1>6 DEF IInv

\* The end of a POST, however it goes.
LEMMA PostEnds ==
    ASSUME IInv, NEW t \in All, at[t] = "post",
           sending' = [sending EXCEPT ![t] = {}], Goes(t, AfterFlush(t)),
           UNCHANGED <<buffer, tracked, closed, cacheVars, flag>>,
           \/ UNCHANGED stored /\ gone' = gone \cup sending[t]
           \/ /\ stored' = [e \in Events |-> stored[e] + (IF e \in sending[t] THEN 1 ELSE 0)]
              /\ UNCHANGED gone
    PROVE  IInv'
<1>0. TypeOK /\ BatchesOK /\ CacheOK
  BY DEF IInv
<1>1. /\ at'[t] = AfterFlush(t)
      /\ at' \in [All -> Places \cup {"sleep", "check"}]
      /\ \A s \in All \ {t} : at'[s] = at[s]
  BY <1>0 DEF Goes, TypeOK, Places, AfterFlush
<1>2. sending'[t] = {} /\ \A s \in All \ {t} : sending'[s] = sending[s]
  BY <1>0 DEF TypeOK
<1>3. \A e \in Events : stored'[e] \in Nat
  BY <1>0 DEF TypeOK
<1>4. TypeOK'
  <2>1. stored' \in [Events -> Nat] /\ gone' \subseteq Events
    BY <1>0, <1>3 DEF TypeOK
  <2> QED
    BY <1>0, <1>1, <2>1, SdkAssumption DEF cacheVars, TypeOK, Places, All, AfterFlush
<1>5. BatchesOK'
  BY <1>0, <1>1, <1>2 DEF BatchesOK
<1>6. ASSUME NEW e \in Events PROVE Once(e)'
  <2>0. Once(e)
    BY DEF IInv
  <2>1. CASE e \in sending[t]
    <3>1. ~UnderWay(e)' /\ UnderWay(e) /\ e \notin buffer /\ e \notin gone /\ stored[e] = 0
      BY <1>2, <2>0, <2>1 DEF Once, UnderWay
    <3>2. (e \in gone' /\ stored'[e] = 0) \/ (e \notin gone' /\ stored'[e] = 1)
      BY <2>1, <3>1
    <3> QED
      BY <2>0, <3>1, <3>2 DEF Once, UnderWay
  <2>2. CASE e \notin sending[t]
    <3>1. UnderWay(e)' <=> UnderWay(e)
      BY <1>2, <2>2 DEF UnderWay
    <3>2. stored'[e] = stored[e] /\ (e \in gone' <=> e \in gone)
      BY <1>0, <2>2 DEF TypeOK
    <3> QED
      BY <1>2, <2>0, <3>1, <3>2 DEF Once, UnderWay
  <2> QED
    BY <2>1, <2>2
<1>7. CacheOK'
  BY <1>0, <1>1, SdkAssumption DEF cacheVars, CacheOK, All, AfterFlush
<1> QED
  BY <1>4, <1>5, <1>6, <1>7 DEF IInv

LEMMA ExitOK == ASSUME IInv, Exit, UNCHANGED <<stored, flag>> PROVE IInv'
<1>0. TypeOK /\ BatchesOK /\ CacheOK
  BY DEF IInv
<1>1. \A t \in Threads : sending[t] = {}
  BY <1>0, SdkAssumption DEF Exit, BatchesOK, All
<1>2. TypeOK'
  BY <1>0 DEF Exit, cacheVars, TypeOK, Places, All
<1>3. BatchesOK'
  BY DEF Exit, BatchesOK
<1>4. ASSUME NEW e \in Events PROVE Once(e)'
  <2>1. Once(e) /\ (UnderWay(e) <=> e \in sending[Timer])
    BY <1>1 DEF IInv, UnderWay, All
  <2>2. ~UnderWay(e)' /\ e \notin buffer'
    BY DEF Exit, UnderWay
  <2>3. e \in gone' <=> e \in gone \/ e \in buffer \/ e \in sending[Timer]
    BY DEF Exit
  <2> QED
    BY <2>1, <2>2, <2>3 DEF Once, Exit, UnderWay
<1>5. CacheOK'
  BY <1>0 DEF Exit, cacheVars, CacheOK, All
<1> QED
  BY <1>2, <1>3, <1>4, <1>5 DEF IInv

-----------------------------------------------------------------------------
(* The rest of the application, and the server.                              *)

\* A thread goes elsewhere, and neither events nor the cache are touched.
LEMMA Moves ==
    ASSUME IInv, NEW t \in All, NEW where, Goes(t, where), at[t] # "post",
           where \notin {"drop", "post"},
           IF t = Timer THEN where \in {"sleep", "check", "flush", "ended"} ELSE where \in Places,
           UNCHANGED <<buffer, sending, tracked, gone, cache, raised, raced, stored>>,
           got' \in [Threads -> BOOLEAN], shown' \in [Threads -> BOOLEAN], flag' \in BOOLEAN
    PROVE  IInv'
<1>0. TypeOK /\ BatchesOK /\ CacheOK
  BY DEF IInv
<1>1. /\ at'[t] = where /\ at' \in [All -> Places \cup {"sleep", "check"}]
      /\ \A s \in All \ {t} : at'[s] = at[s]
  BY <1>0 DEF Goes, TypeOK, Places
<1>2. TypeOK'
  BY <1>0, <1>1, SdkAssumption DEF TypeOK, Places, All
<1>3. BatchesOK' /\ \A e \in Events : Once(e)'
  BY <1>0, <1>1, EventsStay DEF IInv
<1>4. CacheOK'
  BY <1>0, <1>1, SdkAssumption DEF CacheOK, All
<1> QED
  BY <1>2, <1>3, <1>4 DEF IInv

LEMMA FlushOK ==
    ASSUME IInv, UNCHANGED <<stored, flag>>,
           \/ \E t \in Threads : Flush(t) \/ Close(t) \/ Default(t)
           \/ Wake
    PROVE  IInv'
<1>0. TypeOK /\ \A t \in Threads : t \in All /\ t # Timer
  BY SdkAssumption DEF IInv, All
<1>1. ASSUME NEW t \in Threads, Flush(t) \/ Close(t) \/ Default(t) PROVE IInv'
  <2>1. PICK where \in {"flush", "idle"} : Goes(t, where)
    BY <1>1 DEF Flush, Close, Default
  <2>2. /\ at[t] # "post" /\ UNCHANGED <<buffer, sending, tracked, gone, cache, raised, raced, got>>
        /\ shown' \in [Threads -> BOOLEAN]
    BY <1>0, <1>1 DEF Flush, Close, Default, bufferVars, cacheVars, TypeOK
  <2> QED
    BY <1>0, <2>1, <2>2, Moves DEF TypeOK, Places
<1>2. CASE Wake
  <2>1. PICK where \in {"ended", "sleep", "flush"} : Goes(Timer, where)
    BY <1>2 DEF Wake
  <2> QED
    BY <1>0, <1>2, <2>1, Moves DEF Wake, bufferVars, cacheVars, TypeOK, All
<1> QED
  BY <1>1, <1>2

LEMMA AnswerOK == ASSUME IInv, NEW t \in Threads, Answer(t) PROVE IInv'
<1>0. TypeOK /\ t \in All /\ t # Timer
  BY SdkAssumption DEF IInv, All
<1>1. Goes(t, "set") /\ at[t] # "post" /\ got' \in [Threads -> BOOLEAN]
  BY <1>0 DEF Answer, Evaluated, TypeOK
<1> QED
  BY <1>0, <1>1, Moves DEF Answer, Evaluated, bufferVars, TypeOK, Places

\* get_flag: with a live entry, without any, and with one that has expired.
LEMMA GetFlagOK == ASSUME IInv, NEW t \in Threads, GetFlag(t), UNCHANGED <<stored, flag>> PROVE IInv'
<1>0. TypeOK /\ CacheOK /\ t \in All /\ t # Timer /\ at[t] = "idle"
      /\ UNCHANGED <<buffer, sending, tracked, gone, cache, raised, got>>
  BY SdkAssumption DEF IInv, All, GetFlag, bufferVars
<1>1. CASE cache = None
  <2>1. Goes(t, "ask") /\ UNCHANGED <<shown, raced>>
    BY <1>1 DEF GetFlag, Live
  <2> QED
    BY <1>0, <2>1, Moves DEF TypeOK, Places
<1>2. CASE Live(cache)
  <2>1. UNCHANGED <<at, raced>> /\ shown' \in [Threads -> BOOLEAN]
    BY <1>0, <1>2 DEF GetFlag, Live, TypeOK, Entry
  <2>2. TypeOK' /\ CacheOK'
    BY <1>0, <2>1 DEF TypeOK, CacheOK
  <2>3. BatchesOK' /\ \A e \in Events : Once(e)'
    BY <1>0, <2>1, EventsStay DEF IInv
  <2> QED
    BY <2>2, <2>3 DEF IInv
<1>3. CASE cache # None /\ ~cache.live
  <2>1. /\ raced' = (raced \/ \E s \in Threads : at[s] = "drop")
        /\ Goes(t, "drop") /\ UNCHANGED shown
    BY <1>3 DEF GetFlag, Live
  <2>2. /\ at'[t] = "drop" /\ at' \in [All -> Places \cup {"sleep", "check"}]
        /\ \A s \in All \ {t} : at'[s] = at[s]
    BY <1>0, <2>1 DEF Goes, TypeOK, Places
  <2>3. TypeOK'
    BY <1>0, <2>1, <2>2, SdkAssumption DEF TypeOK, Places, All
  <2>4. CacheOK'
    BY <1>0, <1>3, <2>1, <2>2, SdkAssumption DEF CacheOK, All
  <2>5. BatchesOK' /\ \A e \in Events : Once(e)'
    BY <1>0, <2>2, EventsStay DEF IInv
  <2> QED
    BY <2>3, <2>4, <2>5 DEF IInv
<1> QED
  BY <1>0, <1>1, <1>2, <1>3 DEF GetFlag

\* An entry is deleted, or a new one is there.
LEMMA CacheChanges ==
    ASSUME IInv, NEW t \in Threads, DropEntry(t) \/ SetCache(t), UNCHANGED <<stored, flag>>
    PROVE  IInv'
<1>0. TypeOK /\ CacheOK /\ t \in All /\ t # Timer
      /\ UNCHANGED <<buffer, sending, tracked, gone, got, raced>>
  BY SdkAssumption DEF IInv, All, DropEntry, SetCache, bufferVars
<1>1. PICK where \in {"idle", "ask"} : Goes(t, where)
  BY DEF DropEntry, SetCache
<1>2. /\ at'[t] = where /\ at' \in [All -> Places \cup {"sleep", "check"}]
      /\ \A s \in All \ {t} : at'[s] = at[s]
  BY <1>0, <1>1 DEF Goes, TypeOK, Places
<1>3. [value |-> got[t], live |-> TRUE] \in Entry
  BY <1>0 DEF TypeOK, Entry
<1>4. /\ cache' \in Entry \cup {None} /\ raised' \in BOOLEAN /\ shown' \in [Threads -> BOOLEAN]
      /\ at[t] \in {"drop", "set"}
  BY <1>0, <1>3 DEF DropEntry, SetCache, TypeOK
<1>5. TypeOK'
  BY <1>0, <1>2, <1>4, SdkAssumption DEF TypeOK, Places, All
<1>6. BatchesOK' /\ \A e \in Events : Once(e)'
  BY <1>0, <1>2, <1>4, EventsStay DEF IInv
<1>7. ASSUME DropEntry(t) PROVE CacheOK'
  <2>1. at[t] = "drop" /\ (raised' => raised \/ cache = None)
    BY <1>7 DEF DropEntry
  <2>2. raised' => raced'
    BY <1>0, <2>1 DEF CacheOK
  <2>3. ~raced' => \A s \in Threads : at'[s] # "drop"
    BY <1>0, <1>2, <2>1, SdkAssumption DEF CacheOK, All
  <2> QED
    BY <2>2, <2>3 DEF CacheOK
<1>8. ASSUME SetCache(t) PROVE CacheOK'
  <2>1. cache' # None /\ raised' = raised
    BY <1>3, <1>8, SdkAssumption DEF SetCache, Entry
  <2> QED
    BY <1>0, <1>2, <2>1, SdkAssumption DEF CacheOK, All
<1>9. CacheOK'
  BY <1>7, <1>8
<1> QED
  BY <1>5, <1>6, <1>9 DEF IInv

\* The clock, the switch of the flag, the server's own jobs, and stuttering.
LEMMA OutsideOK ==
    ASSUME IInv,
           \/ Age /\ UNCHANGED <<stored, flag>>
           \/ UNCHANGED <<sdkVars, stored>> /\ flag' \in {flag, ~flag}
    PROVE  IInv'
<1>0. TypeOK /\ CacheOK /\ UNCHANGED <<at, buffer, sending, tracked, gone, got, shown, raised, raced, stored>>
  BY DEF IInv, Age, sdkVars, bufferVars, cacheVars
<1>1. cache' \in Entry \cup {None} /\ (cache # None => cache' # None) /\ flag' \in BOOLEAN
  <2>1. CASE Age /\ UNCHANGED flag
    <3>1. cache \in Entry /\ cache' = [cache EXCEPT !.live = FALSE]
      BY <1>0, <2>1 DEF Age, Live, TypeOK
    <3>2. cache' \in Entry
      BY <3>1 DEF Entry
    <3> QED
      BY <1>0, <2>1, <3>2, SdkAssumption DEF Entry, TypeOK
  <2>2. CASE UNCHANGED sdkVars /\ flag' \in {flag, ~flag}
    BY <1>0, <2>2 DEF sdkVars, cacheVars, TypeOK
  <2> QED
    BY <2>1, <2>2
<1>2. TypeOK' /\ CacheOK'
  BY <1>0, <1>1 DEF TypeOK, CacheOK
<1>3. BatchesOK' /\ \A e \in Events : Once(e)'
  BY <1>0, EventsStay DEF IInv
<1> QED
  BY <1>2, <1>3 DEF IInv

-----------------------------------------------------------------------------
LEMMA StepOK == ASSUME IInv, [Next]_vars PROVE IInv'
<1>0. TypeOK
  BY DEF IInv
<1>1. CASE SdkStep /\ UNCHANGED <<storeVars, stored, flag>>
  <2>1. ASSUME NEW t \in Threads, Application(t) PROVE IInv'
    BY <1>1, <2>1, TrackOK, FlushOK, GetFlagOK DEF Application
  <2>2. ASSUME NEW t \in All, Continue(t) PROVE IInv'
    <3>1. CASE Take(t)
      BY <1>1, <3>1, TakeOK
    <3>2. CASE NotSent(t)
      BY <1>1, <3>2, PostEnds DEF NotSent
    <3>3. CASE DropEntry(t) \/ SetCache(t) \/ Default(t)
      <4>1. t \in Threads
        BY <1>0, <3>3 DEF TypeOK, All, DropEntry, SetCache, Default
      <4> QED
        BY <1>1, <3>3, <4>1, CacheChanges, FlushOK
    <3> QED
      BY <2>2, <3>1, <3>2, <3>3 DEF Continue
  <2>3. CASE Wake
    BY <1>1, <2>3, FlushOK
  <2>4. CASE Exit
    BY <1>1, <2>4, ExitOK
  <2>5. CASE Age
    BY <1>1, <2>5, OutsideOK
  <2> QED
    BY <1>1, <2>1, <2>2, <2>3, <2>4, <2>5 DEF SdkStep
<1>2. ASSUME NEW t \in All, Deliver(t) PROVE IInv'
  BY <1>2, PostEnds DEF Deliver, Sent
<1>3. ASSUME NEW t \in Threads, Answer(t) PROVE IInv'
  BY <1>3, AnswerOK
<1>4. CASE Switch \/ (ServerStep /\ UNCHANGED <<sdkVars, stored, flag>>) \/ UNCHANGED vars
  BY <1>4, OutsideOK DEF Switch, vars
<1> QED
  BY <1>1, <1>2, <1>3, <1>4 DEF Next

LEMMA Inductive == Spec => []IInv
  BY InitOK, StepOK, PTL DEF Spec

LEMMA OnceCounts == ASSUME IInv PROVE EventsAccounted
<1> SUFFICES ASSUME NEW e \in Events
             PROVE  Cardinality({t \in All : e \in sending[t]})
                      + One(e \in buffer) + One(e \in gone) + stored[e] = One(e \in tracked)
  BY DEF EventsAccounted
<1>0. Once(e)
  BY DEF IInv
<1>1. CASE UnderWay(e)
  <2>1. PICK t \in All : e \in sending[t]
    BY <1>1 DEF UnderWay
  <2>2. {s \in All : e \in sending[s]} = {t}
    BY <1>0, <2>1 DEF Once
  <2>3. Cardinality({s \in All : e \in sending[s]}) = 1
    BY <2>2, FS_Singleton
  <2>4. e \notin buffer /\ e \notin gone /\ stored[e] = 0 /\ e \in tracked
    BY <1>0, <1>1 DEF Once
  <2> QED
    BY <2>3, <2>4 DEF One
<1>2. CASE ~UnderWay(e)
  <2>1. {s \in All : e \in sending[s]} = {}
    BY <1>2 DEF UnderWay
  <2>2. Cardinality({s \in All : e \in sending[s]}) = 0
    BY <2>1, FS_EmptySet
  <2> QED
    BY <1>0, <1>2, <2>2 DEF Once, One
<1> QED
  BY <1>1, <1>2

\* Tracked events are in the buffer, in one batch, given up or stored, and
\* stored once, whoever tracks, flushes and closes at the same time: _flush
\* copies and clears under one lock, and no batch is sent again.
THEOREM EventsAreAccounted == Spec => []EventsAccounted
  BY Inductive, OnceCounts, PTL

\* get_flag raises only after two threads have both seen the entry expired
\* and not yet deleted (the unguarded del in get of cache.py).
THEOREM RaisesInRaceOnly == Spec => []RaisesOnlyInRace
<1>1. IInv => RaisesOnlyInRace
  BY DEF IInv, CacheOK, RaisesOnlyInRace
<1> QED
  BY <1>1, Inductive, PTL

-----------------------------------------------------------------------------
(* The refinement: every step of the threads and of the server is one of     *)
(* EventDelivery or leaves its variables alone.                              *)

LEMMA WaitingIs == \A e : e \in waiting <=> e \in buffer \/ UnderWay(e)
  BY DEF waiting, UnderWay

\* Batches that nobody else carries leave with their POST.
LEMMA BatchLeaves ==
    ASSUME IInv, NEW t \in All, at[t] = "post",
           sending' = [sending EXCEPT ![t] = {}], UNCHANGED buffer
    PROVE  sending[t] \in SUBSET waiting /\ waiting' = waiting \ sending[t]
<1>1. sending'[t] = {} /\ \A s \in All \ {t} : sending'[s] = sending[s]
  BY DEF IInv, TypeOK
<1>2. sending[t] \in SUBSET Events
  BY DEF IInv, TypeOK
<1>3. \A e \in sending[t] : UnderWay(e) /\ e \notin buffer /\ \A s \in All : e \in sending[s] => s = t
  BY <1>2 DEF IInv, Once, UnderWay
<1>4. \A e : UnderWay(e)' <=> UnderWay(e) /\ e \notin sending[t]
  BY <1>1, <1>3 DEF UnderWay
<1>5. \A e : e \in waiting' <=> e \in buffer' \/ UnderWay(e)'
  BY DEF waiting, UnderWay
<1> QED
  BY <1>3, <1>4, <1>5, WaitingIs

LEMMA TrackAccepts ==
    ASSUME IInv, NEW t \in Threads, NEW e \in Events, Track(t, e), UNCHANGED stored
    PROVE  Delivery!Accept(e)
<1>1. e \notin buffer /\ ~UnderWay(e) /\ e \notin gone /\ stored[e] = 0
  BY DEF IInv, Track, Once
<1>2. waiting' = waiting \cup {e} /\ UNCHANGED <<stored, gone>>
  BY DEF Track, waiting
<1> QED
  BY <1>1, <1>2, WaitingIs DEF Delivery!Accept

\* What is taken from the buffer is under way.
LEMMA TakeKeepsWaiting ==
    ASSUME IInv, NEW t \in All, Take(t) PROVE waiting' = waiting /\ gone' = gone
<1>1. sending[t] = {} /\ sending'[t] = buffer /\ \A s \in All \ {t} : sending'[s] = sending[s]
  BY DEF IInv, Take, TypeOK, BatchesOK
<1>2. buffer' = {} /\ gone' = gone
  BY DEF Take
<1>3. \A e : UnderWay(e)' <=> UnderWay(e) \/ e \in buffer
  BY <1>1 DEF UnderWay
<1>4. \A e : e \in waiting' <=> e \in buffer' \/ UnderWay(e)'
  BY DEF waiting, UnderWay
<1> QED
  BY <1>2, <1>3, <1>4, WaitingIs

LEMMA DeliverStores ==
    ASSUME IInv, NEW t \in All, Deliver(t)
    PROVE  \E batch \in SUBSET waiting : Delivery!Store(batch)
<1>1. sending[t] \in SUBSET waiting /\ waiting' = waiting \ sending[t]
  BY BatchLeaves DEF Deliver, Sent
<1>2. \A e \in Events : e \in sending[t] => stored[e] = 0
  BY DEF IInv, Once, UnderWay
<1>3. \A e \in Events : stored[e] + (IF e \in sending[t] THEN 1 ELSE 0) = IF e \in sending[t] THEN 1 ELSE stored[e]
  BY <1>2 DEF IInv, TypeOK
<1>4. stored' = [e \in Events |-> IF e \in sending[t] THEN 1 ELSE stored[e]]
  BY <1>3 DEF Deliver
<1>5. gone' = gone
  BY DEF Deliver, Sent
<1> QED
  BY <1>1, <1>4, <1>5 DEF Delivery!Store

LEMMA NotSentGivesUp ==
    ASSUME IInv, NEW t \in All, NotSent(t), UNCHANGED stored
    PROVE  \E batch \in SUBSET waiting : Delivery!GiveUp(batch)
<1>1. sending[t] \in SUBSET waiting /\ waiting' = waiting \ sending[t]
  BY BatchLeaves DEF NotSent
<1> QED
  BY <1>1 DEF NotSent, Delivery!GiveUp

LEMMA ExitGivesUp ==
    ASSUME IInv, Exit, UNCHANGED stored
    PROVE  \E batch \in SUBSET waiting : Delivery!GiveUp(batch)
<1>1. \A t \in Threads : sending[t] = {}
  BY SdkAssumption DEF IInv, Exit, BatchesOK, All
<1>2. waiting = buffer \cup sending[Timer]
  BY <1>1 DEF waiting, All
<1>3. waiting' = {} /\ gone' = gone \cup waiting
  BY <1>2 DEF Exit, waiting
<1> QED
  BY <1>3 DEF Delivery!GiveUp

LEMMA StepDelivers == ASSUME IInv, [Next]_vars PROVE [Delivery!Next]_(Delivery!vars)
<1>0. ASSUME UNCHANGED <<buffer, sending, gone, stored>> PROVE UNCHANGED Delivery!vars
  BY <1>0 DEF Delivery!vars, waiting
<1>1. CASE SdkStep /\ UNCHANGED <<storeVars, stored, flag>>
  <2>1. ASSUME NEW t \in Threads, NEW e \in Events, Track(t, e) PROVE Delivery!Next
    BY <1>1, <2>1, TrackAccepts DEF Delivery!Next
  <2>2. ASSUME NEW t \in All, Take(t) PROVE UNCHANGED Delivery!vars
    BY <1>1, <2>2, TakeKeepsWaiting DEF Delivery!vars
  <2>3. ASSUME NEW t \in All, NotSent(t) PROVE Delivery!Next
    BY <1>1, <2>3, NotSentGivesUp DEF Delivery!Next
  <2>4. CASE Exit
    BY <1>1, <2>4, ExitGivesUp DEF Delivery!Next
  <2>5. ASSUME NEW t \in All,
               Flush(t) \/ Close(t) \/ GetFlag(t) \/ DropEntry(t) \/ SetCache(t) \/ Default(t)
        PROVE  UNCHANGED <<buffer, sending, gone>>
    BY <2>5 DEF Flush, Close, GetFlag, DropEntry, SetCache, Default, bufferVars
  <2>6. CASE Wake \/ Age
    BY <1>0, <1>1, <2>6 DEF Wake, Age, bufferVars
  <2>7. Threads \subseteq All
    BY DEF All
  <2> QED
    BY <1>0, <1>1, <2>1, <2>2, <2>3, <2>4, <2>5, <2>6, <2>7 DEF SdkStep, Application, Continue
<1>2. ASSUME NEW t \in All, Deliver(t) PROVE Delivery!Next
  BY <1>2, DeliverStores DEF Delivery!Next
<1>3. ASSUME NEW t \in Threads, Answer(t) PROVE UNCHANGED <<buffer, sending, gone, stored>>
  BY <1>3 DEF Answer, Evaluated, bufferVars
<1>4. CASE Switch \/ (ServerStep /\ UNCHANGED <<sdkVars, stored, flag>>) \/ UNCHANGED vars
  BY <1>0, <1>4 DEF Switch, vars, sdkVars, bufferVars
<1> QED
  BY <1>0, <1>1, <1>2, <1>3, <1>4 DEF Next

\* Threads, locks, POSTs and transactions implement the pipeline that stores
\* a batch of waiting events, once and as a whole, or gives it up (_flush,
\* save_events_batch).
THEOREM ImplementsDelivery == Spec => DeliverySpec
<1>1. Init => Delivery!Init
  BY SdkAssumption DEF Init, SdkInit, Delivery!Init, waiting
<1>2. IInv /\ [Next]_vars => [Delivery!Next]_(Delivery!vars)
  BY StepDelivers
<1> QED
  BY <1>1, <1>2, Inductive, PTL DEF Spec, DeliverySpec, Delivery!Spec

-----------------------------------------------------------------------------
\* With the flag off, no answer and no entry says that it is on, and the step
\* does not switch it.
LEMMA DarkKept ==
    ASSUME IInv, Dark, ~flag', [Next]_vars
    PROVE  Dark' /\ \A t \in Threads : shown'[t] => shown[t]
<1>0. TypeOK /\ (~flag) /\ (Live(cache) => ~cache.value) /\ \A t \in Threads : at[t] = "set" => ~got[t]
  BY DEF IInv, Dark
<1>1. ASSUME UNCHANGED <<cache, got, shown>>,
             \A t \in Threads : at'[t] = "set" => at[t] = "set"
      PROVE  Dark' /\ \A t \in Threads : shown'[t] => shown[t]
  BY <1>0, <1>1 DEF Dark, Live
<1>2. ASSUME NEW t \in All,
             \/ \E e \in Events : Track(t, e)
             \/ Flush(t) \/ Close(t) \/ Take(t) \/ NotSent(t) \/ Sent(t)
      PROVE  Dark' /\ \A s \in Threads : shown'[s] => shown[s]
  <2>1. PICK where : where # "set" /\ Goes(t, where)
    BY <1>2 DEF Track, Flush, Close, Take, NotSent, Sent, AfterFlush
  <2>2. \A s \in Threads : at'[s] = "set" => at[s] = "set"
    BY <1>0, <2>1 DEF Goes, TypeOK, All
  <2> QED
    BY <1>1, <1>2, <2>2 DEF Track, Flush, Close, Take, NotSent, Sent, cacheVars
<1>3. ASSUME NEW t \in Threads, GetFlag(t)
      PROVE  Dark' /\ \A s \in Threads : shown'[s] => shown[s]
  <2>1. \A s \in Threads : at'[s] = "set" => at[s] = "set"
    BY <1>0, <1>3 DEF GetFlag, Goes, TypeOK, All
  <2>2. \A s \in Threads : shown'[s] => shown[s]
    BY <1>0, <1>3 DEF GetFlag, TypeOK
  <2> QED
    BY <1>0, <1>3, <2>1, <2>2 DEF GetFlag, Dark, Live
<1>4. ASSUME NEW t \in Threads, DropEntry(t) \/ Default(t)
      PROVE  Dark' /\ \A s \in Threads : shown'[s] => shown[s]
  <2>1. \A s \in Threads : at'[s] = "set" => at[s] = "set"
    BY <1>0, <1>4 DEF DropEntry, Default, Goes, TypeOK, All
  <2>2. \A s \in Threads : shown'[s] => shown[s]
    BY <1>0, <1>4 DEF DropEntry, Default, TypeOK
  <2>3. cache' \in {cache, None} /\ got' = got
    BY <1>4 DEF DropEntry, Default
  <2> QED
    BY <1>0, <2>1, <2>2, <2>3 DEF Dark, Live
<1>5. ASSUME NEW t \in Threads, SetCache(t)
      PROVE  Dark' /\ \A s \in Threads : shown'[s] => shown[s]
  <2>1. ~got[t] /\ cache'.value = got[t]
    BY <1>0, <1>5 DEF SetCache
  <2>2. \A s \in Threads : at'[s] = "set" => at[s] = "set"
    BY <1>0, <1>5 DEF SetCache, Goes, TypeOK, All
  <2>3. \A s \in Threads : shown'[s] => shown[s]
    BY <1>0, <1>5, <2>1 DEF SetCache, TypeOK
  <2> QED
    BY <1>0, <1>5, <2>1, <2>2, <2>3 DEF SetCache, Dark, Live
<1>6. ASSUME NEW t \in Threads, Answer(t)
      PROVE  Dark' /\ \A s \in Threads : shown'[s] => shown[s]
  <2>1. \A s \in Threads : at'[s] = "set" => s = t \/ at[s] = "set"
    BY <1>0, <1>6 DEF Answer, Evaluated, Goes, TypeOK, All
  <2>2. \A s \in Threads : got'[s] = IF s = t THEN FALSE ELSE got[s]
    BY <1>0, <1>6 DEF Answer, Evaluated, TypeOK
  <2> QED
    BY <1>0, <1>6, <2>1, <2>2 DEF Answer, Evaluated, Dark, Live
<1>7. CASE Wake
  <2>1. \A s \in Threads : at'[s] = at[s]
    BY <1>0, <1>7, SdkAssumption DEF Wake, Goes, TypeOK, All
  <2> QED
    BY <1>1, <1>7, <2>1 DEF Wake, cacheVars
<1>8. CASE Exit
  BY <1>1, <1>8 DEF Exit, cacheVars, All
<1>9. CASE Age
  <2>1. ~Live(cache')
    <3>1. cache \in Entry
      BY <1>0, <1>9 DEF Age, Live, TypeOK
    <3> QED
      BY <1>9, <3>1 DEF Age, Live, Entry
  <2> QED
    BY <1>0, <1>9, <2>1 DEF Age, Dark
<1>10. CASE UNCHANGED sdkVars
  BY <1>1, <1>10 DEF sdkVars, cacheVars
<1>11. ASSUME NEW t \in All, Continue(t) PROVE Dark' /\ \A s \in Threads : shown'[s] => shown[s]
  <2>1. CASE DropEntry(t) \/ SetCache(t) \/ Default(t)
    <3>1. t \in Threads
      BY <1>0, <2>1 DEF TypeOK, All, DropEntry, SetCache, Default
    <3> QED
      BY <1>4, <1>5, <2>1, <3>1
  <2> QED
    BY <1>2, <1>11, <2>1 DEF Continue
<1>12. ASSUME NEW t \in Threads, Application(t) PROVE Dark' /\ \A s \in Threads : shown'[s] => shown[s]
  BY <1>2, <1>3, <1>12 DEF Application, All
<1>13. ~Switch
  BY <1>0 DEF Switch
<1>14. CASE SdkStep
  BY <1>7, <1>8, <1>9, <1>11, <1>12, <1>14 DEF SdkStep
<1>15. ASSUME NEW t \in All, Deliver(t) PROVE Dark' /\ \A s \in Threads : shown'[s] => shown[s]
  BY <1>2, <1>15 DEF Deliver
<1> QED
  BY <1>6, <1>10, <1>13, <1>14, <1>15 DEF Next, vars

\* Off stays off in an application that has seen the last of on, until the
\* flag is switched: no later answer, entry or default says otherwise.
THEOREM OffIsOff == Spec => OffStaysOff
<1>1. IInv /\ [Next]_vars =>
        [Dark /\ ~flag' => /\ Dark'
                           /\ \A t \in Threads : shown'[t] => shown[t]]_vars
  BY DarkKept
<1> QED
  BY <1>1, Inductive, PTL DEF Spec, OffStaysOff

-----------------------------------------------------------------------------
(***************************************************************************)
(* The partitions.  The loop of _months_ahead runs through consecutive     *)
(* months, which are the numbers Index gives them; so whether a month has  *)
(* a partition is a matter of intervals: from the migration to three       *)
(* months after the last success of the job, without a gap as long as the  *)
(* job is not late.                                                        *)
(***************************************************************************)
\* A nonempty set of naturals has a least element.
LessThan == {ss \in Nat \X Nat : ss[1] < ss[2]}

LEMMA LeastNatural ==
    ASSUME NEW T \in SUBSET Nat, T # {}
    PROVE  \E n \in T : \A m \in T : n <= m
<1>1. IsWellFoundedOn(LessThan, Nat)
  BY NatLessThanWellFounded DEF OpToRel, LessThan
<1>2. PICK n \in T : \A m \in T : ~ (<<m, n>> \in LessThan)
  BY <1>1, WFMin
<1>3. ASSUME NEW m \in T PROVE n <= m
  <2>1. n \in Nat /\ m \in Nat /\ ~ (<<m, n>> \in LessThan)
    BY <1>2
  <2>. QED
    BY <2>1 DEF LessThan
<1>. QED
  BY <1>3

\* A month is its number since the year 0.
LEMMA IndexType == ASSUME NEW m \in Month PROVE Index(m) \in Nat
  BY DEF Month, Index

LEMMA IndexIsName ==
    ASSUME NEW m \in Month, NEW n \in Month, Index(m) = Index(n) PROVE m = n
<1>1. PICK a \in Nat, b \in 1 .. 12 : m = <<a, b>>
  BY DEF Month
<1>2. PICK c \in Nat, d \in 1 .. 12 : n = <<c, d>>
  BY DEF Month
<1>3. 12 * a + b - 1 = 12 * c + d - 1
  BY <1>1, <1>2 DEF Index
<1>4. a = c /\ b = d
  BY <1>3
<1> QED
  BY <1>1, <1>2, <1>4

LEMMA NextIndex ==
    ASSUME NEW m \in Month PROVE NextMonth(m) \in Month /\ Index(NextMonth(m)) = Index(m) + 1
  BY DEF Month, Index, NextMonth

MonthNo(n) == <<n \div 12, (n % 12) + 1>>

LEMMA MonthNoIndex ==
    ASSUME NEW n \in Nat PROVE MonthNo(n) \in Month /\ Index(MonthNo(n)) = n
<1>1. n \div 12 \in Nat /\ n % 12 \in 0 .. 11 /\ n = 12 * (n \div 12) + (n % 12)
  BY Z3
<1> DEFINE y == n \div 12
           k == n % 12
<1>2. <<y, k + 1>> \in Month /\ Index(<<y, k + 1>>) = 12 * y + k
  <2> HIDE DEF y, k
  <2> SUFFICES ASSUME y \in Nat, k \in 0 .. 11
               PROVE  <<y, k + 1>> \in Month /\ Index(<<y, k + 1>>) = 12 * y + k
    BY <1>1 DEF y, k
  <2> QED
    BY DEF Month, Index
<1> QED
  BY <1>1, <1>2 DEF MonthNo

\* _months_ahead, without its loop: the months of as many numbers on.
LEMMA MonthsInARow ==
    ASSUME NEW base \in Month, NEW count \in Nat
    PROVE  /\ MonthsAhead(base, count) \subseteq Month
           /\ \A m \in Month : m \in MonthsAhead(base, count)
                <=> Index(base) <= Index(m) /\ Index(m) < Index(base) + count
<1> DEFINE Loop(f) == [i \in Nat |-> IF i = 0 THEN base ELSE NextMonth(f[i - 1])]
           row    == [i \in Nat |-> MonthNo(Index(base) + i)]
           months == CHOOSE f : f = Loop(f)
<1>1. \A i \in Nat : row[i] \in Month /\ Index(row[i]) = Index(base) + i
  BY IndexType, MonthNoIndex
<1>2. row = Loop(row)
  <2>1. ASSUME NEW i \in Nat PROVE row[i] = IF i = 0 THEN base ELSE NextMonth(row[i - 1])
    <3>1. CASE i = 0
      BY <1>1, <3>1, IndexIsName, IndexType
    <3>2. CASE i # 0
      <4>1. i - 1 \in Nat /\ Index(row[i]) = Index(row[i - 1]) + 1
        BY <1>1, <3>2, IndexType
      <4>2. row[i - 1] \in Month /\ row[i] \in Month
        BY <1>1, <4>1
      <4>3. NextMonth(row[i - 1]) \in Month /\ Index(NextMonth(row[i - 1])) = Index(row[i])
        BY <4>1, <4>2, NextIndex
      <4> HIDE DEF row
      <4> QED
        BY <3>2, <4>2, <4>3, IndexIsName
    <3> QED
      BY <3>1, <3>2
  <2> QED
    BY <2>1
<1>3. months = Loop(months)
  <2> HIDE DEF row, Loop
  <2> QED
    BY <1>2
<1>4. months[0] = base /\ \A i \in Nat \ {0} : months[i] = NextMonth(months[i - 1])
  <2>1. \A i \in Nat : Loop(months)[i] = IF i = 0 THEN base ELSE NextMonth(months[i - 1])
    OBVIOUS
  <2> HIDE DEF months, Loop
  <2> QED
    BY <1>3, <2>1
<1>5. \A i \in Nat : months[i] = row[i]
  <2> DEFINE wrong == {i \in Nat : months[i] # row[i]}
  <2>1. SUFFICES ASSUME wrong # {} PROVE FALSE
    OBVIOUS
  <2>2. PICK n \in wrong : \A m \in wrong : n <= m
    <3> HIDE DEF months, row
    <3> QED
      BY <2>1, LeastNatural
  <2>3. row[0] = base /\ \A i \in Nat \ {0} : row[i] = NextMonth(row[i - 1])
    <3>1. \A i \in Nat : Loop(row)[i] = IF i = 0 THEN base ELSE NextMonth(row[i - 1])
      OBVIOUS
    <3> HIDE DEF row, Loop
    <3> QED
      BY <1>2, <3>1
  <2> HIDE DEF months, row
  <2>4. n \in Nat /\ n # 0 /\ months[n] # row[n]
    BY <1>4, <2>2, <2>3
  <2>5. n - 1 \in Nat /\ n - 1 \notin wrong
    BY <2>2, <2>4
  <2> QED
    BY <1>4, <2>3, <2>4, <2>5
<1>6. MonthsAhead(base, count) = {months[i] : i \in 0 .. count - 1}
  BY DEF MonthsAhead
<1>7. ASSUME NEW m \in Month
      PROVE  m \in MonthsAhead(base, count)
               <=> Index(base) <= Index(m) /\ Index(m) < Index(base) + count
  <2> HIDE DEF months, row
  <2>1. \A i \in 0 .. count - 1 : months[i] \in Month /\ Index(months[i]) = Index(base) + i
    BY <1>1, <1>5
  <2>2. Index(m) \in Nat /\ Index(base) \in Nat
    BY IndexType
  <2>3. CASE Index(base) <= Index(m) /\ Index(m) < Index(base) + count
    <3>1. Index(m) - Index(base) \in 0 .. count - 1
      BY <2>2, <2>3
    <3>2. Index(months[Index(m) - Index(base)]) = Index(m)
      BY <2>1, <2>2, <3>1
    <3>3. months[Index(m) - Index(base)] = m
      BY <2>1, <3>1, <3>2, IndexIsName
    <3> QED
      BY <1>6, <2>3, <3>1, <3>3
  <2>4. CASE ~(Index(base) <= Index(m) /\ Index(m) < Index(base) + count)
    BY <1>6, <2>1, <2>2, <2>4
  <2> QED
    BY <2>3, <2>4
<1>8. MonthsAhead(base, count) \subseteq Month
  <2> HIDE DEF months, row
  <2> QED
    BY <1>1, <1>5, <1>6
<1> QED
  BY <1>7, <1>8

LEMMA FirstIsMonth == First \in Month
  BY StoreAssumption DEF Month

PartitionsOK ==
    /\ now \in Month /\ ran \in Month
    /\ Index(First) <= Index(now) /\ Index(First) <= Index(ran)
    /\ late \in BOOLEAN /\ astray \in BOOLEAN
    /\ ~late => /\ Index(now) <= Index(ran) + 3
                /\ \A m \in Month :
                     Index(First) <= Index(m) /\ Index(m) <= Index(ran) + 3 => m \in partitions
    /\ ~late /\ ~astray => inDefault = {}

\* A partition takes the dates of its month.
LEMMA TakesItsMonth == ASSUME NEW m \in Month PROVE Takes(m, m)
<1>1. Index(m) \in Nat /\ Index(NextMonth(m)) = Index(m) + 1
  BY IndexType, NextIndex
<1> QED
  BY <1>1 DEF Takes, Bounds

\* Rows of a month that has a partition do not go to events_default.
LEMMA RoutedHome ==
    ASSUME PartitionsOK, ~late, NEW date \in Month,
           Index(First) <= Index(date), Index(date) <= Index(ran) + 3, Routed(date)
    PROVE  inDefault' = inDefault
<1>1. date \in partitions
  BY DEF PartitionsOK
<1> QED
  BY <1>1, TakesItsMonth DEF Routed

LEMMA PartitionsInit == StoreInit => PartitionsOK
<1> SUFFICES ASSUME StoreInit PROVE PartitionsOK
  OBVIOUS
<1>1. now = First /\ ran = First /\ partitions = MonthsAhead(First, 7) /\ inDefault = {}
      /\ late = FALSE /\ astray = FALSE
  BY DEF StoreInit
<1>2. Index(First) \in Nat /\ First \in Month /\ \A m \in Month : Index(m) \in Nat
  BY FirstIsMonth, IndexType
<1>3. ASSUME NEW m \in Month, Index(First) <= Index(m), Index(m) <= Index(First) + 3
      PROVE  m \in MonthsAhead(First, 7)
  BY <1>2, <1>3, MonthsInARow
<1>4. /\ now \in Month /\ ran \in Month
      /\ Index(First) <= Index(now) /\ Index(First) <= Index(ran) /\ Index(now) <= Index(ran) + 3
  BY <1>1, <1>2
<1>5. late \in BOOLEAN /\ astray \in BOOLEAN
  BY <1>1
<1>6. ASSUME NEW m \in Month, Index(First) <= Index(m), Index(m) <= Index(ran) + 3
      PROVE  m \in partitions
  BY <1>1, <1>3, <1>6
<1> QED
  BY <1>1, <1>4, <1>5, <1>6 DEF PartitionsOK

LEMMA StoreStepOK == ASSUME PartitionsOK, ServerStep PROVE PartitionsOK'
<1>1. /\ Index(First) \in Nat /\ First \in Month /\ \A m \in Month : Index(m) \in Nat
      /\ now \in Month /\ ran \in Month /\ Index(now) \in Nat /\ Index(ran) \in Nat
      /\ late \in BOOLEAN /\ astray \in BOOLEAN
  BY FirstIsMonth, IndexType DEF PartitionsOK
<1>2. CASE EnsurePartitions
  <2>1. /\ ran' = now /\ UNCHANGED <<now, inDefault, late, astray>>
        /\ partitions' = partitions \cup MonthsAhead(now, 4)
    BY <1>2 DEF EnsurePartitions
  <2>2. ASSUME NEW m \in Month, ~late, Index(First) <= Index(m), Index(m) <= Index(now) + 3
        PROVE  m \in partitions'
    <3>1. Index(m) \in Nat
      BY <1>1
    <3>2. CASE Index(m) <= Index(ran) + 3
      BY <2>1, <2>2, <3>2 DEF PartitionsOK
    <3>3. CASE Index(m) > Index(ran) + 3
      <4>1. Index(now) <= Index(m) /\ Index(m) < Index(now) + 4
        BY <1>1, <2>2, <3>1, <3>3 DEF PartitionsOK
      <4>2. m \in MonthsAhead(now, 4)
        BY <1>1, <4>1, MonthsInARow
      <4> QED
        BY <2>1, <4>2
    <3> QED
      BY <1>1, <3>1, <3>2, <3>3
  <2>3. Index(now) <= Index(now) + 3
    BY <1>1
  <2> QED
    BY <1>1, <2>1, <2>2, <2>3 DEF PartitionsOK
<1>3. CASE MonthEnds
  <2>1. /\ now' = NextMonth(now) /\ late' = (late \/ Index(now') > Index(ran) + 3)
        /\ UNCHANGED <<partitions, inDefault, ran, astray>>
    BY <1>3 DEF MonthEnds
  <2>2. now' \in Month /\ Index(now') = Index(now) + 1
    BY <1>1, <2>1, NextIndex
  <2>3. late' \in BOOLEAN /\ (~late' => ~late /\ ~(Index(now') > Index(ran) + 3))
    BY <2>1, Zenon
  <2>4. Index(now') > Index(ran) + 3 \/ Index(now') <= Index(ran) + 3
    BY <1>1, <2>2
  <2>5. Index(First) <= Index(now')
    BY <1>1, <2>2 DEF PartitionsOK
  <2> QED
    BY <1>1, <2>1, <2>2, <2>3, <2>4, <2>5 DEF PartitionsOK
<1>4. ASSUME NEW date \in MonthsAhead(First, MaxMonths + 5), SaveDated(date)
      PROVE  PartitionsOK'
  <2>1. /\ astray' = (astray \/ Index(date) < Index(First) \/ Index(date) > Index(ran) + 3)
        /\ UNCHANGED <<now, partitions, ran, late>> /\ Routed(date)
    BY <1>4 DEF SaveDated
  <2>2. date \in Month
    BY <1>1, <1>4, StoreAssumption, MonthsInARow
  <2>3. ASSUME ~late, ~astray' PROVE inDefault' = {}
    <3>1. ~astray /\ ~(Index(date) < Index(First)) /\ ~(Index(date) > Index(ran) + 3)
      BY <2>1, <2>3, Zenon
    <3>2. Index(First) <= Index(date) /\ Index(date) <= Index(ran) + 3
      BY <1>1, <2>2, <3>1
    <3> QED
      BY <2>1, <2>2, <2>3, <3>1, <3>2, RoutedHome DEF PartitionsOK
  <2>4. astray' \in BOOLEAN
    BY <2>1, Zenon
  <2> QED
    BY <1>1, <2>1, <2>3, <2>4 DEF PartitionsOK
<1> QED
  BY <1>2, <1>3, <1>4 DEF ServerStep

\* A batch is dated today.
LEMMA BatchOK == ASSUME PartitionsOK, SaveBatch PROVE PartitionsOK'
<1>1. UNCHANGED <<now, partitions, ran, late, astray>> /\ Routed(now)
  BY DEF SaveBatch
<1>2. ~late => inDefault' = inDefault
  BY <1>1, RoutedHome DEF PartitionsOK
<1> QED
  BY <1>1, <1>2 DEF PartitionsOK

\* As long as the job has succeeded within three months and no client dates
\* its events further away, every event of today and every dated one finds a
\* partition, and events_default stays empty (ensure_partitions, which keeps
\* three months ahead, and the migration, which makes the first seven).
THEOREM PartitionsAreAhead == Spec => []PartitionsAhead
<1>1. Init => PartitionsOK
  BY PartitionsInit DEF Init
<1>2. PartitionsOK /\ [Next]_vars => PartitionsOK'
  <2> SUFFICES ASSUME PartitionsOK, [Next]_vars PROVE PartitionsOK'
    OBVIOUS
  <2>1. CASE UNCHANGED storeVars
    BY <2>1 DEF storeVars, PartitionsOK
  <2>2. ASSUME NEW t \in All, Deliver(t) PROVE PartitionsOK'
    BY <2>2, BatchOK DEF Deliver
  <2> QED
    BY <2>1, <2>2, StoreStepOK DEF Next, Answer, Switch, vars
<1>3. PartitionsOK => PartitionsAhead
  <2> SUFFICES ASSUME PartitionsOK, ~late, ~astray
               PROVE  inDefault = {} /\ \E p \in partitions : Takes(p, now)
    BY DEF PartitionsAhead
  <2>1. now \in partitions
    BY DEF PartitionsOK
  <2> QED
    BY <2>1, TakesItsMonth DEF PartitionsOK
<1> QED
  BY <1>1, <1>2, <1>3, PTL DEF Spec

=============================================================================
