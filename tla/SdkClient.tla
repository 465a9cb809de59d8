----------------------------- MODULE SdkClient ------------------------------
(***************************************************************************)
(* The Python SDK in an application with several threads                   *)
(* (sdk/python/abplatform/client.py, cache.py): the buffer of events with  *)
(* its flush thread, and the cache of what the server said of one flag.    *)
(*                                                                         *)
(* The buffer is guarded by a lock, the cache is not.  A thread is         *)
(*   "flush"   about to take the buffer        "post"  sending what it took *)
(*   "drop"    about to delete the entry it saw expired                    *)
(*   "ask"     waiting for the server          "set"   about to cache      *)
(* and the flush thread, Timer, also "sleep" or "check" between rounds.    *)
(***************************************************************************)
EXTENDS Naturals, FiniteSets

CONSTANTS
    Threads,        \* threads of the application
    Timer,          \* _auto_flush_loop, a daemon
    Events,
    BatchSize,
    None

ASSUME SdkAssumption ==
    /\ Timer \notin Threads
    /\ BatchSize \in Nat \ {0}
    /\ None \notin [value : BOOLEAN, live : BOOLEAN]

VARIABLES
    at,             \* at[t]: where thread t is
    buffer,         \* _event_buffer
    sending,        \* sending[t]: the batch of the POST of t
    tracked,        \* events that have been tracked
    gone,           \* events that nobody will send
    closed,         \* _closed
    cache,          \* the entry of the flag, or None; live until its TTL is over
    got,            \* got[t]: what the server has answered t
    shown,          \* shown[t]: what get_flag last returned to t
    raised,         \* get_flag has raised
    raced           \* history: two threads have been about to delete the entry

bufferVars == <<buffer, sending, tracked, gone, closed>>
cacheVars  == <<cache, got, shown, raised, raced>>
sdkVars    == <<at, bufferVars, cacheVars>>

All == Threads \cup {Timer}

SdkInit ==
    /\ at = [t \in All |-> IF t = Timer THEN "check" ELSE "idle"]
    /\ buffer = {} /\ sending = [t \in All |-> {}]
    /\ tracked = {} /\ gone = {} /\ closed = FALSE
    /\ cache = None
    /\ got = [t \in Threads |-> FALSE] /\ shown = [t \in Threads |-> FALSE]
    /\ raised = FALSE /\ raced = FALSE

Goes(t, where) == at' = [at EXCEPT ![t] = where]

-----------------------------------------------------------------------------
(* Events.                                                                   *)

\* track_event appends under the lock; the thread that fills the batch
\* flushes, taking the lock anew.  It works after close, too.
Track(t, e) ==
    /\ at[t] = "idle" /\ e \notin tracked
    /\ tracked' = tracked \cup {e}
    /\ buffer' = buffer \cup {e}
    /\ Goes(t, IF Cardinality(buffer') >= BatchSize THEN "flush" ELSE "idle")
    /\ UNCHANGED <<sending, gone, closed, cacheVars>>

\* flush
Flush(t) == at[t] = "idle" /\ Goes(t, "flush") /\ UNCHANGED <<bufferVars, cacheVars>>

\* Mutant: close leaves the buffer to the flush thread.
CloseOnly(t) ==
    /\ at[t] = "idle" /\ closed' = TRUE
    /\ UNCHANGED <<at, buffer, sending, tracked, gone, cacheVars>>

\* close
Close(t) ==
    /\ at[t] = "idle"
    /\ closed' = TRUE
    /\ Goes(t, "flush")
    /\ UNCHANGED <<buffer, sending, tracked, gone, cacheVars>>

AfterFlush(t) == IF t = Timer THEN "check" ELSE "idle"

\* Mutant: the buffer is copied and not cleared.
TakeCopy(t) ==
    /\ at[t] = "flush"
    /\ sending' = [sending EXCEPT ![t] = buffer]
    /\ Goes(t, IF buffer = {} THEN AfterFlush(t) ELSE "post")
    /\ UNCHANGED <<buffer, tracked, gone, closed, cacheVars>>

\* _flush: copies and clears the buffer under the lock, and sends without it.
Take(t) ==
    /\ at[t] = "flush"
    /\ sending' = [sending EXCEPT ![t] = buffer]
    /\ buffer' = {}
    /\ Goes(t, IF buffer = {} THEN AfterFlush(t) ELSE "post")
    /\ UNCHANGED <<tracked, gone, closed, cacheVars>>

\* Mutant: the answer is lost, and the batch goes back to the buffer.
SentAgain(t) ==
    /\ at[t] = "post"
    /\ sending' = [sending EXCEPT ![t] = {}]
    /\ buffer' = buffer \cup sending[t]
    /\ Goes(t, AfterFlush(t))
    /\ UNCHANGED <<tracked, gone, closed, cacheVars>>

\* The server has stored the batch, whether its answer arrives or not.
Sent(t) ==
    /\ at[t] = "post"
    /\ sending' = [sending EXCEPT ![t] = {}]
    /\ Goes(t, AfterFlush(t))
    /\ UNCHANGED <<buffer, tracked, gone, closed, cacheVars>>

\* No connection, a timeout, or a status other than 201: a warning, and that
\* is all.
NotSent(t) ==
    /\ at[t] = "post"
    /\ gone' = gone \cup sending[t]
    /\ sending' = [sending EXCEPT ![t] = {}]
    /\ Goes(t, AfterFlush(t))
    /\ UNCHANGED <<buffer, tracked, closed, cacheVars>>

\* _auto_flush_loop
Wake ==
    \/ at[Timer] = "check" /\ Goes(Timer, IF closed THEN "ended" ELSE "sleep")
       /\ UNCHANGED <<bufferVars, cacheVars>>
    \/ at[Timer] = "sleep" /\ Goes(Timer, "flush") /\ UNCHANGED <<bufferVars, cacheVars>>

\* The process ends when its own threads have; the daemon is not waited for.
Exit ==
    /\ \A t \in Threads : at[t] = "idle"
    /\ at' = [t \in All |-> "ended"]
    /\ gone' = gone \cup buffer \cup sending[Timer]
    /\ buffer' = {} /\ sending' = [t \in All |-> {}]
    /\ UNCHANGED <<tracked, closed, cacheVars>>

-----------------------------------------------------------------------------
(* The flag.                                                                 *)

Live(entry) == entry # None /\ entry.live

\* Mutants: an entry is returned whatever its age; one that is not there is
\* taken for expired.
GetFlagOld(t) ==
    /\ at[t] = "idle"
    /\ IF cache # None
         THEN shown' = [shown EXCEPT ![t] = cache.value] /\ UNCHANGED at
         ELSE Goes(t, "ask") /\ UNCHANGED shown
    /\ UNCHANGED <<bufferVars, cache, got, raised, raced>>

GetFlagUnchecked(t) ==
    /\ at[t] = "idle"
    /\ IF Live(cache)
         THEN shown' = [shown EXCEPT ![t] = cache.value] /\ UNCHANGED <<at, raced>>
         ELSE Goes(t, "drop") /\ UNCHANGED <<shown, raced>>
    /\ UNCHANGED <<bufferVars, cache, got, raised>>

\* get_flag, and get of the cache, up to the deletion of an expired entry.
GetFlag(t) ==
    /\ at[t] = "idle"
    /\ \/ /\ cache = None
          /\ Goes(t, "ask") /\ UNCHANGED <<shown, raced>>
       \/ /\ Live(cache)
          /\ shown' = [shown EXCEPT ![t] = cache.value] /\ UNCHANGED <<at, raced>>
       \/ /\ cache # None /\ ~cache.live
          /\ raced' = (raced \/ \E s \in Threads : at[s] = "drop")
          /\ Goes(t, "drop") /\ UNCHANGED shown
    /\ UNCHANGED <<bufferVars, cache, got, raised>>

\* "del self._store[key]" raises a KeyError when another thread has deleted
\* the entry, before get_flag has entered its try.
DropEntry(t) ==
    /\ at[t] = "drop"
    /\ cache' = None
    /\ IF cache = None THEN raised' = TRUE /\ Goes(t, "idle")
                       ELSE Goes(t, "ask") /\ UNCHANGED raised
    /\ UNCHANGED <<bufferVars, got, shown, raced>>

\* The server evaluates the flag, of which it says value.
Evaluated(t, value) ==
    /\ at[t] = "ask"
    /\ got' = [got EXCEPT ![t] = value]
    /\ Goes(t, "set")
    /\ UNCHANGED <<bufferVars, cache, shown, raised, raced>>

\* The answer is cached, though another thread may have asked later.
SetCache(t) ==
    /\ at[t] = "set"
    /\ cache' = [value |-> got[t], live |-> TRUE]
    /\ shown' = [shown EXCEPT ![t] = got[t]]
    /\ Goes(t, "idle")
    /\ UNCHANGED <<bufferVars, got, raised, raced>>

\* Any failure: the default, False, which is not cached.
Default(t) ==
    /\ at[t] = "ask"
    /\ shown' = [shown EXCEPT ![t] = FALSE]
    /\ Goes(t, "idle")
    /\ UNCHANGED <<bufferVars, cache, got, raised, raced>>

\* The TTL is over.
Age ==
    /\ Live(cache)
    /\ cache' = [cache EXCEPT !.live = FALSE]
    /\ UNCHANGED <<at, bufferVars, got, shown, raised, raced>>

=============================================================================
