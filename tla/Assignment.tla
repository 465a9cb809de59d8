----------------------------- MODULE Assignment -----------------------------
(***************************************************************************)
(* How a user is assigned to a variant: concurrent requests to             *)
(* POST /assignments over a Redis cache of assignments, a Redis cache of   *)
(* experiment configurations and the assignments table.                    *)
(*                                                                         *)
(* A request is a process that takes one step per await of                 *)
(* get_or_create_assignment, so requests interleave exactly where the      *)
(* event loop may switch between them.  The database runs at READ          *)
(* COMMITTED and the session of a request commits after its response has   *)
(* been sent (get_db), so a row becomes visible only in the step Commit.   *)
(***************************************************************************)
EXTENDS Bucketing, ExperimentStatus

CONSTANTS
    Users,
    Experiments,
    Requests,        \* slots for requests in flight
    VariantsOf,      \* VariantsOf[e]: the variants of e
    Bucket,          \* Bucket[u][e]: get_bucket
    TrafficBucket,   \* TrafficBucket[u][e]: the hash of is_in_traffic
    Traffic,         \* Traffic[e]: traffic_percentage, in hundredths
    MutexGroupOf,    \* MutexGroupOf[e]: mutex_group_id, or NoGroup
    NoGroup,
    Linked,          \* experiments with a holdout_group_id
    Targeted         \* experiments linked to segments

Pair == Users \X Experiments

ASSUME AssignmentAssumption ==
    /\ VariantsOf \in [Experiments -> SUBSET Variant]
    /\ Bucket \in [Users -> [Experiments -> BucketNo]]
    /\ TrafficBucket \in [Users -> [Experiments -> BucketNo]]
    /\ Traffic \in [Experiments -> 1 .. 100 * Percent]
    /\ Linked \subseteq Experiments
    /\ Targeted \subseteq Experiments

\* What create_experiment accepts; the service has no update of the variants.
ASSUME ExperimentsAreValid ==
    \A e \in Experiments : IsFiniteSet(VariantsOf[e]) /\ ValidSplits(VariantsOf[e])

VARIABLES
    status,       \* status[e]: experiments.status, as committed
    held,         \* the pairs whose experiment is linked to an active holdout
                  \* group with the user's bucket below its size
    excluded,     \* the pairs whose user has a holdout_exclusions row
    expCache,     \* expCache[e]: the Redis key exp:{e}, or NotCached
    assignCache,  \* assignCache[p]: the Redis key assign:{e}:{u}, or NoVariant
    rows,         \* rows[p]: the assignments row, as committed, or NoVariant
    req,          \* req[r]: the request in slot r
    served,       \* history: served[p], every variant a response has named
    lost          \* history: the pairs whose row was cached but not written

vars == <<status, held, excluded, expCache, assignCache, rows, req, served, lost>>

-----------------------------------------------------------------------------
\* The orders in which a SELECT may return the variants of e (no ORDER BY).
Orders(e) == Bijection(1 .. Cardinality(VariantsOf[e]), VariantsOf[e])

NotCached == [cached |-> FALSE]

\* _serialize_experiment, reduced to what is read back: whether the status
\* was RUNNING, and the list of variants.
ExpEntry(e) == [cached : {TRUE}, live : BOOLEAN, variants : Orders(e)]

\* The variant the bucket selects from the list vs.
Picked(p, vs) == PickVariant(Bucket[p[1]][p[2]], vs)

Idle == [at |-> "idle"]

\* The await at which a request stands, in the order of the code.
Step == {"assign_cache", "exp_cache", "load", "fill", "holdout", "exclusion", "mutex",
         "segments", "cache_existing", "cache_new", "recheck", "commit"}

\* What a request knows of the holdout group: nothing yet, or what it loaded
\* along with the experiment.
Group == {"unread", "holds", "passes"}

\* The steps taken with a configuration that passed the status check.
Admitted == {"holdout", "exclusion", "mutex", "segments", "cache_existing", "cache_new",
             "recheck", "commit"}

Init ==
    /\ status      = [e \in Experiments |-> "draft"]
    /\ held        \in SUBSET (Users \X Linked)
    /\ excluded    \in SUBSET (Users \X Linked)
    /\ expCache    = [e \in Experiments |-> NotCached]
    /\ assignCache = [p \in Pair |-> NoVariant]
    /\ rows        = [p \in Pair |-> NoVariant]
    /\ req         = [r \in Requests |-> Idle]
    /\ served      = [p \in Pair |-> {}]
    /\ lost        = {}

-----------------------------------------------------------------------------
(***************************************************************************)
(* Steps of a request.                                                     *)
(***************************************************************************)
At(r, step) == req[r].at = step

GoTo(r, step) == req' = [req EXCEPT ![r].at = step]

\* The answer "not assigned", or the end of a request that wrote nothing.
Finish(r) == req' = [req EXCEPT ![r] = Idle]

\* The response names variant v; it is sent before the session commits.
Answer(p, v) == served' = [served EXCEPT ![p] = @ \cup {v}]

\* The checks between the configuration and the first database read: status,
\* traffic; then the steps that the configuration makes necessary.
\* Mutant: the status is not looked at.
PassesAnyStatus(entry) == TRUE

PassesStatus(entry) == entry.live

PassesTraffic(p) == InTraffic(TrafficBucket[p[1]][p[2]], Traffic[p[2]])

AfterHoldout(e) == IF MutexGroupOf[e] # NoGroup THEN "mutex" ELSE "segments"

\* Mutant: the holdout check is skipped.
AfterStatusNoHoldout(e) == AfterHoldout(e)

AfterStatus(e) == IF e \in Linked THEN "holdout" ELSE AfterHoldout(e)

Gate(r, entry, group) ==
    IF PassesStatus(entry) /\ PassesTraffic(req[r].pair)
      THEN req' = [req EXCEPT ![r] =
                     [at |-> AfterStatus(@.pair[2]), pair |-> @.pair,
                      variants |-> entry.variants, group |-> group]]
      ELSE Finish(r)

Begin(r, p) ==
    /\ At(r, "idle")
    /\ req' = [req EXCEPT ![r] = [at |-> "assign_cache", pair |-> p]]
    /\ UNCHANGED <<status, held, excluded, expCache, assignCache, rows, served, lost>>

\* get_assignment_cache: a hit is answered whatever the experiment's status.
ReadAssignCache(r) ==
    /\ At(r, "assign_cache")
    /\ LET p == req[r].pair
       IN \/ /\ assignCache[p] # NoVariant
             /\ Answer(p, assignCache[p])
             /\ Finish(r)
          \/ /\ assignCache[p] = NoVariant
             /\ GoTo(r, "exp_cache")
             /\ UNCHANGED served
    /\ UNCHANGED <<status, held, excluded, expCache, assignCache, rows, lost>>

ReadExpCache(r) ==
    /\ At(r, "exp_cache")
    /\ LET entry == expCache[req[r].pair[2]]
       IN IF entry.cached THEN Gate(r, entry, "unread") ELSE GoTo(r, "load")
    /\ UNCHANGED <<status, held, excluded, expCache, assignCache, rows, served, lost>>

\* _load_experiment reads what is committed now, the holdout group included;
\* the entry is written to Redis in the next step, by when the status may
\* have changed.
LoadExperiment(r) ==
    /\ At(r, "load")
    /\ LET e == req[r].pair[2]
       IN \E vs \in Orders(e) :
            req' = [req EXCEPT ![r] =
                      [at |-> "fill", pair |-> @.pair,
                       entry |-> [cached |-> TRUE, live |-> status[e] = "running",
                                  variants |-> vs],
                       group |-> IF @.pair \in held THEN "holds" ELSE "passes"]]
    /\ UNCHANGED <<status, held, excluded, expCache, assignCache, rows, served, lost>>

FillExpCache(r) ==
    /\ At(r, "fill")
    /\ expCache' = [expCache EXCEPT ![req[r].pair[2]] = req[r].entry]
    /\ Gate(r, req[r].entry, req[r].group)
    /\ UNCHANGED <<status, held, excluded, assignCache, rows, served, lost>>

\* The experiment and its group are loaded again, but a session keeps what it
\* has loaded once: after a miss of the configuration, the link, is_active and
\* size_pct are those of LoadExperiment.
GroupHolds(q) == IF q.group = "unread" THEN q.pair \in held ELSE q.group = "holds"

CheckHoldout(r) ==
    /\ At(r, "holdout")
    /\ GoTo(r, IF GroupHolds(req[r]) THEN "exclusion" ELSE AfterHoldout(req[r].pair[2]))
    /\ UNCHANGED <<status, held, excluded, expCache, assignCache, rows, served, lost>>

\* The exclusions are a query of their own, so they are read anew.
CheckExclusion(r) ==
    /\ At(r, "exclusion")
    /\ IF req[r].pair \in excluded THEN GoTo(r, AfterHoldout(req[r].pair[2])) ELSE Finish(r)
    /\ UNCHANGED <<status, held, excluded, expCache, assignCache, rows, served, lost>>

\* Mutant: looks for a row in the experiment itself.
MutexConflictSame(p) == rows[p] # NoVariant

\* The user has a committed row in another experiment of the same group.
MutexConflict(p) ==
    \E e \in Experiments \ {p[2]} :
        /\ MutexGroupOf[e] = MutexGroupOf[p[2]]
        /\ rows[<<p[1], e>>] # NoVariant

CheckMutex(r) ==
    /\ At(r, "mutex")
    /\ IF MutexConflict(req[r].pair) THEN Finish(r) ELSE GoTo(r, "segments")
    /\ UNCHANGED <<status, held, excluded, expCache, assignCache, rows, served, lost>>

\* The segment check depends on the properties the caller sends and on
\* tables no action here writes, so it is a choice; it is taken together
\* with the read of the user's own row that follows it, and with the pick,
\* which reads nothing shared.
CheckSegmentsAndRow(r) ==
    /\ At(r, "segments")
    /\ LET p == req[r].pair
           v == IF rows[p] # NoVariant THEN rows[p] ELSE Picked(p, req[r].variants)
           next == IF rows[p] # NoVariant THEN "cache_existing" ELSE "cache_new"
       IN \/ p[2] \in Targeted /\ Finish(r)
          \/ IF v = NoVariant
               THEN Finish(r)
               ELSE req' = [req EXCEPT ![r] = [at |-> next, pair |-> p, variant |-> v]]
    /\ UNCHANGED <<status, held, excluded, expCache, assignCache, rows, served, lost>>

CacheExisting(r) ==
    /\ At(r, "cache_existing")
    /\ assignCache' = [assignCache EXCEPT ![req[r].pair] = req[r].variant]
    /\ Answer(req[r].pair, req[r].variant)
    /\ Finish(r)
    /\ UNCHANGED <<status, held, excluded, expCache, rows, lost>>

\* The new assignment is visible in Redis before it is written anywhere.
CacheNew(r) ==
    /\ At(r, "cache_new")
    /\ assignCache' = [assignCache EXCEPT ![req[r].pair] = req[r].variant]
    /\ GoTo(r, "recheck")
    /\ UNCHANGED <<status, held, excluded, expCache, rows, served, lost>>

\* Mutants: the insert is skipped whenever the cache knows the assignment;
\* the row is left to the commit without the response naming the variant.
TrustCacheAndAnswer(r) ==
    /\ At(r, "recheck")
    /\ Answer(req[r].pair, req[r].variant)
    /\ IF assignCache[req[r].pair] # NoVariant THEN Finish(r) ELSE GoTo(r, "commit")
    /\ UNCHANGED <<status, held, excluded, expCache, assignCache, rows, lost>>

RecheckWithoutAnswer(r) ==
    /\ At(r, "recheck")
    /\ IF rows[req[r].pair] # NoVariant THEN Finish(r) ELSE GoTo(r, "commit")
    /\ UNCHANGED <<status, held, excluded, expCache, assignCache, rows, served, lost>>

\* _write_assignment_sync: add the row to the session unless one is there by
\* now; either way the caller is answered with the variant picked.
RecheckAndAnswer(r) ==
    /\ At(r, "recheck")
    /\ Answer(req[r].pair, req[r].variant)
    /\ IF rows[req[r].pair] # NoVariant THEN Finish(r) ELSE GoTo(r, "commit")
    /\ UNCHANGED <<status, held, excluded, expCache, assignCache, rows, lost>>

\* The commit of get_db: the insert, or a violation of
\* uq_assignment_user_experiment that rolls it back.
Commit(r) ==
    /\ At(r, "commit")
    /\ rows' = [rows EXCEPT ![req[r].pair] =
                  IF @ = NoVariant THEN req[r].variant ELSE @]
    /\ Finish(r)
    /\ UNCHANGED <<status, held, excluded, expCache, assignCache, served, lost>>

\* The commit fails or the process dies between response and commit.
CommitFails(r) ==
    /\ At(r, "commit")
    /\ lost' = lost \cup {req[r].pair}
    /\ Finish(r)
    /\ UNCHANGED <<status, held, excluded, expCache, assignCache, rows, served>>

\* Redis or the database raises before the response, or the process dies:
\* assign_user answers "not assigned".  What is cached stays cached.
Fail(r) ==
    /\ req[r].at \in Step \ {"commit"}
    /\ lost' = IF At(r, "recheck") THEN lost \cup {req[r].pair} ELSE lost
    /\ Finish(r)
    /\ UNCHANGED <<status, held, excluded, expCache, assignCache, rows, served>>

-----------------------------------------------------------------------------
(***************************************************************************)
(* The environment: administrators, and the TTLs of Redis (300 s and       *)
(* 3600 s, abstracted to "some time later"; an eviction looks the same).   *)
(* No status change touches a cache: nothing calls                         *)
(* invalidate_experiment_cache.                                            *)
(***************************************************************************)
ChangeStatus(e) ==
    /\ \E s \in Status : MayBecome(status[e], s) /\ status' = [status EXCEPT ![e] = s]
    /\ UNCHANGED <<held, excluded, expCache, assignCache, rows, req, served, lost>>

Flip(S, p) == IF p \in S THEN S \ {p} ELSE S \cup {p}

\* The holdout group is resized, switched on or off or deleted, or the user is
\* excluded from it or no longer is.
ChangeHoldout(p) ==
    /\ p \in Users \X Linked
    /\ \/ held' = Flip(held, p) /\ UNCHANGED excluded
       \/ excluded' = Flip(excluded, p) /\ UNCHANGED held
    /\ UNCHANGED <<status, expCache, assignCache, rows, req, served, lost>>

\* Mutant: SET without a TTL.
NeverExpires(e) == FALSE /\ UNCHANGED vars

ExpireExp(e) ==
    /\ expCache[e].cached
    /\ expCache' = [expCache EXCEPT ![e] = NotCached]
    /\ UNCHANGED <<status, held, excluded, assignCache, rows, req, served, lost>>

ExpireAssign(p) ==
    /\ assignCache[p] # NoVariant
    /\ assignCache' = [assignCache EXCEPT ![p] = NoVariant]
    /\ UNCHANGED <<status, held, excluded, expCache, rows, req, served, lost>>

-----------------------------------------------------------------------------
RequestStep(r) ==
    \/ ReadAssignCache(r)
    \/ ReadExpCache(r)
    \/ LoadExperiment(r)
    \/ FillExpCache(r)
    \/ CheckHoldout(r)
    \/ CheckExclusion(r)
    \/ CheckMutex(r)
    \/ CheckSegmentsAndRow(r)
    \/ CacheExisting(r)
    \/ CacheNew(r)
    \/ RecheckAndAnswer(r)
    \/ Commit(r)
    \/ CommitFails(r)
    \/ Fail(r)

Next ==
    \/ \E r \in Requests, p \in Pair : Begin(r, p)
    \/ \E r \in Requests : RequestStep(r)
    \/ \E e \in Experiments : ChangeStatus(e)
    \/ \E p \in Pair : ChangeHoldout(p)
    \/ \E e \in Experiments : ExpireExp(e)
    \/ \E p \in Pair : ExpireAssign(p)

Spec == Init /\ [][Next]_vars

\* A request that has begun ends (every await returns or raises) and every
\* Redis key set with SETEX expires.
Fairness ==
    /\ \A r \in Requests : WF_vars(RequestStep(r))
    /\ \A e \in Experiments : WF_vars(ExpireExp(e))

FairSpec == Spec /\ Fairness

-----------------------------------------------------------------------------
(***************************************************************************)
(* Properties.                                                             *)
(***************************************************************************)
Names(e) == {v.name : v \in VariantsOf[e]}

RequestOK(q) ==
    \/ q = Idle
    \/ q \in [at : {"assign_cache", "exp_cache", "load"}, pair : Pair]
    \/ \E p \in Pair :
          \/ q \in [at : {"fill"}, pair : {p}, entry : ExpEntry(p[2]), group : Group]
          \/ q \in [at : {"holdout", "exclusion", "mutex", "segments"}, pair : {p},
                   variants : Orders(p[2]), group : Group]
          \/ q \in [at : {"cache_existing", "cache_new", "recheck", "commit"},
                   pair : {p}, variant : Names(p[2])]

\* Types of the caches, the table and the requests: in particular a request
\* carries a list of the experiment's own variants from the cache to the pick.
TypeOK ==
    /\ status \in [Experiments -> Status]
    /\ held \subseteq Users \X Linked /\ excluded \subseteq Users \X Linked
    /\ \A e \in Experiments : expCache[e] = NotCached \/ expCache[e] \in ExpEntry(e)
    /\ DOMAIN expCache = Experiments
    /\ DOMAIN assignCache = Pair /\ DOMAIN rows = Pair /\ DOMAIN served = Pair
    /\ \A p \in Pair : /\ assignCache[p] \in Names(p[2]) \cup {NoVariant}
                       /\ rows[p] \in Names(p[2]) \cup {NoVariant}
                       /\ served[p] \subseteq Names(p[2])
    /\ DOMAIN req = Requests /\ \A r \in Requests : RequestOK(req[r])
    /\ lost \subseteq Pair

\* The variant of a pair, and that whatever has been picked, cached, recorded
\* or shown for the pair is that variant.
Choice(p) == Picked(p, CHOOSE vs \in Orders(p[2]) : TRUE)

Decided == {"cache_existing", "cache_new", "recheck", "commit"}

Agreement ==
    /\ \A p \in Pair : /\ assignCache[p] \in {Choice(p), NoVariant}
                       /\ rows[p] \in {Choice(p), NoVariant}
                       /\ served[p] \subseteq {Choice(p)}
    /\ \A r \in Requests : req[r].at \in Decided => req[r].variant = Choice(req[r].pair)

\* A user is only ever shown one variant of an experiment, whatever is
\* cached, expired or being written while the requests overlap.
OneVariantEver == \A p \in Pair : \A v, w \in served[p] : v = w

\* What Redis answers and what the analysis joins on are the same variant.
CacheAgreesWithRow ==
    \A p \in Pair : assignCache[p] # NoVariant /\ rows[p] # NoVariant
                    => assignCache[p] = rows[p]

\* A request that has cached a new assignment and has yet to commit it.
Outstanding(p) ==
    \E r \in Requests : req[r].at \in {"recheck", "commit"} /\ req[r].pair = p

\* Nothing the service has answered or cached is missing from the table,
\* except where a write was lost or is still to come: a request that skips
\* the insert relies on one that did it.
ServedIsWritten ==
    \A p \in Pair : served[p] # {} \/ assignCache[p] # NoVariant
                    => rows[p] # NoVariant \/ p \in lost \/ Outstanding(p)

OnExperiment(r, e) == req[r].at # "idle" /\ req[r].pair[2] = e

\* No configuration that says RUNNING is left, in Redis or in a request.
Drained(e) ==
    /\ status[e] # "running"
    /\ ~(expCache[e].cached /\ expCache[e].live)
    /\ \A r \in Requests : OnExperiment(r, e) =>
          /\ req[r].at \notin Admitted
          /\ req[r].at = "fill" => ~req[r].entry.live

\* Once the stale copies of RUNNING are gone, a stopped experiment takes in
\* nobody until it is started again.
StoppedStaysStopped ==
    [][\A e \in Experiments : Drained(e) /\ status'[e] # "running"
          => /\ Drained(e)'
             /\ \A u \in Users : rows'[<<u, e>>] = rows[<<u, e>>]]_vars

\* is_user_in_any_linked_holdout, by what is committed now.
InHoldout(p) == p \in held /\ p \notin excluded

\* A user in the holdout with nothing cached, no request past the check, and
\* none that has loaded the group from before the user was in it.
KeptOut(p) ==
    /\ InHoldout(p)
    /\ assignCache[p] = NoVariant
    /\ \A r \in Requests : req[r].at # "idle" /\ req[r].pair = p =>
          /\ req[r].at \notin Admitted \ {"holdout", "exclusion"}
          /\ req[r].at \in {"fill", "holdout"} => req[r].group # "passes"

\* Such a user is shown nothing and not recorded for as long as they stay in
\* the holdout, though a group that is switched on or enlarged while a request
\* is filling the configuration cache does not stop that request.
HoldoutKeepsOut ==
    [][\A p \in Users \X Linked : KeptOut(p) /\ InHoldout(p)'
          => KeptOut(p)' /\ served'[p] = served[p] /\ rows'[p] = rows[p]]_vars

SameGroup(p, q) ==
    /\ p[1] = q[1] /\ p[2] # q[2]
    /\ MutexGroupOf[p[2]] # NoGroup /\ MutexGroupOf[p[2]] = MutexGroupOf[q[2]]

\* _check_mutex_conflict: a user has a row in at most one experiment of a
\* mutex group.
MutexExclusive ==
    \A p, q \in Pair : SameGroup(p, q) => rows[p] = NoVariant \/ rows[q] = NoVariant

\* While requests of a user do not overlap, the group is kept: in the table
\* always, and on the screen up to lost writes, since the check reads the
\* table and not the cache that the fast path answers from.
MutexKept ==
    /\ MutexExclusive
    /\ \A p, q \in Pair : SameGroup(p, q) /\ served[p] # {} /\ served[q] # {}
                          => p \in lost \/ q \in lost

\* A stopped experiment that stays stopped is drained in the end.
EventuallyDrained ==
    \A e \in Experiments : <>[](status[e] # "running") => <>[]Drained(e)

-----------------------------------------------------------------------------
(***************************************************************************)
(* What the service promises a user, and that it keeps the promise.        *)
(***************************************************************************)
TheOne(S) == IF S = {} THEN NoVariant ELSE CHOOSE v \in S : TRUE

exposure == [p \in Pair |-> TheOne(served[p])]

Sticky == INSTANCE StickyAssignment
            WITH Options <- [p \in Pair |-> Names(p[2])], record <- rows

StickySpec == Sticky!Spec

=============================================================================
