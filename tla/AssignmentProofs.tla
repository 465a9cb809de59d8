-------------------------- MODULE AssignmentProofs --------------------------
(***************************************************************************)
(* Theorems about Assignment, for any users, experiments, variants,        *)
(* buckets, mutex groups and number of requests in flight: that it is      *)
(* sticky, that it implements StickyAssignment, that what it has shown it  *)
(* has written, and what stopping, holdouts and mutex groups keep out.     *)
(***************************************************************************)
EXTENDS Assignment, TLAPS, WellFoundedInduction

-----------------------------------------------------------------------------
(***************************************************************************)
(* Lemmas about the pick.                                                  *)
(***************************************************************************)

\* Every listing of the variants of e is a listing of exactly those.
LEMMA OrderRange ==
    ASSUME NEW e \in Experiments, NEW vs \in Orders(e)
    PROVE  Range(vs) = VariantsOf[e]
BY DEF Orders, Bijection, Injection, Surjection, Range

\* pick_variant depends on the set of the variants, not on their order.
LEMMA PickIgnoresOrder ==
    ASSUME NEW p \in Pair, NEW vs \in Orders(p[2]), NEW ws \in Orders(p[2])
    PROVE  Picked(p, vs) = Picked(p, ws)
<1>1. p[2] \in Experiments
  BY DEF Pair
<1>2. Range(vs) = Range(ws)
  BY <1>1, OrderRange
<1>. QED
  BY <1>2 DEF Picked, PickVariant

\* A nonempty set of naturals has a least element.
LessThan == {ss \in Nat \X Nat : ss[1] < ss[2]}

LEMMA LeastNatural ==
    ASSUME NEW T \in SUBSET Nat, T # {}
    PROVE  \E n \in T : \A m \in T : n <= m
<1>1. IsWellFoundedOn(LessThan, Nat)
  BY NatLessThanWellFounded DEF OpToRel, LessThan
<1>2. PICK n \in T : \A m \in T : ~ (<<m, n>> \in LessThan)
  BY <1>1, WFMin
<1>3. ASSUME NEW m \in T PROVE n <= m
  <2>1. n \in Nat /\ m \in Nat /\ ~ (<<m, n>> \in LessThan)
    BY <1>2
  <2>. QED
    BY <2>1 DEF LessThan
<1>. QED
  BY <1>3

\* What pick_variant returns is one of the variants listed, or None.
LEMMA PickType ==
    ASSUME NEW p \in Pair, NEW vs \in Orders(p[2])
    PROVE  Picked(p, vs) \in Names(p[2]) \cup {NoVariant}
<1>1. p[2] \in Experiments /\ VariantsOf[p[2]] \in SUBSET Variant
  BY AssignmentAssumption DEF Pair
<1>2. Range(vs) = VariantsOf[p[2]]
  BY <1>1, OrderRange
<1>. DEFINE b    == Bucket[p[1]][p[2]]
            V    == VariantsOf[p[2]]
            hits == {v \in V : b * Percent < CumulativeSplit(V, v)}
<1>3. CASE hits = {}
  <2>1. Picked(p, vs) = NoVariant
    BY <1>2, <1>3 DEF Picked, PickVariant
  <2>. QED
    BY <2>1
<1>4. CASE hits # {}
  <2>1. hits \subseteq V
    OBVIOUS
  <2>2. {v.name : v \in hits} \in SUBSET Nat
    BY <1>1, <2>1 DEF Variant
  <2>3. PICK n \in {v.name : v \in hits} : \A m \in {v.name : v \in hits} : n <= m
    <3>1. {v.name : v \in hits} # {}
      BY <1>4
    <3>. QED
      BY <2>2, <3>1, LeastNatural
  <2>4. \E v \in hits : \A w \in hits : v.name <= w.name
    BY <2>3
  <2>. DEFINE first == CHOOSE v \in hits : \A w \in hits : v.name <= w.name
  <2>5. first \in hits
    BY <2>4
  <2>6. Picked(p, vs) = first.name
    BY <1>2, <1>4 DEF Picked, PickVariant
  <2>. QED
    BY <2>1, <2>5, <2>6 DEF Names
<1>. QED
  BY <1>3, <1>4

-----------------------------------------------------------------------------
(***************************************************************************)
(* Lemmas about the requests.                                              *)
(***************************************************************************)

\* The checks that come after the status and before the pick.
Checks == {"holdout", "exclusion", "mutex", "segments"}

\* What a request carries, by the step it stands at.
LEMMA RequestShape ==
    ASSUME NEW q, RequestOK(q)
    PROVE  /\ q.at \in {"assign_cache", "exp_cache", "load"} => q.pair \in Pair
           /\ q.at = "fill" => /\ q.pair \in Pair /\ q.entry \in ExpEntry(q.pair[2])
                               /\ q.group \in Group
           /\ q.at \in Checks
                => q.pair \in Pair /\ q.variants \in Orders(q.pair[2]) /\ q.group \in Group
           /\ q.at \in Decided => q.pair \in Pair /\ q.variant \in Names(q.pair[2])
BY DEF RequestOK, Idle, Decided, Checks

\* GoTo between steps of the same shape.
LEMMA GoToShape ==
    ASSUME NEW q, RequestOK(q), NEW step
    PROVE  /\ q.at \in {"assign_cache", "exp_cache", "load"}
                /\ step \in {"exp_cache", "load"} => RequestOK([q EXCEPT !.at = step])
           /\ q.at \in Checks /\ step \in Checks => RequestOK([q EXCEPT !.at = step])
           /\ q.at \in Decided /\ step \in {"recheck", "commit"}
                => RequestOK([q EXCEPT !.at = step])
<1>1. ASSUME q.at \in {"assign_cache", "exp_cache", "load"}, step \in {"exp_cache", "load"}
      PROVE  RequestOK([q EXCEPT !.at = step])
  <2>1. q \in [at : {"assign_cache", "exp_cache", "load"}, pair : Pair]
    BY <1>1 DEF RequestOK, Idle
  <2>2. [q EXCEPT !.at = step] \in [at : {"assign_cache", "exp_cache", "load"}, pair : Pair]
    BY <1>1, <2>1
  <2>. QED
    BY <2>2 DEF RequestOK
<1>2. ASSUME q.at \in Checks, step \in Checks
      PROVE  RequestOK([q EXCEPT !.at = step])
  <2>1. PICK p \in Pair : q \in [at : Checks, pair : {p}, variants : Orders(p[2]),
                                group : Group]
    BY <1>2 DEF RequestOK, Idle, Checks
  <2>2. [q EXCEPT !.at = step] \in [at : Checks, pair : {p}, variants : Orders(p[2]),
                                    group : Group]
    BY <1>2, <2>1
  <2>. QED
    BY <2>2 DEF RequestOK, Checks
<1>3. ASSUME q.at \in Decided, step \in {"recheck", "commit"}
      PROVE  RequestOK([q EXCEPT !.at = step])
  <2>1. PICK p \in Pair : q \in [at : {"cache_existing", "cache_new", "recheck", "commit"},
                                pair : {p}, variant : Names(p[2])]
    BY <1>3 DEF RequestOK, Idle, Decided
  <2>2. [q EXCEPT !.at = step] \in [at : {"cache_existing", "cache_new", "recheck", "commit"},
                                    pair : {p}, variant : Names(p[2])]
    BY <1>3, <2>1
  <2>. QED
    BY <2>2 DEF RequestOK
<1>. QED
  BY <1>1, <1>2, <1>3

\* GoTo changes the step and nothing else.
LEMMA GoToField ==
    ASSUME NEW q, RequestOK(q), NEW step
    PROVE  /\ [q EXCEPT !.at = step].at = step
           /\ q.at # "idle" => [q EXCEPT !.at = step].pair = q.pair
           /\ q.at \in Decided => [q EXCEPT !.at = step].variant = q.variant
BY DEF RequestOK, Idle, Decided

\* The checks of status and traffic end the request or let it go on with the
\* variants of the configuration.
LEMMA GateShape ==
    ASSUME NEW r \in Requests, NEW entry, NEW group \in Group, RequestOK(req[r]),
           req[r].pair \in Pair, entry \in ExpEntry(req[r].pair[2]), Gate(r, entry, group)
    PROVE  \E q : RequestOK(q) /\ req' = [req EXCEPT ![r] = q]
                  /\ q.at \notin Decided
<1>1. CASE PassesStatus(entry) /\ PassesTraffic(req[r].pair)
  <2>. DEFINE q == [at |-> AfterStatus(req[r].pair[2]), pair |-> req[r].pair,
                    variants |-> entry.variants, group |-> group]
  <2>1. req' = [req EXCEPT ![r] = q]
    BY <1>1 DEF Gate
  <2>2. q.at \in Checks \ {"exclusion"} /\ entry.variants \in Orders(q.pair[2])
    BY DEF AfterStatus, AfterHoldout, ExpEntry, Checks
  <2>3. RequestOK(q)
    BY <2>2 DEF RequestOK, Checks
  <2>4. q.at \notin Decided
    BY <2>2 DEF Decided, Checks
  <2>. QED
    BY <2>1, <2>3, <2>4
<1>2. CASE ~(PassesStatus(entry) /\ PassesTraffic(req[r].pair))
  BY <1>2 DEF Gate, Finish, RequestOK, Idle, Decided
<1>. QED
  BY <1>1, <1>2

\* An update of one slot keeps the requests typed and leaves the others alone.
LEMMA SlotUpdate ==
    ASSUME TypeOK, NEW r \in Requests, NEW q, RequestOK(q),
           req' = [req EXCEPT ![r] = q]
    PROVE  /\ DOMAIN req' = Requests
           /\ req'[r] = q
           /\ \A s \in Requests : RequestOK(req'[s])
           /\ \A s \in Requests \ {r} : req'[s] = req[s]
BY DEF TypeOK

\* Each step of a request, as an update of its slot.
LEMMA StepShape ==
    ASSUME TypeOK, NEW r \in Requests, RequestStep(r)
    PROVE  /\ req[r].pair \in Pair
           /\ RequestOK(req[r])
           /\ \E q : RequestOK(q) /\ req' = [req EXCEPT ![r] = q]
<1>1. RequestOK(req[r])
  BY DEF TypeOK
<1>2. req[r].at \in Step
  BY DEF RequestStep, ReadAssignCache, ReadExpCache, LoadExperiment, FillExpCache,
         CheckHoldout, CheckExclusion, CheckMutex, CheckSegmentsAndRow, CacheExisting, CacheNew,
         RecheckAndAnswer, Commit, CommitFails, Fail, At, Step
<1>3. req[r].pair \in Pair
  BY <1>1, <1>2, RequestShape DEF Step, Checks, Decided
<1>4. RequestOK(Idle)
  BY DEF RequestOK
<1>5. CASE ReadAssignCache(r)
  <2>1. RequestOK([req[r] EXCEPT !.at = "exp_cache"])
    BY <1>1, <1>5, GoToShape DEF ReadAssignCache, At
  <2>. QED
    BY <1>1, <1>3, <1>4, <1>5, <2>1 DEF ReadAssignCache, Finish, GoTo
<1>6. CASE ReadExpCache(r)
  <2>. DEFINE entry == expCache[req[r].pair[2]]
  <2>1. CASE entry.cached
    <3>1. req[r].pair[2] \in Experiments
      BY <1>3 DEF Pair
    <3>2. entry \in ExpEntry(req[r].pair[2])
      BY <2>1, <3>1 DEF TypeOK, NotCached
    <3>. QED
      BY <1>1, <1>3, <1>6, <2>1, <3>2, GateShape DEF ReadExpCache, Group
  <2>2. CASE ~entry.cached
    <3>1. RequestOK([req[r] EXCEPT !.at = "load"])
      BY <1>1, <1>6, GoToShape DEF ReadExpCache, At
    <3>. QED
      BY <1>1, <1>3, <1>6, <2>2, <3>1 DEF ReadExpCache, GoTo
  <2>. QED
    BY <2>1, <2>2
<1>7. CASE LoadExperiment(r)
  <2>. DEFINE p == req[r].pair
              q(vs) == [at |-> "fill", pair |-> p,
                        entry |-> [cached |-> TRUE, live |-> status[p[2]] = "running",
                                   variants |-> vs],
                        group |-> IF p \in held THEN "holds" ELSE "passes"]
  <2>1. PICK vs \in Orders(p[2]) : req' = [req EXCEPT ![r] = q(vs)]
    BY <1>7 DEF LoadExperiment
  <2>2. RequestOK(q(vs))
    BY <1>3 DEF RequestOK, ExpEntry, Group
  <2>. QED
    BY <1>1, <1>3, <2>1, <2>2
<1>8. CASE FillExpCache(r)
  <2>1. req[r].entry \in ExpEntry(req[r].pair[2]) /\ req[r].group \in Group
    BY <1>1, <1>8, RequestShape DEF FillExpCache, At
  <2>. QED
    BY <1>1, <1>3, <1>8, <2>1, GateShape DEF FillExpCache
<1>9. CASE CheckHoldout(r) \/ CheckExclusion(r)
  <2>1. /\ RequestOK([req[r] EXCEPT !.at = AfterHoldout(req[r].pair[2])])
        /\ RequestOK([req[r] EXCEPT !.at = "exclusion"])
    BY <1>1, <1>9, GoToShape DEF CheckHoldout, CheckExclusion, At, AfterHoldout, Checks
  <2>. QED
    BY <1>1, <1>3, <1>4, <1>9, <2>1 DEF CheckHoldout, CheckExclusion, GoTo, Finish
<1>10. CASE CheckMutex(r)
  <2>1. RequestOK([req[r] EXCEPT !.at = "segments"])
    BY <1>1, <1>10, GoToShape DEF CheckMutex, At, Checks
  <2>. QED
    BY <1>1, <1>3, <1>4, <1>10, <2>1 DEF CheckMutex, GoTo, Finish
<1>11. CASE CheckSegmentsAndRow(r)
  <2>. DEFINE p == req[r].pair
              v == IF rows[p] # NoVariant THEN rows[p] ELSE Picked(p, req[r].variants)
              next == IF rows[p] # NoVariant THEN "cache_existing" ELSE "cache_new"
  <2>1. req[r].variants \in Orders(p[2])
    BY <1>1, <1>11, RequestShape DEF CheckSegmentsAndRow, At, Checks
  <2>2. v # NoVariant => v \in Names(p[2])
    BY <1>3, <2>1, PickType DEF TypeOK
  <2>3. v # NoVariant => RequestOK([at |-> next, pair |-> p, variant |-> v])
    BY <1>3, <2>2 DEF RequestOK
  <2>4. \/ req' = [req EXCEPT ![r] = Idle]
        \/ v # NoVariant /\ req' = [req EXCEPT ![r] = [at |-> next, pair |-> p, variant |-> v]]
    BY <1>11 DEF CheckSegmentsAndRow, Finish
  <2>. QED
    BY <1>1, <1>3, <1>4, <2>3, <2>4
<1>12. CASE CacheNew(r)
  <2>1. RequestOK([req[r] EXCEPT !.at = "recheck"])
    BY <1>1, <1>12, GoToShape DEF CacheNew, At, Decided
  <2>. QED
    BY <1>1, <1>3, <1>12, <2>1 DEF CacheNew, GoTo
<1>13. CASE RecheckAndAnswer(r)
  <2>1. RequestOK([req[r] EXCEPT !.at = "commit"])
    BY <1>1, <1>13, GoToShape DEF RecheckAndAnswer, At, Decided
  <2>. QED
    BY <1>1, <1>3, <1>4, <1>13, <2>1 DEF RecheckAndAnswer, GoTo, Finish
<1>14. CASE CacheExisting(r) \/ Commit(r) \/ CommitFails(r) \/ Fail(r)
  BY <1>1, <1>3, <1>4, <1>14 DEF CacheExisting, Commit, CommitFails, Fail, Finish
<1>. QED
  BY <1>5, <1>6, <1>7, <1>8, <1>9, <1>10, <1>11, <1>12, <1>13, <1>14 DEF RequestStep

-----------------------------------------------------------------------------
(***************************************************************************)
(* Type correctness.                                                       *)
(***************************************************************************)
\* What a step of a request does to the caches, the table and the histories.
LEMMA StoreTypes ==
    ASSUME TypeOK, NEW r \in Requests, RequestStep(r)
    PROVE  /\ \A e \in Experiments : expCache'[e] = NotCached \/ expCache'[e] \in ExpEntry(e)
           /\ DOMAIN expCache' = Experiments
           /\ DOMAIN assignCache' = Pair /\ DOMAIN rows' = Pair /\ DOMAIN served' = Pair
           /\ \A p \in Pair : /\ assignCache'[p] \in Names(p[2]) \cup {NoVariant}
                              /\ rows'[p] \in Names(p[2]) \cup {NoVariant}
                              /\ served'[p] \subseteq Names(p[2])
           /\ lost' \subseteq Pair
<1>1. req[r].pair \in Pair /\ RequestOK(req[r])
  BY StepShape
<1>2. CASE ReadAssignCache(r)
  BY <1>1, <1>2 DEF ReadAssignCache, Answer, TypeOK
<1>3. CASE ReadExpCache(r) \/ LoadExperiment(r) \/ CheckHoldout(r) \/ CheckExclusion(r)
           \/ CheckMutex(r)
             \/ CheckSegmentsAndRow(r)
  BY <1>3 DEF ReadExpCache, LoadExperiment, CheckHoldout, CheckExclusion, CheckMutex,
              CheckSegmentsAndRow, TypeOK
<1>4. CASE FillExpCache(r)
  <2>1. req[r].entry \in ExpEntry(req[r].pair[2])
    BY <1>1, <1>4, RequestShape DEF FillExpCache, At
  <2>. QED
    BY <1>1, <1>4, <2>1 DEF FillExpCache, TypeOK
<1>5. CASE CacheExisting(r) \/ CacheNew(r) \/ RecheckAndAnswer(r) \/ Commit(r)
  <2>1. req[r].variant \in Names(req[r].pair[2])
    BY <1>1, <1>5, RequestShape
       DEF CacheExisting, CacheNew, RecheckAndAnswer, Commit, At, Decided
  <2>2. CASE CacheExisting(r)
    BY <1>1, <2>1, <2>2 DEF CacheExisting, Answer, TypeOK
  <2>3. CASE CacheNew(r)
    BY <1>1, <2>1, <2>3 DEF CacheNew, TypeOK
  <2>4. CASE RecheckAndAnswer(r)
    BY <1>1, <2>1, <2>4 DEF RecheckAndAnswer, Answer, TypeOK
  <2>5. CASE Commit(r)
    BY <1>1, <2>1, <2>5 DEF Commit, TypeOK
  <2>. QED
    BY <1>5, <2>2, <2>3, <2>4, <2>5
<1>6. CASE CommitFails(r) \/ Fail(r)
  BY <1>1, <1>6 DEF CommitFails, Fail, TypeOK
<1>. QED
  BY <1>2, <1>3, <1>4, <1>5, <1>6 DEF RequestStep

\* TypeOK holds in every state, whatever the number of users, experiments
\* and requests: a request only ever carries variants of its experiment.
THEOREM TypeCorrect == Spec => []TypeOK
<1>1. Init => TypeOK
  BY DEF Init, TypeOK, RequestOK, Status
<1>2. TypeOK /\ [Next]_vars => TypeOK'
  <2>. SUFFICES ASSUME TypeOK, [Next]_vars
                PROVE  TypeOK'
    OBVIOUS
  <2>1. ASSUME NEW r \in Requests, NEW p \in Pair, Begin(r, p)
        PROVE  TypeOK'
    <3>1. RequestOK([at |-> "assign_cache", pair |-> p])
      BY <2>1 DEF RequestOK
    <3>2. DOMAIN req' = Requests /\ \A s \in Requests : RequestOK(req'[s])
      BY <2>1, <3>1, SlotUpdate DEF Begin
    <3>. QED
      BY <2>1, <3>2 DEF Begin, TypeOK
  <2>2. ASSUME NEW r \in Requests, RequestStep(r)
        PROVE  TypeOK'
    <3>1. PICK q : RequestOK(q) /\ req' = [req EXCEPT ![r] = q]
      BY <2>2, StepShape
    <3>2. DOMAIN req' = Requests /\ \A s \in Requests : RequestOK(req'[s])
      BY <2>2, <3>1, SlotUpdate
    <3>3. UNCHANGED <<status, held, excluded>>
      BY <2>2 DEF RequestStep, ReadAssignCache, ReadExpCache, LoadExperiment,
         FillExpCache, CheckHoldout, CheckExclusion, CheckMutex, CheckSegmentsAndRow,
            CacheExisting, CacheNew, RecheckAndAnswer, Commit, CommitFails, Fail
    <3>. QED
      BY <2>2, <3>2, <3>3, StoreTypes DEF TypeOK
  <2>3. ASSUME NEW e \in Experiments, ChangeStatus(e)
        PROVE  TypeOK'
    BY <2>3 DEF ChangeStatus, TypeOK
  <2>4. ASSUME NEW p \in Pair, ChangeHoldout(p)
        PROVE  TypeOK'
    BY <2>4 DEF ChangeHoldout, Flip, TypeOK
  <2>5. ASSUME NEW e \in Experiments, ExpireExp(e)
        PROVE  TypeOK'
    BY <2>5 DEF ExpireExp, TypeOK
  <2>6. ASSUME NEW p \in Pair, ExpireAssign(p)
        PROVE  TypeOK'
    BY <2>6 DEF ExpireAssign, TypeOK
  <2>7. CASE UNCHANGED vars
    BY <2>7 DEF vars, TypeOK
  <2>. QED
    BY <2>1, <2>2, <2>3, <2>4, <2>5, <2>6, <2>7 DEF Next
<1>. QED
  BY <1>1, <1>2, PTL DEF Spec

-----------------------------------------------------------------------------
(***************************************************************************)
(* Stickiness: everything picked, cached, recorded or shown for a pair is  *)
(* the one variant Choice(p).                                              *)
(***************************************************************************)
\* A listing loaded at any time leads to the same pick.
LEMMA PickIsChoice ==
    ASSUME NEW p \in Pair, NEW vs \in Orders(p[2])
    PROVE  Picked(p, vs) = Choice(p)
BY PickIgnoresOrder DEF Choice

\* The variant a request carries after a step is the choice of its pair.
LEMMA DecidedStep ==
    ASSUME TypeOK, Agreement, NEW r \in Requests, RequestStep(r),
           req'[r].at \in Decided
    PROVE  req'[r].variant = Choice(req'[r].pair)
<1>1. req[r].pair \in Pair /\ RequestOK(req[r]) /\ DOMAIN req = Requests
  BY StepShape DEF TypeOK
<1>2. Idle.at \notin Decided
  BY DEF Idle, Decided
<1>3. CASE ReadExpCache(r) \/ FillExpCache(r)
  <2>1. CASE ReadExpCache(r) /\ ~expCache[req[r].pair[2]].cached
    <3>1. req'[r] = [req[r] EXCEPT !.at = "load"]
      BY <1>1, <2>1 DEF ReadExpCache, GoTo
    <3>. QED
      BY <1>1, <3>1, GoToField DEF Decided
  <2>2. CASE ReadExpCache(r) /\ expCache[req[r].pair[2]].cached
    <3>1. expCache[req[r].pair[2]] \in ExpEntry(req[r].pair[2])
      BY <1>1, <2>2 DEF TypeOK, NotCached, Pair
    <3>2. Gate(r, expCache[req[r].pair[2]], "unread") /\ "unread" \in Group
      BY <2>2 DEF ReadExpCache, Group
    <3>3. PICK q : RequestOK(q) /\ req' = [req EXCEPT ![r] = q] /\ q.at \notin Decided
      BY <1>1, <3>1, <3>2, GateShape
    <3>. QED
      BY <1>1, <3>3
  <2>3. CASE FillExpCache(r)
    <3>1. req[r].entry \in ExpEntry(req[r].pair[2]) /\ req[r].group \in Group
      BY <1>1, <2>3, RequestShape DEF FillExpCache, At
    <3>2. PICK q : RequestOK(q) /\ req' = [req EXCEPT ![r] = q] /\ q.at \notin Decided
      BY <1>1, <2>3, <3>1, GateShape DEF FillExpCache
    <3>. QED
      BY <1>1, <3>2
  <2>. QED
    BY <1>3, <2>1, <2>2, <2>3
<1>4. CASE ReadAssignCache(r) \/ LoadExperiment(r) \/ CheckHoldout(r) \/ CheckExclusion(r)
           \/ CheckMutex(r)
  <2>1. \/ req'[r] = Idle
        \/ req'[r].at = "fill"
        \/ \E step \in {"exp_cache", "exclusion", "mutex", "segments"} :
              req'[r] = [req[r] EXCEPT !.at = step]
    BY <1>1, <1>4 DEF ReadAssignCache, LoadExperiment, CheckHoldout, CheckExclusion, CheckMutex,
       GoTo, Finish, AfterHoldout
  <2>2. \A step : [req[r] EXCEPT !.at = step].at = step
    BY <1>1, GoToField
  <2>3. req'[r].at \notin Decided
    BY <1>2, <2>1, <2>2 DEF Decided
  <2>. QED
    BY <2>3
<1>5. CASE CheckSegmentsAndRow(r)
  <2>. DEFINE p == req[r].pair
  <2>1. req[r].variants \in Orders(p[2])
    BY <1>1, <1>5, RequestShape DEF CheckSegmentsAndRow, At, Checks
  <2>2. Picked(p, req[r].variants) = Choice(p)
    BY <1>1, <2>1, PickIsChoice
  <2>3. rows[p] # NoVariant => rows[p] = Choice(p)
    BY <1>1 DEF Agreement
  <2>4. \/ req' = [req EXCEPT ![r] = Idle]
        \/ /\ rows[p] # NoVariant
           /\ req' = [req EXCEPT ![r] =
                         [at |-> "cache_existing", pair |-> p, variant |-> rows[p]]]
        \/ req' = [req EXCEPT ![r] = [at |-> "cache_new", pair |-> p,
                                      variant |-> Picked(p, req[r].variants)]]
    BY <1>5 DEF CheckSegmentsAndRow, Finish
  <2>5. CASE req' = [req EXCEPT ![r] = Idle]
    BY <1>1, <1>2, <2>5
  <2>6. CASE /\ rows[p] # NoVariant
             /\ req' = [req EXCEPT ![r] =
                           [at |-> "cache_existing", pair |-> p, variant |-> rows[p]]]
    BY <1>1, <2>3, <2>6
  <2>7. CASE req' = [req EXCEPT ![r] = [at |-> "cache_new", pair |-> p,
                                        variant |-> Picked(p, req[r].variants)]]
    BY <1>1, <2>2, <2>7
  <2>. QED
    BY <2>4, <2>5, <2>6, <2>7
<1>6. CASE CacheNew(r) \/ RecheckAndAnswer(r)
  <2>1. req[r].at \in Decided
    BY <1>6 DEF CacheNew, RecheckAndAnswer, At, Decided
  <2>2. req'[r] = Idle \/ \E step \in Decided : req'[r] = [req[r] EXCEPT !.at = step]
    BY <1>1, <1>6 DEF CacheNew, RecheckAndAnswer, GoTo, Finish, Decided
  <2>3. req[r].at # "idle" /\ req[r].variant = Choice(req[r].pair)
    BY <2>1 DEF Agreement, Decided
  <2>4. \A step : /\ [req[r] EXCEPT !.at = step].pair = req[r].pair
                  /\ [req[r] EXCEPT !.at = step].variant = req[r].variant
    BY <1>1, <2>1, <2>3, GoToField
  <2>5. CASE req'[r] = Idle
    BY <1>2, <2>5
  <2>6. CASE \E step \in Decided : req'[r] = [req[r] EXCEPT !.at = step]
    <3>1. req'[r].pair = req[r].pair /\ req'[r].variant = req[r].variant
      BY <2>4, <2>6
    <3>. QED
      BY <2>3, <3>1
  <2>. QED
    BY <2>2, <2>5, <2>6
<1>7. CASE CacheExisting(r) \/ Commit(r) \/ CommitFails(r) \/ Fail(r)
  BY <1>1, <1>2, <1>7 DEF CacheExisting, Commit, CommitFails, Fail, Finish
<1>. QED
  BY <1>3, <1>4, <1>5, <1>6, <1>7 DEF RequestStep

\* What a step of a request caches, records or shows is the choice.
LEMMA DecidedStores ==
    ASSUME TypeOK, Agreement, NEW r \in Requests, RequestStep(r), NEW p \in Pair
    PROVE  /\ assignCache'[p] \in {Choice(p), NoVariant}
           /\ rows'[p] \in {Choice(p), NoVariant}
           /\ served'[p] \subseteq {Choice(p)}
<1>1. req[r].pair \in Pair
  BY StepShape
<1>2. CASE ReadAssignCache(r)
  BY <1>1, <1>2 DEF ReadAssignCache, Answer, TypeOK, Agreement
<1>3. CASE CacheExisting(r) \/ CacheNew(r) \/ RecheckAndAnswer(r) \/ Commit(r)
  <2>1. req[r].variant = Choice(req[r].pair)
    BY <1>3 DEF CacheExisting, CacheNew, RecheckAndAnswer, Commit, At, Decided, Agreement
  <2>2. CASE CacheExisting(r)
    BY <1>1, <2>1, <2>2 DEF CacheExisting, Answer, TypeOK, Agreement
  <2>3. CASE CacheNew(r)
    BY <1>1, <2>1, <2>3 DEF CacheNew, TypeOK, Agreement
  <2>4. CASE RecheckAndAnswer(r)
    BY <1>1, <2>1, <2>4 DEF RecheckAndAnswer, Answer, TypeOK, Agreement
  <2>5. CASE Commit(r)
    BY <1>1, <2>1, <2>5 DEF Commit, TypeOK, Agreement
  <2>. QED
    BY <1>3, <2>2, <2>3, <2>4, <2>5
<1>4. CASE ReadExpCache(r) \/ LoadExperiment(r) \/ FillExpCache(r) \/ CheckHoldout(r)
           \/ CheckExclusion(r)
           \/ CheckMutex(r) \/ CheckSegmentsAndRow(r) \/ CommitFails(r) \/ Fail(r)
  BY <1>4 DEF ReadExpCache, LoadExperiment, FillExpCache, CheckHoldout, CheckExclusion,
     CheckMutex, CheckSegmentsAndRow, CommitFails, Fail, Agreement
<1>. QED
  BY <1>2, <1>3, <1>4 DEF RequestStep

\* All copies of the assignment of a pair agree, in every state.
THEOREM AllCopiesAgree == Spec => []Agreement
<1>1. Init => Agreement
  BY DEF Init, Agreement, Idle, Decided
<1>2. TypeOK /\ Agreement /\ [Next]_vars => Agreement'
  <2>. SUFFICES ASSUME TypeOK, Agreement, [Next]_vars
                PROVE  Agreement'
    OBVIOUS
  <2>1. ASSUME NEW r \in Requests, NEW p \in Pair, Begin(r, p)
        PROVE  Agreement'
    <3>1. \A s \in Requests : req'[s].at \in Decided => req'[s] = req[s]
      BY <2>1 DEF Begin, TypeOK, Decided
    <3>2. assignCache' = assignCache /\ rows' = rows /\ served' = served
      BY <2>1 DEF Begin
    <3>. QED
      BY <3>1, <3>2 DEF Agreement, Choice, Picked
  <2>2. ASSUME NEW r \in Requests, RequestStep(r)
        PROVE  Agreement'
    <3>1. \A s \in Requests \ {r} : req'[s] = req[s]
      BY <2>2, StepShape, SlotUpdate
    <3>2. \A s \in Requests : req'[s].at \in Decided => req'[s].variant = Choice(req'[s].pair)
      BY <2>2, <3>1, DecidedStep DEF Agreement
    <3>. QED
      BY <2>2, <3>2, DecidedStores DEF Agreement, Choice, Picked
  <2>3. ASSUME NEW e \in Experiments, ChangeStatus(e) \/ ExpireExp(e)
        PROVE  Agreement'
    BY <2>3 DEF ChangeStatus, ExpireExp, Agreement, Choice, Picked
  <2>4. ASSUME NEW p \in Pair, ChangeHoldout(p)
        PROVE  Agreement'
    BY <2>4 DEF ChangeHoldout, Agreement, Choice, Picked
  <2>5. ASSUME NEW p \in Pair, ExpireAssign(p)
        PROVE  Agreement'
    <3>1. \A q \in Pair : assignCache'[q] \in {assignCache[q], NoVariant}
      BY <2>5 DEF ExpireAssign, TypeOK
    <3>2. rows' = rows /\ served' = served /\ req' = req
      BY <2>5 DEF ExpireAssign
    <3>. QED
      BY <3>1, <3>2 DEF Agreement, Choice, Picked
  <2>6. CASE UNCHANGED vars
    BY <2>6 DEF vars, Agreement, Choice, Picked
  <2>. QED
    BY <2>1, <2>2, <2>3, <2>4, <2>5, <2>6 DEF Next
<1>. QED
  BY <1>1, <1>2, TypeCorrect, PTL DEF Spec

\* A user is shown one variant of an experiment, ever.
THEOREM OneVariant == Spec => []OneVariantEver
<1>1. Agreement => OneVariantEver
  BY DEF Agreement, OneVariantEver
<1>. QED
  BY <1>1, AllCopiesAgree, PTL

\* Redis never answers with another variant than the table records.
THEOREM CacheIsRight == Spec => []CacheAgreesWithRow
<1>1. Agreement => CacheAgreesWithRow
  BY DEF Agreement, CacheAgreesWithRow
<1>. QED
  BY <1>1, AllCopiesAgree, PTL

-----------------------------------------------------------------------------
(***************************************************************************)
(* A row is only written for a variant that was shown before: the          *)
(* response goes out ahead of the commit.                                  *)
(***************************************************************************)
ShownFirst ==
    /\ rows = [p \in Pair |-> rows[p]]
    /\ \A p \in Pair : rows[p] # NoVariant => served[p] # {}
    /\ \A r \in Requests : req[r].at = "commit" => served[req[r].pair] # {}

\* The steps of a request that show, record or forget, and all others.
QuietStep(r) ==
    \/ ReadExpCache(r) \/ LoadExperiment(r) \/ FillExpCache(r) \/ CheckHoldout(r)
       \/ CheckExclusion(r)
    \/ CheckMutex(r) \/ CheckSegmentsAndRow(r) \/ CacheNew(r) \/ CommitFails(r) \/ Fail(r)

LEMMA QuietStores ==
    ASSUME NEW r \in Requests, QuietStep(r)
    PROVE  rows' = rows /\ served' = served
BY DEF QuietStep, ReadExpCache, LoadExperiment, FillExpCache, CheckHoldout, CheckExclusion,
   CheckMutex, CheckSegmentsAndRow, CacheNew, CommitFails, Fail

\* Only RecheckAndAnswer leads to the commit.
LEMMA QuietSteps ==
    ASSUME TypeOK, NEW r \in Requests, QuietStep(r)
    PROVE  req'[r].at # "commit"
<1>1. req[r].pair \in Pair /\ RequestOK(req[r]) /\ DOMAIN req = Requests
  <2>1. RequestStep(r)
    BY DEF QuietStep, RequestStep
  <2>. QED
    BY <2>1, StepShape DEF TypeOK
<1>2. \A step : [req[r] EXCEPT !.at = step].at = step
  BY <1>1, GoToField
<1>3. CASE ReadExpCache(r) \/ FillExpCache(r)
  <2>1. CASE ReadExpCache(r) /\ ~expCache[req[r].pair[2]].cached
    <3>1. req'[r] = [req[r] EXCEPT !.at = "load"]
      BY <1>1, <2>1 DEF ReadExpCache, GoTo
    <3>. QED
      BY <1>2, <3>1
  <2>2. CASE ReadExpCache(r) /\ expCache[req[r].pair[2]].cached
    <3>1. expCache[req[r].pair[2]] \in ExpEntry(req[r].pair[2])
      BY <1>1, <2>2 DEF TypeOK, NotCached, Pair
    <3>2. Gate(r, expCache[req[r].pair[2]], "unread") /\ "unread" \in Group
      BY <2>2 DEF ReadExpCache, Group
    <3>3. PICK q : RequestOK(q) /\ req' = [req EXCEPT ![r] = q] /\ q.at \notin Decided
      BY <1>1, <3>1, <3>2, GateShape
    <3>. QED
      BY <1>1, <3>3 DEF Decided
  <2>3. CASE FillExpCache(r)
    <3>1. req[r].entry \in ExpEntry(req[r].pair[2]) /\ req[r].group \in Group
      BY <1>1, <2>3, RequestShape DEF FillExpCache, At
    <3>2. PICK q : RequestOK(q) /\ req' = [req EXCEPT ![r] = q] /\ q.at \notin Decided
      BY <1>1, <2>3, <3>1, GateShape DEF FillExpCache
    <3>. QED
      BY <1>1, <3>2 DEF Decided
  <2>. QED
    BY <1>3, <2>1, <2>2, <2>3
<1>4. CASE LoadExperiment(r) \/ CheckSegmentsAndRow(r)
  BY <1>1, <1>4 DEF LoadExperiment, CheckSegmentsAndRow, Finish, Idle
<1>5. CASE CheckHoldout(r) \/ CheckExclusion(r) \/ CheckMutex(r) \/ CacheNew(r)
           \/ CommitFails(r) \/ Fail(r)
  <2>1. \/ req'[r] = Idle
        \/ \E step \in {"exclusion", "mutex", "segments", "recheck"} :
              req'[r] = [req[r] EXCEPT !.at = step]
    BY <1>1, <1>5 DEF CheckHoldout, CheckExclusion, CheckMutex, CacheNew, CommitFails, Fail,
       GoTo, Finish, AfterHoldout
  <2>2. ASSUME NEW step \in {"exclusion", "mutex", "segments", "recheck"},
               req'[r] = [req[r] EXCEPT !.at = step]
        PROVE  req'[r].at # "commit"
    <3>1. req'[r].at = step
      BY <1>2, <2>2
    <3>. QED
      BY <3>1
  <2>. QED
    BY <2>1, <2>2 DEF Idle
<1>. QED
  BY <1>3, <1>4, <1>5 DEF QuietStep

\* What the three steps that show or record a variant do to their pair.
LEMMA LoudSteps ==
    ASSUME TypeOK, Agreement, NEW r \in Requests,
           ReadAssignCache(r) \/ CacheExisting(r) \/ RecheckAndAnswer(r)
    PROVE  /\ rows' = rows
           /\ \/ served' = served
              \/ /\ served' = [served EXCEPT ![req[r].pair] = {Choice(req[r].pair)}]
                 /\ req[r].pair \in Pair
<1>1. req[r].pair \in Pair /\ RequestOK(req[r])
  <2>1. RequestStep(r)
    BY DEF RequestStep
  <2>. QED
    BY <2>1, StepShape
<1>2. served[req[r].pair] \subseteq {Choice(req[r].pair)}
  BY <1>1 DEF Agreement
<1>3. CASE ReadAssignCache(r)
  <2>1. assignCache[req[r].pair] # NoVariant => assignCache[req[r].pair] = Choice(req[r].pair)
    BY <1>1 DEF Agreement
  <2>. QED
    BY <1>1, <1>2, <1>3, <2>1 DEF ReadAssignCache, Answer, TypeOK
<1>4. CASE CacheExisting(r) \/ RecheckAndAnswer(r)
  <2>1. req[r].variant = Choice(req[r].pair)
    BY <1>4 DEF CacheExisting, RecheckAndAnswer, At, Decided, Agreement
  <2>. QED
    BY <1>1, <1>2, <1>4, <2>1 DEF CacheExisting, RecheckAndAnswer, Answer, TypeOK
<1>. QED
  BY <1>3, <1>4

\* A variant is shown before it is recorded.
THEOREM ShownBeforeRecorded == Spec => []ShownFirst
<1>1. Init => ShownFirst
  BY DEF Init, ShownFirst, Idle
<1>2. TypeOK /\ Agreement /\ ShownFirst /\ [Next]_vars => ShownFirst'
  <2>. SUFFICES ASSUME TypeOK, Agreement, ShownFirst, [Next]_vars
                PROVE  ShownFirst'
    OBVIOUS
  <2>1. ASSUME NEW r \in Requests, NEW p \in Pair, Begin(r, p)
        PROVE  ShownFirst'
    BY <2>1 DEF Begin, ShownFirst, TypeOK
  <2>2. ASSUME NEW r \in Requests, RequestStep(r)
        PROVE  ShownFirst'
    <3>1. /\ req[r].pair \in Pair /\ RequestOK(req[r])
          /\ \A s \in Requests \ {r} : req'[s] = req[s]
          /\ DOMAIN req = Requests
      BY <2>2, StepShape, SlotUpdate DEF TypeOK
    <3>2. CASE QuietStep(r)
      <4>1. req'[r].at # "commit" /\ rows' = rows /\ served' = served
        BY <3>2, QuietSteps, QuietStores
      <4>. QED
        BY <3>1, <4>1 DEF ShownFirst
    <3>3. CASE ReadAssignCache(r) \/ CacheExisting(r) \/ RecheckAndAnswer(r)
      <4>1. rows' = rows /\ \A p \in Pair : served[p] # {} => served'[p] # {}
        BY <3>3, LoudSteps DEF TypeOK
      <4>2. \A step : /\ [req[r] EXCEPT !.at = step].at = step
                      /\ req[r].at # "idle" => [req[r] EXCEPT !.at = step].pair = req[r].pair
        BY <3>1, GoToField
      <4>3. req'[r].at = "commit" => req'[r].pair = req[r].pair /\ served'[req[r].pair] # {}
        <5>1. CASE ReadAssignCache(r)
          <6>1. req'[r] = Idle \/ req'[r] = [req[r] EXCEPT !.at = "exp_cache"]
            BY <3>1, <5>1 DEF ReadAssignCache, Finish, GoTo
          <6>2. [req[r] EXCEPT !.at = "exp_cache"].at = "exp_cache"
            BY <4>2
          <6>3. Idle.at # "commit"
            BY DEF Idle
          <6>. QED
            BY <6>1, <6>2, <6>3
        <5>2. CASE CacheExisting(r)
          BY <3>1, <5>2 DEF CacheExisting, Finish, Idle
        <5>3. CASE RecheckAndAnswer(r)
          <6>1. req'[r] = Idle \/ req'[r] = [req[r] EXCEPT !.at = "commit"]
            BY <3>1, <5>3 DEF RecheckAndAnswer, Finish, GoTo
          <6>2. served'[req[r].pair] # {} /\ req[r].at # "idle"
            BY <3>1, <5>3 DEF RecheckAndAnswer, Answer, At, TypeOK
          <6>3. [req[r] EXCEPT !.at = "commit"].pair = req[r].pair
            BY <4>2, <6>2
          <6>4. Idle.at # "commit"
            BY DEF Idle
          <6>. QED
            BY <6>1, <6>2, <6>3, <6>4
        <5>. QED
          BY <3>3, <5>1, <5>2, <5>3
      <4>4. \A s \in Requests \ {r} : req[s].at = "commit" => req[s].pair \in Pair
        BY RequestShape DEF TypeOK, Decided
      <4>. QED
        BY <3>1, <4>1, <4>3, <4>4 DEF ShownFirst
    <3>4. CASE Commit(r)
      <4>1. req[r].at = "commit" /\ req'[r] = Idle /\ served' = served
        BY <3>1, <3>4 DEF Commit, At, Finish
      <4>2. \A p \in Pair : rows'[p] # NoVariant => rows[p] # NoVariant \/ p = req[r].pair
        BY <3>1, <3>4 DEF Commit, TypeOK
      <4>3. rows' = [p \in Pair |-> rows'[p]]
        BY <3>1, <3>4 DEF Commit, TypeOK
      <4>. QED
        BY <3>1, <4>1, <4>2, <4>3 DEF ShownFirst, Idle
    <3>. QED
      BY <2>2, <3>2, <3>3, <3>4 DEF RequestStep, QuietStep
  <2>3. ASSUME NEW e \in Experiments, ChangeStatus(e) \/ ExpireExp(e)
        PROVE  ShownFirst'
    BY <2>3 DEF ChangeStatus, ExpireExp, ShownFirst
  <2>4. ASSUME NEW p \in Pair, ChangeHoldout(p) \/ ExpireAssign(p)
        PROVE  ShownFirst'
    BY <2>4 DEF ChangeHoldout, ExpireAssign, ShownFirst
  <2>5. CASE UNCHANGED vars
    BY <2>5 DEF vars, ShownFirst
  <2>. QED
    BY <2>1, <2>2, <2>3, <2>4, <2>5 DEF Next
<1>. QED
  BY <1>1, <1>2, TypeCorrect, AllCopiesAgree, PTL DEF Spec

-----------------------------------------------------------------------------
(***************************************************************************)
(* The refinement.                                                         *)
(***************************************************************************)
\* Names are not NoVariant, so a shown variant is told from none.
LEMMA NamesAreNotNone ==
    ASSUME NEW p \in Pair
    PROVE  NoVariant \notin Names(p[2])
<1>1. VariantsOf[p[2]] \subseteq Variant
  BY AssignmentAssumption DEF Pair
<1>. QED
  BY <1>1, NoVariantIsNoName DEF Names, Variant

\* What a pair was exposed to is its choice.
LEMMA ExposureIsChoice ==
    ASSUME TypeOK, Agreement, NEW p \in Pair
    PROVE  /\ served[p] = {} => exposure[p] = NoVariant
           /\ served[p] # {} => exposure[p] = Choice(p) /\ exposure[p] # NoVariant
                               /\ Choice(p) \in Names(p[2])
<1>1. served[p] # {} => served[p] = {Choice(p)} /\ Choice(p) \in Names(p[2])
  BY DEF TypeOK, Agreement
<1>2. NoVariant \notin Names(p[2])
  BY NamesAreNotNone
<1>3. exposure[p] = TheOne(served[p])
  BY DEF exposure
<1>4. TheOne({}) = NoVariant /\ TheOne({Choice(p)}) = Choice(p)
  BY DEF TheOne
<1>. QED
  BY <1>1, <1>2, <1>3, <1>4

\* Showing a variant is an Expose or a stuttering step.
LEMMA LoudStepExposes ==
    ASSUME TypeOK, Agreement, NEW r \in Requests,
           ReadAssignCache(r) \/ CacheExisting(r) \/ RecheckAndAnswer(r),
           TypeOK', Agreement'
    PROVE  [Sticky!Next]_(Sticky!vars)
<1>1. rows' = rows
  BY LoudSteps
<1>2. CASE served' = served
  BY <1>1, <1>2 DEF Sticky!vars, exposure
<1>3. CASE /\ req[r].pair \in Pair
           /\ served' = [served EXCEPT ![req[r].pair] = {Choice(req[r].pair)}]
  <2>. DEFINE p == req[r].pair
  <2>1. p \in Pair /\ served'[p] = {Choice(p)} /\ DOMAIN served = Pair
    BY <1>3 DEF TypeOK
  <2>2. served[p] \subseteq {Choice(p)}
    BY <1>3 DEF Agreement
  <2>3. CASE served[p] # {}
    <3>1. served[p] = {Choice(p)}
      BY <2>2, <2>3
    <3>2. \A q \in Pair : served'[q] = served[q]
      BY <1>3, <2>1, <3>1
    <3>3. exposure' = exposure
      BY <3>2 DEF exposure
    <3>. QED
      BY <1>1, <3>3 DEF Sticky!vars
  <2>4. CASE served[p] = {}
    <3>1. exposure[p] = NoVariant
      BY <2>1, <2>4, ExposureIsChoice
    <3>2. Choice(p) \in Names(p[2])
      BY <2>1 DEF TypeOK
    <3>3. exposure' = [exposure EXCEPT ![p] = Choice(p)]
      <4>1. TheOne({Choice(p)}) = Choice(p)
        BY DEF TheOne
      <4>2. \A q \in Pair : TheOne(served'[q]) = IF q = p THEN Choice(p) ELSE TheOne(served[q])
        BY <1>3, <2>1, <4>1
      <4>. QED
        BY <4>2 DEF exposure
    <3>4. Sticky!Expose(p)
      BY <1>1, <2>1, <3>1, <3>2, <3>3 DEF Sticky!Expose
    <3>. QED
      BY <2>1, <3>4 DEF Sticky!Next
  <2>. QED
    BY <2>3, <2>4
<1>. QED
  BY <1>2, <1>3, LoudSteps

\* Committing the row is a Record or a stuttering step.
LEMMA CommitRecords ==
    ASSUME TypeOK, Agreement, ShownFirst, NEW r \in Requests, Commit(r)
    PROVE  [Sticky!Next]_(Sticky!vars)
<1>. DEFINE p == req[r].pair
<1>1. p \in Pair /\ req[r].at = "commit"
  <2>1. RequestStep(r)
    BY DEF RequestStep
  <2>. QED
    BY <2>1, StepShape DEF Commit, At
<1>2. served' = served /\ exposure' = exposure
  BY DEF Commit, exposure
<1>3. req[r].variant = Choice(p)
  BY <1>1 DEF Agreement, Decided
<1>4. exposure[p] = Choice(p) /\ exposure[p] # NoVariant
  BY <1>1, ExposureIsChoice DEF ShownFirst
<1>5. CASE rows[p] = NoVariant
  <2>1. rows' = [rows EXCEPT ![p] = exposure[p]]
    BY <1>3, <1>4, <1>5 DEF Commit
  <2>2. Sticky!Record(p)
    BY <1>2, <1>4, <1>5, <2>1 DEF Sticky!Record
  <2>. QED
    BY <1>1, <2>2 DEF Sticky!Next
<1>6. CASE rows[p] # NoVariant
  <2>1. rows' = [rows EXCEPT ![p] = rows[p]]
    BY <1>6 DEF Commit
  <2>2. rows' = rows
    BY <1>1, <2>1 DEF ShownFirst
  <2>. QED
    BY <1>2, <2>2 DEF Sticky!vars
<1>. QED
  BY <1>5, <1>6

\* Whatever is cached, expired, lost or served concurrently, the users see an
\* assignment service without caches: a variant is shown once and for all,
\* and recorded later or never.
THEOREM ImplementsSticky == Spec => StickySpec
<1>1. Init => Sticky!Init
  BY DEF Init, Sticky!Init, exposure, TheOne
<1>2. /\ TypeOK /\ Agreement /\ ShownFirst /\ [Next]_vars
      /\ TypeOK' /\ Agreement'
      => [Sticky!Next]_(Sticky!vars)
  <2>. SUFFICES ASSUME TypeOK, Agreement, ShownFirst, [Next]_vars, TypeOK', Agreement'
                PROVE  [Sticky!Next]_(Sticky!vars)
    OBVIOUS
  <2>1. ASSUME rows' = rows, served' = served
        PROVE  [Sticky!Next]_(Sticky!vars)
    BY <2>1 DEF Sticky!vars, exposure
  <2>2. ASSUME NEW r \in Requests, RequestStep(r)
        PROVE  [Sticky!Next]_(Sticky!vars)
    BY <2>1, <2>2, QuietStores, LoudStepExposes, CommitRecords DEF RequestStep, QuietStep
  <2>3. CASE \/ \E r \in Requests, p \in Pair : Begin(r, p)
             \/ \E e \in Experiments : ChangeStatus(e) \/ ExpireExp(e)
             \/ \E p \in Pair : ChangeHoldout(p) \/ ExpireAssign(p)
             \/ UNCHANGED vars
    BY <2>1, <2>3 DEF Begin, ChangeStatus, ExpireExp, ChangeHoldout, ExpireAssign, vars
  <2>. QED
    BY <2>2, <2>3 DEF Next
<1>. QED
  BY <1>1, <1>2, TypeCorrect, AllCopiesAgree, ShownBeforeRecorded, PTL
     DEF Spec, StickySpec, Sticky!Spec

-----------------------------------------------------------------------------
(***************************************************************************)
(* Nothing that was shown or cached is silently missing from the table.    *)
(***************************************************************************)
\* A pair the table has, that was lost, or that somebody still writes.
Accounted(p) == rows[p] # NoVariant \/ p \in lost \/ Outstanding(p)

Written ==
    /\ \A p \in Pair : served[p] # {} \/ assignCache[p] # NoVariant => Accounted(p)
    /\ \A r \in Requests : req[r].at = "cache_existing" => rows[req[r].pair] # NoVariant

\* The table only grows, and so does what was lost.
LEMMA NothingForgotten ==
    ASSUME TypeOK, NEW r \in Requests, RequestStep(r)
    PROVE  /\ \A p \in Pair : rows[p] # NoVariant => rows'[p] # NoVariant
           /\ lost \subseteq lost'
<1>1. req[r].pair \in Pair
  BY StepShape
<1>2. CASE Commit(r)
  BY <1>1, <1>2 DEF Commit, TypeOK
<1>3. CASE ~Commit(r)
  BY <1>1, <1>3 DEF RequestStep, ReadAssignCache, ReadExpCache, LoadExperiment, FillExpCache,
     CheckHoldout, CheckExclusion, CheckMutex, CheckSegmentsAndRow, CacheExisting, CacheNew,
     RecheckAndAnswer, CommitFails, Fail
<1>. QED
  BY <1>2, <1>3

\* A request that has cached its assignment goes on until the row is there
\* or lost.
LEMMA WriterFinishes ==
    ASSUME TypeOK, NEW r \in Requests, RequestStep(r), req[r].at \in {"recheck", "commit"}
    PROVE  \/ rows'[req[r].pair] # NoVariant
           \/ req[r].pair \in lost'
           \/ req'[r].at = "commit" /\ req'[r].pair = req[r].pair
<1>1. req[r].pair \in Pair /\ RequestOK(req[r]) /\ DOMAIN req = Requests
  BY StepShape DEF TypeOK
<1>2. CASE RecheckAndAnswer(r)
  <2>1. CASE rows[req[r].pair] # NoVariant
    BY <1>2, <2>1 DEF RecheckAndAnswer
  <2>2. CASE rows[req[r].pair] = NoVariant
    <3>1. req'[r] = [req[r] EXCEPT !.at = "commit"]
      BY <1>1, <1>2, <2>2 DEF RecheckAndAnswer, GoTo
    <3>2. /\ [req[r] EXCEPT !.at = "commit"].at = "commit"
          /\ [req[r] EXCEPT !.at = "commit"].pair = req[r].pair
      BY <1>1, GoToField
    <3>. QED
      BY <3>1, <3>2
  <2>. QED
    BY <2>1, <2>2
<1>3. CASE Commit(r)
  <2>1. req[r].variant \in Names(req[r].pair[2])
    BY <1>1, RequestShape DEF Decided
  <2>2. req[r].variant # NoVariant
    BY <1>1, <2>1, NamesAreNotNone
  <2>. QED
    BY <1>1, <1>3, <2>2 DEF Commit, TypeOK
<1>4. CASE CommitFails(r) \/ Fail(r)
  BY <1>4 DEF CommitFails, Fail, At, Step
<1>5. CASE ~(RecheckAndAnswer(r) \/ Commit(r) \/ CommitFails(r) \/ Fail(r))
  BY <1>5 DEF RequestStep, ReadAssignCache, ReadExpCache, LoadExperiment, FillExpCache,
     CheckHoldout, CheckExclusion, CheckMutex, CheckSegmentsAndRow, CacheExisting, CacheNew, At
<1>. QED
  BY <1>2, <1>3, <1>4, <1>5

LEMMA StaysAccounted ==
    ASSUME TypeOK, NEW r \in Requests, RequestStep(r), NEW p \in Pair, Accounted(p)
    PROVE  Accounted(p)'
<1>1. \A s \in Requests \ {r} : req'[s] = req[s]
  BY StepShape, SlotUpdate
<1>2. CASE rows[p] # NoVariant \/ p \in lost
  BY <1>2, NothingForgotten DEF Accounted
<1>3. CASE Outstanding(p)
  <2>1. PICK s \in Requests : req[s].at \in {"recheck", "commit"} /\ req[s].pair = p
    BY <1>3 DEF Outstanding
  <2>2. CASE s = r
    BY <2>1, <2>2, WriterFinishes DEF Accounted, Outstanding
  <2>3. CASE s # r
    BY <1>1, <2>1, <2>3 DEF Accounted, Outstanding
  <2>. QED
    BY <2>2, <2>3
<1>. QED
  BY <1>2, <1>3 DEF Accounted

\* Only a row that was read leads to CacheExisting.
LEMMA ExistingIsRead ==
    ASSUME TypeOK, NEW r \in Requests, RequestStep(r), req'[r].at = "cache_existing"
    PROVE  rows'[req'[r].pair] # NoVariant
<1>1. req[r].pair \in Pair /\ RequestOK(req[r]) /\ DOMAIN req = Requests
  BY StepShape DEF TypeOK
<1>2. Idle.at # "cache_existing"
  BY DEF Idle
<1>3. CASE CheckSegmentsAndRow(r)
  <2>1. /\ rows' = rows
        /\ \/ req'[r] = Idle
           \/ /\ rows[req[r].pair] # NoVariant
              /\ req'[r].pair = req[r].pair
           \/ req'[r].at = "cache_new"
    BY <1>1, <1>3 DEF CheckSegmentsAndRow, Finish
  <2>. QED
    BY <1>2, <2>1
<1>4. CASE ReadExpCache(r) \/ FillExpCache(r)
  <2>1. CASE ReadExpCache(r) /\ ~expCache[req[r].pair[2]].cached
    <3>1. req'[r] = [req[r] EXCEPT !.at = "load"]
      BY <1>1, <2>1 DEF ReadExpCache, GoTo
    <3>2. [req[r] EXCEPT !.at = "load"].at = "load"
      BY <1>1, GoToField
    <3>. QED
      BY <3>1, <3>2
  <2>2. CASE ReadExpCache(r) /\ expCache[req[r].pair[2]].cached
    <3>1. expCache[req[r].pair[2]] \in ExpEntry(req[r].pair[2])
      BY <1>1, <2>2 DEF TypeOK, NotCached, Pair
    <3>2. Gate(r, expCache[req[r].pair[2]], "unread") /\ "unread" \in Group
      BY <2>2 DEF ReadExpCache, Group
    <3>3. PICK q : RequestOK(q) /\ req' = [req EXCEPT ![r] = q] /\ q.at \notin Decided
      BY <1>1, <3>1, <3>2, GateShape
    <3>. QED
      BY <1>1, <3>3 DEF Decided
  <2>3. CASE FillExpCache(r)
    <3>1. req[r].entry \in ExpEntry(req[r].pair[2]) /\ req[r].group \in Group
      BY <1>1, <2>3, RequestShape DEF FillExpCache, At
    <3>2. PICK q : RequestOK(q) /\ req' = [req EXCEPT ![r] = q] /\ q.at \notin Decided
      BY <1>1, <2>3, <3>1, GateShape DEF FillExpCache
    <3>. QED
      BY <1>1, <3>2 DEF Decided
  <2>. QED
    BY <1>4, <2>1, <2>2, <2>3
<1>5. CASE LoadExperiment(r)
  BY <1>1, <1>5 DEF LoadExperiment
<1>6. CASE ~(\/ CheckSegmentsAndRow(r) \/ ReadExpCache(r) \/ FillExpCache(r)
             \/ LoadExperiment(r))
  <2>. DEFINE steps == {"exp_cache", "exclusion", "mutex", "segments", "recheck", "commit"}
  <2>1. \/ req'[r] = Idle
        \/ \E step \in steps : req'[r] = [req[r] EXCEPT !.at = step]
    BY <1>1, <1>6 DEF RequestStep, ReadAssignCache, CheckHoldout, CheckExclusion, CheckMutex,
       CacheExisting,
       CacheNew, RecheckAndAnswer, Commit, CommitFails, Fail, GoTo, Finish, AfterHoldout
  <2>2. ASSUME NEW step \in steps, req'[r] = [req[r] EXCEPT !.at = step]
        PROVE  FALSE
    <3>1. [req[r] EXCEPT !.at = step].at = step
      BY <1>1, GoToField
    <3>. QED
      BY <2>2, <3>1
  <2>. QED
    BY <1>2, <2>1, <2>2
<1>. QED
  BY <1>3, <1>4, <1>5, <1>6

\* What a request shows or caches is accounted for.
LEMMA NewIsAccounted ==
    ASSUME TypeOK, Written, NEW r \in Requests, RequestStep(r), NEW p \in Pair,
           served'[p] # {} \/ assignCache'[p] # NoVariant
    PROVE  Accounted(p)'
<1>1. req[r].pair \in Pair /\ RequestOK(req[r]) /\ DOMAIN req = Requests
  BY StepShape DEF TypeOK
<1>2. CASE CacheNew(r) /\ p = req[r].pair
  <2>1. req'[r] = [req[r] EXCEPT !.at = "recheck"]
    BY <1>1, <1>2 DEF CacheNew, GoTo
  <2>2. req[r].at # "idle"
    BY <1>2 DEF CacheNew, At
  <2>3. /\ [req[r] EXCEPT !.at = "recheck"].at = "recheck"
        /\ [req[r] EXCEPT !.at = "recheck"].pair = req[r].pair
    BY <1>1, <2>2, GoToField
  <2>. QED
    BY <1>2, <2>1, <2>3 DEF Accounted, Outstanding
<1>3. CASE CacheExisting(r) /\ p = req[r].pair
  <2>1. rows[p] # NoVariant
    BY <1>3 DEF CacheExisting, At, Written
  <2>. QED
    BY <2>1, StaysAccounted DEF Accounted
<1>4. CASE RecheckAndAnswer(r) /\ p = req[r].pair
  <2>1. Outstanding(p)
    BY <1>4 DEF RecheckAndAnswer, At, Outstanding
  <2>. QED
    BY <2>1, StaysAccounted DEF Accounted
<1>5. CASE ~((CacheNew(r) \/ CacheExisting(r) \/ RecheckAndAnswer(r)) /\ p = req[r].pair)
  <2>1. served[p] # {} \/ assignCache[p] # NoVariant
    <3>1. CASE ReadAssignCache(r)
      BY <1>1, <3>1 DEF ReadAssignCache, Answer, TypeOK
    <3>2. CASE CacheNew(r) \/ CacheExisting(r) \/ RecheckAndAnswer(r)
      BY <1>1, <1>5, <3>2 DEF CacheNew, CacheExisting, RecheckAndAnswer, Answer, TypeOK
    <3>3. CASE ~(\/ ReadAssignCache(r) \/ CacheNew(r) \/ CacheExisting(r)
                 \/ RecheckAndAnswer(r))
      BY <3>3 DEF RequestStep, ReadExpCache, LoadExperiment, FillExpCache, CheckHoldout,
         CheckExclusion, CheckMutex, CheckSegmentsAndRow, Commit, CommitFails, Fail
    <3>. QED
      BY <3>1, <3>2, <3>3
  <2>. QED
    BY <2>1, StaysAccounted DEF Written
<1>. QED
  BY <1>2, <1>3, <1>4, <1>5

\* A variant that was shown or cached has a row, unless a write was lost or
\* is still to come.
THEOREM NothingUnwritten == Spec => []ServedIsWritten
<1>1. Init => Written
  BY DEF Init, Written, Idle
<1>2. TypeOK /\ Written /\ [Next]_vars => Written'
  <2>. SUFFICES ASSUME TypeOK, Written, [Next]_vars
                PROVE  Written'
    OBVIOUS
  <2>1. ASSUME NEW r \in Requests, NEW p \in Pair, Begin(r, p)
        PROVE  Written'
    <3>1. /\ req'[r] = [at |-> "assign_cache", pair |-> p]
          /\ \A s \in Requests \ {r} : req'[s] = req[s]
          /\ req[r].at = "idle"
      BY <2>1 DEF Begin, At, TypeOK
    <3>2. UNCHANGED <<assignCache, rows, served, lost>>
      BY <2>1 DEF Begin
    <3>3. \A q : Outstanding(q) => Outstanding(q)'
      BY <3>1 DEF Outstanding
    <3>. QED
      BY <3>1, <3>2, <3>3 DEF Written, Accounted
  <2>2. ASSUME NEW r \in Requests, RequestStep(r)
        PROVE  Written'
    <3>1. \A p \in Pair : served'[p] # {} \/ assignCache'[p] # NoVariant => Accounted(p)'
      BY <2>2, NewIsAccounted
    <3>2. ASSUME NEW s \in Requests, req'[s].at = "cache_existing"
          PROVE  rows'[req'[s].pair] # NoVariant
      <4>1. CASE s = r
        BY <2>2, <3>2, <4>1, ExistingIsRead
      <4>2. CASE s # r
        <5>1. req'[s] = req[s]
          BY <2>2, <4>2, StepShape, SlotUpdate
        <5>2. req[s].pair \in Pair
          BY <3>2, <5>1, RequestShape DEF TypeOK, Decided
        <5>. QED
          BY <2>2, <3>2, <5>1, <5>2, NothingForgotten DEF Written
      <4>. QED
        BY <4>1, <4>2
    <3>. QED
      BY <3>1, <3>2 DEF Written
  <2>3. ASSUME NEW e \in Experiments, ChangeStatus(e) \/ ExpireExp(e)
        PROVE  Written'
    BY <2>3 DEF ChangeStatus, ExpireExp, Written, Accounted, Outstanding
  <2>4. ASSUME NEW p \in Pair, ChangeHoldout(p)
        PROVE  Written'
    BY <2>4 DEF ChangeHoldout, Written, Accounted, Outstanding
  <2>5. ASSUME NEW p \in Pair, ExpireAssign(p)
        PROVE  Written'
    <3>1. \A q \in Pair : assignCache'[q] # NoVariant => assignCache[q] # NoVariant
      BY <2>5 DEF ExpireAssign, TypeOK
    <3>2. UNCHANGED <<rows, served, lost, req>>
      BY <2>5 DEF ExpireAssign
    <3>. QED
      BY <3>1, <3>2 DEF Written, Accounted, Outstanding
  <2>6. CASE UNCHANGED vars
    BY <2>6 DEF vars, Written, Accounted, Outstanding
  <2>. QED
    BY <2>1, <2>2, <2>3, <2>4, <2>5, <2>6 DEF Next
<1>3. Written => ServedIsWritten
  BY DEF Written, Accounted, ServedIsWritten
<1>. QED
  BY <1>1, <1>2, <1>3, TypeCorrect, PTL DEF Spec

-----------------------------------------------------------------------------
(***************************************************************************)
(* Who is kept out: of stopped experiments, by a holdout, by a mutex       *)
(* group.  First where a step of a request leads, and what it touches.     *)
(***************************************************************************)
LEMMA GateMoves ==
    ASSUME TypeOK, NEW r \in Requests, NEW entry, NEW group, Gate(r, entry, group),
           req[r].pair \in Pair
    PROVE  \/ req'[r] = Idle
           \/ /\ entry.live
              /\ req'[r].pair = req[r].pair
              /\ req'[r].at = AfterStatus(req[r].pair[2])
              /\ req'[r].group = group
<1>1. DOMAIN req = Requests
  BY DEF TypeOK
<1>. QED
  BY <1>1 DEF Gate, PassesStatus, Finish

\* From where to where a request goes, unless it ends, and what it has seen.
Moves(r) ==
    LET from == req[r].at
        to   == req'[r].at
        p    == req[r].pair
        e    == req[r].pair[2]
    IN \/ from = "assign_cache" /\ to = "exp_cache"
       \/ from = "exp_cache" /\ to = "load"
       \/ /\ from = "exp_cache" /\ expCache[e].cached /\ expCache[e].live
          /\ to = AfterStatus(e) /\ req'[r].group = "unread"
       \/ /\ from = "load" /\ to = "fill" /\ (req'[r].entry.live => status[e] = "running")
          /\ p \in held => req'[r].group = "holds"
       \/ /\ from = "fill" /\ req[r].entry.live
          /\ to = AfterStatus(e) /\ req'[r].group = req[r].group
       \/ from = "holdout" /\ GroupHolds(req[r]) /\ to = "exclusion"
       \/ from = "holdout" /\ ~GroupHolds(req[r]) /\ to = AfterHoldout(e)
       \/ from = "exclusion" /\ p \in excluded /\ to = AfterHoldout(e)
       \/ from = "mutex" /\ ~MutexConflict(p) /\ to = "segments"
       \/ from = "segments" /\ to \in {"cache_existing", "cache_new"}
       \/ from = "cache_new" /\ to = "recheck"
       \/ from = "recheck" /\ to = "commit"

LEMMA StepMoves ==
    ASSUME TypeOK, NEW r \in Requests, RequestStep(r)
    PROVE  \/ req'[r] = Idle
           \/ req'[r].pair = req[r].pair /\ Moves(r)
<1>1. req[r].pair \in Pair /\ RequestOK(req[r]) /\ DOMAIN req = Requests
  BY StepShape DEF TypeOK
<1>2. \A step : /\ [req[r] EXCEPT !.at = step].at = step
                /\ req[r].at # "idle" => [req[r] EXCEPT !.at = step].pair = req[r].pair
  BY <1>1, GoToField
<1>3. CASE ReadExpCache(r)
  <2>. DEFINE entry == expCache[req[r].pair[2]]
  <2>1. CASE entry.cached
    <3>1. Gate(r, entry, "unread")
      BY <1>3, <2>1 DEF ReadExpCache
    <3>. QED
      BY <1>1, <1>3, <2>1, <3>1, GateMoves DEF ReadExpCache, At, Moves
  <2>2. CASE ~entry.cached
    <3>1. req'[r] = [req[r] EXCEPT !.at = "load"] /\ req[r].at = "exp_cache"
      BY <1>1, <1>3, <2>2 DEF ReadExpCache, GoTo, At
    <3>. QED
      BY <1>2, <3>1 DEF Moves
  <2>. QED
    BY <2>1, <2>2
<1>4. CASE FillExpCache(r)
  BY <1>1, <1>4, GateMoves DEF FillExpCache, At, Moves
<1>5. CASE LoadExperiment(r)
  <2>. DEFINE entry(vs) == [cached |-> TRUE, live |-> status[req[r].pair[2]] = "running",
                            variants |-> vs]
              group == IF req[r].pair \in held THEN "holds" ELSE "passes"
  <2>1. PICK vs \in Orders(req[r].pair[2]) :
          req'[r] = [at |-> "fill", pair |-> req[r].pair, entry |-> entry(vs),
                     group |-> group]
    BY <1>1, <1>5 DEF LoadExperiment
  <2>2. req[r].at = "load"
    BY <1>5 DEF LoadExperiment, At
  <2>3. /\ req'[r].at = "fill" /\ req'[r].pair = req[r].pair
        /\ req'[r].entry = entry(vs) /\ req'[r].group = group
    BY <2>1
  <2>4. entry(vs).live => status[req[r].pair[2]] = "running"
    BY Zenon
  <2>. QED
    BY <2>2, <2>3, <2>4 DEF Moves
<1>6. CASE CheckSegmentsAndRow(r)
  BY <1>1, <1>6 DEF CheckSegmentsAndRow, At, Moves, Finish
<1>7. CASE ReadAssignCache(r) \/ CacheNew(r) \/ RecheckAndAnswer(r)
  <2>1. \/ req'[r] = Idle
        \/ req[r].at = "assign_cache" /\ req'[r] = [req[r] EXCEPT !.at = "exp_cache"]
        \/ req[r].at = "cache_new" /\ req'[r] = [req[r] EXCEPT !.at = "recheck"]
        \/ req[r].at = "recheck" /\ req'[r] = [req[r] EXCEPT !.at = "commit"]
    BY <1>1, <1>7 DEF ReadAssignCache, CacheNew, RecheckAndAnswer, At, GoTo, Finish
  <2>2. ASSUME req'[r] # Idle
        PROVE  /\ req'[r].pair = req[r].pair
               /\ \/ req[r].at = "assign_cache" /\ req'[r].at = "exp_cache"
                  \/ req[r].at = "cache_new" /\ req'[r].at = "recheck"
                  \/ req[r].at = "recheck" /\ req'[r].at = "commit"
    BY <1>2, <2>1, <2>2
  <2>. QED
    BY <2>2 DEF Moves
<1>8. CASE CheckHoldout(r) \/ CheckExclusion(r)
  <2>1. \/ req'[r] = Idle
        \/ /\ req[r].at = "holdout" /\ GroupHolds(req[r])
           /\ req'[r] = [req[r] EXCEPT !.at = "exclusion"]
        \/ /\ req[r].at = "holdout" /\ ~GroupHolds(req[r])
           /\ req'[r] = [req[r] EXCEPT !.at = AfterHoldout(req[r].pair[2])]
        \/ /\ req[r].at = "exclusion" /\ req[r].pair \in excluded
           /\ req'[r] = [req[r] EXCEPT !.at = AfterHoldout(req[r].pair[2])]
    BY <1>1, <1>8 DEF CheckHoldout, CheckExclusion, At, GoTo, Finish
  <2>2. ASSUME req'[r] # Idle
        PROVE  /\ req'[r].pair = req[r].pair
               /\ \/ /\ req[r].at = "holdout" /\ GroupHolds(req[r])
                     /\ req'[r].at = "exclusion"
                  \/ /\ req[r].at = "holdout" /\ ~GroupHolds(req[r])
                     /\ req'[r].at = AfterHoldout(req[r].pair[2])
                  \/ /\ req[r].at = "exclusion" /\ req[r].pair \in excluded
                     /\ req'[r].at = AfterHoldout(req[r].pair[2])
    BY <1>2, <2>1, <2>2
  <2>. QED
    BY <2>2 DEF Moves
<1>9. CASE CheckMutex(r)
  <2>1. /\ req[r].at = "mutex"
        /\ \/ req'[r] = Idle
           \/ ~MutexConflict(req[r].pair) /\ req'[r] = [req[r] EXCEPT !.at = "segments"]
    BY <1>1, <1>9 DEF CheckMutex, At, GoTo, Finish
  <2>2. ASSUME req'[r] # Idle
        PROVE  /\ req'[r].pair = req[r].pair /\ ~MutexConflict(req[r].pair)
               /\ req'[r].at = "segments"
    BY <1>2, <2>1, <2>2
  <2>. QED
    BY <2>1, <2>2 DEF Moves
<1>10. CASE CacheExisting(r) \/ Commit(r) \/ CommitFails(r) \/ Fail(r)
  BY <1>1, <1>10 DEF CacheExisting, Commit, CommitFails, Fail, Finish
<1>. QED
  BY <1>3, <1>4, <1>5, <1>6, <1>7, <1>8, <1>9, <1>10 DEF RequestStep

\* A request writes under its own keys, and each store at few of its steps.
LEMMA StepWrites ==
    ASSUME TypeOK, NEW r \in Requests, RequestStep(r)
    PROVE  /\ UNCHANGED <<status, held, excluded>>
           /\ \A p \in Pair : rows'[p] # rows[p] => req[r].at = "commit" /\ req[r].pair = p
           /\ \A p \in Pair : assignCache'[p] # assignCache[p]
                => req[r].at \in {"cache_existing", "cache_new"} /\ req[r].pair = p
           /\ \A p \in Pair : served'[p] # served[p]
                => /\ req[r].pair = p
                   /\ \/ req[r].at \in {"cache_existing", "recheck"}
                      \/ req[r].at = "assign_cache" /\ assignCache[p] # NoVariant
           /\ \A e \in Experiments : expCache'[e] # expCache[e]
                => req[r].at = "fill" /\ req[r].pair[2] = e /\ expCache'[e] = req[r].entry
<1>1. req[r].pair \in Pair
  BY StepShape
<1>2. CASE ReadAssignCache(r)
  BY <1>1, <1>2 DEF ReadAssignCache, Answer, At, TypeOK
<1>3. CASE FillExpCache(r)
  BY <1>1, <1>3 DEF FillExpCache, At, TypeOK, Pair
<1>4. CASE CacheExisting(r)
  BY <1>1, <1>4 DEF CacheExisting, Answer, At, TypeOK
<1>5. CASE CacheNew(r)
  BY <1>1, <1>5 DEF CacheNew, At, TypeOK
<1>6. CASE RecheckAndAnswer(r)
  BY <1>1, <1>6 DEF RecheckAndAnswer, Answer, At, TypeOK
<1>7. CASE Commit(r)
  BY <1>1, <1>7 DEF Commit, At, TypeOK
<1>8. CASE ReadExpCache(r) \/ LoadExperiment(r) \/ CheckHoldout(r) \/ CheckExclusion(r)
           \/ CheckMutex(r)
           \/ CheckSegmentsAndRow(r) \/ CommitFails(r) \/ Fail(r)
  BY <1>8 DEF ReadExpCache, LoadExperiment, CheckHoldout, CheckExclusion, CheckMutex,
     CheckSegmentsAndRow, CommitFails, Fail
<1>. QED
  BY <1>2, <1>3, <1>4, <1>5, <1>6, <1>7, <1>8 DEF RequestStep

\* The other steps: those of the administrators, of the TTLs, and Begin.
LEMMA OtherSteps ==
    ASSUME TypeOK, [Next]_vars, ~\E r \in Requests : RequestStep(r)
    PROVE  /\ UNCHANGED <<rows, served>>
           /\ \A p \in Pair : assignCache'[p] # assignCache[p] => assignCache'[p] = NoVariant
           /\ \A e \in Experiments : expCache'[e] # expCache[e] => expCache'[e] = NotCached
           /\ \A r \in Requests : req'[r] # req[r] => req'[r].at = "assign_cache"
<1>1. ASSUME NEW r \in Requests, NEW p \in Pair, Begin(r, p)
      PROVE  /\ UNCHANGED <<rows, served, assignCache, expCache>>
             /\ \A s \in Requests : req'[s] # req[s] => req'[s].at = "assign_cache"
  BY <1>1 DEF Begin, TypeOK
<1>2. ASSUME NEW e \in Experiments, ExpireExp(e)
      PROVE  /\ UNCHANGED <<rows, served, assignCache, req>>
             /\ \A f \in Experiments : expCache'[f] # expCache[f] => expCache'[f] = NotCached
  BY <1>2 DEF ExpireExp, TypeOK
<1>3. ASSUME NEW p \in Pair, ExpireAssign(p)
      PROVE  /\ UNCHANGED <<rows, served, expCache, req>>
             /\ \A q \in Pair : assignCache'[q] # assignCache[q] => assignCache'[q] = NoVariant
  BY <1>3 DEF ExpireAssign, TypeOK
<1>4. CASE \/ \E e \in Experiments : ChangeStatus(e)
           \/ \E p \in Pair : ChangeHoldout(p)
           \/ UNCHANGED vars
  BY <1>4 DEF ChangeStatus, ChangeHoldout, vars
<1>. QED
  BY <1>1, <1>2, <1>3, <1>4 DEF Next

\* Which steps follow the status check.
LEMMA AfterStatusIs ==
    ASSUME NEW e
    PROVE  /\ AfterStatus(e) \in {"holdout", "mutex", "segments"}
           /\ AfterHoldout(e) \in {"mutex", "segments"}
           /\ e \in Linked => AfterStatus(e) = "holdout"
           /\ "segments" \in {AfterStatus(e), AfterHoldout(e)} => MutexGroupOf[e] = NoGroup
BY DEF AfterStatus, AfterHoldout

\* Once no copy of RUNNING is left, a stopped experiment records nobody until
\* it is started again (get_or_create_assignment checks the cached status).
THEOREM StoppedExperimentsStayStopped == Spec => StoppedStaysStopped
<1>1. ASSUME TypeOK, [Next]_vars, NEW e \in Experiments, Drained(e), status'[e] # "running"
      PROVE  Drained(e)' /\ \A u \in Users : rows'[<<u, e>>] = rows[<<u, e>>]
  <2>1. \A u \in Users : <<u, e>> \in Pair
    BY DEF Pair
  <2>2. NotCached.cached = FALSE
    BY DEF NotCached
  <2>3. CASE \E r \in Requests : RequestStep(r)
    <3>1. PICK r \in Requests : RequestStep(r)
      BY <2>3
    <3>2. /\ \A s \in Requests \ {r} : req'[s] = req[s]
          /\ req[r].pair \in Pair /\ req[r].at # "idle"
      <4>1. RequestOK(req[r]) /\ req[r].pair \in Pair
        BY <1>1, <3>1, StepShape
      <4>2. req[r].at # "idle"
        BY <3>1 DEF RequestStep, ReadAssignCache, ReadExpCache, LoadExperiment, FillExpCache,
           CheckHoldout, CheckExclusion, CheckMutex, CheckSegmentsAndRow, CacheExisting,
              CacheNew, RecheckAndAnswer, Commit, CommitFails, Fail, At, Step
      <4>. QED
        BY <1>1, <3>1, <4>1, <4>2, StepShape, SlotUpdate
    <3>3. /\ req[r].pair[2] = e => req[r].at \notin Admitted
          /\ req[r].pair[2] = e /\ req[r].at = "fill" => ~req[r].entry.live
      BY <1>1, <3>2 DEF Drained, OnExperiment
    <3>4. \A u \in Users : rows'[<<u, e>>] = rows[<<u, e>>]
      BY <1>1, <2>1, <3>1, <3>3, StepWrites DEF Admitted
    <3>5. ~(expCache'[e].cached /\ expCache'[e].live)
      BY <1>1, <3>1, <3>3, StepWrites DEF Drained
    <3>6. ASSUME NEW s \in Requests, OnExperiment(s, e)'
          PROVE  req'[s].at \notin Admitted /\ (req'[s].at = "fill" => ~req'[s].entry.live)
      <4>1. CASE s # r
        BY <1>1, <3>2, <3>6, <4>1 DEF Drained, OnExperiment
      <4>2. CASE s = r
        <5>1. req'[r].pair = req[r].pair /\ Moves(r)
          BY <1>1, <3>1, <3>6, <4>2, StepMoves DEF OnExperiment, Idle
        <5>2. req[r].pair[2] = e
          BY <3>6, <4>2, <5>1 DEF OnExperiment
        <5>3. status[e] # "running" /\ ~(expCache[e].cached /\ expCache[e].live)
          BY <1>1 DEF Drained
        <5>. QED
          BY <3>3, <4>2, <5>1, <5>2, <5>3 DEF Moves, Admitted
      <4>. QED
        BY <4>1, <4>2
    <3>. QED
      BY <1>1, <3>4, <3>5, <3>6 DEF Drained
  <2>4. CASE ~\E r \in Requests : RequestStep(r)
    <3>1. rows' = rows /\ ~(expCache'[e].cached /\ expCache'[e].live)
      BY <1>1, <2>2, <2>4, OtherSteps DEF Drained
    <3>2. ASSUME NEW s \in Requests, OnExperiment(s, e)'
          PROVE  req'[s].at \notin Admitted /\ (req'[s].at = "fill" => ~req'[s].entry.live)
      <4>1. req'[s] = req[s] \/ req'[s].at = "assign_cache"
        BY <1>1, <2>4, OtherSteps
      <4>2. CASE req'[s] = req[s]
        BY <1>1, <3>2, <4>2 DEF Drained, OnExperiment
      <4>. QED
        BY <4>1, <4>2 DEF Admitted
    <3>. QED
      BY <1>1, <3>1, <3>2 DEF Drained
  <2>. QED
    BY <2>3, <2>4
<1>2. TypeOK /\ [Next]_vars
        => [\A e \in Experiments : Drained(e) /\ status'[e] # "running"
              => /\ Drained(e)'
                 /\ \A u \in Users : rows'[<<u, e>>] = rows[<<u, e>>]]_vars
  BY <1>1
<1>. QED
  BY <1>2, TypeCorrect, PTL DEF Spec, StoppedStaysStopped

\* A user in the holdout with nothing cached, no request past the check and
\* none that has loaded the group from before is shown nothing and not recorded
\* (is_user_in_any_linked_holdout is asked on every request that finds no
\* assignment in Redis).
THEOREM HoldoutsKeepOut == Spec => HoldoutKeepsOut
<1>. DEFINE Past == Admitted \ {"holdout", "exclusion"}
            OK(q) == /\ q.at \notin Past
                     /\ q.at \in {"fill", "holdout"} => q.group # "passes"
<1>1. ASSUME TypeOK, [Next]_vars, NEW p \in Users \X Linked, KeptOut(p), InHoldout(p)'
      PROVE  KeptOut(p)' /\ served'[p] = served[p] /\ rows'[p] = rows[p]
  <2>1. p \in Pair /\ p[2] \in Linked /\ p \in held /\ p \notin excluded
    BY <1>1, AssignmentAssumption DEF Pair, KeptOut, InHoldout
  <2>2. \A s \in Requests : req[s].at # "idle" /\ req[s].pair = p => OK(req[s])
    BY <1>1 DEF KeptOut
  <2>3. CASE \E r \in Requests : RequestStep(r)
    <3>1. PICK r \in Requests : RequestStep(r)
      BY <2>3
    <3>2. /\ \A s \in Requests \ {r} : req'[s] = req[s]
          /\ req[r].at \in Past => req[r].pair # p
          /\ assignCache[p] = NoVariant
      BY <1>1, <2>2, <3>1, StepShape, SlotUpdate DEF KeptOut, Admitted
    <3>3. assignCache'[p] = NoVariant /\ served'[p] = served[p] /\ rows'[p] = rows[p]
      BY <1>1, <2>1, <3>1, <3>2, StepWrites DEF Admitted
    <3>4. ASSUME NEW s \in Requests, req'[s].at # "idle", req'[s].pair = p
          PROVE  OK(req'[s])
      <4>1. CASE s # r
        BY <2>2, <3>2, <3>4, <4>1
      <4>2. CASE s = r
        <5>1. req[r].pair = p /\ Moves(r)
          BY <1>1, <3>1, <3>4, <4>2, StepMoves DEF Idle
        <5>2. AfterStatus(p[2]) = "holdout"
          BY <2>1, AfterStatusIs
        <5>3. req[r].at \in {"fill",
           "holdout"} => req[r].group # "passes" /\ req[r].group \in Group
          <6>1. RequestOK(req[r])
            BY <1>1 DEF TypeOK
          <6>. QED
            BY <2>2, <5>1, <6>1, RequestShape DEF Checks
        <5>4. req[r].at = "holdout" => GroupHolds(req[r])
          BY <2>1, <5>1, <5>3 DEF GroupHolds, Group
        <5>5. req[r].at \notin Past
          BY <3>2, <5>1
        <5>6. \/ req'[r].at \in {"exp_cache", "load", "exclusion"}
              \/ req'[r].at \in {"fill", "holdout"} /\ req'[r].group # "passes"
          BY <2>1, <5>1, <5>2, <5>3, <5>4, <5>5 DEF Moves, Admitted
        <5>. QED
          BY <4>2, <5>6 DEF Admitted
      <4>. QED
        BY <4>1, <4>2
    <3>. QED
      BY <1>1, <3>3, <3>4 DEF KeptOut
  <2>4. CASE ~\E r \in Requests : RequestStep(r)
    <3>1. served' = served /\ rows' = rows /\ assignCache'[p] = NoVariant
      BY <1>1, <2>1, <2>4, OtherSteps DEF KeptOut
    <3>2. ASSUME NEW s \in Requests, req'[s].at # "idle", req'[s].pair = p
          PROVE  OK(req'[s])
      <4>1. req'[s] = req[s] \/ req'[s].at = "assign_cache"
        BY <1>1, <2>4, OtherSteps
      <4>. QED
        BY <2>2, <3>2, <4>1 DEF Admitted
    <3>. QED
      BY <1>1, <3>1, <3>2 DEF KeptOut
  <2>. QED
    BY <2>3, <2>4
<1>2. TypeOK /\ [Next]_vars
        => [\A p \in Users \X Linked : KeptOut(p) /\ InHoldout(p)'
              => KeptOut(p)' /\ served'[p] = served[p] /\ rows'[p] = rows[p]]_vars
  BY <1>1
<1>. QED
  BY <1>2, TypeCorrect, PTL DEF Spec, HoldoutKeepsOut

\* No two requests of a user are in flight together.
OneAtATime ==
    \A r, s \in Requests :
        /\ req[r].at # "idle" /\ req[s].at # "idle"
        /\ req[r].pair[1] = req[s].pair[1]
        => r = s

\* A request past the mutex check: its user is in no other experiment of the
\* group.
NoConflict(r) ==
    req[r].at \in {"segments", "cache_existing", "cache_new", "recheck", "commit"}
        => \A q \in Pair : SameGroup(req[r].pair, q) => rows[q] = NoVariant

MutexInv == MutexExclusive /\ \A r \in Requests : NoConflict(r)

\* A request that passes the check, or whose experiment is in no group.
LEMMA CheckFindsNoConflict ==
    ASSUME TypeOK, NEW r \in Requests, NoConflict(r), RequestStep(r), rows' = rows
    PROVE  NoConflict(r)'
<1>1. req[r].pair \in Pair
  BY StepShape
<1>2. CASE req'[r] = Idle
  BY <1>2 DEF NoConflict, Idle
<1>3. CASE req'[r].pair = req[r].pair /\ Moves(r)
  <2>1. CASE req[r].at \in {"segments", "cache_existing", "cache_new", "recheck", "commit"}
    BY <1>3, <2>1 DEF NoConflict, SameGroup
  <2>2. CASE req[r].at = "mutex" /\ ~MutexConflict(req[r].pair)
    <3>1. ASSUME NEW q \in Pair, SameGroup(req[r].pair, q) PROVE rows[q] = NoVariant
      <4>1. /\ q = <<req[r].pair[1], q[2]>> /\ q[2] \in Experiments \ {req[r].pair[2]}
            /\ MutexGroupOf[q[2]] = MutexGroupOf[req[r].pair[2]]
        BY <1>1, <3>1 DEF SameGroup, Pair
      <4>. QED
        BY <2>2, <4>1 DEF MutexConflict
    <3>. QED
      BY <1>3, <3>1 DEF NoConflict, SameGroup
  <2>3. CASE req'[r].at \in {AfterStatus(req[r].pair[2]), AfterHoldout(req[r].pair[2])}
    BY <1>3, <2>3, AfterStatusIs DEF NoConflict, SameGroup
  <2>. QED
    BY <1>3, <2>1, <2>2, <2>3 DEF Moves, NoConflict
<1>. QED
  BY <1>2, <1>3, StepMoves

\* A row appears where its user has none in the group, and the user has no
\* other request that relies on there being none.
LEMMA CommitKeepsGroup ==
    ASSUME TypeOK, MutexInv, OneAtATime, NEW r \in Requests, RequestStep(r), rows' # rows
    PROVE  MutexInv'
<1>. DEFINE p == req[r].pair
<1>1. p \in Pair /\ DOMAIN req = Requests
  BY StepShape DEF TypeOK
<1>2. /\ req[r].at = "commit" /\ req'[r] = Idle
      /\ \A q \in Pair \ {p} : rows'[q] = rows[q]
  <2>1. Commit(r)
    BY DEF RequestStep, ReadAssignCache, ReadExpCache, LoadExperiment, FillExpCache,
       CheckHoldout, CheckExclusion, CheckMutex, CheckSegmentsAndRow, CacheExisting, CacheNew,
       RecheckAndAnswer, CommitFails, Fail
  <2>. QED
    BY <1>1, <2>1 DEF Commit, At, Finish, TypeOK
<1>3. \A q \in Pair : SameGroup(p, q) => rows[q] = NoVariant
  BY <1>2 DEF MutexInv, NoConflict
<1>4. MutexExclusive'
  BY <1>1, <1>2, <1>3 DEF MutexInv, MutexExclusive, SameGroup
<1>5. ASSUME NEW s \in Requests PROVE NoConflict(s)'
  <2>1. CASE s = r
    BY <1>2, <2>1 DEF NoConflict, Idle
  <2>2. CASE s # r
    <3>1. req'[s] = req[s]
      BY <2>2, StepShape, SlotUpdate
    <3>2. req[s].at # "idle" => req[s].pair[1] # p[1]
      BY <1>2, <2>2 DEF OneAtATime
    <3>3. NoConflict(s)
      BY DEF MutexInv
    <3>. QED
      BY <1>2, <3>1, <3>2, <3>3 DEF NoConflict, SameGroup
  <2>. QED
    BY <2>1, <2>2
<1>. QED
  BY <1>4, <1>5 DEF MutexInv

\* While requests of a user do not overlap, whatever those of other users do,
\* the user has a row in at most one experiment of a mutex group, and was shown
\* variants of two only if a write was lost (_check_mutex_conflict).
THEOREM MutexGroupsAreKept == Spec /\ []OneAtATime => []MutexKept
<1>1. Init => MutexInv
  BY DEF Init, MutexInv, MutexExclusive, NoConflict, Idle
<1>2. TypeOK /\ MutexInv /\ OneAtATime /\ [Next]_vars => MutexInv'
  <2>. SUFFICES ASSUME TypeOK, MutexInv, OneAtATime, [Next]_vars
                PROVE  MutexInv'
    OBVIOUS
  <2>1. ASSUME NEW r \in Requests, RequestStep(r), rows' = rows
        PROVE  MutexInv'
    <3>1. ASSUME NEW s \in Requests \ {r} PROVE NoConflict(s)'
      <4>1. req'[s] = req[s]
        BY <2>1, StepShape, SlotUpdate
      <4>. QED
        BY <2>1, <4>1 DEF MutexInv, NoConflict, SameGroup
    <3>2. NoConflict(r)'
      BY <2>1, CheckFindsNoConflict DEF MutexInv
    <3>3. MutexExclusive'
      BY <2>1 DEF MutexInv, MutexExclusive, SameGroup
    <3>. QED
      BY <3>1, <3>2, <3>3 DEF MutexInv
  <2>2. ASSUME ~\E r \in Requests : RequestStep(r)
        PROVE  MutexInv'
    <3>1. rows' = rows /\ \A r \in Requests : req'[r] = req[r] \/ req'[r].at = "assign_cache"
      BY <2>2, OtherSteps
    <3>2. MutexExclusive'
      BY <3>1 DEF MutexInv, MutexExclusive, SameGroup
    <3>3. ASSUME NEW r \in Requests PROVE NoConflict(r)'
      BY <3>1 DEF MutexInv, NoConflict, SameGroup
    <3>. QED
      BY <3>2, <3>3 DEF MutexInv
  <2>. QED
    BY <2>1, <2>2, CommitKeepsGroup
<1>3. TypeOK /\ MutexInv /\ ServedIsWritten /\ OneAtATime => MutexKept
  <2>. SUFFICES ASSUME TypeOK, MutexInv, ServedIsWritten, OneAtATime,
                       NEW p \in Pair, NEW q \in Pair, SameGroup(p, q),
                       served[p] # {}, served[q] # {}, p \notin lost, q \notin lost
                PROVE  FALSE
    BY DEF MutexKept, MutexInv
  <2>1. /\ rows[p] # NoVariant \/ Outstanding(p)
        /\ rows[q] # NoVariant \/ Outstanding(q)
    BY DEF ServedIsWritten
  <2>2. SameGroup(q, p) /\ p[1] = q[1] /\ p # q
    BY DEF SameGroup
  <2>3. Outstanding(p) => rows[q] = NoVariant
    BY DEF Outstanding, MutexInv, NoConflict
  <2>4. Outstanding(q) => rows[p] = NoVariant
    BY <2>2 DEF Outstanding, MutexInv, NoConflict
  <2>5. ~(Outstanding(p) /\ Outstanding(q))
    BY <2>2 DEF Outstanding, OneAtATime
  <2>6. ~(rows[p] # NoVariant /\ rows[q] # NoVariant)
    BY DEF MutexInv, MutexExclusive
  <2>. QED
    BY <2>1, <2>3, <2>4, <2>5, <2>6
<1>. QED
  BY <1>1, <1>2, <1>3, TypeCorrect, NothingUnwritten, PTL DEF Spec

=============================================================================
