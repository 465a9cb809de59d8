--------------------------- MODULE ResultsProofs ---------------------------
(***************************************************************************)
(* What an analysis and an open page may rely on, for any number of        *)
(* experiments, pages and POSTs and any bounds on the facts.               *)
(*                                                                         *)
(* That a page is one commit behind at most rests on the row locks: from   *)
(* its upsert to its commit a session owns the rows of its experiment, so  *)
(* what a page fetches after the event is what the commit will replace.    *)
(***************************************************************************)
EXTENDS ResultsAnalysis, TLAPS

Holding == {"publish", "enqueue", "commit"}

\* A session that has upserted the rows of an experiment owns them until it
\* ends.
LocksHeld ==
    \A s \in Sessions : task[s].at \in Holding => owner[task[s].exp] = s

\* A page without a stream has missed something.
MissedWhenDown == \A e \in Pages : ~view[e].up => view[e].missed

\* A page that has fetched after the event of a session that has not ended
\* shows what is in the table.
FetchedSince ==
    \A s \in Sessions : \A e \in Pages :
        /\ task[s].at \in {"enqueue", "commit"} /\ task[s].exp = e
        /\ ~view[e].stale /\ ~view[e].missed
        => view[e].shown = results[e]

IInv == TypeOK /\ LocksHeld /\ MissedWhenDown /\ FetchedSince /\ PageAtMostOneBehind

-----------------------------------------------------------------------------
LEMMA Versions ==
    ASSUME NEW e \in Experiments, NEW n \in 0 .. MaxFacts[e]
    PROVE  n \in Version
  BY DEF Version

LEMMA VersionsAreNumbers == ASSUME NEW n \in Version PROVE n \in Nat
  BY AnalysisAssumption DEF Version

\* What the place of a session says of the fields of its task.
LEMMA Fields ==
    ASSUME NEW x \in Task
    PROVE  /\ x.at \in {"idle", "analyse", "upsert", "publish", "enqueue", "commit"}
           /\ x.at = "idle" <=> x = Idle
           /\ x.at # "idle" => x.exp \in Experiments
           /\ x.at \in {"upsert", "publish", "enqueue", "commit"} => x.saw \in Version \ {0}
  BY DEF Task, Idle

LEMMA Moved ==
    ASSUME NEW x \in Task, x.at \in {"upsert", "publish", "enqueue"},
           NEW p \in {"publish", "enqueue", "commit"}
    PROVE  /\ [x EXCEPT !.at = p] \in Task
           /\ [x EXCEPT !.at = p].at = p
           /\ [x EXCEPT !.at = p].exp = x.exp
  BY DEF Task, Idle

LEMMA Facts ==
    ASSUME TypeOK, NEW s \in Sessions
    PROVE  /\ task[s] \in Task
           /\ \A e \in Experiments : facts[e] \in Nat
  BY VersionsAreNumbers DEF TypeOK

LEMMA InitOK == Init => IInv
<1> SUFFICES ASSUME Init PROVE IInv
  OBVIOUS
<1>1. \A e \in Experiments : 0 \in Version
  BY AnalysisAssumption, Versions
<1>2. TypeOK
  BY <1>1, AnalysisAssumption DEF Init, TypeOK, Task, Idle, NoBatch, Batch, Sessions
<1>3. LocksHeld /\ MissedWhenDown /\ FetchedSince /\ PageAtMostOneBehind
  BY AnalysisAssumption DEF Init, LocksHeld, MissedWhenDown, FetchedSince, PageAtMostOneBehind,
     Holding, Idle
<1> QED
  BY <1>2, <1>3 DEF IInv

-----------------------------------------------------------------------------
\* Types, one step per action.
LEMMA TypeKept == ASSUME TypeOK, [Next]_vars PROVE TypeOK'
<1> USE AnalysisAssumption
<1>1. ASSUME NEW s \in Sessions, NEW x \in Task, Become(s, x) PROVE task' \in [Sessions -> Task]
  BY <1>1 DEF Become, TypeOK
<1>2. ASSUME NEW s \in Sessions, Release(s) PROVE owner' \in [Experiments -> Sessions \cup {None}]
  BY <1>2 DEF Release, TypeOK
<1>3. Idle \in Task
  BY DEF Task
<1>4. ASSUME NEW s \in Sessions, task[s].at \in {"upsert", "publish", "enqueue"},
             NEW p \in {"publish", "enqueue", "commit"}, task' = [task EXCEPT ![s].at = p]
      PROVE  task' \in [Sessions -> Task]
  <2>1. [task[s] EXCEPT !.at = p] \in Task
    BY <1>4, Facts, Moved
  <2> QED
    BY <2>1, <1>4 DEF TypeOK
<1>5. ASSUME NEW e \in Experiments, GrowFacts(e) PROVE TypeOK'
  <2>1. facts[e] + 1 \in 0 .. MaxFacts[e]
    BY <1>5, VersionsAreNumbers DEF GrowFacts, TypeOK
  <2>2. facts' \in [Experiments -> Version]
    BY <1>5, <2>1, Versions DEF GrowFacts, TypeOK
  <2> QED
    BY <1>5, <2>2 DEF GrowFacts, TypeOK
<1>6. ASSUME NEW p \in Posts, NEW e \in Experiments, StartPost(p, e) PROVE TypeOK'
  <2>1. [at |-> "analyse", exp |-> e] \in Task
    BY DEF Task
  <2> QED
    BY <1>1, <1>6, <2>1 DEF StartPost, TypeOK, Sessions
<1>7. ASSUME StartHourly PROVE TypeOK'
  BY <1>7 DEF StartHourly, TypeOK, Batch
<1>8. ASSUME NEW e \in Experiments, NextExperiment(e) PROVE TypeOK'
  <2>1. [at |-> "analyse", exp |-> e] \in Task
    BY DEF Task
  <2>2. task' \in [Sessions -> Task]
    BY <1>1, <1>8, <2>1 DEF NextExperiment, TypeOK, Sessions
  <2>3. batch' \in Batch
    BY <1>8 DEF NextExperiment, TypeOK, Batch
  <2> QED
    BY <1>8, <2>2, <2>3 DEF NextExperiment, TypeOK
<1>9. ASSUME NEW s \in Sessions, Analyse(s) PROVE TypeOK'
  <2>1. CASE facts[task[s].exp] = 0
    BY <1>1, <1>3, <1>9, <2>1 DEF Analyse, TypeOK
  <2>2. CASE facts[task[s].exp] # 0
    <3>1. [at |-> "upsert", exp |-> task[s].exp, saw |-> facts[task[s].exp]] \in Task
      BY <1>9, <2>2, Facts, Fields DEF Analyse, TypeOK, Task
    <3> QED
      BY <1>1, <1>9, <2>2, <3>1 DEF Analyse, TypeOK
  <2> QED
    BY <2>1, <2>2
<1>10. ASSUME NEW s \in Sessions, Upsert(s) PROVE TypeOK'
  <2>1. task[s].exp \in Experiments
    BY <1>10, Facts, Fields DEF Upsert
  <2>2. task' \in [Sessions -> Task]
    BY <1>4, <1>10 DEF Upsert
  <2>3. batch' \in Batch
    BY <1>10, <2>1 DEF Upsert, TypeOK, Batch
  <2>4. owner' \in [Experiments -> Sessions \cup {None}]
    BY <1>10, <2>1 DEF Upsert, TypeOK
  <2> QED
    BY <1>10, <2>2, <2>3, <2>4 DEF Upsert, TypeOK
<1>11. ASSUME NEW s \in Sessions, QueryFails(s) PROVE TypeOK'
  <2>1. batch' \in Batch
    BY <1>11 DEF QueryFails, TypeOK, Batch
  <2> QED
    BY <1>1, <1>2, <1>3, <1>11, <2>1 DEF QueryFails, TypeOK
<1>12. ASSUME NEW s \in Sessions, Publish(s) PROVE TypeOK'
  <2>1. task' \in [Sessions -> Task]
    BY <1>4, <1>12 DEF Publish
  <2> QED
    BY <1>12, <2>1 DEF Publish, Announce, TypeOK
<1>13. ASSUME NEW s \in Sessions, PublishFails(s) PROVE TypeOK'
  <2>1. task' \in [Sessions -> Task]
    BY <1>4, <1>13 DEF PublishFails
  <2> QED
    BY <1>13, <2>1 DEF PublishFails, TypeOK
<1>14. ASSUME NEW s \in Sessions, Enqueue(s) \/ EnqueueFails(s) PROVE TypeOK'
  <2>1. AfterEnqueue(s) \in Task
    BY <1>3, <1>14, Facts, Moved DEF Enqueue, EnqueueFails, AfterEnqueue
  <2>2. task[s].exp \in Experiments
    BY <1>14, Facts, Fields DEF Enqueue, EnqueueFails
  <2>3. queue' \subseteq Experiments
    BY <1>14, <2>2 DEF Enqueue, EnqueueFails, TypeOK
  <2> QED
    BY <1>1, <1>14, <2>1, <2>3 DEF Enqueue, EnqueueFails, TypeOK
<1>15. ASSUME NEW p \in Posts, Commit(p) PROVE TypeOK'
  <2>1. task[p].exp \in Experiments /\ task[p].saw \in Version
    BY <1>15, Facts, Fields DEF Commit, Sessions
  <2>2. results' \in [Experiments -> Version] /\ before' \in [Pages -> Version]
    BY <1>15, <2>1 DEF Commit, TypeOK
  <2> QED
    BY <1>1, <1>2, <1>3, <1>15, <2>2 DEF Commit, TypeOK, Sessions
<1>16. ASSUME NEW p \in Posts, CommitFails(p) PROVE TypeOK'
  BY <1>1, <1>2, <1>3, <1>16 DEF CommitFails, TypeOK, Sessions
<1>17. ASSUME EndHourly \/ CancelHourly PROVE TypeOK'
  <2>1. NoBatch \in Batch
    BY DEF NoBatch, Batch
  <2> QED
    BY <1>1, <1>2, <1>3, <1>17, <2>1 DEF EndHourly, CancelHourly, TypeOK, Sessions
<1>18. ASSUME NEW e \in Pages, Refetch(e) \/ Disconnect(e) \/ Reconnect(e) PROVE TypeOK'
  <2>1. view[e].up \in BOOLEAN /\ view[e].stale \in BOOLEAN /\ view[e].missed \in BOOLEAN
        /\ view[e].shown \in Version /\ results[e] \in Version
    BY DEF TypeOK
  <2>2. CASE Refetch(e)
    BY <2>1, <2>2 DEF Refetch, TypeOK
  <2>3. CASE Disconnect(e)
    <3>1. PICK stale \in {FALSE, view[e].stale} :
             view' = [view EXCEPT ![e] = [@ EXCEPT !.up = FALSE, !.stale = stale, !.missed = TRUE]]
      BY <2>3 DEF Disconnect
    <3>2. stale \in BOOLEAN
      BY <2>1
    <3>3. view' \in [Pages -> [up : BOOLEAN, stale : BOOLEAN, missed : BOOLEAN, shown : Version]]
      BY <3>1, <3>2 DEF TypeOK
    <3> QED
      BY <2>3, <3>3 DEF Disconnect, TypeOK
  <2>4. CASE Reconnect(e)
    BY <2>1, <2>4 DEF Reconnect, TypeOK
  <2> QED
    BY <1>18, <2>2, <2>3, <2>4
<1>19. ASSUME NEW e \in Experiments, Dequeue(e) PROVE TypeOK'
  BY <1>19 DEF Dequeue, TypeOK
<1>20. ASSUME NEW s \in Sessions, ComputationFails(s) PROVE TypeOK'
  <2>1. batch' \in Batch
    BY <1>20 DEF ComputationFails, TypeOK, Batch
  <2> QED
    BY <1>1, <1>3, <1>20, <2>1 DEF ComputationFails, TypeOK
<1>21. ASSUME UNCHANGED vars PROVE TypeOK'
  BY <1>21 DEF vars, TypeOK
<1> QED
  BY <1>5, <1>6, <1>7, <1>8, <1>9, <1>10, <1>11, <1>12, <1>13, <1>14, <1>15, <1>16, <1>17,
     <1>18, <1>19, <1>20, <1>21 DEF Next, PostStep, HourlyStep, Failure, Sessions

-----------------------------------------------------------------------------
\* A step of s that changes neither the table nor a page, after which s waits
\* for its commit only if it did before.
LEMMA NothingSeen ==
    ASSUME IInv, UNCHANGED <<results, before, view>>,
           \A s \in Sessions : task'[s].at \in {"enqueue", "commit"} =>
              task[s].at \in {"enqueue", "commit"} /\ task'[s].exp = task[s].exp
    PROVE  MissedWhenDown' /\ FetchedSince' /\ PageAtMostOneBehind'
  BY DEF IInv, MissedWhenDown, FetchedSince, PageAtMostOneBehind

\* A step in which s ends and gives up all its locks.
LEMMA Ends ==
    ASSUME IInv, NEW s \in Sessions, task' = [task EXCEPT ![s] = Idle], Release(s)
    PROVE  LocksHeld'
<1> SUFFICES ASSUME NEW t \in Sessions, task'[t].at \in Holding
             PROVE  owner'[task'[t].exp] = t
  BY DEF LocksHeld
<1>1. t # s /\ task'[t] = task[t]
  BY DEF IInv, TypeOK, Idle, Holding
<1>2. owner[task[t].exp] = t /\ task[t].exp \in Experiments
  BY <1>1, Fields DEF IInv, TypeOK, LocksHeld, Holding
<1> QED
  BY <1>1, <1>2 DEF Release

\* A step in which s goes on and the locks stay as they are.
LEMMA GoesOn ==
    ASSUME IInv, NEW s \in Sessions, NEW x, task' = [task EXCEPT ![s] = x], UNCHANGED owner,
           x.at \in Holding => task[s].at \in Holding /\ x.exp = task[s].exp
    PROVE  LocksHeld'
  BY DEF IInv, TypeOK, LocksHeld

LEMMA PartsKept == ASSUME IInv, Next PROVE (LocksHeld /\ MissedWhenDown /\ FetchedSince /\ PageAtMostOneBehind)'
<1> USE AnalysisAssumption
<1> DEFINE Parts == LocksHeld /\ MissedWhenDown /\ FetchedSince /\ PageAtMostOneBehind
<1>0. task \in [Sessions -> Task]
  BY DEF IInv, TypeOK
<1>1. ASSUME NEW s \in Sessions, task[s].at \in {"upsert", "publish", "enqueue"},
             NEW p \in {"publish", "enqueue", "commit"}, task' = [task EXCEPT ![s].at = p]
      PROVE  /\ task'[s].at = p /\ task'[s].exp = task[s].exp
             /\ task[s].exp \in Experiments
             /\ \A t \in Sessions \ {s} : task'[t] = task[t]
  <2>1. task'[s] = [task[s] EXCEPT !.at = p]
    BY <1>0, <1>1
  <2> QED
    BY <1>0, <1>1, <2>1, Moved, Fields
<1>2. ASSUME NEW s \in Sessions, Become(s, Idle), UNCHANGED <<results, before, view>>
      PROVE  MissedWhenDown' /\ FetchedSince' /\ PageAtMostOneBehind'
  <2>1. task'[s] = Idle /\ \A t \in Sessions \ {s} : task'[t] = task[t]
    BY <1>0, <1>2 DEF Become
  <2> QED
    BY <1>2, <2>1, NothingSeen DEF Idle
<1>3. ASSUME UNCHANGED <<task, owner, results, before, view>> PROVE Parts'
  BY <1>3, NothingSeen DEF IInv, LocksHeld
<1>4. ASSUME NEW s \in Sessions, NEW e, Become(s, [at |-> "analyse", exp |-> e]),
             UNCHANGED <<owner, results, before, view>>
      PROVE  Parts'
  <2>1. task'[s].at = "analyse" /\ \A t \in Sessions \ {s} : task'[t] = task[t]
    BY <1>0, <1>4 DEF Become
  <2>2. LocksHeld'
    BY <1>4, GoesOn DEF Become, Holding
  <2> QED
    BY <1>4, <2>1, <2>2, NothingSeen
<1>5. ASSUME NEW s \in Sessions, Analyse(s) PROVE Parts'
  <2>1. CASE facts[task[s].exp] = 0
    BY <1>2, <1>5, <2>1, GoesOn DEF Analyse, Become, Idle, Holding
  <2>2. CASE facts[task[s].exp] # 0
    <3> DEFINE x == [at |-> "upsert", exp |-> task[s].exp, saw |-> facts[task[s].exp]]
    <3>1. task' = [task EXCEPT ![s] = x] /\ x.at = "upsert"
      BY <1>5, <2>2 DEF Analyse, Become
    <3>2. LocksHeld'
      BY <1>5, <3>1, GoesOn DEF Analyse, Holding
    <3>3. task'[s].at = "upsert" /\ \A t \in Sessions \ {s} : task'[t] = task[t]
      BY <1>0, <3>1
    <3> QED
      BY <1>5, <3>2, <3>3, NothingSeen DEF Analyse
  <2> QED
    BY <2>1, <2>2
<1>6. ASSUME NEW s \in Sessions, Upsert(s) PROVE Parts'
  <2> DEFINE e == task[s].exp
  <2>1. /\ task'[s].at = "publish" /\ task'[s].exp = e /\ e \in Experiments
        /\ \A t \in Sessions \ {s} : task'[t] = task[t]
    BY <1>1, <1>6 DEF Upsert
  <2>2. \A t \in Sessions \ {s} : task[t].at \in Holding => task[t].exp # e
    BY <1>6 DEF Upsert, IInv, LocksHeld, Sessions
  <2>3. owner'[e] = s /\ \A d \in Experiments \ {e} : owner'[d] = owner[d]
    BY <1>6, <2>1 DEF Upsert, IInv, TypeOK
  <2>4. LocksHeld'
    <3> SUFFICES ASSUME NEW t \in Sessions, task'[t].at \in Holding PROVE owner'[task'[t].exp] = t
      BY DEF LocksHeld
    <3>1. CASE t = s
      BY <2>1, <2>3, <3>1
    <3>2. CASE t # s
      <4>1. task[t].exp \in Experiments \ {e} /\ owner[task[t].exp] = t
        BY <1>0, <2>1, <2>2, <3>2, Fields DEF Holding, IInv, LocksHeld
      <4> QED
        BY <2>1, <2>3, <3>2, <4>1
    <3> QED
      BY <3>1, <3>2
  <2> QED
    BY <1>6, <2>1, <2>4, NothingSeen DEF Upsert
<1>7. ASSUME NEW s \in Sessions, QueryFails(s) PROVE Parts'
  BY <1>2, <1>7, Ends DEF QueryFails, Become
<1>8. ASSUME NEW s \in Sessions, Publish(s) \/ PublishFails(s) PROVE Parts'
  <2> DEFINE e == task[s].exp
  <2>1. /\ task'[s].at = "enqueue" /\ task'[s].exp = e /\ e \in Experiments
        /\ \A t \in Sessions \ {s} : task'[t] = task[t]
    BY <1>1, <1>8 DEF Publish, PublishFails
  <2>2. LocksHeld'
    BY <1>8, <2>1 DEF Publish, PublishFails, IInv, LocksHeld, Holding
  <2>3. ASSUME NEW v \in Pages
        PROVE  /\ view'[v].shown = view[v].shown /\ view'[v].up = view[v].up
               /\ view[v].stale => view'[v].stale
               /\ view[v].missed => view'[v].missed
               /\ v = e => view'[v].stale \/ view'[v].missed
    <3>1. CASE Publish(s)
      BY <3>1 DEF Publish, Announce, IInv, TypeOK, MissedWhenDown
    <3>2. CASE PublishFails(s)
      BY <3>2 DEF PublishFails, IInv, TypeOK
    <3> QED
      BY <1>8, <3>1, <3>2
  <2>4. MissedWhenDown'
    BY <2>3 DEF IInv, MissedWhenDown
  <2>5. FetchedSince'
    BY <1>8, <2>1, <2>3 DEF IInv, FetchedSince, Publish, PublishFails
  <2>6. PageAtMostOneBehind'
    BY <1>8, <2>3 DEF IInv, PageAtMostOneBehind, Publish, PublishFails
  <2> QED
    BY <2>2, <2>4, <2>5, <2>6
<1>9. ASSUME NEW s \in Sessions, Enqueue(s) \/ EnqueueFails(s) PROVE Parts'
  <2>1. /\ task' = [task EXCEPT ![s] = AfterEnqueue(s)]
        /\ AfterEnqueue(s) = Idle \/ /\ AfterEnqueue(s).at = "commit"
                                     /\ AfterEnqueue(s).exp = task[s].exp
    BY <1>0, <1>9, Moved DEF Enqueue, EnqueueFails, Become, AfterEnqueue
  <2>2. LocksHeld'
    BY <1>9, <2>1, GoesOn DEF Enqueue, EnqueueFails, Holding, Idle
  <2>3. \A t \in Sessions : task'[t] = IF t = s THEN AfterEnqueue(s) ELSE task[t]
    BY <1>0, <2>1
  <2>4. \A t \in Sessions : task'[t].at \in {"enqueue", "commit"} =>
           task[t].at \in {"enqueue", "commit"} /\ task'[t].exp = task[t].exp
    BY <1>9, <2>1, <2>3 DEF Enqueue, EnqueueFails, Idle
  <2> QED
    BY <1>9, <2>2, <2>4, NothingSeen DEF Enqueue, EnqueueFails
<1>10. ASSUME NEW p \in Posts, Commit(p) PROVE Parts'
  <2> DEFINE e == task[p].exp
  <2>1. p \in Sessions /\ e \in Experiments
    BY <1>0, <1>10, Fields DEF Commit, Sessions
  <2>2. task'[p] = Idle /\ \A t \in Sessions \ {p} : task'[t] = task[t]
    BY <1>0, <1>10, <2>1 DEF Commit, Become
  <2>3. LocksHeld'
    BY <1>10, <2>1, Ends DEF Commit, Become
  <2>4. MissedWhenDown'
    BY <1>10 DEF Commit, IInv, MissedWhenDown
  <2>5. \A t \in Sessions \ {p} : task[t].at \in Holding => task[t].exp # e
    BY <1>10, <2>1 DEF Commit, IInv, LocksHeld, Holding
  <2>6. FetchedSince'
    BY <1>10, <2>1, <2>2, <2>5 DEF Commit, IInv, TypeOK, FetchedSince, Holding, Idle
  <2>7. PageAtMostOneBehind'
    <3> SUFFICES ASSUME NEW v \in Pages, ~view[v].stale, ~view[v].missed
                 PROVE  view[v].shown \in {results'[v], before'[v]}
      BY <1>10 DEF Commit, PageAtMostOneBehind
    <3>1. CASE v = e
      BY <1>10, <2>1, <3>1 DEF Commit, IInv, TypeOK, FetchedSince
    <3>2. CASE v # e
      BY <1>10, <2>1, <3>2 DEF Commit, IInv, TypeOK, PageAtMostOneBehind
    <3> QED
      BY <3>1, <3>2
  <2> QED
    BY <2>3, <2>4, <2>6, <2>7
<1>11. ASSUME NEW p \in Posts, CommitFails(p) PROVE Parts'
  BY <1>2, <1>11, Ends DEF CommitFails, Become, Sessions
<1>12. ASSUME EndHourly PROVE Parts'
  <2>1. task' = [task EXCEPT ![Hourly] = Idle] /\ Hourly \in Sessions
    BY <1>0, <1>12 DEF EndHourly, Sessions
  <2> QED
    BY <1>2, <1>12, <2>1, Ends DEF EndHourly, Become
<1>13. ASSUME CancelHourly PROVE Parts'
  BY <1>2, <1>13, Ends DEF CancelHourly, Become, Sessions
<1>14. ASSUME NEW e \in Pages, Refetch(e) \/ Disconnect(e) \/ Reconnect(e) PROVE Parts'
  <2>1. UNCHANGED <<task, owner, results, before>>
    BY <1>14 DEF Refetch, Disconnect, Reconnect
  <2>2. \A v \in Pages :
          \/ view'[v] = view[v]
          \/ v = e /\ view'[v].missed
          \/ v = e /\ view'[v].shown = results[v] /\ (view'[v].up \/ view'[v].missed)
    <3>1. CASE Refetch(e)
      BY <3>1 DEF Refetch, IInv, TypeOK
    <3>2. CASE Disconnect(e)
      BY <3>2 DEF Disconnect, IInv, TypeOK
    <3>3. CASE Reconnect(e)
      BY <3>3 DEF Reconnect, IInv, TypeOK, MissedWhenDown
    <3> QED
      BY <1>14, <3>1, <3>2, <3>3
  <2> QED
    BY <2>1, <2>2 DEF IInv, LocksHeld, MissedWhenDown, FetchedSince, PageAtMostOneBehind
<1>15. ASSUME NEW e \in Experiments, GrowFacts(e) \/ Dequeue(e) PROVE Parts'
  BY <1>3, <1>15 DEF GrowFacts, Dequeue
<1>16. ASSUME StartHourly PROVE Parts'
  BY <1>3, <1>16 DEF StartHourly
<1>17. ASSUME NEW p \in Posts, NEW e \in Experiments, StartPost(p, e) PROVE Parts'
  BY <1>4, <1>17 DEF StartPost, Sessions
<1>18. ASSUME NEW e \in Experiments, NextExperiment(e) PROVE Parts'
  BY <1>3, <1>4, <1>18 DEF NextExperiment, Sessions
<1>19. ASSUME NEW s \in Sessions, ComputationFails(s) PROVE Parts'
  BY <1>2, <1>19, GoesOn DEF ComputationFails, Become, Idle, Holding
<1> QED
  BY <1>5, <1>6, <1>7, <1>8, <1>9, <1>10, <1>11, <1>12, <1>13, <1>14, <1>15, <1>16, <1>17, <1>18, <1>19
     DEF Next, PostStep, HourlyStep, Failure, Sessions

LEMMA Inductive == Spec => []IInv
<1>1. IInv /\ [Next]_vars => IInv'
  <2> SUFFICES ASSUME IInv, [Next]_vars PROVE IInv'
    OBVIOUS
  <2>1. TypeOK'
    BY TypeKept DEF IInv
  <2>2. CASE Next
    BY <2>1, <2>2, PartsKept DEF IInv
  <2>3. CASE UNCHANGED vars
    BY <2>1, <2>3 DEF vars, IInv, LocksHeld, MissedWhenDown, FetchedSince, PageAtMostOneBehind
  <2> QED
    BY <2>2, <2>3
<1> QED
  BY InitOK, <1>1, PTL DEF Spec

-----------------------------------------------------------------------------
\* Versions, locks, sessions and pages have their types, for any number of
\* experiments and any bounds on their facts (run_and_save and its callers).
THEOREM TypeCorrect == Spec => []TypeOK
  BY Inductive, PTL DEF IInv

\* An open page that was told of every analysis and has fetched is at most
\* one commit behind (_publish_sse_events before the commit of get_db).
THEOREM PageKeepsUp == Spec => []PageAtMostOneBehind
  BY Inductive, PTL DEF IInv

-----------------------------------------------------------------------------
\* An experiment that had facts when the job began is to come, at hand, or
\* done, unless the transaction is aborted.
NoneDropped ==
    /\ batch.aborted => batch.sound = {}
    /\ \A e \in batch.sound :
          /\ facts[e] > 0
          /\ \/ e \in batch.todo \cup batch.wrote
             \/ task[Hourly].at \in {"analyse", "upsert"} /\ task[Hourly].exp = e

LEMMA NoneDroppedKept ==
    ASSUME TypeOK, NoneDropped, [Next]_vars
    PROVE  NoneDropped'
<1> USE AnalysisAssumption
<1>0. /\ task \in [Sessions -> Task] /\ Hourly \in Sessions /\ Posts \subseteq Sessions
      /\ batch \in Batch /\ batch.sound \subseteq Experiments
      /\ \A e \in Experiments : facts[e] \in Nat
  BY VersionsAreNumbers DEF TypeOK, Sessions, Batch
<1>1. ASSUME UNCHANGED batch, facts' = facts, task'[Hourly] = task[Hourly] PROVE NoneDropped'
  BY <1>1 DEF NoneDropped
<1>2. ASSUME batch' = NoBatch PROVE NoneDropped'
  BY <1>2 DEF NoneDropped, NoBatch
<1>3. ASSUME UNCHANGED batch, facts' = facts, task[Hourly].at \notin {"analyse", "upsert"}
      PROVE  NoneDropped'
  BY <1>3 DEF NoneDropped
<1>4. ASSUME NEW e \in Experiments, GrowFacts(e) PROVE NoneDropped'
  <2>1. \A d \in Experiments : facts[d] > 0 => facts'[d] > 0
    BY <1>0, <1>4 DEF GrowFacts, TypeOK
  <2> QED
    BY <1>0, <1>4, <2>1 DEF GrowFacts, NoneDropped
<1>5. ASSUME NEW p \in Posts, NEW e \in Experiments, StartPost(p, e) PROVE NoneDropped'
  BY <1>0, <1>1, <1>5 DEF StartPost, Become
<1>6. ASSUME StartHourly PROVE NoneDropped'
  BY <1>6 DEF StartHourly, NoneDropped
<1>7. ASSUME NEW e \in Experiments, NextExperiment(e) PROVE NoneDropped'
  <2>1. batch'.todo = batch.todo \ {e} /\ batch'.wrote = batch.wrote
        /\ batch'.sound = batch.sound /\ batch'.aborted = batch.aborted
    BY <1>0, <1>7 DEF NextExperiment, Batch
  <2>2. CASE batch.aborted
    BY <2>1, <2>2 DEF NoneDropped
  <2>3. CASE ~batch.aborted
    <3>1. task'[Hourly].at = "analyse" /\ task'[Hourly].exp = e
      BY <1>0, <1>7, <2>3 DEF NextExperiment, Become
    <3>2. task[Hourly].at = "idle" /\ facts' = facts
      BY <1>7 DEF NextExperiment, Idle
    <3> QED
      BY <2>1, <3>1, <3>2 DEF NoneDropped
  <2> QED
    BY <2>2, <2>3
<1>8. ASSUME NEW s \in Sessions, Analyse(s) PROVE NoneDropped'
  <2>1. CASE s # Hourly
    BY <1>0, <1>1, <1>8, <2>1 DEF Analyse, Become
  <2>2. CASE s = Hourly /\ facts[task[s].exp] = 0
    BY <1>8, <2>2 DEF Analyse, NoneDropped
  <2>3. CASE s = Hourly /\ facts[task[s].exp] # 0
    <3>1. task'[Hourly].at = "upsert" /\ task'[Hourly].exp = task[Hourly].exp
      BY <1>0, <1>8, <2>3 DEF Analyse, Become
    <3> QED
      BY <1>8, <2>3, <3>1 DEF Analyse, NoneDropped
  <2> QED
    BY <2>1, <2>2, <2>3
<1>9. ASSUME NEW s \in Sessions, Upsert(s) PROVE NoneDropped'
  <2>1. CASE s # Hourly
    BY <1>0, <1>1, <1>9, <2>1 DEF Upsert
  <2>2. CASE s = Hourly
    <3>1. batch'.todo = batch.todo /\ batch'.wrote = batch.wrote \cup {task[s].exp}
          /\ batch'.sound = batch.sound /\ batch'.aborted = batch.aborted
      BY <1>0, <1>9, <2>2 DEF Upsert, Batch
    <3> QED
      BY <1>9, <2>2, <3>1 DEF Upsert, NoneDropped
  <2> QED
    BY <2>1, <2>2
<1>10. ASSUME NEW s \in Sessions, QueryFails(s) PROVE NoneDropped'
  <2>1. CASE s # Hourly
    BY <1>0, <1>1, <1>10, <2>1 DEF QueryFails, Become
  <2>2. CASE s = Hourly
    <3>1. batch'.sound = {}
      BY <1>0, <1>10, <2>2 DEF QueryFails, Batch
    <3> QED
      BY <3>1 DEF NoneDropped
  <2> QED
    BY <2>1, <2>2
<1>11. ASSUME NEW s \in Sessions, Publish(s) \/ PublishFails(s) \/ Enqueue(s) \/ EnqueueFails(s)
       PROVE  NoneDropped'
  <2>1. CASE s # Hourly
    BY <1>0, <1>1, <1>11, <2>1 DEF Publish, PublishFails, Enqueue, EnqueueFails, Become
  <2>2. CASE s = Hourly
    BY <1>3, <1>11, <2>2 DEF Publish, PublishFails, Enqueue, EnqueueFails
  <2> QED
    BY <2>1, <2>2
<1>12. ASSUME NEW p \in Posts, Commit(p) \/ CommitFails(p) PROVE NoneDropped'
  BY <1>0, <1>1, <1>12 DEF Commit, CommitFails, Become
<1>13. ASSUME EndHourly \/ CancelHourly PROVE NoneDropped'
  BY <1>2, <1>13 DEF EndHourly, CancelHourly
<1>14. ASSUME NEW e \in Experiments, Dequeue(e) PROVE NoneDropped'
  BY <1>1, <1>14 DEF Dequeue
<1>15. ASSUME NEW e \in Pages, Refetch(e) \/ Disconnect(e) \/ Reconnect(e) PROVE NoneDropped'
  BY <1>1, <1>15 DEF Refetch, Disconnect, Reconnect
<1>16. ASSUME NEW s \in Sessions, ComputationFails(s) PROVE NoneDropped'
  <2>1. CASE s # Hourly
    BY <1>0, <1>1, <1>16, <2>1 DEF ComputationFails, Become
  <2>2. CASE s = Hourly
    <3>1. /\ batch'.todo = batch.todo /\ batch'.wrote = batch.wrote
          /\ batch'.sound = batch.sound \ {task[s].exp} /\ batch'.aborted = batch.aborted
      BY <1>0, <1>16, <2>2 DEF ComputationFails, Batch
    <3> QED
      BY <1>16, <2>2, <3>1 DEF ComputationFails, NoneDropped
  <2> QED
    BY <2>1, <2>2
<1>17. ASSUME UNCHANGED vars PROVE NoneDropped'
  BY <1>1, <1>17 DEF vars
<1> QED
  BY <1>4, <1>5, <1>6, <1>7, <1>8, <1>9, <1>10, <1>11, <1>12, <1>13, <1>14, <1>15, <1>16, <1>17
     DEF Next, PostStep, HourlyStep, Failure, Sessions

\* The hourly job analyses every experiment that can be analysed, whatever
\* happens to the others, unless the transaction they share is aborted (the
\* try inside the loop of analyze_running_experiments).
THEOREM OthersGoOn == Spec => OthersAreAnalysed
<1>1. Init => NoneDropped
  BY DEF Init, NoneDropped, NoBatch
<1>2. TypeOK /\ NoneDropped /\ [Next]_vars => NoneDropped'
  BY NoneDroppedKept
<1>3. NoneDropped => (EndHourly /\ ~batch.aborted => batch.sound \subseteq batch.wrote)
  BY DEF NoneDropped, EndHourly, Idle
<1>4. NoneDropped /\ [Next]_vars => [EndHourly /\ ~batch.aborted => batch.sound \subseteq batch.wrote]_vars
  BY <1>3
<1> QED
  BY <1>1, <1>2, <1>4, TypeCorrect, PTL DEF Spec, OthersAreAnalysed

=============================================================================
