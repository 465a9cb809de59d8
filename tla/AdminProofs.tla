----------------------------- MODULE AdminProofs -----------------------------
(***************************************************************************)
(* What holds of one experiment however many clients update, delete and    *)
(* decide on it, and however their requests overlap.                       *)
(*                                                                         *)
(* Nobody checks that the row is still as it was loaded, so the inductive  *)
(* invariant says what a request may go on relying on: that a start date,  *)
(* once there, stays, that a status never returns to draft, that a deleted *)
(* row does not come back and that a mirror is not emptied but with the    *)
(* experiment.                                                             *)
(***************************************************************************)
EXTENDS ExperimentAdmin, TLAPS

\* DatesFollowStatus, of any row.
DatesOf(r) ==
    /\ r.status = "draft" <=> r.started = 0
    /\ r.status = "completed" => r.ended # 0

\* What a request relies on after it has loaded the row, while it waits for
\* the lock of the row, and when it holds the lock.
LoadedOK(c) ==
    txn[c].at = "loaded" =>
        /\ DatesOf(txn[c].seen)
        /\ Exists /\ txn[c].seen.started # 0 => row.started # 0

UpdateOK(c) ==
    txn[c].at = "update" =>
        /\ txn[c].to # "draft"
        /\ \A col \in DOMAIN txn[c].patch : txn[c].patch[col] # 0
        /\ txn[c].to = "completed" => "ended" \in DOMAIN txn[c].patch
        /\ Exists /\ "started" \notin DOMAIN txn[c].patch => row.started # 0
        /\ Exists /\ txn[c].to # "running" => row.started # 0

UpdatedOK(c) ==
    txn[c].at = "updated" =>
        /\ lock = c /\ Exists
        /\ DatesOf(txn[c].result)
        /\ txn[c].result.started # 0
        /\ row.started = 0 => txn[c].result.status = "running"

\* What a POST of a decision relies on.
DecidingOK(c) ==
    /\ txn[c].at \in {"inserted", "mirrored"} => Exists
    /\ Exists /\ txn[c].at \in {"opened", "inserted", "mirrored"} /\ txn[c].seen # None
         => mirror # None

RequestOK(c) == LoadedOK(c) /\ UpdateOK(c) /\ UpdatedOK(c) /\ DecidingOK(c)

RowOK ==
    /\ DatesFollowStatus /\ EnrolledIsKept /\ MirrorIsLogged
    /\ ~Exists => mirror = None

IInv == TypeOK /\ RowOK /\ \A c \in Clients : RequestOK(c)

Request == Lifecycle!Txn \cup Decisions!Txn

-----------------------------------------------------------------------------
\* The statuses of the instance are those of ExperimentStatus.
LEMMA SameStatus == Lifecycle!Status = Status /\ Lifecycle!AllowedTransitions = AllowedTransitions
  BY DEF Lifecycle!Status, Status, Lifecycle!AllowedTransitions, AllowedTransitions

\* The place of a request says which fields it has.
LEMMA Fields ==
    ASSUME NEW x \in Request
    PROVE  /\ x.at = "loaded" => x.seen \in Lifecycle!Row
           /\ x.at = "update" => x.to \in Status /\ x.patch \in Lifecycle!Patch
           /\ x.at = "updated" => x.result \in Lifecycle!Row
           /\ x.at \in {"opened", "inserted", "mirrored"} => x.seen \in Outcomes \cup {None}
           /\ x.at \in {"inserted", "mirrored"} => x.decision \in Decisions!Decision
  BY SameStatus DEF Request, Lifecycle!Txn, Decisions!Txn, Lifecycle!Idle, Decisions!Idle

\* An UPDATE sets dates only, to readings of the clock.
LEMMA PatchType ==
    ASSUME NEW patch \in Lifecycle!Patch
    PROVE  /\ DOMAIN patch \subseteq {"started", "ended"}
           /\ \A col \in DOMAIN patch : patch[col] \in 0 .. MaxTime
  BY DEF Lifecycle!Patch

\* A row is not the mark of a deleted one.
LEMMA RowIsThere == ASSUME NEW r \in Lifecycle!Row PROVE r # Lifecycle!Deleted
<1>1. DOMAIN r = {"status", "started", "ended"} /\ DOMAIN Lifecycle!Deleted = {"deleted"}
  BY DEF Lifecycle!Row, Lifecycle!Deleted
<1> QED
  BY <1>1

\* The row of an experiment that exists is a row.
LEMMA ExistingRow == TypeOK /\ Exists => row \in Lifecycle!Row
  BY DEF TypeOK, Exists, Lifecycle!Exists

\* What the requests of the others may count on: a row and its start date are
\* not taken away, and neither are a lock, a mirror or a row with decisions.
LEMMA OthersKeep ==
    ASSUME NEW d, RequestOK(d), txn'[d] = txn[d],
           Exists' => Exists /\ (row.started # 0 => row'.started # 0),
           Exists' /\ mirror # None => mirror' # None,
           lock = d => lock' = d,
           txn[d].at = "updated" => row' = row,
           Exists /\ txn[d].at \in {"inserted", "mirrored"} => Exists'
    PROVE  RequestOK(d)'
<1>1. LoadedOK(d)'
  BY DEF RequestOK, LoadedOK, DatesOf
<1>2. UpdateOK(d)'
  BY DEF RequestOK, UpdateOK
<1>3. UpdatedOK(d)'
  BY DEF RequestOK, UpdatedOK, DatesOf, Exists, Lifecycle!Exists
<1>4. DecidingOK(d)'
  BY DEF RequestOK, DecidingOK
<1> QED
  BY <1>1, <1>2, <1>3, <1>4 DEF RequestOK

\* Steps that change nothing anybody else can see but the lock.
LEMMA Internal ==
    ASSUME IInv, NEW c \in Clients, NEW x \in Request,
           txn' = [txn EXCEPT ![c] = x],
           UNCHANGED <<row, enrolled, log, mirror>>,
           lock' \in Clients \cup {None},
           \A d \in Clients \ {c} : lock = d => lock' = d,
           clock' \in 0 .. MaxTime, overlap' \in BOOLEAN,
           txn'[c] = x => RequestOK(c)'
    PROVE  IInv'
<1>1. TypeOK'
  BY DEF IInv, TypeOK, Request
<1>2. RowOK'
  BY DEF IInv, RowOK, DatesFollowStatus, EnrolledIsKept, MirrorIsLogged, Exists, Lifecycle!Exists
<1>3. RequestOK(c)'
  BY DEF IInv, TypeOK
<1>4. ASSUME NEW d \in Clients \ {c} PROVE RequestOK(d)'
  <2>1. Exists' = Exists /\ txn'[d] = txn[d]
    BY <1>4 DEF Exists, Lifecycle!Exists, IInv, TypeOK
  <2> QED
    BY <1>4, <2>1, OthersKeep DEF IInv
<1> QED
  BY <1>1, <1>2, <1>3, <1>4 DEF IInv

\* A request that is over relies on nothing.
LEMMA IdleOK == ASSUME NEW c, txn'[c] = [at |-> "idle"] PROVE RequestOK(c)'
  BY DEF RequestOK, LoadedOK, UpdateOK, UpdatedOK, DecidingOK

LEMMA IdleIsRequest == [at |-> "idle"] \in Request
  BY DEF Request, Lifecycle!Txn, Lifecycle!Idle

\* A request that ends without having changed anything.
LEMMA Ends ==
    ASSUME IInv, NEW c \in Clients,
           txn' = [txn EXCEPT ![c] = [at |-> "idle"]],
           UNCHANGED <<row, enrolled, log, mirror, clock>>,
           lock' = lock \/ (lock = c /\ lock' = None),
           overlap' \in BOOLEAN
    PROVE  IInv'
<1>1. lock' \in Clients \cup {None} /\ clock' \in 0 .. MaxTime
  BY DEF IInv, TypeOK
<1>2. \A d \in Clients \ {c} : lock = d => lock' = d
  OBVIOUS
<1>3. txn'[c] = [at |-> "idle"] => RequestOK(c)'
  BY IdleOK
<1> QED
  BY <1>1, <1>2, <1>3, IdleIsRequest, Internal

LEMMA InitOK == Init => IInv
<1> SUFFICES ASSUME Init PROVE IInv
  OBVIOUS
<1> USE AdminAssumption DEF Init, Lifecycle!Init, Decisions!Init
<1>1. row \in Lifecycle!Row
  BY SameStatus DEF Lifecycle!Row, Status
<1>2. TypeOK
  <2>1. txn \in [Clients -> Lifecycle!Txn \cup Decisions!Txn]
    BY IdleIsRequest DEF Request, Lifecycle!Idle
  <2>2. clock \in 0 .. MaxTime /\ lock \in Clients \cup {None} /\ mirror \in Outcomes \cup {None}
    OBVIOUS
  <2>3. enrolled \in BOOLEAN /\ overlap \in BOOLEAN /\ log \subseteq Decisions!Decision
    OBVIOUS
  <2> QED
    BY ONLY <1>1, <2>1, <2>2, <2>3 DEF TypeOK
<1>3. RowOK
  BY <1>1, RowIsThere DEF RowOK, DatesFollowStatus, EnrolledIsKept, MirrorIsLogged, Exists, Lifecycle!Exists
<1>4. ASSUME NEW c \in Clients PROVE RequestOK(c)
  BY <1>4 DEF RequestOK, LoadedOK, UpdateOK, UpdatedOK, DecidingOK, Lifecycle!Idle
<1> QED
  BY <1>2, <1>3, <1>4 DEF IInv

-----------------------------------------------------------------------------
(***************************************************************************)
(* One lemma per action of a PATCH or DELETE.                              *)
(***************************************************************************)
LEMMA LoadOK ==
    ASSUME IInv, NEW c \in Clients, Lifecycle!Load(c), UNCHANGED <<log, mirror>>,
           overlap' \in BOOLEAN
    PROVE  IInv'
<1> DEFINE x == [at |-> "loaded", seen |-> row]
<1>1. /\ txn' = [txn EXCEPT ![c] = x] /\ Exists
      /\ UNCHANGED <<row, enrolled, log, mirror, lock, clock>>
  BY DEF Lifecycle!Load, Lifecycle!Become, Exists, Lifecycle!Exists
<1>2. x \in Request
  BY <1>1, ExistingRow DEF Request, Lifecycle!Txn, IInv
<1>3. DatesOf(row)
  BY <1>1 DEF IInv, RowOK, DatesFollowStatus, DatesOf
<1>4. txn'[c] = x => RequestOK(c)'
  BY <1>1, <1>3 DEF RequestOK, LoadedOK, UpdateOK, UpdatedOK, DecidingOK, DatesOf, Exists, Lifecycle!Exists
<1>5. lock' \in Clients \cup {None} /\ clock' \in 0 .. MaxTime
  BY <1>1 DEF IInv, TypeOK
<1> HIDE DEF x
<1> QED
  BY <1>1, <1>2, <1>4, <1>5, Internal

LEMMA ValidateOK ==
    ASSUME IInv, NEW c \in Clients, NEW new \in Status, Lifecycle!Validate(c, new),
           UNCHANGED <<log, mirror>>, overlap' \in BOOLEAN
    PROVE  IInv'
<1> DEFINE stamped == {col \in {"started", "ended"} :
                         \/ col = "started" /\ new = "running" /\ txn[c].seen.started = 0
                         \/ col = "ended" /\ new = "completed"}
           patch == [col \in stamped |-> clock + 1]
           x == [at |-> "update", to |-> new, patch |-> patch]
<1> USE AdminAssumption
<1>1. /\ txn' = [txn EXCEPT ![c] = x] /\ clock' = clock + 1 /\ clock < MaxTime
      /\ UNCHANGED <<row, enrolled, log, mirror, lock>>
      /\ txn[c].at = "loaded" /\ new \in AllowedTransitions[txn[c].seen.status]
  BY SameStatus DEF Lifecycle!Validate, Lifecycle!Become
<1>2. lock' \in Clients \cup {None} /\ clock' \in 0 .. MaxTime /\ clock + 1 # 0
  BY <1>1 DEF IInv, TypeOK
<1>3. patch \in Lifecycle!Patch
  <2>1. stamped \in SUBSET {"started", "ended"}
    OBVIOUS
  <2>2. patch \in [stamped -> 0 .. MaxTime]
    BY <1>1, <1>2
  <2> HIDE DEF patch, stamped
  <2> QED
    BY <2>1, <2>2 DEF Lifecycle!Patch
<1>4. x \in Request
  <2> HIDE DEF patch
  <2> QED
    BY <1>3, SameStatus DEF Request, Lifecycle!Txn
<1>5. txn[c].seen \in Lifecycle!Row /\ DatesOf(txn[c].seen)
      /\ (Exists /\ txn[c].seen.started # 0 => row.started # 0)
  BY <1>1, Fields DEF IInv, TypeOK, Request, RequestOK, LoadedOK
<1>6. new # "draft" /\ (new # "running" => txn[c].seen.started # 0)
  BY <1>1, <1>5, SameStatus DEF AllowedTransitions, Status, Lifecycle!Row, DatesOf
<1>7. /\ \A col \in DOMAIN patch : patch[col] # 0
      /\ new = "completed" => "ended" \in DOMAIN patch
      /\ Exists /\ "started" \notin DOMAIN patch => row.started # 0
      /\ Exists /\ new # "running" => row.started # 0
  BY <1>2, <1>5, <1>6
<1>8. txn'[c] = x => RequestOK(c)'
  <2> HIDE DEF patch
  <2> QED
    BY <1>1, <1>6, <1>7 DEF RequestOK, LoadedOK, UpdateOK, UpdatedOK, DecidingOK, Exists, Lifecycle!Exists
<1> HIDE DEF x
<1> QED
  BY <1>1, <1>2, <1>4, <1>8, Internal

LEMMA ValidateDeleteOK ==
    ASSUME IInv, NEW c \in Clients, Lifecycle!ValidateDelete(c),
           UNCHANGED <<log, mirror>>, overlap' \in BOOLEAN
    PROVE  IInv'
<1> DEFINE x == [at |-> "delete"]
<1>1. txn' = [txn EXCEPT ![c] = x] /\ UNCHANGED <<row, enrolled, log, mirror, lock, clock>>
  BY DEF Lifecycle!ValidateDelete, Lifecycle!Become
<1>2. x \in Request
  BY DEF Request, Lifecycle!Txn
<1>3. txn'[c] = x => RequestOK(c)'
  BY DEF RequestOK, LoadedOK, UpdateOK, UpdatedOK, DecidingOK
<1>4. lock' \in Clients \cup {None} /\ clock' \in 0 .. MaxTime
  BY <1>1 DEF IInv, TypeOK
<1> HIDE DEF x
<1> QED
  BY <1>1, <1>2, <1>3, <1>4, Internal

LEMMA UpdateStepOK ==
    ASSUME IInv, NEW c \in Clients, Lifecycle!Update(c), UNCHANGED <<log, mirror>>,
           overlap' \in BOOLEAN
    PROVE  IInv'
<1> DEFINE set(col) == IF col \in DOMAIN txn[c].patch THEN txn[c].patch[col] ELSE row[col]
           r == [status |-> txn[c].to, started |-> set("started"), ended |-> set("ended")]
           x == [at |-> "updated", result |-> r]
<1>1. UNCHANGED <<row, enrolled, log, mirror, clock>> /\ txn[c].at = "update" /\ lock = None
  BY DEF Lifecycle!Update
<1>2. CASE ~Exists
  <2>1. txn' = [txn EXCEPT ![c] = [at |-> "idle"]] /\ lock' = lock
    BY <1>2 DEF Lifecycle!Update, Lifecycle!Become, Lifecycle!Idle, Exists, Lifecycle!Exists
  <2> QED
    BY <1>1, <2>1, Ends
<1>3. CASE Exists
  <2>1. txn' = [txn EXCEPT ![c] = x] /\ lock' = c
    BY <1>3 DEF Lifecycle!Update, Lifecycle!Become, Exists, Lifecycle!Exists
  <2>2. row \in Lifecycle!Row
    BY <1>3, ExistingRow DEF IInv
  <2>3. /\ txn[c].to \in Status /\ DOMAIN txn[c].patch \subseteq {"started", "ended"}
        /\ \A col \in DOMAIN txn[c].patch : txn[c].patch[col] \in 0 .. MaxTime
    BY <1>1, Fields, PatchType DEF IInv, TypeOK, Request
  <2>4. /\ txn[c].to # "draft"
        /\ \A col \in DOMAIN txn[c].patch : txn[c].patch[col] # 0
        /\ txn[c].to = "completed" => "ended" \in DOMAIN txn[c].patch
        /\ "started" \notin DOMAIN txn[c].patch => row.started # 0
        /\ txn[c].to # "running" => row.started # 0
    BY <1>1, <1>3 DEF IInv, RequestOK, UpdateOK
  <2>5. set("started") \in 0 .. MaxTime /\ set("ended") \in 0 .. MaxTime
    BY <2>2, <2>3 DEF Lifecycle!Row
  <2>6. r \in Lifecycle!Row
    <3> HIDE DEF set
    <3> QED
      BY <2>3, <2>5, SameStatus DEF Lifecycle!Row
  <2>7. x \in Request
    BY <2>6 DEF Request, Lifecycle!Txn
  <2>8. /\ r.status = txn[c].to /\ r.started # 0 /\ DatesOf(r)
    BY <2>4 DEF DatesOf
  <2>9. txn'[c] = x => RequestOK(c)'
    <3> HIDE DEF r
    <3> QED
      BY <1>1, <1>3, <2>1, <2>4, <2>8
         DEF RequestOK, LoadedOK, UpdateOK, UpdatedOK, DecidingOK, DatesOf, Exists, Lifecycle!Exists
  <2>10. lock' \in Clients \cup {None} /\ clock' \in 0 .. MaxTime
    BY <1>1, <2>1 DEF IInv, TypeOK
  <2>11. \A d \in Clients \ {c} : lock = d => lock' = d
    BY <1>1, AdminAssumption
  <2> HIDE DEF x
  <2> QED
    BY <1>1, <2>1, <2>7, <2>9, <2>10, <2>11, Internal
<1> QED
  BY <1>2, <1>3

\* The change of the row: nobody else holds the lock, hence no other request
\* is about to write.
LEMMA CommitUpdateOK ==
    ASSUME IInv, NEW c \in Clients, Lifecycle!Commit(c), UNCHANGED <<log, mirror>>,
           overlap' \in BOOLEAN
    PROVE  IInv'
<1>1. /\ txn[c].at = "updated" /\ row' = txn[c].result /\ lock' = None
      /\ txn' = [txn EXCEPT ![c] = [at |-> "idle"]] /\ UNCHANGED <<clock, enrolled>>
  BY DEF Lifecycle!Commit, Lifecycle!Become, Lifecycle!Idle
<1>2. row' \in Lifecycle!Row
  BY <1>1, Fields DEF IInv, TypeOK, Request
<1>3. lock = c /\ Exists /\ DatesOf(row') /\ row'.started # 0
  BY <1>1 DEF IInv, RequestOK, UpdatedOK
<1>4. Exists'
  BY <1>2, RowIsThere DEF Exists, Lifecycle!Exists
<1>5. TypeOK'
  BY <1>1, <1>2, IdleIsRequest DEF IInv, TypeOK, Request
<1>6. RowOK'
  BY <1>1, <1>3, <1>4 DEF IInv, RowOK, DatesFollowStatus, EnrolledIsKept, MirrorIsLogged, DatesOf
<1>7. RequestOK(c)'
  BY <1>1, IdleOK DEF IInv, TypeOK
<1>8. ASSUME NEW d \in Clients \ {c} PROVE RequestOK(d)'
  <2>1. RequestOK(d) /\ txn'[d] = txn[d] /\ lock # d /\ txn[d].at # "updated"
    BY <1>1, <1>3 DEF IInv, TypeOK, RequestOK, UpdatedOK
  <2> QED
    BY <1>3, <1>4, <2>1, OthersKeep
<1> QED
  BY <1>5, <1>6, <1>7, <1>8 DEF IInv

LEMMA DeleteOK ==
    ASSUME IInv, NEW c \in Clients, Delete(c), overlap' \in BOOLEAN
    PROVE  IInv'
<1>1. /\ txn[c].at = "delete" /\ lock = None
      /\ txn' = [txn EXCEPT ![c] = [at |-> "idle"]]
      /\ UNCHANGED <<lock, clock, enrolled>>
      /\ row' = IF enrolled THEN row ELSE Lifecycle!Deleted
      /\ \A d \in Clients : txn[d].at \notin {"inserted", "mirrored"}
  BY DEF Delete, Lifecycle!CommitDelete, Lifecycle!Become, Lifecycle!Idle
<1>2. CASE row' = row
  <2>1. UNCHANGED <<log, mirror>>
    BY <1>2 DEF Delete
  <2> QED
    BY <1>1, <1>2, <2>1, Ends
<1>3. CASE row' # row
  <2>1. row' = Lifecycle!Deleted /\ ~enrolled /\ log' = {} /\ mirror' = None
    BY <1>1, <1>3 DEF Delete
  <2>2. ~Exists'
    BY <2>1 DEF Exists, Lifecycle!Exists, Lifecycle!Deleted
  <2>3. TypeOK'
    <3>1. row' \in Lifecycle!Row \cup {Lifecycle!Deleted}
      BY <2>1
    <3> QED
      BY <3>1, <1>1, <2>1, IdleIsRequest DEF IInv, TypeOK, Request, Lifecycle!Deleted
  <2>4. RowOK'
    BY <1>1, <2>1, <2>2 DEF RowOK, DatesFollowStatus, EnrolledIsKept, MirrorIsLogged
  <2>5. RequestOK(c)'
    BY <1>1, IdleOK DEF IInv, TypeOK
  <2>6. ASSUME NEW d \in Clients \ {c} PROVE RequestOK(d)'
    <3>1. /\ RequestOK(d) /\ txn'[d] = txn[d] /\ lock' = lock
          /\ txn[d].at # "updated" /\ txn[d].at \notin {"inserted", "mirrored"}
      BY <1>1, AdminAssumption DEF IInv, TypeOK, RequestOK, UpdatedOK
    <3> QED
      BY <2>2, <3>1, OthersKeep
  <2> QED
    BY <2>3, <2>4, <2>5, <2>6 DEF IInv
<1> QED
  BY <1>2, <1>3

LEMMA ChangeOrAskDeleteOK ==
    ASSUME IInv, NEW c \in Clients, ChangeOrAskDelete(c), overlap' \in BOOLEAN
    PROVE  IInv'
<1>1. UNCHANGED <<log, mirror>>
  BY DEF ChangeOrAskDelete
<1>2. CASE Lifecycle!Reject(c)
  BY <1>1, <1>2, Ends DEF Lifecycle!Reject, Lifecycle!Become, Lifecycle!Idle
<1>3. CASE Lifecycle!Rollback(c)
  <2>1. lock = c
    BY <1>3 DEF Lifecycle!Rollback, IInv, RequestOK, UpdatedOK
  <2> QED
    BY <1>1, <1>3, <2>1, Ends DEF Lifecycle!Rollback, Lifecycle!Become, Lifecycle!Idle
<1>4. ASSUME NEW new \in Lifecycle!Status, Lifecycle!Validate(c, new) PROVE IInv'
  BY <1>1, <1>4, SameStatus, ValidateOK
<1> QED
  BY <1>1, <1>2, <1>3, <1>4, LoadOK, ValidateDeleteOK, UpdateStepOK, CommitUpdateOK
     DEF ChangeOrAskDelete, Lifecycle!Step

-----------------------------------------------------------------------------
(***************************************************************************)
(* One lemma per action of a POST of a decision.                           *)
(***************************************************************************)
LEMMA OpenOK ==
    ASSUME IInv, NEW c \in Clients, Decisions!Open(c), Exists, UNCHANGED <<row, enrolled>>,
           overlap' \in BOOLEAN
    PROVE  IInv'
<1> DEFINE x == [at |-> "opened", seen |-> mirror]
<1>1. txn' = [txn EXCEPT ![c] = x] /\ UNCHANGED <<row, enrolled, log, mirror, lock, clock>>
  BY DEF Decisions!Open
<1>2. x \in Request
  BY DEF Request, Decisions!Txn, IInv, TypeOK
<1>3. txn'[c] = x => RequestOK(c)'
  BY <1>1 DEF RequestOK, LoadedOK, UpdateOK, UpdatedOK, DecidingOK
<1>4. lock' \in Clients \cup {None} /\ clock' \in 0 .. MaxTime
  BY <1>1 DEF IInv, TypeOK
<1> HIDE DEF x
<1> QED
  BY <1>1, <1>2, <1>3, <1>4, Internal

LEMMA InsertOK ==
    ASSUME IInv, NEW c \in Clients, NEW outcome \in Outcomes, Decisions!Insert(c, outcome),
           Exists, UNCHANGED <<row, enrolled>>, overlap' \in BOOLEAN
    PROVE  IInv'
<1> DEFINE d == [status |-> outcome, decidedAt |-> clock + 1]
           x == [at |-> "inserted", seen |-> txn[c].seen, decision |-> d]
<1> USE AdminAssumption
<1>1. /\ txn[c].at = "opened" /\ clock < MaxTime /\ clock' = clock + 1
      /\ UNCHANGED <<row, enrolled, log, mirror, lock>>
  BY DEF Decisions!Insert
<1>2. txn' = [txn EXCEPT ![c] = x]
  BY DEF Decisions!Insert, IInv, TypeOK
<1>3. txn[c].seen \in Outcomes \cup {None}
  BY <1>1, Fields DEF IInv, TypeOK, Request
<1>4. lock' \in Clients \cup {None} /\ clock' \in 0 .. MaxTime /\ clock + 1 \in 1 .. MaxTime
  BY <1>1 DEF IInv, TypeOK
<1>5. d \in Decisions!Decision
  BY <1>4 DEF Decisions!Decision
<1>6. x \in Request
  <2> HIDE DEF d
  <2> QED
    BY <1>3, <1>5 DEF Request, Decisions!Txn
<1>7. DecidingOK(c)
  BY DEF IInv, RequestOK
<1>8. txn'[c] = x => RequestOK(c)'
  <2> HIDE DEF d
  <2> QED
    BY <1>1, <1>7 DEF RequestOK, LoadedOK, UpdateOK, UpdatedOK, DecidingOK, Exists, Lifecycle!Exists
<1> HIDE DEF x
<1> QED
  BY <1>1, <1>2, <1>4, <1>6, <1>8, Internal

LEMMA SetMirrorOK ==
    ASSUME IInv, NEW c \in Clients, Decisions!SetMirror(c), UNCHANGED <<row, enrolled>>,
           overlap' \in BOOLEAN
    PROVE  IInv'
<1> DEFINE x == [txn[c] EXCEPT !.at = "mirrored"]
<1>1. /\ txn[c].at = "inserted" /\ UNCHANGED <<row, enrolled, log, mirror, clock>>
      /\ lock' = lock \/ (lock = None /\ lock' = c)
  BY DEF Decisions!SetMirror
<1>2. txn' = [txn EXCEPT ![c] = x]
  BY DEF Decisions!SetMirror
<1>3. txn[c] \in [at : {"inserted", "mirrored"}, seen : Outcomes \cup {None},
                  decision : Decisions!Decision]
  <2>1. txn[c] \in Request
    BY DEF IInv, TypeOK, Request
  <2> QED
    BY <1>1, <2>1 DEF Request, Lifecycle!Txn, Decisions!Txn, Lifecycle!Idle, Decisions!Idle
<1>4. x \in Request /\ x.at = "mirrored" /\ x.seen = txn[c].seen
  BY <1>3 DEF Request, Decisions!Txn
<1>5. DecidingOK(c)
  BY DEF IInv, RequestOK
<1>6. txn'[c] = x => RequestOK(c)'
  <2> HIDE DEF x
  <2> QED
    BY <1>1, <1>4, <1>5 DEF RequestOK, LoadedOK, UpdateOK, UpdatedOK, DecidingOK, Exists, Lifecycle!Exists
<1>7. lock' \in Clients \cup {None} /\ clock' \in 0 .. MaxTime
  BY <1>1 DEF IInv, TypeOK
<1>8. \A d \in Clients \ {c} : lock = d => lock' = d
  BY <1>1, AdminAssumption
<1> HIDE DEF x
<1> QED
  BY <1>1, <1>2, <1>4, <1>6, <1>7, <1>8, Internal

\* The decision and its mirror arrive together; a mirror that is left as it
\* is was there when the request began, and has not been emptied since.
LEMMA CommitDecisionOK ==
    ASSUME IInv, NEW c \in Clients, Decisions!Commit(c), UNCHANGED <<row, enrolled>>,
           overlap' \in BOOLEAN
    PROVE  IInv'
<1> DEFINE d == txn[c].decision
<1>1. /\ txn[c].at = "mirrored" /\ txn' = [txn EXCEPT ![c] = [at |-> "idle"]]
      /\ log' = log \cup {d} /\ UNCHANGED <<row, enrolled, clock>>
      /\ mirror' = IF d.status # txn[c].seen THEN d.status ELSE mirror
      /\ lock' = IF lock = c THEN None ELSE lock
  BY DEF Decisions!Commit, Decisions!MirrorChanges, Decisions!Release, Decisions!Idle
<1>2. d \in Decisions!Decision /\ d.status \in Outcomes
  BY <1>1, Fields DEF IInv, TypeOK, Request, Decisions!Decision
<1>3. Exists /\ (txn[c].seen # None => mirror # None)
  BY <1>1 DEF IInv, RequestOK, DecidingOK
<1>4. mirror' # None /\ (mirror' = d.status \/ mirror' = mirror)
  BY <1>1, <1>2, <1>3, AdminAssumption
<1>5. Exists'
  BY <1>1, <1>3 DEF Exists, Lifecycle!Exists
<1>6. TypeOK'
  BY <1>1, <1>2, <1>4, IdleIsRequest DEF IInv, TypeOK, Request
<1>7. RowOK'
  <2>1. MirrorIsLogged'
    BY <1>1, <1>4 DEF IInv, RowOK, MirrorIsLogged
  <2>2. DatesFollowStatus' /\ EnrolledIsKept'
    BY <1>1 DEF IInv, RowOK, DatesFollowStatus, EnrolledIsKept, Exists, Lifecycle!Exists
  <2> QED
    BY <2>1, <2>2, <1>5 DEF RowOK
<1>8. RequestOK(c)'
  BY <1>1, IdleOK DEF IInv, TypeOK
<1>9. ASSUME NEW e \in Clients \ {c} PROVE RequestOK(e)'
  <2>1. RequestOK(e) /\ txn'[e] = txn[e] /\ (lock = e => lock' = e)
    BY <1>1 DEF IInv, TypeOK
  <2> HIDE DEF d
  <2> QED
    BY <1>1, <1>3, <1>4, <1>5, <2>1, OthersKeep
<1> QED
  BY <1>6, <1>7, <1>8, <1>9 DEF IInv

LEMMA DecideOK ==
    ASSUME IInv, NEW c \in Clients, Decide(c), overlap' \in BOOLEAN PROVE IInv'
<1>1. UNCHANGED <<row, enrolled>> /\ (txn[c].at \in {"idle", "opened"} => Exists)
  BY DEF Decide
<1>2. CASE Decisions!Open(c)
  <2>1. txn[c].at = "idle"
    BY <1>2 DEF Decisions!Open, Decisions!Idle
  <2> QED
    BY <1>1, <1>2, <2>1, OpenOK
<1>3. ASSUME NEW outcome \in Outcomes, Decisions!Insert(c, outcome) PROVE IInv'
  BY <1>1, <1>3, InsertOK DEF Decisions!Insert
<1>4. CASE Decisions!Rollback(c)
  BY <1>1, <1>4, Ends DEF Decisions!Rollback, Decisions!Release, Decisions!Idle
<1> QED
  BY <1>1, <1>2, <1>3, <1>4, SetMirrorOK, CommitDecisionOK DEF Decide, Decisions!Step

\* Enrolling users changes nothing a request relies on.
LEMMA EnrolOK == ASSUME IInv, Enrol, overlap' \in BOOLEAN PROVE IInv'
<1>1. Exists /\ enrolled' = TRUE /\ UNCHANGED <<row, txn, lock, clock, log, mirror>>
  BY DEF Enrol, Lifecycle!Enrol, Exists, Lifecycle!Exists
<1>2. TypeOK'
  BY <1>1 DEF IInv, TypeOK
<1>3. RowOK' /\ Exists'
  BY <1>1 DEF IInv, RowOK, DatesFollowStatus, EnrolledIsKept, MirrorIsLogged, Exists, Lifecycle!Exists
<1>4. ASSUME NEW c \in Clients PROVE RequestOK(c)'
  BY <1>1, <1>3, OthersKeep DEF IInv
<1> QED
  BY <1>2, <1>3, <1>4 DEF IInv

LEMMA StepOK == IInv /\ [Next]_vars => IInv'
<1> SUFFICES ASSUME IInv, [Next]_vars PROVE IInv'
  OBVIOUS
<1>1. CASE Next
  <2>1. overlap' \in BOOLEAN
    <3>1. overlap \in BOOLEAN
      BY DEF IInv, TypeOK
    <3>2. overlap' = (overlap \/ \E c, d \in InFlight' : c # d)
      BY <1>1 DEF Next
    <3> QED
      BY <3>1, <3>2
  <2>2. ASSUME NEW c \in Clients, DecideTooLate(c) PROVE IInv'
    BY <2>1, <2>2, Ends DEF DecideTooLate, Idle, Lifecycle!Idle
  <2> QED
    BY <1>1, <2>1, <2>2, ChangeOrAskDeleteOK, DeleteOK, DecideOK, EnrolOK DEF Next
<1>2. CASE UNCHANGED vars
  <2>1. UNCHANGED <<row, txn, lock, clock, enrolled, log, mirror, overlap>>
    BY <1>2 DEF vars
  <2>2. TypeOK' /\ RowOK'
    BY <2>1 DEF IInv, TypeOK, RowOK, DatesFollowStatus, EnrolledIsKept, MirrorIsLogged,
                Exists, Lifecycle!Exists
  <2>3. ASSUME NEW c \in Clients PROVE RequestOK(c)'
    <3>1. Exists' = Exists
      BY <2>1 DEF Exists, Lifecycle!Exists
    <3> QED
      BY <2>1, <3>1, OthersKeep DEF IInv
  <2> QED
    BY <2>2, <2>3 DEF IInv
<1> QED
  BY <1>1, <1>2

LEMMA Invariance == Spec => []IInv
<1> QED
  BY InitOK, StepOK, PTL DEF Spec

-----------------------------------------------------------------------------
\* Rows, requests, decisions and the mirror have their types for any number
\* of clients and any outcomes.
THEOREM TypeCorrect == Spec => []TypeOK
<1>1. IInv => TypeOK
  BY DEF IInv
<1> QED
  BY <1>1, Invariance, PTL

\* The dates of an experiment fit its status, whatever updates overlap
\* (update_experiment_status stamps what it has not seen stamped).
THEOREM DatesAreRight == Spec => []DatesFollowStatus
<1>1. IInv => DatesFollowStatus
  BY DEF IInv, RowOK
<1> QED
  BY <1>1, Invariance, PTL

\* The mirror of a POST and its decision stand or fall together
\* (create_decision), and the mirror is never of a decision that is gone.
THEOREM MirrorIsRight == Spec => []MirrorIsLogged
<1>1. IInv => MirrorIsLogged
  BY DEF IInv, RowOK
<1> QED
  BY <1>1, Invariance, PTL

\* A committed status only moves along MayBecome: however updates overlap, an
\* experiment leaves draft for running and does not return to it.
THEOREM StatusMovesOn == Spec => StatusMoves
<1>1. ASSUME IInv, [Next]_vars, Exists, Exists', row'.status # row.status
      PROVE  MayBecome(row.status, row'.status)
  <2>1. PICK c \in Clients : Lifecycle!Commit(c)
    <3>1. row' # row
      BY <1>1
    <3>2. row' # Lifecycle!Deleted
      BY <1>1 DEF Exists, Lifecycle!Exists
    <3>3. ~UNCHANGED vars
      BY <3>1 DEF vars
    <3>4. ASSUME NEW c \in Clients, ChangeOrAskDelete(c) PROVE Lifecycle!Commit(c)
      BY <3>1, <3>4 DEF ChangeOrAskDelete, Lifecycle!Step, Lifecycle!Load, Lifecycle!Validate,
           Lifecycle!ValidateDelete, Lifecycle!Reject, Lifecycle!Update, Lifecycle!Rollback
    <3>5. ASSUME NEW c \in Clients, Delete(c) PROVE FALSE
      BY <3>1, <3>2, <3>5 DEF Delete, Lifecycle!CommitDelete
    <3>6. ASSUME NEW c \in Clients, Decide(c) \/ DecideTooLate(c) PROVE FALSE
      BY <3>1, <3>6 DEF Decide, DecideTooLate
    <3>7. ~Enrol
      BY <3>1 DEF Enrol, Lifecycle!Enrol
    <3> QED
      BY <1>1, <3>3, <3>4, <3>5, <3>6, <3>7 DEF Next
  <2>2. /\ row' = txn[c].result /\ txn[c].at = "updated"
        /\ DatesOf(row') /\ row'.started # 0 /\ (row.started = 0 => row'.status = "running")
    BY <1>1, <2>1 DEF Lifecycle!Commit, IInv, RequestOK, UpdatedOK
  <2>3. row'.status \in Status /\ row'.status # "draft"
    BY <1>1, <2>2, Fields, SameStatus DEF IInv, TypeOK, Request, Lifecycle!Row, DatesOf
  <2>4. row.status = "draft" => row.started = 0
    BY <1>1 DEF IInv, RowOK, DatesFollowStatus
  <2>5. row.status \in Status
    BY <1>1, ExistingRow, SameStatus DEF IInv, Lifecycle!Row
  <2> QED
    BY <2>2, <2>3, <2>4, <2>5 DEF MayBecome, AllowedTransitions, Status
<1>2. IInv /\ [Next]_vars
        => [Exists /\ Exists' /\ row'.status # row.status
              => MayBecome(row.status, row'.status)]_vars
  BY <1>1
<1> QED
  BY <1>2, Invariance, PTL DEF StatusMoves, Spec

\* Users that were enrolled keep their experiment, whatever deletions were
\* validated while it was a draft: the assignments refer to the variants
\* (CommitDelete), and a row that is gone enrols nobody.
THEOREM EnrolledAreKept == Spec => []EnrolledIsKept
<1>1. IInv => EnrolledIsKept
  BY DEF IInv, RowOK
<1> QED
  BY <1>1, Invariance, PTL

-----------------------------------------------------------------------------
(***************************************************************************)
(* What a single administrator may rely on: as long as no two requests     *)
(* overlapped, the one in flight has seen the row, the mirror and the log  *)
(* as they are now, and a decision it inserts is younger than any other.   *)
(***************************************************************************)
AtMostOne == \A c, d \in Clients : txn[c] # Idle /\ txn[d] # Idle => c = d

\* An end date means the experiment is over.
EndOK == Exists => (row.ended # 0 <=> row.status = "completed")

SeesRow(c) ==
    /\ txn[c].at = "loaded" => Exists /\ txn[c].seen = row
    /\ txn[c].at = "update" =>
         /\ Exists
         /\ txn[c].to \in AllowedTransitions[row.status]
         /\ "started" \in DOMAIN txn[c].patch => row.started = 0
         /\ "ended" \in DOMAIN txn[c].patch <=> txn[c].to = "completed"
    /\ txn[c].at = "delete" => Exists /\ row.status = "draft"
    /\ txn[c].at = "updated" =>
         /\ txn[c].result.status \in AllowedTransitions[row.status]
         /\ row.started # 0 => txn[c].result.started = row.started
         /\ txn[c].result.ended # 0 <=> txn[c].result.status = "completed"

SeesLog(c) ==
    /\ txn[c].at \in {"opened", "inserted", "mirrored"} => txn[c].seen = mirror
    /\ txn[c].at \in {"inserted", "mirrored"} =>
         /\ txn[c].decision.decidedAt <= clock
         /\ \A d \in log : d.decidedAt < txn[c].decision.decidedAt

\* No two decisions of a date, and the mirror is of the last one.
LogOK ==
    /\ \A d \in log : d.decidedAt <= clock
    /\ \A d, e \in log : d.decidedAt = e.decidedAt => d = e
    /\ log # {} => \E d \in log : /\ d.status = mirror
                                 /\ \A e \in log : e.decidedAt <= d.decidedAt

Serial == AtMostOne /\ EndOK /\ LogOK /\ \A c \in Clients : SeesRow(c) /\ SeesLog(c)

SInv == IInv /\ (~overlap => Serial)

\* A request that acts alone: the others are idle before and after.
LEMMA OthersIdle ==
    ASSUME IInv, AtMostOne, AtMostOne', NEW c \in Clients, NEW x,
           txn' = [txn EXCEPT ![c] = x],
           x # Idle \/ txn[c] # Idle
    PROVE  /\ txn'[c] = x
           /\ \A d \in Clients \ {c} : txn'[d] = Idle
<1>1. txn'[c] = x /\ \A d \in Clients \ {c} : txn'[d] = txn[d]
  BY DEF IInv, TypeOK
<1>2. ASSUME NEW d \in Clients \ {c} PROVE txn'[d] = Idle
  <2>1. CASE x # Idle
    BY <1>1, <1>2, <2>1 DEF AtMostOne, Idle, Lifecycle!Idle
  <2>2. CASE txn[c] # Idle
    BY <1>1, <1>2, <2>2 DEF AtMostOne
  <2> QED
    BY <2>1, <2>2
<1> QED
  BY <1>1, <1>2

LEMMA IdleSees == ASSUME NEW c, txn'[c] = Idle PROVE (SeesRow(c) /\ SeesLog(c))'
  BY DEF SeesRow, SeesLog, Idle, Lifecycle!Idle

\* A step of a request that commits nothing.
LEMMA SerialInternal ==
    ASSUME IInv, Serial, AtMostOne', NEW c \in Clients, NEW x,
           txn' = [txn EXCEPT ![c] = x],
           x # Idle \/ txn[c] # Idle,
           UNCHANGED <<row, log, mirror>>, clock' \in {clock, clock + 1},
           txn'[c] = x => (SeesRow(c) /\ SeesLog(c))'
    PROVE  Serial'
<1>1. txn'[c] = x /\ \A d \in Clients \ {c} : txn'[d] = Idle
  BY OthersIdle DEF Serial
<1>2. \A d \in Clients : (SeesRow(d) /\ SeesLog(d))'
  BY <1>1, IdleSees
<1>3. EndOK'
  BY DEF Serial, EndOK, Exists, Lifecycle!Exists
<1>4. LogOK'
  <2>1. \A d \in log : d.decidedAt \in Nat
    BY DEF IInv, TypeOK, Decisions!Decision
  <2>2. clock \in Nat
    BY AdminAssumption DEF IInv, TypeOK
  <2> QED
    BY <2>1, <2>2 DEF Serial, LogOK
<1> QED
  BY <1>2, <1>3, <1>4 DEF Serial

LEMMA SerialEnds ==
    ASSUME IInv, Serial, AtMostOne', NEW c \in Clients, txn[c] # Idle,
           txn' = [txn EXCEPT ![c] = [at |-> "idle"]],
           UNCHANGED <<row, log, mirror, clock>>
    PROVE  Serial'
<1>1. txn'[c] = Idle => (SeesRow(c) /\ SeesLog(c))'
  BY IdleSees
<1>2. Idle = [at |-> "idle"]
  BY DEF Idle, Lifecycle!Idle
<1> QED
  BY <1>1, <1>2, SerialInternal

LEMMA SerialInit == Init => Serial
<1> SUFFICES ASSUME Init PROVE Serial
  OBVIOUS
<1>1. \A c \in Clients : txn[c] = [at |-> "idle"]
  BY DEF Init, Lifecycle!Init, Lifecycle!Idle
<1>2. AtMostOne /\ \A c \in Clients : SeesRow(c) /\ SeesLog(c)
  BY <1>1 DEF AtMostOne, SeesRow, SeesLog, Idle, Lifecycle!Idle
<1>3. EndOK /\ LogOK
  BY DEF Init, Lifecycle!Init, Decisions!Init, EndOK, LogOK
<1> QED
  BY <1>2, <1>3 DEF Serial

\* A PATCH or a DELETE alone: what it writes follows from the row as it is.
LEMMA SerialChange ==
    ASSUME IInv, Serial, AtMostOne', NEW c \in Clients, ChangeOrAskDelete(c)
    PROVE  Serial'
<1>1. UNCHANGED <<log, mirror>> /\ SeesRow(c) /\ SeesLog(c)
  BY DEF ChangeOrAskDelete, Serial
<1>2. CASE Lifecycle!Load(c)
  <2> DEFINE x == [at |-> "loaded", seen |-> row]
  <2>1. txn' = [txn EXCEPT ![c] = x] /\ Exists /\ UNCHANGED <<row, clock>>
    BY <1>2 DEF Lifecycle!Load, Lifecycle!Become, Exists, Lifecycle!Exists
  <2>2. x # Idle
    BY DEF Idle, Lifecycle!Idle
  <2>3. txn'[c] = x => (SeesRow(c) /\ SeesLog(c))'
    BY <2>1 DEF SeesRow, SeesLog, Exists, Lifecycle!Exists
  <2> HIDE DEF x
  <2> QED
    BY <1>1, <2>1, <2>2, <2>3, SerialInternal
<1>3. ASSUME NEW new \in Status, Lifecycle!Validate(c, new) PROVE Serial'
  <2> DEFINE stamped == {col \in {"started", "ended"} :
                           \/ col = "started" /\ new = "running" /\ txn[c].seen.started = 0
                           \/ col = "ended" /\ new = "completed"}
             patch == [col \in stamped |-> clock + 1]
             x == [at |-> "update", to |-> new, patch |-> patch]
  <2>1. /\ txn' = [txn EXCEPT ![c] = x] /\ clock' = clock + 1 /\ UNCHANGED row
        /\ txn[c].at = "loaded" /\ new \in AllowedTransitions[txn[c].seen.status]
    BY <1>3, SameStatus DEF Lifecycle!Validate, Lifecycle!Become
  <2>2. x # Idle
    BY DEF Idle, Lifecycle!Idle
  <2>3. Exists /\ txn[c].seen = row
    BY <1>1, <2>1 DEF SeesRow
  <2>4. ("started" \in DOMAIN patch => row.started = 0) /\ ("ended" \in DOMAIN patch <=> new = "completed")
    BY <2>3
  <2>5. txn'[c] = x => (SeesRow(c) /\ SeesLog(c))'
    <3> HIDE DEF patch
    <3> QED
      BY <2>1, <2>3, <2>4 DEF SeesRow, SeesLog, Exists, Lifecycle!Exists
  <2> HIDE DEF x
  <2> QED
    BY <1>1, <2>1, <2>2, <2>5, SerialInternal
<1>4. CASE Lifecycle!ValidateDelete(c)
  <2> DEFINE x == [at |-> "delete"]
  <2>1. /\ txn' = [txn EXCEPT ![c] = x] /\ UNCHANGED <<row, clock>>
        /\ txn[c].at = "loaded" /\ txn[c].seen.status = "draft"
    BY <1>4 DEF Lifecycle!ValidateDelete, Lifecycle!Become
  <2>2. x # Idle
    BY DEF Idle, Lifecycle!Idle
  <2>3. txn'[c] = x => (SeesRow(c) /\ SeesLog(c))'
    BY <1>1, <2>1 DEF SeesRow, SeesLog, Exists, Lifecycle!Exists
  <2> HIDE DEF x
  <2> QED
    BY <1>1, <2>1, <2>2, <2>3, SerialInternal
<1>5. CASE Lifecycle!Reject(c) \/ Lifecycle!Rollback(c)
  <2>1. /\ txn' = [txn EXCEPT ![c] = [at |-> "idle"]] /\ UNCHANGED <<row, clock>>
        /\ txn[c].at \in {"loaded", "updated"}
    BY <1>5 DEF Lifecycle!Reject, Lifecycle!Rollback, Lifecycle!Become, Lifecycle!Idle
  <2>2. txn[c] # Idle
    BY <2>1 DEF Idle, Lifecycle!Idle
  <2> QED
    BY <1>1, <2>1, <2>2, SerialEnds
<1>6. CASE Lifecycle!Update(c)
  <2> DEFINE set(col) == IF col \in DOMAIN txn[c].patch THEN txn[c].patch[col] ELSE row[col]
             r == [status |-> txn[c].to, started |-> set("started"), ended |-> set("ended")]
             x == [at |-> "updated", result |-> r]
  <2>1. txn[c].at = "update" /\ UNCHANGED <<row, clock>>
    BY <1>6 DEF Lifecycle!Update
  <2>2. /\ Exists /\ txn[c].to \in AllowedTransitions[row.status]
        /\ "started" \in DOMAIN txn[c].patch => row.started = 0
        /\ "ended" \in DOMAIN txn[c].patch <=> txn[c].to = "completed"
    BY <1>1, <2>1 DEF SeesRow
  <2>3. txn' = [txn EXCEPT ![c] = x]
    BY <1>6, <2>2 DEF Lifecycle!Update, Lifecycle!Become, Exists, Lifecycle!Exists
  <2>4. x # Idle
    BY DEF Idle, Lifecycle!Idle
  <2>5. row \in Lifecycle!Row /\ row.status # "completed" /\ row.ended = 0
    <3>1. row \in Lifecycle!Row
      BY <2>2, ExistingRow DEF IInv
    <3>2. row.status # "completed"
      BY <2>2, <3>1, SameStatus DEF Lifecycle!Row, AllowedTransitions, Status
    <3> QED
      BY <2>2, <3>1, <3>2 DEF Serial, EndOK
  <2>6. \A col \in DOMAIN txn[c].patch : txn[c].patch[col] # 0
    BY <2>1 DEF IInv, RequestOK, UpdateOK
  <2>7. /\ row.started # 0 => r.started = row.started
        /\ r.ended # 0 <=> txn[c].to = "completed"
    BY <2>2, <2>5, <2>6 DEF Lifecycle!Row
  <2>8. r.status = txn[c].to
    OBVIOUS
  <2>9. txn'[c] = x => (SeesRow(c) /\ SeesLog(c))'
    <3> HIDE DEF r
    <3> QED
      BY <2>1, <2>2, <2>7, <2>8 DEF SeesRow, SeesLog, Exists, Lifecycle!Exists
  <2> HIDE DEF x
  <2> QED
    BY <1>1, <2>1, <2>3, <2>4, <2>9, SerialInternal
<1>7. CASE Lifecycle!Commit(c)
  <2>1. /\ txn[c].at = "updated" /\ row' = txn[c].result
        /\ txn' = [txn EXCEPT ![c] = [at |-> "idle"]] /\ UNCHANGED clock
    BY <1>7 DEF Lifecycle!Commit, Lifecycle!Become, Lifecycle!Idle
  <2>2. EndOK'
    BY <1>1, <2>1 DEF SeesRow, EndOK
  <2>3. LogOK'
    BY <1>1, <2>1 DEF Serial, LogOK
  <2>4. txn[c] # Idle /\ Idle = [at |-> "idle"]
    BY <2>1 DEF Idle, Lifecycle!Idle
  <2>5. \A d \in Clients : txn'[d] = Idle
    BY <2>1, <2>4, OthersIdle DEF Serial
  <2> QED
    BY <2>2, <2>3, <2>5, IdleSees DEF Serial
<1> QED
  BY <1>2, <1>3, <1>4, <1>5, <1>6, <1>7, SameStatus DEF ChangeOrAskDelete, Lifecycle!Step

LEMMA SerialDelete ==
    ASSUME IInv, Serial, AtMostOne', NEW c \in Clients, Delete(c)
    PROVE  Serial'
<1>1. /\ txn[c].at = "delete" /\ txn' = [txn EXCEPT ![c] = [at |-> "idle"]] /\ UNCHANGED clock
      /\ row' = IF enrolled THEN row ELSE Lifecycle!Deleted
      /\ IF row' = row THEN UNCHANGED <<log, mirror>> ELSE log' = {} /\ mirror' = None
  BY DEF Delete, Lifecycle!CommitDelete, Lifecycle!Become, Lifecycle!Idle
<1>2. txn[c] # Idle /\ Idle = [at |-> "idle"]
  BY <1>1 DEF Idle, Lifecycle!Idle
<1>3. CASE row' = row
  BY <1>1, <1>2, <1>3, SerialEnds
<1>4. CASE row' # row
  <2>1. ~Exists' /\ log' = {}
    BY <1>1, <1>4 DEF Exists, Lifecycle!Exists, Lifecycle!Deleted
  <2>2. EndOK' /\ LogOK'
    BY <2>1 DEF EndOK, LogOK
  <2>3. \A d \in Clients : txn'[d] = Idle
    BY <1>1, <1>2, OthersIdle DEF Serial
  <2> QED
    BY <2>2, <2>3, IdleSees DEF Serial
<1> QED
  BY <1>3, <1>4

\* A POST of a decision alone: its decision is dated after all others, so that
\* the mirror it leaves is of the last one.
LEMMA SerialDecide ==
    ASSUME IInv, Serial, AtMostOne', NEW c \in Clients, Decide(c)
    PROVE  Serial'
<1>1. UNCHANGED row /\ SeesRow(c) /\ SeesLog(c) /\ clock \in Nat
  BY AdminAssumption DEF Decide, Serial, IInv, TypeOK
<1>2. \A d \in log : d.decidedAt \in Nat
  BY DEF IInv, TypeOK, Decisions!Decision
<1>3. CASE Decisions!Open(c)
  <2> DEFINE x == [at |-> "opened", seen |-> mirror]
  <2>1. txn' = [txn EXCEPT ![c] = x] /\ UNCHANGED <<log, mirror, clock>>
    BY <1>3 DEF Decisions!Open
  <2>2. x # Idle
    BY DEF Idle, Lifecycle!Idle
  <2>3. txn'[c] = x => (SeesRow(c) /\ SeesLog(c))'
    BY <2>1 DEF SeesRow, SeesLog
  <2> HIDE DEF x
  <2> QED
    BY <1>1, <2>1, <2>2, <2>3, SerialInternal
<1>4. ASSUME NEW outcome \in Outcomes, Decisions!Insert(c, outcome) PROVE Serial'
  <2> DEFINE d == [status |-> outcome, decidedAt |-> clock + 1]
             x == [at |-> "inserted", seen |-> txn[c].seen, decision |-> d]
  <2>1. txn[c].at = "opened" /\ clock' = clock + 1 /\ UNCHANGED <<log, mirror>>
    BY <1>4 DEF Decisions!Insert
  <2>2. txn' = [txn EXCEPT ![c] = x]
    BY <1>4 DEF Decisions!Insert, IInv, TypeOK
  <2>3. x # Idle
    BY DEF Idle, Lifecycle!Idle
  <2>4. d.decidedAt <= clock' /\ \A e \in log : e.decidedAt < d.decidedAt
    BY <1>1, <1>2, <2>1 DEF Serial, LogOK
  <2>5. txn'[c] = x => (SeesRow(c) /\ SeesLog(c))'
    <3> HIDE DEF d
    <3> QED
      BY <1>1, <2>1, <2>4 DEF SeesRow, SeesLog
  <2> HIDE DEF x
  <2> QED
    BY <1>1, <2>1, <2>2, <2>3, <2>5, SerialInternal
<1>5. CASE Decisions!SetMirror(c)
  <2> DEFINE x == [txn[c] EXCEPT !.at = "mirrored"]
  <2>1. txn[c].at = "inserted" /\ UNCHANGED <<log, mirror, clock>>
    BY <1>5 DEF Decisions!SetMirror
  <2>2. txn' = [txn EXCEPT ![c] = x]
    BY <1>5 DEF Decisions!SetMirror
  <2>3. txn[c] \in [at : {"inserted", "mirrored"}, seen : Outcomes \cup {None},
                    decision : Decisions!Decision]
    <3>1. txn[c] \in Request
      BY DEF IInv, TypeOK, Request
    <3> QED
      BY <2>1, <3>1 DEF Request, Lifecycle!Txn, Decisions!Txn, Lifecycle!Idle, Decisions!Idle
  <2>4. x.at = "mirrored" /\ x.seen = txn[c].seen /\ x.decision = txn[c].decision
    BY <2>3
  <2>5. x # Idle
    BY <2>4 DEF Idle, Lifecycle!Idle
  <2>6. txn'[c] = x => (SeesRow(c) /\ SeesLog(c))'
    <3> HIDE DEF x
    <3> QED
      BY <1>1, <2>1, <2>4 DEF SeesRow, SeesLog
  <2> HIDE DEF x
  <2> QED
    BY <1>1, <2>1, <2>2, <2>5, <2>6, SerialInternal
<1>6. CASE Decisions!Commit(c)
  <2> DEFINE d == txn[c].decision
  <2>1. /\ txn[c].at = "mirrored" /\ txn' = [txn EXCEPT ![c] = [at |-> "idle"]]
        /\ log' = log \cup {d} /\ UNCHANGED clock
        /\ mirror' = IF d.status # txn[c].seen THEN d.status ELSE mirror
    BY <1>6 DEF Decisions!Commit, Decisions!MirrorChanges, Decisions!Idle
  <2>2. d.decidedAt \in Nat
    BY <2>1, Fields DEF IInv, TypeOK, Request, Decisions!Decision
  <2>3. /\ txn[c].seen = mirror /\ d.decidedAt <= clock
        /\ \A e \in log : e.decidedAt < d.decidedAt
    BY <1>1, <2>1 DEF SeesLog
  <2>4. mirror' = d.status
    BY <2>1, <2>3
  <2>5. LogOK'
    <3> HIDE DEF d
    <3>1. \A e \in log' : e.decidedAt <= d.decidedAt /\ e.decidedAt <= clock'
      BY <1>1, <1>2, <2>1, <2>2, <2>3
    <3>2. \A e, f \in log' : e.decidedAt = f.decidedAt => e = f
      BY <1>2, <2>1, <2>2, <2>3 DEF Serial, LogOK
    <3>3. d \in log' /\ d.status = mirror'
      BY <2>1, <2>4
    <3> QED
      BY <3>1, <3>2, <3>3 DEF LogOK
  <2>6. EndOK'
    BY <1>1 DEF Serial, EndOK, Exists, Lifecycle!Exists
  <2>7. txn[c] # Idle /\ Idle = [at |-> "idle"]
    BY <2>1 DEF Idle, Lifecycle!Idle
  <2>8. \A e \in Clients : txn'[e] = Idle
    BY <2>1, <2>7, OthersIdle DEF Serial
  <2> QED
    BY <2>5, <2>6, <2>8, IdleSees DEF Serial
<1>7. CASE Decisions!Rollback(c)
  <2>1. /\ txn' = [txn EXCEPT ![c] = [at |-> "idle"]] /\ UNCHANGED <<log, mirror, clock>>
        /\ txn[c].at \in {"opened", "inserted", "mirrored"}
    BY <1>7 DEF Decisions!Rollback, Decisions!Idle
  <2>2. txn[c] # Idle
    BY <2>1 DEF Idle, Lifecycle!Idle
  <2> QED
    BY <1>1, <2>1, <2>2, SerialEnds
<1> QED
  BY <1>3, <1>4, <1>5, <1>6, <1>7 DEF Decide, Decisions!Step

LEMMA SerialEnrol == ASSUME Serial, AtMostOne', Enrol PROVE Serial'
<1>1. UNCHANGED <<row, txn, lock, clock, log, mirror>>
  BY DEF Enrol, Lifecycle!Enrol
<1>2. EndOK' /\ LogOK'
  BY <1>1 DEF Serial, EndOK, LogOK, Exists, Lifecycle!Exists
<1>3. ASSUME NEW c \in Clients PROVE (SeesRow(c) /\ SeesLog(c))'
  BY <1>1 DEF Serial, SeesRow, SeesLog, Exists, Lifecycle!Exists
<1> QED
  BY <1>2, <1>3 DEF Serial

LEMMA SerialStep == SInv /\ [Next]_vars => SInv'
<1> SUFFICES ASSUME SInv, [Next]_vars, ~overlap' PROVE Serial'
  BY StepOK DEF SInv
<1>1. IInv
  BY DEF SInv
<1>2. CASE Next
  <2>1. ~overlap /\ ~\E c, d \in InFlight' : c # d
    BY <1>2 DEF Next
  <2>2. AtMostOne'
    BY <2>1 DEF AtMostOne, InFlight, Idle, Lifecycle!Idle
  <2>3. Serial
    BY <2>1 DEF SInv
  <2>4. ASSUME NEW c \in Clients, DecideTooLate(c) PROVE Serial'
    <3>1. /\ txn' = [txn EXCEPT ![c] = [at |-> "idle"]] /\ UNCHANGED <<row, log, mirror, clock>>
          /\ txn[c] # Idle
      BY <2>4 DEF DecideTooLate, Idle, Lifecycle!Idle
    <3> QED
      BY <1>1, <2>2, <2>3, <3>1, SerialEnds
  <2> QED
    BY <1>1, <1>2, <2>2, <2>3, <2>4, SerialChange, SerialDelete, SerialDecide, SerialEnrol DEF Next
<1>3. CASE UNCHANGED vars
  <2>1. UNCHANGED <<row, txn, lock, clock, enrolled, log, mirror, overlap>>
    BY <1>3 DEF vars
  <2>2. Serial /\ AtMostOne' /\ EndOK' /\ LogOK'
    BY <2>1 DEF SInv, Serial, AtMostOne, EndOK, LogOK, Idle, Lifecycle!Idle, Exists, Lifecycle!Exists
  <2>3. ASSUME NEW c \in Clients PROVE (SeesRow(c) /\ SeesLog(c))'
    BY <2>1, <2>2 DEF Serial, SeesRow, SeesLog, Exists, Lifecycle!Exists
  <2> QED
    BY <2>2, <2>3 DEF Serial
<1> QED
  BY <1>2, <1>3

LEMMA SerialInvariance == Spec => []SInv
<1>1. Init => SInv
  BY InitOK, SerialInit DEF SInv
<1> QED
  BY <1>1, SerialStep, PTL DEF Spec

\* While requests do not overlap, decision_status is the status of the
\* decision that list_decisions_for_experiment puts first.
THEOREM MirrorOfTheLast == Spec => []SerialMirror
<1>1. ASSUME SInv, ~overlap PROVE Decisions!MirrorInSync
  <2>1. Serial /\ IInv
    BY <1>1 DEF SInv
  <2>2. CASE log = {}
    BY <2>1, <2>2 DEF Decisions!MirrorInSync, IInv, RowOK, MirrorIsLogged
  <2>3. CASE log # {}
    <3>1. PICK d \in log : d.status = mirror /\ \A e \in log : e.decidedAt <= d.decidedAt
      BY <2>1, <2>3 DEF Serial, LogOK
    <3>2. Decisions!Latest \in log /\ \A e \in log : e.decidedAt <= Decisions!Latest.decidedAt
      BY <3>1 DEF Decisions!Latest
    <3>3. d.decidedAt \in Nat /\ Decisions!Latest.decidedAt \in Nat
      BY <2>1, <3>2 DEF IInv, TypeOK, Decisions!Decision
    <3>4. Decisions!Latest = d
      <4>1. Decisions!Latest.decidedAt = d.decidedAt
        BY <3>1, <3>2, <3>3
      <4> QED
        BY <2>1, <3>2, <4>1 DEF Serial, LogOK
    <3> QED
      BY <2>3, <3>1, <3>4 DEF Decisions!MirrorInSync
  <2> QED
    BY <2>2, <2>3
<1>2. SInv => SerialMirror
  BY <1>1 DEF SerialMirror
<1> QED
  BY <1>2, SerialInvariance, PTL

\* While requests do not overlap, completed is final, a start date is written
\* once, an end date means completed, and only a draft is deleted
\* (update_experiment_status, delete_experiment).
THEOREM SerialHistoryIsRight == Spec => SerialHistory
<1> DEFINE Right ==
      Exists /\ ~overlap' =>
        /\ row.status = "completed" => row' = row
        /\ Exists' /\ row.started # 0 => row'.started = row.started
        /\ Exists' /\ row'.ended # 0 => row'.status = "completed"
        /\ ~Exists' => row.status = "draft"
<1>1. ASSUME SInv, Next, Exists, ~overlap' PROVE Right
  <2>1. Serial /\ IInv
    BY <1>1 DEF SInv, Next
  <2>2. CASE row' = row
    BY <1>1, <2>1, <2>2 DEF Serial, EndOK, Exists, Lifecycle!Exists
  <2>3. ASSUME NEW c \in Clients, Lifecycle!Commit(c) PROVE Right
    <3>1. txn[c].at = "updated" /\ row' = txn[c].result
      BY <2>3 DEF Lifecycle!Commit
    <3>2. /\ row'.status \in AllowedTransitions[row.status]
          /\ row.started # 0 => row'.started = row.started
          /\ row'.ended # 0 <=> row'.status = "completed"
      BY <2>1, <3>1 DEF Serial, SeesRow
    <3>3. Exists'
      <4>1. row' \in Lifecycle!Row
        BY <2>1, <3>1, Fields DEF IInv, TypeOK, Request
      <4> QED
        BY <4>1, RowIsThere DEF Exists, Lifecycle!Exists
    <3>4. row.status # "completed"
      BY <3>2 DEF AllowedTransitions, Status
    <3> QED
      BY <3>2, <3>3, <3>4
  <2>4. ASSUME NEW c \in Clients, Delete(c), row' # row PROVE Right
    <3>1. txn[c].at = "delete" /\ row' = Lifecycle!Deleted
      BY <2>4 DEF Delete, Lifecycle!CommitDelete
    <3>2. row.status = "draft" /\ ~Exists'
      BY <2>1, <3>1 DEF Serial, SeesRow, Exists, Lifecycle!Exists, Lifecycle!Deleted
    <3> QED
      BY <3>2
  <2>5. row' = row \/ \E c \in Clients : Lifecycle!Commit(c) \/ Delete(c)
    <3>1. ASSUME NEW c \in Clients, ChangeOrAskDelete(c) PROVE row' = row \/ Lifecycle!Commit(c)
      BY <3>1 DEF ChangeOrAskDelete, Lifecycle!Step, Lifecycle!Load, Lifecycle!Validate,
           Lifecycle!ValidateDelete, Lifecycle!Reject, Lifecycle!Update, Lifecycle!Rollback
    <3>2. ASSUME NEW c \in Clients, Decide(c) \/ DecideTooLate(c) PROVE row' = row
      BY <3>2 DEF Decide, DecideTooLate
    <3>3. Enrol => row' = row
      BY DEF Enrol, Lifecycle!Enrol
    <3> QED
      BY <1>1, <3>1, <3>2, <3>3 DEF Next
  <2> HIDE DEF Right
  <2> QED
    BY <2>2, <2>3, <2>4, <2>5
<1>2. SInv /\ [Next]_vars => [Right]_vars
  BY <1>1
<1> QED
  BY <1>2, SerialInvariance, PTL DEF SerialHistory, Spec

=============================================================================
