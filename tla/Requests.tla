------------------------------ MODULE Requests ------------------------------
(***************************************************************************)
(* A mutating request of the REST API in its two steps (get_db in          *)
(* backend/app/database.py, one transaction per request):                  *)
(*                                                                         *)
(*   Begin   the router loads the row it works on, with the rows that hang *)
(*           from it; a request that is refused at once (404, 409, 422)    *)
(*           changes nothing and is left out                               *)
(*   Done    the service flushes, audit_service.log_action adds its row to *)
(*           the same transaction, get_db commits                          *)
(*   Fail    any exception, or the client hanging up: all is rolled back   *)
(*                                                                         *)
(* Between the first write of a transaction and its commit its rows are    *)
(* locked and nobody sees them, so the two are one step; other requests    *)
(* come in between Begin and Done.                                         *)
(***************************************************************************)
EXTENDS Integers, FiniteSets

CONSTANTS
    Clients,        \* slots for requests in flight
    Null,           \* None: a field the body leaves out
    Absent,         \* a row that is not there
    MaxRequests     \* bound on the requests of a behaviour

ASSUME RequestsAssumption ==
    /\ MaxRequests \in Nat
    /\ Null \notin Nat \cup BOOLEAN

VARIABLES
    txn,        \* client -> its request: what it asks, what it has loaded, its number
    asked,      \* requests so far; a new row gets the number of its request as id
    overlap     \* history: two requests have been in flight at once

requestVars == <<txn, asked, overlap>>

NoAsk == [op |-> "none"]

Idle == [ask |-> NoAsk, row |-> Absent, kids |-> {}, n |-> 0]

InitRequests ==
    /\ txn = [c \in Clients |-> Idle]
    /\ asked = 0
    /\ overlap = FALSE

Begin(c, ask, row, kids) ==
    /\ txn[c] = Idle
    /\ asked < MaxRequests
    /\ asked' = asked + 1
    /\ txn' = [txn EXCEPT ![c] = [ask |-> ask, row |-> row, kids |-> kids, n |-> asked + 1]]
    /\ overlap' = (overlap \/ \E d \in Clients : txn[d] # Idle)

Doing(c, op) == txn[c].ask.op = op

Done(c) ==
    /\ txn' = [txn EXCEPT ![c] = Idle]
    /\ UNCHANGED <<asked, overlap>>

Fail(c) == txn[c] # Idle /\ Done(c)

-----------------------------------------------------------------------------
\* What an UPDATE leaves in a column: SQLAlchemy writes the columns that the
\* request set to something else than it had loaded, and no others.
Column(now, loaded, wanted) == IF wanted \in {Null, loaded} THEN now ELSE wanted

\* What the object in the session shows afterwards, and the audit row tells:
\* the columns the request did not set are as it had loaded them.
Shown(loaded, wanted) == IF wanted = Null THEN loaded ELSE wanted

\* The row that was loaded is still there; a row of the same key that was
\* created since has another id.
StillThere(row, loaded) == row # Absent /\ row.id = loaded.id

=============================================================================
