--------------------------- MODULE EventDelivery ----------------------------
(***************************************************************************)
(* What a pipeline of events promises, with no buffers, threads or         *)
(* requests: an event that was accepted waits until its batch is stored,   *)
(* which makes one row of it, or is given up; either is for good, and a    *)
(* batch meets one fate.                                                   *)
(***************************************************************************)
EXTENDS Naturals

CONSTANT Events

VARIABLES waiting,    \* accepted and undecided
          stored,     \* stored[e]: how many rows the event e has
          gone        \* given up

vars == <<waiting, stored, gone>>

Init ==
    /\ waiting = {} /\ gone = {}
    /\ stored = [e \in Events |-> 0]

Accept(e) ==
    /\ e \notin waiting /\ e \notin gone /\ stored[e] = 0
    /\ waiting' = waiting \cup {e}
    /\ UNCHANGED <<stored, gone>>

Store(batch) ==
    /\ stored' = [e \in Events |-> IF e \in batch THEN 1 ELSE stored[e]]
    /\ waiting' = waiting \ batch
    /\ UNCHANGED gone

GiveUp(batch) ==
    /\ gone' = gone \cup batch
    /\ waiting' = waiting \ batch
    /\ UNCHANGED stored

Next ==
    \/ \E e \in Events : Accept(e)
    \/ \E batch \in SUBSET waiting : Store(batch) \/ GiveUp(batch)

Spec == Init /\ [][Next]_vars

=============================================================================
