---------------------------- MODULE MCIngestion -----------------------------
(***************************************************************************)
(* Ingestion on small instances, each with the actors that one question is *)
(* about.                                                                  *)
(***************************************************************************)
EXTENDS Ingestion

VARIABLE area

\* The autumn before a new year.
Autumn == <<2025, 11>>

MCInit == Init /\ area \in {"events", "flag", "calendar"}

\* get_flag begins only in the area "flag", so the rest of it only happens
\* there.
MCNext ==
    /\ \/ /\ area = "events"
          /\ \/ /\ \/ \E t \in Threads : (\E e \in Events : Track(t, e)) \/ Flush(t) \/ Close(t)
                   \/ \E t \in All : Continue(t)
                   \/ Wake \/ Exit
                /\ UNCHANGED <<storeVars, stored, flag>>
             \/ \E t \in All : Deliver(t)
       \/ /\ area = "flag"
          /\ \/ /\ \E t \in Threads : GetFlag(t) \/ Continue(t)
                /\ UNCHANGED <<storeVars, stored, flag>>
             \/ Age /\ UNCHANGED <<storeVars, stored, flag>>
             \/ \E t \in Threads : Answer(t)
             \/ Switch
       \/ /\ area = "calendar"
          /\ ServerStep /\ UNCHANGED <<sdkVars, stored, flag>>
    /\ UNCHANGED area

MCVars == <<vars, area>>

MCSpec ==
    /\ MCInit /\ [][MCNext]_MCVars
    /\ \A t \in All : WF_MCVars(Progress(t) /\ UNCHANGED area)
    /\ WF_MCVars(Wake /\ UNCHANGED <<storeVars, stored, flag, area>>)

=============================================================================
