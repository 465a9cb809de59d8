-------------------------- MODULE StickyAssignment --------------------------
(***************************************************************************)
(* What an assignment service promises, with no caches, requests or        *)
(* failures: each pair of a user and an experiment is exposed to at most   *)
(* one variant, once and for all, and what is recorded about a pair is the *)
(* variant it was exposed to, recorded after the exposure and never        *)
(* changed.                                                                *)
(***************************************************************************)
EXTENDS Naturals

CONSTANTS Pair,       \* pairs of a user and an experiment
          Options,    \* Options[p]: the variants p may be exposed to
          NoVariant

VARIABLES exposure,   \* exposure[p]: the variant shown to p, or NoVariant
          record      \* record[p]: the variant recorded for p, or NoVariant

vars == <<exposure, record>>

Init ==
    /\ exposure = [p \in Pair |-> NoVariant]
    /\ record   = [p \in Pair |-> NoVariant]

Expose(p) ==
    /\ exposure[p] = NoVariant
    /\ \E v \in Options[p] : exposure' = [exposure EXCEPT ![p] = v]
    /\ UNCHANGED record

Record(p) ==
    /\ exposure[p] # NoVariant
    /\ record[p] = NoVariant
    /\ record' = [record EXCEPT ![p] = exposure[p]]
    /\ UNCHANGED exposure

Next == \E p \in Pair : Expose(p) \/ Record(p)

Spec == Init /\ [][Next]_vars

=============================================================================
