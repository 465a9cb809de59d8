------------------------- MODULE MCResultsAnalysis -------------------------
(***************************************************************************)
(* ResultsAnalysis with two running experiments: somebody has the page of  *)
(* one open, its facts change twice and alarm in the end; the facts of the *)
(* other come once, so that it may be found without assignments.           *)
(***************************************************************************)
EXTENDS ResultsAnalysis, TLC

CONSTANTS shown, other

TwoExperiments == {shown, other}
OnePage   == {shown}
FactsOf   == shown :> 2 @@ other :> 1
AlarmsOf  == shown :> {2} @@ other :> {}

=============================================================================
