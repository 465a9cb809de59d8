----------------------------- MODULE Bucketing -----------------------------
(***************************************************************************)
(* The deterministic part of an assignment                                 *)
(* (backend/app/services/bucketing.py): a user falls into one of 100       *)
(* buckets and the bucket selects a variant by the cumulative traffic      *)
(* splits of the variants in the order of their names.                     *)
(*                                                                         *)
(* SHA-256 is abstracted to "some fixed bucket per user and experiment":   *)
(* the callers take the bucket as a parameter.  Variant names are naturals *)
(* because pick_variant sorts by name; splits are hundredths of a percent, *)
(* so the tolerance of ExperimentCreate.validate_splits (0.01) is 1.       *)
(***************************************************************************)
EXTENDS Naturals, Sequences, FiniteSets, FiniteSetsExt, Functions

CONSTANT NoVariant      \* the None of pick_variant

ASSUME NoVariantIsNoName == NoVariant \notin Nat

NumBuckets == 100
BucketNo   == 0 .. NumBuckets - 1

\* One percent and the tolerance of the sum, in the unit of the splits.
Percent   == 100
Tolerance == 1

Variant == [name : Nat, split : 1 .. 100 * Percent]

\* The variant sets a created experiment can have: at least two, distinct
\* names (uq_variant_experiment_name), splits that add up to 100 percent.
ValidSplits(V) ==
    LET total == MapThenSumSet(LAMBDA v : v.split, V)
    IN /\ Cardinality(V) >= 2
       /\ \A v, w \in V : v.name = w.name => v = w
       /\ total \in 100 * Percent - Tolerance .. 100 * Percent + Tolerance

\* The split total of v and of the variants that sort before it.
CumulativeSplit(V, v) ==
    MapThenSumSet(LAMBDA w : w.split, {w \in V : w.name <= v.name})

\* is_in_traffic: the traffic bucket is independent of the variant bucket.
InTraffic(trafficBucket, traffic) == trafficBucket * Percent < traffic

\* Mutant: the variants as listed.
PickVariantUnsorted(bucket, vs) ==
    LET upTo(i) == MapThenSumSet(LAMBDA j : vs[j].split, 1 .. i)
        hits    == {i \in DOMAIN vs : bucket * Percent < upTo(i)}
    IN IF hits = {} THEN NoVariant ELSE vs[CHOOSE i \in hits : \A j \in hits : i <= j].name

\* pick_variant: the first variant in name order whose cumulative split
\* exceeds the bucket.  vs is the list as the row order or the cached JSON
\* gives it; sorting makes its order irrelevant.
PickVariant(bucket, vs) ==
    LET V    == Range(vs)
        hits == {v \in V : bucket * Percent < CumulativeSplit(V, v)}
    IN IF hits = {}
         THEN NoVariant
         ELSE (CHOOSE v \in hits : \A w \in hits : v.name <= w.name).name

=============================================================================
