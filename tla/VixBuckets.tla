----------------------------- MODULE VixBuckets -----------------------------
(***************************************************************************)
(* The VIX buckets of config.yaml (vix_buckets.py): ranges of VIX, each    *)
(* with its entry parameters.  A range holds its lower bound and not its   *)
(* upper one, except the top range, which holds both.  VIX and bounds are  *)
(* integers in one fixed unit.                                             *)
(***************************************************************************)
EXTENDS Integers, Sequences, FiniteSets

CONSTANT
    None        \* no bucket; a value that is missing

(* A key of the config, "lo-hi", with its parameters.                      *)
Bucket(lo, hi, params) == [lo |-> lo, hi |-> hi, params |-> params]

(* Mutant of InBucket: the top of a range belongs to the next range too.   *)
InBucket_Closed(buckets, i, vix) == buckets[i].lo <= vix /\ vix <= buckets[i].hi
InBucket(buckets, i, vix) ==
    /\ buckets[i].lo <= vix
    /\ vix < buckets[i].hi \/ (i = Len(buckets) /\ vix = buckets[i].hi)

(* parse_buckets: the keys sorted by their lower bound; they must neither  *)
(* overlap nor leave a gap, or the engine does not start.                  *)
Sorted(raw) ==
    {buckets \in [1..Cardinality(raw) -> raw] :
        /\ \A key \in raw : \E i \in DOMAIN buckets : buckets[i] = key
        /\ \A i, j \in DOMAIN buckets : i < j => buckets[i].lo <= buckets[j].lo}
IsPartition(buckets) ==
    /\ \A i \in DOMAIN buckets : buckets[i].lo < buckets[i].hi
    /\ \A i \in 1..(Len(buckets) - 1) : buckets[i].hi = buckets[i + 1].lo

(* classify: the first bucket that contains the VIX.                       *)
Classify(buckets, vix) ==
    LET hits == {i \in DOMAIN buckets : InBucket(buckets, i, vix)}
    IN  IF hits = {} THEN None
        ELSE buckets[CHOOSE i \in hits : \A j \in hits : i <= j]
=============================================================================
