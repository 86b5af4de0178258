------------------------------- MODULE Buckets -------------------------------
(***************************************************************************)
(* The temperature buckets of one daily market, as reversal_strategy.py    *)
(* reads them.  A market lists the buckets 0 .. NumBuckets-1 by            *)
(* temperature; the coldest one is open below, the hottest open above.     *)
(* Temperatures are integers, in tenths of the market's unit, so that the  *)
(* Celsius readings converted to Fahrenheit stay exact.                    *)
(***************************************************************************)
EXTENDS Integers, FiniteSets

CONSTANTS
    NumBuckets,    \* how many outcomes the market has
    Base,          \* upper edge of the coldest bucket, minus one Width
    Width,         \* 10 in a C market, 20 in an F market
    None           \* the absent value (Python's None)

ASSUME BucketsAssumption ==
    /\ NumBuckets \in Nat /\ NumBuckets >= 2
    /\ Base \in Int
    /\ Width \in Nat \ {0}
    /\ None \notin Int

Bucket == 0 .. (NumBuckets - 1)

Lo(b) == Base + Width * b            \* not used for the coldest bucket
Hi(b) == Base + Width * (b + 1)      \* not used for the hottest one

OpenBelow(b) == b = 0
OpenAbove(b) == b = NumBuckets - 1

BucketContains(b, t) == /\ OpenBelow(b) \/ t >= Lo(b)
                        /\ OpenAbove(b) \/ t < Hi(b)

\* The centre of a bucket; an open one is represented by its only edge.
MidValue(b) == CASE OpenBelow(b) -> Hi(b)
                 [] OpenAbove(b) -> Lo(b)
                 [] OTHER -> (Lo(b) + Hi(b)) \div 2

(***************************************************************************)
(* A rule lists only the buckets whose market still accepts orders, so     *)
(* every lookup is relative to a set L of listed buckets.                  *)
(***************************************************************************)
FindBucket(L, t) == IF \E b \in L : BucketContains(b, t)
                    THEN CHOOSE b \in L : BucketContains(b, t)
                    ELSE None

\* Position of b in the listed buckets, ordered by temperature.
BucketIndex(L, b) == Cardinality({x \in L : x < b})

\* How many listed buckets "to" lies past "from" in the market's direction.
Jump(L, direction, from, to) ==
    IF direction = "high" THEN BucketIndex(L, to) - BucketIndex(L, from)
                          ELSE BucketIndex(L, from) - BucketIndex(L, to)

\* Strictly further in the market's direction.
Beyond(direction, b, than) == IF direction = "high" THEN b > than ELSE b < than

Abs(x) == IF x < 0 THEN -x ELSE x

\* Nearest whole degree, halves up (the ASOS display convention).
WholeDegree(t) == 10 * ((t + 5) \div 10)

==============================================================================
