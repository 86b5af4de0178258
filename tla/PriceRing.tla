------------------------------ MODULE PriceRing -------------------------------
(***************************************************************************)
(* The price series of sleeve_signal.PriceRing and the signal drawn from   *)
(* them: the favourite bucket weakens while its neighbour on the breach    *)
(* side gains.  A point holds the age of an observed best ask and its      *)
(* price, 0 being no ask; a series runs from the oldest point to the last. *)
(* An average is kept as a fraction, of denominator 0 when there is none.  *)
(***************************************************************************)
EXTENDS Series

CONSTANTS
    NBuckets,           \* the buckets of the market, by temperature
    High,               \* the direction: TRUE for the day's maximum
    Window, MaxLen,     \* how long, and how many, points are kept
    Short, Long,        \* the two look-backs of the signal
    RankWindow,         \* the look-back that ranks the buckets: 600 s, whatever Long is
    Drop, Rise,         \* sleeve_rank1_drop, sleeve_neighbour_rise
    MaxAsk, MinTicks    \* sleeve_max_ask; the points each series must have

ASSUME RingAssumption ==
    /\ NBuckets \in Nat \ {0} /\ High \in BOOLEAN
    /\ {Window, MaxLen, Short, Long, RankWindow, Drop, Rise, MaxAsk, MinTicks} \subseteq Nat \ {0}

Buckets == 1 .. NBuckets
Point == [age : Nat, px : Nat \ {0}]

\* record: an ask seen again within a second (age 0) adds nothing; the deque drops its
\* oldest point when full.
Kept(s) == IF Len(s) > MaxLen THEN Tail(s) ELSE s
Record(series, ask) ==
    IF ask = 0 \/ (series # <<>> /\ Last(series) = [age |-> 0, px |-> ask]) THEN series
    ELSE Kept(Append(series, [age |-> 0, px |-> ask]))

\* Time passes, and _fresh drops what is older than the window.
Older(series, dt) ==
    Recent([i \in DOMAIN series |-> [age |-> series[i].age + dt, px |-> series[i].px]], Window)

\* The points of a look-back: those within it, or else the last one.
LookBack(series, w) ==
    IF series # <<>> /\ Last(series).age > w THEN <<Last(series)>> ELSE Recent(series, w)

\* How long a point held: up to the next one, and the last up to now.
Held(points, i, w) ==
    IF i < Len(points) THEN points[i].age - points[i + 1].age ELSE Min({points[i].age, w})

\* The average over a look-back, each price weighted by how long it held.
Times(points, w) == [i \in DOMAIN points |-> Held(points, i, w)]
Weighted(points, w) == [i \in DOMAIN points |-> points[i].px * Held(points, i, w)]
TwapOverWindow(series, w) ==        \* mutant: divides by the window instead of the time held
    [num |-> Total(Weighted(LookBack(series, w), w)), den |-> IF series = <<>> THEN 0 ELSE w]
Twap(series, w) ==
    [num |-> Total(Weighted(LookBack(series, w), w)), den |-> Total(Times(LookBack(series, w), w))]

Above(a, b, by) == a.num * b.den - b.num * a.den >= by * a.den * b.den

\* locate_rank1_bucket: the highest average, or the ask where there is none; the first of
\* equals, and none if no bucket has either.
Score(ring, asks, b) ==
    LET t == Twap(ring[b], RankWindow)
    IN  IF t.den > 0 THEN t ELSE [num |-> asks[b], den |-> IF asks[b] > 0 THEN 1 ELSE 0]
Scores(ring, asks) == [b \in Buckets |-> Score(ring, asks, b)]
IsRank1(r, ring, asks) ==
    \E score \in {Scores(ring, asks)} :
        /\ score[r].den > 0
        /\ \A c \in Buckets : score[c].den > 0 =>
              /\ Above(score[r], score[c], 0)
              /\ c < r => ~Above(score[c], score[r], 0)

Neighbour(r) == IF High THEN r + 1 ELSE r - 1

\* detect_sleeve_signal, for the favourite r and its neighbour.
Weakened(series) ==
    \E s \in {Twap(series, Short)}, l \in {Twap(series, Long)} :
        s.den > 0 /\ l.den > 0 /\ Above(l, s, Drop)
Strengthened(series) ==
    \E s \in {Twap(series, Short)}, l \in {Twap(series, Long)} :
        s.den > 0 /\ l.den > 0 /\ Above(s, l, Rise)
Signal(r, ring, asks) ==
    /\ Neighbour(r) \in Buckets /\ asks[Neighbour(r)] \in 1 .. MaxAsk
    /\ Len(ring[r]) >= MinTicks /\ Len(ring[Neighbour(r)]) >= MinTicks
    /\ Weakened(ring[r]) /\ Strengthened(ring[Neighbour(r)])
    /\ IsRank1(r, ring, asks)
=============================================================================
