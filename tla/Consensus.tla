------------------------------- MODULE Consensus -------------------------------
(***************************************************************************)
(* The price history of one session in consensus_tracker: every cycle      *)
(* samples the YES book of each bucket, the strategy samples it again and  *)
(* may rank the buckets by their average over a window, and the history is *)
(* written beside the state file and read back when the process starts.    *)
(*                                                                         *)
(* A sample holds its age, the middle of the quote times two (so that it   *)
(* is whole) and the depth at the ask.  A bucket's samples run from the    *)
(* oldest to the last.  Buckets of the same average and depth are ranked   *)
(* in the order of the dict, which is left open here.                      *)
(***************************************************************************)
EXTENDS Series

CONSTANTS
    Buckets,    \* the buckets of the market
    Quotes,     \* what the YES book of each bucket may show: [ask, bid, depth], 0 for no quote
    Window,     \* consensus_window_seconds
    Keep,       \* window_seconds of the tracker
    MaxLen,     \* how many samples a series holds
    Need        \* consensus_min_samples

ASSUME ConsensusAssumption ==
    /\ \A b \in Buckets : Quotes[b] \subseteq [ask : Nat, bid : Nat, depth : Nat]
    /\ {Window, Keep, MaxLen, Need} \subseteq Nat \ {0} /\ Window <= Keep

VARIABLES
    turn,       \* where the cycle is
    quote,      \* the quotes the cycle has read
    series,     \* per bucket, its samples
    disk,       \* the same in the file
    clean       \* the file was written, or read, after the last sample

tracker == <<turn, quote, series, disk, clean>>

Sample == [age : 0 .. Keep + 1, mid : Nat, depth : Nat]
Books == {q \in [Buckets -> UNION Range(Quotes)] : \A b \in Buckets : q[b] \in Quotes[b]}
NoHistory == [b \in Buckets |-> <<>>]

TrackerTypeOK ==
    /\ turn \in {"asleep", "sampled", "fed"} /\ clean \in BOOLEAN
    /\ quote \in Books
    /\ \A h \in {series, disk} : \A b \in Buckets :
          /\ h[b] \in Seq(Sample) /\ Len(h[b]) <= MaxLen
          /\ \A i, j \in DOMAIN h[b] : i < j => h[b][i].age >= h[b][j].age

-----------------------------------------------------------------------------
(* One series *)

\* record: a quote without an ask is no sample, one without a bid counts as its ask.  The
\* deque drops its oldest sample when full.
Mid(q) == IF q.bid > 0 THEN q.ask + q.bid ELSE 2 * q.ask
Kept(s) == IF Len(s) > MaxLen THEN Tail(s) ELSE s
Record(s, q) ==
    IF q.ask = 0 THEN s ELSE Kept(Append(s, [age |-> 0, mid |-> Mid(q), depth |-> q.depth]))

PruneKeepsLast(s, w) ==                         \* mutant: a series never empties
    IF s # <<>> /\ Last(s).age > w THEN <<Last(s)>> ELSE Recent(s, w)
Prune(s, w) == Recent(s, w)

\* How long a sample held: up to the next one, the last one up to now.
HeldToNext(s, i) ==                             \* mutant: the last one is not held
    IF i < Len(s) THEN s[i].age - s[i + 1].age ELSE 0
Held(s, i) == IF i < Len(s) THEN s[i].age - s[i + 1].age ELSE s[i].age

\* twap_mid of a series with a sample: the mids weighted by how long they held, as a
\* fraction; with no time between, the last one.
Times(s) == [i \in DOMAIN s |-> Held(s, i)]
Weighted(s) == [i \in DOMAIN s |-> s[i].mid * Held(s, i)]
TwapMid(s) ==
    IF Total(Times(s)) = 0 THEN [num |-> Last(s).mid, den |-> 1]
    ELSE [num |-> Total(Weighted(s)), den |-> Total(Times(s))]
MeanAskDepth(s) == [num |-> Total([i \in DOMAIN s |-> s[i].depth]), den |-> Len(s)]

-----------------------------------------------------------------------------
(* The buckets of a history h *)

Greater(x, y) == x.num * y.den > y.num * x.den
Same(x, y) == x.num * y.den = y.num * x.den

\* rank_buckets: only buckets with a sample in the window, by average and then by depth.
InWindow(h, b) == Prune(h[b], Window)
Ranked(h) == {b \in Buckets : InWindow(h, b) # <<>>}
Above(s, t) == \/ Greater(TwapMid(s), TwapMid(t))
               \/ Same(TwapMid(s), TwapMid(t)) /\ Greater(MeanAskDepth(s), MeanAskDepth(t))
Rank1(h) == {b \in Ranked(h) : \A c \in Ranked(h) : ~Above(InWindow(h, c), InWindow(h, b))}

\* is_long_horizon_consensus: first in rank, however thin its lead, with enough samples.
SampledEver(h, b) == Len(h[b]) >= Need          \* mutant: counts before it prunes
Sampled(h, b) == Len(InWindow(h, b)) >= Need
Solid(h) == {b \in Rank1(h) : Sampled(h, b)}

-----------------------------------------------------------------------------
(* Cycles *)

TrackerInit ==
    /\ turn = "asleep" /\ quote \in Books
    /\ series = NoHistory /\ disk = NoHistory /\ clean = FALSE

\* What a unit of time does to the samples.
Grown(age) == IF age > Keep THEN age ELSE age + 1
Aged(s) ==
    [i \in DOMAIN s |-> [age |-> Grown(s[i].age), mid |-> s[i].mid, depth |-> s[i].depth]]

\* run_cycle, a unit of time after the last one at the earliest, samples the books of its
\* cache, whether or not there is a report.
RecordBooks ==
    /\ turn = "asleep" /\ turn' = "sampled"
    /\ quote' \in Books
    /\ series' = [b \in Buckets |-> Record(Aged(series[b]), quote'[b])]
    /\ disk' = [b \in Buckets |-> Aged(disk[b])]
    /\ clean' = FALSE

\* maybe_arm_or_fire, which has nothing to do without a report: it samples the same books
\* at the same time, and prunes what it ranks, if it does.
Again == [b \in Buckets |-> Record(series[b], quote[b])]
Feed ==
    /\ turn = "sampled" /\ turn' = "fed"
    /\ series' \in {series, Again, [b \in Buckets |-> Prune(Again[b], Window)]}
    /\ UNCHANGED <<quote, disk, clean>>

\* save_state ends with save_tracker; an error there is dropped.
SavedShort(s) == Prune(Tail(s), Keep)           \* mutant: the oldest sample is left out
Saved(s) == Prune(s, Keep)
Save ==
    /\ turn = "fed" /\ turn' = "asleep"
    /\ series' = [b \in Buckets |-> Prune(series[b], Keep)]
    /\ disk' = [b \in Buckets |-> IF series[b] = <<>> THEN <<>> ELSE Saved(series[b])]
    /\ clean' = TRUE /\ UNCHANGED quote
SaveFails ==
    /\ turn = "fed" /\ turn' = "asleep"
    /\ UNCHANGED <<quote, series, disk, clean>>
CycleStops ==
    /\ turn \in {"sampled", "fed"} /\ turn' = "asleep"
    /\ UNCHANGED <<quote, series, disk, clean>>

\* tracker(): a new process reads the file, or does without.
Loaded(b) == Prune(disk[b], Keep)
Reload ==
    /\ turn' = "asleep"
    /\ \/ series' = [b \in Buckets |-> Loaded(b)] /\ clean' = TRUE
       \/ series' = NoHistory /\ clean' = FALSE
    /\ UNCHANGED <<quote, disk>>

\* Time in which no cycle runs.
Tick ==
    /\ turn = "asleep"
    /\ series' = [b \in Buckets |-> Aged(series[b])]
    /\ disk' = [b \in Buckets |-> Aged(disk[b])]
    /\ UNCHANGED <<turn, quote, clean>>

RunCycle == RecordBooks \/ Feed \/ Save \/ SaveFails \/ CycleStops
TrackerNext == RunCycle \/ Reload \/ Tick
TrackerSpec == TrackerInit /\ [][TrackerNext]_tracker
\* The runner goes on from cycle to cycle.
FairTracker == TrackerSpec /\ WF_tracker(RunCycle)

-----------------------------------------------------------------------------
(* Properties *)

\* The average is that of the price in force at each instant since the first sample of the
\* window, however the samples fall, twice at one time or with gaps.
InForce(s, a) == s[Max({i \in DOMAIN s : s[i].age >= a})].mid
TwapIsPointwise ==
    \A b \in Ranked(series) :
        LET s == InWindow(series, b)
        IN  s[1].age > 0 =>
              Same(TwapMid(s),
                   [num |-> Total([a \in 1 .. s[1].age |-> InForce(s, a)]), den |-> s[1].age])

\* Sampling twice in a cycle buys no more than half the history: a bucket is solid only if
\* it was quoted in half as many different cycles as min_samples asks for, all of them in
\* the window.
ThinHistoryRefused ==
    \A b \in Solid(series) :
        2 * Cardinality({p.age : p \in Range(InWindow(series, b))}) >= Need

\* A process that is restarted before its next sample passes the same verdict on each
\* bucket as the one that died: the history is saved and read back, although the head of
\* _r_globals.py (line 9) still has it as never serialized.
VerdictSurvivesRestart ==
    turn = "asleep" /\ clean => Solid([b \in Buckets |-> Loaded(b)]) = Solid(series)

\* A bucket that the market has abandoned drops out of the ranks.
AbandonedBucketFalls ==
    \A b \in Buckets : <>[](quote[b].ask = 0) => <>[](b \notin Ranked(series))
=============================================================================
