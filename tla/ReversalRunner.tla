---------------------------- MODULE ReversalRunner ----------------------------
(***************************************************************************)
(* The reversal bot's core: runner_impl's loop around _r_cycle.run_cycle,  *)
(* the session state machine of reversal_strategy.py (prune, arm, lock,    *)
(* fire, re-fire), the positions and the paper ledger a fire writes, their *)
(* settlement, and the state file a restart comes back from.               *)
(*                                                                         *)
(* One cycle is a sequence of steps: StartCycle (rule discovery, prune,    *)
(* the list of rules to feed), one step per rule fed to maybe_arm_or_fire, *)
(* settlement, save.  A crash may fall between any two of them.  A session *)
(* is one contract (city and direction) on one local market date.          *)
(***************************************************************************)
EXTENDS Buckets, Sequences

CONSTANTS
    Cities, Contracts,      \* Contracts \subseteq Cities \X {"high", "low"}
    MaxDay, MaxClock,       \* bounds of the market dates and of the clock
    LocalDay(_, _),         \* LocalDay(c, t), LocalHour(c, t): zoneinfo's local
    LocalHour(_, _),        \*   date and hour of city c at clock t
    Temps, Stamps,          \* METAR readings and observation times
    TafTemps,               \* TX/TN values a TAF may carry
    Listings,               \* sets of buckets one Gamma event may list
    MaxOpen,                \* max_open_positions where load_config puts it: top level
    StrategyMaxOpen,        \* the same key inside "strategy", the only section the
                            \*   strategy is given; 0 when it has none, as shipped
    ArmDistance,            \* arm_c, in tenths
    ConfirmMargin,          \* break_confirm_margin_f in tenths, 0 in a C market
    NoLegEnabled,           \* no_leg_enabled and a positive no_notional_pct
    AllowMarketRef,         \* allow_market_consensus_reference
    AllowMarketRefFire,     \* allow_market_ref_fire
    Live,                   \* fills go to the real venue: a port may refuse or raise
    Capital, LegCost, Payout, Bids,  \* ledger units: start, one filled leg, its
                                     \*   redemption, proceeds of selling it
    MaxEdits,               \* bound on the operator's edits of the city registry
    SavesFail,              \* a cycle or its save may raise
    MaxCrashes              \* bound on crashes

ASSUME RunnerAssumption ==
    /\ Contracts \subseteq Cities \X {"high", "low"}
    /\ MaxDay \in Nat /\ MaxClock \in Nat
    /\ \A c \in Cities : \A t \in 0 .. MaxClock :
          LocalDay(c, t) \in Nat /\ LocalHour(c, t) \in 0 .. 23
    /\ \A c \in Cities : \A s, t \in 0 .. MaxClock :
          s <= t => LocalDay(c, s) <= LocalDay(c, t)
    /\ Temps \subseteq Int /\ TafTemps \subseteq Int /\ Stamps \subseteq Nat
    /\ Listings \subseteq SUBSET Bucket /\ {} \notin Listings
    /\ MaxOpen \in Nat /\ StrategyMaxOpen \in Nat
    /\ ArmDistance \in Nat /\ ConfirmMargin \in Nat
    /\ Live \in BOOLEAN /\ SavesFail \in BOOLEAN /\ NoLegEnabled \in BOOLEAN
    /\ Capital \in Nat /\ LegCost \in Nat \ {0} /\ Payout \in Nat /\ Bids \subseteq Nat
    /\ MaxEdits \in Nat /\ MaxCrashes \in Nat

\* The registry is a file: it lists finitely many cities.
ASSUME FiniteContracts == IsFiniteSet(Contracts)

VARIABLES
    clock, known, edits, crashes,     \* the world: time, registry, restarts
    phase, todo, rules, obs,          \* one cycle's progress and process caches
    armed, ever, fired, extreme, lastObs, lastFire,   \* strategy sections
    pos, debit,                       \* positions and the paper ledger
    disk,                             \* the state file
    shots                             \* history: the fires on record

world    == <<clock, known, edits, crashes>>
sections == <<armed, ever, fired, extreme, lastObs, lastFire>>
ledger   == <<pos, debit>>
vars == <<world, phase, todo, rules, obs, sections, ledger, disk, shots>>

Key == {[city |-> c[1], day |-> d, dir |-> c[2]] : c \in Contracts, d \in 0 .. MaxDay}

Observation == [at : Stamps, temp : Temps]
NoReports == [c \in Cities |-> None]
Leg      == [out : {"YES", "NO"}, bucket : Bucket, filled : BOOLEAN,
             st : {"open", "closed", "won", "lost"}, paid : Nat]
Position == [settled : BOOLEAN, legs : Seq(Leg)]

\* None stands for the row a session does not have.
ASSUME NoneIsNoRow == None \notin Position

Shot     == [at : Stamps, broke : Bucket, into : Bucket, filled : BOOLEAN]

StateFile ==
    [armed : SUBSET Key, ever : SUBSET Key,
     fired : [Key -> {"none", "lock", "one", "two"}],
     extreme : [Key -> Temps \cup {None}],
     lastObs : [Key -> Stamps \cup {None}],
     lastFire : [Key -> Stamps \cup {None}],
     pos : [Key -> Position \cup {None}], debit : Int,
     shots : [Key -> Seq(Shot)]]

\* What save_state would write now (shots is carried along to compare histories).
Memory == [armed |-> armed, ever |-> ever, fired |-> fired, extreme |-> extreme,
           lastObs |-> lastObs, lastFire |-> lastFire, pos |-> pos, debit |-> debit,
           shots |-> shots]

-----------------------------------------------------------------------------
(* Reading the state *)

Today(c)     == LocalDay(c, clock)
IsToday(k)   == k.day = Today(k.city)
\* _rule_is_local_today: fails closed on a city the registry does not know.
RuleIsLocalToday(k) == k.city \in known /\ IsToday(k)

HighFireStart == 12
HighFireEnd   == 18
LowFireStart  == 0
LowFireEnd    == 9
HourOk(k) == LET h == LocalHour(k.city, clock)
             IN  IF k.dir = "high" THEN HighFireStart <= h /\ h <= HighFireEnd
                                   ELSE LowFireStart <= h /\ h <= LowFireEnd

IsOpen(k)       == pos[k] # None /\ ~pos[k].settled
OpenCount       == Cardinality({k \in Key : IsOpen(k)})
AtOpenCapLate   == StrategyMaxOpen > 0 /\ OpenCount > StrategyMaxOpen  \* mutant: off by one
AtOpenCap       == StrategyMaxOpen > 0 /\ OpenCount >= StrategyMaxOpen
MaxFires        == 2
\* A record without the fires counter, a lock, counts as one fire.
FiresUsed(k) == CASE fired[k] = "none" -> 0
                  [] fired[k] \in {"lock", "one"} -> 1
                  [] OTHER -> 2

\* The legs a close may sell and a re-fire may build on: YES, filled, unsettled.
HeldYes(legs) == {i \in DOMAIN legs :
                    legs[i].out = "YES" /\ legs[i].filled /\ legs[i].st = "open"}
FirstHeldYes(legs) == CHOOSE i \in HeldYes(legs) : \A j \in HeldYes(legs) : i <= j

\* refire_target_index: the extreme has left the bucket fire #1 holds YES in.
RefireTargetAnywhere(k, runB) == IsOpen(k) /\ HeldYes(pos[k].legs) # {}  \* mutant
RefireTarget(k, runB) ==
    /\ IsOpen(k)
    /\ HeldYes(pos[k].legs) # {}
    /\ LET b1 == pos[k].legs[FirstHeldYes(pos[k].legs)].bucket
       IN  b1 \in rules[k] /\ Beyond(k.dir, runB, b1)

-----------------------------------------------------------------------------
(* Start-up, restart and the state file *)

Init ==
    /\ clock = 0 /\ known = Cities /\ edits = 0 /\ crashes = 0
    /\ phase = "idle" /\ todo = {}
    /\ rules = [k \in Key |-> {}]
    /\ obs = NoReports
    /\ armed = {} /\ ever = {}
    /\ fired = [k \in Key |-> "none"]
    /\ extreme = [k \in Key |-> None]
    /\ lastObs = [k \in Key |-> None]
    /\ lastFire = [k \in Key |-> None]
    /\ pos = [k \in Key |-> None] /\ debit = 0
    /\ shots = [k \in Key |-> <<>>]
    /\ disk = Memory

\* The process dies, in or between cycles; load_state brings the file back and
\* every process-lifetime cache starts empty.
Crash ==
    /\ crashes < MaxCrashes /\ crashes' = crashes + 1
    /\ armed' = disk.armed /\ ever' = disk.ever /\ fired' = disk.fired
    /\ extreme' = disk.extreme /\ lastObs' = disk.lastObs /\ lastFire' = disk.lastFire
    /\ pos' = disk.pos /\ debit' = disk.debit
    /\ shots' = disk.shots
    /\ phase' = "idle" /\ todo' = {}
    /\ rules' = [k \in Key |-> {}] /\ obs' = NoReports
    /\ UNCHANGED <<clock, known, edits, disk>>

-----------------------------------------------------------------------------
(* The world between cycles: now_utc is read once, when a cycle starts *)

Tick ==
    /\ phase = "idle" /\ clock < MaxClock
    /\ clock' = clock + 1
    /\ UNCHANGED <<known, edits, crashes, phase, todo, rules, obs, sections, ledger, disk,
                   shots>>

\* The city file is read again every cycle; an edit may drop and restore cities.
EditRegistry(K) ==
    /\ edits < MaxEdits /\ edits' = edits + 1
    /\ phase = "idle" /\ known' = K
    /\ UNCHANGED <<clock, crashes, phase, todo, rules, obs, sections, ledger, disk,
                   shots>>

-----------------------------------------------------------------------------
(* The head of a cycle: rule discovery, prune, the rules to feed *)

\* refresh_rules replaces the whole cache with what was found for today's
\* dates; a round that finds nothing (or is not due) keeps the old cache.
RefreshRules(found, L) ==
    rules' = IF found = {} THEN rules
             ELSE [k \in Key |-> IF k \in found THEN L[k] ELSE {}]

ExpiredUnknown(k) == k.city \notin known         \* mutant: the date rule dropped
Expired(k) == k.city \notin known \/ ~IsToday(k)
\* The fired marker outlives its date while its position is still open.
MarkerExpiredAlways(k) == Expired(k)              \* mutant: the position not consulted
MarkerExpired(k) == Expired(k) /\ ~(k.city \in known /\ IsOpen(k))
LowZombie(k) == k.dir = "low" /\ LocalHour(k.city, clock) > LowFireEnd

\* Mutant: the ever_armed section left out.
PruneKeepsEver ==
    /\ armed' = {k \in armed : ~Expired(k) /\ ~LowZombie(k)} /\ ever' = ever
    /\ fired' = [k \in Key |-> IF MarkerExpired(k) THEN "none" ELSE fired[k]]
    /\ extreme' = [k \in Key |-> IF Expired(k) THEN None ELSE extreme[k]]
    /\ lastObs' = [k \in Key |-> IF Expired(k) THEN None ELSE lastObs[k]]
    /\ lastFire' = [k \in Key |-> IF Expired(k) THEN None ELSE lastFire[k]]

PruneStaleSessions ==
    /\ armed' = {k \in armed : ~Expired(k) /\ ~LowZombie(k)}
    /\ ever' = {k \in ever : ~Expired(k)}
    /\ fired' = [k \in Key |-> IF MarkerExpired(k) THEN "none" ELSE fired[k]]
    /\ extreme' = [k \in Key |-> IF Expired(k) THEN None ELSE extreme[k]]
    /\ lastObs' = [k \in Key |-> IF Expired(k) THEN None ELSE lastObs[k]]
    /\ lastFire' = [k \in Key |-> IF Expired(k) THEN None ELSE lastFire[k]]

\* The METAR map of the cycle, for the cities asked about: any report, or none.
\* The two sources fail over to each other, so an older stamp can follow a newer.
Reports == {r \in [Cities -> Observation \cup {None}] :
               \A c \in Cities \ (known \cap {k.city : k \in Key}) : r[c] = None}

StartCycle ==
    /\ phase = "idle" /\ phase' = "cycle" /\ known # {}
    /\ obs' \in Reports
    /\ \E found \in SUBSET {k \in Key : RuleIsLocalToday(k)} :
         \E L \in [found -> Listings] : RefreshRules(found, L)
    /\ PruneStaleSessions
    /\ todo' = {k \in Key : rules'[k] # {} /\ RuleIsLocalToday(k)}
    /\ UNCHANGED <<world, ledger, disk, shots>>

\* With no city at all run_cycle returns at once: no prune, only the save.
EmptyUniverse ==
    /\ phase = "idle" /\ known = {}
    /\ disk' = Memory
    /\ UNCHANGED <<world, phase, todo, rules, obs, sections, ledger, shots>>

-----------------------------------------------------------------------------
(* maybe_arm_or_fire, up to the point where the observation is accepted *)

Fed(k)  == phase = "cycle" /\ k \in todo /\ todo' = todo \ {k}
Quiet   == UNCHANGED <<sections, ledger, shots>>
Outside == UNCHANGED <<world, phase, rules, obs, disk>>

HasObs(k)       == obs[k.city] # None
SpentLate(k)    == FiresUsed(k) > MaxFires                      \* mutant: off by one
Spent(k)        == FiresUsed(k) >= MaxFires
UnmarkedOpen(k) == fired[k] = "none" /\ IsOpen(k)
NotOnThisObs(k) == FALSE                                        \* mutant: no obs lock
FiredOnObs(k)   == lastFire[k] = obs[k.city].at
SeenObs(k)      == lastObs[k] = obs[k.city].at

SkipNoObs(k) == Fed(k) /\ ~HasObs(k) /\ Quiet /\ Outside

SkipSpent(k) == Fed(k) /\ HasObs(k) /\ Spent(k) /\ Quiet /\ Outside

\* An open position without its marker locks the session again.
LockOpenPosition(k) ==
    /\ Fed(k) /\ HasObs(k) /\ UnmarkedOpen(k)
    /\ fired' = [fired EXCEPT ![k] = "lock"]
    /\ UNCHANGED <<armed, ever, extreme, lastObs, lastFire, ledger, shots>>
    /\ Outside

\* The remaining gates leave no trace: the stamp already fired on, the cap on
\* open positions, the stamp already seen.
SkipRefused(k) ==
    /\ Fed(k) /\ HasObs(k) /\ ~Spent(k) /\ ~UnmarkedOpen(k)
    /\ FiredOnObs(k) \/ AtOpenCap \/ SeenObs(k)
    /\ Quiet /\ Outside

Admitted(k) == /\ HasObs(k) /\ ~Spent(k) /\ ~UnmarkedOpen(k)
               /\ ~FiredOnObs(k) /\ ~AtOpenCap /\ ~SeenObs(k)

\* The running extreme once this reading is folded in.
Running(k) ==
    LET t == obs[k.city].temp
        x == extreme[k]
        worse == IF k.dir = "high" THEN x > t ELSE x < t
    IN  IF x # None /\ worse THEN x ELSE t

\* is_new_obs_time and update_running_extreme, for every outcome below.
Observe(k) == /\ lastObs' = [lastObs EXCEPT ![k] = obs[k.city].at]
              /\ extreme' = [extreme EXCEPT ![k] = Running(k)]

-----------------------------------------------------------------------------
(* The reference, the break, and the gates between a break and a fire.      *)
(* "in" is what the feeds say this cycle: the reference bucket and          *)
(* temperature, and whether they come from the TAF; solid, whether the      *)
(* consensus tracker ranks that bucket first on enough samples; sane,       *)
(* whether the stamp lies in the sanity window around now.                  *)

\* A TAF extreme that falls in a listed bucket is the reference; otherwise the
\* bucket the market ranks first; with neither there is none.
TafReferences(k) == {[taf |-> TRUE, bucket |-> FindBucket(rules[k], t), temp |-> t] :
                        t \in {x \in TafTemps : FindBucket(rules[k], x) # None}}
MarketReferences(k) == IF AllowMarketRef
                       THEN {[taf |-> FALSE, bucket |-> b, temp |-> MidValue(b)] : b \in rules[k]}
                       ELSE {}
NoReference == [taf |-> FALSE, bucket |-> None, temp |-> None]
References(k) == TafReferences(k) \cup MarketReferences(k) \cup {NoReference}

Inputs(k) == [ref : References(k), solid : BOOLEAN, sane : BOOLEAN]

RunBucket(k) == FindBucket(rules[k], Running(k))

Mapped(k, in)   == in.ref.bucket # None /\ RunBucket(k) # None
BreakBy(k, in)  == Jump(rules[k], k.dir, in.ref.bucket, RunBucket(k))
Distance(k, in) == Abs(Running(k) - in.ref.temp)

\* A session that has used one fire only goes on to break a further bucket.
MayContinue(k, in) ==
    FiresUsed(k) = 1 => BreakBy(k, in) > 0 /\ RefireTarget(k, RunBucket(k))

EdgeLo(b) == IF OpenBelow(b) THEN Hi(b) ELSE Lo(b)
EdgeHi(b) == IF OpenAbove(b) THEN EdgeLo(b) ELSE Hi(b)
\* F markets: the whole-degree extreme must clear the broken bucket's edge.
Confirmed(k, in) ==
    \/ ConfirmMargin = 0
    \/ LET b == in.ref.bucket
           w == WholeDegree(Running(k))
       IN  IF k.dir = "high" THEN w >= EdgeHi(b) + ConfirmMargin
                             ELSE w <= EdgeLo(b) - ConfirmMargin

Followed(k, in)  == Admitted(k) /\ Mapped(k, in) /\ MayContinue(k, in)
Timely(k, in)    == Confirmed(k, in) /\ HourOk(k) /\ in.sane
AnyBreak(k)      == TRUE                   \* mutant: no armed gate
WasArmed(k)      == k \in armed \cup ever
Agreed(in)       == (in.ref.taf \/ AllowMarketRefFire) /\ in.solid
CleanBreak(k, in) == /\ Followed(k, in) /\ BreakBy(k, in) = 1
                     /\ Timely(k, in) /\ WasArmed(k)
MayFire(k, in)    == CleanBreak(k, in) /\ Agreed(in)

SkipNoReference(k, in) ==
    /\ Fed(k) /\ Admitted(k) /\ ~(Mapped(k, in) /\ MayContinue(k, in))
    /\ Observe(k)
    /\ UNCHANGED <<armed, ever, fired, lastFire, ledger, shots>> /\ Outside

Arm(k, in) ==
    /\ Fed(k) /\ Followed(k, in) /\ BreakBy(k, in) <= 0
    /\ Distance(k, in) <= ArmDistance /\ HourOk(k)
    /\ Observe(k)
    /\ armed' = armed \cup {k} /\ ever' = ever \cup {k}
    /\ UNCHANGED <<fired, lastFire, ledger, shots>> /\ Outside

\* No break and no arming: an armed session that drifted off is disarmed.
Watch(k, in) ==
    /\ Fed(k) /\ Followed(k, in) /\ BreakBy(k, in) <= 0
    /\ ~(Distance(k, in) <= ArmDistance /\ HourOk(k))
    /\ Observe(k)
    /\ armed' = IF Distance(k, in) > ArmDistance + 7 THEN armed \ {k} ELSE armed
    /\ UNCHANGED <<ever, fired, lastFire, ledger, shots>> /\ Outside

SkipUntimely(k, in) ==
    /\ Fed(k) /\ Followed(k, in) /\ BreakBy(k, in) > 0 /\ ~Timely(k, in)
    /\ Observe(k)
    /\ UNCHANGED <<armed, ever, fired, lastFire, ledger, shots>> /\ Outside

PopArmed(k)  == armed' = armed \ {k}

\* A break of several buckets, or of a session never armed, locks a session
\* that has no record of its own.
LockBreak(k, in) ==
    /\ Fed(k) /\ Followed(k, in) /\ BreakBy(k, in) > 0 /\ Timely(k, in)
    /\ BreakBy(k, in) # 1 \/ ~WasArmed(k)
    /\ Observe(k)
    /\ fired' = [fired EXCEPT ![k] = IF @ = "none" THEN "lock" ELSE @]
    /\ PopArmed(k)
    /\ UNCHANGED <<ever, lastFire, ledger, shots>> /\ Outside

SkipDisagreed(k, in) ==
    /\ Fed(k) /\ CleanBreak(k, in) /\ ~Agreed(in)
    /\ Observe(k)
    /\ UNCHANGED <<armed, ever, fired, lastFire, ledger, shots>> /\ Outside

-----------------------------------------------------------------------------
(* A fire: the slot is consumed first, then the window is executed.  "got"  *)
(* is the set of legs that fill.                                            *)

LegKinds  == IF NoLegEnabled THEN {"NO", "YES"} ELSE {"YES"}
Cost(got) == LegCost * Cardinality(got)
Funded(got) == Cost(got) <= Capital - debit

NewLeg(o, b, got) ==
    [out |-> o, bucket |-> b, filled |-> o \in got, st |-> "open", paid |-> 0]
NewLegs(k, in, kinds, got) ==
    (IF "NO" \in kinds THEN <<NewLeg("NO", in.ref.bucket, got)>> ELSE <<>>)
        \o (IF "YES" \in kinds THEN <<NewLeg("YES", RunBucket(k), got)>> ELSE <<>>)

\* What maybe_arm_or_fire writes when it emits re_fire.
TakeSlot(k, in, got) ==
    /\ Observe(k)
    /\ fired' = [fired EXCEPT ![k] = IF FiresUsed(k) = 0 THEN "one" ELSE "two"]
    /\ PopArmed(k) /\ ever' = ever \cup {k}
    /\ lastFire' = [lastFire EXCEPT ![k] = obs[k.city].at]
    /\ shots' = [shots EXCEPT ![k] = Append(@,
                   [at |-> obs[k.city].at, broke |-> in.ref.bucket,
                    into |-> RunBucket(k), filled |-> got # {}])]

\* _paper_fire gives no position: a live port refused, or the ledger cannot book
\* what filled.
StandDown(k, in, got) ==
    /\ Fed(k) /\ MayFire(k, in)
    /\ IF got = {} THEN Live ELSE ~Funded(got)
    /\ TakeSlot(k, in, got) /\ UNCHANGED ledger /\ Outside

\* A live order path raises in mid-window: run_cycle unwinds to the runner,
\* which keeps the memory it has and saves nothing.
FireRaises(k, in, got) ==
    /\ phase = "cycle" /\ k \in todo /\ MayFire(k, in)
    /\ Live
    /\ TakeSlot(k, in, got) /\ UNCHANGED ledger
    /\ phase' = "idle" /\ todo' = {} /\ obs' = NoReports
    /\ UNCHANGED <<world, rules, disk>>

\* Fire #1: _record_fire_event keeps an open row, replaces anything else.  A
\* window that filled nothing still leaves a row, with legs of no shares.
FireFirst(k, in, got) ==
    /\ Fed(k) /\ MayFire(k, in) /\ FiresUsed(k) = 0 /\ Funded(got)
    /\ TakeSlot(k, in, got) /\ Outside
    /\ pos' = IF IsOpen(k) THEN pos
              ELSE [pos EXCEPT ![k] = [settled |-> FALSE, legs |-> NewLegs(k, in, LegKinds, got)]]
    /\ debit' = debit + Cost(got)

\* record_refire's liquidation: the old YES leg goes at the best bid.
SellLegOnPaper(legs, i, bid) == [legs EXCEPT ![i].paid = bid]    \* mutant: not closed
SellLegUnknown(legs, i, bid) == [legs EXCEPT ![i].st = "sold"]   \* mutant: status unknown
SellLeg(legs, i, bid) == [legs EXCEPT ![i].st = "closed", ![i].paid = bid]

\* Fire #2 (RefireTarget holds, so the row is open): a new YES that filled
\* replaces the old one, and the filled legs join the session's one row.
FireAgain(k, in, got, bid) ==
    /\ Fed(k) /\ MayFire(k, in) /\ FiresUsed(k) >= 1 /\ Funded(got)
    /\ TakeSlot(k, in, got) /\ Outside
    /\ LET old  == pos[k].legs
           kept == IF "YES" \in got THEN SellLeg(old, FirstHeldYes(old), bid) ELSE old
       IN  pos' = [pos EXCEPT ![k].legs = kept \o NewLegs(k, in, got, got)]
    /\ debit' = debit + Cost(got) - (IF "YES" \in got THEN bid ELSE 0)

-----------------------------------------------------------------------------
(* The tail of a cycle: passive settlement, then the save *)

AllFed == phase = "cycle" /\ todo = {}

\* We hold YES and the bucket's market says YES, or NO and it says NO.
LegWon(leg, win) == (leg.out = "YES") <=> (leg.bucket = win)

\* Mutants: a leg without shares is redeemed, or never settled.
SettleLegEmpty(leg, win, resolved) ==
    IF leg.st # "open" \/ leg.bucket \notin resolved THEN leg
    ELSE [leg EXCEPT !.st = IF LegWon(leg, win) THEN "won" ELSE "lost",
                     !.paid = IF LegWon(leg, win) THEN Payout ELSE 0]
SettleLegFilled(leg, win, resolved) ==
    IF leg.st # "open" \/ leg.bucket \notin resolved \/ ~leg.filled THEN leg
    ELSE [leg EXCEPT !.st = IF LegWon(leg, win) THEN "won" ELSE "lost",
                     !.paid = IF LegWon(leg, win) THEN Payout ELSE 0]

SettleLeg(leg, win, resolved) ==
    IF leg.st # "open" \/ leg.bucket \notin resolved THEN leg
    ELSE [leg EXCEPT !.st = IF LegWon(leg, win) THEN "won" ELSE "lost",
                     !.paid = IF LegWon(leg, win) /\ leg.filled THEN Payout ELSE 0]

\* The winning bucket does not change between polls.
SameWinner(legs, win) ==
    \A i \in DOMAIN legs :
        legs[i].st \in {"won", "lost"} => (legs[i].st = "won" <=> LegWon(legs[i], win))

\* settle_markets on one open row of a known city: the markets in "resolved" are
\* terminal and "win" is the winning bucket.  The row closes with its last leg.
SettlePosition(k, win, resolved) ==
    /\ AllFed /\ IsOpen(k) /\ k.city \in known /\ SameWinner(pos[k].legs, win)
    /\ LET old  == pos[k].legs
           legs == [i \in DOMAIN old |-> SettleLeg(old[i], win, resolved)]
           paid == {i \in DOMAIN old : /\ old[i].st = "open" /\ legs[i].st = "won"
                                       /\ old[i].filled}
       IN  /\ pos' = [pos EXCEPT ![k] =
                        [settled |-> \A i \in DOMAIN legs : legs[i].st # "open",
                         legs |-> legs]]
           /\ debit' = debit - Payout * Cardinality(paid)
    /\ UNCHANGED <<world, phase, todo, rules, obs, sections, disk, shots>>

\* runner_impl after a cycle that returned: the whole state in one rename.
SaveState ==
    /\ AllFed /\ phase' = "idle" /\ obs' = NoReports
    /\ disk' = Memory
    /\ UNCHANGED <<world, todo, rules, sections, ledger, shots>>

\* The cycle or its save raised: logged, memory kept, file untouched.
CycleError ==
    /\ SavesFail /\ AllFed /\ phase' = "idle" /\ obs' = NoReports
    /\ UNCHANGED <<world, todo, rules, sections, ledger, disk, shots>>

-----------------------------------------------------------------------------

MaybeArmOrFire(k) ==
    /\ phase = "cycle" /\ k \in todo
    /\ \/ SkipNoObs(k) \/ SkipSpent(k) \/ LockOpenPosition(k) \/ SkipRefused(k)
       \/ /\ Admitted(k)
          /\ \E in \in Inputs(k) :
               \/ SkipNoReference(k, in) \/ Arm(k, in) \/ Watch(k, in)
               \/ SkipUntimely(k, in) \/ LockBreak(k, in) \/ SkipDisagreed(k, in)
               \/ /\ MayFire(k, in)
                  /\ \E got \in SUBSET LegKinds :
                       \/ StandDown(k, in, got) \/ FireRaises(k, in, got)
                       \/ FireFirst(k, in, got)
                       \/ \E bid \in Bids : FireAgain(k, in, got, bid)

SettleMarkets ==
    \E k \in Key : /\ IsOpen(k)
                   /\ \E win \in Bucket :
                       \E resolved \in SUBSET {pos[k].legs[i].bucket : i \in DOMAIN pos[k].legs} :
                           SettlePosition(k, win, resolved)

RunCycle == \/ StartCycle \/ EmptyUniverse \/ (\E k \in Key : MaybeArmOrFire(k))
            \/ SettleMarkets \/ SaveState \/ CycleError

Environment == \/ Tick
               \/ \E K \in SUBSET Cities : EditRegistry(K)
               \/ Crash

Next == RunCycle \/ Environment
Spec == Init /\ [][Next]_vars

-----------------------------------------------------------------------------
(* Properties *)

TypeOK ==
    /\ clock \in 0 .. MaxClock /\ known \subseteq Cities /\ edits \in 0 .. MaxEdits
    /\ crashes \in 0 .. MaxCrashes
    /\ phase \in {"idle", "cycle"} /\ todo \subseteq Key
    /\ rules \in [Key -> SUBSET Bucket]
    /\ obs \in [Cities -> Observation \cup {None}]
    /\ Memory \in StateFile /\ disk \in StateFile

\* "A session may fire AT MOST TWICE": however cycles, failed saves, restarts,
\* date rollovers and prunes interleave, no session's record of fires grows past two.
AtMostTwoFires == \A k \in Key : Len(shots[k]) <= 2

\* One METAR stamp never fires a session twice, even when the sources fail over to
\* an older report between the two fires (the duplicate_obs_fired lock).
OneFirePerObservation ==
    \A k \in Key : \A i, j \in DOMAIN shots[k] :
        i # j => shots[k][i].at # shots[k][j].at

\* A second fire follows a first that bought YES, and breaks into a bucket strictly
\* past the one the first fire bought.
RefireGoesFurther ==
    \A k \in Key : Len(shots[k]) = 2 =>
        shots[k][1].filled /\ Beyond(k.dir, shots[k][2].into, shots[k][1].into)

\* A session never rides two YES buckets of one market: one of them must lose.
OneHeldYes == \A k \in Key : IsOpen(k) => Cardinality(HeldYes(pos[k].legs)) <= 1

\* A session with any fired record, lock or fire, is not kept hot.
ArmedMeansUnfired == \A k \in armed : fired[k] = "none"

\* An open position always has its fired marker, the credential prune must not drop
\* across midnight (2026-09-06: the same breach re-fired every cycle).
MarkerGuardsPosition == \A k \in Key : IsOpen(k) => fired[k] \in {"one", "two"}

\* One open row never carries more than two fires, even when the registry loses the
\* city (prune then drops the marker of an open position) and gets it back: the lock
\* counts as one fire, and a session that prune emptied is no longer "ever armed".
RowHoldsTwoFires ==
    \A k \in Key : IsOpen(k) =>
        Cardinality({i \in DOMAIN pos[k].legs : pos[k].legs[i].out = "YES"}) <= 2

\* The cap counts the rows of the fires earlier in the same cycle too.
OpenWithinCap == StrategyMaxOpen > 0 => OpenCount <= StrategyMaxOpen

\* Every unit the ledger is down is in a leg of some row, and every unit that came
\* back is booked on the leg it came from.
LegsOf(k) == IF pos[k] = None THEN <<>> ELSE pos[k].legs
Legs      == {x \in Key \X (1 .. 4) : x[2] \in DOMAIN LegsOf(x[1])}
LegAt(x)  == LegsOf(x[1])[x[2]]
LedgerMatchesLegs ==
    LET bought == {x \in Legs : LegAt(x).filled}
        back   == {u \in Legs \X (1 .. Payout) : u[2] <= LegAt(u[1]).paid}
    IN  debit = LegCost * Cardinality(bought) - Cardinality(back)

-----------------------------------------------------------------------------
(* The sessions of this runner keep the promises of SessionLifecycle *)

\* The stage of a session by the memory of the process, or by the file.
StageIn(k, m) == IF k.day < Today(k.city) THEN "over"
                 ELSE CASE m.fired[k] = "two"  -> "spent"
                        [] m.fired[k] = "one"  -> "fired"
                        [] m.fired[k] = "lock" -> "locked"
                        [] OTHER -> IF k \in m.armed THEN "armed"
                                    ELSE IF k \in m.ever THEN "cooled" ELSE "idle"

StageOf == [k \in Key |-> StageIn(k, Memory)]
SavedOf == [k \in Key |-> StageIn(k, disk)]

Lifecycle == INSTANCE SessionLifecycle WITH stage <- StageOf, saved <- SavedOf
ImplementsLifecycle == Lifecycle!Spec

-----------------------------------------------------------------------------
(* Liveness *)

\* Gamma sooner or later reports every market of an old row as resolved, and a poll
\* that sees it comes round.
ResolveAll(k) == /\ IsOpen(k)
                 /\ \E win \in Bucket :
                      SettlePosition(k, win, {pos[k].legs[i].bucket : i \in DOMAIN pos[k].legs})

\* The runner loops for ever and time goes on; the clock only moves between cycles,
\* so its fairness is strong.
FairSpec == /\ Spec
            /\ WF_vars(RunCycle) /\ SF_vars(Tick)
            /\ \A k \in Key : SF_vars(ResolveAll(k))

\* No armed entry pins the loop to its fast cadence for ever (the low zombies and
\* yesterday's keys prune is written for).
ArmedCoolsDown == \A k \in Key : k \in armed ~> k \notin armed

\* Every row, one whose window filled nothing included, settles and stops counting
\* against max_open_positions.
PositionsSettle == \A k \in Key : IsOpen(k) ~> ~IsOpen(k)

=============================================================================
