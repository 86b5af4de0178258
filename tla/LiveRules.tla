------------------------------ MODULE LiveRules -------------------------------
(***************************************************************************)
(* The pure rules of live/: the gates of a write, the risk gate and the    *)
(* limits, how a smoke order is priced, sized and clamped, and which       *)
(* bucket it may use.                                                      *)
(*                                                                         *)
(* Prices, money and sizes are integers: a price in units of which Tick    *)
(* make a tick and One make a dollar, a size in its smallest step, money   *)
(* in the product of the two.  0 stands for a quote or a number that is    *)
(* missing or unusable; each parser refuses both alike.                    *)
(***************************************************************************)
EXTENDS Integers, Sequences, SequencesExt, FiniteSets

CONSTANTS
    Tick,       \* the tick of the books, in units
    One         \* a dollar, in units

ASSUME PriceAssumption == Tick \in Nat \ {0} /\ One \in Nat /\ One > Tick

\* A book as the order-book summary gives it: the best bid, the asks from the best one
\* up, and the market's smallest order.
Book == [bid : Nat, asks : Seq([px : Nat, size : Nat]), min : Nat]
BestAsk(b) == IF b.asks = <<>> THEN 0 ELSE Head(b.asks).px
Least(a, b) == IF a <= b THEN a ELSE b

-----------------------------------------------------------------------------
(* Gates and limits *)

\* The three gates of one invocation: the flag, the environment, the phrase of the day.
GateChecks == {"cli_flag", "env_flag", "confirm_phrase"}
GatesAllPassed(gates) == gates = GateChecks

\* arm_controlled_sentinels, on a client with these write methods: all of them are made to
\* raise but the two that are released, and a client that lacks one of those is refused.
Released == {"post_order", "cancel_orders"}
CanArm(methods) == Released \subseteq methods

\* load_caps: both caps of the config, each usable, or none; cap_for: that of the leg.
CapsUsable(caps) == \A side \in {"yes", "no"} : 0 < caps[side] /\ caps[side] <= One
CapFor(leg, caps) == IF leg = "buy_yes" THEN caps.yes ELSE caps.no

\* collect: the positions that count are those worth more than dust.
Counts(value, dust) == value > dust
Snapshot(balance, positions, dust) ==
    [balance |-> balance,
     open |-> Cardinality({i \in DOMAIN positions : Counts(positions[i], dust)}),
     value |-> FoldLeft(LAMBDA sum, v : sum + IF Counts(v, dust) THEN v ELSE 0, 0, positions)]

\* risk_gate.evaluate: one more fire of the budget, on the account as it was read.
Evaluate(acc, lim) ==
    /\ lim.budget > 0
    /\ acc.open < lim.maxOpen
    /\ acc.value + lim.budget <= lim.cap
    /\ acc.balance > 0
    /\ lim.budget <= acc.balance

\* submit.check_limits: this order, and this order on top of what is committed.
CheckLimits(notional, acc, lim) ==
    /\ notional <= lim.budget
    /\ acc.value + notional <= lim.cap

-----------------------------------------------------------------------------
(* Price and size of a resting buy *)

AlignDown(v) == (v \div Tick) * Tick
TickGap == 2

SmokeRaw(b) == Least(b.bid, BestAsk(b) - TickGap * Tick)
TwoSided(b) == b.bid > 0 /\ BestAsk(b) > 0 /\ b.bid < BestAsk(b)

\* smoke_price: not above the bid, two ticks under the ask, and at least a tick.
NoPrice == 0
SmokePrice(b) ==
    IF TwoSided(b) /\ SmokeRaw(b) >= Tick THEN AlignDown(SmokeRaw(b)) ELSE NoPrice

\* plan_order on the price chosen: what the budget buys of it, rounded down.
NoPlan == [px |-> NoPrice, size |-> 0]
PlanOrder(px, budget, cap, min) ==
    LET size == budget \div px
    IN  IF px > 0 /\ px <= cap /\ size > 0 /\ size >= min
        THEN [px |-> px, size |-> size] ELSE NoPlan
MaxCost(p) == p.px * p.size

\* clamp_limit, for a buy: at least a tick under the best ask of the fresh book.
ClampLimit(limit, b) ==
    IF BestAsk(b) > Tick THEN AlignDown(Least(limit, BestAsk(b) - Tick)) ELSE NoPrice

\* check_non_marketable, for a buy.
NonMarketable(px, b) == px > 0 /\ BestAsk(b) > 0 /\ px < BestAsk(b)

-----------------------------------------------------------------------------
(* Which bucket *)

\* The size resting at the ask and within two ticks above it.
AskSizeNear(b) ==
    FoldLeft(LAMBDA sum, lv : sum + IF lv.px <= BestAsk(b) + TickGap * Tick THEN lv.size ELSE 0,
             0, b.asks)

\* assess_book: both sides quoted and not crossed, the ask not pinned to an end, within
\* the cap and deep enough, and a passive price to place.
AssessBook(b, cap) ==
    /\ TwoSided(b)
    /\ BestAsk(b) < One /\ BestAsk(b) <= One - TickGap * Tick
    /\ b.min > 0 /\ AskSizeNear(b) >= b.min
    /\ BestAsk(b) <= cap
    /\ SmokePrice(b) # NoPrice

\* choose_bucket: the ask nearest to one half, and of those the larger volume (a token
\* of a larger number has it; min keeps the first of equals, so none are equal here).
FromHalf(b) == LET d == 2 * BestAsk(b) - One IN IF d < 0 THEN -d ELSE d
ChooseBucket(qualified, books) ==
    {t \in qualified : \A u \in qualified :
        \/ FromHalf(books[t]) < FromHalf(books[u])
        \/ FromHalf(books[t]) = FromHalf(books[u]) /\ t >= u}
=============================================================================
