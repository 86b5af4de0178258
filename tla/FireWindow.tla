------------------------------ MODULE FireWindow ------------------------------
(***************************************************************************)
(* One fire window: _r_cycle._paper_fire drives the ladder of              *)
(* re_execution over the legs of a fire and hands each intent to a port.   *)
(* PaperPort matches it against the cached book; LivePort sends it through *)
(* v2_transport.execute_leg as a fill-and-kill order to a venue whose      *)
(* answers may be late or lost, polls it, and cancels what it cannot       *)
(* account for.  At the end the ledger reserves the cost of the fills.     *)
(*                                                                         *)
(* The books do not change under a live window: the rungs follow each      *)
(* other without a pause and nothing refreshes the cache in between.  Each *)
(* leg has a token and a book of its own, so planning a rung for all legs  *)
(* first, as plan_fire_cycle does, is the same as leg by leg.              *)
(***************************************************************************)
EXTENDS Integers, Sequences, SequencesExt

CONSTANTS
    NLegs,              \* the legs of the fire, in order: 1 .. NLegs
    Want, Cap, Floor,   \* per leg: the shares sized, the cap and the floor of its ask
    Tick,               \* the books' tick; prices are integers in the same unit
    Ports,              \* the ports the configuration may ask for: "live", "paper"
    Quotes,             \* per port, the ladders a leg's book may hold: sequences of [px, size]
    BudgetMs,           \* fire_budget_ms
    Polls, Cancels,     \* bounds of poll_fill (6) and cancel_with_retry (3)
    RestsPartly,        \* the legs whose orders the venue may report partly matched and live
    Capital             \* what the ledger can still reserve

Legs == 1 .. NLegs
Rungs == 1 .. 3

ASSUME WindowAssumption ==
    /\ NLegs \in Nat \ {0} /\ Tick \in Nat \ {0} /\ BudgetMs \in Nat
    /\ Polls \in Nat \ {0} /\ Cancels \in Nat \ {0} /\ Capital \in Nat
    /\ Want \in [Legs -> Nat \ {0}]
    /\ Cap \in [Legs -> Nat] /\ Floor \in [Legs -> Nat]
    /\ Ports \subseteq {"live", "paper"}
    /\ Quotes \in [Ports -> SUBSET Seq([px : Nat, size : Nat])]
    /\ RestsPartly \subseteq Legs

VARIABLES
    pc, leg, rung,              \* where the window is
    port, quoted,               \* the port in use, and the cached ladders at the opening
    book,                       \* the cached ladders now
    remaining, booked, cost,    \* per leg, what _paper_fire keeps
    orders,                     \* the venue: one order per leg and rung
    polls, tries                \* the attempts of the poll and of the cancel so far

window == <<pc, leg, rung>>
opening == <<port, quoted>>
fills  == <<remaining, booked, cost>>
vars   == <<window, opening, book, fills, orders, polls, tries>>

\* st is "none" where nothing was accepted; risk is residual_risk, as audited.
Order == [st : {"none", "live", "closed"}, size : Nat, limit : Nat,
          got : Nat, px : Nat, risk : BOOLEAN]
NoOrder == [st |-> "none", size |-> 0, limit |-> 0, got |-> 0, px |-> 0, risk |-> FALSE]

Live == port = "live"
Final == {"done", "dropped", "refused", "raised"}

TypeOK ==
    /\ pc \in {"open", "leg", "poll", "cancel", "fund"} \cup Final
    /\ leg \in Legs /\ rung \in Rungs /\ port \in Ports
    /\ book \in [Legs -> Seq([px : Nat, size : Nat])]
    /\ quoted \in [Legs -> Seq([px : Nat, size : Nat])]
    /\ remaining \in [Legs -> Nat] /\ booked \in [Legs -> Nat] /\ cost \in [Legs -> Nat]
    /\ orders \in [Legs -> [Rungs -> Order]]
    /\ polls \in 0 .. Polls /\ tries \in 0 .. Cancels

-----------------------------------------------------------------------------
(* The ladder *)

LadderMs == <<0, 1500, 4000>>
ExtraTicks == IF LadderMs[rung] >= 1500 THEN 1 ELSE 0

Lesser(a, b) == IF a <= b THEN a ELSE b

\* cap_price, for an ask within the cap.
CapPriceUnbound(ask, cap, extra) == ask + Tick * extra      \* mutant: chases the ask
CapPrice(ask, cap, extra) == (Lesser(ask + Tick * extra, cap) \div Tick) * Tick

\* plan_leg_attempts says send_fak: an ask above the floor and within the cap, and
\* shares left to buy.  (abort_timeout cannot happen: the loop stops at the budget.)
Sends(l) ==
    /\ remaining[l] > 0
    /\ book[l] # <<>>
    /\ Floor[l] < Head(book[l]).px /\ Head(book[l]).px <= Cap[l]
Limit(l) == CapPrice(Head(book[l]).px, Cap[l], ExtraTicks)

\* paper_match_fak: walk the asks within the limit, take what is needed, keep the rest.
TakeLevelGreedily(acc, lv) ==       \* mutant: the level keeps what was taken
    LET t == IF lv.px <= acc.limit THEN Lesser(acc.need, lv.size) ELSE 0
    IN  [acc EXCEPT !.need = @ - t, !.cost = @ + t * lv.px, !.left = Append(@, lv)]
TakeLevel(acc, lv) ==
    LET t == IF lv.px <= acc.limit THEN Lesser(acc.need, lv.size) ELSE 0
    IN  [acc EXCEPT !.need = @ - t, !.cost = @ + t * lv.px,
                    !.left = IF lv.size > t THEN Append(@, [lv EXCEPT !.size = @ - t]) ELSE @]
PaperMatch(asks, limit, shares) ==
    FoldLeft(TakeLevel, [limit |-> limit, need |-> shares, cost |-> 0, left |-> <<>>], asks)

-----------------------------------------------------------------------------
(* Moving through the window *)

Init ==
    /\ pc = "open" /\ leg = 1 /\ rung = 1 /\ port \in Ports
    /\ book \in [Legs -> Quotes[port]] /\ quoted = book
    /\ remaining = Want
    /\ booked = [l \in Legs |-> 0] /\ cost = [l \in Legs |-> 0]
    /\ orders = [l \in Legs |-> [r \in Rungs |-> NoOrder]]
    /\ polls = 0 /\ tries = 0

\* get_port and preflight: the gates, the account, the limits.
PassPreflight ==
    /\ pc = "open" /\ pc' = "leg"
    /\ UNCHANGED <<leg, rung, opening, book, fills, orders, polls, tries>>
FailPreflight ==
    /\ pc = "open" /\ Live /\ pc' = "refused"
    /\ UNCHANGED <<leg, rung, opening, book, fills, orders, polls, tries>>

LastRung == \A r \in Rungs : r > rung => LadderMs[r] > BudgetMs

\* The match of this leg has returned: the next leg, the next rung, or the ledger.
NextLeg ==
    \/ leg < NLegs /\ leg' = leg + 1 /\ rung' = rung /\ pc' = "leg"
    \/ leg = NLegs /\ ~LastRung /\ leg' = 1 /\ rung' = rung + 1 /\ pc' = "leg"
    \/ leg = NLegs /\ LastRung /\ pc' = "fund" /\ UNCHANGED <<leg, rung>>

\* No intent for the leg on this rung: filled, no book, below the floor, above the cap.
SkipLeg ==
    /\ pc = "leg" /\ ~Sends(leg) /\ NextLeg
    /\ UNCHANGED <<opening, book, fills, orders, polls, tries>>

PaperFill ==
    /\ pc = "leg" /\ ~Live /\ Sends(leg)
    /\ LET m == PaperMatch(book[leg], Limit(leg), remaining[leg])
       IN  /\ book' = [book EXCEPT ![leg] = m.left]
           /\ booked' = [booked EXCEPT ![leg] = @ + remaining[leg] - m.need]
           /\ cost' = [cost EXCEPT ![leg] = @ + m.cost]
           /\ remaining' = [remaining EXCEPT ![leg] = m.need]
    /\ NextLeg
    /\ UNCHANGED <<opening, orders, polls, tries>>

-----------------------------------------------------------------------------
(* execute_leg: one FAK order of this leg on this rung *)

Current == orders[leg][rung]
SetOrder(o) == orders' = [orders EXCEPT ![leg][rung] = o]
Landed(atRisk) ==
    [st |-> "live", size |-> remaining[leg], limit |-> Limit(leg),
     got |-> 0, px |-> 0, risk |-> atRisk]

Submits == pc = "leg" /\ Live /\ Sends(leg)

\* Nothing reached the book: no fill mode (no usable cap, band or quote), an input
\* refused before signing (off the tick, below the precision of an amount), no match
\* (the venue kills the order at once), or a connection lost on the way out.
NotTaken ==
    /\ Submits /\ NextLeg
    /\ UNCHANGED <<opening, book, fills, orders, polls, tries>>

OrderTaken ==
    /\ Submits /\ Limit(leg) > 0
    /\ SetOrder(Landed(FALSE))
    /\ pc' = "poll" /\ polls' = 0 /\ tries' = 0
    /\ UNCHANGED <<leg, rung, opening, book, fills>>

\* submit_failed, no_order_id: the order is in the book and execute_leg cannot know.
\* It reports the risk and all shares as unfilled.
AnswerLostQuietly ==        \* mutant: the risk is not reported
    /\ Submits /\ Limit(leg) > 0
    /\ SetOrder(Landed(FALSE)) /\ NextLeg
    /\ UNCHANGED <<opening, book, fills, polls, tries>>
AnswerLost ==
    /\ Submits /\ Limit(leg) > 0
    /\ SetOrder(Landed(TRUE)) /\ NextLeg
    /\ UNCHANGED <<opening, book, fills, polls, tries>>

\* The audit log, or signing, raises: before the order leaves or just after.  The
\* exception leaves the window, and the cycle.
SubmitRaises ==
    /\ Submits
    /\ \/ UNCHANGED orders
       \/ Limit(leg) > 0 /\ SetOrder(Landed(FALSE))
    /\ pc' = "raised"
    /\ UNCHANGED <<leg, rung, opening, book, fills, polls, tries>>

\* The price limit of a market order is in money: at a better price it buys more shares
\* than asked for.
Unfilled(size, got) == IF got <= size THEN size - got ELSE 0

\* What the fill of this leg's order adds to the window.
Report(got, paid) ==
    /\ booked' = [booked EXCEPT ![leg] = @ + got]
    /\ cost' = [cost EXCEPT ![leg] = @ + paid]
    /\ remaining' = [remaining EXCEPT ![leg] = Unfilled(Current.size, got)]

\* The average of the trades, or the order's limit when they cannot be read.
AveragesFreely(o) == {0}            \* mutant: no price, no cost
Averages(o) == {o.px, o.limit}

Terminal(o) == o.st = "closed" \/ (o.got > 0 /\ o.got = o.size)

PollAnswered ==
    /\ pc = "poll" /\ Terminal(Current)
    /\ \E avg \in Averages(Current) : Report(Current.got, Current.got * avg)
    /\ NextLeg
    /\ UNCHANGED <<opening, book, orders, polls, tries>>

\* A poll that shows the order still live, or does not find it yet.  The last one times
\* out: the shares it showed count, at no average price and so at no cost, and what is
\* left is taken down.
PollPendingForever ==       \* mutant: the attempts start over
    /\ pc = "poll" /\ polls' = (polls + 1) % Polls
    /\ UNCHANGED <<window, opening, book, fills, orders, tries>>
PollPending ==
    /\ pc = "poll" /\ polls < Polls
    /\ polls' = polls + 1
    /\ \E seen \in {0, Current.got} :
          /\ seen > 0 => ~Terminal(Current)
          /\ IF polls' < Polls
             THEN UNCHANGED <<window, fills>>
             ELSE /\ Report(seen, 0)
                  /\ IF seen < Current.size THEN pc' = "cancel" /\ UNCHANGED <<leg, rung>>
                     ELSE NextLeg
    /\ UNCHANGED <<opening, book, orders, tries>>

\* get_order raises: no fill is reported, and the order is taken down.
PollFails ==
    /\ pc = "poll" /\ pc' = "cancel"
    /\ Report(0, 0)
    /\ UNCHANGED <<leg, rung, opening, book, orders, polls, tries>>

\* The venue lists an order as cancelled only if it was live.
CancelConfirmed ==
    /\ pc = "cancel" /\ Current.st = "live"
    /\ SetOrder([Current EXCEPT !.st = "closed"])
    /\ NextLeg
    /\ UNCHANGED <<opening, book, fills, polls, tries>>

\* Not confirmed, or the answer lost; the cancel may have worked all the same.  After
\* the last attempt the order is reported as residual risk.
GiveUpQuietly(o) == o               \* mutant: the risk is not reported
GiveUp(o) == [o EXCEPT !.risk = TRUE]
CancelFails ==
    /\ pc = "cancel" /\ tries < Cancels /\ tries' = tries + 1
    /\ \E st \in {Current.st, "closed"} :
          LET o == [Current EXCEPT !.st = st]
          IN  IF tries' < Cancels THEN SetOrder(o) /\ UNCHANGED window
                                  ELSE SetOrder(GiveUp(o)) /\ NextLeg
    /\ UNCHANGED <<opening, book, fills, polls>>

-----------------------------------------------------------------------------
(* The ledger, and the venue *)

TotalCost == FoldLeft(LAMBDA sum, l : sum + cost[l], 0, [l \in Legs |-> l])

\* port.fund: reserve the cost, or stand the whole fire down.
Fund ==
    /\ pc = "fund"
    /\ pc' = IF TotalCost <= Capital THEN "done" ELSE "dropped"
    /\ UNCHANGED <<leg, rung, opening, book, fills, orders, polls, tries>>

\* The shares an order may come to, at one price, within its money.
Affordable(o, px) ==
    IF o.got = o.size THEN {o.got}
    ELSE {g \in o.got .. o.size * o.limit : g * px <= o.size * o.limit}

\* A fill-and-kill order takes what it can and is closed: matched, or killed.  It may do
\* so after a delay, and after the window has given up on it.
VenueCloses(l, r) ==
    /\ orders[l][r].st = "live"
    /\ \E px \in 1 .. orders[l][r].limit : \E g \in Affordable(orders[l][r], px) :
          /\ orders[l][r].got > 0 => px = orders[l][r].px
          /\ g = 0 => px = 1
          /\ orders' = [orders EXCEPT ![l][r] =
                           [@ EXCEPT !.st = "closed", !.got = g, !.px = px]]
    /\ UNCHANGED <<window, opening, book, fills, polls, tries>>

VenueMatches(l, r) ==
    /\ l \in RestsPartly /\ orders[l][r].st = "live" /\ orders[l][r].got = 0
    /\ \E px \in 1 .. orders[l][r].limit : \E g \in 1 .. orders[l][r].size :
          orders' = [orders EXCEPT ![l][r] = [@ EXCEPT !.got = g, !.px = px]]
    /\ UNCHANGED <<window, opening, book, fills, polls, tries>>

PaperFire == PassPreflight \/ FailPreflight \/ SkipLeg \/ PaperFill
          \/ NotTaken \/ OrderTaken \/ AnswerLost \/ SubmitRaises
          \/ PollAnswered \/ PollPending \/ PollFails
          \/ CancelConfirmed \/ CancelFails \/ Fund
Venue == \E l \in Legs, r \in Rungs : VenueCloses(l, r) \/ VenueMatches(l, r)

Next == PaperFire \/ Venue
Spec == Init /\ [][Next]_vars
\* _paper_fire is straight-line code with bounded loops; nothing is asked of the venue.
FairSpec == Spec /\ WF_vars(PaperFire)

-----------------------------------------------------------------------------
(* Properties *)

OverRungs(f(_), l) == f(orders[l][1]) + f(orders[l][2]) + f(orders[l][3])
Shares(o)     == o.got
Spend(o)      == o.got * o.px
SafeShares(o) == IF o.risk THEN 0 ELSE o.got
SafeSpend(o)  == IF o.risk THEN 0 ELSE o.got * o.px
AtRisk(l)     == \E r \in Rungs : orders[l][r].risk

\* No order of the leg is in flight, and none was cut off by an exception.
Returned == pc \notin {"poll", "cancel", "raised"}

\* Every share the venue sold is on the books of the window or belongs to an order that
\* execute_leg reported as residual risk: no answer that is late, lost or absent (lost
\* submit, failed poll, poll timeout, unconfirmed cancel) makes a fill disappear, on legs
\* whose orders the venue fills or kills at once.
FillsBookedOrFlagged ==
    Live /\ Returned => \A l \in Legs \ RestsPartly : booked[l] = OverRungs(SafeShares, l)

\* execute_leg never returns with an order that can still trade unless it says so.
RestingIsFlagged ==
    Returned => \A l \in Legs, r \in Rungs :
                   orders[l][r].st = "live" /\ orders[l][r].got < orders[l][r].size
                      => orders[l][r].risk

\* The venue never takes more money for a leg than the notional it was sized for (its
\* shares at its cap), over all rungs, as long as no order of it is at risk and the venue
\* voids what it does not fill (live/README.md:455).
SpendWithinBudget ==
    \A l \in Legs \ RestsPartly :
        ~AtRisk(l) => OverRungs(Spend, l) <= Want[l] * Cap[l]

\* The same whatever happens to the answers: the submit path does not buy twice.
NeverBuysTwice ==
    \A l \in Legs : OverRungs(Spend, l) <= Want[l] * Cap[l]

\* The cost handed to the ledger covers what the venue took for the booked shares
\* (live/README.md: the real filled quantity and average price reach the engine).
LedgerCoversFills ==
    Live /\ Returned => \A l \in Legs \ RestsPartly : cost[l] >= OverRungs(SafeSpend, l)

\* The paper ladder takes each share of the quoted depth at most once over its rungs, at
\* its quoted price, and pays no share above the cap.
Depth(asks) == FoldLeft(LAMBDA sum, lv : sum + lv.size, 0, asks)
Value(asks) == FoldLeft(LAMBDA sum, lv : sum + lv.size * lv.px, 0, asks)
PaperFillsQuotedDepth ==
    ~Live => \A l \in Legs :
        /\ booked[l] + Depth(book[l]) = Depth(quoted[l])
        /\ cost[l] + Value(book[l]) = Value(quoted[l])
        /\ booked[l] + remaining[l] = Want[l]
        /\ cost[l] <= booked[l] * Cap[l]

\* Whatever the venue does, the window ends and the cycle goes on.
WindowEnds == <>(pc \in Final)
==============================================================================
