------------------------------ MODULE SmokeOrder ------------------------------
(***************************************************************************)
(* The smoke order of an operator: smoke.run_smoke places one passive buy, *)
(* queries it, cancels it and checks that nothing is left.  Around it the  *)
(* books move, the venue may fill the order, every answer may be lost or   *)
(* late, and the audit log, which each step must write, may stop working.  *)
(*                                                                         *)
(* A read or a cancel with its retries is one step: nothing but the venue  *)
(* changes between two of its attempts, and it may as well do so before.   *)
(* The open-order list shows every resting order, and may still show one   *)
(* that has been cancelled.                                                *)
(***************************************************************************)
EXTENDS LiveRules

CONSTANTS
    Tokens,         \* the candidate buckets, numbered
    Books,          \* the books they may have
    Accounts,       \* [balance, positions]: the account, a value for each position
    Dust,           \* MIN_POSITION_VALUE
    Clients,        \* the write methods a client of this SDK may have
    Legs,           \* --leg: "buy_yes" or "buy_no"
    ConfigCaps,     \* [yes, no]: the price caps the config may hold, 0 for an unusable one
    Limits,         \* [budget, maxOpen, cap]: the LIVE_* limits of the environment
    Budget,         \* --budget-usdc
    Overrides,      \* --price: 0 for none
    ForeignOrders,  \* sets of other orders of the account: [tok, px]
    Moves           \* bound: how often the books may move during a run

ASSUME SmokeAssumption ==
    /\ Tokens \subseteq Nat /\ Books \subseteq Book
    /\ Accounts \subseteq [balance : Nat, positions : Seq(Nat)] /\ Dust \in Nat
    /\ Legs \subseteq {"buy_yes", "buy_no"} /\ ConfigCaps \subseteq [yes : Nat, no : Nat]
    /\ Limits \in [budget : Nat, maxOpen : Nat, cap : Nat]
    /\ ForeignOrders \subseteq SUBSET [tok : Tokens, px : Nat]
    /\ Budget \in Nat /\ Overrides \subseteq Nat /\ Moves \in Nat

VARIABLES
    pc, readonly, gates,    \* the run: where it is, and what it was started with
    leg, caps, methods,     \* its leg, the caps of the config, what the client can do
    account, log,           \* the account; whether the audit log can be written
    books, moves,           \* the books now
    pick, seen, plan,       \* the bucket selected, its book as read, the order planned
    mine, others, struck,   \* the venue: our order, the account's others, those we cancelled
    report                  \* the part of the report the run itself reads, or its reader acts on

input  == <<readonly, gates, leg, caps, methods, account>>
market == <<books, moves>>
choice == <<pick, seen, plan>>
venue  == <<mine, others, struck>>
vars   == <<pc, input, log, market, choice, venue, report>>

NoTok == -1
NoBook == [bid |-> 0, asks |-> <<>>, min |-> 0]
NoOrder == [st |-> "none", px |-> 0, size |-> 0, got |-> 0, known |-> FALSE]
Blank == [ok |-> FALSE, residual |-> FALSE, fill |-> FALSE, confirmed |-> FALSE,
          canceled |-> FALSE, after |-> FALSE]

Final == {"done", "raised"}
TypeOK ==
    /\ pc \in {"gates", "connect", "select", "risk", "plan", "submit", "submit_failed",
               "confirm", "cancel", "after", "list", "handler", "rescue"} \cup Final
    /\ readonly \in BOOLEAN /\ gates \subseteq GateChecks /\ account \in Accounts
    /\ leg \in Legs /\ caps \in ConfigCaps /\ methods \in Clients
    /\ log \in {"ok", "broken", "repaired"}
    /\ books \in [Tokens -> Books] /\ moves \in 0 .. Moves
    /\ pick \in Tokens \cup {NoTok} /\ seen \in Books \cup {NoBook}
    /\ plan \in [px : Nat, size : Nat]
    /\ mine \in [st : {"none", "live", "matched", "canceled"}, px : Nat, size : Nat,
                 got : Nat, known : BOOLEAN]
    /\ others \subseteq [tok : Tokens, px : Nat] /\ struck \subseteq [tok : Tokens, px : Nat]
    /\ report \in [ok : BOOLEAN, residual : BOOLEAN, fill : BOOLEAN, confirmed : BOOLEAN,
                   canceled : BOOLEAN, after : BOOLEAN]

-----------------------------------------------------------------------------
(* Up to the submit *)

Init ==
    /\ pc = "gates" /\ readonly \in BOOLEAN /\ gates \in SUBSET GateChecks
    /\ leg \in Legs /\ caps \in ConfigCaps /\ methods \in Clients
    /\ account \in Accounts /\ log = "ok"
    /\ books \in [Tokens -> Books] /\ moves = 0
    /\ pick = NoTok /\ seen = NoBook /\ plan = NoPlan
    /\ mine = NoOrder /\ others \in ForeignOrders /\ struck = {}
    /\ report = Blank

LogWorks == log # "broken"

\* step() audits what has just happened; when the log cannot be written it raises into
\* the handler of run_smoke, or past it before its try.
Audited(next) == pc' = IF LogWorks THEN next ELSE "handler"

PassGates ==
    /\ pc = "gates"
    /\ pc' = IF readonly THEN IF LogWorks THEN "connect" ELSE "raised"
             ELSE IF GatesAllPassed(gates) THEN "connect"
             ELSE IF LogWorks THEN "done" ELSE "raised"
    /\ UNCHANGED <<input, log, market, choice, venue, report>>

\* The network, credentials, caps, client and write sentinels, any of which may raise.
Connect ==
    /\ pc = "connect"
    /\ pc' = "handler" \/ (CapsUsable(caps) /\ CanArm(methods) /\ Audited("select"))
    /\ UNCHANGED <<input, log, market, choice, venue, report>>
Cap == CapFor(leg, caps)

\* select_tradeable_bucket: of the books that can be read, the best that qualifies.
Select ==
    /\ pc = "select"
    /\ \E readable \in SUBSET Tokens :
          LET good == {t \in readable : AssessBook(books[t], Cap)}
          IN  IF good = {} THEN Audited("done") /\ UNCHANGED <<pick, seen>>
              ELSE /\ Audited("risk")
                   /\ \E t \in ChooseBucket(good, books) : pick' = t /\ seen' = books[t]
    /\ UNCHANGED <<input, log, market, plan, venue, report>>

\* reconcile.collect reads the account, or fails; _preflight_with holds the limits of the
\* environment against what it read.
Collected == Snapshot(account.balance, account.positions, Dust)
Preflight == Evaluate(Collected, Limits)
Risk ==
    /\ pc = "risk"
    /\ Audited("done") \/ (Preflight /\ Audited("plan"))
    /\ UNCHANGED <<input, log, market, choice, venue, report>>

\* The plan, the limits and the passive check, all on the book as it was read.
PriceOf(override) == IF override = 0 THEN SmokePrice(seen) ELSE AlignDown(override)
Plan ==
    /\ pc = "plan"
    /\ \E override \in Overrides :
          LET p  == PlanOrder(PriceOf(override), Budget, Cap, seen.min)
              ok == /\ p # NoPlan /\ CheckLimits(MaxCost(p), Collected, Limits)
                    /\ NonMarketable(p.px, seen)
          IN  /\ plan' = p
              /\ Audited(IF ok /\ ~readonly THEN "submit" ELSE "done")
              /\ report' = [report EXCEPT !.ok = ok /\ readonly]
    /\ UNCHANGED <<input, log, market, pick, seen, venue>>

-----------------------------------------------------------------------------
(* The order *)

\* The limit execute_leg signs: the plan's price, clamped under the ask of a book
\* fetched again.
LimitAsPlanned == plan.px           \* mutant: the clamp is skipped
Limit == ClampLimit(plan.px, books[pick])

Landed(known) == [st |-> "live", px |-> Limit, size |-> plan.size, got |-> 0, known |-> known]

\* No book, no passive price, an answer without an id, or post_order raised: reported as
\* residual risk whether or not the order is there, and the run ends.
NotAnsweredQuietly(landed) ==       \* mutant: the risk is not reported
    /\ pc = "submit" /\ pc' = "done"
    /\ mine' = IF landed THEN Landed(FALSE) ELSE mine
    /\ UNCHANGED <<input, log, market, choice, others, struck, report>>
NotAnswered(landed) ==
    /\ pc = "submit" /\ (landed => LogWorks /\ Limit # NoPrice)
    /\ pc' = "done"
    /\ mine' = IF landed THEN Landed(FALSE) ELSE mine
    /\ report' = [report EXCEPT !.residual = TRUE]
    /\ UNCHANGED <<input, log, market, choice, others, struck>>

\* The log fails before the order leaves, or between the order and its record.
SubmitRaises(landed) ==
    /\ pc = "submit" /\ pc' = "submit_failed"
    /\ IF landed THEN /\ log = "ok" /\ log' = "broken" /\ Limit # NoPrice
                      /\ mine' = Landed(FALSE)
                 ELSE ~LogWorks /\ UNCHANGED <<log, mine>>
    /\ UNCHANGED <<input, market, choice, others, struck, report>>

\* The order is accepted, and poll_fill reports what of it is filled: nothing but the
\* reason of the report comes of that here, since the query below sees it again.
Submit ==
    /\ pc = "submit" /\ LogWorks /\ Limit # NoPrice
    /\ pc' = "confirm" /\ mine' = Landed(TRUE)
    /\ UNCHANGED <<input, log, market, choice, others, struck, report>>

Filled == mine.got > 0 \/ mine.st = "matched"

\* verify_order: untouched and in a resting state.
Verified == mine.st = "live" /\ ~Filled

\* The query finds it resting untouched; or filled, when what is left of it is
\* cancelled only if its status still says that it rests; or cannot tell.
Confirm ==
    /\ pc = "confirm"
    /\ \/ /\ Verified
          /\ report' = [report EXCEPT !.confirmed = TRUE] /\ Audited("cancel")
       \/ /\ Filled /\ report' = [report EXCEPT !.fill = TRUE]
          /\ (mine.st = "live" /\ Audited("cancel")) \/ Audited("list")
       \/ report' = [report EXCEPT !.residual = TRUE] /\ Audited("list")
    /\ UNCHANGED <<input, log, market, choice, venue>>

\* cancel_with_retry: confirmed, or not, when the order may be gone all the same.
Cancel ==
    /\ pc = "cancel" /\ pc' = "after"
    /\ \/ /\ mine.st = "live" /\ mine' = [mine EXCEPT !.st = "canceled"]
          /\ report' = [report EXCEPT !.canceled = TRUE]
       \/ /\ \E st \in {mine.st, IF mine.st = "live" THEN "canceled" ELSE mine.st} :
                mine' = [mine EXCEPT !.st = st]
          /\ UNCHANGED report
    /\ UNCHANGED <<input, log, market, choice, others, struck>>

\* The query after the cancel.  Clean only if the cancel was confirmed, the order is
\* seen cancelled, and no share of it was ever matched.
TrustCancel ==              \* mutant: the confirmation of the cancel is enough
    /\ pc = "after" /\ Audited("list")
    /\ report' = [report EXCEPT !.ok = @ \/ report.canceled, !.residual = @ \/ ~report.canceled]
    /\ UNCHANGED <<input, log, market, choice, venue>>
After ==
    /\ pc = "after" /\ Audited("list")
    /\ \E readable \in BOOLEAN :
          LET canceled == readable /\ mine.st = "canceled"
              good     == report.canceled /\ canceled /\ ~Filled
          IN  report' = [report EXCEPT !.after = canceled,
                                       !.ok = @ \/ (good /\ ~report.fill),
                                       !.residual = @ \/ ~good]
    /\ UNCHANGED <<input, log, market, choice, venue>>

\* await_no_open_orders, with what it found last: the list is clear; it shows orders but
\* not ours; it cannot be read; it shows ours to the end.
Clear == mine.st # "live" /\ others = {}
Lags  == mine.st \in {"live", "canceled"}

ListLeftovers ==
    /\ pc = "list"
    /\ \/ Clear /\ Audited("done") /\ UNCHANGED report
       \/ /\ \/ mine.st # "live" /\ others # {}         \* other_orders_remain
             \/ TRUE                                    \* list_failed
             \/ /\ Lags /\ others = {}                  \* cancelled, and still listed
                /\ report.confirmed /\ report.after
          /\ report' = [report EXCEPT !.ok = FALSE, !.residual = TRUE]
          /\ Audited("done")
       \* open_orders_remain: its record has no note, and reading the note raises.
       \/ /\ Lags /\ (others # {} \/ ~(report.confirmed /\ report.after))
          /\ pc' = "handler" /\ UNCHANGED report
    /\ UNCHANGED <<input, log, market, choice, venue>>

-----------------------------------------------------------------------------
(* Recovery *)

\* rescue_cancel's scan: our order if its price is the one planned, and any other order
\* of that token at that price.
MatchingByToken(o) == o.tok = pick          \* mutant: whatever the price
Matching(o) == o.tok = pick /\ o.px = plan.px

\* The scan, given what became of our order before it.  Every match is cancelled or not;
\* the rescue is good if none failed, and if none matched.
Scan(before) ==
    LET ours  == before.st = "live" /\ before.px = plan.px
        theirs == {o \in others : Matching(o)}
    IN  \E hit \in BOOLEAN, gone \in SUBSET theirs :
          /\ hit => ours
          /\ mine' = IF hit THEN [before EXCEPT !.st = "canceled"] ELSE before
          /\ others' = others \ gone /\ struck' = struck \cup gone
          /\ \/ hit = ours /\ gone = theirs /\ report' = [report EXCEPT !.residual = pc = "submit_failed"]
             \/ ~(hit = ours /\ gone = theirs) /\ report' = [report EXCEPT !.residual = TRUE]

ListFails(before) ==
    /\ mine' = before /\ report' = [report EXCEPT !.residual = TRUE]
    /\ UNCHANGED <<others, struck>>

\* The submit raised: the order has no id, and the risk is reported whatever the scan says.
SubmitFailed ==
    /\ pc = "submit_failed"
    /\ IF LogWorks THEN (Scan(mine) \/ ListFails(mine)) /\ pc' = "done"
                   ELSE pc' = "handler" /\ UNCHANGED <<venue, report>>
    /\ UNCHANGED <<input, log, market, choice>>

\* Any other exception.  Its own first record raises for good if the log is down.  Only a
\* run that has planned an order looks for one, and the answer replaces the risk known.
Handle ==
    /\ pc = "handler"
    /\ IF ~LogWorks THEN pc' = "raised" /\ UNCHANGED report
       ELSE IF plan = NoPlan \/ readonly
            THEN pc' = "done" /\ report' = [report EXCEPT !.residual = FALSE]
            ELSE pc' = "rescue" /\ UNCHANGED report
    /\ UNCHANGED <<input, log, market, choice, venue>>

\* rescue_cancel: by id, and if that is not confirmed, by token and price.
RescueById ==
    /\ mine.known /\ mine.st = "live"
    /\ mine' = [mine EXCEPT !.st = "canceled"]
    /\ report' = [report EXCEPT !.residual = FALSE]
    /\ UNCHANGED <<others, struck>>
Rescue ==
    /\ pc = "rescue" /\ pc' = IF LogWorks THEN "done" ELSE "raised"
    /\ \/ RescueById
       \/ \E st \in {mine.st} \cup (IF mine.known /\ mine.st = "live" THEN {"canceled"} ELSE {}) :
             LET before == [mine EXCEPT !.st = st] IN Scan(before) \/ ListFails(before)
    /\ UNCHANGED <<input, log, market, choice>>

-----------------------------------------------------------------------------
(* Around the run *)

VenueFills ==
    /\ mine.st = "live"
    /\ \E got \in {1, mine.size} :
          /\ got > mine.got
          /\ mine' = [mine EXCEPT !.got = got, !.st = IF got = mine.size THEN "matched" ELSE @]
    /\ UNCHANGED <<pc, input, log, market, choice, others, struck, report>>

BookMoves ==
    /\ moves < Moves /\ moves' = moves + 1 /\ pick # NoTok /\ pc \notin Final
    /\ \E b \in Books : books' = [books EXCEPT ![pick] = b]
    /\ UNCHANGED <<pc, input, log, choice, venue, report>>

LogChanges ==
    /\ pc \notin Final
    /\ \/ log = "ok" /\ log' = "broken"
       \/ log = "broken" /\ log' = "repaired"
    /\ UNCHANGED <<pc, input, market, choice, venue, report>>

RunSmoke == PassGates \/ Connect \/ Select \/ Risk \/ Plan
         \/ (\E landed \in BOOLEAN : NotAnswered(landed) \/ SubmitRaises(landed)) \/ Submit
         \/ Confirm \/ Cancel \/ After \/ ListLeftovers
         \/ SubmitFailed \/ Handle \/ Rescue

Next == RunSmoke \/ VenueFills \/ BookMoves \/ LogChanges
Spec == Init /\ [][Next]_vars

-----------------------------------------------------------------------------
(* Properties *)

\* A run that calls itself clean has bought nothing and left nothing: whatever was filled
\* between two of its queries, and whatever answer was lost, it says so.
CleanRunLeavesNothing ==
    pc = "done" /\ report.ok /\ ~readonly => mine.st = "canceled" /\ mine.got = 0

\* No run ends with its order still in the book without saying so: unless the order was
\* signed at another price than planned, which is the price its rescue looks for.
PlannedRestingIsReported ==
    pc = "done" /\ mine.st = "live" /\ mine.px = plan.px => report.residual

\* The rescue is no "cancel everything" button: of the account's other orders it takes
\* down at most those of the planned token and price.
OnlyOwnScope == \A o \in struck : o.tok = pick /\ o.px = plan.px

\* An order leaves only past all three gates, and whatever the book did since the plan, it
\* rests below the ask, under the cap, and costs no more than the limits leave.
PostsWithinRules ==
    [][mine.st = "none" /\ mine'.st # "none" =>
         /\ gates = GateChecks /\ ~readonly
         /\ mine'.px > 0 /\ mine'.px < BestAsk(books[pick]) /\ mine'.px <= Cap
         /\ mine'.px * mine'.size <= Limits.budget
         /\ Collected.value + mine'.px * mine'.size <= Limits.cap
         /\ Collected.open < Limits.maxOpen /\ mine'.px * mine'.size <= account.balance]_vars
=============================================================================
