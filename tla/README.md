# Verification of the yes2re reversal bot

This directory models the control logic of the bot in TLA+, checks it with TLC on
small instances and proves most of its safety properties with TLAPS for every instance.

The bot watches METAR reports at the airports Polymarket's daily temperature markets
settle on. When the day's running extreme leaves the bucket that was expected to hold
it (the TAF's TX/TN, or the bucket the market ranks first) by one bucket, it buys YES
on the bucket just entered (and, if configured, NO on the one left), at most twice per
*session*: one city, one direction (high or low), one local market date.

## 1. Inventory

| component | source | state | operations | interacts with |
|---|---|---|---|---|
| runner loop | `runner_impl.py` | none of its own | cycle, save, `cycle_error`, sleep | calls the cycle, the state file |
| cycle | `_r_cycle.py` | process-lifetime caches: rules, books, last-good METAR/TAF | rule discovery, prune, feeds, one `maybe_arm_or_fire` per rule, fire dispatch, sleeve sweep, settlement | everything below |
| strategy | `reversal_strategy.py` | sections `armed`, `ever_armed`, `fired`, `running_extremes`, `last_obs_time`, `last_fire_obs` | `maybe_arm_or_fire`, `prune_stale_sessions` | reads positions, writes sections |
| positions and ledger | `_r_cycle.py`, `_r_exec.py`, `paper_capital.py` | `positions`, `paper_total_debit_usdc` | record a fire, merge a re-fire, sell a leg, settle | written by cycle and settlement, read by strategy |
| state file | `_r_state.py` | one JSON file | load, save (tmp and rename) | everything persistent |
| market rules | `market_adapter.py` | none | Gamma discovery, resolution | feeds the rule cache |
| fire ladder | `re_execution.py`, `execution/market.py` | none | sizing, capped FAK plan, paper match | called by `_paper_fire` |
| execution port, submit path | `live/port.py`, `live/submit.py`, `live/order_plan.py`, `live/v2_transport.py`, `live/clob_client.py` | cached port and client, audit log | gates, preflight, match, execute, poll, cancel | ladder above, venue below |
| risk gate, reconcile, smoke | `live/risk_gate.py`, `live/reconcile.py`, `live/smoke.py`, ... | none | limits against account reads | port, operator |
| sleeve | `sleeve_signal.py`, `_r_cycle.py` | price ring, `<session>#sleeve` rows | signal, enter, time out | ladder, positions |
| consensus | `consensus_tracker.py` | samples per session | record books, rank, long-horizon verdict | books in, strategy out |
| books | `local_order_book.py`, `websocket_market_data.py`, `ws_bridge.py`, `_r_globals.py` | one book per token, shared by two threads | baseline, delta, snapshot, pump, wake | ws thread, main thread |
| websocket transport | `market_ws_transport.py` | socket, back-off, counters | connect, frames, ping, reconnect | feeds the books |
| REST books | `clob_market_data.py`, `adapters/...` | none | batched snapshots | book cache |
| weather | `research/common.py` | none | two METAR sources, of which CheckWX's report stands and the AWC fills its gaps; TAF | cycle |
| reporting, operations | `equity_valuation.py`, `ops/`, `scripts/`, `paper_reversal_sim.py` | logs | valuation, supervision, analysis, scenarios | read the state file |

What is hard to test here, with the line where it bites, is the `hazards` list of
`PROJECT.json`; the main groups are

- **the session across time**: date rollover while the rule cache still lists the old
  date, prune against the credentials of an open position, METAR sources that fail over
  to an older stamp, the low window closing on an armed session;
- **crash and error**: fires and entries happen in mid-cycle, the file is written at its end,
  and not at all by a cycle that raises;
- **the one row of a session**: two fires, a sale, a settlement leg by leg, one ledger;
- **configuration reaching the code**: the cap on open positions;
- **live orders**: retries of an order whose fate is unknown, partial fills, gates read
  at different moments;
- **two threads on one book**: torn snapshots, stale copies, reconnects, connections that
  look healthy while they swallow events.

Per component, what makes it correct:

- *strategy*: never fires unarmed, never revives a lock, at most two fires, never two on
  one report, the second strictly further than the first, nothing after the local date;
- *positions, ledger*: an open row keeps its marker, one YES bucket held at a time, every
  ledger unit accounted for by a leg, every row settles;
- *ladder and port*: the venue never takes more than the notional, every real fill is
  booked or reported as a risk, paper takes quoted depth once;
- *port*: no window without its gates, no more at stake than the limits of the port, as far
  as the account shows what is at stake;
- *smoke order*: what is posted keeps to the rules, a clean report is true;
- *weather*: what is decided on is what is remembered, armed stations are asked in time,
  no failed pull erases what is known;
- *sleeve*: its cash is in its rows, no open row is overwritten or left unguarded, and only
  a restart forgets one, of an entry that was never saved; an open sleeve ends;
- *books*: the subscription covers the books, a baseline heals every gap, the cache ends
  up with the venue's books, over REST where the connection chokes;
- *consensus*: the average is the one its window claims, a thin history passes no
  verdict, a restart changes none.

## 2. Plan

The order follows what can lose money first.

| # | module | what | composed with |
|---|---|---|---|
| 1 | `Buckets` | the buckets of a market, as operators | used by 2 |
| 2 | `ReversalRunner` | runner, cycle, strategy, positions, ledger, state file | extends `Buckets` |
| 3 | `SessionLifecycle` | abstract promise of one session and of its place in the state file | implemented by 2 |
| 4 | `FireWindow` | the ladder's rungs, both ports' `match`, `execute_leg`, a venue whose answers may be lost | the inside of a fire of 2 |
| 5 | `LiveRules` | the pure rules of `live/`: gates, limits, price, size, clamp, choice of a bucket | used by 6 and 7 |
| 6 | `EnginePort` | the port over several windows: gates, cache, limits, preflight, band | around 4 |
| 7 | `SmokeOrder` | `run_smoke` from its gates to its rescue | the same venue and rules |
| 8 | `PriceRing`, `SleeveLifecycle` | the pre-breach signal; entry, time-out, sweep, settlement | a row beside those of 2 |
| 9 | `MetarCadence` | which station is asked when, and what is remembered | the inputs of 2 |
| 10 | `BookFeed` | websocket thread, pump, REST refresh, reconnects | the books of 2, 4 and 8 |
| 11 | `Consensus` | samples, window, rank, verdict, file | the `solid` input of 2 |
| 12 | `Series` | totals of a row and the recent end of a series, as operators | used by 6, 8 and 11 |
| 13 | `*_proofs`, `FoldFacts` | the theorems of 2, 4 and 6 to 11 | section 12 |

Every safety property that a run checks is also a theorem. What is left to the runs is
liveness.

A type invariant stands in each module. One run checks one (`shipped`); those of all modules
but `BookFeed` are theorems, and the proofs about `BookFeed` carry the part they need.
What they leave out there is that no token moves more often than `Moves` and that the pipe is
bounded: the model's bounds, of which the first rests on a sum over a set of tokens.

## 3. `ReversalRunner`

### State

| variable | code |
|---|---|
| `clock`, `known`, `edits`, `crashes` | the time a cycle reads once, the cities of the registry file, and counters that bound edits and restarts |
| `phase`, `todo` | where the runner is: between cycles or in one, and which rules the feed loop has still to feed |
| `rules` | `_RULE_MEMO`: the listed buckets per session key, empty when no rule is cached |
| `obs` | the METAR map of the cycle |
| `armed`, `ever`, `fired`, `extreme`, `lastObs`, `lastFire` | the sections of `weatherbotyes2re`; `fired` is `lock` for a record without the `fires` counter, else `one` or `two` |
| `pos`, `debit` | `positions`, `paper_total_debit_usdc` in units of one leg's cost |
| `disk` | what the state file holds |
| `shots` | history only: the fires on record, saved and restored with the rest so that a crash takes them back too |

Temperatures are integers in tenths of the market's unit, so that Celsius reports
converted to Fahrenheit stay exact; a bucket is its place in the full list of outcomes.

### Actions

`RunCycle` is the program: `StartCycle` (rules, prune, the map of reports, the list of
rules to feed, all before the first rule is fed, as in `run_cycle`), `EmptyUniverse`
(no city: the cycle returns at once and is saved), `MaybeArmOrFire(k)` once for each
rule in any order, `SettleMarkets` leg by leg, `SaveState` or `CycleError`.
`MaybeArmOrFire` has one action per outcome of the function, in the order of its
returns: `SkipNoObs`, `SkipSpent`, `LockOpenPosition`, `SkipRefused`, then with the
report accepted `SkipNoReference`, `Arm`, `Watch`, `SkipUntimely`, `LockBreak`,
`SkipDisagreed`, and the fires `StandDown`, `FireRaises`, `FireFirst`, `FireAgain`.
A fire is one step: the slot is consumed and the window executed with `got`, the set of
legs that fill. `Environment` is time (only between cycles, since a cycle reads the
clock once), the operator's edits of the city file, and crashes between any two steps.

The inputs the core does not compute are quantified: which rules Gamma returned and
which buckets they list, each city's report or none (of any stamp, because the two
sources fail over), the TAF extreme, the bucket the market ranks first, the consensus
verdict, the sanity of the stamp, the legs that fill, the bid of a sale, what resolved.

Left out because the code cannot reach it: the branches of `maybe_arm_or_fire` for
`jump > max_bucket_jump` or `max_consensus_jump` (the gate `jump != 1` returns before
them) and `record_refire`'s fallback for a session without a first position
(`refire_target_index` needs an open one). A report without a stamp is refused by
`is_new_obs_time` without a trace, like one already seen. Sleeves are off in the shipped
configuration and are not in this module; their rows would count toward the cap.

### Runs (`MCReversal`)

All use four buckets; the days of the first two have hours inside the fire window, after
it and again inside. Three stamps allow two fires and a repeat; two dates one rollover.

| run | bounds | shows |
|---|---|---|
| `shipped` | 1 high contract in Celsius, 4 readings, 3 stamps, 3 clock values, one leg, TAF and market references, listings with and without a gap, fair | `TypeOK`, `RefireGoesFurther`, `LedgerMatchesLegs`, `ArmedCoolsDown`, `PositionsSettle` |
| `low_restart` | 1 low contract, 2 degree buckets, confirmation margin, both legs, live port, rollover, 1 crash | `OneHeldYes`, `OneFirePerObservation`, `AtMostTwoFires`, `MarkerGuardsPosition`, every step is one of `SessionLifecycle` |
| `open_cap` | 2 cities in two time zones, cap 1 in the strategy section, saves that fail | `OpenWithinCap` |
| `registry` | 2 cities of which one has a contract, 2 edits | `RowHoldsTwoFires` |

One crash is enough for the file and the memory to differ in every way they can within
a day, because a second one restores the same file; two edits take a city away and bring
it back. `open_cap` has no crash, so nothing reads the file again and its VIEW leaves the
file out of what tells states apart. The edits leave `MarkerGuardsPosition`,
`OneFirePerObservation`, `AtMostTwoFires` and the refinement to the other runs on purpose:
they fail under an edit, because prune's rule for unknown cities drops the marker of an open
position that its rule for dates keeps. What survives is that the row never carries a
third fire.

### Fairness

`FairSpec` asks for weak fairness of `RunCycle` (the runner loops for ever; whatever it
does next it does, and its loops over rules and rows are finite), strong fairness of
`Tick` (time passes, but in the model only between cycles, so it is not continuously
enabled) and, per session, strong fairness of `ResolveAll`: Gamma eventually reports
the markets of an old row as resolved and a settlement poll sees it. The code settles
on every `settle_poll_seconds`; that the markets resolve is an assumption on Polymarket.
No fairness is put on reports, rules, fills, crashes or edits.

## 4. `FireWindow`

What happens inside one fire of `ReversalRunner`: `_paper_fire` walks the rungs of the
ladder (0, 1500 and 4000 ms of *planned* time, as far as `fire_budget_ms` allows) and on
each rung the legs that still need shares. The set `got` of a fire there is the set of
legs with `booked > 0` here, `StandDown` is the end in `refused` or `dropped`, and
`FireRaises` the end in `raised`. The correspondence is by construction and not checked
as a refinement, because `ReversalRunner` decides a whole fire in one step.

| variable | code |
|---|---|
| `pc`, `leg`, `rung` | where `_paper_fire` is, and inside a match whether it polls or cancels |
| `port` | the port of the window's mode |
| `book`, `quoted` | the cached ladder of each leg, and (history) as it was when the window opened |
| `remaining`, `booked`, `cost` | `remaining`, `fills[..]["shares"]`, `fills[..]["cost"]` |
| `orders` | the venue: at most one order per leg and rung, what it bought at which price, and whether `execute_leg` reported `residual_risk` for it |
| `polls`, `tries` | the loop counters of `poll_fill` and `cancel_with_retry` |

One action per outcome of a step of the program: `PassPreflight`, `FailPreflight`,
`SkipLeg`, `PaperFill`; the submit's `NotTaken`, `OrderTaken`, `AnswerLost` and
`SubmitRaises`; the poll's `PollAnswered`, `PollPending` (whose last attempt times out)
and `PollFails`; the take-down's `CancelConfirmed` and `CancelFails`; and `Fund`. The
venue acts on its own, between any two steps and after the window has given up on an
order: `VenueCloses` matches what it can and voids the rest. Prices are integers; a
market order is limited in money, so at a better price it buys more shares than were
asked for, and what is left to buy has to stop at zero.

`RestsPartly` is the set of legs on which the venue may report a fill-and-kill order as
live with a part matched. `live/README.md:455` says it does not. The code keeps a
take-down for that case all the same, and with it the books can miss shares: a timed-out
poll reports shares without a price and books them at no cost, and what is matched
between the last poll and a confirmed cancel is never read. So the accounting properties
speak of the legs outside `RestsPartly`, and the others of every leg.

Left out: the rounding of sizes and amounts (`size_legs` gives the constant `Want`), the
maker path of `execute_leg` (in `SmokeOrder`), the YES band of `LivePort.fill_mode` (in
`EnginePort`; any refusal is a `NotTaken`), trades at several prices in one order (one
average price stands for them), and a `size_matched` that is not a number.

| run | bounds | shows |
|---|---|---|
| `fire_window` | both ports, legs of 2 and 1 shares at cap 3 with a tick of 2, 2 rungs (budget 3000 ms), 2 polls, 2 cancels, leg 2 in `RestsPartly`, paper ladders of up to two levels, fair | `FillsBookedOrFlagged`, `SpendWithinBudget`, `LedgerCoversFills`, `RestingIsFlagged`, `PaperFillsQuotedDepth`, `WindowEnds` |
| `bought_twice` | 1 leg, 3 rungs | violation of `NeverBuysTwice` |

Two polls and two cancels tell "again" from "the last one", which is all the loops
distinguish; two shares make a partial fill possible, a cap above the best price a better
one. The theorems cover every ladder, rung count up to three and number of legs.

`bought_twice` is a finding: `_paper_fire` ignores `residual_risk`. When the answer to a
submit is lost the leg's shares count as unfilled and the next rung, which follows at
once, sends them again; if the first order landed the leg spends up to three times its
notional. `SpendWithinBudget` is what remains true: no overspending as long as no order
of the leg was reported as at risk.

Fairness: `FairSpec` asks for weak fairness of the program alone. `_paper_fire` is
straight-line code whose loops are bounded; that each call to the venue's SDK returns or
raises is an assumption on that library. Nothing is asked of the venue's orders.

## 5. `LiveRules` and `EnginePort`

`LiveRules` holds the pure rules of `live/` as operators: the three gates, `evaluate` and
`check_limits`, the caps, `smoke_price`, `plan_order`, `clamp_limit` and
`check_non_marketable`, `assess_book` and the choice of a bucket. Prices and money are
integers, 0 a number that is missing or unusable, since every parser refuses both alike.

`EnginePort` is `live/port.py` over several windows. The operator edits the environment
file, days end (and with them the phrase of the day), markets resolve, the process is
restarted; `get_port` looks at the gates of now but keeps the port, and with it the
limits, of its first creation (`port.py:653-654`); `Preflight` holds the limits against an
account and leaves no client behind when it refuses; `Match` sends an order of any cost up to
what is left of the leg, of which the engine may never hear. `load_config` is the set
`Loaded`: a mode other than paper needs the variable, the file alone is refused.

The account is what `read_account` makes of it (`v2_transport.py:377-383`): the collateral
as it is, and of the positions those the data API shows with a `currentValue` above 0.1, at
that value. So every reading chooses, per position, how many of its tokens are shown and
what they are worth together (`Marked`): a value of `Marks`, above or below the cost, or
nothing at all, which is a position worth dust, one the endpoint has not got yet, or all of
them when it answers null (`clob_client.py:179-189`). `lagging` says that the window just
ended is missing; it is kept apart because the engine always allows for one such window.
`lost` remembers what the reading that cleared the window left out: the cost of the
positions beyond the value shown, and the tokens not shown.

`port` (2 windows, 2 legs, 2 rungs, 1 edit, 1 midnight, two sets of limits, a band that is
one and one that is none, marks of 1 and 3 beside nothing, an account that lags): an order
leaves only in a window that began behind three open gates, and no order leaves more at
stake than the cap of the port, plus the one window the account may lack, plus what the
reading that cleared it did not show (`lost.cost`). With positions that are shown and hold
their cost the last term is nothing; it is there because the code holds the cap against
mark value, so that a loss frees room, and a position that is not shown frees all of its. Positions are counted per token, so the limit on positions can be
passed by the legs of a fire, and by the tokens the reading left out; the property states
both. A mark of 1 is below the cost of a window that filled, 3 above it.

## 6. `SmokeOrder`

`smoke.run_smoke` for one operator run: `PassGates`, `Connect`, `Select`, `Risk`, `Plan`,
then `Submit` (with `NotAnswered` and `SubmitRaises`), `Confirm`, `Cancel`, `After`,
`ListLeftovers`, and the ways out `SubmitFailed`, `Handle`, `Rescue`. Around it the book
moves, the order may fill at any moment, and the audit log, which each step must write,
may break and be repaired. A read or a cancel with its retries is one step, since nothing
but the venue changes between two attempts. `report` holds the fields of the report the
run reads again or its reader acts on.

`smoke` (2 tokens, 4 books of which one has no passive price and one no asks, 2 accounts,
2 sets of caps, a client that lacks a write method, foreign orders at the planned price and
beside it, 1 move of the book): a clean report is true, an order resting at the planned
price is reported, the rescue strikes no other order, and what is posted keeps to gates,
cap, limits and money. No liveness is claimed: the run is straight-line.

## 7. `MetarCadence`

The observations of one process: `last` is `_LAST_GOOD_METAR`, `forecast` its TAF twin,
`since` and `quiet` the ages of the stamps (up to the interval that makes them due, since
nothing tells longer ages apart), `seen` what the strategy of this cycle is handed. A cycle
is `Wake`, `FullPull`, `FastPull`, `EarlyPull`, `TafPull`, `Strategy`, and any of them may
raise (`CycleError`). The sources answer any part of what they are asked, with any report
they have published, or nothing; an answer of CheckWX stands however old it is, and the AWC
is asked for the rest.

`metar` (2 stations, 3 sessions of which two share a station, 1 report per station, full
pull every 4 units, armed pull every 2): `SeenIsRemembered`, `ArmedIsAskedFor`,
`JitterErasesNothing`, `EveryReportIsRead`. Two reports per station hold as well; with
them the run takes too long to be kept. Fairness: the runner goes on
(`WF(Step)`), and the sources that are asked for everything again and again answer in
full again and again (`SF(FullAnswer)`), which is an assumption on them; without it no
report need ever be read.

## 8. `PriceRing` and `SleeveLifecycle`

`PriceRing` is `sleeve_signal.py`: a series of observed asks per bucket, clipped, averaged
by how long each price held (as a fraction), ranked, and the signal. `SleeveLifecycle` is
one session's sleeve in `_r_cycle.py`. A cycle is two steps, because it reads the books
first and then decides on one thread: `Books` and `Decide` (tick, reversal, expiry, sweep,
settlement, save) or `CycleError`; `Midnight` ends the session. `file` is the state file:
`Decide` writes it, `CycleError`, which may come after any part of the cycle and in the
save itself, keeps the memory it has changed and leaves the file alone
(`runner_impl.py:73-82`), and `Crash` loses the ring and puts the file in the place of the
memory (`_r_state.py:234-260`). The time since an entry goes on in the file as well, since
the record holds the moment and not the age.

`NoLiveRowLost` says who may take an open row away. An entry may not: it replaces only rows
that are closed. A restart may, but only the row of an entry no save has kept, because its
cycle raised; and it leaves exactly what the file has.

`sleeve` (2 buckets, high direction, 2 entries, a time-out of 2, bids of 0 and 1; each
bucket is quoted at 1 or 3, or the neighbour not at all, `MCQuotes`, which has both moves of
a signal, their absence and a series with a gap):
`SleeveCashAccounted`, `OpenRowIsGuarded`, `SignalIsAMove`, `NoLiveRowLost`, `SleeveEnds`.
`SignalIsAMove` goes back from the averages to the asks: whatever the pace of the cycles,
a signal needs an ask of the favourite in the long look-back that is the drop above one in
the short, and for the neighbour one in the short that is the rise above one in the long.
The docstring at `_r_cycle.py:577` has one sleeve per session; the sweep removes the
record of one that timed out and a second may follow, so two entries are what there is to
check. `MaxLen` is never reached in the run (the window prunes first), and asks seen twice
within a second are dropped by `Record` but no step is shorter than one. Fairness: cycles
keep coming and keep ending well (`SF` of `Books` and `Decide`); a runner whose every cycle
raises would keep a sleeve open.

## 9. `BookFeed`

Two threads and no lock. The websocket thread dials, subscribes, reads a message, applies
it to the bids and then to the asks, faults, waits and retries, or dies
(`SleepRaises`); the cycle polls REST, widens the subscription (`Grow`, `Resubscribe`) and
copies local books over the cache side by side (`PumpBids`, `PumpAsks`). The venue moves,
connections break and lose what is on its way. The content of a side is the number of
moves it has seen, so a torn copy shows.

A connection may also stay healthy and swallow events, as `market_ws_transport.py:33-35`
reports of the venue: `Swallow` drops the event of a move, and a subscription may go
unanswered for some tokens. `choked` has the tokens with such a gap since their last book.
A later `price_change` of one applies to levels that are not the venue's; the result is
`Off`, which no state of the venue's book is, and only a book mends it. `Mute` bounds the
tokens a connection may choke on. `InSyncWhenQuiet` therefore speaks of the tokens served
and not choked; for the others `CacheConverges` has REST put the cache right.

`book_feed` (2 tokens of which one is listed later, 2 moves, one of which leaves a book
empty, 1 message on its way, the token listed from the start in `Mute`):
`SubscriptionCovers`, `InSyncWhenQuiet`, `CacheConverges`. Two moves are what a gap needs:
one that is swallowed and one that is told behind it.

Fairness (`FairSpec`): the cycle is scheduled, time passes, and REST is polled and answers
for all listed tokens again and again. Nothing is asked of the websocket thread or of the
connection: it may be stuck, dead, broken or choked for ever, and the cache converges all
the same, because a book nobody renews is too old to be copied after `Fresh`. There is one
exception. A `tick_size_change` renews the age of a book without telling anything of its
levels (`local_order_book.py:126-133`), so `FairSpec` excludes one case: that ticks change
without end on a connection that chokes (the moves of the model are bounded, its ticks are
not). Without this TLC finds the run in which the pump for ever puts a wrong book over
REST's. Section 11 has what it means for the code.

## 10. `Consensus`

`consensus_tracker.py` for one session: `RecordBooks` in `run_cycle`, `Feed` in the
strategy, which samples the same books again and may prune them, `Save`, `SaveFails`,
`CycleStops` (the cycle raises), `Reload` (a new process, from the file or without it),
`Tick`. Two buckets, window and
memory of 2, series of 3, three samples asked for. `TwapIsPointwise` holds the average
against a reference definition, the price in force at each instant; `ThinHistoryRefused`
says what the double sampling costs; `VerdictSurvivesRestart`; `AbandonedBucketFalls`
under weak fairness of the cycle (`FairTracker`). The specification is `TrackerSpec`; its
names differ from those of `MetarCadence` because one proof module extends both.

## 11. Where code and documentation differ

One run shows a violation (`bought_twice`). The other disagreements met while modelling are
in the models as the code has them, and are described here.

- *Cap on open positions.* `max_open_positions` is at the top level of every configuration,
  the strategy is handed the `strategy` section (`_r_cycle.py:1486`): its cap is 0, which is
  none. `open_cap` and `OpenRowsWithinCap` are about the key where the code reads it.
- *Fires.* `docs/ARCHITECTURE.md:78` promises one fire per session key and day; code and
  docstring say two. A fire is saved at the end of its cycle (`runner_impl.py:74`): a live
  fire before a crash is forgotten, and the session can fire twice more.
- *Jump.* Jumps count listed buckets (`reversal_strategy.py:533`, `market_adapter.py:82`):
  where one is not listed, a break of two counts as one.
- *Port.* Limits and environment are those of the first creation (`port.py:653-654`); a gate
  that closes in mid-window does not stop the window; the band is checked on the cached ask.
- *Smoke run.* "Never raises" (`smoke.py:558`) does not hold while the audit log is down; the
  last return of `await_no_open_orders` has no `note`, which `smoke.py:791` reads; the rescue
  looks for the planned price (`smoke.py:286`), the order has the clamped one.
- *METAR.* `docs/ARCHITECTURE.md:72` has the fresher of the two sources win; in
  `dual_source_metar` CheckWX's report stands however old it is, as its docstring says, and
  the AWC is asked only for what CheckWX left out. The early pull asks only for stations
  without a last-good report (`_r_cycle.py:1368`, against 1361-1365); a full pull that answers in part replaces the map
  of all (1338, against 1343); one that fails is retried every cycle (against 1327-1329) and
  keeps the pull of the armed stations from running (1353).
- *Books.* The pump's docstring (`_r_cycle.py:383-385`) has only newer copies win; the copy is
  stamped with the time of copying, so every copy wins. A token whose answer has no level
  keeps its old entry (361-362).
- *Choked connections.* The transport has REST as "the correctness backbone"
  (`market_ws_transport.py:36-38`) and wants a frozen feed to show in `last_event_at`
  (39-40). But a pong advances `last_event_at` (500), and nothing but the status of
  `ws_bridge.py:99` reads it; and every event of a token, a change behind a gap or of the
  tick included, renews the age of its local book, which the pump then puts over REST's
  answer. A choked token with traffic shows a wrong book until it falls silent for five
  seconds, the venue sends a book, or the connection is replaced.
- *Capital at stake.* `max_capital_usdc` is the "cap on committed capital"
  (`risk_gate.py:66`), and what is committed is mark value (63), without positions worth 0.1
  or less (`v2_transport.py:378`): what positions lose is free to be spent again, and a position
  near zero frees its place under `max_open_positions`. `SpendsWithinLimits` has the bound
  that is left.
- *Sleeves.* "one sleeve entry per session, tracked on state (survives restart)"
  (`_r_cycle.py:577-578`). An entry of a cycle that raises is in no file: after a restart it
  has no row and no record, and the session may enter again. A live sleeve bought so is in no
  position.
- *Transport.* A sleep that turns negative ends the thread (`market_ws_transport.py:588`);
  the first back-off is the second of the 5/10/30 seconds the docstring gives (571, 582), and
  the attempt counter is never reset.
- *Consensus.* `_r_globals.py:9` has none of the process-local objects serialized and names
  the tracker first; `save_state` saves it (`_r_state.py:272-277`) and `tracker` reads it back
  (`_r_globals.py:74-83`), and `VerdictSurvivesRestart` is about that. It is saved beside the
  state file, wherever `state_path` puts it, and read from the constant
  `data/yes2re_consensus.json`: the same file in the shipped configuration, which the model
  takes; under another `state_path` a restart starts from another history, or none.
  Each cycle samples twice, so `min_samples` of 8 is reached in four cycles; a
  favourite without an ask is not sampled and drops out. No watched token is ever set, so
  the wake of the runner's sleep (`runner_impl.py:88`) never comes.

## 12. Proofs

Every theorem holds for every value of the constants that meets the module's `ASSUME`s
(which TLC evaluates in each run) and, where the table says so, one hypothesis more.

| module | theorem | states | hypothesis |
|---|---|---|---|
| `ReversalRunner_proofs` | `TypeCorrect` | `TypeOK` | |
| | `NoThirdFire` | `AtMostTwoFires` | `MaxEdits = 0` |
| | `OpenPositionsKeepMarkers` | `MarkerGuardsPosition` | `MaxEdits = 0` |
| | `NoArmedAfterFire` | `ArmedMeansUnfired` | `MaxEdits = 0` |
| | `RunnerImplementsLifecycle` | `ImplementsLifecycle` | `MaxEdits = 0` |
| | `RowsHoldTwoFires` | `RowHoldsTwoFires` | |
| | `OneYesAtATime` | `OneHeldYes` | |
| | `TwoFiresTwoStamps` | `OneFirePerObservation` | `MaxEdits = 0` |
| | `SecondFireGoesFurther` | `RefireGoesFurther` | `MaxEdits = 0` |
| | `OpenRowsWithinCap` | `OpenWithinCap` | |
| | `LedgerIsTheLegs` | `LedgerMatchesLegs` | `MaxEdits = 0`, no bid above `Payout` |
| `FireWindow_proofs` | `WindowTypeCorrect` | `TypeOK` | |
| | `NoFillIsLost` | `FillsBookedOrFlagged` | |
| | `NoRestingSurprise` | `RestingIsFlagged` | |
| | `WindowSpendsItsNotional` | `SpendWithinBudget` | |
| | `LedgerIsToldEnough` | `LedgerCoversFills` | |
| | `PaperTakesWhatIsQuoted` | `PaperFillsQuotedDepth` | |
| `SmokeOrder_proofs` | `SmokeTypeCorrect` | `TypeOK` | |
| | `CleanMeansClean` | `CleanRunLeavesNothing` | |
| | `RestingOrderIsReported` | `PlannedRestingIsReported` | |
| | `RescueKeepsToScope` | `OnlyOwnScope` | |
| | `PostsKeepRules` | `PostsWithinRules` | |
| `Histories_proofs`: `MetarCadence` | `CadenceTypeCorrect` | `TypeOK` | |
| | `DecidesOnWhatIsKept` | `SeenIsRemembered` | |
| | `ArmedIsNeverStale` | `ArmedIsAskedFor` | |
| | `PullsEraseNothing` | `JitterErasesNothing` | |
| `Histories_proofs`: `Consensus` | `TrackerTypeCorrect` | `TrackerTypeOK` | |
| | `AverageIsPointwise` | `TwapIsPointwise` | |
| | `SolidHasHistory` | `ThinHistoryRefused` | |
| | `RestartKeepsVerdict` | `VerdictSurvivesRestart` | |
| `SleeveLifecycle_proofs` | `SleeveLedgerIsItsRows` | `SleeveCashAccounted` | |
| | `SleeveWithinCapital` | the debit stays within the capital | |
| | `OpenRowStaysGuarded` | `OpenRowIsGuarded` | |
| | `EntrySparesLiveRows` | `NoLiveRowLost` | |
| | `SignalNeedsAMove` | `SignalIsAMove` | |
| | `SleeveTypeCorrect` | `TypeOK` | |
| `BookFeed_proofs` | `NoTokenFallsBetween` | `SubscriptionCovers` | |
| | `BooksFollowTheVenue` | `InSyncWhenQuiet` | |
| `EnginePort_proofs` | `LocksBindEveryWindow` | `KillSwitchBinds` | |
| | `NoClientWithoutPreflight` | `DeniedLeavesNoClient` | |
| | `NothingSentOnCorruptBand` | `CorruptBandStandsDown` | |
| | `PortTypeCorrect` | `TypeOK` | |
| | `SpendsNoMoreThanItsLimits` | `SpendsWithinLimits` | |

Two assumptions are there for the proofs: `FiniteContracts` (the registry is a file) and
`NoneIsNoRow` (the value that stands for a missing row is no row). `MaxEdits = 0` is needed
where it stands: the properties fail under an edit (section 3). A bid is at most a dollar,
which is what a share redeems.

### The inductive invariants

**`ReversalRunner`.** A crash puts the file in the place of the memory, so every invariant is
a predicate of a state file, held both by `Memory` and by `disk`. `AtMostTwoFires` is not
inductive: nothing in it stops a marker from vanishing while its record of fires stays.
`IInv` ties the two together: a session with fires on record has the marker of that number
as long as its date is not over, and once it is over the date guard never feeds the session
again; a marker is dropped only for a dead date and never under an open row; an armed
session has no marker.

`RowInv` is about one row and needs nothing of the registry: one YES is held at most; a row
whose marker says `one` carries the YES of one fire; a row whose marker counts no fire
belongs to a session that is neither armed nor ever armed, because prune unarms what it
unmarks and a lock is never armed. That last conjunct is what an edit of the registry cannot
break. `HistoryInv` adds to both the stamp of the last fire and the bucket it bought:
`last_fire_obs` is the stamp of the one fire on record, and the YES still held after one fire
is the one it bought, which is what `refire_target_index` looks at. `CapInv` counts rows; its
step lemma is that a fire adds at most the row of its own session. `LedgerInv` states that
debit and legs balance, in both files, as the difference of two cardinalities: of the filled
legs, and of the pairs of a leg and a unit it has paid back; every step adds to or takes
from these sets what it adds to or takes from the debit.

The refinement goes action by action: a rollover maps the stages of the old date to `over`
in the same step as the clock moves, and prune's cleaning of those sessions is a stutter.
`SessionLifecycle` also knows the stage the state file has. `saved` maps to the stage read off
`disk` instead of `Memory`, a save of either kind is `Save`, a crash is `Restart`, and no other
step touches the file but the rollover, which ends the sessions there too. So the theorem says
what a crash may take back: what happened since the last save, and nothing else.

**`FireWindow`.** `FillsBookedOrFlagged` speaks only of the moments when no order is in
flight. `IInv` says what holds in between: places of the ladder the window has not reached
hold no order; an order that has not been closed has bought nothing, on a leg outside
`RestsPartly`; a live order not reported as at risk is the one in flight; and the booked
shares are those of the orders that are neither at risk nor in flight. `MoneyInv` adds the
money: what the orders without risk may cost is within the notional *less what is left to
buy at the cap*, which a price better than the limit keeps true although it buys more
shares; and the ledger is told a cost of at least what these orders took. `PaperInv` holds
booked shares, cost and the rest of each ladder against the ladder at the opening.
`WindowInv` is the case distinction over the port of the window.

`PaperMatch` is a fold over the asks. `FoldFacts` makes folds reachable: that a fold over a
sequence has the recursive equation of its definition, that the sum over a sequence is
that of its steps, is monotone, and is the same for sequences with the same values. The
library's induction theorems take operators as parameters; `SetInduction` states natural
induction with a set in the place of the predicate, from a theorem on finite sets, and the
recursion of `FoldLeft` is then that of a function of the naturals. The walk itself is an
induction on the level: what is taken and what is left of the first `i` levels come to what
was quoted there, in shares and in money.

**`SmokeOrder`.** `IInv`: nothing is sent before the submit; the selected token is one; an
order exists only with a plan; and a report is called clean only for an order seen
cancelled with nothing bought. `RulesInv` carries the checks of the earlier steps to the
submit (gates, the risk gate, the limits on the plan), where `PostsKeepRules` multiplies
the clamped price by the planned size.

**`MetarCadence`.** From the fast pull on, `seen = last`. No station has waited longer than
the stamp of the armed pull is old; outside armed sessions nobody waits; a cycle that
pulled the universe has asked everybody; and past the fast pull an interval that is still
over means that the armed ones have just been asked.

**`SleeveLifecycle`.** `Sound` is a predicate of a state record that every part of a cycle
takes and returns, so each part has one lemma and `Decide` is their composition. It holds of
the memory and of the file, since a restart puts one in the place of the other; beside it
stands that the file counts no more entries than the memory, which is what
`EntrySparesLiveRows` needs of a restart that takes an open row away.
`RingInv` says that every series of the ring is one of points whose ages do not grow towards
the end. Then the times held in a look-back are not negative, and an average lies between
the least and the greatest price it weighs (`TotalAtMost`, `TotalAtLeast`): were every price
of the long look-back within the drop of every price of the short, so would be the averages.

**`Consensus`.** `HistoryInv`, of the memory and of the file: ages do not grow towards the
end, and a sample younger than what is kept is strictly older than *the one after the next*
(`Paced`), because a cycle records twice at most and time passes between cycles. `Paced`
needs a conjunct for the moment between the two recordings (`OneNow`: no sample but the last
is of this instant) and a bound on what it speaks of, since ages stop counting past it. The
last conjunct is that after a save or a reload memory and file agree on what is kept; it
survives time because pruning, ageing and pruning again is ageing and pruning
(`PruneOfAged`), for a restart may come long after the save. `SolidHasHistory` maps every
second sample to its age, one to one. `AverageIsPointwise` walks the samples from the
oldest: the times held so far and the prices in force so far are both sums down to the age
of the next sample, and on the stretch between two samples the price in force is constant
(`SumOfStretch`). `RestartKeepsVerdict` rests on a shorter look-back not seeing what a longer
one dropped (`RecentOfRecent`).

**`BookFeed`.** `Subscribed`: tokens with a book but no subscription exist only in the moments
between a new socket and its subscription, or inside a widening. `FeedInv`: per token of a
healthy connection, the last message on its way (or half applied, or applied) has the
venue's moves; before the first change there is a baseline; and a book with nothing on its
way is the venue's. It is stated for the tokens served and not choked. A token leaves
`choked` only with a book on its way that has the venue's moves (`MendedFollows`), which
puts it under the invariant at once. `InSyncWhenQuiet` is its case of an empty pipe.

**`EnginePort`.** A window that has begun began behind all gates, and a client exists only
after a preflight that let the window through (`LocksInv`).

`SpendInv` is about sums over the positions. What the engine was told a window spent,
with what is left of its legs' parts, stays within the budget (`OneWindow`, `Cleared`), so
the window an account may lack is worth a budget at the most; the preflight finds room for
one more budget beside what it reads; and an order moves its cost from what is left to what
is spent, which leaves the sum that was cleared as it was. Costs the engine was not told
stay out of these sums, as they do in the property. Positions are counted apart for this
window and the rest: the rest was under the limit at the preflight, up to the legs of the
window the account lacked. What the account shows below cost or not at all goes into `lost`
at the preflight, once, and stays there for the window: cost is at most value and loss, a
count at most the tokens shown and those that are not. The last position alone may be of this window (`Ordered`), and
that is why a purchase changes one value of each row. `FoldFacts` has what the totals need:
a sum of pointwise sums, with one value changed, or with one taken out (a position that is
resolved).

### Only model-checked

- Liveness (`ArmedCoolsDown`, `PositionsSettle`, `WindowEnds`, `EveryReportIsRead`,
  `SleeveEnds`, `CacheConverges`, `AbandonedBucketFalls`): fairness and `ENABLED` are out of
  the prover's reach.
- `NeverBuysTwice`, which is violated.

## 13. Not modelled

Equity valuation (reporting), the paper simulator (scenarios over the strategy), the
supervisor and the analysis scripts (no state that decides a trade), HTTP, JSON and
METAR/TAF text parsing, websocket framing, EIP-712 signing and credentials, sizing and
rounding of shares, log rotation. That the outputs of one module are the inputs of another
(the books of `BookFeed`, the observations of `MetarCadence`, the verdict of `Consensus`,
the window of `FireWindow` inside a fire) is by construction: each module takes its inputs
as any value the other could give, and no run composes them.
