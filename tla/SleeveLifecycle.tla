--------------------------- MODULE SleeveLifecycle ----------------------------
(***************************************************************************)
(* The pre-breach sleeve of one session in _r_cycle: each cycle feeds the  *)
(* price ring, may enter a small buy of the neighbour's YES, then expires  *)
(* and sweeps sleeves, then settles.  A record in the state's "sleeves"    *)
(* says what became of the entry; a row in "positions", under a key of its *)
(* own, holds the shares.                                                  *)
(*                                                                         *)
(* A cycle runs on one thread: it reads the books, then decides and ends   *)
(* by saving the state, so its decisions are one step.  A cycle that       *)
(* raises keeps the memory it has changed and skips the save; a process    *)
(* that dies is back at what was saved last, with an empty ring.           *)
(***************************************************************************)
EXTENDS PriceRing

CONSTANTS
    Quotes,         \* the best asks of the buckets that a cycle may read; 0 for none
    Bids,           \* the best bids of a sleeve's token; 0 for none
    Steps,          \* the time from one cycle to the next; 0 is less than a second
    Timeout,        \* sleeve_timeout_s
    Budget,         \* fire_budget_usdc times sleeve_notional_pct
    Capital,        \* the paper capital
    Payout,         \* what a winning share redeems: one dollar
    Entries         \* bound: entries of the session

ASSUME SleeveAssumption ==
    /\ Quotes \subseteq [Buckets -> Nat] /\ Bids \subseteq Nat /\ Steps \subseteq Nat
    /\ {Timeout, Budget, Capital, Payout, Entries} \subseteq Nat \ {0}

VARIABLES
    ring,       \* per bucket, the points of its YES token
    asks,       \* per bucket, the best ask the cycle has read
    reading,    \* a cycle has read its books and not yet acted on them
    today,      \* the market's date is the city's local date
    fired,      \* the session's marker in "fired"
    rec, age,   \* the sleeve record's status, and the time since the entry
    row,        \* the position "<session>#sleeve"
    debit,      \* paper_total_debit_usdc
    past,       \* history: how many entries, and the net cost of rows since overwritten
    file        \* the state file: these six, as they were saved last

NoAsks == [b \in Buckets |-> 0]

market == <<ring, asks>>
state  == <<fired, rec, age, row, debit, past>>
vars   == <<market, reading, today, state, file>>

Statuses == {"none", "open", "no_fill", "validated_by_breach", "expired",
             "expired_no_position", "expired_no_leg"}
NoRow == [st |-> "none", shares |-> 0, cost |-> 0, paid |-> 0]

Memory == [fired |-> fired, rec |-> rec, age |-> age, row |-> row, debit |-> debit, past |-> past]

TypeOK ==
    /\ \A b \in Buckets : /\ ring[b] \in Seq(Point) /\ Len(ring[b]) <= MaxLen
                          /\ \A i \in DOMAIN ring[b] : ring[b][i].age <= Window
                          /\ \A i, j \in DOMAIN ring[b] : i < j => ring[b][i].age >= ring[b][j].age
    /\ asks \in Quotes \cup {NoAsks}
    /\ {reading, today} \subseteq BOOLEAN
    /\ {Memory, file} \subseteq
         [fired : BOOLEAN, rec : Statuses, age : 0 .. Timeout,
          row : [st : {"none", "open", "settled"}, shares : Nat, cost : Nat, paid : Nat],
          debit : {d \in Int : d <= Capital}, past : [entries : 0 .. Entries, erased : Int]]

-----------------------------------------------------------------------------
(* The parts of a cycle, on a memory m with the fields of "state" *)

Net(r) == r.cost - r.paid

\* _enter_sleeve: a window on the neighbour's YES.  It may fill nothing and is a row all
\* the same; a port that refuses, or a ledger that cannot pay, is "no_fill"; an exception
\* leaves no trace.
Fills(px) == {n \in 0 .. Budget \div px : n * px <= Budget}
EnterUnpaid(m, px) ==           \* mutant: the ledger is not charged
    { [m EXCEPT !.rec = "open", !.age = 0,
                !.row = [st |-> "open", shares |-> n, cost |-> n * px, paid |-> 0],
                !.past = [entries |-> @.entries + 1, erased |-> @.erased + Net(m.row)]]
      : n \in Fills(px) }
Enter(m, px) ==
    { [m EXCEPT !.rec = "open", !.age = 0,
                !.row = [st |-> "open", shares |-> n, cost |-> n * px, paid |-> 0],
                !.debit = @ + n * px,
                !.past = [entries |-> @.entries + 1, erased |-> @.erased + Net(m.row)]]
      : n \in {f \in Fills(px) : f * px <= Capital - m.debit} }
    \cup { [m EXCEPT !.rec = "no_fill"], m }

\* _sleeve_enter_ok: the session has no record.
EnterWhileExpired(m) == m.rec \in {"none", "expired_no_leg"}    \* mutant: and no live leg
EnterOk(m) == m.rec = "none"

\* _sleeve_tick, for a rule of the local today, on the books of the cycle.
Signalled == {r \in Buckets : Signal(r, ring, asks)}
Ticked(m) ==
    IF today /\ ~m.fired /\ EnterOk(m) /\ m.past.entries < Entries /\ Signalled # {}
    THEN UNION {Enter(m, asks[Neighbour(r)]) : r \in Signalled}
    ELSE {m}

\* The reversal of the session fires, or its marker is pruned once the date has passed.
Breached(m) == {m} \cup {[m EXCEPT !.fired = today]}

\* _expire_stale_sleeves, the first loop: what an open record becomes.  A leg with shares
\* is sold at its best bid, or written off where there is none.
ExpiredIfBid(m, bid) ==         \* mutant: no bid, no close
    IF m.rec # "open" \/ bid = 0 THEN m
    ELSE IF m.fired THEN [m EXCEPT !.rec = "validated_by_breach"] ELSE m
Expired(m, bid) ==
    IF m.rec # "open" THEN m
    ELSE IF m.fired THEN [m EXCEPT !.rec = "validated_by_breach"]
    ELSE IF m.age < Timeout THEN m
    ELSE IF m.row.st # "open" THEN [m EXCEPT !.rec = "expired_no_position"]
    ELSE IF m.row.shares = 0 THEN [m EXCEPT !.rec = "expired_no_leg"]
    ELSE [m EXCEPT !.rec = "expired", !.debit = @ - bid * m.row.shares,
                   !.row = [@ EXCEPT !.st = "settled", !.paid = bid * m.row.shares]]

\* The second loop: a closed record goes once its row is settled or gone.
SweptEarly(m) ==                \* mutant: whatever became of its row
    IF m.rec \in {"open", "no_fill", "expired_no_position"} THEN m
    ELSE [m EXCEPT !.rec = "none", !.age = 0]
Swept(m) ==
    IF m.rec \in {"none", "open", "no_fill", "expired_no_position"} \/ m.row.st = "open" THEN m
    ELSE [m EXCEPT !.rec = "none", !.age = 0]

\* settle_markets, when the bucket's market has resolved: a leg still open is redeemed.
Settled(m, won) ==
    IF m.row.st # "open" THEN m
    ELSE LET pay == IF won THEN Payout * m.row.shares ELSE 0
         IN  [m EXCEPT !.debit = @ - pay, !.row = [@ EXCEPT !.st = "settled", !.paid = pay]]

-----------------------------------------------------------------------------
(* Cycles *)

Init ==
    /\ ring = [b \in Buckets |-> <<>>] /\ asks = NoAsks
    /\ reading = FALSE /\ today = TRUE /\ fired = FALSE
    /\ rec = "none" /\ age = 0 /\ row = NoRow /\ debit = 0
    /\ past = [entries |-> 0, erased |-> 0] /\ file = Memory

\* update_rings_from_books, once for each rule of the local today.
Feed(a, dt) ==
    [b \in Buckets |-> LET s == Older(ring[b], dt) IN IF today THEN Record(s, a[b]) ELSE s]

Becomes(m) ==
    /\ fired' = m.fired /\ rec' = m.rec /\ age' = m.age
    /\ row' = m.row /\ debit' = m.debit /\ past' = m.past

\* An open record knows when it was entered, in the file as well.
Later(m, dt) == IF m.rec = "open" THEN [m EXCEPT !.age = Min({@ + dt, Timeout})] ELSE m

\* A cycle starts, dt after the one before: the books are read and the ring fed.
Books(dt) ==
    /\ ~reading /\ reading' = TRUE
    /\ \E a \in Quotes : asks' = a /\ ring' = Feed(a, dt)
    /\ Becomes(Later(Memory, dt)) /\ file' = Later(file, dt)
    /\ UNCHANGED today

\* Settlement has its own pace, and a market resolves only after its day.
Resolutions(m) == {m} \cup (IF today THEN {} ELSE {Settled(m, won) : won \in BOOLEAN})

\* The rest of the cycle: the tick, the reversal, the expiry and sweep, settlement; and
\* then the save.
Closed(m, bid) == UNION {Resolutions(Swept(Expired(m2, bid))) : m2 \in Breached(m)}
Decide ==
    /\ reading /\ reading' = FALSE
    /\ \E bid \in Bids, m1 \in Ticked(Memory) :
          \E m \in Closed(m1, bid) : Becomes(m) /\ file' = m
    /\ asks' = NoAsks /\ UNCHANGED <<ring, today>>

\* Something raises after the tick, after the reversal, or as late as in the save: the
\* runner keeps the memory as it is and goes on, and the file stays as it was.
CycleError ==
    /\ reading /\ reading' = FALSE
    /\ \E bid \in Bids, m1 \in Ticked(Memory) :
          \E m \in Breached(m1) \cup Closed(m1, bid) : Becomes(m)
    /\ asks' = NoAsks /\ UNCHANGED <<ring, today, file>>

\* The process dies, in a cycle or between two, and starts again from the file.
Crash ==
    /\ ring' = [b \in Buckets |-> <<>>] /\ asks' = NoAsks
    /\ reading' = FALSE
    /\ Becomes(file) /\ UNCHANGED <<today, file>>

Midnight == today /\ today' = FALSE /\ UNCHANGED <<market, reading, state, file>>

Next == (\E dt \in Steps : Books(dt)) \/ Decide \/ CycleError \/ Crash \/ Midnight
Spec == Init /\ [][Next]_vars
\* The runner sleeps between its cycles, and cycles that end well keep coming.
FairSpec == Spec /\ SF_vars(\E dt \in Steps \ {0} : Books(dt)) /\ SF_vars(Decide)

-----------------------------------------------------------------------------
(* Properties *)

\* The row and the cash move together: the debit is the net cost of the sleeve's rows, the
\* overwritten ones included, so that no exit is paid twice and no row escapes the ledger.
SleeveCashAccounted == debit = Net(row) + past.erased

\* Shares that are not settled are always under a record that will time them out or
\* leave them to settlement.
OpenRowIsGuarded ==
    /\ row.st = "open" => rec \notin {"none", "no_fill", "expired", "expired_no_position"}
    /\ row.st = "open" /\ row.shares > 0 => rec \in {"open", "validated_by_breach"}

\* A new sleeve never takes the place of a row that is not settled.  Only a restart takes
\* an open row away, and only that of an entry no save has kept: its cycle raised.
NoLiveRowLost ==
    [][row.st = "open" =>
         \/ past'.entries = past.entries /\ row'.st # "none"
         \/ past.entries > file.past.entries /\ Memory' = file]_vars

\* The signal is a move of the market, not of the averaging: a quote of the favourite
\* within the long look-back was at least Drop above one within the short, and one of the
\* neighbour at least Rise below.
Moved(low, high, by) == \E p \in Range(low), q \in Range(high) : q.px >= p.px + by
SignalIsAMove ==
    \A r \in Signalled :
        LET n == Neighbour(r)
        IN  /\ Moved(LookBack(ring[r], Short), LookBack(ring[r], Long), Drop)
            /\ Moved(LookBack(ring[n], Long), LookBack(ring[n], Short), Rise)

\* An open sleeve does not stay open: the session fires, or the sleeve times out.
SleeveEnds == rec = "open" ~> rec # "open"
=============================================================================
