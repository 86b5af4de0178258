------------------------- MODULE SleeveLifecycle_proofs -------------------------
(***************************************************************************)
(* The cash, the record and the row of a sleeve, for every value of the    *)
(* constants of SleeveLifecycle: any quotes, paces, budgets and capital,   *)
(* any number of crashes and failed cycles.  And what the averages of the  *)
(* price ring say of the quotes: a signal is a move, whatever the samples. *)
(***************************************************************************)
EXTENDS SleeveLifecycle, FoldFacts

-----------------------------------------------------------------------------
(* The inductive invariant, on the memory of a cycle and on that between    *)
(* two of its steps.                                                        *)

Rows   == [st : {"none", "open", "settled"}, shares : Nat, cost : Nat, paid : Nat]
Pasts  == [entries : 0 .. Entries, erased : Int]
Saved  == [fired : BOOLEAN, rec : Statuses, age : 0 .. Timeout, row : Rows, debit : Int, past : Pasts]

\* The ledger has paid for the rows and no more than the capital; a row that is open is
\* under a record that has not been closed, or only because the row holds no share, and has
\* been paid nothing yet; and there is a row from the first entry on.
Sound(m) ==
    /\ m \in Saved
    /\ m.debit = Net(m.row) + m.past.erased /\ m.debit <= Capital
    /\ m.row.st = "open" =>
          m.row.paid = 0 /\ m.rec \notin {"none", "no_fill", "expired", "expired_no_position"}
    /\ m.row.st = "open" /\ m.row.shares > 0 => m.rec \in {"open", "validated_by_breach"}
    /\ m.row.st = "none" <=> m.past.entries = 0

\* A step that enters no sleeve, and leaves a row where there is one.
KeepsRow(m, n) == n.past = m.past /\ (m.row.st # "none" => n.row.st # "none")

\* The file is as sound as the memory, and may lag behind its entries: a cycle that raised
\* has not saved them.
IInv ==
    /\ asks \in [Buckets -> Nat]
    /\ Sound(Memory) /\ Sound(file) /\ file.past.entries <= Memory.past.entries

LEMMA SleeveInit == Init => IInv
<1> SUFFICES ASSUME Init PROVE IInv
  OBVIOUS
<1>1. asks \in [Buckets -> Nat] /\ Capital \in Nat
  BY SleeveAssumption DEF Init, NoAsks
<1>2. Memory \in Saved
  <2>0. 0 \in 0 .. Timeout /\ 0 \in 0 .. Entries
    BY SleeveAssumption
  <2>1. NoRow \in Rows /\ past \in Pasts
    BY <2>0 DEF Init, NoRow, Rows, Pasts
  <2>2. Memory = [fired |-> FALSE, rec |-> "none", age |-> 0, row |-> NoRow, debit |-> 0,
                  past |-> past]
    BY DEF Init, Memory
  <2> QED
    BY <2>0, <2>1, <2>2 DEF Saved, Statuses
<1>3. /\ Memory.row.st = "none" /\ Memory.debit = 0
      /\ Memory.row.cost = 0 /\ Memory.row.paid = 0
      /\ Memory.past.erased = 0 /\ Memory.past.entries = 0 /\ file = Memory
  BY DEF Init, Memory, NoRow
<1> HIDE DEF Memory
<1>4. Sound(Memory)
  BY <1>1, <1>2, <1>3 DEF Sound, Net
<1> QED
  BY <1>1, <1>3, <1>4 DEF IInv

-----------------------------------------------------------------------------
(* The parts of a cycle *)

LEMMA ProductIsNat == \A a, b \in Nat : a * b \in Nat
  OBVIOUS

\* A session without a record has no row open, so that an entry overwrites none.
LEMMA EnterSound ==
    ASSUME NEW m, Sound(m), m.rec = "none", m.past.entries < Entries,
           NEW px \in Nat \ {0}, NEW n \in Enter(m, px)
    PROVE  Sound(n) /\ m.row.st # "open" /\ m.past.entries <= n.past.entries
<1>1. m \in Saved /\ m.row.st # "open"
  BY DEF Sound
<1>2. CASE n = m \/ n = [m EXCEPT !.rec = "no_fill"]
  <2>1. Sound(n) /\ n.past = m.past
    BY <1>1, <1>2 DEF Sound, Saved, Statuses, Net
  <2>2. m.past.entries \in Int
    BY <1>1 DEF Saved, Pasts
  <2> QED
    BY <1>1, <2>1, <2>2
<1>3. ASSUME NEW f \in Fills(px), f * px <= Capital - m.debit,
             n = [m EXCEPT !.rec = "open", !.age = 0,
                           !.row = [st |-> "open", shares |-> f, cost |-> f * px, paid |-> 0],
                           !.debit = @ + f * px,
                           !.past = [entries |-> @.entries + 1, erased |-> @.erased + Net(m.row)]]
      PROVE  Sound(n) /\ m.past.entries <= n.past.entries
  <2> DEFINE c == f * px
             r == [st |-> "open", shares |-> f, cost |-> c, paid |-> 0]
             p == [entries |-> m.past.entries + 1, erased |-> m.past.erased + Net(m.row)]
  <2>1. Budget \div px \in Int
    BY SleeveAssumption
  <2>2. f \in Nat
    BY <2>1 DEF Fills
  <2>3. c \in Nat
    BY <2>2, ProductIsNat
  <2>4. c <= Capital - m.debit
    BY <1>3
  <2> HIDE DEF c
  <2>5. m.row \in Rows /\ m.past \in Pasts /\ m.debit \in Int /\ m.fired \in BOOLEAN
    BY <1>1 DEF Saved
  <2>6. Net(m.row) \in Int /\ m.past.erased \in Int
    BY <2>5 DEF Rows, Pasts, Net
  <2>13. /\ m.past.entries + 1 \in 0 .. Entries /\ 0 \in 0 .. Timeout
         /\ m.past.entries + 1 # 0 /\ m.past.entries <= m.past.entries + 1
    BY <2>5, SleeveAssumption DEF Pasts
  <2>7. /\ r \in Rows /\ p \in Pasts
        /\ r.st = "open" /\ r.paid = 0 /\ Net(r) = c /\ p.erased = m.past.erased + Net(m.row)
        /\ p.entries # 0 /\ m.past.entries <= p.entries
    BY <2>2, <2>3, <2>6, <2>13 DEF Rows, Pasts, Net
  <2>8. m.debit = Net(m.row) + m.past.erased
    BY DEF Sound
  <2> HIDE DEF r, p
  <2>9. n = [fired |-> m.fired, rec |-> "open", age |-> 0, row |-> r,
             debit |-> m.debit + c, past |-> p]
    BY <1>1, <1>3 DEF Saved, r, p, c
  <2>10. n \in Saved
    BY <2>3, <2>5, <2>7, <2>9, <2>13 DEF Saved, Statuses
  <2>11. n.debit = Net(n.row) + n.past.erased
    BY <2>3, <2>5, <2>6, <2>7, <2>8, <2>9
  <2>12. n.debit <= Capital
    BY <2>3, <2>4, <2>5, <2>9, SleeveAssumption
  <2> QED
    BY <1>1, <2>7, <2>9, <2>10, <2>11, <2>12 DEF Sound
<1> QED
  BY <1>1, <1>2, <1>3 DEF Enter

\* The tick enters at the ask of the cycle, on a session without a record.
LEMMA TickedSound ==
    ASSUME NEW m, Sound(m), asks \in [Buckets -> Nat], NEW n \in Ticked(m)
    PROVE  Sound(n) /\ (m.row.st = "open" => n = m) /\ m.past.entries <= n.past.entries
<1>1. CASE n = m
  <2>1. m.past.entries \in Int
    BY DEF Sound, Saved, Pasts
  <2> QED
    BY <1>1, <2>1
<1>2. ASSUME EnterOk(m), m.past.entries < Entries, NEW r \in Signalled, n \in Enter(m, asks[Neighbour(r)])
      PROVE  Sound(n) /\ (m.row.st = "open" => n = m) /\ m.past.entries <= n.past.entries
  <2>1. asks[Neighbour(r)] \in Nat \ {0}
    BY RingAssumption DEF Signalled, Signal
  <2> QED
    BY <1>2, <2>1, EnterSound DEF EnterOk
<1> QED
  BY <1>1, <1>2 DEF Ticked

LEMMA BreachedSound ==
    ASSUME NEW m, Sound(m), today \in BOOLEAN, NEW n \in Breached(m)
    PROVE  Sound(n) /\ KeepsRow(m, n)
<1>1. n = m \/ n = [m EXCEPT !.fired = today]
  BY DEF Breached
<1> QED
  BY <1>1 DEF Sound, KeepsRow, Saved, Net

LEMMA PaidRow ==
    ASSUME NEW r \in Rows, NEW pay
    PROVE  [r EXCEPT !.st = "settled", !.paid = pay]
             = [st |-> "settled", shares |-> r.shares, cost |-> r.cost, paid |-> pay]
<1>1. [r EXCEPT !.st = "settled"]
        = [st |-> "settled", shares |-> r.shares, cost |-> r.cost, paid |-> r.paid]
  BY DEF Rows
<1>2. [[st |-> "settled", shares |-> r.shares, cost |-> r.cost, paid |-> r.paid]
          EXCEPT !.paid = pay]
        = [st |-> "settled", shares |-> r.shares, cost |-> r.cost, paid |-> pay]
  OBVIOUS
<1> QED
  BY <1>1, <1>2, Zenon

\* A row that closes pays the ledger what it is paid.
LEMMA PaidSound ==
    ASSUME NEW m, Sound(m), m.row.st = "open", NEW pay \in Nat, NEW status \in Statuses,
           NEW n, n = [fired |-> m.fired, rec |-> status, age |-> m.age,
                       row |-> [m.row EXCEPT !.st = "settled", !.paid = pay],
                       debit |-> m.debit - pay, past |-> m.past]
    PROVE  Sound(n) /\ KeepsRow(m, n)
<1> DEFINE r == [m.row EXCEPT !.st = "settled", !.paid = pay]
<1>1. m \in Saved /\ m.row \in Rows /\ m.past \in Pasts /\ m.debit \in Int
  BY DEF Sound, Saved
<1>2. r = [st |-> "settled", shares |-> m.row.shares, cost |-> m.row.cost, paid |-> pay]
  BY <1>1, PaidRow
<1>3. r \in Rows /\ r.st = "settled" /\ r.cost = m.row.cost /\ r.paid = pay
  BY <1>1, <1>2 DEF Rows
<1>4. m.debit = m.row.cost + m.past.erased /\ m.debit <= Capital /\ m.row.cost \in Nat
  BY <1>1 DEF Sound, Net, Rows
<1> HIDE DEF r
<1>5. n = [fired |-> m.fired, rec |-> status, age |-> m.age, row |-> r,
           debit |-> m.debit - pay, past |-> m.past]
  BY DEF r
<1>6. n \in Saved
  BY <1>1, <1>3, <1>5 DEF Saved
<1>7. n.row = r /\ n.debit = m.debit - pay /\ n.past = m.past
  BY <1>5
<1>8. Net(r) = m.row.cost - pay /\ m.past.erased \in Int
  BY <1>1, <1>3 DEF Net, Pasts
<1>9. n.debit = Net(n.row) + n.past.erased /\ n.debit <= Capital
  <2>1. Net(n.row) = m.row.cost - pay /\ n.past.erased = m.past.erased
    BY <1>7, <1>8
  <2>2. Capital \in Nat
    BY SleeveAssumption
  <2> QED
    BY <1>1, <1>4, <1>7, <1>8, <2>1, <2>2
<1> QED
  BY <1>3, <1>6, <1>7, <1>9 DEF Sound, KeepsRow

LEMMA ExpiredSound ==
    ASSUME NEW m, Sound(m), NEW bid \in Nat
    PROVE  Sound(Expired(m, bid)) /\ KeepsRow(m, Expired(m, bid))
<1> DEFINE n == Expired(m, bid)
<1>1. m \in Saved
  BY DEF Sound
<1>2. CASE n = m
  BY <1>2 DEF KeepsRow
<1>3. ASSUME m.rec = "open", NEW status \in Statuses, n = [m EXCEPT !.rec = status],
             \/ status = "validated_by_breach"
             \/ status = "expired_no_position" /\ m.row.st # "open"
             \/ status = "expired_no_leg" /\ m.row.shares = 0
      PROVE  Sound(n) /\ KeepsRow(m, n)
  BY <1>1, <1>3 DEF Sound, KeepsRow, Saved, Rows
<1>4. ASSUME m.row.st = "open",
             n = [m EXCEPT !.rec = "expired", !.debit = @ - bid * m.row.shares,
                           !.row = [@ EXCEPT !.st = "settled", !.paid = bid * m.row.shares]]
      PROVE  Sound(n) /\ KeepsRow(m, n)
  <2> DEFINE pay == bid * m.row.shares
  <2>1. pay \in Nat
    BY <1>1, ProductIsNat DEF Saved, Rows
  <2> HIDE DEF pay
  <2>2. n = [m EXCEPT !.rec = "expired", !.debit = @ - pay,
                      !.row = [@ EXCEPT !.st = "settled", !.paid = pay]]
    BY <1>4 DEF pay
  <2>3. n = [fired |-> m.fired, rec |-> "expired", age |-> m.age,
             row |-> [m.row EXCEPT !.st = "settled", !.paid = pay],
             debit |-> m.debit - pay, past |-> m.past]
    BY <1>1, <2>2 DEF Saved
  <2> HIDE DEF n
  <2> QED
    BY <1>4, <2>1, <2>3, PaidSound DEF Statuses
<1> HIDE DEF n
<1>5. CASE m.rec # "open"
  BY <1>2, <1>5 DEF n, Expired
<1>6. CASE m.rec = "open"
  BY <1>2, <1>3, <1>4, <1>6 DEF n, Expired, Statuses
<1> QED
  BY <1>5, <1>6 DEF n

LEMMA SweptSound ==
    ASSUME NEW m, Sound(m)
    PROVE  Sound(Swept(m)) /\ KeepsRow(m, Swept(m))
<1>1. CASE Swept(m) = m
  BY <1>1 DEF KeepsRow
<1>2. CASE Swept(m) = [m EXCEPT !.rec = "none", !.age = 0] /\ m.row.st # "open"
  <2>1. Swept(m) = [fired |-> m.fired, rec |-> "none", age |-> 0, row |-> m.row,
                    debit |-> m.debit, past |-> m.past]
    BY <1>2 DEF Sound, Saved
  <2>2. Swept(m) \in Saved
    BY <2>1, SleeveAssumption DEF Sound, Saved, Statuses
  <2> QED
    BY <1>2, <2>1, <2>2 DEF Sound, KeepsRow
<1> QED
  BY <1>1, <1>2 DEF Swept

LEMMA SettledSound ==
    ASSUME NEW m, Sound(m), NEW won \in BOOLEAN
    PROVE  Sound(Settled(m, won)) /\ KeepsRow(m, Settled(m, won))
<1>1. m \in Saved
  BY DEF Sound
<1>2. CASE m.row.st # "open"
  BY <1>2 DEF Settled, KeepsRow
<1>3. CASE m.row.st = "open"
  <2> DEFINE pay == IF won THEN Payout * m.row.shares ELSE 0
  <2>1. pay \in Nat
    BY <1>1, ProductIsNat, SleeveAssumption DEF Saved, Rows
  <2> HIDE DEF pay
  <2>2. Settled(m, won) = [m EXCEPT !.debit = @ - pay,
                                    !.row = [@ EXCEPT !.st = "settled", !.paid = pay]]
    BY <1>3 DEF Settled, pay
  <2>3. Settled(m, won) = [fired |-> m.fired, rec |-> m.rec, age |-> m.age,
             row |-> [m.row EXCEPT !.st = "settled", !.paid = pay],
             debit |-> m.debit - pay, past |-> m.past]
    BY <1>1, <2>2 DEF Saved
  <2>4. m.rec \in Statuses
    BY <1>1 DEF Saved
  <2> QED
    BY <1>3, <2>1, <2>3, <2>4, PaidSound
<1> QED
  BY <1>2, <1>3

-----------------------------------------------------------------------------
(* The steps *)

LEMMA MinOfTwo ==
    ASSUME NEW a \in Nat, NEW b \in Nat
    PROVE  Min({a, b}) \in {a, b} /\ Min({a, b}) <= b
<1>1. \E x \in {a, b} : \A y \in {a, b} : x <= y
  OBVIOUS
<1> QED
  BY <1>1 DEF Min

\* The memory of a cycle that has decided.
LEMMA BecomesMemory ==
    ASSUME NEW m \in Saved, Becomes(m)
    PROVE  Memory' = m
  BY DEF Becomes, Memory, Saved

\* Whatever a cycle does, it expires, sweeps and redeems from a sound memory.
LEMMA ClosedSound ==
    ASSUME NEW m, Sound(m), today \in BOOLEAN, NEW bid \in Nat, NEW n \in Closed(m, bid)
    PROVE  Sound(n) /\ KeepsRow(m, n)
<1>1. PICK m2 \in Breached(m) : n \in Resolutions(Swept(Expired(m2, bid)))
  BY DEF Closed
<1> DEFINE m3 == Expired(m2, bid)
           m4 == Swept(m3)
<1>2. n \in Resolutions(m4)
  BY <1>1
<1>3. Sound(m2) /\ KeepsRow(m, m2)
  BY BreachedSound
<1>4. Sound(m3) /\ KeepsRow(m2, m3)
  BY <1>3, ExpiredSound
<1> HIDE DEF m3
<1>5. Sound(m4) /\ KeepsRow(m3, m4)
  BY <1>4, SweptSound
<1> HIDE DEF m4
<1>6. n = m4 \/ \E won \in BOOLEAN : n = Settled(m4, won)
  BY <1>2 DEF Resolutions
<1>7. Sound(n) /\ KeepsRow(m4, n)
  BY <1>5, <1>6, SettledSound DEF KeepsRow
<1> QED
  BY <1>3, <1>4, <1>5, <1>7 DEF KeepsRow

\* A cycle, however far it gets, leaves a sound memory, and an open row where it was.
LEMMA CycleSound ==
    ASSUME IInv, today \in BOOLEAN, NEW bid \in Bids, NEW m1 \in Ticked(Memory),
           NEW m \in Breached(m1) \cup Closed(m1, bid)
    PROVE  /\ Sound(m) /\ Memory.past.entries <= m.past.entries
           /\ Memory.row.st = "open" => KeepsRow(Memory, m)
<1>1. Sound(Memory) /\ asks \in [Buckets -> Nat]
  BY DEF IInv
<1> HIDE DEF Memory
<1>2. /\ Sound(m1) /\ Memory.past.entries <= m1.past.entries
      /\ Memory.row.st = "open" => m1 = Memory
  BY <1>1, TickedSound
<1>3. bid \in Nat
  BY SleeveAssumption
<1>4. Sound(m) /\ KeepsRow(m1, m)
  BY <1>2, <1>3, BreachedSound, ClosedSound
<1> QED
  BY <1>2, <1>4 DEF KeepsRow

LEMMA DecideSound ==
    ASSUME IInv, today \in BOOLEAN, Decide \/ CycleError
    PROVE  /\ IInv'
           /\ Memory.row.st = "open" => KeepsRow(Memory, Memory')
<1>1. PICK bid \in Bids, m1 \in Ticked(Memory) :
        \E m \in Breached(m1) \cup Closed(m1, bid) : Becomes(m) /\ file' \in {m, file}
  BY DEF Decide, CycleError
<1>2. PICK m \in Breached(m1) \cup Closed(m1, bid) : Becomes(m) /\ file' \in {m, file}
  BY <1>1
<1>3. /\ Sound(m) /\ Memory.past.entries <= m.past.entries
      /\ Memory.row.st = "open" => KeepsRow(Memory, m)
  BY CycleSound
<1>4. Memory' = m
  BY <1>2, <1>3, BecomesMemory DEF Sound
<1>5. asks' \in [Buckets -> Nat]
  BY DEF Decide, CycleError, NoAsks
<1>6. Sound(Memory) /\ Sound(file) /\ file.past.entries <= Memory.past.entries
  BY DEF IInv
<1> HIDE DEF Memory
<1>7. {Memory.past.entries, file.past.entries, m.past.entries} \subseteq Int
  BY <1>3, <1>6 DEF Sound, Saved, Pasts
<1>8. file' = m \/ file' = file
  BY <1>2
<1>9. file'.past.entries <= m.past.entries /\ Sound(file)'
  BY <1>3, <1>6, <1>7, <1>8
<1> QED
  BY <1>3, <1>4, <1>5, <1>9 DEF IInv

\* A step that leaves memory and file alone keeps the invariant.
LEMMA IdleSound ==
    ASSUME IInv, UNCHANGED <<state, file>>, asks' \in {asks, NoAsks}
    PROVE  IInv' /\ KeepsRow(Memory, Memory')
<1>1. Memory' = Memory /\ file' = file
  BY DEF state, Memory
<1>2. asks' \in [Buckets -> Nat]
  BY DEF IInv, NoAsks
<1> HIDE DEF Memory
<1> QED
  BY <1>1, <1>2 DEF IInv, KeepsRow

\* A record that gets older.
LEMMA LaterSound ==
    ASSUME NEW m, Sound(m), NEW dt \in Nat
    PROVE  Sound(Later(m, dt)) /\ KeepsRow(m, Later(m, dt))
<1>1. m \in Saved
  BY DEF Sound
<1>2. CASE m.rec # "open"
  BY <1>2 DEF Later, KeepsRow
<1>3. CASE m.rec = "open"
  <2>1. m.age \in 0 .. Timeout /\ Timeout \in Nat
    BY <1>1, SleeveAssumption DEF Saved
  <2>2. PICK a \in Nat : a = m.age + dt
    BY <2>1
  <2>3. PICK b \in 0 .. Timeout : b = Min({a, Timeout})
    BY <2>1, MinOfTwo
  <2>4. Later(m, dt) = [m EXCEPT !.age = b]
    BY <1>3, <2>2, <2>3 DEF Later
  <2> QED
    BY <1>1, <2>3, <2>4 DEF Sound, Saved, KeepsRow
<1> QED
  BY <1>2, <1>3

LEMMA BooksSound ==
    ASSUME IInv, NEW dt \in Steps, Books(dt)
    PROVE  /\ IInv'
           /\ Memory.row.st = "open" => KeepsRow(Memory, Memory')
<1>1. asks' \in [Buckets -> Nat] /\ dt \in Nat
  BY SleeveAssumption DEF Books
<1>2. Becomes(Later(Memory, dt)) /\ file' = Later(file, dt)
  BY DEF Books
<1>3. Sound(Memory) /\ Sound(file) /\ file.past.entries <= Memory.past.entries
  BY DEF IInv
<1>4. Sound(Later(Memory, dt)) /\ KeepsRow(Memory, Later(Memory, dt))
  BY <1>1, <1>3, LaterSound
<1>5. Sound(Later(file, dt)) /\ KeepsRow(file, Later(file, dt))
  BY <1>1, <1>3, LaterSound
<1>6. Memory' = Later(Memory, dt)
  BY <1>2, <1>4, BecomesMemory DEF Sound
<1> HIDE DEF Memory
<1>7. Sound(Memory)' /\ Sound(file)' /\ file'.past.entries <= Memory'.past.entries
  BY <1>2, <1>3, <1>4, <1>5, <1>6 DEF KeepsRow
<1> QED
  BY <1>1, <1>4, <1>6, <1>7 DEF IInv

\* A restart brings back the file, which is sound.
LEMMA CrashSound ==
    ASSUME IInv, Crash
    PROVE  IInv' /\ Memory' = file
<1>1. Becomes(file) /\ file' = file /\ Sound(file)
  BY DEF Crash, IInv
<1>2. Memory' = file
  BY <1>1, BecomesMemory DEF Sound
<1>3. asks' \in [Buckets -> Nat] /\ file.past.entries \in Int
  BY <1>1 DEF Crash, NoAsks, Sound, Saved, Pasts
<1> HIDE DEF Memory
<1> QED
  BY <1>1, <1>2, <1>3 DEF IInv

LEMMA SleeveStep ==
    ASSUME IInv /\ today \in BOOLEAN, [Next]_vars
    PROVE  /\ (IInv /\ today \in BOOLEAN)'
           /\ Memory.row.st = "open" => KeepsRow(Memory, Memory') \/ Memory' = file
<1> DEFINE kept == Memory.row.st = "open" => KeepsRow(Memory, Memory') \/ Memory' = file
<1>1. ASSUME NEW dt \in Steps, Books(dt) PROVE IInv' /\ kept
  BY <1>1, BooksSound
<1>2. ASSUME Decide \/ CycleError PROVE IInv' /\ kept
  BY <1>2, DecideSound
<1>3. ASSUME Crash PROVE IInv' /\ kept
  BY <1>3, CrashSound
<1>4. ASSUME Midnight \/ UNCHANGED vars PROVE IInv' /\ kept
  <2>1. UNCHANGED <<state, file>> /\ asks' \in {asks, NoAsks}
    BY <1>4 DEF Midnight, vars, market
  <2> QED
    BY <2>1, IdleSound
<1>5. today' \in BOOLEAN
  BY DEF Next, Books, Decide, CycleError, Crash, Midnight, vars
<1> QED
  BY <1>1, <1>2, <1>3, <1>4, <1>5 DEF Next

LEMMA SleeveSafety == Spec => [](IInv /\ today \in BOOLEAN)
<1>1. Init => IInv /\ today \in BOOLEAN
  BY SleeveInit DEF Init
<1>2. (IInv /\ today \in BOOLEAN) /\ [Next]_vars => (IInv /\ today \in BOOLEAN)'
  BY SleeveStep
<1> QED
  BY <1>1, <1>2, PTL DEF Spec

-----------------------------------------------------------------------------
(* What follows *)

\* What the ledger has paid is the net cost of the session's rows, those a later entry
\* has overwritten included: no exit is paid twice, however expiry, breach, settlement
\* and failed cycles follow each other.
THEOREM SleeveLedgerIsItsRows == Spec => []SleeveCashAccounted
<1>1. IInv => SleeveCashAccounted
  BY DEF IInv, Sound, Memory, SleeveCashAccounted
<1> QED
  BY <1>1, SleeveSafety, PTL

\* Net of what came back from its exits, the sleeve never costs more than the capital.
THEOREM SleeveWithinCapital == Spec => [](debit <= Capital)
<1>1. IInv => debit <= Capital
  BY DEF IInv, Sound, Memory
<1> QED
  BY <1>1, SleeveSafety, PTL

\* No sweep, expiry or refused entry leaves shares without a record that ends them.
THEOREM OpenRowStaysGuarded == Spec => []OpenRowIsGuarded
<1>1. IInv => OpenRowIsGuarded
  BY DEF IInv, Sound, Memory, OpenRowIsGuarded
<1> QED
  BY <1>1, SleeveSafety, PTL

\* A second sleeve of the session, entered after a sweep, overwrites no open row, and no
\* cycle, failed or not, drops one.  A restart takes back at most the entries that no save
\* has kept: an open row the file knows of is there again, open or settled.
THEOREM EntrySparesLiveRows == Spec => NoLiveRowLost
<1>1. IInv /\ today \in BOOLEAN /\ [Next]_vars =>
        (row.st = "open" => \/ past'.entries = past.entries /\ row'.st # "none"
                            \/ past.entries > file.past.entries /\ Memory' = file)
  <2> SUFFICES ASSUME IInv, today \in BOOLEAN, [Next]_vars, row.st = "open"
               PROVE  \/ past'.entries = past.entries /\ row'.st # "none"
                      \/ past.entries > file.past.entries /\ Memory' = file
    OBVIOUS
  <2>1. /\ Memory.row = row /\ Memory.past = past
        /\ Memory'.row = row' /\ Memory'.past = past'
    BY DEF Memory
  <2>2. KeepsRow(Memory, Memory') \/ Memory' = file
    BY <2>1, SleeveStep
  <2>3. CASE KeepsRow(Memory, Memory')
    BY <2>1, <2>3 DEF KeepsRow
  <2>4. CASE Memory' = file
    <3>1. /\ past.entries \in Int /\ file.past.entries \in Int /\ past.entries # 0
          /\ file.past.entries <= past.entries
          /\ file.row.st = "none" <=> file.past.entries = 0
      BY <2>1 DEF IInv, Sound, Saved, Pasts
    <3> QED
      BY <2>1, <2>4, <3>1
  <2> QED
    BY <2>2, <2>3, <2>4
<1> QED
  BY <1>1, SleeveSafety, PTL DEF Spec, NoLiveRowLost

-----------------------------------------------------------------------------
(* The price ring *)

\* A ring's series: not too long, not too old, from the oldest point to the last.
SeriesOk(s) ==
    /\ s \in Seq(Point) /\ Len(s) <= MaxLen /\ Aging(s)
    /\ \A i \in 1 .. Len(s) : s[i].age <= Window
RingInv == \A b \in Buckets : SeriesOk(ring[b])

LEMMA PointFields ==
    ASSUME NEW s \in Seq(Point)
    PROVE  /\ Len(s) \in Nat /\ DOMAIN s = 1 .. Len(s)
           /\ \A i \in 1 .. Len(s) : s[i] \in Point /\ s[i].age \in Nat /\ s[i].px \in Nat \ {0}
<1>1. Len(s) \in Nat /\ DOMAIN s = 1 .. Len(s) /\ \A i \in 1 .. Len(s) : s[i] \in Point
  BY LenProperties, ElementOfSeq
<1> QED
  BY <1>1 DEF Point

\* Time leaves a series one.
LEMMA OlderOk ==
    ASSUME NEW s, SeriesOk(s), NEW dt \in Nat
    PROVE  SeriesOk(Older(s, dt))
<1> DEFINE t == [i \in DOMAIN s |-> [age |-> s[i].age + dt, px |-> s[i].px]]
<1>1. /\ s \in Seq(Point) /\ Len(s) <= MaxLen /\ Aging(s) /\ Len(s) \in Nat
      /\ DOMAIN s = 1 .. Len(s)
      /\ \A i \in 1 .. Len(s) : s[i] \in Point /\ s[i].age \in Nat /\ s[i].px \in Nat \ {0}
  BY PointFields DEF SeriesOk
<1>2. \A i \in 1 .. Len(s) : t[i].age = s[i].age + dt
  BY <1>1
<1>3. t \in Seq(Point) /\ Len(t) = Len(s)
  <2>1. \A i \in 1 .. Len(s) : [age |-> s[i].age + dt, px |-> s[i].px] \in Point
    BY <1>1 DEF Point
  <2> QED
    BY <1>1, <2>1
<1> HIDE DEF t
<1>4. Aging(t)
  <2>1. ASSUME NEW i \in 1 .. Len(s) PROVE t[i].age \in Nat
    <3>1. s[i].age \in Nat /\ t[i].age = s[i].age + dt
      BY <1>1, <1>2
    <3> QED
      BY <3>1
  <2>2. ASSUME NEW i \in 1 .. Len(s), NEW j \in 1 .. Len(s), i < j
        PROVE  t[i].age >= t[j].age
    <3>1. /\ s[i].age \in Nat /\ t[i].age = s[i].age + dt
          /\ s[j].age \in Nat /\ t[j].age = s[j].age + dt
      BY <1>1, <1>2
    <3>2. s[i].age >= s[j].age
      BY <1>1, <2>2 DEF Aging
    <3> QED
      BY <3>1, <3>2
  <2> QED
    BY <1>3, <2>1, <2>2 DEF Aging
<1>5. /\ Recent(t, Window) \in Seq(Point) /\ Aging(Recent(t, Window))
      /\ Len(Recent(t, Window)) <= Len(t)
      /\ \A i \in 1 .. Len(Recent(t, Window)) : Recent(t, Window)[i].age <= Window
  BY <1>3, <1>4, RecentAging, RingAssumption
<1>6. Len(Recent(t, Window)) <= MaxLen
  <2>1. Len(Recent(t, Window)) \in Nat
    BY <1>5, LenProperties
  <2> QED
    BY <1>1, <1>3, <1>5, <2>1, RingAssumption
<1>7. Older(s, dt) = Recent(t, Window)
  BY DEF Older, t
<1> QED
  BY <1>5, <1>6, <1>7 DEF SeriesOk

\* So does a point, which is the youngest.
LEMMA RecordOk ==
    ASSUME NEW s, SeriesOk(s), NEW ask \in Nat
    PROVE  SeriesOk(Record(s, ask))
<1> DEFINE p == [age |-> 0, px |-> ask]
           t == Append(s, p)
<1>0. Window \in Nat \ {0} /\ MaxLen \in Nat \ {0}
  BY RingAssumption
<1>1. /\ s \in Seq(Point) /\ Len(s) <= MaxLen /\ Aging(s) /\ Len(s) \in Nat
      /\ \A i \in 1 .. Len(s) : s[i].age \in Nat /\ s[i].age <= Window
      /\ \A i, j \in 1 .. Len(s) : i < j => s[i].age >= s[j].age
  BY PointFields DEF SeriesOk, Aging
<1>2. CASE ask = 0
  BY <1>2 DEF Record
<1>3. CASE ask # 0
  <2>1. p \in Point /\ p.age = 0
    BY <1>3 DEF Point
  <2>2. /\ t \in Seq(Point) /\ Len(t) = Len(s) + 1 /\ t[Len(s) + 1] = p
        /\ \A i \in 1 .. Len(s) : t[i] = s[i]
    BY <1>1, <2>1
  <2>3. /\ \A i \in 1 .. Len(t) : t[i].age \in Nat /\ t[i].age <= Window
        /\ \A i, j \in 1 .. Len(t) : i < j => t[i].age >= t[j].age
    <3>1. \A i \in 1 .. Len(t) : i = Len(s) + 1 \/ i \in 1 .. Len(s)
      BY <1>1, <2>2
    <3>2. \A i \in 1 .. Len(t) : t[i].age \in Nat /\ t[i].age <= Window
      BY <1>0, <1>1, <2>1, <2>2, <3>1
    <3>3. ASSUME NEW i \in 1 .. Len(t), NEW j \in 1 .. Len(t), i < j
          PROVE  t[i].age >= t[j].age
      <4>1. CASE j = Len(s) + 1
        BY <2>1, <2>2, <3>2, <4>1
      <4>2. CASE j \in 1 .. Len(s)
        <5>1. i \in 1 .. Len(s)
          BY <1>1, <3>3, <4>2
        <5> QED
          BY <1>1, <2>2, <3>3, <4>2, <5>1
      <4> QED
        BY <3>1, <4>1, <4>2
    <3> QED
      BY <3>2, <3>3
  <2> HIDE DEF t
  <2>4. SeriesOk(Kept(t))
    <3>1. CASE Len(t) > MaxLen
      <4>1. t # <<>>
        BY <1>1, <2>2
      <4>2. /\ Tail(t) \in Seq(Point) /\ Len(Tail(t)) = Len(s)
            /\ \A i \in 1 .. Len(s) : Tail(t)[i] = t[i + 1]
        <5>1. /\ Tail(t) \in Seq(Point) /\ Len(Tail(t)) = Len(t) - 1
              /\ \A i \in 1 .. Len(Tail(t)) : Tail(t)[i] = t[i + 1]
          BY <2>2, <4>1, HeadTailProperties
        <5>2. Len(t) - 1 = Len(s)
          BY <1>1, <2>2
        <5> QED
          BY <5>1, <5>2
      <4>3. \A i, j \in 1 .. Len(s) : /\ i + 1 \in 1 .. Len(t) /\ j + 1 \in 1 .. Len(t)
                                      /\ i < j => i + 1 < j + 1
        BY <1>1, <2>2
      <4>4. \A i \in 1 .. Len(s) : Tail(t)[i].age \in Nat /\ Tail(t)[i].age <= Window
        BY <2>3, <4>2, <4>3
      <4>5. \A i, j \in 1 .. Len(s) : i < j => Tail(t)[i].age >= Tail(t)[j].age
        BY <2>3, <4>2, <4>3
      <4> QED
        BY <1>1, <3>1, <4>2, <4>4, <4>5 DEF Kept, SeriesOk, Aging
    <3>2. CASE ~(Len(t) > MaxLen)
      <4>1. Len(t) <= MaxLen
        BY <1>0, <1>1, <2>2, <3>2
      <4> QED
        BY <2>2, <2>3, <3>2, <4>1 DEF Kept, SeriesOk, Aging
    <3> QED
      BY <3>1, <3>2
  <2> QED
    BY <2>4 DEF Record, t
<1> QED
  BY <1>2, <1>3

LEMMA NoPointsOk == SeriesOk(<<>>)
<1>1. <<>> \in Seq(Point) /\ Len(<<>>) = 0
  OBVIOUS
<1> QED
  BY <1>1, RingAssumption DEF SeriesOk, Aging

LEMMA RingStep == RingInv /\ [Next]_vars => RingInv'
<1> SUFFICES ASSUME RingInv, [Next]_vars PROVE RingInv'
  OBVIOUS
<1>1. CASE ring' = ring
  BY <1>1 DEF RingInv
<1>2. CASE Crash
  BY <1>2, NoPointsOk DEF Crash, RingInv
<1>3. ASSUME NEW dt \in Steps, NEW a \in Quotes, ring' = Feed(a, dt)
      PROVE  RingInv'
  <2>1. ASSUME NEW b \in Buckets PROVE SeriesOk(ring'[b])
    <3>1. dt \in Nat /\ a[b] \in Nat
      BY <1>3, SleeveAssumption
    <3>2. SeriesOk(Older(ring[b], dt))
      BY <3>1, OlderOk DEF RingInv
    <3>3. SeriesOk(Record(Older(ring[b], dt), a[b]))
      BY <3>1, <3>2, RecordOk
    <3>4. ring'[b] = Older(ring[b], dt) \/ ring'[b] = Record(Older(ring[b], dt), a[b])
      BY <1>3 DEF Feed
    <3> QED
      BY <3>2, <3>3, <3>4
  <2> QED
    BY <2>1 DEF RingInv
<1> QED
  BY <1>1, <1>2, <1>3 DEF Next, Books, Decide, CycleError, Midnight, vars, market

LEMMA RingSafety == Spec => []RingInv
<1>1. Init => RingInv
  BY NoPointsOk DEF Init, RingInv
<1> QED
  BY <1>1, RingStep, PTL DEF Spec

-----------------------------------------------------------------------------
(* Averages *)

\* The time a point held is no less than nothing.
LEMMA HeldType ==
    ASSUME NEW s \in Seq(Point), Aging(s), NEW w \in Nat, NEW i \in 1 .. Len(s)
    PROVE  Held(s, i, w) \in Nat
<1>1. Len(s) \in Nat /\ \A j \in 1 .. Len(s) : s[j].age \in Nat
  BY PointFields
<1>2. CASE i < Len(s)
  <2>1. i + 1 \in 1 .. Len(s) /\ i < i + 1
    BY <1>1, <1>2
  <2>2. s[i].age \in Nat /\ s[i + 1].age \in Nat /\ s[i].age >= s[i + 1].age
    BY <2>1 DEF Aging
  <2> QED
    BY <1>2, <2>2 DEF Held
<1>3. CASE ~(i < Len(s))
  <2>1. Min({s[i].age, w}) \in {s[i].age, w}
    BY <1>1, MinOfTwo
  <2> QED
    BY <1>1, <1>3, <2>1 DEF Held
<1> QED
  BY <1>2, <1>3

LEMMA AverageRows ==
    ASSUME NEW s \in Seq(Point), Aging(s), NEW w \in Nat
    PROVE  /\ IsRow(Times(s, w), Len(s)) /\ Total(Times(s, w)) \in Nat
           /\ IsRow(Weighted(s, w), Len(s)) /\ Total(Weighted(s, w)) \in Nat
           /\ \A i \in 1 .. Len(s) : /\ Times(s, w)[i] \in Nat
                                     /\ Weighted(s, w)[i] = s[i].px * Times(s, w)[i]
<1>1. Len(s) \in Nat /\ DOMAIN s = 1 .. Len(s) /\ \A i \in 1 .. Len(s) : s[i].px \in Nat
  BY PointFields
<1>2. DOMAIN Times(s, w) = 1 .. Len(s) /\ DOMAIN Weighted(s, w) = 1 .. Len(s)
  BY <1>1 DEF Times, Weighted
<1>3. ASSUME NEW i \in 1 .. Len(s)
      PROVE  /\ Times(s, w)[i] \in Nat /\ Weighted(s, w)[i] \in Nat
             /\ Weighted(s, w)[i] = s[i].px * Times(s, w)[i]
  <2>1. PICK h \in Nat : h = Held(s, i, w)
    BY HeldType
  <2>2. PICK p \in Nat : p = s[i].px
    BY <1>1
  <2>3. Times(s, w)[i] = h /\ Weighted(s, w)[i] = p * h
    BY <1>1, <2>1, <2>2 DEF Times, Weighted
  <2> QED
    BY <2>2, <2>3, ProductIsNat
<1>4. IsRow(Times(s, w), Len(s)) /\ Total(Times(s, w)) \in Nat
  BY <1>1, <1>2, <1>3, TotalNat
<1>5. IsRow(Weighted(s, w), Len(s)) /\ Total(Weighted(s, w)) \in Nat
  BY <1>1, <1>2, <1>3, TotalNat
<1> QED
  BY <1>3, <1>4, <1>5

\* An average is no higher, and no lower, than the prices it is made of.
LEMMA AverageAtMost ==
    ASSUME NEW s \in Seq(Point), Aging(s), NEW w \in Nat, NEW hi \in Int,
           \A i \in 1 .. Len(s) : s[i].px <= hi
    PROVE  Total(Weighted(s, w)) <= hi * Total(Times(s, w))
<1>1. \A p, h \in Nat : p <= hi => p * h <= hi * h
  OBVIOUS
<1>2. ASSUME NEW i \in 1 .. Len(s) PROVE Weighted(s, w)[i] <= hi * Times(s, w)[i]
  <2>1. PICK p \in Nat, h \in Nat : p = s[i].px /\ h = Times(s, w)[i]
    BY AverageRows, PointFields
  <2>2. Weighted(s, w)[i] = p * h
    BY <2>1, AverageRows
  <2> QED
    BY <1>1, <2>1, <2>2
<1> QED
  BY <1>2, AverageRows, PointFields, TotalAtMost

LEMMA AverageAtLeast ==
    ASSUME NEW s \in Seq(Point), Aging(s), NEW w \in Nat, NEW lo \in Int,
           \A i \in 1 .. Len(s) : lo <= s[i].px
    PROVE  lo * Total(Times(s, w)) <= Total(Weighted(s, w))
<1>1. \A p, h \in Nat : lo <= p => lo * h <= p * h
  OBVIOUS
<1>2. ASSUME NEW i \in 1 .. Len(s) PROVE lo * Times(s, w)[i] <= Weighted(s, w)[i]
  <2>1. PICK p \in Nat, h \in Nat : p = s[i].px /\ h = Times(s, w)[i]
    BY AverageRows, PointFields
  <2>2. Weighted(s, w)[i] = p * h
    BY <2>1, AverageRows
  <2> QED
    BY <1>1, <2>1, <2>2
<1> QED
  BY <1>2, AverageRows, PointFields, TotalAtLeast

\* Averages n/d of at most hi and m/c of at least lo are no further apart than hi and lo.
LEMMA AveragesApart ==
    ASSUME NEW n \in Int, NEW d \in Nat \ {0}, NEW m \in Int, NEW c \in Nat \ {0},
           NEW hi \in Int, NEW lo \in Int, NEW by \in Int,
           n <= hi * d, lo * c <= m, hi - lo < by
    PROVE  n * c - m * d < by * d * c
<1>1. PICK x \in Nat \ {0} : x = d * c
  <2>1. d * c \in Nat /\ d * c # 0
    OBVIOUS
  <2> QED
    BY <2>1
<1>2. \A a, b \in Int : a <= b => a * c <= b * c /\ a * d <= b * d
  OBVIOUS
<1>3. hi * d \in Int /\ lo * c \in Int
  OBVIOUS
<1>4. n * c <= (hi * d) * c /\ (lo * c) * d <= m * d
  BY <1>2, <1>3
<1>5. (hi * d) * c = hi * x /\ (lo * c) * d = lo * x /\ (by * d) * c = by * x
  <2>1. \A a \in Int : (a * d) * c = a * (d * c) /\ (a * c) * d = a * (d * c)
    OBVIOUS
  <2> QED
    BY <1>1, <2>1
<1>6. hi * x - lo * x < by * x
  <2>1. \A a \in Int : a >= 1 => a * x >= 1
    BY <1>1
  <2>2. by - (hi - lo) \in Int /\ by - (hi - lo) >= 1
    OBVIOUS
  <2>3. (by - (hi - lo)) * x >= 1
    BY <2>1, <2>2
  <2>4. (by - (hi - lo)) * x = by * x - (hi * x - lo * x)
    BY <1>1
  <2>5. by * x \in Int /\ hi * x \in Int /\ lo * x \in Int
    BY <1>1
  <2> QED
    BY <2>3, <2>4, <2>5
<1>7. n * c \in Int /\ m * d \in Int /\ hi * x \in Int /\ lo * x \in Int /\ by * x \in Int
  BY <1>1
<1>8. PICK p \in Int, q \in Int : p = n * c /\ q = m * d
  BY <1>7
<1>9. PICK u \in Int, v \in Int, t \in Int : u = hi * x /\ v = lo * x /\ t = by * x
  BY <1>7
<1>10. p <= u /\ v <= q /\ u - v < t
  BY <1>4, <1>5, <1>6, <1>8, <1>9
<1>11. p - q < t
  BY <1>10
<1> QED
  BY <1>5, <1>8, <1>9, <1>11

\* A series with a point has a point no lower than any.
LEMMA Highest ==
    ASSUME NEW s \in Seq(Point), Len(s) # 0
    PROVE  \E k \in 1 .. Len(s) : \A i \in 1 .. Len(s) : s[i].px <= s[k].px
<1> DEFINE n == Len(s)
           S == {m \in Nat : m + 1 <= n =>
                    \E k \in 1 .. m + 1 : \A i \in 1 .. m + 1 : s[i].px <= s[k].px}
<1>1. n \in Nat \ {0} /\ \A i \in 1 .. n : s[i].px \in Nat
  BY PointFields
<1> HIDE DEF n
<1>2. 0 \in S
  <2>1. \A i \in 1 .. 0 + 1 : i = 1 /\ i \in 1 .. n
    BY <1>1
  <2>2. 1 \in 1 .. 0 + 1 /\ s[1].px <= s[1].px
    BY <1>1
  <2> QED
    BY <2>1, <2>2
<1>3. ASSUME NEW m \in Nat, m \in S PROVE m + 1 \in S
  <2> SUFFICES ASSUME (m + 1) + 1 <= n
               PROVE  \E k \in 1 .. (m + 1) + 1 : \A i \in 1 .. (m + 1) + 1 : s[i].px <= s[k].px
    OBVIOUS
  <2>1. PICK k \in 1 .. m + 1 : \A i \in 1 .. m + 1 : s[i].px <= s[k].px
    BY <1>1, <1>3
  <2> DEFINE l == (m + 1) + 1
  <2>2. /\ l \in 1 .. n /\ l \in 1 .. l /\ k \in 1 .. l /\ s[l].px \in Nat /\ s[k].px \in Nat
        /\ \A i \in 1 .. l : (i = l \/ i \in 1 .. m + 1) /\ s[i].px \in Nat
    BY <1>1
  <2> HIDE DEF l
  <2>3. CASE s[l].px <= s[k].px
    <3>1. \A i \in 1 .. l : s[i].px <= s[k].px
      BY <2>1, <2>2, <2>3
    <3> QED
      BY <2>2, <3>1 DEF l
  <2>4. CASE s[k].px <= s[l].px
    <3>1. \A i \in 1 .. l : s[i].px <= s[l].px
      BY <2>1, <2>2, <2>4
    <3> QED
      BY <2>2, <3>1 DEF l
  <2>5. s[l].px <= s[k].px \/ s[k].px <= s[l].px
    BY <2>2
  <2> QED
    BY <2>3, <2>4, <2>5
<1> HIDE DEF S
<1>4. n - 1 \in S
  <2>1. n - 1 \in Nat
    BY <1>1
  <2> QED
    BY <1>2, <1>3, <2>1, SetInduction
<1> QED
  BY <1>1, <1>4 DEF S, n

LEMMA LookBackAging ==
    ASSUME NEW s \in Seq(Point), Aging(s), NEW w \in Nat
    PROVE  LookBack(s, w) \in Seq(Point) /\ Aging(LookBack(s, w))
<1>1. CASE s # <<>> /\ Last(s).age > w
  <2>1. Last(s) = s[Len(s)] /\ s[Len(s)] \in Point /\ s[Len(s)].age \in Nat
    <3>1. Len(s) \in 1 .. Len(s)
      BY <1>1, EmptySeq
    <3> QED
      BY <3>1, PointFields DEF Last
  <2>2. /\ <<Last(s)>> \in Seq(Point) /\ Len(<<Last(s)>>) = 1
        /\ <<Last(s)>>[1] = Last(s)
    BY <2>1
  <2>3. \A i \in 1 .. 1 : i = 1
    OBVIOUS
  <2>4. \A i, j \in 1 .. 1 : ~(i < j)
    OBVIOUS
  <2>5. Aging(<<Last(s)>>)
    BY <2>1, <2>2, <2>3, <2>4 DEF Aging
  <2> QED
    BY <1>1, <2>2, <2>5 DEF LookBack
<1>2. CASE ~(s # <<>> /\ Last(s).age > w)
  BY <1>2, RecentAging DEF LookBack
<1> QED
  BY <1>1, <1>2

\* An average that lies above another by so much has a price that does.
LEMMA AboveMoved ==
    ASSUME NEW s \in Seq(Point), Aging(s), NEW v \in Nat, NEW w \in Nat, NEW by \in Nat,
           Twap(s, v).den > 0, Twap(s, w).den > 0, Above(Twap(s, v), Twap(s, w), by)
    PROVE  Moved(LookBack(s, w), LookBack(s, v), by)
<1> DEFINE high == LookBack(s, v)
           low == LookBack(s, w)
<1>1. high \in Seq(Point) /\ Aging(high) /\ low \in Seq(Point) /\ Aging(low)
  BY LookBackAging
<1>2. /\ Twap(s, v) = [num |-> Total(Weighted(high, v)), den |-> Total(Times(high, v))]
      /\ Twap(s, w) = [num |-> Total(Weighted(low, w)), den |-> Total(Times(low, w))]
  BY DEF Twap
<1> HIDE DEF high, low
<1>3. SUFFICES ASSUME ~Moved(low, high, by) PROVE FALSE
  BY DEF high, low
<1>4. /\ Len(high) \in Nat /\ DOMAIN high = 1 .. Len(high)
      /\ Len(low) \in Nat /\ DOMAIN low = 1 .. Len(low)
      /\ \A i \in 1 .. Len(high) : high[i].px \in Nat
      /\ \A i \in 1 .. Len(low) : low[i].px \in Nat
  BY <1>1, PointFields
<1>5. \A i \in 1 .. Len(low), j \in 1 .. Len(high) : ~(high[j].px >= low[i].px + by)
  <2>1. \A i \in 1 .. Len(low) : low[i] \in Range(low)
    BY <1>4 DEF Range
  <2>2. \A j \in 1 .. Len(high) : high[j] \in Range(high)
    BY <1>4 DEF Range
  <2> QED
    BY <1>3, <2>1, <2>2 DEF Moved
<1>6. Len(high) # 0
  <2>1. SUFFICES ASSUME Len(high) = 0 PROVE FALSE
    OBVIOUS
  <2>2. Total(Times(high, v)) = 0
    <3>1. DOMAIN Times(high, v) = 1 .. 0 /\ \A i \in 1 .. 0 : Times(high, v)[i] = 0
      BY <1>4, <2>1 DEF Times
    <3>2. 0 \in Nat
      OBVIOUS
    <3> QED
      BY <3>1, <3>2, TotalZero
  <2> QED
    BY <1>2, <2>2
<1>7. PICK k \in 1 .. Len(high) : \A j \in 1 .. Len(high) : high[j].px <= high[k].px
  BY <1>1, <1>6, Highest
<1>8. PICK hi \in Nat : hi = high[k].px
  BY <1>4
<1>9. PICK lo \in Int : lo = hi - by + 1
  OBVIOUS
<1>10. \A j \in 1 .. Len(high) : high[j].px <= hi
  BY <1>7, <1>8
<1>11. ASSUME NEW i \in 1 .. Len(low) PROVE lo <= low[i].px
  <2>1. low[i].px \in Nat /\ ~(hi >= low[i].px + by)
    BY <1>4, <1>5, <1>8
  <2> QED
    BY <1>9, <2>1
<1>12. Total(Weighted(high, v)) <= hi * Total(Times(high, v))
  BY <1>1, <1>10, AverageAtMost
<1>13. lo * Total(Times(low, w)) <= Total(Weighted(low, w))
  BY <1>1, <1>11, AverageAtLeast
<1>14. PICK n \in Nat : n = Total(Weighted(high, v))
  BY <1>1, AverageRows
<1>15. PICK d \in Nat : d = Total(Times(high, v))
  BY <1>1, AverageRows
<1>16. PICK m \in Nat : m = Total(Weighted(low, w))
  BY <1>1, AverageRows
<1>17. PICK c \in Nat : c = Total(Times(low, w))
  BY <1>1, AverageRows
<1>18. d > 0 /\ c > 0 /\ n * c - m * d >= by * d * c
  BY <1>2, <1>14, <1>15, <1>16, <1>17 DEF Above
<1>19. n <= hi * d /\ lo * c <= m
  BY <1>12, <1>13, <1>14, <1>15, <1>16, <1>17
<1>20. n * c - m * d < by * d * c
  <2>1. d \in Nat \ {0} /\ c \in Nat \ {0} /\ hi \in Int /\ by \in Int /\ hi - lo < by
    BY <1>9, <1>18
  <2> QED
    BY <1>19, <2>1, AveragesApart
<1>21. PICK x \in Int, y \in Int, z \in Int : x = n * c /\ y = m * d /\ z = by * d * c
  OBVIOUS
<1> QED
  BY <1>18, <1>20, <1>21

\* The averages weigh each price by how long it stood, and points that fell out of a
\* look-back count for nothing: whatever the pace of the cycles, a signal needs a price
\* that moved.  detect_sleeve_signal on PriceRing.twap.
THEOREM SignalNeedsAMove == Spec => []SignalIsAMove
<1>1. RingInv => SignalIsAMove
  <2> SUFFICES ASSUME RingInv, NEW r \in Signalled, NEW n, n = Neighbour(r)
               PROVE  /\ Moved(LookBack(ring[r], Short), LookBack(ring[r], Long), Drop)
                      /\ Moved(LookBack(ring[n], Long), LookBack(ring[n], Short), Rise)
    BY DEF SignalIsAMove
  <2>1. /\ r \in Buckets /\ n \in Buckets
        /\ Weakened(ring[r]) /\ Strengthened(ring[n])
    BY DEF Signalled, Signal
  <2>2. Short \in Nat /\ Long \in Nat /\ Drop \in Nat /\ Rise \in Nat
    BY RingAssumption
  <2>3. /\ ring[r] \in Seq(Point) /\ Aging(ring[r])
        /\ ring[n] \in Seq(Point) /\ Aging(ring[n])
    BY <2>1 DEF RingInv, SeriesOk
  <2>4. /\ Twap(ring[r], Short).den > 0 /\ Twap(ring[r], Long).den > 0
        /\ Above(Twap(ring[r], Long), Twap(ring[r], Short), Drop)
    BY <2>1 DEF Weakened
  <2>5. /\ Twap(ring[n], Short).den > 0 /\ Twap(ring[n], Long).den > 0
        /\ Above(Twap(ring[n], Short), Twap(ring[n], Long), Rise)
    BY <2>1 DEF Strengthened
  <2>6. Moved(LookBack(ring[r], Short), LookBack(ring[r], Long), Drop)
    BY <2>2, <2>3, <2>4, AboveMoved
  <2>7. Moved(LookBack(ring[n], Long), LookBack(ring[n], Short), Rise)
    BY <2>2, <2>3, <2>5, AboveMoved
  <2> QED
    BY <2>6, <2>7
<1> QED
  BY <1>1, RingSafety, PTL

\* The types, and what bounds the ring and the ages, over any sequence of cycles, failed
\* cycles, crashes and midnights.
THEOREM SleeveTypeCorrect == Spec => []TypeOK
<1>1. /\ Init => {reading, today} \subseteq BOOLEAN /\ asks \in Quotes \cup {NoAsks}
      /\ /\ {reading, today} \subseteq BOOLEAN /\ asks \in Quotes \cup {NoAsks}
         /\ [Next]_vars
         => ({reading, today} \subseteq BOOLEAN /\ asks \in Quotes \cup {NoAsks})'
  BY DEF Init, Next, Books, Decide, CycleError, Crash, Midnight, vars, market
<1>2. Spec => []({reading, today} \subseteq BOOLEAN /\ asks \in Quotes \cup {NoAsks})
  BY <1>1, PTL DEF Spec
<1>3. /\ IInv /\ RingInv
      /\ {reading, today} \subseteq BOOLEAN /\ asks \in Quotes \cup {NoAsks}
      => TypeOK
  <2> SUFFICES ASSUME IInv, RingInv, {reading, today} \subseteq BOOLEAN,
                      asks \in Quotes \cup {NoAsks}
               PROVE  TypeOK
    OBVIOUS
  <2>1. ASSUME NEW b \in Buckets
        PROVE  /\ ring[b] \in Seq(Point) /\ Len(ring[b]) <= MaxLen
               /\ \A i \in DOMAIN ring[b] : ring[b][i].age <= Window
               /\ \A i, j \in DOMAIN ring[b] : i < j => ring[b][i].age >= ring[b][j].age
    BY PointFields DEF RingInv, SeriesOk, Aging
  <2>2. ASSUME NEW m, Sound(m)
        PROVE  m \in [fired : BOOLEAN, rec : Statuses, age : 0 .. Timeout, row : Rows,
                       debit : {d \in Int : d <= Capital}, past : Pasts]
    BY <2>2 DEF Sound, Saved
  <2>3. Sound(Memory) /\ Sound(file)
    BY DEF IInv
  <2> QED
    BY <2>1, <2>2, <2>3 DEF TypeOK, Rows, Pasts
<1> QED
  BY <1>2, <1>3, SleeveSafety, RingSafety, PTL
=============================================================================
