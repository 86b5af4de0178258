--------------------------- MODULE EnginePort_proofs ---------------------------
(***************************************************************************)
(* The locks on the engine's way to real money and the limits on what goes *)
(* through them, for every budget, limit, config, ask, ladder and wallet,  *)
(* and every edit, day, resolution and restart.                            *)
(***************************************************************************)
EXTENDS EnginePort, FoldFacts

\* A window that is going on was let through the gates by a process in live mode; only
\* such a window has sent anything; a client it finds was let through by a preflight; and
\* a leg is sent only where the band is one.
LocksInv ==
    /\ pc \in {"idle", "preflight", "rungs"} /\ client \in BOOLEAN
    /\ cfg.mode = "live" => cfg.optIn
    /\ pc # "idle" => cfg.mode = "live" /\ GatesAllPassed(begun)
    /\ sent # {} => pc = "rungs"
    /\ client /\ pc # "preflight" => allowed
    /\ sent # {} => BandOk

\* A config that a process runs with is live only if the operator has said so.
LEMMA OnlyOptInIsLive == \A c \in Loaded : c.mode = "live" => c.optIn
  BY DEF Loaded, Validated

LEMMA InitLocks == Init => LocksInv
  BY OnlyOptInIsLive DEF Init, LocksInv

\* A fire that gets the port passes the gates now; its client may be that of a window before.
LEMMA GetPortLocks == LocksInv /\ GetPort => LocksInv'
<1> SUFFICES ASSUME LocksInv, GetPort PROVE LocksInv'
  OBVIOUS
<1>1. /\ pc' = "preflight" /\ sent' = {} /\ begun' = Gates
      /\ cfg.mode = "live" /\ GatesAllPassed(Gates)
  BY DEF GetPort, HandedOut
<1>2. cfg' = cfg /\ client' = client
  BY DEF GetPort
<1> QED
  BY <1>1, <1>2 DEF LocksInv, GatesAllPassed

LEMMA PreflightLocks == LocksInv /\ (Preflight \/ Unreadable) => LocksInv'
<1> SUFFICES ASSUME LocksInv, Preflight \/ Unreadable PROVE LocksInv'
  OBVIOUS
<1>1. CASE Preflight
  <2>1. pc = "preflight" /\ sent = {} /\ cfg' = cfg
    BY <1>1 DEF Preflight, LocksInv
  <2>2. \/ client' = FALSE /\ pc' = "idle" /\ sent' = {}
        \/ client' = TRUE /\ allowed' = TRUE /\ pc' = "rungs" /\ sent' = sent /\ begun' = begun
    BY <1>1 DEF Preflight, Deny, Over
  <2>3. GatesAllPassed(begun) /\ cfg.mode = "live"
    BY <2>1 DEF LocksInv
  <2> QED
    BY <2>1, <2>2, <2>3 DEF LocksInv, GatesAllPassed
<1>2. CASE Unreadable
  BY <1>2 DEF Unreadable, Over, LocksInv
<1> QED
  BY <1>1, <1>2

\* A leg is sent only if it takes, which a band that is not one forbids.
LEMMA MatchLocks == LocksInv /\ (Match \/ Close) => LocksInv'
<1> SUFFICES ASSUME LocksInv, Match \/ Close PROVE LocksInv'
  OBVIOUS
<1>1. CASE Match
  <2>1. /\ pc = "rungs" /\ pc' = pc /\ cfg' = cfg /\ client' = client
        /\ begun' = begun /\ allowed' = allowed
    BY <1>1 DEF Match, port
  <2>2. sent' # {} => BandOk
    BY <1>1 DEF Match, Takes, LocksInv
  <2>3. BandOk' = BandOk
    BY <2>1 DEF BandOk, Usable
  <2> QED
    BY <2>1, <2>2, <2>3 DEF LocksInv, GatesAllPassed
<1>2. CASE Close
  BY <1>2 DEF Close, Over, LocksInv, port
<1> QED
  BY <1>1, <1>2

LEMMA AroundLocks == LocksInv /\ (Edit \/ NewDay \/ Resolve \/ UNCHANGED vars) => LocksInv'
  BY DEF LocksInv, Edit, NewDay, Resolve, vars, port, window, GatesAllPassed, BandOk, Usable

LEMMA RestartLocks == LocksInv /\ Restart => LocksInv'
  BY OnlyOptInIsLive DEF LocksInv, Restart, Over

LEMMA StepLocks == LocksInv /\ [Next]_vars => LocksInv'
  BY GetPortLocks, PreflightLocks, MatchLocks, AroundLocks, RestartLocks DEF Next

LEMMA LocksInvariant == Spec => []LocksInv
  BY InitLocks, StepLocks, PTL DEF Spec

\* An order leaves only in a window that began with the three gates open, in a process
\* whose mode the operator chose: get_port and load_config.
THEOREM LocksBindEveryWindow == Spec => []KillSwitchBinds
<1>1. LocksInv => KillSwitchBinds
  BY DEF LocksInv, KillSwitchBinds
<1> QED
  BY <1>1, LocksInvariant, PTL

\* A preflight that fails, for whatever reason, leaves nothing that match could send with.
THEOREM NoClientWithoutPreflight == Spec => []DeniedLeavesNoClient
<1>1. LocksInv => DeniedLeavesNoClient
  BY DEF LocksInv, DeniedLeavesNoClient
<1> QED
  BY <1>1, LocksInvariant, PTL

\* A band that is not one stands both legs down.
THEOREM NothingSentOnCorruptBand == Spec => []CorruptBandStandsDown
<1>1. LocksInv => CorruptBandStandsDown
  BY DEF LocksInv, CorruptBandStandsDown
<1> QED
  BY <1>1, LocksInvariant, PTL

-----------------------------------------------------------------------------
(* The rows of the positions *)

\* What the engine was told it paid; the part of a row that is window c's, and the rest.
Told(s) == [i \in DOMAIN s |-> s[i].cost - s[i].hidden]
Of(s, values, c) == [i \in DOMAIN s |-> IF s[i].w = c THEN values[i] ELSE 0]
Besides(s, values, c) == [i \in DOMAIN s |-> IF s[i].w = c THEN 0 ELSE values[i]]

LEMMA CountIsNat == count \in 1 .. Windows => count \in Nat
  BY PortAssumption

LEMMA PartsType ==
  Len(Parts) \in Nat \ {0} /\ Legs = 1 .. Len(Parts) /\ Parts \in [Legs -> Nat \ {0}]
  BY PortAssumption DEF Legs

LEMMA BudgetType == IsRow(Parts, Len(Parts)) /\ Budget \in Nat
<1>1. /\ Len(Parts) \in Nat /\ DOMAIN Parts = 1 .. Len(Parts)
      /\ \A i \in 1 .. Len(Parts) : Parts[i] \in Nat
  BY PartsType
<1> QED
  BY <1>1, TotalNat DEF Budget

LEMMA LegsCount ==
  ASSUME NEW L \in SUBSET Legs
  PROVE  IsFiniteSet(L) /\ Cardinality(L) \in 0 .. Len(Parts)
<1>1. Len(Parts) \in Nat /\ Legs = 1 .. Len(Parts)
  BY PartsType
<1>2. 1 \in Int /\ Len(Parts) \in Int
  BY <1>1
<1>3. IsFiniteSet(1 .. Len(Parts)) /\ Cardinality(1 .. Len(Parts)) = Len(Parts)
  <2>1. /\ IsFiniteSet(1 .. Len(Parts))
        /\ Cardinality(1 .. Len(Parts)) = IF 1 > Len(Parts) THEN 0 ELSE Len(Parts) - 1 + 1
    BY <1>2, FS_Interval
  <2> QED
    BY <1>1, <2>1
<1>4. IsFiniteSet(L) /\ Cardinality(L) <= Cardinality(1 .. Len(Parts))
  BY <1>1, <1>3, FS_Subset
<1>5. Cardinality(L) \in Nat
  BY <1>4, FS_CardinalityType
<1> QED
  BY <1>1, <1>3, <1>4, <1>5

\* What a held position looks like, in numbers.
LEMMA PositionType ==
  ASSUME NEW s \in Seq(Position), NEW i \in 1 .. Len(s)
  PROVE  /\ s[i].w \in 1 .. Windows /\ s[i].w \in Nat /\ s[i].legs \subseteq Legs
         /\ s[i].cost \in Nat /\ s[i].hidden \in Nat
         /\ Cardinality(s[i].legs) \in 0 .. Len(Parts) /\ Cardinality(s[i].legs) \in Nat
<1>1. s[i] \in Position
  OBVIOUS
<1>2. /\ s[i].w \in 1 .. Windows /\ s[i].legs \in SUBSET Legs
      /\ s[i].cost \in Nat /\ s[i].hidden \in Nat
  BY <1>1 DEF Position
<1>3. s[i].w \in Nat
  BY <1>2, PortAssumption
<1>4. Cardinality(s[i].legs) \in 0 .. Len(Parts) /\ Len(Parts) \in Nat
  BY <1>2, LegsCount, PartsType
<1>5. Cardinality(s[i].legs) \in Nat
  BY <1>4
<1> QED
  BY <1>2, <1>3, <1>4, <1>5

LEMMA RowTypes ==
  ASSUME NEW s \in Seq(Position)
  PROVE  /\ Len(s) \in Nat
         /\ IsRow(Costs(s), Len(s)) /\ IsRow(Hidden(s), Len(s))
         /\ IsRow(Tokens(s), Len(s)) /\ IsRow(Told(s), Len(s))
<1>1. Len(s) \in Nat /\ DOMAIN s = 1 .. Len(s)
  OBVIOUS
<1>2. \A i \in 1 .. Len(s) : /\ s[i].cost \in Nat /\ s[i].hidden \in Nat
                             /\ Cardinality(s[i].legs) \in 0 .. Len(Parts) /\ Len(Parts) \in Nat
  BY PositionType, PartsType
<1> QED
  BY <1>1, <1>2 DEF IsRow, Costs, Hidden, Tokens, Told

LEMMA PartRows ==
  ASSUME NEW s \in Seq(Position), NEW values, IsRow(values, Len(s)), NEW c
  PROVE  IsRow(Of(s, values, c), Len(s)) /\ IsRow(Besides(s, values, c), Len(s))
  BY DEF IsRow, Of, Besides

-----------------------------------------------------------------------------
(* What holds of the spending, inductively *)

\* Only the last position may be of this window, and an order that was answered is known.
OrderedIn(s) ==
    \A i \in DOMAIN s : /\ s[i].hidden <= s[i].cost /\ s[i].w <= count
                        /\ i < Len(s) => s[i].w < count
Ordered == OrderedIn(held)

\* No window spends, to its knowledge, more than its budget, or buys more than its legs.
OneWindow ==
    \A c \in Int : /\ Total(Of(held, Told(held), c)) <= Budget
                   /\ Total(Of(held, Tokens(held), c)) <= Len(Parts)
\* A window starts with its whole budget and nothing bought.
Fresh ==
    /\ pc # "idle" => count > 0
    /\ pc = "preflight" => left = Parts /\ \A i \in DOMAIN held : held[i].w < count
CountSpare == IF Lags THEN Len(Parts) ELSE 0
\* A window that was cleared has room under the limits for what it has not spent yet.
Cleared ==
    pc = "rungs" =>
        /\ Total(Of(held, Told(held), count)) + Total(left) <= Budget
        /\ Total(Told(held)) + Total(left) <= cached.cap + Spare + lost.cost
        /\ Total(Besides(held, Tokens(held), count)) < cached.maxOpen + CountSpare + lost.tokens

SpendInv == TypeOK /\ Ordered /\ OneWindow /\ Fresh /\ Cleared

\* What a purchase makes of the positions: the last one, if it is this window's, or a
\* new one, has the leg and costs more.
LEMMA BoughtIs ==
  ASSUME held \in Seq(Position), count \in 1 .. Windows, NEW l \in Legs, NEW x \in Nat \ {0},
         NEW told \in BOOLEAN
  PROVE  LET n == Len(held)
             s == Bought(l, x, told)
             ours == held # <<>> /\ Last(held).w = count
             m == IF ours THEN n ELSE n + 1
             h == IF told THEN 0 ELSE x
         IN  /\ s \in Seq(Position) /\ Len(s) = m /\ m \in Nat \ {0}
             /\ \A i \in 1 .. m - 1 : s[i] = held[i]
             /\ s[m].w = count
             /\ ours => /\ held[n].w = count
                        /\ s[m].cost = held[n].cost + x
                        /\ s[m].hidden = held[n].hidden + h
             /\ ~ours => /\ s[m].cost = x /\ s[m].hidden = h
                         /\ n > 0 => held[n].w # count
<1> DEFINE n == Len(held)
           s == Bought(l, x, told)
           ours == held # <<>> /\ Last(held).w = count
           h == IF told THEN 0 ELSE x
<1>1. n \in Nat /\ DOMAIN held = 1 .. n /\ (held # <<>> <=> n > 0) /\ h \in Nat
  OBVIOUS
<1>2. CASE ours
  <2> DEFINE p == held[n]
             q == [w |-> count, legs |-> p.legs \cup {l},
                   cost |-> p.cost + x, hidden |-> p.hidden + h]
  <2>1. n > 0 /\ n \in 1 .. n /\ p \in Position /\ p.w = count
    BY <1>1, <1>2 DEF Last
  <2>2. /\ p = [w |-> p.w, legs |-> p.legs, cost |-> p.cost, hidden |-> p.hidden]
        /\ p.w \in 1 .. Windows /\ p.legs \in SUBSET Legs /\ p.cost \in Nat /\ p.hidden \in Nat
    BY <2>1 DEF Position
  <2>3. q \in Position
    BY <1>1, <2>2 DEF Position
  <2>5. s = Append(Front(held), q)
    BY <1>2, <2>1 DEF Bought, Last
  <2>6. Front(held) \in Seq(Position) /\ Len(Front(held)) = n - 1
        /\ \A i \in 1 .. n - 1 : Front(held)[i] = held[i]
    BY <1>1, <2>1 DEF Front
  <2> HIDE DEF q, s
  <2>7. /\ s \in Seq(Position) /\ Len(s) = n /\ s[n] = q
        /\ \A i \in 1 .. n - 1 : s[i] = held[i]
    <3> DEFINE f == Front(held)
    <3> HIDE DEF f, n
    <3>1. /\ f \in Seq(Position) /\ Len(f) = n - 1 /\ s = Append(f, q)
          /\ \A i \in 1 .. n - 1 : f[i] = held[i]
      BY <2>5, <2>6 DEF f
    <3>2. n \in Nat /\ n > 0
      BY <1>1, <2>1
    <3> QED
      BY <2>3, <3>1, <3>2
  <2>8. s[n].w = count /\ s[n].cost = p.cost + x /\ s[n].hidden = p.hidden + h
    BY <2>7 DEF q
  <2> QED
    BY <1>1, <1>2, <2>1, <2>7, <2>8 DEF s
<1>3. CASE ~ours
  <2> DEFINE q == [w |-> count, legs |-> {l}, cost |-> x, hidden |-> h]
  <2>2. q \in Position
    BY <1>1 DEF Position
  <2>3. s = Append(held, q)
    <3>1. {} \cup {l} = {l} /\ 0 + x = x /\ 0 + h = h
      BY <1>1
    <3> QED
      BY <1>3, <3>1 DEF Bought
  <2> HIDE DEF q, s
  <2>4. /\ s \in Seq(Position) /\ Len(s) = n + 1 /\ s[n + 1] = q
        /\ \A i \in 1 .. n : s[i] = held[i]
    BY <1>1, <2>2, <2>3
  <2>5. s[n + 1].w = count /\ s[n + 1].cost = x /\ s[n + 1].hidden = h
    BY <2>4 DEF q
  <2>6. n > 0 => held[n].w # count
    BY <1>1, <1>3 DEF Last
  <2>7. n + 1 \in Nat \ {0} /\ (n + 1) - 1 = n
    BY <1>1
  <2> HIDE DEF n
  <2> QED
    BY <1>3, <2>4, <2>5, <2>6, <2>7 DEF s, n
<1> QED
  BY <1>2, <1>3

\* A row of the positions, before and after: only what it says of the last one changes.
LEMMA TotalTop ==
  ASSUME NEW n \in Nat, NEW m \in Nat \ {0}, NEW ours \in BOOLEAN, m = (IF ours THEN n ELSE n + 1),
         NEW v, NEW w, IsRow(v, m), IsRow(w, n), \A i \in 1 .. m - 1 : v[i] = w[i]
  PROVE  Total(v) = Total(w) + v[m] - (IF ours THEN w[n] ELSE 0)
<1>1. CASE ours
  <2>1. m = n /\ n \in 1 .. n /\ \A i \in 1 .. n : i # n => v[i] = w[i]
    BY <1>1
  <2>2. Total(v) = Total(w) - w[n] + v[n]
    BY <2>1, TotalChanged
  <2>3. Total(w) \in Int /\ w[n] \in Int /\ v[n] \in Int
    BY <2>1, TotalInt DEF IsRow
  <2> QED
    BY <1>1, <2>1, <2>2, <2>3
<1>2. CASE ~ours
  <2>1. m = n + 1 /\ \A i \in 1 .. n : v[i] = w[i]
    BY <1>2
  <2>2. Total(v) = Total(w) + v[n + 1]
    BY <2>1, TotalAppended
  <2>3. Total(w) \in Int /\ v[n + 1] \in Int
    BY <2>1, TotalInt DEF IsRow
  <2> QED
    BY <1>2, <2>1, <2>2, <2>3
<1> QED
  BY <1>1, <1>2

\* What a purchase adds: nothing but its cost and one window's leg.
LEMMA AfterPurchase ==
  ASSUME held \in Seq(Position), count \in 1 .. Windows, Ordered,
         NEW l \in Legs, NEW x \in Nat \ {0}, NEW told \in BOOLEAN
  PROVE  LET s == Bought(l, x, told)
             known == IF told THEN x ELSE 0
         IN  /\ s \in Seq(Position) /\ OrderedIn(s)
             /\ Total(Costs(s)) = Total(Costs(held)) + x
             /\ Total(Told(s)) = Total(Told(held)) + known
             /\ Total(Of(s, Told(s), count)) = Total(Of(held, Told(held), count)) + known
             /\ Total(Of(s, Tokens(s), count)) <= Len(Parts)
             /\ Total(Besides(s, Tokens(s), count)) = Total(Besides(held, Tokens(held), count))
             /\ \A c \in Int : c # count =>
                   /\ Total(Of(s, Told(s), c)) = Total(Of(held, Told(held), c))
                   /\ Total(Of(s, Tokens(s), c)) = Total(Of(held, Tokens(held), c))
<1> DEFINE n == Len(held)
           s == Bought(l, x, told)
           ours == held # <<>> /\ Last(held).w = count
           m == IF ours THEN n ELSE n + 1
           h == IF told THEN 0 ELSE x
           known == IF told THEN x ELSE 0
<1>1. /\ s \in Seq(Position) /\ Len(s) = m /\ m \in Nat \ {0}
      /\ \A i \in 1 .. m - 1 : s[i] = held[i]
      /\ s[m].w = count
      /\ ours => /\ held[n].w = count
                 /\ s[m].cost = held[n].cost + x
                 /\ s[m].hidden = held[n].hidden + h
      /\ ~ours => /\ s[m].cost = x /\ s[m].hidden = h
                  /\ n > 0 => held[n].w # count
  BY BoughtIs
<1>2. /\ n \in Nat /\ DOMAIN held = 1 .. n /\ DOMAIN s = 1 .. m /\ ours \in BOOLEAN
      /\ m = (IF ours THEN n ELSE n + 1) /\ h \in Nat /\ known \in Nat /\ known = x - h /\ h <= x
      /\ Len(s) = m
  BY <1>1
<1>3. ours => n \in 1 .. n
  BY <1>1, <1>2
<1> HIDE DEF s, ours, m, h, known, n
<1>4. IsRow(Costs(held), n) /\ IsRow(Told(held), n) /\ IsRow(Tokens(held), n)
  BY RowTypes DEF n
<1>5. IsRow(Costs(s), m) /\ IsRow(Told(s), m) /\ IsRow(Tokens(s), m)
  BY <1>1, RowTypes
<1>6. \A i \in 1 .. m - 1 : i \in DOMAIN held /\ i \in DOMAIN s
  BY <1>2
<1>7. m \in DOMAIN s /\ m \in 1 .. m
  BY <1>1, <1>2
<1>8. \A i \in 1 .. m - 1 : /\ Costs(s)[i] = Costs(held)[i] /\ Told(s)[i] = Told(held)[i]
                            /\ Tokens(s)[i] = Tokens(held)[i] /\ s[i].w = held[i].w
  BY <1>1, <1>6 DEF Costs, Told, Tokens
<1>9. /\ ours => held[n].cost \in Nat /\ held[n].hidden \in Nat
  BY <1>2, <1>3, PositionType DEF n
<1>10. /\ Costs(s)[m] = (IF ours THEN Costs(held)[n] ELSE 0) + x
       /\ Told(s)[m] = (IF ours THEN Told(held)[n] ELSE 0) + known
  <2>1. Costs(s)[m] = s[m].cost /\ Told(s)[m] = s[m].cost - s[m].hidden
    BY <1>7 DEF Costs, Told
  <2>2. ours => Costs(held)[n] = held[n].cost /\ Told(held)[n] = held[n].cost - held[n].hidden
    BY <1>2, <1>3 DEF Costs, Told
  <2>3. CASE ours
    BY <1>1, <1>2, <1>9, <2>1, <2>2, <2>3
  <2>4. CASE ~ours
    BY <1>1, <1>2, <2>1, <2>4
  <2> QED
    BY <2>3, <2>4
<1>11. Total(Costs(s)) = Total(Costs(held)) + x
  <2>1. Total(Costs(s)) = Total(Costs(held)) + Costs(s)[m] - (IF ours THEN Costs(held)[n] ELSE 0)
    BY <1>1, <1>2, <1>4, <1>5, <1>8, TotalTop
  <2>2. Total(Costs(held)) \in Int /\ (ours => Costs(held)[n] \in Int)
    BY <1>2, <1>3, <1>4, TotalInt DEF IsRow
  <2> QED
    BY <1>10, <2>1, <2>2
<1>12. Total(Told(s)) = Total(Told(held)) + known
  <2>1. Total(Told(s)) = Total(Told(held)) + Told(s)[m] - (IF ours THEN Told(held)[n] ELSE 0)
    BY <1>1, <1>2, <1>4, <1>5, <1>8, TotalTop
  <2>2. Total(Told(held)) \in Int /\ (ours => Told(held)[n] \in Int)
    BY <1>2, <1>3, <1>4, TotalInt DEF IsRow
  <2> QED
    BY <1>2, <1>10, <2>1, <2>2
<1>13. ASSUME NEW c \in Int
       PROVE  /\ Total(Of(s, Told(s), c)) =
                    Total(Of(held, Told(held), c)) + (IF c = count THEN known ELSE 0)
              /\ Total(Of(s, Tokens(s), c)) =
                    Total(Of(held, Tokens(held), c))
                    + (IF c = count THEN Tokens(s)[m] - (IF ours THEN Tokens(held)[n] ELSE 0)
                       ELSE 0)
              /\ Total(Besides(s, Tokens(s), count)) = Total(Besides(held, Tokens(held), count))
  <2> DEFINE a == Of(s, Told(s), c)
             b == Of(held, Told(held), c)
             d == Of(s, Tokens(s), c)
             e == Of(held, Tokens(held), c)
             f == Besides(s, Tokens(s), count)
             g == Besides(held, Tokens(held), count)
  <2>1. /\ IsRow(a, m) /\ IsRow(b, n) /\ IsRow(d, m) /\ IsRow(e, n) /\ IsRow(f, m) /\ IsRow(g, n)
    BY <1>1, <1>2, <1>4, <1>5, PartRows DEF n
  <2>2. \A i \in 1 .. m - 1 : a[i] = b[i] /\ d[i] = e[i] /\ f[i] = g[i]
    BY <1>6, <1>8 DEF Of, Besides
  <2>3. /\ a[m] = (IF c = count THEN Told(s)[m] ELSE 0)
        /\ d[m] = (IF c = count THEN Tokens(s)[m] ELSE 0) /\ f[m] = 0
    BY <1>1, <1>7 DEF Of, Besides
  <2>4. ours => /\ b[n] = (IF c = count THEN Told(held)[n] ELSE 0)
                /\ e[n] = (IF c = count THEN Tokens(held)[n] ELSE 0) /\ g[n] = 0
    BY <1>1, <1>2, <1>3 DEF Of, Besides
  <2> HIDE DEF a, b, d, e, f, g
  <2>5. /\ Total(a) = Total(b) + a[m] - (IF ours THEN b[n] ELSE 0)
        /\ Total(d) = Total(e) + d[m] - (IF ours THEN e[n] ELSE 0)
        /\ Total(f) = Total(g) + f[m] - (IF ours THEN g[n] ELSE 0)
    BY <1>1, <1>2, <2>1, <2>2, TotalTop
  <2>6. Total(b) \in Int /\ Total(e) \in Int /\ Total(g) \in Int
    BY <1>2, <2>1, TotalInt
  <2>7. /\ ours => Told(held)[n] \in Int /\ Tokens(held)[n] \in Int
        /\ Tokens(s)[m] \in Int
    BY <1>2, <1>3, <1>4, <1>5, <1>7 DEF IsRow
  <2>8. Total(a) = Total(b) + (IF c = count THEN known ELSE 0)
    BY <1>2, <1>10, <2>3, <2>4, <2>5, <2>6, <2>7
  <2>9. Total(d) = Total(e)
            + (IF c = count THEN Tokens(s)[m] - (IF ours THEN Tokens(held)[n] ELSE 0) ELSE 0)
    BY <2>3, <2>4, <2>5, <2>6, <2>7
  <2>10. Total(f) = Total(g)
    BY <2>3, <2>4, <2>5, <2>6
  <2> QED
    BY <2>8, <2>9, <2>10 DEF a, b, d, e, f, g
<1>14. \A i \in 1 .. m - 1 : /\ held[i].hidden <= held[i].cost /\ held[i].w < count
                              /\ held[i].w \in Nat /\ s[i] = held[i]
  <2> SUFFICES ASSUME NEW i \in 1 .. m - 1
               PROVE  /\ held[i].hidden <= held[i].cost /\ held[i].w < count
                      /\ held[i].w \in Nat /\ s[i] = held[i]
    OBVIOUS
  <2>1. i \in 1 .. n /\ held[i].hidden <= held[i].cost /\ held[i].w <= count
        /\ (i < n => held[i].w < count)
    BY <1>2, <1>6 DEF Ordered, OrderedIn, n
  <2>2. held[i].w \in Nat /\ count \in Nat /\ s[i] = held[i]
    BY <2>1, <1>1, PositionType, CountIsNat DEF n
  <2>3. CASE ours
    BY <1>2, <2>1, <2>2, <2>3
  <2>4. CASE ~ours /\ i = n
    BY <1>1, <1>2, <2>1, <2>2, <2>4
  <2>5. CASE i # n
    BY <1>2, <2>1, <2>2, <2>5
  <2> QED
    BY <2>3, <2>4, <2>5
<1>15. OrderedIn(s)
  <2>1. s[m].hidden <= s[m].cost
    <3>1. ours => held[n].hidden <= held[n].cost
      BY <1>2, <1>3 DEF Ordered, OrderedIn
    <3> QED
      BY <1>1, <1>2, <1>9, <3>1
  <2>2. \A i \in 1 .. m : i = m \/ i \in 1 .. m - 1
    BY <1>1
  <2>3. count \in Int /\ ~(m < m)
    BY <1>1, CountIsNat
  <2> QED
    BY <1>1, <1>2, <1>14, <2>1, <2>2, <2>3 DEF OrderedIn
<1>16. Total(Of(s, Tokens(s), count)) <= Len(Parts)
  <2> DEFINE d == Of(s, Tokens(s), count)
             z == [i \in 1 .. m |-> 0]
  <2>1. IsRow(d, m) /\ IsRow(z, m) /\ Total(z) = 0
    <3>1. IsRow(d, m)
      BY <1>1, <1>5, PartRows
    <3>2. DOMAIN z = 1 .. m /\ \A i \in 1 .. m : z[i] = 0
      OBVIOUS
    <3> HIDE DEF z
    <3> QED
      BY <1>1, <3>1, <3>2, TotalZero DEF IsRow
  <2>2. \A i \in 1 .. m : i # m => d[i] = z[i]
    <3>1. \A i \in 1 .. m - 1 : s[i].w # count /\ i \in DOMAIN s
      BY <1>6, <1>14, CountIsNat
    <3> QED
      BY <1>1, <3>1 DEF Of
  <2>3. d[m] = Cardinality(s[m].legs) /\ z[m] = 0
    BY <1>1, <1>7 DEF Of, Tokens
  <2> HIDE DEF d, z
  <2>4. Total(d) = Total(z) - z[m] + d[m]
    <3>1. m \in Nat /\ m \in 1 .. m
      BY <1>1, <1>7
    <3> QED
      BY <2>1, <2>2, <3>1, TotalChanged
  <2>5. Cardinality(s[m].legs) \in 0 .. Len(Parts) /\ Len(Parts) \in Nat
    BY <1>1, <1>2, <1>7, PositionType, PartsType
  <2>6. Total(d) <= Len(Parts)
    BY <2>1, <2>3, <2>4, <2>5
  <2> QED
    BY <2>6 DEF d
<1>17. count \in Int
  BY CountIsNat
<1>18. /\ Total(Of(s, Told(s), count)) = Total(Of(held, Told(held), count)) + known
       /\ Total(Besides(s, Tokens(s), count)) = Total(Besides(held, Tokens(held), count))
  BY <1>13, <1>17
<1>19. \A c \in Int : c # count =>
                   /\ Total(Of(s, Told(s), c)) = Total(Of(held, Told(held), c))
                   /\ Total(Of(s, Tokens(s), c)) = Total(Of(held, Tokens(held), c))
  <2> SUFFICES ASSUME NEW c \in Int, c # count
               PROVE  /\ Total(Of(s, Told(s), c)) = Total(Of(held, Told(held), c))
                      /\ Total(Of(s, Tokens(s), c)) = Total(Of(held, Tokens(held), c))
    OBVIOUS
  <2>1. /\ Total(Of(held, Told(held), c)) \in Int /\ Total(Of(held, Tokens(held), c)) \in Int
    BY <1>2, <1>4, PartRows, TotalInt DEF n
  <2> QED
    BY <1>13, <2>1
<1> QED
  BY <1>1, <1>11, <1>12, <1>15, <1>16, <1>18, <1>19 DEF s, known

-----------------------------------------------------------------------------
(* The steps *)

LEMMA StepsType == Rungs * Len(Parts) \in Nat /\ 1 \in 1 .. Rungs * Len(Parts) + 1
<1>1. PICK r \in Nat, p \in Nat : r = Rungs /\ p = Len(Parts)
  BY PortAssumption, PartsType
<1>2. PICK k \in Int : k = r * p
  BY <1>1
<1>3. k >= 0
  BY <1>2
<1> QED
  BY <1>1, <1>2, <1>3

LEMMA PartsSpendable == Parts \in [Legs -> Nat] /\ \A l \in Legs : Parts[l] <= Parts[l]
  BY PartsType

LEMMA OverType ==
  ASSUME Over
  PROVE  /\ pc' = "idle" /\ step' \in 1 .. Rungs * Len(Parts) + 1 /\ asks' \in [Legs -> Asks]
         /\ left' \in [Legs -> Nat] /\ \A l \in Legs : left'[l] <= Parts[l]
         /\ begun' \subseteq GateChecks /\ sent' \subseteq Legs
         /\ lost' \in [cost : Nat, tokens : Nat]
<1>1. Unasked \in [Legs -> Asks]
  <2>1. (CHOOSE a \in Asks : TRUE) \in Asks
    BY PortAssumption
  <2> QED
    BY <2>1 DEF Unasked
<1> QED
  BY <1>1, StepsType, PartsSpendable DEF Over, NoLoss

LEMMA InitSpends == Init => SpendInv
<1> SUFFICES ASSUME Init PROVE SpendInv
  OBVIOUS
<1>1. held = <<>> /\ Len(held) = 0 /\ DOMAIN held = 1 .. 0 /\ held \in Seq(Position)
  BY DEF Init
<1>2. ASSUME NEW v, DOMAIN v = DOMAIN held PROVE Total(v) = 0
  <2>1. 0 \in Nat /\ DOMAIN v = 1 .. 0 /\ \A i \in 1 .. 0 : v[i] = 0
    BY <1>1, <1>2
  <2> QED
    BY <2>1, TotalZero
<1>3. TypeOK
  <2>1. Unasked \in [Legs -> Asks]
    <3>1. (CHOOSE a \in Asks : TRUE) \in Asks
      BY PortAssumption
    <3> QED
      BY <3>1 DEF Unasked
  <2>2. Total(Costs(held)) = 0
    BY <1>2 DEF Costs
  <2>3. 0 \in 0 .. Days /\ 0 \in 0 .. Edits /\ 0 \in 0 .. Windows /\ 0 <= Wallet
    BY PortAssumption
  <2> QED
    BY <1>1, <2>1, <2>2, <2>3, StepsType, PartsSpendable DEF Init, TypeOK, NoLoss
<1>4. Ordered
  BY <1>1 DEF Ordered, OrderedIn
<1>5. OneWindow
  <2>1. \A c : Total(Of(held, Told(held), c)) = 0 /\ Total(Of(held, Tokens(held), c)) = 0
    BY <1>2 DEF Of
  <2> QED
    BY <2>1, BudgetType, PartsType DEF OneWindow
<1> QED
  BY <1>3, <1>4, <1>5 DEF SpendInv, Fresh, Cleared, Init

\* A window that ends, or a step that leaves the spending alone, keeps all of it.
LEMMA EndKeeps ==
  ASSUME SpendInv, held' = held, count' = count, pc' = "idle"
  PROVE  Ordered' /\ OneWindow' /\ Fresh' /\ Cleared'
  BY DEF SpendInv, Ordered, OrderedIn, OneWindow, Fresh, Cleared

LEMMA PlaceKeeps ==
  ASSUME SpendInv, UNCHANGED <<held, count, pc, left, cached, lost>>
  PROVE  Ordered' /\ OneWindow' /\ Fresh' /\ Cleared'
<1>1. Ordered' /\ OneWindow' /\ Fresh'
  BY DEF SpendInv, Ordered, OrderedIn, OneWindow, Fresh
<1>2. Cleared'
  BY DEF SpendInv, Cleared
<1> QED
  BY <1>1, <1>2

LEMMA GetPortSpends == SpendInv /\ GetPort => SpendInv'
<1> SUFFICES ASSUME SpendInv, GetPort PROVE SpendInv'
  OBVIOUS
<1>1. /\ UNCHANGED <<day, edits, env, cfg, client, held, lost>>
      /\ count < Windows /\ count' = count + 1
      /\ cached' = (IF cached = NoPort THEN env.lim ELSE cached)
      /\ pc' = "preflight" /\ begun' = Gates /\ sent' = {} /\ allowed' = FALSE
      /\ asks' \in [Legs -> Asks] /\ left' = Parts /\ step' = 1
  BY DEF GetPort, outside
<1>2. count \in Nat /\ count' \in 0 .. Windows /\ TypeOK
  <2>1. TypeOK /\ count \in 0 .. Windows /\ Windows \in Nat
    BY PortAssumption DEF SpendInv, TypeOK
  <2> QED
    BY <1>1, <2>1
<1>3. TypeOK'
  <2>1. env.lim \in Limits
    BY <1>2 DEF TypeOK, Files
  <2>2. Gates \subseteq GateChecks
    BY DEF Gates
  <2> QED
    BY <1>1, <1>2, <2>1, <2>2, StepsType, PartsSpendable DEF TypeOK
<1>4. \A i \in DOMAIN held : /\ held[i].hidden <= held[i].cost /\ held[i].w < count + 1
                             /\ held[i].w <= count + 1
  <2> SUFFICES ASSUME NEW i \in DOMAIN held
               PROVE  /\ held[i].hidden <= held[i].cost /\ held[i].w < count + 1
                      /\ held[i].w <= count + 1
    OBVIOUS
  <2>1. held[i].w \in Nat
    <3>1. held \in Seq(Position) /\ i \in 1 .. Len(held)
      BY <1>2 DEF TypeOK
    <3> QED
      BY <3>1, PositionType
  <2>2. held[i].hidden <= held[i].cost /\ held[i].w <= count
    BY DEF SpendInv, Ordered, OrderedIn
  <2> QED
    BY <1>2, <2>1, <2>2
<1>5. Ordered' /\ Fresh'
  <2>1. count + 1 > 0
    BY <1>2
  <2> QED
    BY <1>1, <1>4, <2>1 DEF Ordered, OrderedIn, Fresh
<1>6. OneWindow' /\ Cleared'
  BY <1>1 DEF SpendInv, OneWindow, Cleared
<1> QED
  BY <1>3, <1>5, <1>6 DEF SpendInv

LEMMA NoFireSpends ==
  SpendInv /\ (Unreadable \/ Close \/ Restart \/ (Preflight /\ Deny)) => SpendInv'
<1> SUFFICES ASSUME SpendInv, Unreadable \/ Close \/ Restart \/ (Preflight /\ Deny) PROVE SpendInv'
  OBVIOUS
<1>1. /\ Over /\ UNCHANGED <<day, edits, env, count, held>> /\ cached' \in {cached, NoPort}
      /\ cfg' \in {cfg} \cup Loaded /\ client' \in {client, FALSE} /\ allowed' \in BOOLEAN
  <2>1. TypeOK
    BY DEF SpendInv
  <2>2. CASE Unreadable
    BY <2>1, <2>2 DEF Unreadable, outside, TypeOK
  <2>3. CASE Close
    BY <2>1, <2>3 DEF Close, outside, port, TypeOK
  <2>4. CASE Restart
    BY <2>1, <2>4 DEF Restart, outside, TypeOK
  <2>5. CASE Preflight /\ Deny
    <3>1. allowed' \in BOOLEAN
      BY <2>5 DEF Preflight, Evaluate, CheckLimits
    <3> QED
      BY <2>5, <3>1 DEF Preflight, Deny, outside
  <2> QED
    BY <2>2, <2>3, <2>4, <2>5
<1>2. TypeOK'
  BY <1>1, OverType DEF SpendInv, TypeOK
<1>3. Ordered' /\ OneWindow' /\ Fresh' /\ Cleared'
  BY <1>1, EndKeeps DEF Over
<1> QED
  BY <1>2, <1>3 DEF SpendInv

LEMMA AroundSpends == SpendInv /\ (Edit \/ NewDay \/ UNCHANGED vars) => SpendInv'
<1> SUFFICES ASSUME SpendInv, Edit \/ NewDay \/ UNCHANGED vars PROVE SpendInv'
  OBVIOUS
<1>1. /\ UNCHANGED <<cfg, cached, client, pc, step, asks, left, held, count>>
      /\ UNCHANGED <<begun, allowed, sent, lost>>
      /\ day' \in 0 .. Days /\ edits' \in 0 .. Edits /\ env' \in Files
  <2>1. day \in 0 .. Days /\ edits \in 0 .. Edits /\ env \in Files
    BY DEF SpendInv, TypeOK
  <2>2. day < Days => day + 1 \in 0 .. Days
    BY <2>1, PortAssumption
  <2>3. edits < Edits => edits + 1 \in 0 .. Edits
    BY <2>1, PortAssumption
  <2> QED
    BY <2>1, <2>2, <2>3 DEF Edit, NewDay, vars, outside, port, window
<1>2. TypeOK'
  BY <1>1 DEF SpendInv, TypeOK
<1> QED
  BY <1>1, <1>2, PlaceKeeps DEF SpendInv

LEMMA LeftType ==
  TypeOK => IsRow(left, Len(Parts)) /\ Total(left) \in Nat /\ DOMAIN left = 1 .. Len(Parts)
<1> SUFFICES ASSUME TypeOK
             PROVE  IsRow(left, Len(Parts)) /\ Total(left) \in Nat /\ DOMAIN left = 1 .. Len(Parts)
  OBVIOUS
<1>1. Len(Parts) \in Nat /\ Legs = 1 .. Len(Parts) /\ left \in [Legs -> Nat]
  BY PartsType DEF TypeOK
<1>2. DOMAIN left = 1 .. Len(Parts) /\ \A i \in 1 .. Len(Parts) : left[i] \in Nat
  BY <1>1
<1> QED
  BY <1>1, <1>2, TotalNat

LEMMA LimitsType ==
  TypeOK => /\ cached.cap \in Nat /\ cached.maxOpen \in Nat /\ cached.budget \in Nat
            /\ Spare \in Nat /\ CountSpare \in Nat /\ Budget \in Nat
            /\ lost.cost \in Nat /\ lost.tokens \in Nat
<1>1. \A lim \in Limits : lim.cap \in Nat /\ lim.maxOpen \in Nat /\ lim.budget \in Nat
  BY PortAssumption
<1>2. Spare \in Nat /\ CountSpare \in Nat /\ Budget \in Nat
  BY BudgetType, PartsType DEF Spare, CountSpare
<1> QED
  BY <1>1, <1>2 DEF TypeOK, NoPort

\* A position that is resolved leaves the rest as they were, and no total larger.
LEMMA RemoveAtIs ==
  ASSUME NEW s \in Seq(Position), NEW k \in 1 .. Len(s)
  PROVE  /\ RemoveAt(s, k) \in Seq(Position) /\ Len(RemoveAt(s, k)) = Len(s) - 1
         /\ \A i \in 1 .. Len(s) - 1 : RemoveAt(s, k)[i] = IF i < k THEN s[i] ELSE s[i + 1]
<1> DEFINE a == SubSeq(s, 1, k - 1)
           b == SubSeq(s, k + 1, Len(s))
<1>1. Len(s) \in Nat /\ k \in Nat /\ k >= 1 /\ k <= Len(s)
  OBVIOUS
<1>2. a \in Seq(Position) /\ Len(a) = k - 1 /\ \A i \in 1 .. k - 1 : a[i] = s[i]
  BY <1>1
<1>3. b \in Seq(Position) /\ Len(b) = Len(s) - k /\ \A i \in 1 .. Len(s) - k : b[i] = s[k + i]
  BY <1>1
<1>4. RemoveAt(s, k) = a \o b
  BY DEF RemoveAt
<1> HIDE DEF a, b
<1>5. /\ a \o b \in Seq(Position) /\ Len(a \o b) = Len(s) - 1
      /\ \A i \in 1 .. Len(s) - 1 : (a \o b)[i] = IF i <= k - 1 THEN a[i] ELSE b[i - (k - 1)]
  <2>1. a \in Seq(Position) /\ b \in Seq(Position)
    BY <1>2, <1>3
  <2>2. /\ a \o b \in Seq(Position) /\ Len(a \o b) = Len(a) + Len(b)
        /\ \A i \in 1 .. Len(a) + Len(b) :
              (a \o b)[i] = IF i <= Len(a) THEN a[i] ELSE b[i - Len(a)]
    BY <2>1, ConcatProperties
  <2>3. Len(a) = k - 1 /\ Len(a) + Len(b) = Len(s) - 1
    BY <1>1, <1>2, <1>3
  <2> QED
    BY <2>2, <2>3
<1>6. ASSUME NEW i \in 1 .. Len(s) - 1 PROVE (a \o b)[i] = IF i < k THEN s[i] ELSE s[i + 1]
  <2>1. CASE i < k
    BY <1>1, <1>2, <1>5, <2>1
  <2>2. CASE ~(i < k)
    <3>1. i - (k - 1) \in 1 .. Len(s) - k /\ k + (i - (k - 1)) = i + 1 /\ ~(i <= k - 1)
      BY <1>1, <2>2
    <3> QED
      BY <1>3, <1>5, <2>2, <3>1
  <2> QED
    BY <2>1, <2>2
<1> QED
  BY <1>4, <1>5, <1>6

LEMMA ResolveSpends == SpendInv /\ Resolve => SpendInv'
<1> SUFFICES ASSUME SpendInv, Resolve PROVE SpendInv'
  OBVIOUS
<1>1. PICK k \in DOMAIN held : held' = RemoveAt(held, k)
  BY DEF Resolve
<1>2. /\ UNCHANGED <<day, edits, env, cfg, cached, client, pc, step, asks>>
      /\ UNCHANGED <<left, count, begun, allowed, sent, lost>>
  BY DEF Resolve, outside, port, window
<1> DEFINE n == Len(held)
           s == held'
<1>3. /\ held \in Seq(Position) /\ n \in Nat /\ DOMAIN held = 1 .. n /\ k \in 1 .. n
      /\ n - 1 \in Nat /\ count \in Nat /\ TypeOK
  <2>1. TypeOK /\ held \in Seq(Position) /\ count \in 0 .. Windows
    BY DEF SpendInv, TypeOK
  <2>2. n \in Nat /\ DOMAIN held = 1 .. n
    BY <2>1
  <2>3. k \in 1 .. n
    BY <1>1, <2>2
  <2>4. n - 1 \in Nat
    BY <2>2, <2>3
  <2>5. count \in Nat
    BY <2>1, PortAssumption
  <2> QED
    BY <2>1, <2>2, <2>3, <2>4, <2>5
<1>4. /\ s \in Seq(Position) /\ Len(s) = n - 1 /\ DOMAIN s = 1 .. n - 1
      /\ \A i \in 1 .. n - 1 : s[i] = IF i < k THEN held[i] ELSE held[i + 1]
  <2>1. /\ RemoveAt(held, k) \in Seq(Position) /\ Len(RemoveAt(held, k)) = n - 1
        /\ \A i \in 1 .. n - 1 : RemoveAt(held, k)[i] = IF i < k THEN held[i] ELSE held[i + 1]
    BY <1>3, RemoveAtIs
  <2>2. s = RemoveAt(held, k)
    BY <1>1
  <2> HIDE DEF s, n
  <2>3. s \in Seq(Position) /\ Len(s) = n - 1
    BY <2>1, <2>2
  <2>4. DOMAIN s = 1 .. n - 1
    BY <2>3
  <2> QED
    BY <2>1, <2>2, <2>3, <2>4
<1>5. \A i \in 1 .. n - 1 : i \in 1 .. n /\ i + 1 \in 1 .. n /\ i < n
  BY <1>3
<1>6. \A i \in 1 .. n : /\ held[i].hidden <= held[i].cost /\ held[i].w <= count
                        /\ i < n => held[i].w < count
  BY <1>3 DEF SpendInv, Ordered, OrderedIn
<1>7. \A i \in 1 .. n : /\ held[i].cost \in Nat /\ held[i].hidden \in Nat
                        /\ Cardinality(held[i].legs) \in Nat
  BY <1>3, PositionType
<1>8. \A i \in 1 .. n : Costs(held)[i] \in Nat /\ Told(held)[i] \in Nat /\ Tokens(held)[i] \in Nat
  BY <1>3, <1>6, <1>7 DEF Costs, Told, Tokens
<1>9. /\ IsRow(Costs(held), n) /\ IsRow(Told(held), n) /\ IsRow(Tokens(held), n)
      /\ IsRow(Costs(s), n - 1) /\ IsRow(Told(s), n - 1) /\ IsRow(Tokens(s), n - 1)
  BY <1>3, <1>4, RowTypes
<1>10. \A i \in 1 .. n - 1 : /\ Costs(s)[i] = IF i < k THEN Costs(held)[i] ELSE Costs(held)[i + 1]
                             /\ Told(s)[i] = IF i < k THEN Told(held)[i] ELSE Told(held)[i + 1]
                             /\ Tokens(s)[i] =
                                   IF i < k THEN Tokens(held)[i] ELSE Tokens(held)[i + 1]
  BY <1>3, <1>4, <1>5 DEF Costs, Told, Tokens
<1> HIDE DEF n, s
<1>11. ASSUME NEW v, NEW w, IsRow(v, n - 1), IsRow(w, n), w[k] \in Nat,
              \A i \in 1 .. n - 1 : v[i] = IF i < k THEN w[i] ELSE w[i + 1]
       PROVE  Total(v) <= Total(w) /\ Total(v) \in Int /\ Total(w) \in Int
  <2>1. Total(v) = Total(w) - w[k]
    BY <1>3, <1>11, TotalRemoved
  <2>2. Total(v) \in Int /\ Total(w) \in Int
    BY <1>3, <1>11, TotalInt
  <2> QED
    BY <1>11, <2>1, <2>2
<1>12. /\ Total(Costs(s)) <= Total(Costs(held))
       /\ Total(Costs(s)) \in Int /\ Total(Costs(held)) \in Int
       /\ Total(Told(s)) <= Total(Told(held)) /\ Total(Told(s)) \in Int /\ Total(Told(held)) \in Int
  BY <1>3, <1>8, <1>9, <1>10, <1>11
<1>13. ASSUME NEW c \in Int
       PROVE  /\ Total(Of(s, Told(s), c)) <= Total(Of(held, Told(held), c))
              /\ Total(Of(s, Tokens(s), c)) <= Total(Of(held, Tokens(held), c))
              /\ Total(Besides(s, Tokens(s), c)) <= Total(Besides(held, Tokens(held), c))
              /\ Total(Of(s, Told(s), c)) \in Int /\ Total(Of(held, Told(held), c)) \in Int
              /\ Total(Of(s, Tokens(s), c)) \in Int /\ Total(Of(held, Tokens(held), c)) \in Int
              /\ Total(Besides(s, Tokens(s), c)) \in Int
              /\ Total(Besides(held, Tokens(held), c)) \in Int
  <2> DEFINE a == Of(s, Told(s), c)
             b == Of(held, Told(held), c)
             d == Of(s, Tokens(s), c)
             e == Of(held, Tokens(held), c)
             f == Besides(s, Tokens(s), c)
             g == Besides(held, Tokens(held), c)
  <2>1. /\ IsRow(a, n - 1) /\ IsRow(b, n) /\ IsRow(d, n - 1)
        /\ IsRow(e, n) /\ IsRow(f, n - 1) /\ IsRow(g, n)
    BY <1>3, <1>4, <1>9, PartRows DEF n
  <2>2. \A i \in 1 .. n - 1 : s[i].w = IF i < k THEN held[i].w ELSE held[i + 1].w
    BY <1>4
  <2>3. \A i \in 1 .. n - 1 : /\ a[i] = IF i < k THEN b[i] ELSE b[i + 1]
                              /\ d[i] = IF i < k THEN e[i] ELSE e[i + 1]
                              /\ f[i] = IF i < k THEN g[i] ELSE g[i + 1]
    BY <1>3, <1>4, <1>5, <1>10, <2>2 DEF Of, Besides
  <2>4. b[k] \in Nat /\ e[k] \in Nat /\ g[k] \in Nat
    BY <1>3, <1>8 DEF Of, Besides
  <2> HIDE DEF a, b, d, e, f, g
  <2>5. /\ Total(a) <= Total(b) /\ Total(d) <= Total(e) /\ Total(f) <= Total(g)
        /\ Total(a) \in Int /\ Total(b) \in Int /\ Total(d) \in Int /\ Total(e) \in Int
        /\ Total(f) \in Int /\ Total(g) \in Int
    BY <2>1, <2>3, <2>4, <1>11
  <2> QED
    BY <2>5 DEF a, b, d, e, f, g
<1>14. TypeOK'
  <2>1. Total(Costs(s)) <= Wallet
    BY <1>12, PortAssumption DEF SpendInv, TypeOK
  <2> QED
    BY <1>2, <1>4, <2>1 DEF SpendInv, TypeOK, s
<1>15. /\ \A i \in 1 .. n - 1 : /\ s[i].hidden <= s[i].cost /\ s[i].w <= count
                                /\ i < n - 1 => s[i].w < count
       /\ (\A i \in 1 .. n : held[i].w < count) => \A i \in 1 .. n - 1 : s[i].w < count
  <2>1. \A i \in 1 .. n - 1 : i < n - 1 => i + 1 < n
    BY <1>3
  <2> QED
    BY <1>4, <1>5, <1>6, <2>1
<1>16. Ordered' /\ Fresh'
  BY <1>2, <1>3, <1>4, <1>15 DEF Ordered, OrderedIn, Fresh, SpendInv, s
<1>17. OneWindow'
  <2> SUFFICES ASSUME NEW c \in Int
               PROVE  Total(Of(s, Told(s), c)) <= Budget /\ Total(Of(s, Tokens(s), c)) <= Len(Parts)
    BY DEF OneWindow, s
  <2>1. Total(Of(held, Told(held), c)) <= Budget /\ Total(Of(held, Tokens(held), c)) <= Len(Parts)
    BY DEF SpendInv, OneWindow
  <2>2. /\ Total(Of(s, Told(s), c)) <= Total(Of(held, Told(held), c))
        /\ Total(Of(s, Tokens(s), c)) <= Total(Of(held, Tokens(held), c))
        /\ Total(Of(s, Told(s), c)) \in Int /\ Total(Of(held, Told(held), c)) \in Int
        /\ Total(Of(s, Tokens(s), c)) \in Int /\ Total(Of(held, Tokens(held), c)) \in Int
    BY <1>13
  <2>3. Budget \in Int /\ Len(Parts) \in Int
    BY BudgetType, PartsType
  <2> QED
    BY <2>1, <2>2, <2>3
<1>18. Cleared'
  <2> SUFFICES ASSUME pc = "rungs"
               PROVE  /\ Total(Of(s, Told(s), count)) + Total(left) <= Budget
                      /\ Total(Told(s)) + Total(left) <= cached.cap + Spare + lost.cost
                      /\ Total(Besides(s, Tokens(s), count))
                            < cached.maxOpen + CountSpare + lost.tokens
    BY <1>2 DEF Cleared, s
  <2>1. /\ Total(Of(held, Told(held), count)) + Total(left) <= Budget
        /\ Total(Told(held)) + Total(left) <= cached.cap + Spare + lost.cost
        /\ Total(Besides(held, Tokens(held), count)) < cached.maxOpen + CountSpare + lost.tokens
    BY DEF SpendInv, Cleared
  <2>2. Total(left) \in Int
    BY LeftType DEF SpendInv
  <2>3. /\ cached.cap \in Nat /\ cached.maxOpen \in Nat
        /\ Spare \in Nat /\ CountSpare \in Nat /\ Budget \in Nat
        /\ lost.cost \in Nat /\ lost.tokens \in Nat
    BY LimitsType DEF SpendInv
  <2>4. count \in Int
    BY <1>3
  <2>5. /\ Total(Of(s, Told(s), count)) <= Total(Of(held, Told(held), count))
        /\ Total(Besides(s, Tokens(s), count)) <= Total(Besides(held, Tokens(held), count))
        /\ Total(Of(s, Told(s), count)) \in Int /\ Total(Of(held, Told(held), count)) \in Int
        /\ Total(Besides(s, Tokens(s), count)) \in Int
        /\ Total(Besides(held, Tokens(held), count)) \in Int
    BY <1>13, <2>4
  <2> QED
    BY <1>12, <2>1, <2>2, <2>3, <2>5
<1> QED
  BY <1>14, <1>16, <1>17, <1>18 DEF SpendInv

\* What the account may lack is what one window spent, and there is a limit to that; of the
\* rest it shows what it is worth, and Loss is what that falls short of the cost.
LEMMA AccountSees ==
  ASSUME SpendInv, \A i \in DOMAIN held : held[i].w < count,
         NEW lagging \in BOOLEAN, lagging => Lags, NEW marks \in Marked
  PROVE  LET acc == Account(lagging, marks)
             loss == Loss(acc, lagging)
         IN  /\ Total(Told(held)) <= acc.value + loss.cost + Spare
             /\ Total(Tokens(held)) <= acc.open + loss.tokens + CountSpare
             /\ acc.value \in Int /\ acc.open \in Int
             /\ loss \in [cost : Nat, tokens : Nat]
<1> DEFINE n == Len(held)
           c == count - 1
           costs == Indexed(Costs(held), lagging)
           tokens == Indexed(Tokens(held), lagging)
           told == Of(held, Told(held), c)
           their == Of(held, Tokens(held), c)
           opens == Indexed(Opens(marks), lagging)
           values == Indexed(Values(marks), lagging)
           acc == Account(lagging, marks)
           loss == Loss(acc, lagging)
<1>1. /\ held \in Seq(Position) /\ n \in Nat /\ DOMAIN held = 1 .. n /\ count \in Nat /\ c \in Int
  <2>1. held \in Seq(Position) /\ count \in 0 .. Windows
    BY DEF SpendInv, TypeOK
  <2>2. count \in Nat
    BY <2>1, PortAssumption
  <2> QED
    BY <2>1, <2>2
<1>2. \A i \in 1 .. n : /\ held[i].cost \in Nat /\ held[i].hidden \in Nat
                        /\ held[i].hidden <= held[i].cost
                        /\ Cardinality(held[i].legs) \in Nat
  BY <1>1, PositionType DEF SpendInv, Ordered, OrderedIn
<1>3. IsRow(Costs(held), n) /\ IsRow(Told(held), n) /\ IsRow(Tokens(held), n)
  BY <1>1, RowTypes
<1>4. IsRow(told, n) /\ IsRow(their, n)
  BY <1>1, <1>3, PartRows
<1>5. IsRow(costs, n) /\ IsRow(tokens, n)
  BY <1>3 DEF IsRow, Indexed
<1>6. \A i \in 1 .. n : /\ Costs(held)[i] = held[i].cost
                        /\ Told(held)[i] = held[i].cost - held[i].hidden
                        /\ Tokens(held)[i] = Cardinality(held[i].legs)
  BY <1>1 DEF Costs, Told, Tokens
<1>7. acc.value = Total(values) /\ acc.open = Total(opens)
  BY DEF Account
<1>8. /\ Total(costs) \in Int /\ Total(tokens) \in Int
      /\ Total(Told(held)) \in Int /\ Total(Tokens(held)) \in Int
  BY <1>1, <1>3, <1>5, TotalInt
<1>12. /\ IsRow(values, n) /\ IsRow(opens, n)
       /\ \A i \in 1 .. n : opens[i] <= tokens[i]
  <2>1. /\ DOMAIN marks = 1 .. n
        /\ \A i \in 1 .. n : /\ marks[i] \in Worth(held[i])
                              /\ marks[i].value \in Nat /\ marks[i].open \in Nat
    <3>1. /\ marks \in [1 .. n -> [open : 0 .. Len(Parts), value : Marks \cup {0}]]
          /\ \A i \in 1 .. n : marks[i] \in Worth(held[i])
      BY <1>1 DEF Marked
    <3>2. Marks \cup {0} \subseteq Nat /\ 0 .. Len(Parts) \subseteq Nat
      BY PartsType, PortAssumption
    <3> HIDE DEF n
    <3> QED
      BY <3>1, <3>2
  <2>2. \A i \in 1 .. n : marks[i].open <= Cardinality(held[i].legs)
    BY <1>2, <2>1 DEF Worth
  <2>3. /\ DOMAIN values = 1 .. n /\ DOMAIN opens = 1 .. n
        /\ \A i \in 1 .. n :
              /\ values[i] = (IF lagging /\ held[i].w = c THEN 0 ELSE marks[i].value)
              /\ opens[i] = (IF lagging /\ held[i].w = c THEN 0 ELSE marks[i].open)
              /\ tokens[i] = (IF lagging /\ held[i].w = c THEN 0 ELSE Cardinality(held[i].legs))
    BY <1>1, <1>6, <2>1 DEF Indexed, Values, Opens, Tokens
  <2> HIDE DEF values, opens, tokens, n, c
  <2> QED
    BY <2>1, <2>2, <2>3 DEF IsRow
<1>13. Total(values) \in Int /\ Total(opens) \in Int /\ Total(opens) <= Total(tokens)
  <2> HIDE DEF values, opens, tokens, n
  <2> QED
    BY <1>1, <1>5, <1>12, TotalInt, TotalLess
<1>14. /\ loss \in [cost : Nat, tokens : Nat]
       /\ Total(costs) <= acc.value + loss.cost /\ Total(tokens) = acc.open + loss.tokens
  <2>1. loss = [cost |-> IF Total(costs) > acc.value THEN Total(costs) - acc.value ELSE 0,
                tokens |-> Total(tokens) - acc.open]
    BY DEF Loss
  <2> HIDE DEF values, opens, tokens, costs, acc, loss
  <2>2. PICK a \in Int, b \in Int, d \in Int, e \in Int :
           a = Total(costs) /\ b = acc.value /\ d = Total(tokens) /\ e = acc.open /\ e <= d
    BY <1>7, <1>8, <1>13
  <2>3. /\ (IF a > b THEN a - b ELSE 0) \in Nat /\ a <= b + (IF a > b THEN a - b ELSE 0)
        /\ d - e \in Nat /\ d = e + (d - e)
    BY <2>2
  <2> QED
    BY <2>1, <2>2, <2>3
<1> HIDE DEF acc, loss, values, opens
<1>15. SUFFICES /\ Total(Told(held)) <= Total(costs) + Spare
                /\ Total(Tokens(held)) <= Total(tokens) + CountSpare
  <2>1. Spare \in Int /\ CountSpare \in Int
    BY LimitsType DEF SpendInv
  <2>2. acc.value \in Int /\ acc.open \in Int /\ loss.cost \in Int /\ loss.tokens \in Int
    BY <1>7, <1>13, <1>14
  <2> QED
    BY <1>8, <1>14, <2>1, <2>2 DEF acc, loss
<1>9. CASE lagging
  <2>1. Spare = Budget /\ CountSpare = Len(Parts)
    BY <1>9 DEF Spare, CountSpare
  <2>2. Total(told) <= Budget /\ Total(their) <= Len(Parts)
    BY <1>1 DEF SpendInv, OneWindow
  <2>3. \A i \in 1 .. n : /\ costs[i] = (IF held[i].w = c THEN 0 ELSE Costs(held)[i])
                          /\ tokens[i] = (IF held[i].w = c THEN 0 ELSE Tokens(held)[i])
                          /\ told[i] = (IF held[i].w = c THEN Told(held)[i] ELSE 0)
                          /\ their[i] = (IF held[i].w = c THEN Tokens(held)[i] ELSE 0)
    BY <1>1, <1>3, <1>9 DEF Indexed, Of, IsRow
  <2> DEFINE u == [i \in 1 .. n |-> costs[i] + told[i]]
             v == [i \in 1 .. n |-> tokens[i] + their[i]]
  <2> HIDE DEF costs, tokens, told, their, c, n
  <2>4. IsRow(u, n) /\ IsRow(v, n)
    BY <1>4, <1>5 DEF IsRow
  <2>5. /\ \A i \in 1 .. n : u[i] = costs[i] + told[i]
        /\ \A i \in 1 .. n : v[i] = tokens[i] + their[i]
    OBVIOUS
  <2>6. (\A i \in 1 .. n : Told(held)[i] <= u[i]) /\ \A i \in 1 .. n : Tokens(held)[i] <= v[i]
    BY <1>2, <1>6, <2>3, <2>5
  <2> HIDE DEF u, v
  <2>7. Total(u) = Total(costs) + Total(told) /\ Total(v) = Total(tokens) + Total(their)
    <3>0. n \in Nat
      BY <1>1
    <3>1. Total(u) = Total(costs) + Total(told)
      <4>1. IsRow(u, n) /\ IsRow(costs, n) /\ IsRow(told, n)
        BY <1>4, <1>5, <2>4
      <4>2. \A i \in 1 .. n : u[i] = costs[i] + told[i]
        BY <2>5
      <4> QED
        BY <3>0, <4>1, <4>2, TotalAdds
    <3>2. Total(v) = Total(tokens) + Total(their)
      <4>1. IsRow(v, n) /\ IsRow(tokens, n) /\ IsRow(their, n)
        BY <1>4, <1>5, <2>4
      <4>2. \A i \in 1 .. n : v[i] = tokens[i] + their[i]
        BY <2>5
      <4> QED
        BY <3>0, <4>1, <4>2, TotalAdds
    <3> QED
      BY <3>1, <3>2
  <2>8. Total(Told(held)) <= Total(u) /\ Total(Tokens(held)) <= Total(v)
    BY <1>1, <1>3, <2>4, <2>6, TotalLess
  <2>9. Total(told) \in Int /\ Total(their) \in Int /\ Budget \in Int /\ Len(Parts) \in Int
    BY <1>1, <1>4, TotalInt, BudgetType, PartsType
  <2> QED
    BY <1>7, <1>8, <2>1, <2>2, <2>7, <2>8, <2>9
<1>10. CASE ~lagging
  <2>1. \A i \in 1 .. n : costs[i] = Costs(held)[i] /\ tokens[i] = Tokens(held)[i]
    BY <1>3, <1>10 DEF Indexed, IsRow
  <2> HIDE DEF costs, tokens, n
  <2>2. /\ \A i \in 1 .. n : Told(held)[i] <= costs[i]
        /\ \A i \in 1 .. n : Tokens(held)[i] <= tokens[i]
    BY <1>2, <1>6, <2>1
  <2>3. Total(Told(held)) <= Total(costs) /\ Total(Tokens(held)) <= Total(tokens)
    BY <1>1, <1>3, <1>5, <2>2, TotalLess
  <2>4. Spare \in Nat /\ CountSpare \in Nat
    BY LimitsType DEF SpendInv
  <2> QED
    BY <1>7, <1>8, <2>3, <2>4
<1> QED
  BY <1>9, <1>10

LEMMA PreflightSpends == SpendInv /\ Preflight => SpendInv'
<1> SUFFICES ASSUME SpendInv, Preflight PROVE SpendInv'
  OBVIOUS
<1>1. CASE Deny
  BY <1>1, NoFireSpends
<1>2. CASE ~Deny
  <2>1. PICK lagging \in IF Lags THEN BOOLEAN ELSE {FALSE}, marks \in Marked :
           /\ Evaluate(Account(lagging, marks), cached)
           /\ CheckLimits(Budget, Account(lagging, marks), cached)
           /\ allowed' = TRUE /\ client' = TRUE /\ pc' = "rungs"
           /\ lost' = Loss(Account(lagging, marks), lagging)
           /\ UNCHANGED <<step, asks, left, begun, sent>>
    BY <1>2 DEF Preflight
  <2>2. pc = "preflight" /\ UNCHANGED <<day, edits, env, cfg, cached, count, held>>
    BY DEF Preflight, outside
  <2>3. lagging \in BOOLEAN /\ (lagging => Lags)
    BY <2>1, PortAssumption
  <2>4. left = Parts /\ \A i \in DOMAIN held : held[i].w < count
    BY <2>2 DEF SpendInv, Fresh
  <2> DEFINE a == Account(lagging, marks)
             loss == Loss(a, lagging)
  <2>7. /\ Total(Told(held)) <= a.value + loss.cost + Spare
        /\ Total(Tokens(held)) <= a.open + loss.tokens + CountSpare
        /\ a.value \in Int /\ a.open \in Int /\ loss \in [cost : Nat, tokens : Nat]
    BY <2>3, <2>4, AccountSees
  <2>18. lost' = loss
    BY <2>1
  <2> HIDE DEF loss
  <2>5. TypeOK'
    BY <2>1, <2>2, <2>7, <2>18 DEF SpendInv, TypeOK
  <2>6. Ordered' /\ OneWindow' /\ Fresh'
    BY <2>1, <2>2 DEF SpendInv, Ordered, OrderedIn, OneWindow, Fresh
  <2>8. a.open < cached.maxOpen /\ a.value + Budget <= cached.cap
    BY <2>1 DEF Evaluate, CheckLimits
  <2>9. /\ cached.cap \in Nat /\ cached.maxOpen \in Nat
        /\ Spare \in Nat /\ CountSpare \in Nat /\ Budget \in Nat
    BY LimitsType DEF SpendInv
  <2>10. /\ held \in Seq(Position) /\ DOMAIN held = 1 .. Len(held)
         /\ Len(held) \in Nat /\ count \in Nat
    <3>1. held \in Seq(Position) /\ count \in 0 .. Windows
      BY DEF SpendInv, TypeOK
    <3> QED
      BY <3>1, PortAssumption
  <2>11. \A i \in 1 .. Len(held) : held[i].w # count
    <3>1. \A i \in 1 .. Len(held) : held[i].w \in Nat
      BY <2>10, PositionType
    <3> QED
      BY <2>4, <2>10, <3>1
  <2>12. Total(Of(held, Told(held), count)) = 0
    <3> DEFINE z == Of(held, Told(held), count)
    <3>1. DOMAIN z = 1 .. Len(held) /\ \A i \in 1 .. Len(held) : z[i] = 0
      BY <2>10, <2>11 DEF Of
    <3> HIDE DEF z
    <3>2. Total(z) = 0
      BY <2>10, <3>1, TotalZero
    <3> QED
      BY <3>2 DEF z
  <2>13. Total(Besides(held, Tokens(held), count)) = Total(Tokens(held))
    <3>1. IsRow(Tokens(held), Len(held)) /\ IsRow(Besides(held, Tokens(held), count), Len(held))
      BY <2>10, RowTypes, PartRows
    <3>2. \A i \in 1 .. Len(held) : Besides(held, Tokens(held), count)[i] = Tokens(held)[i]
      BY <2>10, <2>11 DEF Besides
    <3> QED
      BY <2>10, <3>1, <3>2, TotalSame
  <2>14. Total(left) = Budget
    BY <2>4 DEF Budget
  <2>15. Total(Told(held)) \in Int /\ Total(Tokens(held)) \in Int
    BY <2>10, RowTypes, TotalInt
  <2> HIDE DEF a
  <2>16. /\ Total(Of(held, Told(held), count)) + Total(left) <= Budget
         /\ Total(Told(held)) + Total(left) <= cached.cap + Spare + loss.cost
         /\ Total(Besides(held, Tokens(held), count)) < cached.maxOpen + CountSpare + loss.tokens
    <3>1. 0 + Budget <= Budget
      BY <2>9
    <3>2. Total(Told(held)) + Budget <= cached.cap + Spare + loss.cost
      BY <2>7, <2>8, <2>9, <2>15
    <3>3. Total(Tokens(held)) < cached.maxOpen + CountSpare + loss.tokens
      BY <2>7, <2>8, <2>9, <2>15
    <3> QED
      BY <2>12, <2>13, <2>14, <3>1, <3>2, <3>3
  <2>17. Cleared'
    BY <2>1, <2>2, <2>16, <2>18 DEF Cleared
  <2> QED
    BY <2>5, <2>6, <2>17 DEF SpendInv
<1> QED
  BY <1>1, <1>2

\* A leg has its turn once per rung.
LEMMA LegInTurn == TypeOK /\ MoreSteps => Leg \in Legs /\ step + 1 \in 1 .. Rungs * Len(Parts) + 1
<1> SUFFICES ASSUME TypeOK, MoreSteps PROVE Leg \in Legs /\ step + 1 \in 1 .. Rungs * Len(Parts) + 1
  OBVIOUS
<1>0. Rungs * Len(Parts) \in Nat /\ Len(Parts) \in Nat /\ Len(Parts) > 0
  BY StepsType, PartsType
<1>1. PICK k \in Nat, p \in Nat : k = Rungs * Len(Parts) /\ p = Len(Parts) /\ p > 0
  BY <1>0, Zenon
<1>2. step \in 1 .. k + 1 /\ step <= k
  BY <1>1 DEF TypeOK, MoreSteps
<1>3. step + 1 \in 1 .. k + 1 /\ step - 1 \in Nat
  BY <1>2
<1>4. (step - 1) % p \in 0 .. p - 1
  BY <1>1, <1>3
<1>5. ((step - 1) % p) + 1 \in 1 .. p
  BY <1>1, <1>4
<1> QED
  BY <1>1, <1>3, <1>5, PartsType DEF Leg

\* An order that buys nothing leaves the positions and the leg's part alone; one that
\* buys takes what it costs off the part if the engine is told.
LEMMA MatchIs ==
  ASSUME TypeOK, Match
  PROVE  /\ pc = "rungs" /\ step' \in 1 .. Rungs * Len(Parts) + 1 /\ sent' \subseteq Legs
         /\ UNCHANGED <<day, edits, env, cfg, cached, client, pc, asks, count, begun, allowed, lost>>
         /\ \/ UNCHANGED <<left, held>>
            \/ \E l \in Legs, x \in Nat \ {0}, told \in BOOLEAN :
                  /\ x <= left[l] /\ Total(Costs(held)) + x <= Wallet
                  /\ left' = [left EXCEPT ![l] = IF told THEN left[l] - x ELSE left[l]]
                  /\ held' = Bought(l, x, told)
<1>1. /\ pc = "rungs"
      /\ UNCHANGED <<day, edits, env, cfg, cached, client, pc, asks, count, begun, allowed, lost>>
      /\ step' = step + 1 /\ MoreSteps
  BY DEF Match, outside, port
<1>2. Leg \in Legs /\ step' \in 1 .. Rungs * Len(Parts) + 1
  BY <1>1, LegInTurn
<1>3. sent' \subseteq Legs
  BY <1>2 DEF Match, TypeOK
<1>4. CASE UNCHANGED <<left, held>>
  BY <1>1, <1>2, <1>3, <1>4
<1>5. CASE ~UNCHANGED <<left, held>>
  <2>1. PICK l \in Legs : l = Leg
    BY <1>2
  <2>2. PICK x \in 0 .. Least(left[l], Wallet - Total(Costs(held))), told \in BOOLEAN :
           /\ left' = [left EXCEPT ![l] = Remains(l, x, told)]
           /\ held' = Bought(l, x, told)
    BY <1>5, <2>1 DEF Match
  <2>3. left[l] \in Nat /\ Total(Costs(held)) \in Int /\ Wallet \in Nat
    <3>1. left \in [Legs -> Nat] /\ held \in Seq(Position)
      BY DEF TypeOK
    <3> QED
      BY <2>1, <3>1, RowTypes, TotalInt, PortAssumption
  <2>4. x \in Nat /\ x <= left[l] /\ x <= Wallet - Total(Costs(held))
    BY <2>2, <2>3 DEF Least
  <2>5. x # 0
    <3> SUFFICES ASSUME x = 0 PROVE FALSE
      OBVIOUS
    <3>1. held' = held
      BY <2>2 DEF Bought
    <3>2. Remains(l, x, told) = left[l]
      BY <2>3 DEF Remains
    <3>3. left' = left
      BY <2>2, <3>2 DEF TypeOK
    <3> QED
      BY <1>5, <3>1, <3>3
  <2>6. x \in Nat \ {0} /\ Total(Costs(held)) + x <= Wallet
    BY <2>3, <2>4, <2>5
  <2> QED
    BY <1>1, <1>2, <1>3, <2>2, <2>4, <2>6 DEF Remains
<1> QED
  BY <1>4, <1>5

\* What an order costs comes off what is left, so the room under the limits stays enough.
LEMMA MatchSpends == SpendInv /\ Match => SpendInv'
<1> SUFFICES ASSUME SpendInv, Match PROVE SpendInv'
  OBVIOUS
<1>0. TypeOK
  BY DEF SpendInv
<1>1. /\ pc = "rungs" /\ step' \in 1 .. Rungs * Len(Parts) + 1 /\ sent' \subseteq Legs
      /\ UNCHANGED <<day, edits, env, cfg, cached, client, pc, asks, count, begun, allowed, lost>>
  BY <1>0, MatchIs
<1>2. CASE UNCHANGED <<left, held>>
  <2>1. TypeOK'
    BY <1>0, <1>1, <1>2 DEF TypeOK
  <2> QED
    BY <1>1, <1>2, <2>1, PlaceKeeps DEF SpendInv
<1>3. CASE ~UNCHANGED <<left, held>>
  <2>1. PICK l \in Legs, x \in Nat \ {0}, told \in BOOLEAN :
                  /\ x <= left[l] /\ Total(Costs(held)) + x <= Wallet
                  /\ left' = [left EXCEPT ![l] = IF told THEN left[l] - x ELSE left[l]]
                  /\ held' = Bought(l, x, told)
    BY <1>0, <1>3, MatchIs
  <2> DEFINE s == held'
             known == IF told THEN x ELSE 0
  <2>2. count \in 1 .. Windows
    BY <1>0, <1>1, PortAssumption DEF SpendInv, Fresh, TypeOK
  <2>3. /\ s \in Seq(Position) /\ OrderedIn(s)
        /\ Total(Costs(s)) = Total(Costs(held)) + x
        /\ Total(Told(s)) = Total(Told(held)) + known
        /\ Total(Of(s, Told(s), count)) = Total(Of(held, Told(held), count)) + known
        /\ Total(Of(s, Tokens(s), count)) <= Len(Parts)
        /\ Total(Besides(s, Tokens(s), count)) = Total(Besides(held, Tokens(held), count))
        /\ \A c \in Int : c # count =>
              /\ Total(Of(s, Told(s), c)) = Total(Of(held, Told(held), c))
              /\ Total(Of(s, Tokens(s), c)) = Total(Of(held, Tokens(held), c))
    <3>1. held \in Seq(Position) /\ Ordered
      BY <1>0 DEF SpendInv, TypeOK
    <3> QED
      BY <2>1, <2>2, <3>1, AfterPurchase
  <2>4. /\ left \in [Legs -> Nat] /\ left' \in [Legs -> Nat] /\ \A i \in Legs : left'[i] <= Parts[i]
        /\ left'[l] = left[l] - known /\ \A i \in Legs : i # l => left'[i] = left[i]
    <3>1. left \in [Legs -> Nat] /\ \A i \in Legs : left[i] <= Parts[i] /\ Parts[i] \in Nat
      BY <1>0, PartsType DEF TypeOK
    <3>2. left[l] \in Nat /\ left[l] - known \in Nat /\ left[l] - known <= left[l] /\ known \in Nat
      BY <2>1, <3>1
    <3>3. left' = [left EXCEPT ![l] = left[l] - known]
      <4>1. left[l] - known = IF told THEN left[l] - x ELSE left[l]
        BY <3>2
      <4> QED
        BY <2>1, <4>1
    <3> HIDE DEF known
    <3>4. /\ left' \in [Legs -> Nat] /\ left'[l] = left[l] - known
          /\ \A i \in Legs : i # l => left'[i] = left[i]
      BY <3>1, <3>2, <3>3
    <3>5. \A i \in Legs : left'[i] <= Parts[i]
      BY <3>1, <3>2, <3>4
    <3> QED
      BY <3>1, <3>4, <3>5
  <2>5. TypeOK'
    BY <1>0, <1>1, <2>1, <2>3, <2>4 DEF TypeOK
  <2>6. Ordered' /\ Fresh'
    <3>1. Ordered'
      BY <1>1, <2>3 DEF Ordered, OrderedIn
    <3>2. Fresh'
      BY <1>1 DEF Fresh, SpendInv
    <3> QED
      BY <3>1, <3>2
  <2>7. Total(left') = Total(left) - known /\ Total(left') \in Nat /\ Total(left) \in Nat
    <3>1. Len(Parts) \in Nat /\ Legs = 1 .. Len(Parts)
      BY PartsType
    <3>2. IsRow(left, Len(Parts)) /\ Total(left) \in Nat
      BY <1>0, LeftType
    <3> DEFINE w == left'
    <3>3. DOMAIN w = 1 .. Len(Parts) /\ \A i \in 1 .. Len(Parts) : w[i] \in Nat
      BY <2>4, <3>1
    <3>4. w[l] = left[l] - known /\ \A i \in 1 .. Len(Parts) : i # l => w[i] = left[i]
      BY <2>4, <3>1
    <3> HIDE DEF w
    <3>5. IsRow(w, Len(Parts)) /\ Total(w) \in Nat
      BY <3>1, <3>3, TotalNat
    <3>6. Total(w) = Total(left) - left[l] + w[l]
      BY <3>1, <3>2, <3>4, <3>5, TotalChanged
    <3>7. left[l] \in Nat /\ known \in Nat
      BY <2>4
    <3> HIDE DEF known
    <3>8. Total(w) = Total(left) - known
      BY <3>2, <3>4, <3>6, <3>7
    <3> QED
      BY <3>2, <3>5, <3>8 DEF w
  <2>8. /\ Total(Of(held, Told(held), count)) + Total(left) <= Budget
        /\ Total(Told(held)) + Total(left) <= cached.cap + Spare + lost.cost
        /\ Total(Besides(held, Tokens(held), count)) < cached.maxOpen + CountSpare + lost.tokens
    BY <1>1 DEF SpendInv, Cleared
  <2>9. known \in Nat /\ Budget \in Int
    BY <2>1, BudgetType
  <2>10. Total(Told(held)) \in Int /\ Total(Of(held, Told(held), count)) \in Int
    <3>1. held \in Seq(Position)
      BY <1>0 DEF TypeOK
    <3> QED
      BY <3>1, RowTypes, PartRows, TotalInt
  <2>11. cached.cap + Spare + lost.cost \in Int
    BY <1>0, LimitsType
  <2> HIDE DEF known, s
  <2>12. /\ Total(Of(s, Told(s), count)) + Total(left') <= Budget
         /\ Total(Told(s)) + Total(left') <= cached.cap + Spare + lost.cost
         /\ Total(Of(s, Told(s), count)) <= Budget
    BY <2>3, <2>7, <2>8, <2>9, <2>10, <2>11
  <2>13. Cleared'
    BY <1>1, <2>3, <2>8, <2>12 DEF Cleared, s
  <2>14. OneWindow'
    <3> SUFFICES ASSUME NEW c \in Int
                 PROVE  /\ Total(Of(s, Told(s), c)) <= Budget
                        /\ Total(Of(s, Tokens(s), c)) <= Len(Parts)
      BY DEF OneWindow, s
    <3>1. CASE c = count
      BY <2>3, <2>12, <3>1
    <3>2. CASE c # count
      BY <2>3, <3>2 DEF SpendInv, OneWindow
    <3> QED
      BY <3>1, <3>2
  <2> QED
    BY <2>5, <2>6, <2>13, <2>14 DEF SpendInv
<1> QED
  BY <1>2, <1>3

-----------------------------------------------------------------------------
(* Theorems *)

LEMMA StepSpends == SpendInv /\ [Next]_vars => SpendInv'
  BY GetPortSpends, PreflightSpends, NoFireSpends, MatchSpends, AroundSpends, ResolveSpends DEF Next

LEMMA SpendInvariant == Spec => []SpendInv
  BY InitSpends, StepSpends, PTL DEF Spec

\* What a window in its rungs leaves at stake.
Stakes ==
    pc = "rungs" =>
        /\ Total(Costs(held)) - Total(Hidden(held)) <= cached.cap + Spare + lost.cost
        /\ Total(Tokens(held))
              < cached.maxOpen + Len(Parts) * (IF Lags THEN 2 ELSE 1) + lost.tokens

LEMMA SpendInvBoundsStakes == SpendInv => Stakes
<1> SUFFICES ASSUME SpendInv, pc = "rungs"
             PROVE  /\ Total(Costs(held)) - Total(Hidden(held)) <= cached.cap + Spare + lost.cost
                    /\ Total(Tokens(held))
                          < cached.maxOpen + Len(Parts) * (IF Lags THEN 2 ELSE 1) + lost.tokens
  BY DEF Stakes
<1> DEFINE n == Len(held)
           ours == Of(held, Tokens(held), count)
           rest == Besides(held, Tokens(held), count)
<1>1. TypeOK /\ held \in Seq(Position) /\ n \in Nat /\ DOMAIN held = 1 .. n /\ count \in Int
  <2>1. TypeOK /\ held \in Seq(Position) /\ count \in 0 .. Windows
    BY DEF SpendInv, TypeOK
  <2> QED
    BY <2>1, PortAssumption
<1>2. /\ IsRow(Costs(held), n) /\ IsRow(Hidden(held), n) /\ IsRow(Told(held), n)
      /\ IsRow(Tokens(held), n) /\ IsRow(ours, n) /\ IsRow(rest, n)
  BY <1>1, RowTypes, PartRows
<1>3. /\ \A i \in 1 .. n : Costs(held)[i] = Told(held)[i] + Hidden(held)[i]
      /\ \A i \in 1 .. n : Tokens(held)[i] = ours[i] + rest[i]
  <2>1. \A i \in 1 .. n : /\ held[i].cost \in Nat /\ held[i].hidden \in Nat
                          /\ Cardinality(held[i].legs) \in Nat
    BY <1>1, PositionType
  <2> QED
    BY <1>1, <2>1 DEF Costs, Told, Hidden, Tokens, Of, Besides
<1> HIDE DEF ours, rest, n
<1>4. Total(Costs(held)) = Total(Told(held)) + Total(Hidden(held))
  <2>1. \A i \in 1 .. n : Costs(held)[i] = Told(held)[i] + Hidden(held)[i]
    BY <1>3
  <2> QED
    BY <1>1, <1>2, <2>1, TotalAdds
<1>5. Total(Tokens(held)) = Total(ours) + Total(rest)
  <2>1. \A i \in 1 .. n : Tokens(held)[i] = ours[i] + rest[i]
    BY <1>3
  <2> QED
    BY <1>1, <1>2, <2>1, TotalAdds
<1>6. /\ Total(Told(held)) \in Int /\ Total(Hidden(held)) \in Int
      /\ Total(ours) \in Int /\ Total(rest) \in Int
  BY <1>1, <1>2, TotalInt
<1>7. /\ Total(Told(held)) + Total(left) <= cached.cap + Spare + lost.cost
      /\ Total(rest) < cached.maxOpen + CountSpare + lost.tokens /\ Total(ours) <= Len(Parts)
  BY <1>1 DEF SpendInv, Cleared, OneWindow, ours, rest
<1>8. /\ Total(left) \in Nat /\ cached.cap + Spare + lost.cost \in Int /\ lost.tokens \in Nat
      /\ cached.maxOpen \in Nat /\ Len(Parts) \in Nat
  BY <1>1, LeftType, LimitsType, PartsType
<1>9. Total(Costs(held)) - Total(Hidden(held)) <= cached.cap + Spare + lost.cost
  BY <1>4, <1>6, <1>7, <1>8
<1>10. CASE Lags
  <2>1. CountSpare = Len(Parts) /\ (IF Lags THEN 2 ELSE 1) = 2
    BY <1>10 DEF CountSpare
  <2>2. Total(Tokens(held)) < cached.maxOpen + Len(Parts) * 2 + lost.tokens
    BY <1>5, <1>6, <1>7, <1>8, <2>1
  <2> QED
    BY <1>9, <2>1, <2>2
<1>11. CASE ~Lags
  <2>1. CountSpare = 0 /\ (IF Lags THEN 2 ELSE 1) = 1
    BY <1>11 DEF CountSpare
  <2>2. Total(Tokens(held)) < cached.maxOpen + Len(Parts) * 1 + lost.tokens
    BY <1>5, <1>6, <1>7, <1>8, <2>1
  <2> QED
    BY <1>9, <2>1, <2>2
<1> QED
  BY <1>10, <1>11

\* Only an order puts more at stake: what is resolved, or lost with the process, does not.
LEMMA OnlyMatchSpends ==
  ASSUME SpendInv, [Next]_vars, Total(Costs(held')) > Total(Costs(held))
  PROVE  Match
<1>1. held' # held
  <2> SUFFICES ASSUME held' = held PROVE FALSE
    OBVIOUS
  <2>1. held \in Seq(Position)
    BY DEF SpendInv, TypeOK
  <2>2. Total(Costs(held)) \in Int
    BY <2>1, RowTypes, TotalInt
  <2> QED
    BY <2>2
<1>2. Match \/ Resolve
  BY <1>1 DEF Next, vars, window, GetPort, Preflight, Unreadable, Close, Edit, NewDay, Restart
<1>3. CASE Resolve
  <2>1. PICK k \in DOMAIN held : held' = RemoveAt(held, k)
    BY <1>3 DEF Resolve
  <2> DEFINE n == Len(held)
             s == held'
  <2>2. held \in Seq(Position) /\ n \in Nat /\ DOMAIN held = 1 .. n /\ k \in 1 .. n
    <3>1. held \in Seq(Position)
      BY DEF SpendInv, TypeOK
    <3>2. n \in Nat /\ DOMAIN held = 1 .. n
      BY <3>1
    <3> QED
      BY <2>1, <3>1, <3>2
  <2>3. /\ RemoveAt(held, k) \in Seq(Position) /\ Len(RemoveAt(held, k)) = n - 1
        /\ \A i \in 1 .. n - 1 : RemoveAt(held, k)[i] = IF i < k THEN held[i] ELSE held[i + 1]
    BY <2>2, RemoveAtIs
  <2>4. /\ s \in Seq(Position) /\ Len(s) = n - 1
        /\ \A i \in 1 .. n - 1 : s[i] = IF i < k THEN held[i] ELSE held[i + 1]
    BY <2>1, <2>3
  <2> HIDE DEF s, n
  <2>5. DOMAIN s = 1 .. n - 1
    BY <2>4
  <2>6. IsRow(Costs(s), n - 1) /\ IsRow(Costs(held), n)
    BY <2>2, <2>4, RowTypes DEF n
  <2>7. \A i \in 1 .. n - 1 : i \in 1 .. n /\ i + 1 \in 1 .. n
    BY <2>2
  <2>8. \A i \in 1 .. n - 1 : Costs(s)[i] = IF i < k THEN Costs(held)[i] ELSE Costs(held)[i + 1]
    BY <2>2, <2>4, <2>5, <2>7 DEF Costs
  <2>9. Total(Costs(s)) = Total(Costs(held)) - Costs(held)[k]
    BY <2>2, <2>6, <2>8, TotalRemoved
  <2>10. Costs(held)[k] \in Nat
    BY <2>2, PositionType DEF Costs, n
  <2>11. Total(Costs(held)) \in Int
    BY <2>2, <2>6, TotalInt
  <2>12. ~(Total(Costs(s)) > Total(Costs(held)))
    BY <2>9, <2>10, <2>11
  <2> QED
    BY <2>12 DEF s
<1> QED
  BY <1>2, <1>3

\* Types: the phases of a window, its rungs and legs, and no position is ever paid for
\* with more than the wallet holds.
THEOREM PortTypeCorrect == Spec => []TypeOK
<1>1. SpendInv => TypeOK
  BY DEF SpendInv
<1> QED
  BY <1>1, SpendInvariant, PTL

\* Whatever was bought, resolved or restarted before, however late the account shows it
\* and whatever it is worth by then, an order that the limits let through leaves no more at
\* stake than they allow, what the positions had lost aside.
THEOREM SpendsNoMoreThanItsLimits == Spec => SpendsWithinLimits
<1>1. SpendInv /\ Stakes' /\ [Next]_vars =>
        [Total(Costs(held')) > Total(Costs(held)) =>
           /\ Total(Costs(held')) - Total(Hidden(held')) <= cached.cap + Spare + lost.cost
           /\ Total(Tokens(held'))
                 < cached.maxOpen + Len(Parts) * (IF Lags THEN 2 ELSE 1) + lost.tokens]_vars
  <2> SUFFICES ASSUME SpendInv, Stakes', [Next]_vars, Total(Costs(held')) > Total(Costs(held))
               PROVE  /\ Total(Costs(held')) - Total(Hidden(held'))
                            <= cached.cap + Spare + lost.cost
                      /\ Total(Tokens(held'))
                            < cached.maxOpen + Len(Parts) * (IF Lags THEN 2 ELSE 1) + lost.tokens
    OBVIOUS
  <2>1. Match
    BY OnlyMatchSpends
  <2>2. pc' = "rungs" /\ cached' = cached /\ lost' = lost
    BY <2>1 DEF Match, port
  <2> QED
    BY <2>2 DEF Stakes, Spare
<1>2. Spec => []Stakes
  BY SpendInvBoundsStakes, SpendInvariant, PTL
<1> QED
  BY <1>1, <1>2, SpendInvariant, PTL DEF Spec, SpendsWithinLimits
=============================================================================
