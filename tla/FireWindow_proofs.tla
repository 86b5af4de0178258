-------------------------- MODULE FireWindow_proofs --------------------------
(***************************************************************************)
(* That a live window loses no fill and takes no more than it was sized    *)
(* for, and that a paper window takes what is quoted, for every number of  *)
(* legs, every size, book, cap, budget and bound on polls and cancels.  On *)
(* the legs outside RestsPartly the venue voids the remainder of a         *)
(* fill-and-kill order.                                                    *)
(***************************************************************************)
EXTENDS FireWindow, FoldFacts

InFlight(l, r) == pc \in {"poll", "cancel"} /\ l = leg /\ r = rung

\* A place of the ladder the window has not reached holds no order.
Ahead(l, r) == \/ pc = "open"
               \/ r > rung
               \/ r = rung /\ l > leg
               \/ r = rung /\ l = leg /\ pc = "leg"

\* What is known of each order.
OrderOK(l, r) ==
    /\ Ahead(l, r) => orders[l][r].st = "none"
    /\ l \notin RestsPartly /\ orders[l][r].st \in {"none", "live"} => orders[l][r].got = 0
    /\ orders[l][r].st # "closed" => orders[l][r].got <= orders[l][r].size
    /\ InFlight(l, r) => ~orders[l][r].risk /\ orders[l][r].size > 0
    /\ orders[l][r].st = "live" /\ ~orders[l][r].risk
         /\ (l \in RestsPartly => orders[l][r].got < orders[l][r].size)
          => InFlight(l, r) \/ pc = "raised"
OrderInv == \A l \in Legs, r \in Rungs : OrderOK(l, r)

\* An order counts once its leg has returned without a risk.
Counted(l, r) == IF orders[l][r].risk \/ InFlight(l, r) THEN 0 ELSE orders[l][r].got
Accounted == pc # "raised" =>
    \A l \in Legs \ RestsPartly : booked[l] = Counted(l, 1) + Counted(l, 2) + Counted(l, 3)

IInv == TypeOK /\ OrderInv /\ Accounted

LEMMA Products == \A a, b \in Nat : a * b \in Nat
  OBVIOUS

LEMMA Quotients == \A a \in Nat, b \in Nat \ {0} : a \div b \in Nat
  OBVIOUS

LEMMA HeadType ==
  ASSUME NEW R, NEW s \in Seq(R), s # <<>>
  PROVE  Head(s) \in R
  OBVIOUS

\* A limit price is a natural number whenever there is an ask.
LEMMA LimitType ==
  ASSUME TypeOK, Sends(leg)
  PROVE  Limit(leg) \in Nat
<1> DEFINE a == Head(book[leg]).px
           p == Lesser(a + Tick * ExtraTicks, Cap[leg])
<1>1. a \in Nat
  <2>1. book[leg] \in Seq([px : Nat, size : Nat]) /\ book[leg] # <<>>
    BY DEF TypeOK, Sends
  <2>2. Head(book[leg]) \in [px : Nat, size : Nat]
    BY <2>1, HeadType
  <2> QED
    BY <2>2
<1>2. Tick * ExtraTicks \in Nat
  BY WindowAssumption, Products DEF ExtraTicks, LadderMs
<1>3. Cap[leg] \in Nat
  BY WindowAssumption DEF TypeOK
<1>4. p \in Nat
  BY <1>1, <1>2, <1>3 DEF Lesser
<1>5. p \div Tick \in Nat
  BY <1>4, Quotients, WindowAssumption
<1>6. (p \div Tick) * Tick \in Nat
  BY <1>5, Products, WindowAssumption
<1> QED
  BY <1>6 DEF Limit, CapPrice

\* NextLeg moves within the ladder, and only to a place nothing was sent to.
LEMMA NextLegMoves ==
  ASSUME TypeOK, NextLeg
  PROVE  /\ leg' \in Legs /\ rung' \in Rungs /\ pc' \in {"leg", "fund"}
         /\ pc' = "leg" => rung' > rung \/ (rung' = rung /\ leg' > leg)
         /\ pc' = "fund" => rung' = rung /\ leg' = leg
<1>0. NLegs \in Nat \ {0} /\ leg \in 1 .. NLegs /\ rung \in 1 .. 3
  BY WindowAssumption DEF TypeOK, Legs, Rungs
<1>1. CASE leg < NLegs /\ leg' = leg + 1 /\ rung' = rung /\ pc' = "leg"
  BY <1>0, <1>1 DEF Legs, Rungs
<1>2. CASE leg = NLegs /\ ~LastRung /\ leg' = 1 /\ rung' = rung + 1 /\ pc' = "leg"
  <2>1. PICK r \in Rungs : r > rung
    BY <1>2 DEF LastRung
  <2> QED
    BY <1>0, <1>2, <2>1 DEF Legs, Rungs
<1>3. CASE leg = NLegs /\ LastRung /\ pc' = "fund" /\ UNCHANGED <<leg, rung>>
  BY <1>3 DEF TypeOK
<1> QED
  BY <1>1, <1>2, <1>3 DEF NextLeg

\* Writing the current order changes no other.
LEMMA SetOrderMeaning ==
  ASSUME TypeOK, NEW o \in Order, SetOrder(o)
  PROVE  /\ orders' \in [Legs -> [Rungs -> Order]]
         /\ orders'[leg][rung] = o
         /\ \A l \in Legs, r \in Rungs :
               l # leg \/ r # rung => orders'[l][r] = orders[l][r]
  BY DEF TypeOK, SetOrder

\* A report adds natural numbers to the fills, opening of the current leg.
LEMMA ReportMeaning ==
  ASSUME TypeOK, NEW got \in Nat, NEW paid \in Nat, Report(got, paid)
  PROVE  /\ remaining' \in [Legs -> Nat] /\ booked' \in [Legs -> Nat]
         /\ cost' \in [Legs -> Nat]
         /\ booked'[leg] = booked[leg] + got
         /\ \A l \in Legs : l # leg => booked'[l] = booked[l]
<1>1. Current.size \in Nat
  BY DEF TypeOK, Current, Order
<1>2. Unfilled(Current.size, got) \in Nat
  BY <1>1 DEF Unfilled
<1> QED
  BY <1>2 DEF TypeOK, Report

\* The order an intent becomes at the venue.
LEMMA LandedType ==
  ASSUME TypeOK, Sends(leg), NEW b \in BOOLEAN
  PROVE  /\ Landed(b) \in Order /\ Landed(b).st = "live" /\ Landed(b).got = 0
         /\ Landed(b).risk = b /\ Landed(b).size > 0
         /\ Landed(b).got <= Landed(b).size
<1>1. remaining[leg] \in Nat /\ remaining[leg] > 0
  BY DEF TypeOK, Sends
<1> QED
  BY <1>1, LimitType DEF Landed, Order

\* Submitting an order, whatever comes back.
LEMMA SubmitKeepsInv ==
  ASSUME IInv, Submits, NotTaken \/ OrderTaken \/ AnswerLost \/ SubmitRaises
  PROVE  IInv'
<1> USE DEF IInv
<1>1. leg \in Legs /\ rung \in Rungs /\ pc = "leg" /\ orders[leg][rung].st = "none"
  BY DEF Submits, OrderInv, OrderOK, Ahead, TypeOK
<1>2. CASE NotTaken
  <2>1. TypeOK'
    BY <1>2, NextLegMoves DEF NotTaken, TypeOK, fills, opening
  <2>2. OrderInv'
    BY <1>1, <1>2, NextLegMoves DEF NotTaken, OrderInv, OrderOK, Ahead, InFlight, Legs, Rungs
  <2>3. Accounted'
    BY <1>1, <1>2, NextLegMoves DEF NotTaken, Accounted, Counted, InFlight, fills, opening
  <2> QED
    BY <2>1, <2>2, <2>3
<1> DEFINE Writes(o) ==
        /\ orders' \in [Legs -> [Rungs -> Order]]
        /\ orders'[leg][rung] = o
        /\ \A l \in Legs, r \in Rungs :
              l # leg \/ r # rung => orders'[l][r] = orders[l][r]
<1> DEFINE Fresh(o, b) == o.st = "live" /\ o.got = 0 /\ o.risk = b /\ o.size > 0 /\ o.got <= o.size
<1>3. CASE OrderTaken
  <2>1. PICK o \in Order : Writes(o) /\ Fresh(o, FALSE)
    <3>1. Landed(FALSE) \in Order /\ Fresh(Landed(FALSE), FALSE)
      BY LandedType DEF Submits
    <3> QED
      BY <1>3, <3>1, SetOrderMeaning DEF OrderTaken
  <2>2. /\ pc' = "poll" /\ polls' = 0 /\ tries' = 0
        /\ UNCHANGED <<leg, rung, book, port, quoted, remaining, booked, cost>>
    BY <1>3 DEF OrderTaken, fills, opening
  <2>3. 0 \in 0 .. Polls /\ 0 \in 0 .. Cancels
    BY WindowAssumption
  <2>4. TypeOK'
    BY <2>1, <2>2, <2>3 DEF TypeOK
  <2>5. OrderInv'
    <3> SUFFICES ASSUME NEW l \in Legs, NEW r \in Rungs PROVE OrderOK(l, r)'
      BY DEF OrderInv
    <3>1. CASE l = leg /\ r = rung
      BY <1>1, <2>1, <2>2, <3>1 DEF OrderOK, Ahead, InFlight, Legs, Rungs
    <3>2. CASE l # leg \/ r # rung
      <4>1. orders'[l][r] = orders[l][r] /\ OrderOK(l, r) /\ ~InFlight(l, r)
        BY <2>1, <3>2 DEF OrderInv, InFlight
      <4> QED
        BY <1>1, <2>1, <2>2, <3>2, <4>1 DEF OrderOK, Ahead, InFlight, Legs, Rungs
    <3> QED
      BY <3>1, <3>2
  <2>6. Accounted'
    BY <1>1, <2>1, <2>2 DEF Accounted, Counted, InFlight, OrderInv, OrderOK, Rungs
  <2> QED
    BY <2>4, <2>5, <2>6
<1>4. CASE AnswerLost
  <2>1. PICK o \in Order : Writes(o) /\ Fresh(o, TRUE)
    <3>1. Landed(TRUE) \in Order /\ Fresh(Landed(TRUE), TRUE)
      BY LandedType DEF Submits
    <3> QED
      BY <1>4, <3>1, SetOrderMeaning DEF AnswerLost
  <2>2. NextLeg /\ UNCHANGED <<book, port, quoted, remaining, booked, cost, polls, tries>>
    BY <1>4 DEF AnswerLost, fills, opening
  <2>3. TypeOK'
    BY <2>1, <2>2, NextLegMoves DEF TypeOK
  <2>4. OrderInv'
    <3> SUFFICES ASSUME NEW l \in Legs, NEW r \in Rungs PROVE OrderOK(l, r)'
      BY DEF OrderInv
    <3>1. CASE l = leg /\ r = rung
      BY <1>1, <2>1, <2>2, NextLegMoves, <3>1 DEF OrderOK, Ahead, InFlight, Legs, Rungs
    <3>2. CASE l # leg \/ r # rung
      <4>1. orders'[l][r] = orders[l][r] /\ OrderOK(l, r) /\ ~InFlight(l, r)
        BY <2>1, <3>2 DEF OrderInv, InFlight
      <4> QED
        BY <1>1, <2>1, <2>2, NextLegMoves, <3>2, <4>1 DEF OrderOK, Ahead, InFlight, Legs, Rungs
    <3> QED
      BY <3>1, <3>2
  <2>5. Accounted'
    BY <1>1, <2>1, <2>2, NextLegMoves DEF Accounted, Counted, InFlight, OrderInv, OrderOK, Rungs
  <2> QED
    BY <2>3, <2>4, <2>5
<1>5. CASE SubmitRaises
  <2>1. pc' = "raised" /\ UNCHANGED <<leg, rung, book, port, quoted, remaining, booked, cost,
                                      polls, tries>>
    BY <1>5 DEF SubmitRaises, fills, opening
  <2>2. CASE UNCHANGED orders
    BY <1>1, <2>1, <2>2 DEF TypeOK, OrderInv, OrderOK, Accounted, Ahead, InFlight, Final
  <2>3. CASE SetOrder(Landed(FALSE))
    <3>1. PICK o \in Order : Writes(o) /\ Fresh(o, FALSE)
      <4>1. Landed(FALSE) \in Order /\ Fresh(Landed(FALSE), FALSE)
        BY LandedType DEF Submits
      <4> QED
        BY <2>3, <4>1, SetOrderMeaning
    <3>2. TypeOK'
      BY <2>1, <3>1 DEF TypeOK, Final
    <3>3. OrderInv'
      <4> SUFFICES ASSUME NEW l \in Legs, NEW r \in Rungs PROVE OrderOK(l, r)'
        BY DEF OrderInv
      <4>1. CASE l = leg /\ r = rung
        BY <1>1, <3>1, <2>1, <4>1 DEF OrderOK, Ahead, InFlight, Legs, Rungs
      <4>2. CASE l # leg \/ r # rung
        <5>1. orders'[l][r] = orders[l][r] /\ OrderOK(l, r) /\ ~InFlight(l, r)
          BY <3>1, <4>2 DEF OrderInv, InFlight
        <5> QED
          BY <1>1, <3>1, <2>1, <4>2, <5>1 DEF OrderOK, Ahead, InFlight, Legs, Rungs
      <4> QED
        BY <4>1, <4>2
    <3> QED
      BY <2>1, <3>2, <3>3 DEF Accounted
  <2> QED
    BY <1>5, <2>2, <2>3 DEF SubmitRaises
<1> QED
  BY <1>2, <1>3, <1>4, <1>5

\* The steps that touch no order and no fill.
LEMMA QuietStepsKeepInv ==
  ASSUME IInv, PassPreflight \/ FailPreflight \/ SkipLeg \/ Fund
  PROVE  IInv'
<1> USE DEF IInv
<1>1. CASE PassPreflight \/ FailPreflight
  <2>1. pc = "open" /\ pc' \in {"leg", "refused"}
        /\ UNCHANGED <<leg, rung, book, port, quoted, remaining, booked, cost, orders,
                       polls, tries>>
    BY <1>1 DEF PassPreflight, FailPreflight, fills, opening
  <2>2. TypeOK'
    BY <2>1 DEF TypeOK, Final
  <2>3. OrderInv'
    BY <2>1 DEF OrderInv, OrderOK, Ahead, InFlight
  <2>4. Accounted'
    BY <2>1 DEF Accounted, Counted, InFlight
  <2> QED
    BY <2>2, <2>3, <2>4
<1>2. CASE SkipLeg
  <2>1. NextLeg /\ pc = "leg"
        /\ UNCHANGED <<book, port, quoted, remaining, booked, cost, orders, polls, tries>>
    BY <1>2 DEF SkipLeg, fills, opening
  <2>2. TypeOK'
    BY <2>1, NextLegMoves DEF TypeOK
  <2>3. OrderInv'
    <3> SUFFICES ASSUME NEW l \in Legs, NEW r \in Rungs PROVE OrderOK(l, r)'
      BY DEF OrderInv
    <3>1. OrderOK(l, r) /\ orders'[l][r] = orders[l][r]
      BY <2>1 DEF OrderInv
    <3>2. leg \in 1 .. NLegs /\ rung \in 1 .. 3 /\ l \in 1 .. NLegs /\ r \in 1 .. 3
      BY DEF TypeOK, Legs, Rungs
    <3>3. Ahead(l, r)' => Ahead(l, r)
      <4>1. /\ leg' \in 1 .. NLegs /\ rung' \in 1 .. 3 /\ pc' \in {"leg", "fund"}
            /\ pc' = "leg" => rung' > rung \/ (rung' = rung /\ leg' > leg)
            /\ pc' = "fund" => rung' = rung /\ leg' = leg
        BY <2>1, NextLegMoves DEF Legs, Rungs
      <4>2. NLegs \in Nat
        BY WindowAssumption
      <4> QED
        BY <2>1, <3>2, <4>1, <4>2 DEF Ahead
    <3> QED
      BY <2>1, <3>1, <3>3, NextLegMoves DEF OrderOK, InFlight
  <2>4. Accounted'
    BY <2>1, NextLegMoves DEF Accounted, Counted, InFlight
  <2> QED
    BY <2>2, <2>3, <2>4
<1>3. CASE Fund
  BY <1>3 DEF Fund, fills, opening, TypeOK, Final, OrderInv, OrderOK, Ahead, InFlight,
              Accounted, Counted
<1> QED
  BY <1>1, <1>2, <1>3

\* The poll ends the leg with the fill of a closed order, which is exact, or hands an
\* order of unknown fate to the cancel with nothing booked.
LEMMA PollKeepsInv ==
  ASSUME IInv, PollAnswered \/ PollPending \/ PollFails
  PROVE  IInv'
<1> USE DEF IInv
<1> DEFINE o == orders[leg][rung]
<1>1. /\ leg \in Legs /\ rung \in Rungs /\ pc = "poll" /\ o \in Order
      /\ ~o.risk /\ o.size > 0
      /\ (leg \notin RestsPartly /\ o.st \in {"none", "live"} => o.got = 0)
      /\ (o.st # "closed" => o.got <= o.size)
  BY DEF PollAnswered, PollPending, PollFails, OrderInv, OrderOK, InFlight, TypeOK
<1>2. o.got \in Nat /\ o.px \in Nat /\ o.limit \in Nat /\ o.size \in Nat
  BY <1>1 DEF Order
<1>3. CASE PollAnswered
  <2>1. PICK avg \in Averages(Current) : Report(o.got, o.got * avg)
    BY <1>3 DEF PollAnswered, Current
  <2>2. o.got * avg \in Nat
    BY <1>2, <2>1, Products DEF Averages, Current
  <2>3. NextLeg /\ UNCHANGED <<book, port, quoted, orders, polls, tries>>
    BY <1>3 DEF PollAnswered, opening
  <2>4. /\ remaining' \in [Legs -> Nat] /\ booked' \in [Legs -> Nat]
        /\ cost' \in [Legs -> Nat] /\ booked'[leg] = booked[leg] + o.got
        /\ \A l \in Legs : l # leg => booked'[l] = booked[l]
    BY <1>2, <2>1, <2>2, ReportMeaning
  <2>5. o.st = "live" => leg \in RestsPartly /\ o.got = o.size
    BY <1>1, <1>3 DEF PollAnswered, Terminal, Current
  <2>6. TypeOK'
    BY <2>3, <2>4, NextLegMoves DEF TypeOK
  <2>7. OrderInv'
    BY <1>1, <1>2, <2>3, <2>5, NextLegMoves
    DEF OrderInv, OrderOK, Ahead, InFlight, Legs, Rungs
  <2>8. Accounted'
    <3> SUFFICES ASSUME NEW l \in Legs \ RestsPartly
                 PROVE  booked'[l] = Counted(l, 1)' + Counted(l, 2)' + Counted(l, 3)'
      BY DEF Accounted
    <3>1. booked[l] = Counted(l, 1) + Counted(l, 2) + Counted(l, 3)
      BY <1>1 DEF Accounted
    <3>2. \A r \in Rungs : orders[l][r].got \in Nat
      BY DEF TypeOK, Order
    <3>3. CASE l # leg
      BY <1>1, <2>3, <2>4, <3>1, <3>3, NextLegMoves DEF Counted, InFlight
    <3>4. CASE l = leg
      <4>1. \A r \in Rungs : Counted(l, r)' = IF r = rung THEN o.got ELSE Counted(l, r)
        BY <1>1, <2>3, <3>4, NextLegMoves DEF Counted, InFlight
      <4>2. Counted(l, rung) = 0
        BY <1>1, <3>4 DEF Counted, InFlight
      <4>3. \A r \in Rungs : Counted(l, r) \in Nat
        BY <3>2 DEF Counted
      <4>4. rung = 1 \/ rung = 2 \/ rung = 3
        BY <1>1 DEF Rungs
      <4> QED
        BY <1>2, <2>4, <3>1, <3>4, <4>1, <4>2, <4>3, <4>4 DEF Rungs
    <3> QED
      BY <3>3, <3>4
  <2> QED
    BY <2>6, <2>7, <2>8
<1>4. ASSUME NEW seen \in {0, o.got}, leg \notin RestsPartly => seen = 0,
             Report(seen, 0), pc' \in {"poll", "cancel"}, polls' \in 0 .. Polls,
             UNCHANGED <<leg, rung, book, port, quoted, orders, tries>>
      PROVE  IInv'
  <2>1. /\ remaining' \in [Legs -> Nat] /\ booked' \in [Legs -> Nat]
        /\ cost' \in [Legs -> Nat] /\ booked'[leg] = booked[leg] + seen
        /\ \A l \in Legs : l # leg => booked'[l] = booked[l]
    BY <1>2, <1>4, ReportMeaning
  <2>2. \A l \in Legs \ RestsPartly : booked'[l] = booked[l]
    BY <1>4, <2>1 DEF TypeOK
  <2>3. TypeOK'
    BY <1>4, <2>1 DEF TypeOK
  <2>4. OrderInv'
    BY <1>1, <1>4 DEF OrderInv, OrderOK, Ahead, InFlight
  <2>5. Accounted'
    BY <1>1, <1>4, <2>2 DEF Accounted, Counted, InFlight
  <2> QED
    BY <2>3, <2>4, <2>5
<1>5. CASE PollPending
  <2>1. PICK seen \in {0, o.got} :
          /\ seen > 0 => ~Terminal(o)
          /\ IF polls' < Polls
             THEN UNCHANGED <<window, fills>>
             ELSE /\ Report(seen, 0)
                  /\ IF seen < o.size THEN pc' = "cancel" /\ UNCHANGED <<leg, rung>>
                     ELSE NextLeg
    BY <1>5 DEF PollPending, Current
  <2>2. polls' \in 0 .. Polls /\ UNCHANGED <<book, port, quoted, orders, tries>>
    BY <1>5, WindowAssumption DEF PollPending, TypeOK, opening
  <2>3. o.st = "live" \/ o.st = "none" \/ o.st = "closed"
    BY <1>1 DEF Order
  <2>6. (leg \notin RestsPartly => seen = 0) /\ seen < o.size
    BY <1>1, <1>2, <2>1, <2>3 DEF Terminal
  <2>4. CASE polls' < Polls
    BY <1>1, <2>1, <2>2, <2>4
    DEF window, fills, opening, TypeOK, OrderInv, OrderOK, Ahead, InFlight, Accounted, Counted
  <2>5. CASE ~(polls' < Polls)
    BY <1>4, <2>1, <2>2, <2>5, <2>6
  <2> QED
    BY <2>4, <2>5
<1>6. CASE PollFails
  BY <1>1, <1>4, <1>6 DEF PollFails, TypeOK, opening
<1> QED
  BY <1>3, <1>5, <1>6

\* A cancel closes an order that bought nothing, or leaves it at risk.
LEMMA CancelKeepsInv ==
  ASSUME IInv, CancelConfirmed \/ CancelFails
  PROVE  IInv'
<1> USE DEF IInv
<1>1. /\ leg \in Legs /\ rung \in Rungs /\ pc = "cancel"
      /\ orders[leg][rung] \in Order /\ Current = orders[leg][rung]
      /\ ~Current.risk /\ Current.size > 0
      /\ leg \notin RestsPartly /\ Current.st \in {"none", "live"} => Current.got = 0
      /\ Current.st # "closed" => Current.got <= Current.size
  BY DEF CancelConfirmed, CancelFails, OrderInv, OrderOK, InFlight, TypeOK, Current
<1> DEFINE Writes(o) ==
        /\ orders' \in [Legs -> [Rungs -> Order]]
        /\ orders'[leg][rung] = o
        /\ \A l \in Legs, r \in Rungs :
              l # leg \/ r # rung => orders'[l][r] = orders[l][r]
\* The leg returns with an order that is closed with nothing bought, or at risk.
<1>2. ASSUME NEW o \in Order, Writes(o), NextLeg, tries' \in 0 .. Cancels,
             leg \notin RestsPartly /\ o.st \in {"none", "live"} => o.got = 0,
             o.st # "closed" => o.got <= o.size,
             o.risk \/ o.st = "closed",
             leg \notin RestsPartly => o.risk \/ o.got = 0,
             UNCHANGED <<book, port, quoted, remaining, booked, cost, polls>>
      PROVE  IInv'
  <2>1. TypeOK'
    BY <1>2, NextLegMoves DEF TypeOK
  <2>2. OrderInv'
    <3> SUFFICES ASSUME NEW l \in Legs, NEW r \in Rungs PROVE OrderOK(l, r)'
      BY DEF OrderInv
    <3>1. CASE l = leg /\ r = rung
      BY <1>1, <1>2, <3>1, NextLegMoves DEF OrderOK, Ahead, InFlight, Legs, Rungs
    <3>2. CASE l # leg \/ r # rung
      <4>1. orders'[l][r] = orders[l][r] /\ OrderOK(l, r) /\ ~InFlight(l, r)
        BY <1>2, <3>2 DEF OrderInv, InFlight
      <4> QED
        BY <1>1, <1>2, <3>2, <4>1, NextLegMoves DEF OrderOK, Ahead, InFlight, Legs, Rungs
    <3> QED
      BY <3>1, <3>2
  <2>3. \A l \in Legs \ RestsPartly, r \in Rungs : Counted(l, r)' = Counted(l, r)
    BY <1>1, <1>2, NextLegMoves DEF Counted, InFlight
  <2>4. Accounted'
    BY <1>1, <1>2, <2>3 DEF Accounted, Rungs
  <2> QED
    BY <2>1, <2>2, <2>4
<1>3. CASE CancelConfirmed
  <2> DEFINE o == [Current EXCEPT !.st = "closed"]
  <2>1. o \in Order /\ o.st = "closed" /\ (leg \notin RestsPartly => o.got = 0)
    BY <1>1, <1>3 DEF CancelConfirmed, Order
  <2>2. Writes(o)
    BY <1>3, <2>1, SetOrderMeaning DEF CancelConfirmed
  <2>3. NextLeg /\ tries' \in 0 .. Cancels
        /\ UNCHANGED <<book, port, quoted, remaining, booked, cost, polls>>
    BY <1>3 DEF CancelConfirmed, fills, opening, TypeOK
  <2> HIDE DEF o
  <2> QED
    BY <1>2, <2>1, <2>2, <2>3
<1>4. CASE CancelFails
  <2>1. tries' \in Nat /\ UNCHANGED <<book, port, quoted, remaining, booked, cost, polls>>
    BY <1>4 DEF CancelFails, fills, opening, TypeOK
  <2>2. PICK st \in {Current.st, "closed"} :
          LET o == [Current EXCEPT !.st = st]
          IN  IF tries' < Cancels THEN SetOrder(o) /\ UNCHANGED window
                                  ELSE SetOrder(GiveUp(o)) /\ NextLeg
    BY <1>4 DEF CancelFails
  <2> DEFINE o == [Current EXCEPT !.st = st]
  <2>3. o \in Order /\ ~o.risk /\ o.size > 0 /\ o.st \in {Current.st, "closed"}
        /\ o.got = Current.got /\ o.size = Current.size
        /\ (leg \notin RestsPartly /\ o.st \in {"none", "live"} => o.got = 0)
        /\ (o.st # "closed" => o.got <= o.size)
    BY <1>1, <2>2 DEF Order
  <2>4. CASE tries' < Cancels
    <3>1. Writes(o)
      BY <2>2, <2>3, <2>4, SetOrderMeaning
    <3>2. UNCHANGED <<pc, leg, rung>>
      BY <2>2, <2>4 DEF window
    <3>3. tries' \in 0 .. Cancels
      BY <2>1, <2>4, WindowAssumption
    <3> HIDE DEF o
    <3>4. TypeOK'
      BY <2>1, <3>1, <3>2, <3>3 DEF TypeOK
    <3>5. OrderInv'
      <4> SUFFICES ASSUME NEW l \in Legs, NEW r \in Rungs PROVE OrderOK(l, r)'
        BY DEF OrderInv
      <4>1. CASE l = leg /\ r = rung
        BY <1>1, <2>3, <3>1, <3>2, <4>1 DEF OrderOK, Ahead, InFlight, Legs, Rungs
      <4>2. CASE l # leg \/ r # rung
        BY <3>1, <3>2, <4>2 DEF OrderInv, OrderOK, Ahead, InFlight
      <4> QED
        BY <4>1, <4>2
    <3>6. Accounted'
      <4>1. \A l \in Legs \ RestsPartly, r \in Rungs : Counted(l, r)' = Counted(l, r)
        BY <1>1, <3>1, <3>2 DEF Counted, InFlight
      <4> QED
        BY <1>1, <2>1, <3>2, <4>1 DEF Accounted, Rungs
    <3> QED
      BY <3>4, <3>5, <3>6
  <2>5. CASE ~(tries' < Cancels)
    <3> DEFINE p == GiveUp(o)
    <3>1. p \in Order /\ p.risk /\ p.st = o.st /\ p.got = o.got /\ p.size = o.size
      BY <2>3 DEF GiveUp, Order
    <3>2. Writes(p) /\ NextLeg
      BY <2>2, <2>5, <3>1, SetOrderMeaning
    <3>3. tries' \in 0 .. Cancels
      <4>1. tries \in 0 .. Cancels /\ tries < Cancels /\ tries' = tries + 1
            /\ Cancels \in Nat
        BY <1>4, WindowAssumption DEF CancelFails, TypeOK
      <4> QED
        BY <2>5, <4>1
    <3> HIDE DEF p
    <3> QED
      BY <1>2, <2>1, <2>3, <3>1, <3>2, <3>3
  <2> QED
    BY <2>4, <2>5
<1> QED
  BY <1>3, <1>4

\* The venue acts on an order that is in flight or already reported: no count moves.
LEMMA VenueKeepsInv ==
  ASSUME IInv, NEW l \in Legs, NEW r \in Rungs, VenueCloses(l, r)
  PROVE  IInv'
<1> USE DEF IInv
<1>1. /\ orders[l][r] \in Order /\ orders[l][r].st = "live"
      /\ UNCHANGED <<pc, leg, rung, book, port, quoted, remaining, booked, cost, polls, tries>>
  BY DEF VenueCloses, window, fills, opening, TypeOK
<1>0. PICK px \in 1 .. orders[l][r].limit : \E g \in Affordable(orders[l][r], px) :
        orders' = [orders EXCEPT ![l][r] = [@ EXCEPT !.st = "closed", !.got = g, !.px = px]]
  BY DEF VenueCloses
<1>2. PICK g \in Affordable(orders[l][r], px) :
        orders' = [orders EXCEPT ![l][r] = [@ EXCEPT !.st = "closed", !.got = g, !.px = px]]
  BY <1>0
<1>3. g \in Nat /\ px \in Nat
  <2>1. orders[l][r].got \in Nat /\ orders[l][r].limit \in Nat /\ orders[l][r].size \in Nat
    BY <1>1 DEF Order
  <2>2. orders[l][r].size * orders[l][r].limit \in Nat
    BY <2>1, Products
  <2> QED
    BY <1>0, <1>2, <2>1, <2>2 DEF Affordable
<1> DEFINE o == [orders[l][r] EXCEPT !.st = "closed", !.got = g, !.px = px]
<1>4. o \in Order /\ o.st = "closed" /\ o.risk = orders[l][r].risk
      /\ o.size = orders[l][r].size
  BY <1>1, <1>3 DEF Order
<1>5. /\ orders' \in [Legs -> [Rungs -> Order]] /\ orders'[l][r] = o
      /\ \A k \in Legs, q \in Rungs : k # l \/ q # r => orders'[k][q] = orders[k][q]
  BY <1>2, <1>4 DEF TypeOK
<1> HIDE DEF o
<1>6. TypeOK'
  BY <1>1, <1>5 DEF TypeOK
<1>7. OrderOK(l, r) /\ ~Ahead(l, r)
  BY <1>1 DEF OrderInv, OrderOK
<1>8. OrderInv'
  <2> SUFFICES ASSUME NEW k \in Legs, NEW q \in Rungs PROVE OrderOK(k, q)'
    BY DEF OrderInv
  <2>1. CASE k = l /\ q = r
    BY <1>1, <1>4, <1>5, <1>7, <2>1 DEF OrderOK, Ahead, InFlight
  <2>2. CASE k # l \/ q # r
    <3>1. OrderOK(k, q) /\ orders'[k][q] = orders[k][q]
      BY <1>5, <2>2 DEF OrderInv
    <3> QED
      BY <1>1, <3>1 DEF OrderOK, Ahead, InFlight
  <2> QED
    BY <2>1, <2>2
<1>9. Accounted'
  <2> SUFFICES ASSUME pc # "raised", NEW k \in Legs \ RestsPartly
               PROVE  booked[k] = Counted(k, 1)' + Counted(k, 2)' + Counted(k, 3)'
    BY <1>1 DEF Accounted
  <2>1. \A q \in Rungs : Counted(k, q)' = Counted(k, q)
    <3> SUFFICES ASSUME NEW q \in Rungs PROVE Counted(k, q)' = Counted(k, q)
      OBVIOUS
    <3>1. CASE k = l /\ q = r
      <4>1. orders[l][r].risk \/ InFlight(l, r)
        BY <1>1, <1>7, <3>1 DEF OrderOK
      <4> QED
        BY <1>1, <1>4, <1>5, <3>1, <4>1 DEF Counted, InFlight
    <3>2. CASE k # l \/ q # r
      BY <1>1, <1>5, <3>2 DEF Counted, InFlight
    <3> QED
      BY <3>1, <3>2
  <2> QED
    BY <2>1 DEF Accounted, Rungs
<1> QED
  BY <1>6, <1>8, <1>9

\* A venue that leaves an order partly matched does so on a leg whose fills are not counted.
LEMMA MatchKeepsInv ==
  ASSUME IInv, NEW l \in Legs, NEW r \in Rungs, VenueMatches(l, r)
  PROVE  IInv'
<1> USE DEF IInv
<1>1. /\ orders[l][r] \in Order /\ orders[l][r].st = "live" /\ l \in RestsPartly
      /\ orders[l][r].got = 0
      /\ UNCHANGED <<pc, leg, rung, book, port, quoted, remaining, booked, cost, polls, tries>>
  BY DEF VenueMatches, window, fills, opening, TypeOK
<1>2. PICK px \in 1 .. orders[l][r].limit : \E g \in 1 .. orders[l][r].size :
        orders' = [orders EXCEPT ![l][r] = [@ EXCEPT !.got = g, !.px = px]]
  BY DEF VenueMatches
<1>3. PICK g \in 1 .. orders[l][r].size :
        orders' = [orders EXCEPT ![l][r] = [@ EXCEPT !.got = g, !.px = px]]
  BY <1>2
<1> DEFINE o == [orders[l][r] EXCEPT !.got = g, !.px = px]
<1>4. /\ o \in Order /\ o.st = "live" /\ o.risk = orders[l][r].risk
      /\ o.size = orders[l][r].size /\ o.got <= o.size
  <2>1. orders[l][r].limit \in Nat /\ orders[l][r].size \in Nat
    BY <1>1 DEF Order
  <2>2. g \in Nat /\ px \in Nat /\ g <= orders[l][r].size
    BY <1>2, <1>3, <2>1
  <2> QED
    BY <1>1, <2>2 DEF Order
<1>5. /\ orders' \in [Legs -> [Rungs -> Order]] /\ orders'[l][r] = o
      /\ \A k \in Legs, q \in Rungs : k # l \/ q # r => orders'[k][q] = orders[k][q]
  BY <1>3, <1>4 DEF TypeOK
<1>6. OrderOK(l, r) /\ orders[l][r].size > 0
  BY <1>1, <1>3 DEF OrderInv, Order
<1> HIDE DEF o
<1>7. TypeOK'
  BY <1>1, <1>5 DEF TypeOK
<1>8. OrderInv'
  <2> SUFFICES ASSUME NEW k \in Legs, NEW q \in Rungs PROVE OrderOK(k, q)'
    BY DEF OrderInv
  <2>1. CASE k = l /\ q = r
    BY <1>1, <1>4, <1>5, <1>6, <2>1 DEF OrderOK, Ahead, InFlight
  <2>2. CASE k # l \/ q # r
    <3>1. OrderOK(k, q) /\ orders'[k][q] = orders[k][q]
      BY <1>5, <2>2 DEF OrderInv
    <3> QED
      BY <1>1, <3>1 DEF OrderOK, Ahead, InFlight
  <2> QED
    BY <2>1, <2>2
<1>9. Accounted'
  BY <1>1, <1>5 DEF Accounted, Counted, InFlight, Rungs
<1> QED
  BY <1>7, <1>8, <1>9

-----------------------------------------------------------------------------

LEMMA InitInv == Init => IInv
<1> SUFFICES ASSUME Init PROVE IInv
  OBVIOUS
<1>1. port \in Ports /\ Quotes[port] \subseteq Seq([px : Nat, size : Nat])
  BY WindowAssumption DEF Init
<1>2. 0 \in 0 .. Polls /\ 0 \in 0 .. Cancels /\ 1 \in Legs /\ 1 \in Rungs
      /\ Want \in [Legs -> Nat]
  BY WindowAssumption DEF Legs, Rungs
<1>3. NoOrder \in Order
  BY DEF NoOrder, Order
<1>4. TypeOK
  BY <1>1, <1>2, <1>3 DEF Init, TypeOK
<1>5. OrderInv
  BY DEF Init, OrderInv, OrderOK, InFlight, NoOrder
<1>6. Accounted
  BY DEF Init, Accounted, Counted, NoOrder, Rungs
<1> QED
  BY <1>4, <1>5, <1>6 DEF IInv

LEMMA StepInv ==
  ASSUME Live, IInv, [Next]_vars
  PROVE  IInv'
<1>1. CASE PassPreflight \/ FailPreflight \/ SkipLeg \/ Fund
  BY <1>1, QuietStepsKeepInv
<1>2. CASE NotTaken \/ OrderTaken \/ AnswerLost \/ SubmitRaises
  <2>1. Submits
    BY <1>2 DEF NotTaken, OrderTaken, AnswerLost, SubmitRaises
  <2> QED
    BY <1>2, <2>1, SubmitKeepsInv
<1>3. CASE PollAnswered \/ PollPending \/ PollFails
  BY <1>3, PollKeepsInv
<1>4. CASE CancelConfirmed \/ CancelFails
  BY <1>4, CancelKeepsInv
<1>5. ASSUME NEW l \in Legs, NEW r \in Rungs, VenueCloses(l, r) \/ VenueMatches(l, r)
      PROVE  IInv'
  BY <1>5, VenueKeepsInv, MatchKeepsInv
<1>6. CASE UNCHANGED vars
  BY <1>6 DEF vars, window, fills, opening, IInv, TypeOK, OrderInv, OrderOK, Ahead, InFlight,
              Accounted, Counted
<1> QED
  BY <1>1, <1>2, <1>3, <1>4, <1>5, <1>6 DEF Next, PaperFire, Venue, PaperFill

-----------------------------------------------------------------------------
(* What the venue takes and what the ledger is told, on the same legs       *)

\* The match of the leg is not over, or an exception cut it off.
Pending(l, r) == pc \in {"poll", "cancel", "raised"} /\ l = leg /\ r = rung

\* An order is bound to its leg's cap and to its money, is for the shares that are left
\* as long as its match runs, and can trade after it only at risk.
PriceOK(l, r) ==
    /\ orders[l][r].got * orders[l][r].px <= orders[l][r].size * orders[l][r].limit
    /\ orders[l][r].px <= orders[l][r].limit
    /\ orders[l][r].limit <= Cap[l]
    /\ Pending(l, r) => IF orders[l][r].st = "none" THEN pc = "raised"
                        ELSE orders[l][r].size = remaining[l]
    /\ orders[l][r].st = "none" => ~orders[l][r].risk
    /\ orders[l][r].st = "live" /\ ~orders[l][r].risk => Pending(l, r)

\* The notional of the shares that are left pays for the orders to come.
Paid(l, r) == IF Pending(l, r) THEN 0 ELSE orders[l][r].got * orders[l][r].px
Sure(l, r) == IF orders[l][r].risk THEN 0 ELSE Paid(l, r)
Left(l)    == remaining[l] * Cap[l]
Money(l) ==
    /\ \A r \in Rungs : PriceOK(l, r)
    /\ ~AtRisk(l) => Paid(l, 1) + Paid(l, 2) + Paid(l, 3) + Left(l) <= Want[l] * Cap[l]
    /\ pc # "raised" => cost[l] >= Sure(l, 1) + Sure(l, 2) + Sure(l, 3)
MoneyInv == \A l \in Legs \ RestsPartly : Money(l)

LEMMA ProductsGrow == \A a, b, c \in Nat : a <= b => a * c <= b * c /\ c * a <= c * b
  OBVIOUS

LEMMA Rounded == \A p \in Nat, t \in Nat \ {0} : (p \div t) * t <= p
  OBVIOUS

\* The notional of an order covers what it bought and the shares it did not.
LEMMA FillWithinNotional ==
  ASSUME NEW size \in Nat, NEW limit \in Nat, NEW cap \in Nat, NEW got \in Nat, NEW px \in Nat,
         got * px <= size * limit, px <= limit, limit <= cap
  PROVE  got * px + Unfilled(size, got) * cap <= size * cap
<1>1. size * limit <= size * cap
  BY ProductsGrow
<1>2. /\ got * px \in Nat /\ size * cap \in Nat /\ size * limit \in Nat /\ got * cap \in Nat
  BY Products
<1>3. CASE got <= size
  <2>1. (size - got) * cap = size * cap - got * cap
    OBVIOUS
  <2>2. got * px <= got * cap
    BY ProductsGrow
  <2> QED
    BY <1>2, <1>3, <2>1, <2>2 DEF Unfilled
<1>4. CASE ~(got <= size)
  BY <1>1, <1>2, <1>4 DEF Unfilled
<1> QED
  BY <1>3, <1>4

LEMMA PaidType ==
  ASSUME TypeOK, NEW l \in Legs
  PROVE  /\ \A r \in Rungs : Paid(l, r) \in Nat /\ Sure(l, r) \in Nat
         /\ Left(l) \in Nat /\ cost[l] \in Nat /\ Want[l] * Cap[l] \in Nat
<1>1. Want[l] \in Nat /\ Cap[l] \in Nat /\ remaining[l] \in Nat
  BY WindowAssumption DEF TypeOK
<1>2. \A r \in Rungs : orders[l][r].got * orders[l][r].px \in Nat
  BY Products DEF TypeOK, Order
<1> QED
  BY <1>1, <1>2, Products DEF Paid, Sure, Left, TypeOK

LEMMA PaidTypeNext ==
  ASSUME TypeOK', NEW l \in Legs
  PROVE  /\ \A r \in Rungs : Paid(l, r)' \in Nat /\ Sure(l, r)' \in Nat
         /\ Left(l)' \in Nat /\ cost'[l] \in Nat
<1>1. Cap[l] \in Nat /\ remaining'[l] \in Nat
  BY WindowAssumption DEF TypeOK
<1>2. \A r \in Rungs : orders'[l][r].got * orders'[l][r].px \in Nat
  BY Products DEF TypeOK, Order
<1> QED
  BY <1>1, <1>2, Products DEF Paid, Sure, Left, TypeOK

\* A step that writes one order at most, and the fills of its leg.
LEMMA OneOrder ==
  ASSUME TypeOK, TypeOK', MoneyInv, NEW L \in Legs, NEW R \in Rungs,
         \A l \in Legs, r \in Rungs : l # L \/ r # R =>
             /\ orders'[l][r] = orders[l][r]
             /\ Pending(l, r) <=> Pending(l, r)'
             /\ Pending(l, r) => pc' = pc /\ remaining'[l] = remaining[l],
         \A l \in Legs \ {L} : remaining'[l] = remaining[l] /\ cost'[l] = cost[l],
         pc = "raised" => pc' = "raised",
         L \notin RestsPartly =>
             /\ orders[L][R].risk => orders'[L][R].risk
             /\ PriceOK(L, R)'
             /\ ~orders'[L][R].risk => Paid(L, R)' + Left(L)' <= Paid(L, R) + Left(L)
             /\ pc' # "raised" => cost'[L] + Sure(L, R) >= cost[L] + Sure(L, R)'
  PROVE  MoneyInv'
<1> SUFFICES ASSUME NEW l \in Legs \ RestsPartly PROVE Money(l)'
  BY DEF MoneyInv
<1>1. Money(l)
  BY DEF MoneyInv
<1>2. \A r \in Rungs : l # L \/ r # R =>
         Paid(l, r)' = Paid(l, r) /\ Sure(l, r)' = Sure(l, r) /\ PriceOK(l, r)'
  BY <1>1 DEF Paid, Sure, Money, PriceOK
<1>3. \A r \in Rungs : PriceOK(l, r)'
  BY <1>2
<1>4. CASE l # L
  <2>1. Left(l)' = Left(l) /\ cost'[l] = cost[l] /\ (AtRisk(l)' <=> AtRisk(l))
    BY <1>4 DEF Left, AtRisk
  <2> QED
    BY <1>1, <1>2, <1>3, <1>4, <2>1 DEF Money, Rungs
<1>5. CASE l = L
  <2>1. AtRisk(l) => AtRisk(l)'
    BY <1>5 DEF AtRisk
  <2>2. ~AtRisk(l)' => ~orders'[L][R].risk
    BY <1>5 DEF AtRisk
  <2>3. /\ \A r \in Rungs : Paid(l, r) \in Nat /\ Sure(l, r) \in Nat
        /\ Left(l) \in Nat /\ cost[l] \in Nat /\ Want[l] * Cap[l] \in Nat
    BY PaidType
  <2>4. /\ \A r \in Rungs : Paid(l, r)' \in Nat /\ Sure(l, r)' \in Nat
        /\ Left(l)' \in Nat /\ cost'[l] \in Nat
    BY PaidTypeNext
  <2>5. R = 1 \/ R = 2 \/ R = 3
    BY DEF Rungs
  <2> HIDE DEF Paid, Sure, Left, AtRisk
  <2>6. ~AtRisk(l)' => Paid(l, 1)' + Paid(l, 2)' + Paid(l, 3)' + Left(l)' <= Want[l] * Cap[l]
    BY <1>1, <1>2, <1>5, <2>1, <2>2, <2>3, <2>4, <2>5 DEF Money, Rungs
  <2>7. pc' # "raised" => cost'[l] >= Sure(l, 1)' + Sure(l, 2)' + Sure(l, 3)'
    BY <1>1, <1>2, <1>5, <2>3, <2>4, <2>5 DEF Money, Rungs
  <2> QED
    BY <1>3, <2>6, <2>7 DEF Money
<1> QED
  BY <1>4, <1>5

\* A step that writes no order and no fill, of a window with nothing in flight.
LEMMA QuietMoney ==
  ASSUME TypeOK, TypeOK', MoneyInv, UNCHANGED <<orders, remaining, cost>>,
         pc \notin {"poll", "cancel", "raised"}, pc' \notin {"poll", "cancel", "raised"}
  PROVE  MoneyInv'
<1> SUFFICES ASSUME NEW l \in Legs \ RestsPartly PROVE Money(l)'
  BY DEF MoneyInv
<1>1. Money(l)
  BY DEF MoneyInv
<1>2. \A r \in Rungs : /\ Paid(l, r)' = Paid(l, r) /\ Sure(l, r)' = Sure(l, r)
                        /\ PriceOK(l, r)'
  BY <1>1 DEF Paid, Sure, Money, PriceOK, Pending
<1>3. Left(l)' = Left(l) /\ cost'[l] = cost[l] /\ (AtRisk(l)' <=> AtRisk(l))
  BY DEF Left, AtRisk
<1> QED
  BY <1>1, <1>2, <1>3 DEF Money, Rungs

\* An order is priced at its leg's cap at most.
LEMMA LimitWithinCap ==
  ASSUME TypeOK, Sends(leg)
  PROVE  Limit(leg) <= Cap[leg]
<1> DEFINE a == Head(book[leg]).px
           p == Lesser(a + Tick * ExtraTicks, Cap[leg])
<1>1. a \in Nat
  <2>1. book[leg] \in Seq([px : Nat, size : Nat]) /\ book[leg] # <<>>
    BY DEF TypeOK, Sends
  <2>2. Head(book[leg]) \in [px : Nat, size : Nat]
    BY <2>1, HeadType
  <2> QED
    BY <2>2
<1>2. Tick * ExtraTicks \in Nat /\ Tick \in Nat \ {0} /\ Cap[leg] \in Nat
  BY WindowAssumption, Products DEF ExtraTicks, LadderMs, TypeOK
<1>3. p \in Nat /\ p <= Cap[leg]
  BY <1>1, <1>2 DEF Lesser
<1> HIDE DEF p
<1>4. (p \div Tick) * Tick <= p
  BY <1>2, <1>3, Rounded
<1>5. (p \div Tick) * Tick \in Nat
  BY <1>2, <1>3, Quotients, Products
<1> QED
  BY <1>2, <1>3, <1>4, <1>5 DEF Limit, CapPrice, p

LEMMA SubmitMoney ==
  ASSUME IInv, IInv', MoneyInv, Submits, OrderTaken \/ AnswerLost \/ SubmitRaises
  PROVE  MoneyInv'
<1>1. TypeOK /\ TypeOK' /\ pc = "leg"
  BY DEF IInv, Submits
<1>0. PICK L \in Legs, R \in Rungs : leg = L /\ rung = R
  BY <1>1 DEF TypeOK
<1> DEFINE old == orders[L][R]
           new == orders'[L][R]
<1>2. old.st = "none" /\ (L \notin RestsPartly => old.got = 0 /\ ~old.risk)
  <2>1. old.st = "none" /\ (L \notin RestsPartly => old.got = 0)
    BY <1>0, <1>1 DEF IInv, OrderInv, OrderOK, Ahead
  <2> QED
    BY <2>1 DEF MoneyInv, Money, PriceOK
<1>3. UNCHANGED <<remaining, cost>>
  BY DEF OrderTaken, AnswerLost, SubmitRaises, fills
<1>4. /\ OrderTaken => pc' = "poll" /\ leg' = L /\ rung' = R
      /\ AnswerLost => pc' \in {"leg", "fund"}
      /\ SubmitRaises => pc' = "raised" /\ leg' = L /\ rung' = R
  BY <1>0, <1>1, NextLegMoves DEF OrderTaken, AnswerLost, SubmitRaises
<1>5. \A l \in Legs, r \in Rungs : l # L \/ r # R => ~Pending(l, r) /\ ~Pending(l, r)'
  BY <1>0, <1>1, <1>4 DEF Pending
<1>6. /\ Left(L)' = Left(L) /\ Left(L) \in Nat /\ cost[L] \in Nat
      /\ Paid(L, R) \in Nat /\ Sure(L, R) \in Nat
  BY <1>1, <1>3, PaidType DEF Left
<1>7. CASE UNCHANGED orders /\ SubmitRaises
  <2>1. L \notin RestsPartly => PriceOK(L, R)
    BY DEF MoneyInv, Money
  <2>2. Pending(L, R)'
    BY <1>4, <1>7 DEF Pending
  <2>3. L \notin RestsPartly => PriceOK(L, R)'
    BY <1>2, <1>4, <1>7, <2>1, <2>2 DEF PriceOK
  <2>4. Paid(L, R)' = 0
    BY <2>2 DEF Paid
  <2> HIDE DEF old, new
  <2> QED
    BY <1>1, <1>3, <1>4, <1>5, <1>6, <1>7, <2>3, <2>4, OneOrder
<1>8. ASSUME NEW b \in BOOLEAN, SetOrder(Landed(b)), AnswerLost => b,
             OrderTaken \/ SubmitRaises \/ b
      PROVE  MoneyInv'
  <2> DEFINE o == Landed(b)
  <2>1. /\ o \in Order /\ o.st = "live" /\ o.got = 0 /\ o.risk = b
        /\ o.size = remaining[L] /\ o.limit = Limit(leg) /\ o.px = 0
    BY <1>0, <1>1, LandedType DEF Submits, Landed
  <2> HIDE DEF o
  <2>2. /\ new = o
        /\ \A l \in Legs, r \in Rungs : l # L \/ r # R => orders'[l][r] = orders[l][r]
    BY <1>0, <1>1, <1>8, <2>1, SetOrderMeaning DEF o
  <2>3. o.limit <= Cap[L] /\ o.limit \in Nat /\ o.size \in Nat /\ o.size * o.limit \in Nat
    BY <1>0, <1>1, <2>1, LimitWithinCap, Products DEF Submits, Order
  <2>4. o.got * o.px = 0
    BY <2>1
  <2>5. ~b => Pending(L, R)'
    BY <1>4, <1>8 DEF Pending
  <2>6. PriceOK(L, R)'
    BY <1>3, <2>1, <2>2, <2>3, <2>4, <2>5 DEF PriceOK
  <2>7. Paid(L, R)' = 0 /\ Sure(L, R)' = 0
    BY <2>2, <2>4 DEF Paid, Sure
  <2>8. L \notin RestsPartly => (old.risk => new.risk)
    BY <1>2
  <2> HIDE DEF old, new
  <2> QED
    BY <1>1, <1>3, <1>5, <1>6, <2>2, <2>6, <2>7, <2>8, OneOrder DEF old, new
<1> QED
  BY <1>7, <1>8 DEF OrderTaken, AnswerLost, SubmitRaises

\* The order of the leg whose match runs, as the next lemmas need it.
Matched(L, R) ==
  /\ TypeOK /\ pc \in {"poll", "cancel"} /\ leg = L /\ rung = R
  /\ orders[L][R] \in Order /\ ~orders[L][R].risk
  /\ Current = orders[L][R]
  /\ L \notin RestsPartly =>
        /\ PriceOK(L, R) /\ orders[L][R].st # "none"
        /\ orders[L][R].st = "live" => orders[L][R].got = 0
        /\ orders[L][R].size = remaining[L] /\ orders[L][R].size > 0

LEMMA MatchRuns ==
  ASSUME IInv, MoneyInv, pc \in {"poll", "cancel"}
  PROVE  \E L \in Legs, R \in Rungs : Matched(L, R)
<1>1. PICK L \in Legs, R \in Rungs : leg = L /\ rung = R
  BY DEF IInv, TypeOK
<1>2. OrderOK(L, R) /\ InFlight(L, R) /\ Pending(L, R)
  BY <1>1 DEF IInv, OrderInv, InFlight, Pending
<1>3. L \notin RestsPartly => PriceOK(L, R)
  BY DEF MoneyInv, Money
<1>4. TypeOK /\ orders[L][R] \in Order /\ Current = orders[L][R]
  BY <1>1 DEF IInv, TypeOK, Current
<1>5. L \notin RestsPartly => orders[L][R].st # "none"
  BY <1>2, <1>3 DEF PriceOK
<1> QED
  BY <1>1, <1>2, <1>3, <1>4, <1>5 DEF Matched, OrderOK, PriceOK

\* The window goes on, or still matches the same order.
LEMMA GoesOn ==
  ASSUME NEW L \in Legs, NEW R \in Rungs, Matched(L, R),
         NextLeg \/ (pc' \in {"poll", "cancel"} /\ UNCHANGED <<leg, rung>>)
  PROVE  /\ \A l \in Legs, r \in Rungs : l # L \/ r # R => ~Pending(l, r) /\ ~Pending(l, r)'
         /\ NextLeg => ~Pending(L, R)'
         /\ ~NextLeg => Pending(L, R)'
         /\ Pending(L, R) /\ pc # "raised" /\ pc' # "raised"
  BY NextLegMoves DEF Matched, Pending

\* The fill of a closed order is paid from the notional of the shares it was for, and
\* the ledger is told its average price or its limit.
LEMMA AnsweredMoney ==
  ASSUME IInv, IInv', MoneyInv, PollAnswered
  PROVE  MoneyInv'
<1>1. PICK L \in Legs, R \in Rungs : Matched(L, R)
  BY MatchRuns DEF PollAnswered
<1> DEFINE o == orders[L][R]
<1>2. PICK avg \in {o.px, o.limit} : Report(o.got, o.got * avg)
  BY <1>1 DEF PollAnswered, Averages, Matched
<1>3. NextLeg /\ UNCHANGED orders
  BY DEF PollAnswered
<1>4. /\ \A l \in Legs, r \in Rungs : l # L \/ r # R => ~Pending(l, r) /\ ~Pending(l, r)'
      /\ ~Pending(L, R)' /\ Pending(L, R) /\ pc # "raised" /\ pc' # "raised"
  BY <1>1, <1>3, GoesOn
<1>5. /\ o.got \in Nat /\ o.px \in Nat /\ o.limit \in Nat /\ o.size \in Nat /\ avg \in Nat
      /\ TypeOK /\ TypeOK' /\ ~o.risk /\ leg = L
  BY <1>1, <1>2 DEF Matched, Order, IInv
<1>6. /\ remaining' = [remaining EXCEPT ![L] = Unfilled(o.size, o.got)]
      /\ cost' = [cost EXCEPT ![L] = @ + o.got * avg]
  BY <1>1, <1>2 DEF Report, Matched
<1>7. /\ remaining'[L] = Unfilled(o.size, o.got) /\ cost'[L] = cost[L] + o.got * avg
      /\ \A l \in Legs \ {L} : remaining'[l] = remaining[l] /\ cost'[l] = cost[l]
  BY <1>5, <1>6 DEF TypeOK
<1>8. /\ o.got * o.px \in Nat /\ o.got * avg \in Nat /\ cost[L] \in Nat /\ Cap[L] \in Nat
      /\ Unfilled(o.size, o.got) * Cap[L] \in Nat /\ o.size * Cap[L] \in Nat
  <2>1. Unfilled(o.size, o.got) \in Nat
    BY <1>5 DEF Unfilled
  <2> QED
    BY <1>5, <2>1, Products, PaidType, WindowAssumption
<1>9. Paid(L, R) = 0 /\ Sure(L, R) = 0 /\ Paid(L, R)' = o.got * o.px
      /\ Sure(L, R)' = o.got * o.px
  BY <1>3, <1>4, <1>5 DEF Paid, Sure
<1>10. ASSUME L \notin RestsPartly
       PROVE  /\ PriceOK(L, R)' /\ o.got * o.px <= o.got * avg
              /\ o.got * o.px + Left(L)' <= Left(L)
  <2>1. PriceOK(L, R) /\ o.size = remaining[L] /\ o.st # "none" /\ o.size > 0
        /\ (o.st = "live" => o.got = 0)
    BY <1>1, <1>10 DEF Matched
  <2>2. o.st # "live"
    BY <1>1, <2>1 DEF PollAnswered, Terminal, Matched
  <2>3. PriceOK(L, R)'
    BY <1>3, <1>4, <2>1, <2>2 DEF PriceOK
  <2>4. o.px <= avg
    BY <1>2, <1>5, <2>1 DEF PriceOK
  <2>5. o.got * o.px <= o.got * avg
    BY <1>5, <2>4, ProductsGrow
  <2>6. o.got * o.px + Unfilled(o.size, o.got) * Cap[L] <= o.size * Cap[L]
    BY <1>5, <1>8, <2>1, FillWithinNotional DEF PriceOK
  <2>7. Left(L)' = Unfilled(o.size, o.got) * Cap[L] /\ Left(L) = o.size * Cap[L]
    BY <1>7, <2>1 DEF Left
  <2> QED
    BY <2>3, <2>5, <2>6, <2>7
<1>11. /\ L \notin RestsPartly => Paid(L, R)' + Left(L)' <= Paid(L, R) + Left(L)
       /\ L \notin RestsPartly => cost'[L] + Sure(L, R) >= cost[L] + Sure(L, R)'
  <2>1. Left(L) \in Nat /\ Left(L)' \in Nat
    BY <1>5, PaidType, PaidTypeNext
  <2> HIDE DEF Left, Paid, Sure
  <2> QED
    BY <1>7, <1>8, <1>9, <1>10, <2>1
<1>12. orders'[L][R].risk <=> orders[L][R].risk
  BY <1>3
<1> HIDE DEF o
<1> QED
  BY <1>3, <1>4, <1>5, <1>7, <1>10, <1>11, <1>12, OneOrder

\* A poll that learns nothing hands the order over with the shares it was for.
LEMMA UnansweredMoney ==
  ASSUME IInv, IInv', MoneyInv, PollPending \/ PollFails
  PROVE  MoneyInv'
<1>1. PICK L \in Legs, R \in Rungs : Matched(L, R)
  BY MatchRuns DEF PollPending, PollFails
<1> DEFINE o == orders[L][R]
<1>2. /\ o.got \in Nat /\ o.size \in Nat /\ TypeOK /\ TypeOK' /\ ~o.risk /\ leg = L
  BY <1>1 DEF Matched, Order, IInv
<1>3. UNCHANGED orders
  BY DEF PollPending, PollFails
<1>4. /\ pc' \in {"poll", "cancel"} /\ UNCHANGED <<leg, rung>>
      /\ \/ UNCHANGED fills
         \/ \E seen \in {0, o.got} : Report(seen, 0) /\ (L \notin RestsPartly => seen = 0)
  <2>1. CASE PollFails
    BY <2>1 DEF PollFails
  <2>2. CASE PollPending
    <3>1. PICK seen \in {0, o.got} :
            /\ seen > 0 => ~Terminal(o)
            /\ IF polls' < Polls
               THEN UNCHANGED <<window, fills>>
               ELSE /\ Report(seen, 0)
                    /\ IF seen < o.size THEN pc' = "cancel" /\ UNCHANGED <<leg, rung>>
                       ELSE NextLeg
      BY <1>1, <2>2 DEF PollPending, Matched
    <3>2. o.st = "live" \/ o.st = "none" \/ o.st = "closed"
      BY <1>1 DEF Matched, Order
    <3>3. o.size > 0 /\ (o.st # "closed" => o.got <= o.size)
      BY <1>1 DEF IInv, OrderInv, OrderOK, InFlight, Matched
    <3>4. (L \notin RestsPartly => seen = 0) /\ seen < o.size
      BY <1>1, <1>2, <3>1, <3>2, <3>3 DEF Terminal, Matched
    <3>5. pc = "poll"
      BY <2>2 DEF PollPending
    <3> QED
      BY <3>1, <3>4, <3>5 DEF window
  <2> QED
    BY <2>1, <2>2
<1>5. /\ \A l \in Legs, r \in Rungs : l # L \/ r # R => ~Pending(l, r) /\ ~Pending(l, r)'
      /\ Pending(L, R)' /\ Pending(L, R) /\ pc # "raised" /\ pc' # "raised"
  BY <1>1, <1>4 DEF Pending, Matched
<1>6. /\ L \notin RestsPartly => remaining'[L] = remaining[L]
      /\ cost'[L] = cost[L]
      /\ \A l \in Legs \ {L} : remaining'[l] = remaining[l] /\ cost'[l] = cost[l]
  <2>1. CASE UNCHANGED fills
    BY <2>1 DEF fills
  <2>2. ASSUME NEW seen \in {0, o.got}, Report(seen, 0), L \notin RestsPartly => seen = 0
        PROVE  /\ L \notin RestsPartly => remaining'[L] = remaining[L]
               /\ cost'[L] = cost[L]
               /\ \A l \in Legs \ {L} : remaining'[l] = remaining[l] /\ cost'[l] = cost[l]
    <3>1. /\ remaining' = [remaining EXCEPT ![L] = Unfilled(o.size, seen)]
          /\ cost' = [cost EXCEPT ![L] = @ + 0]
      BY <1>1, <2>2 DEF Report, Matched
    <3>2. L \notin RestsPartly => Unfilled(o.size, seen) = remaining[L]
      BY <1>1, <1>2, <2>2 DEF Unfilled, Matched
    <3> QED
      BY <1>2, <3>1, <3>2 DEF TypeOK
  <2> QED
    BY <1>4, <2>1, <2>2
<1>7. ASSUME L \notin RestsPartly
      PROVE  /\ PriceOK(L, R)' /\ (o.risk => orders'[L][R].risk)
             /\ Paid(L, R)' + Left(L)' <= Paid(L, R) + Left(L)
             /\ cost'[L] + Sure(L, R) >= cost[L] + Sure(L, R)'
  <2>1. PriceOK(L, R)'
    BY <1>1, <1>3, <1>5, <1>6, <1>7 DEF PriceOK, Matched
  <2>2. /\ Paid(L, R)' = 0 /\ Paid(L, R) = 0 /\ Sure(L, R)' = 0 /\ Sure(L, R) = 0
        /\ Left(L)' = Left(L) /\ Left(L) \in Nat /\ cost[L] \in Nat
    BY <1>2, <1>5, <1>6, <1>7, PaidType DEF Paid, Sure, Left
  <2> HIDE DEF Paid, Sure, Left
  <2> QED
    BY <1>3, <1>6, <2>1, <2>2
<1> QED
  BY <1>2, <1>3, <1>5, <1>6, <1>7, OneOrder

\* A cancel closes an order that has bought nothing, or puts it at risk.
LEMMA CancelMoney ==
  ASSUME IInv, IInv', MoneyInv, CancelConfirmed \/ CancelFails
  PROVE  MoneyInv'
<1>1. PICK L \in Legs, R \in Rungs : Matched(L, R)
  BY MatchRuns DEF CancelConfirmed, CancelFails
<1> DEFINE old == orders[L][R]
           new == orders'[L][R]
<1>2. old \in Order /\ ~old.risk /\ TypeOK /\ TypeOK' /\ leg = L /\ rung = R /\ Current = old
  BY <1>1 DEF Matched, IInv
<1>3. UNCHANGED <<remaining, cost>>
  BY DEF CancelConfirmed, CancelFails, fills
<1> DEFINE Rewrites(o) ==
        /\ o \in Order /\ SetOrder(o)
        /\ o.got = old.got /\ o.px = old.px /\ o.size = old.size /\ o.limit = old.limit
        /\ o.st \in {old.st, "closed"}
\* The match ends with nothing bought, or at risk; or it goes on.
<1>4. \E o \in Order :
         /\ Rewrites(o)
         /\ \/ NextLeg /\ o.risk
            \/ NextLeg /\ o.st = "closed" /\ ~o.risk /\ old.st = "live"
            \/ UNCHANGED window /\ ~o.risk
  <2>1. CASE CancelConfirmed
    <3> DEFINE o == [old EXCEPT !.st = "closed"]
    <3>1. Rewrites(o) /\ o \in Order /\ o.st = "closed" /\ o.risk = old.risk /\ NextLeg
          /\ old.st = "live"
      BY <1>2, <2>1 DEF CancelConfirmed, Order
    <3> QED
      BY <1>2, <3>1
  <2>2. CASE CancelFails
    <3>1. PICK st \in {old.st, "closed"} :
            LET o == [old EXCEPT !.st = st]
            IN  IF tries' < Cancels THEN SetOrder(o) /\ UNCHANGED window
                                    ELSE SetOrder(GiveUp(o)) /\ NextLeg
      BY <1>2, <2>2 DEF CancelFails
    <3> DEFINE o == [old EXCEPT !.st = st]
               p == GiveUp(o)
    <3>2. /\ o \in Order /\ o.got = old.got /\ o.px = old.px /\ o.size = old.size
          /\ o.limit = old.limit /\ o.st = st /\ ~o.risk
      BY <1>2, <3>1 DEF Order
    <3>3. /\ p \in Order /\ p.got = old.got /\ p.px = old.px /\ p.size = old.size
          /\ p.limit = old.limit /\ p.st = st /\ p.risk
      BY <3>2 DEF GiveUp, Order
    <3>4. IF tries' < Cancels THEN SetOrder(o) /\ UNCHANGED window ELSE SetOrder(p) /\ NextLeg
      BY <3>1
    <3> HIDE DEF o, p
    <3>5. CASE tries' < Cancels
      BY <3>1, <3>2, <3>4, <3>5
    <3>6. CASE ~(tries' < Cancels)
      BY <3>1, <3>3, <3>4, <3>6
    <3> QED
      BY <3>5, <3>6
  <2> QED
    BY <2>1, <2>2
<1>5. PICK o \in Order :
         /\ Rewrites(o)
         /\ \/ NextLeg /\ o.risk
            \/ NextLeg /\ o.st = "closed" /\ ~o.risk /\ old.st = "live"
            \/ UNCHANGED window /\ ~o.risk
  BY <1>4
<1>6. new = o /\ \A l \in Legs, r \in Rungs : l # L \/ r # R => orders'[l][r] = orders[l][r]
  BY <1>2, <1>5, SetOrderMeaning
<1>7. /\ \A l \in Legs, r \in Rungs : l # L \/ r # R => ~Pending(l, r) /\ ~Pending(l, r)'
      /\ Pending(L, R) /\ pc # "raised" /\ pc' # "raised"
      /\ \/ new.risk
         \/ new.st = "closed" /\ old.st = "live"
         \/ Pending(L, R)'
  <2>1. NextLeg \/ (pc' \in {"poll", "cancel"} /\ UNCHANGED <<leg, rung>>)
    BY <1>1, <1>5 DEF window, Matched
  <2>2. UNCHANGED window => Pending(L, R)'
    BY <1>1 DEF window, Pending, Matched
  <2> QED
    BY <1>1, <1>5, <1>6, <2>1, <2>2, GoesOn
<1>8. ASSUME L \notin RestsPartly
      PROVE  /\ PriceOK(L, R)'
             /\ ~new.risk => Paid(L, R)' + Left(L)' <= Paid(L, R) + Left(L)
             /\ cost'[L] + Sure(L, R) >= cost[L] + Sure(L, R)'
  <2>1. PriceOK(L, R) /\ old.st # "none" /\ (old.st = "live" => old.got = 0)
        /\ old.size = remaining[L] /\ old.px \in Nat
    BY <1>1, <1>8 DEF Matched, Order
  <2>2. PriceOK(L, R)'
    BY <1>3, <1>5, <1>6, <1>7, <2>1 DEF PriceOK
  <2>3. ~new.risk => Paid(L, R)' = 0
    BY <1>5, <1>6, <1>7, <2>1 DEF Paid
  <2>4. Sure(L, R)' = 0
    BY <2>3 DEF Sure
  <2>5. /\ Paid(L, R) = 0 /\ Sure(L, R) = 0
        /\ Left(L)' = Left(L) /\ Left(L) \in Nat /\ cost[L] \in Nat /\ cost'[L] = cost[L]
    BY <1>2, <1>3, <1>7, PaidType DEF Paid, Sure, Left
  <2> HIDE DEF Paid, Sure, Left, old, new
  <2> QED
    BY <2>2, <2>3, <2>4, <2>5
<1> QED
  BY <1>2, <1>3, <1>6, <1>7, <1>8, OneOrder

\* What the venue does to an order that is pending or at risk moves no count.
LEMMA VenueMoney ==
  ASSUME IInv, IInv', MoneyInv, NEW L \in Legs, NEW R \in Rungs, VenueCloses(L, R)
  PROVE  MoneyInv'
<1> DEFINE old == orders[L][R]
           new == orders'[L][R]
<1>1. /\ old \in Order /\ old.st = "live" /\ TypeOK /\ TypeOK'
      /\ UNCHANGED <<pc, leg, rung, remaining, cost>>
  BY DEF IInv, VenueCloses, window, fills, TypeOK
<1>2. PICK px \in 1 .. old.limit : \E g \in Affordable(old, px) :
         /\ old.got > 0 => px = old.px
         /\ g = 0 => px = 1
         /\ orders' = [orders EXCEPT ![L][R] = [@ EXCEPT !.st = "closed", !.got = g, !.px = px]]
  BY DEF VenueCloses
<1>3. PICK g \in Affordable(old, px) :
         /\ old.got > 0 => px = old.px
         /\ g = 0 => px = 1
         /\ orders' = [orders EXCEPT ![L][R] = [@ EXCEPT !.st = "closed", !.got = g, !.px = px]]
  BY <1>2
<1>4. old.got \in Nat /\ old.px \in Nat /\ old.limit \in Nat /\ old.size \in Nat
      /\ old.size * old.limit \in Nat
  BY <1>1, Products DEF Order
<1>5. g \in Nat /\ px \in Nat /\ px <= old.limit
  BY <1>2, <1>3, <1>4 DEF Affordable
<1>6. /\ new \in Order /\ new.st = "closed" /\ new.got = g /\ new.px = px
      /\ new.size = old.size /\ new.limit = old.limit /\ new.risk = old.risk
      /\ \A l \in Legs, r \in Rungs : l # L \/ r # R => orders'[l][r] = orders[l][r]
  BY <1>1, <1>3, <1>5 DEF TypeOK, Order
<1>7. L \notin RestsPartly => old.got = 0 /\ PriceOK(L, R)
  BY <1>1 DEF IInv, OrderInv, OrderOK, MoneyInv, Money
\* Only an order of no share could be full and live.
<1>8. ASSUME L \notin RestsPartly
      PROVE  g * px <= old.size * old.limit
  <2>1. CASE old.got = old.size
    BY <1>3, <1>4, <1>5, <1>7, <1>8, <2>1 DEF Affordable
  <2>2. CASE old.got # old.size
    BY <1>3, <2>2 DEF Affordable
  <2> QED
    BY <2>1, <2>2
<1>9. \A l \in Legs, r \in Rungs : Pending(l, r)' <=> Pending(l, r)
  BY <1>1 DEF Pending
<1>10. L \notin RestsPartly => PriceOK(L, R)'
  BY <1>1, <1>5, <1>6, <1>7, <1>8, <1>9 DEF PriceOK
<1>11. L \notin RestsPartly => old.risk \/ Pending(L, R)
  BY <1>1, <1>7 DEF PriceOK
<1>12. /\ Left(L)' = Left(L) /\ Left(L) \in Nat /\ cost[L] \in Nat /\ cost'[L] = cost[L]
       /\ Paid(L, R) \in Nat /\ Sure(L, R) \in Nat
  BY <1>1, PaidType DEF Left
<1>13. L \notin RestsPartly => /\ ~new.risk => Paid(L, R)' = 0
                               /\ Sure(L, R)' = 0
  BY <1>6, <1>9, <1>11 DEF Paid, Sure
<1> HIDE DEF Paid, Sure, Left, old, new
<1>14. L \notin RestsPartly =>
         /\ ~new.risk => Paid(L, R)' + Left(L)' <= Paid(L, R) + Left(L)
         /\ cost'[L] + Sure(L, R) >= cost[L] + Sure(L, R)'
  BY <1>12, <1>13
<1> USE DEF old, new
<1> QED
  BY <1>1, <1>6, <1>9, <1>10, <1>14, OneOrder

LEMMA MoneyStep ==
  ASSUME Live, IInv, IInv', MoneyInv, [Next]_vars
  PROVE  MoneyInv'
<1>1. TypeOK /\ TypeOK'
  BY DEF IInv
<1>2. CASE PassPreflight \/ FailPreflight \/ SkipLeg \/ Fund \/ NotTaken
  <2>1. /\ UNCHANGED <<orders, remaining, cost>> /\ pc \notin {"poll", "cancel", "raised"}
        /\ pc' \notin {"poll", "cancel", "raised"}
    BY <1>1, <1>2, NextLegMoves
       DEF PassPreflight, FailPreflight, SkipLeg, Fund, NotTaken, Submits, fills
  <2> QED
    BY <1>1, <2>1, QuietMoney
<1>3. CASE OrderTaken \/ AnswerLost \/ SubmitRaises
  <2>1. Submits
    BY <1>3 DEF OrderTaken, AnswerLost, SubmitRaises
  <2> QED
    BY <1>3, <2>1, SubmitMoney
<1>4. CASE PollAnswered \/ PollPending \/ PollFails
  BY <1>4, AnsweredMoney, UnansweredMoney
<1>5. CASE CancelConfirmed \/ CancelFails
  BY <1>5, CancelMoney
<1>6. ASSUME NEW l \in Legs, NEW r \in Rungs, VenueCloses(l, r)
      PROVE  MoneyInv'
  BY <1>6, VenueMoney
<1>7. ASSUME NEW L \in Legs, NEW R \in Rungs, VenueMatches(L, R)
      PROVE  MoneyInv'
  <2>1. /\ L \in RestsPartly /\ UNCHANGED <<pc, leg, rung, remaining, cost>>
        /\ \A l \in Legs, r \in Rungs : l # L \/ r # R => orders'[l][r] = orders[l][r]
    BY <1>1, <1>7 DEF VenueMatches, window, fills, TypeOK
  <2>2. \A l \in Legs, r \in Rungs : Pending(l, r)' <=> Pending(l, r)
    BY <2>1 DEF Pending
  <2> QED
    BY <1>1, <2>1, <2>2, OneOrder
<1>8. CASE UNCHANGED vars
  BY <1>8 DEF vars, window, fills, MoneyInv, Money, PriceOK, Pending, Paid, Sure, Left, AtRisk
<1> QED
  BY <1>2, <1>3, <1>4, <1>5, <1>6, <1>7, <1>8 DEF Next, PaperFire, Venue, PaperFill

LEMMA MoneyInit == Init => MoneyInv
<1> SUFFICES ASSUME Init, NEW l \in Legs \ RestsPartly PROVE Money(l)
  BY DEF MoneyInv
<1>1. /\ pc = "open" /\ remaining[l] = Want[l] /\ cost[l] = 0
      /\ \A r \in Rungs : orders[l][r] = NoOrder
  BY DEF Init
<1>2. Want[l] \in Nat /\ Cap[l] \in Nat /\ Want[l] * Cap[l] \in Nat
  BY WindowAssumption, Products
<1>3. \A r \in Rungs : PriceOK(l, r) /\ Paid(l, r) = 0 /\ Sure(l, r) = 0
  BY <1>1, <1>2 DEF NoOrder, PriceOK, Pending, Paid, Sure
<1>4. Left(l) = Want[l] * Cap[l]
  BY <1>1 DEF Left
<1> HIDE DEF Paid, Sure, Left
<1> QED
  BY <1>1, <1>2, <1>3, <1>4 DEF Money, Rungs

-----------------------------------------------------------------------------
(* The paper port: what a walk of the asks comes to *)

Level == [px : Nat, size : Nat]
Sizes(s) == [i \in 1 .. Len(s) |-> s[i].size]
Values(s) == [i \in 1 .. Len(s) |-> s[i].size * s[i].px]

LEMMA LevelsType ==
    ASSUME NEW s \in Seq(Level)
    PROVE  /\ Len(s) \in Nat /\ DOMAIN s = 1 .. Len(s)
           /\ \A i \in 1 .. Len(s) :
                 /\ s[i] \in Level /\ s[i].size \in Nat /\ s[i].px \in Nat
                 /\ Sizes(s)[i] = s[i].size /\ Values(s)[i] = s[i].size * s[i].px
                 /\ Sizes(s)[i] \in Nat /\ Values(s)[i] \in Nat
<1>1. Len(s) \in Nat /\ DOMAIN s = 1 .. Len(s)
      /\ \A i \in 1 .. Len(s) : s[i] \in Level
  OBVIOUS
<1>2. \A i \in 1 .. Len(s) : s[i].size \in Nat /\ s[i].px \in Nat
  BY <1>1 DEF Level
<1>3. \A i \in 1 .. Len(s) : s[i].size * s[i].px \in Nat
  BY <1>2, Products
<1> QED
  BY <1>1, <1>2, <1>3 DEF Sizes, Values

LEMMA DepthIsSum ==
    ASSUME NEW s \in Seq(Level)
    PROVE  Depth(s) = SumTo(Sizes(s), Len(s))
<1> DEFINE n == Len(s)
           w == Sizes(s)
           Rec(g) == g = [d \in SUBSET (1 .. n) |->
                             IF d = {} THEN 0 ELSE g[d \ {Max(d)}] + s[Max(d)].size]
<1>1. n \in Nat /\ DOMAIN s = 1 .. n
      /\ \A i \in 1 .. n : w[i] = s[i].size /\ w[i] \in Int
  BY LevelsType
<1>2. Depth(s) = (CHOOSE g : Rec(g))[1 .. n]
  BY <1>1 DEF Depth, FoldLeft, MapThenFoldSet
<1> HIDE DEF n, w
<1>3. \A g : Rec(g) <=> SumRecursion(w, n, g)
  <2>1. \A d \in SUBSET (1 .. n) : d # {} => w[Max(d)] = s[Max(d)].size
    BY <1>1, MaxIsIn
  <2> QED
    BY <2>1 DEF SumRecursion
<1>4. \E g : Rec(g)
  BY <1>1, <1>3, SumExists
<1>5. SumRecursion(w, n, CHOOSE g : Rec(g))
  BY <1>3, <1>4
<1> QED
  BY <1>1, <1>2, <1>5, SumRecursionIs DEF n, w

LEMMA ValueIsSum ==
    ASSUME NEW s \in Seq(Level)
    PROVE  Value(s) = SumTo(Values(s), Len(s))
<1> DEFINE n == Len(s)
           w == Values(s)
           Rec(g) == g = [d \in SUBSET (1 .. n) |->
                             IF d = {} THEN 0
                             ELSE g[d \ {Max(d)}] + s[Max(d)].size * s[Max(d)].px]
<1>1. n \in Nat /\ DOMAIN s = 1 .. n
      /\ \A i \in 1 .. n : w[i] = s[i].size * s[i].px /\ w[i] \in Int
  BY LevelsType
<1>2. Value(s) = (CHOOSE g : Rec(g))[1 .. n]
  BY <1>1 DEF Value, FoldLeft, MapThenFoldSet
<1> HIDE DEF n, w
<1>3. \A g : Rec(g) <=> SumRecursion(w, n, g)
  <2>1. \A d \in SUBSET (1 .. n) : d # {} => w[Max(d)] = s[Max(d)].size * s[Max(d)].px
    BY <1>1, MaxIsIn
  <2> QED
    BY <2>1 DEF SumRecursion
<1>4. \E g : Rec(g)
  BY <1>1, <1>3, SumExists
<1>5. SumRecursion(w, n, CHOOSE g : Rec(g))
  BY <1>3, <1>4
<1> QED
  BY <1>1, <1>2, <1>5, SumRecursionIs DEF n, w

\* Depth and value of a ladder: none of an empty one, and a level more is its own more.
LEMMA EmptyLadder == Depth(<<>>) = 0 /\ Value(<<>>) = 0
<1>1. <<>> \in Seq(Level) /\ Len(<<>>) = 0
  OBVIOUS
<1>2. Depth(<<>>) = SumTo(Sizes(<<>>), 0) /\ Value(<<>>) = SumTo(Values(<<>>), 0)
  BY <1>1, DepthIsSum, ValueIsSum
<1>3. \A w : SumTo(w, 0) = 0
  <2>1. 0 \in Nat /\ \A w : \A i \in 1 .. 0 : w[i] \in Int
    OBVIOUS
  <2> QED
    BY <2>1, SumSteps
<1> QED
  BY <1>2, <1>3

LEMMA LadderType ==
    ASSUME NEW s \in Seq(Level)
    PROVE  Depth(s) \in Nat /\ Value(s) \in Nat
<1>1. SumTo(Sizes(s), Len(s)) \in Nat /\ SumTo(Values(s), Len(s)) \in Nat
  BY LevelsType, SumNat
<1> QED
  BY <1>1, DepthIsSum, ValueIsSum

LEMMA LongerLadder ==
    ASSUME NEW s \in Seq(Level), NEW e \in Level
    PROVE  /\ Append(s, e) \in Seq(Level)
           /\ Depth(Append(s, e)) = Depth(s) + e.size
           /\ Value(Append(s, e)) = Value(s) + e.size * e.px
<1> DEFINE t == Append(s, e)
           n == Len(s)
<1>1. t \in Seq(Level) /\ Len(t) = n + 1 /\ n \in Nat /\ t[n + 1] = e
      /\ \A i \in 1 .. n : t[i] = s[i]
  OBVIOUS
<1> HIDE DEF t
<1>2. /\ \A i \in 1 .. n + 1 : Sizes(t)[i] \in Int /\ Values(t)[i] \in Int
      /\ \A i \in 1 .. n : /\ Sizes(t)[i] = Sizes(s)[i] /\ Sizes(s)[i] \in Int
                           /\ Values(t)[i] = Values(s)[i] /\ Values(s)[i] \in Int
      /\ Sizes(t)[n + 1] = e.size /\ Values(t)[n + 1] = e.size * e.px
  <2>1. /\ n + 1 \in 1 .. n + 1
        /\ \A i \in 1 .. n : i \in 1 .. n + 1
    BY <1>1
  <2>2. \A i \in 1 .. n + 1 :
           /\ Sizes(t)[i] = t[i].size /\ Values(t)[i] = t[i].size * t[i].px
           /\ Sizes(t)[i] \in Nat /\ Values(t)[i] \in Nat
    BY <1>1, LevelsType
  <2>3. \A i \in 1 .. n :
           /\ Sizes(s)[i] = s[i].size /\ Values(s)[i] = s[i].size * s[i].px
           /\ Sizes(s)[i] \in Nat /\ Values(s)[i] \in Nat
    BY LevelsType
  <2> HIDE DEF n
  <2>4. \A i \in 1 .. n : Sizes(t)[i] = Sizes(s)[i] /\ Values(t)[i] = Values(s)[i]
    BY <1>1, <2>1, <2>2, <2>3, Zenon
  <2>5. Sizes(t)[n + 1] = e.size /\ Values(t)[n + 1] = e.size * e.px
    BY <1>1, <2>1, <2>2, Zenon
  <2>6. \A x \in Nat : x \in Int
    OBVIOUS
  <2> QED
    BY <2>2, <2>3, <2>4, <2>5, <2>6, Zenon
<1> HIDE DEF n
<1>3. n + 1 \in Nat /\ n + 1 \in 1 .. n + 1 /\ (n + 1) - 1 = n
  BY <1>1
<1>4. SumTo(Sizes(t), n + 1) = SumTo(Sizes(t), n) + Sizes(t)[n + 1]
  BY <1>2, <1>3, SumSteps
<1>5. SumTo(Values(t), n + 1) = SumTo(Values(t), n) + Values(t)[n + 1]
  BY <1>2, <1>3, SumSteps
<1>6. SumTo(Sizes(t), n) = SumTo(Sizes(s), n) /\ SumTo(Values(t), n) = SumTo(Values(s), n)
  BY <1>1, <1>2, SumSame
<1>7. /\ Depth(t) = SumTo(Sizes(t), n + 1) /\ Depth(s) = SumTo(Sizes(s), n)
      /\ Value(t) = SumTo(Values(t), n + 1) /\ Value(s) = SumTo(Values(s), n)
  BY <1>1, DepthIsSum, ValueIsSum DEF n
<1> QED
  BY <1>1, <1>2, <1>4, <1>5, <1>6, <1>7 DEF t

LEMMA Distributes ==
    \A a, b, c \in Int : (a + b) * c = a * c + b * c /\ (a - b) * c = a * c - b * c
  OBVIOUS

\* What paper_match_fak has so far: a limit, what it still needs, what it has paid, and
\* the levels it leaves.
Walk == [limit : Nat, need : Nat, cost : Nat, left : Seq(Level)]
Start(limit, shares) == [limit |-> limit, need |-> shares, cost |-> 0, left |-> <<>>]

\* One level: t of it is taken, at most what is needed and what it has, and none above
\* the limit; the rest of it stays.
LEMMA LevelTaken ==
    ASSUME NEW a \in Walk, NEW lv \in Level
    PROVE  \E t \in Nat :
             /\ t <= a.need /\ t <= lv.size /\ (t > 0 => lv.px <= a.limit)
             /\ TakeLevel(a, lv) \in Walk
             /\ TakeLevel(a, lv).limit = a.limit /\ TakeLevel(a, lv).need = a.need - t
             /\ TakeLevel(a, lv).cost = a.cost + t * lv.px
             /\ Depth(TakeLevel(a, lv).left) = Depth(a.left) + lv.size - t
             /\ Value(TakeLevel(a, lv).left) = Value(a.left) + lv.size * lv.px - t * lv.px
<1> DEFINE t == IF lv.px <= a.limit THEN Lesser(a.need, lv.size) ELSE 0
           rest == [lv EXCEPT !.size = @ - t]
           left == IF lv.size > t THEN Append(a.left, rest) ELSE a.left
<1>1. /\ a.limit \in Nat /\ a.need \in Nat /\ a.cost \in Nat /\ a.left \in Seq(Level)
      /\ lv.px \in Nat /\ lv.size \in Nat
  BY DEF Walk, Level
<1>2. t \in Nat /\ t <= a.need /\ t <= lv.size /\ (t > 0 => lv.px <= a.limit)
  BY <1>1 DEF Lesser
<1>4. rest = [px |-> lv.px, size |-> lv.size - t] /\ rest.px = lv.px /\ rest.size = lv.size - t
  BY DEF Level
<1>3. /\ TakeLevel(a, lv).limit = a.limit /\ TakeLevel(a, lv).need = a.need - t
      /\ TakeLevel(a, lv).cost = a.cost + t * lv.px /\ TakeLevel(a, lv).left = left
      /\ TakeLevel(a, lv) = [limit |-> a.limit, need |-> a.need - t,
                             cost |-> a.cost + t * lv.px, left |-> left]
  <2>1. a = [limit |-> a.limit, need |-> a.need, cost |-> a.cost, left |-> a.left]
    BY DEF Walk
  <2>2. TakeLevel(a, lv) = [a EXCEPT !.need = @ - t, !.cost = @ + t * lv.px, !.left = left]
    BY <2>1 DEF TakeLevel
  <2> HIDE DEF left, t
  <2> QED
    BY <2>1, <2>2
<1> HIDE DEF t, rest
<1>5. t * lv.px \in Nat /\ lv.size * lv.px \in Nat
      /\ (lv.size - t) * lv.px = lv.size * lv.px - t * lv.px
  <2>1. t * lv.px \in Nat /\ lv.size * lv.px \in Nat
    BY <1>1, <1>2, Products
  <2>2. lv.size \in Int /\ t \in Int /\ lv.px \in Int
    BY <1>1, <1>2
  <2>3. (lv.size - t) * lv.px = lv.size * lv.px - t * lv.px
    BY <2>2, Distributes, Zenon
  <2> QED
    BY <2>1, <2>3
<1>6. /\ left \in Seq(Level) /\ Depth(left) = Depth(a.left) + lv.size - t
      /\ Value(left) = Value(a.left) + lv.size * lv.px - t * lv.px
  <2>0. Depth(a.left) \in Nat /\ Value(a.left) \in Nat
    BY <1>1, LadderType
  <2>1. CASE lv.size > t
    <3>1. rest \in Level
      BY <1>1, <1>2, <1>4, <2>1 DEF Level
    <3>2. /\ Append(a.left, rest) \in Seq(Level)
          /\ Depth(Append(a.left, rest)) = Depth(a.left) + (lv.size - t)
          /\ Value(Append(a.left, rest)) = Value(a.left) + (lv.size - t) * lv.px
      BY <1>1, <1>4, <3>1, LongerLadder
    <3>3. left = Append(a.left, rest)
      BY <2>1
    <3> HIDE DEF left
    <3> QED
      BY <1>1, <1>2, <1>5, <2>0, <3>2, <3>3
  <2>2. CASE ~(lv.size > t)
    <3>1. left = a.left /\ t = lv.size
      BY <1>1, <1>2, <2>2
    <3>2. lv.size - t = 0 /\ lv.size * lv.px = t * lv.px
      BY <1>1, <1>2, <3>1
    <3> HIDE DEF left
    <3>3. Depth(left) = Depth(a.left) /\ Value(left) = Value(a.left) /\ left \in Seq(Level)
      BY <1>1, <3>1
    <3>4. PICK p \in Nat : p = t * lv.px /\ p = lv.size * lv.px
      BY <1>5, <3>2
    <3>5. Value(a.left) + p - p = Value(a.left)
      BY <2>0
    <3>6. Depth(a.left) + lv.size - t = Depth(a.left)
      BY <1>1, <1>2, <2>0, <3>1
    <3> QED
      BY <3>3, <3>4, <3>5, <3>6, Zenon
  <2> QED
    BY <2>1, <2>2
<1> HIDE DEF left
<1>7. a.need - t \in Nat /\ a.cost + t * lv.px \in Nat
  <2>1. a.need - t \in Nat
    BY <1>1, <1>2
  <2> QED
    BY <1>1, <1>5, <2>1
<1>8. TakeLevel(a, lv) \in Walk
  BY <1>1, <1>3, <1>6, <1>7 DEF Walk
<1> QED
  BY <1>2, <1>3, <1>6, <1>8

\* Along the walk of the asks: what was needed and is not yet is what the levels so far
\* had and have no more, at their prices, and no price above the limit was paid.
Walked(limit, shares, asks, i, a) ==
    /\ a.limit = limit /\ a.need <= shares
    /\ (shares - a.need) + Depth(a.left) = SumTo(Sizes(asks), i)
    /\ a.cost + Value(a.left) = SumTo(Values(asks), i)
    /\ a.cost <= (shares - a.need) * limit

LEMMA WalkGoesOn ==
    ASSUME NEW limit \in Nat, NEW shares \in Nat, NEW asks \in Seq(Level),
           NEW i \in 1 .. Len(asks), NEW a \in Walk, Walked(limit, shares, asks, i - 1, a)
    PROVE  TakeLevel(a, asks[i]) \in Walk
           /\ Walked(limit, shares, asks, i, TakeLevel(a, asks[i]))
<1> DEFINE lv == asks[i]
           b == TakeLevel(a, lv)
           n == Len(asks)
<1>1. /\ n \in Nat /\ lv \in Level
      /\ \A j \in 1 .. n : Sizes(asks)[j] \in Int /\ Values(asks)[j] \in Int
      /\ Sizes(asks)[i] = lv.size /\ Values(asks)[i] = lv.size * lv.px
  <2>1. Len(asks) \in Nat
        /\ \A j \in 1 .. Len(asks) :
              /\ asks[j] \in Level
              /\ Sizes(asks)[j] = asks[j].size /\ Values(asks)[j] = asks[j].size * asks[j].px
              /\ Sizes(asks)[j] \in Nat /\ Values(asks)[j] \in Nat
    BY LevelsType, Zenon
  <2>2. \A j \in 1 .. Len(asks) : Sizes(asks)[j] \in Int /\ Values(asks)[j] \in Int
    BY <2>1
  <2> QED
    BY <2>1, <2>2, Zenon
<1>2. PICK t \in Nat :
         /\ t <= a.need /\ t <= lv.size /\ (t > 0 => lv.px <= a.limit) /\ b \in Walk
         /\ b.limit = a.limit /\ b.need = a.need - t /\ b.cost = a.cost + t * lv.px
         /\ Depth(b.left) = Depth(a.left) + lv.size - t
         /\ Value(b.left) = Value(a.left) + lv.size * lv.px - t * lv.px
  BY <1>1, LevelTaken
<1>3. /\ SumTo(Sizes(asks), i) = SumTo(Sizes(asks), i - 1) + lv.size
      /\ SumTo(Values(asks), i) = SumTo(Values(asks), i - 1) + lv.size * lv.px
  <2> HIDE DEF n
  <2>1. i \in 1 .. n
    BY DEF n
  <2>2. SumTo(Sizes(asks), i) = SumTo(Sizes(asks), i - 1) + Sizes(asks)[i]
    BY <1>1, <2>1, SumSteps
  <2>3. SumTo(Values(asks), i) = SumTo(Values(asks), i - 1) + Values(asks)[i]
    BY <1>1, <2>1, SumSteps
  <2> QED
    BY <1>1, <2>2, <2>3
<1>4. /\ a.need \in Nat /\ a.cost \in Nat /\ a.left \in Seq(Level) /\ a.limit = limit
      /\ a.need <= shares /\ lv.px \in Nat /\ lv.size \in Nat
      /\ b.need \in Nat /\ b.cost \in Nat /\ b.left \in Seq(Level)
  BY <1>1, <1>2 DEF Walk, Level, Walked
<1> HIDE DEF b, lv, n
<1>5. Depth(a.left) \in Nat /\ Value(a.left) \in Nat
  BY <1>4, LadderType
<1>6. PICK p \in Nat : p = t * lv.px
  BY <1>2, <1>4, Products
<1>11. PICK q \in Nat : q = lv.size * lv.px
  BY <1>2, <1>4, Products
<1>12. /\ b.cost = a.cost + p /\ Value(b.left) = Value(a.left) + q - p
       /\ SumTo(Values(asks), i) = SumTo(Values(asks), i - 1) + q
  BY <1>2, <1>3, <1>6, <1>11
<1>7. b.need <= shares
  BY <1>2, <1>4
<1>8. (shares - b.need) + Depth(b.left) = SumTo(Sizes(asks), i)
  <2>1. (shares - a.need) + Depth(a.left) = SumTo(Sizes(asks), i - 1)
    BY DEF Walked
  <2>2. PICK d \in Nat : d = Depth(a.left)
    BY <1>5
  <2>6. PICK x \in Nat : x = a.need
    BY <1>4
  <2>7. PICK y \in Nat : y = lv.size
    BY <1>4
  <2>3. Depth(b.left) = d + y - t /\ b.need = x - t
    BY <1>2, <2>2, <2>6, <2>7
  <2>4. SumTo(Sizes(asks), i) = ((shares - x) + d) + y
    BY <1>3, <2>1, <2>2, <2>6, <2>7
  <2>5. (shares - (x - t)) + (d + y - t) = ((shares - x) + d) + y
    OBVIOUS
  <2> QED
    BY <2>3, <2>4, <2>5
<1>9. b.cost + Value(b.left) = SumTo(Values(asks), i)
  <2>1. a.cost + Value(a.left) = SumTo(Values(asks), i - 1)
    BY DEF Walked
  <2>2. PICK v \in Nat : v = Value(a.left)
    BY <1>5
  <2>3. (a.cost + p) + (v + q - p) = (a.cost + v) + q
    BY <1>4
  <2> QED
    BY <1>12, <2>1, <2>2, <2>3
<1>10. b.cost <= (shares - b.need) * limit
  <2>1. a.cost <= (shares - a.need) * limit
    BY DEF Walked
  <2>2. t * lv.px <= t * limit
    <3>1. CASE t = 0
      BY <1>4, <3>1
    <3>2. CASE t # 0
      <4>1. lv.px <= limit
        BY <1>2, <1>4, <3>2
      <4> QED
        BY <1>2, <1>4, <4>1, ProductsGrow
    <3> QED
      BY <3>1, <3>2
  <2>3. shares - b.need = (shares - a.need) + t
    BY <1>2, <1>4
  <2>4. ((shares - a.need) + t) * limit = (shares - a.need) * limit + t * limit
    <3>1. shares - a.need \in Int /\ t \in Int /\ limit \in Int
      BY <1>4
    <3> QED
      BY <3>1, Distributes, Zenon
  <2>5. (shares - a.need) * limit \in Nat /\ t * limit \in Nat
    <3>1. shares - a.need \in Nat
      BY <1>4
    <3> QED
      BY <3>1, Products
  <2>6. PICK m \in Nat : m = (shares - a.need) * limit
    BY <2>5
  <2>7. PICK k \in Nat : k = t * limit
    BY <2>5
  <2>8. a.cost + p <= m + k
    <3>1. a.cost <= m
      BY <2>1, <2>6
    <3>2. p <= k
      BY <1>6, <2>2, <2>7
    <3>3. a.cost \in Nat
      BY <1>4
    <3> QED
      BY <3>1, <3>2, <3>3
  <2> QED
    BY <1>12, <2>3, <2>4, <2>6, <2>7, <2>8
<1> QED
  BY <1>2, <1>4, <1>7, <1>8, <1>9, <1>10 DEF Walked, b, lv

\* paper_match_fak on a whole ladder of asks.
LEMMA PaperMatchIs ==
    ASSUME NEW limit \in Nat, NEW shares \in Nat, NEW asks \in Seq(Level)
    PROVE  /\ PaperMatch(asks, limit, shares) \in Walk
           /\ Walked(limit, shares, asks, Len(asks), PaperMatch(asks, limit, shares))
<1> DEFINE n == Len(asks)
           start == Start(limit, shares)
           F == [x \in Walk \X Level |-> TakeLevel(x[1], x[2])]
           Rec(g) == g = [d \in SUBSET (1 .. n) |->
                             IF d = {} THEN start
                             ELSE TakeLevel(g[d \ {Max(d)}], asks[Max(d)])]
<1>1. n \in Nat /\ DOMAIN asks = 1 .. n /\ \A i \in 1 .. n : asks[i] \in Level
  BY LevelsType
<1>2. PaperMatch(asks, limit, shares) = (CHOOSE g : Rec(g))[1 .. n]
  BY <1>1 DEF PaperMatch, FoldLeft, MapThenFoldSet, Start
<1>3. start \in Walk
  <2>1. <<>> \in Seq(Level)
    OBVIOUS
  <2> QED
    BY <2>1 DEF Start, Walk
<1>4. /\ F \in [Walk \X Level -> Walk]
      /\ \A a \in Walk, lv \in Level : F[<<a, lv>>] = TakeLevel(a, lv)
  <2>1. \A a \in Walk, lv \in Level : TakeLevel(a, lv) \in Walk
    BY LevelTaken
  <2> QED
    BY <2>1
<1> HIDE DEF F, start, n
<1>5. PICK f \in [SUBSET (1 .. n) -> Walk] : FoldRecursion(F, start, asks, n, f)
  <2>1. \E f \in [SUBSET (1 .. n) -> Walk] : FoldRecursion(F, start, asks, n, f)
    BY <1>1, <1>3, <1>4, RecursionExists, Zenon
  <2> QED
    BY <2>1
<1>6. Rec(f)
  <2>1. ASSUME NEW d \in SUBSET (1 .. n)
        PROVE  f[d] = IF d = {} THEN start ELSE TakeLevel(f[d \ {Max(d)}], asks[Max(d)])
    <3>1. f[d] = IF d = {} THEN start ELSE F[<<f[d \ {Max(d)}], asks[Max(d)]>>]
      BY <1>5 DEF FoldRecursion
    <3>2. CASE d = {}
      BY <3>1, <3>2
    <3>3. CASE d # {}
      <4>1. f[d \ {Max(d)}] \in Walk /\ asks[Max(d)] \in Level
        BY <1>1, <3>3, MaxIsIn
      <4> QED
        BY <1>4, <3>1, <3>3, <4>1
    <3> QED
      BY <3>2, <3>3
  <2> QED
    BY <1>5, <2>1
<1> DEFINE g == CHOOSE x : Rec(x)
<1>7. Rec(g)
  BY <1>6
<1> HIDE DEF g
<1>8. \A d \in SUBSET (1 .. n) :
         g[d] = IF d = {} THEN start ELSE TakeLevel(g[d \ {Max(d)}], asks[Max(d)])
  BY <1>7
<1> DEFINE Good(i) == g[1 .. i] \in Walk /\ Walked(limit, shares, asks, i, g[1 .. i])
           S == {i \in Nat : i <= n => Good(i)}
<1>9. Good(0)
  <2>1. g[1 .. 0] = start
    BY <1>1, <1>8, Intervals
  <2>2. /\ start.limit = limit /\ start.need = shares /\ start.cost = 0
        /\ start.left = <<>>
    BY DEF start, Start
  <2>3. SumTo(Sizes(asks), 0) = 0 /\ SumTo(Values(asks), 0) = 0
    <3>1. 0 \in Nat /\ \A w : \A i \in 1 .. 0 : w[i] \in Int
      OBVIOUS
    <3> QED
      BY <3>1, SumSteps
  <2>4. (shares - shares) * limit = 0 /\ (shares - shares) + 0 = 0
    OBVIOUS
  <2> QED
    BY <1>3, <2>1, <2>2, <2>3, <2>4, EmptyLadder DEF Walked
<1>10. ASSUME NEW i \in Nat, i \in S PROVE i + 1 \in S
  <2> SUFFICES ASSUME i + 1 <= n PROVE Good(i + 1)
    OBVIOUS
  <2>1. /\ i + 1 \in 1 .. n /\ (i + 1) - 1 = i /\ Good(i)
    BY <1>1, <1>10
  <2>2. g[1 .. i + 1] = TakeLevel(g[1 .. i], asks[i + 1])
    <3>1. /\ 1 .. i + 1 \in SUBSET (1 .. n) /\ 1 .. i + 1 # {} /\ Max(1 .. i + 1) = i + 1
          /\ (1 .. i + 1) \ {i + 1} = 1 .. i
      BY <1>1, <2>1, Intervals
    <3> QED
      BY <1>8, <3>1
  <2>3. i + 1 \in 1 .. Len(asks)
    BY <2>1 DEF n
  <2>4. /\ TakeLevel(g[1 .. i], asks[i + 1]) \in Walk
        /\ Walked(limit, shares, asks, i + 1, TakeLevel(g[1 .. i], asks[i + 1]))
    BY <2>1, <2>3, WalkGoesOn
  <2> QED
    BY <2>2, <2>4
<1> HIDE DEF S, Good
<1>11. n \in S
  BY <1>1, <1>9, <1>10, SetInduction DEF S
<1>12. Good(n)
  BY <1>11 DEF S
<1> QED
  BY <1>2, <1>12 DEF Good, n, g

-----------------------------------------------------------------------------
(* A paper window *)

NoOrders == orders = [l \in Legs |-> [r \in Rungs |-> NoOrder]]
OnQuote(l) ==
    /\ booked[l] + Depth(book[l]) = Depth(quoted[l])
    /\ cost[l] + Value(book[l]) = Value(quoted[l])
    /\ booked[l] + remaining[l] = Want[l]
    /\ cost[l] <= booked[l] * Cap[l]
PaperInv == /\ TypeOK /\ NoOrders /\ pc \notin {"poll", "cancel", "raised"}
            /\ \A l \in Legs : OnQuote(l)

LEMMA PaperInit == ASSUME Init PROVE PaperInv
<1>1. NLegs \in Nat \ {0} /\ 1 \in Legs /\ 1 \in Rungs
  BY WindowAssumption DEF Legs, Rungs
<1>2. TypeOK
  <2>1. book \in [Legs -> Seq([px : Nat, size : Nat])]
    BY WindowAssumption DEF Init
  <2>2. orders \in [Legs -> [Rungs -> Order]]
    BY DEF Init, NoOrder, Order
  <2>3. 0 \in 0 .. Polls /\ 0 \in 0 .. Cancels
    BY WindowAssumption
  <2> QED
    BY <1>1, <2>1, <2>2, <2>3, WindowAssumption DEF Init, TypeOK
<1>3. ASSUME NEW l \in Legs PROVE OnQuote(l)
  <2>1. booked[l] = 0 /\ cost[l] = 0 /\ remaining[l] = Want[l] /\ book[l] = quoted[l]
    BY DEF Init
  <2>2. book[l] \in Seq(Level) /\ Want[l] \in Nat /\ Cap[l] \in Nat
    BY <1>2, WindowAssumption DEF TypeOK, Level
  <2>3. Depth(book[l]) \in Nat /\ Value(book[l]) \in Nat
    BY <2>2, LadderType
  <2>4. 0 * Cap[l] = 0
    BY <2>2
  <2> QED
    BY <2>1, <2>2, <2>3, <2>4 DEF OnQuote
<1> QED
  BY <1>2, <1>3 DEF PaperInv, NoOrders, Init

\* A step that leaves the fills and the books alone.
LEMMA PaperQuiet ==
    ASSUME PaperInv, UNCHANGED <<port, quoted, book, fills, orders, polls, tries>>,
           pc' \in {"open", "leg", "fund"} \cup Final, pc' # "raised",
           leg' \in Legs, rung' \in Rungs
    PROVE  PaperInv'
<1>1. TypeOK'
  BY DEF PaperInv, TypeOK, fills
<1>2. NoOrders' /\ pc' \notin {"poll", "cancel", "raised"}
  BY DEF PaperInv, NoOrders, Final
<1>3. ASSUME NEW l \in Legs PROVE OnQuote(l)'
  BY DEF PaperInv, OnQuote, fills
<1> QED
  BY <1>1, <1>2, <1>3 DEF PaperInv

\* A rung's match of one leg.
LEMMA PaperFillStep ==
    ASSUME PaperInv, PaperFill PROVE PaperInv'
<1> SUFFICES ASSUME NEW L \in Legs, L = leg PROVE PaperInv'
  BY DEF PaperInv, TypeOK
<1> DEFINE n == remaining[L]
           p == Limit(L)
           m == PaperMatch(book[L], p, n)
<1>0. TypeOK
  BY DEF PaperInv
<1>1. /\ L \in Legs /\ book[L] \in Seq(Level) /\ n \in Nat /\ booked[L] \in Nat
      /\ cost[L] \in Nat /\ Want[L] \in Nat /\ Cap[L] \in Nat
  BY <1>0, WindowAssumption DEF TypeOK, Level
<1>2. p \in Nat /\ p <= Cap[L]
  BY <1>0, LimitType, LimitWithinCap DEF PaperFill
<1>3. m \in Walk /\ Walked(p, n, book[L], Len(book[L]), m)
  BY <1>1, <1>2, PaperMatchIs
<1>4. m.need \in Nat /\ m.need <= n /\ m.cost \in Nat /\ m.left \in Seq(Level)
  BY <1>3 DEF Walk, Walked
<1>5. /\ book' = [book EXCEPT ![L] = m.left]
      /\ booked' = [booked EXCEPT ![L] = @ + n - m.need]
      /\ cost' = [cost EXCEPT ![L] = @ + m.cost]
      /\ remaining' = [remaining EXCEPT ![L] = m.need]
      /\ UNCHANGED <<port, quoted, orders, polls, tries>> /\ NextLeg
  BY DEF PaperFill, opening
<1>6. leg' \in Legs /\ rung' \in Rungs /\ pc' \in {"leg", "fund"}
  BY <1>0, <1>5, NextLegMoves
<1> HIDE DEF m, n, p
<1>7. /\ book'[L] = m.left /\ booked'[L] = booked[L] + n - m.need
      /\ cost'[L] = cost[L] + m.cost /\ remaining'[L] = m.need
      /\ \A l \in Legs : l # L => /\ book'[l] = book[l] /\ booked'[l] = booked[l]
                                  /\ cost'[l] = cost[l] /\ remaining'[l] = remaining[l]
  BY <1>0, <1>1, <1>5 DEF TypeOK
<1>8. PICK t \in Nat : t = n - m.need
  BY <1>1, <1>4
<1>9. booked'[L] = booked[L] + t /\ n = m.need + t
  BY <1>1, <1>4, <1>7, <1>8
<1>10. OnQuote(L)'
  <2>0. OnQuote(L) /\ n = remaining[L]
    BY <1>1 DEF PaperInv, n
  <2>1. /\ Depth(book[L]) = SumTo(Sizes(book[L]), Len(book[L]))
        /\ Value(book[L]) = SumTo(Values(book[L]), Len(book[L]))
    BY <1>1, DepthIsSum, ValueIsSum
  <2>2. /\ t + Depth(m.left) = Depth(book[L]) /\ m.cost + Value(m.left) = Value(book[L])
        /\ m.cost <= t * p
    BY <1>3, <1>8, <2>1 DEF Walked
  <2>3. PICK d \in Nat : d = Depth(m.left)
    BY <1>4, LadderType
  <2>4. PICK v \in Nat : v = Value(m.left)
    BY <1>4, LadderType
  <2>5. quoted'[L] = quoted[L]
    BY <1>5
  <2>6. booked'[L] + Depth(book'[L]) = Depth(quoted'[L])
    BY <1>1, <1>7, <1>9, <2>0, <2>2, <2>3, <2>5 DEF OnQuote
  <2>7. cost'[L] + Value(book'[L]) = Value(quoted'[L])
    BY <1>1, <1>4, <1>7, <2>0, <2>2, <2>4, <2>5 DEF OnQuote
  <2>8. booked'[L] + remaining'[L] = Want[L]
    BY <1>1, <1>4, <1>7, <1>9, <2>0 DEF OnQuote
  <2>9. cost'[L] <= booked'[L] * Cap[L]
    <3>1. cost[L] <= booked[L] * Cap[L]
      BY <2>0 DEF OnQuote
    <3>2. t * p <= t * Cap[L]
      BY <1>1, <1>2, ProductsGrow
    <3>3. (booked[L] + t) * Cap[L] = booked[L] * Cap[L] + t * Cap[L]
      <4>1. booked[L] \in Int /\ t \in Int /\ Cap[L] \in Int
        BY <1>1
      <4> QED
        BY <4>1, Distributes, Zenon
    <3>4. PICK x \in Nat : x = booked[L] * Cap[L]
      BY <1>1, Products
    <3>5. PICK y \in Nat : y = t * Cap[L]
      BY <1>1, Products
    <3>6. PICK z \in Nat : z = t * p
      BY <1>2, Products
    <3>7. cost[L] <= x /\ m.cost <= z /\ z <= y
      BY <2>2, <3>1, <3>2, <3>4, <3>5, <3>6
    <3>8. cost[L] + m.cost <= x + y
      BY <1>1, <1>4, <3>7
    <3> QED
      BY <1>7, <1>9, <3>3, <3>4, <3>5, <3>8
  <2> QED
    BY <2>6, <2>7, <2>8, <2>9 DEF OnQuote
<1>11. ASSUME NEW l \in Legs, l # L PROVE OnQuote(l)'
  BY <1>5, <1>7, <1>11 DEF PaperInv, OnQuote
<1>12. TypeOK'
  <2>1. book' \in [Legs -> Seq([px : Nat, size : Nat])]
    BY <1>0, <1>1, <1>4, <1>5 DEF TypeOK, Level
  <2>2. booked[L] + n - m.need \in Nat /\ cost[L] + m.cost \in Nat
    <3>1. PICK x \in Nat : x = booked[L]
      BY <1>1
    <3>2. PICK y \in Nat : y = cost[L]
      BY <1>1
    <3>3. PICK z \in Nat : z = m.cost
      BY <1>4
    <3>4. PICK w \in Nat : w = m.need
      BY <1>4
    <3>5. n = w + t
      BY <1>9, <3>4
    <3>6. x + n - w \in Nat /\ y + z \in Nat
      BY <3>5
    <3> QED
      BY <3>1, <3>2, <3>3, <3>4, <3>6
  <2>3. /\ booked' \in [Legs -> Nat] /\ cost' \in [Legs -> Nat]
        /\ remaining' \in [Legs -> Nat]
    BY <1>0, <1>1, <1>4, <1>5, <2>2 DEF TypeOK
  <2> QED
    BY <1>0, <1>5, <1>6, <2>1, <2>3 DEF TypeOK
<1>13. NoOrders' /\ pc' \notin {"poll", "cancel", "raised"}
  BY <1>5, <1>6 DEF PaperInv, NoOrders
<1> QED
  BY <1>10, <1>11, <1>12, <1>13 DEF PaperInv

\* Nothing is submitted, and the venue has nothing of the window to act on.
LEMMA PaperStep ==
    ASSUME ~Live, PaperInv, [Next]_vars PROVE PaperInv'
<1>0. /\ TypeOK /\ NoOrders /\ pc \notin {"poll", "cancel", "raised"}
      /\ leg \in Legs /\ rung \in Rungs
  BY DEF PaperInv, TypeOK
<1>1. \A l \in Legs, r \in Rungs : orders[l][r].st # "live"
  BY <1>0 DEF NoOrders, NoOrder
<1>2. CASE UNCHANGED vars
  BY <1>0, <1>2, PaperQuiet DEF vars, window, opening, TypeOK, Final
<1>3. CASE PassPreflight
  BY <1>0, <1>3, PaperQuiet DEF PassPreflight, opening
<1>4. CASE SkipLeg
  <2>1. leg' \in Legs /\ rung' \in Rungs /\ pc' \in {"leg", "fund"}
    BY <1>0, <1>4, NextLegMoves DEF SkipLeg
  <2> QED
    BY <1>4, <2>1, PaperQuiet DEF SkipLeg, opening
<1>5. CASE PaperFill
  BY <1>5, PaperFillStep
<1>6. CASE Fund
  BY <1>0, <1>6, PaperQuiet DEF Fund, opening, Final
<1>7. ~(FailPreflight \/ NotTaken \/ OrderTaken \/ AnswerLost \/ SubmitRaises)
  BY DEF FailPreflight, NotTaken, OrderTaken, AnswerLost, SubmitRaises, Submits
<1>8. ~(PollAnswered \/ PollPending \/ PollFails \/ CancelConfirmed \/ CancelFails)
  BY <1>0 DEF PollAnswered, PollPending, PollFails, CancelConfirmed, CancelFails
<1>9. ~Venue
  BY <1>1 DEF Venue, VenueCloses, VenueMatches
<1> QED
  BY <1>2, <1>3, <1>4, <1>5, <1>6, <1>7, <1>8, <1>9 DEF Next, PaperFire

-----------------------------------------------------------------------------
(* Every window, whatever its port *)

WindowInv == (Live => IInv /\ MoneyInv) /\ (~Live => PaperInv)

LEMMA SamePort == ASSUME [Next]_vars PROVE port' = port
  BY DEF vars, opening, Next, PaperFire, Venue, PassPreflight, FailPreflight, SkipLeg,
         PaperFill, NotTaken, OrderTaken, AnswerLost, SubmitRaises, PollAnswered,
         PollPending, PollFails, CancelConfirmed, CancelFails, Fund, VenueCloses,
         VenueMatches

LEMMA WindowSafety == Spec => []WindowInv
<1>1. Init => WindowInv
  BY InitInv, MoneyInit, PaperInit DEF WindowInv
<1>2. WindowInv /\ [Next]_vars => WindowInv'
  <2> SUFFICES ASSUME WindowInv, [Next]_vars PROVE WindowInv'
    OBVIOUS
  <2>1. Live' <=> Live
    BY SamePort DEF Live
  <2>2. CASE Live
    <3>1. IInv' /\ MoneyInv'
      BY <2>2, StepInv, MoneyStep DEF WindowInv
    <3> QED
      BY <2>1, <2>2, <3>1 DEF WindowInv
  <2>3. CASE ~Live
    <3>1. PaperInv'
      BY <2>3, PaperStep DEF WindowInv
    <3> QED
      BY <2>1, <2>3, <3>1 DEF WindowInv
  <2> QED
    BY <2>2, <2>3
<1> QED
  BY <1>1, <1>2, PTL DEF Spec

\* A window is well typed, for every fire, book and port.
THEOREM WindowTypeCorrect == Spec => []TypeOK
<1>1. WindowInv => TypeOK
  BY DEF WindowInv, IInv, PaperInv
<1> QED
  BY <1>1, WindowSafety, PTL

\* What paper_match_fak takes over the rungs of a paper window is quoted depth, each share
\* of it once and at its quoted price, whatever the ladders of the books.
THEOREM PaperTakesWhatIsQuoted == Spec => []PaperFillsQuotedDepth
<1>1. WindowInv => PaperFillsQuotedDepth
  BY DEF WindowInv, PaperInv, OnQuote, PaperFillsQuotedDepth
<1> QED
  BY <1>1, WindowSafety, PTL

\* No share the venue sells to a live window is lost: once a leg's match has returned,
\* each one is booked or belongs to an order reported as residual risk.
THEOREM NoFillIsLost == Spec => []FillsBookedOrFlagged
<1>2. WindowInv => FillsBookedOrFlagged
  <2> SUFFICES ASSUME WindowInv, Live, Returned, NEW l \in Legs \ RestsPartly
               PROVE  booked[l] = OverRungs(SafeShares, l)
    BY DEF FillsBookedOrFlagged
  <2>1. booked[l] = Counted(l, 1) + Counted(l, 2) + Counted(l, 3)
    BY DEF WindowInv, IInv, Accounted, Returned
  <2>2. \A r \in Rungs : Counted(l, r) = SafeShares(orders[l][r])
    BY DEF Counted, InFlight, Returned, SafeShares
  <2> QED
    BY <2>1, <2>2 DEF OverRungs, Rungs
<1> QED
  BY <1>2, WindowSafety, PTL

\* No order of a window rests unreported once its leg's match has returned.
THEOREM NoRestingSurprise == Spec => []RestingIsFlagged
<1>1. IInv => RestingIsFlagged
  BY DEF IInv, OrderInv, OrderOK, InFlight, Returned, RestingIsFlagged
<1>2. PaperInv => RestingIsFlagged
  BY DEF PaperInv, NoOrders, NoOrder, RestingIsFlagged
<1>3. WindowInv => RestingIsFlagged
  BY <1>1, <1>2 DEF WindowInv
<1> QED
  BY <1>3, WindowSafety, PTL

\* Over its three rungs a leg never costs more than the notional it was sized for, as
\* long as no order of it is at risk: polls that time out and cancels that win or lose
\* the race with the venue never free shares that are bought already.
THEOREM WindowSpendsItsNotional == Spec => []SpendWithinBudget
<1>1. IInv /\ MoneyInv => SpendWithinBudget
  <2> SUFFICES ASSUME IInv, MoneyInv, NEW l \in Legs \ RestsPartly, ~AtRisk(l)
               PROVE  OverRungs(Spend, l) <= Want[l] * Cap[l]
    BY DEF SpendWithinBudget
  <2>1. Money(l) /\ TypeOK
    BY DEF MoneyInv, IInv
  <2>2. Paid(l, 1) + Paid(l, 2) + Paid(l, 3) + Left(l) <= Want[l] * Cap[l]
    BY <2>1 DEF Money
  <2>3. /\ \A r \in Rungs : Paid(l, r) \in Nat /\ Spend(orders[l][r]) \in Nat
        /\ Left(l) \in Nat /\ Want[l] * Cap[l] \in Nat
    <3>1. ASSUME NEW r \in Rungs
          PROVE  Spend(orders[l][r]) \in Nat
      <4>1. orders[l][r] \in Order
        BY <2>1 DEF TypeOK
      <4>2. orders[l][r].got \in Nat /\ orders[l][r].px \in Nat
        BY <4>1 DEF Order
      <4> QED
        BY <4>2, Products DEF Spend
    <3> QED
      BY <2>1, <3>1, PaidType
  <2>4. \A r \in Rungs : ~Pending(l, r) => Spend(orders[l][r]) = Paid(l, r)
    BY DEF Spend, Paid
  <2>5. ASSUME NEW r \in Rungs, Pending(l, r)
        PROVE  Spend(orders[l][r]) <= Paid(l, r) + Left(l)
    <3>1. PriceOK(l, r) /\ OrderOK(l, r) /\ orders[l][r] \in Order
      BY <2>1 DEF Money, IInv, OrderInv, TypeOK
    <3>2. Paid(l, r) = 0
      BY <2>5 DEF Paid
    <3>3. CASE orders[l][r].st = "none"
      BY <2>3, <3>1, <3>2, <3>3 DEF OrderOK, Spend, Order
    <3>4. CASE orders[l][r].st # "none"
      <4>1. /\ orders[l][r].size = remaining[l] /\ orders[l][r].limit <= Cap[l]
            /\ Spend(orders[l][r]) <= orders[l][r].size * orders[l][r].limit
        BY <2>5, <3>1, <3>4 DEF PriceOK, Spend
      <4>2. orders[l][r].size \in Nat /\ orders[l][r].limit \in Nat /\ Cap[l] \in Nat
            /\ orders[l][r].size * orders[l][r].limit \in Nat
        BY <3>1, WindowAssumption, Products DEF Order
      <4>3. orders[l][r].size * orders[l][r].limit <= orders[l][r].size * Cap[l]
        BY <4>1, <4>2, ProductsGrow
      <4>4. orders[l][r].size * Cap[l] = Left(l)
        BY <4>1 DEF Left
      <4> QED
        BY <2>3, <3>2, <4>1, <4>2, <4>3, <4>4
    <3> QED
      BY <3>3, <3>4
  <2>6. \A q, r \in Rungs : Pending(l, q) /\ Pending(l, r) => q = r
    BY DEF Pending
  <2>7. 1 \in Rungs /\ 2 \in Rungs /\ 3 \in Rungs
    BY DEF Rungs
  <2>8. OverRungs(Spend, l) = Spend(orders[l][1]) + Spend(orders[l][2]) + Spend(orders[l][3])
    BY DEF OverRungs
  <2> HIDE DEF Paid, Left, Pending, Spend
  <2>9. Spend(orders[l][1]) + Spend(orders[l][2]) + Spend(orders[l][3])
          <= Paid(l, 1) + Paid(l, 2) + Paid(l, 3) + Left(l)
    BY <2>3, <2>4, <2>5, <2>6, <2>7
  <2> QED
    BY <2>2, <2>3, <2>7, <2>8, <2>9
<1>2. PaperInv => SpendWithinBudget
  <2> SUFFICES ASSUME PaperInv, NEW l \in Legs
               PROVE  OverRungs(Spend, l) <= Want[l] * Cap[l]
    BY DEF SpendWithinBudget
  <2>1. \A r \in Rungs : Spend(orders[l][r]) = 0
    BY DEF PaperInv, NoOrders, NoOrder, Spend
  <2>2. Want[l] * Cap[l] \in Nat
    BY WindowAssumption, Products
  <2> QED
    BY <2>1, <2>2 DEF OverRungs, Rungs
<1>3. WindowInv => SpendWithinBudget
  BY <1>1, <1>2 DEF WindowInv
<1> QED
  BY <1>3, WindowSafety, PTL

\* What a live window hands the ledger covers what the venue took for the shares it
\* books, whether their average price could be read or not.
THEOREM LedgerIsToldEnough == Spec => []LedgerCoversFills
<1>1. WindowInv => LedgerCoversFills
  <2> SUFFICES ASSUME WindowInv, Live, Returned, NEW l \in Legs \ RestsPartly
               PROVE  cost[l] >= OverRungs(SafeSpend, l)
    BY DEF LedgerCoversFills
  <2>1. cost[l] >= Sure(l, 1) + Sure(l, 2) + Sure(l, 3)
    BY DEF WindowInv, MoneyInv, Money, Returned
  <2>2. \A r \in Rungs : Sure(l, r) = SafeSpend(orders[l][r])
    BY DEF Sure, Paid, Pending, Returned, SafeSpend
  <2> QED
    BY <2>1, <2>2 DEF OverRungs, Rungs
<1> QED
  BY <1>1, WindowSafety, PTL
==============================================================================
