--------------------------- MODULE SmokeOrder_proofs ---------------------------
(***************************************************************************)
(* What a smoke run says of itself is true, and its rescue keeps to its    *)
(* own scope: for every set of tokens, books, accounts, caps and other     *)
(* orders, every price chosen, and whatever the venue, the audit log and   *)
(* the answers of the venue do.                                            *)
(***************************************************************************)
EXTENDS SmokeOrder, FoldFacts

Early == {"gates", "connect", "select", "risk", "plan"}

\* Up to the submit there is no order and nothing has been struck.
Unsent == pc \in Early \cup {"submit"} => mine.st = "none" /\ struck = {}

\* Past the choice of a bucket there is one.
Picked == pc \in {"risk", "plan", "submit"} => pick \in Tokens /\ seen \in Books

\* Only a write run that has planned an order has one.
Planned == mine.st # "none" \/ pc \in {"submit", "submit_failed", "confirm", "cancel", "after", "list"}
           => plan # NoPlan /\ ~readonly

\* A write run calls itself clean only after its last query has found the order cancelled
\* and untouched, and nothing changes an order that is cancelled.
Clean ==
    report.ok /\ ~readonly =>
        /\ pc \in {"list", "handler", "rescue"} \cup Final
        /\ mine.st = "canceled" /\ mine.got = 0

IInv == /\ TypeOK /\ Unsent /\ Picked /\ Planned /\ Clean
        /\ OnlyOwnScope /\ PlannedRestingIsReported

MineType == [st : {"none", "live", "matched", "canceled"}, px : Nat, size : Nat,
             got : Nat, known : BOOLEAN]
ReportType == [ok : BOOLEAN, residual : BOOLEAN, fill : BOOLEAN, confirmed : BOOLEAN,
               canceled : BOOLEAN, after : BOOLEAN]

-----------------------------------------------------------------------------
(* Operators *)

LEMMA Products == \A a, b \in Nat : a * b \in Nat
  OBVIOUS

LEMMA Quotients == \A a \in Nat, b \in Nat \ {0} : a \div b \in Nat
  OBVIOUS

LEMMA HeadType ==
  ASSUME NEW R, NEW s \in Seq(R), s # <<>>
  PROVE  Head(s) \in R
  OBVIOUS

LEMMA BestAskType ==
  ASSUME NEW b \in Book
  PROVE  BestAsk(b) \in Nat
<1>1. CASE b.asks = <<>>
  BY <1>1 DEF BestAsk
<1>2. CASE b.asks # <<>>
  <2>1. b.asks \in Seq([px : Nat, size : Nat])
    BY DEF Book
  <2>2. Head(b.asks) \in [px : Nat, size : Nat]
    BY <1>2, <2>1, HeadType
  <2> QED
    BY <1>2, <2>2 DEF BestAsk
<1> QED
  BY <1>1, <1>2

LEMMA AlignDownType ==
  ASSUME NEW v \in Nat
  PROVE  AlignDown(v) \in Nat
<1>1. Tick \in Nat \ {0}
  BY PriceAssumption
<1>2. v \div Tick \in Nat
  BY <1>1, Quotients
<1> QED
  BY <1>1, <1>2, Products DEF AlignDown

\* A passive price is a price, whatever the two quotes are.
LEMMA SmokePriceType ==
  ASSUME NEW b \in Book
  PROVE  SmokePrice(b) \in Nat
<1>1. CASE TwoSided(b) /\ SmokeRaw(b) >= Tick
  <2>1. BestAsk(b) \in Nat /\ b.bid \in Nat /\ Tick \in Nat
    BY BestAskType, PriceAssumption DEF Book
  <2>2. SmokeRaw(b) \in Int
    BY <2>1 DEF SmokeRaw, Least, TickGap
  <2>3. SmokeRaw(b) \in Nat
    BY <1>1, <2>1, <2>2
  <2> QED
    BY <1>1, <2>3, AlignDownType DEF SmokePrice
<1>2. CASE ~(TwoSided(b) /\ SmokeRaw(b) >= Tick)
  BY <1>2 DEF SmokePrice, NoPrice
<1> QED
  BY <1>1, <1>2

LEMMA ClampLimitType ==
  ASSUME NEW b \in Book, NEW limit \in Nat
  PROVE  ClampLimit(limit, b) \in Nat
<1>1. CASE BestAsk(b) > Tick
  <2>1. BestAsk(b) \in Nat /\ Tick \in Nat
    BY BestAskType, PriceAssumption
  <2>2. Least(limit, BestAsk(b) - Tick) \in Nat
    BY <1>1, <2>1 DEF Least
  <2> QED
    BY <1>1, <2>2, AlignDownType DEF ClampLimit
<1>2. CASE ~(BestAsk(b) > Tick)
  BY <1>2 DEF ClampLimit, NoPrice
<1> QED
  BY <1>1, <1>2

LEMMA PlanOrderType ==
  ASSUME NEW px \in Nat, NEW budget \in Nat, NEW cap, NEW min
  PROVE  PlanOrder(px, budget, cap, min) \in [px : Nat, size : Nat]
<1>1. CASE px > 0
  <2>1. budget \div px \in Nat
    BY <1>1, Quotients
  <2> QED
    BY <2>1 DEF PlanOrder, NoPlan, NoPrice
<1>2. CASE ~(px > 0)
  BY <1>2 DEF PlanOrder, NoPlan, NoPrice
<1> QED
  BY <1>1, <1>2

LEMMA AuditedNext ==
  ASSUME NEW next, Audited(next)
  PROVE  pc' \in {next, "handler"}
  BY DEF Audited

-----------------------------------------------------------------------------
(* Up to the submit *)

LEMMA InitInv == Init => IInv
<1> SUFFICES ASSUME Init PROVE IInv
  OBVIOUS
<1>1. TypeOK
  <2>1. report \in ReportType
    BY DEF Init, Blank, ReportType
  <2>2. mine \in MineType /\ plan \in [px : Nat, size : Nat]
    BY DEF Init, MineType, NoOrder, NoPlan, NoPrice
  <2>3. others \subseteq [tok : Tokens, px : Nat]
    BY SmokeAssumption DEF Init
  <2>4. moves \in 0 .. Moves
    BY SmokeAssumption DEF Init
  <2> QED
    BY <2>1, <2>2, <2>3, <2>4 DEF Init, TypeOK, MineType, ReportType
<1>2. report.ok = FALSE /\ mine.st = "none" /\ struck = {} /\ pc = "gates"
  BY DEF Init, Blank, NoOrder
<1> QED
  BY <1>1, <1>2 DEF IInv, Unsent, Picked, Planned, Clean, OnlyOwnScope, PlannedRestingIsReported, Early

\* A step that leaves the order, the plan and the report alone and goes on, ends or fails.
LEMMA QuietStep ==
  ASSUME IInv, pc \in {"gates", "connect", "risk"},
         pc' \in {"connect", "select", "plan", "handler"} \cup Final,
         pc' = "plan" => pc = "risk",
         UNCHANGED <<input, market, choice, venue, report>>, UNCHANGED log
  PROVE  IInv'
<1>0. UNCHANGED <<readonly, gates, leg, caps, methods, account, books, moves, pick, seen, plan,
                  mine, others, struck, report, log>>
  BY DEF input, market, choice, venue
<1>1. mine.st = "none" /\ struck = {}
  BY DEF IInv, Unsent, Early
<1>2. TypeOK'
  BY <1>0 DEF IInv, TypeOK, Final
<1> QED
  BY <1>0, <1>1, <1>2 DEF IInv, Unsent, Picked, Planned, Clean, OnlyOwnScope,
     PlannedRestingIsReported, Early, Final

LEMMA SelectInv == IInv /\ Select => IInv'
<1> SUFFICES ASSUME IInv, Select PROVE IInv'
  OBVIOUS
<1>0. /\ pc = "select"
      /\ UNCHANGED <<readonly, gates, leg, caps, methods, account, log, books, moves, plan,
                     mine, others, struck, report>>
  BY DEF Select, input, market, venue
<1>1. mine.st = "none" /\ struck = {}
  BY <1>0 DEF IInv, Unsent, Early
<1>2. ~(report.ok /\ ~readonly)
  BY <1>0 DEF IInv, Clean, Final
<1>3. \/ pc' \in {"done", "handler"} /\ pick' = pick /\ seen' = seen
      \/ pc' \in {"risk", "handler"} /\ \E t \in Tokens : pick' = t /\ seen' = books[t]
  <2>1. PICK readable \in SUBSET Tokens :
          LET good == {t \in readable : AssessBook(books[t], Cap)}
          IN  IF good = {} THEN Audited("done") /\ UNCHANGED <<pick, seen>>
              ELSE /\ Audited("risk")
                   /\ \E t \in ChooseBucket(good, books) : pick' = t /\ seen' = books[t]
    BY DEF Select
  <2> QED
    BY <2>1, AuditedNext DEF ChooseBucket
<1>4. pick' \in Tokens \cup {NoTok} /\ seen' \in Books \cup {NoBook}
  BY <1>0, <1>3 DEF IInv, TypeOK
<1>5. pc' = "risk" => pick' \in Tokens /\ seen' \in Books
  BY <1>0, <1>3 DEF IInv, TypeOK
<1>6. TypeOK'
  BY <1>0, <1>3, <1>4 DEF IInv, TypeOK, Final
<1> QED
  BY <1>0, <1>1, <1>2, <1>3, <1>5, <1>6 DEF IInv, Unsent, Picked, Planned, Clean, OnlyOwnScope,
     PlannedRestingIsReported, Early, Final

LEMMA PlanInv == IInv /\ Plan => IInv'
<1> SUFFICES ASSUME IInv, Plan PROVE IInv'
  OBVIOUS
<1>0. /\ pc = "plan"
      /\ UNCHANGED <<readonly, gates, leg, caps, methods, account, log, books, moves, pick, seen,
                     mine, others, struck>>
  BY DEF Plan, input, market, venue
<1>1. mine.st = "none" /\ struck = {}
  BY <1>0 DEF IInv, Unsent, Early
<1>2. ~(report.ok /\ ~readonly)
  BY <1>0 DEF IInv, Clean, Final
<1>3. pick \in Tokens /\ seen \in Book
  BY <1>0, SmokeAssumption DEF IInv, Picked
<1>4. PICK override \in Overrides :
        LET p  == PlanOrder(PriceOf(override), Budget, Cap, seen.min)
            ok == /\ p # NoPlan /\ CheckLimits(MaxCost(p), Collected, Limits)
                  /\ NonMarketable(p.px, seen)
        IN  /\ plan' = p
            /\ Audited(IF ok /\ ~readonly THEN "submit" ELSE "done")
            /\ report' = [report EXCEPT !.ok = ok /\ readonly]
  BY DEF Plan
<1> DEFINE p  == PlanOrder(PriceOf(override), Budget, Cap, seen.min)
           ok == /\ p # NoPlan /\ CheckLimits(MaxCost(p), Collected, Limits)
                 /\ NonMarketable(p.px, seen)
<1>5. plan' \in [px : Nat, size : Nat]
  <2>1. override \in Nat /\ Budget \in Nat
    BY SmokeAssumption
  <2>2. PriceOf(override) \in Nat
    BY <1>3, <2>1, SmokePriceType, AlignDownType DEF PriceOf
  <2> QED
    BY <1>4, <2>1, <2>2, PlanOrderType
<1>6. /\ pc' \in {"submit", "done", "handler"}
      /\ pc' = "submit" => plan' # NoPlan /\ ~readonly
  BY <1>4, AuditedNext
<1>7. report' \in ReportType /\ (report'.ok => readonly)
  <2>1. report \in ReportType
    BY DEF IInv, TypeOK, ReportType
  <2>2. report' = [report EXCEPT !.ok = ok /\ readonly]
    BY <1>4
  <2> HIDE DEF ok
  <2>3. readonly \in BOOLEAN
    BY DEF IInv, TypeOK
  <2>4. (ok /\ readonly) \in BOOLEAN
    OBVIOUS
  <2>5. report'.ok = (ok /\ readonly)
    BY <2>1, <2>2 DEF ReportType
  <2> QED
    BY <2>1, <2>2, <2>4, <2>5 DEF ReportType
<1>8. TypeOK'
  BY <1>0, <1>5, <1>6, <1>7 DEF IInv, TypeOK, Final, ReportType
<1> QED
  BY <1>0, <1>1, <1>3, <1>6, <1>7, <1>8 DEF IInv, Unsent, Picked, Planned, Clean, OnlyOwnScope,
     PlannedRestingIsReported, Early, Final

LEMMA EarlyInv == IInv /\ (PassGates \/ Connect \/ Risk) => IInv'
<1> SUFFICES ASSUME IInv, PassGates \/ Connect \/ Risk PROVE IInv'
  OBVIOUS
<1>1. UNCHANGED <<input, log, market, choice, venue, report>>
  BY DEF PassGates, Connect, Risk
<1>2. pc \in {"gates", "connect", "risk"} /\ (pc' = "plan" => pc = "risk")
  BY DEF PassGates, Connect, Risk, Audited
<1>3. pc' \in {"connect", "select", "plan", "handler"} \cup Final
  BY DEF PassGates, Connect, Risk, Audited, Final
<1> QED
  BY <1>1, <1>2, <1>3, QuietStep

-----------------------------------------------------------------------------
(* The order *)

\* The price signed is a price: that of the plan, clamped under the ask of a book.
LEMMA LandedType ==
  ASSUME IInv, pc = "submit", NEW known \in BOOLEAN
  PROVE  Landed(known) \in MineType /\ Landed(known).st = "live"
<1>1. books[pick] \in Book
  BY SmokeAssumption DEF IInv, Picked, TypeOK
<1>2. plan.px \in Nat /\ plan.size \in Nat
  BY DEF IInv, TypeOK
<1>3. Limit \in Nat
  BY <1>1, <1>2, ClampLimitType DEF Limit
<1> QED
  BY <1>2, <1>3 DEF Landed, MineType

LEMMA SubmitInv ==
  IInv /\ (Submit \/ \E landed \in BOOLEAN : NotAnswered(landed) \/ SubmitRaises(landed)) => IInv'
<1> SUFFICES ASSUME IInv,
                    Submit \/ \E landed \in BOOLEAN : NotAnswered(landed) \/ SubmitRaises(landed)
             PROVE  IInv'
  OBVIOUS
<1>0. /\ pc = "submit" /\ pc' \in {"confirm", "done", "submit_failed"}
      /\ UNCHANGED <<readonly, gates, leg, caps, methods, account, books, moves, pick, seen, plan,
                     others, struck>>
  BY DEF Submit, NotAnswered, SubmitRaises, input, market, choice
<1>1. log' \in {"ok", "broken", "repaired"}
  BY DEF Submit, NotAnswered, SubmitRaises, IInv, TypeOK
<1>2. mine' = mine \/ \E known \in BOOLEAN : mine' = Landed(known)
  BY DEF Submit, NotAnswered, SubmitRaises
<1>3. \/ report' = report /\ pc' # "done"
      \/ report' = [report EXCEPT !.residual = TRUE]
  BY DEF Submit, NotAnswered, SubmitRaises
<1>4. mine' \in MineType
  BY <1>0, <1>2, LandedType DEF IInv, TypeOK, MineType
<1>5. report' \in ReportType /\ report'.ok = report.ok /\ (pc' = "done" => report'.residual)
  BY <1>3 DEF IInv, TypeOK, ReportType
<1>6. ~(report.ok /\ ~readonly) /\ plan # NoPlan /\ ~readonly
  BY <1>0 DEF IInv, Clean, Final, Planned
<1>7. TypeOK'
  BY <1>0, <1>1, <1>4, <1>5 DEF IInv, TypeOK, MineType, ReportType, Final
<1> QED
  BY <1>0, <1>5, <1>6, <1>7 DEF IInv, Unsent, Picked, Planned, Clean, OnlyOwnScope,
     PlannedRestingIsReported, Early, Final

LEMMA ConfirmInv == IInv /\ Confirm => IInv'
<1> SUFFICES ASSUME IInv, Confirm PROVE IInv'
  OBVIOUS
<1>0. /\ pc = "confirm"
      /\ UNCHANGED <<readonly, gates, leg, caps, methods, account, log, books, moves, pick, seen,
                     plan, mine, others, struck>>
  BY DEF Confirm, input, market, choice, venue
<1>1. pc' \in {"cancel", "list", "handler"}
  BY DEF Confirm, Audited
<1>2. report' \in ReportType /\ report'.ok = report.ok
  BY DEF Confirm, IInv, TypeOK, ReportType
<1>3. ~(report.ok /\ ~readonly) /\ plan # NoPlan /\ ~readonly
  BY <1>0 DEF IInv, Clean, Final, Planned
<1>4. TypeOK'
  BY <1>0, <1>1, <1>2 DEF IInv, TypeOK, ReportType
<1> QED
  BY <1>0, <1>1, <1>2, <1>3, <1>4 DEF IInv, Unsent, Picked, Planned, Clean, OnlyOwnScope,
     PlannedRestingIsReported, Early, Final

LEMMA CancelInv == IInv /\ Cancel => IInv'
<1> SUFFICES ASSUME IInv, Cancel PROVE IInv'
  OBVIOUS
<1>0. /\ pc = "cancel" /\ pc' = "after"
      /\ UNCHANGED <<readonly, gates, leg, caps, methods, account, log, books, moves, pick, seen,
                     plan, others, struck>>
  BY DEF Cancel, input, market, choice
<1>1. mine' \in MineType
  BY DEF Cancel, IInv, TypeOK, MineType
<1>2. report' \in ReportType /\ report'.ok = report.ok
  BY DEF Cancel, IInv, TypeOK, ReportType
<1>3. ~(report.ok /\ ~readonly) /\ plan # NoPlan /\ ~readonly
  BY <1>0 DEF IInv, Clean, Final, Planned
<1>4. TypeOK'
  BY <1>0, <1>1, <1>2 DEF IInv, TypeOK, MineType, ReportType
<1> QED
  BY <1>0, <1>2, <1>3, <1>4 DEF IInv, Unsent, Picked, Planned, Clean, OnlyOwnScope,
     PlannedRestingIsReported, Early, Final

\* The only step that makes a write run clean, and the only ground it takes for it.
LEMMA AfterInv == IInv /\ After => IInv'
<1> SUFFICES ASSUME IInv, After PROVE IInv'
  OBVIOUS
<1>0. /\ pc = "after" /\ pc' \in {"list", "handler"}
      /\ UNCHANGED <<readonly, gates, leg, caps, methods, account, log, books, moves, pick, seen,
                     plan, mine, others, struck>>
  BY DEF After, Audited, input, market, choice, venue
<1>1. PICK readable \in BOOLEAN :
        LET canceled == readable /\ mine.st = "canceled"
            good     == report.canceled /\ canceled /\ ~Filled
        IN  report' = [report EXCEPT !.after = canceled, !.ok = @ \/ (good /\ ~report.fill),
                                     !.residual = @ \/ ~good]
  BY DEF After
<1>2. report \in ReportType /\ mine \in MineType
  BY DEF IInv, TypeOK, ReportType, MineType
<1>3. ~(report.ok /\ ~readonly) /\ plan # NoPlan /\ ~readonly
  BY <1>0 DEF IInv, Clean, Final, Planned
<1>4. report' \in ReportType
  BY <1>1, <1>2 DEF ReportType
<1>5. report'.ok => mine.st = "canceled" /\ ~Filled
  BY <1>1, <1>2, <1>3 DEF ReportType
<1>6. report'.ok => mine.st = "canceled" /\ mine.got = 0
  BY <1>2, <1>5 DEF Filled, MineType
<1>7. TypeOK'
  BY <1>0, <1>4 DEF IInv, TypeOK, ReportType
<1> QED
  BY <1>0, <1>3, <1>6, <1>7 DEF IInv, Unsent, Picked, Planned, Clean, OnlyOwnScope,
     PlannedRestingIsReported, Early, Final

\* The list: it never makes a run clean, and a run it lets end has no order or says so.
LEMMA ListInv == IInv /\ ListLeftovers => IInv'
<1> SUFFICES ASSUME IInv, ListLeftovers PROVE IInv'
  OBVIOUS
<1>0. /\ pc = "list" /\ pc' \in {"done", "handler"}
      /\ UNCHANGED <<readonly, gates, leg, caps, methods, account, log, books, moves, pick, seen,
                     plan, mine, others, struck>>
  BY DEF ListLeftovers, Audited, input, market, choice, venue
<1>1. \/ report' = report /\ (pc' = "done" => mine.st # "live")
      \/ report' = [report EXCEPT !.ok = FALSE, !.residual = TRUE]
  BY DEF ListLeftovers, Clear
<1>2. /\ report' \in ReportType /\ (report'.ok => report.ok)
      /\ pc' = "done" => mine.st # "live" \/ report'.residual
  BY <1>1 DEF IInv, TypeOK, ReportType
<1>3. plan # NoPlan /\ ~readonly
  BY <1>0 DEF IInv, Planned
<1>4. TypeOK'
  BY <1>0, <1>2 DEF IInv, TypeOK, ReportType, Final
<1> QED
  BY <1>0, <1>2, <1>3, <1>4 DEF IInv, Unsent, Picked, Planned, Clean, OnlyOwnScope,
     PlannedRestingIsReported, Early, Final

-----------------------------------------------------------------------------
(* Recovery *)

\* What a scan, or its failure, may do: take down our order if it matches, take down others
\* that match, and report the risk of a match that is left.
LEMMA ScanDoes ==
  ASSUME IInv, NEW before \in MineType, Scan(before) \/ ListFails(before)
  PROVE  /\ mine' \in MineType
         /\ mine' = before \/ (before.st = "live" /\ mine'.st = "canceled")
         /\ mine'.st = "live" /\ mine'.px = plan.px => report'.residual
         /\ report' \in ReportType /\ report'.ok = report.ok
         /\ pc = "submit_failed" => report'.residual
         /\ others' \subseteq others
         /\ \A o \in struck' : o \in struck \/ (o \in others /\ o.tok = pick /\ o.px = plan.px)
<1>1. report \in ReportType
  BY DEF IInv, TypeOK, ReportType
<1>2. CASE ListFails(before)
  BY <1>1, <1>2 DEF ListFails, ReportType
<1>3. CASE Scan(before)
  <2> DEFINE ours == before.st = "live" /\ before.px = plan.px
             theirs == {o \in others : Matching(o)}
  <2>1. PICK hit \in BOOLEAN, gone \in SUBSET theirs :
          /\ hit => ours
          /\ mine' = IF hit THEN [before EXCEPT !.st = "canceled"] ELSE before
          /\ others' = others \ gone /\ struck' = struck \cup gone
          /\ \/ hit = ours /\ gone = theirs /\ report' = [report EXCEPT !.residual = pc = "submit_failed"]
             \/ ~(hit = ours /\ gone = theirs) /\ report' = [report EXCEPT !.residual = TRUE]
    BY <1>3 DEF Scan
  <2>2. /\ mine' \in MineType
        /\ mine' = before \/ (before.st = "live" /\ mine'.st = "canceled")
    BY <2>1 DEF MineType
  <2>3. report' = [report EXCEPT !.residual = pc = "submit_failed"]
        \/ report' = [report EXCEPT !.residual = TRUE]
    BY <2>1
  <2>4. /\ report' \in ReportType /\ report'.ok = report.ok
        /\ pc = "submit_failed" => report'.residual
    BY <1>1, <2>3 DEF ReportType
  <2>5. mine'.st = "live" /\ mine'.px = plan.px => report'.residual
    <3> SUFFICES ASSUME mine'.st = "live", mine'.px = plan.px PROVE report'.residual
      OBVIOUS
    <3>1. ~hit
      BY <2>1 DEF MineType
    <3>2. ours
      BY <2>1, <3>1
    <3>3. report' = [report EXCEPT !.residual = TRUE]
      BY <2>1, <3>1, <3>2
    <3> QED
      BY <1>1, <3>3 DEF ReportType
  <2>6. others' \subseteq others
    BY <2>1
  <2>7. \A o \in struck' : o \in struck \/ (o \in others /\ o.tok = pick /\ o.px = plan.px)
    BY <2>1 DEF Matching
  <2> QED
    BY <2>2, <2>4, <2>5, <2>6, <2>7
<1> QED
  BY <1>2, <1>3

LEMMA SubmitFailedInv == IInv /\ SubmitFailed => IInv'
<1> SUFFICES ASSUME IInv, SubmitFailed PROVE IInv'
  OBVIOUS
<1>0. /\ pc = "submit_failed"
      /\ UNCHANGED <<readonly, gates, leg, caps, methods, account, log, books, moves, pick, seen, plan>>
  BY DEF SubmitFailed, input, market, choice
<1>1. ~(report.ok /\ ~readonly) /\ plan # NoPlan /\ ~readonly
  BY <1>0 DEF IInv, Clean, Final, Planned
<1>2. CASE LogWorks
  <2>1. (Scan(mine) \/ ListFails(mine)) /\ pc' = "done"
    BY <1>2 DEF SubmitFailed
  <2>2. mine \in MineType
    BY DEF IInv, TypeOK, MineType
  <2>3. /\ mine' \in MineType /\ report' \in ReportType /\ report'.ok = report.ok
        /\ mine'.st = "live" /\ mine'.px = plan.px => report'.residual
        /\ others' \subseteq others
        /\ \A o \in struck' : o \in struck \/ (o \in others /\ o.tok = pick /\ o.px = plan.px)
    BY <2>1, <2>2, ScanDoes
  <2>4. struck' \subseteq [tok : Tokens, px : Nat] /\ others' \subseteq [tok : Tokens, px : Nat]
    BY <2>3 DEF IInv, TypeOK
  <2>5. TypeOK'
    BY <1>0, <2>1, <2>3, <2>4 DEF IInv, TypeOK, MineType, ReportType, Final
  <2>6. OnlyOwnScope'
    BY <1>0, <2>3 DEF IInv, OnlyOwnScope
  <2> QED
    BY <1>0, <1>1, <2>1, <2>3, <2>5, <2>6 DEF IInv, Unsent, Picked, Planned, Clean,
       PlannedRestingIsReported, Early, Final
<1>3. CASE ~LogWorks
  <2>1. pc' = "handler" /\ UNCHANGED <<mine, others, struck, report>>
    BY <1>3 DEF SubmitFailed, venue
  <2>2. TypeOK'
    BY <1>0, <2>1 DEF IInv, TypeOK
  <2> QED
    BY <1>0, <1>1, <2>1, <2>2 DEF IInv, Unsent, Picked, Planned, Clean, OnlyOwnScope,
       PlannedRestingIsReported, Early, Final
<1> QED
  BY <1>2, <1>3

\* A run that ends in the handler had nothing planned, so nothing to look for.
LEMMA HandleInv == IInv /\ Handle => IInv'
<1> SUFFICES ASSUME IInv, Handle PROVE IInv'
  OBVIOUS
<1>0. /\ pc = "handler" /\ pc' \in {"raised", "done", "rescue"}
      /\ UNCHANGED <<readonly, gates, leg, caps, methods, account, log, books, moves, pick, seen,
                     plan, mine, others, struck>>
  BY DEF Handle, input, market, choice, venue
<1>1. \/ report' = report /\ pc' # "done"
      \/ report' = [report EXCEPT !.residual = FALSE] /\ (plan = NoPlan \/ readonly)
  BY DEF Handle
<1>2. /\ report' \in ReportType /\ report'.ok = report.ok
      /\ pc' = "done" => plan = NoPlan \/ readonly
  BY <1>1 DEF IInv, TypeOK, ReportType
<1>3. pc' = "done" => mine.st = "none"
  BY <1>2 DEF IInv, Planned
<1>4. TypeOK'
  BY <1>0, <1>2 DEF IInv, TypeOK, ReportType, Final
<1> QED
  BY <1>0, <1>2, <1>3, <1>4 DEF IInv, Unsent, Picked, Planned, Clean, OnlyOwnScope,
     PlannedRestingIsReported, Early, Final

LEMMA RescueInv == IInv /\ Rescue => IInv'
<1> SUFFICES ASSUME IInv, Rescue PROVE IInv'
  OBVIOUS
<1>0. /\ pc = "rescue" /\ pc' \in {"done", "raised"}
      /\ UNCHANGED <<readonly, gates, leg, caps, methods, account, log, books, moves, pick, seen, plan>>
  BY DEF Rescue, input, market, choice
<1>1. mine \in MineType /\ report \in ReportType
  BY DEF IInv, TypeOK, MineType, ReportType
<1>2. /\ mine' \in MineType /\ report' \in ReportType /\ report'.ok = report.ok
      /\ mine'.st = "live" /\ mine'.px = plan.px => report'.residual
      /\ mine' = mine \/ (mine.st = "live" /\ mine'.st = "canceled")
      /\ others' \subseteq others
      /\ \A o \in struck' : o \in struck \/ (o \in others /\ o.tok = pick /\ o.px = plan.px)
  <2>1. CASE RescueById
    BY <1>1, <2>1 DEF RescueById, MineType, ReportType
  <2>2. CASE \E st \in {mine.st} \cup (IF mine.known /\ mine.st = "live" THEN {"canceled"} ELSE {}) :
               LET before == [mine EXCEPT !.st = st] IN Scan(before) \/ ListFails(before)
    <3>1. PICK st \in {mine.st} \cup (IF mine.known /\ mine.st = "live" THEN {"canceled"} ELSE {}) :
                 Scan([mine EXCEPT !.st = st]) \/ ListFails([mine EXCEPT !.st = st])
      BY <2>2
    <3> DEFINE before == [mine EXCEPT !.st = st]
    <3>2. before \in MineType /\ (before = mine \/ (mine.st = "live" /\ before.st = "canceled"))
      BY <1>1, <3>1 DEF MineType
    <3> HIDE DEF before
    <3>3. /\ mine' \in MineType
          /\ mine' = before \/ (before.st = "live" /\ mine'.st = "canceled")
          /\ mine'.st = "live" /\ mine'.px = plan.px => report'.residual
          /\ report' \in ReportType /\ report'.ok = report.ok
          /\ others' \subseteq others
          /\ \A o \in struck' : o \in struck \/ (o \in others /\ o.tok = pick /\ o.px = plan.px)
      BY <3>1, <3>2, ScanDoes DEF before
    <3> QED
      BY <3>2, <3>3
  <2> QED
    BY <2>1, <2>2 DEF Rescue
<1>3. struck' \subseteq [tok : Tokens, px : Nat] /\ others' \subseteq [tok : Tokens, px : Nat]
  BY <1>2 DEF IInv, TypeOK
<1>4. TypeOK'
  BY <1>0, <1>2, <1>3 DEF IInv, TypeOK, MineType, ReportType, Final
<1>5. OnlyOwnScope'
  BY <1>0, <1>2 DEF IInv, OnlyOwnScope
<1>6. Planned' /\ Clean'
  BY <1>0, <1>1, <1>2 DEF IInv, Planned, Clean, Final
<1> QED
  BY <1>0, <1>2, <1>4, <1>5, <1>6 DEF IInv, Unsent, Picked, PlannedRestingIsReported, Early

-----------------------------------------------------------------------------
(* Around the run *)

LEMMA VenueFillsInv == IInv /\ VenueFills => IInv'
<1> SUFFICES ASSUME IInv, VenueFills PROVE IInv'
  OBVIOUS
<1>0. /\ mine.st = "live"
      /\ UNCHANGED <<pc, readonly, gates, leg, caps, methods, account, log, books, moves, pick, seen,
                     plan, others, struck, report>>
  BY DEF VenueFills, input, market, choice
<1>1. /\ mine' \in MineType /\ mine'.px = mine.px /\ mine'.st \in {"live", "matched"}
  <2>1. mine \in MineType
    BY DEF IInv, TypeOK, MineType
  <2>2. PICK got \in {1, mine.size} :
          mine' = [mine EXCEPT !.got = got, !.st = IF got = mine.size THEN "matched" ELSE mine.st]
    BY DEF VenueFills
  <2>3. got \in Nat /\ mine.px \in Nat /\ mine.size \in Nat /\ mine.known \in BOOLEAN
    BY <2>1, <2>2 DEF MineType
  <2>4. mine' = [st |-> IF got = mine.size THEN "matched" ELSE "live", px |-> mine.px,
                 size |-> mine.size, got |-> got, known |-> mine.known]
    BY <1>0, <2>1, <2>2 DEF MineType
  <2> QED
    BY <2>3, <2>4 DEF MineType
<1>2. TypeOK'
  BY <1>0, <1>1 DEF IInv, TypeOK, MineType
<1> QED
  BY <1>0, <1>1, <1>2 DEF IInv, Unsent, Picked, Planned, Clean, OnlyOwnScope,
     PlannedRestingIsReported

LEMMA OutsideInv == IInv /\ (BookMoves \/ LogChanges \/ UNCHANGED vars) => IInv'
<1> SUFFICES ASSUME IInv, BookMoves \/ LogChanges \/ UNCHANGED vars PROVE IInv'
  OBVIOUS
<1>0. UNCHANGED <<pc, readonly, gates, leg, caps, methods, account, pick, seen, plan, mine, others,
                  struck, report>>
  BY DEF BookMoves, LogChanges, vars, input, market, choice, venue
<1>1. log' \in {"ok", "broken", "repaired"}
  BY DEF BookMoves, LogChanges, vars, IInv, TypeOK
<1>2. books' \in [Tokens -> Books] /\ moves' \in 0 .. Moves
  <2>1. books \in [Tokens -> Books] /\ moves \in 0 .. Moves
    BY DEF IInv, TypeOK
  <2>2. CASE BookMoves
    <3>1. PICK b \in Books : books' = [books EXCEPT ![pick] = b]
      BY <2>2 DEF BookMoves
    <3>2. moves' \in 0 .. Moves
      BY <2>1, <2>2, SmokeAssumption DEF BookMoves
    <3> QED
      BY <2>1, <3>1, <3>2
  <2>3. CASE LogChanges \/ UNCHANGED vars
    BY <2>1, <2>3 DEF LogChanges, vars, market
  <2> QED
    BY <2>2, <2>3
<1>3. TypeOK'
  BY <1>0, <1>1, <1>2 DEF IInv, TypeOK
<1> QED
  BY <1>0, <1>3 DEF IInv, Unsent, Picked, Planned, Clean, OnlyOwnScope, PlannedRestingIsReported

LEMMA StepInv == IInv /\ [Next]_vars => IInv'
<1> SUFFICES ASSUME IInv, [Next]_vars PROVE IInv'
  OBVIOUS
<1>1. CASE RunSmoke
  BY <1>1, EarlyInv, SelectInv, PlanInv, SubmitInv, ConfirmInv, CancelInv, AfterInv, ListInv,
     SubmitFailedInv, HandleInv, RescueInv DEF RunSmoke
<1>2. CASE VenueFills \/ BookMoves \/ LogChanges \/ UNCHANGED vars
  BY <1>2, VenueFillsInv, OutsideInv
<1> QED
  BY <1>1, <1>2 DEF Next

-----------------------------------------------------------------------------
(* Theorems *)

LEMMA SmokeInvariant == Spec => []IInv
  BY InitInv, StepInv, PTL DEF Spec

\* Every variable has its type: prices and sizes of the plan and of what is signed included.
THEOREM SmokeTypeCorrect == Spec => []TypeOK
<1>1. IInv => TypeOK
  BY DEF IInv
<1> QED
  BY <1>1, SmokeInvariant, PTL

\* A write run of run_smoke that calls itself clean has bought nothing and left nothing.
THEOREM CleanMeansClean == Spec => []CleanRunLeavesNothing
<1>1. IInv => CleanRunLeavesNothing
  BY DEF IInv, Clean, CleanRunLeavesNothing
<1> QED
  BY <1>1, SmokeInvariant, PTL

\* No run ends with its order in the book, at the price it planned, without reporting it.
THEOREM RestingOrderIsReported == Spec => []PlannedRestingIsReported
<1>1. IInv => PlannedRestingIsReported
  BY DEF IInv
<1> QED
  BY <1>1, SmokeInvariant, PTL

\* rescue_cancel strikes no order but those of the planned token and price.
THEOREM RescueKeepsToScope == Spec => []OnlyOwnScope
<1>1. IInv => OnlyOwnScope
  BY DEF IInv
<1> QED
  BY <1>1, SmokeInvariant, PTL

-----------------------------------------------------------------------------
(* What is posted *)

\* Past the first step a write run has its three gates; past the risk gate the account has
\* room for one more position and a budget; and what is submitted was planned within the
\* cap and the limits.
Gated == pc \notin {"gates"} \cup Final /\ ~readonly => gates = GateChecks
Cleared == pc \in {"plan", "submit"} => Evaluate(Collected, Limits)
WithinPlan == pc = "submit" => plan.px <= Cap /\ CheckLimits(MaxCost(plan), Collected, Limits)
RulesInv == Gated /\ Cleared /\ WithinPlan

Valued == [i \in 1 .. Len(account.positions) |->
              IF Counts(account.positions[i], Dust) THEN account.positions[i] ELSE 0]

\* The value of the account is the sum of the positions that count.
LEMMA CollectedIsSum ==
  ASSUME IInv
  PROVE  Collected.value = SumTo(Valued, Len(account.positions))
<1> DEFINE s == account.positions
           n == Len(s)
           w == Valued
           Rec(g) == g = [d \in SUBSET (1 .. n) |->
                             IF d = {} THEN 0
                             ELSE g[d \ {Max(d)}]
                                    + IF Counts(s[Max(d)], Dust) THEN s[Max(d)] ELSE 0]
<1>1. s \in Seq(Nat)
  BY SmokeAssumption DEF IInv, TypeOK
<1>2. n \in Nat /\ DOMAIN s = 1 .. n
      /\ \A i \in 1 .. n : w[i] = (IF Counts(s[i], Dust) THEN s[i] ELSE 0) /\ w[i] \in Int
  BY <1>1 DEF Valued
<1>3. Collected.value = (CHOOSE g : Rec(g))[1 .. n]
  BY <1>2 DEF Collected, Snapshot, FoldLeft, MapThenFoldSet
<1> HIDE DEF n, w, s
<1>4. \A g : Rec(g) <=> SumRecursion(w, n, g)
  <2>1. \A d \in SUBSET (1 .. n) :
           d # {} => w[Max(d)] = IF Counts(s[Max(d)], Dust) THEN s[Max(d)] ELSE 0
    BY <1>2, MaxIsIn
  <2> QED
    BY <2>1 DEF SumRecursion
<1>5. \E g : Rec(g)
  BY <1>2, <1>4, SumExists
<1>6. SumRecursion(w, n, CHOOSE g : Rec(g))
  BY <1>4, <1>5
<1> QED
  BY <1>2, <1>3, <1>6, SumRecursionIs DEF n, w, s

LEMMA CollectedType ==
  ASSUME IInv
  PROVE  Collected.value \in Nat
<1>1. account.positions \in Seq(Nat)
  BY SmokeAssumption DEF IInv, TypeOK
<1>2. /\ Len(account.positions) \in Nat
      /\ \A i \in 1 .. Len(account.positions) : Valued[i] \in Nat
  BY <1>1 DEF Valued
<1>3. SumTo(Valued, Len(account.positions)) \in Nat
  BY <1>2, SumNat
<1> QED
  BY <1>3, CollectedIsSum

LEMMA InitRules == Init => RulesInv
  BY DEF Init, RulesInv, Gated, Cleared, WithinPlan

\* A step that goes to none of these places but stays there, with what they rest on.
LEMMA RulesKept ==
  ASSUME RulesInv, UNCHANGED <<readonly, gates, leg, caps, account>>,
         pc = "gates" => pc' \in {"gates"} \cup Final, pc \in Final => pc' \in Final,
         pc' = "plan" => pc = "plan",
         pc' = "submit" => pc = "submit" /\ UNCHANGED plan
  PROVE  RulesInv'
<1>1. Gated'
  BY DEF RulesInv, Gated
<1>2. Collected' = Collected /\ Cap' = Cap
  BY DEF Collected, Cap
<1>3. Cleared'
  BY <1>2 DEF RulesInv, Cleared, Evaluate
<1>4. WithinPlan'
  BY <1>2 DEF RulesInv, WithinPlan, CheckLimits, MaxCost
<1> QED
  BY <1>1, <1>3, <1>4 DEF RulesInv

LEMMA PassGatesRules == RulesInv /\ PassGates => RulesInv'
<1> SUFFICES ASSUME RulesInv, PassGates PROVE RulesInv'
  OBVIOUS
<1>1. /\ pc' \in {"connect"} \cup Final /\ readonly' = readonly /\ gates' = gates
      /\ pc' = "connect" /\ ~readonly => gates = GateChecks
  BY DEF PassGates, Final, GatesAllPassed, input
<1>2. pc' \notin {"plan", "submit"}
  BY <1>1 DEF Final
<1> QED
  BY <1>1, <1>2 DEF RulesInv, Gated, Cleared, WithinPlan, Final

LEMMA RiskRules == RulesInv /\ Risk => RulesInv'
<1> SUFFICES ASSUME RulesInv, Risk PROVE RulesInv'
  OBVIOUS
<1>1. /\ pc = "risk" /\ UNCHANGED <<readonly, gates, leg, caps, account, plan>>
      /\ pc' \in {"done", "handler"} \/ (pc' = "plan" /\ Evaluate(Collected, Limits))
  BY AuditedNext DEF Risk, Preflight, input, choice, Audited
<1>2. CASE pc' # "plan"
  <2>1. pc' \in {"done", "handler"}
    BY <1>1, <1>2
  <2> QED
    BY <1>1, <2>1, RulesKept DEF Final
<1>3. CASE pc' = "plan"
  <2>1. Collected' = Collected /\ Evaluate(Collected, Limits)
    BY <1>1, <1>3 DEF Collected
  <2> QED
    BY <1>1, <1>3, <2>1 DEF RulesInv, Gated, Cleared, WithinPlan, Evaluate, Final
<1> QED
  BY <1>2, <1>3

\* The plan that is submitted has passed the cap in plan_order and the limits of submit.py.
LEMMA PlanRules == RulesInv /\ Plan => RulesInv'
<1> SUFFICES ASSUME RulesInv, Plan PROVE RulesInv'
  OBVIOUS
<1>1. /\ pc = "plan" /\ UNCHANGED <<readonly, gates, leg, caps, account>>
      /\ pc' \in {"submit", "done", "handler"}
  BY AuditedNext DEF Plan, input
<1>2. CASE pc' # "submit"
  <2>1. pc' \in {"done", "handler"}
    BY <1>1, <1>2
  <2> QED
    BY <1>1, <2>1, RulesKept DEF Final
<1>3. CASE pc' = "submit"
  <2>1. PICK override \in Overrides :
          LET p  == PlanOrder(PriceOf(override), Budget, Cap, seen.min)
              ok == /\ p # NoPlan /\ CheckLimits(MaxCost(p), Collected, Limits)
                    /\ NonMarketable(p.px, seen)
          IN  /\ plan' = p
              /\ Audited(IF ok /\ ~readonly THEN "submit" ELSE "done")
    BY DEF Plan
  <2>2. plan' # NoPlan /\ CheckLimits(MaxCost(plan'), Collected, Limits)
    BY <1>3, <2>1, AuditedNext
  <2>3. plan'.px <= Cap
    BY <2>1, <2>2 DEF PlanOrder
  <2>4. Collected' = Collected /\ Cap' = Cap
    BY <1>1 DEF Collected, Cap
  <2> QED
    BY <1>1, <1>3, <2>2, <2>3, <2>4 DEF RulesInv, Gated, Cleared, WithinPlan, Evaluate,
       CheckLimits, MaxCost, Final
<1> QED
  BY <1>2, <1>3

LEMMA StepRules == IInv /\ RulesInv /\ [Next]_vars => RulesInv'
<1> SUFFICES ASSUME IInv, RulesInv, [Next]_vars PROVE RulesInv'
  OBVIOUS
<1>1. CASE PassGates \/ Risk \/ Plan
  BY <1>1, PassGatesRules, RiskRules, PlanRules
<1>2. CASE Connect \/ Select
  <2>1. /\ pc \in {"connect", "select"} /\ pc' \in {"select", "risk", "done", "handler"}
        /\ UNCHANGED <<readonly, gates, leg, caps, account>>
    BY <1>2 DEF Connect, Select, Audited, input
  <2> QED
    BY <2>1, RulesKept DEF Final
<1>3. CASE Submit \/ \E landed \in BOOLEAN : NotAnswered(landed) \/ SubmitRaises(landed)
  <2>1. /\ pc = "submit" /\ pc' \in {"confirm", "done", "submit_failed"}
        /\ UNCHANGED <<readonly, gates, leg, caps, account>>
    BY <1>3 DEF Submit, NotAnswered, SubmitRaises, input
  <2> QED
    BY <2>1, RulesKept DEF Final
<1>4. CASE Confirm \/ Cancel \/ After \/ ListLeftovers
  <2>1. /\ pc \in {"confirm", "cancel", "after", "list"}
        /\ pc' \in {"cancel", "after", "list", "done", "handler"}
        /\ UNCHANGED <<readonly, gates, leg, caps, account>>
    BY <1>4 DEF Confirm, Cancel, After, ListLeftovers, Audited, input
  <2> QED
    BY <2>1, RulesKept DEF Final
<1>5. CASE SubmitFailed \/ Handle \/ Rescue
  <2>1. /\ pc \in {"submit_failed", "handler", "rescue"}
        /\ pc' \in {"done", "handler", "rescue", "raised"}
        /\ UNCHANGED <<readonly, gates, leg, caps, account>>
    BY <1>5 DEF SubmitFailed, Handle, Rescue, input
  <2> QED
    BY <2>1, RulesKept DEF Final
<1>6. CASE VenueFills \/ BookMoves \/ LogChanges \/ UNCHANGED vars
  <2>1. UNCHANGED <<pc, readonly, gates, leg, caps, account, plan>>
    BY <1>6 DEF VenueFills, BookMoves, LogChanges, vars, input, choice
  <2> QED
    BY <2>1, RulesKept
<1> QED
  BY <1>1, <1>2, <1>3, <1>4, <1>5, <1>6 DEF Next, RunSmoke

LEMMA Rounded == \A p \in Nat, t \in Nat \ {0} : (p \div t) * t <= p
  OBVIOUS

\* The clamp leaves a price at or under the planned one, and under the ask.
LEMMA ClampedUnderAsk ==
  ASSUME NEW b \in Book, NEW limit \in Nat, ClampLimit(limit, b) # NoPrice
  PROVE  /\ ClampLimit(limit, b) \in Nat /\ ClampLimit(limit, b) > 0
         /\ ClampLimit(limit, b) <= limit /\ ClampLimit(limit, b) < BestAsk(b)
<1> DEFINE c == ClampLimit(limit, b)
           m == Least(limit, BestAsk(b) - Tick)
<1>1. BestAsk(b) \in Nat /\ Tick \in Nat \ {0} /\ BestAsk(b) > Tick /\ c = AlignDown(m)
  BY BestAskType, PriceAssumption DEF ClampLimit
<1>2. m \in Nat /\ m <= limit /\ m < BestAsk(b)
  BY <1>1 DEF Least
<1> HIDE DEF m
<1>3. c <= m
  BY <1>1, <1>2, Rounded DEF AlignDown
<1>4. c \in Nat /\ c # 0
  BY ClampLimitType DEF NoPrice
<1> HIDE DEF c
<1>5. c > 0 /\ c <= limit /\ c < BestAsk(b)
  BY <1>1, <1>2, <1>3, <1>4
<1> QED
  BY <1>4, <1>5 DEF c

\* What an order on the submit step is signed for.
LEMMA LandedWithinRules ==
  ASSUME IInv, RulesInv, pc = "submit", Limit # NoPrice
  PROVE  /\ gates = GateChecks /\ ~readonly
         /\ Limit > 0 /\ Limit < BestAsk(books[pick]) /\ Limit <= Cap
         /\ Limit * plan.size <= Limits.budget
         /\ Collected.value + Limit * plan.size <= Limits.cap
         /\ Collected.open < Limits.maxOpen /\ Limit * plan.size <= account.balance
<1>1. ~readonly /\ gates = GateChecks
  BY DEF IInv, Planned, RulesInv, Gated, Final
<1>2. books[pick] \in Book
  BY SmokeAssumption DEF IInv, Picked, TypeOK
<1>3. plan.px \in Nat /\ plan.size \in Nat
  BY DEF IInv, TypeOK
<1>4. /\ Limit \in Nat /\ Limit > 0 /\ Limit <= plan.px /\ Limit < BestAsk(books[pick])
  BY <1>2, <1>3, ClampedUnderAsk DEF Limit
<1>5. plan.px <= Cap /\ CheckLimits(MaxCost(plan), Collected, Limits)
      /\ Evaluate(Collected, Limits)
  BY DEF RulesInv, WithinPlan, Cleared
<1>6. Cap \in Nat
  BY SmokeAssumption DEF IInv, TypeOK, Cap, CapFor
<1>7. Limit <= Cap
  BY <1>3, <1>4, <1>5, <1>6
<1>8. PICK x \in Nat : x = Limit * plan.size
  BY <1>3, <1>4, Products
<1>9. PICK y \in Nat : y = plan.px * plan.size
  BY <1>3, Products
<1>10. x <= y
  <2>1. \A a, b, c \in Nat : a <= b => a * c <= b * c
    OBVIOUS
  <2> QED
    BY <1>3, <1>4, <1>8, <1>9, <2>1
<1>11. y <= Limits.budget /\ Collected.value + y <= Limits.cap
  BY <1>5, <1>9 DEF CheckLimits, MaxCost
<1>12. Collected.open < Limits.maxOpen /\ Limits.budget <= account.balance
  BY <1>5 DEF Evaluate, Collected, Snapshot
<1>13. /\ Limits.budget \in Nat /\ Limits.cap \in Nat /\ account.balance \in Nat
       /\ Collected.value \in Nat
  BY SmokeAssumption, CollectedType DEF IInv, TypeOK
<1>14. x <= Limits.budget /\ Collected.value + x <= Limits.cap /\ x <= account.balance
  BY <1>10, <1>11, <1>12, <1>13
<1> QED
  BY <1>1, <1>4, <1>7, <1>8, <1>12, <1>14

\* No other step makes an order of none.
LEMMA OnlySubmitPosts ==
  ASSUME IInv, [Next]_vars, mine.st = "none", mine'.st # "none"
  PROVE  pc = "submit" /\ Limit # NoPrice /\ \E known \in BOOLEAN : mine' = Landed(known)
<1>1. CASE Submit \/ \E landed \in BOOLEAN : NotAnswered(landed) \/ SubmitRaises(landed)
  BY <1>1 DEF Submit, NotAnswered, SubmitRaises
<1>2. CASE PassGates \/ Connect \/ Select \/ Risk \/ Plan \/ Confirm \/ After \/ ListLeftovers
           \/ Handle \/ BookMoves \/ LogChanges \/ UNCHANGED vars
  <2>1. mine' = mine
    BY <1>2 DEF PassGates, Connect, Select, Risk, Plan, Confirm, After, ListLeftovers, Handle,
       BookMoves, LogChanges, vars, venue
  <2> QED
    BY <2>1
<1>3. CASE Cancel \/ SubmitFailed \/ Rescue
  <2>1. pc \notin Early \cup {"submit"} /\ mine \in MineType
    BY <1>3 DEF Cancel, SubmitFailed, Rescue, Early, IInv, TypeOK, MineType
  <2>2. CASE Cancel
    BY <2>1, <2>2 DEF Cancel, MineType
  <2>3. CASE SubmitFailed
    <3>1. mine' = mine \/ Scan(mine) \/ ListFails(mine)
      BY <2>3 DEF SubmitFailed, venue
    <3> QED
      BY <2>1, <3>1, ScanDoes
  <2>4. CASE Rescue
    <3>1. ~RescueById
      BY DEF RescueById
    <3>2. PICK st \in {mine.st} : Scan([mine EXCEPT !.st = st]) \/ ListFails([mine EXCEPT !.st = st])
      BY <2>4, <3>1 DEF Rescue
    <3>3. [mine EXCEPT !.st = st] = mine
      BY <2>1, <3>2 DEF MineType
    <3> QED
      BY <2>1, <3>2, <3>3, ScanDoes
  <2> QED
    BY <1>3, <2>2, <2>3, <2>4
<1>4. CASE VenueFills
  BY <1>4 DEF VenueFills
<1> QED
  BY <1>1, <1>2, <1>3, <1>4 DEF Next, RunSmoke

LEMMA RulesInvariant == Spec => [](IInv /\ RulesInv)
<1>1. Init => IInv /\ RulesInv
  BY InitInv, InitRules
<1>2. (IInv /\ RulesInv) /\ [Next]_vars => (IInv /\ RulesInv)'
  BY StepInv, StepRules
<1> QED
  BY <1>1, <1>2, PTL DEF Spec

\* Whatever the book did since the order was planned, and whatever limits, caps, accounts and
\* budgets there are, what run_smoke posts rests below the ask, within its cap, its limits
\* and its money, behind three open gates.
THEOREM PostsKeepRules == Spec => PostsWithinRules
<1> DEFINE Rule == mine.st = "none" /\ mine'.st # "none" =>
         /\ gates = GateChecks /\ ~readonly
         /\ mine'.px > 0 /\ mine'.px < BestAsk(books[pick]) /\ mine'.px <= Cap
         /\ mine'.px * mine'.size <= Limits.budget
         /\ Collected.value + mine'.px * mine'.size <= Limits.cap
         /\ Collected.open < Limits.maxOpen /\ mine'.px * mine'.size <= account.balance
<1>1. IInv /\ RulesInv /\ [Next]_vars => Rule
  <2> SUFFICES ASSUME IInv, RulesInv, [Next]_vars, mine.st = "none", mine'.st # "none"
               PROVE  Rule
    OBVIOUS
  <2>1. pc = "submit" /\ Limit # NoPrice /\ \E known \in BOOLEAN : mine' = Landed(known)
    BY OnlySubmitPosts
  <2>2. mine'.px = Limit /\ mine'.size = plan.size
    BY <2>1 DEF Landed
  <2> QED
    BY <2>1, <2>2, LandedWithinRules
<1> QED
  BY <1>1, RulesInvariant, PTL DEF Spec, PostsWithinRules
=============================================================================
