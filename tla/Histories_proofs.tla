--------------------------- MODULE Histories_proofs ----------------------------
(***************************************************************************)
(* The two histories the strategy decides by.                              *)
(*                                                                         *)
(* The observations: that it decides on what is remembered, and never      *)
(* about an armed station whose sources have been left alone for an armed  *)
(* interval, for every set of stations and sessions, every interval, every *)
(* bound on how late a cycle may start, and any crash, error or failing    *)
(* source.                                                                 *)
(*                                                                         *)
(* The quotes: what their average is, how much history a verdict rests on, *)
(* and that a restart does not change it, for every window, every length   *)
(* of the deque, any quotes, and any number of failed cycles and saves.    *)
(***************************************************************************)
EXTENDS MetarCadence, Consensus, FoldFacts


\* Between the pull that may have filled it and the end of the cycle, what the cycle
\* holds is what is remembered.
SameFromFast == pc \in {"fast", "early", "taf", "strategy"} => seen = last

InCycle == pc # "asleep"
Unarmed == {s \in Stations : s \notin ArmedIcaos(armed)}

\* Why an armed station has been asked for: nobody has waited longer than the stamp of
\* the fast pull says, within a cycle nobody else is waiting, a cycle that pulled the
\* universe has asked everybody, and past the fast pull an interval that is still over
\* means that it has just asked the armed ones.
WaitInv ==
    /\ \A s \in Stations : wait[s] <= since.fast
    /\ InCycle => \A s \in Unarmed : wait[s] = 0
    /\ did /\ pc \in {"fast", "early", "taf", "strategy"} => \A s \in Stations : wait[s] = 0
    /\ pc \in {"early", "taf", "strategy"} /\ since.fast = Arm
          => \A s \in ArmedIcaos(armed) : wait[s] = 0

IInv == TypeOK /\ SameFromFast /\ WaitInv

-----------------------------------------------------------------------------
(* Operators *)

LEMMA ArmedIcaosType == \A keys \in SUBSET Sessions : ArmedIcaos(keys) \subseteq Stations
  BY CadenceAssumption DEF ArmedIcaos

LEMMA MergeType ==
  ASSUME NEW obs \in Observations, NEW fresh \in Observations
  PROVE  Merge(obs, fresh) \in Observations
  BY DEF Merge, Observations

LEMMA NoObsType == NoObs \in Observations
  BY CadenceAssumption DEF NoObs, Observations

\* Whatever the sources answer is an observation of each station.
LEMMA FetchedType ==
  ASSUME NEW asked, NEW obs \in Fetched(asked)
  PROVE  obs \in Observations
<1>1. PICK check \in Primary(asked) :
         \E backup \in Answers(asked \ Having(check)) : obs = Merge(backup, check)
  BY DEF Fetched
<1>2. PICK backup \in Answers(asked \ Having(check)) : obs = Merge(backup, check)
  BY <1>1
<1>3. backup \in Observations
  BY <1>2 DEF Answers
<1>4. check \in Observations
  BY <1>1, NoObsType DEF Primary, Answers
<1> QED
  BY <1>2, <1>3, <1>4, MergeType

\* Time passes up to the interval that makes a pull due, and keeps the order of two ages.
LEMMA OlderType ==
  ASSUME NEW due \in Nat, NEW age \in 0 .. due, NEW dt \in Nat
  PROVE  Older(age, dt, due) \in 0 .. due
  BY DEF Older

LEMMA OlderMonotone ==
  ASSUME NEW due \in Nat, NEW a \in 0 .. due, NEW b \in 0 .. due, NEW dt \in Nat, a <= b
  PROVE  Older(a, dt, due) <= Older(b, dt, due)
  BY DEF Older

-----------------------------------------------------------------------------
(* The initial states and each step *)

LEMMA InitInv == Init => IInv
<1> SUFFICES ASSUME Init PROVE IInv
  OBVIOUS
<1>1. TypeOK
  <2>1. {published, last, seen} \subseteq Observations
    BY NoObsType DEF Init
  <2>2. since \in [full : 0 .. Idle, fast : 0 .. Arm, taf : 0 .. TafEvery]
    BY CadenceAssumption DEF Init, Overdue
  <2>3. quiet \in [Stations -> 0 .. Cooldown] /\ wait \in [Stations -> 0 .. Arm]
    BY CadenceAssumption DEF Init
  <2> QED
    BY <2>1, <2>2, <2>3 DEF Init, TypeOK, Phases
<1>2. SameFromFast
  BY DEF Init, SameFromFast
<1>3. WaitInv
  BY CadenceAssumption DEF Init, WaitInv, Overdue, InCycle
<1> QED
  BY <1>1, <1>2, <1>3 DEF IInv

LEMMA PublishInv == IInv /\ Publish => IInv'
<1> SUFFICES ASSUME IInv, Publish PROVE IInv'
  OBVIOUS
<1> USE DEF Publish, memory, cycle, IInv
<1>1. TypeOK'
  <2>1. PICK s \in Stations : published[s] < Reports /\ published' = [published EXCEPT ![s] = @ + 1]
    OBVIOUS
  <2>2. published \in Observations /\ Reports \in Nat
    BY CadenceAssumption DEF TypeOK
  <2>3. published' \in Observations
    BY <2>1, <2>2 DEF Observations
  <2> QED
    BY <2>3 DEF TypeOK
<1>2. SameFromFast'
  BY DEF SameFromFast
<1>3. WaitInv'
  BY DEF WaitInv, InCycle, Unarmed, ArmedIcaos
<1> QED
  BY <1>1, <1>2, <1>3

LEMMA WakeInv == IInv /\ Wake => IInv'
<1> SUFFICES ASSUME IInv, Wake PROVE IInv'
  OBVIOUS
<1>1. PICK dt \in nap .. nap + Late : Begin(dt)
  BY DEF Wake
<1>2. dt \in Nat
  BY CadenceAssumption DEF IInv, TypeOK
<1> DEFINE rested == [s \in Stations |-> Older(quiet[s], dt, Cooldown)]
<1>3. PICK kept \in SUBSET armed :
         /\ armed' = kept
         /\ wait' = [s \in Stations |->
                       IF s \in ArmedIcaos(kept) THEN Older(wait[s], dt, Arm) ELSE 0]
         /\ \E moved \in SUBSET kept :
               /\ touched' = Touched(moved, rested)
               /\ quiet' = [s \in Stations |-> IF s \in touched' THEN 0 ELSE rested[s]]
  BY <1>1 DEF Begin
<1>4. PICK moved \in SUBSET kept :
         /\ touched' = Touched(moved, rested)
         /\ quiet' = [s \in Stations |-> IF s \in touched' THEN 0 ELSE rested[s]]
  BY <1>3
<1>5. since' = [full |-> Older(since.full, dt, Idle), fast |-> Older(since.fast, dt, Arm),
                taf |-> Older(since.taf, dt, TafEvery)]
  BY <1>1 DEF Begin
<1>6. pc' = "full" /\ UNCHANGED <<published, last, forecast, did, seen, nap>>
  BY <1>1 DEF Begin
<1>7. TypeOK'
  <2>1. armed' \subseteq Sessions /\ moved \subseteq Sessions
    BY <1>3, <1>4 DEF IInv, TypeOK
  <2>2. touched' \subseteq Stations
    BY <1>4, <2>1, ArmedIcaosType DEF Touched
  <2>3. \A s \in Stations : rested[s] \in 0 .. Cooldown
    BY <1>2, CadenceAssumption, OlderType DEF IInv, TypeOK
  <2>4. quiet' \in [Stations -> 0 .. Cooldown]
    BY <1>4, <2>3, CadenceAssumption
  <2>5. wait' \in [Stations -> 0 .. Arm]
    <3>1. \A s \in Stations : Older(wait[s], dt, Arm) \in 0 .. Arm /\ 0 \in 0 .. Arm
      BY <1>2, CadenceAssumption, OlderType DEF IInv, TypeOK
    <3> QED
      BY <1>3, <3>1
  <2>6. since' \in [full : 0 .. Idle, fast : 0 .. Arm, taf : 0 .. TafEvery]
    <3>1. since.full \in 0 .. Idle /\ since.fast \in 0 .. Arm /\ since.taf \in 0 .. TafEvery
      BY DEF IInv, TypeOK
    <3>2. /\ Older(since.full, dt, Idle) \in 0 .. Idle
          /\ Older(since.fast, dt, Arm) \in 0 .. Arm
          /\ Older(since.taf, dt, TafEvery) \in 0 .. TafEvery
      BY <1>2, <3>1, CadenceAssumption, OlderType
    <3> QED
      BY <1>5, <3>2
  <2> QED
    BY <1>6, <2>1, <2>2, <2>4, <2>5, <2>6 DEF IInv, TypeOK, Phases
<1>8. SameFromFast'
  BY <1>6 DEF SameFromFast
<1>9. WaitInv'
  <2>1. \A s \in Stations : wait'[s] <= since'.fast
    <3> SUFFICES ASSUME NEW s \in Stations PROVE wait'[s] <= since'.fast
      OBVIOUS
    <3>1. wait[s] \in 0 .. Arm /\ since.fast \in 0 .. Arm /\ Arm \in Nat
      BY CadenceAssumption DEF IInv, TypeOK
    <3>2. wait[s] <= since.fast
      BY DEF IInv, WaitInv
    <3>3. Older(wait[s], dt, Arm) <= Older(since.fast, dt, Arm)
      BY <1>2, <3>1, <3>2, OlderMonotone
    <3>4. Older(since.fast, dt, Arm) \in 0 .. Arm
      BY <1>2, <3>1, OlderType
    <3>5. wait'[s] = Older(wait[s], dt, Arm) \/ wait'[s] = 0
      BY <1>3
    <3> QED
      BY <1>5, <3>1, <3>3, <3>4, <3>5
  <2>2. \A s \in Unarmed' : wait'[s] = 0
    BY <1>3 DEF Unarmed
  <2> QED
    BY <1>6, <2>1, <2>2 DEF WaitInv
<1> QED
  BY <1>7, <1>8, <1>9 DEF IInv

\* A pull of stations asks them, and what it answers keeps the types.
LEMMA AskedWaits ==
  ASSUME TypeOK, NEW asked \in SUBSET Stations, Asked(asked)
  PROVE  /\ wait' \in [Stations -> 0 .. Arm]
         /\ \A s \in asked : wait'[s] = 0
         /\ \A s \in Stations : wait'[s] = 0 \/ wait'[s] = wait[s]
  BY CadenceAssumption DEF Asked, TypeOK

LEMMA FullPullInv == IInv /\ FullPull => IInv'
<1> SUFFICES ASSUME IInv, FullPull PROVE IInv'
  OBVIOUS
<1>0. /\ pc' = "fast" /\ did' = FullDue
      /\ UNCHANGED <<published, armed, forecast, quiet, touched, nap>>
  BY DEF FullPull
<1>1. CASE FullDue
  <2>1. PICK obs \in Fetched(Stations) : TakeFull(obs)
    BY <1>1 DEF FullPull
  <2>2. Asked(Stations)
    BY <1>1 DEF FullPull
  <2>3. obs \in Observations
    BY <2>1, FetchedType
  <2>4. last' \in Observations /\ seen' = last'
    BY <2>1, <2>3 DEF TakeFull, IInv, TypeOK
  <2>5. since' \in [full : 0 .. Idle, fast : 0 .. Arm, taf : 0 .. TafEvery] /\ since'.fast = since.fast
    BY <2>1, CadenceAssumption DEF TakeFull, IInv, TypeOK
  <2>6. wait' \in [Stations -> 0 .. Arm] /\ \A s \in Stations : wait'[s] = 0
    BY <2>2, AskedWaits DEF IInv
  <2>7. TypeOK'
    BY <1>0, <1>1, <2>4, <2>5, <2>6 DEF IInv, TypeOK, Phases
  <2>8. \A s \in Stations : wait'[s] <= since'.fast
    BY <2>5, <2>6
  <2>9. WaitInv'
    BY <1>0, <2>6, <2>8 DEF WaitInv, InCycle, Unarmed
  <2> QED
    BY <2>4, <2>7, <2>9 DEF IInv, SameFromFast
<1>2. CASE ~FullDue
  <2>1. seen' = last /\ UNCHANGED <<last, since, wait>>
    BY <1>2 DEF FullPull
  <2>2. TypeOK'
    <3>1. seen' \in Observations /\ did' \in BOOLEAN
      BY <1>0, <2>1 DEF IInv, TypeOK, FullDue
    <3> QED
      BY <1>0, <2>1, <3>1 DEF IInv, TypeOK, Phases
  <2>3. \A s \in Unarmed : wait[s] = 0
    BY DEF IInv, WaitInv, FullPull, InCycle
  <2>4. Unarmed' = Unarmed
    BY <1>0 DEF Unarmed, ArmedIcaos
  <2>5. WaitInv'
    BY <1>0, <1>2, <2>1, <2>3, <2>4 DEF IInv, WaitInv
  <2> QED
    BY <2>1, <2>2, <2>5 DEF IInv, SameFromFast
<1> QED
  BY <1>1, <1>2

LEMMA FastPullInv == IInv /\ FastPull => IInv'
<1> SUFFICES ASSUME IInv, FastPull PROVE IInv'
  OBVIOUS
<1>0. /\ pc = "fast" /\ pc' = "early"
      /\ UNCHANGED <<published, armed, forecast, quiet, did, touched, nap>>
  BY DEF FastPull
<1>1. Unarmed' = Unarmed /\ ArmedIcaos(armed') = ArmedIcaos(armed)
  BY <1>0 DEF Unarmed, ArmedIcaos
<1>2. \A s \in Unarmed : wait[s] = 0
  BY <1>0 DEF IInv, WaitInv, InCycle
<1>3. seen = last
  BY <1>0 DEF IInv, SameFromFast
<1>4. CASE armed # {} /\ ~did /\ since.fast = Arm
  <2> DEFINE asked == ArmedIcaos(armed)
  <2>1. PICK obs \in Fetched(asked) : TakeFast(obs)
    BY <1>4 DEF FastPull
  <2>2. Asked(asked) /\ asked \in SUBSET Stations
    BY <1>4, ArmedIcaosType DEF FastPull, IInv, TypeOK
  <2>3. obs \in Observations
    BY <2>1, FetchedType
  <2>4. last' \in Observations /\ seen' = last'
    BY <1>3, <2>1, <2>3, MergeType DEF TakeFast, IInv, TypeOK
  <2>5. /\ since' \in [full : 0 .. Idle, fast : 0 .. Arm, taf : 0 .. TafEvery]
        /\ since'.fast \in {0, since.fast}
    BY <2>1, CadenceAssumption DEF TakeFast, IInv, TypeOK
  <2>6. /\ wait' \in [Stations -> 0 .. Arm] /\ \A s \in asked : wait'[s] = 0
        /\ \A s \in Stations : wait'[s] = 0 \/ wait'[s] = wait[s]
    BY <2>2, AskedWaits DEF IInv
  <2>7. \A s \in Stations : wait'[s] = 0
    BY <1>2, <2>6 DEF Unarmed
  <2>8. TypeOK'
    BY <1>0, <2>4, <2>5, <2>6 DEF IInv, TypeOK, Phases
  <2>9. since'.fast \in 0 .. Arm
    BY <2>5
  <2>10. WaitInv'
    BY <1>0, <2>2, <2>7, <2>9, CadenceAssumption DEF WaitInv, Unarmed, ArmedIcaos
  <2> QED
    BY <2>4, <2>8, <2>10 DEF IInv, SameFromFast
<1>5. CASE ~(armed # {} /\ ~did /\ since.fast = Arm)
  <2>1. UNCHANGED <<last, seen, since, wait>>
    BY <1>5 DEF FastPull
  <2>2. TypeOK'
    BY <1>0, <2>1 DEF IInv, TypeOK, Phases
  <2>3. ArmedIcaos(armed) \subseteq Stations
    BY ArmedIcaosType DEF IInv, TypeOK
  <2>4. since.fast = Arm => \A s \in ArmedIcaos(armed) : wait[s] = 0
    <3>1. CASE armed = {}
      BY <3>1 DEF ArmedIcaos
    <3>2. CASE did
      BY <1>0, <2>3, <3>2 DEF IInv, WaitInv
    <3> QED
      BY <1>5, <3>1, <3>2
  <2>5. WaitInv'
    BY <1>0, <1>1, <1>2, <2>1, <2>4 DEF IInv, WaitInv
  <2> QED
    BY <1>3, <2>1, <2>2, <2>5 DEF IInv, SameFromFast
<1> QED
  BY <1>4, <1>5

LEMMA EarlyPullInv == IInv /\ EarlyPull => IInv'
<1> SUFFICES ASSUME IInv, EarlyPull PROVE IInv'
  OBVIOUS
<1> DEFINE asked == touched \ Having(seen)
<1>0. /\ pc = "early" /\ pc' = "taf"
      /\ UNCHANGED <<published, armed, forecast, quiet, did, touched, nap>>
  BY DEF EarlyPull
<1>1. Unarmed' = Unarmed /\ ArmedIcaos(armed') = ArmedIcaos(armed)
  BY <1>0 DEF Unarmed, ArmedIcaos
<1>2. seen = last
  BY <1>0 DEF IInv, SameFromFast
<1>3. ArmedIcaos(armed) \subseteq Stations
  BY ArmedIcaosType DEF IInv, TypeOK
<1>4. CASE ~did /\ asked # {}
  <2>1. PICK obs \in Fetched(asked) : TakeEarly(obs)
    BY <1>4 DEF EarlyPull
  <2>2. Asked(asked) /\ asked \in SUBSET Stations
    BY <1>4 DEF EarlyPull, IInv, TypeOK
  <2>3. obs \in Observations
    BY <2>1, FetchedType
  <2>4. last' \in Observations /\ seen' = last' /\ since' = since
    BY <1>2, <2>1, <2>3, MergeType DEF TakeEarly, IInv, TypeOK
  <2>5. /\ wait' \in [Stations -> 0 .. Arm]
        /\ \A s \in Stations : wait'[s] = 0 \/ wait'[s] = wait[s]
    BY <2>2, AskedWaits DEF IInv
  <2>6. TypeOK'
    BY <1>0, <2>4, <2>5 DEF IInv, TypeOK, Phases
  <2>7. \A s \in Stations : wait'[s] <= since'.fast
    <3>1. since.fast \in 0 .. Arm
      BY DEF IInv, TypeOK
    <3> QED
      BY <2>4, <2>5, <3>1, CadenceAssumption DEF IInv, WaitInv
  <2>8. \A s \in Unarmed : wait'[s] = 0
    BY <1>0, <2>5 DEF IInv, WaitInv, InCycle, Unarmed
  <2>9. did => \A s \in Stations : wait'[s] = 0
    BY <1>4
  <2>10. since.fast = Arm => \A s \in ArmedIcaos(armed) : wait'[s] = 0
    BY <1>0, <1>3, <2>5 DEF IInv, WaitInv
  <2>11. WaitInv'
    BY <1>0, <1>1, <2>4, <2>7, <2>8, <2>9, <2>10 DEF WaitInv
  <2> QED
    BY <2>4, <2>6, <2>11 DEF IInv, SameFromFast
<1>5. CASE ~(~did /\ asked # {})
  <2>1. UNCHANGED <<last, seen, since, wait>>
    BY <1>5 DEF EarlyPull
  <2>2. TypeOK'
    BY <1>0, <2>1 DEF IInv, TypeOK, Phases
  <2>3. WaitInv'
    BY <1>0, <1>1, <2>1 DEF IInv, WaitInv, InCycle
  <2> QED
    BY <1>2, <2>1, <2>2, <2>3 DEF IInv, SameFromFast
<1> QED
  BY <1>4, <1>5

LEMMA TafPullInv == IInv /\ TafPull => IInv'
<1> SUFFICES ASSUME IInv, TafPull PROVE IInv'
  OBVIOUS
<1>0. /\ pc = "taf" /\ pc' = "strategy"
      /\ UNCHANGED <<published, armed, last, quiet, did, touched, seen, nap, wait>>
  BY DEF TafPull
<1>1. Unarmed' = Unarmed /\ ArmedIcaos(armed') = ArmedIcaos(armed)
  BY <1>0 DEF Unarmed, ArmedIcaos
<1>2. /\ forecast' \subseteq Stations
      /\ since' \in [full : 0 .. Idle, fast : 0 .. Arm, taf : 0 .. TafEvery]
      /\ since'.fast = since.fast
  <2>1. CASE since.taf = TafEvery
    <3>1. PICK got \in FetchTaf : TakeTaf(got)
      BY <2>1 DEF TafPull
    <3>2. got \subseteq Stations
      BY <3>1 DEF FetchTaf
    <3> QED
      BY <3>1, <3>2, CadenceAssumption DEF TakeTaf, IInv, TypeOK
  <2>2. CASE since.taf # TafEvery
    BY <2>2 DEF TafPull, IInv, TypeOK
  <2> QED
    BY <2>1, <2>2
<1>3. TypeOK'
  BY <1>0, <1>2 DEF IInv, TypeOK, Phases
<1>4. WaitInv'
  BY <1>0, <1>1, <1>2 DEF IInv, WaitInv, InCycle
<1> QED
  BY <1>0, <1>3, <1>4 DEF IInv, SameFromFast

LEMMA StrategyInv == IInv /\ Strategy => IInv'
<1> SUFFICES ASSUME IInv, Strategy PROVE IInv'
  OBVIOUS
<1>1. /\ pc' = "asleep" /\ did' = FALSE /\ touched' = {} /\ seen' = NoObs
      /\ UNCHANGED <<published, last, forecast, since, quiet, wait>>
  BY DEF Strategy, memory
<1>2. armed' \subseteq Sessions /\ nap' \in {FastPoll, Scan}
  BY DEF Strategy
<1>3. TypeOK'
  BY <1>1, <1>2, NoObsType DEF IInv, TypeOK, Phases
<1>4. WaitInv'
  BY <1>1 DEF IInv, WaitInv, InCycle
<1> QED
  BY <1>1, <1>3, <1>4 DEF IInv, SameFromFast

LEMMA CycleErrorInv == IInv /\ CycleError => IInv'
<1> SUFFICES ASSUME IInv, CycleError PROVE IInv'
  OBVIOUS
<1>1. /\ pc' = "asleep" /\ nap' = Scan /\ did' = FALSE /\ touched' = {} /\ seen' = NoObs
      /\ UNCHANGED <<published, armed, last, forecast, since, quiet, wait>>
  BY DEF CycleError, memory
<1>2. TypeOK'
  BY <1>1, NoObsType DEF IInv, TypeOK, Phases
<1>3. WaitInv'
  BY <1>1 DEF IInv, WaitInv, InCycle
<1> QED
  BY <1>1, <1>2, <1>3 DEF IInv, SameFromFast

LEMMA RestartInv == IInv /\ Restart => IInv'
<1> SUFFICES ASSUME IInv, Restart PROVE IInv'
  OBVIOUS
<1>1. since' \in [full : 0 .. Idle, fast : 0 .. Arm, taf : 0 .. TafEvery] /\ since'.fast = Arm
  BY CadenceAssumption DEF Restart, Overdue
<1>2. quiet' \in [Stations -> 0 .. Cooldown]
  BY CadenceAssumption DEF Restart
<1>3. TypeOK'
  BY <1>1, <1>2, NoObsType DEF Restart, IInv, TypeOK, Phases
<1>4. WaitInv'
  BY <1>1 DEF Restart, IInv, TypeOK, WaitInv, InCycle
<1> QED
  BY <1>3, <1>4 DEF Restart, IInv, SameFromFast

LEMMA StepInv == IInv /\ [Next]_vars => IInv'
<1> SUFFICES ASSUME IInv, [Next]_vars PROVE IInv'
  OBVIOUS
<1>1. CASE UNCHANGED vars
  <2>1. Unarmed' = Unarmed /\ ArmedIcaos(armed') = ArmedIcaos(armed)
    BY <1>1 DEF vars, Unarmed, ArmedIcaos
  <2>2. WaitInv'
    BY <1>1, <2>1 DEF IInv, WaitInv, InCycle, vars, memory, cycle
  <2> QED
    BY <1>1, <2>2 DEF IInv, TypeOK, SameFromFast, vars, memory, cycle
<1>2. CASE Publish
  BY <1>2, PublishInv
<1>3. CASE Step
  BY <1>3, WakeInv, FullPullInv, FastPullInv, EarlyPullInv, TafPullInv, StrategyInv,
     CycleErrorInv DEF Step
<1>4. CASE Restart
  BY <1>4, RestartInv
<1> QED
  BY <1>1, <1>2, <1>3, <1>4 DEF Next

-----------------------------------------------------------------------------
(* Theorems *)

LEMMA CadenceInvariant == Spec => []IInv
  BY InitInv, StepInv, PTL DEF Spec

\* Every variable has its type: run_cycle's memory of the sources.
THEOREM CadenceTypeCorrect == Spec => []TypeOK
<1>1. IInv => TypeOK
  BY DEF IInv
<1> QED
  BY <1>1, CadenceInvariant, PTL

\* The strategy decides on what the next cycle will remember, whatever the sources answer
\* and wherever a cycle before has raised.
THEOREM DecidesOnWhatIsKept == Spec => []SeenIsRemembered
<1>1. IInv => SeenIsRemembered
  BY DEF IInv, SameFromFast, SeenIsRemembered
<1> QED
  BY <1>1, CadenceInvariant, PTL

\* The strategy never decides about an armed station whose sources have been left alone
\* for an armed interval, however late the cycles start.
THEOREM ArmedIsNeverStale == Spec => []ArmedIsAskedFor
<1>1. IInv => ArmedIsAskedFor
  <2> SUFFICES ASSUME IInv, pc = "strategy", NEW s \in ArmedIcaos(armed) PROVE wait[s] < Arm
    BY DEF ArmedIsAskedFor
  <2>1. s \in Stations
    BY ArmedIcaosType DEF IInv, TypeOK
  <2>2. wait[s] \in 0 .. Arm /\ since.fast \in 0 .. Arm /\ Arm \in Nat \ {0}
    BY <2>1, CadenceAssumption DEF IInv, TypeOK
  <2>3. wait[s] <= since.fast
    BY <2>1 DEF IInv, WaitInv
  <2>4. since.fast = Arm => wait[s] = 0
    BY DEF IInv, WaitInv
  <2> QED
    BY <2>2, <2>3, <2>4
<1> QED
  BY <1>1, CadenceInvariant, PTL

LEMMA MergeKeeps ==
  ASSUME NEW obs, NEW fresh
  PROVE  Having(obs) \subseteq Having(Merge(obs, fresh))
  BY DEF Having, Merge

LEMMA AnswerHasOne ==
  ASSUME NEW obs \in Observations, obs # NoObs
  PROVE  Having(obs) # {}
<1>1. NoObs \in Observations
  BY NoObsType
<1>2. \E s \in Stations : obs[s] # NoObs[s]
  BY <1>1 DEF Observations
<1> QED
  BY <1>2 DEF NoObs, Having

\* A pull that fails or leaves a station out erases nothing that is known of it, unless
\* it is an answer for the whole universe; nor do errors of the cycle.
THEOREM PullsEraseNothing == Spec => JitterErasesNothing
<1> DEFINE KeptObs == Having(last) \subseteq Having(last') \/ (pc = "full" /\ Having(last') # {})
           KeptTaf == forecast \subseteq forecast' \/ (pc = "taf" /\ forecast' # {})
<1>1. ASSUME [Next]_vars PROVE Restart \/ (KeptObs /\ KeptTaf)
  <2>1. ASSUME UNCHANGED <<last, forecast>> PROVE KeptObs /\ KeptTaf
    BY <2>1 DEF Having
  <2>2. CASE Publish \/ Wake \/ Strategy \/ CycleError \/ UNCHANGED vars
    BY <2>1, <2>2 DEF Publish, Wake, Begin, Strategy, CycleError, vars, memory
  <2>3. CASE FullPull
    <3>1. forecast' = forecast /\ pc = "full"
      BY <2>3 DEF FullPull
    <3>2. CASE last' = last
      BY <2>1, <3>1, <3>2
    <3>3. CASE last' # last
      <4>1. PICK obs \in Fetched(Stations) : TakeFull(obs)
        BY <2>3, <3>3 DEF FullPull
      <4>2. obs # NoObs /\ last' = obs
        BY <3>3, <4>1 DEF TakeFull
      <4>3. Having(last') # {}
        BY <4>2, FetchedType, AnswerHasOne
      <4> QED
        BY <3>1, <4>3
    <3> QED
      BY <3>2, <3>3
  <2>4. CASE FastPull \/ EarlyPull
    <3>1. forecast' = forecast
      BY <2>4 DEF FastPull, EarlyPull
    <3>2. last' = last \/ \E obs : last' = Merge(last, obs)
      BY <2>4 DEF FastPull, EarlyPull, TakeFast, TakeEarly
    <3> QED
      BY <2>1, <3>1, <3>2, MergeKeeps
  <2>5. CASE TafPull
    BY <2>1, <2>5 DEF TafPull, TakeTaf
  <2> QED
    BY <1>1, <2>2, <2>3, <2>4, <2>5 DEF Next, Step
<1> QED
  BY <1>1, PTL DEF Spec, JitterErasesNothing


-----------------------------------------------------------------------------
(* The inductive invariant of the tracker *)

\* Within what is kept, a sample is older than the one after the next: a cycle takes at
\* most two, and time passes between cycles.
Paced(s) ==
    \A i \in 1 .. Len(s) : i + 2 <= Len(s) => s[i].age > Keep \/ s[i].age > s[i + 2].age
HistoryOk(s) == s \in Seq(Sample) /\ Len(s) <= MaxLen /\ Aging(s) /\ Paced(s)

\* No sample but the last is of this instant.
OneNow(s) == \A i \in 1 .. Len(s) : i < Len(s) => s[i].age > 0

HistoryInv ==
    /\ turn \in {"asleep", "sampled", "fed"} /\ clean \in BOOLEAN /\ quote \in Books
    /\ \A b \in Buckets : HistoryOk(series[b]) /\ HistoryOk(disk[b])
    /\ turn = "sampled" => \A b \in Buckets : OneNow(series[b])
    /\ clean => /\ turn = "asleep"
                /\ \A b \in Buckets : Prune(series[b], Keep) = Prune(disk[b], Keep)

LEMMA KeepType == Keep \in Nat /\ Window \in Nat /\ Window <= Keep /\ MaxLen \in Nat \ {0}
  BY ConsensusAssumption

LEMMA SampleFields ==
    ASSUME NEW s \in Seq(Sample)
    PROVE  /\ Len(s) \in Nat /\ DOMAIN s = 1 .. Len(s)
           /\ \A i \in 1 .. Len(s) : /\ s[i] \in Sample /\ s[i].age \in 0 .. Keep + 1
                                     /\ s[i].mid \in Nat /\ s[i].depth \in Nat
<1>1. Len(s) \in Nat /\ DOMAIN s = 1 .. Len(s) /\ \A i \in 1 .. Len(s) : s[i] \in Sample
  BY LenProperties, ElementOfSeq
<1> QED
  BY <1>1 DEF Sample

LEMMA NoSamplesOk == HistoryOk(<<>>) /\ OneNow(<<>>)
<1>1. <<>> \in Seq(Sample) /\ Len(<<>>) = 0
  OBVIOUS
<1> QED
  BY <1>1, KeepType DEF HistoryOk, Aging, Paced, OneNow

\* Time leaves every sample in its place and none at this instant.
LEMMA AgedOk ==
    ASSUME NEW s, HistoryOk(s)
    PROVE  /\ HistoryOk(Aged(s)) /\ Len(Aged(s)) = Len(s)
           /\ \A i \in 1 .. Len(s) : Aged(s)[i].age > 0 /\ Aged(s)[i].age = Grown(s[i].age)
<1>1. /\ s \in Seq(Sample) /\ Len(s) <= MaxLen /\ Len(s) \in Nat /\ DOMAIN s = 1 .. Len(s)
      /\ \A i \in 1 .. Len(s) : /\ s[i].age \in 0 .. Keep + 1
                                /\ s[i].mid \in Nat /\ s[i].depth \in Nat
  BY SampleFields DEF HistoryOk
<1>2. ASSUME NEW i \in 1 .. Len(s)
      PROVE  Grown(s[i].age) \in 0 .. Keep + 1 /\ Grown(s[i].age) > 0
  <2>1. s[i].age \in 0 .. Keep + 1
    BY <1>1
  <2> QED
    BY <2>1, KeepType DEF Grown
<1> DEFINE t == Aged(s)
<1>3. t \in Seq(Sample) /\ Len(t) = Len(s)
  <2>1. \A i \in 1 .. Len(s) :
           [age |-> Grown(s[i].age), mid |-> s[i].mid, depth |-> s[i].depth] \in Sample
    BY <1>1, <1>2 DEF Sample
  <2> QED
    BY <1>1, <2>1 DEF Aged
<1>4. \A i \in 1 .. Len(s) : t[i].age = Grown(s[i].age)
  BY <1>1 DEF Aged
<1> HIDE DEF t
<1>5. \A a, b \in 0 .. Keep + 1 : a >= b => Grown(a) >= Grown(b)
  BY KeepType DEF Grown
<1>6. \A a, b \in 0 .. Keep + 1 : a > Keep \/ a > b => Grown(a) > Keep \/ Grown(a) > Grown(b)
  BY KeepType DEF Grown
<1>7. Aging(t)
  <2>1. \A i \in 1 .. Len(t) : t[i].age \in Nat
    BY <1>2, <1>3, <1>4, KeepType
  <2>2. ASSUME NEW i \in 1 .. Len(t), NEW j \in 1 .. Len(t), i < j
        PROVE  t[i].age >= t[j].age
    <3>1. s[i].age >= s[j].age
      BY <1>3, <2>2 DEF HistoryOk, Aging
    <3>2. Grown(s[i].age) >= Grown(s[j].age)
      BY <1>1, <1>3, <1>5, <3>1
    <3> QED
      BY <1>3, <1>4, <3>2
  <2> QED
    BY <2>1, <2>2 DEF Aging
<1>8. Paced(t)
  <2>1. ASSUME NEW i \in 1 .. Len(t), i + 2 <= Len(t)
        PROVE  t[i].age > Keep \/ t[i].age > t[i + 2].age
    <3>1. i + 2 \in 1 .. Len(s) /\ i \in 1 .. Len(s)
      BY <1>1, <1>3, <2>1
    <3>2. s[i].age > Keep \/ s[i].age > s[i + 2].age
      BY <1>3, <2>1, <3>1 DEF HistoryOk, Paced
    <3>3. Grown(s[i].age) > Keep \/ Grown(s[i].age) > Grown(s[i + 2].age)
      BY <1>1, <1>6, <3>1, <3>2
    <3> QED
      BY <1>4, <3>1, <3>3
  <2> QED
    BY <2>1 DEF Paced
<1>9. HistoryOk(t) /\ Len(t) = Len(s)
  BY <1>1, <1>3, <1>7, <1>8 DEF HistoryOk
<1>10. \A i \in 1 .. Len(s) : t[i].age > 0 /\ t[i].age = Grown(s[i].age)
  BY <1>2, <1>4
<1> QED
  BY <1>9, <1>10 DEF t

\* The end of a history is one.
LEMMA SuffixOk ==
    ASSUME NEW s, HistoryOk(s), NEW k \in 1 .. Len(s)
    PROVE  HistoryOk(SubSeq(s, k, Len(s)))
<1> DEFINE t == SubSeq(s, k, Len(s))
<1>1. s \in Seq(Sample) /\ Len(s) \in Nat /\ Len(s) <= MaxLen /\ Aging(s)
  BY SampleFields DEF HistoryOk
<1>2. /\ t \in Seq(Sample) /\ Aging(t) /\ Len(t) = Len(s) - k + 1
      /\ \A i \in 1 .. Len(s) - k + 1 : t[i] = s[k + i - 1]
  BY <1>1, SuffixAging
<1> HIDE DEF t
<1>3. Len(t) <= MaxLen
  BY <1>1, <1>2, KeepType
<1>4. ASSUME NEW i \in 1 .. Len(t), i + 2 <= Len(t)
      PROVE  t[i].age > Keep \/ t[i].age > t[i + 2].age
  <2>1. /\ k + i - 1 \in 1 .. Len(s) /\ (k + i - 1) + 2 <= Len(s)
        /\ i + 2 \in 1 .. Len(s) - k + 1 /\ k + (i + 2) - 1 = (k + i - 1) + 2
    BY <1>1, <1>2, <1>4
  <2>2. t[i] = s[k + i - 1] /\ t[i + 2] = s[(k + i - 1) + 2]
    BY <1>2, <2>1
  <2>3. s[k + i - 1].age > Keep \/ s[k + i - 1].age > s[(k + i - 1) + 2].age
    BY <2>1 DEF HistoryOk, Paced
  <2> QED
    BY <2>2, <2>3
<1> QED
  BY <1>2, <1>3, <1>4 DEF HistoryOk, Paced, t

LEMMA PruneOk ==
    ASSUME NEW s, HistoryOk(s), NEW w \in Nat
    PROVE  HistoryOk(Prune(s, w)) /\ \A i \in 1 .. Len(Prune(s, w)) : Prune(s, w)[i].age <= w
<1>1. s \in Seq(Sample) /\ Aging(s)
  BY DEF HistoryOk
<1>2. \A i \in 1 .. Len(Prune(s, w)) : Prune(s, w)[i].age <= w
  BY <1>1, RecentAging DEF Prune
<1>3. HistoryOk(Prune(s, w))
  <2>1. CASE Prune(s, w) = <<>>
    BY <2>1, NoSamplesOk
  <2>2. CASE \E k \in 1 .. Len(s) : Prune(s, w) = SubSeq(s, k, Len(s))
    BY <2>2, SuffixOk
  <2> QED
    BY <1>1, <2>1, <2>2, RecentIs DEF Prune
<1> QED
  BY <1>2, <1>3

\* A sample joins a history whose others are all older.
LEMMA RecordOk ==
    ASSUME NEW s, HistoryOk(s), OneNow(s), NEW q \in [ask : Nat, bid : Nat, depth : Nat]
    PROVE  HistoryOk(Record(s, q))
<1> DEFINE p == [age |-> 0, mid |-> Mid(q), depth |-> q.depth]
           t == Append(s, p)
<1>1. /\ s \in Seq(Sample) /\ Len(s) \in Nat /\ Len(s) <= MaxLen /\ Aging(s) /\ Paced(s)
      /\ \A i \in 1 .. Len(s) : s[i].age \in 0 .. Keep + 1
  BY SampleFields DEF HistoryOk
<1>2. p \in Sample /\ p.age = 0
  <2>1. Mid(q) \in Nat /\ q.depth \in Nat /\ 0 \in 0 .. Keep + 1
    BY KeepType DEF Mid
  <2> QED
    BY <2>1 DEF Sample
<1> HIDE DEF p
<1>3. /\ t \in Seq(Sample) /\ Len(t) = Len(s) + 1 /\ t[Len(s) + 1] = p
      /\ \A i \in 1 .. Len(s) : t[i] = s[i]
  BY <1>1, <1>2
<1>4. t # <<>>
  BY <1>1, <1>3
<1> HIDE DEF t
<1>5. \A i \in 1 .. Len(t) : (i = Len(s) + 1 \/ i \in 1 .. Len(s)) /\ t[i].age \in 0 .. Keep + 1
  BY <1>1, <1>2, <1>3, KeepType
<1>6. ASSUME NEW i \in 1 .. Len(t), NEW j \in 1 .. Len(t), i < j
      PROVE  t[i].age >= t[j].age
  <2>1. CASE j = Len(s) + 1
    BY <1>2, <1>3, <1>5, <2>1, KeepType
  <2>2. CASE j \in 1 .. Len(s)
    <3>1. i \in 1 .. Len(s)
      BY <1>1, <1>6, <2>2
    <3>2. s[i].age >= s[j].age
      BY <1>1, <1>6, <2>2, <3>1 DEF Aging
    <3> QED
      BY <1>3, <2>2, <3>1, <3>2
  <2> QED
    BY <1>5, <2>1, <2>2
<1>7. ASSUME NEW i \in 1 .. Len(t), i + 2 <= Len(t)
      PROVE  t[i].age > Keep \/ t[i].age > t[i + 2].age
  <2>1. i \in 1 .. Len(s) /\ i < Len(s)
    BY <1>1, <1>3, <1>7
  <2>2. CASE i + 2 = Len(s) + 1
    BY <1>2, <1>3, <2>1, <2>2 DEF OneNow
  <2>3. CASE i + 2 \in 1 .. Len(s)
    <3>1. i + 2 <= Len(s)
      BY <1>1, <2>3
    <3>2. s[i].age > Keep \/ s[i].age > s[i + 2].age
      BY <1>1, <2>1, <3>1 DEF Paced
    <3> QED
      BY <1>3, <2>1, <2>3, <3>2
  <2>4. i + 2 \in 1 .. Len(t)
    BY <1>1, <1>3, <1>7
  <2> QED
    BY <1>5, <2>2, <2>3, <2>4
<1>8. Aging(t) /\ Paced(t)
  BY <1>5, <1>6, <1>7, KeepType DEF Aging, Paced
<1>9. HistoryOk(Kept(t))
  <2>1. CASE Len(t) > MaxLen
    <3>1. Tail(t) = SubSeq(t, 2, Len(t))
      BY <1>3, <1>4, TailIsSubSeq
    <3> DEFINE u == SubSeq(t, 2, Len(t))
    <3>2. 2 \in 1 .. Len(t)
      BY <1>1, <1>3, <2>1, KeepType
    <3>3. /\ u \in Seq(Sample) /\ Aging(u) /\ Len(u) = Len(t) - 2 + 1
          /\ \A i \in 1 .. Len(t) - 2 + 1 : u[i] = t[2 + i - 1]
      BY <1>3, <1>8, <3>2, SuffixAging
    <3> HIDE DEF u
    <3>4. Len(u) = Len(s) /\ \A i \in 1 .. Len(s) : u[i] = t[i + 1]
      <4>1. Len(t) - 2 + 1 = Len(s) /\ \A i \in 1 .. Len(s) : 2 + i - 1 = i + 1
        BY <1>1, <1>3
      <4> QED
        BY <3>3, <4>1
    <3>5. ASSUME NEW i \in 1 .. Len(u), i + 2 <= Len(u)
          PROVE  u[i].age > Keep \/ u[i].age > u[i + 2].age
      <4>1. /\ i + 1 \in 1 .. Len(t) /\ (i + 1) + 2 <= Len(t) /\ (i + 2) + 1 = (i + 1) + 2
            /\ i \in 1 .. Len(s) /\ i + 2 \in 1 .. Len(s)
        BY <1>1, <1>3, <3>4, <3>5
      <4>2. t[i + 1].age > Keep \/ t[i + 1].age > t[(i + 1) + 2].age
        BY <4>1, <1>7
      <4> QED
        BY <3>4, <4>1, <4>2
    <3>6. HistoryOk(u)
      BY <1>1, <3>3, <3>4, <3>5 DEF HistoryOk, Paced
    <3> QED
      BY <2>1, <3>1, <3>6 DEF Kept, u
  <2>2. CASE ~(Len(t) > MaxLen)
    <3>1. Len(t) <= MaxLen
      BY <1>1, <1>3, <2>2, KeepType
    <3> QED
      BY <1>3, <1>8, <2>2, <3>1 DEF Kept, HistoryOk
  <2> QED
    BY <2>1, <2>2
<1>10. Record(s, q) = s \/ Record(s, q) = Kept(t)
  BY DEF Record, t, p
<1> QED
  BY <1>9, <1>10

\* After the first sample of a cycle the others are of an earlier instant.
LEMMA FirstSample ==
    ASSUME NEW s, HistoryOk(s), \A i \in 1 .. Len(s) : s[i].age > 0,
           NEW q \in [ask : Nat, bid : Nat, depth : Nat]
    PROVE  OneNow(Record(s, q))
<1> DEFINE p == [age |-> 0, mid |-> Mid(q), depth |-> q.depth]
           t == Append(s, p)
<1>1. s \in Seq(Sample) /\ Len(s) \in Nat
  BY SampleFields DEF HistoryOk
<1>2. p \in Sample
  <2>1. Mid(q) \in Nat /\ q.depth \in Nat /\ 0 \in 0 .. Keep + 1
    BY KeepType DEF Mid
  <2> QED
    BY <2>1 DEF Sample
<1> HIDE DEF p
<1>3. t \in Seq(Sample) /\ Len(t) = Len(s) + 1 /\ \A i \in 1 .. Len(s) : t[i] = s[i]
  BY <1>1, <1>2
<1> HIDE DEF t
<1>4. t # <<>>
  <2>1. Len(t) # 0
    BY <1>1, <1>3
  <2> QED
    BY <2>1
<1>5. OneNow(t)
  BY <1>1, <1>3 DEF OneNow
<1>6. OneNow(Tail(t))
  <2>1. /\ Len(Tail(t)) = Len(t) - 1
        /\ \A i \in 1 .. Len(Tail(t)) : Tail(t)[i] = t[i + 1]
    BY <1>3, <1>4, HeadTailProperties
  <2>2. ASSUME NEW i \in 1 .. Len(Tail(t)), i < Len(Tail(t)) PROVE Tail(t)[i].age > 0
    <3>1. i + 1 \in 1 .. Len(t) /\ i + 1 < Len(t)
      BY <1>1, <1>3, <2>1, <2>2
    <3> QED
      BY <1>5, <2>1, <3>1 DEF OneNow
  <2> QED
    BY <2>2 DEF OneNow
<1>7. OneNow(s)
  BY DEF OneNow
<1>8. Record(s, q) = s \/ Record(s, q) = t \/ Record(s, q) = Tail(t)
  BY DEF Record, Kept, t, p
<1> QED
  BY <1>5, <1>6, <1>7, <1>8

\* What a history keeps of the time that has passed since it was pruned.
LEMMA PruneOfAged ==
    ASSUME NEW s, HistoryOk(s)
    PROVE  Prune(Aged(Prune(s, Keep)), Keep) = Prune(Aged(s), Keep)
<1> DEFINE a == Aged(s)
           n == Len(s)
<1>1. s \in Seq(Sample) /\ Aging(s) /\ n \in Nat /\ Len(s) = n /\ DOMAIN s = 1 .. n
  BY SampleFields DEF HistoryOk
<1>2. /\ a \in Seq(Sample) /\ Aging(a) /\ Len(a) = n
      /\ \A i \in 1 .. n : a[i].age = Grown(s[i].age)
  BY AgedOk DEF HistoryOk
<1>3. \A i \in 1 .. n : s[i].age > Keep => a[i].age > Keep
  BY <1>2 DEF Grown
<1> HIDE DEF a, n
<1>4. CASE Recent(s, Keep) = <<>> /\ \A i \in 1 .. Len(s) : s[i].age > Keep
  <2>1. \A i \in 1 .. n : a[i].age > Keep
    BY <1>1, <1>3, <1>4
  <2>2. ASSUME NEW j \in 1 .. n PROVE ~ \A i \in 1 .. n : a[i].age > Keep <=> i < j
    <3>1. ~(j < j) /\ a[j].age > Keep
      BY <1>1, <2>1
    <3> QED
      BY <3>1
  <2>3. Recent(a, Keep) = <<>>
    BY <1>2, <2>2, RecentIs, KeepType
  <2>4. Aged(<<>>) = <<>>
    <3>1. HistoryOk(<<>>) /\ Len(<<>>) = 0
      BY NoSamplesOk
    <3>2. Aged(<<>>) \in Seq(Sample) /\ Len(Aged(<<>>)) = 0
      BY <3>1, AgedOk DEF HistoryOk
    <3> QED
      BY <3>2, EmptySeq
  <2>5. Recent(<<>>, Keep) = <<>>
    <3>1. {i \in DOMAIN <<>> : <<>>[i].age <= Keep} = {}
      OBVIOUS
    <3> QED
      BY <3>1 DEF Recent
  <2> QED
    BY <1>4, <2>3, <2>4, <2>5 DEF Prune, a
<1>5. ASSUME NEW k \in 1 .. Len(s), Recent(s, Keep) = SubSeq(s, k, Len(s)),
             \A i \in 1 .. Len(s) : s[i].age > Keep <=> i < k
      PROVE  Prune(Aged(Prune(s, Keep)), Keep) = Prune(Aged(s), Keep)
  <2> DEFINE t == SubSeq(s, k, n)
             u == SubSeq(a, k, n)
  <2>1. /\ HistoryOk(t) /\ t \in Seq(Sample) /\ Len(t) = n - k + 1
        /\ \A i \in 1 .. n - k + 1 : t[i] = s[k + i - 1]
    BY <1>1, <1>5, SuffixOk, SuffixAging
  <2>2. /\ u \in Seq(Sample) /\ Len(u) = n - k + 1
        /\ \A i \in 1 .. n - k + 1 : u[i] = a[k + i - 1]
    BY <1>1, <1>2, <1>5, SuffixAging
  <2> HIDE DEF t, u
  <2>3. Aged(t) \in Seq(Sample) /\ Len(Aged(t)) = n - k + 1
    BY <2>1, AgedOk DEF HistoryOk
  <2>4. DOMAIN t = 1 .. n - k + 1
    BY <2>1, SampleFields
  <2>5. ASSUME NEW i \in 1 .. n - k + 1 PROVE Aged(t)[i] = u[i]
    <3>1. k + i - 1 \in 1 .. n
      BY <1>1, <1>5
    <3>2. PICK r : r = s[k + i - 1]
      OBVIOUS
    <3>3. Aged(t)[i] = [age |-> Grown(r.age), mid |-> r.mid, depth |-> r.depth]
      BY <2>1, <2>4, <3>2 DEF Aged
    <3>4. a[k + i - 1] = [age |-> Grown(r.age), mid |-> r.mid, depth |-> r.depth]
      BY <1>1, <3>1, <3>2 DEF Aged, a
    <3> QED
      BY <2>2, <3>3, <3>4
  <2>6. Aged(t) = u
    BY <2>2, <2>3, <2>5, SeqEqual
  <2>7. Recent(u, Keep) = Recent(a, Keep)
    <3>1. \A i \in 1 .. Len(a) : i < k => a[i].age > Keep
      BY <1>1, <1>2, <1>3, <1>5
    <3>2. k \in 1 .. Len(a)
      BY <1>1, <1>2, <1>5
    <3> QED
      BY <1>2, <3>1, <3>2, RecentOfSuffix, KeepType DEF u
  <2> QED
    BY <1>1, <1>5, <2>6, <2>7 DEF Prune, t, a
<1> QED
  BY <1>1, <1>4, <1>5, RecentIs, KeepType

-----------------------------------------------------------------------------
(* The invariant of the tracker *)

\* Every quote a cycle reads is of ask, bid and depth.
LEMMA BooksQuote ==
    ASSUME NEW q \in Books, NEW b \in Buckets
    PROVE  q[b] \in [ask : Nat, bid : Nat, depth : Nat]
  BY ConsensusAssumption DEF Books

LEMMA EmptyPruned == \A w \in Nat : Prune(<<>>, w) = <<>>
<1> SUFFICES ASSUME NEW w \in Nat PROVE Prune(<<>>, w) = <<>>
  OBVIOUS
<1>1. {i \in DOMAIN <<>> : <<>>[i].age <= w} = {}
  OBVIOUS
<1> QED
  BY <1>1 DEF Recent, Prune

LEMMA PrunedAgain ==
    ASSUME NEW s, HistoryOk(s), NEW w \in Nat, w <= Keep
    PROVE  Prune(Prune(s, Keep), w) = Prune(s, w)
<1>1. s \in Seq(Sample) /\ Aging(s)
  BY DEF HistoryOk
<1> QED
  BY <1>1, RecentOfRecent, KeepType DEF Prune

LEMMA HistoryInit == TrackerInit => HistoryInv
<1> SUFFICES ASSUME TrackerInit PROVE HistoryInv
  OBVIOUS
<1>1. \A b \in Buckets : HistoryOk(series[b]) /\ HistoryOk(disk[b])
  BY NoSamplesOk DEF TrackerInit, NoHistory
<1> QED
  BY <1>1 DEF TrackerInit, HistoryInv

LEMMA RecordKeepsHistory == HistoryInv /\ RecordBooks => HistoryInv'
<1> SUFFICES ASSUME HistoryInv, RecordBooks PROVE HistoryInv'
  OBVIOUS
<1>1. turn' = "sampled" /\ clean' = FALSE /\ quote' \in Books
  BY DEF RecordBooks
<1>2. ASSUME NEW b \in Buckets
      PROVE  HistoryOk(series'[b]) /\ OneNow(series'[b]) /\ HistoryOk(disk'[b])
  <2>1. HistoryOk(series[b]) /\ HistoryOk(disk[b])
    BY DEF HistoryInv
  <2>2. series'[b] = Record(Aged(series[b]), quote'[b]) /\ disk'[b] = Aged(disk[b])
    BY DEF RecordBooks
  <2>3. quote'[b] \in [ask : Nat, bid : Nat, depth : Nat]
    BY <1>1, BooksQuote
  <2>4. HistoryOk(disk'[b])
    BY <2>1, <2>2, AgedOk
  <2> DEFINE a == Aged(series[b])
  <2>5. HistoryOk(a) /\ \A i \in 1 .. Len(a) : a[i].age > 0
    BY <2>1, AgedOk
  <2> HIDE DEF a
  <2>6. OneNow(a)
    BY <2>5 DEF OneNow
  <2>7. HistoryOk(Record(a, quote'[b])) /\ OneNow(Record(a, quote'[b]))
    BY <2>3, <2>5, <2>6, RecordOk, FirstSample
  <2> QED
    BY <2>2, <2>4, <2>7 DEF a
<1> QED
  BY <1>1, <1>2 DEF HistoryInv

LEMMA FeedKeepsHistory == HistoryInv /\ Feed => HistoryInv'
<1> SUFFICES ASSUME HistoryInv, Feed PROVE HistoryInv'
  OBVIOUS
<1>1. /\ turn' = "fed" /\ clean' = clean /\ quote' = quote /\ disk' = disk /\ turn = "sampled"
      /\ ~clean
  BY DEF Feed, HistoryInv
<1>2. ASSUME NEW b \in Buckets PROVE HistoryOk(series'[b])
  <2>1. HistoryOk(series[b]) /\ OneNow(series[b])
    BY <1>1 DEF HistoryInv
  <2>2. quote[b] \in [ask : Nat, bid : Nat, depth : Nat]
    BY BooksQuote DEF HistoryInv
  <2>3. Again[b] = Record(series[b], quote[b])
    BY DEF Again
  <2>4. HistoryOk(Again[b])
    BY <2>1, <2>2, <2>3, RecordOk
  <2>5. series'[b] = series[b] \/ series'[b] = Again[b] \/ series'[b] = Prune(Again[b], Window)
    BY DEF Feed
  <2> QED
    BY <2>1, <2>4, <2>5, PruneOk, KeepType
<1> QED
  BY <1>1, <1>2 DEF HistoryInv

LEMMA SaveKeepsHistory == HistoryInv /\ Save => HistoryInv'
<1> SUFFICES ASSUME HistoryInv, Save PROVE HistoryInv'
  OBVIOUS
<1>1. turn' = "asleep" /\ clean' = TRUE /\ quote' = quote
  BY DEF Save
<1>2. ASSUME NEW b \in Buckets
      PROVE  HistoryOk(series'[b]) /\ disk'[b] = series'[b]
  <2>1. HistoryOk(series[b])
    BY DEF HistoryInv
  <2>2. series'[b] = Prune(series[b], Keep)
    BY DEF Save
  <2>3. disk'[b] = IF series[b] = <<>> THEN <<>> ELSE Prune(series[b], Keep)
    BY DEF Save, Saved
  <2>4. Prune(<<>>, Keep) = <<>>
    BY EmptyPruned, KeepType
  <2> QED
    BY <2>1, <2>2, <2>3, <2>4, PruneOk, KeepType
<1> QED
  BY <1>1, <1>2 DEF HistoryInv

LEMMA ReloadKeepsHistory == HistoryInv /\ Reload => HistoryInv'
<1> SUFFICES ASSUME HistoryInv, Reload PROVE HistoryInv'
  OBVIOUS
<1>1. turn' = "asleep" /\ disk' = disk /\ quote' = quote /\ clean' \in BOOLEAN
  BY DEF Reload
<1>2. ASSUME NEW b \in Buckets
      PROVE  /\ HistoryOk(series'[b]) /\ HistoryOk(disk'[b])
             /\ clean' => Prune(series'[b], Keep) = Prune(disk'[b], Keep)
  <2>1. HistoryOk(disk[b])
    BY DEF HistoryInv
  <2>2. CASE series' = [c \in Buckets |-> Loaded(c)]
    <3>1. series'[b] = Prune(disk[b], Keep)
      BY <2>2 DEF Loaded
    <3>2. HistoryOk(series'[b]) /\ Prune(series'[b], Keep) = Prune(disk[b], Keep)
      BY <2>1, <3>1, PruneOk, PrunedAgain, KeepType
    <3> QED
      BY <1>1, <2>1, <3>2
  <2>3. CASE series' = NoHistory /\ clean' = FALSE
    BY <1>1, <2>1, <2>3, NoSamplesOk DEF NoHistory
  <2> QED
    BY <2>2, <2>3 DEF Reload
<1> QED
  BY <1>1, <1>2 DEF HistoryInv

LEMMA TickKeepsHistory == HistoryInv /\ Tick => HistoryInv'
<1> SUFFICES ASSUME HistoryInv, Tick PROVE HistoryInv'
  OBVIOUS
<1>1. turn' = turn /\ turn = "asleep" /\ clean' = clean /\ quote' = quote
  BY DEF Tick
<1>2. ASSUME NEW b \in Buckets
      PROVE  /\ HistoryOk(series'[b]) /\ HistoryOk(disk'[b])
             /\ clean => Prune(series'[b], Keep) = Prune(disk'[b], Keep)
  <2>1. HistoryOk(series[b]) /\ HistoryOk(disk[b])
    BY DEF HistoryInv
  <2>2. series'[b] = Aged(series[b]) /\ disk'[b] = Aged(disk[b])
    BY DEF Tick
  <2>3. HistoryOk(series'[b]) /\ HistoryOk(disk'[b])
    BY <2>1, <2>2, AgedOk
  <2>4. ASSUME clean PROVE Prune(series'[b], Keep) = Prune(disk'[b], Keep)
    <3>1. Prune(series[b], Keep) = Prune(disk[b], Keep)
      BY <2>4 DEF HistoryInv
    <3>2. /\ Prune(Aged(Prune(series[b], Keep)), Keep) = Prune(Aged(series[b]), Keep)
          /\ Prune(Aged(Prune(disk[b], Keep)), Keep) = Prune(Aged(disk[b]), Keep)
      BY <2>1, PruneOfAged
    <3> QED
      BY <2>2, <3>1, <3>2
  <2> QED
    BY <2>3, <2>4
<1> QED
  BY <1>1, <1>2 DEF HistoryInv

LEMMA HistoryStep == HistoryInv /\ [TrackerNext]_tracker => HistoryInv'
<1> SUFFICES ASSUME HistoryInv, [TrackerNext]_tracker PROVE HistoryInv'
  OBVIOUS
<1>1. CASE RecordBooks
  BY <1>1, RecordKeepsHistory
<1>2. CASE Feed
  BY <1>2, FeedKeepsHistory
<1>3. CASE Save
  BY <1>3, SaveKeepsHistory
<1>4. CASE SaveFails \/ CycleStops
  <2>1. /\ turn' = "asleep" /\ clean' = clean /\ quote' = quote /\ series' = series
        /\ disk' = disk
    BY <1>4 DEF SaveFails, CycleStops
  <2> QED
    BY <2>1 DEF HistoryInv
<1>5. CASE Reload
  BY <1>5, ReloadKeepsHistory
<1>6. CASE Tick
  BY <1>6, TickKeepsHistory
<1>7. CASE UNCHANGED tracker
  BY <1>7 DEF HistoryInv, tracker
<1> QED
  BY <1>1, <1>2, <1>3, <1>4, <1>5, <1>6, <1>7 DEF TrackerNext, RunCycle

LEMMA HistoryHolds == TrackerSpec => []HistoryInv
  BY HistoryInit, HistoryStep, PTL DEF TrackerSpec

\* Whatever the cycles sample, lose, save and read back, a history is of samples, no longer
\* than the deque, and runs from the oldest to the last.
THEOREM TrackerTypeCorrect == TrackerSpec => []TrackerTypeOK
<1>1. HistoryInv => TrackerTypeOK
  <2> SUFFICES ASSUME HistoryInv PROVE TrackerTypeOK
    OBVIOUS
  <2>1. ASSUME NEW h \in {series, disk}, NEW b \in Buckets
        PROVE  /\ h[b] \in Seq(Sample) /\ Len(h[b]) <= MaxLen
               /\ \A i, j \in DOMAIN h[b] : i < j => h[b][i].age >= h[b][j].age
    <3>1. HistoryOk(h[b])
      BY <2>1 DEF HistoryInv
    <3> DEFINE s == h[b]
    <3>2. s \in Seq(Sample) /\ Len(s) <= MaxLen /\ Aging(s)
      BY <3>1 DEF HistoryOk
    <3> HIDE DEF s
    <3>3. DOMAIN s = 1 .. Len(s)
      BY <3>2, SampleFields
    <3>4. \A i, j \in DOMAIN s : i < j => s[i].age >= s[j].age
      BY <3>2, <3>3 DEF Aging
    <3> QED
      BY <3>2, <3>4 DEF s
  <2>2. turn \in {"asleep", "sampled", "fed"} /\ clean \in BOOLEAN /\ quote \in Books
    BY DEF HistoryInv
  <2> QED
    BY <2>1, <2>2 DEF TrackerTypeOK
<1> QED
  BY <1>1, HistoryHolds, PTL

-----------------------------------------------------------------------------
(* A restart changes no verdict *)

\* What is solid depends on nothing but what is in the window.
LEMMA SolidByWindow ==
    ASSUME NEW g, NEW h, \A b \in Buckets : InWindow(g, b) = InWindow(h, b)
    PROVE  Solid(g) = Solid(h)
<1>1. Ranked(g) = Ranked(h) /\ Ranked(g) \subseteq Buckets
  BY DEF Ranked
<1>2. ASSUME NEW b \in Buckets, NEW c \in Buckets
      PROVE  /\ Above(InWindow(g, c), InWindow(g, b)) <=> Above(InWindow(h, c), InWindow(h, b))
             /\ Sampled(g, b) <=> Sampled(h, b)
  <2>1. InWindow(g, b) = InWindow(h, b) /\ InWindow(g, c) = InWindow(h, c)
    OBVIOUS
  <2> QED
    BY <2>1 DEF Sampled
<1>3. Rank1(g) = Rank1(h) /\ Rank1(g) \subseteq Buckets
  BY <1>1, <1>2, Zenon DEF Rank1
<1> QED
  BY <1>2, <1>3 DEF Solid

\* Between a save, or a reload, and the next sample, a process that starts anew from the
\* file finds the same buckets solid, however long the time in between.
THEOREM RestartKeepsVerdict == TrackerSpec => []VerdictSurvivesRestart
<1>1. HistoryInv => VerdictSurvivesRestart
  <2> SUFFICES ASSUME HistoryInv, clean
               PROVE  Solid([b \in Buckets |-> Loaded(b)]) = Solid(series)
    BY DEF VerdictSurvivesRestart
  <2> DEFINE g == [b \in Buckets |-> Loaded(b)]
  <2>1. ASSUME NEW b \in Buckets PROVE InWindow(g, b) = InWindow(series, b)
    <3>1. /\ HistoryOk(series[b]) /\ HistoryOk(disk[b])
          /\ Prune(series[b], Keep) = Prune(disk[b], Keep)
      BY DEF HistoryInv
    <3>2. g[b] = Prune(disk[b], Keep)
      BY DEF Loaded
    <3>3. /\ Prune(Prune(disk[b], Keep), Window) = Prune(disk[b], Window)
          /\ Prune(Prune(series[b], Keep), Window) = Prune(series[b], Window)
      BY <3>1, PrunedAgain, KeepType
    <3> QED
      BY <3>1, <3>2, <3>3 DEF InWindow
  <2> HIDE DEF g
  <2>2. Solid(g) = Solid(series)
    BY <2>1, SolidByWindow
  <2> QED
    BY <2>2 DEF g
<1> QED
  BY <1>1, HistoryHolds, PTL

-----------------------------------------------------------------------------
(* How much history the samples stand for *)

\* Every second sample is of an instant of its own.
LEMMA HalfTheAges ==
    ASSUME NEW s, HistoryOk(s), \A i \in 1 .. Len(s) : s[i].age <= Keep
    PROVE  Len(s) <= 2 * Cardinality({p.age : p \in Range(s)})
<1> DEFINE ages == {p.age : p \in Range(s)}
           n == Len(s)
           k == (n + 1) \div 2
           f == [i \in 1 .. k |-> s[2 * i - 1].age]
<1>1. /\ s \in Seq(Sample) /\ n \in Nat /\ Len(s) = n /\ DOMAIN s = 1 .. n
      /\ \A i \in 1 .. n : s[i].age \in Nat
  BY SampleFields, KeepType DEF HistoryOk
<1>2. \A i \in 1 .. n : s[i].age \in ages
  BY <1>1 DEF Range
<1>3. ages \subseteq Nat /\ \A x \in ages : x <= Keep
  BY <1>1 DEF Range
<1>4. k \in Nat /\ n <= 2 * k /\ \A i \in 1 .. k : 2 * i - 1 \in 1 .. n
  BY <1>1
<1> HIDE DEF ages, n, k
<1>5. IsFiniteSet(ages) /\ Cardinality(ages) \in Nat
  BY <1>3, KeepType, FS_BoundedSetOfNaturals, FS_CardinalityType
<1>6. ASSUME NEW i \in 1 .. k, NEW j \in 1 .. k, i < j PROVE f[i] > f[j]
  <2>1. /\ 2 * i - 1 \in 1 .. n /\ 2 * j - 1 \in 1 .. n /\ (2 * i - 1) + 2 <= 2 * j - 1
        /\ (2 * i - 1) + 2 \in 1 .. n /\ (2 * i - 1) + 2 <= n
    BY <1>1, <1>4, <1>6
  <2> DEFINE a == 2 * i - 1
             c == 2 * j - 1
  <2>2. f[i] = s[a].age /\ f[j] = s[c].age
    OBVIOUS
  <2> HIDE DEF a, c, f
  <2>3. a \in 1 .. n /\ c \in 1 .. n /\ a + 2 <= c /\ a + 2 \in 1 .. n /\ a + 2 <= n
    BY <2>1 DEF a, c
  <2>4. s[a].age > s[a + 2].age
    <3>1. s[a].age > Keep \/ s[a].age > s[a + 2].age
      BY <1>1, <2>3 DEF HistoryOk, Paced
    <3>2. s[a].age <= Keep
      BY <1>1, <2>3
    <3> QED
      BY <1>1, <2>3, <3>1, <3>2, KeepType
  <2>5. s[a + 2].age >= s[c].age
    <3>1. CASE a + 2 = c
      BY <1>1, <2>3, <3>1
    <3>2. CASE a + 2 < c
      BY <1>1, <2>3, <3>2 DEF HistoryOk, Aging
    <3> QED
      BY <2>3, <3>1, <3>2
  <2> QED
    BY <1>1, <2>2, <2>3, <2>4, <2>5
<1>7. f \in [1 .. k -> ages] /\ \A i \in 1 .. k : f[i] \in Nat
  BY <1>1, <1>2, <1>4
<1> HIDE DEF f
<1>8. \A i, j \in 1 .. k : f[i] = f[j] => i = j
  <2> SUFFICES ASSUME NEW i \in 1 .. k, NEW j \in 1 .. k, f[i] = f[j], i # j PROVE FALSE
    OBVIOUS
  <2>1. i < j \/ j < i
    OBVIOUS
  <2>2. f[i] > f[j] \/ f[j] > f[i]
    BY <1>6, <2>1
  <2> QED
    BY <1>7, <2>2
<1>9. f \in Injection(1 .. k, ages)
  BY <1>7, <1>8 DEF Injection, IsInjective
<1>10. Cardinality(1 .. k) <= Cardinality(ages)
  BY <1>5, <1>9, FS_Injection
<1>11. Cardinality(1 .. k) = k
  <2>1. 1 \in Int /\ k \in Int
    BY <1>4
  <2>2. Cardinality(1 .. k) = IF 1 > k THEN 0 ELSE k - 1 + 1
    BY <2>1, FS_Interval
  <2> QED
    BY <1>4, <2>2
<1> QED
  BY <1>1, <1>4, <1>5, <1>10, <1>11 DEF n, ages

\* A bucket that passes for long-horizon consensus was sampled at half as many different
\* instants of the window as min_samples asks for, although every cycle that has a report
\* samples it twice.
THEOREM SolidHasHistory == TrackerSpec => []ThinHistoryRefused
<1>1. HistoryInv => ThinHistoryRefused
  <2> SUFFICES ASSUME HistoryInv, NEW b \in Solid(series)
               PROVE  2 * Cardinality({p.age : p \in Range(InWindow(series, b))}) >= Need
    BY DEF ThinHistoryRefused
  <2>1. b \in Buckets /\ Len(InWindow(series, b)) >= Need
    BY DEF Solid, Rank1, Ranked, Sampled
  <2> DEFINE s == InWindow(series, b)
  <2>2. HistoryOk(s) /\ \A i \in 1 .. Len(s) : s[i].age <= Window
    BY <2>1, PruneOk, KeepType DEF InWindow, HistoryInv
  <2>3. Len(s) >= Need
    BY <2>1
  <2> HIDE DEF s
  <2>4. s \in Seq(Sample) /\ Len(s) \in Nat /\ \A i \in 1 .. Len(s) : s[i].age \in Nat
    BY <2>2, SampleFields, KeepType DEF HistoryOk
  <2>5. \A i \in 1 .. Len(s) : s[i].age <= Keep
    BY <2>2, <2>4, KeepType
  <2> DEFINE ages == {p.age : p \in Range(s)}
  <2>6. Len(s) <= 2 * Cardinality(ages)
    BY <2>2, <2>5, HalfTheAges
  <2>7. Cardinality(ages) \in Nat
    <3>1. DOMAIN s = 1 .. Len(s)
      BY <2>4, SampleFields
    <3>2. ages \in SUBSET Nat /\ \A x \in ages : x <= Keep
      BY <2>4, <2>5, <3>1 DEF Range
    <3> HIDE DEF ages
    <3> QED
      BY <3>2, KeepType, FS_BoundedSetOfNaturals, FS_CardinalityType
  <2> HIDE DEF ages
  <2>8. 2 * Cardinality(ages) >= Need
    <3>1. Need \in Nat
      BY ConsensusAssumption
    <3> QED
      BY <2>3, <2>4, <2>6, <2>7, <3>1
  <2> QED
    BY <2>8 DEF ages, s
<1> QED
  BY <1>1, HistoryHolds, PTL

-----------------------------------------------------------------------------
(* What the average averages *)

\* Sample k is in force from its own instant to that of the next.
LEMMA InForceIs ==
    ASSUME NEW s, HistoryOk(s), NEW k \in 1 .. Len(s), NEW a \in Nat, a <= s[k].age,
           \A i \in 1 .. Len(s) : i > k => s[i].age < a
    PROVE  InForce(s, a) = s[k].mid
<1> DEFINE d == {i \in DOMAIN s : s[i].age >= a}
<1>1. Len(s) \in Nat /\ DOMAIN s = 1 .. Len(s) /\ \A i \in 1 .. Len(s) : s[i].age \in Nat
  BY SampleFields, KeepType DEF HistoryOk
<1>2. d \in SUBSET (1 .. k) /\ k \in d
  <2>1. \A i \in 1 .. Len(s) : s[i].age >= a => ~(i > k)
    BY <1>1
  <2> QED
    BY <1>1, <2>1
<1> HIDE DEF d
<1>3. Max(d) = k
  BY <1>2, TopIsMax
<1> QED
  BY <1>3 DEF InForce, d

\* Sample by sample, from the oldest: the times held add up to the age of the first, and
\* what they weigh to the sum of the prices in force.
LEMMA AverageIs ==
    ASSUME NEW s, HistoryOk(s), Len(s) > 0
    PROVE  /\ Total(Times(s)) = s[1].age
           /\ Total(Weighted(s)) = Total([a \in 1 .. s[1].age |-> InForce(s, a)])
           /\ Total(Weighted(s)) \in Int
<1> DEFINE n == Len(s)
           top == s[1].age
           F == [a \in 1 .. top |-> InForce(s, a)]
           g == [k \in 0 .. n |-> IF k < n THEN s[k + 1].age ELSE 0]
           T == Times(s)
           W == Weighted(s)
<1>1. /\ s \in Seq(Sample) /\ n \in Nat /\ n > 0 /\ Len(s) = n /\ DOMAIN s = 1 .. n
      /\ \A i \in 1 .. n : s[i].age \in Nat /\ s[i].mid \in Nat
      /\ \A i, j \in 1 .. n : i < j => s[i].age >= s[j].age
  BY SampleFields, KeepType DEF HistoryOk, Aging
<1>2. top \in Nat /\ g[0] = top /\ g[n] = 0
  BY <1>1
<1>3. ASSUME NEW k \in 1 .. n
      PROVE  /\ g[k - 1] = s[k].age /\ g[k] \in Nat /\ g[k - 1] \in Nat
             /\ g[k] <= g[k - 1] /\ g[k - 1] <= top
             /\ \A i \in 1 .. n : i > k => s[i].age <= g[k]
             /\ Held(s, k) = g[k - 1] - g[k]
  <2>1. g[k - 1] = s[k].age
    BY <1>1
  <2>2. CASE k = n
    <3>1. g[k] = 0 /\ \A i \in 1 .. n : ~(i > k)
      BY <1>1, <2>2
    <3>2. Held(s, k) = s[k].age
      BY <1>1, <2>2 DEF Held
    <3>3. s[k].age <= top
      BY <1>1
    <3> QED
      BY <1>1, <2>1, <3>1, <3>2, <3>3
  <2>3. CASE k < n
    <3>1. g[k] = s[k + 1].age /\ k + 1 \in 1 .. n
      BY <1>1, <2>3
    <3>2. Held(s, k) = s[k].age - s[k + 1].age
      BY <1>1, <2>3 DEF Held
    <3>3. s[k].age <= top /\ s[k + 1].age <= s[k].age
      BY <1>1, <3>1
    <3>4. ASSUME NEW i \in 1 .. n, i > k PROVE s[i].age <= s[k + 1].age
      <4>1. i = k + 1 \/ k + 1 < i
        BY <1>1, <3>4
      <4> QED
        BY <1>1, <3>1, <4>1
    <3> HIDE DEF n, top, F, g, T, W
    <3>5. g[k] \in Nat /\ g[k - 1] \in Nat /\ g[k] <= g[k - 1] /\ g[k - 1] <= top
      BY <1>1, <2>1, <3>1, <3>3
    <3>6. \A i \in 1 .. n : i > k => s[i].age <= g[k]
      BY <3>1, <3>4
    <3> QED
      BY <2>1, <3>1, <3>2, <3>5, <3>6
  <2> HIDE DEF n, top, F, g, T, W
  <2>4. k = n \/ k < n
    <3>1. n \in Nat
      BY <1>1
    <3> QED
      BY <3>1
  <2> QED
    BY <2>2, <2>3, <2>4
<1>4. ASSUME NEW k \in 1 .. n, NEW a \in g[k] + 1 .. g[k - 1] PROVE F[a] = s[k].mid
  <2> HIDE DEF n, top, F, g
  <2>0. PICK p \in Nat : p = g[k - 1] /\ p = s[k].age /\ p <= top
    BY <1>3
  <2>9. PICK q \in Nat : q = g[k]
    BY <1>3
  <2>8. a \in q + 1 .. p
    BY <2>0, <2>9
  <2>1. a \in Nat /\ a <= s[k].age /\ a \in 1 .. top
    BY <1>2, <2>0, <2>8
  <2>2. \A i \in 1 .. n : i > k => s[i].age < a
    <3>1. \A i \in 1 .. n : i > k => s[i].age <= q
      BY <1>3, <2>9
    <3> QED
      BY <1>1, <2>8, <3>1
  <2>3. InForce(s, a) = s[k].mid
    BY <1>1, <2>1, <2>2, InForceIs DEF n
  <2> QED
    BY <2>1, <2>3 DEF F
<1>5. \A a \in 1 .. top : F[a] \in Int
  <2> SUFFICES ASSUME NEW a \in 1 .. top PROVE InForce(s, a) \in Int
    OBVIOUS
  <2> DEFINE d == {i \in DOMAIN s : s[i].age >= a}
  <2>1. d \in SUBSET (1 .. n) /\ 1 \in d
    BY <1>1
  <2> HIDE DEF d
  <2>2. Max(d) \in 1 .. n
    BY <1>1, <2>1, MaxIsIn
  <2> QED
    BY <1>1, <2>2 DEF InForce, d
<1>6. /\ DOMAIN T = 1 .. n /\ DOMAIN W = 1 .. n
      /\ \A k \in 1 .. n : T[k] = g[k - 1] - g[k] /\ W[k] = s[k].mid * (g[k - 1] - g[k])
  BY <1>1, <1>3 DEF Times, Weighted
<1>7. DOMAIN F = 1 .. top
  OBVIOUS
<1> HIDE DEF n, top, F, g, T, W
<1>8. ASSUME NEW k \in 1 .. n PROVE T[k] \in Int /\ W[k] \in Int
  <2>1. PICK x \in Int : x = g[k - 1] - g[k]
    BY <1>3
  <2>2. PICK m \in Int : m = s[k].mid
    BY <1>1
  <2>3. m * x \in Int
    OBVIOUS
  <2> QED
    BY <1>6, <2>1, <2>2, <2>3
<1>9. IsRow(T, n) /\ IsRow(W, n) /\ IsRow(F, top)
  BY <1>5, <1>6, <1>7, <1>8 DEF IsRow
<1> DEFINE S == {k \in Nat : k <= n => /\ SumTo(T, k) = top - g[k]
                                        /\ SumTo(W, k) + SumTo(F, g[k]) = SumTo(F, top)}
<1>10. \A p \in Nat : p <= top => SumTo(F, p) \in Int
  <2> SUFFICES ASSUME NEW p \in Nat, p <= top PROVE SumTo(F, p) \in Int
    OBVIOUS
  <2>1. \A i \in 1 .. p : F[i] \in Int
    BY <1>2, <1>5
  <2> QED
    BY <2>1, SumType
<1>11. 0 \in S
  <2>1. SumTo(T, 0) = 0 /\ SumTo(W, 0) = 0
    BY <1>1, <1>8, SumSteps
  <2>2. SumTo(F, top) \in Int
    BY <1>2, <1>10
  <2> QED
    BY <1>2, <2>1, <2>2
<1>12. ASSUME NEW k \in Nat, k \in S PROVE k + 1 \in S
  <2> SUFFICES ASSUME k + 1 <= n
               PROVE  /\ SumTo(T, k + 1) = top - g[k + 1]
                      /\ SumTo(W, k + 1) + SumTo(F, g[k + 1]) = SumTo(F, top)
    OBVIOUS
  <2>1. k + 1 \in 1 .. n /\ (k + 1) - 1 = k /\ k <= n
    BY <1>1
  <2>2. SumTo(T, k) = top - g[k] /\ SumTo(W, k) + SumTo(F, g[k]) = SumTo(F, top)
    BY <1>12, <2>1
  <2> HIDE DEF S
  <2>3. SumTo(T, k + 1) = SumTo(T, k) + T[k + 1] /\ SumTo(W, k + 1) = SumTo(W, k) + W[k + 1]
    BY <1>1, <1>8, <2>1, SumSteps
  <2>4. PICK p \in Nat, q \in Nat : p = g[k] /\ q = g[k + 1] /\ q <= p /\ p <= top
    BY <1>3, <2>1
  <2>5. PICK m \in Int : m = s[k + 1].mid
    BY <1>1, <2>1
  <2>6. T[k + 1] = p - q /\ W[k + 1] = m * (p - q)
    BY <1>6, <2>1, <2>4, <2>5
  <2>7. SumTo(F, p) = SumTo(F, q) + m * (p - q)
    <3>1. \A i \in 1 .. p : F[i] \in Int
      BY <1>2, <1>5, <2>4
    <3>2. \A a \in q + 1 .. p : F[a] = m
      BY <1>4, <2>1, <2>4, <2>5
    <3>3. q <= p
      BY <2>4
    <3> QED
      BY <3>1, <3>2, <3>3, SumOfStretch
  <2>8. SumTo(W, k) \in Int
    <3>1. \A i \in 1 .. k : W[i] \in Int
      BY <1>1, <1>8, <2>1
    <3> QED
      BY <3>1, SumType
  <2>9. SumTo(F, q) \in Int /\ SumTo(F, top) \in Int
    BY <1>2, <1>10, <2>4
  <2>10. PICK x \in Int : x = m * (p - q)
    <3>1. m * (p - q) \in Int
      OBVIOUS
    <3> QED
      BY <3>1
  <2>11. SumTo(T, k + 1) = top - q
    BY <1>2, <2>2, <2>3, <2>4, <2>6
  <2>12. SumTo(W, k + 1) = SumTo(W, k) + x /\ SumTo(F, p) = SumTo(F, q) + x
    BY <2>3, <2>6, <2>7, <2>10
  <2>13. SumTo(W, k + 1) + SumTo(F, q) = SumTo(F, top)
    BY <2>2, <2>4, <2>8, <2>9, <2>12
  <2> QED
    BY <2>4, <2>11, <2>13
<1>13. SumTo(T, n) = top - g[n] /\ SumTo(W, n) + SumTo(F, g[n]) = SumTo(F, top)
  <2>1. n \in S
    <3> HIDE DEF S
    <3> QED
      BY <1>1, <1>11, <1>12, SetInduction
  <2> QED
    BY <1>1, <2>1
<1> HIDE DEF S
<1>14. SumTo(F, 0) = 0
  BY <1>2, <1>5, SumSteps
<1>15. SumTo(W, n) \in Int
  BY <1>1, <1>8, SumType
<1>16. SumTo(T, n) = top /\ SumTo(W, n) = SumTo(F, top)
  <2>1. SumTo(F, top) \in Int
    BY <1>2, <1>10
  <2> QED
    BY <1>2, <1>13, <1>14, <1>15, <2>1
<1>17. Total(T) = SumTo(T, n) /\ Total(W) = SumTo(W, n) /\ Total(F) = SumTo(F, top)
  BY <1>1, <1>2, <1>9, TotalIs
<1>18. Total(T) = top /\ Total(W) = Total(F) /\ Total(W) \in Int
  BY <1>15, <1>16, <1>17
<1> QED
  BY <1>18 DEF T, W, F, top

\* The average a bucket is ranked by is the mean of the price in force at every instant
\* since the first sample of the window, whatever the samples.
THEOREM AverageIsPointwise == TrackerSpec => []TwapIsPointwise
<1>1. HistoryInv => TwapIsPointwise
  <2> SUFFICES ASSUME HistoryInv, NEW b \in Ranked(series), InWindow(series, b)[1].age > 0
               PROVE  Same(TwapMid(InWindow(series, b)),
                           [num |-> Total([a \in 1 .. InWindow(series, b)[1].age |->
                                              InForce(InWindow(series, b), a)]),
                            den |-> InWindow(series, b)[1].age])
    BY DEF TwapIsPointwise
  <2> DEFINE s == InWindow(series, b)
             F == [a \in 1 .. s[1].age |-> InForce(s, a)]
  <2>1. HistoryOk(s) /\ s # <<>>
    BY PruneOk, KeepType DEF InWindow, HistoryInv, Ranked
  <2>2. s[1].age > 0
    OBVIOUS
  <2> HIDE DEF s
  <2>3. s \in Seq(Sample) /\ Len(s) \in Nat /\ Len(s) > 0 /\ s[1].age \in Nat
    <3>1. s \in Seq(Sample) /\ Len(s) \in Nat
      BY <2>1, SampleFields DEF HistoryOk
    <3>2. Len(s) > 0
      BY <2>1, <3>1, EmptySeq
    <3> QED
      BY <3>1, <3>2, SampleFields, KeepType
  <2>4. Total(Times(s)) = s[1].age /\ Total(Weighted(s)) = Total(F)
    BY <2>1, <2>3, AverageIs
  <2> HIDE DEF F
  <2>5. TwapMid(s) = [num |-> Total(F), den |-> s[1].age]
    BY <2>2, <2>3, <2>4 DEF TwapMid
  <2>6. Same(TwapMid(s), [num |-> Total(F), den |-> s[1].age])
    BY <2>5 DEF Same
  <2> QED
    BY <2>6 DEF s, F
<1> QED
  BY <1>1, HistoryHolds, PTL
================================================================================
