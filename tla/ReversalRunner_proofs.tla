------------------------- MODULE ReversalRunner_proofs -------------------------
(***************************************************************************)
(* Theorems about ReversalRunner, for every value of its constants: any    *)
(* number of cities, dates, buckets, crashes and failed saves.             *)
(*                                                                         *)
(* Part I    the operators, and type correctness                           *)
(* Part II   the bound on fires and the markers behind it, and that each   *)
(*           step is one of SessionLifecycle, for a registry left alone    *)
(* Part III  the rows of fires, their legs and what was paid for them.     *)
(*           The record of fires and the ledger need a registry left       *)
(*           alone; the rest holds for any edits of it                     *)
(***************************************************************************)
EXTENDS ReversalRunner, FiniteSetTheorems, TLAPS

-----------------------------------------------------------------------------
(* Operators *)

LEMMA FindBucketType ==
    ASSUME NEW L \in SUBSET Bucket, NEW t
    PROVE  FindBucket(L, t) \in L \cup {None}
  BY DEF FindBucket

\* None is no bucket, so a lookup that did not fail returned a listed one.
LEMMA NoneNotBucket == None \notin Bucket
  BY BucketsAssumption DEF Bucket

LEMMA JumpType ==
    ASSUME NEW L \in SUBSET Bucket, NEW dir, NEW a, NEW b
    PROVE  Jump(L, dir, a, b) \in Int
<1>1. IsFiniteSet(Bucket)
  BY FS_Interval, BucketsAssumption DEF Bucket
<1>2. \A x : BucketIndex(L, x) \in Nat
  <2> SUFFICES ASSUME NEW x PROVE BucketIndex(L, x) \in Nat
    OBVIOUS
  <2>1. {y \in L : y < x} \subseteq Bucket
    OBVIOUS
  <2> QED
    BY <1>1, <2>1, FS_Subset, FS_CardinalityType DEF BucketIndex
<1> QED
  BY <1>2 DEF Jump

LEMMA KeyType ==
    ASSUME NEW k \in Key
    PROVE  k.city \in Cities /\ k.day \in Nat /\ k.dir \in {"high", "low"}
  BY RunnerAssumption DEF Key

LEMMA RunningType ==
    ASSUME TypeOK, NEW k \in Key, HasObs(k)
    PROVE  Running(k) \in Temps /\ obs[k.city].at \in Stamps
<1>1. obs[k.city] \in Observation
  BY KeyType DEF TypeOK, HasObs
<1>2. extreme[k] \in Temps \cup {None}
  BY DEF TypeOK, Memory, StateFile
<1> QED
  BY <1>1, <1>2 DEF Running, Observation

\* Type of the row a fire leaves behind.
LEMMA RunBucketType ==
    ASSUME TypeOK, NEW k \in Key, NEW in \in Inputs(k), Mapped(k, in)
    PROVE  RunBucket(k) \in Bucket /\ in.ref.bucket \in Bucket
<1>1. rules[k] \in SUBSET Bucket
  BY DEF TypeOK
<1>2. RunBucket(k) \in rules[k] \cup {None}
  BY <1>1, FindBucketType DEF RunBucket
<1>3. in.ref \in References(k)
  BY DEF Inputs
<1>4. in.ref.bucket \in rules[k] \cup {None}
  BY <1>1, <1>3, FindBucketType
     DEF References, TafReferences, MarketReferences, NoReference
<1> QED
  BY <1>1, <1>2, <1>4 DEF Mapped

LEMMA NewLegsType ==
    ASSUME TypeOK, NEW k \in Key, NEW in \in Inputs(k), Mapped(k, in),
           NEW kinds \in SUBSET LegKinds, NEW got \in SUBSET LegKinds
    PROVE  NewLegs(k, in, kinds, got) \in Seq(Leg)
<1>1. \A b \in Bucket : NewLeg("NO", b, got) \in Leg /\ NewLeg("YES", b, got) \in Leg
  BY DEF NewLeg, Leg
<1>2. RunBucket(k) \in Bucket /\ in.ref.bucket \in Bucket
  BY RunBucketType
<1> QED
  BY <1>1, <1>2 DEF NewLegs

LEMMA CostType ==
    ASSUME NEW got \in SUBSET LegKinds
    PROVE  Cost(got) \in Nat
<1>1. IsFiniteSet({"NO"})
  BY FS_Singleton
<1>2. IsFiniteSet({"NO"} \cup {"YES"})
  BY <1>1, FS_AddElement
<1>3. got \subseteq {"NO"} \cup {"YES"}
  BY DEF LegKinds
<1>4. Cardinality(got) \in Nat
  BY <1>2, <1>3, FS_Subset, FS_CardinalityType
<1> QED
  BY <1>4, RunnerAssumption DEF Cost

\* The positions of a sequence that satisfy something can be counted.
LEMMA CountInSeq ==
    ASSUME NEW n \in Nat, NEW S \in SUBSET (1 .. n)
    PROVE  Cardinality(S) \in Nat
<1>1. IsFiniteSet(1 .. n)
  BY FS_Interval
<1> QED
  BY <1>1, FS_Subset, FS_CardinalityType

-----------------------------------------------------------------------------
(* Type correctness *)

LEMMA TypeInit == Init => TypeOK
<1> SUFFICES ASSUME Init PROVE TypeOK
  OBVIOUS
<1>1. Memory \in StateFile
  BY DEF Init, Memory, StateFile
<1> QED
  BY <1>1, RunnerAssumption DEF Init, TypeOK, NoReports

\* The strategy sections, the ledger and the history, one by one.
LEMMA MemoryType ==
    Memory \in StateFile <=>
        /\ armed \in SUBSET Key /\ ever \in SUBSET Key
        /\ fired \in [Key -> {"none", "lock", "one", "two"}]
        /\ extreme \in [Key -> Temps \cup {None}]
        /\ lastObs \in [Key -> Stamps \cup {None}]
        /\ lastFire \in [Key -> Stamps \cup {None}]
        /\ pos \in [Key -> Position \cup {None}] /\ debit \in Int
        /\ shots \in [Key -> Seq(Shot)]
  BY DEF Memory, StateFile

LEMMA MemoryTypeNext ==
    Memory' \in StateFile <=>
        /\ armed' \in SUBSET Key /\ ever' \in SUBSET Key
        /\ fired' \in [Key -> {"none", "lock", "one", "two"}]
        /\ extreme' \in [Key -> Temps \cup {None}]
        /\ lastObs' \in [Key -> Stamps \cup {None}]
        /\ lastFire' \in [Key -> Stamps \cup {None}]
        /\ pos' \in [Key -> Position \cup {None}] /\ debit' \in Int
        /\ shots' \in [Key -> Seq(Shot)]
  BY DEF Memory, StateFile

\* A step that touches only the sections, the ledger and the history.
LEMMA TypeOutside ==
    ASSUME TypeOK, Outside, todo' \subseteq todo, Memory' \in StateFile
    PROVE  TypeOK'
  BY DEF TypeOK, Outside, world

LEMMA QuietType ==
    ASSUME TypeOK, Quiet
    PROVE  Memory' \in StateFile
  BY DEF TypeOK, Quiet, Memory, sections, ledger

LEMMA ObserveType ==
    ASSUME TypeOK, NEW k \in Key, HasObs(k), Observe(k)
    PROVE  /\ extreme' \in [Key -> Temps \cup {None}]
           /\ lastObs' \in [Key -> Stamps \cup {None}]
<1>1. Running(k) \in Temps /\ obs[k.city].at \in Stamps
  BY RunningType
<1> QED
  BY <1>1, MemoryType DEF TypeOK, Observe

LEMMA TakeSlotType ==
    ASSUME TypeOK, NEW k \in Key, NEW in \in Inputs(k), MayFire(k, in),
           NEW got \in SUBSET LegKinds, TakeSlot(k, in, got)
    PROVE  /\ armed' \in SUBSET Key /\ ever' \in SUBSET Key
           /\ fired' \in [Key -> {"none", "lock", "one", "two"}]
           /\ extreme' \in [Key -> Temps \cup {None}]
           /\ lastObs' \in [Key -> Stamps \cup {None}]
           /\ lastFire' \in [Key -> Stamps \cup {None}]
           /\ shots' \in [Key -> Seq(Shot)]
<1>1. HasObs(k) /\ Mapped(k, in)
  BY DEF MayFire, CleanBreak, Followed, Admitted
<1>2. Running(k) \in Temps /\ obs[k.city].at \in Stamps
  BY <1>1, RunningType
<1>3. RunBucket(k) \in Bucket /\ in.ref.bucket \in Bucket
  BY <1>1, RunBucketType
<1>4. /\ extreme' \in [Key -> Temps \cup {None}]
      /\ lastObs' \in [Key -> Stamps \cup {None}]
  BY <1>1, ObserveType DEF TakeSlot
<1> DEFINE shot == [at |-> obs[k.city].at, broke |-> in.ref.bucket,
                    into |-> RunBucket(k), filled |-> got # {}]
<1>5. shot \in Shot
  BY <1>2, <1>3 DEF Shot
<1>6. shots' = [shots EXCEPT ![k] = Append(@, shot)]
  BY DEF TakeSlot
<1>7. shots' \in [Key -> Seq(Shot)]
  <2> HIDE DEF shot
  <2> QED BY <1>5, <1>6, MemoryType DEF TypeOK
<1> QED
  BY <1>2, <1>4, <1>7, MemoryType DEF TypeOK, TakeSlot, PopArmed

LEMMA OpenRowType ==
    ASSUME TypeOK, NEW k \in Key, IsOpen(k)
    PROVE  pos[k] \in Position /\ pos[k].legs \in Seq(Leg)
  BY MemoryType DEF TypeOK, IsOpen, Position

LEMMA SellLegType ==
    ASSUME NEW legs \in Seq(Leg), NEW i, NEW bid \in Nat
    PROVE  SellLeg(legs, i, bid) \in Seq(Leg)
<1>1. ASSUME NEW j \in DOMAIN legs
      PROVE  SellLeg(legs, i, bid)[j] \in Leg
  <2>1. legs[j] \in Leg
    BY <1>1
  <2>2. SellLeg(legs, i, bid)[j] \in
            {legs[j], [legs[j] EXCEPT !.st = "closed", !.paid = bid]}
    BY <1>1, Zenon DEF SellLeg
  <2> QED
    BY <2>1, <2>2 DEF Leg
<1>2. Len(legs) \in Nat /\ DOMAIN legs = 1 .. Len(legs)
  OBVIOUS
<1>3. SellLeg(legs, i, bid) = [j \in DOMAIN legs |-> SellLeg(legs, i, bid)[j]]
  BY Zenon DEF SellLeg
<1> QED
  BY <1>1, <1>2, <1>3

LEMMA FireFirstType ==
    ASSUME TypeOK, NEW k \in Key, NEW in \in Inputs(k),
           NEW got \in SUBSET LegKinds, FireFirst(k, in, got)
    PROVE  TypeOK'
<1>1. MayFire(k, in) /\ TakeSlot(k, in, got) /\ Outside /\ todo' \subseteq todo
  BY DEF FireFirst, Fed
<1>2. NewLegs(k, in, LegKinds, got) \in Seq(Leg)
  BY <1>1, NewLegsType DEF MayFire, CleanBreak, Followed
<1>3. pos' \in [Key -> Position \cup {None}]
  BY <1>2, MemoryType DEF FireFirst, TypeOK, Position
<1>4. debit' \in Int
  BY CostType, MemoryType DEF FireFirst, TypeOK
<1>5. Memory' \in StateFile
  BY <1>1, <1>3, <1>4, TakeSlotType, MemoryTypeNext
<1> QED
  BY <1>1, <1>5, TypeOutside

LEMMA FireAgainType ==
    ASSUME TypeOK, NEW k \in Key, NEW in \in Inputs(k),
           NEW got \in SUBSET LegKinds, NEW bid \in Bids, FireAgain(k, in, got, bid)
    PROVE  TypeOK'
<1>1. MayFire(k, in) /\ TakeSlot(k, in, got) /\ Outside /\ todo' \subseteq todo
  BY DEF FireAgain, Fed
<1>2. NewLegs(k, in, got, got) \in Seq(Leg)
  BY <1>1, NewLegsType DEF MayFire, CleanBreak, Followed
<1>3. FiresUsed(k) = 1
  BY <1>1, MemoryType
     DEF FireAgain, MayFire, CleanBreak, Followed, Admitted, Spent, MaxFires, FiresUsed,
         TypeOK
<1>4. IsOpen(k)
  BY <1>1, <1>3 DEF MayFire, CleanBreak, Followed, MayContinue, RefireTarget
<1>5. pos[k] \in Position /\ pos[k].legs \in Seq(Leg)
  BY <1>4, OpenRowType
<1>6. bid \in Nat
  BY RunnerAssumption
<1> DEFINE kept == IF "YES" \in got
                   THEN SellLeg(pos[k].legs, FirstHeldYes(pos[k].legs), bid)
                   ELSE pos[k].legs
<1>7. kept \in Seq(Leg)
  BY <1>5, <1>6, SellLegType
<1>8. pos' = [pos EXCEPT ![k].legs = kept \o NewLegs(k, in, got, got)]
  BY DEF FireAgain
<1>9. pos' \in [Key -> Position \cup {None}]
  <2> HIDE DEF kept
  <2>1. kept \o NewLegs(k, in, got, got) \in Seq(Leg)
    BY <1>2, <1>7
  <2> QED
    BY <1>5, <1>8, <2>1, MemoryType DEF TypeOK, Position
<1>10. debit' \in Int
  <2>1. Cost(got) \in Nat /\ debit \in Int
    BY CostType, MemoryType DEF TypeOK
  <2>2. debit' = debit + Cost(got) - (IF "YES" \in got THEN bid ELSE 0)
    BY DEF FireAgain
  <2> QED
    BY <1>6, <2>1, <2>2
<1>11. Memory' \in StateFile
  BY <1>1, <1>9, <1>10, TakeSlotType, MemoryTypeNext
<1> QED
  BY <1>1, <1>11, TypeOutside

LEMMA SettlePositionType ==
    ASSUME TypeOK, NEW k \in Key, NEW win \in Bucket, NEW resolved,
           SettlePosition(k, win, resolved)
    PROVE  TypeOK'
<1> DEFINE old  == pos[k].legs
           legs == [i \in DOMAIN old |-> SettleLeg(old[i], win, resolved)]
           paid == {i \in DOMAIN old : /\ old[i].st = "open" /\ legs[i].st = "won"
                                       /\ old[i].filled}
<1>1. pos[k] \in Position /\ old \in Seq(Leg)
  BY OpenRowType DEF SettlePosition
<1>2. Len(old) \in Nat /\ DOMAIN old = 1 .. Len(old)
  BY <1>1
<1>3. \A leg \in Leg : SettleLeg(leg, win, resolved) \in Leg
  BY RunnerAssumption DEF SettleLeg, Leg
<1>4. legs \in Seq(Leg)
  BY <1>1, <1>2, <1>3
<1>5. Cardinality(paid) \in Nat
  BY <1>2, CountInSeq
<1>6. /\ pos' = [pos EXCEPT ![k] =
                   [settled |-> \A i \in DOMAIN legs : legs[i].st # "open", legs |-> legs]]
      /\ debit' = debit - Payout * Cardinality(paid)
      /\ UNCHANGED <<world, phase, todo, rules, obs, sections, disk, shots>>
  BY DEF SettlePosition
<1> HIDE DEF legs, paid
<1>7. [settled |-> \A i \in DOMAIN legs : legs[i].st # "open", legs |-> legs] \in Position
  BY <1>4 DEF Position
<1>8. pos' \in [Key -> Position \cup {None}]
  BY <1>6, <1>7, MemoryType DEF TypeOK
<1>9. debit' \in Int
  BY <1>5, <1>6, MemoryType, RunnerAssumption DEF TypeOK
<1>10. Memory' \in StateFile
  BY <1>6, <1>8, <1>9, MemoryType, MemoryTypeNext DEF TypeOK, sections
<1> QED
  BY <1>6, <1>10 DEF TypeOK, world

\* The steps of maybe_arm_or_fire that end without a fire.
LEMMA NoFireType ==
    ASSUME TypeOK, NEW k \in Key, NEW in \in Inputs(k), Admitted(k),
           \/ SkipNoReference(k, in) \/ Arm(k, in) \/ Watch(k, in)
           \/ SkipUntimely(k, in) \/ LockBreak(k, in) \/ SkipDisagreed(k, in)
    PROVE  TypeOK'
<1>1. Fed(k) /\ Observe(k) /\ Outside
  BY DEF SkipNoReference, Arm, Watch, SkipUntimely, LockBreak, SkipDisagreed
<1>2. HasObs(k)
  BY DEF Admitted
<1>3. /\ extreme' \in [Key -> Temps \cup {None}]
      /\ lastObs' \in [Key -> Stamps \cup {None}]
  BY <1>1, <1>2, ObserveType
<1>4. /\ armed' \in SUBSET Key /\ ever' \in SUBSET Key
      /\ fired' \in [Key -> {"none", "lock", "one", "two"}]
      /\ UNCHANGED <<lastFire, ledger, shots>>
  BY MemoryType DEF TypeOK, SkipNoReference, Arm, Watch, SkipUntimely, LockBreak,
                    SkipDisagreed, PopArmed, ledger
<1>5. Memory' \in StateFile
  BY <1>3, <1>4, MemoryType, MemoryTypeNext DEF TypeOK, ledger
<1> QED
  BY <1>1, <1>5, TypeOutside DEF Fed

LEMMA NoPositionType ==
    ASSUME TypeOK, NEW k \in Key, NEW in \in Inputs(k), NEW got \in SUBSET LegKinds,
           StandDown(k, in, got) \/ FireRaises(k, in, got)
    PROVE  TypeOK'
<1>1. MayFire(k, in) /\ TakeSlot(k, in, got) /\ UNCHANGED ledger
  BY DEF StandDown, FireRaises
<1>2. Memory' \in StateFile
  BY <1>1, TakeSlotType, MemoryType, MemoryTypeNext DEF TypeOK, ledger
<1>3. CASE StandDown(k, in, got)
  BY <1>2, <1>3, TypeOutside DEF StandDown, Fed
<1>4. CASE FireRaises(k, in, got)
  BY <1>2, <1>4 DEF FireRaises, TypeOK, world, NoReports
<1> QED
  BY <1>3, <1>4

LEMMA MaybeArmOrFireType ==
    ASSUME TypeOK, NEW k \in Key, MaybeArmOrFire(k)
    PROVE  TypeOK'
<1>1. CASE SkipNoObs(k) \/ SkipSpent(k) \/ SkipRefused(k)
  BY <1>1, QuietType, TypeOutside DEF SkipNoObs, SkipSpent, SkipRefused, Fed
<1>2. CASE LockOpenPosition(k)
  <2>1. Memory' \in StateFile
    BY <1>2, MemoryType, MemoryTypeNext DEF LockOpenPosition, TypeOK, ledger
  <2> QED
    BY <1>2, <2>1, TypeOutside DEF LockOpenPosition, Fed
<1>3. ASSUME Admitted(k), NEW in \in Inputs(k),
             \/ SkipNoReference(k, in) \/ Arm(k, in) \/ Watch(k, in)
             \/ SkipUntimely(k, in) \/ LockBreak(k, in) \/ SkipDisagreed(k, in)
      PROVE  TypeOK'
  BY <1>3, NoFireType
<1>4. ASSUME NEW in \in Inputs(k), NEW got \in SUBSET LegKinds,
             StandDown(k, in, got) \/ FireRaises(k, in, got)
      PROVE  TypeOK'
  BY <1>4, NoPositionType
<1>5. ASSUME NEW in \in Inputs(k), NEW got \in SUBSET LegKinds, FireFirst(k, in, got)
      PROVE  TypeOK'
  BY <1>5, FireFirstType
<1>6. ASSUME NEW in \in Inputs(k), NEW got \in SUBSET LegKinds, NEW bid \in Bids,
             FireAgain(k, in, got, bid)
      PROVE  TypeOK'
  BY <1>6, FireAgainType
<1> QED
  BY <1>1, <1>2, <1>3, <1>4, <1>5, <1>6 DEF MaybeArmOrFire

LEMMA StartCycleType ==
    ASSUME TypeOK, StartCycle
    PROVE  TypeOK'
<1>1. obs' \in [Cities -> Observation \cup {None}]
  BY DEF StartCycle, Reports
<1>2. rules' \in [Key -> SUBSET Bucket]
  <2>1. PICK found \in SUBSET {k \in Key : RuleIsLocalToday(k)} :
             \E L \in [found -> Listings] : RefreshRules(found, L)
    BY DEF StartCycle
  <2>2. PICK L \in [found -> Listings] : RefreshRules(found, L)
    BY <2>1
  <2> QED
    BY <2>2, RunnerAssumption DEF RefreshRules, TypeOK
<1>3. Memory' \in StateFile
  BY MemoryType, MemoryTypeNext DEF StartCycle, PruneStaleSessions, TypeOK, ledger
<1> QED
  BY <1>1, <1>2, <1>3 DEF StartCycle, TypeOK, world

LEMMA CrashType ==
    ASSUME TypeOK, Crash
    PROVE  TypeOK'
<1>1. Memory' \in StateFile
  BY MemoryTypeNext DEF Crash, TypeOK, StateFile
<1> QED
  BY <1>1, RunnerAssumption DEF Crash, TypeOK, NoReports

LEMMA TypeStep == TypeOK /\ [Next]_vars => TypeOK'
<1> SUFFICES ASSUME TypeOK, [Next]_vars PROVE TypeOK'
  OBVIOUS
<1>1. CASE StartCycle
  BY <1>1, StartCycleType
<1>2. ASSUME NEW k \in Key, MaybeArmOrFire(k) PROVE TypeOK'
  BY <1>2, MaybeArmOrFireType
<1>3. CASE SettleMarkets
  <2>1. \E k \in Key, win \in Bucket : \E resolved : SettlePosition(k, win, resolved)
    BY <1>3 DEF SettleMarkets
  <2> QED
    BY <2>1, SettlePositionType
<1>4. CASE EmptyUniverse \/ SaveState \/ CycleError
  <2>1. Memory' \in StateFile
    BY <1>4 DEF EmptyUniverse, SaveState, CycleError, Memory, TypeOK, sections, ledger
  <2> QED
    BY <1>4, <2>1
       DEF EmptyUniverse, SaveState, CycleError, TypeOK, world, NoReports
<1>5. CASE Tick
  <2>1. Memory' \in StateFile
    BY <1>5 DEF Tick, Memory, TypeOK, sections, ledger
  <2> QED
    BY <1>5, <2>1, RunnerAssumption DEF Tick, TypeOK
<1>6. ASSUME NEW K \in SUBSET Cities, EditRegistry(K) PROVE TypeOK'
  <2>1. Memory' \in StateFile
    BY <1>6 DEF EditRegistry, Memory, TypeOK, sections, ledger
  <2> QED
    BY <1>6, <2>1, RunnerAssumption DEF EditRegistry, TypeOK
<1>7. CASE Crash
  BY <1>7, CrashType
<1>8. CASE UNCHANGED vars
  <2>1. Memory' \in StateFile
    BY <1>8 DEF vars, Memory, TypeOK, sections, ledger
  <2> QED
    BY <1>8, <2>1 DEF vars, TypeOK, world
<1> QED
  BY <1>1, <1>2, <1>3, <1>4, <1>5, <1>6, <1>7, <1>8 DEF Next, RunCycle, Environment

\* Type correctness: every section, row and file of a run is of the form TypeOK gives.
THEOREM TypeCorrect == Spec => []TypeOK
  BY TypeInit, TypeStep, PTL DEF Spec

-----------------------------------------------------------------------------
(* Part II: fires, markers and the lifecycle                                 *)

-----------------------------------------------------------------------------
(* The inductive invariant.  It speaks of the memory and of the state file  *)
(* alike, since a crash replaces the one by the other.                      *)

\* The fired marker accounts for the fires on record as long as the session's date
\* is not over; a session of a later date has none.
Accounted(d) == \A k \in Key :
    /\ Len(d.shots[k]) <= 2
    /\ k.day >= Today(k.city) =>
          /\ d.fired[k] \in {"none", "lock"} => Len(d.shots[k]) = 0
          /\ d.fired[k] = "one" => Len(d.shots[k]) <= 1
    /\ k.day > Today(k.city) => Len(d.shots[k]) = 0

OpenIn(d, k) == d.pos[k] # None /\ ~d.pos[k].settled
Marked(d)  == \A k \in Key : OpenIn(d, k) => d.fired[k] \in {"one", "two"}
Unfired(d) == \A k \in d.armed : d.fired[k] = "none"

\* An armed session has been armed, and one of a later date knows nothing yet.
Fresh(d) == /\ d.armed \subseteq d.ever
            /\ \A k \in Key : k.day > Today(k.city) =>
                                k \notin d.ever /\ d.fired[k] = "none"

Sound(d) == Accounted(d) /\ Marked(d) /\ Unfired(d) /\ Fresh(d)

IInv == /\ TypeOK
        /\ known = Cities
        /\ phase = "cycle" => \A k \in todo : IsToday(k)
        /\ Sound(Memory) /\ Sound(disk)

-----------------------------------------------------------------------------

LEMMA SoundMemory ==
    Sound(Memory) <=>
        /\ \A k \in Key :
              /\ Len(shots[k]) <= 2
              /\ k.day >= Today(k.city) =>
                    /\ fired[k] \in {"none", "lock"} => Len(shots[k]) = 0
                    /\ fired[k] = "one" => Len(shots[k]) <= 1
              /\ k.day > Today(k.city) => Len(shots[k]) = 0
        /\ \A k \in Key : IsOpen(k) => fired[k] \in {"one", "two"}
        /\ \A k \in armed : fired[k] = "none"
        /\ armed \subseteq ever
        /\ \A k \in Key : k.day > Today(k.city) => k \notin ever /\ fired[k] = "none"
  BY DEF Sound, Accounted, Marked, Unfired, Fresh, OpenIn, IsOpen, Memory

LEMMA SafetyInit == Init => IInv
<1> SUFFICES ASSUME Init PROVE IInv
  OBVIOUS
<1>1. Sound(Memory)
  BY SoundMemory DEF Init, IsOpen
<1> QED
  BY <1>1, TypeInit DEF Init, IInv, Sound, Accounted, Marked, Unfired, Fresh, OpenIn

LEMMA DaysOnly ==
    ASSUME TypeOK, NEW k \in Key
    PROVE  k.day \in Nat /\ Today(k.city) \in Nat
  BY KeyType, RunnerAssumption DEF TypeOK, Today

\* A step that leaves the clock and the file alone, and the memory but for session k.
LEMMA OneSession ==
    ASSUME IInv, NEW k \in Key,
           UNCHANGED <<clock, known, disk>>, phase = "cycle", todo' \subseteq todo, TypeOK',
           \A j \in Key \ {k} : /\ fired'[j] = fired[j] /\ shots'[j] = shots[j]
                                /\ IsOpen(j)' => IsOpen(j)
                                /\ j \in armed' => j \in armed
                                /\ j \in ever' <=> j \in ever,
           k.day = Today(k.city),
           Len(shots'[k]) <= 2,
           fired'[k] \in {"none", "lock"} => Len(shots'[k]) = 0,
           fired'[k] = "one" => Len(shots'[k]) <= 1,
           IsOpen(k)' => fired'[k] \in {"one", "two"},
           k \in armed' => fired'[k] = "none" /\ k \in ever'
    PROVE  IInv'
<1>1. \A c : Today(c)' = Today(c)
  BY DEF Today
<1>2. \A j \in Key : IsToday(j)' <=> IsToday(j)
  BY <1>1 DEF IsToday
<1>3. armed' \subseteq Key
  BY MemoryTypeNext DEF TypeOK
<1>4. Sound(Memory)'
  <2>1. \A j \in Key : /\ Len(shots'[j]) <= 2
                       /\ j.day >= Today(j.city) =>
                             /\ fired'[j] \in {"none", "lock"} => Len(shots'[j]) = 0
                             /\ fired'[j] = "one" => Len(shots'[j]) <= 1
                       /\ j.day > Today(j.city) => Len(shots'[j]) = 0
    BY SoundMemory, DaysOnly DEF IInv
  <2>2. \A j \in Key : IsOpen(j)' => fired'[j] \in {"one", "two"}
    BY SoundMemory DEF IInv
  <2>3. \A j \in armed' : fired'[j] = "none"
    BY <1>3, SoundMemory DEF IInv
  <2>4. armed' \subseteq ever'
    BY <1>3, SoundMemory DEF IInv
  <2>5. \A j \in Key : j.day > Today(j.city) => j \notin ever' /\ fired'[j] = "none"
    BY SoundMemory, DaysOnly DEF IInv
  <2> QED
    BY <1>1, <2>1, <2>2, <2>3, <2>4, <2>5
       DEF Sound, Accounted, Marked, Unfired, Fresh, OpenIn, IsOpen, Memory
<1>5. Sound(disk)'
  BY <1>1 DEF IInv, Sound, Accounted, Marked, Unfired, Fresh, OpenIn
<1>6. known' = Cities /\ \A j \in todo' : IsToday(j)'
  BY <1>2 DEF IInv, TypeOK
<1> QED
  BY <1>4, <1>5, <1>6 DEF IInv

\* Once the slot is taken the marker says "one" or "two", whatever the window did.
LEMMA SlotSafe ==
    ASSUME IInv, TypeOK', NEW k \in todo, NEW in \in Inputs(k), NEW got,
           MayFire(k, in), TakeSlot(k, in, got), phase = "cycle", todo' \subseteq todo,
           UNCHANGED <<clock, known, disk>>,
           \A j \in Key \ {k} : pos'[j] = pos[j]
    PROVE  IInv'
<1>1. k \in Key /\ k.day = Today(k.city)
  BY DEF IInv, TypeOK, IsToday
<1>2. fired[k] \in {"none", "lock", "one"}
  BY <1>1, MemoryType
     DEF IInv, TypeOK, MayFire, CleanBreak, Followed, Admitted, Spent, FiresUsed, MaxFires
<1>3. /\ fired[k] = "none" => fired'[k] = "one"
      /\ fired[k] # "none" => fired'[k] = "two"
      /\ \A j \in Key \ {k} : fired'[j] = fired[j]
  BY <1>1, <1>2, MemoryType DEF IInv, TypeOK, TakeSlot, FiresUsed
<1>4. /\ \A j \in Key \ {k} : shots'[j] = shots[j]
      /\ \E x : shots'[k] = Append(shots[k], x)
  BY <1>1, MemoryType DEF IInv, TypeOK, TakeSlot
<1>5. Len(shots'[k]) = Len(shots[k]) + 1 /\ Len(shots[k]) \in Nat
  <2>1. shots[k] \in Seq(Shot)
    BY <1>1, MemoryType DEF IInv, TypeOK
  <2> QED
    BY <1>4, <2>1
<1>6. /\ Len(shots[k]) <= 1
      /\ fired[k] = "none" => Len(shots[k]) = 0
  BY <1>1, <1>2, <1>5, SoundMemory, DaysOnly DEF IInv
<1>7. armed' = armed \ {k} /\ ever' = ever \cup {k}
  BY DEF TakeSlot, PopArmed
<1>8. \A j \in Key \ {k} : IsOpen(j)' => IsOpen(j)
  BY DEF IsOpen
<1>9. /\ Len(shots'[k]) <= 2
      /\ fired'[k] = "one" => Len(shots'[k]) <= 1
      /\ fired'[k] \in {"one", "two"}
  BY <1>2, <1>3, <1>5, <1>6
<1> QED
  BY <1>1, <1>3, <1>4, <1>7, <1>8, <1>9, OneSession

LEMMA FireSafe ==
    ASSUME IInv, TypeOK', NEW k \in Key, NEW in \in Inputs(k),
           NEW got \in SUBSET LegKinds,
           \/ StandDown(k, in, got) \/ FireRaises(k, in, got) \/ FireFirst(k, in, got)
           \/ \E bid \in Bids : FireAgain(k, in, got, bid)
    PROVE  IInv'
<1>1. /\ phase = "cycle" /\ k \in todo /\ todo' \subseteq todo
      /\ MayFire(k, in) /\ TakeSlot(k, in, got)
      /\ UNCHANGED <<clock, known, disk>>
  BY DEF StandDown, FireRaises, FireFirst, FireAgain, Fed, Outside, world
<1>2. \A j \in Key \ {k} : pos'[j] = pos[j]
  BY MemoryType DEF StandDown, FireRaises, FireFirst, FireAgain, ledger, IInv, TypeOK
<1> QED
  BY <1>1, <1>2, SlotSafe

LEMMA NoFireSafe ==
    ASSUME IInv, TypeOK', NEW k \in Key, NEW in \in Inputs(k), Admitted(k),
           \/ SkipNoReference(k, in) \/ Arm(k, in) \/ Watch(k, in)
           \/ SkipUntimely(k, in) \/ LockBreak(k, in) \/ SkipDisagreed(k, in)
    PROVE  IInv'
<1>1. /\ phase = "cycle" /\ k \in todo /\ todo' \subseteq todo
      /\ UNCHANGED <<clock, known, disk>> /\ UNCHANGED <<pos, shots>>
  BY DEF SkipNoReference, Arm, Watch, SkipUntimely, LockBreak, SkipDisagreed, Fed,
         Outside, world, ledger
<1>2. k.day = Today(k.city) /\ k.day \in Nat
  BY <1>1, DaysOnly DEF IInv, TypeOK, IsToday
<1>3. fired[k] \in {"none", "lock", "one"}
  BY MemoryType DEF IInv, TypeOK, Admitted, Spent, FiresUsed, MaxFires
<1>4. \A j \in Key : IsOpen(j)' <=> IsOpen(j)
  BY <1>1 DEF IsOpen
<1>5. /\ fired[k] \in {"none", "lock"} => Len(shots[k]) = 0
      /\ fired[k] = "one" => Len(shots[k]) <= 1
      /\ Len(shots[k]) <= 2
      /\ IsOpen(k) => fired[k] \in {"one", "two"}
      /\ k \in armed => fired[k] = "none" /\ k \in ever
  BY <1>2, SoundMemory DEF IInv
<1>6. CASE LockBreak(k, in)
  <2>1. /\ fired' = [fired EXCEPT ![k] = IF @ = "none" THEN "lock" ELSE @]
        /\ armed' = armed \ {k} /\ ever' = ever
    BY <1>6 DEF LockBreak, PopArmed
  <2>2. /\ \A j \in Key \ {k} : fired'[j] = fired[j]
        /\ fired'[k] = IF fired[k] = "none" THEN "lock" ELSE fired[k]
    BY <2>1, MemoryType DEF IInv, TypeOK
  <2> QED
    BY <1>1, <1>2, <1>3, <1>4, <1>5, <2>1, <2>2, OneSession
<1>7. CASE Arm(k, in)
  <2>1. FiresUsed(k) # 1
    <3>1. BreakBy(k, in) \in Int
      BY JumpType DEF IInv, TypeOK, BreakBy
    <3> QED
      BY <1>7, <3>1 DEF Arm, Followed, MayContinue
  <2>2. fired[k] = "none"
    BY <1>3, <2>1 DEF FiresUsed
  <2>3. armed' = armed \cup {k} /\ ever' = ever \cup {k} /\ UNCHANGED fired
    BY <1>7 DEF Arm
  <2> QED
    BY <1>1, <1>2, <1>4, <1>5, <2>2, <2>3, OneSession
<1>8. CASE SkipNoReference(k, in) \/ Watch(k, in) \/ SkipUntimely(k, in) \/ SkipDisagreed(k, in)
  <2>1. armed' \subseteq armed /\ UNCHANGED <<ever, fired>>
    BY <1>8 DEF SkipNoReference, Watch, SkipUntimely, SkipDisagreed
  <2> QED
    BY <1>1, <1>2, <1>4, <1>5, <2>1, OneSession
<1> QED
  BY <1>6, <1>7, <1>8

\* A step that leaves the clock, the registry, the sections and the history alone,
\* opens no row, and feeds no new rule.
LEMMA CalmSafe ==
    ASSUME IInv, TypeOK', UNCHANGED <<clock, known, disk, armed, ever, fired, shots>>,
           phase' = "cycle" => phase = "cycle", todo' \subseteq todo,
           \A k \in Key : IsOpen(k)' => IsOpen(k)
    PROVE  IInv'
<1>1. \A c : Today(c)' = Today(c)
  BY DEF Today
<1>2. Sound(Memory)' /\ Sound(disk)'
  BY <1>1, SoundMemory
     DEF IInv, Sound, Accounted, Marked, Unfired, Fresh, OpenIn, IsOpen, Memory
<1>3. known' = Cities /\ (phase' = "cycle" => \A k \in todo' : IsToday(k)')
  BY <1>1 DEF IInv, TypeOK, IsToday
<1> QED
  BY <1>2, <1>3 DEF IInv

LEMMA MaybeArmOrFireSafe ==
    ASSUME IInv, TypeOK', NEW k \in Key, MaybeArmOrFire(k)
    PROVE  IInv'
<1>1. CASE SkipNoObs(k) \/ SkipSpent(k) \/ SkipRefused(k)
  <2>1. /\ UNCHANGED <<clock, known, disk, armed, ever, fired, shots, pos, phase>>
        /\ todo' \subseteq todo
    BY <1>1 DEF SkipNoObs, SkipSpent, SkipRefused, Fed, Quiet, Outside, world, sections,
                ledger
  <2> QED
    BY <2>1, CalmSafe DEF IsOpen
<1>2. CASE LockOpenPosition(k)
  <2>1. IsOpen(k) /\ fired[k] = "none"
    BY <1>2 DEF LockOpenPosition, UnmarkedOpen
  <2> QED
    BY <2>1, SoundMemory DEF IInv
<1>3. ASSUME Admitted(k), NEW in \in Inputs(k),
             \/ SkipNoReference(k, in) \/ Arm(k, in) \/ Watch(k, in)
             \/ SkipUntimely(k, in) \/ LockBreak(k, in) \/ SkipDisagreed(k, in)
      PROVE  IInv'
  BY <1>3, NoFireSafe
<1>4. ASSUME NEW in \in Inputs(k), NEW got \in SUBSET LegKinds,
             \/ StandDown(k, in, got) \/ FireRaises(k, in, got)
             \/ FireFirst(k, in, got) \/ \E bid \in Bids : FireAgain(k, in, got, bid)
      PROVE  IInv'
  BY <1>4, FireSafe
<1> QED
  BY <1>1, <1>2, <1>3, <1>4 DEF MaybeArmOrFire

\* Prune drops the markers of other dates only, and of none with an open row.
LEMMA StartCycleSafe ==
    ASSUME IInv, TypeOK', StartCycle
    PROVE  IInv'
<1>1. /\ UNCHANGED <<clock, known, disk, pos, shots>>
      /\ known = Cities
  BY DEF StartCycle, world, ledger, IInv
<1>2. \A c : Today(c)' = Today(c)
  BY <1>1 DEF Today
<1>3. \A k \in todo' : IsToday(k)'
  BY <1>2 DEF StartCycle, RuleIsLocalToday, IsToday
<1>4. \A k \in Key : fired'[k] = IF ~IsToday(k) /\ ~IsOpen(k) THEN "none" ELSE fired[k]
  BY <1>1, KeyType DEF StartCycle, PruneStaleSessions, MarkerExpired, Expired
<1>5. \A k \in armed' : k \in armed /\ IsToday(k)
  BY DEF StartCycle, PruneStaleSessions, Expired
<1>6. \A k \in Key : IsOpen(k)' <=> IsOpen(k)
  BY <1>1 DEF IsOpen
<1>7. ASSUME NEW k \in Key
      PROVE  /\ Len(shots'[k]) <= 2
             /\ k.day >= Today(k.city) =>
                   /\ fired'[k] \in {"none", "lock"} => Len(shots'[k]) = 0
                   /\ fired'[k] = "one" => Len(shots'[k]) <= 1
             /\ k.day > Today(k.city) => Len(shots'[k]) = 0
  <2>1. k.day \in Nat /\ Today(k.city) \in Nat
    BY DaysOnly DEF IInv
  <2>2. CASE IsToday(k)
    BY <1>1, <1>4, <2>2, SoundMemory DEF IInv
  <2>3. CASE k.day > Today(k.city)
    BY <1>1, <2>3, SoundMemory DEF IInv
  <2>4. CASE k.day < Today(k.city)
    BY <1>1, <2>1, <2>4, SoundMemory DEF IInv
  <2> QED
    BY <2>1, <2>2, <2>3, <2>4 DEF IsToday
<1>8. \A k \in Key : IsOpen(k)' => fired'[k] \in {"one", "two"}
  BY <1>4, <1>6, SoundMemory DEF IInv
<1>9. \A k \in armed' : fired'[k] = "none"
  BY <1>4, <1>5, SoundMemory, MemoryType DEF IInv, TypeOK
<1>10. /\ armed' \subseteq ever'
       /\ \A k \in Key : k.day > Today(k.city) => k \notin ever' /\ fired'[k] = "none"
  <2>1. armed' \subseteq ever'
    BY SoundMemory DEF IInv, StartCycle, PruneStaleSessions
  <2>2. \A k \in Key : k.day > Today(k.city) => k \notin ever' /\ fired'[k] = "none"
    BY <1>4, SoundMemory DEF IInv, StartCycle, PruneStaleSessions
  <2> QED
    BY <2>1, <2>2
<1>11. Sound(Memory)'
  BY <1>2, <1>7, <1>8, <1>9, <1>10
     DEF Sound, Accounted, Marked, Unfired, Fresh, OpenIn, IsOpen, Memory
<1>12. Sound(disk)'
  BY <1>1, <1>2 DEF IInv, Sound, Accounted, Marked, Unfired, Fresh, OpenIn
<1> QED
  BY <1>1, <1>3, <1>11, <1>12 DEF IInv

\* Local dates only grow, so a later date may become today but today never a later one.
LEMMA TickSafe ==
    ASSUME IInv, TypeOK', Tick
    PROVE  IInv'
<1>1. UNCHANGED <<known, phase, disk, pos, armed, fired, shots>> /\ phase = "idle"
  BY DEF Tick, sections, ledger
<1>2. ASSUME NEW k \in Key
      PROVE  /\ Today(k.city) <= Today(k.city)'
             /\ Today(k.city) \in Nat /\ Today(k.city)' \in Nat /\ k.day \in Nat
  <2>1. clock \in 0 .. MaxClock /\ clock' \in 0 .. MaxClock /\ clock <= clock'
    BY RunnerAssumption DEF Tick, IInv, TypeOK
  <2> QED
    BY <2>1, KeyType, RunnerAssumption DEF Today
<1>3. ASSUME NEW d, d \in StateFile, Accounted(d), Fresh(d)
      PROVE  \A k \in Key :
                /\ Len(d.shots[k]) <= 2
                /\ k.day >= Today(k.city)' =>
                      /\ d.fired[k] \in {"none", "lock"} => Len(d.shots[k]) = 0
                      /\ d.fired[k] = "one" => Len(d.shots[k]) <= 1
                /\ k.day > Today(k.city)' => Len(d.shots[k]) = 0
                /\ k.day > Today(k.city)' => k \notin d.ever /\ d.fired[k] = "none"
  BY <1>2, <1>3 DEF Accounted, Fresh
<1>4. Memory' = Memory
  BY DEF Tick, Memory, sections, ledger
<1>5. Accounted(Memory)' /\ Accounted(disk)' /\ Fresh(Memory)' /\ Fresh(disk)'
  BY <1>1, <1>3, <1>4 DEF Accounted, Fresh, IInv, Sound, TypeOK
<1>6. Sound(Memory)' /\ Sound(disk)'
  BY <1>1, <1>4, <1>5 DEF IInv, Sound, Marked, Unfired, Fresh, OpenIn
<1> QED
  BY <1>1, <1>6 DEF IInv

LEMMA SafetyStep ==
    ASSUME MaxEdits = 0
    PROVE  IInv /\ [Next]_vars => IInv'
<1> SUFFICES ASSUME IInv, [Next]_vars PROVE IInv'
  OBVIOUS
<1>0. TypeOK'
  BY TypeStep DEF IInv
<1>1. CASE StartCycle
  BY <1>0, <1>1, StartCycleSafe
<1>2. ASSUME NEW k \in Key, MaybeArmOrFire(k) PROVE IInv'
  BY <1>0, <1>2, MaybeArmOrFireSafe
<1>3. CASE SettleMarkets
  <2>1. PICK k \in Key : \E win, resolved : SettlePosition(k, win, resolved)
    BY <1>3 DEF SettleMarkets
  <2>2. /\ UNCHANGED <<clock, known, disk, armed, ever, fired, shots, todo, phase>>
        /\ \A j \in Key : IsOpen(j)' => IsOpen(j)
    BY <2>1, MemoryType DEF SettlePosition, world, sections, IsOpen, IInv, TypeOK
  <2> QED
    BY <1>0, <2>2, CalmSafe
<1>4. CASE EmptyUniverse \/ SaveState
  <2>1. /\ disk' = Memory /\ Memory' = Memory
        /\ UNCHANGED <<clock, known>> /\ phase' # "cycle"
    BY <1>4 DEF EmptyUniverse, SaveState, Memory, world, sections, ledger
  <2>2. \A c : Today(c)' = Today(c)
    BY <2>1 DEF Today
  <2>3. Sound(Memory)' /\ Sound(disk)'
    BY <2>1, <2>2 DEF IInv, Sound, Accounted, Marked, Unfired, Fresh, OpenIn
  <2> QED
    BY <1>0, <2>1, <2>2, <2>3 DEF IInv, IsToday
<1>5. CASE CycleError \/ UNCHANGED vars
  <2>1. /\ UNCHANGED <<clock, known, disk, armed, ever, fired, shots, todo, pos>>
        /\ phase' = "cycle" => phase = "cycle"
    BY <1>5 DEF CycleError, vars, world, sections, ledger
  <2> QED
    BY <1>0, <2>1, CalmSafe DEF IsOpen
<1>6. CASE Tick
  BY <1>0, <1>6, TickSafe
<1>7. ASSUME NEW K \in SUBSET Cities, EditRegistry(K) PROVE IInv'
  BY <1>7 DEF EditRegistry, IInv, TypeOK
<1>8. CASE Crash
  <2>1. /\ UNCHANGED <<clock, known, disk>> /\ todo' = {}
        /\ armed' = disk.armed /\ ever' = disk.ever /\ fired' = disk.fired
        /\ pos' = disk.pos /\ shots' = disk.shots
    BY <1>8 DEF Crash
  <2>2. \A c : Today(c)' = Today(c)
    BY <2>1 DEF Today
  <2>3. Sound(Memory)' /\ Sound(disk)'
    BY <2>1, <2>2 DEF IInv, Sound, Accounted, Marked, Unfired, Fresh, OpenIn, Memory
  <2> QED
    BY <1>0, <2>1, <2>3 DEF IInv
<1> QED
  BY <1>1, <1>2, <1>3, <1>4, <1>5, <1>6, <1>7, <1>8 DEF Next, RunCycle, Environment

LEMMA Safety ==
    ASSUME MaxEdits = 0
    PROVE  Spec => []IInv
<1>1. IInv /\ [Next]_vars => IInv'
  BY SafetyStep
<1> QED
  BY <1>1, SafetyInit, PTL DEF Spec

-----------------------------------------------------------------------------
(* What follows *)

\* Whatever the order of cycles, failed saves, crashes, restarts, midnights and
\* prunes, the record of a session never holds a third fire.
THEOREM NoThirdFire ==
    ASSUME MaxEdits = 0
    PROVE  Spec => []AtMostTwoFires
<1>1. IInv => AtMostTwoFires
  BY SoundMemory DEF IInv, AtMostTwoFires
<1> QED
  BY <1>1, Safety, PTL

\* Prune, restarts and locks never part an open position from its fired marker.
THEOREM OpenPositionsKeepMarkers ==
    ASSUME MaxEdits = 0
    PROVE  Spec => []MarkerGuardsPosition
<1>1. IInv => MarkerGuardsPosition
  BY SoundMemory DEF IInv, MarkerGuardsPosition
<1> QED
  BY <1>1, Safety, PTL

\* A session with a fired record is never armed again.
THEOREM NoArmedAfterFire ==
    ASSUME MaxEdits = 0
    PROVE  Spec => []ArmedMeansUnfired
<1>1. IInv => ArmedMeansUnfired
  BY SoundMemory DEF IInv, ArmedMeansUnfired
<1> QED
  BY <1>1, Safety, PTL

-----------------------------------------------------------------------------
(* The runner implements SessionLifecycle, without registry edits: a crash  *)
(* takes each session back to the stage the file has it at.                 *)

Stage(k) == StageIn(k, Memory)

\* The mapping, session by session, once the dates of the session are known.
LEMMA StageOfToday ==
    ASSUME IInv, NEW k \in Key, k.day = Today(k.city)
    PROVE  /\ fired[k] = "none" => Stage(k) = IF k \in armed THEN "armed"
                                              ELSE IF k \in ever THEN "cooled" ELSE "idle"
           /\ fired[k] = "lock" => Stage(k) = "locked"
           /\ fired[k] = "one"  => Stage(k) = "fired"
           /\ fired[k] = "two"  => Stage(k) = "spent"
  BY DaysOnly DEF Stage, StageIn, Memory, IInv

LEMMA InitRefines == Init => Lifecycle!Init
<1> SUFFICES ASSUME Init PROVE Lifecycle!Init
  OBVIOUS
<1>1. \A k \in Key : Stage(k) \in {"idle", "over"}
  BY DEF Init, Stage, StageIn, Memory
<1>2. disk = Memory
  BY DEF Init
<1> QED
  BY <1>1, <1>2 DEF Lifecycle!Init, StageOf, SavedOf, Stage

\* A step that changes the stage of one session at most.
LEMMA OneStage ==
    ASSUME IInv, NEW k \in Key, UNCHANGED clock,
           \A j \in Key \ {k} : /\ fired'[j] = fired[j]
                                /\ j \in armed' <=> j \in armed
                                /\ j \in ever' <=> j \in ever
    PROVE  StageOf' = [StageOf EXCEPT ![k] = Stage(k)']
<1>1. \A j \in Key \ {k} : Stage(j)' = Stage(j)
  BY DEF Stage, StageIn, Memory, Today
<1> QED
  BY <1>1 DEF StageOf, Stage

\* What is known of a session that is being fed.
LEMMA FedToday ==
    ASSUME IInv, NEW k \in Key, phase = "cycle", k \in todo
    PROVE  k.day = Today(k.city)
  BY DEF IInv, IsToday

LEMMA SlotRefines ==
    ASSUME IInv, IInv', NEW k \in Key, NEW in \in Inputs(k), NEW got,
           phase = "cycle", k \in todo, MayFire(k, in), TakeSlot(k, in, got),
           UNCHANGED <<clock, SavedOf>>
    PROVE  Lifecycle!Next
<1>1. k.day = Today(k.city) /\ k.day = Today(k.city)'
  BY FedToday DEF Today
<1>2. StageOf' = [StageOf EXCEPT ![k] = Stage(k)']
  BY OneStage, MemoryType DEF IInv, TypeOK, TakeSlot, PopArmed
<1>3. fired[k] \in {"none", "one"}
  <2>1. fired[k] \in {"none", "lock", "one"}
    BY MemoryType
       DEF IInv, TypeOK, MayFire, CleanBreak, Followed, Admitted, Spent, FiresUsed, MaxFires
  <2>2. fired[k] = "lock" => IsOpen(k)
    BY DEF MayFire, CleanBreak, Followed, MayContinue, FiresUsed, RefireTarget
  <2> QED
    BY <2>1, <2>2, SoundMemory DEF IInv
<1>4. CASE fired[k] = "none"
  <2>1. k \in armed \cup ever
    BY DEF MayFire, CleanBreak, WasArmed
  <2>2. StageOf[k] \in {"armed", "cooled"}
    BY <1>1, <1>4, <2>1, StageOfToday DEF StageOf, Stage
  <2>3. fired'[k] = "one"
    BY <1>4, MemoryType DEF IInv, TypeOK, TakeSlot, FiresUsed
  <2>4. Stage(k)' = "fired"
    BY <1>1, <2>3, DaysOnly DEF Stage, StageIn, Memory, IInv
  <2>5. Lifecycle!Fire(k)
    BY <1>2, <2>2, <2>4 DEF Lifecycle!Fire, Lifecycle!Become
  <2> QED
    BY <2>5 DEF Lifecycle!Next
<1>5. CASE fired[k] = "one"
  <2>1. StageOf[k] = "fired"
    BY <1>1, <1>5, StageOfToday DEF StageOf, Stage
  <2>2. fired'[k] = "two"
    BY <1>5, MemoryType DEF IInv, TypeOK, TakeSlot, FiresUsed
  <2>3. Stage(k)' = "spent"
    BY <1>1, <2>2, DaysOnly DEF Stage, StageIn, Memory, IInv
  <2>4. Lifecycle!Refire(k)
    BY <1>2, <2>1, <2>3 DEF Lifecycle!Refire, Lifecycle!Become
  <2> QED
    BY <2>4 DEF Lifecycle!Next
<1> QED
  BY <1>3, <1>4, <1>5

LEMMA SameStage ==
    ASSUME UNCHANGED <<clock, armed, ever, fired>>
    PROVE  UNCHANGED StageOf
  BY DEF StageOf, StageIn, Memory, Today

LEMMA SameSaved ==
    ASSUME UNCHANGED <<clock, disk>>
    PROVE  UNCHANGED SavedOf
  BY DEF SavedOf, StageIn, Today

LEMMA ArmRefines ==
    ASSUME IInv, IInv', NEW k \in Key, NEW in \in Inputs(k), Admitted(k), Arm(k, in),
           UNCHANGED SavedOf
    PROVE  Lifecycle!Next
<1>1. /\ phase = "cycle" /\ k \in todo /\ UNCHANGED <<clock, fired>>
      /\ armed' = armed \cup {k} /\ ever' = ever \cup {k}
  BY DEF Arm, Fed, Outside, world
<1>2. k.day = Today(k.city) /\ k.day = Today(k.city)'
  BY <1>1, FedToday DEF Today
<1>3. fired[k] = "none" /\ fired'[k] = "none"
  BY <1>1 DEF IInv, Sound, Unfired, Memory
<1>4. StageOf' = [StageOf EXCEPT ![k] = Stage(k)']
  BY <1>1, OneStage
<1>5. StageOf[k] \in {"idle", "armed", "cooled"}
  BY <1>2, <1>3, StageOfToday DEF StageOf, Stage
<1>6. Stage(k)' = "armed"
  BY <1>1, <1>2, <1>3, DaysOnly DEF Stage, StageIn, Memory, IInv
<1>7. Lifecycle!Arm(k)
  BY <1>4, <1>5, <1>6 DEF Lifecycle!Arm, Lifecycle!Become
<1> QED
  BY <1>7 DEF Lifecycle!Next

LEMMA WatchRefines ==
    ASSUME IInv, NEW k \in Key, NEW in \in Inputs(k), Watch(k, in), UNCHANGED SavedOf
    PROVE  Lifecycle!Next \/ UNCHANGED StageOf
<1>1. /\ phase = "cycle" /\ k \in todo /\ UNCHANGED <<clock, fired, ever>>
      /\ armed' = armed \/ armed' = armed \ {k}
  BY DEF Watch, Fed, Outside, world
<1>2. CASE armed' = armed
  BY <1>1, <1>2, SameStage
<1>3. CASE k \in armed /\ armed' = armed \ {k}
  <2>1. k.day = Today(k.city) /\ k.day = Today(k.city)'
    BY <1>1, FedToday DEF Today
  <2>2. fired[k] = "none" /\ k \in ever
    BY <1>3, SoundMemory DEF IInv
  <2>3. StageOf[k] = "armed"
    BY <1>3, <2>1, <2>2, StageOfToday DEF StageOf, Stage
  <2>4. Stage(k)' = "cooled"
    BY <1>1, <1>3, <2>1, <2>2, DaysOnly DEF Stage, StageIn, Memory, IInv
  <2>5. StageOf' = [StageOf EXCEPT ![k] = "cooled"]
    BY <1>1, <1>3, <2>4, OneStage
  <2>6. Lifecycle!Cool({k})
    BY <2>3, <2>5 DEF Lifecycle!Cool, StageOf, Stage
  <2> QED
    BY <2>6 DEF Lifecycle!Next
<1> QED
  BY <1>1, <1>2, <1>3

LEMMA LockRefines ==
    ASSUME IInv, NEW k \in Key, NEW in \in Inputs(k), Admitted(k), LockBreak(k, in),
           UNCHANGED SavedOf
    PROVE  Lifecycle!Next \/ UNCHANGED StageOf
<1>1. /\ phase = "cycle" /\ k \in todo /\ UNCHANGED <<clock, ever>>
      /\ fired' = [fired EXCEPT ![k] = IF @ = "none" THEN "lock" ELSE @]
      /\ armed' = armed \ {k}
  BY DEF LockBreak, PopArmed, Fed, Outside, world
<1>2. k.day = Today(k.city) /\ k.day = Today(k.city)'
  BY <1>1, FedToday DEF Today
<1>3. CASE fired[k] = "none"
  <2>1. StageOf' = [StageOf EXCEPT ![k] = Stage(k)']
    BY <1>1, OneStage, MemoryType DEF IInv, TypeOK
  <2>2. StageOf[k] \in {"idle", "armed", "cooled"}
    BY <1>2, <1>3, StageOfToday DEF StageOf, Stage
  <2>3. fired'[k] = "lock"
    BY <1>1, <1>3, MemoryType DEF IInv, TypeOK
  <2>4. Stage(k)' = "locked"
    BY <1>2, <2>3, DaysOnly DEF Stage, StageIn, Memory, IInv
  <2>5. Lifecycle!Lock(k)
    BY <2>1, <2>2, <2>4 DEF Lifecycle!Lock, Lifecycle!Become
  <2> QED
    BY <2>5 DEF Lifecycle!Next
<1>4. CASE fired[k] # "none"
  <2>1. k \notin armed
    BY <1>4, SoundMemory DEF IInv
  <2>2. fired' = fired
    BY <1>1, <1>4, MemoryType DEF IInv, TypeOK
  <2> QED
    BY <1>1, <2>1, <2>2, SameStage
<1> QED
  BY <1>3, <1>4

LEMMA MaybeArmOrFireRefines ==
    ASSUME IInv, IInv', NEW k \in Key, MaybeArmOrFire(k), UNCHANGED SavedOf
    PROVE  Lifecycle!Next \/ UNCHANGED StageOf
<1>1. CASE SkipNoObs(k) \/ SkipSpent(k) \/ SkipRefused(k)
  BY <1>1, SameStage
     DEF SkipNoObs, SkipSpent, SkipRefused, Quiet, Outside, world, sections
<1>2. ~LockOpenPosition(k)
  BY SoundMemory DEF IInv, LockOpenPosition, UnmarkedOpen
<1>3. ASSUME NEW in \in Inputs(k), Admitted(k), Arm(k, in)
      PROVE  Lifecycle!Next
  BY <1>3, ArmRefines
<1>4. ASSUME NEW in \in Inputs(k), Admitted(k), Watch(k, in) \/ LockBreak(k, in)
      PROVE  Lifecycle!Next \/ UNCHANGED StageOf
  BY <1>4, WatchRefines, LockRefines
<1>5. ASSUME NEW in \in Inputs(k),
             SkipNoReference(k, in) \/ SkipUntimely(k, in) \/ SkipDisagreed(k, in)
      PROVE  UNCHANGED StageOf
  BY <1>5, SameStage DEF SkipNoReference, SkipUntimely, SkipDisagreed, Outside, world
<1>6. ASSUME NEW in \in Inputs(k), NEW got \in SUBSET LegKinds,
             \/ StandDown(k, in, got) \/ FireRaises(k, in, got)
             \/ FireFirst(k, in, got) \/ \E bid \in Bids : FireAgain(k, in, got, bid)
      PROVE  Lifecycle!Next
  <2>1. /\ phase = "cycle" /\ k \in todo /\ MayFire(k, in) /\ TakeSlot(k, in, got)
        /\ UNCHANGED clock
    BY <1>6 DEF StandDown, FireRaises, FireFirst, FireAgain, Fed, Outside, world
  <2> QED
    BY <2>1, SlotRefines
<1> QED
  BY <1>1, <1>2, <1>3, <1>4, <1>5, <1>6 DEF MaybeArmOrFire

\* Feeding a session does not write the file.
LEMMA FeedKeepsFile ==
    ASSUME NEW k \in Key, MaybeArmOrFire(k)
    PROVE  UNCHANGED <<clock, disk>>
  BY DEF MaybeArmOrFire, SkipNoObs, SkipSpent, LockOpenPosition, SkipRefused, SkipNoReference,
         Arm, Watch, SkipUntimely, LockBreak, SkipDisagreed, StandDown, FireRaises, FireFirst,
         FireAgain, Outside, world

\* Prune cools the armed sessions whose window has closed; what it takes from other
\* dates does not show.
LEMMA StartCycleRefines ==
    ASSUME IInv, IInv', StartCycle, UNCHANGED SavedOf
    PROVE  Lifecycle!Next
<1> DEFINE D == {k \in Key : IsToday(k) /\ k \in armed \ armed'}
<1>1. /\ UNCHANGED <<clock, known, pos>> /\ known = Cities
      /\ armed' \subseteq armed
      /\ \A k \in Key : IsToday(k) => /\ fired'[k] = fired[k]
                                      /\ k \in ever' <=> k \in ever
  BY KeyType DEF StartCycle, PruneStaleSessions, MarkerExpired, Expired, world, ledger, IInv
<1>2. \A c : Today(c)' = Today(c)
  BY <1>1 DEF Today
<1>3. ASSUME NEW k \in D PROVE Stage(k) = "armed" /\ Stage(k)' = "cooled"
  <2>1. fired[k] = "none" /\ k \in ever /\ k \in armed
    BY SoundMemory DEF IInv
  <2>2. fired'[k] = "none" /\ k \in ever' /\ k \notin armed'
    BY <1>1, <2>1
  <2> QED
    BY <1>2, <2>1, <2>2, DaysOnly DEF Stage, StageIn, Memory, IInv, IsToday
<1>4. ASSUME NEW k \in Key \ D PROVE Stage(k)' = Stage(k)
  <2>1. k.day \in Nat /\ Today(k.city) \in Nat
    BY DaysOnly DEF IInv
  <2>2. CASE IsToday(k)
    BY <1>1, <1>2, <2>2 DEF Stage, StageIn, Memory
  <2>3. CASE k.day < Today(k.city)
    BY <1>2, <2>3 DEF Stage, StageIn, Memory
  <2>4. CASE k.day > Today(k.city)
    <3>1. fired[k] = "none" /\ k \notin ever /\ k \notin armed
      BY <2>4, SoundMemory DEF IInv
    <3>2. fired'[k] = "none" /\ k \notin ever' /\ k \notin armed'
      BY <1>2, <2>4 DEF IInv, Sound, Fresh, Memory
    <3> QED
      BY <1>2, <3>1, <3>2 DEF Stage, StageIn, Memory
  <2> QED
    BY <2>1, <2>2, <2>3, <2>4 DEF IsToday
<1>5. Lifecycle!Cool(D)
  BY <1>3, <1>4 DEF Lifecycle!Cool, StageOf, Stage
<1> QED
  BY <1>5 DEF Lifecycle!Next

\* A day that ends does so in the file as well.
LEMMA TickRefines ==
    ASSUME IInv, Tick
    PROVE  Lifecycle!Next
<1> DEFINE D == {k \in Key : k.day < Today(k.city)'}
<1>1. UNCHANGED <<armed, ever, fired, disk>>
  BY DEF Tick, sections
<1>2. ASSUME NEW k \in Key
      PROVE  /\ Today(k.city) <= Today(k.city)'
             /\ Today(k.city) \in Nat /\ Today(k.city)' \in Nat /\ k.day \in Nat
  <2>1. clock \in 0 .. MaxClock /\ clock' \in 0 .. MaxClock /\ clock <= clock'
    BY RunnerAssumption DEF Tick, IInv, TypeOK
  <2> QED
    BY <2>1, KeyType, RunnerAssumption DEF Today
<1>3. \A k \in D : StageIn(k, Memory)' = "over" /\ StageIn(k, disk)' = "over"
  BY DEF StageIn
<1>4. ASSUME NEW k \in Key \ D
      PROVE  StageIn(k, Memory)' = StageIn(k, Memory) /\ StageIn(k, disk)' = StageIn(k, disk)
  <2>1. ~(k.day < Today(k.city)) /\ ~(k.day < Today(k.city)')
    BY <1>2
  <2> QED
    BY <1>1, <2>1 DEF StageIn, Memory
<1>5. StageOf' = Lifecycle!Ended(StageOf, D) /\ SavedOf' = Lifecycle!Ended(SavedOf, D)
  BY <1>3, <1>4 DEF Lifecycle!Ended, StageOf, SavedOf
<1> HIDE DEF D
<1>6. Lifecycle!Rollover(D)
  BY <1>5 DEF Lifecycle!Rollover
<1>7. D \in SUBSET Key
  BY DEF D
<1> QED
  BY <1>6, <1>7 DEF Lifecycle!Next

\* A save is a save, that of a cycle without a market too, and a crash a restart.
LEMMA FileRefines ==
    ASSUME SaveState \/ EmptyUniverse \/ Crash
    PROVE  Lifecycle!Next
<1>1. CASE SaveState \/ EmptyUniverse
  <2>1. disk' = Memory /\ UNCHANGED <<clock, armed, ever, fired>>
    BY <1>1 DEF SaveState, EmptyUniverse, world, sections
  <2>2. \A k \in Key : StageIn(k, disk)' = StageIn(k, Memory)
    BY <2>1 DEF StageIn, Today
  <2>3. SavedOf' = StageOf /\ UNCHANGED StageOf
    BY <2>1, <2>2, SameStage DEF SavedOf, StageOf
  <2> QED
    BY <2>3 DEF Lifecycle!Next, Lifecycle!Save
<1>2. CASE Crash
  <2>1. /\ UNCHANGED <<clock, disk>>
        /\ armed' = disk.armed /\ ever' = disk.ever /\ fired' = disk.fired
    BY <1>2 DEF Crash
  <2>2. \A k \in Key : StageIn(k, Memory)' = StageIn(k, disk)
    BY <2>1 DEF StageIn, Today, Memory
  <2>3. StageOf' = SavedOf /\ UNCHANGED SavedOf
    BY <2>1, <2>2, SameSaved DEF SavedOf, StageOf
  <2> QED
    BY <2>3 DEF Lifecycle!Next, Lifecycle!Restart
<1> QED
  BY <1>1, <1>2

LEMMA StepRefines ==
    ASSUME MaxEdits = 0
    PROVE  IInv /\ IInv' /\ [Next]_vars => [Lifecycle!Next]_<<StageOf, SavedOf>>
<1> SUFFICES ASSUME IInv, IInv', [Next]_vars
             PROVE  Lifecycle!Next \/ UNCHANGED <<StageOf, SavedOf>>
  OBVIOUS
<1>1. CASE StartCycle
  <2>1. UNCHANGED SavedOf
    BY <1>1, SameSaved DEF StartCycle, world
  <2> QED
    BY <1>1, <2>1, StartCycleRefines
<1>2. ASSUME NEW k \in Key, MaybeArmOrFire(k)
      PROVE  Lifecycle!Next \/ UNCHANGED <<StageOf, SavedOf>>
  <2>1. UNCHANGED SavedOf
    BY <1>2, FeedKeepsFile, SameSaved
  <2> QED
    BY <1>2, <2>1, MaybeArmOrFireRefines
<1>3. CASE SettleMarkets \/ CycleError \/ UNCHANGED vars
  <2>1. UNCHANGED <<clock, disk, armed, ever, fired>>
    BY <1>3 DEF SettleMarkets, SettlePosition, CycleError, vars, world, sections
  <2> QED
    BY <2>1, SameStage, SameSaved
<1>4. CASE Tick
  BY <1>4, TickRefines
<1>5. ~ \E K \in SUBSET Cities : EditRegistry(K)
  BY DEF EditRegistry, IInv, TypeOK
<1>6. CASE SaveState \/ EmptyUniverse \/ Crash
  BY <1>6, FileRefines
<1> QED
  BY <1>1, <1>2, <1>3, <1>4, <1>5, <1>6 DEF Next, RunCycle, Environment

\* Every step of the runner is, for each session, one of the few SessionLifecycle
\* knows: no fire without having armed, no fire after a lock, one further fire at
\* most, nothing once the date is over; a save puts all sessions on record at once, and
\* nothing but a restart, to what was last saved, takes one back.
THEOREM RunnerImplementsLifecycle ==
    ASSUME MaxEdits = 0
    PROVE  Spec => ImplementsLifecycle
<1>1. IInv /\ IInv' /\ [Next]_vars => [Lifecycle!Next]_<<StageOf, SavedOf>>
  BY StepRefines
<1>2. Spec => []IInv
  BY Safety
<1> QED
  BY <1>1, <1>2, InitRefines, PTL DEF Spec, ImplementsLifecycle, Lifecycle!Spec

-----------------------------------------------------------------------------
(* Part III: rows and the ledger                                             *)

-----------------------------------------------------------------------------
(* The row of a session, for any edits of the registry: what the fires of   *)
(* an open row have bought and what its marker says of them.                *)

YesLegs(legs) == {i \in DOMAIN legs : legs[i].out = "YES"}

\* One YES is held at most; a row whose marker says "one" carries the YES of one fire,
\* and one whose marker counts no fire belongs to a session that can no longer fire,
\* since prune unarms what it unmarks and a lock is never armed.
Row(d, k) == OpenIn(d, k) =>
    /\ \A i, j \in HeldYes(d.pos[k].legs) : i = j
    /\ Cardinality(YesLegs(d.pos[k].legs)) <= 2
    /\ d.fired[k] = "one" => \A i, j \in YesLegs(d.pos[k].legs) : i = j
    /\ d.fired[k] \in {"none", "lock"} => k \notin d.armed \cup d.ever

RowInv == TypeOK /\ \A k \in Key : Row(Memory, k) /\ Row(disk, k)

\* The legs "new" are the legs "old" after some of them were sold or settled.
SameLegs(new, old) ==
    /\ DOMAIN new = DOMAIN old
    /\ HeldYes(new) \subseteq HeldYes(old)
    /\ \A i \in DOMAIN old : new[i].out = old[i].out /\ new[i].bucket = old[i].bucket

LEMMA AtMostOne ==
    ASSUME NEW S, NEW a, S \subseteq {a}
    PROVE  IsFiniteSet(S) /\ Cardinality(S) <= 1
<1>1. IsFiniteSet({a}) /\ Cardinality({a}) = 1
  BY FS_Singleton
<1> QED
  BY <1>1, FS_Subset, FS_CardinalityType

LEMMA AtMostTwo ==
    ASSUME NEW S, NEW a, NEW b, S \subseteq {a, b}
    PROVE  Cardinality(S) <= 2
<1>1. IsFiniteSet({b}) /\ Cardinality({b}) = 1
  BY FS_Singleton
<1>2. IsFiniteSet({b} \cup {a}) /\ Cardinality({b} \cup {a}) \in {1, 2}
  BY <1>1, FS_AddElement
<1>3. S \subseteq {b} \cup {a}
  OBVIOUS
<1> QED
  BY <1>2, <1>3, FS_Subset, FS_CardinalityType

\* The legs of a window: at most one NO and one YES, the YES on the bucket just entered.
LEMMA NewLegsShape ==
    ASSUME NEW k, NEW in, NEW kinds \in SUBSET LegKinds, NEW got
    PROVE  \E n \in 0 .. 2 :
             LET s == NewLegs(k, in, kinds, got)
             IN  /\ DOMAIN s = 1 .. n /\ Len(s) = n
                 /\ \A i \in 1 .. n : /\ s[i].out \in kinds /\ s[i].st = "open"
                                      /\ s[i].paid = 0
                                      /\ s[i].filled <=> s[i].out \in got
                                      /\ s[i].out = "YES" => i = n /\ s[i].bucket = RunBucket(k)
<1> DEFINE no == NewLeg("NO", in.ref.bucket, got)
           yes == NewLeg("YES", RunBucket(k), got)
<1>1. /\ no.out = "NO" /\ no.st = "open" /\ no.paid = 0 /\ (no.filled <=> "NO" \in got)
      /\ yes.out = "YES" /\ yes.st = "open" /\ yes.paid = 0 /\ (yes.filled <=> "YES" \in got)
      /\ yes.bucket = RunBucket(k)
  BY DEF NewLeg
<1>2. NewLegs(k, in, kinds, got) = (IF "NO" \in kinds THEN <<no>> ELSE <<>>)
                                      \o (IF "YES" \in kinds THEN <<yes>> ELSE <<>>)
  BY DEF NewLegs
<1> HIDE DEF no, yes
<1>0. /\ <<no>> \o <<>> = <<no>>
      /\ <<>> \o <<yes>> = <<yes>>
      /\ <<>> \o <<>> = <<>>
  OBVIOUS
<1>3. CASE "NO" \in kinds /\ "YES" \in kinds
  <2> DEFINE s == <<no>> \o <<yes>>
  <2>1. Len(s) = 2 /\ DOMAIN s = 1 .. 2 /\ s[1] = no /\ s[2] = yes
    <3>1. <<no>> \in Seq({no, yes}) /\ <<yes>> \in Seq({no, yes})
      OBVIOUS
    <3> QED
      BY <3>1
  <2> QED
    BY <1>0, <1>1, <1>2, <1>3, <2>1
<1>4. CASE "NO" \in kinds /\ "YES" \notin kinds
  <2> DEFINE s == <<no>>
  <2>1. Len(s) = 1 /\ DOMAIN s = 1 .. 1 /\ s[1] = no
    OBVIOUS
  <2> QED
    BY <1>0, <1>1, <1>2, <1>4, <2>1
<1>5. CASE "NO" \notin kinds /\ "YES" \in kinds
  <2> DEFINE s == <<yes>>
  <2>1. Len(s) = 1 /\ DOMAIN s = 1 .. 1 /\ s[1] = yes
    OBVIOUS
  <2> QED
    BY <1>0, <1>1, <1>2, <1>5, <2>1
<1>6. CASE "NO" \notin kinds /\ "YES" \notin kinds
  BY <1>0, <1>2, <1>6
<1> QED
  BY <1>3, <1>4, <1>5, <1>6

LEMMA SoldLegs ==
    ASSUME NEW legs \in Seq(Leg), NEW i \in DOMAIN legs, NEW bid
    PROVE  /\ DOMAIN SellLeg(legs, i, bid) = DOMAIN legs
           /\ Len(SellLeg(legs, i, bid)) = Len(legs)
           /\ \A j \in DOMAIN legs : /\ SellLeg(legs, i, bid)[j].out = legs[j].out
                                     /\ SellLeg(legs, i, bid)[j].bucket = legs[j].bucket
                                     /\ SellLeg(legs, i, bid)[j].filled = legs[j].filled
                                     /\ j # i => SellLeg(legs, i, bid)[j] = legs[j]
           /\ SellLeg(legs, i, bid)[i].st = "closed" /\ SellLeg(legs, i, bid)[i].paid = bid
<1>1. SellLeg(legs, i, bid) = [legs EXCEPT ![i] = [legs[i] EXCEPT !.st = "closed", !.paid = bid]]
  BY Zenon DEF SellLeg
<1>2. legs[i] \in Leg
  OBVIOUS
<1>3. [legs[i] EXCEPT !.st = "closed", !.paid = bid]
        = [out |-> legs[i].out, bucket |-> legs[i].bucket, filled |-> legs[i].filled,
           st |-> "closed", paid |-> bid]
  <2>1. legs[i] = [out |-> legs[i].out, bucket |-> legs[i].bucket, filled |-> legs[i].filled,
                   st |-> legs[i].st, paid |-> legs[i].paid]
    BY <1>2 DEF Leg
  <2>2. [legs[i] EXCEPT !.st = "closed"]
          = [out |-> legs[i].out, bucket |-> legs[i].bucket, filled |-> legs[i].filled,
             st |-> "closed", paid |-> legs[i].paid]
    BY <2>1
  <2>3. [legs[i] EXCEPT !.st = "closed", !.paid = bid]
          = [[out |-> legs[i].out, bucket |-> legs[i].bucket, filled |-> legs[i].filled,
              st |-> "closed", paid |-> legs[i].paid] EXCEPT !.paid = bid]
    BY <2>2, Zenon
  <2>4. [[out |-> legs[i].out, bucket |-> legs[i].bucket, filled |-> legs[i].filled,
          st |-> "closed", paid |-> legs[i].paid] EXCEPT !.paid = bid]
          = [out |-> legs[i].out, bucket |-> legs[i].bucket, filled |-> legs[i].filled,
             st |-> "closed", paid |-> bid]
    OBVIOUS
  <2> QED
    BY <2>3, <2>4, Zenon
<1> DEFINE sold == [legs[i] EXCEPT !.st = "closed", !.paid = bid]
<1>4. sold.out = legs[i].out /\ sold.bucket = legs[i].bucket /\ sold.filled = legs[i].filled
      /\ sold.st = "closed" /\ sold.paid = bid
  BY <1>3
<1> HIDE DEF sold
<1>5. SellLeg(legs, i, bid) = [legs EXCEPT ![i] = sold]
  BY <1>1 DEF sold
<1>6. /\ DOMAIN [legs EXCEPT ![i] = sold] = DOMAIN legs
      /\ [legs EXCEPT ![i] = sold] \in [1 .. Len(legs) -> Leg \cup {sold}]
      /\ [legs EXCEPT ![i] = sold][i] = sold
      /\ \A j \in DOMAIN legs : j # i => [legs EXCEPT ![i] = sold][j] = legs[j]
  OBVIOUS
<1>7. Len([legs EXCEPT ![i] = sold]) = Len(legs)
  BY <1>6
<1>8. [legs[i] EXCEPT !.st = "closed", !.paid = bid] = sold
  BY DEF sold
<1> QED
  BY <1>4, <1>5, <1>6, <1>7, <1>8

\* A step that fires nothing in session k: its row changes by sale and settlement only,
\* and a marker that counts no fire leaves it unarmed.
LEMMA RowKept ==
    ASSUME NEW d, NEW e, NEW k, Row(d, k),
           OpenIn(e, k) => OpenIn(d, k) /\ SameLegs(e.pos[k].legs, d.pos[k].legs),
           OpenIn(e, k) => /\ e.fired[k] = "one" => d.fired[k] = "one"
                           /\ e.fired[k] \in {"none", "lock"} => k \notin e.armed \cup e.ever
    PROVE  Row(e, k)
<1> SUFFICES ASSUME OpenIn(e, k) PROVE Row(e, k)
  BY DEF Row
<1>1. OpenIn(d, k) /\ SameLegs(e.pos[k].legs, d.pos[k].legs)
  OBVIOUS
<1>2. YesLegs(e.pos[k].legs) = YesLegs(d.pos[k].legs)
  BY <1>1 DEF SameLegs, YesLegs
<1> QED
  BY <1>1, <1>2 DEF Row, SameLegs

LEMMA SettledLegs ==
    ASSUME NEW legs, NEW win, NEW resolved
    PROVE  SameLegs([i \in DOMAIN legs |-> SettleLeg(legs[i], win, resolved)], legs)
<1> DEFINE new == [i \in DOMAIN legs |-> SettleLeg(legs[i], win, resolved)]
<1>1. DOMAIN new = DOMAIN legs
  OBVIOUS
<1>2. ASSUME NEW i \in DOMAIN legs
      PROVE  /\ new[i].out = legs[i].out /\ new[i].bucket = legs[i].bucket
             /\ new[i].filled = legs[i].filled
             /\ new[i].st = "open" => legs[i].st = "open"
  <2>1. new[i] = SettleLeg(legs[i], win, resolved)
    OBVIOUS
  <2> QED
    BY <2>1 DEF SettleLeg
<1> HIDE DEF new
<1> QED
  BY <1>1, <1>2 DEF SameLegs, HeldYes, new

LEMMA SaleIsFirstHeld ==
    ASSUME NEW legs \in Seq(Leg), HeldYes(legs) # {}, \A i, j \in HeldYes(legs) : i = j
    PROVE  FirstHeldYes(legs) \in HeldYes(legs)
<1>1. PICK i \in HeldYes(legs) : TRUE
  OBVIOUS
<1>2. i \in Nat
  BY DEF HeldYes
<1>3. \A j \in HeldYes(legs) : i <= j
  BY <1>1, <1>2
<1> QED
  BY <1>1, <1>3 DEF FirstHeldYes

\* What a fire adds to a row: its YES, if any, is the last leg.
LEMMA AddedLegs ==
    ASSUME NEW kept \in Seq(Leg), NEW k, NEW in, NEW got \in SUBSET LegKinds,
           NewLegs(k, in, got, got) \in Seq(Leg)
    PROVE  \E last \in Nat :
             LET new == kept \o NewLegs(k, in, got, got)
             IN  /\ \A i \in DOMAIN new : i \notin DOMAIN kept =>
                       /\ new[i].out \in got
                       /\ new[i].out = "YES" => i = last /\ new[i].bucket = RunBucket(k)
                 /\ \A i \in DOMAIN kept : i \in DOMAIN new /\ new[i] = kept[i]
<1> DEFINE s == NewLegs(k, in, got, got)
<1>1. PICK n \in 0 .. 2 :
           /\ DOMAIN s = 1 .. n /\ Len(s) = n
           /\ \A i \in 1 .. n : /\ s[i].out \in got
                                /\ s[i].out = "YES" => i = n /\ s[i].bucket = RunBucket(k)
  BY NewLegsShape
<1> HIDE DEF s
<1>2. s \in Seq(Leg)
  BY DEF s
<1>3. /\ Len(kept) \in Nat /\ DOMAIN kept = 1 .. Len(kept)
      /\ DOMAIN (kept \o s) = 1 .. (Len(kept) + n)
      /\ \A i \in 1 .. Len(kept) : (kept \o s)[i] = kept[i]
      /\ \A i \in (Len(kept) + 1) .. (Len(kept) + n) : (kept \o s)[i] = s[i - Len(kept)]
  BY <1>1, <1>2
<1>4. ASSUME NEW i \in DOMAIN (kept \o s), i \notin DOMAIN kept
      PROVE  /\ (kept \o s)[i].out \in got
             /\ (kept \o s)[i].out = "YES" =>
                   i = Len(kept) + n /\ (kept \o s)[i].bucket = RunBucket(k)
  <2>1. i - Len(kept) \in 1 .. n /\ (kept \o s)[i] = s[i - Len(kept)]
    BY <1>3, <1>4
  <2> QED
    BY <1>1, <1>3, <2>1
<1>5. \A i \in DOMAIN kept : i \in DOMAIN (kept \o s) /\ (kept \o s)[i] = kept[i]
  BY <1>3
<1>6. Len(kept) + n \in Nat
  BY <1>3
<1> QED
  BY <1>4, <1>5, <1>6 DEF s

\* A row whose last sale left no YES held, if a new one is to join it.
LEMMA JoinedLegs ==
    ASSUME NEW kept \in Seq(Leg), NEW k, NEW in, NEW got \in SUBSET LegKinds,
           NewLegs(k, in, got, got) \in Seq(Leg), NEW y,
           "YES" \in got => HeldYes(kept) = {},
           \A i, j \in HeldYes(kept) : i = j,
           YesLegs(kept) \subseteq {y}
    PROVE  LET new == kept \o NewLegs(k, in, got, got)
           IN  /\ \A i, j \in HeldYes(new) : i = j
               /\ Cardinality(YesLegs(new)) <= 2
<1> DEFINE new == kept \o NewLegs(k, in, got, got)
<1>1. PICK last \in Nat :
          /\ \A i \in DOMAIN new : i \notin DOMAIN kept =>
                       /\ new[i].out \in got
                       /\ new[i].out = "YES" => i = last /\ new[i].bucket = RunBucket(k)
          /\ \A i \in DOMAIN kept : i \in DOMAIN new /\ new[i] = kept[i]
  BY AddedLegs
<1> HIDE DEF new
<1>2. \A i \in HeldYes(new) : i \in HeldYes(kept) \/ (i = last /\ "YES" \in got)
  BY <1>1 DEF HeldYes
<1>3. \A i, j \in HeldYes(new) : i = j
  BY <1>2
<1>4. YesLegs(new) \subseteq {y, last}
  BY <1>1 DEF YesLegs
<1> QED
  BY <1>3, <1>4, AtMostTwo DEF new

\* A second fire sells the YES held before it adds its own.
LEMMA FireAgainLegs ==
    ASSUME NEW old \in Seq(Leg), NEW k, NEW in, NEW got \in SUBSET LegKinds, NEW bid \in Nat,
           NewLegs(k, in, got, got) \in Seq(Leg),
           HeldYes(old) # {}, \A i, j \in HeldYes(old) : i = j,
           \A i, j \in YesLegs(old) : i = j
    PROVE  LET kept == IF "YES" \in got THEN SellLeg(old, FirstHeldYes(old), bid) ELSE old
               new  == kept \o NewLegs(k, in, got, got)
           IN  /\ \A i, j \in HeldYes(new) : i = j
               /\ Cardinality(YesLegs(new)) <= 2
<1>1. PICK y : y = FirstHeldYes(old)
  OBVIOUS
<1>2. y \in HeldYes(old) /\ y \in DOMAIN old /\ YesLegs(old) \subseteq {y}
  BY <1>1, SaleIsFirstHeld DEF HeldYes, YesLegs
<1>3. CASE "YES" \in got
  <2>1. PICK kept : kept = SellLeg(old, y, bid)
    OBVIOUS
  <2>2. /\ DOMAIN kept = DOMAIN old
        /\ \A i \in DOMAIN old : kept[i].out = old[i].out /\ (i # y => kept[i] = old[i])
        /\ kept[y].st = "closed"
    BY <1>2, <2>1, SoldLegs
  <2>3. HeldYes(kept) = {} /\ YesLegs(kept) \subseteq {y}
    BY <1>2, <2>2 DEF HeldYes, YesLegs
  <2>4. kept \in Seq(Leg)
    BY <2>1, SellLegType
  <2> QED
    BY <1>1, <1>3, <2>1, <2>3, <2>4, JoinedLegs
<1>4. CASE "YES" \notin got
  BY <1>2, <1>4, JoinedLegs
<1> QED
  BY <1>3, <1>4

\* The row of a first fire.
LEMMA FireFirstLegs ==
    ASSUME NEW k, NEW in, NEW got
    PROVE  LET new == NewLegs(k, in, LegKinds, got)
           IN  /\ \A i, j \in HeldYes(new) : i = j
               /\ \A i, j \in YesLegs(new) : i = j
               /\ Cardinality(YesLegs(new)) <= 2
               /\ \A i \in HeldYes(new) : got # {} /\ new[i].bucket = RunBucket(k)
<1> DEFINE new == NewLegs(k, in, LegKinds, got)
<1>1. PICK n \in 0 .. 2 :
           /\ DOMAIN new = 1 .. n
           /\ \A i \in 1 .. n : /\ new[i].filled <=> new[i].out \in got
                                /\ new[i].out = "YES" => i = n /\ new[i].bucket = RunBucket(k)
  BY NewLegsShape
<1> HIDE DEF new
<1>2. YesLegs(new) \subseteq {n}
  BY <1>1 DEF YesLegs
<1>3. Cardinality(YesLegs(new)) <= 2
  BY <1>2, AtMostTwo, {n} = {n, n}
<1>4. HeldYes(new) \subseteq {n}
  BY <1>1 DEF HeldYes
<1>5. \A i \in HeldYes(new) : got # {} /\ new[i].bucket = RunBucket(k)
  BY <1>1 DEF HeldYes
<1> QED
  BY <1>2, <1>3, <1>4, <1>5 DEF new

LEMMA RowMemory ==
    \A k \in Key : Row(Memory, k) <=>
        (IsOpen(k) =>
            /\ \A i, j \in HeldYes(pos[k].legs) : i = j
            /\ Cardinality(YesLegs(pos[k].legs)) <= 2
            /\ fired[k] = "one" => \A i, j \in YesLegs(pos[k].legs) : i = j
            /\ fired[k] \in {"none", "lock"} => k \notin armed \cup ever)
  BY DEF Row, OpenIn, IsOpen, Memory

LEMMA RowMemoryNext ==
    \A k \in Key : Row(Memory, k)' <=>
        (IsOpen(k)' =>
            /\ \A i, j \in HeldYes(pos'[k].legs) : i = j
            /\ Cardinality(YesLegs(pos'[k].legs)) <= 2
            /\ fired'[k] = "one" => \A i, j \in YesLegs(pos'[k].legs) : i = j
            /\ fired'[k] \in {"none", "lock"} => k \notin armed' \cup ever')
  BY DEF Row, OpenIn, IsOpen, Memory, HeldYes, YesLegs

LEMMA RowInit == Init => RowInv
<1> SUFFICES ASSUME Init PROVE RowInv
  OBVIOUS
<1>1. \A k \in Key : ~OpenIn(Memory, k) /\ disk = Memory
  BY DEF Init, OpenIn, Memory
<1> QED
  BY <1>1, TypeInit DEF RowInv, Row

\* A step that leaves every row but that of session k as it was.
LEMMA OneRow ==
    ASSUME RowInv, TypeOK', NEW k \in Key, disk' = disk,
           \A j \in Key \ {k} : /\ pos'[j] = pos[j] /\ fired'[j] = fired[j]
                                /\ j \in armed' \cup ever' => j \in armed \cup ever,
           Row(Memory, k)'
    PROVE  RowInv'
<1>1. ASSUME NEW j \in Key, j # k PROVE Row(Memory, j)'
  <2>1. Row(Memory, j)
    BY DEF RowInv
  <2>2. /\ IsOpen(j)' <=> IsOpen(j)
        /\ pos'[j] = pos[j] /\ fired'[j] = fired[j]
        /\ j \in armed' \cup ever' => j \in armed \cup ever
    BY <1>1 DEF IsOpen
  <2> QED
    BY <1>1, <2>1, <2>2, RowMemory, RowMemoryNext
<1>2. \A j \in Key : Row(disk, j)'
  BY DEF RowInv
<1> QED
  BY <1>1, <1>2 DEF RowInv

\* A step that changes no row and can only take sessions out of reach.
LEMMA CalmRows ==
    ASSUME RowInv, TypeOK', UNCHANGED <<pos, disk>>,
           \A k \in Key : /\ k \in armed' \cup ever' => k \in armed \cup ever
                          /\ \/ fired'[k] = fired[k]
                             \/ k \notin armed' \cup ever' /\ fired'[k] # "one"
    PROVE  RowInv'
<1>1. ASSUME NEW k \in Key PROVE Row(Memory, k)'
  <2>1. Row(Memory, k)
    BY DEF RowInv
  <2>2. (IsOpen(k)' <=> IsOpen(k)) /\ pos'[k] = pos[k]
    BY DEF IsOpen
  <2> QED
    BY <2>1, <2>2, RowMemory, RowMemoryNext
<1>2. \A k \in Key : Row(disk, k)'
  BY DEF RowInv
<1> QED
  BY <1>1, <1>2 DEF RowInv

\* What a session that may fire has behind it: an open row bears its fire.
LEMMA FiringRow ==
    ASSUME RowInv, NEW k \in Key, NEW in \in Inputs(k), MayFire(k, in)
    PROVE  /\ fired[k] \in {"none", "lock", "one"}
           /\ IsOpen(k) => fired[k] = "one"
           /\ fired[k] # "none" => IsOpen(k) /\ fired[k] = "one"
           /\ fired[k] # "none" => HeldYes(pos[k].legs) # {}
<1>1. fired[k] \in {"none", "lock", "one"}
  BY MemoryType
     DEF RowInv, TypeOK, MayFire, CleanBreak, Followed, Admitted, Spent, FiresUsed, MaxFires
<1>2. /\ ~(fired[k] = "none" /\ IsOpen(k))
      /\ k \in armed \cup ever
      /\ fired[k] # "none" => RefireTarget(k, RunBucket(k))
  BY <1>1 DEF MayFire, CleanBreak, Followed, Admitted, UnmarkedOpen, WasArmed,
              MayContinue, FiresUsed
<1>3. IsOpen(k) => fired[k] \notin {"none", "lock"}
  BY <1>2, RowMemory DEF RowInv
<1> QED
  BY <1>1, <1>2, <1>3 DEF RefireTarget

LEMMA SlotMarker ==
    ASSUME TypeOK, NEW k \in Key, NEW in, NEW got, TakeSlot(k, in, got)
    PROVE  /\ fired[k] = "none" => fired'[k] = "one"
           /\ fired[k] \in {"lock", "one"} => fired'[k] = "two"
           /\ \A j \in Key \ {k} : /\ fired'[j] = fired[j]
                                   /\ j \in armed' \cup ever' => j \in armed \cup ever
  BY MemoryType DEF TypeOK, TakeSlot, FiresUsed, PopArmed

LEMMA FireFirstRow ==
    ASSUME RowInv, TypeOK', NEW k \in Key, NEW in \in Inputs(k),
           NEW got \in SUBSET LegKinds, FireFirst(k, in, got)
    PROVE  RowInv'
<1>1. MayFire(k, in) /\ TakeSlot(k, in, got) /\ disk' = disk /\ FiresUsed(k) = 0
  BY DEF FireFirst, Outside
<1>2. fired[k] = "none" /\ ~IsOpen(k)
  BY <1>1, FiringRow DEF FiresUsed
<1>3. fired'[k] = "one"
  BY <1>1, <1>2, SlotMarker DEF RowInv
<1>4. pos' = [pos EXCEPT ![k] = [settled |-> FALSE, legs |-> NewLegs(k, in, LegKinds, got)]]
  BY <1>2 DEF FireFirst
<1>5. pos'[k].legs = NewLegs(k, in, LegKinds, got) /\ \A j \in Key \ {k} : pos'[j] = pos[j]
  BY <1>4, MemoryType DEF RowInv, TypeOK
<1>6. Row(Memory, k)'
  BY <1>3, <1>5, FireFirstLegs, RowMemoryNext
<1> QED
  BY <1>1, <1>5, <1>6, OneRow, SlotMarker DEF RowInv

LEMMA FireAgainRow ==
    ASSUME RowInv, TypeOK', NEW k \in Key, NEW in \in Inputs(k),
           NEW got \in SUBSET LegKinds, NEW bid \in Bids, FireAgain(k, in, got, bid)
    PROVE  RowInv'
<1> DEFINE old  == pos[k].legs
           kept == IF "YES" \in got THEN SellLeg(old, FirstHeldYes(old), bid) ELSE old
           new  == kept \o NewLegs(k, in, got, got)
<1>1. MayFire(k, in) /\ TakeSlot(k, in, got) /\ disk' = disk /\ FiresUsed(k) >= 1
  BY DEF FireAgain, Outside
<1>2. fired[k] = "one" /\ IsOpen(k) /\ HeldYes(old) # {}
  BY <1>1, FiringRow DEF FiresUsed
<1>3. fired'[k] = "two"
  BY <1>1, <1>2, SlotMarker DEF RowInv
<1>4. pos' = [pos EXCEPT ![k].legs = new]
  BY DEF FireAgain
<1>5. pos[k] \in Position /\ old \in Seq(Leg) /\ bid \in Nat
  BY <1>2, OpenRowType, RunnerAssumption DEF RowInv
<1>6. NewLegs(k, in, got, got) \in Seq(Leg)
  BY <1>1, NewLegsType DEF MayFire, CleanBreak, Followed, RowInv
<1>7. /\ \A i, j \in HeldYes(old) : i = j
      /\ \A i, j \in YesLegs(old) : i = j
  BY <1>2, RowMemory DEF RowInv
<1>8. /\ \A i, j \in HeldYes(new) : i = j
      /\ Cardinality(YesLegs(new)) <= 2
  BY <1>2, <1>5, <1>6, <1>7, FireAgainLegs
<1> HIDE DEF new
<1>9. pos'[k].legs = new /\ \A j \in Key \ {k} : pos'[j] = pos[j]
  BY <1>4, <1>5, MemoryType DEF RowInv, TypeOK, Position
<1>10. Row(Memory, k)'
  BY <1>3, <1>8, <1>9, RowMemoryNext
<1> QED
  BY <1>1, <1>9, <1>10, OneRow, SlotMarker DEF RowInv

LEMMA MaybeArmOrFireRow ==
    ASSUME RowInv, TypeOK', NEW k \in Key, MaybeArmOrFire(k)
    PROVE  RowInv'
<1>1. CASE SkipNoObs(k) \/ SkipSpent(k) \/ SkipRefused(k)
  BY <1>1, CalmRows
     DEF SkipNoObs, SkipSpent, SkipRefused, Quiet, Outside, sections, ledger
<1>2. CASE LockOpenPosition(k)
  <2>1. IsOpen(k) /\ fired[k] = "none"
    BY <1>2 DEF LockOpenPosition, UnmarkedOpen
  <2>2. k \notin armed \cup ever
    BY <2>1, RowMemory DEF RowInv
  <2>3. /\ UNCHANGED <<pos, disk, armed, ever>>
        /\ fired'[k] = "lock" /\ \A j \in Key \ {k} : fired'[j] = fired[j]
    BY <1>2, MemoryType DEF LockOpenPosition, Outside, ledger, RowInv, TypeOK
  <2> QED
    BY <2>2, <2>3, CalmRows
<1>3. ASSUME Admitted(k), NEW in \in Inputs(k), Arm(k, in)
      PROVE  RowInv'
  <2>1. FiresUsed(k) # 1
    <3>1. BreakBy(k, in) \in Int
      BY JumpType DEF RowInv, TypeOK, BreakBy
    <3> QED
      BY <1>3, <3>1 DEF Arm, Followed, MayContinue
  <2>2. fired[k] = "none" /\ ~IsOpen(k)
    BY <1>3, <2>1, MemoryType
       DEF RowInv, TypeOK, Admitted, Spent, FiresUsed, MaxFires, UnmarkedOpen
  <2>3. /\ UNCHANGED <<pos, disk, fired>> /\ ~IsOpen(k)'
        /\ armed' = armed \cup {k} /\ ever' = ever \cup {k}
    BY <1>3, <2>2 DEF Arm, Outside, ledger, IsOpen
  <2>4. Row(Memory, k)'
    BY <2>3, RowMemoryNext
  <2> QED
    BY <2>3, <2>4, OneRow
<1>4. ASSUME Admitted(k), NEW in \in Inputs(k), LockBreak(k, in)
      PROVE  RowInv'
  <2>1. /\ UNCHANGED <<pos, disk, ever>> /\ armed' = armed \ {k}
        /\ \A j \in Key \ {k} : fired'[j] = fired[j]
        /\ fired[k] # "none" => fired'[k] = fired[k]
    BY <1>4, MemoryType DEF LockBreak, PopArmed, Outside, ledger, RowInv, TypeOK
  <2>2. CASE fired[k] = "none"
    <3>1. ~IsOpen(k)'
      BY <1>4, <2>1, <2>2 DEF Admitted, UnmarkedOpen, IsOpen
    <3>2. Row(Memory, k)'
      BY <3>1, RowMemoryNext
    <3> QED
      BY <2>1, <3>2, OneRow
  <2>3. CASE fired[k] # "none"
    BY <2>1, <2>3, CalmRows
  <2> QED
    BY <2>2, <2>3
<1>5. ASSUME NEW in \in Inputs(k),
             SkipNoReference(k, in) \/ Watch(k, in) \/ SkipUntimely(k, in) \/ SkipDisagreed(k, in)
      PROVE  RowInv'
  <2>1. UNCHANGED <<pos, disk, fired, ever>> /\ armed' \subseteq armed
    BY <1>5 DEF SkipNoReference, Watch, SkipUntimely, SkipDisagreed, Outside, ledger
  <2> QED
    BY <2>1, CalmRows
<1>6. ASSUME NEW in \in Inputs(k), NEW got \in SUBSET LegKinds,
             StandDown(k, in, got) \/ FireRaises(k, in, got)
      PROVE  RowInv'
  <2>1. MayFire(k, in) /\ TakeSlot(k, in, got) /\ UNCHANGED <<pos, disk>>
    BY <1>6 DEF StandDown, FireRaises, Outside, ledger
  <2>2. IsOpen(k)' => IsOpen(k) /\ fired[k] = "one" /\ fired'[k] = "two"
    BY <2>1, FiringRow, SlotMarker DEF IsOpen, RowInv
  <2>3. Row(Memory, k)
    BY DEF RowInv
  <2>4. Row(Memory, k)'
    BY <2>1, <2>2, <2>3, RowMemory, RowMemoryNext
  <2> QED
    BY <2>1, <2>4, OneRow, SlotMarker DEF RowInv
<1>7. ASSUME NEW in \in Inputs(k), NEW got \in SUBSET LegKinds, FireFirst(k, in, got)
      PROVE  RowInv'
  BY <1>7, FireFirstRow
<1>8. ASSUME NEW in \in Inputs(k), NEW got \in SUBSET LegKinds, NEW bid \in Bids,
             FireAgain(k, in, got, bid)
      PROVE  RowInv'
  BY <1>8, FireAgainRow
<1> QED
  BY <1>1, <1>2, <1>3, <1>4, <1>5, <1>6, <1>7, <1>8 DEF MaybeArmOrFire

\* Prune may drop the marker of an open row whose city is gone; it unarms it too.
LEMMA StartCycleRow ==
    ASSUME RowInv, TypeOK', StartCycle
    PROVE  RowInv'
<1>1. UNCHANGED <<pos, disk>>
  BY DEF StartCycle, ledger
<1>2. ASSUME NEW k \in Key
      PROVE  /\ k \in armed' \cup ever' => k \in armed \cup ever /\ ~Expired(k)
             /\ fired'[k] = IF MarkerExpired(k) THEN "none" ELSE fired[k]
  BY DEF StartCycle, PruneStaleSessions
<1>3. \A k \in Key : MarkerExpired(k) => Expired(k)
  BY DEF MarkerExpired
<1> QED
  BY <1>1, <1>2, <1>3, CalmRows

LEMMA SettleRow ==
    ASSUME RowInv, TypeOK', NEW k \in Key, NEW win, NEW resolved,
           SettlePosition(k, win, resolved)
    PROVE  RowInv'
<1> DEFINE old  == pos[k].legs
           legs == [i \in DOMAIN old |-> SettleLeg(old[i], win, resolved)]
           over == \A i \in DOMAIN legs : legs[i].st # "open"
<1>1. /\ pos' = [pos EXCEPT ![k] = [settled |-> over, legs |-> legs]]
      /\ UNCHANGED <<disk, fired, armed, ever>> /\ IsOpen(k)
  BY DEF SettlePosition, sections
<1>2. SameLegs(legs, old)
  BY SettledLegs
<1> HIDE DEF legs, over
<1>3. pos'[k].legs = legs /\ \A j \in Key \ {k} : pos'[j] = pos[j]
  BY <1>1, MemoryType DEF RowInv, TypeOK
<1>4. HeldYes(legs) \subseteq HeldYes(old) /\ YesLegs(legs) = YesLegs(old)
  BY <1>2 DEF SameLegs, YesLegs
<1>5. Row(Memory, k)
  BY DEF RowInv
<1>6. Row(Memory, k)'
  BY <1>1, <1>3, <1>4, <1>5, RowMemory, RowMemoryNext
<1> QED
  BY <1>1, <1>3, <1>6, OneRow

LEMMA RowStep == RowInv /\ [Next]_vars => RowInv'
<1> SUFFICES ASSUME RowInv, [Next]_vars PROVE RowInv'
  OBVIOUS
<1>0. TypeOK'
  BY TypeStep DEF RowInv
<1>1. CASE StartCycle
  BY <1>0, <1>1, StartCycleRow
<1>2. ASSUME NEW k \in Key, MaybeArmOrFire(k) PROVE RowInv'
  BY <1>0, <1>2, MaybeArmOrFireRow
<1>3. CASE SettleMarkets
  BY <1>0, <1>3, SettleRow DEF SettleMarkets
<1>4. CASE EmptyUniverse \/ SaveState
  <2>1. disk' = Memory /\ Memory' = Memory
    BY <1>4 DEF EmptyUniverse, SaveState, Memory, sections, ledger
  <2> QED
    BY <1>0, <2>1 DEF RowInv
<1>5. CASE CycleError \/ Tick \/ (\E K \in SUBSET Cities : EditRegistry(K)) \/ UNCHANGED vars
  <2>1. UNCHANGED <<Memory, disk>>
    BY <1>5 DEF CycleError, Tick, EditRegistry, vars, Memory, sections, ledger
  <2> QED
    BY <1>0, <2>1 DEF RowInv
<1>6. CASE Crash
  <2>1. Memory' = disk /\ disk' = disk
    BY <1>6 DEF Crash, Memory, RowInv, TypeOK, StateFile
  <2> QED
    BY <1>0, <2>1 DEF RowInv
<1> QED
  BY <1>1, <1>2, <1>3, <1>4, <1>5, <1>6 DEF Next, RunCycle, Environment

LEMMA RowSafety == Spec => []RowInv
  BY RowInit, RowStep, PTL DEF Spec

\* Whatever the registry loses and regains, a row carries the YES legs of two fires at
\* the most: a session that prune emptied can fire again only once its row has closed.
THEOREM RowsHoldTwoFires == Spec => []RowHoldsTwoFires
<1>1. RowInv => RowHoldsTwoFires
  BY RowMemory DEF RowInv, RowHoldsTwoFires, YesLegs
<1> QED
  BY <1>1, RowSafety, PTL

\* A re-fire that buys YES has sold the YES it replaces: never two at once.
THEOREM OneYesAtATime == Spec => []OneHeldYes
<1>1. ASSUME RowInv, NEW k \in Key, IsOpen(k)
      PROVE  Cardinality(HeldYes(pos[k].legs)) <= 1
  <2>1. \A i, j \in HeldYes(pos[k].legs) : i = j
    BY <1>1, RowMemory DEF RowInv
  <2>2. CASE HeldYes(pos[k].legs) = {}
    BY <2>2, AtMostOne
  <2>3. CASE HeldYes(pos[k].legs) # {}
    <3>1. PICK i \in HeldYes(pos[k].legs) : TRUE
      BY <2>3
    <3> QED
      BY <2>1, <3>1, AtMostOne
  <2> QED
    BY <2>2, <2>3
<1>2. RowInv => OneHeldYes
  BY <1>1 DEF OneHeldYes
<1> QED
  BY <1>2, RowSafety, PTL

-----------------------------------------------------------------------------
(* The record of fires against the row and the marker, when the registry is *)
(* left alone.                                                              *)

\* Until its date is over the marker "one" stands for one fire on record, whose stamp
\* is the lock on the observation; the YES still held of a single fire is the one that
\* fire bought; and a second fire went past the first on another observation.
History(d, k, today) ==
    LET s == d.shots[k]
    IN  /\ k.day >= today =>
              /\ d.fired[k] = "one" => Len(s) = 1
              /\ Len(s) = 1 => d.lastFire[k] = s[1].at
        /\ OpenIn(d, k) /\ Len(s) = 1 =>
              \A i \in HeldYes(d.pos[k].legs) :
                  s[1].filled /\ d.pos[k].legs[i].bucket = s[1].into
        /\ Len(s) = 2 => /\ s[1].at # s[2].at /\ s[1].filled
                         /\ Beyond(k.dir, s[2].into, s[1].into)

HistoryInv == /\ IInv /\ RowInv
              /\ \A k \in Key : /\ History(Memory, k, Today(k.city))
                                /\ History(disk, k, Today(k.city))

LEMMA HistoryMemory ==
    \A k \in Key : History(Memory, k, Today(k.city)) <=>
        /\ k.day >= Today(k.city) =>
              /\ fired[k] = "one" => Len(shots[k]) = 1
              /\ Len(shots[k]) = 1 => lastFire[k] = shots[k][1].at
        /\ IsOpen(k) /\ Len(shots[k]) = 1 =>
              \A i \in HeldYes(pos[k].legs) :
                  shots[k][1].filled /\ pos[k].legs[i].bucket = shots[k][1].into
        /\ Len(shots[k]) = 2 =>
              /\ shots[k][1].at # shots[k][2].at /\ shots[k][1].filled
              /\ Beyond(k.dir, shots[k][2].into, shots[k][1].into)
  BY DEF History, OpenIn, IsOpen, Memory

LEMMA HistoryMemoryNext ==
    \A k \in Key : History(Memory, k, Today(k.city))' <=>
        /\ k.day >= Today(k.city)' =>
              /\ fired'[k] = "one" => Len(shots'[k]) = 1
              /\ Len(shots'[k]) = 1 => lastFire'[k] = shots'[k][1].at
        /\ IsOpen(k)' /\ Len(shots'[k]) = 1 =>
              \A i \in HeldYes(pos'[k].legs) :
                  shots'[k][1].filled /\ pos'[k].legs[i].bucket = shots'[k][1].into
        /\ Len(shots'[k]) = 2 =>
              /\ shots'[k][1].at # shots'[k][2].at /\ shots'[k][1].filled
              /\ Beyond(k.dir, shots'[k][2].into, shots'[k][1].into)
  BY DEF History, OpenIn, IsOpen, Memory, HeldYes

LEMMA HistoryInit == Init => HistoryInv
<1> SUFFICES ASSUME Init PROVE HistoryInv
  OBVIOUS
<1>1. IInv /\ RowInv
  BY SafetyInit, RowInit
<1>2. \A k \in Key : History(Memory, k, Today(k.city)) /\ disk = Memory
  BY HistoryMemory DEF Init, IsOpen
<1> QED
  BY <1>1, <1>2 DEF HistoryInv

\* A step that leaves the record of fires alone, sells and opens nothing, and whose
\* markers stay what they are or stop counting a fire.
LEMMA CalmHistory ==
    ASSUME HistoryInv, IInv', RowInv', UNCHANGED <<clock, disk, shots>>,
           \A k \in Key :
              /\ fired'[k] = "one" => fired[k] = "one"
              /\ lastFire'[k] = lastFire[k] \/ k.day # Today(k.city)
              /\ IsOpen(k)' => IsOpen(k) /\ SameLegs(pos'[k].legs, pos[k].legs)
    PROVE  HistoryInv'
<1>1. \A c : Today(c)' = Today(c)
  BY DEF Today
<1>2. ASSUME NEW k \in Key PROVE History(Memory, k, Today(k.city))'
  <2>1. History(Memory, k, Today(k.city))
    BY DEF HistoryInv
  <2>2. k.day > Today(k.city) => Len(shots[k]) = 0
    BY SoundMemory DEF HistoryInv, IInv
  <2>3. k.day \in Nat /\ Today(k.city) \in Nat
    BY DaysOnly DEF HistoryInv, IInv
  <2>4. IsOpen(k)' => \A i \in HeldYes(pos'[k].legs) :
                         i \in HeldYes(pos[k].legs) /\ pos'[k].legs[i].bucket = pos[k].legs[i].bucket
    BY DEF SameLegs, HeldYes
  <2>5. k.day >= Today(k.city) =>
              /\ fired'[k] = "one" => Len(shots'[k]) = 1
              /\ Len(shots'[k]) = 1 => lastFire'[k] = shots'[k][1].at
    BY <2>1, <2>2, <2>3, HistoryMemory
  <2>6. IsOpen(k)' /\ Len(shots'[k]) = 1 =>
              \A i \in HeldYes(pos'[k].legs) :
                  shots'[k][1].filled /\ pos'[k].legs[i].bucket = shots'[k][1].into
    BY <2>1, <2>4, HistoryMemory
  <2>7. Len(shots'[k]) = 2 =>
              /\ shots'[k][1].at # shots'[k][2].at /\ shots'[k][1].filled
              /\ Beyond(k.dir, shots'[k][2].into, shots'[k][1].into)
    BY <2>1, HistoryMemory
  <2> QED
    BY <1>1, <2>5, <2>6, <2>7, HistoryMemoryNext
<1>3. \A k \in Key : History(disk, k, Today(k.city))'
  BY <1>1 DEF HistoryInv
<1> QED
  BY <1>2, <1>3 DEF HistoryInv

\* A step that fires in session k only.
LEMMA OneHistory ==
    ASSUME HistoryInv, IInv', RowInv', NEW k \in Key, UNCHANGED <<clock, disk>>,
           \A j \in Key \ {k} : /\ pos'[j] = pos[j] /\ fired'[j] = fired[j]
                                /\ shots'[j] = shots[j] /\ lastFire'[j] = lastFire[j],
           History(Memory, k, Today(k.city))'
    PROVE  HistoryInv'
<1>1. \A c : Today(c)' = Today(c)
  BY DEF Today
<1>2. ASSUME NEW j \in Key, j # k PROVE History(Memory, j, Today(j.city))'
  <2>1. History(Memory, j, Today(j.city))
    BY DEF HistoryInv
  <2>2. /\ IsOpen(j)' <=> IsOpen(j)
        /\ pos'[j] = pos[j] /\ fired'[j] = fired[j]
        /\ shots'[j] = shots[j] /\ lastFire'[j] = lastFire[j]
    BY <1>2 DEF IsOpen
  <2>3. j.day >= Today(j.city) =>
              /\ fired[j] = "one" => Len(shots[j]) = 1
              /\ Len(shots[j]) = 1 => lastFire[j] = shots[j][1].at
    BY <2>1, HistoryMemory
  <2>4. /\ IsOpen(j) /\ Len(shots[j]) = 1 =>
              \A i \in HeldYes(pos[j].legs) :
                  shots[j][1].filled /\ pos[j].legs[i].bucket = shots[j][1].into
        /\ Len(shots[j]) = 2 =>
              /\ shots[j][1].at # shots[j][2].at /\ shots[j][1].filled
              /\ Beyond(j.dir, shots[j][2].into, shots[j][1].into)
    BY <2>1, HistoryMemory
  <2>5. j.day >= Today(j.city)' =>
              /\ fired'[j] = "one" => Len(shots'[j]) = 1
              /\ Len(shots'[j]) = 1 => lastFire'[j] = shots'[j][1].at
    BY <1>1, <2>2, <2>3
  <2>6. /\ IsOpen(j)' /\ Len(shots'[j]) = 1 =>
              \A i \in HeldYes(pos'[j].legs) :
                  shots'[j][1].filled /\ pos'[j].legs[i].bucket = shots'[j][1].into
        /\ Len(shots'[j]) = 2 =>
              /\ shots'[j][1].at # shots'[j][2].at /\ shots'[j][1].filled
              /\ Beyond(j.dir, shots'[j][2].into, shots'[j][1].into)
    BY <2>2, <2>4
  <2> QED
    BY <2>5, <2>6, HistoryMemoryNext
<1>3. \A j \in Key : History(disk, j, Today(j.city))'
  BY <1>1 DEF HistoryInv
<1> QED
  BY <1>2, <1>3 DEF HistoryInv

\* What a slot leaves in the history of its session.
LEMMA SlotHistory ==
    ASSUME HistoryInv, NEW k \in todo, NEW in \in Inputs(k), NEW got \in SUBSET LegKinds,
           MayFire(k, in), TakeSlot(k, in, got), phase = "cycle"
    PROVE  /\ k \in Key /\ k.day = Today(k.city)
           /\ fired[k] = "none" =>
                 /\ fired'[k] = "one" /\ Len(shots'[k]) = 1 /\ ~IsOpen(k)
                 /\ shots'[k][1].at = obs[k.city].at /\ lastFire'[k] = obs[k.city].at
                 /\ shots'[k][1].into = RunBucket(k) /\ (shots'[k][1].filled <=> got # {})
           /\ fired[k] # "none" =>
                 /\ fired'[k] = "two" /\ Len(shots'[k]) = 2
                 /\ shots'[k][1].at # shots'[k][2].at /\ shots'[k][1].filled
                 /\ Beyond(k.dir, shots'[k][2].into, shots'[k][1].into)
           /\ \A j \in Key \ {k} : /\ fired'[j] = fired[j] /\ shots'[j] = shots[j]
                                   /\ lastFire'[j] = lastFire[j]
<1>1. k \in Key /\ k.day = Today(k.city) /\ k.day \in Nat
  BY KeyType DEF HistoryInv, IInv, TypeOK, IsToday
<1> DEFINE shot == [at |-> obs[k.city].at, broke |-> in.ref.bucket,
                    into |-> RunBucket(k), filled |-> got # {}]
<1>2. shots' = [shots EXCEPT ![k] = Append(@, shot)]
  BY DEF TakeSlot
<1>3. shot.at = obs[k.city].at /\ shot.into = RunBucket(k) /\ (shot.filled <=> got # {})
  OBVIOUS
<1> HIDE DEF shot
<1>4. /\ shots[k] \in Seq(Shot) /\ shots'[k] = Append(shots[k], shot)
      /\ \A j \in Key \ {k} : shots'[j] = shots[j]
  BY <1>1, <1>2, MemoryType DEF HistoryInv, IInv, TypeOK
<1>5. lastFire'[k] = obs[k.city].at /\ \A j \in Key \ {k} : lastFire'[j] = lastFire[j]
  BY <1>1, MemoryType DEF HistoryInv, IInv, TypeOK, TakeSlot
<1>6. /\ fired[k] = "none" => fired'[k] = "one" /\ ~IsOpen(k)
      /\ fired[k] # "none" => fired'[k] = "two" /\ fired[k] = "one" /\ IsOpen(k)
      /\ \A j \in Key \ {k} : fired'[j] = fired[j]
  BY <1>1, FiringRow, SlotMarker DEF HistoryInv, RowInv
<1>7. CASE fired[k] = "none"
  <2>1. Len(shots[k]) = 0
    BY <1>1, <1>7, SoundMemory DEF HistoryInv, IInv
  <2>2. Len(shots'[k]) = 1 /\ shots'[k][1] = shot
    BY <1>4, <2>1
  <2> QED
    BY <1>1, <1>3, <1>4, <1>5, <1>6, <1>7, <2>2
<1>8. CASE fired[k] # "none"
  <2>1. Len(shots[k]) = 1 /\ lastFire[k] = shots[k][1].at
    BY <1>1, <1>6, <1>8, HistoryMemory DEF HistoryInv
  <2>2. Len(shots'[k]) = 2 /\ shots'[k][1] = shots[k][1] /\ shots'[k][2] = shot
    BY <1>4, <2>1
  <2>3. lastFire[k] # obs[k.city].at
    BY DEF MayFire, CleanBreak, Followed, Admitted, FiredOnObs
  <2>4. RefireTarget(k, RunBucket(k))
    BY <1>6, <1>8 DEF MayFire, CleanBreak, Followed, MayContinue, FiresUsed
  <2>5. /\ HeldYes(pos[k].legs) # {}
        /\ Beyond(k.dir, RunBucket(k), pos[k].legs[FirstHeldYes(pos[k].legs)].bucket)
    BY <2>4 DEF RefireTarget
  <2>6. pos[k].legs \in Seq(Leg) /\ \A i, j \in HeldYes(pos[k].legs) : i = j
    BY <1>1, <1>6, <1>8, OpenRowType, RowMemory DEF HistoryInv, RowInv
  <2>7. FirstHeldYes(pos[k].legs) \in HeldYes(pos[k].legs)
    BY <2>5, <2>6, SaleIsFirstHeld
  <2>8. /\ shots[k][1].filled
        /\ pos[k].legs[FirstHeldYes(pos[k].legs)].bucket = shots[k][1].into
    BY <1>1, <1>6, <1>8, <2>1, <2>7, HistoryMemory DEF HistoryInv
  <2> QED
    BY <1>1, <1>3, <1>4, <1>5, <1>6, <1>8, <2>1, <2>2, <2>3, <2>5, <2>8
<1> QED
  BY <1>7, <1>8

LEMMA FireHistory ==
    ASSUME HistoryInv, IInv', RowInv', NEW k \in Key, NEW in \in Inputs(k),
           NEW got \in SUBSET LegKinds,
           \/ StandDown(k, in, got) \/ FireRaises(k, in, got) \/ FireFirst(k, in, got)
           \/ \E bid \in Bids : FireAgain(k, in, got, bid)
    PROVE  HistoryInv'
<1>1. /\ phase = "cycle" /\ k \in todo /\ MayFire(k, in) /\ TakeSlot(k, in, got)
      /\ UNCHANGED <<clock, disk>>
  BY DEF StandDown, FireRaises, FireFirst, FireAgain, Fed, Outside, world
<1>2. \A j \in Key \ {k} : pos'[j] = pos[j]
  BY MemoryType DEF StandDown, FireRaises, FireFirst, FireAgain, ledger, HistoryInv, IInv, TypeOK
<1>3. CASE fired[k] # "none"
  <2>1. History(Memory, k, Today(k.city))'
    BY <1>1, <1>3, SlotHistory, HistoryMemoryNext
  <2> QED
    BY <1>1, <1>2, <2>1, SlotHistory, OneHistory
<1>4. CASE fired[k] = "none"
  <2>1. /\ fired'[k] = "one" /\ Len(shots'[k]) = 1 /\ ~IsOpen(k)
        /\ shots'[k][1].at = lastFire'[k]
        /\ shots'[k][1].into = RunBucket(k) /\ (shots'[k][1].filled <=> got # {})
    BY <1>1, <1>4, SlotHistory
  <2>2. IsOpen(k)' => \A i \in HeldYes(pos'[k].legs) :
                          got # {} /\ pos'[k].legs[i].bucket = RunBucket(k)
    <3>1. CASE StandDown(k, in, got) \/ FireRaises(k, in, got)
      BY <2>1, <3>1 DEF StandDown, FireRaises, ledger, IsOpen
    <3>2. CASE FireFirst(k, in, got)
      <4>1. pos' = [pos EXCEPT ![k] =
                      [settled |-> FALSE, legs |-> NewLegs(k, in, LegKinds, got)]]
        BY <2>1, <3>2 DEF FireFirst
      <4>2. pos'[k].legs = NewLegs(k, in, LegKinds, got)
        BY <4>1, MemoryType DEF HistoryInv, IInv, TypeOK
      <4> QED
        BY <4>2, FireFirstLegs
    <3>3. \A bid \in Bids : ~FireAgain(k, in, got, bid)
      BY <1>4 DEF FireAgain, FiresUsed
    <3> QED
      BY <3>1, <3>2, <3>3
  <2>3. History(Memory, k, Today(k.city))'
    BY <2>1, <2>2, HistoryMemoryNext
  <2> QED
    BY <1>1, <1>2, <2>3, SlotHistory, OneHistory
<1> QED
  BY <1>3, <1>4

LEMMA SameLegsRefl == \A legs : SameLegs(legs, legs)
  BY DEF SameLegs

LEMMA MaybeArmOrFireHistory ==
    ASSUME HistoryInv, IInv', RowInv', NEW k \in Key, MaybeArmOrFire(k)
    PROVE  HistoryInv'
<1>1. CASE SkipNoObs(k) \/ SkipSpent(k) \/ SkipRefused(k)
  BY <1>1, CalmHistory, SameLegsRefl
     DEF SkipNoObs, SkipSpent, SkipRefused, Quiet, Outside, world, sections, ledger, IsOpen
<1>2. CASE LockOpenPosition(k)
  <2>1. /\ UNCHANGED <<clock, disk, shots, lastFire, pos>>
        /\ \A j \in Key : fired'[j] = "one" => fired[j] = "one"
    BY <1>2, MemoryType
       DEF LockOpenPosition, Outside, world, ledger, HistoryInv, IInv, TypeOK
  <2> QED
    BY <2>1, CalmHistory, SameLegsRefl DEF IsOpen
<1>3. ASSUME NEW in \in Inputs(k),
             \/ SkipNoReference(k, in) \/ Arm(k, in) \/ Watch(k, in)
             \/ SkipUntimely(k, in) \/ LockBreak(k, in) \/ SkipDisagreed(k, in)
      PROVE  HistoryInv'
  <2>1. UNCHANGED <<clock, disk, shots, lastFire, pos>>
    BY <1>3 DEF SkipNoReference, Arm, Watch, SkipUntimely, LockBreak, SkipDisagreed,
                Outside, world, ledger
  <2>2. \A j \in Key : fired'[j] = "one" => fired[j] = "one"
    BY <1>3, MemoryType
       DEF SkipNoReference, Arm, Watch, SkipUntimely, LockBreak, SkipDisagreed,
           HistoryInv, IInv, TypeOK
  <2> QED
    BY <2>1, <2>2, CalmHistory, SameLegsRefl DEF IsOpen
<1>4. ASSUME NEW in \in Inputs(k), NEW got \in SUBSET LegKinds,
             \/ StandDown(k, in, got) \/ FireRaises(k, in, got)
             \/ FireFirst(k, in, got) \/ \E bid \in Bids : FireAgain(k, in, got, bid)
      PROVE  HistoryInv'
  BY <1>4, FireHistory
<1> QED
  BY <1>1, <1>2, <1>3, <1>4 DEF MaybeArmOrFire

\* Prune drops the marker and the stamp lock of other dates only.
LEMMA StartCycleHistory ==
    ASSUME HistoryInv, IInv', RowInv', StartCycle
    PROVE  HistoryInv'
<1>1. UNCHANGED <<clock, disk, shots, pos>>
  BY DEF StartCycle, world, ledger
<1>2. known = Cities
  BY DEF HistoryInv, IInv
<1>3. ASSUME NEW k \in Key
      PROVE  /\ fired'[k] = "one" => fired[k] = "one"
             /\ lastFire'[k] = lastFire[k] \/ k.day # Today(k.city)
  BY <1>2, KeyType DEF StartCycle, PruneStaleSessions, Expired, IsToday
<1> QED
  BY <1>1, <1>3, CalmHistory, SameLegsRefl DEF IsOpen

LEMMA SettleHistory ==
    ASSUME HistoryInv, IInv', RowInv', NEW k \in Key, NEW win, NEW resolved,
           SettlePosition(k, win, resolved)
    PROVE  HistoryInv'
<1> DEFINE old  == pos[k].legs
           legs == [i \in DOMAIN old |-> SettleLeg(old[i], win, resolved)]
           over == \A i \in DOMAIN legs : legs[i].st # "open"
<1>1. /\ pos' = [pos EXCEPT ![k] = [settled |-> over, legs |-> legs]]
      /\ UNCHANGED <<clock, disk, shots, fired, lastFire>> /\ IsOpen(k)
  BY DEF SettlePosition, world, sections
<1>2. SameLegs(legs, old)
  BY SettledLegs
<1> HIDE DEF legs, over
<1>3. pos'[k].legs = legs /\ \A j \in Key \ {k} : pos'[j] = pos[j]
  BY <1>1, MemoryType DEF HistoryInv, IInv, TypeOK
<1>4. \A j \in Key : IsOpen(j)' => IsOpen(j) /\ SameLegs(pos'[j].legs, pos[j].legs)
  BY <1>1, <1>2, <1>3, SameLegsRefl DEF IsOpen
<1> QED
  BY <1>1, <1>4, CalmHistory

\* A later date that becomes today has no fire on record yet.
LEMMA TickHistory ==
    ASSUME HistoryInv, IInv', RowInv', Tick
    PROVE  HistoryInv'
<1>1. Memory' = Memory /\ disk' = disk
  BY DEF Tick, Memory, sections, ledger
<1>2. ASSUME NEW k \in Key
      PROVE  k.day >= Today(k.city)' => k.day >= Today(k.city)
  <2>1. clock \in 0 .. MaxClock /\ clock' \in 0 .. MaxClock /\ clock <= clock'
    BY RunnerAssumption DEF Tick, HistoryInv, IInv, TypeOK
  <2>2. /\ Today(k.city) <= Today(k.city)' /\ k.day \in Nat
        /\ Today(k.city) \in Nat /\ Today(k.city)' \in Nat
    BY <2>1, KeyType, RunnerAssumption DEF Today
  <2> QED
    BY <2>2
<1>3. ASSUME NEW d, NEW k \in Key, History(d, k, Today(k.city))
      PROVE  History(d, k, Today(k.city)')
  BY <1>2, <1>3 DEF History
<1>4. \A k \in Key : History(Memory, k, Today(k.city))' /\ History(disk, k, Today(k.city))'
  BY <1>1, <1>3 DEF HistoryInv
<1> QED
  BY <1>4 DEF HistoryInv

LEMMA HistoryStep ==
    ASSUME MaxEdits = 0
    PROVE  HistoryInv /\ [Next]_vars => HistoryInv'
<1> SUFFICES ASSUME HistoryInv, [Next]_vars PROVE HistoryInv'
  OBVIOUS
<1>0. IInv' /\ RowInv'
  BY SafetyStep, RowStep DEF HistoryInv
<1>1. CASE StartCycle
  BY <1>0, <1>1, StartCycleHistory
<1>2. ASSUME NEW k \in Key, MaybeArmOrFire(k) PROVE HistoryInv'
  BY <1>0, <1>2, MaybeArmOrFireHistory
<1>3. CASE SettleMarkets
  BY <1>0, <1>3, SettleHistory DEF SettleMarkets
<1>4. ASSUME EmptyUniverse \/ SaveState \/ Crash \/ CycleError \/ UNCHANGED vars
             \/ \E K \in SUBSET Cities : EditRegistry(K)
      PROVE  HistoryInv'
  <2>1. /\ Memory' = Memory \/ Memory' = disk
        /\ disk' = Memory \/ disk' = disk
        /\ clock' = clock
    BY <1>4 DEF EmptyUniverse, SaveState, Crash, CycleError, EditRegistry, vars, Memory,
                world, sections, ledger, HistoryInv, IInv, TypeOK, StateFile
  <2>2. \A c : Today(c)' = Today(c)
    BY <2>1 DEF Today
  <2>3. \A k \in Key : History(Memory, k, Today(k.city))' /\ History(disk, k, Today(k.city))'
    BY <2>1, <2>2 DEF HistoryInv
  <2> QED
    BY <1>0, <2>3 DEF HistoryInv
<1>5. CASE Tick
  BY <1>0, <1>5, TickHistory
<1> QED
  BY <1>1, <1>2, <1>3, <1>4, <1>5 DEF Next, RunCycle, Environment

LEMMA HistorySafety ==
    ASSUME MaxEdits = 0
    PROVE  Spec => []HistoryInv
<1>1. HistoryInv /\ [Next]_vars => HistoryInv'
  BY HistoryStep
<1> QED
  BY <1>1, HistoryInit, PTL DEF Spec

LEMMA TwoPlaces ==
    ASSUME NEW S, NEW s \in Seq(S), Len(s) <= 2
    PROVE  \A i, j \in DOMAIN s : i # j => Len(s) = 2 /\ {i, j} = {1, 2}
<1>1. DOMAIN s = 1 .. Len(s) /\ Len(s) \in Nat
  OBVIOUS
<1>2. ASSUME NEW i \in 1 .. Len(s), NEW j \in 1 .. Len(s), i # j
      PROVE  Len(s) = 2 /\ ((i = 1 /\ j = 2) \/ (i = 2 /\ j = 1))
  BY <1>1, <1>2
<1> QED
  BY <1>1, <1>2

\* Two fires of a session never rest on one METAR stamp, whatever the sources answer
\* between them and whatever a restart brings back.
THEOREM TwoFiresTwoStamps ==
    ASSUME MaxEdits = 0
    PROVE  Spec => []OneFirePerObservation
<1>1. ASSUME HistoryInv, NEW k \in Key, NEW i \in DOMAIN shots[k], NEW j \in DOMAIN shots[k],
             i # j
      PROVE  shots[k][i].at # shots[k][j].at
  <2>1. shots[k] \in Seq(Shot) /\ Len(shots[k]) <= 2
    <3>1. shots[k] \in Seq(Shot)
      BY <1>1, MemoryType DEF HistoryInv, IInv, TypeOK
    <3>2. Len(shots[k]) <= 2
      BY <1>1, SoundMemory DEF HistoryInv, IInv
    <3> QED
      BY <3>1, <3>2
  <2>2. Len(shots[k]) = 2 /\ {i, j} = {1, 2}
    BY <1>1, <2>1, TwoPlaces
  <2>3. shots[k][1].at # shots[k][2].at
    BY <1>1, <2>2, HistoryMemory DEF HistoryInv
  <2> QED
    BY <1>1, <2>2, <2>3
<1>2. HistoryInv => OneFirePerObservation
  BY <1>1 DEF OneFirePerObservation
<1> QED
  BY <1>2, HistorySafety, PTL

\* The second fire of a session follows a first that filled, and goes past its bucket.
THEOREM SecondFireGoesFurther ==
    ASSUME MaxEdits = 0
    PROVE  Spec => []RefireGoesFurther
<1>1. HistoryInv => RefireGoesFurther
  BY HistoryMemory DEF HistoryInv, RefireGoesFurther
<1> QED
  BY <1>1, HistorySafety, PTL

-----------------------------------------------------------------------------
(* The cap on open rows, for any edits of the registry *)

OpenRows(d) == {k \in Key : OpenIn(d, k)}
WithinCap(d) == StrategyMaxOpen > 0 => Cardinality(OpenRows(d)) <= StrategyMaxOpen
CapInv == TypeOK /\ WithinCap(Memory) /\ WithinCap(disk)

LEMMA FiniteKeys == IsFiniteSet(Key)
<1> DEFINE pairs == Contracts \X (0 .. MaxDay)
           key   == [x \in pairs |-> [city |-> x[1][1], day |-> x[2], dir |-> x[1][2]]]
<1>1. IsFiniteSet(pairs)
  <2>1. IsFiniteSet(0 .. MaxDay)
    BY FS_Interval, RunnerAssumption
  <2> QED
    BY <2>1, FiniteContracts, FS_Product
<1>2. key \in Surjection(pairs, Key)
  <2>1. \A x \in pairs : key[x] \in Key
    BY DEF Key
  <2>2. ASSUME NEW k \in Key PROVE \E x \in pairs : key[x] = k
    <3>1. PICK c \in Contracts, d \in 0 .. MaxDay : k = [city |-> c[1], day |-> d, dir |-> c[2]]
      BY DEF Key
    <3>2. <<c, d>> \in pairs /\ key[<<c, d>>] = k
      BY <3>1
    <3> QED
      BY <3>2
  <2> QED
    BY <2>1, <2>2 DEF Surjection
<1> QED
  BY <1>1, <1>2, FS_Surjection

LEMMA OpenRowsMemory ==
    /\ OpenRows(Memory) = {k \in Key : IsOpen(k)}
    /\ OpenRows(Memory)' = {k \in Key : IsOpen(k)'}
  BY DEF OpenRows, OpenIn, IsOpen, Memory

LEMMA FewerRows ==
    ASSUME NEW S \in SUBSET Key, NEW T \in SUBSET S
    PROVE  Cardinality(T) \in Nat /\ Cardinality(S) \in Nat /\ Cardinality(T) <= Cardinality(S)
  BY FiniteKeys, FS_Subset, FS_CardinalityType

\* A step that opens no row.
LEMMA CalmCap ==
    ASSUME CapInv, TypeOK', disk' = disk, \A k \in Key : IsOpen(k)' => IsOpen(k)
    PROVE  CapInv'
<1>1. OpenRows(Memory)' \subseteq OpenRows(Memory) /\ OpenRows(Memory) \subseteq Key
  BY OpenRowsMemory
<1>2. WithinCap(Memory)'
  BY <1>1, FewerRows, RunnerAssumption DEF CapInv, WithinCap
<1>3. WithinCap(disk)'
  BY DEF CapInv
<1> QED
  BY <1>2, <1>3 DEF CapInv

\* A first fire opens one row, and only below the cap.
LEMMA FireFirstCap ==
    ASSUME CapInv, TypeOK', NEW k \in Key, NEW in \in Inputs(k),
           NEW got \in SUBSET LegKinds, FireFirst(k, in, got)
    PROVE  CapInv'
<1>1. disk' = disk /\ ~AtOpenCap
  BY DEF FireFirst, Outside, MayFire, CleanBreak, Followed, Admitted
<1>2. \A j \in Key \ {k} : pos'[j] = pos[j]
  BY MemoryType DEF FireFirst, CapInv, TypeOK
<1>3. OpenRows(Memory)' \subseteq OpenRows(Memory) \cup {k}
  BY <1>2, OpenRowsMemory DEF IsOpen
<1>4. IsFiniteSet(OpenRows(Memory))
  BY FiniteKeys, OpenRowsMemory, FS_Subset
<1>5. /\ IsFiniteSet(OpenRows(Memory) \cup {k})
      /\ Cardinality(OpenRows(Memory) \cup {k}) <= Cardinality(OpenRows(Memory)) + 1
      /\ Cardinality(OpenRows(Memory)) \in Nat
  <2>1. Cardinality(OpenRows(Memory)) \in Nat
    BY <1>4, FS_CardinalityType
  <2>2. /\ IsFiniteSet(OpenRows(Memory) \cup {k})
        /\ Cardinality(OpenRows(Memory) \cup {k}) =
              IF k \in OpenRows(Memory) THEN Cardinality(OpenRows(Memory))
              ELSE Cardinality(OpenRows(Memory)) + 1
    BY <1>4, FS_AddElement
  <2> QED
    BY <2>1, <2>2
<1>6. /\ Cardinality(OpenRows(Memory)') <= Cardinality(OpenRows(Memory) \cup {k})
      /\ Cardinality(OpenRows(Memory)') \in Nat
      /\ Cardinality(OpenRows(Memory) \cup {k}) \in Nat
  BY <1>3, <1>5, FS_Subset, FS_CardinalityType
<1>7. StrategyMaxOpen > 0 => Cardinality(OpenRows(Memory)) < StrategyMaxOpen
  BY <1>1, <1>5, OpenRowsMemory, RunnerAssumption DEF AtOpenCap, OpenCount
<1>8. WithinCap(Memory)'
  <2>1. StrategyMaxOpen > 0 => Cardinality(OpenRows(Memory)') <= StrategyMaxOpen
    BY <1>5, <1>6, <1>7, RunnerAssumption
  <2> QED
    BY <2>1 DEF WithinCap
<1> QED
  BY <1>1, <1>8 DEF CapInv

LEMMA MaybeArmOrFireCap ==
    ASSUME CapInv, TypeOK', NEW k \in Key, MaybeArmOrFire(k)
    PROVE  CapInv'
<1>1. ASSUME UNCHANGED <<pos, disk>> PROVE CapInv'
  BY <1>1, CalmCap DEF IsOpen
<1>2. CASE SkipNoObs(k) \/ SkipSpent(k) \/ LockOpenPosition(k) \/ SkipRefused(k)
  BY <1>1, <1>2
     DEF SkipNoObs, SkipSpent, LockOpenPosition, SkipRefused, Quiet, Outside, ledger
<1>3. ASSUME NEW in \in Inputs(k),
             \/ SkipNoReference(k, in) \/ Arm(k, in) \/ Watch(k, in)
             \/ SkipUntimely(k, in) \/ LockBreak(k, in) \/ SkipDisagreed(k, in)
      PROVE  CapInv'
  BY <1>1, <1>3
     DEF SkipNoReference, Arm, Watch, SkipUntimely, LockBreak, SkipDisagreed, Outside, ledger
<1>4. ASSUME NEW in \in Inputs(k), NEW got \in SUBSET LegKinds,
             StandDown(k, in, got) \/ FireRaises(k, in, got)
      PROVE  CapInv'
  BY <1>1, <1>4 DEF StandDown, FireRaises, Outside, ledger
<1>5. ASSUME NEW in \in Inputs(k), NEW got \in SUBSET LegKinds, FireFirst(k, in, got)
      PROVE  CapInv'
  BY <1>5, FireFirstCap
<1>6. ASSUME NEW in \in Inputs(k), NEW got \in SUBSET LegKinds, NEW bid \in Bids,
             FireAgain(k, in, got, bid)
      PROVE  CapInv'
  <2>1. PICK legs : pos' = [pos EXCEPT ![k].legs = legs]
    BY <1>6 DEF FireAgain
  <2>2. fired[k] # "none"
    BY <1>6 DEF FireAgain, FiresUsed
  <2>3. IsOpen(k)
    <3>1. FiresUsed(k) = 1
      BY <1>6, <2>2, MemoryType
         DEF FireAgain, MayFire, CleanBreak, Followed, Admitted, Spent, MaxFires, FiresUsed,
             CapInv, TypeOK
    <3> QED
      BY <1>6, <3>1 DEF FireAgain, MayFire, CleanBreak, Followed, MayContinue, RefireTarget
  <2>4. \A j \in Key : IsOpen(j)' => IsOpen(j)
    BY <2>1, <2>3, MemoryType DEF IsOpen, CapInv, TypeOK
  <2>5. disk' = disk
    BY <1>6 DEF FireAgain, Outside
  <2> QED
    BY <2>4, <2>5, CalmCap
<1> QED
  BY <1>2, <1>3, <1>4, <1>5, <1>6 DEF MaybeArmOrFire

LEMMA CapStep == CapInv /\ [Next]_vars => CapInv'
<1> SUFFICES ASSUME CapInv, [Next]_vars PROVE CapInv'
  OBVIOUS
<1>0. TypeOK'
  BY TypeStep DEF CapInv
<1>1. ASSUME NEW k \in Key, MaybeArmOrFire(k) PROVE CapInv'
  BY <1>0, <1>1, MaybeArmOrFireCap
<1>2. CASE SettleMarkets
  <2>1. PICK k \in Key : \E win, resolved : SettlePosition(k, win, resolved)
    BY <1>2 DEF SettleMarkets
  <2>2. disk' = disk /\ \A j \in Key : IsOpen(j)' => IsOpen(j)
    BY <2>1, MemoryType DEF SettlePosition, IsOpen, CapInv, TypeOK
  <2> QED
    BY <1>0, <2>2, CalmCap
<1>3. CASE StartCycle
  <2>1. UNCHANGED <<pos, disk>>
    BY <1>3 DEF StartCycle, ledger
  <2> QED
    BY <1>0, <2>1, CalmCap DEF IsOpen
<1>4. ASSUME EmptyUniverse \/ SaveState \/ Crash \/ CycleError \/ Tick \/ UNCHANGED vars
             \/ \E K \in SUBSET Cities : EditRegistry(K)
      PROVE  CapInv'
  <2>1. /\ Memory' = Memory \/ Memory' = disk
        /\ disk' = Memory \/ disk' = disk
    BY <1>4 DEF EmptyUniverse, SaveState, Crash, CycleError, Tick, EditRegistry, vars,
                Memory, sections, ledger, CapInv, TypeOK, StateFile
  <2>2. WithinCap(Memory)' /\ WithinCap(disk)'
    BY <2>1 DEF CapInv
  <2> QED
    BY <1>0, <2>2 DEF CapInv
<1> QED
  BY <1>1, <1>2, <1>3, <1>4 DEF Next, RunCycle, Environment

LEMMA CapInit == Init => CapInv
<1> SUFFICES ASSUME Init PROVE CapInv
  OBVIOUS
<1>1. disk = Memory /\ OpenRows(Memory) = {}
  BY OpenRowsMemory DEF Init, IsOpen
<1>2. Cardinality(OpenRows(Memory)) = 0
  BY <1>1, FS_EmptySet
<1> QED
  BY <1>1, <1>2, TypeInit, RunnerAssumption DEF CapInv, WithinCap

\* However many sessions fire in one cycle, the open rows never exceed the cap the
\* strategy is given: each fire counts the rows of the fires before it.
THEOREM OpenRowsWithinCap == Spec => []OpenWithinCap
<1>1. CapInv => OpenWithinCap
  BY OpenRowsMemory DEF CapInv, WithinCap, OpenWithinCap, OpenCount
<1> QED
  BY <1>1, CapInit, CapStep, PTL DEF Spec

-----------------------------------------------------------------------------
(* The ledger against the legs, when the registry is left alone and no book *)
(* bids more than a share redeems.                                          *)

RowLegs(p, k) == IF p[k] = None THEN <<>> ELSE p[k].legs
Places    == Key \X (1 .. 4)
Bought(p) == {x \in Places : x[2] \in DOMAIN RowLegs(p, x[1])
                               /\ RowLegs(p, x[1])[x[2]].filled}
Back(p)   == {u \in Places \X (1 .. Payout) :
                 /\ u[1][2] \in DOMAIN RowLegs(p, u[1][1])
                 /\ u[2] <= RowLegs(p, u[1][1])[u[1][2]].paid}
Balanced(d) == d.debit = LegCost * Cardinality(Bought(d.pos)) - Cardinality(Back(d.pos))

\* A row belongs to the fires on record, an open leg has paid nothing yet, and none has
\* paid more than it redeems.
Books(d, k) == d.pos[k] # None =>
    /\ Len(d.shots[k]) # 0
    /\ Len(d.pos[k].legs) <= 2 * Len(d.shots[k])
    /\ \A i \in DOMAIN d.pos[k].legs :
          /\ d.pos[k].legs[i].paid <= Payout
          /\ d.pos[k].legs[i].st = "open" => d.pos[k].legs[i].paid = 0

LedgerInv == /\ IInv /\ RowInv
             /\ \A k \in Key : Books(Memory, k) /\ Books(disk, k)
             /\ Balanced(Memory) /\ Balanced(disk)

LEMMA FinitePlaces ==
    /\ IsFiniteSet(Places) /\ IsFiniteSet(Places \X (1 .. Payout))
    /\ \A p : IsFiniteSet(Bought(p)) /\ IsFiniteSet(Back(p))
<1>1. IsFiniteSet(1 .. 4) /\ IsFiniteSet(1 .. Payout)
  <2>1. 1 \in Int /\ 4 \in Int /\ Payout \in Int
    BY RunnerAssumption
  <2> QED
    BY <2>1, FS_Interval
<1>2. IsFiniteSet(Places)
  BY <1>1, FiniteKeys, FS_Product DEF Places
<1>3. IsFiniteSet(Places \X (1 .. Payout))
  BY <1>1, <1>2, FS_Product
<1>4. \A p : Bought(p) \subseteq Places /\ Back(p) \subseteq Places \X (1 .. Payout)
  BY DEF Bought, Back
<1> QED
  BY <1>2, <1>3, <1>4, FS_Subset

\* Places of one row, and n units on each of them.
At(k, N) == {<<k, i>> : i \in N}
Units(k, N, n) == {<<<<k, x[1]>>, x[2]>> : x \in N \X (1 .. n)}

LEMMA UnitsMember ==
    ASSUME NEW k, NEW N, NEW n, NEW i, NEW m
    PROVE  <<<<k, i>>, m>> \in Units(k, N, n) <=> i \in N /\ m \in 1 .. n
<1>1. ASSUME i \in N, m \in 1 .. n
      PROVE  <<<<k, i>>, m>> \in Units(k, N, n)
  <2>1. <<i, m>> \in N \X (1 .. n) /\ <<i, m>>[1] = i /\ <<i, m>>[2] = m
    BY <1>1
  <2> QED
    BY <2>1 DEF Units
<1>2. ASSUME <<<<k, i>>, m>> \in Units(k, N, n)
      PROVE  i \in N /\ m \in 1 .. n
  <2>1. PICK x \in N \X (1 .. n) : <<<<k, i>>, m>> = <<<<k, x[1]>>, x[2]>>
    BY <1>2 DEF Units
  <2>2. i = x[1] /\ m = x[2]
    BY <2>1
  <2> QED
    BY <2>1, <2>2
<1> QED
  BY <1>1, <1>2

\* New legs of one row add to what was bought.
LEMMA AddPlaces ==
    ASSUME NEW B, IsFiniteSet(B), NEW N, IsFiniteSet(N), NEW k,
           \A i \in N : <<k, i>> \notin B
    PROVE  Cardinality(B \cup At(k, N)) = Cardinality(B) + Cardinality(N)
<1> DEFINE T == At(k, N)
           f == [i \in N |-> <<k, i>>]
<1>1. f \in Bijection(N, T)
  BY DEF Bijection, Injection, Surjection, IsInjective, At
<1>2. IsFiniteSet(T) /\ Cardinality(T) = Cardinality(N)
  BY <1>1, FS_Bijection DEF ExistsBijection
<1>3. B \cap T = {}
  BY DEF At
<1>4. Cardinality(B \cup T) = Cardinality(B) + Cardinality(T) - Cardinality(B \cap T)
  BY <1>2, FS_Union
<1>5. Cardinality(B \cap T) = 0 /\ Cardinality(B) \in Nat /\ Cardinality(T) \in Nat
  BY <1>2, <1>3, FS_EmptySet, FS_CardinalityType
<1> QED
  BY <1>2, <1>4, <1>5

\* n units each on the legs N of one row add to what came back.
LEMMA AddUnits ==
    ASSUME NEW B, IsFiniteSet(B), NEW N, IsFiniteSet(N), NEW n \in Nat, NEW k,
           \A i \in N, u \in 1 .. n : <<<<k, i>>, u>> \notin B
    PROVE  Cardinality(B \cup Units(k, N, n)) = Cardinality(B) + n * Cardinality(N)
<1> DEFINE S == N \X (1 .. n)
           T == Units(k, N, n)
           f == [x \in S |-> <<<<k, x[1]>>, x[2]>>]
<1>1. IsFiniteSet(1 .. n) /\ Cardinality(1 .. n) = n
  BY FS_Interval
<1>2. IsFiniteSet(S) /\ Cardinality(S) = Cardinality(N) * n /\ Cardinality(N) \in Nat
  <2>1. IsFiniteSet(S) /\ Cardinality(S) = Cardinality(N) * Cardinality(1 .. n)
    BY <1>1, FS_Product
  <2> QED
    BY <1>1, <2>1, FS_CardinalityType
<1>3. f \in Bijection(S, T)
  <2>1. \A x, y \in S : f[x] = f[y] => x = y
    OBVIOUS
  <2>2. f \in [S -> T] /\ DOMAIN f = S /\ \A t \in T : \E x \in S : f[x] = t
    BY DEF Units
  <2> HIDE DEF f, S, T
  <2> QED
    BY <2>1, <2>2 DEF Bijection, Injection, Surjection, IsInjective
<1>4. IsFiniteSet(T) /\ Cardinality(T) = Cardinality(S)
  BY <1>2, <1>3, FS_Bijection DEF ExistsBijection
<1>5. B \cap T = {}
  <2>1. \A x \in S : x[1] \in N /\ x[2] \in 1 .. n
    OBVIOUS
  <2> QED
    BY <2>1 DEF Units
<1>6. Cardinality(B \cup T) = Cardinality(B) + Cardinality(T) - Cardinality(B \cap T)
  BY <1>4, FS_Union
<1>7. Cardinality(B \cap T) = 0 /\ Cardinality(B) \in Nat
  BY <1>5, FS_EmptySet, FS_CardinalityType
<1>8. n * Cardinality(N) = Cardinality(N) * n
  BY <1>2
<1> QED
  BY <1>2, <1>4, <1>6, <1>7, <1>8

\* The legs of a window are as many as their kinds: one each.
LEMMA NewLegsCount ==
    ASSUME NEW k, NEW in, NEW kinds \in SUBSET LegKinds, NEW got \in SUBSET kinds
    PROVE  LET s == NewLegs(k, in, kinds, got)
               N == {i \in DOMAIN s : s[i].filled}
           IN  IsFiniteSet(N) /\ Cardinality(N) = Cardinality(got)
<1> DEFINE no == NewLeg("NO", in.ref.bucket, got)
           yes == NewLeg("YES", RunBucket(k), got)
           s == NewLegs(k, in, kinds, got)
           N == {i \in DOMAIN s : s[i].filled}
<1>1. /\ no.out = "NO" /\ (no.filled <=> "NO" \in got)
      /\ yes.out = "YES" /\ (yes.filled <=> "YES" \in got)
  BY DEF NewLeg
<1>2. s = (IF "NO" \in kinds THEN <<no>> ELSE <<>>) \o (IF "YES" \in kinds THEN <<yes>> ELSE <<>>)
  BY DEF NewLegs
<1>3. kinds \subseteq {"NO", "YES"}
  BY DEF LegKinds
<1> HIDE DEF no, yes, s
<1>4. /\ <<no>> \o <<>> = <<no>> /\ <<>> \o <<yes>> = <<yes>> /\ <<>> \o <<>> = <<>>
  OBVIOUS
<1>5. /\ \A i \in DOMAIN s : s[i].out \in kinds /\ (s[i].filled <=> s[i].out \in got)
      /\ \A i, j \in DOMAIN s : s[i].out = s[j].out => i = j
      /\ \A o \in kinds : \E i \in DOMAIN s : s[i].out = o
      /\ DOMAIN s \subseteq {1, 2}
  <2>1. CASE "NO" \in kinds /\ "YES" \in kinds
    <3>1. s = <<no>> \o <<yes>>
      BY <1>2, <2>1
    <3>2. Len(s) = 2 /\ DOMAIN s = 1 .. 2 /\ s[1] = no /\ s[2] = yes
      <4>1. <<no>> \in Seq({no, yes}) /\ <<yes>> \in Seq({no, yes})
        OBVIOUS
      <4> QED
        BY <3>1, <4>1
    <3>3. DOMAIN s = {1, 2}
      BY <3>2
    <3> QED
      BY <1>1, <1>3, <2>1, <3>2, <3>3, Zenon
  <2>2. CASE "NO" \in kinds /\ "YES" \notin kinds
    <3>1. s = <<no>>
      BY <1>2, <1>4, <2>2
    <3>2. DOMAIN s = {1} /\ s[1] = no
      BY <3>1
    <3> QED
      BY <1>1, <1>3, <2>2, <3>2, Zenon
  <2>3. CASE "NO" \notin kinds /\ "YES" \in kinds
    <3>1. s = <<yes>>
      BY <1>2, <1>4, <2>3
    <3>2. DOMAIN s = {1} /\ s[1] = yes
      BY <3>1
    <3> QED
      BY <1>1, <1>3, <2>3, <3>2, Zenon
  <2>4. CASE "NO" \notin kinds /\ "YES" \notin kinds
    <3>1. s = <<>>
      BY <1>2, <1>4, <2>4
    <3>2. DOMAIN s = {} /\ kinds = {}
      BY <1>3, <2>4, <3>1
    <3> QED
      BY <3>2
  <2> QED
    BY <2>1, <2>2, <2>3, <2>4
<1> DEFINE f == [i \in N |-> s[i].out]
<1>6. f \in Bijection(N, got)
  <2>1. \A i \in N : f[i] \in got
    BY <1>5
  <2>2. \A i, j \in N : f[i] = f[j] => i = j
    BY <1>5
  <2>3. \A o \in got : \E i \in N : f[i] = o
    <3> TAKE o \in got
    <3>1. PICK i \in DOMAIN s : s[i].out = o
      BY <1>5
    <3>2. i \in N
      BY <1>5, <3>1
    <3> QED
      BY <3>1, <3>2
  <2> QED
    BY <2>1, <2>2, <2>3 DEF Bijection, Injection, Surjection, IsInjective
<1>7. IsFiniteSet(N)
  <2>1. IsFiniteSet(1 .. 2)
    <3>1. 1 \in Int /\ 2 \in Int
      OBVIOUS
    <3> QED
      BY <3>1, FS_Interval
  <2>2. N \subseteq 1 .. 2
    BY <1>5
  <2> QED
    BY <2>1, <2>2, FS_Subset
<1>8. ExistsBijection(N, got)
  BY <1>6 DEF ExistsBijection
<1> QED
  BY <1>7, <1>8, FS_Bijection DEF s

LEMMA LedgerMemory ==
    /\ LedgerMatchesLegs <=> Balanced(Memory)
    /\ Balanced(Memory) <=> debit = LegCost * Cardinality(Bought(pos)) - Cardinality(Back(pos))
    /\ Balanced(Memory)' <=>
          debit' = LegCost * Cardinality(Bought(pos')) - Cardinality(Back(pos'))
<1>1. \A k : LegsOf(k) = RowLegs(pos, k)
  BY DEF LegsOf, RowLegs
<1>2. {x \in Legs : LegAt(x).filled} = Bought(pos)
  BY <1>1 DEF Legs, LegAt, Bought, Places
<1>3. {u \in Legs \X (1 .. Payout) : u[2] <= LegAt(u[1]).paid} = Back(pos)
  BY <1>1 DEF Legs, LegAt, Back, Places
<1>4. Balanced(Memory) <=> debit = LegCost * Cardinality(Bought(pos)) - Cardinality(Back(pos))
  BY DEF Balanced, Memory
<1>5. Balanced(Memory)' <=>
          debit' = LegCost * Cardinality(Bought(pos')) - Cardinality(Back(pos'))
  BY DEF Balanced, Memory
<1>6. LedgerMatchesLegs <=>
          debit = LegCost * Cardinality(Bought(pos)) - Cardinality(Back(pos))
  BY <1>2, <1>3, Zenon DEF LedgerMatchesLegs
<1> QED
  BY <1>4, <1>5, <1>6

LEMMA BooksMemory ==
    \A k \in Key :
        /\ Books(Memory, k) <=>
              (pos[k] # None =>
                  /\ Len(shots[k]) # 0
                  /\ Len(pos[k].legs) <= 2 * Len(shots[k])
                  /\ \A i \in DOMAIN pos[k].legs :
                        /\ pos[k].legs[i].paid <= Payout
                        /\ pos[k].legs[i].st = "open" => pos[k].legs[i].paid = 0)
        /\ Books(Memory, k)' <=>
              (pos'[k] # None =>
                  /\ Len(shots'[k]) # 0
                  /\ Len(pos'[k].legs) <= 2 * Len(shots'[k])
                  /\ \A i \in DOMAIN pos'[k].legs :
                        /\ pos'[k].legs[i].paid <= Payout
                        /\ pos'[k].legs[i].st = "open" => pos'[k].legs[i].paid = 0)
  BY DEF Books, Memory

\* A step that leaves the rows alone; the record of fires may grow.
LEMMA CalmLedger ==
    ASSUME LedgerInv, IInv', RowInv', UNCHANGED <<pos, debit, disk>>,
           \A k \in Key : Len(shots'[k]) >= Len(shots[k])
    PROVE  LedgerInv'
<1>1. ASSUME NEW k \in Key PROVE Books(Memory, k)'
  <2>1. Books(Memory, k)
    BY DEF LedgerInv
  <2>2. Len(shots[k]) \in Nat /\ Len(shots'[k]) \in Nat
    BY MemoryType, MemoryTypeNext DEF LedgerInv, IInv, TypeOK
  <2>3. pos[k] # None => Len(pos[k].legs) \in Nat
    BY MemoryType DEF LedgerInv, IInv, TypeOK, Position
  <2> QED
    BY <2>1, <2>2, <2>3, BooksMemory
<1>2. Balanced(Memory)' /\ Balanced(disk)'
  BY LedgerMemory DEF LedgerInv
<1>3. \A k \in Key : Books(disk, k)'
  BY DEF LedgerInv
<1> QED
  BY <1>1, <1>2, <1>3 DEF LedgerInv

\* A step that changes the row of session k only.
LEMMA OneLedger ==
    ASSUME LedgerInv, IInv', RowInv', NEW k \in Key, disk' = disk,
           \A j \in Key \ {k} : pos'[j] = pos[j] /\ shots'[j] = shots[j],
           Books(Memory, k)', Balanced(Memory)'
    PROVE  LedgerInv'
<1>1. ASSUME NEW j \in Key, j # k PROVE Books(Memory, j)'
  <2>1. Books(Memory, j)
    BY DEF LedgerInv
  <2> QED
    BY <1>1, <2>1, BooksMemory
<1>2. Balanced(disk)' /\ \A j \in Key : Books(disk, j)'
  BY DEF LedgerInv
<1> QED
  BY <1>1, <1>2 DEF LedgerInv

\* Every fire adds one entry to the record of its session and to no other.
LEMMA SlotRecord ==
    ASSUME IInv, NEW k \in Key, NEW in, NEW got, TakeSlot(k, in, got)
    PROVE  /\ shots[k] \in Seq(Shot) /\ Len(shots'[k]) = Len(shots[k]) + 1
           /\ \A j \in Key \ {k} : shots'[j] = shots[j]
<1> DEFINE shot == [at |-> obs[k.city].at, broke |-> in.ref.bucket,
                    into |-> RunBucket(k), filled |-> got # {}]
<1>1. shots' = [shots EXCEPT ![k] = Append(@, shot)]
  BY DEF TakeSlot
<1> HIDE DEF shot
<1>2. /\ shots[k] \in Seq(Shot) /\ shots'[k] = Append(shots[k], shot)
      /\ \A j \in Key \ {k} : shots'[j] = shots[j]
  BY <1>1, MemoryType DEF IInv, TypeOK
<1> QED
  BY <1>2

LEMMA FireFirstLedger ==
    ASSUME LedgerInv, IInv', RowInv', NEW k \in Key, NEW in \in Inputs(k),
           NEW got \in SUBSET LegKinds, FireFirst(k, in, got)
    PROVE  LedgerInv'
<1> DEFINE new == NewLegs(k, in, LegKinds, got)
           N == {i \in DOMAIN new : new[i].filled}
<1>1. /\ MayFire(k, in) /\ TakeSlot(k, in, got) /\ disk' = disk /\ FiresUsed(k) = 0
      /\ k \in todo /\ phase = "cycle"
  BY DEF FireFirst, Outside, Fed
<1>2. fired[k] = "none" /\ ~IsOpen(k)
  BY <1>1, FiringRow DEF FiresUsed, LedgerInv
<1>3. Len(shots[k]) = 0
  <2>1. k.day = Today(k.city) /\ k.day \in Nat
    BY <1>1, KeyType DEF LedgerInv, IInv, IsToday
  <2> QED
    BY <1>2, <2>1, SoundMemory DEF LedgerInv, IInv
<1>4. pos[k] = None
  BY <1>3, BooksMemory DEF LedgerInv
<1>5. /\ pos' = [pos EXCEPT ![k] = [settled |-> FALSE, legs |-> new]]
      /\ debit' = debit + LegCost * Cardinality(got)
  BY <1>2 DEF FireFirst, Cost
<1>6. PICK n \in 0 .. 2 :
           /\ DOMAIN new = 1 .. n /\ Len(new) = n
           /\ \A i \in 1 .. n : new[i].paid = 0
  BY NewLegsShape
<1>7. IsFiniteSet(N) /\ Cardinality(N) = Cardinality(got)
  BY NewLegsCount
<1> HIDE DEF new
<1>8. /\ pos'[k] = [settled |-> FALSE, legs |-> new]
      /\ \A j \in Key \ {k} : pos'[j] = pos[j]
      /\ pos \in [Key -> Position \cup {None}]
  BY <1>5, MemoryType DEF LedgerInv, IInv, TypeOK
<1>9. pos'[k] # None
  <2>1. new \in Seq(Leg)
    BY <1>1, NewLegsType DEF MayFire, CleanBreak, Followed, LedgerInv, IInv, new
  <2>2. [settled |-> FALSE, legs |-> new] \in Position
    BY <2>1 DEF Position
  <2> QED
    BY <1>8, <2>2, NoneIsNoRow
<1>10. /\ RowLegs(pos, k) = <<>> /\ RowLegs(pos', k) = new
       /\ \A j \in Key \ {k} : RowLegs(pos', j) = RowLegs(pos, j)
  BY <1>4, <1>8, <1>9 DEF RowLegs
<1>11. Bought(pos') = Bought(pos) \cup At(k, N)
  BY <1>6, <1>10 DEF Bought, Places, At
<1>12. \A i \in N : <<k, i>> \notin Bought(pos)
  BY <1>10 DEF Bought
<1> HIDE DEF N
<1>13. Cardinality(Bought(pos')) = Cardinality(Bought(pos)) + Cardinality(got)
  <2>1. IsFiniteSet(Bought(pos))
    BY FinitePlaces
  <2>2. Cardinality(Bought(pos) \cup At(k, N))
          = Cardinality(Bought(pos)) + Cardinality(N)
    BY <1>7, <1>12, <2>1, AddPlaces
  <2> QED
    BY <1>7, <1>11, <2>2
<1>14. Back(pos') = Back(pos)
  BY <1>6, <1>10 DEF Back, Places
<1>15. Balanced(Memory)'
  <2>1. /\ Cardinality(Bought(pos)) \in Nat /\ Cardinality(got) \in Nat
        /\ Cardinality(Back(pos)) \in Nat /\ LegCost \in Nat
    BY <1>7, FinitePlaces, FS_CardinalityType, RunnerAssumption
  <2>2. debit = LegCost * Cardinality(Bought(pos)) - Cardinality(Back(pos))
    BY LedgerMemory DEF LedgerInv
  <2>3. debit' = LegCost * (Cardinality(Bought(pos)) + Cardinality(got)) - Cardinality(Back(pos))
    BY <1>5, <2>1, <2>2
  <2> QED
    BY <1>13, <1>14, <2>3, LedgerMemory
<1>16. Len(shots'[k]) = 1
  <2>1. IInv
    BY DEF LedgerInv
  <2>2. Len(shots'[k]) = Len(shots[k]) + 1
    BY <1>1, <2>1, SlotRecord
  <2> QED
    BY <1>3, <2>2
<1>17. Books(Memory, k)'
  <2>1. pos'[k].legs = new
    BY <1>8
  <2>2. /\ Len(shots'[k]) # 0 /\ Len(new) <= 2 * Len(shots'[k])
        /\ \A i \in DOMAIN new : new[i].paid <= Payout /\ new[i].paid = 0
    BY <1>6, <1>16, RunnerAssumption
  <2> QED
    BY <2>1, <2>2, BooksMemory
<1> QED
  BY <1>1, <1>8, <1>15, <1>17, SlotRecord, OneLedger DEF LedgerInv

\* What one row has bought and paid back, when another takes its place.
LEMMA OtherRows ==
    ASSUME NEW p, NEW q, NEW k \in Key, \A j \in Key \ {k} : q[j] = p[j]
    PROVE  /\ \A x \in Places : x[1] # k => (x \in Bought(q) <=> x \in Bought(p))
           /\ \A u \in Places \X (1 .. Payout) :
                 u[1][1] # k => (u \in Back(q) <=> u \in Back(p))
<1>1. \A j \in Key : j # k => RowLegs(q, j) = RowLegs(p, j)
  BY DEF RowLegs
<1> QED
  BY <1>1 DEF Bought, Back, Places

LEMMA JoinedSeq ==
    ASSUME NEW S, NEW s \in Seq(S), NEW t \in Seq(S)
    PROVE  /\ s \o t \in Seq(S) /\ Len(s \o t) = Len(s) + Len(t)
           /\ Len(s) \in Nat /\ DOMAIN s = 1 .. Len(s)
           /\ DOMAIN (s \o t) = 1 .. (Len(s) + Len(t))
           /\ \A i \in DOMAIN s : (s \o t)[i] = s[i]
           /\ \A i \in 1 .. Len(t) : (s \o t)[Len(s) + i] = t[i]
           /\ \A i \in DOMAIN (s \o t) : i \notin DOMAIN s =>
                 i - Len(s) \in 1 .. Len(t) /\ (s \o t)[i] = t[i - Len(s)]
  OBVIOUS

LEMMA FireAgainLedger ==
    ASSUME LedgerInv, IInv', RowInv', \A b \in Bids : b <= Payout,
           NEW k \in Key, NEW in \in Inputs(k), NEW got \in SUBSET LegKinds,
           NEW bid \in Bids, FireAgain(k, in, got, bid)
    PROVE  LedgerInv'
<1> DEFINE old  == pos[k].legs
           sold == FirstHeldYes(old)
           kept == IF "YES" \in got THEN SellLeg(old, sold, bid) ELSE old
           add  == NewLegs(k, in, got, got)
           new  == kept \o add
           paid == IF "YES" \in got THEN {sold} ELSE {}
           back == Units(k, paid, bid)
           more == {i \in DOMAIN new : i \notin DOMAIN kept}
<1>1. MayFire(k, in) /\ TakeSlot(k, in, got) /\ disk' = disk /\ FiresUsed(k) >= 1
  BY DEF FireAgain, Outside
<1>2. fired[k] = "one" /\ IsOpen(k) /\ HeldYes(old) # {}
  BY <1>1, FiringRow DEF FiresUsed, LedgerInv
<1>3. pos[k] \in Position /\ old \in Seq(Leg) /\ bid \in Nat /\ bid <= Payout
  BY <1>2, OpenRowType, RunnerAssumption DEF LedgerInv, IInv
<1>4. sold \in HeldYes(old) /\ sold \in DOMAIN old /\ old[sold].st = "open"
  <2>1. \A i, j \in HeldYes(old) : i = j
    BY <1>2, RowMemory DEF RowInv, LedgerInv
  <2>2. sold \in HeldYes(old)
    BY <1>2, <1>3, <2>1, SaleIsFirstHeld
  <2> QED
    BY <2>2 DEF HeldYes
<1>5. add \in Seq(Leg)
  BY <1>1, NewLegsType DEF MayFire, CleanBreak, Followed, LedgerInv, IInv
<1>6. /\ kept \in Seq(Leg) /\ Len(kept) = Len(old) /\ DOMAIN kept = DOMAIN old
      /\ \A i \in DOMAIN old : /\ kept[i].filled = old[i].filled
                               /\ i \notin paid => kept[i] = old[i]
                               /\ i \in paid => kept[i].paid = bid /\ kept[i].st = "closed"
  <2>1. CASE "YES" \in got
    <3>1. kept = SellLeg(old, sold, bid) /\ paid = {sold}
      BY <2>1
    <3>2. SellLeg(old, sold, bid) \in Seq(Leg)
      BY <1>3, SellLegType
    <3> QED
      BY <1>3, <1>4, <3>1, <3>2, SoldLegs
  <2>2. CASE "YES" \notin got
    BY <1>3, <2>2
  <2> QED
    BY <2>1, <2>2
<1>7. /\ paid \subseteq DOMAIN old /\ IsFiniteSet(paid)
      /\ Cardinality(paid) = IF "YES" \in got THEN 1 ELSE 0
      /\ \A i \in paid : old[i].st = "open"
  BY <1>4, FS_Singleton, FS_EmptySet
<1> HIDE DEF kept, paid, add, sold, old
<1>8. PICK n \in 0 .. 2 :
           /\ DOMAIN add = 1 .. n /\ Len(add) = n
           /\ \A i \in 1 .. n : /\ add[i].out \in got /\ add[i].st = "open" /\ add[i].paid = 0
                                /\ add[i].filled <=> add[i].out \in got
  BY NewLegsShape DEF add
<1>9. /\ new \in Seq(Leg) /\ Len(new) = Len(old) + n /\ Len(old) \in Nat
      /\ DOMAIN old = 1 .. Len(old) /\ DOMAIN new = 1 .. (Len(old) + n)
      /\ \A i \in DOMAIN old : new[i] = kept[i]
      /\ \A i \in 1 .. n : new[Len(old) + i] = add[i]
      /\ \A i \in DOMAIN new : i \notin DOMAIN old => i - Len(old) \in 1 .. n
                                  /\ new[i] = add[i - Len(old)]
  BY <1>3, <1>5, <1>6, <1>8, JoinedSeq
<1>10. IsFiniteSet(more) /\ Cardinality(more) = Cardinality(got)
  <2> DEFINE S == {i \in DOMAIN add : add[i].filled}
             f == [i \in S |-> Len(old) + i]
  <2>1. IsFiniteSet(S) /\ Cardinality(S) = Cardinality(got)
    BY NewLegsCount DEF add
  <2>2. S = 1 .. n /\ \A i \in more : i - Len(old) \in 1 .. n
    BY <1>6, <1>8, <1>9
  <2>3. \A i \in 1 .. n : Len(old) + i \in more
    BY <1>6, <1>9
  <2> HIDE DEF more, S
  <2>4. f \in Bijection(S, more)
    <3>1. \A i \in S : f[i] \in more
      BY <2>2, <2>3
    <3>2. \A i, j \in S : f[i] = f[j] => i = j
      BY <1>9, <2>2
    <3>3. \A i \in more : i \in Int /\ Len(old) + (i - Len(old)) = i
      BY <1>9 DEF more
    <3>4. \A i \in more : \E j \in S : f[j] = i
      BY <2>2, <3>3
    <3> QED
      BY <3>1, <3>2, <3>4 DEF Bijection, Injection, Surjection, IsInjective
  <2> QED
    BY <2>1, <2>4, FS_Bijection DEF ExistsBijection
<1> HIDE DEF new
<1>11. pos' = [pos EXCEPT ![k].legs = new]
       /\ debit' = debit + LegCost * Cardinality(got) - (IF "YES" \in got THEN bid ELSE 0)
  BY DEF FireAgain, Cost, new, kept, add, sold, old
<1>12. /\ pos'[k] \in Position /\ pos'[k].legs = new
       /\ \A j \in Key \ {k} : pos'[j] = pos[j]
  BY <1>3, <1>9, <1>11, MemoryType DEF LedgerInv, IInv, TypeOK, Position
<1>13. RowLegs(pos, k) = old /\ RowLegs(pos', k) = new
  BY <1>3, <1>12, NoneIsNoRow DEF RowLegs, old
<1>14. Len(shots'[k]) = Len(shots[k]) + 1 /\ Len(shots[k]) \in Nat /\ Len(shots'[k]) <= 2
  <2>1. IInv
    BY DEF LedgerInv
  <2>2. Len(shots'[k]) <= 2
    BY SoundMemory DEF IInv, Sound, Accounted, Memory
  <2> QED
    BY <1>1, <2>1, <2>2, SlotRecord
<1>15. /\ Len(old) <= 2 * Len(shots[k])
       /\ \A i \in DOMAIN old : old[i].paid <= Payout /\ (old[i].st = "open" => old[i].paid = 0)
  <2>1. pos[k] # None /\ Books(Memory, k)
    BY <1>2 DEF IsOpen, LedgerInv
  <2> QED
    BY <2>1, BooksMemory DEF old
<1>16. Len(new) <= 2 * Len(shots'[k]) /\ DOMAIN new \subseteq 1 .. 4
  BY <1>9, <1>14, <1>15
<1>17. Bought(pos') = Bought(pos) \cup At(k, more)
  <2>1. \A i \in more : i \in DOMAIN new /\ new[i].filled
    BY <1>6, <1>8, <1>9
  <2>2. \A i \in DOMAIN new : i \in DOMAIN old \/ i \in more
    BY <1>6
  <2>3. \A i \in DOMAIN old : i \in DOMAIN new /\ (new[i].filled <=> old[i].filled)
    BY <1>6, <1>9
  <2> HIDE DEF more
  <2>4. \A i \in 1 .. 4 : <<k, i>> \in Bought(pos') <=> <<k, i>> \in Bought(pos) \/ i \in more
    BY <1>13, <1>16, <2>1, <2>2, <2>3 DEF Bought, Places
  <2>5. \A i \in more : <<k, i>> \in Places
    BY <1>16, <2>1 DEF Places
  <2>6. /\ Bought(pos) \subseteq Places /\ Bought(pos') \subseteq Places
        /\ \A x \in Places : x = <<x[1], x[2]>> /\ x[2] \in 1 .. 4
    BY DEF Bought, Places
  <2>7. \A x \in Places : x[1] # k => (x \in Bought(pos') <=> x \in Bought(pos))
    BY <1>12, OtherRows
  <2> QED
    BY <2>4, <2>5, <2>6, <2>7 DEF At
<1>18. Cardinality(Bought(pos')) = Cardinality(Bought(pos)) + Cardinality(got)
  <2>1. IsFiniteSet(Bought(pos))
    BY FinitePlaces
  <2>2. \A i \in more : <<k, i>> \notin Bought(pos)
    BY <1>6, <1>13 DEF Bought
  <2> HIDE DEF more
  <2>3. Cardinality(Bought(pos) \cup At(k, more))
          = Cardinality(Bought(pos)) + Cardinality(more)
    BY <1>10, <2>1, <2>2, AddPlaces
  <2> QED
    BY <1>10, <1>17, <2>3
<1>19. /\ Back(pos') = Back(pos) \cup back
       /\ \A i \in paid, u \in 1 .. bid : <<<<k, i>>, u>> \notin Back(pos)
  <2>1. \A i \in DOMAIN new : \/ i \in paid /\ new[i].paid = bid /\ old[i].paid = 0
                                 /\ i \in DOMAIN old
                              \/ i \notin paid /\ i \in DOMAIN old /\ new[i].paid = old[i].paid
                              \/ i \notin paid /\ i \notin DOMAIN old /\ new[i].paid = 0
    BY <1>6, <1>7, <1>8, <1>9, <1>15
  <2>2. DOMAIN old \subseteq DOMAIN new
    BY <1>9
  <2>3. \A i \in 1 .. 4, m \in 1 .. Payout :
           <<<<k, i>>, m>> \in Back(pos') <=>
              <<<<k, i>>, m>> \in Back(pos) \/ (i \in paid /\ m \in 1 .. bid)
    BY <1>3, <1>7, <1>13, <1>16, <2>1, <2>2, RunnerAssumption DEF Back, Places
  <2>4. \A i \in paid : i \in 1 .. 4
    BY <1>7, <1>16, <2>2
  <2>5. \A m \in 1 .. bid : m \in 1 .. Payout
    BY <1>3, RunnerAssumption
  <2>6. \A i \in 1 .. 4, m \in 1 .. Payout :
           <<<<k, i>>, m>> \in back <=> i \in paid /\ m \in 1 .. bid
    BY UnitsMember
  <2>7. \A u \in back : /\ u = <<<<k, u[1][2]>>, u[2]>>
                        /\ u[1][2] \in 1 .. 4 /\ u[2] \in 1 .. Payout
    BY <2>4, <2>5 DEF Units
  <2>8. /\ Back(pos) \subseteq Places \X (1 .. Payout)
        /\ Back(pos') \subseteq Places \X (1 .. Payout)
        /\ \A u \in Places \X (1 .. Payout) :
              u = <<<<u[1][1], u[1][2]>>, u[2]>> /\ u[1][2] \in 1 .. 4 /\ u[2] \in 1 .. Payout
        /\ \A i \in 1 .. 4, m \in 1 .. Payout : <<<<k, i>>, m>> \in Places \X (1 .. Payout)
    BY DEF Back, Places
  <2>9. \A u \in Places \X (1 .. Payout) :
                 u[1][1] # k => (u \in Back(pos') <=> u \in Back(pos))
    BY <1>12, OtherRows
  <2>10. \A i \in paid, u \in 1 .. bid : <<<<k, i>>, u>> \notin Back(pos)
    BY <1>3, <1>7, <1>13, <1>15 DEF Back
  <2> HIDE DEF back
  <2>11. \A u \in Back(pos') : u \in Back(pos) \/ u \in back
    BY <2>3, <2>6, <2>8, <2>9
  <2>12. \A u \in Back(pos) : u \in Back(pos')
    BY <2>3, <2>8, <2>9
  <2>13. \A u \in back : u \in Back(pos')
    BY <2>3, <2>6, <2>7
  <2> QED
    BY <2>10, <2>11, <2>12, <2>13
<1>20. Cardinality(Back(pos')) = Cardinality(Back(pos)) + bid * Cardinality(paid)
  <2>1. IsFiniteSet(Back(pos))
    BY FinitePlaces
  <2>2. Cardinality(Back(pos) \cup back) = Cardinality(Back(pos)) + bid * Cardinality(paid)
    BY <1>3, <1>7, <1>19, <2>1, AddUnits
  <2> QED
    BY <1>19, <2>2
<1>21. Balanced(Memory)'
  <2>1. /\ Cardinality(Bought(pos)) \in Nat /\ Cardinality(got) \in Nat
        /\ Cardinality(Back(pos)) \in Nat /\ LegCost \in Nat
    BY <1>10, FinitePlaces, FS_CardinalityType, RunnerAssumption
  <2>2. debit = LegCost * Cardinality(Bought(pos)) - Cardinality(Back(pos))
    BY LedgerMemory DEF LedgerInv
  <2>3. bid * Cardinality(paid) = IF "YES" \in got THEN bid ELSE 0
    BY <1>3, <1>7
  <2>4. debit' = LegCost * (Cardinality(Bought(pos)) + Cardinality(got))
                   - (Cardinality(Back(pos)) + bid * Cardinality(paid))
    BY <1>3, <1>11, <2>1, <2>2, <2>3
  <2> QED
    BY <1>18, <1>20, <2>4, LedgerMemory
<1>22. Books(Memory, k)'
  <2>1. \A i \in DOMAIN new : /\ new[i].paid <= Payout
                              /\ new[i].st = "open" => new[i].paid = 0
    <3>1. Payout \in Nat
      BY RunnerAssumption
    <3>2. \A i \in DOMAIN old : new[i].paid <= Payout /\ (new[i].st = "open" => new[i].paid = 0)
      BY <1>3, <1>6, <1>9, <1>15
    <3>3. \A i \in DOMAIN new : i \notin DOMAIN old => new[i].paid = 0
      BY <1>8, <1>9
    <3> QED
      BY <3>1, <3>2, <3>3
  <2>2. Len(shots'[k]) # 0
    BY <1>14
  <2> QED
    BY <1>12, <1>16, <2>1, <2>2, BooksMemory
<1> QED
  BY <1>1, <1>12, <1>21, <1>22, SlotRecord, OneLedger DEF LedgerInv

LEMMA SettleLegBooks ==
    ASSUME NEW leg \in Leg, NEW win, NEW resolved, leg.paid <= Payout,
           leg.st = "open" => leg.paid = 0
    PROVE  LET new == SettleLeg(leg, win, resolved)
               pays == leg.st = "open" /\ new.st = "won" /\ leg.filled
           IN  /\ new.filled = leg.filled
               /\ new.paid <= Payout
               /\ new.st = "open" => new.paid = 0
               /\ pays => new.paid = Payout /\ leg.paid = 0
               /\ ~pays => new.paid = leg.paid
<1> DEFINE won == LegWon(leg, win)
           new == SettleLeg(leg, win, resolved)
<1>0. Payout \in Nat /\ leg.paid \in Nat
  BY RunnerAssumption DEF Leg
<1>1. CASE leg.st # "open" \/ leg.bucket \notin resolved
  <2>1. new = leg
    BY <1>1, Zenon DEF SettleLeg
  <2> QED
    BY <1>0, <1>1, <2>1
<1>2. CASE leg.st = "open" /\ leg.bucket \in resolved
  <2>1. new = [leg EXCEPT !.st = IF won THEN "won" ELSE "lost",
                          !.paid = IF won /\ leg.filled THEN Payout ELSE 0]
    BY <1>2, Zenon DEF SettleLeg
  <2> HIDE DEF won
  <2>2. /\ new.st = IF won THEN "won" ELSE "lost"
        /\ new.paid = IF won /\ leg.filled THEN Payout ELSE 0
        /\ new.filled = leg.filled
    BY <2>1 DEF Leg
  <2> HIDE DEF new
  <2> QED
    BY <1>0, <1>2, <2>2 DEF new
<1> QED
  BY <1>1, <1>2

LEMMA SettleLedger ==
    ASSUME LedgerInv, IInv', RowInv', NEW k \in Key, NEW win, NEW resolved,
           SettlePosition(k, win, resolved)
    PROVE  LedgerInv'
<1> DEFINE old  == pos[k].legs
           new  == [i \in DOMAIN old |-> SettleLeg(old[i], win, resolved)]
           over == \A i \in DOMAIN new : new[i].st # "open"
           pays(i) == old[i].st = "open" /\ new[i].st = "won" /\ old[i].filled
           paid == {i \in DOMAIN old : pays(i)}
           back == Units(k, paid, Payout)
<1>1. /\ pos' = [pos EXCEPT ![k] = [settled |-> over, legs |-> new]]
      /\ debit' = debit - Payout * Cardinality(paid)
      /\ UNCHANGED <<disk, shots>> /\ IsOpen(k)
  BY DEF SettlePosition, sections
<1>2. pos[k] \in Position /\ old \in Seq(Leg) /\ DOMAIN old = 1 .. Len(old) /\ Len(old) \in Nat
  <2>1. pos[k] \in Position /\ old \in Seq(Leg)
    BY <1>1, OpenRowType DEF LedgerInv, IInv
  <2> QED
    BY <2>1
<1>3. /\ Len(shots[k]) # 0 /\ Len(old) <= 2 * Len(shots[k])
      /\ \A i \in DOMAIN old : old[i].paid <= Payout /\ (old[i].st = "open" => old[i].paid = 0)
  <2>1. pos[k] # None /\ Books(Memory, k)
    BY <1>1 DEF IsOpen, LedgerInv
  <2> QED
    BY <2>1, BooksMemory
<1>4. DOMAIN new = DOMAIN old /\ \A i \in DOMAIN old : new[i] = SettleLeg(old[i], win, resolved)
  OBVIOUS
<1>5. \A i \in DOMAIN old :
         /\ new[i].filled = old[i].filled /\ new[i].paid <= Payout
         /\ new[i].st = "open" => new[i].paid = 0
         /\ i \in paid => new[i].paid = Payout /\ old[i].paid = 0
         /\ i \notin paid => new[i].paid = old[i].paid
  <2> TAKE i \in DOMAIN old
  <2>1. old[i] \in Leg /\ old[i].paid <= Payout /\ (old[i].st = "open" => old[i].paid = 0)
    BY <1>2, <1>3
  <2>2. LET x == SettleLeg(old[i], win, resolved)
            p == old[i].st = "open" /\ x.st = "won" /\ old[i].filled
        IN  /\ x.filled = old[i].filled /\ x.paid <= Payout
            /\ x.st = "open" => x.paid = 0
            /\ p => x.paid = Payout /\ old[i].paid = 0
            /\ ~p => x.paid = old[i].paid
    BY <2>1, SettleLegBooks
  <2>3. new[i] = SettleLeg(old[i], win, resolved)
    OBVIOUS
  <2> HIDE DEF new
  <2> QED
    BY <2>2, <2>3
<1>6. paid \subseteq DOMAIN old
  OBVIOUS
<1> HIDE DEF new, paid, over
<1>7. /\ pos'[k] = [settled |-> over, legs |-> new]
      /\ \A j \in Key \ {k} : pos'[j] = pos[j]
  BY <1>1, MemoryType DEF LedgerInv, IInv, TypeOK
<1>8. new \in Seq(Leg)
  <2>1. \A leg \in Leg : SettleLeg(leg, win, resolved) \in Leg
    BY RunnerAssumption DEF SettleLeg, Leg
  <2> QED
    BY <1>2, <2>1 DEF new
<1>9. RowLegs(pos, k) = old /\ RowLegs(pos', k) = new /\ pos'[k].legs = new
  <2>1. over \in BOOLEAN
    BY DEF over
  <2>2. [settled |-> over, legs |-> new] \in Position
    BY <1>8, <2>1 DEF Position
  <2> QED
    BY <1>2, <1>7, <2>2, NoneIsNoRow DEF RowLegs
<1> HIDE DEF old
<1>10. Len(new) = Len(old)
  BY <1>2, <1>4, <1>8
<1>11. DOMAIN old \subseteq 1 .. 4
  <2>1. Len(shots[k]) \in Nat /\ Len(shots[k]) <= 2
    BY MemoryType, SoundMemory DEF LedgerInv, IInv, TypeOK
  <2> QED
    BY <1>2, <1>3, <2>1
<1>12. Bought(pos') = Bought(pos)
  <2>1. \A i \in 1 .. 4 : <<k, i>> \in Bought(pos') <=> <<k, i>> \in Bought(pos)
    BY <1>4, <1>5, <1>9 DEF Bought, Places
  <2>2. /\ Bought(pos) \subseteq Places /\ Bought(pos') \subseteq Places
        /\ \A x \in Places : x = <<x[1], x[2]>> /\ x[2] \in 1 .. 4
    BY DEF Bought, Places
  <2>3. \A x \in Places : x[1] # k => (x \in Bought(pos') <=> x \in Bought(pos))
    BY <1>7, OtherRows
  <2> QED
    BY <2>1, <2>2, <2>3
<1>13. Payout \in Nat
  BY RunnerAssumption
<1>14. /\ Back(pos') = Back(pos) \cup back
       /\ \A i \in paid, u \in 1 .. Payout : <<<<k, i>>, u>> \notin Back(pos)
  <2>1. \A i \in DOMAIN old : \/ i \in paid /\ new[i].paid = Payout /\ old[i].paid = 0
                              \/ i \notin paid /\ new[i].paid = old[i].paid
    BY <1>5
  <2>2. \A i \in 1 .. 4, m \in 1 .. Payout :
           <<<<k, i>>, m>> \in Back(pos') <=> <<<<k, i>>, m>> \in Back(pos) \/ i \in paid
    BY <1>4, <1>6, <1>9, <1>11, <1>13, <2>1 DEF Back, Places
  <2>3. \A i \in 1 .. 4, m \in 1 .. Payout : <<<<k, i>>, m>> \in back <=> i \in paid
    BY UnitsMember
  <2>4. \A u \in back : /\ u = <<<<k, u[1][2]>>, u[2]>>
                        /\ u[1][2] \in 1 .. 4 /\ u[2] \in 1 .. Payout
    BY <1>6, <1>11 DEF Units
  <2>5. /\ Back(pos) \subseteq Places \X (1 .. Payout)
        /\ Back(pos') \subseteq Places \X (1 .. Payout)
        /\ \A u \in Places \X (1 .. Payout) :
              u = <<<<u[1][1], u[1][2]>>, u[2]>> /\ u[1][2] \in 1 .. 4 /\ u[2] \in 1 .. Payout
    BY DEF Back, Places
  <2>6. \A u \in Places \X (1 .. Payout) :
                 u[1][1] # k => (u \in Back(pos') <=> u \in Back(pos))
    BY <1>7, OtherRows
  <2>7. \A i \in paid, u \in 1 .. Payout : <<<<k, i>>, u>> \notin Back(pos)
    BY <1>5, <1>6, <1>9 DEF Back
  <2> HIDE DEF back
  <2>8. \A u \in Back(pos') : u \in Back(pos) \/ u \in back
    BY <2>2, <2>3, <2>5, <2>6
  <2>9. \A u \in Back(pos) : u \in Back(pos')
    BY <2>2, <2>5, <2>6
  <2>10. \A u \in back : u \in Back(pos')
    BY <2>2, <2>3, <2>4
  <2> QED
    BY <2>7, <2>8, <2>9, <2>10
<1>15. IsFiniteSet(paid) /\ Cardinality(paid) \in Nat
  <2>1. IsFiniteSet(1 .. Len(old))
    BY <1>2, FS_Interval
  <2> QED
    BY <1>2, <1>6, <2>1, FS_Subset, FS_CardinalityType
<1>16. Cardinality(Back(pos')) = Cardinality(Back(pos)) + Payout * Cardinality(paid)
  <2>1. IsFiniteSet(Back(pos))
    BY FinitePlaces
  <2>2. \A i \in paid, u \in 1 .. Payout : <<<<k, i>>, u>> \notin Back(pos)
    BY <1>14
  <2>3. IsFiniteSet(paid)
    BY <1>15
  <2>4. Cardinality(Back(pos) \cup back) = Cardinality(Back(pos)) + Payout * Cardinality(paid)
    BY <1>13, <2>1, <2>2, <2>3, AddUnits
  <2> QED
    BY <1>14, <2>4
<1>17. Balanced(Memory)'
  <2>1. /\ Cardinality(Bought(pos)) \in Nat /\ Cardinality(Back(pos)) \in Nat /\ LegCost \in Nat
    BY FinitePlaces, FS_CardinalityType, RunnerAssumption
  <2>2. debit = LegCost * Cardinality(Bought(pos)) - Cardinality(Back(pos))
    BY LedgerMemory DEF LedgerInv
  <2>3. debit' = LegCost * Cardinality(Bought(pos))
                   - (Cardinality(Back(pos)) + Payout * Cardinality(paid))
    BY <1>1, <1>13, <1>15, <2>1, <2>2
  <2> QED
    BY <1>12, <1>16, <2>3, LedgerMemory
<1>18. Books(Memory, k)'
  BY <1>1, <1>3, <1>4, <1>5, <1>9, <1>10, BooksMemory
<1> QED
  BY <1>1, <1>7, <1>17, <1>18, OneLedger

LEMMA MaybeArmOrFireLedger ==
    ASSUME LedgerInv, IInv', RowInv', \A b \in Bids : b <= Payout,
           NEW k \in Key, MaybeArmOrFire(k)
    PROVE  LedgerInv'
<1>0. \A j \in Key : Len(shots[j]) \in Nat
  BY MemoryType DEF LedgerInv, IInv, TypeOK
<1>1. ASSUME UNCHANGED <<pos, debit, disk, shots>> PROVE LedgerInv'
  BY <1>0, <1>1, CalmLedger
<1>2. CASE SkipNoObs(k) \/ SkipSpent(k) \/ LockOpenPosition(k) \/ SkipRefused(k)
  BY <1>1, <1>2
     DEF SkipNoObs, SkipSpent, LockOpenPosition, SkipRefused, Quiet, Outside, ledger
<1>3. ASSUME NEW in \in Inputs(k),
             \/ SkipNoReference(k, in) \/ Arm(k, in) \/ Watch(k, in)
             \/ SkipUntimely(k, in) \/ LockBreak(k, in) \/ SkipDisagreed(k, in)
      PROVE  LedgerInv'
  BY <1>1, <1>3
     DEF SkipNoReference, Arm, Watch, SkipUntimely, LockBreak, SkipDisagreed, Outside, ledger
<1>4. ASSUME NEW in \in Inputs(k), NEW got \in SUBSET LegKinds,
             StandDown(k, in, got) \/ FireRaises(k, in, got)
      PROVE  LedgerInv'
  <2>1. TakeSlot(k, in, got) /\ UNCHANGED <<pos, debit, disk>>
    BY <1>4 DEF StandDown, FireRaises, Outside, ledger
  <2>2. /\ Len(shots'[k]) = Len(shots[k]) + 1
        /\ \A j \in Key \ {k} : shots'[j] = shots[j]
    BY <2>1, SlotRecord DEF LedgerInv
  <2> QED
    BY <1>0, <2>1, <2>2, CalmLedger
<1>5. ASSUME NEW in \in Inputs(k), NEW got \in SUBSET LegKinds, FireFirst(k, in, got)
      PROVE  LedgerInv'
  BY <1>5, FireFirstLedger
<1>6. ASSUME NEW in \in Inputs(k), NEW got \in SUBSET LegKinds, NEW bid \in Bids,
             FireAgain(k, in, got, bid)
      PROVE  LedgerInv'
  BY <1>6, FireAgainLedger
<1> QED
  BY <1>2, <1>3, <1>4, <1>5, <1>6 DEF MaybeArmOrFire

LEMMA LedgerStep ==
    ASSUME MaxEdits = 0, \A b \in Bids : b <= Payout
    PROVE  LedgerInv /\ [Next]_vars => LedgerInv'
<1> SUFFICES ASSUME LedgerInv, [Next]_vars PROVE LedgerInv'
  OBVIOUS
<1>0. IInv' /\ RowInv'
  BY SafetyStep, RowStep DEF LedgerInv
<1>1. ASSUME NEW k \in Key, MaybeArmOrFire(k) PROVE LedgerInv'
  BY <1>0, <1>1, MaybeArmOrFireLedger
<1>2. CASE SettleMarkets
  BY <1>0, <1>2, SettleLedger DEF SettleMarkets
<1>3. ASSUME StartCycle \/ EmptyUniverse \/ SaveState \/ Crash \/ CycleError \/ Tick
             \/ UNCHANGED vars \/ \E K \in SUBSET Cities : EditRegistry(K)
      PROVE  LedgerInv'
  <2>1. \/ UNCHANGED <<pos, debit, shots, disk>>
        \/ /\ Memory' = Memory \/ Memory' = disk
           /\ disk' = Memory \/ disk' = disk
    BY <1>3 DEF StartCycle, EmptyUniverse, SaveState, Crash, CycleError, Tick, EditRegistry,
                vars, Memory, sections, ledger, LedgerInv, IInv, TypeOK, StateFile
  <2>2. CASE UNCHANGED <<pos, debit, shots, disk>>
    <3>1. \A j \in Key : Len(shots[j]) \in Nat
      BY MemoryType DEF LedgerInv, IInv, TypeOK
    <3> QED
      BY <1>0, <2>2, <3>1, CalmLedger
  <2>3. CASE (Memory' = Memory \/ Memory' = disk) /\ (disk' = Memory \/ disk' = disk)
    <3>1. \A k \in Key : Books(Memory, k)' /\ Books(disk, k)'
      BY <2>3 DEF LedgerInv
    <3>2. Balanced(Memory)' /\ Balanced(disk)'
      BY <2>3 DEF LedgerInv
    <3> QED
      BY <1>0, <3>1, <3>2 DEF LedgerInv
  <2> QED
    BY <2>1, <2>2, <2>3
<1> QED
  BY <1>1, <1>2, <1>3 DEF Next, RunCycle, Environment

LEMMA LedgerInit == Init => LedgerInv
<1> SUFFICES ASSUME Init PROVE LedgerInv
  OBVIOUS
<1>1. IInv /\ RowInv
  BY SafetyInit, RowInit
<1>2. disk = Memory /\ \A k \in Key : Books(Memory, k)
  BY BooksMemory DEF Init
<1>3. Bought(pos) = {} /\ Back(pos) = {}
  <2>1. \A k \in Key : RowLegs(pos, k) = <<>>
    BY DEF Init, RowLegs
  <2> QED
    BY <2>1 DEF Bought, Back, Places
<1>4. Balanced(Memory)
  <2>1. Cardinality(Bought(pos)) = 0 /\ Cardinality(Back(pos)) = 0
    BY <1>3, FS_EmptySet
  <2> QED
    BY <2>1, LedgerMemory, RunnerAssumption DEF Init
<1> QED
  BY <1>1, <1>2, <1>4 DEF LedgerInv

\* What the ledger is down is in the legs of some row, and what came back is booked on
\* the leg it came from: no fire, sale, redemption, refusal or restart loses a unit.
THEOREM LedgerIsTheLegs ==
    ASSUME MaxEdits = 0, \A b \in Bids : b <= Payout
    PROVE  Spec => []LedgerMatchesLegs
<1>1. LedgerInv => LedgerMatchesLegs
  BY LedgerMemory DEF LedgerInv
<1>2. LedgerInv /\ [Next]_vars => LedgerInv'
  BY LedgerStep
<1> QED
  BY <1>1, <1>2, LedgerInit, PTL DEF Spec
================================================================================
