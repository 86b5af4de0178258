----------------------------- MODULE MetarCadence ------------------------------
(***************************************************************************)
(* When a cycle of run_cycle asks for observations, and what it then knows: *)
(* the whole universe on the idle pace, the stations of armed sessions on   *)
(* the armed pace, and a station whose book has just moved at once.  The    *)
(* last observation of each station is kept in memory between cycles.       *)
(*                                                                         *)
(* An observation is the number of the report it comes from, 0 for none; a  *)
(* forecast is what parse_tx_tn found in it.  Between two cycles the runner *)
(* sleeps, shorter while a session is armed.                                *)
(***************************************************************************)
EXTENDS Integers, FiniteSets

CONSTANTS
    Stations,   \* the ICAO codes of the active cities
    Sessions,   \* the session keys city|date|direction that may be armed
    StationOf,  \* per session, the station of its city
    Keyed,      \* there is a CheckWX key
    Reports,    \* bound: reports a station publishes
    Idle,       \* idle_metar_interval_seconds
    Arm,        \* arm_metar_interval_seconds
    TafEvery,   \* taf_refresh_interval_seconds
    Cooldown,   \* _WS_METAR_COOLDOWN_S
    FastPoll,   \* fast_poll_interval_seconds
    Scan,       \* scan_interval_seconds
    Late        \* bound: how much longer than its sleep a cycle may take

ASSUME CadenceAssumption ==
    /\ IsFiniteSet(Stations) /\ Stations # {}
    /\ StationOf \in [Sessions -> Stations] /\ Keyed \in BOOLEAN
    /\ {Reports, Idle, Arm, TafEvery, Cooldown, FastPoll, Scan} \subseteq Nat \ {0}
    /\ Late \in Nat

VARIABLES
    published,  \* reports each station has published
    armed,      \* the armed sessions
    last,       \* _LAST_GOOD_METAR
    forecast,   \* _LAST_GOOD_TAF: the stations with a TX or TN
    since,      \* time since each stamp, up to the interval that makes it due
    quiet,      \* per station, time since its early pull, up to the cooldown
    pc,         \* where the cycle is
    did,        \* the cycle's do_metar
    touched,    \* the cycle's _ws_touched_icaos
    seen,       \* the cycle's metar_by_icao
    nap,        \* how long the runner sleeps
    wait        \* history: per station, how long it has been armed and not asked for

memory == <<last, forecast, since, quiet>>
cycle  == <<pc, did, touched, seen>>
vars   == <<published, armed, memory, cycle, nap, wait>>

Observations == [Stations -> 0 .. Reports]
NoObs == [s \in Stations |-> 0]
Having(obs) == {s \in Stations : obs[s] # 0}
Phases == {"asleep", "full", "fast", "early", "taf", "strategy"}

TypeOK ==
    /\ {published, last, seen} \subseteq Observations
    /\ armed \subseteq Sessions /\ {touched, forecast} \subseteq SUBSET Stations
    /\ since \in [full : 0 .. Idle, fast : 0 .. Arm, taf : 0 .. TafEvery]
    /\ quiet \in [Stations -> 0 .. Cooldown] /\ wait \in [Stations -> 0 .. Arm]
    /\ pc \in Phases /\ did \in BOOLEAN /\ nap \in {FastPoll, Scan}

\* Never stamped: every interval is over.
Overdue == [full |-> Idle, fast |-> Arm, taf |-> TafEvery]

Init ==
    /\ published = NoObs /\ armed = {} /\ last = NoObs /\ forecast = {}
    /\ since = Overdue /\ quiet = [s \in Stations |-> Cooldown]
    /\ pc = "asleep" /\ did = FALSE /\ touched = {} /\ seen = NoObs
    /\ nap = Scan /\ wait = [s \in Stations |-> 0]

-----------------------------------------------------------------------------
(* Sources *)

Merge(obs, fresh) == [s \in Stations |-> IF fresh[s] # 0 THEN fresh[s] ELSE obs[s]]

\* One source: any of the stations asked for, each with any report of its own; none if
\* the request fails.
Answers(asked) ==
    {obs \in Observations : \A s \in Stations : IF s \in asked THEN obs[s] <= published[s]
                                                ELSE obs[s] = 0}
Newest(asked) == [s \in Stations |-> IF s \in asked THEN published[s] ELSE 0]

\* CheckWX, if there is a key, and the AWC for what it has left out: an answer of the
\* first stands however old it is.
Primary(asked) == IF Keyed THEN Answers(asked) ELSE {NoObs}
Fetched(asked) ==
    UNION {{Merge(backup, check) : backup \in Answers(asked \ Having(check))}
           : check \in Primary(asked)}

Asked(asked) == wait' = [s \in Stations |-> IF s \in asked THEN 0 ELSE wait[s]]

Publish ==
    /\ \E s \in Stations : /\ published[s] < Reports
                           /\ published' = [published EXCEPT ![s] = @ + 1]
    /\ UNCHANGED <<armed, memory, cycle, nap, wait>>

-----------------------------------------------------------------------------
(* One cycle *)

Older(age, dt, due) == IF age + dt < due THEN age + dt ELSE due

ArmedIcaos(keys) == {StationOf[k] : k \in keys}

\* The stations the early pull asks for: those of armed sessions of which a book has just
\* moved, each once in its cooldown.
Touched(moved, rested) == {s \in ArmedIcaos(moved) : rested[s] = Cooldown}

\* The runner wakes after its sleep and whatever the cycle before took; prune drops
\* sessions; the feed has moved some of the books of those that stay armed.
Begin(dt) ==
    /\ pc = "asleep" /\ pc' = "full"
    /\ \E kept \in SUBSET armed :
          /\ armed' = kept
          /\ wait' = [s \in Stations |->
                        IF s \in ArmedIcaos(kept) THEN Older(wait[s], dt, Arm) ELSE 0]
          /\ LET rested == [s \in Stations |-> Older(quiet[s], dt, Cooldown)]
             IN \E moved \in SUBSET kept :
                   /\ touched' = Touched(moved, rested)
                   /\ quiet' = [s \in Stations |-> IF s \in touched' THEN 0 ELSE rested[s]]
    /\ since' = [full |-> Older(since.full, dt, Idle), fast |-> Older(since.fast, dt, Arm),
                 taf |-> Older(since.taf, dt, TafEvery)]
    /\ UNCHANGED <<published, last, forecast, did, seen, nap>>

\* The pull of the whole universe.  An answer, however small, takes the place of all
\* that was known; no answer leaves it, and leaves the pull due.
TakeFullCleared(obs) ==         \* mutant: cleared before the answer is looked at
    /\ last' = obs /\ seen' = obs
    /\ since' = IF obs = NoObs THEN since ELSE [since EXCEPT !.full = 0]
TakeFull(obs) ==
    IF obs = NoObs THEN seen' = last /\ UNCHANGED <<last, since>>
    ELSE last' = obs /\ seen' = obs /\ since' = [since EXCEPT !.full = 0]

FullDue == since.full = Idle
FullPull ==
    /\ pc = "full" /\ pc' = "fast" /\ did' = FullDue
    /\ IF FullDue THEN (\E obs \in Fetched(Stations) : TakeFull(obs)) /\ Asked(Stations)
       ELSE seen' = last /\ UNCHANGED <<last, since, wait>>
    /\ UNCHANGED <<published, armed, forecast, quiet, touched, nap>>

\* The pull of the armed stations, unless the cycle has just tried all of them.
TakeFastShared(obs) ==          \* mutant: one stamp for both pulls
    IF obs = NoObs THEN UNCHANGED <<last, seen, since>>
    ELSE /\ last' = Merge(last, obs) /\ seen' = Merge(seen, obs)
         /\ since' = [since EXCEPT !.fast = 0, !.full = 0]
TakeFast(obs) ==
    IF obs = NoObs THEN UNCHANGED <<last, seen, since>>
    ELSE /\ last' = Merge(last, obs) /\ seen' = Merge(seen, obs)
         /\ since' = [since EXCEPT !.fast = 0]
FastPull ==
    /\ pc = "fast" /\ pc' = "early"
    /\ IF armed # {} /\ ~did /\ since.fast = Arm
       THEN LET asked == ArmedIcaos(armed)
            IN (\E obs \in Fetched(asked) : TakeFast(obs)) /\ Asked(asked)
       ELSE UNCHANGED <<last, seen, since, wait>>
    /\ UNCHANGED <<published, armed, forecast, quiet, did, touched, nap>>

\* The early pull, of the touched stations that the cycle has no observation of.
TakeEarlyStamped(obs) ==        \* mutant: counts as a pull of the armed stations
    /\ last' = Merge(last, obs) /\ seen' = Merge(seen, obs)
    /\ since' = [since EXCEPT !.fast = IF obs = NoObs THEN @ ELSE 0]
TakeEarlyUnseen(obs) ==         \* mutant: remembered, but not handed to this cycle
    last' = Merge(last, obs) /\ UNCHANGED <<seen, since>>
TakeEarly(obs) ==
    last' = Merge(last, obs) /\ seen' = Merge(seen, obs) /\ UNCHANGED since
EarlyPull ==
    /\ pc = "early" /\ pc' = "taf"
    /\ LET asked == touched \ Having(seen)
       IN IF ~did /\ asked # {}
          THEN (\E obs \in Fetched(asked) : TakeEarly(obs)) /\ Asked(asked)
          ELSE UNCHANGED <<last, seen, since, wait>>
    /\ UNCHANGED <<published, armed, forecast, quiet, did, touched, nap>>

\* The forecasts with a TX or TN, from CheckWX alone, which may fail or leave some out.
FetchTaf == IF Keyed THEN SUBSET Stations ELSE {{}}
TakeTaf(got) ==
    IF got = {} THEN UNCHANGED <<forecast, since>>
    ELSE forecast' = got /\ since' = [since EXCEPT !.taf = 0]
TafPull ==
    /\ pc = "taf" /\ pc' = "strategy"
    /\ IF since.taf = TafEvery THEN \E got \in FetchTaf : TakeTaf(got)
       ELSE UNCHANGED <<forecast, since>>
    /\ UNCHANGED <<published, armed, last, quiet, did, touched, seen, nap, wait>>

\* The strategy arms and disarms; it sees only stations with an observation.  What is
\* armed in the end sets the sleep.
Strategy ==
    /\ pc = "strategy" /\ pc' = "asleep"
    /\ \E a \in SUBSET Sessions :
          /\ ArmedIcaos((a \ armed) \cup (armed \ a)) \subseteq Having(seen)
          /\ armed' = a /\ nap' = IF a # {} THEN FastPoll ELSE Scan
    /\ did' = FALSE /\ touched' = {} /\ seen' = NoObs
    /\ UNCHANGED <<published, memory, wait>>

\* The cycle raises somewhere; the runner keeps its memory and sleeps the long sleep.
CycleError ==
    /\ pc # "asleep" /\ pc' = "asleep" /\ nap' = Scan
    /\ did' = FALSE /\ touched' = {} /\ seen' = NoObs
    /\ UNCHANGED <<published, armed, memory, wait>>

\* The process dies and is started again, with the armed sessions of its state file.
Restart ==
    /\ pc' = "asleep" /\ did' = FALSE /\ touched' = {} /\ seen' = NoObs
    /\ last' = NoObs /\ forecast' = {} /\ since' = Overdue
    /\ quiet' = [s \in Stations |-> Cooldown] /\ nap' = Scan
    /\ UNCHANGED <<published, armed, wait>>

Wake == \E dt \in nap .. nap + Late : Begin(dt)
\* The runner goes on from cycle to cycle, and sources that are asked for all stations
\* again and again answer in full again and again.
Step == Wake \/ FullPull \/ FastPull \/ EarlyPull \/ TafPull \/ Strategy \/ CycleError
Next == Publish \/ Step \/ Restart
Spec == Init /\ [][Next]_vars

FullAnswer == FullPull /\ FullDue /\ last' = Newest(Stations)
FairSpec == Spec /\ WF_vars(Step) /\ SF_vars(FullAnswer)

-----------------------------------------------------------------------------
(* Properties *)

\* The strategy decides on what the next cycle will remember: no pull of the cycle is
\* handed over and forgotten, or remembered and not handed over.
SeenIsRemembered == pc = "strategy" => seen = last

\* The strategy never decides about an armed station whose sources have been left alone
\* for an armed interval, whichever of the three pulls has asked for it.
ArmedIsAskedFor == pc = "strategy" => \A s \in ArmedIcaos(armed) : wait[s] < Arm

\* A pull that answers nothing costs nothing: an observation is lost only when the whole
\* universe has answered without it, a forecast likewise, or with the process.
JitterErasesNothing ==
    [][\/ Restart
       \/ /\ Having(last) \subseteq Having(last') \/ (pc = "full" /\ Having(last') # {})
          /\ forecast \subseteq forecast' \/ (pc = "taf" /\ forecast' # {})]_vars

\* Every report is read in the end, whether or not its station is armed and however
\* often the armed ones are pulled.
EveryReportIsRead ==
    \A s \in Stations : \A k \in 1 .. Reports : published[s] = k ~> last[s] >= k
=============================================================================
