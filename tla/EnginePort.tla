------------------------------ MODULE EnginePort -------------------------------
(***************************************************************************)
(* The engine's way to real money, from live/port.py: a fire asks for the  *)
(* port of its mode, the port reads the account and holds the limits       *)
(* against it, and the window then offers each leg, rung by rung, to       *)
(* match, which takes or sends nothing.  Several windows, one after the    *)
(* other, while the operator edits the environment file, days end, markets *)
(* resolve and the process is restarted.                                   *)
(*                                                                         *)
(* FireWindow has the orders of one window; here an order is what it may   *)
(* cost.  A leg's part of the budget is what its shares cost at most.      *)
(***************************************************************************)
EXTENDS LiveRules, Series

CONSTANTS
    Parts,      \* per leg of a fire, its part of the engine's budget; leg 1 is the YES
    Limits,     \* the LIVE_ limits an environment file may hold
    Configs,    \* what a config file may hold: mode, YES band, NO cap
    ModeVars,   \* YES2RE_MODE as a process may find it, "" for absent
    Asks,       \* asks a cached book may show: 0 for none, above One for a bad quote
    Marks,      \* what the tokens of a position may be worth together; 0, or dust, apart
    Rungs,      \* rungs of the ladder
    Wallet,     \* the collateral the account starts with
    Lags,       \* whether the positions endpoint may lack the window just ended
    Days, Edits, Windows    \* bounds: days, edits of the file, windows

Legs == DOMAIN Parts
Budget == Total(Parts)     \* fire_budget_usdc

ASSUME PortAssumption ==
    /\ Parts \in Seq(Nat \ {0}) /\ Parts # <<>>
    /\ Limits \subseteq [budget : Nat, maxOpen : Nat, cap : Nat] /\ Limits # {}
    /\ Configs \subseteq [mode : STRING, lo : Nat, hi : Nat, noCap : Nat]
    /\ ModeVars \subseteq STRING
    /\ Asks \subseteq Nat /\ Asks # {} /\ Marks \subseteq Nat
    /\ {Rungs, Wallet, Windows} \subseteq Nat \ {0}
    /\ Lags \in BOOLEAN /\ {Days, Edits} \subseteq Nat

VARIABLES
    day, edits,
    env,        \* the environment file: the gates but for the date, the limits
    cfg,        \* the config of this process, optIn if its mode is the variable's
    cached,     \* the limits of the cached LivePort, none before there is one
    client,     \* the port has a client
    pc, step,   \* where the window is, and which leg of which rung is next
    asks,       \* per leg, the ask of its cached book
    left,       \* per leg, what of its part is not spent
    held,       \* the positions, in the order of their windows
    count,      \* windows so far
    begun,      \* history: the gates that stood open when the window began
    allowed,    \* history: the limits let the window's preflight through
    sent,       \* history: the legs of which the window sent an order
    lost        \* history: what the account the preflight read did not show of its positions

outside == <<day, edits, env>>
port    == <<cached, client>>
window  == <<pc, step, asks, left, count, begun, allowed, sent, lost>>
vars    == <<outside, cfg, port, window, held>>

NoPort == [budget |-> 0, maxOpen |-> 0, cap |-> 0]
Files == [enable : BOOLEAN, flag : BOOLEAN, phrase : 0 .. Days, lim : Limits]

\* load_config: the variable, if there is one, takes the place of the file's mode.  A process
\* starts only with a mode it knows, and only the variable may take it off paper.
Modes == {"paper", "live"}
Effective(file, var) ==
    [mode |-> IF var = "" THEN file.mode ELSE var, lo |-> file.lo, hi |-> file.hi,
     noCap |-> file.noCap, optIn |-> var # ""]
Validated(c) == c.mode \in Modes /\ (c.mode # "paper" => c.optIn)
Loaded == {c \in {Effective(file, var) : file \in Configs, var \in ModeVars} : Validated(c)}

Position == [w : 1 .. Windows, legs : SUBSET Legs, cost : Nat, hidden : Nat]
Costs(s)  == [i \in DOMAIN s |-> s[i].cost]
Hidden(s) == [i \in DOMAIN s |-> s[i].hidden]
Tokens(s) == [i \in DOMAIN s |-> Cardinality(s[i].legs)]

TypeOK ==
    /\ day \in 0 .. Days /\ edits \in 0 .. Edits
    /\ env \in Files /\ cfg \in Loaded
    /\ cached \in Limits \cup {NoPort} /\ {client, allowed} \subseteq BOOLEAN
    /\ pc \in {"idle", "preflight", "rungs"} /\ step \in 1 .. Rungs * Len(Parts) + 1
    /\ asks \in [Legs -> Asks] /\ left \in [Legs -> Nat] /\ \A l \in Legs : left[l] <= Parts[l]
    /\ held \in Seq(Position) /\ Total(Costs(held)) <= Wallet
    /\ count \in 0 .. Windows /\ begun \subseteq GateChecks /\ sent \subseteq Legs
    /\ lost \in [cost : Nat, tokens : Nat]

Unasked == [l \in Legs |-> CHOOSE a \in Asks : TRUE]
\* Nothing of a window outlives it but what it bought and what became of the client.
NoLoss == [cost |-> 0, tokens |-> 0]
Over ==
    /\ pc' = "idle" /\ step' = 1 /\ asks' = Unasked /\ left' = Parts
    /\ begun' = {} /\ sent' = {} /\ lost' = NoLoss

Init ==
    /\ day = 0 /\ edits = 0 /\ env \in Files /\ cfg \in Loaded
    /\ cached = NoPort /\ client = FALSE
    /\ pc = "idle" /\ step = 1 /\ asks = Unasked /\ left = Parts /\ count = 0
    /\ begun = {} /\ allowed = FALSE /\ sent = {} /\ lost = NoLoss /\ held = <<>>

-----------------------------------------------------------------------------
(* The port *)

\* port_status, on the file as it is now: the enabling flag, LIVE_SUBMIT_ENABLED, and the
\* phrase with the date of today.
Gates == {g \in GateChecks : \/ g = "cli_flag" /\ env.enable
                             \/ g = "env_flag" /\ env.flag
                             \/ g = "confirm_phrase" /\ env.phrase = day}

\* get_port for a live fire: refused unless the gates stand open now; then the port of
\* this process, made with the limits of the file when the first one was asked for.
HandedOutOnce == cached # NoPort \/ GatesAllPassed(Gates)    \* mutant: the cache comes first
HandedOut == GatesAllPassed(Gates)
GetPort ==
    /\ pc = "idle" /\ cfg.mode = "live" /\ count < Windows /\ HandedOut
    /\ cached' = IF cached = NoPort THEN env.lim ELSE cached
    /\ pc' = "preflight" /\ begun' = Gates /\ sent' = {} /\ allowed' = FALSE
    /\ asks' \in [Legs -> Asks] /\ left' = Parts /\ step' = 1 /\ count' = count + 1
    /\ UNCHANGED <<outside, cfg, client, held, lost>>

\* read_account: collateral as it is; and the positions perhaps without those of the
\* window just ended, each with the tokens that are worth more than dust, at their worth
\* of now.  A position that is not shown at all reads like one that is worth nothing.
Worth(p) ==
    {[open |-> 0, value |-> 0]} \cup [open : 1 .. Cardinality(p.legs), value : Marks]
Marked ==
    {m \in [DOMAIN held -> [open : 0 .. Len(Parts), value : Marks \cup {0}]] :
        \A i \in DOMAIN held : m[i] \in Worth(held[i])}
Opens(marks)  == [i \in DOMAIN marks |-> marks[i].open]
Values(marks) == [i \in DOMAIN marks |-> marks[i].value]

Indexed(values, lagging) ==
    [i \in DOMAIN values |-> IF lagging /\ held[i].w = count - 1 THEN 0 ELSE values[i]]
Account(lagging, marks) ==
    [open |-> Total(Indexed(Opens(marks), lagging)),
     value |-> Total(Indexed(Values(marks), lagging)),
     balance |-> Wallet - Total(Costs(held))]

\* What the positions of the reading had cost beyond what it says they are worth, and how
\* many of their tokens it leaves out.
Loss(acc, lagging) ==
    LET cost == Total(Indexed(Costs(held), lagging))
    IN  [cost |-> IF cost > acc.value THEN cost - acc.value ELSE 0,
         tokens |-> Total(Indexed(Tokens(held), lagging)) - acc.open]

\* preflight: whatever the outcome, a fire that is not allowed leaves no client.
Deny == client' = FALSE /\ Over
Preflight ==
    /\ pc = "preflight"
    /\ \E lagging \in IF Lags THEN BOOLEAN ELSE {FALSE}, marks \in Marked :
          LET acc == Account(lagging, marks)
              ok  == Evaluate(acc, cached) /\ CheckLimits(Budget, acc, cached)
          IN  /\ allowed' = ok
              /\ \/ ~ok /\ Deny
                 \/ /\ ok /\ client' = TRUE /\ pc' = "rungs" /\ lost' = Loss(acc, lagging)
                    /\ UNCHANGED <<step, asks, left, begun, sent>>
    /\ UNCHANGED <<outside, cfg, cached, count, held>>

\* Credentials, network, client or account raise.
Unreadable ==
    /\ pc = "preflight" /\ client' = FALSE /\ Over
    /\ UNCHANGED <<outside, cfg, cached, count, allowed, held>>

-----------------------------------------------------------------------------
(* match *)

IsYes(l) == l = 1
Usable(px) == 0 < px /\ px <= One
CapOf(l) == IF IsYes(l) THEN cfg.hi ELSE cfg.noCap
BandOk == Usable(cfg.lo) /\ Usable(cfg.hi) /\ cfg.lo < cfg.hi
InYesBand(px) == cfg.lo < px /\ px <= cfg.hi

\* fill_mode: take, or send nothing.  A band that is not one stands every leg down.
Takes(l) ==
    Usable(CapOf(l)) /\ BandOk /\ Usable(asks[l]) /\ (IsYes(l) => InYesBand(asks[l]))

Leg == ((step - 1) % Len(Parts)) + 1
MoreSteps == step <= Rungs * Len(Parts)

\* What an order of a leg adds to the positions: shares that cost x, of which the engine
\* is told, or not.
Bought(l, x, told) ==
    LET h == IF told THEN 0 ELSE x
        ours == held # <<>> /\ Last(held).w = count
        p == IF ours THEN Last(held) ELSE [w |-> count, legs |-> {}, cost |-> 0, hidden |-> 0]
        q == [w |-> count, legs |-> p.legs \cup {l}, cost |-> p.cost + x, hidden |-> p.hidden + h]
    IN  IF x = 0 THEN held ELSE Append(IF ours THEN Front(held) ELSE held, q)

\* What the engine takes to be left of the leg.
RemainsAll(l, x, told) == left[l]       \* mutant: the fill is not taken off
Remains(l, x, told) == IF told THEN left[l] - x ELSE left[l]

\* One leg of one rung: the ladder may have nothing to send; a leg that does not take
\* sends nothing; an order costs up to what is left of the leg and of the wallet, and an
\* answer that is lost looks like one that has filled nothing.
Match ==
    /\ pc = "rungs" /\ MoreSteps /\ step' = step + 1
    /\ \/ UNCHANGED <<left, sent, held>>
       \/ /\ client /\ Takes(Leg) /\ sent' = sent \cup {Leg}
          /\ \E x \in 0 .. Least(left[Leg], Wallet - Total(Costs(held))), told \in BOOLEAN :
                /\ left' = [left EXCEPT ![Leg] = Remains(Leg, x, told)]
                /\ held' = Bought(Leg, x, told)
    /\ UNCHANGED <<outside, cfg, port, pc, asks, count, begun, allowed, lost>>

\* The window ends after its last rung, or when its budget of time is over, or when
\* match raises.
Close ==
    /\ pc = "rungs" /\ Over
    /\ UNCHANGED <<outside, cfg, port, count, allowed, held>>

-----------------------------------------------------------------------------
(* Around the windows *)

Edit ==
    /\ edits < Edits /\ edits' = edits + 1 /\ env' \in Files \ {env}
    /\ UNCHANGED <<day, cfg, port, window, held>>

NewDay == day < Days /\ day' = day + 1 /\ UNCHANGED <<edits, env, cfg, port, window, held>>

\* A market resolves and its positions leave the account, their cost paid back or lost.
Resolve ==
    /\ \E i \in DOMAIN held : held[i].w # count /\ held' = RemoveAt(held, i)
    /\ UNCHANGED <<outside, cfg, port, window>>

Restart ==
    /\ cached' = NoPort /\ client' = FALSE /\ Over /\ cfg' \in Loaded
    /\ UNCHANGED <<outside, count, allowed, held>>

Next == GetPort \/ Preflight \/ Unreadable \/ Match \/ Close \/ Edit \/ NewDay \/ Resolve \/ Restart
Spec == Init /\ [][Next]_vars

-----------------------------------------------------------------------------
(* Properties *)

\* The locks bind every window, not only the one that made the port: an order goes out
\* only in a window that began with all three gates open, phrase of the day included, and
\* in a process whose operator chose its mode: a config file alone never does.
KillSwitchBinds == sent # {} => GatesAllPassed(begun) /\ cfg.optIn

\* Once a preflight is over, a client is there only if its limits let it through, so that
\* a match that nobody cleared sends nothing.
DeniedLeavesNoClient == client /\ pc # "preflight" => allowed

\* Whatever was spent before and however late the account shows it, an order leaves no
\* more at stake than the port's cap, and no more positions than the limit and the legs of
\* the window; except that the cap is held against what the positions are worth, so that
\* the account may lack one window, and what the others had lost is there to be spent
\* again.  What was bought under an answer the engine never got comes on top.
Spare == IF Lags THEN Budget ELSE 0
SpendsWithinLimits ==
    [][Total(Costs(held')) > Total(Costs(held)) =>
         /\ Total(Costs(held')) - Total(Hidden(held')) <= cached.cap + Spare + lost.cost
         /\ Total(Tokens(held'))
              < cached.maxOpen + Len(Parts) * (IF Lags THEN 2 ELSE 1) + lost.tokens]_vars

\* A band that is not one stands the whole fire down, the NO leg included.
CorruptBandStandsDown == pc = "rungs" /\ ~BandOk => sent = {}
=============================================================================
