--------------------------- MODULE SessionLifecycle ---------------------------
(***************************************************************************)
(* What the strategy promises of one trading session: IDLE -> ARMED ->     *)
(* FIRED -> one further fire, never without arming first, never after a    *)
(* lock, and nothing at all once the market's local date is over.  A new   *)
(* process finds every session at the stage it was last saved at, and      *)
(* nothing else takes a session back.                                      *)
(***************************************************************************)
CONSTANT Key
VARIABLES
    stage,  \* where each session is
    saved   \* where the state file has it

Stages == {"idle", "armed", "cooled", "locked", "fired", "spent", "over"}

\* The date of a session may be over before the bot first starts.
Init == stage \in [Key -> {"idle", "over"}] /\ saved = stage

Become(k, s) == stage' = [stage EXCEPT ![k] = s] /\ UNCHANGED saved

Arm(k)    == stage[k] \in {"idle", "armed", "cooled"} /\ Become(k, "armed")
Lock(k)   == stage[k] \in {"idle", "armed", "cooled"} /\ Become(k, "locked")
Fire(k)   == stage[k] \in {"armed", "cooled"} /\ Become(k, "fired")
Refire(k) == stage[k] = "fired" /\ Become(k, "spent")

\* Sessions lose their armed status: one that drifted off, or all the low ones
\* whose window has closed.
Cool(D) == /\ \A k \in D : stage[k] = "armed"
           /\ stage' = [k \in Key |-> IF k \in D THEN "cooled" ELSE stage[k]]
           /\ UNCHANGED saved

\* Local midnight ends the sessions of the old date, in the file too.
Ended(old, D) == [k \in Key |-> IF k \in D THEN "over" ELSE old[k]]
Rollover(D) == stage' = Ended(stage, D) /\ saved' = Ended(saved, D)

Save    == saved' = stage /\ UNCHANGED stage
Restart == stage' = saved /\ UNCHANGED saved

Next == \/ \E k \in Key : Arm(k) \/ Lock(k) \/ Fire(k) \/ Refire(k)
        \/ \E D \in SUBSET Key : Cool(D) \/ Rollover(D)
        \/ Save \/ Restart

Spec == Init /\ [][Next]_<<stage, saved>>
===============================================================================
