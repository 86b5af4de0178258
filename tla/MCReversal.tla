------------------------------ MODULE MCReversal ------------------------------
(* Constants of ReversalRunner for its runs. *)
EXTENDS ReversalRunner

MCHigh == {<<"paris", "high">>}
MCLow  == {<<"paris", "low">>}

MCTwo  == {<<"paris", "high">>, <<"seoul", "high">>}

\* Clock 0 and 1 fall on the first local date, in and after the fire window;
\* clock 2 on the next one, in the window again.
MCDay(c, t)      == IF t <= 1 THEN 0 ELSE 1
MCHighHour(c, t) == CASE t = 0 -> 14 [] t = 1 -> 20 [] OTHER -> 13
MCLowHour(c, t)  == CASE t = 0 -> 6 [] t = 1 -> 11 [] OTHER -> 5

\* Two zones: seoul's date turns while paris is still in its afternoon.
MCZoneDay(c, t)  == IF t = 0 \/ (c = "paris" /\ t = 1) THEN 0 ELSE 1
MCZoneHour(c, t) == IF c = "paris" THEN (CASE t = 0 -> 12 [] t = 1 -> 18 [] OTHER -> 0)
                    ELSE (CASE t = 0 -> 18 [] t = 1 -> 1 [] OTHER -> 7)

MCAll  == {Bucket}
\* A listing may lack a bucket whose market no longer takes orders.
MCGaps == {Bucket, Bucket \ {2}}

\* Without a crash nothing reads the state file again: runs of no crash may leave it out
\* of what tells states apart.
WithoutFile == <<world, phase, todo, rules, obs, sections, ledger, shots>>
==============================================================================
