---------------------------- MODULE MCFireWindow ----------------------------
(* Constants of FireWindow for its runs. *)
EXTENDS FireWindow

\* A tick is two units: the caps lie between ticks.
MCWant  == <<2, 1>>
MCCap   == <<3, 3>>
MCFloor == <<0, 1>>

Level(p, n) == [px |-> p, size |-> n]
MCQuotes == [p \in Ports |->
    IF p = "live" THEN {<<>>, <<Level(2, 1)>>}
    ELSE {<<>>} \cup
        {<<Level(p1, n)>> : p1 \in {1, 2, 4, 6}, n \in {1, 3}} \cup
        {<<Level(p1, 1), Level(p2, n)>> : p1 \in {1, 2}, p2 \in {3, 4}, n \in {1, 2}}]

\* One leg alone, for the orders that are sent twice.
MCOneWant  == <<2>>
MCOneCap   == <<2>>
MCOneFloor == <<0>>
MCOneQuotes == [p \in Ports |-> {<<>>, <<Level(1, 1)>>, <<Level(2, 1)>>}]
=============================================================================
