---------------------------- MODULE MCSmokeOrder -----------------------------
(* Constants of SmokeOrder for its runs: a tick of 2 units, a dollar of 20. *)
EXTENDS SmokeOrder

Level(p, n) == [px |-> p, size |-> n]
MCBooks ==
    { [bid |-> 8,  asks |-> <<Level(10, 1), Level(14, 3)>>, min |-> 2],
      [bid |-> 11, asks |-> <<Level(13, 4)>>, min |-> 2],       \* between two ticks
      [bid |-> 1,  asks |-> <<Level(4, 4)>>, min |-> 2],        \* no passive price
      [bid |-> 4,  asks |-> <<>>, min |-> 2] }
MCAccounts ==
    { [balance |-> 50, positions |-> <<1, 1>>],
      [balance |-> 50, positions |-> <<1, 38>>] }
MCLimits == [budget |-> 24, maxOpen |-> 2, cap |-> 62]
MCClients == { {"post_order", "cancel_orders", "cancel_all"}, {"post_order", "cancel_all"} }
MCCaps == { [yes |-> 18, no |-> 12], [yes |-> 18, no |-> 0] }
MCForeign == { {}, {[tok |-> 1, px |-> 8], [tok |-> 2, px |-> 6]} }
=============================================================================
