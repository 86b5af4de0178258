----------------------------- MODULE MCConsensus ------------------------------
(* Constants of Consensus for its run: the market abandons one bucket and takes it up *)
(* again, the other trades below it, without a bid, and above it. *)
EXTENDS Consensus

MCQuotes ==
    "b1" :> { [ask |-> 3, bid |-> 1, depth |-> 2], [ask |-> 0, bid |-> 3, depth |-> 0] } @@
    "b2" :> { [ask |-> 1, bid |-> 0, depth |-> 1], [ask |-> 3, bid |-> 2, depth |-> 2] }
=============================================================================
