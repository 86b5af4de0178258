---------------------------- MODULE MCMetarCadence -----------------------------
(* Constants of MetarCadence for its runs: one city has both of its markets. *)
EXTENDS MetarCadence

MCStationOf == [paris_high |-> "LFPB", paris_low |-> "LFPB", seoul_high |-> "RKSI"]
=============================================================================
