----------------------------- MODULE MCEnginePort ------------------------------
(* Constants of EnginePort for its runs. *)
EXTENDS EnginePort

MCParts   == <<1, 1>>
MCLimits  == {[budget |-> 2, maxOpen |-> 2, cap |-> 3], [budget |-> 2, maxOpen |-> 4, cap |-> 5]}
MCConfigs == {[mode |-> "paper", lo |-> 4, hi |-> 9, noCap |-> 10],
              [mode |-> "live", lo |-> 9, hi |-> 9, noCap |-> 10]}
=============================================================================
