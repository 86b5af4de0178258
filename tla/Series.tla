-------------------------------- MODULE Series --------------------------------
(***************************************************************************)
(* Rows of numbers and series of observations, as the price ring, the      *)
(* consensus tracker and the live port keep them.  An entry of a series    *)
(* has an age; a series runs from its oldest entry to the last.            *)
(***************************************************************************)
EXTENDS Integers, Sequences, SequencesExt, FiniteSetsExt

\* sum() over a row.
Total(values) == FoldLeft(LAMBDA sum, v : sum + v, 0, values)

\* What is left of a series once the oldest entries have been dropped while they are older
\* than w: popleft in a loop, or a slice from the first entry that is not.
Recent(series, w) ==
    LET within == {i \in DOMAIN series : series[i].age <= w}
    IN  IF within = {} THEN <<>> ELSE SubSeq(series, Min(within), Len(series))
=============================================================================
