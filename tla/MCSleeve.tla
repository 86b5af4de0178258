------------------------------- MODULE MCSleeve --------------------------------
(***************************************************************************)
(* SleeveLifecycle on a market of two buckets.                             *)
(***************************************************************************)
EXTENDS SleeveLifecycle

\* Each bucket at the low or at the high quote, or the neighbour without a quote.
MCQuotes == [Buckets -> {1, 3}] \cup {<<3, 0>>}
=============================================================================
