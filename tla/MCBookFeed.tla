------------------------------ MODULE MCBookFeed ------------------------------
(* BookFeed for its runs: its constants are those of the cfg. *)
EXTENDS BookFeed
===============================================================================
