----------------------------- MODULE MCDiscover -----------------------------
(* Instances of Discover for TLC.                                          *)
EXTENDS Dominators

(* Negative, every position a block can get, and past the end.             *)
MCGarbage == {-1, 0, 1, 2}
=============================================================================
