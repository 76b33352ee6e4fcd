------------------------------ MODULE MCLocation ------------------------------
(* Values for the constants of Location that a .cfg cannot write: the      *)
(* field of the slot has 4 bits, where the bias was meant to be 8.         *)
EXTENDS Location

MCSlots == {-4, -3, 0, 1, 7}
MCBiases == {0, 2, -4}
=============================================================================
