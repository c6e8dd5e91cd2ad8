-------------------------------- MODULE MCPLZ --------------------------------
(* The PLZ controller for TLC: the constants are given in the configurations. *)
EXTENDS PLZProperties
=============================================================================
