---------------------------- MODULE MCPLZFactory ----------------------------
(* The factory for TLC: the constants are given in the configurations.      *)
EXTENDS PLZFactory
=============================================================================
