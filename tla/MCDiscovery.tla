---------------------------- MODULE MCDiscovery ----------------------------
(* Discovery for TLC: the constants are given in the .cfg file.            *)
EXTENDS Discovery
=============================================================================
