---------------------------- MODULE MCRingBuffer ----------------------------
(* RingBuffer for TLC: the constants are given by the configurations.      *)
EXTENDS RingBuffer
=============================================================================
