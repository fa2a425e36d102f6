----------------------------- MODULE MCChannel -----------------------------
(* Channel for TLC: the constants are given in the .cfg file.              *)
EXTENDS Channel
=============================================================================
