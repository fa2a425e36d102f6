---- MODULE MCDiscoveryLifecycle ----
(* DiscoveryLifecycle for TLC: the constants are given in the .cfg files. *)
EXTENDS DiscoveryLifecycle
====
