---- MODULE MCNodeLeases ----
(* Small instances of NodeLeases; the constants are given in the configurations. *)
EXTENDS NodeLeases
====
