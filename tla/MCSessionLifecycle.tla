-------------------------- MODULE MCSessionLifecycle --------------------------
(* Instances of the session's lifecycle for TLC. *)
EXTENDS SessionLifecycle
================================================================================
