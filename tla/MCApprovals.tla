----------------------------- MODULE MCApprovals -----------------------------
(* Instances of the hold for TLC. *)
EXTENDS Approvals
==============================================================================
