-------------------------- MODULE MCCredentialRevoke --------------------------
(* Instances of the revocation for TLC. *)
EXTENDS CredentialRevoke
================================================================================
