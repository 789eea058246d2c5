--------------------------- MODULE MCSnapshotGc ---------------------------
(* Small instances of SnapshotGc: two snapshots that share a blob. *)
EXTENDS SnapshotGc, TLC

CONSTANTS s1, s2, b1, b2

TwoCaptures == Permutations(Captures)

TwoContent == (s1 :> {b1}) @@ (s2 :> {b1, b2})
===========================================================================
