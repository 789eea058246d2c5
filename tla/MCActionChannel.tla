---------------------------- MODULE MCActionChannel ----------------------------
(* Small action channels for TLC: constants are given in the configurations. *)
EXTENDS ActionChannel, TLC

CONSTANTS i1, i2, c1, c2

\* Ids and connections are interchangeable.
Swap == Permutations({i1, i2}) \cup Permutations({c1, c2})

================================================================================
