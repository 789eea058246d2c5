------------------------------ MODULE MCNodeTasks ------------------------------
(* Small nodes for TLC: one task with two attempts, two tasks of one attempt each. *)
EXTENDS NodeTasks, TLC

CONSTANTS t1, t2, a1, a2, b1, l1, l2

\* Two attempts of one task, each under its own lease.
OneTask == {t1}
OneTaskAttempts == {a1, a2}
OneTaskOf == (a1 :> t1) @@ (a2 :> t1)
OneTaskLease == (a1 :> l1) @@ (a2 :> l2)

\* Two tasks of one attempt each, under one shared lease.
TwoTasks == {t1, t2}
TwoTasksAttempts == {a1, b1}
TwoTasksOf == (a1 :> t1) @@ (b1 :> t2)
TwoTasksLease == (a1 :> l1) @@ (b1 :> l1)

BothLeases == {l1, l2}

\* Swapping the two attempts together with their leases maps behaviours to behaviours.
SwapAttempts ==
  {p \in Permutations({a1, a2, l1, l2}) :
     \A a \in {a1, a2} : p[a] \in {a1, a2} /\ OneTaskLease[p[a]] = p[OneTaskLease[a]]}

================================================================================
