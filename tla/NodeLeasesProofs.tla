---------------------------- MODULE NodeLeasesProofs ----------------------------
(***************************************************************************)
(* Proofs about NodeLeases, for any services, periods and faults.  First,  *)
(* for any number of starts: a withdrawn route stays withdrawn, and the    *)
(* handle of a live lease is on disk from the launch on.  Then, for an     *)
(* attempt that is started once: a route injects within what the log says. *)
(***************************************************************************)
EXTENDS NodeLeases, TLAPS

Lease == [prov : {"none", "leaked", "live", "revoked"}, refused : BOOLEAN, held : BOOLEAN,
          iss : Nat, exp : Nat, route : Nat, renew : BOOLEAN]

Kinds ==
  /\ now \in Nat /\ starts \in 0..MaxStarts
  /\ thr \in [Gens -> {"none", "late", "drop", "watch", "renewing", "ended", "done"}]
  /\ lease \in [Gens -> [Services -> Lease]]
  /\ renewals \in [Gens -> [ok : SUBSET Services, err : SUBSET Services,
                            exp : [Services -> Nat]]]

\* A generation not yet started has no thread.
FreshInv == \A g \in Gens : g > starts => thr[g] = "none"

\* A route injects only while its lease is held, to its expiry and within its maximum.
HeldInv ==
  \A g \in Gens, s \in Services :
    /\ ~lease[g][s].held => lease[g][s].route = 0
    /\ lease[g][s].held => /\ lease[g][s].prov \notin {"none", "leaked"}
                           /\ lease[g][s].route \in {0, lease[g][s].exp}
                           /\ lease[g][s].iss <= now /\ lease[g][s].iss < lease[g][s].exp
                           /\ lease[g][s].exp <= lease[g][s].iss + MaxTtl

\* A renewal on its way ends after the issue of its lease and within its maximum.
RenewInv ==
  \A g \in Gens : \A s \in renewals[g].ok :
    /\ g <= starts
    /\ lease[g][s].iss < renewals[g].exp[s]
    /\ renewals[g].exp[s] <= lease[g][s].iss + MaxTtl

Inv == Kinds /\ FreshInv /\ HeldInv /\ RenewInv

Call == [pc : {"idle", "begin", "take", "ask", "done"},
         left : SUBSET Services, taken : SUBSET Services]

\* Who may be in a call of revoke, and when.
CallInv ==
  /\ rv \in [Actors -> Call]
  /\ up # "up" => /\ job = "idle" /\ \A a \in Actors : rv[a].pc = "idle"
                  /\ \A g \in Gens, s \in Services : ~lease[g][s].held
  /\ rv[Lock].pc # "idle" => job \in {"dropping", "failing", "failed", "revoking"}
  /\ \A g \in Gens : rv[g].pc # "idle" => thr[g] \in {"drop", "ended"}
  /\ job # "idle" \/ task = "live" => starts \in Gens
  /\ job \in {"keep", "intent", "spawn"} => thr[starts] = "none"

\* Some call has closed the route of a lease and is still to take the lease.
Taking(g, s) == \E a \in Actors : GenOf(a) = g /\ rv[a].pc = "take" /\ s \in rv[a].left

\* Between a call's withdrawal and its end no route of its generation is open, and the leases
\* still held are those it has to take; a route is closed on a held lease by such a call only.
RouteCalls ==
  /\ \A a \in Actors : rv[a].pc \in {"take", "ask", "done"} =>
       \A s \in Services :
         /\ lease[GenOf(a)][s].route = 0
         /\ lease[GenOf(a)][s].held => rv[a].pc = "take" /\ s \in rv[a].left
  /\ \A g \in Gens, s \in Services :
       lease[g][s].held /\ lease[g][s].route = 0 => Taking(g, s)

-----------------------------------------------------------------------------
LEMMA Bounds == MaxStarts \in Nat \ {0} /\ Ttl \in Nat \ {0} /\ MaxTtl \in Nat /\ Ttl <= MaxTtl
BY LeaseBounds

LEMMA MinPair ==
  ASSUME NEW a \in Int, NEW b \in Int
  PROVE  Min({a, b}) \in {a, b} /\ Min({a, b}) <= a /\ Min({a, b}) <= b
<1>1. \E x \in {a, b} : \A y \in {a, b} : x <= y
  BY a <= b \/ b <= a
<1> QED
  BY <1>1 DEF Min

LEMMA MaxPair ==
  ASSUME NEW a \in Int, NEW b \in Int
  PROVE  Max({a, b}) \in {a, b} /\ a <= Max({a, b}) /\ b <= Max({a, b})
<1>1. \E x \in {a, b} : \A y \in {a, b} : y <= x
  BY a <= b \/ b <= a
<1> QED
  BY <1>1 DEF Max

\* A generation's number is its reaper's; the lock's call is about the last generation.
LEMMA ActorGen ==
  /\ Lock \in Actors /\ Gens \subseteq Actors /\ Lock \notin Gens /\ Actors \subseteq Int
  /\ GenOf(Lock) = starts /\ \A g \in Gens : GenOf(g) = g
  /\ \A a \in Actors : a = Lock \/ a \in Gens
BY Bounds DEF Actors, Lock, Gens, GenOf

LEMMA CallGen ==
  ASSUME CallInv, NEW a \in Actors, rv[a].pc # "idle"
  PROVE  GenOf(a) \in Gens
BY ActorGen DEF CallInv

LEMMA InvInit == Init => Inv
BY Bounds DEF Init, Inv, Kinds, FreshInv, HeldInv, RenewInv, NoLease, NoRenewals, Lease, Gens

\* A step that touches no lease and starts no generation.
LEMMA InvKept ==
  ASSUME Inv, UNCHANGED <<lease, renewals, starts>>, now' \in Nat, now <= now',
         thr' \in [Gens -> {"none", "late", "drop", "watch", "renewing", "ended", "done"}],
         \A g \in Gens : g > starts => thr'[g] = thr[g]
  PROVE  Inv'
<1>1. \A g \in Gens, s \in Services : lease[g][s].iss \in Nat
  BY DEF Inv, Kinds, Lease
<1>2. HeldInv'
  BY <1>1 DEF Inv, Kinds, HeldInv
<1> QED
  BY <1>2 DEF Inv, Kinds, FreshInv, RenewInv

LEMMA LaunchThread ==
  ASSUME Inv, NEW x \in {"watch", "late", "drop", "done"}, thr' = [thr EXCEPT ![starts] = x]
  PROVE  /\ thr' \in [Gens -> {"none", "late", "drop", "watch", "renewing", "ended", "done"}]
         /\ \A g \in Gens : g > starts => thr'[g] = thr[g]
<1>1. thr' \in [Gens -> {"none", "late", "drop", "watch", "renewing", "ended", "done"}]
  BY DEF Inv, Kinds
<1>2. starts \in Int /\ Gens \subseteq Int
  BY Bounds DEF Inv, Kinds, Gens
<1>3. \A g \in Gens : g > starts => thr'[g] = thr[g]
  BY <1>2 DEF Inv, Kinds
<1> QED
  BY <1>1, <1>3

\* The steps that leave every lease alone.
Quiet ==
  \/ Tick \/ Keep \/ Intent \/ SpawnOk \/ SpawnAmbiguous \/ SpawnRefused \/ SpawnRefusedStuck
  \/ Dropped \/ RecordSpawn \/ EndAmbiguous \/ RevokeTimedOut \/ EndRevoked \/ EndReady
  \/ Restart \/ RecoverUnread \/ Recovered \/ CrashRecovering \/ UNCHANGED vars
  \/ \E v \in {"stop", "revoke"} : Request(v)
  \/ \E a \in Actors : TookAll(a) \/ Forget(a)
  \/ \E g \in Gens : LateSpawn(g) \/ ThreadDropped(g) \/ WorkloadEnds(g) \/ RecordExit(g)

LEMMA QuietSteps ==
  ASSUME Inv, Quiet
  PROVE  Inv' /\ UNCHANGED lease
<1>1. CASE Tick
  BY <1>1, InvKept, Bounds DEF Inv, Kinds, FreshInv, Gens, Tick, node
<1>2. ASSUME NEW a \in Actors, Forget(a) PROVE Inv' /\ UNCHANGED lease
  BY <1>2, InvKept, Bounds DEF Inv, Kinds, FreshInv, Gens, Forget, node
<1>3. CASE Keep
  BY <1>3, InvKept, Bounds DEF Inv, Kinds, FreshInv, Gens, Keep, node
<1>4. CASE Intent
  BY <1>4, InvKept, Bounds DEF Inv, Kinds, FreshInv, Gens, Intent
<1>5. CASE SpawnOk
  <2>1. PICK x \in {"watch", "late", "drop", "done"} : thr' = [thr EXCEPT ![starts] = x]
    BY <1>5 DEF SpawnOk
  <2> QED
    BY <1>5, <2>1, LaunchThread, InvKept DEF Inv, Kinds, SpawnOk
<1>6. CASE SpawnAmbiguous
  <2>1. PICK x \in {"watch", "late", "drop", "done"} : thr' = [thr EXCEPT ![starts] = x]
    BY <1>6 DEF SpawnAmbiguous
  <2> QED
    BY <1>6, <2>1, LaunchThread, InvKept DEF Inv, Kinds, SpawnAmbiguous
<1>7. CASE SpawnRefused
  <2>1. PICK x \in {"watch", "late", "drop", "done"} : thr' = [thr EXCEPT ![starts] = x]
    BY <1>7 DEF SpawnRefused
  <2> QED
    BY <1>7, <2>1, LaunchThread, InvKept DEF Inv, Kinds, SpawnRefused
<1>8. CASE SpawnRefusedStuck
  <2>1. PICK x \in {"watch", "late", "drop", "done"} : thr' = [thr EXCEPT ![starts] = x]
    BY <1>8 DEF SpawnRefusedStuck
  <2> QED
    BY <1>8, <2>1, LaunchThread, InvKept DEF Inv, Kinds, SpawnRefusedStuck
<1>9. CASE Dropped
  BY <1>9, InvKept, Bounds DEF Inv, Kinds, FreshInv, Gens, Dropped, node
<1>10. CASE RecordSpawn
  BY <1>10, InvKept, Bounds DEF Inv, Kinds, FreshInv, Gens, RecordSpawn
<1>11. CASE EndAmbiguous
  BY <1>11, InvKept, Bounds DEF Inv, Kinds, FreshInv, Gens, EndAmbiguous
<1>12. ASSUME NEW g \in Gens, LateSpawn(g) PROVE Inv' /\ UNCHANGED lease
  BY <1>12, InvKept, Bounds DEF Inv, Kinds, FreshInv, Gens, LateSpawn, node
<1>13. ASSUME NEW g \in Gens, ThreadDropped(g) PROVE Inv' /\ UNCHANGED lease
  BY <1>13, InvKept, Bounds DEF Inv, Kinds, FreshInv, Gens, ThreadDropped, node
<1>14. ASSUME NEW g \in Gens, WorkloadEnds(g) PROVE Inv' /\ UNCHANGED lease
  BY <1>14, InvKept, Bounds DEF Inv, Kinds, FreshInv, Gens, WorkloadEnds, node
<1>15. ASSUME NEW g \in Gens, RecordExit(g) PROVE Inv' /\ UNCHANGED lease
  BY <1>15, InvKept, Bounds DEF Inv, Kinds, FreshInv, Gens, RecordExit
<1>16. ASSUME NEW v \in {"stop", "revoke"}, Request(v) PROVE Inv' /\ UNCHANGED lease
  BY <1>16, InvKept, Bounds DEF Inv, Kinds, FreshInv, Gens, Request
<1>17. CASE RevokeTimedOut
  BY <1>17, InvKept, Bounds DEF Inv, Kinds, FreshInv, Gens, RevokeTimedOut, node
<1>18. CASE EndRevoked
  BY <1>18, InvKept, Bounds DEF Inv, Kinds, FreshInv, Gens, EndRevoked
<1>19. CASE EndReady
  BY <1>19, InvKept, Bounds DEF Inv, Kinds, FreshInv, Gens, EndReady
<1>20. CASE Restart
  BY <1>20, InvKept, Bounds DEF Inv, Kinds, FreshInv, Gens, Restart
<1>21. CASE Recovered
  BY <1>21, InvKept, Bounds DEF Inv, Kinds, FreshInv, Gens, Recovered
<1>22. CASE CrashRecovering
  BY <1>22, InvKept, Bounds DEF Inv, Kinds, FreshInv, Gens, CrashRecovering
<1>23. CASE UNCHANGED vars
  BY <1>23, InvKept, Bounds DEF Inv, Kinds, FreshInv, Gens, vars, node
<1>24. CASE RecoverUnread
  BY <1>24, InvKept, Bounds DEF Inv, Kinds, FreshInv, Gens, RecoverUnread
<1>25. ASSUME NEW a \in Actors, TookAll(a) PROVE Inv' /\ UNCHANGED lease
  BY <1>25, InvKept, Bounds DEF Inv, Kinds, FreshInv, Gens, TookAll, node
<1> QED
  BY <1>1, <1>2, <1>3, <1>4, <1>5, <1>6, <1>7, <1>8, <1>9, <1>10, <1>11, <1>12, <1>13, <1>14,
     <1>15, <1>16, <1>17, <1>18, <1>19, <1>20, <1>21, <1>22, <1>23, <1>24, <1>25 DEF Quiet

\* What one step may make of a lease: withdrawn, its route closed, as it was, or renewed while
\* its route is open.
Ended(l, m) == ~m.held /\ m.route = 0 /\ m.iss = l.iss
Closed(l, m) == /\ m.held = l.held /\ m.route = 0 /\ m.exp = l.exp /\ m.iss = l.iss
                /\ m.prov = l.prov
Same(l, m) == /\ m.held = l.held /\ m.route = l.route /\ m.exp = l.exp /\ m.iss = l.iss
              /\ m.held => m.prov \notin {"none", "leaked"}
Longer(l, m) == /\ l.held /\ m.held /\ m.iss = l.iss /\ l.route = l.exp /\ m.route = m.exp
                /\ l.iss < m.exp /\ m.exp <= l.iss + MaxTtl /\ m.prov = l.prov
Lessened(l, m) == Ended(l, m) \/ Closed(l, m) \/ Same(l, m)
Touched(l, m) == Lessened(l, m) \/ Longer(l, m)

LEMMA InvTouched ==
  ASSUME Inv, UNCHANGED <<now, starts>>,
         thr' \in [Gens -> {"none", "late", "drop", "watch", "renewing", "ended", "done"}],
         \A g \in Gens : g > starts => thr'[g] = thr[g],
         lease' \in [Gens -> [Services -> Lease]],
         \A g \in Gens, s \in Services : Touched(lease[g][s], lease'[g][s]),
         renewals' \in [Gens -> [ok : SUBSET Services, err : SUBSET Services,
                                 exp : [Services -> Nat]]],
         \A g \in Gens : \A s \in renewals'[g].ok :
           /\ g <= starts /\ lease[g][s].iss < renewals'[g].exp[s]
           /\ renewals'[g].exp[s] <= lease[g][s].iss + MaxTtl
  PROVE  Inv'
<1>1. Kinds'
  BY DEF Inv, Kinds
<1>2. FreshInv'
  BY DEF Inv, FreshInv
<1>3. HeldInv'
  <2> SUFFICES ASSUME NEW g \in Gens, NEW s \in Services
               PROVE  /\ ~lease'[g][s].held => lease'[g][s].route = 0
                      /\ lease'[g][s].held =>
                           /\ lease'[g][s].prov \notin {"none", "leaked"}
                           /\ lease'[g][s].route \in {0, lease'[g][s].exp}
                           /\ lease'[g][s].iss <= now /\ lease'[g][s].iss < lease'[g][s].exp
                           /\ lease'[g][s].exp <= lease'[g][s].iss + MaxTtl
    BY DEF HeldInv
  <2>1. Touched(lease[g][s], lease'[g][s])
    OBVIOUS
  <2> QED
    BY <2>1 DEF Inv, HeldInv, Lessened, Touched, Ended, Closed, Same, Longer
<1>4. RenewInv'
  <2>1. \A g \in Gens, s \in Services : lease'[g][s].iss = lease[g][s].iss
    BY DEF Lessened, Touched, Ended, Closed, Same, Longer
  <2>2. \A g \in Gens : renewals'[g].ok \subseteq Services
    OBVIOUS
  <2> QED
    BY <2>1, <2>2 DEF Inv, RenewInv
<1> QED
  BY <1>1, <1>2, <1>3, <1>4 DEF Inv

LEMMA WithdrawnLease ==
  ASSUME Inv, NEW g \in Gens
  PROVE  /\ Withdrawn(g) \in [Services -> Lease]
         /\ \A s \in Services : Ended(lease[g][s], Withdrawn(g)[s])
<1>1. ASSUME NEW s \in Services
      PROVE  /\ [lease[g][s] EXCEPT !.route = 0, !.held = FALSE] \in Lease
             /\ Ended(lease[g][s], [lease[g][s] EXCEPT !.route = 0, !.held = FALSE])
  <2>1. lease[g][s] \in Lease
    BY DEF Inv, Kinds
  <2> QED
    BY <2>1 DEF Lease, Ended
<1> QED
  BY <1>1 DEF Withdrawn

LEMMA SameLease ==
  ASSUME NEW l \in Lease, l.held => l.prov \notin {"none", "leaked"}
  PROVE  /\ Same(l, l)
         /\ [l EXCEPT !.refused = TRUE] \in Lease /\ Same(l, [l EXCEPT !.refused = TRUE])
         /\ [l EXCEPT !.prov = "revoked"] \in Lease /\ Same(l, [l EXCEPT !.prov = "revoked"])
BY DEF Same, Lease

LEMMA HeldProv ==
  ASSUME Inv, NEW g \in Gens, NEW s \in Services
  PROVE  lease[g][s] \in Lease /\ Same(lease[g][s], lease[g][s])
BY DEF Inv, Kinds, HeldInv, Same

LEMMA WithdrawInv ==
  ASSUME Inv, NEW a \in Actors, Withdraw(a)
  PROVE  Inv' /\ \A g \in Gens, s \in Services : Lessened(lease[g][s], lease'[g][s])
<1> DEFINE h == GenOf(a)
<1>1. lease' = [lease EXCEPT ![h] = Unrouted(h)]
  BY DEF Withdraw
<1> HIDE DEF h
<1>2. ASSUME NEW g \in Gens, NEW s \in Services
      PROVE  lease'[g][s] \in Lease /\ Lessened(lease[g][s], lease'[g][s])
  <2>1. lease[g][s] \in Lease /\ Same(lease[g][s], lease[g][s])
    BY HeldProv
  <2>2. lease'[g][s] = lease[g][s] \/ lease'[g][s] = [lease[g][s] EXCEPT !.route = 0]
    BY <1>1 DEF Inv, Kinds, Unrouted
  <2> QED
    BY <2>1, <2>2 DEF Lessened, Closed, Lease
<1>3. lease' \in [Gens -> [Services -> Lease]]
  BY <1>1, <1>2 DEF Inv, Kinds, Unrouted
<1> QED
  BY <1>2, <1>3, InvTouched DEF Touched, Inv, Kinds, RenewInv, Withdraw, node

LEMMA TakeInv ==
  ASSUME Inv, RouteCalls, NEW a \in Actors, NEW t \in Services, Take(a, t)
  PROVE  Inv' /\ \A g \in Gens, s \in Services : Lessened(lease[g][s], lease'[g][s])
<1> DEFINE h == GenOf(a)
<1>1. lease' = [lease EXCEPT ![h][t].held = FALSE] /\ lease[h][t].route = 0
  BY DEF Take, RouteCalls
<1> HIDE DEF h
<1>2. ASSUME NEW g \in Gens, NEW s \in Services
      PROVE  lease'[g][s] \in Lease /\ Lessened(lease[g][s], lease'[g][s])
  <2>1. lease[g][s] \in Lease /\ Same(lease[g][s], lease[g][s])
    BY HeldProv
  <2>2. \/ lease'[g][s] = lease[g][s]
        \/ lease'[g][s] = [lease[g][s] EXCEPT !.held = FALSE] /\ lease[g][s].route = 0
    BY <1>1 DEF Inv, Kinds
  <2> QED
    BY <2>1, <2>2 DEF Lessened, Ended, Lease
<1>3. lease' \in [Gens -> [Services -> Lease]]
  <2>1. ASSUME NEW g \in Gens PROVE lease'[g] \in [Services -> Lease]
    <3>1. lease'[g] = lease[g] \/ lease'[g] = [lease[g] EXCEPT ![t].held = FALSE]
      BY <1>1 DEF Inv, Kinds
    <3>2. lease[g] \in [Services -> Lease]
      BY DEF Inv, Kinds
    <3>3. lease'[g] = [s \in Services |-> lease'[g][s]]
      BY <3>1, <3>2
    <3> QED
      BY <1>2, <3>3
  <2>2. lease' = [g \in Gens |-> lease'[g]]
    BY <1>1 DEF Inv, Kinds
  <2> QED
    BY <2>1, <2>2
<1> QED
  BY <1>2, <1>3, InvTouched DEF Touched, Inv, Kinds, RenewInv, Take, node

LEMMA AskInv ==
  ASSUME Inv, NEW a \in Actors, NEW t \in Services, Ask(a, t)
  PROVE  Inv' /\ \A g \in Gens, s \in Services : Lessened(lease[g][s], lease'[g][s])
<1> DEFINE h == GenOf(a)
<1>1. PICK r \in BOOLEAN : lease' = [lease EXCEPT ![h][t] = AskProvider(@, r)]
  BY DEF Ask
<1> HIDE DEF h
<1>2. ASSUME NEW g \in Gens, NEW s \in Services
      PROVE  lease'[g][s] \in Lease /\ Lessened(lease[g][s], lease'[g][s])
  <2>1. lease[g][s] \in Lease /\ Same(lease[g][s], lease[g][s])
    BY HeldProv
  <2>2. lease'[g][s] = lease[g][s] \/ lease'[g][s] = AskProvider(lease[g][s], r)
    BY <1>1 DEF Inv, Kinds
  <2>3. \/ lease'[g][s] = lease[g][s] \/ lease'[g][s] = [lease[g][s] EXCEPT !.refused = TRUE]
        \/ lease'[g][s] = [lease[g][s] EXCEPT !.prov = "revoked"]
    BY <2>2 DEF AskProvider
  <2> QED
    BY <2>1, <2>3, SameLease DEF Lessened, Same
<1>3. lease' \in [Gens -> [Services -> Lease]]
  <2>1. ASSUME NEW g \in Gens PROVE lease'[g] \in [Services -> Lease]
    <3>1. lease'[g] = lease[g] \/ lease'[g] = [lease[g] EXCEPT ![t] = AskProvider(@, r)]
      BY <1>1 DEF Inv, Kinds
    <3>2. lease[g] \in [Services -> Lease]
      BY DEF Inv, Kinds
    <3>3. lease'[g] = [s \in Services |-> lease'[g][s]]
      BY <3>1, <3>2
    <3> QED
      BY <1>2, <3>3
  <2>2. lease' = [g \in Gens |-> lease'[g]]
    BY <1>1 DEF Inv, Kinds
  <2> QED
    BY <2>1, <2>2
<1> QED
  BY <1>2, <1>3, InvTouched DEF Touched, Inv, Kinds, RenewInv, Ask, node

LEMMA CrashInv ==
  ASSUME Inv, Crash
  PROVE  Inv' /\ \A g \in Gens, s \in Services : Lessened(lease[g][s], lease'[g][s])
<1>1. \A g \in Gens : /\ lease'[g] \in [Services -> Lease]
                      /\ \A s \in Services : Lessened(lease[g][s], lease'[g][s])
  BY WithdrawnLease DEF Crash, Lessened
<1>2. lease' \in [Gens -> [Services -> Lease]]
  BY <1>1 DEF Crash
<1>3. /\ renewals' \in [Gens -> [ok : SUBSET Services, err : SUBSET Services,
                                exp : [Services -> Nat]]]
      /\ \A g \in Gens : renewals'[g].ok = {}
  BY DEF Crash, NoRenewals
<1>4. /\ thr' \in [Gens -> {"none", "late", "drop", "watch", "renewing", "ended", "done"}]
      /\ \A g \in Gens : g > starts => thr'[g] = thr[g]
  BY DEF Crash, Inv, Kinds, FreshInv
<1> QED
  BY <1>1, <1>2, <1>3, <1>4, InvTouched DEF Touched, Crash

LEMMA RecoverInv ==
  ASSUME Inv, Recover
  PROVE  Inv' /\ \A g \in Gens, s \in Services : Lessened(lease[g][s], lease'[g][s])
<1>1. PICK R \in SUBSET kept : lease' = [g \in Gens |-> [s \in Services |->
             IF <<g, s>> \in kept THEN AskProvider(lease[g][s], <<g, s>> \in R)
             ELSE lease[g][s]]]
  BY DEF Recover
<1>2. ASSUME NEW g \in Gens, NEW s \in Services
      PROVE  lease'[g][s] \in Lease /\ Lessened(lease[g][s], lease'[g][s])
  <2>1. lease[g][s] \in Lease /\ Same(lease[g][s], lease[g][s])
    BY HeldProv
  <2>2. \/ lease'[g][s] = lease[g][s] \/ lease'[g][s] = [lease[g][s] EXCEPT !.refused = TRUE]
        \/ lease'[g][s] = [lease[g][s] EXCEPT !.prov = "revoked"]
    BY <1>1 DEF AskProvider
  <2> QED
    BY <2>1, <2>2, SameLease DEF Lessened, Same
<1>3. lease' \in [Gens -> [Services -> Lease]]
  BY <1>1, <1>2
<1> QED
  BY <1>2, <1>3, InvTouched DEF Touched, Inv, Kinds, RenewInv, Recover

\* What a renewal asks for is positive, so it ends after now.
LEMMA RenewedLater ==
  ASSUME NEW l \in Lease, NEW extra \in 0..1, now \in Nat, l.iss <= now, l.iss < l.exp,
         l.exp <= l.iss + MaxTtl, Due(l), Renewable(l)
  PROVE  /\ RenewedExp(l, extra) \in Nat /\ l.iss < RenewedExp(l, extra)
         /\ RenewedExp(l, extra) <= l.iss + MaxTtl
<1>0. l.iss \in Nat /\ l.exp \in Nat /\ MaxTtl \in Nat \ {0} /\ now < l.iss + MaxTtl
  BY Bounds DEF Lease, Renewable, Due
<1> DEFINE x == Asked(l)
<1>1. x \in Int /\ x > 0
  <2> DEFINE y == l.exp - l.iss
             z == l.iss + MaxTtl - now
  <2>1. y \in Int /\ z \in Int /\ y > 0 /\ z > 0
    BY <1>0
  <2>2. x = Min({y, z})
    BY DEF Asked
  <2> HIDE DEF x, y, z
  <2> QED
    BY <2>1, <2>2, MinPair
<1>2. RenewedExp(l, extra) = Min({now + x + extra, l.iss + MaxTtl})
  BY DEF RenewedExp
<1> HIDE DEF x
<1> DEFINE y == now + x + extra
           z == l.iss + MaxTtl
<1>3. y \in Int /\ z \in Int /\ l.iss < y /\ l.iss < z
  BY <1>0, <1>1
<1>4. Min({y, z}) \in {y, z} /\ Min({y, z}) <= z
  BY <1>3, MinPair
<1> QED
  BY <1>0, <1>2, <1>3, <1>4

LEMMA RenewRenews ==
  ASSUME Inv, NEW g \in Gens, Renew(g)
  PROVE  Inv' /\ \A h \in Gens, s \in Services : Touched(lease[h][s], lease'[h][s])
<1> DEFINE D == {s \in Services : Due(lease[g][s])}
           Err(F) == F \cup {s \in D : ~Renewable(lease[g][s])}
           Exp(F, x) == [s \in Services |->
                           IF s \in D \ Err(F) THEN RenewedExp(lease[g][s], x) ELSE 0]
<1>1. PICK F \in SUBSET D, x \in 0..1 :
        /\ renewals' = [renewals EXCEPT ![g] = [ok |-> D \ Err(F), err |-> Err(F), exp |-> Exp(F, x)]]
        /\ lease' = [lease EXCEPT ![g] = [s \in Services |->
             IF s \in Err(F) THEN [lease[g][s] EXCEPT !.renew = FALSE] ELSE lease[g][s]]]
  BY DEF Renew
<1>2. ASSUME NEW s \in D \ Err(F)
      PROVE  /\ Exp(F, x)[s] \in Nat /\ lease[g][s].iss < Exp(F, x)[s]
             /\ Exp(F, x)[s] <= lease[g][s].iss + MaxTtl
  <2>1. lease[g][s] \in Lease /\ Due(lease[g][s]) /\ Renewable(lease[g][s])
    BY DEF Inv, Kinds
  <2>2. lease[g][s].held
    BY <2>1 DEF Due
  <2> QED
    BY <2>1, <2>2, RenewedLater DEF Inv, Kinds, HeldInv
<1>3. Exp(F, x) \in [Services -> Nat]
  BY <1>2
<1>4. ASSUME NEW h \in Gens, NEW s \in Services
      PROVE  lease'[h][s] \in Lease /\ Touched(lease[h][s], lease'[h][s])
  <2>1. lease[h][s] \in Lease /\ Same(lease[h][s], lease[h][s])
    BY HeldProv
  <2>2. lease'[h][s] = lease[h][s] \/ lease'[h][s] = [lease[h][s] EXCEPT !.renew = FALSE]
    BY <1>1 DEF Inv, Kinds
  <2> QED
    BY <2>1, <2>2 DEF Lease, Lessened, Touched, Same
<1>5. lease' \in [Gens -> [Services -> Lease]]
  BY <1>1, <1>4 DEF Inv, Kinds
<1>6. /\ g <= starts /\ UNCHANGED <<now, starts>>
      /\ thr' \in [Gens -> {"none", "late", "drop", "watch", "renewing", "ended", "done"}]
      /\ \A h \in Gens : h > starts => thr'[h] = thr[h]
  BY Bounds DEF Renew, Inv, Kinds, FreshInv, Gens, node
<1>7. renewals' \in [Gens -> [ok : SUBSET Services, err : SUBSET Services,
                              exp : [Services -> Nat]]]
  BY <1>1, <1>3 DEF Inv, Kinds
<1>8. ASSUME NEW h \in Gens, NEW s \in renewals'[h].ok
      PROVE  /\ h <= starts /\ lease[h][s].iss < renewals'[h].exp[s]
             /\ renewals'[h].exp[s] <= lease[h][s].iss + MaxTtl
  <2>1. CASE h = g
    <3>1. renewals'[h].ok = D \ Err(F) /\ renewals'[h].exp = Exp(F, x)
      BY <1>1, <2>1 DEF Inv, Kinds
    <3> HIDE DEF Exp, Err, D
    <3> QED
      BY <1>2, <1>6, <2>1, <3>1
  <2>2. CASE h # g
    BY <1>1, <2>2 DEF Inv, Kinds, RenewInv
  <2> QED
    BY <2>1, <2>2
<1> QED
  BY <1>4, <1>5, <1>6, <1>7, <1>8, InvTouched

LEMMA RecordRenewalsInv ==
  ASSUME Inv, CallInv, RouteCalls, NEW g \in Gens, RecordRenewals(g)
  PROVE  Inv' /\ \A h \in Gens, s \in Services : Touched(lease[h][s], lease'[h][s])
<1> DEFINE new == renewals[g]
<1>1. PICK A \in SUBSET new.ok :
        lease' = [lease EXCEPT ![g] = [s \in Services |->
             IF s \in Effective(new.ok, A) THEN Applied(lease[g][s], new.exp[s])
             ELSE lease[g][s]]]
  BY DEF RecordRenewals
<1>2. ASSUME NEW s \in A
      PROVE  /\ s \in Services /\ new.exp[s] \in Nat /\ lease[g][s].iss < new.exp[s]
             /\ new.exp[s] <= lease[g][s].iss + MaxTtl
  BY DEF Inv, Kinds, RenewInv
<1>a. \A s \in Services : lease[g][s].held => lease[g][s].route = lease[g][s].exp
  <2>1. \A s \in Services : ~Taking(g, s)
    BY ActorGen DEF Taking, CallInv, RecordRenewals, Idle
  <2> QED
    BY <2>1 DEF RouteCalls, Inv, HeldInv
<1>3. ASSUME NEW h \in Gens, NEW s \in Services
      PROVE  lease'[h][s] \in Lease /\ Touched(lease[h][s], lease'[h][s])
  <2>1. lease[h][s] \in Lease /\ Same(lease[h][s], lease[h][s])
    BY HeldProv
  <2>2. CASE h = g /\ s \in A
    <3>1. lease'[h][s] = Applied(lease[h][s], new.exp[s])
      BY <1>1, <2>2 DEF Inv, Kinds, Effective
    <3> HIDE DEF new
    <3>2. CASE lease[h][s].held
      <4>1. lease'[h][s] = [lease[h][s] EXCEPT !.route = new.exp[s], !.exp = new.exp[s]]
        BY <3>1, <3>2 DEF Applied
      <4>2. new.exp[s] \in Nat
        BY <1>2, <2>2
      <4>3. lease'[h][s] \in Lease
        BY <2>1, <4>1, <4>2 DEF Lease
      <4>4. Longer(lease[h][s], lease'[h][s])
        BY <1>2, <1>a, <2>1, <2>2, <3>2, <4>1 DEF Lease, Longer
      <4> QED
        BY <4>3, <4>4 DEF Lessened, Touched
    <3>3. CASE ~lease[h][s].held
      BY <2>1, <3>1, <3>3 DEF Applied, Lessened, Touched, Same
    <3> QED
      BY <3>2, <3>3
  <2>3. CASE h # g \/ s \notin A
    BY <1>1, <2>1, <2>3 DEF Inv, Kinds, Lessened, Touched, Same, Effective
  <2> QED
    BY <2>2, <2>3
<1>4. lease' \in [Gens -> [Services -> Lease]]
  BY <1>1, <1>3 DEF Inv, Kinds
<1>5. /\ UNCHANGED <<now, starts>>
      /\ thr' \in [Gens -> {"none", "late", "drop", "watch", "renewing", "ended", "done"}]
      /\ \A h \in Gens : h > starts => thr'[h] = thr[h]
  BY DEF RecordRenewals, Inv, Kinds, FreshInv, node
<1>6. /\ renewals' \in [Gens -> [ok : SUBSET Services, err : SUBSET Services,
                              exp : [Services -> Nat]]]
      /\ \A h \in Gens : h # g => renewals'[h] = renewals[h]
      /\ renewals'[g].ok = {}
  BY DEF RecordRenewals, Inv, Kinds, NoRenewals
<1>7. ASSUME NEW h \in Gens, NEW s \in renewals'[h].ok
      PROVE  /\ h <= starts /\ lease[h][s].iss < renewals'[h].exp[s]
             /\ renewals'[h].exp[s] <= lease[h][s].iss + MaxTtl
  BY <1>6 DEF Inv, RenewInv
<1> QED
  BY <1>3, <1>4, <1>5, <1>6, <1>7, InvTouched

\* A start, whether its leases were all issued or not.
Issuing == Issue \/ IssueUnrouted

LEMMA IssueInv ==
  ASSUME Inv, Issuing
  PROVE  /\ Inv' /\ UNCHANGED <<now, thr>>
         /\ \A g \in Gens, s \in Services :
              thr[g] # "none" => Touched(lease[g][s], lease'[g][s])
<1> DEFINE h == starts + 1
<1>a. /\ starts < MaxStarts /\ starts' = starts + 1 /\ UNCHANGED <<now, thr, renewals>>
  BY DEF Issuing, Issue, IssueUnrouted
<1>0. starts \in Nat /\ h \in Gens /\ h > starts /\ Gens \subseteq Int /\ now \in Nat
      /\ starts' = h /\ starts' \in 0..MaxStarts /\ UNCHANGED <<now, thr, renewals>>
  BY <1>a, Bounds DEF Inv, Kinds, Gens
<1> DEFINE none == [NoLease EXCEPT !.prov = "none"]
           leaked == [NoLease EXCEPT !.prov = "leaked"]
<1>1. /\ lease' = [lease EXCEPT ![h] = lease'[h]] /\ lease'[h] = [s \in Services |-> lease'[h][s]]
      /\ \A s \in Services : \/ lease'[h][s] = NoLease \/ lease'[h][s] = Issued(TRUE)
                            \/ lease'[h][s] = leaked \/ lease'[h][s] = none
  <2>1. CASE Issue
    <3>1. PICK D \in SUBSET Services :
            lease' = [lease EXCEPT ![h] = [s \in Services |->
                        IF s \in D THEN NoLease ELSE Issued(TRUE)]]
      BY <2>1 DEF Issue
    <3>2. lease'[h] = [s \in Services |-> IF s \in D THEN NoLease ELSE Issued(TRUE)]
      BY <1>0, <3>1 DEF Inv, Kinds
    <3> QED
      BY <3>1, <3>2
  <2>2. CASE IssueUnrouted
    <3> DEFINE New(I, t, p) == [r \in Services |-> IF r \in I THEN Issued(TRUE)
                   ELSE [NoLease EXCEPT !.prov = IF r = t THEN p ELSE "none"]]
    <3>1. PICK I \in SUBSET Services, t \in Services, p \in {"none", "leaked"} :
            lease' = [lease EXCEPT ![h] = New(I, t, p)]
      BY <2>2 DEF IssueUnrouted
    <3>3. lease'[h] = New(I, t, p)
      <4> HIDE DEF New
      <4> QED
        BY <1>0, <3>1 DEF Inv, Kinds
    <3>4. ASSUME NEW s \in Services
          PROVE  New(I, t, p)[s] = NoLease \/ New(I, t, p)[s] = Issued(TRUE) \/ New(I, t, p)[s] = leaked
                 \/ New(I, t, p)[s] = none
      OBVIOUS
    <3> QED
      BY <3>1, <3>3, <3>4
  <2> QED
    BY <2>1, <2>2 DEF Issuing
<1>2. /\ NoLease \in Lease /\ ~NoLease.held /\ NoLease.route = 0
      /\ leaked \in Lease /\ ~leaked.held /\ leaked.route = 0
      /\ none \in Lease /\ ~none.held /\ none.route = 0
      /\ Issued(TRUE) \in Lease /\ Issued(TRUE).prov = "live"
      /\ Issued(TRUE).held /\ Issued(TRUE).iss = now
      /\ Issued(TRUE).exp = now + Ttl /\ Issued(TRUE).route = now + Ttl
  <2>1. NoLease \in Lease /\ ~NoLease.held /\ NoLease.route = 0
    BY DEF NoLease, Lease
  <2>2. leaked \in Lease /\ ~leaked.held /\ leaked.route = 0
    BY <2>1 DEF Lease
  <2>3. none \in Lease /\ ~none.held /\ none.route = 0
    BY <2>1 DEF Lease
  <2>4. /\ Issued(TRUE) \in Lease /\ Issued(TRUE).prov = "live"
        /\ Issued(TRUE).held /\ Issued(TRUE).iss = now
        /\ Issued(TRUE).exp = now + Ttl /\ Issued(TRUE).route = now + Ttl
    BY <1>0, Bounds DEF Issued, Lease
  <2> QED
    BY <2>1, <2>2, <2>3, <2>4
<1> HIDE DEF leaked, none
<1>3. ASSUME NEW s \in Services
      PROVE  \/ lease'[h][s] = NoLease \/ lease'[h][s] = leaked \/ lease'[h][s] = none
             \/ lease'[h][s] = Issued(TRUE)
  BY <1>0, <1>1 DEF Inv, Kinds
<1>4. ASSUME NEW g \in Gens, g # h
      PROVE  lease'[g] = lease[g]
  BY <1>0, <1>1, <1>4 DEF Inv, Kinds
<1> HIDE DEF h
<1>5. ASSUME NEW g \in Gens, NEW s \in Services PROVE lease'[g][s] \in Lease
  BY <1>2, <1>3, <1>4 DEF Inv, Kinds
<1>6. Kinds'
  <2>1. lease' \in [Gens -> [Services -> Lease]]
    BY <1>1, <1>5 DEF Inv, Kinds
  <2> QED
    BY <1>0, <2>1 DEF Inv, Kinds
<1>7. FreshInv'
  BY <1>0 DEF Inv, Kinds, FreshInv
<1>8. HeldInv'
  <2>1. ASSUME NEW s \in Services
        PROVE  /\ ~lease'[h][s].held => lease'[h][s].route = 0
               /\ lease'[h][s].held =>
                    /\ lease'[h][s].prov \notin {"none", "leaked"}
                    /\ lease'[h][s].route \in {0, lease'[h][s].exp}
                    /\ lease'[h][s].iss <= now /\ lease'[h][s].iss < lease'[h][s].exp
                    /\ lease'[h][s].exp <= lease'[h][s].iss + MaxTtl
    <3>1. CASE lease'[h][s] = NoLease \/ lease'[h][s] = leaked \/ lease'[h][s] = none
      BY <1>2, <3>1
    <3>2. CASE lease'[h][s] = Issued(TRUE)
      <4>1. now <= now /\ now < now + Ttl /\ now + Ttl <= now + MaxTtl
        BY <1>0, Bounds
      <4> QED
        BY <1>2, <3>2, <4>1
    <3> QED
      BY <1>3, <3>1, <3>2
  <2>2. ASSUME NEW g \in Gens, NEW s \in Services, g # h
        PROVE  /\ ~lease'[g][s].held => lease'[g][s].route = 0
               /\ lease'[g][s].held =>
                    /\ lease'[g][s].prov \notin {"none", "leaked"}
                    /\ lease'[g][s].route \in {0, lease'[g][s].exp}
                    /\ lease'[g][s].iss <= now /\ lease'[g][s].iss < lease'[g][s].exp
                    /\ lease'[g][s].exp <= lease'[g][s].iss + MaxTtl
    <3>1. lease'[g] = lease[g]
      BY <1>4, <2>2
    <3> QED
      BY <3>1 DEF Inv, HeldInv
  <2>3. now' = now
    BY <1>0
  <2> QED
    BY <2>1, <2>2, <2>3 DEF HeldInv
<1>9. RenewInv'
  BY <1>0, <1>4 DEF Inv, Kinds, RenewInv, h
<1>10. ASSUME NEW g \in Gens, NEW s \in Services, thr[g] # "none"
       PROVE  Touched(lease[g][s], lease'[g][s])
  <2>1. g # h
    BY <1>0, <1>10 DEF Inv, FreshInv
  <2> QED
    BY <1>4, <2>1, HeldProv DEF Lessened, Touched
<1> QED
  BY <1>0, <1>6, <1>7, <1>8, <1>9, <1>10 DEF Inv

\* What every step does to the leases of a generation that was launched.
LEMMA StepTouches ==
  ASSUME Inv, CallInv, RouteCalls, [Next]_vars
  PROVE  /\ Inv'
         /\ \A g \in Gens, s \in Services :
              thr[g] # "none" => Touched(lease[g][s], lease'[g][s])
<1>1. CASE Quiet
  <2>1. Inv' /\ UNCHANGED lease
    BY <1>1, QuietSteps
  <2> QED
    BY <2>1, HeldProv DEF Lessened, Touched
<1>2. CASE Issuing
  BY <1>2, IssueInv
<1>3. CASE \E a \in Actors : Withdraw(a) \/ \E s \in Services : Take(a, s) \/ Ask(a, s)
  BY <1>3, WithdrawInv, TakeInv, AskInv DEF Touched
<1>4. CASE \E g \in Gens : Renew(g) \/ RecordRenewals(g)
  BY <1>4, RenewRenews, RecordRenewalsInv
<1>5. CASE Crash \/ Recover
  BY <1>5, CrashInv, RecoverInv DEF Touched
<1> QED
  BY <1>1, <1>2, <1>3, <1>4, <1>5
     DEF Next, LockSteps, ReaperSteps, Calls, Recovery, Quiet, Issuing

-----------------------------------------------------------------------------
(* The calls of revoke and the file of handles.                            *)

\* A lease that a call took and asked its provider about is not alive.
AskedInv ==
  \A a \in Actors : rv[a].pc = "ask" =>
    \A s \in rv[a].taken \ rv[a].left : ~Alive(GenOf(a), s)

\* Whether the handles of a generation have been put on disk.
Filed(g) == thr[g] # "none" \/ (g = starts /\ job \in {"intent", "spawn"})

\* Every lease that may have to be ended has its handle on disk, but for the lapse `crossed`;
\* while a start is about to write its handles, it holds every lease they are of.
FileInv ==
  /\ job = "keep" => \A s \in Services : Alive(starts, s) => lease[starts][s].held
  /\ \A g \in Gens \ crossed, s \in Services :
       Filed(g) /\ Alive(g, s) => <<g, s>> \in kept

LeaseInv == CallInv /\ RouteCalls /\ AskedInv /\ FileInv

LEMMA LeaseInit == Init => LeaseInv
<1> SUFFICES ASSUME Init PROVE LeaseInv
  OBVIOUS
<1>1. CallInv
  BY ActorGen DEF Init, CallInv, Call, NoCall, NoLease
<1>2. RouteCalls /\ AskedInv
  BY DEF Init, RouteCalls, AskedInv, NoCall, NoLease
<1>3. FileInv
  BY DEF Init, FileInv, Alive, NoLease
<1> QED
  BY <1>1, <1>2, <1>3 DEF LeaseInv

Begun == [NoCall EXCEPT !.pc = "begin"]

\* No call is touched, or one that is not taking leases begins or ends.
Edge ==
  \/ UNCHANGED rv
  \/ \E a \in Actors : /\ rv[a].pc # "take"
                       /\ \E c \in {NoCall, Begun} : rv' = [rv EXCEPT ![a] = c]

LEMMA Edges ==
  ASSUME CallInv, RouteCalls, AskedInv, Edge, UNCHANGED <<lease, starts>>
  PROVE  RouteCalls' /\ AskedInv' /\ rv' \in [Actors -> Call]
<1>0. /\ NoCall \in Call /\ NoCall.pc = "idle" /\ Begun \in Call /\ Begun.pc = "begin"
  BY DEF NoCall, Begun, Call
<1>1. /\ rv' \in [Actors -> Call]
      /\ \A a \in Actors : rv'[a] = rv[a] \/ (rv[a].pc # "take" /\ rv'[a].pc \in {"idle", "begin"})
  BY <1>0 DEF Edge, CallInv
<1>2. \A a \in Actors : GenOf(a)' = GenOf(a)
  BY DEF GenOf
<1>3. RouteCalls'
  <2>1. ASSUME NEW g \in Gens, NEW s \in Services, Taking(g, s) PROVE Taking(g, s)'
    BY <1>1, <1>2, <2>1 DEF Taking
  <2> QED
    BY <1>1, <1>2, <2>1 DEF RouteCalls
<1>4. AskedInv'
  BY <1>1, <1>2 DEF AskedInv, Alive
<1> QED
  BY <1>1, <1>3, <1>4

\* No call is left, and no lease is held.
LEMMA AllEnded ==
  ASSUME \A a \in Actors : rv'[a].pc = "idle",
         \A g \in Gens, s \in Services : ~lease'[g][s].held
  PROVE  RouteCalls' /\ AskedInv'
BY DEF RouteCalls, AskedInv

\* Nothing on disk changes, no lease comes to life, and none is launched but from the file.
LEMMA FileLess ==
  ASSUME FileInv, UNCHANGED <<kept, crossed, starts>>,
         \A g \in Gens, s \in Services : Alive(g, s)' => Alive(g, s),
         \A g \in Gens : Filed(g)' => Filed(g),
         job' = "keep" => /\ job = "keep"
                          /\ \A s \in Services : lease[starts][s].held => lease'[starts][s].held,
         job = "keep" => starts \in Gens
  PROVE  FileInv'
<1>1. job' = "keep" => \A s \in Services : Alive(starts, s)' => lease'[starts][s].held
  BY DEF FileInv
<1>2. \A g \in Gens \ crossed, s \in Services :
        Filed(g)' /\ Alive(g, s)' => <<g, s>> \in kept
  BY DEF FileInv
<1> QED
  BY <1>1, <1>2 DEF FileInv

LEMMA FileSame ==
  ASSUME FileInv, UNCHANGED <<lease, kept, crossed, starts>>,
         \A g \in Gens : Filed(g)' => Filed(g),
         job' = "keep" => job = "keep"
  PROVE  FileInv'
BY DEF FileInv, Alive

LEMMA TickStep ==
  ASSUME Inv, LeaseInv, Tick
  PROVE  LeaseInv'
<1> USE DEF LeaseInv
<1>1. /\ Edge /\ UNCHANGED <<lease, starts>>
  BY ActorGen DEF Tick, node, lapses, Edge, Begun, NoCall, CallInv
<1>2. RouteCalls' /\ AskedInv' /\ rv' \in [Actors -> Call]
  BY <1>1, Edges
<1>3. FileInv'
  <2>1. /\ \A g \in Gens : Filed(g)' => Filed(g)
        /\ job' = "keep" => job = "keep" /\ UNCHANGED <<kept, crossed>>
    BY ActorGen DEF Tick, node, lapses, Filed, CallInv, Inv, Kinds
  <2> QED
    BY <1>1, <2>1, FileSame DEF Tick, node, lapses
<1>4. CallInv'
  BY <1>1, <1>2, ActorGen DEF Tick, node, lapses, NoCall, CallInv, Inv, Kinds, FreshInv, Gens
<1> QED
  BY <1>2, <1>3, <1>4

LEMMA IntentStep ==
  ASSUME Inv, LeaseInv, Intent
  PROVE  LeaseInv'
<1> USE DEF LeaseInv
<1>1. /\ Edge /\ UNCHANGED <<lease, starts>>
  BY ActorGen DEF Intent, At, Drop, Revoke, lapses, Edge, Begun, NoCall, CallInv
<1>2. RouteCalls' /\ AskedInv' /\ rv' \in [Actors -> Call]
  BY <1>1, Edges
<1>3. FileInv'
  <2>1. /\ \A g \in Gens : Filed(g)' => Filed(g)
        /\ job' = "keep" => job = "keep" /\ UNCHANGED <<kept, crossed>>
    BY ActorGen DEF Intent, At, Drop, Revoke, lapses, Filed, CallInv, Inv, Kinds
  <2> QED
    BY <1>1, <2>1, FileSame DEF Intent, At, Drop, Revoke, lapses
<1>4. CallInv'
  BY <1>1, <1>2, ActorGen DEF Intent, At, Drop, Revoke, lapses, NoCall, CallInv, Inv, Kinds,
     FreshInv, Gens
<1> QED
  BY <1>2, <1>3, <1>4

LEMMA SpawnOkStep ==
  ASSUME Inv, LeaseInv, SpawnOk
  PROVE  LeaseInv'
<1> USE DEF LeaseInv
<1>1. /\ Edge /\ UNCHANGED <<lease, starts>>
  BY ActorGen DEF SpawnOk, At, Attempted, lapses, Edge, Begun, NoCall, CallInv
<1>2. RouteCalls' /\ AskedInv' /\ rv' \in [Actors -> Call]
  BY <1>1, Edges
<1>3. FileInv'
  <2>1. /\ \A g \in Gens : Filed(g)' => Filed(g)
        /\ job' = "keep" => job = "keep" /\ UNCHANGED <<kept, crossed>>
    BY ActorGen DEF SpawnOk, At, Attempted, lapses, Filed, CallInv, Inv, Kinds
  <2> QED
    BY <1>1, <2>1, FileSame DEF SpawnOk, At, Attempted, lapses
<1>4. CallInv'
  BY <1>1, <1>2, ActorGen DEF SpawnOk, At, Attempted, lapses, NoCall, CallInv, Inv, Kinds,
     FreshInv, Gens
<1> QED
  BY <1>2, <1>3, <1>4

LEMMA SpawnAmbiguousStep ==
  ASSUME Inv, LeaseInv, SpawnAmbiguous
  PROVE  LeaseInv'
<1> USE DEF LeaseInv
<1>1. /\ Edge /\ UNCHANGED <<lease, starts>>
  BY ActorGen DEF SpawnAmbiguous, At, Attempted, Revoke, lapses, Edge, Begun, NoCall, CallInv
<1>2. RouteCalls' /\ AskedInv' /\ rv' \in [Actors -> Call]
  BY <1>1, Edges
<1>3. FileInv'
  <2>1. /\ \A g \in Gens : Filed(g)' => Filed(g)
        /\ job' = "keep" => job = "keep" /\ UNCHANGED <<kept, crossed>>
    BY ActorGen DEF SpawnAmbiguous, At, Attempted, Revoke, lapses, Filed, CallInv, Inv, Kinds
  <2> QED
    BY <1>1, <2>1, FileSame DEF SpawnAmbiguous, At, Attempted, Revoke, lapses
<1>4. CallInv'
  BY <1>1, <1>2, ActorGen DEF SpawnAmbiguous, At, Attempted, Revoke, lapses, NoCall, CallInv,
     Inv, Kinds, FreshInv, Gens
<1> QED
  BY <1>2, <1>3, <1>4

LEMMA SpawnRefusedStep ==
  ASSUME Inv, LeaseInv, SpawnRefused
  PROVE  LeaseInv'
<1> USE DEF LeaseInv
<1>1. /\ Edge /\ UNCHANGED <<lease, starts>>
  BY ActorGen DEF SpawnRefused, At, Drop, Revoke, lapses, Edge, Begun, NoCall, CallInv
<1>2. RouteCalls' /\ AskedInv' /\ rv' \in [Actors -> Call]
  BY <1>1, Edges
<1>3. FileInv'
  <2>1. /\ \A g \in Gens : Filed(g)' => Filed(g)
        /\ job' = "keep" => job = "keep" /\ UNCHANGED <<kept, crossed>>
    BY ActorGen DEF SpawnRefused, At, Drop, Revoke, lapses, Filed, CallInv, Inv, Kinds
  <2> QED
    BY <1>1, <2>1, FileSame DEF SpawnRefused, At, Drop, Revoke, lapses
<1>4. CallInv'
  BY <1>1, <1>2, ActorGen DEF SpawnRefused, At, Drop, Revoke, lapses, NoCall, CallInv, Inv,
     Kinds, FreshInv, Gens
<1> QED
  BY <1>2, <1>3, <1>4

LEMMA SpawnRefusedStuckStep ==
  ASSUME Inv, LeaseInv, SpawnRefusedStuck
  PROVE  LeaseInv'
<1> USE DEF LeaseInv
<1>1. /\ Edge /\ UNCHANGED <<lease, starts>>
  BY ActorGen DEF SpawnRefusedStuck, At, Attempted, Revoke, lapses, Edge, Begun, NoCall, CallInv
<1>2. RouteCalls' /\ AskedInv' /\ rv' \in [Actors -> Call]
  BY <1>1, Edges
<1>3. FileInv'
  <2>1. /\ \A g \in Gens : Filed(g)' => Filed(g)
        /\ job' = "keep" => job = "keep" /\ UNCHANGED <<kept, crossed>>
    BY ActorGen DEF SpawnRefusedStuck, At, Attempted, Revoke, lapses, Filed, CallInv, Inv, Kinds
  <2> QED
    BY <1>1, <2>1, FileSame DEF SpawnRefusedStuck, At, Attempted, Revoke, lapses
<1>4. CallInv'
  BY <1>1, <1>2, ActorGen DEF SpawnRefusedStuck, At, Attempted, Revoke, lapses, NoCall, CallInv,
     Inv, Kinds, FreshInv, Gens
<1> QED
  BY <1>2, <1>3, <1>4

LEMMA DroppedStep ==
  ASSUME Inv, LeaseInv, Dropped
  PROVE  LeaseInv'
<1> USE DEF LeaseInv
<1>1. /\ Edge /\ UNCHANGED <<lease, starts>>
  BY ActorGen DEF Dropped, At, Returned, node, lapses, Edge, Begun, NoCall, CallInv
<1>2. RouteCalls' /\ AskedInv' /\ rv' \in [Actors -> Call]
  BY <1>1, Edges
<1>3. FileInv'
  <2>1. /\ \A g \in Gens : Filed(g)' => Filed(g)
        /\ job' = "keep" => job = "keep" /\ UNCHANGED <<kept, crossed>>
    BY ActorGen DEF Dropped, At, Returned, node, lapses, Filed, CallInv, Inv, Kinds
  <2> QED
    BY <1>1, <2>1, FileSame DEF Dropped, At, Returned, node, lapses
<1>4. CallInv'
  BY <1>1, <1>2, ActorGen DEF Dropped, At, Returned, node, lapses, NoCall, CallInv, Inv, Kinds,
     FreshInv, Gens
<1> QED
  BY <1>2, <1>3, <1>4

LEMMA RecordSpawnStep ==
  ASSUME Inv, LeaseInv, RecordSpawn
  PROVE  LeaseInv'
<1> USE DEF LeaseInv
<1>1. /\ Edge /\ UNCHANGED <<lease, starts>>
  BY ActorGen DEF RecordSpawn, At, Revoke, lapses, Edge, Begun, NoCall, CallInv
<1>2. RouteCalls' /\ AskedInv' /\ rv' \in [Actors -> Call]
  BY <1>1, Edges
<1>3. FileInv'
  <2>1. /\ \A g \in Gens : Filed(g)' => Filed(g)
        /\ job' = "keep" => job = "keep" /\ UNCHANGED <<kept, crossed>>
    BY ActorGen DEF RecordSpawn, At, Revoke, lapses, Filed, CallInv, Inv, Kinds
  <2> QED
    BY <1>1, <2>1, FileSame DEF RecordSpawn, At, Revoke, lapses
<1>4. CallInv'
  BY <1>1, <1>2, ActorGen DEF RecordSpawn, At, Revoke, lapses, NoCall, CallInv, Inv, Kinds,
     FreshInv, Gens
<1> QED
  BY <1>2, <1>3, <1>4

LEMMA EndAmbiguousStep ==
  ASSUME Inv, LeaseInv, EndAmbiguous
  PROVE  LeaseInv'
<1> USE DEF LeaseInv
<1>1. /\ Edge /\ UNCHANGED <<lease, starts>>
  BY ActorGen DEF EndAmbiguous, Returned, lapses, Edge, Begun, NoCall, CallInv
<1>2. RouteCalls' /\ AskedInv' /\ rv' \in [Actors -> Call]
  BY <1>1, Edges
<1>3. FileInv'
  <2>1. /\ \A g \in Gens : Filed(g)' => Filed(g)
        /\ job' = "keep" => job = "keep" /\ UNCHANGED <<kept, crossed>>
    BY ActorGen DEF EndAmbiguous, Returned, lapses, Filed, CallInv, Inv, Kinds
  <2> QED
    BY <1>1, <2>1, FileSame DEF EndAmbiguous, Returned, lapses
<1>4. CallInv'
  BY <1>1, <1>2, ActorGen DEF EndAmbiguous, Returned, lapses, NoCall, CallInv, Inv, Kinds,
     FreshInv, Gens
<1> QED
  BY <1>2, <1>3, <1>4

LEMMA LateSpawnStep ==
  ASSUME Inv, LeaseInv, NEW h \in Gens, LateSpawn(h)
  PROVE  LeaseInv'
<1> USE DEF LeaseInv
<1>1. /\ Edge /\ UNCHANGED <<lease, starts>>
  BY ActorGen DEF LateSpawn, node, lapses, Edge, Begun, NoCall, CallInv
<1>2. RouteCalls' /\ AskedInv' /\ rv' \in [Actors -> Call]
  BY <1>1, Edges
<1>3. FileInv'
  <2>1. /\ \A g \in Gens : Filed(g)' => Filed(g)
        /\ job' = "keep" => job = "keep" /\ UNCHANGED <<kept, crossed>>
    BY ActorGen DEF LateSpawn, node, lapses, Filed, CallInv, Inv, Kinds
  <2> QED
    BY <1>1, <2>1, FileSame DEF LateSpawn, node, lapses
<1>4. CallInv'
  BY <1>1, <1>2, ActorGen DEF LateSpawn, node, lapses, NoCall, CallInv, Inv, Kinds, FreshInv, Gens
<1> QED
  BY <1>2, <1>3, <1>4

LEMMA ThreadDroppedStep ==
  ASSUME Inv, LeaseInv, NEW h \in Gens, ThreadDropped(h)
  PROVE  LeaseInv'
<1> USE DEF LeaseInv
<1>1. /\ Edge /\ UNCHANGED <<lease, starts>>
  BY ActorGen DEF ThreadDropped, Returned, node, lapses, Edge, Begun, NoCall, CallInv
<1>2. RouteCalls' /\ AskedInv' /\ rv' \in [Actors -> Call]
  BY <1>1, Edges
<1>3. FileInv'
  <2>1. /\ \A g \in Gens : Filed(g)' => Filed(g)
        /\ job' = "keep" => job = "keep" /\ UNCHANGED <<kept, crossed>>
    BY ActorGen DEF ThreadDropped, Returned, node, lapses, Filed, CallInv, Inv, Kinds
  <2> QED
    BY <1>1, <2>1, FileSame DEF ThreadDropped, Returned, node, lapses
<1>4. CallInv'
  BY <1>1, <1>2, ActorGen DEF ThreadDropped, Returned, node, lapses, NoCall, CallInv, Inv, Kinds,
     FreshInv, Gens
<1> QED
  BY <1>2, <1>3, <1>4

LEMMA WorkloadEndsStep ==
  ASSUME Inv, LeaseInv, NEW h \in Gens, WorkloadEnds(h)
  PROVE  LeaseInv'
<1> USE DEF LeaseInv
<1>1. /\ Edge /\ UNCHANGED <<lease, starts>>
  BY ActorGen DEF WorkloadEnds, Revoke, node, lapses, Edge, Begun, NoCall, CallInv
<1>2. RouteCalls' /\ AskedInv' /\ rv' \in [Actors -> Call]
  BY <1>1, Edges
<1>3. FileInv'
  <2>1. /\ \A g \in Gens : Filed(g)' => Filed(g)
        /\ job' = "keep" => job = "keep" /\ UNCHANGED <<kept, crossed>>
    BY ActorGen DEF WorkloadEnds, Revoke, node, lapses, Filed, CallInv, Inv, Kinds
  <2> QED
    BY <1>1, <2>1, FileSame DEF WorkloadEnds, Revoke, node, lapses
<1>4. CallInv'
  BY <1>1, <1>2, ActorGen DEF WorkloadEnds, Revoke, node, lapses, NoCall, CallInv, Inv, Kinds,
     FreshInv, Gens
<1> QED
  BY <1>2, <1>3, <1>4

LEMMA RecordExitStep ==
  ASSUME Inv, LeaseInv, NEW h \in Gens, RecordExit(h)
  PROVE  LeaseInv'
<1> USE DEF LeaseInv
<1>1. /\ Edge /\ UNCHANGED <<lease, starts>>
  BY ActorGen DEF RecordExit, Idle, Returned, lapses, Edge, Begun, NoCall, CallInv
<1>2. RouteCalls' /\ AskedInv' /\ rv' \in [Actors -> Call]
  BY <1>1, Edges
<1>3. FileInv'
  <2>1. /\ \A g \in Gens : Filed(g)' => Filed(g)
        /\ job' = "keep" => job = "keep" /\ UNCHANGED <<kept, crossed>>
    BY ActorGen DEF RecordExit, Idle, Returned, lapses, Filed, CallInv, Inv, Kinds
  <2> QED
    BY <1>1, <2>1, FileSame DEF RecordExit, Idle, Returned, lapses
<1>4. CallInv'
  BY <1>1, <1>2, ActorGen DEF RecordExit, Idle, Returned, lapses, NoCall, CallInv, Inv, Kinds,
     FreshInv, Gens
<1> QED
  BY <1>2, <1>3, <1>4

LEMMA RequestStep ==
  ASSUME Inv, LeaseInv, NEW v \in {"stop", "revoke"}, Request(v)
  PROVE  LeaseInv'
<1> USE DEF LeaseInv
<1>1. /\ Edge /\ UNCHANGED <<lease, starts>>
  BY ActorGen DEF Request, Idle, lapses, Edge, Begun, NoCall, CallInv
<1>2. RouteCalls' /\ AskedInv' /\ rv' \in [Actors -> Call]
  BY <1>1, Edges
<1>3. FileInv'
  <2>1. /\ \A g \in Gens : Filed(g)' => Filed(g)
        /\ job' = "keep" => job = "keep" /\ UNCHANGED <<kept, crossed>>
    BY ActorGen DEF Request, Idle, lapses, Filed, CallInv, Inv, Kinds
  <2> QED
    BY <1>1, <2>1, FileSame DEF Request, Idle, lapses
<1>4. CallInv'
  BY <1>1, <1>2, ActorGen DEF Request, Idle, lapses, NoCall, CallInv, Inv, Kinds, FreshInv, Gens
<1> QED
  BY <1>2, <1>3, <1>4

LEMMA RevokeTimedOutStep ==
  ASSUME Inv, LeaseInv, RevokeTimedOut
  PROVE  LeaseInv'
<1> USE DEF LeaseInv
<1>1. /\ Edge /\ UNCHANGED <<lease, starts>>
  BY ActorGen DEF RevokeTimedOut, Idle, Revoke, node, lapses, Edge, Begun, NoCall, CallInv
<1>2. RouteCalls' /\ AskedInv' /\ rv' \in [Actors -> Call]
  BY <1>1, Edges
<1>3. FileInv'
  <2>1. /\ \A g \in Gens : Filed(g)' => Filed(g)
        /\ job' = "keep" => job = "keep" /\ UNCHANGED <<kept, crossed>>
    BY ActorGen DEF RevokeTimedOut, Idle, Revoke, node, lapses, Filed, CallInv, Inv, Kinds
  <2> QED
    BY <1>1, <2>1, FileSame DEF RevokeTimedOut, Idle, Revoke, node, lapses
<1>4. CallInv'
  BY <1>1, <1>2, ActorGen DEF RevokeTimedOut, Idle, Revoke, node, lapses, NoCall, CallInv, Inv,
     Kinds, FreshInv, Gens
<1> QED
  BY <1>2, <1>3, <1>4

LEMMA EndRevokedStep ==
  ASSUME Inv, LeaseInv, EndRevoked
  PROVE  LeaseInv'
<1> USE DEF LeaseInv
<1>1. /\ Edge /\ UNCHANGED <<lease, starts>>
  BY ActorGen DEF EndRevoked, At, Returned, lapses, Edge, Begun, NoCall, CallInv
<1>2. RouteCalls' /\ AskedInv' /\ rv' \in [Actors -> Call]
  BY <1>1, Edges
<1>3. FileInv'
  <2>1. /\ \A g \in Gens : Filed(g)' => Filed(g)
        /\ job' = "keep" => job = "keep" /\ UNCHANGED <<kept, crossed>>
    BY ActorGen DEF EndRevoked, At, Returned, lapses, Filed, CallInv, Inv, Kinds
  <2> QED
    BY <1>1, <2>1, FileSame DEF EndRevoked, At, Returned, lapses
<1>4. CallInv'
  BY <1>1, <1>2, ActorGen DEF EndRevoked, At, Returned, lapses, NoCall, CallInv, Inv, Kinds,
     FreshInv, Gens
<1> QED
  BY <1>2, <1>3, <1>4

LEMMA EndReadyStep ==
  ASSUME Inv, LeaseInv, EndReady
  PROVE  LeaseInv'
<1> USE DEF LeaseInv
<1>1. /\ Edge /\ UNCHANGED <<lease, starts>>
  BY ActorGen DEF EndReady, Idle, lapses, Edge, Begun, NoCall, CallInv
<1>2. RouteCalls' /\ AskedInv' /\ rv' \in [Actors -> Call]
  BY <1>1, Edges
<1>3. FileInv'
  <2>1. /\ \A g \in Gens : Filed(g)' => Filed(g)
        /\ job' = "keep" => job = "keep" /\ UNCHANGED <<kept, crossed>>
    BY ActorGen DEF EndReady, Idle, lapses, Filed, CallInv, Inv, Kinds
  <2> QED
    BY <1>1, <2>1, FileSame DEF EndReady, Idle, lapses
<1>4. CallInv'
  BY <1>1, <1>2, ActorGen DEF EndReady, Idle, lapses, NoCall, CallInv, Inv, Kinds, FreshInv, Gens
<1> QED
  BY <1>2, <1>3, <1>4

LEMMA RestartStep ==
  ASSUME Inv, LeaseInv, Restart
  PROVE  LeaseInv'
<1> USE DEF LeaseInv
<1>1. /\ Edge /\ UNCHANGED <<lease, starts>>
  BY ActorGen DEF Restart, lapses, Edge, Begun, NoCall, CallInv
<1>2. RouteCalls' /\ AskedInv' /\ rv' \in [Actors -> Call]
  BY <1>1, Edges
<1>3. FileInv'
  <2>1. /\ \A g \in Gens : Filed(g)' => Filed(g)
        /\ job' = "keep" => job = "keep" /\ UNCHANGED <<kept, crossed>>
    BY ActorGen DEF Restart, lapses, Filed, CallInv, Inv, Kinds
  <2> QED
    BY <1>1, <2>1, FileSame DEF Restart, lapses
<1>4. CallInv'
  BY <1>1, <1>2, ActorGen DEF Restart, lapses, NoCall, CallInv, Inv, Kinds, FreshInv, Gens
<1> QED
  BY <1>2, <1>3, <1>4

LEMMA RecoverUnreadStep ==
  ASSUME Inv, LeaseInv, RecoverUnread
  PROVE  LeaseInv'
<1> USE DEF LeaseInv
<1>1. /\ Edge /\ UNCHANGED <<lease, starts>>
  BY ActorGen DEF RecoverUnread, Edge, Begun, NoCall, CallInv
<1>2. RouteCalls' /\ AskedInv' /\ rv' \in [Actors -> Call]
  BY <1>1, Edges
<1>3. FileInv'
  <2>1. /\ \A g \in Gens : Filed(g)' => Filed(g)
        /\ job' = "keep" => job = "keep" /\ UNCHANGED <<kept, crossed>>
    BY ActorGen DEF RecoverUnread, Filed, CallInv, Inv, Kinds
  <2> QED
    BY <1>1, <2>1, FileSame DEF RecoverUnread
<1>4. CallInv'
  BY <1>1, <1>2, ActorGen DEF RecoverUnread, NoCall, CallInv, Inv, Kinds, FreshInv, Gens
<1> QED
  BY <1>2, <1>3, <1>4

LEMMA StutterStep ==
  ASSUME Inv, LeaseInv, UNCHANGED vars
  PROVE  LeaseInv'
<1> USE DEF LeaseInv
<1>1. /\ Edge /\ UNCHANGED <<lease, starts>>
  BY ActorGen DEF vars, node, lapses, Edge, Begun, NoCall, CallInv
<1>2. RouteCalls' /\ AskedInv' /\ rv' \in [Actors -> Call]
  BY <1>1, Edges
<1>3. FileInv'
  <2>1. /\ \A g \in Gens : Filed(g)' => Filed(g)
        /\ job' = "keep" => job = "keep" /\ UNCHANGED <<kept, crossed>>
    BY ActorGen DEF vars, node, lapses, Filed, CallInv, Inv, Kinds
  <2> QED
    BY <1>1, <2>1, FileSame DEF vars, node, lapses
<1>4. CallInv'
  BY <1>1, <1>2, ActorGen DEF vars, node, lapses, NoCall, CallInv, Inv, Kinds, FreshInv, Gens
<1> QED
  BY <1>2, <1>3, <1>4

LEMMA KeepStep ==
  ASSUME Inv, LeaseInv, Keep
  PROVE  LeaseInv'
<1> USE DEF LeaseInv
<1> DEFINE own == Handles(starts)
<1>1. /\ Edge /\ UNCHANGED <<lease, starts, thr, up, task>> /\ job = "keep" /\ up = "up"
      /\ job' \in {"intent", "dropping"}
  BY ActorGen DEF Keep, At, Drop, Revoke, Edge, Begun, NoCall, CallInv, node
<1>2. RouteCalls' /\ AskedInv' /\ rv' \in [Actors -> Call]
  BY <1>1, Edges
<1>3. starts \in Gens /\ thr[starts] = "none"
  BY <1>1 DEF CallInv
<1>4. /\ \/ UNCHANGED <<kept, crossed>>
         \/ kept' = own /\ crossed' = crossed \cup Crossed(own)
      /\ job' = "intent" => \/ own = {}
                            \/ kept' = own
  <2>1. \/ own = {} /\ job' = "intent" /\ UNCHANGED <<kept, crossed, rv, trouble>>
        \/ kept' = own /\ crossed' = crossed \cup Crossed(own)
        \/ job' = "dropping" /\ UNCHANGED <<kept, crossed>>
    BY DEF Keep, Drop
  <2> HIDE DEF own
  <2> QED
    BY <2>1
<1>5. \A g \in Gens, s \in Services : <<g, s>> \in own <=> g = starts /\ lease[starts][s].held
  BY DEF Handles, HeldBy
<1> HIDE DEF own
<1>6. ASSUME NEW g \in Gens \ crossed', NEW s \in Services, Filed(g)', Alive(g, s)'
      PROVE  <<g, s>> \in kept'
  <2>1. Alive(g, s) /\ g \notin crossed
    BY <1>1, <1>4, <1>6 DEF Alive
  <2>2. CASE g = starts
    <3>1. job' = "intent" /\ lease[starts][s].held
      BY <1>1, <1>3, <1>6, <2>1, <2>2 DEF Filed, FileInv
    <3> QED
      BY <1>4, <1>5, <2>2, <3>1
  <2>3. CASE g # starts
    <3>1. <<g, s>> \in kept
      BY <1>1, <1>6, <2>1, <2>3 DEF Filed, FileInv
    <3>2. <<g, s>> \notin own
      BY <1>5, <2>3
    <3>3. g \in Crossed(own)
      BY <2>1, <3>1, <3>2 DEF Crossed
    <3> QED
      BY <1>4, <1>6, <3>1, <3>3
  <2> QED
    BY <2>2, <2>3
<1>7. FileInv'
  BY <1>1, <1>6 DEF FileInv
<1>8. CallInv'
  BY <1>1, <1>2, <1>3, ActorGen DEF Keep, Drop, Revoke, NoCall, CallInv
<1> QED
  BY <1>2, <1>7, <1>8

LEMMA ForgetStep ==
  ASSUME Inv, LeaseInv, NEW a \in Actors, Forget(a)
  PROVE  LeaseInv'
<1> USE DEF LeaseInv
<1> DEFINE own == {GenOf(a)} \X rv[a].taken
<1>1. /\ rv' = [rv EXCEPT ![a].pc = "done"] /\ rv[a].pc = "ask" /\ rv[a].left = {}
      /\ UNCHANGED <<lease, starts, thr, job, up, task>> /\ up = "up"
      /\ \/ UNCHANGED <<kept, crossed>>
         \/ crossed' = crossed \cup Crossed(own)
  BY DEF Forget, node
<1>2. /\ rv' \in [Actors -> Call] /\ rv'[a].pc = "done"
      /\ \A b \in Actors : b # a => rv'[b] = rv[b]
      /\ \A b \in Actors : GenOf(b)' = GenOf(b)
  BY <1>1 DEF CallInv, Call, GenOf
<1>3. RouteCalls'
  <2>1. ASSUME NEW g \in Gens, NEW s \in Services, Taking(g, s) PROVE Taking(g, s)'
    BY <1>1, <1>2, <2>1 DEF Taking
  <2> QED
    BY <1>1, <1>2, <2>1 DEF RouteCalls
<1>4. AskedInv'
  BY <1>1, <1>2 DEF AskedInv, Alive
<1>5. ASSUME NEW g \in Gens \ crossed', NEW s \in Services, Filed(g)', Alive(g, s)'
      PROVE  <<g, s>> \in kept'
  <2>1. g \notin crossed /\ Alive(g, s) /\ Filed(g)
    BY <1>1, <1>5 DEF Alive, Filed
  <2>2. <<g, s>> \in kept
    BY <2>1 DEF FileInv
  <2>3. <<g, s>> \notin own
    BY <1>1, <2>1 DEF AskedInv
  <2> HIDE DEF own
  <2>4. g \in Crossed(own)
    BY <2>1, <2>2, <2>3 DEF Crossed
  <2> QED
    BY <1>1, <1>5, <2>2, <2>4
<1>6. FileInv'
  BY <1>1, <1>5 DEF FileInv, Alive
<1>7. CallInv'
  BY <1>1, <1>2, ActorGen DEF CallInv
<1> QED
  BY <1>3, <1>4, <1>6, <1>7

LEMMA TookAllStep ==
  ASSUME Inv, LeaseInv, NEW a \in Actors, TookAll(a)
  PROVE  LeaseInv'
<1> USE DEF LeaseInv
<1>1. /\ rv' = [rv EXCEPT ![a].pc = IF rv[a].taken = {} THEN "done" ELSE "ask",
                          ![a].left = rv[a].taken]
      /\ rv[a].pc = "take" /\ rv[a].left = {} /\ up = "up"
      /\ UNCHANGED <<lease, starts, thr, job, up, task, kept, crossed>>
  BY DEF TookAll, node, lapses
<1>2. /\ rv' \in [Actors -> Call] /\ rv'[a].pc \in {"ask", "done"} /\ rv'[a].left = rv'[a].taken
      /\ \A b \in Actors : b # a => rv'[b] = rv[b]
      /\ \A b \in Actors : GenOf(b)' = GenOf(b)
  BY <1>1 DEF CallInv, Call, GenOf
<1>3. RouteCalls'
  <2>1. ASSUME NEW g \in Gens, NEW s \in Services, Taking(g, s) PROVE Taking(g, s)'
    BY <1>1, <1>2, <2>1 DEF Taking
  <2> QED
    BY <1>1, <1>2, <2>1 DEF RouteCalls
<1>4. AskedInv'
  BY <1>1, <1>2 DEF AskedInv, Alive
<1>5. FileInv'
  BY <1>1, FileSame DEF Filed
<1>6. CallInv'
  BY <1>1, <1>2, ActorGen DEF CallInv
<1> QED
  BY <1>3, <1>4, <1>5, <1>6

LEMMA WithdrawStep ==
  ASSUME Inv, LeaseInv, NEW a \in Actors, Withdraw(a)
  PROVE  LeaseInv'
<1> USE DEF LeaseInv
<1> DEFINE h == GenOf(a)
<1>0. h \in Gens
  BY CallGen DEF Withdraw
<1>1. /\ lease' = [lease EXCEPT ![h] = Unrouted(h)]
      /\ rv' = [rv EXCEPT ![a] = [pc |-> "take", left |-> IssuedBy(h), taken |-> {}]]
      /\ rv[a].pc = "begin" /\ up = "up"
      /\ UNCHANGED <<starts, thr, job, up, task, kept, crossed>>
  BY DEF Withdraw, node, lapses
<1>2. /\ rv' \in [Actors -> Call]
      /\ rv'[a].pc = "take" /\ rv'[a].left = IssuedBy(h) /\ rv'[a].taken = {}
      /\ \A b \in Actors : b # a => rv'[b] = rv[b]
      /\ \A b \in Actors : GenOf(b)' = GenOf(b)
  <2>1. IssuedBy(h) \subseteq Services
    BY DEF IssuedBy
  <2> HIDE DEF h
  <2> QED
    BY <1>1, <2>1 DEF CallInv, Call, GenOf
<1>3. ASSUME NEW g \in Gens, NEW s \in Services
      PROVE  /\ lease'[g][s].held = lease[g][s].held
             /\ lease'[g][s].route = IF g = h THEN 0 ELSE lease[g][s].route
             /\ Alive(g, s)' <=> Alive(g, s)
  <2>1. lease[g][s] \in Lease
    BY DEF Inv, Kinds
  <2>2. lease'[g][s] = IF g = h THEN [lease[g][s] EXCEPT !.route = 0] ELSE lease[g][s]
    BY <1>0, <1>1 DEF Inv, Kinds, Unrouted
  <2> HIDE DEF h
  <2> QED
    BY <2>1, <2>2 DEF Alive, Lease
<1>4. \A s \in Services : lease[h][s].held => s \in IssuedBy(h)
  BY <1>0 DEF Inv, HeldInv, IssuedBy
<1> HIDE DEF h
<1>5. RouteCalls'
  <2>1. ASSUME NEW g \in Gens, NEW s \in Services, Taking(g, s) PROVE Taking(g, s)'
    BY <1>1, <1>2, <2>1 DEF Taking
  <2>2. ASSUME NEW g \in Gens, NEW s \in Services, lease'[g][s].held, lease'[g][s].route = 0
        PROVE  Taking(g, s)'
    <3>1. CASE g = h
      BY <1>2, <1>3, <1>4, <2>2, <3>1 DEF Taking, h
    <3>2. CASE g # h
      BY <1>3, <2>1, <2>2, <3>2 DEF RouteCalls
    <3> QED
      BY <3>1, <3>2
  <2>3. ASSUME NEW b \in Actors, rv'[b].pc \in {"take", "ask", "done"}, NEW s \in Services
        PROVE  /\ lease'[GenOf(b)][s].route = 0
               /\ lease'[GenOf(b)][s].held => rv'[b].pc = "take" /\ s \in rv'[b].left
    <3>1. CASE b = a
      BY <1>0, <1>2, <1>3, <1>4, <3>1 DEF h
    <3>2. CASE b # a
      <4>1. rv'[b] = rv[b] /\ GenOf(b) \in Gens
        BY <1>2, <2>3, <3>2, CallGen
      <4> QED
        BY <1>3, <2>3, <4>1 DEF RouteCalls
    <3> QED
      BY <3>1, <3>2
  <2> QED
    BY <1>2, <2>2, <2>3 DEF RouteCalls
<1>6. AskedInv'
  <2>1. ASSUME NEW b \in Actors, rv'[b].pc = "ask", NEW s \in rv'[b].taken \ rv'[b].left
        PROVE  ~Alive(GenOf(b), s)'
    <3>1. b # a /\ rv'[b] = rv[b]
      BY <1>2, <2>1
    <3>2. GenOf(b) \in Gens /\ s \in Services
      BY <2>1, <3>1, CallGen DEF CallInv, Call
    <3> QED
      BY <1>2, <1>3, <2>1, <3>1, <3>2 DEF AskedInv
  <2> QED
    BY <1>2, <2>1 DEF AskedInv
<1>7. FileInv'
  BY <1>1, <1>3, FileLess DEF Filed, CallInv
<1>8. CallInv'
  BY <1>1, <1>2, <1>3, ActorGen DEF CallInv
<1> QED
  BY <1>5, <1>6, <1>7, <1>8

LEMMA TakeStep ==
  ASSUME Inv, LeaseInv, NEW a \in Actors, NEW t \in Services, Take(a, t)
  PROVE  LeaseInv'
<1> USE DEF LeaseInv
<1> DEFINE h == GenOf(a)
<1>0. h \in Gens
  BY CallGen DEF Take
<1>1. /\ lease' = [lease EXCEPT ![h][t].held = FALSE]
      /\ rv' = [rv EXCEPT ![a].left = @ \ {t},
                          ![a].taken = IF lease[h][t].held THEN @ \cup {t} ELSE @]
      /\ rv[a].pc = "take" /\ up = "up"
      /\ UNCHANGED <<starts, thr, job, up, task, kept, crossed>>
  BY DEF Take, node, lapses
<1> HIDE DEF h
<1>2. /\ rv' \in [Actors -> Call]
      /\ rv'[a].pc = "take" /\ rv'[a].left = rv[a].left \ {t}
      /\ \A b \in Actors : b # a => rv'[b] = rv[b]
      /\ \A b \in Actors : GenOf(b)' = GenOf(b)
  BY <1>1 DEF CallInv, Call, GenOf
<1>3. ASSUME NEW g \in Gens, NEW s \in Services
      PROVE  /\ lease'[g][s].held <=> lease[g][s].held /\ ~(g = h /\ s = t)
             /\ lease'[g][s].route = lease[g][s].route
             /\ Alive(g, s)' <=> Alive(g, s)
  <2>1. lease[g][s] \in Lease
    BY DEF Inv, Kinds
  <2>2. lease'[g][s] = IF g = h /\ s = t THEN [lease[g][s] EXCEPT !.held = FALSE] ELSE lease[g][s]
    BY <1>0, <1>1 DEF Inv, Kinds
  <2> QED
    BY <2>1, <2>2 DEF Alive, Lease
<1>5. RouteCalls'
  <2>2. ASSUME NEW g \in Gens, NEW s \in Services, lease'[g][s].held, lease'[g][s].route = 0
        PROVE  Taking(g, s)'
    <3>1. ~(g = h /\ s = t) /\ Taking(g, s)
      BY <1>3, <2>2 DEF RouteCalls
    <3>2. PICK b \in Actors : GenOf(b) = g /\ rv[b].pc = "take" /\ s \in rv[b].left
      BY <3>1 DEF Taking
    <3>3. rv'[b].pc = "take" /\ s \in rv'[b].left
      BY <1>2, <3>1, <3>2 DEF h
    <3> QED
      BY <1>2, <3>2, <3>3 DEF Taking
  <2>3. ASSUME NEW b \in Actors, rv'[b].pc \in {"take", "ask", "done"}, NEW s \in Services
        PROVE  /\ lease'[GenOf(b)][s].route = 0
               /\ lease'[GenOf(b)][s].held => rv'[b].pc = "take" /\ s \in rv'[b].left
    <3>1. CASE b = a
      BY <1>0, <1>1, <1>2, <1>3, <3>1 DEF RouteCalls, h
    <3>2. CASE b # a
      <4>1. rv'[b] = rv[b] /\ GenOf(b) \in Gens
        BY <1>2, <2>3, <3>2, CallGen
      <4> QED
        BY <1>3, <2>3, <4>1 DEF RouteCalls
    <3> QED
      BY <3>1, <3>2
  <2> QED
    BY <1>2, <2>2, <2>3 DEF RouteCalls
<1>6. AskedInv'
  <2>1. ASSUME NEW b \in Actors, rv'[b].pc = "ask", NEW s \in rv'[b].taken \ rv'[b].left
        PROVE  ~Alive(GenOf(b), s)'
    <3>1. b # a /\ rv'[b] = rv[b]
      BY <1>2, <2>1
    <3>2. GenOf(b) \in Gens /\ s \in Services
      BY <2>1, <3>1, CallGen DEF CallInv, Call
    <3> QED
      BY <1>2, <1>3, <2>1, <3>1, <3>2 DEF AskedInv
  <2> QED
    BY <1>2, <2>1 DEF AskedInv
<1>7. FileInv'
  <2>1. job = "keep" => h # starts
    BY <1>1, ActorGen DEF CallInv, h
  <2> QED
    BY <1>1, <1>3, <2>1, FileLess DEF Filed, CallInv
<1>8. CallInv'
  BY <1>1, <1>2, <1>3, ActorGen DEF CallInv
<1> QED
  BY <1>5, <1>6, <1>7, <1>8

LEMMA AskStep ==
  ASSUME Inv, LeaseInv, NEW a \in Actors, NEW t \in Services, Ask(a, t)
  PROVE  LeaseInv'
<1> USE DEF LeaseInv
<1> DEFINE h == GenOf(a)
<1>0. h \in Gens
  BY CallGen DEF Ask
<1>1. /\ \E r \in BOOLEAN : lease' = [lease EXCEPT ![h][t] = AskProvider(@, r)]
      /\ rv' = [rv EXCEPT ![a].left = @ \ {t}]
      /\ rv[a].pc = "ask" /\ up = "up"
      /\ UNCHANGED <<starts, thr, job, up, task, kept, crossed>>
  BY DEF Ask, node, lapses
<1> HIDE DEF h
<1>2. /\ rv' \in [Actors -> Call]
      /\ rv'[a].pc = "ask" /\ rv'[a].left = rv[a].left \ {t} /\ rv'[a].taken = rv[a].taken
      /\ \A b \in Actors : b # a => rv'[b] = rv[b]
      /\ \A b \in Actors : GenOf(b)' = GenOf(b)
  BY <1>1 DEF CallInv, Call, GenOf
<1>3. ASSUME NEW g \in Gens, NEW s \in Services
      PROVE  /\ lease'[g][s].held = lease[g][s].held
             /\ lease'[g][s].route = lease[g][s].route
             /\ Alive(g, s)' => Alive(g, s) /\ ~(g = h /\ s = t)
  <2>1. lease[g][s] \in Lease
    BY DEF Inv, Kinds
  <2>2. PICK r \in BOOLEAN : lease' = [lease EXCEPT ![h][t] = AskProvider(@, r)]
    BY <1>1
  <2>3. lease'[g][s] = IF g = h /\ s = t THEN AskProvider(lease[g][s], r) ELSE lease[g][s]
    BY <1>0, <2>2 DEF Inv, Kinds
  <2> QED
    BY <2>1, <2>3 DEF Alive, Lease, AskProvider
<1>5. RouteCalls'
  <2>2. ASSUME NEW g \in Gens, NEW s \in Services, lease'[g][s].held, lease'[g][s].route = 0
        PROVE  Taking(g, s)'
    <3>1. Taking(g, s)
      BY <1>3, <2>2 DEF RouteCalls
    <3>2. PICK b \in Actors : GenOf(b) = g /\ rv[b].pc = "take" /\ s \in rv[b].left
      BY <3>1 DEF Taking
    <3> QED
      BY <1>1, <1>2, <3>2 DEF Taking
  <2>3. ASSUME NEW b \in Actors, rv'[b].pc \in {"take", "ask", "done"}, NEW s \in Services
        PROVE  /\ lease'[GenOf(b)][s].route = 0
               /\ lease'[GenOf(b)][s].held => rv'[b].pc = "take" /\ s \in rv'[b].left
    <3>1. CASE b = a
      BY <1>0, <1>1, <1>2, <1>3, <3>1 DEF RouteCalls, h
    <3>2. CASE b # a
      <4>1. rv'[b] = rv[b] /\ GenOf(b) \in Gens
        BY <1>2, <2>3, <3>2, CallGen
      <4> QED
        BY <1>3, <2>3, <4>1 DEF RouteCalls
    <3> QED
      BY <3>1, <3>2
  <2> QED
    BY <1>2, <2>2, <2>3 DEF RouteCalls
<1>6. AskedInv'
  <2>1. ASSUME NEW b \in Actors, rv'[b].pc = "ask", NEW s \in rv'[b].taken \ rv'[b].left
        PROVE  ~Alive(GenOf(b), s)'
    <3>1. rv[b].pc = "ask" /\ s \in rv[b].taken /\ (s \notin rv[b].left \/ (b = a /\ s = t))
      BY <1>1, <1>2, <2>1
    <3>2. GenOf(b) \in Gens /\ s \in Services
      BY <3>1, CallGen DEF CallInv, Call
    <3>3. CASE s \notin rv[b].left
      BY <1>2, <1>3, <3>1, <3>2, <3>3 DEF AskedInv
    <3>4. CASE b = a /\ s = t
      BY <1>2, <1>3, <3>2, <3>4 DEF h
    <3> QED
      BY <3>1, <3>3, <3>4
  <2> QED
    BY <1>2, <2>1 DEF AskedInv
<1>7. FileInv'
  BY <1>1, <1>3, FileLess DEF Filed, CallInv
<1>8. CallInv'
  BY <1>1, <1>2, <1>3, ActorGen DEF CallInv
<1> QED
  BY <1>5, <1>6, <1>7, <1>8

\* A step of a reaper that changes neither who holds a lease, nor which routes are closed, nor
\* what a provider thinks of it.
LEMMA SameLeases ==
  ASSUME Inv, LeaseInv,
         \A g \in Gens, s \in Services : /\ lease'[g][s].held = lease[g][s].held
                                         /\ lease[g][s].route = 0 <=> lease'[g][s].route = 0
                                         /\ lease'[g][s].prov = lease[g][s].prov
                                         /\ lease'[g][s].refused = lease[g][s].refused,
         UNCHANGED <<up, task, starts, job, rv, kept, crossed>>,
         NEW h \in Gens, NEW x \in {"watch", "renewing"}, thr[h] \in {"watch", "renewing"},
         thr' = [thr EXCEPT ![h] = x]
  PROVE  LeaseInv'
<1> USE DEF LeaseInv
<1>1. \A b \in Actors : GenOf(b)' = GenOf(b)
  BY DEF GenOf
<1>2. \A g \in Gens, s \in Services : Alive(g, s)' <=> Alive(g, s)
  BY DEF Alive
<1>3. RouteCalls'
  <2>1. ASSUME NEW b \in Actors, rv'[b].pc \in {"take", "ask", "done"} PROVE GenOf(b) \in Gens
    BY <2>1, CallGen
  <2>2. \A g \in Gens, s \in Services : Taking(g, s)' <=> Taking(g, s)
    BY <1>1 DEF Taking
  <2> QED
    BY <1>1, <2>1, <2>2 DEF RouteCalls
<1>4. AskedInv'
  <2>1. ASSUME NEW b \in Actors, rv[b].pc = "ask", NEW s \in rv[b].taken
        PROVE  GenOf(b) \in Gens /\ s \in Services
    BY <2>1, CallGen DEF CallInv, Call
  <2> QED
    BY <1>1, <1>2, <2>1 DEF AskedInv
<1>5. FileInv'
  <2>1. \A g \in Gens : Filed(g)' => Filed(g)
    BY DEF Filed, Inv, Kinds
  <2> QED
    BY <1>2, <2>1, FileLess DEF CallInv
<1>6. CallInv'
  BY ActorGen DEF CallInv, Inv, Kinds
<1> QED
  BY <1>3, <1>4, <1>5, <1>6

LEMMA RenewStep ==
  ASSUME Inv, LeaseInv, NEW h \in Gens, Renew(h)
  PROVE  LeaseInv'
<1>1. ASSUME NEW g \in Gens, NEW s \in Services
      PROVE  /\ lease'[g][s].held = lease[g][s].held /\ lease'[g][s].prov = lease[g][s].prov
             /\ lease'[g][s].refused = lease[g][s].refused
             /\ lease'[g][s].route = lease[g][s].route
  <2>1. lease[g][s] \in Lease
    BY DEF Inv, Kinds
  <2>2. \/ lease'[g][s] = lease[g][s]
        \/ lease'[g][s] = [lease[g][s] EXCEPT !.renew = FALSE]
    <3> DEFINE D == {t \in Services : Due(lease[h][t])}
               Err(F) == F \cup {t \in D : ~Renewable(lease[h][t])}
    <3>1. PICK F : lease' = [lease EXCEPT ![h] = [t \in Services |->
             IF t \in Err(F) THEN [lease[h][t] EXCEPT !.renew = FALSE] ELSE lease[h][t]]]
      BY DEF Renew
    <3> HIDE DEF Err
    <3> QED
      BY <3>1 DEF Inv, Kinds
  <2> QED
    BY <2>1, <2>2 DEF Lease
<1>2. /\ thr[h] = "watch" /\ thr' = [thr EXCEPT ![h] = "renewing"]
      /\ UNCHANGED <<up, task, starts, job, rv, kept, crossed>>
  BY DEF Renew, node, lapses
<1> QED
  BY <1>1, <1>2, SameLeases

LEMMA RecordRenewalsStep ==
  ASSUME Inv, LeaseInv, NEW h \in Gens, RecordRenewals(h)
  PROVE  LeaseInv'
<1> DEFINE new == renewals[h]
<1>1. PICK A \in SUBSET new.ok : lease' = [lease EXCEPT ![h] = [s \in Services |->
             IF s \in A THEN Applied(lease[h][s], new.exp[s]) ELSE lease[h][s]]]
  BY DEF RecordRenewals, Effective
<1>2. /\ thr[h] = "renewing" /\ thr' = [thr EXCEPT ![h] = "watch"]
      /\ UNCHANGED <<up, task, starts, job, rv, kept, crossed>>
  BY DEF RecordRenewals, node, lapses
<1>3. ASSUME NEW g \in Gens, NEW s \in Services
      PROVE  /\ lease'[g][s].held = lease[g][s].held /\ lease'[g][s].prov = lease[g][s].prov
             /\ lease'[g][s].refused = lease[g][s].refused
             /\ lease'[g][s].route = lease[g][s].route
                \/ (g = h /\ s \in A /\ lease[g][s].held /\ lease'[g][s].route = new.exp[s])
  <2>1. lease[g][s] \in Lease
    BY DEF Inv, Kinds
  <2>2. \/ lease'[g][s] = lease[g][s]
        \/ /\ g = h /\ s \in A /\ lease[g][s].held
           /\ lease'[g][s] = [lease[g][s] EXCEPT !.route = new.exp[s], !.exp = new.exp[s]]
    BY <1>1 DEF Inv, Kinds, Applied
  <2> HIDE DEF new
  <2>3. CASE lease'[g][s] = lease[g][s]
    BY <2>3
  <2>4. CASE /\ g = h /\ s \in A /\ lease[g][s].held
             /\ lease'[g][s] = [lease[g][s] EXCEPT !.route = new.exp[s], !.exp = new.exp[s]]
    BY <2>1, <2>4 DEF Lease
  <2> QED
    BY <2>2, <2>3, <2>4
<1>4. ASSUME NEW s \in A PROVE new.exp[s] # 0
  BY DEF Inv, Kinds, RenewInv, Lease
<1>5. ASSUME NEW s \in Services, lease[h][s].held PROVE lease[h][s].route # 0
  <2>1. ~Taking(h, s)
    BY ActorGen DEF Taking, LeaseInv, CallInv, RecordRenewals, Idle
  <2> QED
    BY <1>5, <2>1 DEF LeaseInv, RouteCalls
<1> HIDE DEF new
<1>6. ASSUME NEW g \in Gens, NEW s \in Services
      PROVE  lease[g][s].route = 0 <=> lease'[g][s].route = 0
  BY <1>3, <1>4, <1>5
<1> QED
  BY <1>2, <1>3, <1>6, SameLeases

LEMMA CrashStep ==
  ASSUME Inv, LeaseInv, Crash
  PROVE  LeaseInv'
<1>1. ASSUME NEW g \in Gens, NEW s \in Services
      PROVE  ~lease'[g][s].held /\ (Alive(g, s)' <=> Alive(g, s))
  <2>1. lease'[g][s] = [lease[g][s] EXCEPT !.route = 0, !.held = FALSE]
    <3>1. lease'[g] = Withdrawn(g)
      BY DEF Crash
    <3> QED
      BY <3>1 DEF Withdrawn
  <2>2. lease[g][s] \in Lease
    BY DEF Inv, Kinds
  <2> QED
    BY <2>1, <2>2 DEF Lease, Alive
<1>2. /\ up' = "down" /\ job' = "idle" /\ \A a \in Actors : rv'[a] = NoCall
      /\ \A g \in Gens : thr'[g] = "none" <=> thr[g] = "none"
      /\ UNCHANGED <<task, starts, kept, crossed>>
  BY DEF Crash, lapses
<1>3. NoCall \in Call /\ NoCall.pc = "idle"
  BY DEF NoCall, Call
<1>4. RouteCalls' /\ AskedInv'
  BY <1>1, <1>2, <1>3, AllEnded
<1>5. FileInv'
  <2>1. \A g \in Gens : Filed(g)' => Filed(g)
    BY <1>2 DEF Filed
  <2> QED
    BY <1>1, <1>2, <2>1, FileLess DEF LeaseInv, CallInv
<1>6. CallInv'
  BY <1>1, <1>2, <1>3, ActorGen DEF LeaseInv, CallInv, Crash
<1> QED
  BY <1>4, <1>5, <1>6 DEF LeaseInv

LEMMA RecoverStep ==
  ASSUME Inv, LeaseInv, Recover
  PROVE  LeaseInv'
<1>1. ASSUME NEW g \in Gens, NEW s \in Services
      PROVE  /\ lease'[g][s].held = lease[g][s].held
             /\ Alive(g, s)' => Alive(g, s) /\ <<g, s>> \notin kept
  <2>1. lease[g][s] \in Lease
    BY DEF Inv, Kinds
  <2>2. \/ lease'[g][s] = lease[g][s] /\ <<g, s>> \notin kept
        \/ lease'[g][s] = [lease[g][s] EXCEPT !.refused = TRUE]
        \/ lease'[g][s] = [lease[g][s] EXCEPT !.prov = "revoked"]
    <3>1. PICK R \in SUBSET kept : lease' = [k \in Gens |-> [t \in Services |->
             IF <<k, t>> \in kept THEN AskProvider(lease[k][t], <<k, t>> \in R)
             ELSE lease[k][t]]]
      BY DEF Recover
    <3>2. lease'[g][s] = IF <<g, s>> \in kept THEN AskProvider(lease[g][s], <<g, s>> \in R)
                         ELSE lease[g][s]
      BY <3>1
    <3> QED
      BY <3>2 DEF AskProvider
  <2> QED
    BY <2>1, <2>2 DEF Lease, Alive
<1>2. /\ up = "recovering" /\ up' = "recorded"
      /\ rv' = [a \in Actors |-> [NoCall EXCEPT !.taken = KeptOf(a)]]
      /\ UNCHANGED <<task, starts, job, thr, crossed>>
  BY DEF Recover, lapses
<1>3. /\ job = "idle" /\ \A g \in Gens, s \in Services : ~lease[g][s].held
  BY <1>2 DEF LeaseInv, CallInv
<1>4. rv' \in [Actors -> Call] /\ \A a \in Actors : rv'[a].pc = "idle"
  <2>1. \A a \in Actors : KeptOf(a) \in SUBSET Services
    BY DEF KeptOf
  <2> QED
    BY <1>2, <2>1 DEF NoCall, Call
<1>5. RouteCalls' /\ AskedInv'
  BY <1>1, <1>3, <1>4, AllEnded
<1>6. FileInv'
  BY <1>1, <1>2, <1>3 DEF LeaseInv, FileInv, Filed
<1>7. CallInv'
  BY <1>1, <1>2, <1>3, <1>4, ActorGen DEF LeaseInv, CallInv
<1> QED
  BY <1>5, <1>6, <1>7 DEF LeaseInv

LEMMA RecoveredStep ==
  ASSUME Inv, LeaseInv, Recovered \/ CrashRecovering
  PROVE  LeaseInv'
<1>1. /\ up # "up" /\ \A a \in Actors : rv'[a] = NoCall
      /\ UNCHANGED <<task, starts, job, thr, lease, kept, crossed>>
  BY DEF Recovered, CrashRecovering, lapses
<1>2. /\ job = "idle" /\ \A g \in Gens, s \in Services : ~lease[g][s].held
  BY <1>1 DEF LeaseInv, CallInv
<1>3. NoCall \in Call /\ NoCall.pc = "idle"
  BY DEF NoCall, Call
<1>4. RouteCalls' /\ AskedInv'
  BY <1>1, <1>2, <1>3, AllEnded
<1>5. FileInv'
  BY <1>1, FileSame DEF Filed, LeaseInv
<1>6. rv' \in [Actors -> Call]
  BY <1>3 DEF Recovered, CrashRecovering
<1>7. CallInv'
  BY <1>1, <1>2, <1>3, <1>6, ActorGen DEF LeaseInv, CallInv
<1> QED
  BY <1>4, <1>5, <1>7 DEF LeaseInv

LEMMA IssueStep ==
  ASSUME Inv, LeaseInv, Issuing
  PROVE  LeaseInv'
<1> USE DEF LeaseInv
<1> DEFINE h == starts + 1
<1>1. /\ up = "up" /\ job = "idle" /\ starts < MaxStarts /\ starts' = h
      /\ job' \in {"keep", "dropping"} /\ UNCHANGED <<up, task, thr, kept, crossed>>
  BY DEF Issuing, Issue, IssueUnrouted, Idle, Drop, lapses
<1>2. h \in Gens /\ thr[h] = "none" /\ starts \in Int /\ Gens \subseteq Int
  BY <1>1, Bounds DEF Inv, Kinds, FreshInv, Gens
<1>3. /\ rv' \in [Actors -> Call] /\ rv[Lock].pc = "idle" /\ rv'[Lock].pc \in {"idle", "begin"}
      /\ rv'[Lock].pc = "begin" => job' = "dropping"
      /\ \A g \in Gens : rv'[g] = rv[g]
  <2>1. rv[Lock].pc = "idle"
    BY <1>1 DEF CallInv
  <2>2. UNCHANGED rv \/ (job' = "dropping" /\ rv' = [rv EXCEPT ![Lock] = Begun])
    BY DEF Issuing, Issue, IssueUnrouted, Drop, Revoke, Begun
  <2>3. Begun \in Call /\ Begun.pc = "begin"
    BY DEF Begun, NoCall, Call
  <2> QED
    BY <2>1, <2>2, <2>3, ActorGen DEF CallInv
<1>4. ASSUME NEW g \in Gens, g # h PROVE lease'[g] = lease[g]
  <2>1. \E f : lease' = [lease EXCEPT ![h] = f]
    BY DEF Issuing, Issue, IssueUnrouted
  <2> HIDE DEF h
  <2> QED
    BY <1>4, <2>1 DEF Inv, Kinds
<1>5. job' = "keep" => \A s \in Services : lease'[h][s].prov = "live" => lease'[h][s].held
  <2>1. ASSUME job' = "keep"
        PROVE  \E D \in SUBSET Services : lease' = [lease EXCEPT ![h] = [s \in Services |->
                       IF s \in D THEN NoLease ELSE Issued(TRUE)]]
    BY <2>1 DEF Issuing, Issue, IssueUnrouted, Drop
  <2> HIDE DEF h
  <2>2. ASSUME job' = "keep", NEW s \in Services
        PROVE  lease'[h][s] = NoLease \/ lease'[h][s] = Issued(TRUE)
    BY <1>2, <2>1, <2>2 DEF Inv, Kinds
  <2> QED
    BY <2>2 DEF NoLease, Issued
<1>6. ASSUME NEW s \in Services, lease'[h][s].held PROVE lease'[h][s].route # 0
  <2>1. Inv' /\ now \in Nat
    BY IssueInv DEF Inv, Kinds
  <2>2. \/ lease'[h][s] = NoLease \/ lease'[h][s] = Issued(TRUE)
        \/ \E p \in {"none", "leaked"} : lease'[h][s] = [NoLease EXCEPT !.prov = p]
    <3>1. CASE Issue
      <4>1. PICK D \in SUBSET Services : lease' = [lease EXCEPT ![h] = [t \in Services |->
                       IF t \in D THEN NoLease ELSE Issued(TRUE)]]
        BY <3>1 DEF Issue
      <4> HIDE DEF h
      <4> QED
        BY <1>2, <4>1 DEF Inv, Kinds
    <3>2. CASE IssueUnrouted
      <4> DEFINE New(I, t, p) == [r \in Services |-> IF r \in I THEN Issued(TRUE)
                   ELSE [NoLease EXCEPT !.prov = IF r = t THEN p ELSE "none"]]
      <4>1. PICK I \in SUBSET Services, t \in Services, p \in {"none", "leaked"} :
              lease' = [lease EXCEPT ![h] = New(I, t, p)]
        BY <3>2 DEF IssueUnrouted
      <4>2. lease'[h] = New(I, t, p)
        <5> HIDE DEF New, h
        <5> QED
          BY <1>2, <4>1 DEF Inv, Kinds
      <4> HIDE DEF h
      <4> QED
        BY <4>2
    <3> QED
      BY <3>1, <3>2 DEF Issuing
  <2>3. CASE lease'[h][s] = Issued(TRUE)
    BY <2>1, <2>3, Bounds DEF Issued
  <2>4. CASE lease'[h][s] = NoLease
    BY <1>6, <2>4 DEF NoLease
  <2>5. CASE \E p \in {"none", "leaked"} : lease'[h][s] = [NoLease EXCEPT !.prov = p]
    BY <1>6, <2>5 DEF NoLease
  <2> QED
    BY <2>2, <2>3, <2>4, <2>5
<1>7. \A g \in Gens : rv'[g].pc # "idle" => g # h
  BY <1>2, <1>3, ActorGen DEF CallInv
<1>8. \A g \in Gens : GenOf(g) = g /\ GenOf(g)' = g
  BY ActorGen, <1>2 DEF GenOf, Lock, Gens
<1> HIDE DEF h
<1>9. RouteCalls'
  <2>1. ASSUME NEW g \in Gens, NEW s \in Services, lease'[g][s].held, lease'[g][s].route = 0
        PROVE  Taking(g, s)'
    <3>1. g # h /\ Taking(g, s)
      BY <1>4, <1>6, <2>1 DEF RouteCalls
    <3>2. PICK b \in Actors : GenOf(b) = g /\ rv[b].pc = "take" /\ s \in rv[b].left
      BY <3>1 DEF Taking
    <3>3. b \in Gens
      BY <1>3, <3>2, ActorGen
    <3> QED
      BY <1>3, <1>8, <3>2, <3>3 DEF Taking
  <2>2. ASSUME NEW b \in Actors, rv'[b].pc \in {"take", "ask", "done"}, NEW s \in Services
        PROVE  /\ lease'[GenOf(b)'][s].route = 0
               /\ lease'[GenOf(b)'][s].held => rv'[b].pc = "take" /\ s \in rv'[b].left
    <3>1. b \in Gens /\ b # h
      BY <1>3, <1>7, <2>2, ActorGen
    <3> QED
      BY <1>3, <1>4, <1>8, <2>2, <3>1 DEF RouteCalls
  <2> QED
    BY <2>1, <2>2 DEF RouteCalls
<1>10. AskedInv'
  <2>1. ASSUME NEW b \in Actors, rv'[b].pc = "ask" PROVE b \in Gens /\ b # h
    BY <1>3, <1>7, <2>1, ActorGen
  <2> QED
    BY <1>3, <1>4, <1>8, <2>1 DEF AskedInv, Alive
<1>11. FileInv'
  <2>1. ASSUME NEW g \in Gens, Filed(g)' PROVE g # h /\ Filed(g)
    BY <1>1, <1>2, <2>1 DEF Filed
  <2> QED
    BY <1>1, <1>4, <1>5, <2>1 DEF FileInv, Alive
<1>12. CallInv'
  BY <1>1, <1>2, <1>3, ActorGen DEF CallInv
<1> QED
  BY <1>9, <1>10, <1>11, <1>12

LEMMA LeaseStep ==
  ASSUME Inv, LeaseInv, [Next]_vars
  PROVE  LeaseInv'
BY TickStep, KeepStep, IntentStep, SpawnOkStep, SpawnAmbiguousStep, SpawnRefusedStep,
   SpawnRefusedStuckStep, DroppedStep, RecordSpawnStep, EndAmbiguousStep, LateSpawnStep,
   ThreadDroppedStep, WorkloadEndsStep, RecordExitStep, RequestStep, RevokeTimedOutStep,
   EndRevokedStep, EndReadyStep, RestartStep, RecoverUnreadStep, StutterStep, ForgetStep,
   TookAllStep, WithdrawStep, TakeStep, AskStep, RenewStep, RecordRenewalsStep, CrashStep,
   RecoverStep, RecoveredStep, IssueStep
   DEF Next, LockSteps, ReaperSteps, Calls, Recovery, Issuing

LEMMA InvHolds == Spec => [](Inv /\ LeaseInv)
<1>1. Inv /\ LeaseInv /\ [Next]_vars => (Inv /\ LeaseInv)'
  BY StepTouches, LeaseStep DEF LeaseInv
<1> QED
  BY InvInit, LeaseInit, <1>1, PTL DEF Spec

\* A route that a launched attempt has lost stays lost, whichever renewal was on its way and
\* however often the attempt is started: credentials.rs withdraw, renewed.
THEOREM WithdrawnStaysWithdrawn == Spec => NotReopened
<1>1. ASSUME Inv, LeaseInv, [Next]_vars, NEW g \in Gens, NEW s \in Services,
             thr[g] # "none", lease[g][s].route = 0
      PROVE  lease'[g][s].route = 0
  <2>1. Touched(lease[g][s], lease'[g][s]) /\ lease[g][s] \in Lease
    BY <1>1, StepTouches DEF Inv, Kinds, LeaseInv
  <2>2. ~(lease[g][s].held /\ lease[g][s].route = lease[g][s].exp)
    BY <1>1, <2>1 DEF Inv, HeldInv, Lease
  <2> QED
    BY <1>1, <2>1, <2>2 DEF Touched, Lessened, Ended, Closed, Same, Longer
<1>2. Inv /\ LeaseInv /\ [Next]_vars =>
        [\A g \in Gens, s \in Services :
           thr[g] # "none" /\ lease[g][s].route = 0 => lease'[g][s].route = 0]_vars
  BY <1>1
<1> QED
  BY InvHolds, <1>2, PTL DEF Spec, NotReopened

\* From the launch on, however often the attempt is started and whatever fails or dies, the
\* handle of every lease that may be alive at its provider is on disk, unless another call took
\* the file with it: credentials.rs keep, revoke, recover.
THEOREM LiveLeasesKept == Spec => []HandleKept
<1>1. LeaseInv => HandleKept
  BY DEF LeaseInv, FileInv, Filed, HandleKept
<1> QED
  BY InvHolds, <1>1, PTL

-----------------------------------------------------------------------------
(* One start.                                                              *)

\* What the log says of a route, and who vouches for it before the launch is recorded.
Log == [granted : [Ids -> Nat], told : [Ids -> Nat], launched : BOOLEAN, ended : BOOLEAN]

RouteInv ==
  /\ log \in Log
  /\ log.launched => /\ job \notin {"keep", "intent", "spawn", "running", "dropping"}
                     /\ thr[1] \notin {"none", "drop"} /\ starts = 1
  /\ job = "running" => thr[1] \notin {"none", "drop"}
  /\ job \in {"running", "failing", "failed"} => task = "live"
  /\ \A s \in Services : lease[1][s].held =>
       /\ task = "live" \/ job \in {"keep", "intent", "spawn", "dropping"} \/ thr[1] = "drop"
       /\ job \in {"keep", "intent", "spawn", "running"} =>
            lease[1][s].exp = lease[1][s].iss + Ttl
       /\ log.launched => lease[1][s].route <= log.granted[<<1, s>>]

OneStart == MaxStarts = 1

LEMMA OneGen == OneStart => Gens = {1} /\ Actors = {0, 1} /\ Lock = 0
BY DEF OneStart, Gens, Actors, Lock

\* With one start, the calls are about it and the steps of a start are its.
LEMMA OneCall ==
  ASSUME OneStart, LeaseInv
  PROVE  /\ job # "idle" \/ task = "live" => starts = 1
         /\ job \in {"keep", "intent", "spawn"} => thr[1] = "none"
         /\ up # "up" => job = "idle" /\ \A s \in Services : ~lease[1][s].held
         /\ \A a \in Actors : rv[a].pc # "idle" => GenOf(a) = 1
         /\ \A a \in Actors : rv[a].pc = "done" => \A s \in Services : ~lease[1][s].held
<1>1. \A a \in Actors : rv[a].pc # "idle" => GenOf(a) = 1
  BY OneGen, CallGen DEF LeaseInv
<1>2. \A a \in Actors : rv[a].pc = "done" => \A s \in Services : ~lease[1][s].held
  BY <1>1 DEF LeaseInv, RouteCalls
<1> QED
  BY <1>1, <1>2, OneGen DEF LeaseInv, CallInv

LEMMA OneInit == OneStart /\ Init => RouteInv
BY OneGen DEF Init, RouteInv, Log, NoLog, NoLease

LEMMA TellLog ==
  ASSUME NEW l \in Log, NEW I, NEW e \in BOOLEAN
  PROVE  /\ Tell(l, I) \in Log /\ Tell(l, I).granted = l.granted /\ Tell(l, I).launched = l.launched
         /\ [Tell(l, I) EXCEPT !.ended = e] \in Log
         /\ [Tell(l, I) EXCEPT !.ended = e].granted = l.granted
         /\ [Tell(l, I) EXCEPT !.ended = e].launched = l.launched
<1>1. [i \in Ids |-> IF i \in I THEN l.told[i] + 1 ELSE l.told[i]] \in [Ids -> Nat]
  BY DEF Log
<1>2. Tell(l, I) \in Log /\ Tell(l, I).granted = l.granted /\ Tell(l, I).launched = l.launched
  BY <1>1 DEF Tell, Log
<1> HIDE DEF Tell
<1> QED
  BY <1>2 DEF Log

LEMMA GrantLog ==
  ASSUME Inv, NEW l \in Log, NEW g \in Gens, NEW S \in SUBSET Services
  PROVE  /\ Grant(l, g, S) \in Log /\ Grant(l, g, S).launched = l.launched
         /\ \A s \in Services : Grant(l, g, S).granted[<<g, s>>] =
              IF s \in S THEN lease[g][s].iss + Ttl ELSE l.granted[<<g, s>>]
<1> DEFINE f == [i \in Ids |-> IF i \in {g} \X S THEN lease[g][i[2]].iss + Ttl ELSE l.granted[i]]
<1>1. f \in [Ids -> Nat]
  BY Bounds DEF Inv, Kinds, Lease, Log, Ids
<1>2. \A s \in Services : f[<<g, s>>] = IF s \in S THEN lease[g][s].iss + Ttl ELSE l.granted[<<g, s>>]
  BY DEF Ids
<1>3. Grant(l, g, S) = [l EXCEPT !.granted = f]
  BY DEF Grant
<1> HIDE DEF f
<1> QED
  BY <1>1, <1>2, <1>3 DEF Log

LEMMA TickOne ==
  ASSUME OneStart, Inv, LeaseInv, RouteInv, Tick
  PROVE  RouteInv'
BY OneGen, OneCall, ActorGen DEF Tick, node, RouteInv, Inv, Kinds

LEMMA ForgetOne ==
  ASSUME OneStart, Inv, LeaseInv, RouteInv, NEW a \in Actors, Forget(a)
  PROVE  RouteInv'
BY OneGen, OneCall, ActorGen DEF Forget, node, RouteInv, Inv, Kinds

LEMMA TookAllOne ==
  ASSUME OneStart, Inv, LeaseInv, RouteInv, NEW a \in Actors, TookAll(a)
  PROVE  RouteInv'
BY OneGen, OneCall, ActorGen DEF TookAll, node, RouteInv, Inv, Kinds

LEMMA KeepOne ==
  ASSUME OneStart, Inv, LeaseInv, RouteInv, Keep
  PROVE  RouteInv'
BY OneGen, OneCall, ActorGen DEF Keep, At, Drop, node, RouteInv, Inv, Kinds

LEMMA IntentOne ==
  ASSUME OneStart, Inv, LeaseInv, RouteInv, Intent
  PROVE  RouteInv'
BY OneGen, OneCall, ActorGen DEF Intent, At, Drop, RouteInv, Inv, Kinds

LEMMA SpawnOkOne ==
  ASSUME OneStart, Inv, LeaseInv, RouteInv, SpawnOk
  PROVE  RouteInv'
BY OneGen, OneCall, ActorGen DEF SpawnOk, At, Attempted, RouteInv, Inv, Kinds

LEMMA SpawnAmbiguousOne ==
  ASSUME OneStart, Inv, LeaseInv, RouteInv, SpawnAmbiguous
  PROVE  RouteInv'
BY OneGen, OneCall, ActorGen DEF SpawnAmbiguous, At, Attempted, RouteInv, Inv, Kinds

LEMMA SpawnRefusedOne ==
  ASSUME OneStart, Inv, LeaseInv, RouteInv, SpawnRefused
  PROVE  RouteInv'
BY OneGen, OneCall, ActorGen DEF SpawnRefused, At, Drop, RouteInv, Inv, Kinds

LEMMA SpawnRefusedStuckOne ==
  ASSUME OneStart, Inv, LeaseInv, RouteInv, SpawnRefusedStuck
  PROVE  RouteInv'
BY OneGen, OneCall, ActorGen DEF SpawnRefusedStuck, At, Attempted, RouteInv, Inv, Kinds

LEMMA DroppedOne ==
  ASSUME OneStart, Inv, LeaseInv, RouteInv, Dropped
  PROVE  RouteInv'
BY OneGen, OneCall, ActorGen DEF Dropped, At, Returned, node, RouteInv, Inv, Kinds

LEMMA LateSpawnOne ==
  ASSUME OneStart, Inv, LeaseInv, RouteInv, NEW g \in Gens, LateSpawn(g)
  PROVE  RouteInv'
BY OneGen, OneCall, ActorGen DEF LateSpawn, node, RouteInv, Inv, Kinds

LEMMA ThreadDroppedOne ==
  ASSUME OneStart, Inv, LeaseInv, RouteInv, NEW g \in Gens, ThreadDropped(g)
  PROVE  RouteInv'
BY OneGen, OneCall, ActorGen DEF ThreadDropped, Returned, node, RouteInv, Inv, Kinds

LEMMA WorkloadEndsOne ==
  ASSUME OneStart, Inv, LeaseInv, RouteInv, NEW g \in Gens, WorkloadEnds(g)
  PROVE  RouteInv'
BY OneGen, OneCall, ActorGen DEF WorkloadEnds, node, RouteInv, Inv, Kinds

LEMMA RequestOne ==
  ASSUME OneStart, Inv, LeaseInv, RouteInv, NEW v \in {"stop", "revoke"}, Request(v)
  PROVE  RouteInv'
BY OneGen, OneCall, ActorGen DEF Request, Idle, RouteInv, Inv, Kinds

LEMMA RevokeTimedOutOne ==
  ASSUME OneStart, Inv, LeaseInv, RouteInv, RevokeTimedOut
  PROVE  RouteInv'
BY OneGen, OneCall, ActorGen DEF RevokeTimedOut, Idle, node, RouteInv, Inv, Kinds

LEMMA EndReadyOne ==
  ASSUME OneStart, Inv, LeaseInv, RouteInv, EndReady
  PROVE  RouteInv'
BY OneGen, OneCall, ActorGen DEF EndReady, Idle, Log, RouteInv, Inv, Kinds

LEMMA RestartOne ==
  ASSUME OneStart, Inv, LeaseInv, RouteInv, Restart
  PROVE  RouteInv'
BY OneGen, OneCall, ActorGen DEF Restart, RouteInv, Inv, Kinds

LEMMA RecoverUnreadOne ==
  ASSUME OneStart, Inv, LeaseInv, RouteInv, RecoverUnread
  PROVE  RouteInv'
BY OneGen, OneCall, ActorGen DEF RecoverUnread, RouteInv, Inv, Kinds

LEMMA CrashRecoveringOne ==
  ASSUME OneStart, Inv, LeaseInv, RouteInv, CrashRecovering
  PROVE  RouteInv'
BY OneGen, OneCall, ActorGen DEF CrashRecovering, RouteInv, Inv, Kinds

LEMMA StutterOne ==
  ASSUME OneStart, Inv, LeaseInv, RouteInv, UNCHANGED vars
  PROVE  RouteInv'
BY OneGen, OneCall, ActorGen DEF vars, node, RouteInv, Inv, Kinds

LEMMA RecordSpawnOne ==
  ASSUME OneStart, Inv, LeaseInv, RouteInv, RecordSpawn
  PROVE  RouteInv'
<1> USE OneGen DEF RecordSpawn, At
<1>5. RouteInv'
  <2>0. starts = 1 /\ 1 \in Gens /\ UNCHANGED <<lease, thr, task, starts>> /\ job = "running"
    BY OneCall
  <2>1. CASE log' = [Grant(log, starts, IssuedBy(starts)) EXCEPT !.launched = TRUE] /\ job' = "idle"
    <3> DEFINE l == Grant(log, 1, IssuedBy(1))
    <3>1. /\ l \in Log
          /\ \A s \in IssuedBy(1) : l.granted[<<1, s>>] = lease[1][s].iss + Ttl
      BY <2>0, GrantLog DEF RouteInv, IssuedBy
    <3>2. log' \in Log /\ log'.granted = l.granted
      <4> HIDE DEF l
      <4>1. log' = [l EXCEPT !.launched = TRUE]
        BY <2>0, <2>1 DEF l
      <4> QED
        BY <3>1, <4>1 DEF Log
    <3> HIDE DEF l, RecordSpawn
    <3>3. ASSUME NEW s \in Services, lease[1][s].held
          PROVE  task = "live" /\ lease[1][s].route <= log'.granted[<<1, s>>]
      <4>1. task = "live" /\ s \in IssuedBy(1) /\ lease[1][s].exp = lease[1][s].iss + Ttl
        BY <2>0, <3>3 DEF RouteInv, IssuedBy, Inv, HeldInv
      <4>2. lease[1][s].route \in {0, lease[1][s].exp} /\ lease[1][s].exp \in Nat
        BY <2>0, <3>3 DEF Inv, Kinds, Lease, HeldInv
      <4> QED
        BY <3>1, <3>2, <4>1, <4>2
    <3> QED
      BY <2>0, <2>1, <3>2, <3>3 DEF RouteInv
  <2>2. CASE job' \in {"failing", "failed"} /\ \E S \in SUBSET IssuedBy(starts) : log' = Grant(log, starts, S)
    <3>1. PICK S \in SUBSET Services : log' = Grant(log, 1, S)
      BY <2>0, <2>2 DEF IssuedBy
    <3>2. log' \in Log /\ log'.launched = log.launched
      BY <2>0, <3>1, GrantLog DEF RouteInv
    <3> HIDE DEF RecordSpawn
    <3> QED
      BY <2>0, <2>2, <3>2 DEF RouteInv
  <2>3. CASE job' = "failing" /\ UNCHANGED log
    <3> HIDE DEF RecordSpawn
    <3> QED
      BY <2>0, <2>3 DEF RouteInv
  <2> QED
    BY <2>1, <2>2, <2>3
<1> QED
  BY <1>5

LEMMA EndAmbiguousOne ==
  ASSUME OneStart, Inv, LeaseInv, RouteInv, EndAmbiguous
  PROVE  RouteInv'
<1> USE OneGen DEF EndAmbiguous, Returned
<1>5. RouteInv'
  <2>1. log' \in Log /\ log'.launched = log.launched
    <3> DEFINE issued == IF job = "failing" THEN IssuedBy(starts) ELSE {}
    <3>1. starts \in Gens /\ issued \subseteq Services
      BY OneCall DEF IssuedBy
    <3>2. PICK S \in SUBSET issued, T \in SUBSET rv[Lock].taken, e \in BOOLEAN :
            log' = [Tell(Grant(log, starts, S), {starts} \X T) EXCEPT !.ended = e]
      OBVIOUS
    <3>3. Grant(log, starts, S) \in Log /\ Grant(log, starts, S).launched = log.launched
      BY <3>1, <3>2, GrantLog DEF RouteInv
    <3> DEFINE G == Grant(log, starts, S)
               I == {starts} \X T
    <3>4. log' = [Tell(G, I) EXCEPT !.ended = e] /\ G \in Log /\ G.launched = log.launched
      BY <3>2, <3>3
    <3> HIDE DEF issued, G, I, EndAmbiguous
    <3>5. [Tell(G, I) EXCEPT !.ended = e] \in Log
          /\ [Tell(G, I) EXCEPT !.ended = e].launched = G.launched
      BY <3>4, TellLog
    <3> QED
      BY <3>4, <3>5
  <2>2. \A s \in Services : ~lease[1][s].held
    BY OneCall
  <2>3. job' = "idle" /\ UNCHANGED <<lease, thr, starts>> /\ job \in {"failing", "failed"}
    OBVIOUS
  <2> HIDE DEF EndAmbiguous
  <2> QED
    BY <2>1, <2>2, <2>3 DEF RouteInv
<1> QED
  BY <1>5

LEMMA RecordExitOne ==
  ASSUME OneStart, Inv, LeaseInv, RouteInv, NEW g \in Gens, RecordExit(g)
  PROVE  RouteInv'
<1> USE OneGen DEF RecordExit, Idle, Returned, Current
<1>5. RouteInv'
  <2>1. log' \in Log /\ log'.granted = log.granted /\ log'.launched = log.launched
    <3>1. UNCHANGED log \/ \E S \in SUBSET rv[1].taken, e \in BOOLEAN :
                            log' = [Tell(log, {1} \X S) EXCEPT !.ended = e]
      OBVIOUS
    <3> HIDE DEF RecordExit
    <3>2. log \in Log
      BY DEF RouteInv
    <3>3. ASSUME NEW S, NEW e \in BOOLEAN, log' = [Tell(log, {1} \X S) EXCEPT !.ended = e]
          PROVE  log' \in Log /\ log'.granted = log.granted /\ log'.launched = log.launched
      <4> DEFINE I == {1} \X S
      <4>1. log' = [Tell(log, I) EXCEPT !.ended = e]
        BY <3>3
      <4> HIDE DEF I
      <4> QED
        BY <3>2, <4>1, TellLog
    <3> QED
      BY <3>1, <3>2, <3>3
  <2>2. /\ \A s \in Services : ~lease[1][s].held
        /\ UNCHANGED <<lease, job, starts>> /\ job = "idle"
        /\ thr' = [thr EXCEPT ![1] = "done"]
    BY OneCall
  <2> QED
    BY <2>1, <2>2 DEF RouteInv, Inv, Kinds
<1> QED
  BY <1>5

LEMMA EndRevokedOne ==
  ASSUME OneStart, Inv, LeaseInv, RouteInv, EndRevoked
  PROVE  RouteInv'
<1> USE OneGen DEF EndRevoked, At, Returned
<1>5. RouteInv'
  <2>1. log' \in Log /\ log'.granted = log.granted /\ log'.launched = log.launched
    <3>1. PICK S \in SUBSET rv[Lock].taken, f \in BOOLEAN :
            log' = [Tell(log, {starts} \X S) EXCEPT !.ended = ~f]
      OBVIOUS
    <3> HIDE DEF EndRevoked
    <3>2. PICK e \in BOOLEAN : log' = [Tell(log, {starts} \X S) EXCEPT !.ended = e]
      BY <3>1
    <3> DEFINE I == {starts} \X S
    <3>3. log \in Log /\ log' = [Tell(log, I) EXCEPT !.ended = e]
      BY <3>2 DEF RouteInv
    <3> HIDE DEF I
    <3> QED
      BY <3>3, TellLog
  <2>2. \A s \in Services : ~lease[1][s].held
    BY OneCall
  <2> QED
    BY <2>1, <2>2 DEF RouteInv
<1> QED
  BY <1>5

LEMMA RecoveredOne ==
  ASSUME OneStart, Inv, LeaseInv, RouteInv, Recovered
  PROVE  RouteInv'
<1>1. up # "up" /\ UNCHANGED <<lease, thr, task, starts, job>> /\ \E I : log' = Tell(log, I)
  BY DEF Recovered
<1>a. PICK I : log' = Tell(log, I)
  BY <1>1
<1>2. log' \in Log /\ log'.granted = log.granted /\ log'.launched = log.launched
  <2>1. log \in Log /\ TRUE \in BOOLEAN
    BY DEF RouteInv
  <2> QED
    BY <1>a, <2>1, TellLog
<1> QED
  BY <1>1, <1>2, OneCall DEF RouteInv

\* The steps that end or close leases and leave the rest alone.
LEMMA ClosingOne ==
  ASSUME OneStart, Inv, LeaseInv, RouteInv,
         (\E a \in Actors : Withdraw(a) \/ \E s \in Services : Take(a, s) \/ Ask(a, s)) \/ Recover
  PROVE  RouteInv'
<1>1. UNCHANGED <<task, job, starts, thr, log>>
  BY DEF Withdraw, Take, Ask, Recover, node
<1>2. \A g \in Gens, s \in Services : Lessened(lease[g][s], lease'[g][s])
  BY WithdrawInv, TakeInv, AskInv, RecoverInv DEF LeaseInv
<1>5. ASSUME NEW s \in Services
      PROVE  \/ ~lease'[1][s].held
             \/ /\ lease[1][s].held /\ lease'[1][s].exp = lease[1][s].exp
                /\ lease'[1][s].iss = lease[1][s].iss
                /\ lease'[1][s].route \in {0, lease[1][s].route}
  BY <1>2, OneGen DEF Lessened, Ended, Closed, Same
<1>6. \A s \in Services : log.granted[<<1, s>>] \in Nat
  BY OneGen DEF RouteInv, Log, Ids
<1> QED
  BY <1>1, <1>5, <1>6 DEF RouteInv

LEMMA RenewOne ==
  ASSUME OneStart, Inv, LeaseInv, RouteInv, NEW g \in Gens, Renew(g)
  PROVE  RouteInv'
<1> USE OneGen
<1>0. g = 1
  OBVIOUS
<1>1. ASSUME NEW s \in Services
      PROVE  /\ lease'[1][s].held = lease[1][s].held /\ lease'[1][s].prov = lease[1][s].prov
             /\ lease'[1][s].refused = lease[1][s].refused /\ lease'[1][s].exp = lease[1][s].exp
             /\ lease'[1][s].iss = lease[1][s].iss /\ lease'[1][s].route = lease[1][s].route
  <2>1. lease[1][s] \in Lease
    BY DEF Inv, Kinds
  <2>2. \/ lease'[1][s] = lease[1][s]
        \/ lease'[1][s] = [lease[1][s] EXCEPT !.renew = FALSE]
    <3> DEFINE D == {t \in Services : Due(lease[g][t])}
               Err(F) == F \cup {t \in D : ~Renewable(lease[g][t])}
    <3>1. PICK F : lease' = [lease EXCEPT ![g] = [t \in Services |->
             IF t \in Err(F) THEN [lease[g][t] EXCEPT !.renew = FALSE] ELSE lease[g][t]]]
      BY DEF Renew
    <3> HIDE DEF Err
    <3> QED
      BY <1>0, <3>1 DEF Inv, Kinds
  <2> QED
    BY <2>1, <2>2 DEF Lease
<1>2. /\ thr[1] = "watch" /\ thr'[1] = "renewing"
      /\ UNCHANGED <<up, task, starts, job, rv, kept, log>>
  BY <1>0 DEF Renew, node, Inv, Kinds
<1> QED
  BY <1>1, <1>2 DEF RouteInv

LEMMA RecordRenewalsOne ==
  ASSUME OneStart, Inv, LeaseInv, RouteInv, NEW g \in Gens, RecordRenewals(g)
  PROVE  RouteInv'
<1> USE OneGen
<1>0. g = 1
  OBVIOUS
<1> DEFINE new == renewals[g]
           granted(A) == [i \in Ids |-> IF i \in {g} \X A THEN Max({new.exp[i[2]], log.granted[i]})
                                        ELSE log.granted[i]]
<1>1. PICK A \in SUBSET new.ok :
        /\ log' = [log EXCEPT !.granted = granted(A)]
        /\ lease' = [lease EXCEPT ![g] = [s \in Services |->
             IF s \in A THEN Applied(lease[g][s], new.exp[s]) ELSE lease[g][s]]]
  BY DEF RecordRenewals, Effective
<1>2. /\ thr[1] = "renewing" /\ thr'[1] = "watch" /\ job = "idle"
      /\ UNCHANGED <<up, task, starts, job, rv, kept>>
  BY <1>0 DEF RecordRenewals, Idle, node, Inv, Kinds
<1>3. A \subseteq Services /\ new.exp \in [Services -> Nat] /\ log \in Log
  BY DEF Inv, Kinds, RouteInv
<1>4. ASSUME NEW s \in Services
      PROVE  /\ lease'[1][s].held = lease[1][s].held /\ lease'[1][s].prov = lease[1][s].prov
             /\ lease'[1][s].refused = lease[1][s].refused
             /\ lease'[1][s].route = lease[1][s].route 
                \/ (s \in A /\ lease'[1][s].route = new.exp[s])
  <2>1. lease[1][s] \in Lease
    BY DEF Inv, Kinds
  <2>2. \/ lease'[1][s] = lease[1][s]
        \/ s \in A /\ lease'[1][s] = [lease[1][s] EXCEPT !.route = new.exp[s], !.exp = new.exp[s]]
    BY <1>0, <1>1 DEF Inv, Kinds, Applied
  <2> HIDE DEF new
  <2>3. CASE lease'[1][s] = lease[1][s]
    BY <2>3
  <2>4. CASE s \in A /\ lease'[1][s] = [lease[1][s] EXCEPT !.route = new.exp[s], !.exp = new.exp[s]]
    BY <2>1, <2>4 DEF Lease
  <2> QED
    BY <2>2, <2>3, <2>4
<1>5. ASSUME NEW s \in Services
      PROVE  /\ granted(A)[<<1, s>>] \in Nat /\ log.granted[<<1, s>>] <= granted(A)[<<1, s>>]
             /\ s \in A => new.exp[s] <= granted(A)[<<1, s>>]
  <2>1. log.granted[<<1, s>>] \in Nat /\ new.exp[s] \in Nat
    BY <1>3 DEF Log, Ids
  <2>2. granted(A)[<<1, s>>] = IF s \in A THEN Max({new.exp[s], log.granted[<<1, s>>]})
                               ELSE log.granted[<<1, s>>]
    BY <1>0 DEF Ids
  <2> DEFINE y == new.exp[s]
             z == log.granted[<<1, s>>]
             m == Max({y, z})
  <2>3. y \in Nat /\ z \in Nat /\ granted(A)[<<1, s>>] = IF s \in A THEN m ELSE z
    BY <2>1, <2>2
  <2> HIDE DEF y, z
  <2>4. m \in {y, z} /\ y <= m /\ z <= m
    BY <2>3, MaxPair
  <2> HIDE DEF granted, m
  <2>5. granted(A)[<<1, s>>] \in Nat /\ z <= granted(A)[<<1, s>>]
        /\ (s \in A => y <= granted(A)[<<1, s>>])
    BY <2>3, <2>4
  <2> QED
    BY <2>5 DEF y, z
<1>6. granted(A) \in [Ids -> Nat]
  <2>1. ASSUME NEW i \in Ids PROVE granted(A)[i] \in Nat
    <3>1. PICK s \in Services : i = <<1, s>>
      BY <2>1 DEF Ids
    <3> HIDE DEF granted, new
    <3> QED
      BY <1>5, <3>1
  <2> QED
    BY <2>1
<1> HIDE DEF granted, new
<1>7. log' \in Log /\ log'.granted = granted(A) /\ log'.launched = log.launched
  BY <1>1, <1>3, <1>6 DEF Log
<1>9. ASSUME NEW s \in Services, lease'[1][s].held, log.launched
      PROVE  lease'[1][s].route <= log'.granted[<<1, s>>]
  <2>1. lease[1][s].route <= log.granted[<<1, s>>] /\ lease[1][s].route \in Nat
    BY <1>4, <1>9 DEF RouteInv, Inv, Kinds, Lease
  <2>2. log.granted[<<1, s>>] \in Nat
    BY <1>3 DEF Log, Ids
  <2> QED
    BY <1>4, <1>5, <1>7, <2>1, <2>2
<1>10. RouteInv'
  BY <1>2, <1>4, <1>7, <1>9 DEF RouteInv
<1> QED
  BY <1>10

LEMMA CrashOne ==
  ASSUME OneStart, Inv, LeaseInv, RouteInv, Crash
  PROVE  RouteInv'
<1>1. /\ up' = "down" /\ job' = "idle" /\ thr'[1] \in {"none", "done"}
      /\ (thr'[1] = "none" <=> thr[1] = "none") /\ UNCHANGED <<starts, log>>
  BY OneGen DEF Crash
<1>2. \A s \in Services : ~lease'[1][s].held
  BY <1>1, CrashStep, OneGen DEF LeaseInv, CallInv
<1> QED
  BY <1>1, <1>2 DEF RouteInv

LEMMA IssueOne ==
  ASSUME OneStart, Inv, LeaseInv, RouteInv, Issuing
  PROVE  RouteInv'
<1>a. /\ starts < MaxStarts /\ starts' = starts + 1 /\ job' \in {"keep", "dropping"}
      /\ UNCHANGED <<thr, log>>
  BY DEF Issuing, Issue, IssueUnrouted, Drop
<1>0. /\ starts = 0 /\ starts' = 1 /\ thr[1] = "none" /\ ~log.launched
      /\ job' \in {"keep", "dropping"} /\ UNCHANGED <<thr, log>>
  BY <1>a, OneGen DEF OneStart, Inv, Kinds, FreshInv, RouteInv
<1>1. job' = "keep" => \A s \in Services : lease'[1][s].held => lease'[1][s].exp = lease'[1][s].iss + Ttl
  <2>1. ASSUME job' = "keep"
        PROVE  \E D \in SUBSET Services : lease' = [lease EXCEPT ![starts + 1] = [s \in Services |->
                       IF s \in D THEN NoLease ELSE Issued(TRUE)]]
    BY <2>1 DEF Issuing, Issue, IssueUnrouted, Drop
  <2>2. ASSUME job' = "keep", NEW s \in Services
        PROVE  lease'[1][s] = NoLease \/ lease'[1][s] = Issued(TRUE)
    <3>1. PICK D \in SUBSET Services : lease' = [lease EXCEPT ![1] = [t \in Services |->
                       IF t \in D THEN NoLease ELSE Issued(TRUE)]]
      <4>1. starts + 1 = 1
        BY <1>0
      <4>2. \E D \in SUBSET Services : lease' = [lease EXCEPT ![starts + 1] = [t \in Services |->
                       IF t \in D THEN NoLease ELSE Issued(TRUE)]]
        BY <2>1, <2>2, Zenon
      <4> QED
        BY <4>1, <4>2, Zenon
    <3> QED
      BY <3>1, OneGen DEF Inv, Kinds
  <2> QED
    BY <2>2 DEF NoLease, Issued
<1> QED
  BY <1>0, <1>1 DEF RouteInv

LEMMA OneStep ==
  ASSUME OneStart, Inv, LeaseInv, RouteInv, [Next]_vars
  PROVE  RouteInv'
BY TickOne, ForgetOne, TookAllOne, KeepOne, IntentOne, SpawnOkOne, SpawnAmbiguousOne,
   SpawnRefusedOne, SpawnRefusedStuckOne, DroppedOne, RecordSpawnOne, EndAmbiguousOne,
   LateSpawnOne, ThreadDroppedOne, WorkloadEndsOne, RecordExitOne, RequestOne,
   RevokeTimedOutOne, EndRevokedOne, EndReadyOne, RestartOne, RecoverUnreadOne, RecoveredOne,
   CrashRecoveringOne, StutterOne, ClosingOne, RenewOne, RecordRenewalsOne, CrashOne, IssueOne
   DEF Next, LockSteps, ReaperSteps, Calls, Recovery, Issuing

LEMMA OneHolds == ASSUME OneStart PROVE Spec => [](Inv /\ RouteInv)
<1>1. Init => RouteInv
  BY OneInit
<1>2. Inv /\ LeaseInv /\ RouteInv /\ [Next]_vars => RouteInv'
  BY OneStep
<1> QED
  BY <1>1, <1>2, InvHolds, PTL DEF Spec

\* The routes of an attempt that is started once inject only while the task is live, within the
\* expiry the log names and within the lease's maximum: credentials.rs renew, task.rs record_renewals.
THEOREM RoutesWithinLog == OneStart => (Spec => []RouteRecorded)
<1> SUFFICES ASSUME OneStart PROVE Spec => []RouteRecorded
  OBVIOUS
<1>1. ASSUME Inv, RouteInv, NEW s \in Services, log.launched, lease[1][s].route > 0
      PROVE  /\ task = "live" /\ lease[1][s].route <= log.granted[<<1, s>>]
             /\ lease[1][s].route <= lease[1][s].iss + MaxTtl
  <2>1. lease[1][s].held
    BY <1>1, OneGen DEF Inv, HeldInv
  <2> QED
    BY <1>1, <2>1, OneGen DEF Inv, HeldInv, RouteInv
<1>2. Inv /\ RouteInv => RouteRecorded
  BY <1>1, OneGen DEF RouteRecorded
<1> QED
  BY OneHolds, <1>2, PTL
=============================================================================
