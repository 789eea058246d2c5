----------------------------- MODULE NodeLeases -----------------------------
(***************************************************************************)
(* The credential leases of one node attempt: crates/ward-node/src/        *)
(* credentials.rs (issue, keep, renew, revoke, recover) with the steps of  *)
(* task.rs that call them (start and launch under the registry lock, the   *)
(* reaper thread, an unconfirmed revoke) and the renewal rules of          *)
(* crates/ward-credentials/src/lib.rs.                                     *)
(*                                                                         *)
(* Every start of the attempt builds one AttemptCredentials, a generation. *)
(* Two kinds of thread touch it: whoever holds the registry lock (`job`)   *)
(* and that generation's reaper (`thr`), which calls the provider without  *)
(* the lock.  Either may revoke; the revocation of one is interleaved with *)
(* everything the other does, lease by lease, and either removes the one   *)
(* file of handles.  Leases are the revocable kind: one without a handle   *)
(* ends with its route and is never kept on disk.                          *)
(***************************************************************************)
EXTENDS Integers, FiniteSets, FiniteSetsExt

CONSTANTS
  Services,    \* the services the manifest grants
  MaxStarts,   \* bound: starts of the attempt (a refused one may be retried)
  Ttl,         \* the shortest of the grant's ttl_secs, the ceilings and the budget
  MaxTtl,      \* service.max_ttl.min(budget): what renewals may reach
  MaxNow,      \* bound: the clock
  MaxTrouble   \* bound: failed writes, provider refusals and deaths of the node

ASSUME LeaseBounds ==
  /\ MaxStarts \in Nat \ {0} /\ MaxNow \in Nat /\ MaxTrouble \in Nat
  /\ Ttl \in Nat \ {0} /\ MaxTtl \in Nat /\ Ttl <= MaxTtl

Gens == 1..MaxStarts
Lock == 0                    \* the actor that holds the registry lock
Actors == {Lock} \cup Gens   \* a generation's number stands for its reaper

VARIABLES
  now,       \* the wall clock
  up,        \* "up", "down", or a step of the recovery of a restarted node
  task,      \* the state the registry holds: "ready", "live", "over"
  disk,      \* the task record: "ready", or "begun" from the launch intent on
  att,       \* the generation of the attempt the task holds, 0 for none
  starts,    \* generations issued so far
  asked,     \* what the attempt was asked: subset of {"stop", "revoke"}
  job,       \* what the holder of the registry lock is about to do
  thr,       \* each generation's reaper thread
  lease,     \* each generation's HeldLease per service
  rv,        \* each actor's call of revoke(): its step and the leases it took
  renewals,  \* each reaper's renewals obtained and not yet recorded
  kept,      \* the handles in leases.json
  log,       \* the evidence log
  trouble,
  \* History: generations whose handles went from the disk on another's account, and
  \* whether a recovery could not read the handles.
  crossed, unread

node == <<up, task, disk, att, starts, asked>>
lapses == <<crossed, unread>>
vars == <<now, node, job, thr, lease, rv, renewals, kept, log, trouble, lapses>>

Ids == Gens \X Services
Expiries == 0..(MaxNow + MaxTtl)

NoLease == [prov |-> "none", refused |-> FALSE, held |-> FALSE, iss |-> 0, exp |-> 0,
            route |-> 0, renew |-> FALSE]
NoCall == [pc |-> "idle", left |-> {}, taken |-> {}]
NoRenewals == [ok |-> {}, err |-> {}, exp |-> [s \in Services |-> 0]]

(* granted: the latest expiry a CredentialGranted names; told: how many    *)
(* CredentialRevoked were appended.                                        *)
NoLog == [granted |-> [i \in Ids |-> 0], told |-> [i \in Ids |-> 0],
          launched |-> FALSE, ended |-> FALSE]

Init ==
  /\ now = 0 /\ up = "up" /\ task = "ready" /\ disk = "ready" /\ att = 0
  /\ starts = 0 /\ asked = {} /\ job = "idle"
  /\ thr = [g \in Gens |-> "none"]
  /\ lease = [g \in Gens |-> [s \in Services |-> NoLease]]
  /\ rv = [a \in Actors |-> NoCall]
  /\ renewals = [g \in Gens |-> NoRenewals]
  /\ kept = {} /\ log = NoLog /\ trouble = 0
  /\ crossed = {} /\ unread = FALSE

Fault == trouble < MaxTrouble /\ trouble' = trouble + 1
MayFail(failed) == IF failed THEN Fault ELSE UNCHANGED trouble

Idle == up = "up" /\ job = "idle"
At(pc) == up = "up" /\ job = pc

Tick ==
  /\ up = "up" /\ now < MaxNow
  /\ now' = now + 1
  /\ UNCHANGED <<node, job, thr, lease, rv, renewals, kept, log, trouble, lapses>>

-----------------------------------------------------------------------------
(* A revocation: every route is withdrawn, then each lease still held is   *)
(* taken, under a lock of its own; the provider is asked about each lease  *)
(* taken; the handles are removed.  A call that takes nothing returns at   *)
(* once.  Two calls may share the leases of a generation between them.     *)

GenOf(a) == IF a = Lock THEN starts ELSE a

HeldBy(g) == {s \in Services : lease[g][s].held}
\* The leases that were issued and handed to the generation.
IssuedBy(g) == {s \in Services : lease[g][s].prov \notin {"none", "leaked"}}
\* Issued, and its provider not asked to end it yet.
Alive(g, s) == lease[g][s].prov = "live" /\ ~lease[g][s].refused

Unrouted(g) == [s \in Services |-> [lease[g][s] EXCEPT !.route = 0]]
Withdrawn(g) == [s \in Services |-> [lease[g][s] EXCEPT !.route = 0, !.held = FALSE]]

(* Mutant: the handles are removed before the provider is asked.           *)
WithdrawForgets(a) ==
  LET g == GenOf(a) IN
  /\ up = "up" /\ rv[a].pc = "begin"
  /\ lease' = [lease EXCEPT ![g] = Unrouted(g)]
  /\ rv' = [rv EXCEPT ![a] = [pc |-> "take", left |-> IssuedBy(g), taken |-> {}]]
  /\ kept' = {}
  /\ UNCHANGED <<now, node, job, thr, renewals, log, trouble, lapses>>

Withdraw(a) ==
  LET g == GenOf(a) IN
  /\ up = "up" /\ rv[a].pc = "begin"
  /\ lease' = [lease EXCEPT ![g] = Unrouted(g)]
  /\ rv' = [rv EXCEPT ![a] = [pc |-> "take", left |-> IssuedBy(g), taken |-> {}]]
  /\ UNCHANGED <<now, node, job, thr, renewals, kept, log, trouble, lapses>>

Take(a, s) ==
  LET g == GenOf(a) IN
  /\ up = "up" /\ rv[a].pc = "take" /\ s \in rv[a].left
  /\ lease' = [lease EXCEPT ![g][s].held = FALSE]
  /\ rv' = [rv EXCEPT ![a].left = @ \ {s},
                      ![a].taken = IF lease[g][s].held THEN @ \cup {s} ELSE @]
  /\ UNCHANGED <<now, node, job, thr, renewals, kept, log, trouble, lapses>>

TookAll(a) ==
  /\ up = "up" /\ rv[a].pc = "take" /\ rv[a].left = {}
  /\ rv' = [rv EXCEPT ![a].pc = IF rv[a].taken = {} THEN "done" ELSE "ask",
                      ![a].left = rv[a].taken]
  /\ UNCHANGED <<now, node, job, thr, lease, renewals, kept, log, trouble, lapses>>

AskProvider(l, refuses) ==
  IF refuses THEN [l EXCEPT !.refused = TRUE] ELSE [l EXCEPT !.prov = "revoked"]

(* One thread per lease; the call joins them all.                          *)
Ask(a, s) ==
  /\ up = "up" /\ rv[a].pc = "ask" /\ s \in rv[a].left
  /\ \E refuses \in BOOLEAN :
       /\ MayFail(refuses)
       /\ lease' = [lease EXCEPT ![GenOf(a)][s] = AskProvider(@, refuses)]
  /\ rv' = [rv EXCEPT ![a].left = @ \ {s}]
  /\ UNCHANGED <<now, node, job, thr, renewals, kept, log, lapses>>

(* The generations that lose a handle they still need, but for the leases  *)
(* `own` that whoever removes the file is done with.                       *)
Crossed(own) == {g \in Gens : \E s \in Services :
                  <<g, s>> \in kept \ own /\ Alive(g, s)}

(* The file goes, whoever else's handles are in it, or cannot be removed.  *)
Forget(a) ==
  /\ up = "up" /\ rv[a].pc = "ask" /\ rv[a].left = {}
  /\ \/ /\ kept' = {} /\ UNCHANGED trouble
        /\ crossed' = crossed \cup Crossed({GenOf(a)} \X rv[a].taken)
     \/ Fault /\ UNCHANGED <<kept, crossed>>
  /\ rv' = [rv EXCEPT ![a].pc = "done"]
  /\ UNCHANGED <<now, node, job, thr, lease, renewals, log, unread>>

Revoke(a) == rv' = [rv EXCEPT ![a] = [NoCall EXCEPT !.pc = "begin"]]
Returned(a) == rv[a].pc = "done"

(* The records of a revocation, as many as can be appended.                *)
Tell(l, I) == [l EXCEPT !.told = [i \in Ids |->
                 IF i \in I THEN l.told[i] + 1 ELSE l.told[i]]]

-----------------------------------------------------------------------------
(* A start, under the registry lock: issue, keep the handles, record the   *)
(* launch intent, spawn, record how the spawn went.                        *)

Issued(renews) ==
  [prov |-> "live", refused |-> FALSE, held |-> TRUE, iss |-> now, exp |-> now + Ttl,
   route |-> now + Ttl, renew |-> renews]

(* A grant whose provider cannot serve is denied; its route never injects. *)
Issue ==
  /\ Idle /\ task = "ready" /\ starts < MaxStarts
  /\ starts' = starts + 1
  /\ \E D \in SUBSET Services :
       /\ MayFail(D # {})
       /\ lease' = [lease EXCEPT ![starts + 1] = [s \in Services |->
                       IF s \in D THEN NoLease ELSE Issued(TRUE)]]
  /\ job' = "keep"
  /\ UNCHANGED <<now, up, task, disk, att, asked, thr, rv, renewals, kept, log, lapses>>

Drop == Revoke(Lock) /\ job' = "dropping"

(* A route that cannot be built ends the issue.  What was issued before is *)
(* dropped, and so revoked; a lease whose own route it was is not yet part *)
(* of what is dropped.                                                     *)
IssueUnrouted ==
  /\ Idle /\ task = "ready" /\ starts < MaxStarts /\ Fault
  /\ starts' = starts + 1
  /\ \E I \in SUBSET Services : \E s \in Services \ I, prov \in {"none", "leaked"} :
       lease' = [lease EXCEPT ![starts + 1] = [r \in Services |->
                   IF r \in I THEN Issued(TRUE)
                   ELSE [NoLease EXCEPT !.prov = IF r = s THEN prov ELSE "none"]]]
  /\ Drop
  /\ UNCHANGED <<now, up, task, disk, att, asked, thr, renewals, kept, log, lapses>>

Handles(g) == {g} \X HeldBy(g)

(* Nothing to keep writes no file.  What is issued is dropped, and so      *)
(* revoked, when the handles cannot be kept.  The file is the attempt's:   *)
(* an earlier start's handles are overwritten.                             *)
Keep ==
  LET own == Handles(starts) IN
  /\ At("keep")
  /\ \/ /\ own = {} /\ job' = "intent" /\ UNCHANGED <<kept, crossed, rv, trouble>>
     \/ /\ own # {} /\ kept' = own
        /\ crossed' = crossed \cup Crossed(own)
        /\ job' = "intent" /\ UNCHANGED <<rv, trouble>>
     \/ /\ own # {} /\ Fault /\ Drop
        /\ \/ UNCHANGED <<kept, crossed>>
           \/ kept' = own /\ crossed' = crossed \cup Crossed(own)
  /\ UNCHANGED <<now, node, thr, lease, renewals, log, unread>>

Intent ==
  /\ At("intent")
  /\ \/ disk' = "begun" /\ job' = "spawn" /\ UNCHANGED <<rv, trouble>>
     \/ Fault /\ disk' \in {disk, "begun"} /\ Drop
  /\ UNCHANGED <<now, up, task, att, starts, asked, thr, lease, renewals, kept, log, lapses>>

Attempted == task' = "live" /\ att' = starts

(* The reaper thread launches and answers, refuses, or does not answer in  *)
(* time.  Once refused, the thread's share of the leases and the start's   *)
(* are both dropped: the last to go revokes.                               *)
SpawnOk ==
  /\ At("spawn")
  /\ thr' = [thr EXCEPT ![starts] = "watch"]
  /\ Attempted /\ job' = "running"
  /\ UNCHANGED <<now, up, disk, starts, asked, lease, rv, renewals, kept, log, trouble, lapses>>

SpawnAmbiguous ==
  /\ At("spawn") /\ Fault
  /\ thr' = [thr EXCEPT ![starts] = "late"]
  /\ Attempted /\ asked' = asked \cup {"stop"}
  /\ Revoke(Lock) /\ job' = "failing"
  /\ UNCHANGED <<now, up, disk, starts, lease, renewals, kept, log, lapses>>

(* `last` says whose share of the refused start's leases is dropped last.  *)
SpawnRefused ==
  /\ At("spawn") /\ Fault
  /\ disk' = "ready"
  /\ \E last \in {"start", "thread"} :
       IF last = "start" THEN Drop /\ thr' = [thr EXCEPT ![starts] = "done"]
       ELSE /\ job' = "idle" /\ Revoke(starts)
            /\ thr' = [thr EXCEPT ![starts] = "drop"]
  /\ UNCHANGED <<now, up, task, att, starts, asked, lease, renewals, kept, log, lapses>>

(* A refusal whose launch intent cannot be withdrawn is ambiguous.         *)
SpawnRefusedStuck ==
  /\ At("spawn") /\ trouble + 1 < MaxTrouble /\ trouble' = trouble + 2
  /\ thr' = [thr EXCEPT ![starts] = "done"]
  /\ Attempted /\ asked' = asked \cup {"stop"}
  /\ Revoke(Lock) /\ job' = "failing"
  /\ UNCHANGED <<now, up, disk, starts, lease, renewals, kept, log, lapses>>

Dropped ==
  /\ At("dropping") /\ Returned(Lock)
  /\ job' = "idle" /\ rv' = [rv EXCEPT ![Lock] = NoCall]
  /\ UNCHANGED <<now, node, thr, lease, renewals, kept, log, trouble, lapses>>

(* Records what was issued: what the log holds is the lease's first expiry. *)
Grant(l, g, S) == [l EXCEPT !.granted = [i \in Ids |->
   IF i \in {g} \X S THEN lease[g][i[2]].iss + Ttl ELSE l.granted[i]]]

(* The running record, the issue records and the launch record; whichever  *)
(* cannot be written ends the attempt, its leases revoked.  An issue       *)
(* record is handed out once: one that could not be appended is lost.      *)
RecordSpawn ==
  /\ At("running")
  /\ \/ /\ log' = [Grant(log, starts, IssuedBy(starts)) EXCEPT !.launched = TRUE]
        /\ job' = "idle" /\ UNCHANGED <<asked, rv, trouble>>
     \/ /\ Fault
        /\ \/ job' = "failing" /\ UNCHANGED log
           \/ /\ job' = "failed"
              /\ \E S \in SUBSET IssuedBy(starts) : log' = Grant(log, starts, S)
        /\ asked' = asked \cup {"stop"}
        /\ Revoke(Lock)
  /\ UNCHANGED <<now, up, task, disk, att, starts, thr, lease, renewals, kept, lapses>>

(* record_spawn's failure path once its revocation has returned: the issue *)
(* records not yet handed out, what was revoked, the end.                  *)
EndAmbiguous ==
  LET issued == IF job = "failing" THEN IssuedBy(starts) ELSE {} IN
  /\ up = "up" /\ job \in {"failing", "failed"} /\ Returned(Lock)
  /\ task' = "over"
  /\ \E failed \in BOOLEAN, S \in SUBSET issued, T \in SUBSET rv[Lock].taken,
        ended \in BOOLEAN :
       /\ MayFail(failed)
       /\ ~failed => S = issued /\ T = rv[Lock].taken /\ ended
       /\ log' = [Tell(Grant(log, starts, S), {starts} \X T) EXCEPT !.ended = ended]
  /\ job' = "idle" /\ rv' = [rv EXCEPT ![Lock] = NoCall]
  /\ UNCHANGED <<now, up, disk, att, starts, asked, thr, lease, renewals, kept, lapses>>

-----------------------------------------------------------------------------
(* The reaper thread of a generation.                                      *)

(* A launch that answers after the start gave up on it.                    *)
LateSpawn(g) ==
  /\ up = "up" /\ thr[g] = "late"
  /\ thr' = [thr EXCEPT ![g] = IF job = "failing" THEN "watch" ELSE "done"]
  /\ UNCHANGED <<now, node, job, lease, rv, renewals, kept, log, trouble, lapses>>

ThreadDropped(g) ==
  /\ up = "up" /\ thr[g] = "drop" /\ Returned(g)
  /\ thr' = [thr EXCEPT ![g] = "done"] /\ rv' = [rv EXCEPT ![g] = NoCall]
  /\ UNCHANGED <<now, node, job, lease, renewals, kept, log, trouble, lapses>>

(* A third of the period left, and room to the maximum.                    *)
Due(l) == /\ l.renew /\ l.held /\ l.exp < l.iss + MaxTtl
          /\ 3 * (l.exp - now) <= l.exp - l.iss

(* The lease's period again, within the room left, and `extra` if the      *)
(* provider grants more than it was asked for: clamped to the maximum.     *)
Asked(l) == Min({l.exp - l.iss, l.iss + MaxTtl - now})
RenewedExp(l, extra) == Min({now + Asked(l) + extra, l.iss + MaxTtl})

(* An expired lease is not brought back, and a revoked one is not renewed. *)
Renewable(l) == now < l.exp /\ l.prov = "live"

Renew(g) ==
  LET D == {s \in Services : Due(lease[g][s])} IN
  /\ up = "up" /\ thr[g] = "watch" /\ D # {}
  /\ \E F \in SUBSET D, extra \in 0..1 :
       LET err == F \cup {s \in D : ~Renewable(lease[g][s])} IN
       /\ MayFail(F # {})
       /\ renewals' = [renewals EXCEPT ![g] =
             [ok |-> D \ err, err |-> err,
              exp |-> [s \in Services |->
                         IF s \in D \ err THEN RenewedExp(lease[g][s], extra) ELSE 0]]]
       /\ lease' = [lease EXCEPT ![g] = [s \in Services |->
             IF s \in err THEN [lease[g][s] EXCEPT !.renew = FALSE] ELSE lease[g][s]]]
  /\ thr' = [thr EXCEPT ![g] = "renewing"]
  /\ UNCHANGED <<now, node, job, rv, kept, log, lapses>>

Current(g) == task = "live" /\ att = g

(* Mutant: put into effect whatever happened meanwhile.                    *)
AppliedAnyway(l, e) == [l EXCEPT !.route = e, !.exp = e]

(* Put into effect unless the lease was withdrawn meanwhile.               *)
Applied(l, e) == IF l.held THEN [l EXCEPT !.route = e, !.exp = e] ELSE l

(* Mutant: every renewal obtained takes effect, recorded or not.           *)
EffectiveAnyway(obtained, recorded) == obtained

(* The renewals whose record was appended take effect.                     *)
Effective(obtained, recorded) == recorded

RecordRenewals(g) ==
  LET new == renewals[g] IN
  /\ Idle /\ thr[g] = "renewing"
  /\ \E A \in SUBSET new.ok :
       /\ IF Current(g) THEN MayFail(A # new.ok) ELSE A = {} /\ UNCHANGED trouble
       /\ log' = [log EXCEPT !.granted = [i \in Ids |->
             IF i \in {g} \X A THEN Max({new.exp[i[2]], log.granted[i]})
             ELSE log.granted[i]]]
       /\ lease' = [lease EXCEPT ![g] = [s \in Services |->
             IF s \in Effective(new.ok, A) THEN Applied(lease[g][s], new.exp[s])
             ELSE lease[g][s]]]
  /\ renewals' = [renewals EXCEPT ![g] = NoRenewals]
  /\ thr' = [thr EXCEPT ![g] = "watch"]
  /\ UNCHANGED <<now, node, job, rv, kept, lapses>>

(* The workload exits, is stopped or runs past its budget: the reaper      *)
(* revokes before it takes the registry lock.                              *)
WorkloadEnds(g) ==
  /\ up = "up" /\ thr[g] = "watch"
  /\ thr' = [thr EXCEPT ![g] = "ended"] /\ Revoke(g)
  /\ UNCHANGED <<now, node, job, lease, renewals, kept, log, trouble, lapses>>

(* A task that is no longer live is left as it is, and so is its log.      *)
RecordExit(g) ==
  /\ Idle /\ thr[g] = "ended" /\ Returned(g)
  /\ IF Current(g)
     THEN /\ task' = "over"
          /\ \E failed \in BOOLEAN, S \in SUBSET rv[g].taken, ended \in BOOLEAN :
               /\ MayFail(failed)
               /\ ~failed => S = rv[g].taken /\ ended
               /\ log' = [Tell(log, {g} \X S) EXCEPT !.ended = ended]
     ELSE UNCHANGED <<task, log, trouble>>
  /\ thr' = [thr EXCEPT ![g] = "done"] /\ rv' = [rv EXCEPT ![g] = NoCall]
  /\ UNCHANGED <<now, up, disk, att, starts, asked, job, lease, renewals, kept, lapses>>

-----------------------------------------------------------------------------
(* stop and revoke.  Both ask the workload to stop and wait for the reap   *)
(* without the lock; a revoke that waits in vain ends the attempt itself.  *)

Request(verb) ==
  /\ Idle /\ task = "live" /\ verb \notin asked
  /\ asked' = asked \cup {"stop", verb}
  /\ UNCHANGED <<now, up, task, disk, att, starts, job, thr, lease, rv, renewals, kept,
                 log, trouble, lapses>>

RevokeTimedOut ==
  /\ Idle /\ task = "live" /\ "revoke" \in asked /\ thr[att] # "done"
  /\ Revoke(Lock) /\ job' = "revoking"
  /\ UNCHANGED <<now, node, thr, lease, renewals, kept, log, trouble, lapses>>

(* The end is committed: the task record and the end record, or neither.   *)
(* The task then stays live and the same revoke may be sent again.         *)
EndRevoked ==
  /\ At("revoking") /\ Returned(Lock)
  /\ \E failed \in BOOLEAN, S \in SUBSET rv[Lock].taken :
       /\ MayFail(failed)
       /\ ~failed => S = rv[Lock].taken
       /\ task' = (IF failed THEN "live" ELSE "over")
       /\ log' = [Tell(log, {starts} \X S) EXCEPT !.ended = ~failed]
  /\ job' = "idle" /\ rv' = [rv EXCEPT ![Lock] = NoCall]
  /\ UNCHANGED <<now, up, disk, att, starts, asked, thr, lease, renewals, kept, lapses>>

(* A task that was never launched is ended at once.                        *)
EndReady ==
  /\ Idle /\ task = "ready"
  /\ task' = "over" /\ disk' = "begun"
  /\ log' = [log EXCEPT !.ended = TRUE]
  /\ UNCHANGED <<now, up, att, starts, asked, job, thr, lease, rv, renewals, kept, trouble,
                 lapses>>

-----------------------------------------------------------------------------
(* The node dies, and a restarted one revokes what it finds kept before it *)
(* serves.                                                                 *)

Crash ==
  /\ up = "up" /\ Fault
  /\ up' = "down" /\ job' = "idle" /\ att' = 0 /\ asked' = {}
  /\ thr' = [g \in Gens |-> IF thr[g] = "none" THEN "none" ELSE "done"]
  /\ lease' = [g \in Gens |-> Withdrawn(g)]
  /\ rv' = [a \in Actors |-> NoCall]
  /\ renewals' = [g \in Gens |-> NoRenewals]
  /\ UNCHANGED <<now, task, disk, starts, kept, log, lapses>>

(* Mutant: a restarted node serves without looking for kept handles.       *)
RestartServing ==
  /\ up = "down"
  /\ task' = (IF disk = "ready" THEN "ready" ELSE "over")
  /\ up' = "recorded"
  /\ UNCHANGED <<now, disk, att, starts, asked, job, thr, lease, rv, renewals, kept,
                 log, trouble, lapses>>

Restart ==
  /\ up = "down"
  /\ task' = (IF disk = "ready" THEN "ready" ELSE "over")
  /\ up' = (IF kept = {} THEN "recorded" ELSE "recovering")
  /\ UNCHANGED <<now, disk, att, starts, asked, job, thr, lease, rv, renewals, kept,
                 log, trouble, lapses>>

KeptOf(g) == {s \in Services : <<g, s>> \in kept}

(* A generation's `taken` carries the records of what was revoked.  The    *)
(* handles go whatever the provider answered, if the file can be removed.  *)
Recover ==
  /\ up = "recovering"
  /\ \E R \in SUBSET kept, removed \in BOOLEAN :
       /\ MayFail(R # {} \/ ~removed)
       /\ lease' = [g \in Gens |-> [s \in Services |->
             IF <<g, s>> \in kept THEN AskProvider(lease[g][s], <<g, s>> \in R)
             ELSE lease[g][s]]]
       /\ kept' = IF removed THEN {} ELSE kept
  /\ rv' = [a \in Actors |-> [NoCall EXCEPT !.taken = KeptOf(a)]]
  /\ up' = "recorded"
  /\ UNCHANGED <<now, task, disk, att, starts, asked, job, thr, renewals, log, lapses>>

(* Handles that cannot be read are left where they are, and the node goes  *)
(* on to serve.                                                            *)
RecoverUnread ==
  /\ up = "recovering" /\ Fault
  /\ up' = "recorded" /\ unread' = TRUE
  /\ UNCHANGED <<now, task, disk, att, starts, asked, job, thr, lease, rv, renewals, kept,
                 log, crossed>>

(* The records, then the recovered state; a log that cannot be written     *)
(* keeps the node from serving.                                            *)
Recovered ==
  LET revoked == {i \in Ids : i[2] \in rv[i[1]].taken} IN
  /\ up = "recorded"
  /\ \E failed \in BOOLEAN, I \in SUBSET revoked :
       /\ MayFail(failed)
       /\ ~failed => I = revoked
       /\ log' = Tell(log, I)
       /\ up' = (IF failed THEN "down" ELSE "up")
  /\ rv' = [a \in Actors |-> NoCall]
  /\ UNCHANGED <<now, task, disk, att, starts, asked, job, thr, lease, renewals, kept, lapses>>

(* The node dies again before the records are written.                   *)
CrashRecovering ==
  /\ up \in {"recovering", "recorded"} /\ Fault
  /\ up' = "down" /\ rv' = [a \in Actors |-> NoCall]
  /\ UNCHANGED <<now, task, disk, att, starts, asked, job, thr, lease, renewals, kept, log,
                 lapses>>

-----------------------------------------------------------------------------
LockSteps ==
  \/ Keep \/ Intent \/ SpawnOk \/ SpawnAmbiguous \/ SpawnRefused \/ SpawnRefusedStuck
  \/ Dropped \/ RecordSpawn \/ EndAmbiguous \/ EndRevoked

ReaperSteps(g) ==
  \/ LateSpawn(g) \/ ThreadDropped(g) \/ Renew(g) \/ RecordRenewals(g)
  \/ WorkloadEnds(g) \/ RecordExit(g)

Calls(a) ==
  \/ Withdraw(a) \/ TookAll(a) \/ Forget(a)
  \/ \E s \in Services : Take(a, s) \/ Ask(a, s)

Recovery == Recover \/ RecoverUnread \/ Recovered

Next ==
  \/ Tick \/ Issue \/ IssueUnrouted \/ LockSteps \/ RevokeTimedOut \/ EndReady
  \/ \E g \in Gens : ReaperSteps(g)
  \/ \E a \in Actors : Calls(a)
  \/ \E verb \in {"stop", "revoke"} : Request(verb)
  \/ Crash \/ Restart \/ Recovery \/ CrashRecovering

Spec == Init /\ [][Next]_vars

(* Provider calls are bounded in time, the lock is released, the workload  *)
(* exits or is killed at its budget, and a node that starts recovers.      *)
(* Nothing is assumed of who starts a dead node again.                     *)
Fairness ==
  /\ WF_vars(LockSteps) /\ WF_vars(Recovery)
  /\ \A a \in Actors : WF_vars(Calls(a))
  /\ \A g \in Gens : WF_vars(WorkloadEnds(g)) /\ WF_vars(RecordRenewals(g))

FairSpec == Spec /\ Fairness

-----------------------------------------------------------------------------
(* Properties.                                                             *)

LeaseRec == [prov : {"none", "leaked", "live", "revoked"}, refused : BOOLEAN, held : BOOLEAN,
             iss : 0..MaxNow, exp : Expiries, route : Expiries, renew : BOOLEAN]

(* The state stays within its types; no lease is held that was not issued. *)
TypeOK ==
  /\ now \in 0..MaxNow /\ up \in {"up", "down", "recovering", "recorded"}
  /\ task \in {"ready", "live", "over"} /\ disk \in {"ready", "begun"}
  /\ att \in 0..starts /\ starts \in 0..MaxStarts /\ asked \subseteq {"stop", "revoke"}
  /\ job \in {"idle", "keep", "intent", "spawn", "running", "failing", "failed", "dropping",
              "revoking"}
  /\ thr \in [Gens -> {"none", "late", "drop", "watch", "renewing", "ended", "done"}]
  /\ lease \in [Gens -> [Services -> LeaseRec]]
  /\ rv \in [Actors -> [pc : {"idle", "begin", "take", "ask", "done"},
                        left : SUBSET Services, taken : SUBSET Services]]
  /\ kept \subseteq Ids /\ trouble \in 0..MaxTrouble
  /\ log.told \in [Ids -> Nat] /\ log.granted \in [Ids -> Expiries]
  /\ \A g \in Gens : HeldBy(g) \subseteq IssuedBy(g)
  /\ crossed \subseteq Gens /\ unread \in BOOLEAN

(* From the launch on, a lease alive at its provider is one whose handle   *)
(* is on disk, until the provider was asked to revoke it: whenever the     *)
(* node dies, the next one can still end it (keep, revoke, recover).  One  *)
(* lapse is named: another call removes or overwrites the attempt's file   *)
(* with this handle in it.                                                 *)
HandleKept ==
  \A g \in Gens \ crossed, s \in Services :
    thr[g] # "none" /\ Alive(g, s) => <<g, s>> \in kept

(* Once a launch is recorded a route injects only while the task is live,  *)
(* no longer than the log says it may, and never past the lease's maximum, *)
(* whatever the provider granted: a renewal takes effect only once         *)
(* recorded, and every way out of a live task withdraws the route first.   *)
RouteRecorded ==
  \A g \in Gens, s \in Services :
    log.launched /\ lease[g][s].route > 0
      => /\ task = "live"
         /\ lease[g][s].route <= log.granted[<<g, s>>]
         /\ lease[g][s].route <= lease[g][s].iss + MaxTtl

(* A withdrawn route stays withdrawn: a renewal obtained before the        *)
(* revocation and recorded after it does not bring it back.                *)
NotReopened ==
  [][\A g \in Gens, s \in Services :
       thr[g] # "none" /\ lease[g][s].route = 0 => lease'[g][s].route = 0]_vars

(* Every lease whose handle was kept is in the end revoked at its provider *)
(* or was refused there, or the node dies again: whichever node starts on  *)
(* the handle ends the lease.  The lapses are the two of the code: a call  *)
(* that removes another's handles, and handles that cannot be read.        *)
LeasesEnd ==
  \A g \in Gens, s \in Services :
    (<<g, s>> \in kept)
      ~> (~Alive(g, s) \/ up = "down" \/ g \in crossed \/ unread)

(* "written before the workload starts and removed once the leases are     *)
(* revoked, so a restarted node can revoke at the provider what a node     *)
(* that died left behind" (credentials.rs): no handle goes before its      *)
(* lease is ended.                                                         *)
NeverCrossed == crossed = {}

(* "nothing issued is left alive then" (credentials.rs, issue).            *)
NothingLeaked == \A g \in Gens, s \in Services : lease[g][s].prov # "leaked"

(* docs/node-integration.md: the end of an attempt is recorded after the   *)
(* revocation of every lease it was granted.                               *)
EndAccounts ==
  log.ended => \A i \in Ids : log.granted[i] > 0 => log.told[i] > 0
=============================================================================
