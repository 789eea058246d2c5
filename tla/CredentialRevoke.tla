--------------------------- MODULE CredentialRevoke ---------------------------
(***************************************************************************)
(* Withdrawing a credential from a running launch: `ward session revoke'     *)
(* (daemon.rs `revoke_bounded_inner' and the grants of approvals.rs), the    *)
(* marker files it asks through (revoke.rs), the launch's egress that polls  *)
(* them (egress.rs) and the proxy that injects the credential (ward-proxy's  *)
(* proxy.rs), which run in another process.                                  *)
(*                                                                          *)
(* Several connections may revoke one grant at once: the first leads, writes *)
(* the marker and waits for the egress's answer in it; the others join its   *)
(* slot.  Everyone's wait is bounded, the egress answers when it gets to it. *)
(*                                                                          *)
(* Abstractions.  Each launch is granted one credential, and has as many     *)
(* gateway exchanges as Exchanges; an exchange that ended may be made again. *)
(* The count of exchanges in flight is "none" or "some".  What a provider's  *)
(* lease adds to a grant is not here.  A wait's deadline may pass at any     *)
(* time.                                                                     *)
(***************************************************************************)
EXTENDS Integers, FiniteSets

CONSTANTS
  Launches, Clients, Exchanges, None,
  MaxTrouble    \* bound: failed writes, daemon deaths explored

ASSUME RevokeAssumption ==
  /\ IsFiniteSet(Launches) /\ None \notin Clients \cup Launches /\ MaxTrouble \in Nat

Ids == 1..Cardinality(Launches)
\* RevokeState of a grant the daemon lists, and what becomes of it.
Live == {"active", "suspended", "revoking", "unconfirmed"}
Past == {"revoked", "expired", "retired", "forgotten"}
Confirmed == {"withdrawn", "in-flight"}
ASSUME NoneAssumption == None \notin Confirmed

VARIABLES
  \* The daemon's: the grants and their ids, the wait in progress for each id (its
  \* leader), what a leader has published to a joiner of its slot, the pause.
  grant, id, next, slot, published, paused,
  \* The connections: where each is, what it revokes, whose slot it waits on and
  \* the outcome it has.
  caller, target, waits, got,
  \* The marker of each id: what it holds, if it is there.
  marker,
  \* The launches: their egress, where its poll is and what it found in flight,
  \* whether the proxy has the credential withdrawn, the exchanges, and whether
  \* the credential's own lifetime is over.
  up, poll, found, revoked, exchange, lapsed,
  \* The log's CredentialRevoked of each grant; the faults met.
  records, lost, trouble

daemon == <<grant, id, next, slot, published, paused>>
conns == <<caller, target, waits, got>>
launch == <<up, poll, found, revoked, exchange, lapsed>>
log == <<records, lost>>
vars == <<daemon, conns, marker, launch, log, trouble>>

Init ==
  /\ grant = [l \in Launches |-> "none"] /\ id = [l \in Launches |-> 0] /\ next = 0
  /\ slot = [i \in Ids |-> None]
  /\ published = [c \in Clients |-> None]
  /\ paused = FALSE
  /\ caller = [c \in Clients |-> "idle"] /\ target = [c \in Clients |-> None]
  /\ waits = [c \in Clients |-> None] /\ got = [c \in Clients |-> None]
  /\ marker = [i \in Ids |-> "none"]
  /\ up = [l \in Launches |-> "no"] /\ poll = [l \in Launches |-> "idle"]
  /\ found = [l \in Launches |-> None]
  /\ revoked = [l \in Launches |-> FALSE] /\ lapsed = [l \in Launches |-> FALSE]
  /\ exchange = [l \in Launches |-> [e \in Exchanges |-> "new"]]
  /\ records = [l \in Launches |-> 0] /\ lost = {} /\ trouble = 0

Fault == trouble < MaxTrouble /\ trouble' = trouble + 1

--------------------------------------------------------------------------------
(* The grants *)

\* record_credential_with_expiry: a fresh id; suspended when the session is paused.
Grant(l) ==
  /\ grant[l] = "none"
  /\ next' = next + 1
  /\ id' = [id EXCEPT ![l] = next + 1]
  /\ grant' = [grant EXCEPT ![l] = IF paused THEN "suspended" ELSE "active"]
  /\ UNCHANGED <<slot, published, paused, conns, marker, launch, log, trouble>>

\* sweep_expired_credentials, which every reader of the grants runs first.
Sweep ==
  LET over == {l \in Launches : grant[l] \in {"active", "suspended"} /\ lapsed[l]} IN
  /\ over # {}
  /\ grant' = [l \in Launches |-> IF l \in over THEN "expired" ELSE grant[l]]
  /\ UNCHANGED <<id, next, slot, published, paused, conns, marker, launch, log, trouble>>

\* set_paused_at_wall: a grant that expired during the pause is not active again.
SetPaused ==
  /\ paused' = ~paused
  /\ grant' = [l \in Launches |->
                 IF paused' /\ grant[l] = "active" THEN "suspended"
                 ELSE IF ~paused' /\ grant[l] = "suspended"
                      THEN IF lapsed[l] THEN "expired" ELSE "active"
                 ELSE grant[l]]
  /\ UNCHANGED <<id, next, slot, published, conns, marker, launch, log, trouble>>

\* retire_launch: the launch's terminal record has landed; a severed one never does.
RetireLaunch(l) ==
  /\ up[l] = "down" /\ grant[l] \in Live
  /\ grant' = [grant EXCEPT ![l] = "retired"]
  /\ UNCHANGED <<id, next, slot, published, paused, conns, marker, launch, log, trouble>>

--------------------------------------------------------------------------------
(* A revoke, on a connection of its own *)

\* begin_revoke_wait: no such grant.
BeginUnknown(c, l) ==
  /\ caller[c] = "idle" /\ id[l] # 0 /\ grant[l] \notin Live
  /\ ~ \E m \in Launches : id[m] = id[l] /\ grant[m] \in Live
  /\ caller' = [caller EXCEPT ![c] = "answered"]
  /\ target' = [target EXCEPT ![c] = l]
  /\ got' = [got EXCEPT ![c] = "not-found"]
  /\ UNCHANGED <<daemon, waits, marker, launch, log, trouble>>

\* begin_revoke_wait: the grant is revoking, and this connection leads or joins.
Begin(c, l) ==
  /\ caller[c] = "idle" /\ grant[l] \in Live
  /\ grant' = [grant EXCEPT ![l] = "revoking"]
  /\ target' = [target EXCEPT ![c] = l]
  /\ IF slot[id[l]] = None
       THEN /\ slot' = [slot EXCEPT ![id[l]] = c]
            /\ waits' = [waits EXCEPT ![c] = c]
            /\ caller' = [caller EXCEPT ![c] = "leading"]
       ELSE /\ waits' = [waits EXCEPT ![c] = slot[id[l]]]
            /\ caller' = [caller EXCEPT ![c] = "joined"]
            /\ UNCHANGED slot
  /\ UNCHANGED <<id, next, published, paused, got, marker, launch, log, trouble>>

\* revoke::request leaves a marker that is already there as it is.
RequestedMarker(i) == IF marker[i] = "none" THEN "empty" ELSE marker[i]

AskEgress(c) ==
  LET i == id[target[c]] IN
  /\ caller[c] = "leading"
  /\ \/ /\ marker' = [marker EXCEPT ![i] = RequestedMarker(i)]
        /\ caller' = [caller EXCEPT ![c] = "waiting"]
        /\ UNCHANGED <<got, trouble>>
     \/ /\ Fault
        /\ caller' = [caller EXCEPT ![c] = "told"]
        /\ got' = [got EXCEPT ![c] = "unconfirmed"]
        /\ UNCHANGED marker
  /\ UNCHANGED <<daemon, target, waits, launch, log>>

\* Mutant: a marker that is there is taken for an answer.
AckedByPresence(i) == IF marker[i] = "empty" THEN "withdrawn" ELSE marker[i]

\* revoke::ack: an empty marker and a missing one are no answer.
Acked(i) == marker[i]

\* Mutant: the leader waits for as long as it takes.
NeverLate(c) == FALSE

\* ACK_TIMEOUT: a deadline that may have passed by now.
Late(c) == TRUE

\* wait_for_ack: the outcome in the marker, or the end of the wait.
WaitForAck(c) ==
  LET ack == Acked(id[target[c]]) IN
  /\ caller[c] = "waiting"
  /\ \/ ack \in Confirmed /\ got' = [got EXCEPT ![c] = ack]
     \/ ack \notin Confirmed /\ Late(c) /\ got' = [got EXCEPT ![c] = "unconfirmed"]
  /\ caller' = [caller EXCEPT ![c] = "clearing"]
  /\ UNCHANGED <<daemon, target, waits, marker, launch, log, trouble>>

\* revoke::clear; what an egress has opened and not filled yet goes with the file.
Clear(c) ==
  LET i == id[target[c]] IN
  /\ caller[c] = "clearing"
  /\ marker' = [marker EXCEPT ![i] = "none"]
  /\ found' = [l \in Launches |-> IF id[l] = i /\ poll[l] = "filling" THEN None ELSE found[l]]
  /\ caller' = [caller EXCEPT ![c] = "told"]
  /\ UNCHANGED <<daemon, target, waits, got, up, poll, revoked, exchange, lapsed, log, trouble>>

\* join_revoke_wait: what the leader published, or the end of the joiner's own wait.
JoinWait(c) ==
  /\ caller[c] = "joined"
  /\ \/ published[c] # None /\ got' = [got EXCEPT ![c] = published[c]]
     \/ published[c] = None /\ Late(c) /\ got' = [got EXCEPT ![c] = "unconfirmed"]
  /\ published' = [published EXCEPT ![c] = None]
  /\ caller' = [caller EXCEPT ![c] = "told"]
  /\ UNCHANGED <<grant, id, next, slot, paused, target, waits, marker, launch, log, trouble>>

\* Mutant: whoever has a confirmed outcome records it.
PerformsAlways(l) == TRUE

\* finish_revoke acts on a grant that is still there.
Performs(l) == grant[l] \in Live

\* The end of a revoke, under one hold of the Served lock: publish, conclude, record.
\* publish_revoke_wait removes the slot; a joiner has nothing to remove.
Conclude(c) ==
  LET l == target[c] confirmed == got[c] \in Confirmed IN
  /\ caller[c] = "told"
  /\ published' = [j \in Clients |->
                     IF waits[c] = c /\ caller[j] = "joined" /\ waits[j] = c
                       THEN got[c] ELSE published[j]]
  /\ slot' = IF waits[c] = c THEN [slot EXCEPT ![id[l]] = None] ELSE slot
  /\ grant' = IF ~Performs(l) THEN grant
              ELSE [grant EXCEPT ![l] = IF confirmed THEN "revoked" ELSE "unconfirmed"]
  /\ IF Performs(l) /\ confirmed
       THEN \/ records' = [records EXCEPT ![l] = @ + 1] /\ UNCHANGED <<lost, trouble>>
            \/ Fault /\ lost' = lost \cup {l} /\ UNCHANGED records
       ELSE UNCHANGED <<records, lost, trouble>>
  /\ caller' = [caller EXCEPT ![c] = "answered"]
  /\ waits' = [waits EXCEPT ![c] = None]
  /\ UNCHANGED <<id, next, paused, target, got, marker, launch>>

\* The daemon dies and another serves the session: the grants were in its memory,
\* and it mints ids from one again.
DaemonRestart ==
  /\ Fault
  /\ grant' = [l \in Launches |-> IF grant[l] \in Live THEN "forgotten" ELSE grant[l]]
  /\ next' = 0
  /\ slot' = [i \in Ids |-> None]
  /\ published' = [c \in Clients |-> None]
  /\ LET cut == {c \in Clients : caller[c] \notin {"idle", "answered"}}
         Kept(f) == [c \in Clients |-> IF c \in cut THEN None ELSE f[c]]
     IN  /\ caller' = [c \in Clients |-> IF c \in cut THEN "cut" ELSE caller[c]]
         /\ target' = Kept(target) /\ waits' = Kept(waits) /\ got' = Kept(got)
  /\ UNCHANGED <<id, paused, marker, launch, log>>

--------------------------------------------------------------------------------
(* The launch's egress polls the markers (watch_revocations) *)

EgressStart(l) ==
  /\ up[l] = "no" /\ id[l] # 0
  /\ up' = [up EXCEPT ![l] = "yes"]
  /\ UNCHANGED <<daemon, conns, marker, poll, found, revoked, exchange, lapsed, log, trouble>>

\* The launch ended, or its process was killed; its exchanges went with it.
EgressStop(l) ==
  /\ up[l] = "yes"
  /\ up' = [up EXCEPT ![l] = "down"]
  /\ poll' = [poll EXCEPT ![l] = "idle"]
  /\ found' = [found EXCEPT ![l] = None]
  /\ exchange' = [exchange EXCEPT ![l] = [e \in Exchanges |-> "new"]]
  /\ UNCHANGED <<daemon, conns, marker, revoked, lapsed, log, trouble>>

\* read_dir names a marker of an id one of its routes carries.
PollSee(l) ==
  /\ up[l] = "yes" /\ poll[l] = "idle" /\ marker[id[l]] # "none"
  /\ poll' = [poll EXCEPT ![l] = "seen"]
  /\ UNCHANGED <<daemon, conns, marker, up, found, revoked, exchange, lapsed, log, trouble>>

\* Mutant: a credential in use is not withdrawn before its exchanges end.
WithdrawsIdle(l) ==
  \A e \in Exchanges : exchange[l][e] \notin {"entered", "cleared", "relaying"}

\* revoke_credential withdraws whatever is in flight.
Withdraws(l) == TRUE

\* The exchanges that hold a CredentialSlot.
Counted(l) == {e \in Exchanges : exchange[l][e] \in {"entered", "cleared", "relaying"}}

\* Handle::revoke_credential: withdrawn and counted under one lock.
PollRevoke(l) ==
  /\ poll[l] = "seen"
  /\ revoked' = [revoked EXCEPT ![l] = @ \/ Withdraws(l)]
  /\ found' = [found EXCEPT ![l] = IF Counted(l) = {} THEN "withdrawn" ELSE "in-flight"]
  /\ poll' = [poll EXCEPT ![l] = "writing"]
  /\ UNCHANGED <<daemon, conns, marker, up, exchange, lapsed, log, trouble>>

\* fs::write creates or truncates the marker, then fills it, or fails.
PollOpen(l) ==
  /\ poll[l] = "writing"
  /\ marker' = [marker EXCEPT ![id[l]] = "empty"]
  /\ poll' = [poll EXCEPT ![l] = "filling"]
  /\ UNCHANGED <<daemon, conns, up, found, revoked, exchange, lapsed, log, trouble>>

PollWrite(l) ==
  /\ poll[l] = "filling"
  /\ \/ /\ marker' = IF found[l] = None THEN marker ELSE [marker EXCEPT ![id[l]] = found[l]]
        /\ UNCHANGED trouble
     \/ Fault /\ UNCHANGED marker
  /\ poll' = [poll EXCEPT ![l] = "idle"]
  /\ found' = [found EXCEPT ![l] = None]
  /\ UNCHANGED <<daemon, conns, up, revoked, exchange, lapsed, log>>

--------------------------------------------------------------------------------
(* The proxy's gateway exchanges with the credential *)

\* credential_revoked and lease_expired, read before anything is connected to and
\* again, and not while paused, before the credential leaves the host.
Good(l) == ~revoked[l] /\ ~lapsed[l]

ExchangeStep(l, e, from, to) ==
  /\ up[l] = "yes" /\ exchange[l][e] = from
  /\ exchange' = [exchange EXCEPT ![l][e] = to]
  /\ UNCHANGED <<daemon, conns, marker, up, poll, found, revoked, lapsed, log, trouble>>

\* gateway_refusal passes it; the destination is resolved and connected to next.
Admit(l, e) == ~paused /\ Good(l) /\ ExchangeStep(l, e, "new", "admitted")

\* CredentialSlot::acquire; the TLS handshake is next.
Enter(l, e) == ExchangeStep(l, e, "admitted", "entered")

\* The last check.  Its three reads are one step: what ends a credential's life is never
\* undone, so an exchange that read each of them well could have read all of them at the
\* first.  The lock is released before the head is written.
LastCheck(l, e) == ~paused /\ Good(l) /\ ExchangeStep(l, e, "entered", "cleared")

\* rewrite_head puts the credential in and the head is sent, whatever has happened since.
Inject(l, e) == ExchangeStep(l, e, "cleared", "relaying")

\* The exchange is over: refused, failed or relayed; its slot is dropped.
Leave(l, e) ==
  \E from \in {"admitted", "entered", "cleared", "relaying"} : ExchangeStep(l, e, from, "new")

Lapse(l) ==
  /\ up[l] = "yes" /\ ~lapsed[l]
  /\ lapsed' = [lapsed EXCEPT ![l] = TRUE]
  /\ UNCHANGED <<daemon, conns, marker, up, poll, found, revoked, exchange, log, trouble>>

--------------------------------------------------------------------------------

Poll(l) == PollSee(l) \/ PollRevoke(l) \/ PollOpen(l) \/ PollWrite(l)

Next ==
  \/ \E l \in Launches :
       \/ Grant(l) \/ RetireLaunch(l) \/ EgressStart(l) \/ EgressStop(l) \/ Lapse(l)
       \/ Poll(l)
       \/ \E e \in Exchanges :
            Admit(l, e) \/ Enter(l, e) \/ LastCheck(l, e) \/ Inject(l, e) \/ Leave(l, e)
  \/ Sweep \/ SetPaused
  \/ \E c \in Clients :
       \/ \E l \in Launches : BeginUnknown(c, l) \/ Begin(c, l)
       \/ AskEgress(c) \/ WaitForAck(c) \/ Clear(c) \/ JoinWait(c) \/ Conclude(c)
  \/ DaemonRestart

Spec == Init /\ [][Next]_vars

\* A connection's thread runs, and its waits are bounded.
Fairness ==
  \A c \in Clients :
    WF_vars(AskEgress(c) \/ WaitForAck(c) \/ Clear(c) \/ JoinWait(c) \/ Conclude(c))

FairSpec == Spec /\ Fairness

--------------------------------------------------------------------------------
(* Properties *)

\* Every variable is of its kind.
TypeOK ==
  /\ grant \in [Launches -> {"none"} \cup Live \cup Past]
  /\ id \in [Launches -> Ids \cup {0}] /\ next \in Ids \cup {0}
  /\ slot \in [Ids -> Clients \cup {None}]
  /\ published \in [Clients -> Confirmed \cup {"unconfirmed", None}]
  /\ paused \in BOOLEAN
  /\ caller \in [Clients -> {"idle", "leading", "waiting", "clearing", "joined", "told",
                             "answered", "cut"}]
  /\ target \in [Clients -> Launches \cup {None}] /\ waits \in [Clients -> Clients \cup {None}]
  /\ got \in [Clients -> Confirmed \cup {"unconfirmed", "not-found", None}]
  /\ marker \in [Ids -> {"none", "empty"} \cup Confirmed]
  /\ up \in [Launches -> {"no", "yes", "down"}]
  /\ poll \in [Launches -> {"idle", "seen", "writing", "filling"}]
  /\ found \in [Launches -> Confirmed \cup {None}]
  /\ revoked \in [Launches -> BOOLEAN] /\ lapsed \in [Launches -> BOOLEAN]
  /\ exchange \in [Launches -> [Exchanges ->
                   {"new", "admitted", "entered", "cleared", "relaying"}]]
  /\ records \in [Launches -> Nat] /\ lost \in SUBSET Launches /\ trouble \in 0..MaxTrouble

\* No other launch of the session was given l's id.
Alone(l) == \A m \in Launches \ {l} : id[m] # id[l]

\* The exchanges whose credential is on its way out: past the last check, injected or not.
Carrying(l) == {e \in Exchanges : exchange[l][e] \in {"cleared", "relaying"}}

\* A caller told `Withdrawn' can rely on it: the proxy has withdrawn the
\* credential and no exchange carries it or ever will, whichever of the racing
\* connections asked and however late the egress polled (docs/agent-integration.md,
\* the three outcomes; the slot is taken before the last check).
WithdrawnIsSilent ==
  \A c \in Clients, l \in Launches :
    target[c] = l /\ got[c] = "withdrawn" /\ Alone(l) => revoked[l] /\ Carrying(l) = {}

\* `WithdrawnInFlight' is as final for everything new: once any caller has a
\* confirmed outcome, no further exchange gets past its last check (proxy.rs
\* serve_gateway).  One that was past it may still put the credential on the wire:
\* the head is written after the check, and it is one of those counted in flight.
NothingNewInjected ==
  [][\A c \in Clients, l \in Launches :
       target[c] = l /\ got[c] \in Confirmed /\ Alone(l) => Carrying(l)' \subseteq Carrying(l)]_vars

\* One logical revoke is one CredentialRevoked, however many connections raced it,
\* and a caller told it is withdrawn has it in the log, or the launch ended or the
\* daemon died under the wait, or the append failed.
RevokedOnce ==
  \A l \in Launches :
    /\ records[l] = IF grant[l] = "revoked" /\ l \notin lost THEN 1 ELSE 0
    /\ \A c \in Clients :
         target[c] = l /\ caller[c] = "answered" /\ got[c] \in Confirmed => grant[l] \in Past

\* Every revoke is answered, joined or led, whatever the egress does, or its
\* daemon died.
RevokeAnswered ==
  \A c \in Clients : caller[c] # "idle" ~> caller[c] \in {"answered", "cut"}

\* "a grant id is never reused ... an id a caller once saw always means the one
\* grant it was minted for, or nothing" (approvals.rs): what a caller is told of
\* the grant it named is true of that grant's own credential.
ToldOfItsOwnGrant ==
  \A c \in Clients, l \in Launches :
    target[c] = l /\ got[c] \in Confirmed => revoked[l]
================================================================================
