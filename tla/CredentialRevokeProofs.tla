----------------------- MODULE CredentialRevokeProofs -----------------------
(***************************************************************************)
(* What a caller of `ward session revoke' is told, for any launches,       *)
(* connections and exchanges.  The argument: an outcome only ever travels  *)
(* (found, marker, got, published) from a launch of the id it is about,    *)
(* whose proxy had withdrawn the credential when it was found              *)
(* (EvidenceInv), and what was found stays true of that launch             *)
(* (StepKeeps).  When no other launch has that id it is the caller's own.  *)
(***************************************************************************)
EXTENDS CredentialRevoke, FiniteSetTheorems, TLAPS

Quiet(l) == \A e \in Exchanges : exchange[l][e] \notin {"cleared", "relaying"}

\* Some launch of the id is as the outcome says.
Shown(i, o) ==
  \E l \in Launches : id[l] = i /\ revoked[l] /\ (o = "withdrawn" => Quiet(l))

Granted == {l \in Launches : grant[l] # "none"}

\* Ids are minted one per grant, so every launch with an egress has one.
GrantInv ==
  /\ next <= Cardinality(Granted)
  /\ \A l \in Launches : /\ grant[l] # "none" <=> id[l] # 0
                         /\ up[l] # "no" => id[l] # 0
                         /\ poll[l] # "idle" => id[l] # 0

Busy == {"leading", "waiting", "clearing", "joined", "told"}

\* A connection at work has a grant and a slot; its slot's leader has the same grant's id.
ConnInv ==
  \A c \in Clients :
    /\ caller[c] = "idle" => target[c] = None
    /\ caller[c] \in Busy => target[c] # None /\ waits[c] # None
    /\ caller[c] \notin Busy => waits[c] = None
    /\ target[c] # None => grant[target[c]] # "none" /\ id[target[c]] # 0
    /\ waits[c] # None => /\ target[waits[c]] # None
                          /\ id[target[waits[c]]] = id[target[c]]
    /\ caller[c] \in {"clearing", "told"} => got[c] \in Confirmed \cup {"unconfirmed"}

SlotInv ==
  \A i \in Ids : slot[i] # None => target[slot[i]] # None /\ id[target[slot[i]]] = i

\* Every outcome on its way has its evidence.
EvidenceInv ==
  /\ \A l \in Launches :
       found[l] # None => revoked[l] /\ (found[l] = "withdrawn" => Quiet(l))
  /\ \A i \in Ids : marker[i] \in Confirmed => Shown(i, marker[i])
  /\ \A c \in Clients :
       /\ got[c] \in Confirmed => target[c] # None /\ Shown(id[target[c]], got[c])
       /\ published[c] \in Confirmed => target[c] # None /\ Shown(id[target[c]], published[c])

\* One record for a revoked grant unless its append failed, none for another; a confirmed
\* answer leaves no live grant.
RecordInv ==
  /\ \A l \in Launches :
       /\ records[l] = IF grant[l] = "revoked" /\ l \notin lost THEN 1 ELSE 0
       /\ l \in lost => grant[l] = "revoked"
  /\ \A c \in Clients : caller[c] = "answered" /\ got[c] \in Confirmed => grant[target[c]] \in Past

Inv == TypeOK /\ GrantInv /\ ConnInv /\ SlotInv /\ EvidenceInv

-----------------------------------------------------------------------------
LEMMA CountIsNat == Cardinality(Launches) \in Nat /\ Ids \subseteq Nat \ {0}
BY RevokeAssumption, FS_CardinalityType DEF Ids

\* While a launch has no grant yet, there is an id left for it.
LEMMA Room ==
  ASSUME Inv, NEW l \in Launches, grant[l] = "none"
  PROVE  /\ next + 1 \in Ids
         /\ Cardinality(Granted \cup {l}) = Cardinality(Granted) + 1
<1>1. IsFiniteSet(Granted) /\ l \notin Granted /\ Granted \cup {l} \subseteq Launches
  BY RevokeAssumption, FS_Subset DEF Granted
<1>2. Cardinality(Granted \cup {l}) = Cardinality(Granted) + 1 /\ Cardinality(Granted) \in Nat
  BY <1>1, FS_AddElement, FS_CardinalityType
<1>3. Cardinality(Granted \cup {l}) <= Cardinality(Launches)
  BY <1>1, RevokeAssumption, FS_Subset
<1> QED
  BY <1>2, <1>3, CountIsNat DEF Inv, TypeOK, GrantInv, Ids

\* The id a connection at work asks about.
LEMMA AskedId ==
  ASSUME Inv, NEW c \in Clients, caller[c] \in Busy
  PROVE  target[c] \in Launches /\ id[target[c]] \in Ids /\ waits[c] \in Clients
BY DEF Inv, TypeOK, ConnInv

LEMMA InitInv == Init => Inv
<1> SUFFICES ASSUME Init PROVE Inv
  OBVIOUS
<1>1. TypeOK
  <2>1. /\ grant \in [Launches -> {"none"} \cup Live \cup Past] /\ id \in [Launches -> Ids \cup {0}]
        /\ next \in Ids \cup {0} /\ slot \in [Ids -> Clients \cup {None}]
        /\ marker \in [Ids -> {"none", "empty"} \cup Confirmed] /\ trouble \in 0..MaxTrouble
    BY RevokeAssumption DEF Init
  <2>2. exchange \in [Launches -> [Exchanges ->
          {"new", "admitted", "entered", "cleared", "relaying"}]]
    BY DEF Init
  <2> QED
    BY <2>1, <2>2 DEF Init, TypeOK
<1>2. Cardinality(Granted) = 0
  <2>1. Granted = {}
    BY DEF Init, Granted
  <2> QED
    BY <2>1, FS_EmptySet
<1>3. GrantInv
  BY <1>2 DEF Init, GrantInv
<1>4. ConnInv /\ SlotInv /\ EvidenceInv
  BY RevokeAssumption, NoneAssumption DEF Init, ConnInv, SlotInv, EvidenceInv, Busy, Confirmed
<1> QED
  BY <1>1, <1>3, <1>4 DEF Inv

\* An id, once given, stays; a withdrawn credential stays withdrawn; and once it is
\* withdrawn no further exchange gets past its last check.
Keeps ==
  \A l \in Launches :
    /\ id[l] # 0 => id'[l] = id[l]
    /\ grant[l] # "none" => grant'[l] # "none"
    /\ revoked[l] => revoked'[l]
    /\ revoked[l] => \A e \in Exchanges :
                      exchange[l][e] \notin {"cleared", "relaying"} =>
                        exchange'[l][e] \notin {"cleared", "relaying"}
    /\ revoked[l] /\ Quiet(l) => Quiet(l)'

LEMMA ShownStays ==
  ASSUME Keeps, NEW i \in Ids, NEW o, Shown(i, o)
  PROVE  Shown(i, o)'
BY CountIsNat DEF Keeps, Shown

LEMMA StepKeeps == Inv /\ [Next]_vars => Keeps
<1> SUFFICES ASSUME Inv, [Next]_vars PROVE Keeps
  OBVIOUS
<1>1. CASE UNCHANGED vars
  BY <1>1 DEF vars, daemon, conns, launch, log, Keeps, Quiet
<1>2. ASSUME NEW l \in Launches, Grant(l) PROVE Keeps
  BY <1>2 DEF Grant, daemon, conns, launch, log, Keeps, Quiet, Inv, TypeOK, GrantInv
<1>3. ASSUME NEW l \in Launches, RetireLaunch(l) PROVE Keeps
  BY <1>3 DEF RetireLaunch, daemon, conns, launch, log, Keeps, Quiet, Inv, TypeOK, Live, Past, Fault
<1>4. ASSUME NEW l \in Launches, EgressStart(l) PROVE Keeps
  BY <1>4 DEF EgressStart, daemon, conns, launch, log, Keeps, Quiet, Inv, TypeOK, Live, Past, Fault
<1>5. ASSUME NEW l \in Launches, EgressStop(l) PROVE Keeps
  BY <1>5 DEF EgressStop, daemon, conns, launch, log, Keeps, Quiet, Inv, TypeOK, Live, Past, Fault
<1>6. ASSUME NEW l \in Launches, Lapse(l) PROVE Keeps
  BY <1>6 DEF Lapse, daemon, conns, launch, log, Keeps, Quiet, Inv, TypeOK, Live, Past, Fault
<1>7. ASSUME NEW l \in Launches, PollSee(l) PROVE Keeps
  BY <1>7 DEF PollSee, daemon, conns, launch, log, Keeps, Quiet, Inv, TypeOK, Live, Past, Fault
<1>8. ASSUME NEW l \in Launches, PollRevoke(l) PROVE Keeps
  BY <1>8 DEF PollRevoke, daemon, conns, launch, log, Keeps, Quiet, Inv, TypeOK, Live, Past, Fault
<1>9. ASSUME NEW l \in Launches, PollOpen(l) PROVE Keeps
  BY <1>9 DEF PollOpen, daemon, conns, launch, log, Keeps, Quiet, Inv, TypeOK, Live, Past, Fault
<1>10. ASSUME NEW l \in Launches, PollWrite(l) PROVE Keeps
  BY <1>10 DEF PollWrite, daemon, conns, launch, log, Keeps, Quiet, Inv, TypeOK, Live, Past, Fault
<1>11. ASSUME NEW l \in Launches, NEW e \in Exchanges, Admit(l, e) PROVE Keeps
  BY <1>11 DEF Admit, ExchangeStep, Good, daemon, conns, launch, log, Keeps, Quiet, Inv, TypeOK
<1>12. ASSUME NEW l \in Launches, NEW e \in Exchanges, Enter(l, e) PROVE Keeps
  BY <1>12 DEF Enter, ExchangeStep, Good, daemon, conns, launch, log, Keeps, Quiet, Inv, TypeOK
<1>25. ASSUME NEW l \in Launches, NEW e \in Exchanges, LastCheck(l, e) PROVE Keeps
  BY <1>25 DEF LastCheck, ExchangeStep, Good, daemon, conns, launch, log, Keeps, Quiet, Inv, TypeOK
<1>13. ASSUME NEW l \in Launches, NEW e \in Exchanges, Inject(l, e) PROVE Keeps
  BY <1>13 DEF Inject, ExchangeStep, Good, daemon, conns, launch, log, Keeps, Quiet, Inv, TypeOK
<1>14. ASSUME NEW l \in Launches, NEW e \in Exchanges, Leave(l, e) PROVE Keeps
  BY <1>14 DEF Leave, ExchangeStep, Good, daemon, conns, launch, log, Keeps, Quiet, Inv, TypeOK
<1>15. CASE Sweep
  BY <1>15 DEF Sweep, daemon, conns, launch, log, Keeps, Quiet, Inv, TypeOK, Live, Past, Fault
<1>16. CASE SetPaused
  BY <1>16 DEF SetPaused, daemon, conns, launch, log, Keeps, Quiet, Inv, TypeOK, Live, Past, Fault
<1>17. ASSUME NEW c \in Clients, NEW l \in Launches, BeginUnknown(c, l) PROVE Keeps
  BY <1>17 DEF BeginUnknown, daemon, conns, launch, log, Keeps, Quiet, Inv, TypeOK, Live, Past, Fault
<1>18. ASSUME NEW c \in Clients, NEW l \in Launches, Begin(c, l) PROVE Keeps
  BY <1>18 DEF Begin, daemon, conns, launch, log, Keeps, Quiet, Inv, TypeOK, Live, Past, Fault
<1>19. ASSUME NEW c \in Clients, AskEgress(c) PROVE Keeps
  BY <1>19 DEF AskEgress, daemon, conns, launch, log, Keeps, Quiet, Inv, TypeOK, Live, Past, Fault
<1>20. ASSUME NEW c \in Clients, WaitForAck(c) PROVE Keeps
  BY <1>20 DEF WaitForAck, daemon, conns, launch, log, Keeps, Quiet, Inv, TypeOK, Live, Past, Fault
<1>21. ASSUME NEW c \in Clients, Clear(c) PROVE Keeps
  BY <1>21 DEF Clear, daemon, conns, launch, log, Keeps, Quiet, Inv, TypeOK, Live, Past, Fault
<1>22. ASSUME NEW c \in Clients, JoinWait(c) PROVE Keeps
  BY <1>22 DEF JoinWait, daemon, conns, launch, log, Keeps, Quiet, Inv, TypeOK, Live, Past, Fault
<1>23. ASSUME NEW c \in Clients, Conclude(c) PROVE Keeps
  BY <1>23 DEF Conclude, daemon, conns, launch, log, Keeps, Quiet, Inv, TypeOK, Live, Past, Fault
<1>24. CASE DaemonRestart
  BY <1>24 DEF DaemonRestart, daemon, conns, launch, log, Keeps, Quiet, Inv, TypeOK, Live, Past, Fault
<1> QED
  BY <1>1, <1>2, <1>3, <1>4, <1>5, <1>6, <1>7, <1>8, <1>9, <1>10, <1>11, <1>12, <1>13, <1>14, <1>15, <1>16, <1>17, <1>18, <1>19, <1>20, <1>21, <1>22, <1>23, <1>24, <1>25 DEF Next, Poll

\* Every variable keeps its kind.
LEMMA TypeStep == Inv /\ [Next]_vars => TypeOK'
<1> SUFFICES ASSUME Inv, [Next]_vars PROVE TypeOK'
  OBVIOUS
<1> USE RevokeAssumption
<1>1. CASE UNCHANGED vars
  BY <1>1 DEF vars, daemon, conns, launch, log, Inv, TypeOK
<1>2. ASSUME NEW l \in Launches, Grant(l) PROVE TypeOK'
  BY <1>2, Room DEF Grant, daemon, conns, launch, log, Inv, TypeOK, Live
<1>3. ASSUME NEW l \in Launches, RetireLaunch(l) PROVE TypeOK'
  BY <1>3 DEF RetireLaunch, daemon, conns, launch, log, Inv, TypeOK, Live, Past, Confirmed, Fault
<1>4. ASSUME NEW l \in Launches, EgressStart(l) PROVE TypeOK'
  BY <1>4 DEF EgressStart, daemon, conns, launch, log, Inv, TypeOK, Live, Past, Confirmed, Fault
<1>5. ASSUME NEW l \in Launches, EgressStop(l) PROVE TypeOK'
  BY <1>5 DEF EgressStop, daemon, conns, launch, log, Inv, TypeOK, Live, Past, Confirmed, Fault
<1>6. ASSUME NEW l \in Launches, Lapse(l) PROVE TypeOK'
  BY <1>6 DEF Lapse, daemon, conns, launch, log, Inv, TypeOK, Live, Past, Confirmed, Fault
<1>7. ASSUME NEW l \in Launches, PollSee(l) PROVE TypeOK'
  BY <1>7 DEF PollSee, daemon, conns, launch, log, Inv, TypeOK, Live, Past, Confirmed, Fault
<1>8. ASSUME NEW l \in Launches, PollRevoke(l) PROVE TypeOK'
  BY <1>8 DEF PollRevoke, daemon, conns, launch, log, Inv, TypeOK, Live, Past, Confirmed, Fault
<1>9. ASSUME NEW l \in Launches, PollOpen(l) PROVE TypeOK'
  BY <1>9 DEF PollOpen, daemon, conns, launch, log, Inv, TypeOK, Live, Past, Confirmed, Fault
<1>10. ASSUME NEW l \in Launches, PollWrite(l) PROVE TypeOK'
  <2>1. id[l] \in Ids
    BY <1>10 DEF PollWrite, Inv, TypeOK, GrantInv
  <2>2. marker' \in [Ids -> {"none", "empty"} \cup Confirmed]
    <3>1. CASE marker' = marker
      BY <3>1 DEF Inv, TypeOK
    <3>2. CASE found[l] # None /\ marker' = [marker EXCEPT ![id[l]] = found[l]]
      BY <3>2, <2>1 DEF Inv, TypeOK
    <3> QED
      BY <1>10, <3>1, <3>2 DEF PollWrite
  <2>3. trouble' \in 0..MaxTrouble
    BY <1>10 DEF PollWrite, Inv, TypeOK, Fault
  <2> QED
    BY <1>10, <2>2, <2>3 DEF PollWrite, daemon, conns, log, Inv, TypeOK
<1>11. ASSUME NEW l \in Launches, NEW e \in Exchanges, Admit(l, e) PROVE TypeOK'
  BY <1>11 DEF Admit, ExchangeStep, daemon, conns, launch, log, Inv, TypeOK, Live, Past, Confirmed, Fault
<1>12. ASSUME NEW l \in Launches, NEW e \in Exchanges, Enter(l, e) PROVE TypeOK'
  BY <1>12 DEF Enter, ExchangeStep, daemon, conns, launch, log, Inv, TypeOK, Live, Past, Confirmed, Fault
<1>25. ASSUME NEW l \in Launches, NEW e \in Exchanges, LastCheck(l, e) PROVE TypeOK'
  BY <1>25 DEF LastCheck, ExchangeStep, daemon, conns, launch, log, Inv, TypeOK, Live, Past, Confirmed, Fault
<1>13. ASSUME NEW l \in Launches, NEW e \in Exchanges, Inject(l, e) PROVE TypeOK'
  BY <1>13 DEF Inject, ExchangeStep, daemon, conns, launch, log, Inv, TypeOK, Live, Past, Confirmed, Fault
<1>14. ASSUME NEW l \in Launches, NEW e \in Exchanges, Leave(l, e) PROVE TypeOK'
  BY <1>14 DEF Leave, ExchangeStep, daemon, conns, launch, log, Inv, TypeOK, Live, Past, Confirmed, Fault
<1>15. CASE Sweep
  BY <1>15 DEF Sweep, daemon, conns, launch, log, Inv, TypeOK, Live, Past, Confirmed, Fault
<1>16. CASE SetPaused
  BY <1>16 DEF SetPaused, daemon, conns, launch, log, Inv, TypeOK, Live, Past, Confirmed, Fault
<1>17. ASSUME NEW c \in Clients, NEW l \in Launches, BeginUnknown(c, l) PROVE TypeOK'
  BY <1>17 DEF BeginUnknown, daemon, conns, launch, log, Inv, TypeOK, Live, Past, Confirmed, Fault
<1>18. ASSUME NEW c \in Clients, NEW l \in Launches, Begin(c, l) PROVE TypeOK'
  <2>1. id[l] \in Ids
    BY <1>18 DEF Begin, Live, Inv, TypeOK, GrantInv
  <2>2. slot' \in [Ids -> Clients \cup {None}] /\ waits' \in [Clients -> Clients \cup {None}]
    <3>1. slot' = slot \/ slot' = [slot EXCEPT ![id[l]] = c]
      BY <1>18 DEF Begin
    <3>2. \E w \in Clients : waits' = [waits EXCEPT ![c] = w]
      BY <1>18, <2>1 DEF Begin, Inv, TypeOK
    <3> QED
      BY <2>1, <3>1, <3>2 DEF Inv, TypeOK
  <2>5. caller' \in [Clients -> {"idle", "leading", "waiting", "clearing", "joined", "told",
                                "answered", "cut"}]
    <3>1. \E to \in {"leading", "joined"} : caller' = [caller EXCEPT ![c] = to]
      BY <1>18 DEF Begin
    <3> QED
      BY <3>1 DEF Inv, TypeOK
  <2>3. grant' \in [Launches -> {"none"} \cup Live \cup Past]
    BY <1>18 DEF Begin, Live, Inv, TypeOK
  <2>4. target' \in [Clients -> Launches \cup {None}]
    BY <1>18 DEF Begin, Inv, TypeOK
  <2> QED
    BY <1>18, <2>2, <2>3, <2>4, <2>5 DEF Begin, launch, log, Inv, TypeOK
<1>19. ASSUME NEW c \in Clients, AskEgress(c) PROVE TypeOK'
  <2>1. id[target[c]] \in Ids
    BY <1>19, AskedId DEF AskEgress, Busy
  <2>2. marker' \in [Ids -> {"none", "empty"} \cup Confirmed]
    <3>1. CASE marker' = marker
      BY <3>1 DEF Inv, TypeOK
    <3>2. CASE marker' = [marker EXCEPT ![id[target[c]]] = RequestedMarker(id[target[c]])]
      BY <3>2, <2>1 DEF RequestedMarker, Inv, TypeOK
    <3> QED
      BY <1>19, <3>1, <3>2 DEF AskEgress
  <2>3. trouble' \in 0..MaxTrouble
    BY <1>19 DEF AskEgress, Fault, Inv, TypeOK
  <2> QED
    BY <1>19, <2>2, <2>3 DEF AskEgress, daemon, launch, log, Inv, TypeOK
<1>20. ASSUME NEW c \in Clients, WaitForAck(c) PROVE TypeOK'
  <2>1. got' \in [Clients -> Confirmed \cup {"unconfirmed", "not-found", None}]
    BY <1>20 DEF WaitForAck, Acked, Inv, TypeOK
  <2> QED
    BY <1>20, <2>1 DEF WaitForAck, daemon, launch, log, Inv, TypeOK
<1>21. ASSUME NEW c \in Clients, Clear(c) PROVE TypeOK'
  BY <1>21 DEF Clear, daemon, conns, launch, log, Inv, TypeOK, Live, Past, Confirmed, Fault
<1>22. ASSUME NEW c \in Clients, JoinWait(c) PROVE TypeOK'
  BY <1>22 DEF JoinWait, daemon, conns, launch, log, Inv, TypeOK, Live, Past, Confirmed, Fault
<1>23. ASSUME NEW c \in Clients, Conclude(c) PROVE TypeOK'
  <2>1. target[c] \in Launches /\ id[target[c]] \in Ids
    BY <1>23, AskedId DEF Conclude, Busy
  <2>2. published' \in [Clients -> Confirmed \cup {"unconfirmed", None}]
    BY <1>23 DEF Conclude, Inv, TypeOK, ConnInv
  <2>3. slot' \in [Ids -> Clients \cup {None}]
    BY <1>23, <2>1 DEF Conclude, Inv, TypeOK
  <2>4. grant' \in [Launches -> {"none"} \cup Live \cup Past]
    BY <1>23, <2>1 DEF Conclude, Inv, TypeOK, Live, Past
  <2>5. /\ \/ records' = [records EXCEPT ![target[c]] = @ + 1] \/ UNCHANGED records
        /\ lost' = lost \cup {target[c]} \/ UNCHANGED lost
        /\ Fault \/ UNCHANGED trouble
    BY <1>23 DEF Conclude
  <2>6. records' \in [Launches -> Nat] /\ lost' \in SUBSET Launches
    BY <2>1, <2>5 DEF Inv, TypeOK
  <2>7. trouble' \in 0..MaxTrouble
    BY <2>5, RevokeAssumption DEF Inv, TypeOK, Fault
  <2> QED
    BY <1>23, <2>2, <2>3, <2>4, <2>6, <2>7 DEF Conclude, launch, Inv, TypeOK
<1>24. CASE DaemonRestart
  BY <1>24 DEF DaemonRestart, daemon, conns, launch, log, Inv, TypeOK, Live, Past, Confirmed, Fault
<1> QED
  BY <1>1, <1>2, <1>3, <1>4, <1>5, <1>6, <1>7, <1>8, <1>9, <1>10, <1>11, <1>12, <1>13, <1>14, <1>15, <1>16, <1>17, <1>18, <1>19, <1>20, <1>21, <1>22, <1>23, <1>24, <1>25 DEF Next, Poll

\* Ids are minted one per grant.
LEMMA GrantStep == Inv /\ [Next]_vars => GrantInv'
<1> SUFFICES ASSUME Inv, [Next]_vars PROVE GrantInv'
  OBVIOUS
<1>1. CASE UNCHANGED vars
  BY <1>1 DEF vars, daemon, conns, launch, log, Inv, GrantInv, Granted
<1>2. ASSUME NEW l \in Launches, Grant(l) PROVE GrantInv'
  <2>1. next + 1 \in Ids /\ Cardinality(Granted \cup {l}) = Cardinality(Granted) + 1
    BY <1>2, Room DEF Grant
  <2>2. Granted' = Granted \cup {l}
    BY <1>2 DEF Grant, Granted, Inv, TypeOK, Live
  <2>3. IsFiniteSet(Granted)
    BY RevokeAssumption, FS_Subset DEF Granted
  <2>4. next' <= Cardinality(Granted')
    BY <1>2, <2>1, <2>2, <2>3, FS_CardinalityType, CountIsNat DEF Grant, Inv, GrantInv, TypeOK
  <2>5. next + 1 # 0
    BY <2>1, CountIsNat
  <2> QED
    BY <1>2, <2>4, <2>5 DEF Grant, launch, Inv, GrantInv, TypeOK
<1>3. ASSUME NEW l \in Launches, RetireLaunch(l) PROVE GrantInv'
  BY <1>3 DEF RetireLaunch, daemon, conns, launch, log, Inv, GrantInv, Granted, TypeOK, Live, Past
<1>4. ASSUME NEW l \in Launches, EgressStart(l) PROVE GrantInv'
  BY <1>4 DEF EgressStart, daemon, conns, launch, log, Inv, GrantInv, Granted, TypeOK, Live, Past
<1>5. ASSUME NEW l \in Launches, EgressStop(l) PROVE GrantInv'
  BY <1>5 DEF EgressStop, daemon, conns, launch, log, Inv, GrantInv, Granted, TypeOK, Live, Past
<1>6. ASSUME NEW l \in Launches, Lapse(l) PROVE GrantInv'
  BY <1>6 DEF Lapse, daemon, conns, launch, log, Inv, GrantInv, Granted, TypeOK, Live, Past
<1>7. ASSUME NEW l \in Launches, PollSee(l) PROVE GrantInv'
  BY <1>7 DEF PollSee, daemon, conns, launch, log, Inv, GrantInv, Granted, TypeOK, Live, Past
<1>8. ASSUME NEW l \in Launches, PollRevoke(l) PROVE GrantInv'
  BY <1>8 DEF PollRevoke, daemon, conns, launch, log, Inv, GrantInv, Granted, TypeOK, Live, Past
<1>9. ASSUME NEW l \in Launches, PollOpen(l) PROVE GrantInv'
  BY <1>9 DEF PollOpen, daemon, conns, launch, log, Inv, GrantInv, Granted, TypeOK, Live, Past
<1>10. ASSUME NEW l \in Launches, PollWrite(l) PROVE GrantInv'
  BY <1>10 DEF PollWrite, daemon, conns, launch, log, Inv, GrantInv, Granted, TypeOK, Live, Past
<1>11. ASSUME NEW l \in Launches, NEW e \in Exchanges, Admit(l, e) PROVE GrantInv'
  BY <1>11 DEF Admit, ExchangeStep, daemon, conns, launch, log, Inv, GrantInv, Granted, TypeOK, Live, Past
<1>12. ASSUME NEW l \in Launches, NEW e \in Exchanges, Enter(l, e) PROVE GrantInv'
  BY <1>12 DEF Enter, ExchangeStep, daemon, conns, launch, log, Inv, GrantInv, Granted, TypeOK, Live, Past
<1>25. ASSUME NEW l \in Launches, NEW e \in Exchanges, LastCheck(l, e) PROVE GrantInv'
  BY <1>25 DEF LastCheck, ExchangeStep, daemon, conns, launch, log, Inv, GrantInv, Granted, TypeOK, Live, Past
<1>13. ASSUME NEW l \in Launches, NEW e \in Exchanges, Inject(l, e) PROVE GrantInv'
  BY <1>13 DEF Inject, ExchangeStep, daemon, conns, launch, log, Inv, GrantInv, Granted, TypeOK, Live, Past
<1>14. ASSUME NEW l \in Launches, NEW e \in Exchanges, Leave(l, e) PROVE GrantInv'
  BY <1>14 DEF Leave, ExchangeStep, daemon, conns, launch, log, Inv, GrantInv, Granted, TypeOK, Live, Past
<1>15. CASE Sweep
  BY <1>15 DEF Sweep, daemon, conns, launch, log, Inv, GrantInv, Granted, TypeOK, Live, Past
<1>16. CASE SetPaused
  BY <1>16 DEF SetPaused, daemon, conns, launch, log, Inv, GrantInv, Granted, TypeOK, Live, Past
<1>17. ASSUME NEW c \in Clients, NEW l \in Launches, BeginUnknown(c, l) PROVE GrantInv'
  BY <1>17 DEF BeginUnknown, daemon, conns, launch, log, Inv, GrantInv, Granted, TypeOK, Live, Past
<1>18. ASSUME NEW c \in Clients, NEW l \in Launches, Begin(c, l) PROVE GrantInv'
  BY <1>18 DEF Begin, daemon, conns, launch, log, Inv, GrantInv, Granted, TypeOK, Live, Past
<1>19. ASSUME NEW c \in Clients, AskEgress(c) PROVE GrantInv'
  BY <1>19 DEF AskEgress, daemon, conns, launch, log, Inv, GrantInv, Granted, TypeOK, Live, Past
<1>20. ASSUME NEW c \in Clients, WaitForAck(c) PROVE GrantInv'
  BY <1>20 DEF WaitForAck, daemon, conns, launch, log, Inv, GrantInv, Granted, TypeOK, Live, Past
<1>21. ASSUME NEW c \in Clients, Clear(c) PROVE GrantInv'
  BY <1>21 DEF Clear, daemon, conns, launch, log, Inv, GrantInv, Granted, TypeOK, Live, Past
<1>22. ASSUME NEW c \in Clients, JoinWait(c) PROVE GrantInv'
  BY <1>22 DEF JoinWait, daemon, conns, launch, log, Inv, GrantInv, Granted, TypeOK, Live, Past
<1>23. ASSUME NEW c \in Clients, Conclude(c) PROVE GrantInv'
  <2>1. Granted' = Granted
    <3>1. target[c] \in Launches /\ grant[target[c]] # "none"
      BY <1>23, AskedId DEF Conclude, Busy, Inv, ConnInv
    <3>2. \A m \in Launches : grant'[m] # "none" <=> grant[m] # "none"
      BY <1>23, <3>1 DEF Conclude, Inv, TypeOK
    <3> QED
      BY <3>2 DEF Granted
  <2> QED
    BY <1>23, <2>1 DEF Conclude, launch, Inv, GrantInv, Granted
<1>24. CASE DaemonRestart
  <2>1. Granted' = Granted
    BY <1>24 DEF DaemonRestart, Granted, Inv, TypeOK, Live
  <2>2. Cardinality(Granted) \in Nat
    <3>1. IsFiniteSet(Granted)
      BY RevokeAssumption, FS_Subset DEF Granted
    <3> QED
      BY <3>1, FS_CardinalityType
  <2> QED
    BY <1>24, <2>1, <2>2 DEF DaemonRestart, launch, Inv, GrantInv, Granted
<1> QED
  BY <1>1, <1>2, <1>3, <1>4, <1>5, <1>6, <1>7, <1>8, <1>9, <1>10, <1>11, <1>12, <1>13, <1>14, <1>15, <1>16, <1>17, <1>18, <1>19, <1>20, <1>21, <1>22, <1>23, <1>24, <1>25 DEF Next, Poll

\* What a connection at work relies on stays.
LEMMA ConnStep == Inv /\ [Next]_vars => ConnInv'
<1> SUFFICES ASSUME Inv, [Next]_vars PROVE ConnInv'
  OBVIOUS
<1>1. CASE UNCHANGED vars
  BY <1>1 DEF vars, daemon, conns, launch, log, Inv, ConnInv, Busy
<1>2. ASSUME NEW l \in Launches, Grant(l) PROVE ConnInv'
  BY <1>2, StepKeeps DEF Grant, daemon, conns, launch, log, Inv, ConnInv, Keeps, TypeOK, Busy, Confirmed
<1>3. ASSUME NEW l \in Launches, RetireLaunch(l) PROVE ConnInv'
  BY <1>3, StepKeeps DEF RetireLaunch, daemon, conns, launch, log, Inv, ConnInv, Keeps, TypeOK, Busy, Confirmed
<1>4. ASSUME NEW l \in Launches, EgressStart(l) PROVE ConnInv'
  BY <1>4, StepKeeps DEF EgressStart, daemon, conns, launch, log, Inv, ConnInv, Keeps, TypeOK, Busy, Confirmed
<1>5. ASSUME NEW l \in Launches, EgressStop(l) PROVE ConnInv'
  BY <1>5, StepKeeps DEF EgressStop, daemon, conns, launch, log, Inv, ConnInv, Keeps, TypeOK, Busy, Confirmed
<1>6. ASSUME NEW l \in Launches, Lapse(l) PROVE ConnInv'
  BY <1>6, StepKeeps DEF Lapse, daemon, conns, launch, log, Inv, ConnInv, Keeps, TypeOK, Busy, Confirmed
<1>7. ASSUME NEW l \in Launches, PollSee(l) PROVE ConnInv'
  BY <1>7, StepKeeps DEF PollSee, daemon, conns, launch, log, Inv, ConnInv, Keeps, TypeOK, Busy, Confirmed
<1>8. ASSUME NEW l \in Launches, PollRevoke(l) PROVE ConnInv'
  BY <1>8, StepKeeps DEF PollRevoke, daemon, conns, launch, log, Inv, ConnInv, Keeps, TypeOK, Busy, Confirmed
<1>9. ASSUME NEW l \in Launches, PollOpen(l) PROVE ConnInv'
  BY <1>9, StepKeeps DEF PollOpen, daemon, conns, launch, log, Inv, ConnInv, Keeps, TypeOK, Busy, Confirmed
<1>10. ASSUME NEW l \in Launches, PollWrite(l) PROVE ConnInv'
  BY <1>10, StepKeeps DEF PollWrite, daemon, conns, launch, log, Inv, ConnInv, Keeps, TypeOK, Busy, Confirmed
<1>11. ASSUME NEW l \in Launches, NEW e \in Exchanges, Admit(l, e) PROVE ConnInv'
  BY <1>11, StepKeeps DEF Admit, ExchangeStep, daemon, conns, launch, log, Inv, ConnInv, Keeps, TypeOK, Busy, Confirmed
<1>12. ASSUME NEW l \in Launches, NEW e \in Exchanges, Enter(l, e) PROVE ConnInv'
  BY <1>12, StepKeeps DEF Enter, ExchangeStep, daemon, conns, launch, log, Inv, ConnInv, Keeps, TypeOK, Busy, Confirmed
<1>25. ASSUME NEW l \in Launches, NEW e \in Exchanges, LastCheck(l, e) PROVE ConnInv'
  BY <1>25, StepKeeps DEF LastCheck, ExchangeStep, daemon, conns, launch, log, Inv, ConnInv, Keeps, TypeOK, Busy, Confirmed
<1>13. ASSUME NEW l \in Launches, NEW e \in Exchanges, Inject(l, e) PROVE ConnInv'
  BY <1>13, StepKeeps DEF Inject, ExchangeStep, daemon, conns, launch, log, Inv, ConnInv, Keeps, TypeOK, Busy, Confirmed
<1>14. ASSUME NEW l \in Launches, NEW e \in Exchanges, Leave(l, e) PROVE ConnInv'
  BY <1>14, StepKeeps DEF Leave, ExchangeStep, daemon, conns, launch, log, Inv, ConnInv, Keeps, TypeOK, Busy, Confirmed
<1>15. CASE Sweep
  BY <1>15, StepKeeps DEF Sweep, daemon, conns, launch, log, Inv, ConnInv, Keeps, TypeOK, Busy, Confirmed
<1>16. CASE SetPaused
  BY <1>16, StepKeeps DEF SetPaused, daemon, conns, launch, log, Inv, ConnInv, Keeps, TypeOK, Busy, Confirmed
<1>17. ASSUME NEW c \in Clients, NEW l \in Launches, BeginUnknown(c, l) PROVE ConnInv'
  <2>1. grant[l] # "none" /\ target[c] = None /\ waits[c] = None
    BY <1>17 DEF BeginUnknown, Inv, GrantInv, ConnInv, Busy
  <2>2. target' = [target EXCEPT ![c] = l] /\ caller' = [caller EXCEPT ![c] = "answered"]
        /\ UNCHANGED <<grant, id, waits>> /\ \A k \in Clients \ {c} : got'[k] = got[k]
    BY <1>17 DEF BeginUnknown, daemon, Inv, TypeOK
  <2>3. \A k \in Clients : waits[k] # c
    BY <2>1, RevokeAssumption DEF Inv, ConnInv
  <2>4. ASSUME NEW k \in Clients, k # c PROVE target'[k] = target[k] /\ caller'[k] = caller[k]
    BY <2>2, <2>4 DEF Inv, TypeOK
  <2>5. target'[c] = l /\ caller'[c] = "answered"
    BY <2>2 DEF Inv, TypeOK
  <2>6. id[l] # 0 /\ l # None
    BY <2>1, RevokeAssumption DEF Inv, GrantInv
  <2> QED
    BY <2>1, <2>2, <2>3, <2>4, <2>5, <2>6 DEF Inv, TypeOK, ConnInv, Busy
<1>18. ASSUME NEW c \in Clients, NEW l \in Launches, Begin(c, l) PROVE ConnInv'
  <2>1. grant[l] # "none" /\ id[l] \in Ids /\ id[l] # 0 /\ l # None
    BY <1>18, RevokeAssumption DEF Begin, Live, Inv, GrantInv, TypeOK
  <2>2. target[c] = None /\ waits[c] = None
    BY <1>18 DEF Begin, Inv, ConnInv, Busy
  <2>3. /\ UNCHANGED <<id, got>> /\ \A k \in Launches : grant[k] # "none" => grant'[k] # "none"
        /\ \A k \in Clients : target'[k] = IF k = c THEN l ELSE target[k]
    BY <1>18 DEF Begin, Inv, TypeOK
  <2>4. \A k \in Clients \ {c} : caller'[k] = caller[k] /\ waits'[k] = waits[k]
    BY <1>18 DEF Begin, Inv, TypeOK
  <2>5. \A k \in Clients : waits[k] # c
    BY <2>2, RevokeAssumption DEF Inv, ConnInv
  <2>6. /\ caller'[c] \in {"leading", "joined"}
        /\ waits'[c] # None /\ target'[waits'[c]] # None /\ id[target'[waits'[c]]] = id[l]
    <3>1. CASE slot[id[l]] = None
      BY <1>18, <2>1, <2>3, <3>1, RevokeAssumption DEF Begin, Inv, TypeOK
    <3>2. CASE slot[id[l]] # None
      BY <1>18, <2>1, <2>2, <2>3, <3>2 DEF Begin, Inv, TypeOK, SlotInv
    <3> QED
      BY <3>1, <3>2
  <2>7. ASSUME NEW k \in Clients, k # c, waits[k] # None
        PROVE  target'[waits[k]] = target[waits[k]]
    BY <2>3, <2>5, <2>7 DEF Inv, TypeOK
  <2> QED
    BY <2>1, <2>2, <2>3, <2>4, <2>6, <2>7 DEF Inv, TypeOK, ConnInv, Busy
<1>19. ASSUME NEW c \in Clients, AskEgress(c) PROVE ConnInv'
  BY <1>19, StepKeeps DEF AskEgress, daemon, conns, launch, log, Inv, ConnInv, Keeps, TypeOK, Busy, Confirmed
<1>20. ASSUME NEW c \in Clients, WaitForAck(c) PROVE ConnInv'
  BY <1>20, StepKeeps DEF WaitForAck, daemon, conns, launch, log, Inv, ConnInv, Keeps, TypeOK, Busy, Confirmed
<1>21. ASSUME NEW c \in Clients, Clear(c) PROVE ConnInv'
  BY <1>21, StepKeeps DEF Clear, daemon, conns, launch, log, Inv, ConnInv, Keeps, TypeOK, Busy, Confirmed
<1>22. ASSUME NEW c \in Clients, JoinWait(c) PROVE ConnInv'
  BY <1>22, StepKeeps DEF JoinWait, daemon, conns, launch, log, Inv, ConnInv, Keeps, TypeOK, Busy, Confirmed
<1>23. ASSUME NEW c \in Clients, Conclude(c) PROVE ConnInv'
  BY <1>23, StepKeeps DEF Conclude, daemon, conns, launch, log, Inv, ConnInv, Keeps, TypeOK, Busy, Confirmed
<1>24. CASE DaemonRestart
  BY <1>24, StepKeeps DEF DaemonRestart, daemon, conns, launch, log, Inv, ConnInv, Keeps, TypeOK, Busy, Confirmed
<1> QED
  BY <1>1, <1>2, <1>3, <1>4, <1>5, <1>6, <1>7, <1>8, <1>9, <1>10, <1>11, <1>12, <1>13, <1>14, <1>15, <1>16, <1>17, <1>18, <1>19, <1>20, <1>21, <1>22, <1>23, <1>24, <1>25 DEF Next, Poll

\* A slot is led by a connection that revokes its id.
LEMMA SlotStep == Inv /\ [Next]_vars => SlotInv'
<1> SUFFICES ASSUME Inv, [Next]_vars PROVE SlotInv'
  OBVIOUS
<1>1. CASE UNCHANGED vars
  BY <1>1 DEF vars, daemon, conns, launch, log, Inv, SlotInv
<1>2. ASSUME NEW l \in Launches, Grant(l) PROVE SlotInv'
  BY <1>2, StepKeeps DEF Grant, daemon, conns, launch, log, Inv, SlotInv, ConnInv, Keeps, TypeOK
<1>3. ASSUME NEW l \in Launches, RetireLaunch(l) PROVE SlotInv'
  BY <1>3, StepKeeps DEF RetireLaunch, daemon, conns, launch, log, Inv, SlotInv, ConnInv, Keeps, TypeOK
<1>4. ASSUME NEW l \in Launches, EgressStart(l) PROVE SlotInv'
  BY <1>4, StepKeeps DEF EgressStart, daemon, conns, launch, log, Inv, SlotInv, ConnInv, Keeps, TypeOK
<1>5. ASSUME NEW l \in Launches, EgressStop(l) PROVE SlotInv'
  BY <1>5, StepKeeps DEF EgressStop, daemon, conns, launch, log, Inv, SlotInv, ConnInv, Keeps, TypeOK
<1>6. ASSUME NEW l \in Launches, Lapse(l) PROVE SlotInv'
  BY <1>6, StepKeeps DEF Lapse, daemon, conns, launch, log, Inv, SlotInv, ConnInv, Keeps, TypeOK
<1>7. ASSUME NEW l \in Launches, PollSee(l) PROVE SlotInv'
  BY <1>7, StepKeeps DEF PollSee, daemon, conns, launch, log, Inv, SlotInv, ConnInv, Keeps, TypeOK
<1>8. ASSUME NEW l \in Launches, PollRevoke(l) PROVE SlotInv'
  BY <1>8, StepKeeps DEF PollRevoke, daemon, conns, launch, log, Inv, SlotInv, ConnInv, Keeps, TypeOK
<1>9. ASSUME NEW l \in Launches, PollOpen(l) PROVE SlotInv'
  BY <1>9, StepKeeps DEF PollOpen, daemon, conns, launch, log, Inv, SlotInv, ConnInv, Keeps, TypeOK
<1>10. ASSUME NEW l \in Launches, PollWrite(l) PROVE SlotInv'
  BY <1>10, StepKeeps DEF PollWrite, daemon, conns, launch, log, Inv, SlotInv, ConnInv, Keeps, TypeOK
<1>11. ASSUME NEW l \in Launches, NEW e \in Exchanges, Admit(l, e) PROVE SlotInv'
  BY <1>11, StepKeeps DEF Admit, ExchangeStep, daemon, conns, launch, log, Inv, SlotInv, ConnInv, Keeps, TypeOK
<1>12. ASSUME NEW l \in Launches, NEW e \in Exchanges, Enter(l, e) PROVE SlotInv'
  BY <1>12, StepKeeps DEF Enter, ExchangeStep, daemon, conns, launch, log, Inv, SlotInv, ConnInv, Keeps, TypeOK
<1>25. ASSUME NEW l \in Launches, NEW e \in Exchanges, LastCheck(l, e) PROVE SlotInv'
  BY <1>25, StepKeeps DEF LastCheck, ExchangeStep, daemon, conns, launch, log, Inv, SlotInv, ConnInv, Keeps, TypeOK
<1>13. ASSUME NEW l \in Launches, NEW e \in Exchanges, Inject(l, e) PROVE SlotInv'
  BY <1>13, StepKeeps DEF Inject, ExchangeStep, daemon, conns, launch, log, Inv, SlotInv, ConnInv, Keeps, TypeOK
<1>14. ASSUME NEW l \in Launches, NEW e \in Exchanges, Leave(l, e) PROVE SlotInv'
  BY <1>14, StepKeeps DEF Leave, ExchangeStep, daemon, conns, launch, log, Inv, SlotInv, ConnInv, Keeps, TypeOK
<1>15. CASE Sweep
  BY <1>15, StepKeeps DEF Sweep, daemon, conns, launch, log, Inv, SlotInv, ConnInv, Keeps, TypeOK
<1>16. CASE SetPaused
  BY <1>16, StepKeeps DEF SetPaused, daemon, conns, launch, log, Inv, SlotInv, ConnInv, Keeps, TypeOK
<1>17. ASSUME NEW c \in Clients, NEW l \in Launches, BeginUnknown(c, l) PROVE SlotInv'
  BY <1>17, StepKeeps DEF BeginUnknown, daemon, conns, launch, log, Inv, SlotInv, ConnInv, Keeps, TypeOK
<1>18. ASSUME NEW c \in Clients, NEW l \in Launches, Begin(c, l) PROVE SlotInv'
  <2>1. id[l] \in Ids /\ l # None /\ target[c] = None
    BY <1>18, RevokeAssumption DEF Begin, Live, Inv, GrantInv, TypeOK, ConnInv
  <2>2. UNCHANGED id /\ \A k \in Clients : target'[k] = IF k = c THEN l ELSE target[k]
    BY <1>18 DEF Begin, Inv, TypeOK
  <2>3. \A i \in Ids : slot'[i] = slot[i] \/ (i = id[l] /\ slot'[i] = c)
    BY <1>18, <2>1 DEF Begin, Inv, TypeOK
  <2> QED
    BY <2>1, <2>2, <2>3 DEF Inv, SlotInv, TypeOK
<1>19. ASSUME NEW c \in Clients, AskEgress(c) PROVE SlotInv'
  BY <1>19, StepKeeps DEF AskEgress, daemon, conns, launch, log, Inv, SlotInv, ConnInv, Keeps, TypeOK
<1>20. ASSUME NEW c \in Clients, WaitForAck(c) PROVE SlotInv'
  BY <1>20, StepKeeps DEF WaitForAck, daemon, conns, launch, log, Inv, SlotInv, ConnInv, Keeps, TypeOK
<1>21. ASSUME NEW c \in Clients, Clear(c) PROVE SlotInv'
  BY <1>21, StepKeeps DEF Clear, daemon, conns, launch, log, Inv, SlotInv, ConnInv, Keeps, TypeOK
<1>22. ASSUME NEW c \in Clients, JoinWait(c) PROVE SlotInv'
  BY <1>22, StepKeeps DEF JoinWait, daemon, conns, launch, log, Inv, SlotInv, ConnInv, Keeps, TypeOK
<1>23. ASSUME NEW c \in Clients, Conclude(c) PROVE SlotInv'
  BY <1>23, StepKeeps DEF Conclude, daemon, conns, launch, log, Inv, SlotInv, ConnInv, Keeps, TypeOK
<1>24. CASE DaemonRestart
  BY <1>24, StepKeeps DEF DaemonRestart, daemon, conns, launch, log, Inv, SlotInv, ConnInv, Keeps, TypeOK
<1> QED
  BY <1>1, <1>2, <1>3, <1>4, <1>5, <1>6, <1>7, <1>8, <1>9, <1>10, <1>11, <1>12, <1>13, <1>14, <1>15, <1>16, <1>17, <1>18, <1>19, <1>20, <1>21, <1>22, <1>23, <1>24, <1>25 DEF Next, Poll

\* No outcome travels without its evidence.
LEMMA EvidenceStep == Inv /\ [Next]_vars => EvidenceInv'
<1> SUFFICES ASSUME Inv, [Next]_vars PROVE EvidenceInv'
  OBVIOUS
<1>a. Keeps
  BY StepKeeps
<1>b. \A i \in Ids, o \in Confirmed : Shown(i, o) => Shown(i, o)'
  BY <1>a, ShownStays
<1>c. \A c \in Clients : target[c] # None =>
        target[c] \in Launches /\ id[target[c]] \in Ids /\ id'[target[c]] = id[target[c]]
  BY <1>a DEF Keeps, Inv, ConnInv, TypeOK
<1>d. ASSUME UNCHANGED <<found, marker, got, published, target>> PROVE EvidenceInv'
  BY <1>a, <1>b, <1>c, <1>d DEF Keeps, Inv, EvidenceInv, TypeOK
<1>1. CASE UNCHANGED vars
  BY <1>1 DEF vars, daemon, conns, launch, log, Inv, EvidenceInv, Shown, Quiet
<1>2. ASSUME NEW l \in Launches, Grant(l) PROVE EvidenceInv'
  BY <1>2, <1>d DEF Grant, daemon, conns, launch
<1>3. ASSUME NEW l \in Launches, RetireLaunch(l) PROVE EvidenceInv'
  BY <1>3, <1>d DEF RetireLaunch, daemon, conns, launch
<1>4. ASSUME NEW l \in Launches, EgressStart(l) PROVE EvidenceInv'
  BY <1>4, <1>d DEF EgressStart, daemon, conns, launch
<1>5. ASSUME NEW l \in Launches, EgressStop(l) PROVE EvidenceInv'
  <2>1. \A m \in Launches : found'[m] = found[m] \/ found'[m] = None
    BY <1>5 DEF EgressStop, Inv, TypeOK
  <2>2. UNCHANGED <<marker, got, published, target>>
    BY <1>5 DEF EgressStop, daemon, conns
  <2> QED
    BY <1>a, <1>b, <1>c, <2>1, <2>2 DEF Keeps, Inv, EvidenceInv, TypeOK
<1>6. ASSUME NEW l \in Launches, Lapse(l) PROVE EvidenceInv'
  BY <1>6, <1>d DEF Lapse, daemon, conns, launch
<1>7. ASSUME NEW l \in Launches, PollSee(l) PROVE EvidenceInv'
  BY <1>7, <1>d DEF PollSee, daemon, conns, launch
<1>8. ASSUME NEW l \in Launches, PollRevoke(l) PROVE EvidenceInv'
  <2>1. revoked'[l] /\ (found'[l] = "withdrawn" => Quiet(l)')
    BY <1>8 DEF PollRevoke, Withdraws, Counted, Quiet, Inv, TypeOK
  <2>2. \A m \in Launches \ {l} : found'[m] = found[m]
    BY <1>8 DEF PollRevoke, Inv, TypeOK
  <2>3. UNCHANGED <<marker, got, published, target>>
    BY <1>8 DEF PollRevoke, daemon, conns
  <2> QED
    BY <1>a, <1>b, <1>c, <2>1, <2>2, <2>3 DEF Keeps, Inv, EvidenceInv, TypeOK, Confirmed
<1>9. ASSUME NEW l \in Launches, PollOpen(l) PROVE EvidenceInv'
  <2>1. \A i \in Ids : marker'[i] = marker[i] \/ marker'[i] = "empty"
    BY <1>9 DEF PollOpen, Inv, TypeOK
  <2>2. UNCHANGED <<found, got, published, target>>
    BY <1>9 DEF PollOpen, daemon, conns
  <2> QED
    BY <1>a, <1>b, <1>c, <2>1, <2>2 DEF Keeps, Inv, EvidenceInv, TypeOK, Confirmed
<1>10. ASSUME NEW l \in Launches, PollWrite(l) PROVE EvidenceInv'
  <2>1. \A i \in Ids : marker'[i] = marker[i] \/ (i = id[l] /\ marker'[i] = found[l] /\ found[l] # None)
    BY <1>10 DEF PollWrite, Inv, TypeOK
  <2>2. found[l] # None => Shown(id[l], found[l])
    BY DEF Inv, EvidenceInv, Shown
  <2>3. /\ \A m \in Launches : found'[m] = found[m] \/ found'[m] = None
        /\ UNCHANGED <<got, published, target>>
    BY <1>10 DEF PollWrite, daemon, conns, Inv, TypeOK
  <2> QED
    BY <1>a, <1>b, <1>c, <2>1, <2>2, <2>3 DEF Keeps, Inv, EvidenceInv, TypeOK
<1>11. ASSUME NEW l \in Launches, NEW e \in Exchanges, Admit(l, e) PROVE EvidenceInv'
  BY <1>11, <1>d DEF Admit, ExchangeStep, daemon, conns, launch
<1>12. ASSUME NEW l \in Launches, NEW e \in Exchanges, Enter(l, e) PROVE EvidenceInv'
  BY <1>12, <1>d DEF Enter, ExchangeStep, daemon, conns, launch
<1>25. ASSUME NEW l \in Launches, NEW e \in Exchanges, LastCheck(l, e) PROVE EvidenceInv'
  BY <1>25, <1>d DEF LastCheck, ExchangeStep, daemon, conns, launch
<1>13. ASSUME NEW l \in Launches, NEW e \in Exchanges, Inject(l, e) PROVE EvidenceInv'
  BY <1>13, <1>d DEF Inject, ExchangeStep, daemon, conns, launch
<1>14. ASSUME NEW l \in Launches, NEW e \in Exchanges, Leave(l, e) PROVE EvidenceInv'
  BY <1>14, <1>d DEF Leave, ExchangeStep, daemon, conns, launch
<1>15. CASE Sweep
  BY <1>15, <1>d DEF Sweep, daemon, conns, launch
<1>16. CASE SetPaused
  BY <1>16, <1>d DEF SetPaused, daemon, conns, launch
<1>17. ASSUME NEW c \in Clients, NEW l \in Launches, BeginUnknown(c, l) PROVE EvidenceInv'
  <2>1. target[c] = None /\ got'[c] \notin Confirmed /\ published[c] \notin Confirmed
    BY <1>17, NoneAssumption DEF BeginUnknown, Inv, TypeOK, ConnInv, EvidenceInv, Confirmed
  <2>2. \A k \in Clients \ {c} : target'[k] = target[k] /\ got'[k] = got[k]
    BY <1>17 DEF BeginUnknown, Inv, TypeOK
  <2>3. UNCHANGED <<found, marker, published>>
    BY <1>17 DEF BeginUnknown, daemon, launch
  <2>4. ASSUME NEW k \in Clients
        PROVE  /\ got'[k] \in Confirmed => (target[k] # None /\ Shown(id[target[k]], got[k]))'
               /\ published'[k] \in Confirmed =>
                    (target[k] # None /\ Shown(id[target[k]], published[k]))'
    <3>1. CASE k = c
      BY <2>1, <2>3, <3>1
    <3>2. CASE k # c
      BY <1>b, <1>c, <2>2, <2>3, <3>2 DEF Inv, EvidenceInv
    <3> QED
      BY <3>1, <3>2
  <2>5. \A m \in Launches : found'[m] # None => revoked'[m] /\ (found'[m] = "withdrawn" => Quiet(m)')
    BY <1>a, <2>3 DEF Keeps, Inv, EvidenceInv
  <2>6. \A i \in Ids : marker'[i] \in Confirmed => Shown(i, marker[i])'
    BY <1>b, <2>3 DEF Inv, EvidenceInv
  <2> QED
    BY <2>4, <2>5, <2>6 DEF EvidenceInv
<1>18. ASSUME NEW c \in Clients, NEW l \in Launches, Begin(c, l) PROVE EvidenceInv'
  <2>1. target[c] = None /\ got'[c] \notin Confirmed /\ published[c] \notin Confirmed
    BY <1>18, NoneAssumption DEF Begin, Inv, TypeOK, ConnInv, EvidenceInv, Confirmed
  <2>2. \A k \in Clients \ {c} : target'[k] = target[k] /\ got'[k] = got[k]
    BY <1>18 DEF Begin, Inv, TypeOK
  <2>3. UNCHANGED <<found, marker, published>>
    BY <1>18 DEF Begin, daemon, launch
  <2>4. ASSUME NEW k \in Clients
        PROVE  /\ got'[k] \in Confirmed => (target[k] # None /\ Shown(id[target[k]], got[k]))'
               /\ published'[k] \in Confirmed =>
                    (target[k] # None /\ Shown(id[target[k]], published[k]))'
    <3>1. CASE k = c
      BY <2>1, <2>3, <3>1
    <3>2. CASE k # c
      BY <1>b, <1>c, <2>2, <2>3, <3>2 DEF Inv, EvidenceInv
    <3> QED
      BY <3>1, <3>2
  <2>5. \A m \in Launches : found'[m] # None => revoked'[m] /\ (found'[m] = "withdrawn" => Quiet(m)')
    BY <1>a, <2>3 DEF Keeps, Inv, EvidenceInv
  <2>6. \A i \in Ids : marker'[i] \in Confirmed => Shown(i, marker[i])'
    BY <1>b, <2>3 DEF Inv, EvidenceInv
  <2> QED
    BY <2>4, <2>5, <2>6 DEF EvidenceInv
<1>19. ASSUME NEW c \in Clients, AskEgress(c) PROVE EvidenceInv'
  <2>1. \A i \in Ids : marker'[i] = marker[i] \/ marker'[i] = "empty"
    BY <1>19 DEF AskEgress, RequestedMarker, Inv, TypeOK
  <2>2. /\ UNCHANGED <<found, published, target>>
        /\ \A k \in Clients : got'[k] = got[k] \/ got'[k] = "unconfirmed"
    BY <1>19 DEF AskEgress, daemon, launch, Inv, TypeOK
  <2> QED
    BY <1>a, <1>b, <1>c, <2>1, <2>2 DEF Keeps, Inv, EvidenceInv, TypeOK, Confirmed
<1>20. ASSUME NEW c \in Clients, WaitForAck(c) PROVE EvidenceInv'
  <2>1. target[c] # None /\ id[target[c]] \in Ids
    BY <1>20, AskedId, RevokeAssumption DEF WaitForAck, Busy
  <2>2. \A k \in Clients : \/ got'[k] = got[k] \/ got'[k] = "unconfirmed"
                           \/ k = c /\ got'[k] = marker[id[target[c]]]
    BY <1>20 DEF WaitForAck, Acked, Inv, TypeOK
  <2>3. UNCHANGED <<found, marker, published, target>>
    BY <1>20 DEF WaitForAck, daemon, launch
  <2> QED
    BY <1>a, <1>b, <1>c, <2>1, <2>2, <2>3 DEF Keeps, Inv, EvidenceInv, TypeOK, Confirmed
<1>21. ASSUME NEW c \in Clients, Clear(c) PROVE EvidenceInv'
  <2>1. \A i \in Ids : marker'[i] = marker[i] \/ marker'[i] = "none"
    BY <1>21 DEF Clear, Inv, TypeOK
  <2>2. /\ \A m \in Launches : found'[m] = found[m] \/ found'[m] = None
        /\ UNCHANGED <<got, published, target>>
    BY <1>21 DEF Clear, daemon, Inv, TypeOK
  <2> QED
    BY <1>a, <1>b, <1>c, <2>1, <2>2 DEF Keeps, Inv, EvidenceInv, TypeOK, Confirmed
<1>22. ASSUME NEW c \in Clients, JoinWait(c) PROVE EvidenceInv'
  <2>1. \A k \in Clients : /\ got'[k] = got[k] \/ got'[k] = "unconfirmed" \/ got'[k] = published[k]
                           /\ published'[k] = published[k] \/ published'[k] = None
    BY <1>22 DEF JoinWait, Inv, TypeOK
  <2>2. UNCHANGED <<found, marker, target>>
    BY <1>22 DEF JoinWait, launch
  <2> QED
    BY <1>a, <1>b, <1>c, <2>1, <2>2, NoneAssumption DEF Keeps, Inv, EvidenceInv, TypeOK, Confirmed
<1>23. ASSUME NEW c \in Clients, Conclude(c) PROVE EvidenceInv'
  <2>1. UNCHANGED <<found, marker, got, target>>
    BY <1>23 DEF Conclude, launch
  <2>2. ASSUME NEW k \in Clients, published'[k] \in Confirmed, published'[k] # published[k]
        PROVE  target[k] # None /\ Shown(id[target[k]], published'[k])
    <3>1. waits[k] = c /\ published'[k] = got[c]
      BY <1>23, <2>2 DEF Conclude, Inv, TypeOK
    <3>2. target[k] # None /\ id[target[k]] = id[target[c]]
      BY <3>1, RevokeAssumption DEF Inv, ConnInv, Busy
    <3> QED
      BY <2>2, <3>1, <3>2 DEF Inv, EvidenceInv
  <2>3. \A k \in Clients : published'[k] \in Confirmed =>
          (target[k] # None /\ Shown(id[target[k]], published[k]))'
    BY <1>b, <1>c, <2>1, <2>2 DEF Inv, EvidenceInv
  <2> QED
    BY <1>a, <1>b, <1>c, <2>1, <2>3 DEF Keeps, Inv, EvidenceInv, TypeOK
<1>24. CASE DaemonRestart
  <2>1. \A k \in Clients : /\ published'[k] = None
                           /\ got'[k] = None \/ (got'[k] = got[k] /\ target'[k] = target[k])
    BY <1>24 DEF DaemonRestart, Inv, TypeOK
  <2>2. UNCHANGED <<found, marker>>
    BY <1>24 DEF DaemonRestart, launch
  <2> QED
    BY <1>a, <1>b, <1>c, <2>1, <2>2, NoneAssumption DEF Keeps, Inv, EvidenceInv, TypeOK, Confirmed
<1> QED
  BY <1>1, <1>2, <1>3, <1>4, <1>5, <1>6, <1>7, <1>8, <1>9, <1>10, <1>11, <1>12, <1>13, <1>14, <1>15, <1>16, <1>17, <1>18, <1>19, <1>20, <1>21, <1>22, <1>23, <1>24, <1>25 DEF Next, Poll

LEMMA InvHolds == Spec => []Inv
<1>1. Inv /\ [Next]_vars => Inv'
  BY TypeStep, GrantStep, ConnStep, SlotStep, EvidenceStep DEF Inv
<1> QED
  BY InitInv, <1>1, PTL DEF Spec

\* A revocation is recorded where the grant ends, and nowhere else.
LEMMA RecordStep == Inv /\ RecordInv /\ [Next]_vars => RecordInv'
<1> SUFFICES ASSUME Inv, RecordInv, [Next]_vars PROVE RecordInv'
  OBVIOUS
<1>r. \A k \in Clients : got[k] \in Confirmed => target[k] \in Launches
  BY DEF Inv, EvidenceInv, TypeOK
<1>s. ASSUME UNCHANGED <<records, lost>>,
             \A k \in Launches : /\ grant'[k] = "revoked" <=> grant[k] = "revoked"
                                 /\ grant[k] \in Past => grant'[k] \in Past,
             \A k \in Clients : caller'[k] = "answered" /\ got'[k] \in Confirmed =>
                caller[k] = "answered" /\ got[k] = got'[k] /\ target'[k] = target[k]
      PROVE  RecordInv'
  BY <1>r, <1>s DEF RecordInv
<1>1. CASE UNCHANGED vars
  BY <1>1 DEF vars, daemon, conns, launch, log, RecordInv
<1>2. ASSUME NEW l \in Launches, Grant(l) PROVE RecordInv'
  BY <1>2 DEF Grant, daemon, conns, launch, log, Inv, RecordInv, TypeOK, Live, Past
<1>3. ASSUME NEW l \in Launches, RetireLaunch(l) PROVE RecordInv'
  BY <1>3 DEF RetireLaunch, daemon, conns, launch, log, Inv, RecordInv, TypeOK, Live, Past
<1>4. ASSUME NEW l \in Launches, EgressStart(l) PROVE RecordInv'
  BY <1>4 DEF EgressStart, daemon, conns, launch, log, Inv, RecordInv, TypeOK, Live, Past
<1>5. ASSUME NEW l \in Launches, EgressStop(l) PROVE RecordInv'
  BY <1>5 DEF EgressStop, daemon, conns, launch, log, Inv, RecordInv, TypeOK, Live, Past
<1>6. ASSUME NEW l \in Launches, Lapse(l) PROVE RecordInv'
  BY <1>6 DEF Lapse, daemon, conns, launch, log, Inv, RecordInv, TypeOK, Live, Past
<1>7. ASSUME NEW l \in Launches, PollSee(l) PROVE RecordInv'
  BY <1>7 DEF PollSee, daemon, conns, launch, log, Inv, RecordInv, TypeOK, Live, Past
<1>8. ASSUME NEW l \in Launches, PollRevoke(l) PROVE RecordInv'
  BY <1>8 DEF PollRevoke, daemon, conns, launch, log, Inv, RecordInv, TypeOK, Live, Past
<1>9. ASSUME NEW l \in Launches, PollOpen(l) PROVE RecordInv'
  BY <1>9 DEF PollOpen, daemon, conns, launch, log, Inv, RecordInv, TypeOK, Live, Past
<1>10. ASSUME NEW l \in Launches, PollWrite(l) PROVE RecordInv'
  BY <1>10 DEF PollWrite, daemon, conns, launch, log, Inv, RecordInv, TypeOK, Live, Past
<1>11. ASSUME NEW l \in Launches, NEW e \in Exchanges, Admit(l, e) PROVE RecordInv'
  BY <1>11 DEF Admit, ExchangeStep, daemon, conns, launch, log, Inv, RecordInv, TypeOK, Live, Past
<1>12. ASSUME NEW l \in Launches, NEW e \in Exchanges, Enter(l, e) PROVE RecordInv'
  BY <1>12 DEF Enter, ExchangeStep, daemon, conns, launch, log, Inv, RecordInv, TypeOK, Live, Past
<1>25. ASSUME NEW l \in Launches, NEW e \in Exchanges, LastCheck(l, e) PROVE RecordInv'
  BY <1>25 DEF LastCheck, ExchangeStep, daemon, conns, launch, log, Inv, RecordInv, TypeOK, Live, Past
<1>13. ASSUME NEW l \in Launches, NEW e \in Exchanges, Inject(l, e) PROVE RecordInv'
  BY <1>13 DEF Inject, ExchangeStep, daemon, conns, launch, log, Inv, RecordInv, TypeOK, Live, Past
<1>14. ASSUME NEW l \in Launches, NEW e \in Exchanges, Leave(l, e) PROVE RecordInv'
  BY <1>14 DEF Leave, ExchangeStep, daemon, conns, launch, log, Inv, RecordInv, TypeOK, Live, Past
<1>15. CASE Sweep
  <2>1. UNCHANGED <<records, lost>>
    BY <1>15 DEF Sweep, log
  <2>2. \A k \in Launches : /\ grant'[k] = "revoked" <=> grant[k] = "revoked"
                            /\ grant[k] \in Past => grant'[k] \in Past
    BY <1>15 DEF Sweep, daemon, Inv, TypeOK, Live, Past
  <2>3. \A k \in Clients : caller'[k] = "answered" /\ got'[k] \in Confirmed =>
          caller[k] = "answered" /\ got[k] = got'[k] /\ target'[k] = target[k]
    BY <1>15, NoneAssumption DEF Sweep, conns, Inv, TypeOK, Confirmed
  <2> QED
    BY <1>s, <2>1, <2>2, <2>3
<1>16. CASE SetPaused
  <2>1. UNCHANGED <<records, lost>>
    BY <1>16 DEF SetPaused, log
  <2>2. \A k \in Launches : /\ grant'[k] = "revoked" <=> grant[k] = "revoked"
                            /\ grant[k] \in Past => grant'[k] \in Past
    BY <1>16 DEF SetPaused, daemon, Inv, TypeOK, Live, Past
  <2>3. \A k \in Clients : caller'[k] = "answered" /\ got'[k] \in Confirmed =>
          caller[k] = "answered" /\ got[k] = got'[k] /\ target'[k] = target[k]
    BY <1>16, NoneAssumption DEF SetPaused, conns, Inv, TypeOK, Confirmed
  <2> QED
    BY <1>s, <2>1, <2>2, <2>3
<1>17. ASSUME NEW c \in Clients, NEW l \in Launches, BeginUnknown(c, l) PROVE RecordInv'
  <2>1. UNCHANGED <<records, lost>>
    BY <1>17 DEF BeginUnknown, log
  <2>2. \A k \in Launches : /\ grant'[k] = "revoked" <=> grant[k] = "revoked"
                            /\ grant[k] \in Past => grant'[k] \in Past
    BY <1>17 DEF BeginUnknown, daemon, Inv, TypeOK, Live, Past
  <2>3. \A k \in Clients : caller'[k] = "answered" /\ got'[k] \in Confirmed =>
          caller[k] = "answered" /\ got[k] = got'[k] /\ target'[k] = target[k]
    BY <1>17, NoneAssumption DEF BeginUnknown, conns, Inv, TypeOK, Confirmed
  <2> QED
    BY <1>s, <2>1, <2>2, <2>3
<1>18. ASSUME NEW c \in Clients, NEW l \in Launches, Begin(c, l) PROVE RecordInv'
  BY <1>18 DEF Begin, daemon, conns, launch, log, Inv, RecordInv, TypeOK, Live, Past
<1>19. ASSUME NEW c \in Clients, AskEgress(c) PROVE RecordInv'
  BY <1>19 DEF AskEgress, daemon, conns, launch, log, Inv, RecordInv, TypeOK, Live, Past
<1>20. ASSUME NEW c \in Clients, WaitForAck(c) PROVE RecordInv'
  BY <1>20 DEF WaitForAck, daemon, conns, launch, log, Inv, RecordInv, TypeOK, Live, Past
<1>21. ASSUME NEW c \in Clients, Clear(c) PROVE RecordInv'
  BY <1>21 DEF Clear, daemon, conns, launch, log, Inv, RecordInv, TypeOK, Live, Past
<1>22. ASSUME NEW c \in Clients, JoinWait(c) PROVE RecordInv'
  BY <1>22 DEF JoinWait, daemon, conns, launch, log, Inv, RecordInv, TypeOK, Live, Past
<1>23. ASSUME NEW c \in Clients, Conclude(c) PROVE RecordInv'
  <2>1. target[c] \in Launches /\ grant[target[c]] \in Live \cup Past
    BY <1>23, AskedId DEF Conclude, Busy, Inv, TypeOK, ConnInv
  <2>2. /\ \A k \in Launches \ {target[c]} :
             grant'[k] = grant[k] /\ records'[k] = records[k] /\ (k \in lost' <=> k \in lost)
        /\ UNCHANGED <<got, target>> /\ \A k \in Clients \ {c} : caller'[k] = caller[k]
    BY <1>23, <2>1 DEF Conclude, Inv, TypeOK
  <2>3. CASE ~(Performs(target[c]) /\ got[c] \in Confirmed)
    <3>1. UNCHANGED <<records, lost>>
      BY <1>23, <2>3 DEF Conclude
    <3>2. /\ grant'[target[c]] = "revoked" <=> grant[target[c]] = "revoked"
          /\ grant[target[c]] \in Past => grant'[target[c]] \in Past
          /\ got[c] \in Confirmed => grant'[target[c]] \in Past
      BY <1>23, <2>1, <2>3 DEF Conclude, Performs, Inv, TypeOK, Live, Past
    <3> QED
      BY <1>r, <2>1, <2>2, <3>1, <3>2 DEF RecordInv
  <2>4. CASE Performs(target[c]) /\ got[c] \in Confirmed
    <3>1. grant[target[c]] \notin Past /\ grant'[target[c]] = "revoked" /\ "revoked" \in Past
      BY <1>23, <2>1, <2>4 DEF Conclude, Performs, Inv, TypeOK, Live, Past
    <3>2. target[c] \notin lost /\ records[target[c]] = 0
      BY <2>1, <3>1 DEF RecordInv
    <3>3. \/ records'[target[c]] = 1 /\ target[c] \notin lost'
          \/ records'[target[c]] = 0 /\ target[c] \in lost'
      BY <1>23, <2>1, <2>4, <3>2 DEF Conclude, Inv, TypeOK
    <3> QED
      BY <1>r, <2>1, <2>2, <3>1, <3>3 DEF RecordInv
  <2> QED
    BY <2>3, <2>4
<1>24. CASE DaemonRestart
  <2>1. UNCHANGED <<records, lost>>
    BY <1>24 DEF DaemonRestart, log
  <2>2. \A k \in Launches : /\ grant'[k] = "revoked" <=> grant[k] = "revoked"
                            /\ grant[k] \in Past => grant'[k] \in Past
    BY <1>24 DEF DaemonRestart, daemon, Inv, TypeOK, Live, Past
  <2>3. \A k \in Clients : caller'[k] = "answered" /\ got'[k] \in Confirmed =>
          caller[k] = "answered" /\ got[k] = got'[k] /\ target'[k] = target[k]
    BY <1>24, NoneAssumption DEF DaemonRestart, conns, Inv, TypeOK, Confirmed
  <2> QED
    BY <1>s, <2>1, <2>2, <2>3
<1> QED
  BY <1>1, <1>2, <1>3, <1>4, <1>5, <1>6, <1>7, <1>8, <1>9, <1>10, <1>11, <1>12, <1>13, <1>14, <1>15, <1>16, <1>17, <1>18, <1>19, <1>20, <1>21, <1>22, <1>23, <1>24, <1>25 DEF Next, Poll

-----------------------------------------------------------------------------
\* Every variable keeps its kind, whoever revokes, polls, ends or dies.
THEOREM TypeCorrect == Spec => []TypeOK
BY InvHolds, PTL DEF Inv

LEMMA OwnEvidence ==
  ASSUME Inv, NEW c \in Clients, NEW l \in Launches,
         target[c] = l, got[c] \in Confirmed, Alone(l)
  PROVE  revoked[l] /\ (got[c] = "withdrawn" => Quiet(l))
BY DEF Inv, EvidenceInv, Shown, Alone

\* A caller told `Withdrawn' can rely on it, for any number of launches, connections and
\* exchanges and however late the egress polls: revoke_bounded_inner, watch_revocations.
THEOREM WithdrawnMeansSilent == Spec => []WithdrawnIsSilent
<1>1. Inv => WithdrawnIsSilent
  BY OwnEvidence DEF WithdrawnIsSilent, Quiet, Carrying, Confirmed
<1> QED
  BY InvHolds, <1>1, PTL

\* Once any caller has a confirmed outcome no further exchange gets past its last check:
\* what was found is only written once the proxy refuses the credential, and a withdrawal
\* is never undone (proxy.rs serve_gateway, Handle::revoke_credential).
THEOREM NothingIsInjectedAfter == Spec => NothingNewInjected
<1>1. ASSUME Inv, [Next]_vars, NEW c \in Clients, NEW l \in Launches,
             target[c] = l, got[c] \in Confirmed, Alone(l)
      PROVE  Carrying(l)' \subseteq Carrying(l)
  BY <1>1, OwnEvidence, StepKeeps DEF Keeps, Carrying
<1>2. Inv /\ [Next]_vars =>
        [\A c \in Clients, l \in Launches :
           target[c] = l /\ got[c] \in Confirmed /\ Alone(l) =>
             Carrying(l)' \subseteq Carrying(l)]_vars
  BY <1>1
<1> QED
  BY InvHolds, <1>2, PTL DEF Spec, NothingNewInjected

\* One logical revoke makes one CredentialRevoked, however many connections lead and join.
THEOREM RevokedAtMostOnce == Spec => []RevokedOnce
<1>1. Init => RecordInv
  BY NoneAssumption DEF Init, RecordInv
<1>2. Inv /\ RecordInv => RevokedOnce
  BY DEF RecordInv, RevokedOnce
<1> QED
  BY InvHolds, RecordStep, <1>1, <1>2, PTL DEF Spec

=============================================================================
