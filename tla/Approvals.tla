------------------------------- MODULE Approvals -------------------------------
(***************************************************************************)
(* The daemon's hold on an agent's questions                                *)
(* (crates/ward-daemon/src/approvals.rs, and `hold' and                     *)
(* `close_pending_approvals' of daemon.rs): an agent's hook asks over a     *)
(* connection of its own; the question is recorded, waits for the user's    *)
(* answer or the end of its decision clock, is recorded again as decided,   *)
(* and the hook hears the decision.  A pause holds every clock.  A stop     *)
(* decides what is still open before it seals the log.                      *)
(*                                                                          *)
(* Two locks.  `Served' is the daemon's: asking, answering, pausing,        *)
(* recording a decision and the whole of a stop are made under it (`stop'   *)
(* says when a stop has it).  The approvals' own lock is all `wait' takes,  *)
(* so a waiter settles its question while a stop is closing it.             *)
(*                                                                          *)
(* Abstractions.  Every question asks the same tool for the same target, so *)
(* one allow-session answer covers all of them.  Times are ticks.  The      *)
(* credentials among the grants are CredentialRevoke's.  A daemon that dies *)
(* comes back with the log, the pause and nothing else.                     *)
(***************************************************************************)
EXTENDS Integers, Sequences, FiniteSets, SequencesExt

CONSTANTS
  Questions,    \* one per Request::Hold
  None,
  Timeout,      \* the decision time of a question, in ticks
  HistoryCap,   \* HISTORY_CAP
  MaxTrouble    \* bound: failed appends and daemon deaths explored

ASSUME ApprovalsAssumption ==
  /\ Timeout \in Nat \ {0} /\ HistoryCap \in Nat \ {0} /\ MaxTrouble \in Nat
  /\ None \notin Questions

\* ApprovalDecision (the hold tells an allow from a deny by nothing: both are
\* "once"), and the ways a question may end (Outcome).
Decisions == {"once", "allow-session"}
Outcomes == Decisions \cup {"timed-out", "closed", "covered"}
ASSUME NoneAssumption == None \notin Outcomes /\ None \notin 0..Timeout

VARIABLES
  \* State of the hold.
  held, answer, left, ran, remembered, closed, paused, history, handoff, unclaimed,
  \* The connections: where each is, and what its `wait' returned.
  conn, outcome,
  \* The stop that holds the Served lock, and the records it still has to append.
  stop, owed,
  \* The log: the requests and the decisions recorded of each question.
  requested, decided, sealed,
  \* History: what each hook was told, whose record was lost, the unpaused
  \* ticks a question was open for, and the faults met.
  told, lost, open, trouble

hold == <<held, answer, left, ran, remembered, closed, paused, history, handoff, unclaimed>>
conns == <<conn, outcome, told>>
log == <<requested, decided, sealed>>
vars == <<hold, conns, stop, owed, log, lost, open, trouble>>

Init ==
  /\ held = {} /\ history = <<>>
  /\ answer = [q \in Questions |-> None]
  /\ left = [q \in Questions |-> 0]
  /\ ran = [q \in Questions |-> None]
  /\ remembered = FALSE /\ closed = FALSE /\ paused = FALSE
  /\ handoff = [q \in Questions |-> None]
  /\ unclaimed = [q \in Questions |-> None]
  /\ conn = [q \in Questions |-> "new"]
  /\ outcome = [q \in Questions |-> None]
  /\ stop = "none" /\ owed = {}
  /\ requested = {} /\ sealed = FALSE
  /\ decided = [q \in Questions |-> <<>>]
  /\ told = [q \in Questions |-> None]
  /\ lost = {} /\ trouble = 0
  /\ open = [q \in Questions |-> 0]

--------------------------------------------------------------------------------
(* The decision clock *)

\* Clock::remaining: what was left when it last started, less what it has run.
Remaining(q) ==
  IF ran[q] = None THEN left[q] ELSE IF ran[q] > left[q] THEN 0 ELSE left[q] - ran[q]

\* Time passes; a running clock has run for one tick more.
Tick ==
  /\ ran' = [q \in Questions |->
               IF q \in held /\ ran[q] # None /\ ran[q] < Timeout THEN ran[q] + 1 ELSE ran[q]]
  /\ open' = [q \in Questions |->
                IF q \in held /\ ~paused /\ open[q] < Timeout THEN open[q] + 1 ELSE open[q]]
  /\ UNCHANGED <<held, answer, left, remembered, closed, paused, history, handoff, unclaimed,
                 conns, stop, owed, log, lost, trouble>>

--------------------------------------------------------------------------------
(* Asking and answering, under the Served lock *)

\* Nobody holds the Served lock.
Free == stop = "none"

Fault == trouble < MaxTrouble /\ trouble' = trouble + 1

\* Served::hold, refused: the request could not be recorded, or the hold is closed.
AskRefused(q) ==
  /\ Free /\ conn[q] = "new"
  /\ \/ sealed /\ UNCHANGED <<requested, trouble>>
     \/ ~sealed /\ Fault /\ UNCHANGED requested
     \/ ~sealed /\ ~remembered /\ closed /\ requested' = requested \cup {q} /\ UNCHANGED trouble
  /\ conn' = [conn EXCEPT ![q] = "refused"]
  /\ UNCHANGED <<hold, outcome, told, stop, owed, decided, sealed, lost, open>>

\* A standing allow-session answers at once; nothing is registered.
AskCovered(q) ==
  /\ Free /\ conn[q] = "new" /\ ~sealed /\ remembered
  /\ requested' = requested \cup {q}
  /\ outcome' = [outcome EXCEPT ![q] = "covered"]
  /\ conn' = [conn EXCEPT ![q] = "settled"]
  /\ UNCHANGED <<hold, told, stop, owed, decided, sealed, lost, open, trouble>>

\* register_with_timeout: the clock starts at once, or stands while the session is paused.
Ask(q) ==
  /\ Free /\ conn[q] = "new" /\ ~sealed /\ ~remembered /\ ~closed
  /\ requested' = requested \cup {q}
  /\ held' = held \cup {q}
  /\ left' = [left EXCEPT ![q] = Timeout]
  /\ ran' = [ran EXCEPT ![q] = IF paused THEN None ELSE 0]
  /\ conn' = [conn EXCEPT ![q] = "waiting"]
  /\ UNCHANGED <<answer, remembered, closed, paused, history, handoff, unclaimed, outcome, told,
                 stop, owed, decided, sealed, lost, open, trouble>>

\* Approvals::answer refuses everything else.
Answerable(q) == ~paused /\ q \in held /\ answer[q] = None /\ Remaining(q) > 0

Answer(q, d) ==
  /\ Free /\ Answerable(q)
  /\ answer' = [answer EXCEPT ![q] = d]
  /\ UNCHANGED <<held, left, ran, remembered, closed, paused, history, handoff, unclaimed,
                 conns, stop, owed, log, lost, open, trouble>>

\* set_paused: every armed clock stops where it stands, or runs on from there.
SetPaused ==
  /\ Free /\ ~sealed
  /\ paused' = ~paused
  /\ left' = [q \in Questions |->
                IF q \in held /\ paused' /\ ran[q] # None THEN Remaining(q) ELSE left[q]]
  /\ ran' = [q \in Questions |->
               IF q \notin held THEN ran[q]
               ELSE IF paused' THEN None
               ELSE IF ran[q] = None THEN 0 ELSE ran[q]]
  /\ UNCHANGED <<held, answer, remembered, closed, history, handoff, unclaimed, conns, stop,
                 owed, log, lost, open, trouble>>

\* `ward session revoke' of the allow-session grant: forgotten at once.
RevokeRemembered ==
  /\ Free /\ remembered
  /\ remembered' = FALSE
  /\ UNCHANGED <<held, answer, left, ran, closed, paused, history, handoff, unclaimed, conns,
                 stop, owed, log, lost, open, trouble>>

--------------------------------------------------------------------------------
(* Waiting, under the approvals' lock alone *)

\* record_history: the oldest goes when the history is full.
Recorded(h, q, o) ==
  Append(IF Len(h) >= HistoryCap THEN Tail(h) ELSE h, [q |-> q, o |-> o])

\* What is kept of the questions of S goes with them.
Forget(S) ==
  LET Kept(f, none) == [q \in Questions |-> IF q \in S THEN none ELSE f[q]]
  IN  /\ held' = held \ S
      /\ answer' = Kept(answer, None)
      /\ left' = Kept(left, 0)
      /\ ran' = Kept(ran, None)
      /\ open' = Kept(open, 0)

\* Mutant: a waiter settles its question as expired when it wakes while paused.
ExpiredPaused(q) == Remaining(q) = 0 \/ paused

\* `wait' times out on the clock, and not while the session is paused.
Expired(q) == ~paused /\ Remaining(q) = 0

\* `wait' finds its question answered, or its clock run out, and leaves the outcome for
\* whoever reaches the Served lock first to record.
Settle(q, o) ==
  /\ conn[q] = "waiting" /\ q \in held
  /\ o = IF answer[q] # None THEN answer[q] ELSE "timed-out"
  /\ answer[q] # None \/ Expired(q)
  /\ Forget({q})
  /\ remembered' = (remembered \/ o = "allow-session")
  /\ history' = Recorded(history, q, o)
  /\ unclaimed' = [unclaimed EXCEPT ![q] = o]
  /\ outcome' = [outcome EXCEPT ![q] = o]
  /\ conn' = [conn EXCEPT ![q] = "settled"]
  /\ UNCHANGED <<closed, paused, handoff, told, stop, owed, log, lost, trouble>>

\* Mutant: a waiter is not woken for a question a stop drained.
DrainedUnnoticed(q) == FALSE

Drained(q) == q \notin held

\* What a stop handed over, or `closed' for a question nobody knows.
HandedOver(q) == IF handoff[q] # None THEN handoff[q] ELSE "closed"

\* `wait' finds its question gone: a stop drained it.
SettleDrained(q) ==
  /\ conn[q] = "waiting" /\ Drained(q)
  /\ outcome' = [outcome EXCEPT ![q] = HandedOver(q)]
  /\ conn' = [conn EXCEPT ![q] = "settled"]
  /\ UNCHANGED <<hold, told, stop, owed, log, lost, open, trouble>>

--------------------------------------------------------------------------------
(* Recording the decision *)

\* take_recorded: a stop has recorded it.
Taken(q) == handoff[q] # None

\* The tail of `hold', under the Served lock: the record, unless a stop made it.
Finish(q) ==
  /\ Free /\ conn[q] = "settled"
  /\ handoff' = [handoff EXCEPT ![q] = None]
  /\ unclaimed' = IF Taken(q) THEN unclaimed ELSE [unclaimed EXCEPT ![q] = None]
  /\ \/ Taken(q) /\ UNCHANGED <<decided, lost, trouble>>
     \/ ~Taken(q) /\ ~sealed
        /\ decided' = [decided EXCEPT ![q] = Append(@, outcome[q])]
        /\ UNCHANGED <<lost, trouble>>
     \/ ~Taken(q) /\ ~sealed /\ Fault /\ lost' = lost \cup {q} /\ UNCHANGED decided
     \/ ~Taken(q) /\ sealed /\ UNCHANGED <<decided, lost, trouble>>
  /\ conn' = [conn EXCEPT ![q] = "finished"]
  /\ UNCHANGED <<held, answer, left, ran, remembered, closed, paused, history, outcome, told,
                 stop, owed, requested, sealed, open>>

\* Response::Decision, once the lock is let go.
Reply(q) ==
  /\ conn[q] = "finished"
  /\ told' = [told EXCEPT ![q] = outcome[q]]
  /\ conn' = [conn EXCEPT ![q] = "told"]
  /\ UNCHANGED <<hold, outcome, stop, owed, log, lost, open, trouble>>

--------------------------------------------------------------------------------
(* The end of the session, under the Served lock throughout *)

\* What close gives a question it finds still held.
DrainedAs(q) == IF answer[q] # None THEN answer[q] ELSE "closed"

\* Mutant: close looks at what is held only.
ClaimedHeld == {}

\* What close claims of the questions that waiters have settled.
Claimed == {q \in Questions : unclaimed[q] # None}

\* Approvals::close: drain the held questions, claim the settled ones.
BeginClose ==
  /\ Free /\ ~sealed
  /\ closed' = TRUE
  /\ Forget(held)
  /\ remembered' = (remembered \/ \E q \in held : DrainedAs(q) = "allow-session")
  /\ \E order \in SetToSeqs(held) :
       history' = FoldLeft(LAMBDA h, q : Recorded(h, q, DrainedAs(q)), history, order)
  /\ handoff' = [q \in Questions |->
                   IF q \in held THEN DrainedAs(q)
                   ELSE IF q \in Claimed THEN unclaimed[q] ELSE handoff[q]]
  /\ unclaimed' = [q \in Questions |-> IF q \in Claimed THEN None ELSE unclaimed[q]]
  /\ owed' = {<<q, DrainedAs(q)>> : q \in held} \cup {<<q, unclaimed[q]>> : q \in Claimed}
  /\ stop' = "closing"
  /\ UNCHANGED <<paused, conns, log, lost, trouble>>

\* close_pending_approvals: one record each, best effort.
CloseAppend(r) ==
  /\ stop = "closing" /\ r \in owed
  /\ owed' = owed \ {r}
  /\ \/ /\ decided' = [decided EXCEPT ![r[1]] = Append(@, r[2])]
        /\ UNCHANGED <<lost, trouble>>
     \/ Fault /\ lost' = lost \cup {r[1]} /\ UNCHANGED decided
  /\ UNCHANGED <<hold, conns, stop, requested, sealed, open>>

\* Once all is appended, SessionEnded and the seal; a failed SessionEnded leaves the log open and the hold closed.
SealLog ==
  /\ stop = "closing" /\ owed = {}
  /\ \/ sealed' = TRUE /\ UNCHANGED trouble
     \/ Fault /\ UNCHANGED sealed
  /\ stop' = "none"
  /\ UNCHANGED <<hold, conns, owed, requested, decided, lost, open>>

\* The decision a question has got, wherever it is kept.
Decision(q) ==
  IF answer[q] # None THEN answer[q] ELSE IF handoff[q] # None THEN handoff[q] ELSE outcome[q]

\* The daemon dies and is started again: the hold was in its memory.
Crash ==
  /\ ~sealed /\ Fault
  /\ LET cut == {q \in Questions : conn[q] \in {"waiting", "settled", "finished"}}
     IN  /\ conn' = [q \in Questions |-> IF q \in cut THEN "cut" ELSE conn[q]]
         /\ lost' = lost \cup {q \in cut : decided[q] = <<>>}
  /\ Forget(held) /\ history' = <<>>
  /\ remembered' = FALSE /\ closed' = FALSE
  /\ handoff' = [q \in Questions |-> None]
  /\ unclaimed' = [q \in Questions |-> None]
  /\ outcome' = [q \in Questions |-> IF outcome[q] # None THEN outcome[q] ELSE Decision(q)]
  /\ stop' = "none" /\ owed' = {}
  /\ UNCHANGED <<paused, told, log>>

Next ==
  \/ Tick
  \/ \E q \in Questions :
       \/ AskRefused(q) \/ AskCovered(q) \/ Ask(q)
       \/ \E d \in Decisions : Answer(q, d)
       \/ \E o \in Outcomes : Settle(q, o)
       \/ SettleDrained(q) \/ Finish(q) \/ Reply(q)
  \/ SetPaused \/ RevokeRemembered
  \/ BeginClose \/ (\E r \in owed : CloseAppend(r)) \/ SealLog
  \/ Crash

Spec == Init /\ [][Next]_vars

\* The threads run and time passes; nothing makes a user answer, pause or stop.
Fairness ==
  /\ WF_vars(Tick)
  /\ \A q \in Questions :
       /\ WF_vars(\E o \in Outcomes : Settle(q, o)) /\ WF_vars(SettleDrained(q))
       /\ WF_vars(Reply(q)) /\ SF_vars(Finish(q))
  /\ WF_vars(\E r \in owed : CloseAppend(r)) /\ WF_vars(SealLog)

FairSpec == Spec /\ Fairness

--------------------------------------------------------------------------------
(* Properties *)

Entry == [q : Questions, o : Outcomes]

\* Every variable is of its kind, and the history is within its bound.
TypeOK ==
  /\ held \in SUBSET Questions
  /\ answer \in [Questions -> Decisions \cup {None}]
  /\ left \in [Questions -> 0..Timeout]
  /\ ran \in [Questions -> 0..Timeout \cup {None}]
  /\ remembered \in BOOLEAN /\ closed \in BOOLEAN /\ paused \in BOOLEAN
  /\ history \in Seq(Entry) /\ Len(history) <= HistoryCap
  /\ handoff \in [Questions -> Outcomes \cup {None}]
  /\ unclaimed \in [Questions -> Outcomes \cup {None}]
  /\ conn \in [Questions ->
                 {"new", "waiting", "settled", "finished", "told", "refused", "cut"}]
  /\ outcome \in [Questions -> Outcomes \cup {None}]
  /\ stop \in {"none", "closing"} /\ owed \in SUBSET (Questions \X Outcomes)
  /\ requested \in SUBSET Questions /\ sealed \in BOOLEAN
  /\ decided \in [Questions -> Seq(Outcomes)]
  /\ told \in [Questions -> Outcomes \cup {None}]
  /\ lost \in SUBSET Questions /\ trouble \in 0..MaxTrouble
  /\ open \in [Questions -> 0..Timeout]

\* The questions the hold took: not those a standing allow-session covered.
Of(q, x) == IF outcome[q] = "covered" THEN None ELSE x

\* The one record of it; a second one is no verdict at all.
TheRecord(q) ==
  Of(q, IF decided[q] = <<>> THEN None
        ELSE IF Len(decided[q]) = 1 THEN decided[q][1] ELSE "twice")

Once == INSTANCE DecideOnce WITH
          Verdicts <- Outcomes,
          verdict <- [q \in Questions |-> Of(q, Decision(q))],
          record <- [q \in Questions |-> TheRecord(q)],
          told <- [q \in Questions |-> Of(q, told[q])],
          waived <- lost

\* However answers, expiries, waiters, a stop and daemon deaths interleave, the
\* hold keeps DecideOnce's promise: an accepted answer is what is recorded and
\* what the hook hears, once each, in that order, and no log is sealed over a
\* decision it does not have (close, take_recorded and the two maps between them).
DecidesOnce == Once!Spec

\* A question is given up only when its whole decision time has passed unpaused
\* with no answer taken, or when a stop closes it (answer and wait judge one clock
\* under one lock, and close is the only other way out of `held'); and an answer
\* never overtakes a clock that has run out, however late its waiter wakes.
ExpiryIsFair ==
  [][\A q \in held :
       /\ q \notin held' /\ answer[q] = None /\ conn'[q] # "cut" =>
            open[q] = Timeout \/ closed'
       /\ answer'[q] # answer[q] /\ q \in held' => open[q] < Timeout]_vars

\* Once the session stays unpaused, every hook that asked hears a decision, or
\* its daemon died: the clock runs out if nobody answers, and a stop hands every
\* waiter its outcome and lets the lock go.
HooksHear ==
  <>[]~paused =>
    \A q \in Questions : conn[q] = "waiting" ~> conn[q] \in {"told", "cut"}

\* "Every approval given a terminal record" (docs/desktop.md): a sealed log has
\* a decision for every request in it that a hook was answered on.
SealedDecided ==
  \A q \in Questions :
    sealed /\ told[q] # None /\ q \notin lost => decided[q] # <<>>
================================================================================
