----------------------------- MODULE ActionChannel -----------------------------
(***************************************************************************)
(* The action channel of one attempt (crates/ward-node/src/actions.rs) and  *)
(* what the registry does with it (task.rs): a workload asks for approvals  *)
(* over connections, the attempt's proxy opens requests for held            *)
(* capabilities, a control plane lists and answers them, and what nobody    *)
(* answers expires, is withdrawn or is cancelled.                           *)
(*                                                                          *)
(* Every connection has a thread of its own; the threads, the proxy and the *)
(* registry share the channel's lock.  The threads only queue records; the  *)
(* registry appends them to the evidence log, one append a step, while it   *)
(* holds the lock (`turn').  An append may fail with or without the frame   *)
(* reaching the log, may tear the log, and is refused of a record that does *)
(* not close the attempt once the log is full.                              *)
(*                                                                          *)
(* Abstractions.  A line is a request id or it is refused, for whichever    *)
(* reason.  Numbers, ids and decisions are kept; texts, notes and digests   *)
(* are not.  Times are relative to now: a tick lowers every deadline.       *)
(***************************************************************************)
EXTENDS Integers, FiniteSets, Sequences

CONSTANTS
  Ids,          \* request ids a workload may use
  Conns,        \* connections it may open
  Ops,          \* operation ids of answers
  None,
  HoldCount,    \* held capabilities
  MaxPending,   \* the grant's max_pending
  MaxTotal,     \* the grant's max_total
  MaxConns,     \* MAX_ACTION_CONNECTIONS
  MaxRefusals,  \* MAX_ACTION_REFUSALS
  Wait,         \* the grant's wait_secs
  MaxPause,     \* bound: the longest pause explored
  MaxFaults,    \* bound: failing appends explored
  MaxCrashes    \* bound: node deaths explored

ASSUME GrantAssumption ==
  /\ None \notin Conns /\ None \notin Ops
  /\ HoldCount \in Nat /\ MaxTotal \in Nat /\ MaxPending \in Nat
  /\ MaxConns \in Nat \ {0} /\ MaxRefusals \in Nat \ {0} /\ Wait \in Nat \ {0}
  /\ MaxPause \in Nat /\ MaxFaults \in Nat /\ MaxCrashes \in Nat

VARIABLES
  \* The channel (State).
  next, sent, ids, pend, ans, ops, queue, open, refusals, paused, since, closed, slot,
  conn,      \* where each connection's thread is
  \* The registry.
  turn,      \* what it is doing while it holds the channel's lock
  finished,  \* AttemptActions::finish has run
  \* The evidence log and the node.
  log, torn, full, up, faults, crashes,
  \* History.
  told,      \* the reply the workload was sent for each request
  passed,    \* held capabilities of requests the proxy let through
  listed,    \* requests the control plane was shown
  waited     \* unpaused ticks each request has been pending for

channel == <<next, sent, ids, pend, ans, ops, queue, open, refusals, paused, since, closed,
             slot, conn>>
evidence == <<log, torn, full, faults>>
history == <<told, passed, listed, waited>>
vars == <<channel, turn, finished, evidence, up, crashes, history>>

Holds == 1..HoldCount
Actions == 1..(MaxTotal + HoldCount)
Decisions == {"approved", "denied", "expired", "cancelled"}

Requested(n) == [ev |-> "requested", n |-> n, d |-> "none", op |-> None]
Answered(n, d, op) == [ev |-> "answered", n |-> n, d |-> d, op |-> op]
Refused == [ev |-> "refused", n |-> 0, d |-> "none", op |-> None]
Event == [ev : {"requested", "answered", "refused"}, n : Actions \cup {0},
          d : Decisions \cup {"none"}, op : Ops \cup {None}]

NoPending == [on |-> FALSE, conn |-> None, deadline |-> 0, rec |-> FALSE]
NoTurn == [verb |-> "none", n |-> 0, d |-> "none", op |-> None]

Init ==
  /\ next = 0 /\ sent = 0 /\ refusals = 0 /\ since = 0
  /\ ids = Holds
  /\ pend = [n \in Actions |-> NoPending]
  /\ ans = [n \in Actions |-> "none"]
  /\ ops = [o \in Ops |-> 0]
  /\ queue = <<>> /\ open = {} /\ paused = FALSE /\ closed = FALSE
  /\ slot = [i \in Holds |-> 0]
  /\ conn = [c \in Conns |-> "none"]
  /\ turn = NoTurn /\ finished = FALSE
  /\ log = <<>> /\ torn = FALSE /\ full = FALSE /\ up = TRUE /\ faults = 0 /\ crashes = 0
  /\ told = [n \in Actions |-> "none"]
  /\ passed = {} /\ listed = {}
  /\ waited = [n \in Actions |-> 0]

--------------------------------------------------------------------------------
(* Helpers *)

\* Nobody holds the channel's lock.
Free == up /\ turn.verb = "none"

Pending == {n \in Actions : pend[n].on}
Waiting == {n \in Pending : pend[n].conn # None}

\* The wait of a new request starts now, or when the running pause started.
Deadline == since + Wait

\* Mutant: only the queue is tended, nothing expires.
DueNever == {}

\* Mutant: a pause does not keep a wait from running out.
DueWhilePaused == {n \in Pending : pend[n].rec /\ pend[n].deadline <= 0}

\* The recorded requests whose wait ran out.
Due == {n \in Pending : ~paused /\ pend[n].rec /\ pend[n].deadline <= 0}

\* How many of S come up to n, and the k-th of S: requests are kept by number.
Rank(S, n) == Cardinality({m \in S : m <= n})
Nth(S, k) == CHOOSE n \in S : Rank(S, n) = k

Cancellations(S) ==
  [k \in 1..Cardinality(S) |-> Answered(Nth(S, k), "cancelled", None)]

\* `closes': the node's own answers may use the reserve of a full log.
Closes(e) == e.ev = "answered" /\ e.op = None

Wrote(e) ==
  /\ ~torn /\ (full => Closes(e))
  /\ log' = Append(log, e)
  /\ UNCHANGED <<torn, full, faults>>

NotWrote(e) ==
  \/ /\ torn \/ (full /\ ~Closes(e))
     /\ UNCHANGED <<log, torn, full, faults>>
  \/ /\ ~torn /\ (full => Closes(e))
     /\ faults < MaxFaults /\ faults' = faults + 1
     /\ \/ log' \in {log, Append(log, e)} /\ UNCHANGED torn
        \/ torn' = TRUE /\ UNCHANGED log
     /\ UNCHANGED full

\* The request leaves the pending ones and the workload is told, without blocking: a reply
\* that does not fit costs it the connection.
Reply(n, d) ==
  LET c == pend[n].conn IN
  /\ pend' = [pend EXCEPT ![n] = NoPending]
  /\ ans' = [ans EXCEPT ![n] = d]
  /\ \/ c \in open /\ told' = [told EXCEPT ![n] = d] /\ UNCHANGED open
     \/ open' = open \ {c} /\ UNCHANGED told

--------------------------------------------------------------------------------
(* The workload's connections *)

Accept(c) ==
  /\ Free /\ ~closed /\ conn[c] = "none"
  /\ Cardinality(open) < MaxConns
  /\ open' = open \cup {c}
  /\ \E at \in {"reading", "leaving"} : conn' = [conn EXCEPT ![c] = at]
  /\ UNCHANGED <<next, sent, ids, pend, ans, ops, queue, refusals, paused, since, closed,
                 slot, turn, finished, evidence, up, crashes, history>>

\* `register': a granted request with a fresh id within the grant's bounds.
Registrable(id) ==
  /\ ~closed
  /\ id \notin ids
  /\ Cardinality(Waiting) < MaxPending
  /\ sent < MaxTotal

Ask(c, id) ==
  LET n == next + 1 IN
  /\ Free /\ conn[c] = "reading"
  /\ Registrable(id)
  /\ next' = n /\ sent' = sent + 1
  /\ ids' = ids \cup {id}
  /\ queue' = Append(queue, Requested(n))
  /\ pend' = [pend EXCEPT ![n] = [on |-> TRUE, conn |-> c, deadline |-> Deadline, rec |-> FALSE]]
  /\ UNCHANGED <<ans, ops, open, refusals, paused, since, closed, slot, conn, turn, finished,
                 evidence, up, crashes, history>>

\* A line that is malformed or that cannot be registered; the thread refuses it next.
BadLine(c) ==
  /\ Free /\ conn[c] = "reading"
  /\ conn' = [conn EXCEPT ![c] = "refusing"]
  /\ UNCHANGED <<next, sent, ids, pend, ans, ops, queue, open, refusals, paused, since,
                 closed, slot, turn, finished, evidence, up, crashes, history>>

\* `close': cancel every pending request, q being what is queued before, and shut.
Close(q) ==
  /\ closed' = TRUE /\ open' = {}
  /\ queue' = q \o Cancellations(Pending)
  /\ ans' = [n \in Actions |-> IF n \in Pending THEN "cancelled" ELSE ans[n]]
  /\ pend' = [n \in Actions |-> NoPending]
  /\ \E got \in SUBSET {n \in Pending : pend[n].conn \in open} :
       told' = [n \in Actions |-> IF n \in got THEN "cancelled" ELSE told[n]]

\* Mutant: a closed channel still records refusals.
RefuseWhenClosed(c) ==
  LET q == Append(queue, Refused) IN
  /\ Free /\ conn[c] = "refusing"
  /\ conn' = [conn EXCEPT ![c] = "leaving"]
  /\ refusals' = refusals + 1
  /\ IF refusals + 1 >= MaxRefusals
       THEN Close(q)
       ELSE queue' = q /\ UNCHANGED <<pend, ans, told, open, closed>>
  /\ UNCHANGED <<next, sent, ids, ops, paused, since, slot, turn, finished, evidence, up,
                 crashes, passed, listed, waited>>

Refuse(c) ==
  LET q == Append(queue, Refused) IN
  /\ Free /\ conn[c] = "refusing"
  /\ conn' = [conn EXCEPT ![c] = "leaving"]
  /\ IF closed
       THEN UNCHANGED <<refusals, queue, pend, ans, told, open, closed>>
       ELSE /\ refusals' = refusals + 1
            /\ IF refusals + 1 >= MaxRefusals
                 THEN Close(q)
                 ELSE queue' = q /\ UNCHANGED <<pend, ans, told, open, closed>>
  /\ UNCHANGED <<next, sent, ids, ops, paused, since, slot, turn, finished, evidence, up,
                 crashes, passed, listed, waited>>

\* The connection ends, or a line arrives on a closed channel.
Eof(c) ==
  /\ Free /\ conn[c] = "reading"
  /\ conn' = [conn EXCEPT ![c] = "leaving"]
  /\ UNCHANGED <<next, sent, ids, pend, ans, ops, queue, open, refusals, paused, since,
                 closed, slot, turn, finished, evidence, up, crashes, history>>

\* Mutant: a withdrawn request stays pending.
WithdrawKeepsPending(c) ==
  LET gone == {n \in Pending : pend[n].conn = c} IN
  /\ Free /\ conn[c] = "leaving"
  /\ conn' = [conn EXCEPT ![c] = "gone"]
  /\ open' = open \ {c}
  /\ ans' = [n \in Actions |-> IF n \in gone THEN "cancelled" ELSE ans[n]]
  /\ queue' = queue \o Cancellations(gone)
  /\ UNCHANGED <<next, sent, ids, pend, ops, refusals, paused, since, closed, slot, turn,
                 finished, evidence, up, crashes, history>>

Withdraw(c) ==
  LET gone == {n \in Pending : pend[n].conn = c} IN
  /\ Free /\ conn[c] = "leaving"
  /\ conn' = [conn EXCEPT ![c] = "gone"]
  /\ open' = open \ {c}
  /\ pend' = [n \in Actions |-> IF n \in gone THEN NoPending ELSE pend[n]]
  /\ ans' = [n \in Actions |-> IF n \in gone THEN "cancelled" ELSE ans[n]]
  /\ queue' = queue \o Cancellations(gone)
  /\ UNCHANGED <<next, sent, ids, ops, refusals, paused, since, closed, slot, turn,
                 finished, evidence, up, crashes, history>>

--------------------------------------------------------------------------------
(* The attempt's proxy asks about a request that touches the held capabilities S *)

\* Mutant: a closed channel still opens requests.
UnopenedWhenClosed(S) == {i \in S : slot[i] = 0}
\* The capabilities whose request is opened now.
Unopened(S) == {i \in S : slot[i] = 0 /\ ~closed}

Touch(S) ==
  LET new == Unopened(S)
      number(i) == next + Rank(new, i)
      opened == {number(i) : i \in new}
  IN
  /\ Free
  /\ slot' = [i \in Holds |-> IF i \in new THEN number(i) ELSE slot[i]]
  /\ next' = next + Cardinality(new)
  /\ queue' = queue \o [k \in 1..Cardinality(new) |-> Requested(next + k)]
  /\ pend' = [n \in Actions |->
       IF n \in opened
         THEN [on |-> TRUE, conn |-> None, deadline |-> Deadline, rec |-> FALSE]
         ELSE pend[n]]
  /\ passed' = IF \A i \in S : slot'[i] # 0 /\ ans[slot'[i]] = "approved"
                 THEN passed \cup S ELSE passed
  /\ UNCHANGED <<sent, ids, ans, ops, open, refusals, paused, since, closed, conn, turn,
                 finished, evidence, up, crashes, told, listed, waited>>

--------------------------------------------------------------------------------
(* The registry: every turn first appends the queue, in order *)

Turn(verb, n, d, op) == turn' = [verb |-> verb, n |-> n, d |-> d, op |-> op]

\* The reaper's tick, when something is due.
Tend ==
  /\ Free
  /\ queue # <<>> \/ Due # {}
  /\ Turn("tend", 0, "none", None)
  /\ UNCHANGED <<channel, finished, evidence, up, crashes, history>>

List ==
  /\ Free /\ ~finished
  /\ Turn("list", 0, "none", None)
  /\ UNCHANGED <<channel, finished, evidence, up, crashes, history>>

\* An operation that was applied before is replayed and changes nothing.
Answer(op, n, d) ==
  /\ Free /\ ops[op] = 0
  /\ Turn("answer", n, d, op)
  /\ UNCHANGED <<channel, finished, evidence, up, crashes, history>>

Finish ==
  /\ Free /\ ~finished
  /\ Turn("finish", 0, "none", None)
  /\ UNCHANGED <<channel, finished, evidence, up, crashes, history>>

\* Mutant: a request is listed whether or not its record was appended.
FlushOneAnyway ==
  LET e == Head(queue) n == e.n IN
  /\ up /\ turn.verb # "none" /\ queue # <<>>
  /\ queue' = Tail(queue)
  /\ Wrote(e) \/ NotWrote(e)
  /\ pend' = IF e.ev = "requested" /\ pend[n].on THEN [pend EXCEPT ![n].rec = TRUE] ELSE pend
  /\ UNCHANGED <<ans, told, open>>
  /\ UNCHANGED <<next, sent, ids, ops, refusals, paused, since, closed, slot, conn, turn,
                 finished, up, crashes, passed, listed, waited>>

\* `flush', one record: a request whose record fails is cancelled, never listed.
FlushOne ==
  LET e == Head(queue)
      n == e.n
      asks == e.ev = "requested" /\ pend[n].on
  IN
  /\ up /\ turn.verb # "none" /\ queue # <<>>
  /\ queue' = Tail(queue)
  /\ \/ /\ Wrote(e)
        /\ pend' = IF asks THEN [pend EXCEPT ![n].rec = TRUE] ELSE pend
        /\ UNCHANGED <<ans, told, open>>
     \/ /\ NotWrote(e)
        /\ IF asks THEN Reply(n, "cancelled") ELSE UNCHANGED <<pend, ans, told, open>>
  /\ UNCHANGED <<next, sent, ids, ops, refusals, paused, since, closed, slot, conn, turn,
                 finished, up, crashes, passed, listed, waited>>

\* `expire', one request: it is answered whether or not the record could be appended.
ExpireOne(n) ==
  /\ up /\ turn.verb \in {"tend", "list", "answer"} /\ queue = <<>>
  /\ n \in Due /\ \A m \in Due : n <= m
  /\ Wrote(Answered(n, "expired", None)) \/ NotWrote(Answered(n, "expired", None))
  /\ Reply(n, "expired")
  /\ UNCHANGED <<next, sent, ids, ops, queue, refusals, paused, since, closed, slot, conn,
                 turn, finished, up, crashes, passed, listed, waited>>

Tended == up /\ queue = <<>> /\ Due = {}

EndTurn ==
  /\ Tended /\ turn.verb \in {"tend", "list"}
  /\ turn' = NoTurn
  /\ listed' = IF turn.verb = "list" THEN listed \cup {n \in Pending : pend[n].rec} ELSE listed
  /\ UNCHANGED <<channel, finished, evidence, up, crashes, told, passed, waited>>

\* Mutant: the decision is taken whether or not it was recorded.
DecideUnrecorded ==
  LET n == turn.n d == turn.d e == Answered(n, d, turn.op) IN
  /\ Tended /\ turn.verb = "answer"
  /\ turn' = NoTurn
  /\ \/ /\ pend[n].on /\ pend[n].rec
        /\ Wrote(e) \/ NotWrote(e)
        /\ Reply(n, d)
        /\ ops' = [ops EXCEPT ![turn.op] = n]
     \/ ~(pend[n].on /\ pend[n].rec) /\ UNCHANGED <<evidence, ops, pend, ans, told, open>>
  /\ UNCHANGED <<next, sent, ids, queue, refusals, paused, since, closed, slot, conn,
                 finished, up, crashes, passed, listed, waited>>

\* `answer': a recorded pending request, the answer recorded before the workload is told.
Decide ==
  LET n == turn.n
      d == turn.d
      e == Answered(n, d, turn.op)
      answerable == pend[n].on /\ pend[n].rec
  IN
  /\ Tended /\ turn.verb = "answer"
  /\ turn' = NoTurn
  /\ \/ answerable /\ Wrote(e) /\ Reply(n, d) /\ ops' = [ops EXCEPT ![turn.op] = n]
     \/ answerable /\ NotWrote(e) /\ UNCHANGED <<ops, pend, ans, told, open>>
     \/ ~answerable /\ UNCHANGED <<evidence, ops, pend, ans, told, open>>
  /\ UNCHANGED <<next, sent, ids, queue, refusals, paused, since, closed, slot, conn,
                 finished, up, crashes, passed, listed, waited>>

\* `finish', one pending request.
CancelOne(n) ==
  /\ up /\ turn.verb = "finish" /\ queue = <<>>
  /\ n \in Pending /\ \A m \in Pending : n <= m
  /\ Wrote(Answered(n, "cancelled", None)) \/ NotWrote(Answered(n, "cancelled", None))
  /\ Reply(n, "cancelled")
  /\ UNCHANGED <<next, sent, ids, ops, queue, refusals, paused, since, closed, slot, conn,
                 turn, finished, up, crashes, passed, listed, waited>>

Shut ==
  /\ up /\ turn.verb = "finish" /\ queue = <<>> /\ Pending = {}
  /\ closed' = TRUE /\ open' = {} /\ finished' = TRUE
  /\ turn' = NoTurn
  /\ UNCHANGED <<next, sent, ids, pend, ans, ops, queue, refusals, paused, since, slot,
                 conn, evidence, up, crashes, history>>

--------------------------------------------------------------------------------
(* Time, the rest of the attempt's records, the node *)

Pause ==
  /\ Free /\ ~finished /\ ~paused /\ MaxPause > 0
  /\ paused' = TRUE
  /\ UNCHANGED <<next, sent, ids, pend, ans, ops, queue, open, refusals, since, closed,
                 slot, conn, turn, finished, evidence, up, crashes, history>>

\* Every deadline moves by the time spent paused.
Resume ==
  /\ Free /\ ~finished /\ paused
  /\ paused' = FALSE /\ since' = 0
  /\ pend' = [n \in Actions |->
       IF n \in Pending THEN [pend[n] EXCEPT !.deadline = @ - since] ELSE pend[n]]
  /\ UNCHANGED <<next, sent, ids, ans, ops, queue, open, refusals, closed, slot, conn,
                 turn, finished, evidence, up, crashes, history>>

\* A second passes; the bounds keep pauses and late tending short.
Tick ==
  /\ Free
  /\ IF paused THEN since > -MaxPause ELSE \A n \in Pending : pend[n].deadline >= 0
  /\ since' = IF paused THEN since - 1 ELSE 0
  /\ pend' = [n \in Actions |->
       IF n \in Pending THEN [pend[n] EXCEPT !.deadline = @ - 1] ELSE pend[n]]
  /\ waited' = [n \in Actions |-> waited[n] + IF n \in Pending /\ ~paused THEN 1 ELSE 0]
  /\ UNCHANGED <<next, sent, ids, ans, ops, queue, open, refusals, paused, closed, slot,
                 conn, turn, finished, evidence, up, crashes, told, passed, listed>>

\* Other records of the attempt fill the log up to its reserve.
Fill ==
  /\ Free /\ ~full /\ full' = TRUE
  /\ UNCHANGED <<channel, turn, finished, log, torn, faults, up, crashes, history>>

\* What was queued dies with the node.
Crash ==
  /\ up /\ crashes < MaxCrashes
  /\ up' = FALSE /\ crashes' = crashes + 1
  /\ torn' = FALSE /\ turn' = NoTurn /\ queue' = <<>>
  /\ UNCHANGED <<next, sent, ids, pend, ans, ops, open, refusals, paused, since, closed, slot,
                 conn, finished, log, full, faults, history>>

\* Mutant: only the node's own answers count.
UnansweredByNode ==
  {n \in Actions : \E i \in DOMAIN log :
     log[i] = Requested(n) /\ \A j \in i..Len(log) : ~(Closes(log[j]) /\ log[j].n = n)}

\* `unanswered_actions' of the log, and `cancel_unanswered' on the restarted node.
Unanswered ==
  {n \in Actions : \E i \in DOMAIN log :
     log[i] = Requested(n) /\ \A j \in i..Len(log) : ~(log[j].ev = "answered" /\ log[j].n = n)}

Recover(n) ==
  /\ ~up
  /\ n \in Unanswered /\ \A m \in Unanswered : n <= m
  /\ log' = Append(log, Answered(n, "cancelled", None))
  /\ UNCHANGED <<channel, turn, finished, torn, full, faults, up, crashes, history>>

--------------------------------------------------------------------------------

Connection(c) ==
  \/ Accept(c) \/ BadLine(c) \/ Refuse(c) \/ Eof(c) \/ Withdraw(c)
  \/ \E id \in Ids \cup Holds : Ask(c, id)

TurnStep ==
  \/ FlushOne \/ EndTurn \/ Decide \/ Shut
  \/ \E n \in Actions : ExpireOne(n) \/ CancelOne(n)

Next ==
  \/ \E c \in Conns : Connection(c)
  \/ \E S \in SUBSET Holds \ {{}} : Touch(S)
  \/ Tend \/ List \/ Finish \/ TurnStep
  \/ \E op \in Ops, n \in Actions, d \in {"approved", "denied"} : Answer(op, n, d)
  \/ Pause \/ Resume \/ Tick \/ Fill \/ Crash
  \/ \E n \in Actions : Recover(n)

Spec == Init /\ [][Next]_vars

\* Time passes whoever holds the lock in between; the registry finishes its turns and the
\* reaper keeps polling while the workload lives.  Nothing is assumed of the workload, the
\* proxy or the control plane.
Fairness == SF_vars(Tick) /\ WF_vars(Tend) /\ WF_vars(TurnStep)

FairSpec == Spec /\ Fairness

--------------------------------------------------------------------------------
(* Properties *)

\* Every variable keeps its shape; request numbers stay within what the grant and the hold
\* allow.
TypeOK ==
  /\ next \in 0..(MaxTotal + HoldCount) /\ sent \in 0..MaxTotal
  /\ ids \subseteq Ids \cup Holds
  /\ pend \in [Actions -> [on : BOOLEAN, conn : Conns \cup {None}, deadline : Int, rec : BOOLEAN]]
  /\ ans \in [Actions -> Decisions \cup {"none"}]
  /\ ops \in [Ops -> Actions \cup {0}]
  /\ queue \in Seq(Event) /\ log \in Seq(Event)
  /\ open \subseteq Conns /\ refusals \in Nat /\ paused \in BOOLEAN /\ since \in Int
  /\ closed \in BOOLEAN /\ slot \in [Holds -> Actions \cup {0}]
  /\ conn \in [Conns -> {"none", "reading", "refusing", "leaving", "gone"}]
  /\ turn.verb \in {"none", "tend", "list", "answer", "finish"}
  /\ finished \in BOOLEAN /\ torn \in BOOLEAN /\ full \in BOOLEAN /\ up \in BOOLEAN
  /\ faults \in Nat /\ crashes \in Nat
  /\ told \in [Actions -> Decisions \cup {"none"}]
  /\ passed \subseteq Holds /\ listed \subseteq Actions /\ waited \in [Actions -> Nat]

LoggedAnswers(n) == {i \in DOMAIN log : log[i].ev = "answered" /\ log[i].n = n}
LoggedRequests(n) == {i \in DOMAIN log : log[i] = Requested(n)}

\* The proxy lets a request through a held capability only after a control plane's
\* approval of that very capability was recorded.
HoldNeedsApproval ==
  \A i \in passed : \E k \in LoggedAnswers(slot[i]) :
    log[k].d = "approved" /\ log[k].op # None

\* A workload is told approved or denied only after that answer was recorded.
ToldAfterRecord ==
  \A n \in Actions : told[n] \in {"approved", "denied"} =>
    \E k \in LoggedAnswers(n) : log[k].d = told[n] /\ log[k].op # None

\* An answer is final, whichever of control plane, expiry, withdrawal, refusals and the end
\* of the attempt gave it, and the workload is never told another.
AnswerFinal ==
  [][\A n \in Actions :
       /\ ans[n] # "none" => ans'[n] = ans[n]
       /\ told'[n] # told[n] => told[n] = "none" /\ told'[n] = ans'[n]]_vars

\* A request is shown to the control plane only once its record is in the log.
ListedRecorded == \A n \in listed : LoggedRequests(n) # {}

\* Without failing appends the log reads as one request and at most one answer of each
\* number, in this order.
LogOrdered ==
  faults = 0 /\ ~full => \A n \in Actions :
    /\ Cardinality(LoggedRequests(n)) <= 1 /\ Cardinality(LoggedAnswers(n)) <= 1
    /\ \A k \in LoggedAnswers(n) : \E i \in LoggedRequests(n) : i < k

\* No request expires before it was pending for the whole wait outside pauses.
NoEarlyExpiry == \A n \in Actions : ans[n] = "expired" => waited[n] >= Wait

\* The records a channel adds are bounded whatever the workload sends.
EvidenceBounded ==
  LET all == log \o queue
      count(ev) == Cardinality({i \in DOMAIN all : all[i].ev = ev})
  IN  /\ count("refused") <= MaxRefusals
      /\ count("requested") <= MaxTotal + HoldCount
      /\ count("answered") <= MaxTotal + HoldCount + faults

\* Once the channel is finished nothing is queued any more, by threads that were still
\* running or by the proxy, so that the end of the attempt is recorded last.
SilentOnceFinished == finished => queue = <<>> /\ Pending = {}

\* A request whose record failed is not recorded as answered.
UnrecordedNotAnswered ==
  \A n \in Actions : LoggedAnswers(n) # {} => LoggedRequests(n) # {}

\* A request does not stay pending for ever, unless the attempt stays paused.
EventuallyAnswered ==
  <>[](~paused) => \A n \in Actions : pend[n].on ~> ~pend[n].on

================================================================================
