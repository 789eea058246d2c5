---------------------------- MODULE ApprovalsProofs ----------------------------
(***************************************************************************)
(* The hold of Approvals keeps the promise of DecideOnce, for any questions, *)
(* any decision time, any history and any number of faults.  A question's    *)
(* verdict moves from the hold to the waiter or to the stop and from there   *)
(* to the log; QuestionInv says, for every place a connection may be in,     *)
(* where the verdict is and whether it has been recorded.                    *)
(***************************************************************************)
EXTENDS Approvals, TLAPS

Verdict == Outcomes \ {"covered"}

Kinds ==
  /\ held \subseteq Questions
  /\ answer \in [Questions -> Decisions \cup {None}]
  /\ handoff \in [Questions -> Verdict \cup {None}]
  /\ unclaimed \in [Questions -> Verdict \cup {None}]
  /\ outcome \in [Questions -> Outcomes \cup {None}]
  /\ conn \in [Questions ->
                 {"new", "waiting", "settled", "finished", "told", "refused", "cut"}]
  /\ decided \in [Questions -> Seq(Outcomes)]
  /\ told \in [Questions -> Outcomes \cup {None}]
  /\ stop \in {"none", "closing"}
  /\ sealed \in BOOLEAN /\ closed \in BOOLEAN

\* A stop has the lock from the close of the hold to the seal; what is closed holds nothing.
StopInv ==
  /\ closed => held = {}
  /\ sealed => closed /\ stop = "none"
  /\ stop = "closing" => closed
  /\ \A r \in owed : /\ stop = "closing" /\ r \in Questions \X Verdict
                     /\ r[2] = handoff[r[1]] /\ decided[r[1]] = <<>>

\* v is the question's record, or is known to be lost, or is the stop's to append.
Accounted(q, v) ==
  \/ decided[q] = <<v>>
  \/ decided[q] = <<>> /\ (q \in lost \/ <<q, v>> \in owed)

NewInv(q) ==
  conn[q] \in {"new", "refused"} =>
    /\ q \notin held /\ answer[q] = None /\ handoff[q] = None /\ unclaimed[q] = None
    /\ outcome[q] = None /\ told[q] = None /\ decided[q] = <<>>

WaitingInv(q) ==
  conn[q] = "waiting" =>
    /\ outcome[q] = None /\ told[q] = None /\ unclaimed[q] = None
    /\ q \in held => handoff[q] = None /\ decided[q] = <<>>
    /\ q \notin held => answer[q] = None /\ handoff[q] \in Verdict /\ Accounted(q, handoff[q])

SettledInv(q) ==
  conn[q] = "settled" =>
    /\ q \notin held /\ answer[q] = None /\ told[q] = None /\ outcome[q] # None
    /\ outcome[q] = "covered" => handoff[q] = None /\ unclaimed[q] = None
    /\ outcome[q] # "covered" =>
         \/ /\ handoff[q] = None /\ unclaimed[q] = outcome[q]
            /\ ~closed /\ decided[q] = <<>>
         \/ /\ handoff[q] = outcome[q] /\ unclaimed[q] = None
            /\ Accounted(q, outcome[q])

EndedInv(q) ==
  conn[q] \in {"finished", "told", "cut"} =>
    /\ q \notin held /\ answer[q] = None /\ handoff[q] = None /\ unclaimed[q] = None
    /\ conn[q] = "finished" => told[q] = None /\ outcome[q] # None
    /\ outcome[q] \in Verdict =>
         decided[q] = <<outcome[q]>> \/ (decided[q] = <<>> /\ q \in lost)

QuestionInv(q) == NewInv(q) /\ WaitingInv(q) /\ SettledInv(q) /\ EndedInv(q)

Inv == Kinds /\ StopInv /\ \A q \in Questions : QuestionInv(q)

--------------------------------------------------------------------------------
LEMMA VerdictKinds ==
  /\ None \notin Verdict /\ None \notin Decisions /\ None # "covered"
  /\ Decisions \subseteq Verdict /\ Verdict \subseteq Outcomes /\ "covered" \notin Verdict
  /\ "timed-out" \in Verdict /\ "closed" \in Verdict /\ "covered" \in Outcomes
  /\ \A o \in Outcomes : o # "covered" => o \in Verdict
BY NoneAssumption DEF Verdict, Outcomes, Decisions

LEMMA EmptyLog == <<>> \in Seq(Outcomes)
OBVIOUS

LEMMA LogGrows ==
  ASSUME NEW s \in Seq(Outcomes), NEW o \in Outcomes
  PROVE  Append(s, o) \in Seq(Outcomes)
OBVIOUS

LEMMA OneLogGrows ==
  ASSUME NEW f \in [Questions -> Seq(Outcomes)], NEW a, NEW s \in Seq(Outcomes)
  PROVE  [f EXCEPT ![a] = s] \in [Questions -> Seq(Outcomes)]
OBVIOUS

\* The first record of a question is the whole of its log.
LEMMA FirstRecord ==
  ASSUME NEW o \in Outcomes
  PROVE  Append(<<>>, o) = <<o>> /\ <<o>> # <<>> /\ Len(<<o>>) = 1 /\ <<o>>[1] = o
OBVIOUS

LEMMA InvInit == Init => Inv
<1> SUFFICES ASSUME Init PROVE Inv
  OBVIOUS
<1>1. Kinds
  BY EmptyLog DEF Init, Kinds
<1>2. StopInv
  BY DEF Init, StopInv
<1>3. ASSUME NEW q \in Questions PROVE QuestionInv(q)
  BY <1>3 DEF Init, QuestionInv, NewInv, WaitingInv, SettledInv, EndedInv
<1> QED
  BY <1>1, <1>2, <1>3 DEF Inv

LEMMA TickInv ==
  ASSUME Inv, Tick
  PROVE  Inv'
<1> USE VerdictKinds
<1>1. Kinds'
  BY DEF Inv, Kinds, Tick, conns, log
<1>2. StopInv'
  BY DEF Inv, Kinds, StopInv, QuestionInv, NewInv, WaitingInv, SettledInv, EndedInv, Accounted,
     Tick, conns, log
<1>3. ASSUME NEW p \in Questions PROVE QuestionInv(p)'
  BY <1>3 DEF Inv, Kinds, StopInv, QuestionInv, NewInv, WaitingInv, SettledInv, EndedInv,
     Accounted, Tick, conns, log
<1> QED
  BY <1>1, <1>2, <1>3 DEF Inv

LEMMA AskRefusedInv ==
  ASSUME Inv, NEW q \in Questions, AskRefused(q)
  PROVE  Inv'
<1> USE VerdictKinds
<1>1. Kinds'
  BY DEF Inv, Kinds, AskRefused, Free, Fault, hold
<1>2. StopInv'
  BY DEF Inv, Kinds, StopInv, QuestionInv, NewInv, WaitingInv, SettledInv, EndedInv, Accounted,
     AskRefused, Free, Fault, hold
<1>3. ASSUME NEW p \in Questions, p # q PROVE QuestionInv(p)'
  BY <1>3 DEF Inv, Kinds, StopInv, QuestionInv, NewInv, WaitingInv, SettledInv, EndedInv,
     Accounted, AskRefused, Free, Fault, hold
<1>4. QuestionInv(q)'
  BY DEF Inv, Kinds, StopInv, QuestionInv, NewInv, WaitingInv, SettledInv, EndedInv, Accounted,
     AskRefused, Free, Fault, hold
<1> QED
  BY <1>1, <1>2, <1>3, <1>4 DEF Inv

LEMMA AskCoveredInv ==
  ASSUME Inv, NEW q \in Questions, AskCovered(q)
  PROVE  Inv'
<1> USE VerdictKinds
<1>1. Kinds'
  BY DEF Inv, Kinds, AskCovered, Free, hold
<1>2. StopInv'
  BY DEF Inv, Kinds, StopInv, QuestionInv, NewInv, WaitingInv, SettledInv, EndedInv, Accounted,
     AskCovered, Free, hold
<1>3. ASSUME NEW p \in Questions, p # q PROVE QuestionInv(p)'
  BY <1>3 DEF Inv, Kinds, StopInv, QuestionInv, NewInv, WaitingInv, SettledInv, EndedInv,
     Accounted, AskCovered, Free, hold
<1>4. QuestionInv(q)'
  BY DEF Inv, Kinds, StopInv, QuestionInv, NewInv, WaitingInv, SettledInv, EndedInv, Accounted,
     AskCovered, Free, hold
<1> QED
  BY <1>1, <1>2, <1>3, <1>4 DEF Inv

LEMMA AskInv ==
  ASSUME Inv, NEW q \in Questions, Ask(q)
  PROVE  Inv'
<1> USE VerdictKinds
<1>1. Kinds'
  BY DEF Inv, Kinds, Ask, Free
<1>2. StopInv'
  BY DEF Inv, Kinds, StopInv, QuestionInv, NewInv, WaitingInv, SettledInv, EndedInv, Accounted,
     Ask, Free
<1>3. ASSUME NEW p \in Questions, p # q PROVE QuestionInv(p)'
  BY <1>3 DEF Inv, Kinds, StopInv, QuestionInv, NewInv, WaitingInv, SettledInv, EndedInv,
     Accounted, Ask, Free
<1>4. QuestionInv(q)'
  BY DEF Inv, Kinds, StopInv, QuestionInv, NewInv, WaitingInv, SettledInv, EndedInv, Accounted,
     Ask, Free
<1> QED
  BY <1>1, <1>2, <1>3, <1>4 DEF Inv

LEMMA AnswerInv ==
  ASSUME Inv, NEW q \in Questions, NEW d \in Decisions, Answer(q, d)
  PROVE  Inv'
<1> USE VerdictKinds
<1>1. Kinds'
  BY DEF Inv, Kinds, Answer, Answerable, Free, conns, log
<1>2. StopInv'
  BY DEF Inv, Kinds, StopInv, QuestionInv, NewInv, WaitingInv, SettledInv, EndedInv, Accounted,
     Answer, Answerable, Free, conns, log
<1>3. ASSUME NEW p \in Questions, p # q PROVE QuestionInv(p)'
  BY <1>3 DEF Inv, Kinds, StopInv, QuestionInv, NewInv, WaitingInv, SettledInv, EndedInv,
     Accounted, Answer, Answerable, Free, conns, log
<1>4. QuestionInv(q)'
  BY DEF Inv, Kinds, StopInv, QuestionInv, NewInv, WaitingInv, SettledInv, EndedInv, Accounted,
     Answer, Answerable, Free, conns, log
<1> QED
  BY <1>1, <1>2, <1>3, <1>4 DEF Inv

LEMMA SettleInv ==
  ASSUME Inv, NEW q \in Questions, NEW o \in Outcomes, Settle(q, o)
  PROVE  Inv'
<1> USE VerdictKinds
<1>1. Kinds'
  BY DEF Inv, Kinds, Settle, Forget, log
<1>2. StopInv'
  BY DEF Inv, Kinds, StopInv, QuestionInv, NewInv, WaitingInv, SettledInv, EndedInv, Accounted,
     Settle, Forget, log
<1>3. ASSUME NEW p \in Questions, p # q PROVE QuestionInv(p)'
  BY <1>3 DEF Inv, Kinds, StopInv, QuestionInv, NewInv, WaitingInv, SettledInv, EndedInv,
     Accounted, Settle, Forget, log
<1>4. QuestionInv(q)'
  BY DEF Inv, Kinds, StopInv, QuestionInv, NewInv, WaitingInv, SettledInv, EndedInv, Accounted,
     Settle, Forget, log
<1> QED
  BY <1>1, <1>2, <1>3, <1>4 DEF Inv

LEMMA SettleDrainedInv ==
  ASSUME Inv, NEW q \in Questions, SettleDrained(q)
  PROVE  Inv'
<1> USE VerdictKinds
<1>1. Kinds'
  BY DEF Inv, Kinds, SettleDrained, Drained, HandedOver, hold, log
<1>2. StopInv'
  BY DEF Inv, Kinds, StopInv, QuestionInv, NewInv, WaitingInv, SettledInv, EndedInv, Accounted,
     SettleDrained, Drained, HandedOver, hold, log
<1>3. ASSUME NEW p \in Questions, p # q PROVE QuestionInv(p)'
  BY <1>3 DEF Inv, Kinds, StopInv, QuestionInv, NewInv, WaitingInv, SettledInv, EndedInv,
     Accounted, SettleDrained, Drained, HandedOver, hold, log
<1>4. QuestionInv(q)'
  BY DEF Inv, Kinds, StopInv, QuestionInv, NewInv, WaitingInv, SettledInv, EndedInv, Accounted,
     SettleDrained, Drained, HandedOver, hold, log
<1> QED
  BY <1>1, <1>2, <1>3, <1>4 DEF Inv

LEMMA FinishInv ==
  ASSUME Inv, NEW q \in Questions, Finish(q)
  PROVE  Inv'
<1> USE VerdictKinds
<1>0. outcome[q] \in Outcomes /\ decided[q] \in Seq(Outcomes)
  BY DEF Inv, Kinds, QuestionInv, SettledInv, Finish
<1>a. Append(decided[q], outcome[q]) \in Seq(Outcomes)
  BY <1>0, LogGrows
<1>b. decided[q] = <<>> => Append(decided[q], outcome[q]) = <<outcome[q]>>
  BY <1>0, FirstRecord
<1>1. Kinds'
  <2>1. decided' \in [Questions -> Seq(Outcomes)]
    BY <1>a DEF Inv, Kinds, Finish
  <2> QED
    BY <2>1 DEF Inv, Kinds, Finish
<1>2. StopInv'
  BY DEF Inv, Kinds, StopInv, Finish, Free
<1>3. ASSUME NEW p \in Questions, p # q PROVE QuestionInv(p)'
  BY <1>3 DEF Inv, Kinds, StopInv, QuestionInv, NewInv, WaitingInv, SettledInv, EndedInv,
     Accounted, Finish
<1>4. QuestionInv(q)'
  <2>1. /\ conn'[q] = "finished" /\ handoff'[q] = None /\ unclaimed'[q] = None
        /\ UNCHANGED <<held, answer, outcome, told>>
    BY DEF Inv, Kinds, QuestionInv, NewInv, WaitingInv, SettledInv, EndedInv, Finish, Taken
  <2>2. outcome[q] \in Verdict =>
          decided'[q] = <<outcome[q]>> \/ (decided'[q] = <<>> /\ q \in lost')
    <3> SUFFICES ASSUME outcome[q] \in Verdict
                 PROVE decided'[q] = <<outcome[q]>> \/ (decided'[q] = <<>> /\ q \in lost')
      OBVIOUS
    <3>1. owed = {}
      BY DEF Inv, StopInv, Finish, Free
    <3>2. CASE Taken(q)
      <4>1. handoff[q] = outcome[q] /\ Accounted(q, outcome[q])
        BY <3>2 DEF Inv, QuestionInv, SettledInv, Finish, Taken
      <4> QED
        BY <3>1, <3>2, <4>1 DEF Accounted, Finish
    <3>3. CASE ~Taken(q)
      <4>1. ~sealed /\ decided[q] = <<>>
        BY <3>3 DEF Inv, StopInv, QuestionInv, SettledInv, Finish, Taken
      <4>2. decided' = [decided EXCEPT ![q] = Append(decided[q], outcome[q])]
              \/ (UNCHANGED decided /\ q \in lost')
        BY <3>3, <4>1 DEF Finish
      <4> QED
        BY <1>b, <4>1, <4>2 DEF Inv, Kinds
    <3> QED
      BY <3>2, <3>3
  <2> QED
    BY <2>1, <2>2 DEF Inv, Kinds, StopInv, QuestionInv, NewInv, WaitingInv, SettledInv, EndedInv,
       Finish
<1> QED
  BY <1>1, <1>2, <1>3, <1>4 DEF Inv

LEMMA ReplyInv ==
  ASSUME Inv, NEW q \in Questions, Reply(q)
  PROVE  Inv'
<1> USE VerdictKinds
<1>1. Kinds'
  BY DEF Inv, Kinds, Reply, hold, log
<1>2. StopInv'
  BY DEF Inv, Kinds, StopInv, QuestionInv, NewInv, WaitingInv, SettledInv, EndedInv, Accounted,
     Reply, hold, log
<1>3. ASSUME NEW p \in Questions, p # q PROVE QuestionInv(p)'
  BY <1>3 DEF Inv, Kinds, StopInv, QuestionInv, NewInv, WaitingInv, SettledInv, EndedInv,
     Accounted, Reply, hold, log
<1>4. QuestionInv(q)'
  BY DEF Inv, Kinds, StopInv, QuestionInv, NewInv, WaitingInv, SettledInv, EndedInv, Accounted,
     Reply, hold, log
<1> QED
  BY <1>1, <1>2, <1>3, <1>4 DEF Inv

LEMMA SetPausedInv ==
  ASSUME Inv, SetPaused
  PROVE  Inv'
<1> USE VerdictKinds
<1>1. Kinds'
  BY DEF Inv, Kinds, SetPaused, conns, log
<1>2. StopInv'
  BY DEF Inv, Kinds, StopInv, QuestionInv, NewInv, WaitingInv, SettledInv, EndedInv, Accounted,
     SetPaused, conns, log
<1>3. ASSUME NEW p \in Questions PROVE QuestionInv(p)'
  BY <1>3 DEF Inv, Kinds, StopInv, QuestionInv, NewInv, WaitingInv, SettledInv, EndedInv,
     Accounted, SetPaused, conns, log
<1> QED
  BY <1>1, <1>2, <1>3 DEF Inv

LEMMA RevokeRememberedInv ==
  ASSUME Inv, RevokeRemembered
  PROVE  Inv'
<1> USE VerdictKinds
<1>1. Kinds'
  BY DEF Inv, Kinds, RevokeRemembered, conns, log
<1>2. StopInv'
  BY DEF Inv, Kinds, StopInv, QuestionInv, NewInv, WaitingInv, SettledInv, EndedInv, Accounted,
     RevokeRemembered, conns, log
<1>3. ASSUME NEW p \in Questions PROVE QuestionInv(p)'
  BY <1>3 DEF Inv, Kinds, StopInv, QuestionInv, NewInv, WaitingInv, SettledInv, EndedInv,
     Accounted, RevokeRemembered, conns, log
<1> QED
  BY <1>1, <1>2, <1>3 DEF Inv

LEMMA BeginCloseInv ==
  ASSUME Inv, BeginClose
  PROVE  Inv'
<1> USE VerdictKinds
<1>0. /\ closed' /\ ~sealed' /\ held' = {} /\ stop' = "closing"
      /\ answer' = [q \in Questions |-> IF q \in held THEN None ELSE answer[q]]
      /\ handoff' = [q \in Questions |->
                       IF q \in held THEN DrainedAs(q)
                       ELSE IF q \in Claimed THEN unclaimed[q] ELSE handoff[q]]
      /\ unclaimed' = [q \in Questions |-> IF q \in Claimed THEN None ELSE unclaimed[q]]
      /\ owed' = {<<q, DrainedAs(q)>> : q \in held} \cup {<<q, unclaimed[q]>> : q \in Claimed}
      /\ UNCHANGED <<conns, log, lost>> /\ owed = {}
  BY DEF Inv, StopInv, BeginClose, Free, Forget, log
<1>a. \A q \in held : DrainedAs(q) \in Verdict /\ decided[q] = <<>> /\ q \notin Claimed
                      /\ q \in Questions /\ conn[q] = "waiting"
  BY DEF Inv, Kinds, QuestionInv, NewInv, WaitingInv, SettledInv, EndedInv, DrainedAs, Claimed
<1>b. \A q \in Claimed : /\ unclaimed[q] \in Verdict /\ decided[q] = <<>> /\ q \in Questions
                         /\ conn[q] = "settled" /\ outcome[q] = unclaimed[q]
  BY DEF Inv, Kinds, QuestionInv, NewInv, WaitingInv, SettledInv, EndedInv, Claimed
<1>1. Kinds'
  BY <1>0, <1>a, <1>b DEF Inv, Kinds, conns, log
<1>2. StopInv'
  <2>1. ASSUME NEW r \in owed'
        PROVE  r \in Questions \X Verdict /\ r[2] = handoff'[r[1]] /\ decided'[r[1]] = <<>>
    <3>1. CASE r \in {<<q, DrainedAs(q)>> : q \in held}
      BY <1>0, <1>a, <3>1 DEF log
    <3>2. CASE r \in {<<q, unclaimed[q]>> : q \in Claimed}
      BY <1>0, <1>a, <1>b, <3>2 DEF log
    <3> QED
      BY <1>0, <2>1, <3>1, <3>2
  <2> QED
    BY <1>0, <2>1 DEF StopInv, log
<1>3. ASSUME NEW p \in Questions PROVE QuestionInv(p)'
  <2>1. CASE p \in held
    BY <1>0, <1>a, <2>1 DEF Inv, Kinds, QuestionInv, NewInv, WaitingInv, SettledInv, EndedInv,
       Accounted, conns, log
  <2>2. CASE p \in Claimed
    BY <1>0, <1>a, <1>b, <2>2 DEF Inv, Kinds, QuestionInv, NewInv, WaitingInv, SettledInv,
       EndedInv, Accounted, conns, log
  <2>3. CASE p \notin held /\ p \notin Claimed
    BY <1>0, <2>3 DEF Inv, Kinds, QuestionInv, NewInv, WaitingInv, SettledInv, EndedInv,
       Accounted, Claimed, conns, log
  <2> QED
    BY <2>1, <2>2, <2>3
<1> QED
  BY <1>1, <1>2, <1>3 DEF Inv

LEMMA CloseAppendInv ==
  ASSUME Inv, NEW r \in owed, CloseAppend(r)
  PROVE  Inv'
<1> USE VerdictKinds
<1> DEFINE a == r[1]
<1>0. /\ a \in Questions /\ handoff[a] \in Verdict /\ r = <<a, handoff[a]>>
      /\ r[2] = handoff[a] /\ decided[a] = <<>>
  BY DEF Inv, StopInv
<1>b. Append(decided[a], r[2]) = <<handoff[a]>> /\ <<handoff[a]>> \in Seq(Outcomes)
  BY <1>0, FirstRecord, LogGrows
<1>c. \/ decided' = [decided EXCEPT ![a] = <<handoff[a]>>] /\ UNCHANGED lost
      \/ UNCHANGED decided /\ lost' = lost \cup {a}
  BY <1>b DEF CloseAppend
<1>d. owed' = owed \ {r} /\ UNCHANGED <<hold, conns, stop, sealed>>
  BY DEF CloseAppend
<1> HIDE DEF a
<1>1. Kinds'
  <2>1. decided \in [Questions -> Seq(Outcomes)]
    BY DEF Inv, Kinds
  <2>2. [decided EXCEPT ![a] = <<handoff[a]>>] \in [Questions -> Seq(Outcomes)]
    BY ONLY <1>0, <1>b, <2>1, OneLogGrows
  <2>3. decided' \in [Questions -> Seq(Outcomes)]
    BY <1>c, <2>1, <2>2
  <2> QED
    BY <1>d, <2>3 DEF Inv, Kinds, hold, conns
<1>2. StopInv'
  <2>1. ASSUME NEW s \in owed' PROVE s[1] # a /\ s \in owed
    BY <1>0, <1>d, <2>1 DEF Inv, StopInv
  <2>2. ASSUME NEW s \in owed' PROVE decided'[s[1]] = <<>>
    BY <1>0, <1>c, <2>1, <2>2 DEF Inv, Kinds, StopInv
  <2> QED
    BY <1>d, <2>1, <2>2 DEF Inv, StopInv, hold
<1>3. ASSUME NEW p \in Questions, p # a PROVE QuestionInv(p)'
  <2>1. decided'[p] = decided[p] /\ (p \in lost => p \in lost')
    BY <1>0, <1>c, <1>3 DEF Inv, Kinds
  <2>2. \A v : <<p, v>> \in owed => <<p, v>> \in owed'
    BY <1>0, <1>d, <1>3
  <2> QED
    BY <1>d, <2>1, <2>2 DEF Inv, Kinds, StopInv, QuestionInv, NewInv, WaitingInv, SettledInv,
       EndedInv, Accounted, hold, conns
<1>4. QuestionInv(a)'
  <2>1. decided'[a] = <<handoff[a]>> \/ (decided'[a] = <<>> /\ a \in lost')
    BY <1>0, <1>c DEF Inv, Kinds
  <2> QED
    BY <1>0, <1>d, <2>1 DEF Inv, Kinds, StopInv, QuestionInv, NewInv, WaitingInv, SettledInv,
       EndedInv, Accounted, hold, conns
<1> QED
  BY <1>1, <1>2, <1>3, <1>4 DEF Inv

LEMMA SealLogInv ==
  ASSUME Inv, SealLog
  PROVE  Inv'
<1> USE VerdictKinds
<1>1. Kinds'
  BY DEF Inv, Kinds, SealLog, Fault, hold, conns
<1>2. StopInv'
  BY DEF Inv, Kinds, StopInv, QuestionInv, NewInv, WaitingInv, SettledInv, EndedInv, Accounted,
     SealLog, Fault, hold, conns
<1>3. ASSUME NEW p \in Questions PROVE QuestionInv(p)'
  BY <1>3 DEF Inv, Kinds, StopInv, QuestionInv, NewInv, WaitingInv, SettledInv, EndedInv,
     Accounted, SealLog, Fault, hold, conns
<1> QED
  BY <1>1, <1>2, <1>3 DEF Inv

LEMMA CrashInv ==
  ASSUME Inv, Crash
  PROVE  Inv'
<1> USE VerdictKinds
<1>1. Kinds'
  BY DEF Inv, Kinds, Crash, Forget, Decision, Fault, log
<1>2. StopInv'
  BY DEF Inv, Kinds, StopInv, QuestionInv, NewInv, WaitingInv, SettledInv, EndedInv, Accounted,
     Crash, Forget, Decision, Fault, log
<1>3. ASSUME NEW p \in Questions PROVE QuestionInv(p)'
  BY <1>3 DEF Inv, Kinds, StopInv, QuestionInv, NewInv, WaitingInv, SettledInv, EndedInv,
     Accounted, Crash, Forget, Decision, Fault, log
<1> QED
  BY <1>1, <1>2, <1>3 DEF Inv

LEMMA StutterInv ==
  ASSUME Inv, UNCHANGED vars
  PROVE  Inv'
<1> USE VerdictKinds
<1>1. Kinds'
  BY DEF Inv, Kinds, vars, hold, conns, log
<1>2. StopInv'
  BY DEF Inv, Kinds, StopInv, QuestionInv, NewInv, WaitingInv, SettledInv, EndedInv, Accounted,
     vars, hold, conns, log
<1>3. ASSUME NEW p \in Questions PROVE QuestionInv(p)'
  BY <1>3 DEF Inv, Kinds, StopInv, QuestionInv, NewInv, WaitingInv, SettledInv, EndedInv,
     Accounted, vars, hold, conns, log
<1> QED
  BY <1>1, <1>2, <1>3 DEF Inv

LEMMA InvStep == Inv /\ [Next]_vars => Inv'
<1> SUFFICES ASSUME Inv, [Next]_vars PROVE Inv'
  OBVIOUS
<1> QED
  BY TickInv, AskRefusedInv, AskCoveredInv, AskInv, AnswerInv, SettleInv, SettleDrainedInv,
     FinishInv,
     ReplyInv, SetPausedInv, RevokeRememberedInv, BeginCloseInv, CloseAppendInv, SealLogInv, CrashInv,
     StutterInv DEF Next

LEMMA InvHolds == Spec => []Inv
BY InvInit, InvStep, PTL DEF Spec

--------------------------------------------------------------------------------
(* What a step of DecideOnce looks like, question by question *)

Verd(q) == Of(q, Decision(q))
Heard(q) == Of(q, told[q])

LEMMA MapsStill ==
  ASSUME \A q \in Questions : /\ Verd(q)' = Verd(q) /\ TheRecord(q)' = TheRecord(q)
                              /\ Heard(q)' = Heard(q),
         UNCHANGED <<lost, sealed>>
  PROVE  UNCHANGED Once!vars
BY DEF Once!vars, Verd, Heard

LEMMA MapsDecide ==
  ASSUME NEW S \in SUBSET Questions, NEW v \in Outcomes, ~sealed,
         \A q \in S : Verd(q) = None,
         \A q \in Questions : /\ Verd(q)' = (IF q \in S THEN v ELSE Verd(q))
                              /\ TheRecord(q)' = TheRecord(q) /\ Heard(q)' = Heard(q),
         UNCHANGED <<lost, sealed>>
  PROVE  Once!Next
<1>1. Once!Decide(S, v)
  BY DEF Once!Decide, Verd, Heard
<1> QED
  BY <1>1 DEF Once!Next

LEMMA MapsRecord ==
  ASSUME NEW q \in Questions, ~sealed, Verd(q) # None, TheRecord(q) = None,
         TheRecord(q)' = Verd(q),
         \A p \in Questions : /\ Verd(p)' = Verd(p) /\ Heard(p)' = Heard(p)
                              /\ p # q => TheRecord(p)' = TheRecord(p),
         UNCHANGED <<lost, sealed>>
  PROVE  Once!Next
<1>1. Once!Record(q)
  BY DEF Once!Record, Verd, Heard
<1> QED
  BY <1>1 DEF Once!Next

LEMMA MapsWaive ==
  ASSUME NEW S \in SUBSET Questions, \A q \in S : TheRecord(q) = None,
         \A q \in Questions : /\ Verd(q)' = Verd(q) /\ TheRecord(q)' = TheRecord(q)
                              /\ Heard(q)' = Heard(q),
         lost' = lost \cup S, UNCHANGED sealed
  PROVE  Once!Next
<1>1. Once!Waive(S)
  BY DEF Once!Waive, Verd, Heard
<1> QED
  BY <1>1 DEF Once!Next

LEMMA MapsTell ==
  ASSUME NEW q \in Questions, Verd(q) # None, Heard(q) = None,
         TheRecord(q) # None \/ q \in lost, Heard(q)' = Verd(q),
         \A p \in Questions : /\ Verd(p)' = Verd(p) /\ TheRecord(p)' = TheRecord(p)
                              /\ p # q => Heard(p)' = Heard(p),
         UNCHANGED <<lost, sealed>>
  PROVE  Once!Next
<1>1. Once!Tell(q)
  BY DEF Once!Tell, Verd, Heard
<1> QED
  BY <1>1 DEF Once!Next

LEMMA MapsSeal ==
  ASSUME ~sealed, sealed', \A q \in Questions : Verd(q) # None => TheRecord(q) # None \/ q \in lost,
         sealed' \in BOOLEAN,
         \A q \in Questions : /\ Verd(q)' = Verd(q) /\ TheRecord(q)' = TheRecord(q)
                              /\ Heard(q)' = Heard(q),
         UNCHANGED lost
  PROVE  Once!Next
<1>1. Once!Seal
  BY DEF Once!Seal, Verd, Heard
<1> QED
  BY <1>1 DEF Once!Next

LEMMA InitMaps == Init => Once!Init
BY DEF Init, Once!Init, Of, Decision, TheRecord

LEMMA TickMaps ==
  ASSUME Inv, Tick
  PROVE  UNCHANGED Once!vars
<1> USE VerdictKinds
<1>1. ASSUME NEW p \in Questions
      PROVE  Verd(p)' = Verd(p) /\ TheRecord(p)' = TheRecord(p) /\ Heard(p)' = Heard(p)
  BY <1>1 DEF Inv, Kinds, QuestionInv, NewInv, WaitingInv, SettledInv, EndedInv, Verd, Heard, Of,
     Decision, TheRecord, Tick, conns, log
<1> QED
  BY <1>1, MapsStill DEF Tick, conns, log

LEMMA AskRefusedMaps ==
  ASSUME Inv, NEW q \in Questions, AskRefused(q)
  PROVE  UNCHANGED Once!vars
<1> USE VerdictKinds
<1>1. ASSUME NEW p \in Questions
      PROVE  Verd(p)' = Verd(p) /\ TheRecord(p)' = TheRecord(p) /\ Heard(p)' = Heard(p)
  BY <1>1 DEF Inv, Kinds, QuestionInv, NewInv, WaitingInv, SettledInv, EndedInv, Verd, Heard, Of,
     Decision, TheRecord, AskRefused, hold
<1> QED
  BY <1>1, MapsStill DEF AskRefused, hold

LEMMA AskCoveredMaps ==
  ASSUME Inv, NEW q \in Questions, AskCovered(q)
  PROVE  UNCHANGED Once!vars
<1> USE VerdictKinds
<1>1. ASSUME NEW p \in Questions
      PROVE  Verd(p)' = Verd(p) /\ TheRecord(p)' = TheRecord(p) /\ Heard(p)' = Heard(p)
  BY <1>1 DEF Inv, Kinds, QuestionInv, NewInv, WaitingInv, SettledInv, EndedInv, Verd, Heard, Of,
     Decision, TheRecord, AskCovered, hold
<1> QED
  BY <1>1, MapsStill DEF AskCovered, hold

LEMMA AskMaps ==
  ASSUME Inv, NEW q \in Questions, Ask(q)
  PROVE  UNCHANGED Once!vars
<1> USE VerdictKinds
<1>1. ASSUME NEW p \in Questions
      PROVE  Verd(p)' = Verd(p) /\ TheRecord(p)' = TheRecord(p) /\ Heard(p)' = Heard(p)
  BY <1>1 DEF Inv, Kinds, QuestionInv, NewInv, WaitingInv, SettledInv, EndedInv, Verd, Heard, Of,
     Decision, TheRecord, Ask
<1> QED
  BY <1>1, MapsStill DEF Ask

LEMMA SettleDrainedMaps ==
  ASSUME Inv, NEW q \in Questions, SettleDrained(q)
  PROVE  UNCHANGED Once!vars
<1> USE VerdictKinds
<1>1. ASSUME NEW p \in Questions
      PROVE  Verd(p)' = Verd(p) /\ TheRecord(p)' = TheRecord(p) /\ Heard(p)' = Heard(p)
  BY <1>1 DEF Inv, Kinds, QuestionInv, NewInv, WaitingInv, SettledInv, EndedInv, Verd, Heard, Of,
     Decision, TheRecord, SettleDrained, Drained, HandedOver, hold, log
<1> QED
  BY <1>1, MapsStill DEF SettleDrained, Drained, HandedOver, hold, log

LEMMA SetPausedMaps ==
  ASSUME Inv, SetPaused
  PROVE  UNCHANGED Once!vars
<1> USE VerdictKinds
<1>1. ASSUME NEW p \in Questions
      PROVE  Verd(p)' = Verd(p) /\ TheRecord(p)' = TheRecord(p) /\ Heard(p)' = Heard(p)
  BY <1>1 DEF Inv, Kinds, QuestionInv, NewInv, WaitingInv, SettledInv, EndedInv, Verd, Heard, Of,
     Decision, TheRecord, SetPaused, conns, log
<1> QED
  BY <1>1, MapsStill DEF SetPaused, conns, log

LEMMA RevokeRememberedMaps ==
  ASSUME Inv, RevokeRemembered
  PROVE  UNCHANGED Once!vars
<1> USE VerdictKinds
<1>1. ASSUME NEW p \in Questions
      PROVE  Verd(p)' = Verd(p) /\ TheRecord(p)' = TheRecord(p) /\ Heard(p)' = Heard(p)
  BY <1>1 DEF Inv, Kinds, QuestionInv, NewInv, WaitingInv, SettledInv, EndedInv, Verd, Heard, Of,
     Decision, TheRecord, RevokeRemembered, conns, log
<1> QED
  BY <1>1, MapsStill DEF RevokeRemembered, conns, log

LEMMA StutterMaps ==
  ASSUME Inv, UNCHANGED vars
  PROVE  UNCHANGED Once!vars
<1> USE VerdictKinds
<1>1. ASSUME NEW p \in Questions
      PROVE  Verd(p)' = Verd(p) /\ TheRecord(p)' = TheRecord(p) /\ Heard(p)' = Heard(p)
  BY <1>1 DEF Inv, Kinds, QuestionInv, NewInv, WaitingInv, SettledInv, EndedInv, Verd, Heard, Of,
     Decision, TheRecord, vars, hold, conns, log
<1> QED
  BY <1>1, MapsStill DEF vars, hold, conns, log

LEMMA AnswerMaps ==
  ASSUME Inv, NEW q \in Questions, NEW d \in Decisions, Answer(q, d)
  PROVE  Once!Next
<1> USE VerdictKinds
<1>1. ~sealed /\ Verd(q) = None /\ outcome[q] = None
  BY DEF Inv, Kinds, StopInv, QuestionInv, NewInv, WaitingInv, SettledInv, EndedInv, Verd, Of,
     Decision, Answer, Answerable
<1>2. ASSUME NEW p \in Questions
      PROVE  /\ Verd(p)' = (IF p \in {q} THEN d ELSE Verd(p))
             /\ TheRecord(p)' = TheRecord(p) /\ Heard(p)' = Heard(p)
  BY <1>1, <1>2 DEF Inv, Kinds, Verd, Heard, Of, Decision, TheRecord, Answer, conns, log
<1>3. UNCHANGED <<lost, sealed>> /\ d \in Outcomes
  BY DEF Answer, log
<1> QED
  BY <1>1, <1>2, <1>3, MapsDecide

LEMMA SettleMaps ==
  ASSUME Inv, NEW q \in Questions, NEW o \in Outcomes, Settle(q, o)
  PROVE  Once!Next \/ UNCHANGED Once!vars
<1> USE VerdictKinds
<1>1. /\ ~sealed /\ outcome[q] = None /\ handoff[q] = None /\ o \in Verdict /\ decided[q] = <<>>
      /\ told[q] = None
  BY DEF Inv, Kinds, StopInv, QuestionInv, NewInv, WaitingInv, SettledInv, EndedInv, Settle
<1>2. ASSUME NEW p \in Questions
      PROVE  TheRecord(p)' = TheRecord(p) /\ Heard(p)' = Heard(p)
  BY <1>1, <1>2 DEF Inv, Kinds, Heard, Of, TheRecord, Settle, log
<1>3. ASSUME NEW p \in Questions
      PROVE  Verd(p)' = (IF p = q THEN o ELSE Verd(p))
  BY <1>1, <1>3 DEF Inv, Kinds, Verd, Of, Decision, Settle, Forget
<1>4. UNCHANGED <<lost, sealed>>
  BY DEF Settle, log
<1>5. CASE answer[q] # None
  <2>1. Verd(q) = o
    BY <1>1, <1>5 DEF Verd, Of, Decision, Settle
  <2> QED
    BY <1>2, <1>3, <1>4, <2>1, MapsStill
<1>6. CASE answer[q] = None
  <2>1. \A p \in {q} : Verd(p) = None
    BY <1>1, <1>6 DEF Verd, Of, Decision
  <2>2. \A p \in Questions : Verd(p)' = IF p \in {q} THEN o ELSE Verd(p)
    BY <1>3
  <2> QED
    BY <1>1, <1>2, <1>4, <2>1, <2>2, MapsDecide
<1> QED
  BY <1>5, <1>6

LEMMA FinishMaps ==
  ASSUME Inv, NEW q \in Questions, Finish(q)
  PROVE  Once!Next \/ UNCHANGED Once!vars
<1> USE VerdictKinds
<1>1. ASSUME NEW p \in Questions
      PROVE  Verd(p)' = Verd(p) /\ Heard(p)' = Heard(p)
  BY <1>1 DEF Inv, Kinds, QuestionInv, NewInv, WaitingInv, SettledInv, EndedInv, Verd, Heard, Of,
     Decision, Finish
<1>2. ASSUME NEW p \in Questions, p # q
      PROVE  TheRecord(p)' = TheRecord(p)
  BY <1>2 DEF Inv, Kinds, Of, TheRecord, Finish
<1>3. ASSUME UNCHANGED decided \/ outcome[q] = "covered"
      PROVE  TheRecord(q)' = TheRecord(q)
  BY <1>3 DEF Of, TheRecord, Finish
<1>4. CASE ~Taken(q) /\ lost' = lost \cup {q} /\ UNCHANGED decided
  <2>1. TheRecord(q) = None
    BY <1>4 DEF Inv, QuestionInv, NewInv, WaitingInv, SettledInv, EndedInv, Of, TheRecord, Finish,
       Taken
  <2> QED
    BY <1>1, <1>2, <1>3, <1>4, <2>1, MapsWaive DEF Finish
<1>5. CASE UNCHANGED <<decided, lost>>
  BY <1>1, <1>2, <1>3, <1>5, MapsStill DEF Finish
<1>6. CASE /\ ~Taken(q) /\ ~sealed /\ UNCHANGED lost
           /\ decided' = [decided EXCEPT ![q] = Append(@, outcome[q])]
  <2>1. CASE outcome[q] = "covered"
    BY <1>1, <1>2, <1>3, <1>6, <2>1, MapsStill DEF Finish
  <2>2. CASE outcome[q] # "covered"
    <3>1. decided[q] = <<>> /\ outcome[q] \in Outcomes /\ answer[q] = None /\ handoff[q] = None
      BY <1>6, <2>2 DEF Inv, Kinds, QuestionInv, NewInv, WaitingInv, SettledInv, EndedInv, Finish,
         Taken
    <3>2. decided'[q] = <<outcome[q]>> /\ <<outcome[q]>> # <<>>
          /\ Len(<<outcome[q]>>) = 1 /\ <<outcome[q]>>[1] = outcome[q]
      BY <1>6, <3>1, FirstRecord DEF Inv, Kinds
    <3>3. Verd(q) = outcome[q] /\ Verd(q) # None /\ TheRecord(q) = None /\ TheRecord(q)' = outcome[q]
      BY <2>2, <3>1, <3>2 DEF Verd, Of, Decision, TheRecord, Finish
    <3> QED
      BY <1>1, <1>2, <1>6, <3>3, MapsRecord DEF Finish
  <2> QED
    BY <2>1, <2>2
<1> QED
  BY <1>4, <1>5, <1>6 DEF Finish

LEMMA ReplyMaps ==
  ASSUME Inv, NEW q \in Questions, Reply(q)
  PROVE  Once!Next \/ UNCHANGED Once!vars
<1> USE VerdictKinds
<1>1. ASSUME NEW p \in Questions
      PROVE  /\ Verd(p)' = Verd(p) /\ TheRecord(p)' = TheRecord(p)
             /\ p # q \/ outcome[q] = "covered" => Heard(p)' = Heard(p)
  BY <1>1 DEF Inv, Kinds, Verd, Heard, Of, Decision, TheRecord, Reply, hold, log
<1>2. UNCHANGED <<lost, sealed>>
  BY DEF Reply, log
<1>3. CASE outcome[q] = "covered"
  BY <1>1, <1>2, <1>3, MapsStill
<1>4. CASE outcome[q] # "covered"
  <2>1. /\ answer[q] = None /\ handoff[q] = None /\ told[q] = None /\ outcome[q] \in Verdict
        /\ decided[q] = <<outcome[q]>> \/ q \in lost
    BY <1>4 DEF Inv, Kinds, QuestionInv, NewInv, WaitingInv, SettledInv, EndedInv, Reply
  <2>2. <<outcome[q]>> # <<>> /\ Len(<<outcome[q]>>) = 1 /\ <<outcome[q]>>[1] = outcome[q]
    BY <2>1, FirstRecord
  <2>3. TheRecord(q) # None \/ q \in lost
    BY <1>4, <2>1, <2>2 DEF TheRecord, Of
  <2>4. Verd(q) # None /\ Heard(q) = None /\ Heard(q)' = Verd(q)
    BY <1>4, <2>1 DEF Inv, Kinds, Verd, Heard, Of, Decision, Reply
  <2> QED
    BY <1>1, <1>2, <2>3, <2>4, MapsTell
<1> QED
  BY <1>3, <1>4

LEMMA BeginCloseMaps ==
  ASSUME Inv, BeginClose
  PROVE  Once!Next
<1> USE VerdictKinds
<1> DEFINE S == {q \in held : answer[q] = None}
<1>0. /\ ~sealed /\ UNCHANGED <<lost, sealed, decided, told, outcome>>
      /\ answer' = [q \in Questions |-> IF q \in held THEN None ELSE answer[q]]
      /\ handoff' = [q \in Questions |->
                       IF q \in held THEN DrainedAs(q)
                       ELSE IF q \in Claimed THEN unclaimed[q] ELSE handoff[q]]
  BY DEF BeginClose, Forget, conns, log
<1>1. S \in SUBSET Questions /\ \A q \in S : Verd(q) = None
  BY DEF Inv, Kinds, QuestionInv, NewInv, WaitingInv, SettledInv, EndedInv, Verd, Of, Decision
<1>2. ASSUME NEW p \in Questions
      PROVE  TheRecord(p)' = TheRecord(p) /\ Heard(p)' = Heard(p)
  BY <1>0, <1>2 DEF TheRecord, Heard, Of
<1>3. ASSUME NEW p \in Questions
      PROVE  Verd(p)' = IF p \in S THEN "closed" ELSE Verd(p)
  <2>1. CASE p \in held
    BY <1>0, <2>1 DEF Inv, Kinds, QuestionInv, NewInv, WaitingInv, SettledInv, EndedInv, Verd, Of,
       Decision, DrainedAs
  <2>2. CASE p \notin held /\ p \in Claimed
    BY <1>0, <2>2 DEF Inv, Kinds, QuestionInv, NewInv, WaitingInv, SettledInv, EndedInv, Verd, Of,
       Decision, Claimed
  <2>3. CASE p \notin held /\ p \notin Claimed
    BY <1>0, <2>3 DEF Inv, Kinds, Verd, Of, Decision
  <2> QED
    BY <2>1, <2>2, <2>3
<1> HIDE DEF S
<1> QED
  BY <1>0, <1>1, <1>2, <1>3, MapsDecide

LEMMA CloseAppendMaps ==
  ASSUME Inv, NEW r \in owed, CloseAppend(r)
  PROVE  Once!Next
<1> USE VerdictKinds
<1> DEFINE a == r[1]
<1>0. a \in Questions /\ handoff[a] \in Verdict /\ r[2] = handoff[a] /\ decided[a] = <<>> /\ ~sealed
  BY DEF Inv, StopInv
<1>1. outcome[a] # "covered" /\ answer[a] = None
  <2> HIDE DEF a
  <2>1. Kinds /\ QuestionInv(a)
    BY <1>0 DEF Inv
  <2> QED
    BY <1>0, <2>1 DEF Kinds, QuestionInv, NewInv, WaitingInv, SettledInv, EndedInv
<1>2. Verd(a) = handoff[a] /\ Verd(a) # None /\ TheRecord(a) = None
  BY <1>0, <1>1 DEF Verd, Of, Decision, TheRecord
<1>3. ASSUME NEW p \in Questions
      PROVE  Verd(p)' = Verd(p) /\ Heard(p)' = Heard(p)
  BY <1>3 DEF Verd, Heard, Of, Decision, CloseAppend, hold, conns
<1>4. CASE decided' = [decided EXCEPT ![a] = Append(@, r[2])] /\ UNCHANGED lost
  <2>1. Append(decided[a], r[2]) = <<handoff[a]>> /\ <<handoff[a]>> # <<>>
        /\ Len(<<handoff[a]>>) = 1 /\ <<handoff[a]>>[1] = handoff[a]
    BY <1>0, FirstRecord
  <2>2. decided'[a] = <<handoff[a]>> /\ \A p \in Questions : p # a => decided'[p] = decided[p]
    BY <1>0, <1>4, <2>1 DEF Inv, Kinds
  <2>3. UNCHANGED <<outcome, sealed>>
    BY DEF CloseAppend, conns
  <2> HIDE DEF a
  <2>4. TheRecord(a)' = Verd(a)
    BY <1>1, <1>2, <2>1, <2>2, <2>3 DEF TheRecord, Of
  <2>5. \A p \in Questions : p # a => TheRecord(p)' = TheRecord(p)
    BY <2>2, <2>3 DEF TheRecord, Of
  <2> QED
    BY <1>0, <1>2, <1>3, <1>4, <2>3, <2>4, <2>5, MapsRecord
<1>5. CASE lost' = lost \cup {a} /\ UNCHANGED decided
  <2>1. \A p \in Questions : TheRecord(p)' = TheRecord(p)
    BY <1>5 DEF TheRecord, Of, CloseAppend, conns
  <2>2. UNCHANGED sealed
    BY DEF CloseAppend
  <2> HIDE DEF a
  <2>3. {a} \in SUBSET Questions /\ \A p \in {a} : TheRecord(p) = None
    BY <1>0, <1>2
  <2> QED
    BY <1>3, <1>5, <2>1, <2>2, <2>3, MapsWaive
<1> QED
  BY <1>4, <1>5 DEF CloseAppend

LEMMA SealLogMaps ==
  ASSUME Inv, SealLog
  PROVE  Once!Next \/ UNCHANGED Once!vars
<1> USE VerdictKinds
<1>1. ASSUME NEW p \in Questions
      PROVE  Verd(p)' = Verd(p) /\ TheRecord(p)' = TheRecord(p) /\ Heard(p)' = Heard(p)
  BY <1>1 DEF Verd, Heard, Of, Decision, TheRecord, SealLog, hold, conns
<1>2. CASE UNCHANGED sealed
  BY <1>1, <1>2, MapsStill DEF SealLog
<1>3. CASE sealed' = TRUE
  <2>1. ~sealed /\ held = {} /\ owed = {} /\ closed
    BY DEF Inv, StopInv, SealLog
  <2>2. ASSUME NEW p \in Questions, Verd(p) # None
        PROVE  TheRecord(p) # None \/ p \in lost
    <3> DEFINE v == Verd(p)
    <3>1. outcome[p] # "covered" /\ v \in Verdict
      BY <2>2 DEF Inv, Kinds, Verd, Of, Decision
    <3>2. decided[p] = <<v>> \/ p \in lost
      BY <2>1, <2>2, <3>1 DEF Inv, Kinds, QuestionInv, NewInv, WaitingInv, SettledInv, EndedInv,
         Accounted, Verd, Of, Decision
    <3>3. <<v>> # <<>> /\ Len(<<v>>) = 1 /\ <<v>>[1] = v
      BY <3>1, FirstRecord
    <3> HIDE DEF v
    <3> QED
      BY <3>1, <3>2, <3>3 DEF TheRecord, Of
  <2> QED
    BY <1>1, <1>3, <2>1, <2>2, MapsSeal DEF SealLog
<1> QED
  BY <1>2, <1>3 DEF SealLog

LEMMA CrashMaps ==
  ASSUME Inv, Crash
  PROVE  Once!Next
<1> USE VerdictKinds
<1> DEFINE S == {q \in Questions : conn[q] \in {"waiting", "settled", "finished"} /\ decided[q] = <<>>}
<1>1. lost' = lost \cup S /\ UNCHANGED <<sealed, decided, told>>
  BY DEF Crash, log
<1>2. S \in SUBSET Questions /\ \A q \in S : TheRecord(q) = None
  BY DEF TheRecord, Of
<1>3. ASSUME NEW p \in Questions
      PROVE  /\ Verd(p)' = Verd(p)
             /\ outcome'[p] = "covered" <=> outcome[p] = "covered"
  <2>1. /\ answer'[p] = None /\ handoff'[p] = None
        /\ outcome'[p] = IF outcome[p] # None THEN outcome[p] ELSE Decision(p)
    BY DEF Inv, Kinds, QuestionInv, NewInv, WaitingInv, SettledInv, EndedInv, Crash, Forget
  <2>2. Decision(p) \in Verdict \cup {None} \/ outcome[p] # None
    BY DEF Inv, Kinds, Decision
  <2>3. outcome[p] \notin {None, "covered"} => Decision(p) = outcome[p]
    BY DEF Inv, Kinds, QuestionInv, NewInv, WaitingInv, SettledInv, EndedInv, Decision
  <2> QED
    BY <2>1, <2>2, <2>3 DEF Verd, Of, Decision
<1>4. ASSUME NEW p \in Questions
      PROVE  TheRecord(p)' = TheRecord(p) /\ Heard(p)' = Heard(p)
  BY <1>1, <1>3, <1>4 DEF TheRecord, Heard, Of
<1> HIDE DEF S
<1> QED
  BY <1>1, <1>2, <1>3, <1>4, MapsWaive

LEMMA StepMaps == Inv /\ [Next]_vars => [Once!Next]_(Once!vars)
<1> SUFFICES ASSUME Inv, [Next]_vars PROVE Once!Next \/ UNCHANGED Once!vars
  OBVIOUS
<1> QED
  BY TickMaps, AskRefusedMaps, AskCoveredMaps, AskMaps, AnswerMaps, SettleMaps, SettleDrainedMaps,
     FinishMaps, ReplyMaps, SetPausedMaps, RevokeRememberedMaps, BeginCloseMaps, CloseAppendMaps,
     SealLogMaps, CrashMaps, StutterMaps DEF Next

\* The daemon's hold implements DecideOnce: whatever answers, expiries, waiters, a stop and
\* daemon deaths do to each other, a question is decided once, its decision is recorded once,
\* before the hook hears it, and no log is sealed over a decision it lacks
\* (Approvals::wait, close and take_recorded; Served::hold).
THEOREM HoldDecidesOnce == Spec => DecidesOnce
BY InvHolds, InitMaps, StepMaps, PTL DEF Spec, DecidesOnce, Once!Spec

--------------------------------------------------------------------------------
(* The decision clock *)

\* The clock of a held question stands exactly while the session is paused, and has left what
\* its decision time lacks of the unpaused ticks the question was open for.
Clock(q) ==
  IF q \in held
  THEN /\ left[q] \in 0..Timeout /\ ran[q] \in 0..Timeout \cup {None}
       /\ paused <=> ran[q] = None
       /\ open[q] = Timeout - Remaining(q)
  ELSE open[q] = 0

ClockInv ==
  /\ DOMAIN left = Questions /\ DOMAIN ran = Questions /\ DOMAIN open = Questions
  /\ paused \in BOOLEAN
  /\ \A q \in Questions : Clock(q)

LEMMA Ticks == Timeout \in Nat /\ Timeout > 0 /\ \A n \in 0..Timeout : n # None
BY ApprovalsAssumption, NoneAssumption

\* A held question's hook waits.
LEMMA HeldWaits == ASSUME Inv, NEW q \in held PROVE q \in Questions /\ conn[q] = "waiting"
BY DEF Inv, Kinds, QuestionInv, NewInv, SettledInv, EndedInv

LEMMA ClockInit == Init => ClockInv
BY DEF Init, ClockInv, Clock

LEMMA ClockTick == ASSUME ClockInv, Tick PROVE ClockInv'
<1>1. ASSUME NEW q \in Questions PROVE Clock(q)'
  <2>1. CASE q \notin held
    BY <1>1, <2>1 DEF Tick, ClockInv, Clock
  <2>2. CASE q \in held /\ paused
    BY <1>1, <2>2, Ticks DEF Tick, ClockInv, Clock, Remaining
  <2>3. CASE q \in held /\ ~paused
    <3>1. /\ ran[q] \in 0..Timeout /\ left[q] \in 0..Timeout /\ ran[q] # None
          /\ open[q] = IF ran[q] > left[q] THEN Timeout ELSE Timeout - (left[q] - ran[q])
      BY <1>1, <2>3, Ticks DEF ClockInv, Clock, Remaining
    <3>2. /\ ran'[q] = IF ran[q] < Timeout THEN ran[q] + 1 ELSE ran[q]
          /\ open'[q] = IF open[q] < Timeout THEN open[q] + 1 ELSE open[q]
      BY <1>1, <2>3, <3>1 DEF Tick
    <3>3. ran'[q] \in 0..Timeout /\ ran'[q] # None /\ UNCHANGED <<held, left, paused>>
      BY <3>1, <3>2, Ticks DEF Tick
    <3>4. open'[q] = IF ran'[q] > left[q] THEN Timeout ELSE Timeout - (left[q] - ran'[q])
      BY <3>1, <3>2, Ticks
    <3> QED
      BY <2>3, <3>1, <3>3, <3>4, Ticks DEF Clock, Remaining
  <2> QED
    BY <2>1, <2>2, <2>3 DEF ClockInv
<1> QED
  BY <1>1 DEF Tick, ClockInv

LEMMA ClockAsk == ASSUME Inv, ClockInv, NEW q \in Questions, Ask(q) PROVE ClockInv'
<1>1. open[q] = 0
  BY DEF Ask, Inv, QuestionInv, NewInv, ClockInv, Clock
<1>2. Clock(q)'
  BY <1>1, Ticks DEF Ask, ClockInv, Clock, Remaining
<1>3. ASSUME NEW p \in Questions, p # q PROVE Clock(p)'
  BY <1>3 DEF Ask, ClockInv, Clock, Remaining
<1> QED
  BY <1>2, <1>3 DEF Ask, ClockInv

LEMMA ClockSetPaused == ASSUME ClockInv, SetPaused PROVE ClockInv'
<1>1. ASSUME NEW q \in Questions PROVE Clock(q)'
  <2>1. CASE q \notin held
    BY <1>1, <2>1 DEF SetPaused, ClockInv, Clock
  <2>2. CASE q \in held /\ ~paused
    <3>1. left'[q] = Remaining(q) /\ ran'[q] = None /\ paused' /\ q \in held'
      BY <1>1, <2>2 DEF SetPaused, ClockInv, Clock
    <3>2. Remaining(q) \in 0..Timeout /\ open'[q] = Timeout - Remaining(q)
      BY <1>1, <2>2, Ticks DEF SetPaused, ClockInv, Clock, Remaining
    <3> QED
      BY <3>1, <3>2 DEF Clock, Remaining
  <2>3. CASE q \in held /\ paused
    <3>1. left'[q] = left[q] /\ ran'[q] = 0 /\ ~paused' /\ q \in held' /\ open'[q] = open[q]
      BY <1>1, <2>3 DEF SetPaused, ClockInv, Clock
    <3>2. left[q] \in 0..Timeout /\ open[q] = Timeout - left[q]
      BY <1>1, <2>3 DEF ClockInv, Clock, Remaining
    <3> QED
      BY <3>1, <3>2, Ticks DEF Clock, Remaining
  <2> QED
    BY <2>1, <2>2, <2>3
<1> QED
  BY <1>1 DEF SetPaused, ClockInv

\* What the hold forgets starts from nothing; the other clocks go on.
LEMMA ClockForget ==
  ASSUME ClockInv, NEW S \in SUBSET Questions, Forget(S), paused' = paused
  PROVE  ClockInv'
<1>1. ASSUME NEW q \in Questions, q \in S PROVE Clock(q)'
  BY <1>1 DEF Forget, Clock
<1>2. ASSUME NEW q \in Questions, q \notin S PROVE Clock(q)'
  BY <1>2 DEF Forget, ClockInv, Clock, Remaining
<1> QED
  BY <1>1, <1>2 DEF Forget, ClockInv

LEMMA ClockStill ==
  ASSUME ClockInv, UNCHANGED <<held, left, ran, paused, open>> PROVE ClockInv'
BY DEF ClockInv, Clock, Remaining

\* No other step touches a clock, a held question or an answer.
Untimed ==
  \/ \E q \in Questions :
       AskRefused(q) \/ AskCovered(q) \/ SettleDrained(q) \/ Finish(q) \/ Reply(q)
  \/ RevokeRemembered \/ (\E r \in owed : CloseAppend(r)) \/ SealLog \/ UNCHANGED vars

LEMMA UntimedStill ==
  ASSUME Untimed PROVE UNCHANGED <<held, answer, left, ran, paused, open>>
BY DEF Untimed, AskRefused, AskCovered, SettleDrained, Finish, Reply, RevokeRemembered,
   CloseAppend, SealLog, vars, hold

LEMMA ClockStep == Inv /\ ClockInv /\ [Next]_vars => ClockInv'
<1> SUFFICES ASSUME Inv, ClockInv, [Next]_vars PROVE ClockInv'
  OBVIOUS
<1>1. CASE Untimed
  BY <1>1, UntimedStill, ClockStill
<1>2. CASE Tick
  BY <1>2, ClockTick
<1>3. ASSUME NEW q \in Questions, Ask(q) PROVE ClockInv'
  BY <1>3, ClockAsk
<1>4. ASSUME NEW q \in Questions, NEW d \in Decisions, Answer(q, d) PROVE ClockInv'
  BY <1>4, ClockStill DEF Answer
<1>5. ASSUME NEW q \in Questions, NEW o \in Outcomes, Settle(q, o) PROVE ClockInv'
  BY <1>5, ClockForget DEF Settle
<1>6. CASE SetPaused
  BY <1>6, ClockSetPaused
<1>7. CASE BeginClose
  BY <1>7, ClockForget DEF BeginClose, Inv, Kinds
<1>8. CASE Crash
  BY <1>8, ClockForget DEF Crash, Inv, Kinds
<1> QED
  BY <1>1, <1>2, <1>3, <1>4, <1>5, <1>6, <1>7, <1>8 DEF Next, Untimed

\* What a step may do to a held question.
Fair(q) ==
  /\ q \notin held' /\ answer[q] = None /\ conn'[q] # "cut" => open[q] = Timeout \/ closed'
  /\ answer'[q] # answer[q] /\ q \in held' => open[q] < Timeout

LEMMA FairStep ==
  ASSUME Inv, ClockInv, [Next]_vars, NEW q \in held
  PROVE  Fair(q)
<1>0. q \in Questions /\ conn[q] = "waiting" /\ Clock(q)
  BY HeldWaits DEF ClockInv
<1>1. CASE UNCHANGED <<held, answer>>
  BY <1>1 DEF Fair
<1>2. CASE \E p \in Questions : Ask(p)
  BY <1>2 DEF Ask, Fair
<1>3. ASSUME NEW p \in Questions, NEW d \in Decisions, Answer(p, d) PROVE Fair(q)
  <2>1. CASE p = q
    <3>1. Remaining(q) > 0 /\ q \in held'
      BY <1>3, <2>1 DEF Answer, Answerable
    <3>2. Remaining(q) \in 0..Timeout
      BY <1>0, Ticks DEF Clock, Remaining
    <3> QED
      BY <1>0, <3>1, <3>2, Ticks DEF Clock, Fair
  <2>2. CASE p # q
    BY <1>3, <2>2 DEF Answer, Fair, Inv, Kinds
  <2> QED
    BY <2>1, <2>2
<1>4. ASSUME NEW p \in Questions, NEW o \in Outcomes, Settle(p, o) PROVE Fair(q)
  <2>1. CASE p = q
    <3>1. q \notin held' /\ (answer[q] = None => Remaining(q) = 0)
      BY <1>4, <2>1 DEF Settle, Forget, Expired
    <3> QED
      BY <1>0, <3>1, Ticks DEF Clock, Fair
  <2>2. CASE p # q
    BY <1>0, <1>4, <2>2 DEF Settle, Forget, Fair
  <2> QED
    BY <2>1, <2>2
<1>5. CASE BeginClose
  BY <1>5 DEF BeginClose, Forget, Fair
<1>6. CASE Crash
  BY <1>0, <1>6 DEF Crash, Forget, Fair
<1>7. CASE Tick \/ SetPaused \/ Untimed
  BY <1>1, <1>7, UntimedStill DEF Tick, SetPaused
<1> QED
  BY <1>2, <1>3, <1>4, <1>5, <1>6, <1>7 DEF Next, Untimed

\* A question is given up only after its whole decision time unpaused, or to a stop, and no
\* answer is taken after that time, for any wait and whatever pauses, late waiters, stops and
\* deaths of the daemon come in between (Approvals::answer, wait, set_paused and close).
THEOREM ClockIsFair == Spec => ExpiryIsFair
<1>1. Inv /\ ClockInv /\ [Next]_vars
        => [\A q \in held :
              /\ q \notin held' /\ answer[q] = None /\ conn'[q] # "cut" =>
                   open[q] = Timeout \/ closed'
              /\ answer'[q] # answer[q] /\ q \in held' => open[q] < Timeout]_vars
  BY FairStep DEF Fair
<1>2. Spec => []ClockInv
  BY ClockInit, ClockStep, InvHolds, PTL DEF Spec
<1> QED
  BY <1>1, <1>2, InvHolds, PTL DEF Spec, ExpiryIsFair
================================================================================
