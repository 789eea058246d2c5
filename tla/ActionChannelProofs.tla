--------------------------- MODULE ActionChannelProofs ---------------------------
(***************************************************************************)
(* Proofs about ActionChannel, for any grant, hold, numbers of connections  *)
(* and operations, failing appends and node deaths.                         *)
(*                                                                          *)
(* TypeInv: shapes, and that a request's number is taken once.  ChannelInv: *)
(* what is pending is unanswered, answers are vouched for by the log, a     *)
(* closed channel has nothing pending, the time left and the time waited    *)
(* make up the wait; a step leaves, settles or opens each request (Moves).  *)
(* RecInv speaks of Rec, the records written and still queued: what a step  *)
(* does to them is to add some at the end or to lose some that are queued.  *)
(***************************************************************************)
EXTENDS ActionChannel, FiniteSetTheorems, SequenceTheorems, TLAPS

--------------------------------------------------------------------------------
(* The operators *)

LEMMA Bounds ==
  /\ HoldCount \in Nat /\ MaxTotal \in Nat /\ MaxPending \in Nat /\ MaxRefusals \in Nat \ {0}
  /\ Wait \in Nat \ {0} /\ MaxPause \in Nat /\ MaxFaults \in Nat
  /\ None \notin Ops /\ None \notin Conns
BY GrantAssumption

LEMMA ActionsFinite ==
  /\ IsFiniteSet(Actions) /\ Cardinality(Actions) = MaxTotal + HoldCount
  /\ IsFiniteSet(Holds) /\ Cardinality(Holds) = HoldCount
  /\ Actions \subseteq Nat \ {0} /\ Holds \subseteq Nat \ {0}
<1>1. MaxTotal + HoldCount \in Nat /\ HoldCount \in Nat
  BY Bounds
<1>2. IsFiniteSet(1..(MaxTotal + HoldCount)) /\ IsFiniteSet(1..HoldCount)
  BY <1>1, FS_Interval
<1>3. Cardinality(1..(MaxTotal + HoldCount)) = MaxTotal + HoldCount
  BY <1>1, FS_Interval
<1>4. Cardinality(1..HoldCount) = HoldCount
  BY <1>1, FS_Interval
<1> QED
  BY <1>1, <1>2, <1>3, <1>4 DEF Actions, Holds

LEMMA RankBounds ==
  ASSUME NEW S \in SUBSET Nat, IsFiniteSet(S), NEW n \in S
  PROVE  Rank(S, n) \in 1..Cardinality(S)
<1> DEFINE T == {m \in S : m <= n}
<1>1. T \in SUBSET S /\ n \in T
  OBVIOUS
<1>2. IsFiniteSet(T) /\ Cardinality(T) <= Cardinality(S)
  BY <1>1, FS_Subset
<1>3. Cardinality(T) \in Nat /\ Cardinality(S) \in Nat
  BY <1>2, FS_CardinalityType
<1>4. Cardinality(T) # 0
  BY <1>1, <1>2, FS_EmptySet
<1> QED
  BY <1>2, <1>3, <1>4 DEF Rank

LEMMA RankGrows ==
  ASSUME NEW S \in SUBSET Nat, IsFiniteSet(S), NEW n \in S, NEW m \in S, n < m
  PROVE  Rank(S, n) < Rank(S, m)
<1> DEFINE T(k) == {j \in S : j <= k}
<1>0. m <= m /\ ~(m <= n) /\ \A j \in S : j <= n => j <= m
  <2>1. n \in Nat /\ m \in Nat
    OBVIOUS
  <2> QED
    BY <2>1
<1>1. T(n) \in SUBSET T(m) /\ m \in T(m) /\ m \notin T(n) /\ T(m) \in SUBSET S
  BY <1>0, Zenon
<1>2. IsFiniteSet(T(m))
  BY <1>1, FS_Subset
<1>3. Cardinality(T(n)) <= Cardinality(T(m)) /\ Cardinality(T(n)) # Cardinality(T(m))
  BY <1>1, <1>2, FS_Subset
<1>4. Cardinality(T(n)) \in Nat /\ Cardinality(T(m)) \in Nat
  BY <1>1, <1>2, FS_Subset, FS_CardinalityType
<1> QED
  BY <1>3, <1>4 DEF Rank

LEMMA RankOnto ==
  ASSUME NEW S \in SUBSET Nat, IsFiniteSet(S), NEW k \in 1..Cardinality(S)
  PROVE  \E n \in S : Rank(S, n) = k
<1> DEFINE f == [n \in S |-> Rank(S, n)]
           T == 1..Cardinality(S)
<1>0. Cardinality(S) \in Nat
  BY FS_CardinalityType
<1>1. f \in [S -> T]
  BY RankBounds
<1>2. ASSUME NEW a \in S, NEW b \in S, f[a] = f[b] PROVE a = b
  <2>1. a \in Nat /\ b \in Nat /\ Rank(S, a) = Rank(S, b)
    BY <1>2
  <2>2. Rank(S, a) \in Int
    BY RankBounds, <1>0
  <2>3. ~(a < b) /\ ~(b < a)
    BY <2>1, <2>2, RankGrows
  <2> QED
    BY <2>1, <2>3
<1>3. f \in Injection(S, T)
  BY <1>1, <1>2 DEF Injection, IsInjective
<1>4. IsFiniteSet(T) /\ Cardinality(T) = Cardinality(S)
  BY <1>0, FS_Interval
<1>5. f \in Surjection(S, T)
  BY <1>3, <1>4, FS_Injection
<1> QED
  BY <1>5 DEF Surjection

LEMMA NthIs ==
  ASSUME NEW S \in SUBSET Nat, IsFiniteSet(S), NEW k \in 1..Cardinality(S)
  PROVE  Nth(S, k) \in S /\ Rank(S, Nth(S, k)) = k
BY RankOnto DEF Nth

\* What is queued when the requests of S are cancelled: one record of each.
LEMMA CancelsEach ==
  ASSUME NEW S \in SUBSET Actions
  PROVE  /\ Cancellations(S) \in Seq(Event)
         /\ \A k \in DOMAIN Cancellations(S) :
              \E n \in S : Cancellations(S)[k] = Answered(n, "cancelled", None)
         /\ \A j, k \in DOMAIN Cancellations(S) :
              Cancellations(S)[j].n = Cancellations(S)[k].n => j = k
         /\ S = {} => Cancellations(S) = <<>>
<1>1. S \in SUBSET Nat /\ IsFiniteSet(S)
  BY ActionsFinite, FS_Subset
<1>2. Cardinality(S) \in Nat /\ DOMAIN Cancellations(S) = 1..Cardinality(S)
  BY <1>1, FS_CardinalityType DEF Cancellations
<1>3. \A k \in 1..Cardinality(S) :
        /\ Nth(S, k) \in S /\ Rank(S, Nth(S, k)) = k
        /\ Cancellations(S)[k] = Answered(Nth(S, k), "cancelled", None)
  BY <1>1, NthIs DEF Cancellations
<1>4. \A n \in S : Answered(n, "cancelled", None) \in Event
  BY DEF Answered, Event, Decisions
<1>5. Cancellations(S) = [k \in 1..Cardinality(S) |-> Cancellations(S)[k]]
  BY DEF Cancellations
<1>6. Cancellations(S) \in [1..Cardinality(S) -> Event]
  BY <1>3, <1>4, <1>5
<1>7. Cancellations(S) \in Seq(Event)
  BY <1>2, <1>6
<1>8. S = {} => Cancellations(S) = <<>>
  <2> SUFFICES ASSUME S = {} PROVE Cancellations(S) = <<>>
    OBVIOUS
  <2>1. Cardinality(S) = 0
    BY FS_EmptySet
  <2>2. Len(Cancellations(S)) = 0
    BY <2>1, <1>2, <1>6, <1>7
  <2> QED
    BY <2>2, <1>7
<1>9. \A j, k \in 1..Cardinality(S) :
        Cancellations(S)[j].n = Cancellations(S)[k].n => j = k
  <2> SUFFICES ASSUME NEW j \in 1..Cardinality(S), NEW k \in 1..Cardinality(S),
                      Cancellations(S)[j].n = Cancellations(S)[k].n PROVE j = k
    OBVIOUS
  <2>0. \A n : Answered(n, "cancelled", None).n = n
    BY DEF Answered
  <2>1. Nth(S, j) = Nth(S, k)
    BY <1>3, <2>0
  <2> QED
    BY <2>1, <1>3
<1> QED
  BY <1>2, <1>3, <1>7, <1>8, <1>9

LEMMA SeqMore ==
  ASSUME NEW S, NEW T, S \subseteq T, NEW s \in Seq(S)
  PROVE  s \in Seq(T)
<1>1. Len(s) \in Nat /\ s \in [1..Len(s) -> S]
  OBVIOUS
<1>2. s \in [1..Len(s) -> T]
  BY <1>1
<1> QED
  BY <1>1, <1>2

LEMMA AppendIs ==
  ASSUME NEW T, NEW s \in Seq(T), NEW e \in T
  PROVE  /\ Append(s, e) \in Seq(T) /\ Len(Append(s, e)) = Len(s) + 1
         /\ DOMAIN Append(s, e) = 1..(Len(s) + 1)
         /\ \A k \in 1..Len(s) : Append(s, e)[k] = s[k]
         /\ Append(s, e)[Len(s) + 1] = e
OBVIOUS

LEMMA ConcatIs ==
  ASSUME NEW T, NEW s \in Seq(T), NEW t \in Seq(T)
  PROVE  /\ s \o t \in Seq(T) /\ Len(s \o t) = Len(s) + Len(t)
         /\ DOMAIN (s \o t) = 1..(Len(s) + Len(t))
         /\ \A k \in 1..Len(s) : (s \o t)[k] = s[k]
         /\ \A k \in 1..Len(t) : (s \o t)[Len(s) + k] = t[k]
OBVIOUS

LEMMA TailIs ==
  ASSUME NEW T, NEW s \in Seq(T), s # <<>>
  PROVE  /\ Tail(s) \in Seq(T) /\ Len(Tail(s)) = Len(s) - 1 /\ Len(s) >= 1
         /\ DOMAIN Tail(s) = 1..(Len(s) - 1)
         /\ \A k \in 1..(Len(s) - 1) : Tail(s)[k] = s[k + 1]
         /\ Head(s) \in T /\ Head(s) = s[1]
OBVIOUS

--------------------------------------------------------------------------------
(* Shapes and numbers *)

\* The records about requests up to m.
Records(m) ==
  {e \in Event : /\ e.ev # "refused" => e.n \in 1..m
                 /\ e.ev = "requested" => e = Requested(e.n)
                 /\ e.ev = "answered" => e.d # "none"}

Opened == {i \in Holds : slot[i] # 0}

TurnInv ==
  /\ turn \in [verb : {"none", "tend", "list", "answer", "finish"}, n : Actions \cup {0},
               d : {"none", "approved", "denied"}, op : Ops \cup {None}]
  /\ turn.verb = "answer" => turn.n \in Actions /\ turn.d # "none" /\ turn.op \in Ops

\* A request's number is taken once: the workload's and the held capabilities' together.
NumberInv ==
  /\ next = sent + Cardinality(Opened)
  /\ \A i \in Holds : slot[i] <= next
  /\ \A n \in Actions : n > next =>
       pend[n] = NoPending /\ ans[n] = "none" /\ told[n] = "none" /\ waited[n] = 0

RecordInv == queue \in Seq(Records(next)) /\ log \in Seq(Records(next))

TypeInv == TypeOK /\ TurnInv /\ NumberInv /\ RecordInv

LEMMA RecordsAre ==
  /\ \A m : Records(m) \subseteq Event
  /\ \A m \in Nat, k \in Nat : m <= k => Records(m) \subseteq Records(k)
  /\ \A m \in Nat : Refused \in Records(m)
  /\ \A m \in Nat : \A n \in Actions : n <= m => Requested(n) \in Records(m)
  /\ \A m \in Nat, d \in Decisions, op \in Ops \cup {None} :
       \A n \in Actions : n <= m => Answered(n, d, op) \in Records(m)
<1>1. Actions \subseteq Nat \ {0}
  BY ActionsFinite
<1>2. \A n \in Actions : n >= 1 /\ n \in Int
  BY <1>1
<1> QED
  BY <1>2 DEF Records, Event, Refused, Requested, Answered, Decisions

LEMMA OpenedFinite ==
  ASSUME TypeInv PROVE IsFiniteSet(Opened) /\ Cardinality(Opened) \in 0..HoldCount
<1>1. Opened \in SUBSET Holds
  BY DEF Opened
<1>2. IsFiniteSet(Opened) /\ Cardinality(Opened) <= HoldCount
  BY <1>1, ActionsFinite, FS_Subset
<1> QED
  BY <1>2, FS_CardinalityType, Bounds

LEMMA TypeInit == Init => TypeInv
<1> SUFFICES ASSUME Init PROVE TypeInv
  OBVIOUS
<1>0. MaxTotal \in Nat /\ HoldCount \in Nat
  BY Bounds
<1>a. pend \in [Actions -> [on : BOOLEAN, conn : Conns \cup {None}, deadline : Int, rec : BOOLEAN]]
  BY DEF Init, NoPending
<1>b. /\ ans \in [Actions -> Decisions \cup {"none"}] /\ told \in [Actions -> Decisions \cup {"none"}]
      /\ waited \in [Actions -> Nat] /\ ops \in [Ops -> Actions \cup {0}]
      /\ slot \in [Holds -> Actions \cup {0}]
  BY DEF Init
<1>c. queue \in Seq(Event) /\ log \in Seq(Event)
  BY DEF Init
<1>d. conn \in [Conns -> {"none", "reading", "refusing", "leaving", "gone"}]
  BY DEF Init
<1>e. finished \in BOOLEAN /\ torn \in BOOLEAN /\ full \in BOOLEAN /\ up \in BOOLEAN /\ paused \in BOOLEAN /\ closed \in BOOLEAN
  BY DEF Init
<1>f. next \in 0..(MaxTotal + HoldCount) /\ sent \in 0..MaxTotal
  BY <1>0 DEF Init
<1>g. /\ ids \subseteq Ids \cup Holds /\ open \subseteq Conns /\ refusals \in Nat /\ since \in Int
      /\ faults \in Nat /\ crashes \in Nat /\ passed \subseteq Holds /\ listed \subseteq Actions
      /\ turn.verb = "none"
  BY DEF Init, NoTurn
<1>1. TypeOK
  BY <1>a, <1>b, <1>c, <1>d, <1>e, <1>f, <1>g DEF TypeOK
<1>2. TurnInv
  BY DEF Init, TurnInv, NoTurn
<1>3. Opened = {} /\ Cardinality({}) = 0
  BY FS_EmptySet DEF Init, Opened
<1>4. NumberInv
  BY <1>3 DEF Init, NumberInv
<1>5. RecordInv
  BY DEF Init, RecordInv
<1> QED
  BY <1>1, <1>2, <1>4, <1>5 DEF TypeInv

LEMMA AcceptType ==
  ASSUME TypeInv, NEW c \in Conns, Accept(c) PROVE TypeInv'
BY Bounds DEF Accept, Free, channel, evidence, history, TypeInv, TypeOK, TurnInv, NumberInv, RecordInv, Opened

LEMMA BadLineType ==
  ASSUME TypeInv, NEW c \in Conns, BadLine(c) PROVE TypeInv'
BY Bounds DEF BadLine, Free, channel, evidence, history, TypeInv, TypeOK, TurnInv, NumberInv, RecordInv, Opened

LEMMA EofType ==
  ASSUME TypeInv, NEW c \in Conns, Eof(c) PROVE TypeInv'
BY Bounds DEF Eof, Free, channel, evidence, history, TypeInv, TypeOK, TurnInv, NumberInv, RecordInv, Opened

LEMMA TendType ==
  ASSUME TypeInv, Tend PROVE TypeInv'
BY Bounds DEF Tend, Turn, channel, evidence, history, TypeInv, TypeOK, TurnInv, NumberInv, RecordInv, Opened

LEMMA ListType ==
  ASSUME TypeInv, List PROVE TypeInv'
BY Bounds DEF List, Turn, channel, evidence, history, TypeInv, TypeOK, TurnInv, NumberInv, RecordInv, Opened

LEMMA AnswerType ==
  ASSUME TypeInv, NEW op \in Ops, NEW n \in Actions, NEW d \in {"approved", "denied"}, Answer(op, n, d) PROVE TypeInv'
BY Bounds DEF Answer, Turn, channel, evidence, history, TypeInv, TypeOK, TurnInv, NumberInv, RecordInv, Opened

LEMMA FinishType ==
  ASSUME TypeInv, Finish PROVE TypeInv'
BY Bounds DEF Finish, Turn, channel, evidence, history, TypeInv, TypeOK, TurnInv, NumberInv, RecordInv, Opened

LEMMA EndTurnType ==
  ASSUME TypeInv, EndTurn PROVE TypeInv'
BY Bounds DEF EndTurn, NoTurn, Pending, channel, evidence, history, TypeInv, TypeOK, TurnInv, NumberInv, RecordInv, Opened

LEMMA ShutType ==
  ASSUME TypeInv, Shut PROVE TypeInv'
BY Bounds DEF Shut, NoTurn, channel, evidence, history, TypeInv, TypeOK, TurnInv, NumberInv, RecordInv, Opened

LEMMA PauseType ==
  ASSUME TypeInv, Pause PROVE TypeInv'
BY Bounds DEF Pause, channel, evidence, history, TypeInv, TypeOK, TurnInv, NumberInv, RecordInv, Opened

LEMMA FillType ==
  ASSUME TypeInv, Fill PROVE TypeInv'
BY Bounds DEF Fill, channel, evidence, history, TypeInv, TypeOK, TurnInv, NumberInv, RecordInv, Opened

Pends == [on : BOOLEAN, conn : Conns \cup {None}, deadline : Int, rec : BOOLEAN]

LEMMA ResumeType ==
  ASSUME TypeInv, Resume PROVE TypeInv'
<1>1. pend' \in [Actions -> Pends]
  <2> SUFFICES ASSUME NEW n \in Actions PROVE pend'[n] \in Pends
    BY DEF Resume
  <2>1. pend[n] \in Pends /\ since \in Int
    BY DEF TypeInv, TypeOK, Pends
  <2> QED
    BY <2>1 DEF Resume, Pending, Pends
<1>0. paused' \in BOOLEAN /\ since' \in Int
  <2>1. paused' = FALSE /\ since' = 0
    BY DEF Resume
  <2>2. paused' \in BOOLEAN
    BY <2>1
  <2> QED
    BY <2>1, <2>2
<1>2. TypeOK'
  BY <1>0, <1>1 DEF Resume, TypeInv, TypeOK, Pends, evidence, history
<1>3. \A n \in Actions : n > next => pend'[n] = NoPending
  <2>1. NoPending.on = FALSE
    BY DEF NoPending
  <2> QED
    BY <2>1 DEF Resume, TypeInv, NumberInv, Pending
<1>4. NumberInv'
  BY <1>3 DEF Resume, TypeInv, NumberInv, Opened, history
<1> QED
  BY <1>2, <1>4 DEF Resume, TypeInv, TurnInv, RecordInv, evidence

LEMMA TickType ==
  ASSUME TypeInv, Tick PROVE TypeInv'
<1>1. pend' \in [Actions -> Pends]
  <2> SUFFICES ASSUME NEW n \in Actions PROVE pend'[n] \in Pends
    BY DEF Tick
  <2>1. pend[n] \in Pends
    BY DEF TypeInv, TypeOK, Pends
  <2> QED
    BY <2>1 DEF Tick, Pending, Pends
<1>2. waited' \in [Actions -> Nat] /\ since' \in Int
  BY DEF Tick, TypeInv, TypeOK
<1>3. TypeOK'
  BY <1>1, <1>2 DEF Tick, TypeInv, TypeOK, Pends, evidence
<1>4. \A n \in Actions : n > next => pend'[n] = NoPending /\ waited'[n] = 0
  <2>1. NoPending.on = FALSE
    BY DEF NoPending
  <2> QED
    BY <2>1 DEF Tick, TypeInv, NumberInv, Pending
<1>5. NumberInv'
  BY <1>4 DEF Tick, TypeInv, NumberInv, Opened
<1> QED
  BY <1>3, <1>5 DEF Tick, TypeInv, TurnInv, RecordInv, evidence

LEMMA CrashType ==
  ASSUME TypeInv, Crash PROVE TypeInv'
<1>1. queue' = <<>> /\ queue' \in Seq(Records(next')) /\ queue' \in Seq(Event)
  BY DEF Crash
<1>0. turn'.verb = "none" /\ up' \in BOOLEAN /\ torn' \in BOOLEAN /\ crashes' \in Nat
  <2>1. turn' = NoTurn /\ up' = FALSE /\ torn' = FALSE /\ crashes' = crashes + 1
    BY DEF Crash
  <2>2. NoTurn.verb = "none" /\ crashes \in Nat
    BY DEF NoTurn, TypeInv, TypeOK
  <2>3. up' \in BOOLEAN /\ torn' \in BOOLEAN
    BY <2>1
  <2> QED
    BY <2>1, <2>2, <2>3
<1>2. TypeOK'
  BY <1>0, <1>1 DEF Crash, TypeInv, TypeOK, history
<1>3. TurnInv'
  BY DEF Crash, NoTurn, TurnInv
<1> QED
  BY <1>1, <1>2, <1>3 DEF Crash, TypeInv, NumberInv, Opened, RecordInv, history

LEMMA NextIs ==
  ASSUME TypeInv
  PROVE  /\ next \in Nat /\ sent \in Nat /\ \A n \in Actions : n \in Nat
         /\ sent < MaxTotal => next + 1 \in Actions
<1>1. Cardinality(Opened) \in 0..HoldCount
  BY OpenedFinite
<1> QED
  BY <1>1, Bounds DEF TypeInv, TypeOK, NumberInv, Actions

LEMMA RecordsFit ==
  ASSUME TypeInv, NEW m \in Nat, next <= m
  PROVE  queue \in Seq(Records(m)) /\ log \in Seq(Records(m))
<1>1. Records(next) \subseteq Records(m)
  BY RecordsAre, NextIs
<1> QED
  BY <1>1, SeqMore DEF TypeInv, RecordInv

LEMMA RecordsType ==
  ASSUME NEW m \in Nat, NEW s \in Seq(Records(m)) PROVE s \in Seq(Event)
BY RecordsAre, SeqMore

LEMMA PendingKnown ==
  ASSUME TypeInv
  PROVE  /\ Pending \subseteq Actions /\ \A n \in Actions : pend[n].on => n <= next
         /\ \A n \in Actions : pend[n] \in Pends /\ (n \in Pending <=> pend[n].on)
<1>1. NoPending.on = FALSE
  BY DEF NoPending
<1> QED
  BY <1>1, NextIs DEF TypeInv, TypeOK, NumberInv, Pending, Pends

LEMMA CancelRecords ==
  ASSUME TypeInv, NEW S \in SUBSET Pending
  PROVE  Cancellations(S) \in Seq(Records(next))
<1>1. S \in SUBSET Actions /\ \A n \in S : n <= next
  BY PendingKnown
<1>2. /\ Cancellations(S) \in Seq(Event)
      /\ \A k \in DOMAIN Cancellations(S) :
           \E n \in S : Cancellations(S)[k] = Answered(n, "cancelled", None)
  BY <1>1, CancelsEach
<1>3. \A n \in S : Answered(n, "cancelled", None) \in Records(next)
  BY <1>1, NextIs, RecordsAre DEF Decisions
<1>4. \A k \in DOMAIN Cancellations(S) : Cancellations(S)[k] \in Records(next)
  BY <1>2, <1>3
<1> DEFINE c == Cancellations(S)
<1>5. Len(c) \in Nat /\ c \in [1..Len(c) -> Records(next)]
  <2> HIDE DEF c
  <2>1. c \in Seq(Event) /\ \A k \in DOMAIN c : c[k] \in Records(next)
    BY <1>2, <1>4 DEF c
  <2> QED
    BY <2>1
<1> HIDE DEF c
<1>6. c \in Seq(Records(next))
  BY <1>5
<1> QED
  BY <1>6 DEF c

\* What an append may do, and what a reply does.
LEMMA AppendType ==
  ASSUME TypeInv, NEW e \in Records(next), Wrote(e) \/ NotWrote(e)
  PROVE  /\ log' \in Seq(Records(next)) /\ log' \in {log, Append(log, e)}
         /\ torn' \in BOOLEAN /\ full' = full /\ full' \in BOOLEAN
         /\ faults' \in Nat /\ faults <= faults'
<1>1. log \in Seq(Records(next)) /\ Append(log, e) \in Seq(Records(next))
  BY AppendIs DEF TypeInv, RecordInv
<1>2. log' \in {log, Append(log, e)} /\ full' = full
  BY DEF Wrote, NotWrote
<1>3. torn' \in BOOLEAN
  BY DEF Wrote, NotWrote, TypeInv, TypeOK
<1>4. faults' \in Nat /\ faults <= faults'
  BY DEF Wrote, NotWrote, TypeInv, TypeOK
<1>5. full' \in BOOLEAN
  BY <1>2 DEF TypeInv, TypeOK
<1> QED
  BY <1>1, <1>2, <1>3, <1>4, <1>5

LEMMA ReplyType ==
  ASSUME TypeInv, NEW n \in Actions, n <= next, NEW d \in Decisions, Reply(n, d)
  PROVE  /\ pend' \in [Actions -> Pends] /\ ans' \in [Actions -> Decisions \cup {"none"}]
         /\ told' \in [Actions -> Decisions \cup {"none"}] /\ open' \subseteq Conns
         /\ \A m \in Actions : m > next =>
              pend'[m] = NoPending /\ ans'[m] = "none" /\ told'[m] = "none"
<1>1. NoPending \in Pends
  BY DEF NoPending, Pends
<1>2. pend' \in [Actions -> Pends]
  BY <1>1 DEF Reply, TypeInv, TypeOK, Pends
<1>3. ans' \in [Actions -> Decisions \cup {"none"}] /\ open' \subseteq Conns
  BY DEF Reply, TypeInv, TypeOK
<1>4. told' \in [Actions -> Decisions \cup {"none"}]
  BY DEF Reply, TypeInv, TypeOK
<1>5. \A m \in Actions : m > next => m # n
  BY NextIs
<1>6. \A m \in Actions : m > next => pend'[m] = NoPending /\ ans'[m] = "none" /\ told'[m] = "none"
  BY <1>5 DEF Reply, TypeInv, TypeOK, NumberInv
<1> QED
  BY <1>2, <1>3, <1>4, <1>6

\* What the steps of a turn leave alone.
Still == UNCHANGED <<next, sent, ids, ops, refusals, paused, since, closed, slot, conn,
                     finished, up, crashes, passed, listed, waited>>

LEMMA StillType ==
  ASSUME TypeInv, Still, TurnInv', turn'.verb \in {"none", "tend", "list", "answer", "finish"},
         queue' \in Seq(Records(next)), log' \in Seq(Records(next)),
         torn' \in BOOLEAN, full' \in BOOLEAN, faults' \in Nat,
         pend' \in [Actions -> Pends], ans' \in [Actions -> Decisions \cup {"none"}],
         told' \in [Actions -> Decisions \cup {"none"}], open' \subseteq Conns,
         \A m \in Actions : m > next =>
           pend'[m] = NoPending /\ ans'[m] = "none" /\ told'[m] = "none"
  PROVE  TypeInv'
<1>1. queue' \in Seq(Event) /\ log' \in Seq(Event)
  BY NextIs, RecordsType
<1>2. TypeOK'
  BY <1>1 DEF Still, TypeInv, TypeOK, Pends
<1>3. NumberInv'
  BY DEF Still, TypeInv, NumberInv, Opened
<1>4. RecordInv'
  BY DEF Still, RecordInv
<1> QED
  BY <1>2, <1>3, <1>4 DEF TypeInv

LEMMA AskType ==
  ASSUME TypeInv, NEW c \in Conns, NEW id \in Ids \cup Holds, Ask(c, id) PROVE TypeInv'
<1> DEFINE n == next + 1
<1>1. n \in Actions /\ n \in Nat /\ next \in Nat /\ sent + 1 \in 0..MaxTotal /\ next <= n
  BY NextIs, Bounds DEF Ask, Registrable, TypeInv, TypeOK
<1>2. queue \in Seq(Records(n)) /\ log \in Seq(Records(n)) /\ Requested(n) \in Records(n)
  BY <1>1, RecordsFit, RecordsAre
<1>3. Append(queue, Requested(n)) \in Seq(Records(n))
  BY <1>2, AppendIs
<1>4. RecordInv'
  BY <1>2, <1>3 DEF Ask, RecordInv, evidence
<1>5. queue' \in Seq(Event) /\ log' \in Seq(Event)
  BY <1>1, <1>4, RecordsType DEF RecordInv, Ask
<1>6. pend' \in [Actions -> Pends]
  <2>1. pend \in [Actions -> Pends] /\ since + Wait \in Int
    BY Bounds DEF TypeInv, TypeOK, Pends
  <2> QED
    BY <2>1, <1>1 DEF Ask, Deadline, Pends
<1>7. next' \in 0..(MaxTotal + HoldCount)
  BY <1>1 DEF Ask, Actions
<1>8. TypeOK'
  BY <1>1, <1>5, <1>6, <1>7 DEF Ask, TypeInv, TypeOK, Pends, evidence, history
<1>9. \A m \in Actions : m > n => m # n /\ m > next
  BY <1>1, NextIs
<1>10. NumberInv'
  <2>1. next' = sent' + Cardinality(Opened') /\ \A i \in Holds : slot'[i] <= next'
    <3>1. Opened' = Opened /\ Cardinality(Opened) \in Nat
      BY OpenedFinite DEF Ask, Opened
    <3>2. \A i \in Holds : slot[i] \in Nat
      BY NextIs DEF TypeInv, TypeOK
    <3> QED
      BY <3>1, <3>2, <1>1, NextIs DEF Ask, TypeInv, NumberInv
  <2>2. \A m \in Actions : m > next' =>
          pend'[m] = NoPending /\ ans'[m] = "none" /\ told'[m] = "none" /\ waited'[m] = 0
    BY <1>9 DEF Ask, TypeInv, TypeOK, NumberInv, history
  <2> QED
    BY <2>1, <2>2 DEF NumberInv
<1>11. TurnInv'
  BY DEF Ask, TypeInv, TurnInv
<1> QED
  BY <1>4, <1>8, <1>10, <1>11 DEF TypeInv

LEMMA WithdrawType ==
  ASSUME TypeInv, NEW c \in Conns, Withdraw(c) PROVE TypeInv'
<1> DEFINE gone == {n \in Pending : pend[n].conn = c}
<1>1. gone \in SUBSET Pending
  OBVIOUS
<1>2. queue' \in Seq(Records(next)) /\ log' \in Seq(Records(next))
  BY <1>1, CancelRecords, ConcatIs DEF Withdraw, TypeInv, RecordInv, evidence
<1>3. queue' \in Seq(Event)
  BY <1>2, NextIs, RecordsType
<1>4. pend' \in [Actions -> Pends] /\ ans' \in [Actions -> Decisions \cup {"none"}]
  <2>1. NoPending \in Pends /\ "cancelled" \in Decisions
    BY DEF NoPending, Pends, Decisions
  <2> QED
    BY <2>1, PendingKnown DEF Withdraw, TypeInv, TypeOK
<1>5. TypeOK'
  BY <1>3, <1>4 DEF Withdraw, TypeInv, TypeOK, Pends, evidence, history
<1>6. \A m \in Actions : m > next => m \notin gone
  BY PendingKnown, NextIs
<1>7. NumberInv'
  BY <1>6 DEF Withdraw, TypeInv, NumberInv, Opened, history
<1> QED
  BY <1>2, <1>5, <1>7 DEF Withdraw, TypeInv, TurnInv, RecordInv

LEMMA CloseType ==
  ASSUME TypeInv, NEW q \in Seq(Records(next)), Close(q)
  PROVE  /\ queue' \in Seq(Records(next)) /\ closed' \in BOOLEAN /\ open' = {}
         /\ pend' \in [Actions -> Pends] /\ ans' \in [Actions -> Decisions \cup {"none"}]
         /\ told' \in [Actions -> Decisions \cup {"none"}]
         /\ \A m \in Actions : m > next =>
              pend'[m] = NoPending /\ ans'[m] = "none" /\ told'[m] = "none"
<1>0. NoPending \in Pends /\ "cancelled" \in Decisions
  BY DEF NoPending, Pends, Decisions
<1>1. queue' \in Seq(Records(next))
  BY CancelRecords, ConcatIs DEF Close
<1>2. pend' \in [Actions -> Pends] /\ ans' \in [Actions -> Decisions \cup {"none"}]
  BY <1>0 DEF Close, TypeInv, TypeOK
<1>3. closed' \in BOOLEAN /\ open' = {}
  BY DEF Close
<1>4. PICK got \in SUBSET {n \in Pending : pend[n].conn \in open} :
        told' = [n \in Actions |-> IF n \in got THEN "cancelled" ELSE told[n]]
  BY DEF Close
<1>5. told' \in [Actions -> Decisions \cup {"none"}]
  BY <1>0, <1>4 DEF TypeInv, TypeOK
<1>6. \A m \in Actions : m > next => m \notin Pending /\ m \notin got
  BY PendingKnown, NextIs
<1>7. \A m \in Actions : m > next => pend'[m] = NoPending /\ ans'[m] = "none" /\ told'[m] = "none"
  BY <1>4, <1>6 DEF Close, TypeInv, NumberInv
<1> QED
  BY <1>1, <1>2, <1>3, <1>5, <1>7

LEMMA RefuseType ==
  ASSUME TypeInv, NEW c \in Conns, Refuse(c) PROVE TypeInv'
<1> DEFINE q == Append(queue, Refused)
<1>1. q \in Seq(Records(next)) /\ queue \in Seq(Records(next))
  BY AppendIs, RecordsAre, NextIs DEF TypeInv, RecordInv
<1>2. conn' \in [Conns -> {"none", "reading", "refusing", "leaving", "gone"}]
  BY DEF Refuse, TypeInv, TypeOK
<1>3. /\ queue' \in Seq(Records(next)) /\ closed' \in BOOLEAN /\ open' \subseteq Conns
      /\ pend' \in [Actions -> Pends] /\ ans' \in [Actions -> Decisions \cup {"none"}]
      /\ told' \in [Actions -> Decisions \cup {"none"}] /\ refusals' \in Nat
      /\ \A m \in Actions : m > next =>
           pend'[m] = NoPending /\ ans'[m] = "none" /\ told'[m] = "none"
  <2>1. CASE UNCHANGED <<queue, pend, ans, told, open, closed>> /\ refusals' \in Nat
    BY <2>1, <1>1 DEF TypeInv, TypeOK, Pends, NumberInv
  <2>2. CASE queue' = q /\ UNCHANGED <<pend, ans, told, open, closed>> /\ refusals' = refusals + 1
    BY <2>2, <1>1 DEF TypeInv, TypeOK, Pends, NumberInv
  <2>3. CASE Close(q) /\ refusals' = refusals + 1
    <3>1. refusals' \in Nat
      BY <2>3 DEF TypeInv, TypeOK
    <3> HIDE DEF q
    <3> QED
      BY <3>1, <2>3, <1>1, CloseType
  <2>4. refusals \in Nat
    BY DEF TypeInv, TypeOK
  <2> QED
    BY <2>1, <2>2, <2>3, <2>4 DEF Refuse
<1>4. queue' \in Seq(Event)
  BY <1>3, NextIs, RecordsType
<1>5. TypeOK'
  BY <1>2, <1>3, <1>4 DEF Refuse, TypeInv, TypeOK, Pends, evidence
<1>6. NumberInv'
  BY <1>3 DEF Refuse, TypeInv, NumberInv, Opened
<1> QED
  BY <1>3, <1>5, <1>6 DEF Refuse, TypeInv, TurnInv, RecordInv, evidence

\* The held capabilities a request opens get the numbers that follow.
LEMMA TouchNumbers ==
  ASSUME TypeInv, NEW new \in SUBSET Holds, \A i \in new : slot[i] = 0
  PROVE  /\ IsFiniteSet(new) /\ Cardinality(new) \in Nat
         /\ next + Cardinality(new) \in 0..(MaxTotal + HoldCount)
         /\ \A i \in new : /\ next + Rank(new, i) \in Actions
                           /\ next < next + Rank(new, i)
                           /\ next + Rank(new, i) <= next + Cardinality(new)
         /\ Cardinality(Opened \cup new) = Cardinality(Opened) + Cardinality(new)
<1>1. IsFiniteSet(new) /\ new \in SUBSET Nat
  BY ActionsFinite, FS_Subset
<1>2. Cardinality(new) \in Nat
  BY <1>1, FS_CardinalityType
<1>3. Opened \cap new = {} /\ Cardinality({}) = 0
  BY FS_EmptySet DEF Opened
<1>4. IsFiniteSet(Opened) /\ Cardinality(Opened) \in Nat
  BY OpenedFinite
<1>5. Cardinality(Opened \cup new) = Cardinality(Opened) + Cardinality(new)
  <2>1. Cardinality(Opened \cup new)
          = Cardinality(Opened) + Cardinality(new) - Cardinality(Opened \cap new)
    BY <1>1, <1>4, FS_Union
  <2>2. Cardinality(Opened \cap new) = 0
    BY <1>3
  <2> QED
    BY <2>1, <2>2, <1>2, <1>4
<1>6. Opened \cup new \in SUBSET Holds
  BY DEF Opened
<1>7. Cardinality(Opened \cup new) <= HoldCount
  BY <1>6, ActionsFinite, FS_Subset
<1>8. next + Cardinality(new) \in 0..(MaxTotal + HoldCount)
  BY <1>2, <1>4, <1>5, <1>7, Bounds DEF TypeInv, TypeOK, NumberInv
<1>9. \A i \in new : Rank(new, i) \in 1..Cardinality(new)
  BY <1>1, RankBounds
<1>10. \A i \in new : /\ next + Rank(new, i) \in Actions
                      /\ next < next + Rank(new, i)
                      /\ next + Rank(new, i) <= next + Cardinality(new)
  BY <1>2, <1>8, <1>9, NextIs, Bounds DEF Actions
<1> QED
  BY <1>1, <1>2, <1>5, <1>8, <1>10

\* Touch(S), with what it opens named.
TouchNew(new) ==
  /\ slot' = [i \in Holds |-> IF i \in new THEN next + Rank(new, i) ELSE slot[i]]
  /\ next' = next + Cardinality(new)
  /\ queue' = queue \o [k \in 1..Cardinality(new) |-> Requested(next + k)]
  /\ \A n \in Actions : pend'[n] \in {pend[n], [on |-> TRUE, conn |-> None, deadline |-> Deadline, rec |-> FALSE]}
  /\ \A n \in Actions : n <= next \/ n > next' => pend'[n] = pend[n]
  /\ \A n \in Actions : DOMAIN pend' = Actions

LEMMA TouchIs ==
  ASSUME TypeInv, NEW S \in SUBSET Holds, Touch(S)
  PROVE  /\ TouchNew(Unopened(S)) /\ Unopened(S) \in SUBSET Holds
         /\ \A i \in Unopened(S) : slot[i] = 0
<1> DEFINE new == Unopened(S)
           opened == {next + Rank(new, i) : i \in new}
           asked == [on |-> TRUE, conn |-> None, deadline |-> Deadline, rec |-> FALSE]
<1>1. new \in SUBSET Holds /\ \A i \in new : slot[i] = 0
  BY DEF Unopened
<1>2. /\ slot' = [i \in Holds |-> IF i \in new THEN next + Rank(new, i) ELSE slot[i]]
      /\ next' = next + Cardinality(new)
      /\ queue' = queue \o [k \in 1..Cardinality(new) |-> Requested(next + k)]
      /\ pend' = [n \in Actions |-> IF n \in opened THEN asked ELSE pend[n]]
  BY DEF Touch
<1> HIDE DEF new
<1>3. \A n \in Actions : n \in opened => n > next /\ n <= next'
  BY <1>1, <1>2, TouchNumbers
<1>4. \A n \in Actions : n <= next \/ n > next' => n \notin opened
  BY <1>1, <1>2, <1>3, TouchNumbers, NextIs
<1>5. TouchNew(new)
  BY <1>2, <1>4 DEF TouchNew
<1> QED
  BY <1>1, <1>5 DEF new

LEMMA TouchType ==
  ASSUME TypeInv, NEW S \in SUBSET Holds, Touch(S) PROVE TypeInv'
<1> DEFINE new == Unopened(S)
<1>1. TouchNew(new) /\ new \in SUBSET Holds /\ \A i \in new : slot[i] = 0
  BY TouchIs
<1>2. /\ UNCHANGED <<sent, ids, ans, ops, open, refusals, paused, since, closed, conn, turn,
                     finished, evidence, up, crashes, told, listed, waited>>
      /\ passed' \subseteq Holds
  BY DEF Touch, TypeInv, TypeOK
<1> HIDE DEF new
<1>3. /\ Cardinality(new) \in Nat /\ next' \in 0..(MaxTotal + HoldCount) /\ next \in Nat
      /\ next' = next + Cardinality(new) /\ next' \in Nat /\ next <= next'
  <2>1. Cardinality(new) \in Nat /\ next + Cardinality(new) \in 0..(MaxTotal + HoldCount)
    BY <1>1, TouchNumbers
  <2>2. next' = next + Cardinality(new)
    BY <1>1 DEF TouchNew
  <2> QED
    BY <2>1, <2>2, NextIs, Bounds
<1>4. pend' \in [Actions -> Pends]
  <2>1. pend \in [Actions -> Pends] /\ since + Wait \in Int
    BY Bounds DEF TypeInv, TypeOK, Pends
  <2>2. [on |-> TRUE, conn |-> None, deadline |-> Deadline, rec |-> FALSE] \in Pends
    BY <2>1 DEF Pends, Deadline
  <2>3. \A n \in Actions : pend'[n] \in Pends
    BY <1>1, <2>1, <2>2 DEF TouchNew
  <2>4. pend' = [n \in Actions |-> pend'[n]]
    BY <1>2 DEF Touch
  <2> QED
    BY <2>3, <2>4
<1>5. slot' \in [Holds -> Actions \cup {0}] /\ \A i \in Holds : slot'[i] <= next'
  <2>1. \A i \in Holds : slot[i] \in Actions \cup {0} /\ slot[i] <= next /\ slot[i] \in Nat
    BY NextIs DEF TypeInv, TypeOK, NumberInv
  <2>2. \A i \in new : next + Rank(new, i) \in Actions /\ next + Rank(new, i) <= next'
    BY <1>1, <1>3, TouchNumbers
  <2> QED
    BY <1>1, <1>3, <2>1, <2>2 DEF TouchNew
<1>6. queue' \in Seq(Records(next')) /\ log' \in Seq(Records(next'))
  <2> DEFINE r == [k \in 1..Cardinality(new) |-> Requested(next + k)]
  <2>1. \A k \in 1..Cardinality(new) : next + k \in Actions /\ next + k <= next'
    BY <1>3, Bounds DEF Actions
  <2>2. \A k \in 1..Cardinality(new) : Requested(next + k) \in Records(next')
    BY <1>3, <2>1, RecordsAre
  <2>3. r \in Seq(Records(next'))
    BY <1>3, <2>2
  <2>4. queue \in Seq(Records(next')) /\ log \in Seq(Records(next'))
    BY <1>3, RecordsFit
  <2> QED
    BY <1>1, <1>2, <2>3, <2>4, ConcatIs DEF TouchNew, evidence
<1>7. queue' \in Seq(Event) /\ log' \in Seq(Event)
  BY <1>3, <1>6, RecordsType
<1>8. TypeOK'
  BY <1>2, <1>3, <1>4, <1>5, <1>7 DEF TypeInv, TypeOK, Pends, evidence
<1>9. NumberInv'
  <2>0. \A i \in new : next + Rank(new, i) \in Actions
    BY <1>1, TouchNumbers
  <2>1. \A i \in new : next + Rank(new, i) # 0
    BY <2>0, ActionsFinite
  <2>2. Opened' = Opened \cup new
    BY <1>1, <2>1 DEF Opened, TouchNew
  <2>3. next' = sent' + Cardinality(Opened')
    <3>1. Cardinality(Opened \cup new) = Cardinality(Opened) + Cardinality(new)
      BY <1>1, TouchNumbers
    <3>2. next = sent + Cardinality(Opened) /\ Cardinality(Opened) \in Nat /\ sent \in Nat
      BY OpenedFinite, NextIs DEF TypeInv, NumberInv
    <3> QED
      BY <1>2, <1>3, <2>2, <3>1, <3>2
  <2>4. \A n \in Actions : n > next' => n > next
    BY <1>3, NextIs
  <2>5. \A n \in Actions : n > next' =>
          pend'[n] = NoPending /\ ans'[n] = "none" /\ told'[n] = "none" /\ waited'[n] = 0
    BY <1>1, <1>2, <2>4 DEF TouchNew, TypeInv, NumberInv
  <2> QED
    BY <1>5, <2>3, <2>5 DEF NumberInv
<1> QED
  BY <1>2, <1>6, <1>8, <1>9 DEF TypeInv, TurnInv, RecordInv

LEMMA FlushOneType ==
  ASSUME TypeInv, FlushOne PROVE TypeInv'
<1> DEFINE e == Head(queue)
<1>1. e \in Records(next) /\ Tail(queue) \in Seq(Records(next)) /\ queue' = Tail(queue)
  BY TailIs DEF FlushOne, TypeInv, RecordInv
<1>2. Wrote(e) \/ NotWrote(e)
  BY DEF FlushOne
<1>3. /\ log' \in Seq(Records(next)) /\ torn' \in BOOLEAN /\ full' \in BOOLEAN /\ faults' \in Nat
  <2> HIDE DEF e
  <2> QED
    BY <1>1, <1>2, AppendType
<1>4. e.ev = "requested" => e.n \in Actions /\ e.n <= next
  <2> HIDE DEF e
  <2>1. e.ev = "requested" => e.n \in 1..next
    BY <1>1 DEF Records
  <2> QED
    BY <2>1, NextIs, Bounds DEF Actions, TypeInv, TypeOK
<1>5. /\ pend' \in [Actions -> Pends] /\ ans' \in [Actions -> Decisions \cup {"none"}]
      /\ told' \in [Actions -> Decisions \cup {"none"}] /\ open' \subseteq Conns
      /\ \A m \in Actions : m > next =>
           pend'[m] = NoPending /\ ans'[m] = "none" /\ told'[m] = "none"
  <2>1. CASE UNCHANGED <<pend, ans, told, open>>
    BY <2>1 DEF TypeInv, TypeOK, Pends, NumberInv
  <2>2. CASE e.ev = "requested" /\ pend' = [pend EXCEPT ![e.n].rec = TRUE] /\ UNCHANGED <<ans, told, open>>
    <3> HIDE DEF e
    <3>1. e.n \in Actions /\ \A m \in Actions : m > next => m # e.n
      BY <1>4, <2>2, NextIs
    <3>2. pend' \in [Actions -> Pends]
      <4>1. pend \in [Actions -> Pends] /\ pend[e.n] \in Pends
        BY <3>1 DEF TypeInv, TypeOK, Pends
      <4>2. [pend[e.n] EXCEPT !.rec = TRUE] \in Pends
        BY <4>1 DEF Pends
      <4>3. pend' = [pend EXCEPT ![e.n] = [pend[e.n] EXCEPT !.rec = TRUE]]
        BY <2>2
      <4> QED
        BY <3>1, <4>1, <4>2, <4>3
    <3>3. \A m \in Actions : m > next => pend'[m] = pend[m]
      BY <2>2, <3>1 DEF TypeInv, TypeOK
    <3> QED
      BY <2>2, <3>2, <3>3 DEF TypeInv, TypeOK, NumberInv
  <2>3. CASE e.ev = "requested" /\ Reply(e.n, "cancelled")
    <3>1. "cancelled" \in Decisions
      BY DEF Decisions
    <3> HIDE DEF e
    <3> QED
      BY <1>4, <2>3, <3>1, ReplyType
  <2> QED
    BY <2>1, <2>2, <2>3 DEF FlushOne
<1>6. Still /\ turn' = turn
  BY DEF FlushOne, Still
<1>7. TurnInv' /\ turn'.verb \in {"none", "tend", "list", "answer", "finish"}
  BY <1>6 DEF TypeInv, TurnInv
<1> HIDE DEF e
<1> QED
  BY <1>1, <1>3, <1>5, <1>6, <1>7, StillType

\* An expiry and a cancellation: an append, then the reply whatever came of it.
LEMMA CloseOneType ==
  ASSUME TypeInv, NEW n \in Actions, n \in Pending, NEW d \in Decisions,
         Wrote(Answered(n, d, None)) \/ NotWrote(Answered(n, d, None)), Reply(n, d),
         Still, UNCHANGED <<queue, turn>>
  PROVE  TypeInv'
<1>1. n <= next
  BY PendingKnown
<1>2. Answered(n, d, None) \in Records(next)
  BY <1>1, RecordsAre, NextIs
<1>3. TurnInv' /\ turn'.verb \in {"none", "tend", "list", "answer", "finish"}
  BY DEF TypeInv, TurnInv
<1>4. queue' \in Seq(Records(next))
  BY DEF TypeInv, RecordInv
<1>5. /\ log' \in Seq(Records(next)) /\ torn' \in BOOLEAN /\ full' \in BOOLEAN /\ faults' \in Nat
  BY <1>2, AppendType
<1> QED
  BY <1>1, <1>3, <1>4, <1>5, ReplyType, StillType

LEMMA ExpireOneType ==
  ASSUME TypeInv, NEW n \in Actions, ExpireOne(n) PROVE TypeInv'
<1>1. n \in Pending /\ "expired" \in Decisions
  BY DEF ExpireOne, Due, Decisions
<1>2. Still /\ UNCHANGED <<queue, turn>>
  BY DEF ExpireOne, Still
<1>3. /\ Wrote(Answered(n, "expired", None)) \/ NotWrote(Answered(n, "expired", None))
      /\ Reply(n, "expired")
  BY DEF ExpireOne
<1> QED
  BY <1>1, <1>2, <1>3, CloseOneType

LEMMA CancelOneType ==
  ASSUME TypeInv, NEW n \in Actions, CancelOne(n) PROVE TypeInv'
<1>1. n \in Pending /\ "cancelled" \in Decisions
  BY DEF CancelOne, Decisions
<1>2. Still /\ UNCHANGED <<queue, turn>>
  BY DEF CancelOne, Still
<1>3. /\ Wrote(Answered(n, "cancelled", None)) \/ NotWrote(Answered(n, "cancelled", None))
      /\ Reply(n, "cancelled")
  BY DEF CancelOne
<1> QED
  BY <1>1, <1>2, <1>3, CloseOneType

LEMMA DecideType ==
  ASSUME TypeInv, Decide PROVE TypeInv'
<1> DEFINE n == turn.n
           d == turn.d
           e == Answered(n, d, turn.op)
<1>1. n \in Actions /\ d \in Decisions /\ turn.op \in Ops
  BY DEF Decide, TypeInv, TurnInv, Decisions
<1>2. TurnInv' /\ turn'.verb \in {"none", "tend", "list", "answer", "finish"}
  BY DEF Decide, TurnInv, NoTurn
<1>3. queue' \in Seq(Records(next)) /\ queue' = queue
  BY DEF Decide, TypeInv, RecordInv
<1>4. CASE pend[n].on
  <2>1. n <= next
    BY <1>1, <1>4, PendingKnown
  <2>2. e \in Records(next)
    BY <1>1, <2>1, RecordsAre, NextIs
  <2>3. CASE Wrote(e) \/ NotWrote(e)
    <3>1. /\ log' \in Seq(Records(next)) /\ torn' \in BOOLEAN /\ full' \in BOOLEAN /\ faults' \in Nat
      <4> HIDE DEF e
      <4> QED
        BY <2>2, <2>3, AppendType
    <3>2. /\ pend' \in [Actions -> Pends] /\ ans' \in [Actions -> Decisions \cup {"none"}]
          /\ told' \in [Actions -> Decisions \cup {"none"}] /\ open' \subseteq Conns
          /\ \A m \in Actions : m > next =>
               pend'[m] = NoPending /\ ans'[m] = "none" /\ told'[m] = "none"
      <4>1. CASE Reply(n, d)
        <5> HIDE DEF n, d
        <5> QED
          BY <1>1, <2>1, <4>1, ReplyType
      <4>2. CASE UNCHANGED <<pend, ans, told, open>>
        BY <4>2 DEF TypeInv, TypeOK, Pends, NumberInv
      <4> QED
        BY <4>1, <4>2 DEF Decide
    <3>3. ops' \in [Ops -> Actions \cup {0}]
      BY <1>1 DEF Decide, TypeInv, TypeOK
    <3>4. queue' \in Seq(Event) /\ log' \in Seq(Event)
      BY <1>3, <3>1, NextIs, RecordsType
    <3>5. TypeOK'
      BY <1>2, <3>1, <3>2, <3>3, <3>4 DEF Decide, TypeInv, TypeOK, Pends
    <3>6. NumberInv'
      BY <3>2 DEF Decide, TypeInv, NumberInv, Opened
    <3>7. RecordInv'
      BY <1>3, <3>1 DEF Decide, RecordInv
    <3> QED
      BY <1>2, <3>5, <3>6, <3>7 DEF TypeInv
  <2>4. CASE UNCHANGED <<evidence, ops, pend, ans, told, open>>
    BY <2>4, <1>2, <1>3 DEF Decide, TypeInv, TypeOK, NumberInv, Opened, RecordInv, evidence
  <2> QED
    BY <2>3, <2>4 DEF Decide
<1>5. CASE ~pend[n].on
  <2>1. UNCHANGED <<evidence, ops, pend, ans, told, open>>
    BY <1>5 DEF Decide
  <2> QED
    BY <2>1, <1>2, <1>3 DEF Decide, TypeInv, TypeOK, NumberInv, Opened, RecordInv, evidence
<1> QED
  BY <1>4, <1>5

LEMMA RecoverType ==
  ASSUME TypeInv, NEW n \in Actions, Recover(n) PROVE TypeInv'
<1>1. PICK i \in DOMAIN log : log[i] = Requested(n)
  BY DEF Recover, Unanswered
<1>2. log[i] \in Records(next)
  BY <1>1 DEF TypeInv, RecordInv
<1>3. n <= next
  BY <1>1, <1>2, NextIs DEF Records, Requested
<1>4. Answered(n, "cancelled", None) \in Records(next)
  BY <1>3, RecordsAre, NextIs DEF Decisions
<1>5. log' \in Seq(Records(next))
  BY <1>4, AppendIs DEF Recover, TypeInv, RecordInv
<1>6. log' \in Seq(Event)
  BY <1>5, NextIs, RecordsType
<1> QED
  BY <1>5, <1>6 DEF Recover, TypeInv, TypeOK, TurnInv, NumberInv, Opened, RecordInv,
     channel, history

LEMMA TypeStutter ==
  ASSUME TypeInv, UNCHANGED vars PROVE TypeInv'
BY DEF vars, channel, evidence, history, TypeInv, TypeOK, TurnInv, NumberInv, RecordInv, Opened

LEMMA TypeStep == TypeInv /\ [Next]_vars => TypeInv'
<1> SUFFICES ASSUME TypeInv, [Next]_vars PROVE TypeInv'
  OBVIOUS
<1>1. ASSUME NEW c \in Conns, Connection(c) PROVE TypeInv'
  BY <1>1, AcceptType, BadLineType, RefuseType, EofType, WithdrawType, AskType DEF Connection
<1>2. ASSUME NEW S \in SUBSET Holds \ {{}}, Touch(S) PROVE TypeInv'
  BY <1>2, TouchType
<1>3. CASE TurnStep
  BY <1>3, FlushOneType, EndTurnType, DecideType, ShutType, ExpireOneType, CancelOneType
     DEF TurnStep
<1>4. CASE Tend \/ List \/ Finish \/ Pause \/ Resume \/ Tick \/ Fill \/ Crash
  BY <1>4, TendType, ListType, FinishType, PauseType, ResumeType, TickType, FillType, CrashType
<1>5. ASSUME NEW op \in Ops, NEW n \in Actions, NEW d \in {"approved", "denied"},
             Answer(op, n, d) PROVE TypeInv'
  BY <1>5, AnswerType
<1>6. ASSUME NEW n \in Actions, Recover(n) PROVE TypeInv'
  BY <1>6, RecoverType
<1> QED
  BY <1>1, <1>2, <1>3, <1>4, <1>5, <1>6, TypeStutter DEF Next

\* Every variable keeps its shape, and no number is handed out beyond what the grant and the
\* held capabilities allow: actions.rs register, held.
THEOREM TypeCorrect == Spec => []TypeOK
<1>1. TypeInv => TypeOK
  BY DEF TypeInv
<1> QED
  BY TypeInit, TypeStep, <1>1, PTL DEF Spec

--------------------------------------------------------------------------------
(* Answers, holds, waits and the end *)

\* What is pending is not answered, and what the workload was told is the answer.
AnswerInv ==
  \A n \in Actions : /\ pend[n].on => ans[n] = "none"
                     /\ told[n] # "none" => told[n] = ans[n]

\* The answer d of a control plane to request n is in the log.
Decided(n, d) == \E k \in LoggedAnswers(n) : log[k].d = d /\ log[k].op # None

\* What the log vouches for.
VouchInv ==
  /\ \A n \in Actions, d \in {"approved", "denied"} : ans[n] = d => Decided(n, d)
  /\ \A n \in Actions : pend[n].on /\ pend[n].rec => LoggedRequests(n) # {}
  /\ ListedRecorded
  /\ \A i \in passed : slot[i] # 0 /\ ans[slot[i]] = "approved"

\* A closed channel has nothing pending, a finished one nothing queued either.
ClosedInv ==
  /\ closed => \A n \in Actions : ~pend[n].on
  /\ finished => closed /\ queue = <<>>

\* The time left and the time waited make up the wait, pauses apart.
WaitInv ==
  /\ ~paused => since = 0
  /\ \A n \in Actions : /\ pend[n].on => pend[n].deadline - since = Wait - waited[n]
                        /\ ans[n] = "expired" => waited[n] >= Wait

ChannelInv == AnswerInv /\ VouchInv /\ ClosedInv /\ WaitInv

\* What a step may do to a request: leave it, settle it or open it.
LogKept == \A k \in DOMAIN log : k \in DOMAIN log' /\ log'[k] = log[k]

Leaves(n) ==
  /\ pend'[n].on => pend[n].on /\ pend'[n].deadline = pend[n].deadline
  /\ pend'[n].on /\ pend'[n].rec => pend[n].rec \/ LoggedRequests(n)' # {}
  /\ ans'[n] = ans[n] /\ told'[n] = told[n]

Settles(n) ==
  /\ pend[n].on /\ ~pend'[n].on
  /\ ans'[n] \in Decisions /\ told'[n] \in {told[n], ans'[n]}
  /\ ans'[n] = "expired" => ~paused /\ pend[n].deadline <= 0
  /\ \A d \in {"approved", "denied"} : ans'[n] = d => Decided(n, d)'

Opens(n) ==
  /\ n > next /\ ~closed
  /\ pend'[n].on /\ ~pend'[n].rec /\ pend'[n].deadline = since + Wait
  /\ ans'[n] = ans[n] /\ told'[n] = told[n]

Moves == \A n \in Actions : Leaves(n) \/ Settles(n) \/ Opens(n)

Fair == UNCHANGED <<waited, since, paused>>

Final ==
  \A n \in Actions :
    /\ ans[n] # "none" => ans'[n] = ans[n]
    /\ told'[n] # told[n] => told[n] = "none" /\ told'[n] = ans'[n]

LEMMA MovesAnswer ==
  ASSUME TypeInv, AnswerInv, Moves PROVE AnswerInv' /\ Final
<1> SUFFICES ASSUME NEW n \in Actions
             PROVE  /\ pend'[n].on => ans'[n] = "none"
                    /\ told'[n] # "none" => told'[n] = ans'[n]
                    /\ ans[n] # "none" => ans'[n] = ans[n]
                    /\ told'[n] # told[n] => told[n] = "none" /\ told'[n] = ans'[n]
  BY DEF AnswerInv, Final
<1>0. /\ pend[n].on => ans[n] = "none"
      /\ told[n] # "none" => told[n] = ans[n]
      /\ n > next => ans[n] = "none" /\ told[n] = "none"
  BY DEF AnswerInv, TypeInv, NumberInv
<1>1. CASE Leaves(n)
  BY <1>0, <1>1 DEF Leaves
<1>2. CASE Settles(n)
  BY <1>0, <1>2 DEF Settles, Decisions
<1>3. CASE Opens(n)
  BY <1>0, <1>3 DEF Opens
<1> QED
  BY <1>1, <1>2, <1>3 DEF Moves

LEMMA MovesWait ==
  ASSUME TypeInv, WaitInv, Moves, Fair PROVE WaitInv'
<1> SUFFICES ASSUME NEW n \in Actions
             PROVE  /\ pend'[n].on => pend'[n].deadline - since = Wait - waited[n]
                    /\ ans'[n] = "expired" => waited[n] >= Wait
  BY DEF WaitInv, Fair
<1>0. /\ pend[n].on => pend[n].deadline - since = Wait - waited[n]
      /\ ans[n] = "expired" => waited[n] >= Wait
      /\ n > next => ans[n] = "none" /\ waited[n] = 0
      /\ ~paused => since = 0
      /\ since \in Int /\ waited[n] \in Nat /\ Wait \in Nat /\ pend[n].deadline \in Int
  BY Bounds DEF WaitInv, TypeInv, TypeOK, NumberInv
<1>1. CASE Leaves(n)
  BY <1>0, <1>1 DEF Leaves
<1>2. CASE Settles(n)
  BY <1>0, <1>2 DEF Settles
<1>3. CASE Opens(n)
  BY <1>0, <1>3 DEF Opens
<1> QED
  BY <1>1, <1>2, <1>3 DEF Moves

LEMMA LogKeeps ==
  ASSUME LogKept, NEW n
  PROVE  /\ LoggedRequests(n) # {} => LoggedRequests(n)' # {}
         /\ \A d : Decided(n, d) => Decided(n, d)'
<1>1. \A k \in LoggedRequests(n) : k \in LoggedRequests(n)'
  BY DEF LogKept, LoggedRequests
<1>2. \A k \in LoggedAnswers(n) : k \in LoggedAnswers(n)' /\ log'[k] = log[k]
  BY DEF LogKept, LoggedAnswers
<1> QED
  BY <1>1, <1>2 DEF Decided

LEMMA MovesVouch ==
  ASSUME TypeInv, AnswerInv, VouchInv, Moves, LogKept, UNCHANGED <<listed, passed, slot>>
  PROVE  VouchInv'
<1>1. \A n \in Actions, d \in {"approved", "denied"} : ans'[n] = d => Decided(n, d)'
  <2> SUFFICES ASSUME NEW n \in Actions, NEW d \in {"approved", "denied"}, ans'[n] = d
               PROVE Decided(n, d)'
    OBVIOUS
  <2>1. CASE ans'[n] = ans[n]
    <3>1. Decided(n, d)
      BY <2>1 DEF VouchInv
    <3> QED
      BY <3>1, LogKeeps
  <2>2. CASE Settles(n)
    BY <2>2 DEF Settles
  <2> QED
    BY <2>1, <2>2 DEF Moves, Leaves, Opens
<1>2. \A n \in Actions : pend'[n].on /\ pend'[n].rec => LoggedRequests(n)' # {}
  <2> SUFFICES ASSUME NEW n \in Actions, pend'[n].on, pend'[n].rec
               PROVE LoggedRequests(n)' # {}
    OBVIOUS
  <2>1. Leaves(n)
    BY DEF Moves, Settles, Opens
  <2>2. CASE pend[n].rec
    BY <2>1, <2>2, LogKeeps DEF Leaves, VouchInv
  <2> QED
    BY <2>1, <2>2 DEF Leaves
<1>3. ListedRecorded'
  BY LogKeeps DEF VouchInv, ListedRecorded
<1>4. \A i \in passed' : slot'[i] # 0 /\ ans'[slot'[i]] = "approved"
  <2>1. \A i \in passed : slot[i] \in Actions /\ ans[slot[i]] = "approved"
    BY DEF VouchInv, TypeInv, TypeOK
  <2> QED
    BY <2>1, MovesAnswer DEF Final, VouchInv
<1> QED
  BY <1>1, <1>2, <1>3, <1>4 DEF VouchInv

Shown == UNCHANGED <<listed, passed, slot>>

LEMMA MovesChannel ==
  ASSUME TypeInv, ChannelInv, Moves, LogKept, Fair, Shown, ClosedInv'
  PROVE  ChannelInv' /\ Final
BY MovesAnswer, MovesVouch, MovesWait DEF ChannelInv, Shown

LEMMA QuietMoves ==
  ASSUME UNCHANGED <<pend, ans, told, log>> PROVE Moves /\ LogKept
BY DEF Moves, LogKept, Leaves

\* A step that touches no request and only appends to the log.
LEMMA QuietChannel ==
  ASSUME TypeInv, ChannelInv, UNCHANGED <<pend, ans, told, closed, finished, queue>>, LogKept,
         Fair, Shown
  PROVE  ChannelInv' /\ Final
<1>1. Moves
  BY DEF Moves, Leaves
<1>2. ClosedInv'
  BY DEF ChannelInv, ClosedInv
<1> QED
  BY <1>1, <1>2, MovesChannel

LEMMA LogStays == ASSUME log' = log PROVE LogKept
BY DEF LogKept

LEMMA LogAppended ==
  ASSUME TypeInv, NEW e \in Records(next), log' \in {log, Append(log, e)} PROVE LogKept
BY AppendIs, LogStays DEF LogKept, TypeInv, RecordInv

LEMMA AcceptChannel ==
  ASSUME TypeInv, ChannelInv, NEW c \in Conns, Accept(c) PROVE ChannelInv' /\ Final
BY QuietChannel, LogStays DEF Accept, channel, evidence, history, Fair, Shown

LEMMA BadLineChannel ==
  ASSUME TypeInv, ChannelInv, NEW c \in Conns, BadLine(c) PROVE ChannelInv' /\ Final
BY QuietChannel, LogStays DEF BadLine, channel, evidence, history, Fair, Shown

LEMMA EofChannel ==
  ASSUME TypeInv, ChannelInv, NEW c \in Conns, Eof(c) PROVE ChannelInv' /\ Final
BY QuietChannel, LogStays DEF Eof, channel, evidence, history, Fair, Shown

LEMMA TendChannel ==
  ASSUME TypeInv, ChannelInv, Tend PROVE ChannelInv' /\ Final
BY QuietChannel, LogStays DEF Tend, channel, evidence, history, Fair, Shown

LEMMA ListChannel ==
  ASSUME TypeInv, ChannelInv, List PROVE ChannelInv' /\ Final
BY QuietChannel, LogStays DEF List, channel, evidence, history, Fair, Shown

LEMMA FinishChannel ==
  ASSUME TypeInv, ChannelInv, Finish PROVE ChannelInv' /\ Final
BY QuietChannel, LogStays DEF Finish, channel, evidence, history, Fair, Shown

LEMMA FillChannel ==
  ASSUME TypeInv, ChannelInv, Fill PROVE ChannelInv' /\ Final
BY QuietChannel, LogStays DEF Fill, channel, evidence, history, Fair, Shown

LEMMA AnswerChannel ==
  ASSUME TypeInv, ChannelInv, NEW op \in Ops, NEW n \in Actions, NEW d \in {"approved", "denied"}, Answer(op, n, d) PROVE ChannelInv' /\ Final
BY QuietChannel, LogStays DEF Answer, channel, evidence, history, Fair, Shown

LEMMA RecoverChannel ==
  ASSUME TypeInv, ChannelInv, NEW n \in Actions, Recover(n) PROVE ChannelInv' /\ Final
<1>1. TypeInv' /\ next' = next
  BY RecoverType DEF Recover, channel
<1>2. log \in Seq(Event) /\ Answered(n, "cancelled", None) \in Event
  BY DEF TypeInv, TypeOK, Answered, Event, Decisions
<1>3. LogKept
  BY <1>2, AppendIs DEF Recover, LogKept
<1> QED
  BY <1>3, QuietChannel DEF Recover, channel, history, Fair, Shown

LEMMA CrashChannel ==
  ASSUME TypeInv, ChannelInv, Crash PROVE ChannelInv' /\ Final
<1>1. UNCHANGED <<pend, ans, told, log, closed, finished>> /\ queue' = <<>> /\ Fair /\ Shown
  BY DEF Crash, history, Fair, Shown
<1>2. ClosedInv'
  BY <1>1 DEF ChannelInv, ClosedInv
<1> QED
  BY <1>1, <1>2, QuietMoves, MovesChannel

LEMMA PauseChannel ==
  ASSUME TypeInv, ChannelInv, Pause PROVE ChannelInv' /\ Final
<1>1. UNCHANGED <<pend, ans, told, log, closed, finished, queue, waited, since>> /\ Shown
  BY DEF Pause, evidence, history, Shown
<1>2. ClosedInv' /\ WaitInv'
  BY <1>1 DEF Pause, ChannelInv, ClosedInv, WaitInv
<1>3. Moves /\ LogKept
  BY <1>1, QuietMoves
<1> QED
  BY <1>1, <1>2, <1>3, MovesAnswer, MovesVouch DEF ChannelInv, Shown

LEMMA ShutChannel ==
  ASSUME TypeInv, ChannelInv, Shut PROVE ChannelInv' /\ Final
<1>1. UNCHANGED <<pend, ans, told, log, queue>> /\ Fair /\ Shown
  BY DEF Shut, evidence, history, Fair, Shown
<1>2. \A n \in Actions : ~pend[n].on
  BY DEF Shut, Pending
<1>3. ClosedInv'
  BY <1>1, <1>2 DEF Shut, ClosedInv
<1> QED
  BY <1>1, <1>3, QuietMoves, MovesChannel

LEMMA EndTurnChannel ==
  ASSUME TypeInv, ChannelInv, EndTurn PROVE ChannelInv' /\ Final
<1>1. UNCHANGED <<pend, ans, told, log, closed, finished, queue, passed, slot>> /\ Fair
  BY DEF EndTurn, channel, evidence, Fair
<1>2. Moves /\ LogKept
  BY <1>1, QuietMoves
<1>3. AnswerInv' /\ Final /\ WaitInv' /\ ClosedInv'
  BY <1>1, <1>2, MovesAnswer, MovesWait DEF ChannelInv, ClosedInv
<1>4. \A n : LoggedRequests(n)' = LoggedRequests(n) /\ \A d : Decided(n, d)' <=> Decided(n, d)
  BY <1>1 DEF LoggedRequests, LoggedAnswers, Decided
<1>5. ListedRecorded'
  <2>1. \A n \in Pending : pend[n].rec => LoggedRequests(n) # {}
    BY DEF ChannelInv, VouchInv, Pending
  <2>2. \A n \in listed : LoggedRequests(n) # {}
    BY DEF ChannelInv, VouchInv, ListedRecorded
  <2> QED
    BY <1>4, <2>1, <2>2 DEF EndTurn, ListedRecorded
<1>6. VouchInv'
  BY <1>1, <1>4, <1>5 DEF ChannelInv, VouchInv
<1> QED
  BY <1>3, <1>6 DEF ChannelInv

LEMMA ResumeChannel ==
  ASSUME TypeInv, ChannelInv, Resume PROVE ChannelInv' /\ Final
<1>1. /\ UNCHANGED <<ans, told, log, closed, finished, queue, waited>> /\ Shown
      /\ paused' = FALSE /\ since' = 0
  BY DEF Resume, evidence, history, Shown
<1>2. \A n \in Actions : /\ pend[n].on => pend'[n] = [pend[n] EXCEPT !.deadline = @ - since]
                         /\ ~pend[n].on => pend'[n] = pend[n]
                         /\ pend[n] \in Pends
  BY PendingKnown DEF Resume
<1>3. \A n \in Actions : /\ pend'[n].on => pend[n].on /\ pend'[n].deadline = pend[n].deadline - since
                         /\ pend'[n].rec => pend[n].rec
  BY <1>2 DEF Pends
<1>4. ClosedInv' /\ AnswerInv' /\ Final
  BY <1>1, <1>3 DEF ChannelInv, ClosedInv, AnswerInv, Final
<1>5. WaitInv'
  <2> SUFFICES ASSUME NEW n \in Actions, pend'[n].on
               PROVE  pend'[n].deadline - 0 = Wait - waited[n]
    BY <1>1 DEF ChannelInv, WaitInv
  <2>1. pend[n].on /\ pend'[n].deadline = pend[n].deadline - since
    BY <1>3
  <2>2. pend[n].deadline - since = Wait - waited[n] /\ pend[n].deadline \in Int /\ since \in Int
    BY <2>1, <1>2 DEF ChannelInv, WaitInv, TypeInv, TypeOK, Pends
  <2> QED
    BY <2>1, <2>2
<1>6. \A n : LoggedRequests(n)' = LoggedRequests(n) /\ \A d : Decided(n, d)' <=> Decided(n, d)
  BY <1>1 DEF LoggedRequests, LoggedAnswers, Decided
<1>7. VouchInv'
  BY <1>1, <1>3, <1>6 DEF ChannelInv, VouchInv, ListedRecorded, Shown
<1> QED
  BY <1>4, <1>5, <1>7 DEF ChannelInv

LEMMA TickChannel ==
  ASSUME TypeInv, ChannelInv, Tick PROVE ChannelInv' /\ Final
<1>1. /\ UNCHANGED <<ans, told, log, closed, finished, queue, paused>> /\ Shown
      /\ since' = IF paused THEN since - 1 ELSE 0
  BY DEF Tick, evidence, Shown
<1>2. \A n \in Actions : /\ pend[n].on => pend'[n] = [pend[n] EXCEPT !.deadline = @ - 1]
                         /\ ~pend[n].on => pend'[n] = pend[n]
                         /\ pend[n] \in Pends
                         /\ pend[n].on /\ ~paused => waited'[n] = waited[n] + 1
                         /\ ~pend[n].on \/ paused => waited'[n] = waited[n] + 0
  BY PendingKnown DEF Tick
<1>3. \A n \in Actions : /\ pend'[n].on => pend[n].on /\ pend'[n].deadline = pend[n].deadline - 1
                         /\ pend'[n].rec => pend[n].rec
  BY <1>2 DEF Pends
<1>4. ClosedInv' /\ AnswerInv' /\ Final
  BY <1>1, <1>3 DEF ChannelInv, ClosedInv, AnswerInv, Final
<1>5. WaitInv'
  <2>0. ~paused' => since' = 0
    BY <1>1
  <2> SUFFICES ASSUME NEW n \in Actions
               PROVE  /\ pend'[n].on => pend'[n].deadline - since' = Wait - waited'[n]
                      /\ ans'[n] = "expired" => waited'[n] >= Wait
    BY <2>0 DEF WaitInv
  <2>1. /\ waited[n] \in Nat /\ Wait \in Nat /\ since \in Int /\ pend[n].deadline \in Int
        /\ pend[n].on => pend[n].deadline - since = Wait - waited[n]
        /\ ans[n] = "expired" => waited[n] >= Wait
        /\ ~paused => since = 0
    BY <1>2, Bounds DEF ChannelInv, WaitInv, TypeInv, TypeOK, Pends
  <2>2. CASE paused
    <3>0. waited'[n] = waited[n] + 0 /\ since' = since - 1
      BY <1>1, <1>2, <2>2
    <3> QED
      BY <1>1, <1>3, <2>1, <3>0
  <2>3. CASE ~paused
    <3>1. since' = 0 /\ since = 0
      BY <1>1, <2>1, <2>3
    <3>2. CASE pend[n].on
      <4>1. waited'[n] = waited[n] + 1
        BY <1>2, <2>3, <3>2
      <4> QED
        BY <1>1, <1>3, <2>1, <3>1, <3>2, <4>1
    <3>3. CASE ~pend[n].on
      <4>0. waited'[n] = waited[n] + 0
        BY <1>2, <3>3
      <4>1. waited'[n] = waited[n]
        BY <2>1, <4>0
      <4> QED
        BY <1>1, <1>3, <2>1, <3>3, <4>1
    <3> QED
      BY <3>2, <3>3
  <2> QED
    BY <2>2, <2>3
<1>6. \A n : LoggedRequests(n)' = LoggedRequests(n) /\ \A d : Decided(n, d)' <=> Decided(n, d)
  BY <1>1 DEF LoggedRequests, LoggedAnswers, Decided
<1>7. VouchInv'
  BY <1>1, <1>3, <1>6 DEF ChannelInv, VouchInv, ListedRecorded, Shown
<1> QED
  BY <1>4, <1>5, <1>7 DEF ChannelInv

LEMMA ReplySettles ==
  ASSUME TypeInv, NEW n \in Actions, NEW d \in Decisions, pend[n].on, Reply(n, d)
  PROVE  /\ ~pend'[n].on /\ ans'[n] = d /\ told'[n] \in {told[n], ans'[n]}
         /\ \A m \in Actions : m # n => pend'[m] = pend[m] /\ ans'[m] = ans[m] /\ told'[m] = told[m]
<1>1. ~NoPending.on
  BY DEF NoPending
<1> QED
  BY <1>1 DEF Reply, TypeInv, TypeOK

LEMMA LeavesSame ==
  ASSUME NEW n \in Actions, pend'[n] = pend[n], ans'[n] = ans[n], told'[n] = told[n]
  PROVE  Leaves(n)
BY DEF Leaves

\* Nothing opens and nothing is queued.
LEMMA ClosedStays ==
  ASSUME ClosedInv, UNCHANGED <<closed, finished>>, \A n \in Actions : pend'[n].on => pend[n].on,
         finished => queue' = <<>>
  PROVE  ClosedInv'
BY DEF ClosedInv

LEMMA AskChannel ==
  ASSUME TypeInv, ChannelInv, NEW c \in Conns, NEW id \in Ids \cup Holds, Ask(c, id)
  PROVE  ChannelInv' /\ Final
<1>1. /\ UNCHANGED <<ans, told, log, closed, finished>> /\ Fair /\ Shown /\ ~closed
      /\ sent < MaxTotal
  BY DEF Ask, Registrable, evidence, history, Fair, Shown
<1>2. next + 1 \in Actions /\ next + 1 > next
  BY <1>1, NextIs
<1>3. ClosedInv'
  BY <1>1 DEF ChannelInv, ClosedInv
<1>4. pend' = [pend EXCEPT ![next + 1] =
                 [on |-> TRUE, conn |-> c, deadline |-> since + Wait, rec |-> FALSE]]
  BY DEF Ask, Deadline
<1>5. Opens(next + 1)
  BY <1>1, <1>2, <1>4 DEF Opens, TypeInv, TypeOK
<1>6. \A n \in Actions : n # next + 1 => Leaves(n)
  BY <1>1, <1>4, LeavesSame DEF TypeInv, TypeOK
<1> QED
  BY <1>1, <1>3, <1>5, <1>6, LogStays, MovesChannel DEF Moves

LEMMA TouchChannel ==
  ASSUME TypeInv, ChannelInv, NEW S \in SUBSET Holds, Touch(S) PROVE ChannelInv' /\ Final
<1> DEFINE new == Unopened(S)
<1>1. TouchNew(new) /\ new \in SUBSET Holds /\ \A i \in new : slot[i] = 0
  BY TouchIs
<1>2. /\ UNCHANGED <<ans, told, log, closed, finished, listed>> /\ Fair
      /\ passed' = IF \A i \in S : slot'[i] # 0 /\ ans[slot'[i]] = "approved"
                     THEN passed \cup S ELSE passed
  BY DEF Touch, evidence, Fair
<1>3. closed => new = {}
  BY DEF Unopened
<1> HIDE DEF new
<1>4. closed => next' = next /\ queue' = queue
  <2> SUFFICES ASSUME closed PROVE next' = next /\ queue' = queue
    OBVIOUS
  <2>1. Cardinality(new) = 0
    BY <1>3, FS_EmptySet
  <2>2. next' = next /\ queue' = queue \o [k \in 1..0 |-> Requested(next + k)]
    BY <1>1, <2>1, NextIs DEF TouchNew
  <2> DEFINE r == [k \in 1..0 |-> Requested(next + k)]
  <2>3. r \in Seq(Event) /\ Len(r) = 0
    OBVIOUS
  <2> HIDE DEF r
  <2>4. queue \o r = queue
    BY <2>3 DEF TypeInv, TypeOK
  <2> QED
    BY <2>2, <2>4 DEF r
<1>5. \A n \in Actions : pend'[n] = pend[n] \/ Opens(n)
  <2> SUFFICES ASSUME NEW n \in Actions, pend'[n] # pend[n] PROVE Opens(n)
    OBVIOUS
  <2>1. pend'[n] = [on |-> TRUE, conn |-> None, deadline |-> Deadline, rec |-> FALSE]
    BY <1>1 DEF TouchNew
  <2>2. ~(n <= next) /\ ~(n > next')
    BY <1>1 DEF TouchNew
  <2>3. n > next /\ ~closed
    BY <2>2, <1>4, NextIs
  <2> QED
    BY <1>2, <2>1, <2>3 DEF Opens, Deadline
<1>6. Moves /\ LogKept
  BY <1>2, <1>5, LeavesSame, LogStays DEF Moves
<1>7. AnswerInv' /\ Final /\ WaitInv'
  BY <1>2, <1>6, MovesAnswer, MovesWait DEF ChannelInv
<1>8. ClosedInv'
  BY <1>2, <1>4, <1>5 DEF ChannelInv, ClosedInv, Opens
<1>9. VouchInv'
  <2>1. \A n : LoggedRequests(n)' = LoggedRequests(n) /\ \A d : Decided(n, d)' <=> Decided(n, d)
    BY <1>2 DEF LoggedRequests, LoggedAnswers, Decided
  <2>2. \A i \in Holds : slot[i] # 0 => slot'[i] = slot[i]
    BY <1>1 DEF TouchNew
  <2>3. \A i \in passed' : slot'[i] # 0 /\ ans'[slot'[i]] = "approved"
    BY <1>2, <2>2 DEF ChannelInv, VouchInv, TypeInv, TypeOK
  <2>4. \A n \in Actions : pend'[n].on /\ pend'[n].rec => pend'[n] = pend[n]
    BY <1>5 DEF Opens
  <2>5. \A n \in Actions : pend'[n].on /\ pend'[n].rec => LoggedRequests(n)' # {}
    BY <2>1, <2>4 DEF ChannelInv, VouchInv
  <2>6. ListedRecorded'
    BY <1>2, <2>1 DEF ChannelInv, VouchInv, ListedRecorded
  <2> QED
    BY <1>2, <2>1, <2>3, <2>5, <2>6 DEF ChannelInv, VouchInv
<1> QED
  BY <1>7, <1>8, <1>9 DEF ChannelInv

LEMMA WithdrawChannel ==
  ASSUME TypeInv, ChannelInv, NEW c \in Conns, Withdraw(c) PROVE ChannelInv' /\ Final
<1> DEFINE gone == {n \in Pending : pend[n].conn = c}
<1>1. /\ UNCHANGED <<told, log, closed, finished>> /\ Fair /\ Shown
      /\ pend' = [n \in Actions |-> IF n \in gone THEN NoPending ELSE pend[n]]
      /\ ans' = [n \in Actions |-> IF n \in gone THEN "cancelled" ELSE ans[n]]
      /\ queue' = queue \o Cancellations(gone)
  BY DEF Withdraw, evidence, history, Fair, Shown
<1>2. ~NoPending.on /\ "cancelled" \in Decisions
  BY DEF NoPending, Decisions
<1>3. \A n \in gone : pend[n].on
  BY PendingKnown
<1>4. \A n \in Actions : n \in gone => Settles(n)
  BY <1>1, <1>2, <1>3 DEF Settles
<1>5. \A n \in Actions : n \notin gone => Leaves(n)
  BY <1>1, LeavesSame
<1>6. finished => queue' = <<>>
  <2> SUFFICES ASSUME finished PROVE queue' = <<>>
    OBVIOUS
  <2>1. gone = {} /\ queue = <<>>
    BY <1>3, PendingKnown DEF ChannelInv, ClosedInv
  <2>2. Cancellations({}) = <<>>
    BY CancelsEach
  <2>3. <<>> \o <<>> = <<>>
    OBVIOUS
  <2> QED
    BY <1>1, <2>1, <2>2, <2>3
<1>7. ClosedInv'
  BY <1>1, <1>2, <1>6, ClosedStays DEF ChannelInv
<1> QED
  BY <1>1, <1>4, <1>5, <1>7, LogStays, MovesChannel DEF Moves

LEMMA RefuseChannel ==
  ASSUME TypeInv, ChannelInv, NEW c \in Conns, Refuse(c) PROVE ChannelInv' /\ Final
<1> DEFINE q == Append(queue, Refused)
<1>1. UNCHANGED <<log, finished>> /\ Fair /\ Shown
  BY DEF Refuse, evidence, Fair, Shown
<1>2. CASE closed
  BY <1>1, <1>2, LogStays, QuietChannel DEF Refuse
<1>3. CASE ~closed /\ UNCHANGED <<pend, ans, told, open, closed>>
  <2>1. ClosedInv'
    BY <1>1, <1>3 DEF ChannelInv, ClosedInv
  <2> QED
    BY <1>1, <1>3, <2>1, QuietMoves, MovesChannel
<1>4. CASE ~closed /\ Close(q)
  <2>1. ~NoPending.on /\ "cancelled" \in Decisions
    BY DEF NoPending, Decisions
  <2>2. PICK got \in SUBSET {n \in Pending : pend[n].conn \in open} :
          told' = [n \in Actions |-> IF n \in got THEN "cancelled" ELSE told[n]]
    BY <1>4 DEF Close
  <2>3. \A n \in Actions : n \in Pending => Settles(n)
    BY <1>1, <1>4, <2>1, <2>2, PendingKnown DEF Settles, Close
  <2>4. \A n \in Actions : n \notin Pending => Leaves(n)
    BY <1>1, <1>4, <2>1, <2>2, PendingKnown DEF Leaves, Close
  <2>5. ClosedInv'
    BY <1>1, <1>4, <2>1 DEF Close, ChannelInv, ClosedInv
  <2> QED
    BY <1>1, <2>3, <2>4, <2>5, LogStays, MovesChannel DEF Moves
<1> QED
  BY <1>2, <1>3, <1>4 DEF Refuse

\* A request settled by a step of a turn.
LEMMA OneSettled ==
  ASSUME TypeInv, ChannelInv, NEW n \in Actions, NEW d \in Decisions, pend[n].on, Reply(n, d),
         LogKept, d = "expired" => ~paused /\ pend[n].deadline <= 0,
         d \in {"approved", "denied"} => Decided(n, d)',
         UNCHANGED <<closed, finished>>, Fair, Shown, finished => queue' = <<>>
  PROVE  ChannelInv' /\ Final
<1>1. /\ ~pend'[n].on /\ ans'[n] = d /\ told'[n] \in {told[n], ans'[n]}
      /\ \A m \in Actions : m # n => pend'[m] = pend[m] /\ ans'[m] = ans[m] /\ told'[m] = told[m]
  BY ReplySettles
<1>2. Settles(n)
  BY <1>1 DEF Settles
<1>3. \A m \in Actions : m # n => Leaves(m)
  BY <1>1, LeavesSame
<1>4. ClosedInv'
  BY <1>1, ClosedStays DEF ChannelInv
<1> QED
  BY <1>2, <1>3, <1>4, MovesChannel DEF Moves

LEMMA ExpireOneChannel ==
  ASSUME TypeInv, ChannelInv, NEW n \in Actions, ExpireOne(n) PROVE ChannelInv' /\ Final
<1>1. /\ n \in Pending /\ ~paused /\ pend[n].deadline <= 0 /\ "expired" \in Decisions
      /\ UNCHANGED <<closed, finished>> /\ Fair /\ Shown /\ queue' = queue
  BY DEF ExpireOne, Due, Decisions, Fair, Shown
<1>2. pend[n].on /\ n <= next
  BY <1>1, PendingKnown
<1>3. Answered(n, "expired", None) \in Records(next)
  BY <1>1, <1>2, RecordsAre, NextIs
<1>4. LogKept
  BY <1>3, AppendType, LogAppended DEF ExpireOne
<1> QED
  BY <1>1, <1>2, <1>4, OneSettled DEF ExpireOne, ChannelInv, ClosedInv

LEMMA CancelOneChannel ==
  ASSUME TypeInv, ChannelInv, NEW n \in Actions, CancelOne(n) PROVE ChannelInv' /\ Final
<1>1. /\ n \in Pending /\ "cancelled" \in Decisions
      /\ UNCHANGED <<closed, finished>> /\ Fair /\ Shown /\ queue' = queue
  BY DEF CancelOne, Decisions, Fair, Shown
<1>2. pend[n].on /\ n <= next
  BY <1>1, PendingKnown
<1>3. Answered(n, "cancelled", None) \in Records(next)
  BY <1>1, <1>2, RecordsAre, NextIs
<1>4. LogKept
  BY <1>3, AppendType, LogAppended DEF CancelOne
<1> QED
  BY <1>1, <1>2, <1>4, OneSettled DEF CancelOne, ChannelInv, ClosedInv

LEMMA DecideChannel ==
  ASSUME TypeInv, ChannelInv, Decide PROVE ChannelInv' /\ Final
<1>0. PICK n \in Actions, d \in {"approved", "denied"}, op \in Ops :
        n = turn.n /\ d = turn.d /\ op = turn.op
  BY DEF Decide, TypeInv, TurnInv
<1> DEFINE e == Answered(n, d, op)
<1>1. n \in Actions /\ d \in Decisions /\ op \in Ops
  BY DEF Decisions
<1>2. UNCHANGED <<closed, finished, queue>> /\ Fair /\ Shown
  BY DEF Decide, Fair, Shown
<1>3. CASE pend[n].on /\ Wrote(e) /\ Reply(n, d)
  <2>1. n <= next
    BY <1>1, <1>3, PendingKnown
  <2>2. e \in Records(next) /\ log \in Seq(Records(next))
    BY <1>1, <2>1, RecordsAre, NextIs DEF TypeInv, RecordInv
  <2>3. log' = Append(log, e)
    BY <1>3 DEF Wrote
  <2>4. e.ev = "answered" /\ e.n = n /\ e.d = d /\ e.op # None
    BY <1>1, Bounds DEF Answered
  <2> HIDE DEF e
  <2>5. LogKept
    BY <2>2, <2>3, LogAppended
  <2>6. Len(log) + 1 \in DOMAIN log' /\ log'[Len(log) + 1] = e
    BY <2>2, <2>3, AppendIs
  <2>7. Decided(n, d)'
    BY <2>4, <2>6 DEF Decided, LoggedAnswers
  <2>8. d # "expired" /\ (finished => queue' = <<>>)
    BY <1>1, <1>2 DEF ChannelInv, ClosedInv
  <2> QED
    BY <1>1, <1>2, <1>3, <2>5, <2>7, <2>8, OneSettled
<1>4. CASE UNCHANGED <<pend, ans, told, open>> /\ LogKept
  BY <1>2, <1>4, QuietChannel
<1>5. CASE pend[n].on /\ NotWrote(e) /\ UNCHANGED <<ops, pend, ans, told, open>>
  <2>1. n <= next
    BY <1>1, <1>5, PendingKnown
  <2>2. e \in Records(next)
    BY <1>1, <2>1, RecordsAre, NextIs
  <2> HIDE DEF e
  <2>3. LogKept
    BY <1>5, <2>2, AppendType, LogAppended
  <2> QED
    BY <1>4, <1>5, <2>3
<1>6. CASE UNCHANGED <<evidence, ops, pend, ans, told, open>>
  BY <1>4, <1>6, LogStays DEF evidence
<1> QED
  BY <1>0, <1>3, <1>5, <1>6 DEF Decide

LEMMA FlushOneChannel ==
  ASSUME TypeInv, ChannelInv, FlushOne PROVE ChannelInv' /\ Final
<1>0. Head(queue) \in Records(next) /\ queue # <<>>
  BY TailIs DEF FlushOne, TypeInv, RecordInv
<1>1. PICK e \in Records(next) : e = Head(queue)
  BY <1>0
<1>2. UNCHANGED <<closed, finished>> /\ Fair /\ Shown /\ ~finished
  BY <1>0 DEF FlushOne, Fair, Shown, ChannelInv, ClosedInv
<1>3. LogKept
  <2>1. Wrote(e) \/ NotWrote(e)
    BY <1>1 DEF FlushOne
  <2> QED
    BY <1>1, <2>1, AppendType, LogAppended
<1>4. e.ev = "requested" => e.n \in Actions /\ e = Requested(e.n)
  <2>1. e.ev = "requested" => e.n \in 1..next /\ e = Requested(e.n)
    BY <1>1 DEF Records
  <2> QED
    BY <2>1, NextIs, Bounds DEF Actions, TypeInv, TypeOK
<1>5. CASE UNCHANGED <<pend, ans, told, open>>
  <2>1. Moves
    BY <1>5 DEF Moves, Leaves
  <2>2. ClosedInv'
    BY <1>2, <1>5, ClosedStays DEF ChannelInv
  <2> QED
    BY <1>2, <1>3, <2>1, <2>2, MovesChannel
<1>8. ASSUME e.ev = "requested", pend[e.n].on,
             \/ Wrote(e) /\ pend' = [pend EXCEPT ![e.n].rec = TRUE] /\ UNCHANGED <<ans, told, open>>
             \/ Reply(e.n, "cancelled")
      PROVE  ChannelInv' /\ Final
  <2>0. PICK n \in Actions : n = e.n /\ e = Requested(n) /\ pend[n].on /\ pend[n] \in Pends
    BY <1>4, <1>8, PendingKnown
  <2>1. CASE Wrote(e) /\ pend' = [pend EXCEPT ![n].rec = TRUE] /\ UNCHANGED <<ans, told, open>>
    <3>1. log \in Seq(Records(next)) /\ log' = Append(log, e)
      BY <2>1 DEF Wrote, TypeInv, RecordInv
    <3>2. Len(log) + 1 \in DOMAIN log' /\ log'[Len(log) + 1] = Requested(n)
      BY <2>0, <3>1, AppendIs
    <3>3. LoggedRequests(n)' # {}
      BY <3>2 DEF LoggedRequests
    <3>4. pend'[n].deadline = pend[n].deadline
      BY <2>0, <2>1 DEF TypeInv, TypeOK, Pends
    <3>5. \A m \in Actions : m # n => pend'[m] = pend[m]
      BY <2>1 DEF TypeInv, TypeOK
    <3>6. Leaves(n)
      BY <2>0, <2>1, <3>3, <3>4 DEF Leaves
    <3>7. Moves
      BY <2>1, <3>5, <3>6, LeavesSame DEF Moves
    <3>8. ClosedInv'
      BY <1>2, <2>0, <3>5, ClosedStays DEF ChannelInv
    <3> QED
      BY <1>2, <1>3, <3>7, <3>8, MovesChannel
  <2>2. CASE Reply(n, "cancelled")
    <3>1. "cancelled" \in Decisions
      BY DEF Decisions
    <3> QED
      BY <1>2, <1>3, <2>0, <2>2, <3>1, OneSettled
  <2> QED
    BY <1>8, <2>0, <2>1, <2>2
<1> QED
  BY <1>1, <1>5, <1>8 DEF FlushOne

LEMMA ChannelInit == Init => ChannelInv
BY DEF Init, ChannelInv, AnswerInv, VouchInv, ClosedInv, WaitInv, ListedRecorded, NoPending

LEMMA ChannelStep ==
  ASSUME TypeInv, ChannelInv, [Next]_vars PROVE ChannelInv' /\ Final
<1>0. CASE UNCHANGED vars
  BY <1>0, QuietChannel, LogStays DEF vars, channel, evidence, history, Fair, Shown
<1>1. ASSUME NEW c \in Conns, Connection(c) PROVE ChannelInv' /\ Final
  BY <1>1, AcceptChannel, BadLineChannel, RefuseChannel, EofChannel, WithdrawChannel, AskChannel
     DEF Connection
<1>2. ASSUME NEW S \in SUBSET Holds \ {{}}, Touch(S) PROVE ChannelInv' /\ Final
  BY <1>2, TouchChannel
<1>3. CASE TurnStep
  BY <1>3, FlushOneChannel, EndTurnChannel, DecideChannel, ShutChannel, ExpireOneChannel,
     CancelOneChannel DEF TurnStep
<1>4. CASE Tend \/ List \/ Finish \/ Pause \/ Resume \/ Tick \/ Fill \/ Crash
  BY <1>4, TendChannel, ListChannel, FinishChannel, PauseChannel, ResumeChannel, TickChannel,
     FillChannel, CrashChannel
<1>5. ASSUME NEW op \in Ops, NEW n \in Actions, NEW d \in {"approved", "denied"},
             Answer(op, n, d) PROVE ChannelInv' /\ Final
  BY <1>5, AnswerChannel
<1>6. ASSUME NEW n \in Actions, Recover(n) PROVE ChannelInv' /\ Final
  BY <1>6, RecoverChannel
<1> QED
  BY <1>0, <1>1, <1>2, <1>3, <1>4, <1>5, <1>6 DEF Next

LEMMA ChannelHolds == Spec => [](TypeInv /\ ChannelInv)
<1>1. Init => TypeInv /\ ChannelInv
  BY TypeInit, ChannelInit
<1>2. TypeInv /\ ChannelInv /\ [Next]_vars => (TypeInv /\ ChannelInv)'
  BY TypeStep, ChannelStep
<1> QED
  BY <1>1, <1>2, PTL DEF Spec

\* An answer is final, whoever gives it and whoever else is about to, and the workload is
\* never told another: actions.rs answer, expire, withdraw, close, finish.
THEOREM AnswersAreFinal == Spec => AnswerFinal
<1>1. TypeInv /\ ChannelInv /\ [Next]_vars
      => [\A n \in Actions :
            /\ ans[n] # "none" => ans'[n] = ans[n]
            /\ told'[n] # told[n] => told[n] = "none" /\ told'[n] = ans'[n]]_vars
  BY ChannelStep DEF Final
<1> QED
  BY ChannelHolds, <1>1, PTL DEF Spec, AnswerFinal

\* The workload hears approved or denied only once the log has that very answer, even if
\* appends fail or tear the log: actions.rs answer, task.rs answer_action.
THEOREM ToldOnlyRecorded == Spec => []ToldAfterRecord
<1>1. TypeInv /\ ChannelInv => ToldAfterRecord
  BY DEF ChannelInv, AnswerInv, VouchInv, Decided, ToldAfterRecord
<1> QED
  BY ChannelHolds, <1>1, PTL

\* A held capability lets nothing through before a control plane's approval of it is in the
\* log: actions.rs held, hold_state.
THEOREM HoldsNeedApproval == Spec => []HoldNeedsApproval
<1>1. TypeInv /\ ChannelInv => HoldNeedsApproval
  <2> SUFFICES ASSUME TypeInv, ChannelInv, NEW i \in passed PROVE Decided(slot[i], "approved")
    BY DEF HoldNeedsApproval, Decided
  <2>1. slot[i] \in Actions /\ ans[slot[i]] = "approved"
    BY DEF ChannelInv, VouchInv, TypeInv, TypeOK
  <2> QED
    BY <2>1 DEF ChannelInv, VouchInv
<1> QED
  BY ChannelHolds, <1>1, PTL

\* A control plane is shown only requests whose record is in the log: task.rs list_actions.
THEOREM ListsOnlyRecorded == Spec => []ListedRecorded
<1>1. TypeInv /\ ChannelInv => ListedRecorded
  BY DEF ChannelInv, VouchInv
<1> QED
  BY ChannelHolds, <1>1, PTL

\* After finish neither a thread still running nor the proxy queues a record:
\* actions.rs finish, shut.
THEOREM FinishedIsSilent == Spec => []SilentOnceFinished
<1>1. TypeInv /\ ChannelInv => SilentOnceFinished
  BY DEF ChannelInv, ClosedInv, SilentOnceFinished, Pending
<1> QED
  BY ChannelHolds, <1>1, PTL

\* No request expires before it was pending for the whole wait, pauses not counted, whatever
\* the order of pauses, resumes and requests: actions.rs pause, resume, expire.
THEOREM ExpiryWaits == Spec => []NoEarlyExpiry
<1>1. TypeInv /\ ChannelInv => NoEarlyExpiry
  BY DEF ChannelInv, WaitInv, NoEarlyExpiry
<1> QED
  BY ChannelHolds, <1>1, PTL

--------------------------------------------------------------------------------
(* The records, written and still queued, in order *)

Rec == log \o queue

Distinct(R) ==
  \A i, j \in DOMAIN R :
    R[i].ev = "requested" /\ R[j].ev = "requested" /\ R[i].n = R[j].n => i = j

InOrder(R) ==
  \A i, j \in DOMAIN R :
    R[i].ev = "requested" /\ R[j].ev = "answered" /\ R[i].n = R[j].n => i < j

\* Outside X every request has at most one answer.
OneAnswer(R, X) ==
  \A i, j \in (DOMAIN R) \ X :
    R[i].ev = "answered" /\ R[j].ev = "answered" /\ R[i].n = R[j].n => i = j

Refusals(R) == {i \in DOMAIN R : R[i].ev = "refused"}

\* Q is R without some of its records.
Thins(R, Q, s) ==
  /\ s \in [DOMAIN Q -> DOMAIN R]
  /\ \A i \in DOMAIN Q : Q[i] = R[s[i]]
  /\ \A i, j \in DOMAIN Q : i < j => s[i] < s[j]

LEMMA Joined ==
  ASSUME NEW T, NEW R \in Seq(T), NEW t \in Seq(T)
  PROVE  /\ \A i \in DOMAIN (R \o t) :
              \/ i \in DOMAIN R /\ (R \o t)[i] = R[i]
              \/ \E k \in DOMAIN t : i = Len(R) + k /\ (R \o t)[i] = t[k]
         /\ \A i \in DOMAIN R : i \in DOMAIN (R \o t) /\ (R \o t)[i] = R[i]
         /\ \A k \in DOMAIN t : Len(R) + k \in DOMAIN (R \o t) /\ (R \o t)[Len(R) + k] = t[k]
<1>1. Len(R) \in Nat /\ Len(t) \in Nat /\ DOMAIN R = 1..Len(R) /\ DOMAIN t = 1..Len(t)
  OBVIOUS
<1>2. /\ DOMAIN (R \o t) = 1..(Len(R) + Len(t))
      /\ \A k \in 1..Len(R) : (R \o t)[k] = R[k]
      /\ \A k \in 1..Len(t) : (R \o t)[Len(R) + k] = t[k]
  BY ConcatIs
<1>3. \A i \in 1..(Len(R) + Len(t)) :
        i \in 1..Len(R) \/ (i - Len(R) \in 1..Len(t) /\ i = Len(R) + (i - Len(R)))
  BY <1>1
<1>4. \A i \in 1..Len(R) : i \in 1..(Len(R) + Len(t))
  BY <1>1
<1>5. \A k \in 1..Len(t) : Len(R) + k \in 1..(Len(R) + Len(t))
  BY <1>1
<1>6. ASSUME NEW i \in DOMAIN (R \o t)
      PROVE  \/ i \in DOMAIN R /\ (R \o t)[i] = R[i]
             \/ \E k \in DOMAIN t : i = Len(R) + k /\ (R \o t)[i] = t[k]
  <2>1. CASE i \in 1..Len(R)
    BY <2>1, <1>1, <1>2
  <2>2. CASE i - Len(R) \in 1..Len(t) /\ i = Len(R) + (i - Len(R))
    <3>1. PICK k \in 1..Len(t) : i = Len(R) + k
      BY <2>2
    <3> QED
      BY <3>1, <1>1, <1>2
  <2> QED
    BY <2>1, <2>2, <1>2, <1>3
<1>7. \A i \in DOMAIN R : i \in DOMAIN (R \o t) /\ (R \o t)[i] = R[i]
  BY <1>1, <1>2, <1>4
<1>8. \A k \in DOMAIN t : Len(R) + k \in DOMAIN (R \o t) /\ (R \o t)[Len(R) + k] = t[k]
  BY <1>1, <1>2, <1>5
<1> QED
  BY <1>6, <1>7, <1>8

LEMMA GrowOrder ==
  ASSUME NEW m \in Nat, NEW R \in Seq(Records(m)), NEW t \in Seq(Event),
         Distinct(R), InOrder(R),
         \A k \in DOMAIN t : t[k].ev = "requested" => t[k].n > m,
         \A k \in DOMAIN t : t[k].ev = "answered" => t[k].n <= m,
         \A j, k \in DOMAIN t : t[j].ev = "requested" /\ t[k].ev = "requested" /\ t[j].n = t[k].n => j = k
  PROVE  Distinct(R \o t) /\ InOrder(R \o t)
<1> DEFINE Q == R \o t
<1>0. R \in Seq(Event) /\ Len(R) \in Nat /\ DOMAIN R = 1..Len(R) /\ DOMAIN t \in SUBSET (Nat \ {0})
  BY RecordsType
<1>1. \A i \in DOMAIN R : R[i] \in Records(m)
  OBVIOUS
<1>2. \A i \in DOMAIN R : R[i].ev # "refused" => R[i].n \in 1..m
  BY <1>1 DEF Records
<1>3. \A i \in DOMAIN Q : \/ i \in DOMAIN R /\ Q[i] = R[i]
                          \/ \E k \in DOMAIN t : i = Len(R) + k /\ Q[i] = t[k]
  BY <1>0, Joined
<1> HIDE DEF Q
<1>4. ASSUME NEW i \in DOMAIN Q, NEW j \in DOMAIN Q, Q[i].ev = "requested", Q[i].n = Q[j].n
      PROVE  /\ Q[j].ev = "requested" => i = j
             /\ Q[j].ev = "answered" => i < j
  <2>1. CASE i \in DOMAIN R /\ Q[i] = R[i] /\ j \in DOMAIN R /\ Q[j] = R[j]
    BY <1>4, <2>1 DEF Distinct, InOrder
  <2>2. ASSUME i \in DOMAIN R, Q[i] = R[i], NEW k \in DOMAIN t, j = Len(R) + k, Q[j] = t[k]
        PROVE  /\ Q[j].ev = "requested" => i = j
               /\ Q[j].ev = "answered" => i < j
    <3>1. i < j
      BY <1>0, <2>2
    <3>2. R[i].n \in 1..m
      BY <1>2, <1>4, <2>2
    <3>3. Q[j].ev # "requested"
      BY <1>4, <2>2, <3>2
    <3> QED
      BY <3>1, <3>3
  <2>3. ASSUME j \in DOMAIN R, Q[j] = R[j], NEW k \in DOMAIN t, i = Len(R) + k, Q[i] = t[k]
        PROVE  /\ Q[j].ev = "requested" => i = j
               /\ Q[j].ev = "answered" => i < j
    <3>1. t[k].n > m /\ R[j].n = t[k].n
      BY <1>4, <2>3
    <3>2. Q[j].ev \in {"requested", "answered"} => R[j].n \in 1..m
      BY <1>2, <2>3
    <3> QED
      BY <3>1, <3>2
  <2>4. ASSUME NEW k \in DOMAIN t, i = Len(R) + k, Q[i] = t[k],
               NEW l \in DOMAIN t, j = Len(R) + l, Q[j] = t[l]
        PROVE  /\ Q[j].ev = "requested" => i = j
               /\ Q[j].ev = "answered" => i < j
    <3>1. t[k].n > m /\ t[l].n = t[k].n /\ t[k].ev = "requested" /\ t[k].n \in Int
      <4>1. t[k] \in Event
        OBVIOUS
      <4>0. \A x \in Actions \cup {0} : x \in Int
        BY ActionsFinite
      <4>2. t[k].n \in Actions \cup {0}
        BY <4>1 DEF Event
      <4>3. t[k].n \in Int
        BY <4>0, <4>2
      <4> QED
        BY <1>4, <2>4, <4>3
    <3>2. Q[j].ev # "answered"
      BY <3>1, <2>4
    <3> QED
      BY <3>1, <3>2, <2>4
  <2> QED
    BY <1>3, <2>1, <2>2, <2>3, <2>4
<1>5. Distinct(Q) /\ InOrder(Q)
  BY <1>4 DEF Distinct, InOrder
<1> QED
  BY <1>5 DEF Q

LEMMA GrowAnswer ==
  ASSUME NEW R \in Seq(Event), NEW t \in Seq(Event), NEW X \in SUBSET DOMAIN R, OneAnswer(R, X),
         \A j, k \in DOMAIN t : t[j].ev = "answered" /\ t[k].ev = "answered" /\ t[j].n = t[k].n => j = k,
         \A i \in (DOMAIN R) \ X, k \in DOMAIN t :
           R[i].ev = "answered" /\ t[k].ev = "answered" => R[i].n # t[k].n
  PROVE  OneAnswer(R \o t, X)
<1> DEFINE Q == R \o t
<1>1. \A i \in DOMAIN Q : \/ i \in DOMAIN R /\ Q[i] = R[i]
                          \/ \E k \in DOMAIN t : i = Len(R) + k /\ Q[i] = t[k]
  BY Joined
<1> HIDE DEF Q
<1> SUFFICES ASSUME NEW i \in (DOMAIN Q) \ X, NEW j \in (DOMAIN Q) \ X,
                    Q[i].ev = "answered", Q[j].ev = "answered", Q[i].n = Q[j].n
             PROVE  i = j
  BY DEF OneAnswer, Q
<1>2. CASE i \in DOMAIN R /\ Q[i] = R[i] /\ j \in DOMAIN R /\ Q[j] = R[j]
  BY <1>2 DEF OneAnswer
<1>3. CASE i \in DOMAIN R /\ Q[i] = R[i] /\ \E k \in DOMAIN t : j = Len(R) + k /\ Q[j] = t[k]
  BY <1>3
<1>4. CASE j \in DOMAIN R /\ Q[j] = R[j] /\ \E k \in DOMAIN t : i = Len(R) + k /\ Q[i] = t[k]
  BY <1>4
<1>5. CASE /\ \E k \in DOMAIN t : i = Len(R) + k /\ Q[i] = t[k]
           /\ \E k \in DOMAIN t : j = Len(R) + k /\ Q[j] = t[k]
  BY <1>5
<1> QED
  BY <1>1, <1>2, <1>3, <1>4, <1>5

LEMMA RefusalsFinite ==
  ASSUME NEW R \in Seq(Event) PROVE IsFiniteSet(Refusals(R)) /\ Cardinality(Refusals(R)) \in Nat
<1>1. Refusals(R) \in SUBSET 1..Len(R) /\ Len(R) \in Nat
  BY DEF Refusals
<1>2. IsFiniteSet(1..Len(R))
  BY <1>1, FS_Interval
<1>3. IsFiniteSet(Refusals(R))
  BY <1>1, <1>2, FS_Subset
<1> QED
  BY <1>3, FS_CardinalityType

LEMMA GrowRefusals ==
  ASSUME NEW R \in Seq(Event), NEW t \in Seq(Event)
  PROVE  /\ (\A k \in DOMAIN t : t[k].ev # "refused") => Refusals(R \o t) = Refusals(R)
         /\ (\A k \in DOMAIN t : t[k].ev = "refused" => k = 1)
            => Cardinality(Refusals(R \o t)) <= Cardinality(Refusals(R)) + 1
<1> DEFINE Q == R \o t
<1>1. /\ \A i \in DOMAIN Q : \/ i \in DOMAIN R /\ Q[i] = R[i]
                             \/ \E k \in DOMAIN t : i = Len(R) + k /\ Q[i] = t[k]
      /\ \A i \in DOMAIN R : i \in DOMAIN Q /\ Q[i] = R[i]
  BY Joined
<1> HIDE DEF Q
<1>2. (\A k \in DOMAIN t : t[k].ev # "refused") => Refusals(Q) = Refusals(R)
  BY <1>1 DEF Refusals
<1>3. ASSUME \A k \in DOMAIN t : t[k].ev = "refused" => k = 1
      PROVE  Cardinality(Refusals(Q)) <= Cardinality(Refusals(R)) + 1
  <2> DEFINE U == Refusals(R) \cup {Len(R) + 1}
  <2>1. Refusals(Q) \in SUBSET U
    BY <1>1, <1>3 DEF Refusals
  <2>2. /\ IsFiniteSet(U)
        /\ Cardinality(U) = IF Len(R) + 1 \in Refusals(R) THEN Cardinality(Refusals(R))
                                                          ELSE Cardinality(Refusals(R)) + 1
    BY RefusalsFinite, FS_AddElement
  <2>3. IsFiniteSet(Refusals(Q)) /\ Cardinality(Refusals(Q)) <= Cardinality(U)
    BY <2>1, <2>2, FS_Subset
  <2>4. Cardinality(Refusals(Q)) \in Nat /\ Cardinality(Refusals(R)) \in Nat
    BY <2>3, RefusalsFinite, FS_CardinalityType
  <2> HIDE DEF U
  <2> QED
    BY <2>2, <2>3, <2>4
<1> QED
  BY <1>2, <1>3 DEF Q

LEMMA ThinKeeps ==
  ASSUME NEW R \in Seq(Event), NEW Q \in Seq(Event), NEW s, Thins(R, Q, s)
  PROVE  /\ Distinct(R) => Distinct(Q)
         /\ InOrder(R) => InOrder(Q)
         /\ \A X : OneAnswer(R, X) /\ (\A i \in DOMAIN Q : s[i] \in X => i \in X) => OneAnswer(Q, X)
         /\ Cardinality(Refusals(Q)) <= Cardinality(Refusals(R))
<1>0. DOMAIN Q \subseteq Nat /\ DOMAIN R \subseteq Nat
  OBVIOUS
<1>1. \A i, j \in DOMAIN Q : s[i] = s[j] => i = j
  <2> SUFFICES ASSUME NEW i \in DOMAIN Q, NEW j \in DOMAIN Q, s[i] = s[j] PROVE i = j
    OBVIOUS
  <2>1. s[i] \in Nat /\ s[j] \in Nat /\ i \in Nat /\ j \in Nat
    BY <1>0 DEF Thins
  <2>2. ~(i < j) /\ ~(j < i)
    BY <2>1 DEF Thins
  <2> QED
    BY <2>1, <2>2
<1>2. \A i, j \in DOMAIN Q : s[i] < s[j] => i < j
  <2> SUFFICES ASSUME NEW i \in DOMAIN Q, NEW j \in DOMAIN Q, s[i] < s[j] PROVE i < j
    OBVIOUS
  <2>1. s[i] \in Nat /\ s[j] \in Nat /\ i \in Nat /\ j \in Nat
    BY <1>0 DEF Thins
  <2>2. ~(j < i) /\ i # j
    BY <2>1 DEF Thins
  <2> QED
    BY <2>1, <2>2
<1>3. \A i \in DOMAIN Q : s[i] \in DOMAIN R /\ Q[i] = R[s[i]]
  BY DEF Thins
<1>4. Distinct(R) => Distinct(Q)
  BY <1>1, <1>3 DEF Distinct
<1>5. InOrder(R) => InOrder(Q)
  BY <1>2, <1>3 DEF InOrder
<1>6. \A X : OneAnswer(R, X) /\ (\A i \in DOMAIN Q : s[i] \in X => i \in X) => OneAnswer(Q, X)
  <2> SUFFICES ASSUME NEW X, OneAnswer(R, X), \A i \in DOMAIN Q : s[i] \in X => i \in X,
                      NEW i \in (DOMAIN Q) \ X, NEW j \in (DOMAIN Q) \ X,
                      Q[i].ev = "answered", Q[j].ev = "answered", Q[i].n = Q[j].n
               PROVE  i = j
    BY DEF OneAnswer
  <2>1. s[i] \in (DOMAIN R) \ X /\ s[j] \in (DOMAIN R) \ X
    BY <1>3
  <2>2. s[i] = s[j]
    BY <1>3, <2>1 DEF OneAnswer
  <2> QED
    BY <1>1, <2>2
<1>7. Cardinality(Refusals(Q)) <= Cardinality(Refusals(R))
  <2> DEFINE f == [i \in Refusals(Q) |-> s[i]]
  <2>1. f \in [Refusals(Q) -> Refusals(R)]
    BY <1>3 DEF Refusals
  <2>2. \A i, j \in Refusals(Q) : f[i] = f[j] => i = j
    BY <1>1 DEF Refusals
  <2>3. f \in Injection(Refusals(Q), Refusals(R))
    BY <2>1, <2>2 DEF Injection, IsInjective
  <2>4. IsFiniteSet(Refusals(R))
    BY RefusalsFinite
  <2> QED
    BY <2>3, <2>4, FS_Injection
<1> QED
  BY <1>4, <1>5, <1>6, <1>7

LEMMA JoinMore ==
  ASSUME NEW T, NEW a \in Seq(T), NEW b \in Seq(T), NEW e \in T
  PROVE  /\ a \o Append(b, e) = (a \o b) \o <<e>>
         /\ Append(a, e) \o b = a \o (<<e>> \o b)
         /\ a \o <<>> = a
<1>1. <<e>> \in Seq(T)
  OBVIOUS
<1> QED
  BY <1>1, AppendIsConcat, ConcatAssociative, ConcatEmptySeq

LEMMA HeadFirst ==
  ASSUME NEW T, NEW s \in Seq(T), s # <<>>
  PROVE  <<Head(s)>> \o Tail(s) = s
<1> DEFINE u == <<Head(s)>>
<1>1. /\ Tail(s) \in Seq(T) /\ Len(Tail(s)) = Len(s) - 1 /\ Len(s) >= 1 /\ Len(s) \in Nat
      /\ \A k \in 1..(Len(s) - 1) : Tail(s)[k] = s[k + 1]
      /\ Head(s) \in T /\ Head(s) = s[1]
  BY TailIs
<1>2. u \in Seq(T) /\ Len(u) = 1 /\ u[1] = s[1]
  BY <1>1
<1> HIDE DEF u
<1>3. /\ u \o Tail(s) \in Seq(T) /\ Len(u \o Tail(s)) = Len(s)
      /\ \A k \in 1..1 : (u \o Tail(s))[k] = u[k]
      /\ \A k \in 1..(Len(s) - 1) : (u \o Tail(s))[1 + k] = Tail(s)[k]
  <2>1. PICK v \in Seq(T) : v = Tail(s)
    BY <1>1
  <2>0. PICK w \in Seq(T) : w = u
    BY <1>2
  <2>2. /\ w \o v \in Seq(T) /\ Len(w \o v) = Len(w) + Len(v)
        /\ \A k \in 1..Len(w) : (w \o v)[k] = w[k]
        /\ \A k \in 1..Len(v) : (w \o v)[Len(w) + k] = v[k]
    BY ConcatIs
  <2>3. Len(u) = 1 /\ Len(v) = Len(s) - 1 /\ 1 + (Len(s) - 1) = Len(s)
    BY <1>1, <1>2, <2>1
  <2> QED
    BY <2>0, <2>1, <2>2, <2>3
<1>4. ASSUME NEW i \in 1..Len(s) PROVE (u \o Tail(s))[i] = s[i]
  <2>1. CASE i = 1
    BY <2>1, <1>2, <1>3
  <2>2. CASE i # 1
    <3>1. i - 1 \in 1..(Len(s) - 1) /\ 1 + (i - 1) = i /\ (i - 1) + 1 = i
      BY <2>2, <1>1
    <3>2. PICK k \in 1..(Len(s) - 1) : 1 + k = i /\ k + 1 = i
      BY <3>1
    <3>3. (u \o Tail(s))[1 + k] = Tail(s)[k] /\ Tail(s)[k] = s[k + 1]
      BY <1>1, <1>3
    <3> QED
      BY <3>2, <3>3
  <2> QED
    BY <2>1, <2>2
<1>5. u \o Tail(s) = s
  BY <1>3, <1>4, SeqEqual
<1> QED
  BY <1>5 DEF u

--------------------------------------------------------------------------------
(* What the records say: the evidence is ordered and bounded *)

\* A torn log had a failure; a dead node has nothing queued.
DeathInv == (torn => faults > 0) /\ (~up => queue = <<>>)

\* A number is requested once, and before it is answered.
OrderInv == Distinct(Rec) /\ InOrder(Rec)

\* Outside X every number is answered once, and the channel knows that it is.
Charged(R, X) ==
  /\ OneAnswer(R, X)
  /\ up => \A i \in (DOMAIN R) \ X : R[i].ev = "answered" => ans[R[i].n] # "none"

\* A second answer of a number takes a failing append: X are the answers of those.
ChargeInv == \E X \in SUBSET DOMAIN log : Cardinality(X) <= faults /\ Charged(Rec, X)

\* The refusal that reaches the limit closes the channel.
RefusalInv ==
  /\ Cardinality(Refusals(Rec)) <= refusals /\ refusals <= MaxRefusals
  /\ ~closed => refusals < MaxRefusals

Asked(R, n) == \E i \in DOMAIN R : R[i] = Requested(n)

\* While no append failed every request is recorded.
FirstInv ==
  faults = 0 /\ ~full => /\ \A i \in DOMAIN Rec : Rec[i].ev = "answered" => Asked(Rec, Rec[i].n)
                         /\ up => \A n \in 1..next : Asked(Rec, n)

RecInv == DeathInv /\ OrderInv /\ ChargeInv /\ RefusalInv /\ FirstInv

LEMMA RecIs ==
  ASSUME TypeInv
  PROVE  /\ Rec \in Seq(Records(next)) /\ Rec \in Seq(Event) /\ next \in Nat
         /\ log \in Seq(Event) /\ queue \in Seq(Event)
         /\ DOMAIN log \subseteq DOMAIN Rec /\ \A i \in DOMAIN log : Rec[i] = log[i]
<1>1. next \in Nat /\ log \in Seq(Records(next)) /\ queue \in Seq(Records(next))
  BY NextIs DEF TypeInv, RecordInv
<1>2. log \in Seq(Event) /\ queue \in Seq(Event)
  BY DEF TypeInv, TypeOK
<1>3. Rec \in Seq(Records(next)) /\ Rec \in Seq(Event)
  BY <1>1, <1>2, ConcatIs DEF Rec
<1>4. \A i \in DOMAIN log : i \in DOMAIN Rec /\ Rec[i] = log[i]
  BY <1>2, Joined DEF Rec
<1> QED
  BY <1>1, <1>2, <1>3, <1>4

\* What a step does besides the records: nothing is unanswered or undone.
Onward ==
  /\ LogKept /\ Final
  /\ faults' >= faults /\ (full => full') /\ (up' => up) /\ DeathInv'
  /\ refusals' >= refusals /\ refusals' <= MaxRefusals /\ (~closed' => refusals' < MaxRefusals)

\* The records of t may follow.
Follows(t) ==
  /\ \A k \in DOMAIN t : t[k].ev = "requested" => t[k].n > next
  /\ \A j, k \in DOMAIN t : t[j].ev = t[k].ev /\ t[j].n = t[k].n => j = k
  /\ \A k \in DOMAIN t : t[k].ev = "answered" =>
       /\ t[k].n \in 1..next
       /\ \/ up /\ ans[t[k].n] = "none" /\ ans'[t[k].n] # "none"
          \/ /\ ~up /\ Asked(Rec, t[k].n)
             /\ \A i \in DOMAIN Rec : Rec[i].ev = "answered" => Rec[i].n # t[k].n
  /\ \A k \in DOMAIN t : t[k].ev = "refused" => k = 1 /\ refusals' = refusals + 1
  /\ \A n \in 1..next' : n > next => \E k \in DOMAIN t : t[k] = Requested(n)

LEMMA ChargeKept ==
  ASSUME TypeInv, TypeInv', Final, NEW R \in Seq(Records(next)), NEW i \in DOMAIN R,
         R[i].ev = "answered", ans[R[i].n] # "none"
  PROVE  ans'[R[i].n] # "none"
<1>1. R[i] \in Records(next)
  OBVIOUS
<1>2. R[i].n \in 1..next /\ next \in 0..(MaxTotal + HoldCount)
  BY <1>1 DEF Records, TypeInv, TypeOK
<1>3. R[i].n \in Actions
  BY <1>2, Bounds DEF Actions
<1> QED
  BY <1>3 DEF Final

LEMMA RecGrows ==
  ASSUME TypeInv, TypeInv', RecInv, Onward, NEW t \in Seq(Event), Follows(t), Rec' = Rec \o t
  PROVE  RecInv'
<1>0. /\ Rec \in Seq(Records(next)) /\ Rec \in Seq(Event) /\ next \in Nat
      /\ DOMAIN log \subseteq DOMAIN Rec
  BY RecIs
<1>1. PICK R \in Seq(Records(next)) : R = Rec /\ R \in Seq(Event)
  BY <1>0
<1>2. Rec' = R \o t
  BY <1>1
<1>3. Distinct(R) /\ InOrder(R)
  BY <1>1 DEF RecInv, OrderInv
<1>4. \A k \in DOMAIN t : t[k].ev = "answered" => t[k].n <= next
  BY <1>0 DEF Follows
<1>5. OrderInv'
  <2>1. Distinct(R \o t) /\ InOrder(R \o t)
    BY <1>0, <1>3, <1>4, GrowOrder DEF Follows
  <2> QED
    BY <2>1, <1>2 DEF OrderInv
<1>6. /\ \A i \in DOMAIN (R \o t) :
              \/ i \in DOMAIN R /\ (R \o t)[i] = R[i]
              \/ \E k \in DOMAIN t : i = Len(R) + k /\ (R \o t)[i] = t[k]
      /\ \A i \in DOMAIN R : i \in DOMAIN (R \o t) /\ (R \o t)[i] = R[i]
      /\ \A k \in DOMAIN t : Len(R) + k \in DOMAIN (R \o t) /\ (R \o t)[Len(R) + k] = t[k]
  BY <1>1, Joined
<1>7. PICK X \in SUBSET DOMAIN log : Cardinality(X) <= faults /\ Charged(R, X)
  BY <1>1 DEF RecInv, ChargeInv
<1>8. X \in SUBSET DOMAIN R
  BY <1>0, <1>1, <1>7
<1>9. up => \A i \in (DOMAIN R) \ X : R[i].ev = "answered" => ans[R[i].n] # "none"
  BY <1>7 DEF Charged
<1>10. \A i \in (DOMAIN R) \ X, k \in DOMAIN t :
         R[i].ev = "answered" /\ t[k].ev = "answered" => R[i].n # t[k].n
  BY <1>1, <1>9 DEF Follows
<1>11. OneAnswer(R \o t, X)
  <2>1. OneAnswer(R, X)
    BY <1>7 DEF Charged
  <2> QED
    BY <1>1, <1>8, <1>10, <2>1, GrowAnswer DEF Follows
<1>12. up' => \A i \in (DOMAIN (R \o t)) \ X : (R \o t)[i].ev = "answered" => ans'[(R \o t)[i].n] # "none"
  <2> SUFFICES ASSUME up', NEW i \in (DOMAIN (R \o t)) \ X, (R \o t)[i].ev = "answered"
               PROVE  ans'[(R \o t)[i].n] # "none"
    OBVIOUS
  <2>0. up
    BY DEF Onward
  <2>1. CASE i \in DOMAIN R /\ (R \o t)[i] = R[i]
    BY <1>9, <2>0, <2>1, ChargeKept DEF Onward
  <2>2. CASE \E k \in DOMAIN t : i = Len(R) + k /\ (R \o t)[i] = t[k]
    BY <2>0, <2>2 DEF Follows
  <2> QED
    BY <1>6, <2>1, <2>2
<1>13. ChargeInv'
  <2>1. X \in SUBSET DOMAIN log'
    BY <1>7 DEF Onward, LogKept
  <2>2. Cardinality(X) <= faults'
    <3>1. IsFiniteSet(DOMAIN log)
      <4>1. DOMAIN log = 1..Len(log) /\ Len(log) \in Nat
        BY DEF TypeInv, TypeOK
      <4> QED
        BY <4>1, FS_Interval
    <3>2. Cardinality(X) \in Nat
      BY <3>1, FS_Subset, FS_CardinalityType
    <3>3. faults \in Nat /\ faults' \in Nat /\ faults' >= faults
      BY DEF Onward, TypeInv, TypeOK
    <3> QED
      BY <1>7, <3>2, <3>3
  <2>3. Charged(R \o t, X)'
    BY <1>11, <1>12 DEF Charged
  <2> QED
    BY <1>2, <2>1, <2>2, <2>3 DEF ChargeInv
<1>14. RefusalInv'
  <2>1. Cardinality(Refusals(R)) <= refusals /\ Cardinality(Refusals(R)) \in Nat
    BY <1>1, RefusalsFinite DEF RecInv, RefusalInv
  <2>2. Cardinality(Refusals(R \o t)) \in Nat
    BY <1>1, ConcatIs, RefusalsFinite
  <2>3. refusals \in Nat /\ refusals' \in Nat /\ refusals' >= refusals
    BY DEF Onward, TypeInv, TypeOK
  <2>4. Cardinality(Refusals(R \o t)) <= refusals'
    <3>1. CASE \A k \in DOMAIN t : t[k].ev # "refused"
      <4>1. Refusals(R \o t) = Refusals(R)
        BY <1>1, <3>1, GrowRefusals
      <4> QED
        BY <2>1, <2>3, <4>1
    <3>2. CASE refusals' = refusals + 1
      <4>1. Cardinality(Refusals(R \o t)) <= Cardinality(Refusals(R)) + 1
        BY <1>1, GrowRefusals DEF Follows
      <4> QED
        BY <2>1, <2>2, <2>3, <3>2, <4>1
    <3> QED
      BY <3>1, <3>2 DEF Follows
  <2> QED
    BY <1>2, <2>4 DEF RefusalInv, Onward
<1>15. FirstInv'
  <2>1. \A n : Asked(R, n) => Asked(R \o t, n)
    BY <1>6 DEF Asked
  <2>2. \A k \in DOMAIN t : \A n : t[k] = Requested(n) => Asked(R \o t, n)
    BY <1>6 DEF Asked
  <2> SUFFICES ASSUME faults' = 0, ~full'
               PROVE  /\ \A i \in DOMAIN (R \o t) :
                           (R \o t)[i].ev = "answered" => Asked(R \o t, (R \o t)[i].n)
                      /\ up' => \A n \in 1..next' : Asked(R \o t, n)
    BY <1>2 DEF FirstInv
  <2>3. faults = 0 /\ ~full
    BY DEF Onward, TypeInv, TypeOK
  <2>4. /\ \A i \in DOMAIN R : R[i].ev = "answered" => Asked(R, R[i].n)
        /\ up => \A n \in 1..next : Asked(R, n)
    BY <1>1, <2>3 DEF RecInv, FirstInv
  <2>5. \A k \in DOMAIN t : t[k].ev = "answered" => Asked(R, t[k].n)
    BY <1>1, <2>4 DEF Follows
  <2>6. \A i \in DOMAIN (R \o t) : (R \o t)[i].ev = "answered" => Asked(R \o t, (R \o t)[i].n)
    BY <1>6, <2>1, <2>4, <2>5
  <2>7. ASSUME up', NEW n \in 1..next' PROVE Asked(R \o t, n)
    <3>1. CASE n <= next
      <4>1. n \in 1..next
        BY <1>0, <3>1
      <4> QED
        BY <4>1, <2>1, <2>4, <2>7 DEF Onward
    <3>2. CASE n > next
      BY <2>2, <3>2 DEF Follows
    <3>3. n <= next \/ n > next
      BY <1>0
    <3> QED
      BY <3>1, <3>2, <3>3
  <2> QED
    BY <2>6, <2>7
<1>16. DeathInv'
  BY DEF Onward
<1> QED
  BY <1>5, <1>13, <1>14, <1>15, <1>16 DEF RecInv

\* The records stay as they are.
LEMMA SameRec ==
  ASSUME TypeInv, TypeInv', RecInv, Onward, Rec' = Rec, next' = next PROVE RecInv'
<1>0. Rec \in Seq(Event) /\ next \in Nat
  BY RecIs
<1>1. Rec' = Rec \o <<>> /\ <<>> \in Seq(Event)
  BY <1>0, ConcatEmptySeq
<1>2. DOMAIN <<>> = {}
  OBVIOUS
<1>3. \A n \in 1..next : ~(n > next)
  BY <1>0
<1>4. Follows(<<>>)
  BY <1>2, <1>3 DEF Follows
<1> QED
  BY <1>1, <1>4, RecGrows

\* A step that neither appends nor queues.
LEMMA CalmRec ==
  ASSUME TypeInv, TypeInv', RecInv, Final,
         UNCHANGED <<log, torn, faults, up, refusals, queue, next>>, full => full', closed => closed'
  PROVE  RecInv'
<1>1. Rec' = Rec
  BY DEF Rec
<1>2. Onward
  BY LogStays DEF Onward, TypeInv, TypeOK, RecInv, DeathInv, RefusalInv
<1> QED
  BY <1>1, <1>2, SameRec

\* A step that queues the records of t.
LEMMA QueueRec ==
  ASSUME TypeInv, TypeInv', RecInv, Final, UNCHANGED <<log, torn, full, faults, up>>, up,
         NEW t \in Seq(Event), queue' = queue \o t, Follows(t),
         refusals' >= refusals, refusals' <= MaxRefusals, ~closed' => refusals' < MaxRefusals
  PROVE  RecInv'
<1>0. log \in Seq(Event) /\ queue \in Seq(Event)
  BY RecIs
<1>1. Rec' = log \o (queue \o t)
  BY DEF Rec
<1>2. Rec' = Rec \o t
  BY <1>0, <1>1, ConcatAssociative DEF Rec
<1>3. DeathInv'
  BY DEF RecInv, DeathInv
<1>4. faults' >= faults
  BY DEF TypeInv, TypeOK
<1>5. Onward
  BY <1>3, <1>4, LogStays DEF Onward
<1> QED
  BY <1>2, <1>5, RecGrows

LEMMA AskRec ==
  ASSUME TypeInv, TypeInv', ChannelInv, RecInv, Final, NEW c \in Conns,
         NEW id \in Ids \cup Holds, Ask(c, id)
  PROVE  RecInv'
<1>1. /\ UNCHANGED <<log, torn, full, faults, up, refusals, closed>> /\ up
      /\ queue' = Append(queue, Requested(next + 1)) /\ next' = next + 1 /\ sent < MaxTotal
  BY DEF Ask, Free, Registrable, evidence
<1>2. next + 1 \in Actions /\ next \in Nat
  BY <1>1, NextIs
<1>3. Requested(next + 1) \in Event
  BY <1>2 DEF Requested, Event
<1>4. PICK r \in Event : r = Requested(next + 1)
  BY <1>3
<1>5. r.ev = "requested" /\ r.n = next + 1
  BY <1>4 DEF Requested
<1> DEFINE t == <<r>>
<1>6. t \in Seq(Event) /\ DOMAIN t = {1} /\ t[1] = r
  OBVIOUS
<1>7. queue \in Seq(Event) /\ queue' = queue \o t
  BY <1>1, <1>4, RecIs, AppendIsConcat
<1> HIDE DEF t
<1>8. \A n \in 1..next' : n > next => n = next + 1
  BY <1>1, <1>2
<1>9. Follows(t)
  BY <1>2, <1>4, <1>5, <1>6, <1>8 DEF Follows
<1>10. refusals' >= refusals /\ refusals' <= MaxRefusals /\ (~closed' => refusals' < MaxRefusals)
  BY <1>1 DEF RecInv, RefusalInv, TypeInv, TypeOK
<1> QED
  BY <1>1, <1>6, <1>7, <1>9, <1>10, QueueRec

LEMMA TouchRec ==
  ASSUME TypeInv, TypeInv', ChannelInv, RecInv, Final, NEW S \in SUBSET Holds, Touch(S)
  PROVE  RecInv'
<1>0. PICK new \in SUBSET Holds : TouchNew(new) /\ \A i \in new : slot[i] = 0
  BY TouchIs
<1>1. UNCHANGED <<log, torn, full, faults, up, refusals, closed>> /\ up
  BY DEF Touch, Free, evidence
<1>2. /\ Cardinality(new) \in Nat /\ next \in Nat
      /\ next + Cardinality(new) \in 0..(MaxTotal + HoldCount)
  BY <1>0, TouchNumbers, NextIs
<1>3. PICK m \in Nat : m = Cardinality(new)
  BY <1>2
<1>4. next' = next + m /\ queue' = queue \o [k \in 1..m |-> Requested(next + k)]
  BY <1>0, <1>3 DEF TouchNew
<1> DEFINE t == [k \in 1..m |-> Requested(next + k)]
<1>5. \A k \in 1..m : next + k \in Actions
  BY <1>2, <1>3, Bounds DEF Actions
<1>6. \A k \in 1..m : Requested(next + k) \in Event
  BY <1>5 DEF Requested, Event
<1>7. /\ t \in Seq(Event) /\ DOMAIN t = 1..m
      /\ \A k \in 1..m : t[k] = Requested(next + k)
  BY <1>6
<1>8. queue' = queue \o t
  BY <1>4
<1> HIDE DEF t
<1>9. \A k \in 1..m : t[k].ev = "requested" /\ t[k].n = next + k
  BY <1>7 DEF Requested
<1>10. \A n \in 1..next' : n > next => \E k \in 1..m : t[k] = Requested(n)
  <2> SUFFICES ASSUME NEW n \in 1..next', n > next PROVE \E k \in 1..m : t[k] = Requested(n)
    OBVIOUS
  <2>1. n - next \in 1..m /\ next + (n - next) = n
    BY <1>2, <1>4
  <2> QED
    BY <2>1, <1>7
<1>11. Follows(t)
  <2>1. \A k \in 1..m : next + k > next
    BY <1>2
  <2>2. \A j, k \in 1..m : next + j = next + k => j = k
    BY <1>2
  <2> QED
    BY <1>7, <1>9, <1>10, <2>1, <2>2 DEF Follows
<1>12. refusals' >= refusals /\ refusals' <= MaxRefusals /\ (~closed' => refusals' < MaxRefusals)
  BY <1>1 DEF RecInv, RefusalInv, TypeInv, TypeOK
<1> QED
  BY <1>1, <1>7, <1>8, <1>11, <1>12, QueueRec

\* Cancelling pending requests: one answer each.
LEMMA CancelFollows ==
  ASSUME TypeInv, ChannelInv, up, NEW S \in SUBSET Pending, \A n \in S : ans'[n] = "cancelled"
  PROVE  /\ Cancellations(S) \in Seq(Event)
         /\ \A k \in DOMAIN Cancellations(S) :
              /\ Cancellations(S)[k].ev = "answered"
              /\ Cancellations(S)[k].n \in 1..next
              /\ ans[Cancellations(S)[k].n] = "none" /\ ans'[Cancellations(S)[k].n] # "none"
         /\ \A j, k \in DOMAIN Cancellations(S) :
              Cancellations(S)[j].n = Cancellations(S)[k].n => j = k
<1>1. /\ S \in SUBSET Actions /\ \A n \in S : n <= next /\ pend[n].on
      /\ \A n \in Actions : n \in Nat \ {0}
  BY PendingKnown, ActionsFinite
<1>2. \A n \in S : n \in 1..next /\ ans[n] = "none" /\ ans'[n] # "none"
  <2>1. \A n \in S : ans[n] = "none" /\ ans'[n] # "none"
    BY <1>1 DEF ChannelInv, AnswerInv
  <2>2. \A n \in S : n \in 1..next
    BY <1>1, NextIs
  <2> QED
    BY <2>1, <2>2
<1>3. /\ Cancellations(S) \in Seq(Event)
      /\ \A k \in DOMAIN Cancellations(S) :
           \E n \in S : Cancellations(S)[k] = Answered(n, "cancelled", None)
      /\ \A j, k \in DOMAIN Cancellations(S) :
           Cancellations(S)[j].n = Cancellations(S)[k].n => j = k
  BY <1>1, CancelsEach
<1>4. \A n : Answered(n, "cancelled", None).ev = "answered" /\ Answered(n, "cancelled", None).n = n
  BY DEF Answered
<1> QED
  BY <1>2, <1>3, <1>4

LEMMA WithdrawRec ==
  ASSUME TypeInv, TypeInv', ChannelInv, RecInv, Final, NEW c \in Conns, Withdraw(c)
  PROVE  RecInv'
<1>0. PICK gone \in SUBSET Pending : gone = {n \in Pending : pend[n].conn = c}
  OBVIOUS
<1>1. /\ UNCHANGED <<log, torn, full, faults, up, refusals, closed, next>> /\ up
      /\ queue' = queue \o Cancellations(gone)
      /\ ans' = [n \in Actions |-> IF n \in gone THEN "cancelled" ELSE ans[n]]
  BY <1>0 DEF Withdraw, Free, evidence
<1>2. \A n \in gone : ans'[n] = "cancelled"
  BY <1>0, <1>1, PendingKnown
<1>3. PICK t : t = Cancellations(gone)
  OBVIOUS
<1>4. /\ t \in Seq(Event)
      /\ \A k \in DOMAIN t : /\ t[k].ev = "answered" /\ t[k].n \in 1..next
                             /\ ans[t[k].n] = "none" /\ ans'[t[k].n] # "none"
      /\ \A j, k \in DOMAIN t : t[j].n = t[k].n => j = k
  BY <1>1, <1>2, <1>3, CancelFollows
<1>5. \A n \in 1..next' : ~(n > next)
  BY <1>1, NextIs
<1>6. Follows(t)
  BY <1>1, <1>4, <1>5 DEF Follows
<1>7. refusals' >= refusals /\ refusals' <= MaxRefusals /\ (~closed' => refusals' < MaxRefusals)
  BY <1>1 DEF RecInv, RefusalInv, TypeInv, TypeOK
<1> QED
  BY <1>1, <1>3, <1>4, <1>6, <1>7, QueueRec

LEMMA RefuseRec ==
  ASSUME TypeInv, TypeInv', ChannelInv, RecInv, Final, NEW c \in Conns, Refuse(c)
  PROVE  RecInv'
<1>1. UNCHANGED <<log, torn, full, faults, up, next>> /\ up
  BY DEF Refuse, Free, evidence
<1>2. CASE closed
  BY <1>1, <1>2, CalmRec DEF Refuse
<1>3. CASE ~closed
  <2>1. /\ refusals' = refusals + 1 /\ refusals < MaxRefusals
        /\ refusals \in Nat /\ MaxRefusals \in Nat
    BY <1>3, Bounds DEF Refuse, RecInv, RefusalInv, TypeInv, TypeOK
  <2>2. refusals' >= refusals /\ refusals' <= MaxRefusals
    BY <2>1
  <2>3. Refused \in Event /\ Refused.ev = "refused" /\ queue \in Seq(Event)
    BY RecIs DEF Refused, Event
  <2>4. PICK u \in Seq(Event) : u = <<Refused>> /\ Len(u) = 1 /\ DOMAIN u = {1} /\ u[1] = Refused
    <3>1. PICK r \in Event : r = Refused
      BY <2>3
    <3>2. <<r>> \in Seq(Event) /\ Len(<<r>>) = 1 /\ DOMAIN <<r>> = {1} /\ <<r>>[1] = r
      OBVIOUS
    <3> QED
      BY <3>1, <3>2
  <2>5. Append(queue, Refused) = queue \o u
    BY <2>3, <2>4, AppendIsConcat
  <2>6. \A n \in 1..next' : ~(n > next)
    BY <1>1, NextIs
  <2>7. CASE refusals + 1 < MaxRefusals /\ queue' = Append(queue, Refused)
    <3>1. Follows(u)
      BY <2>1, <2>3, <2>4, <2>6 DEF Follows
    <3>2. ~closed' => refusals' < MaxRefusals
      BY <2>1, <2>7
    <3> QED
      BY <1>1, <2>2, <2>4, <2>5, <2>7, <3>1, <3>2, QueueRec
  <2>8. CASE Close(Append(queue, Refused))
    <3>1. \A n \in Pending : ans'[n] = "cancelled"
      BY <2>8, PendingKnown DEF Close
    <3>2. PICK w : w = Cancellations(Pending)
      OBVIOUS
    <3>3. /\ w \in Seq(Event)
          /\ \A k \in DOMAIN w : /\ w[k].ev = "answered" /\ w[k].n \in 1..next
                                 /\ ans[w[k].n] = "none" /\ ans'[w[k].n] # "none"
          /\ \A j, k \in DOMAIN w : w[j].n = w[k].n => j = k
      BY <1>1, <3>1, <3>2, CancelFollows
    <3>4. PICK t \in Seq(Event) : t = u \o w
      BY <2>4, <3>3, ConcatIs
    <3>5. \A i \in DOMAIN t : \/ i = 1 /\ t[i] = Refused
                              \/ \E k \in DOMAIN w : i = 1 + k /\ t[i] = w[k]
      <4>1. \A i \in DOMAIN (u \o w) : \/ i \in DOMAIN u /\ (u \o w)[i] = u[i]
                                       \/ \E k \in DOMAIN w : i = Len(u) + k /\ (u \o w)[i] = w[k]
        <5>1. w \in Seq(Event)
          BY <3>3
        <5> QED
          BY <5>1, Joined
      <4> QED
        BY <4>1, <2>4, <3>4
    <3>6. queue' = queue \o t
      <4>1. queue' = (queue \o u) \o w
        BY <2>5, <2>8, <3>2 DEF Close
      <4> QED
        BY <4>1, <2>3, <2>4, <3>3, <3>4, ConcatAssociative
    <3>7. Follows(t)
      <4>1. \A j, k \in DOMAIN t : t[j].ev = t[k].ev /\ t[j].n = t[k].n => j = k
        <5> SUFFICES ASSUME NEW j \in DOMAIN t, NEW k \in DOMAIN t, t[j].ev = t[k].ev, t[j].n = t[k].n
                     PROVE  j = k
          OBVIOUS
        <5>1. \/ j = 1 /\ t[j] = Refused
              \/ \E l \in DOMAIN w : j = 1 + l /\ t[j] = w[l]
          BY <3>5
        <5>2. \/ k = 1 /\ t[k] = Refused
              \/ \E l \in DOMAIN w : k = 1 + l /\ t[k] = w[l]
          BY <3>5
        <5>3. CASE j = 1 /\ t[j] = Refused
          BY <5>2, <5>3, <2>3, <3>3
        <5>4. CASE \E l \in DOMAIN w : j = 1 + l /\ t[j] = w[l]
          BY <5>2, <5>4, <2>3, <3>3
        <5> QED
          BY <5>1, <5>3, <5>4
      <4>2. \A k \in DOMAIN t : /\ t[k].ev # "requested"
                                /\ t[k].ev = "refused" => k = 1
                                /\ t[k].ev = "answered" =>
                                     t[k].n \in 1..next /\ ans[t[k].n] = "none" /\ ans'[t[k].n] # "none"
        BY <2>3, <3>3, <3>5
      <4> QED
        BY <1>1, <2>1, <2>6, <4>1, <4>2 DEF Follows
    <3>8. ~closed' => refusals' < MaxRefusals
      BY <2>8 DEF Close
    <3> QED
      BY <1>1, <2>2, <3>6, <3>7, <3>8, QueueRec
  <2> QED
    BY <1>3, <2>1, <2>7, <2>8 DEF Refuse
<1> QED
  BY <1>2, <1>3

\* The only ways an append leaves the log; what fails costs a fault unless the log was torn or
\* full already.
LEMMA AppendOnward ==
  ASSUME TypeInv, TypeInv', RecInv, Final, NEW e \in Records(next), Wrote(e) \/ NotWrote(e),
         UNCHANGED <<up, refusals, closed>>, up
  PROVE  /\ Onward /\ log' \in {log, Append(log, e)}
         /\ log' = log => faults' > 0 \/ full'
<1>1. log' \in {log, Append(log, e)} /\ full' = full /\ faults' \in Nat /\ faults <= faults'
  BY AppendType
<1>2. LogKept
  BY <1>1, LogAppended
<1>3. torn' => faults' > 0
  <2>1. (torn' = torn /\ faults' = faults) \/ faults' = faults + 1
    BY DEF Wrote, NotWrote
  <2>2. torn => faults > 0
    BY DEF RecInv, DeathInv
  <2>3. faults \in Nat
    BY DEF TypeInv, TypeOK
  <2>4. CASE torn' = torn /\ faults' = faults
    BY <2>2, <2>4
  <2>5. CASE faults' = faults + 1
    BY <2>3, <2>5
  <2> QED
    BY <2>1, <2>4, <2>5
<1>4. DeathInv'
  BY <1>3 DEF DeathInv
<1>5. faults \in Nat /\ faults' >= faults
  BY <1>1 DEF TypeInv, TypeOK
<1>6. refusals' >= refusals /\ refusals' <= MaxRefusals /\ (~closed' => refusals' < MaxRefusals)
  BY DEF RecInv, RefusalInv, TypeInv, TypeOK
<1>7. Onward
  BY <1>1, <1>2, <1>4, <1>5, <1>6 DEF Onward
<1>8. ASSUME log' = log PROVE faults' > 0 \/ full'
  <2>1. log # Append(log, e)
    <3>1. Len(Append(log, e)) = Len(log) + 1 /\ Len(log) \in Nat
      BY AppendIs DEF TypeInv, RecordInv
    <3> QED
      BY <3>1
  <2>2. NotWrote(e)
    BY <1>8, <2>1 DEF Wrote
  <2>3. CASE torn \/ full
    BY <2>2, <2>3, <1>1, <1>5 DEF NotWrote, RecInv, DeathInv
  <2>4. CASE faults' = faults + 1
    BY <2>4, <1>5
  <2> QED
    BY <2>2, <2>3, <2>4 DEF NotWrote
<1> QED
  BY <1>1, <1>7, <1>8

\* A pending request answered by a step of a turn, whether or not the record was appended.
LEMMA SettleRec ==
  ASSUME TypeInv, TypeInv', ChannelInv, RecInv, Final, NEW n \in Actions, NEW d \in Decisions,
         NEW op \in Ops \cup {None}, pend[n].on, ans'[n] # "none",
         Wrote(Answered(n, d, op)) \/ NotWrote(Answered(n, d, op)),
         UNCHANGED <<up, refusals, closed, next, queue>>, up, queue = <<>>
  PROVE  RecInv'
<1>1. n <= next /\ n \in Nat \ {0} /\ next \in Nat /\ ans[n] = "none"
  BY PendingKnown, NextIs, ActionsFinite DEF ChannelInv, AnswerInv
<1>2. PICK e \in Records(next) : e = Answered(n, d, op)
  BY <1>1, RecordsAre
<1>3. e.ev = "answered" /\ e.n = n
  BY <1>2 DEF Answered
<1>4. Onward /\ log' \in {log, Append(log, e)}
  BY <1>2, AppendOnward
<1>5. log \in Seq(Event) /\ e \in Event
  BY RecIs, RecordsAre
<1>6. Rec = log /\ Rec' = log'
  <2>1. log' \in Seq(Event)
    BY DEF TypeInv, TypeOK
  <2> QED
    BY <1>5, <2>1, ConcatEmptySeq DEF Rec
<1>7. CASE log' = log
  BY <1>4, <1>6, <1>7, SameRec
<1>8. CASE log' = Append(log, e)
  <2> DEFINE t == <<e>>
  <2>1. t \in Seq(Event) /\ DOMAIN t = {1} /\ t[1] = e
    BY <1>5
  <2>2. Rec' = Rec \o t
    BY <1>5, <1>6, <1>8, AppendIsConcat
  <2> HIDE DEF t
  <2>3. n \in 1..next /\ \A m \in 1..next' : ~(m > next)
    BY <1>1
  <2>4. Follows(t)
    BY <1>1, <1>3, <2>1, <2>3 DEF Follows
  <2> QED
    BY <1>4, <2>1, <2>2, <2>4, RecGrows
<1> QED
  BY <1>4, <1>7, <1>8

LEMMA ExpireOneRec ==
  ASSUME TypeInv, TypeInv', ChannelInv, RecInv, Final, NEW n \in Actions, ExpireOne(n)
  PROVE  RecInv'
<1>1. /\ n \in Pending /\ UNCHANGED <<up, refusals, closed, next, queue>> /\ up /\ queue = <<>>
      /\ Reply(n, "expired")
      /\ Wrote(Answered(n, "expired", None)) \/ NotWrote(Answered(n, "expired", None))
  BY DEF ExpireOne, Due
<1>2. pend[n].on /\ "expired" \in Decisions
  BY <1>1, PendingKnown DEF Decisions
<1>3. ans'[n] = "expired"
  BY <1>1, <1>2, ReplySettles
<1> QED
  BY <1>1, <1>2, <1>3, SettleRec

LEMMA CancelOneRec ==
  ASSUME TypeInv, TypeInv', ChannelInv, RecInv, Final, NEW n \in Actions, CancelOne(n)
  PROVE  RecInv'
<1>1. /\ n \in Pending /\ UNCHANGED <<up, refusals, closed, next, queue>> /\ up /\ queue = <<>>
      /\ Reply(n, "cancelled")
      /\ Wrote(Answered(n, "cancelled", None)) \/ NotWrote(Answered(n, "cancelled", None))
  BY DEF CancelOne
<1>2. pend[n].on /\ "cancelled" \in Decisions
  BY <1>1, PendingKnown DEF Decisions
<1>3. ans'[n] = "cancelled"
  BY <1>1, <1>2, ReplySettles
<1> QED
  BY <1>1, <1>2, <1>3, SettleRec

\* An answer that failed although its frame reached the log: the request stays pending, and
\* the fault pays for the record.
LEMMA FailedRec ==
  ASSUME TypeInv, TypeInv', RecInv, Final, NEW e \in Records(next), e.ev = "answered",
         Wrote(e) \/ NotWrote(e), log' = Append(log, e), faults' = faults + 1,
         UNCHANGED <<up, refusals, closed, next, queue, ans>>, up, queue = <<>>
  PROVE  RecInv'
<1>1. Onward
  BY AppendOnward
<1>2. log \in Seq(Event) /\ log \in Seq(Records(next)) /\ e \in Event /\ next \in Nat
  BY RecIs, RecordsAre DEF TypeInv, RecordInv
<1>3. PICK R \in Seq(Records(next)) : R = log /\ R \in Seq(Event)
  BY <1>2
<1>4. Rec = R /\ Rec' = Append(R, e)
  <2>1. log' \in Seq(Event)
    BY DEF TypeInv, TypeOK
  <2> QED
    BY <1>2, <1>3, <2>1, ConcatEmptySeq DEF Rec
<1> DEFINE Q == Append(R, e)
           c == Len(R) + 1
<1>5. /\ Len(R) \in Nat /\ DOMAIN R = 1..Len(R) /\ DOMAIN Q = 1..(Len(R) + 1)
      /\ \A k \in 1..Len(R) : Q[k] = R[k]
      /\ Q[c] = e
  BY <1>2, <1>3, AppendIs
<1>6. \A i \in DOMAIN Q : i = c \/ (i \in DOMAIN R /\ Q[i] = R[i])
  BY <1>5
<1>7. DOMAIN R \subseteq DOMAIN Q /\ c \in DOMAIN Q
  BY <1>5
<1>8. PICK X \in SUBSET DOMAIN R : Cardinality(X) <= faults /\ Charged(R, X)
  BY <1>3, <1>4 DEF RecInv, ChargeInv
<1> DEFINE Y == X \cup {c}
<1>9. \A i \in (DOMAIN Q) \ Y : i \in (DOMAIN R) \ X /\ Q[i] = R[i]
  BY <1>6
<1> HIDE DEF Q
<1>10. OneAnswer(Q, Y)
  BY <1>8, <1>9 DEF OneAnswer, Charged
<1>11. up => \A i \in (DOMAIN Q) \ Y : Q[i].ev = "answered" => ans[Q[i].n] # "none"
  BY <1>8, <1>9 DEF Charged
<1>12. Cardinality(Y) <= faults'
  <2>1. IsFiniteSet(DOMAIN R)
    BY <1>5, FS_Interval
  <2>2. IsFiniteSet(X)
    BY <2>1, FS_Subset
  <2>3. Cardinality(Y) = IF c \in X THEN Cardinality(X) ELSE Cardinality(X) + 1
    BY <2>2, FS_AddElement
  <2>4. Cardinality(X) \in Nat /\ faults \in Nat
    BY <2>2, FS_CardinalityType DEF TypeInv, TypeOK
  <2> QED
    BY <1>8, <2>3, <2>4
<1>13. ChargeInv'
  <2>1. Y \in SUBSET DOMAIN log'
    BY <1>3, <1>7, <1>8 DEF Q
  <2>2. Charged(Q, Y)'
    BY <1>10, <1>11 DEF Charged
  <2>3. Rec' = Q
    BY <1>4 DEF Q
  <2> HIDE DEF Y
  <2> QED
    BY <1>12, <2>1, <2>2, <2>3 DEF ChargeInv
<1> DEFINE t == <<e>>
<1>14. t \in Seq(Event) /\ DOMAIN t = {1} /\ t[1] = e /\ Q = R \o t
  BY <1>2, <1>3, AppendIsConcat DEF Q
<1> HIDE DEF t
<1>15. e.n <= next
  BY <1>2 DEF Records
<1>16. OrderInv'
  <2>1. Distinct(R) /\ InOrder(R)
    BY <1>4 DEF RecInv, OrderInv
  <2>2. Distinct(R \o t) /\ InOrder(R \o t)
    BY <1>2, <1>14, <1>15, <2>1, GrowOrder
  <2> QED
    BY <1>4, <1>14, <2>2 DEF OrderInv, Q
<1>17. RefusalInv'
  <2>1. Refusals(Q) = Refusals(R)
    BY <1>3, <1>14, GrowRefusals
  <2> QED
    BY <1>4, <2>1 DEF Q, RecInv, RefusalInv
<1>18. FirstInv'
  BY DEF FirstInv, TypeInv, TypeOK
<1> QED
  BY <1>1, <1>13, <1>16, <1>17, <1>18 DEF RecInv, Onward

LEMMA DecideRec ==
  ASSUME TypeInv, TypeInv', ChannelInv, RecInv, Final, Decide PROVE RecInv'
<1>0. PICK n \in Actions, d \in {"approved", "denied"}, op \in Ops :
        n = turn.n /\ d = turn.d /\ op = turn.op
  BY DEF Decide, TypeInv, TurnInv
<1>1. /\ UNCHANGED <<up, refusals, closed, next, queue>> /\ up /\ queue = <<>>
      /\ d \in Decisions /\ op \in Ops \cup {None} /\ d # "none"
  BY DEF Decide, Tended, Decisions
<1>2. CASE pend[n].on /\ Wrote(Answered(n, d, op)) /\ Reply(n, d)
  <2>1. ans'[n] = d
    BY <1>1, <1>2, ReplySettles
  <2> QED
    BY <1>1, <1>2, <2>1, SettleRec
<1>3. CASE pend[n].on /\ NotWrote(Answered(n, d, op)) /\ ans' = ans
  <2>1. n <= next /\ next \in Nat
    BY <1>3, PendingKnown, NextIs
  <2>2. PICK e \in Records(next) : e = Answered(n, d, op)
    BY <1>1, <2>1, RecordsAre
  <2>3. e.ev = "answered" /\ NotWrote(e)
    BY <1>3, <2>2 DEF Answered
  <2>4. CASE log' = log
    <3>1. Onward
      BY <1>1, <2>3, AppendOnward
    <3>2. Rec' = Rec
      BY <1>1, <2>4 DEF Rec
    <3> QED
      BY <1>1, <3>1, <3>2, SameRec
  <2>5. CASE log' = Append(log, e) /\ faults' = faults + 1
    BY <1>1, <1>3, <2>3, <2>5, FailedRec
  <2> QED
    BY <2>3, <2>4, <2>5 DEF NotWrote
<1>4. CASE UNCHANGED evidence
  BY <1>1, <1>4, CalmRec DEF evidence
<1> QED
  BY <1>0, <1>2, <1>3, <1>4 DEF Decide

\* Records that are queued may be lost.
LEMMA ThinRec ==
  ASSUME TypeInv, TypeInv', RecInv, Onward, log' = log, NEW s, Thins(Rec, Rec', s),
         \A i \in DOMAIN Rec' : s[i] \in DOMAIN log => s[i] = i, FirstInv'
  PROVE  RecInv'
<1>0. Rec \in Seq(Records(next)) /\ Rec \in Seq(Event) /\ Rec' \in Seq(Event)
  <2>1. log' \in Seq(Event) /\ queue' \in Seq(Event)
    BY DEF TypeInv, TypeOK
  <2> QED
    BY <2>1, RecIs, ConcatIs DEF Rec
<1>1. PICK R \in Seq(Records(next)), Q \in Seq(Event) : R = Rec /\ Q = Rec' /\ R \in Seq(Event)
  BY <1>0
<1>2. Thins(R, Q, s)
  BY <1>1
<1>3. /\ Distinct(R) => Distinct(Q)
      /\ InOrder(R) => InOrder(Q)
      /\ \A X : OneAnswer(R, X) /\ (\A i \in DOMAIN Q : s[i] \in X => i \in X) => OneAnswer(Q, X)
      /\ Cardinality(Refusals(Q)) <= Cardinality(Refusals(R))
  BY <1>1, <1>2, ThinKeeps
<1>4. OrderInv'
  BY <1>1, <1>3 DEF RecInv, OrderInv
<1>5. RefusalInv'
  <2>1. Cardinality(Refusals(Q)) \in Nat /\ Cardinality(Refusals(R)) \in Nat
    BY <1>1, RefusalsFinite
  <2>2. Cardinality(Refusals(R)) <= refusals /\ refusals' >= refusals /\ refusals \in Nat /\ refusals' \in Nat
    BY <1>1 DEF RecInv, RefusalInv, Onward, TypeInv, TypeOK
  <2>3. Cardinality(Refusals(Q)) <= refusals'
    BY <1>3, <2>1, <2>2
  <2> QED
    BY <1>1, <2>3 DEF RefusalInv, Onward
<1>6. PICK X \in SUBSET DOMAIN log : Cardinality(X) <= faults /\ Charged(R, X)
  BY <1>1 DEF RecInv, ChargeInv
<1>7. \A i \in DOMAIN Q : s[i] \in X => i \in X
  BY <1>1, <1>6
<1>8. OneAnswer(Q, X)
  BY <1>3, <1>6, <1>7 DEF Charged
<1>9. up' => \A i \in (DOMAIN Q) \ X : Q[i].ev = "answered" => ans'[Q[i].n] # "none"
  <2> SUFFICES ASSUME up', NEW i \in (DOMAIN Q) \ X, Q[i].ev = "answered"
               PROVE  ans'[Q[i].n] # "none"
    OBVIOUS
  <2>0. s[i] \in DOMAIN R /\ Q[i] = R[s[i]]
    BY <1>2 DEF Thins
  <2>1. PICK k \in DOMAIN R : k = s[i]
    BY <2>0
  <2>2. k \notin X \/ i \in X
    BY <1>7, <2>1
  <2>3. up /\ R[k].ev = "answered" /\ k \notin X
    BY <2>0, <2>1, <2>2 DEF Onward
  <2>4. ans[R[k].n] # "none"
    BY <1>6, <2>3 DEF Charged
  <2>5. ans'[R[k].n] # "none"
    BY <1>1, <2>3, <2>4, ChargeKept DEF Onward
  <2> QED
    BY <2>0, <2>1, <2>5
<1>10. Cardinality(X) <= faults'
  <2>1. IsFiniteSet(DOMAIN log)
    <3>1. DOMAIN log = 1..Len(log) /\ Len(log) \in Nat
      BY DEF TypeInv, TypeOK
    <3> QED
      BY <3>1, FS_Interval
  <2>2. Cardinality(X) \in Nat
    BY <2>1, FS_Subset, FS_CardinalityType
  <2> QED
    BY <1>6, <2>2 DEF Onward, TypeInv, TypeOK
<1>11. ChargeInv'
  <2>1. Charged(Q, X)'
    BY <1>8, <1>9 DEF Charged
  <2> QED
    BY <1>1, <1>6, <1>10, <2>1 DEF ChargeInv
<1> QED
  BY <1>4, <1>5, <1>11 DEF RecInv, Onward

LEMMA FlushOneRec ==
  ASSUME TypeInv, TypeInv', ChannelInv, RecInv, Final, FlushOne PROVE RecInv'
<1>0. Head(queue) \in Records(next) /\ queue # <<>>
  BY TailIs DEF FlushOne, TypeInv, RecordInv
<1>1. PICK e \in Records(next) : e = Head(queue)
  BY <1>0
<1>2. /\ UNCHANGED <<up, refusals, closed, next>> /\ up /\ queue' = Tail(queue)
      /\ Wrote(e) \/ NotWrote(e)
  BY <1>1 DEF FlushOne
<1>3. Onward /\ log' \in {log, Append(log, e)} /\ (log' = log => faults' > 0 \/ full')
  BY <1>1, <1>2, AppendOnward
<1>4. /\ log \in Seq(Event) /\ queue \in Seq(Event) /\ e \in Event
      /\ Tail(queue) \in Seq(Event) /\ Len(Tail(queue)) = Len(queue) - 1 /\ Len(queue) >= 1
      /\ \A k \in 1..(Len(queue) - 1) : Tail(queue)[k] = queue[k + 1]
  BY <1>0, RecIs, RecordsAre, TailIs
<1>5. CASE log' = Append(log, e)
  <2>1. Rec' = log \o (<<e>> \o Tail(queue))
    BY <1>2, <1>4, <1>5, JoinMore DEF Rec
  <2>2. <<e>> \o Tail(queue) = queue
    BY <1>0, <1>1, <1>4, HeadFirst
  <2>3. Rec' = Rec
    BY <2>1, <2>2 DEF Rec
  <2> QED
    BY <1>2, <1>3, <2>3, SameRec
<1>6. CASE log' = log
  <2>1. PICK v \in Seq(Event) : v = Tail(queue)
    BY <1>4
  <2> DEFINE Q == log \o v
             s == [i \in DOMAIN Q |-> IF i <= Len(log) THEN i ELSE i + 1]
  <2>2. Rec' = Q
    BY <1>2, <1>6, <2>1 DEF Rec
  <2>3. /\ Len(log) \in Nat /\ Len(v) = Len(queue) - 1 /\ Len(queue) \in Nat /\ DOMAIN log = 1..Len(log)
        /\ \A k \in 1..Len(v) : v[k] = queue[k + 1]
    BY <1>4, <2>1
  <2>4. /\ DOMAIN Q = 1..(Len(log) + Len(v))
        /\ \A k \in 1..Len(log) : Q[k] = log[k]
        /\ \A k \in 1..Len(v) : Q[Len(log) + k] = v[k]
    BY <1>4, ConcatIs
  <2>5. /\ DOMAIN Rec = 1..(Len(log) + Len(queue))
        /\ \A k \in 1..Len(log) : Rec[k] = log[k]
        /\ \A k \in 1..Len(queue) : Rec[Len(log) + k] = queue[k]
    BY <1>4, ConcatIs DEF Rec
  <2> HIDE DEF Q
  <2>6. s \in [DOMAIN Q -> DOMAIN Rec]
    BY <2>3, <2>4, <2>5
  <2>7. ASSUME NEW i \in DOMAIN Q PROVE Q[i] = Rec[s[i]] /\ (s[i] \in DOMAIN log => s[i] = i)
    <3>1. CASE i <= Len(log)
      <4>1. i \in 1..Len(log) /\ s[i] = i
        BY <2>3, <2>4, <3>1
      <4> QED
        BY <4>1, <2>4, <2>5
    <3>2. CASE ~(i <= Len(log))
      <4>1. i - Len(log) \in 1..Len(v) /\ i = Len(log) + (i - Len(log)) /\ s[i] = i + 1
        BY <2>3, <2>4, <3>2
      <4>2. PICK k \in 1..Len(v) : i = Len(log) + k /\ s[i] = Len(log) + (k + 1)
        <5>1. PICK k \in 1..Len(v) : i = Len(log) + k
          BY <4>1
        <5>2. (Len(log) + k) + 1 = Len(log) + (k + 1)
          BY <2>3
        <5> QED
          BY <4>1, <5>1, <5>2
      <4>3. k + 1 \in 1..Len(queue) /\ s[i] \notin DOMAIN log
        BY <2>3, <4>2
      <4>4. Rec[Len(log) + (k + 1)] = queue[k + 1]
        BY <2>5, <4>3
      <4>5. Q[Len(log) + k] = v[k] /\ v[k] = queue[k + 1]
        BY <2>3, <2>4
      <4> QED
        BY <4>2, <4>3, <4>4, <4>5
    <3> QED
      BY <3>1, <3>2
  <2>8. \A i, j \in DOMAIN Q : i < j => s[i] < s[j]
    BY <2>3, <2>4
  <2> HIDE DEF s
  <2>9. Thins(Rec, Rec', s)
    BY <2>2, <2>6, <2>7, <2>8 DEF Thins
  <2>10. FirstInv'
    BY <1>3, <1>6 DEF FirstInv, TypeInv, TypeOK
  <2> QED
    BY <1>3, <1>6, <2>2, <2>7, <2>9, <2>10, ThinRec
<1> QED
  BY <1>3, <1>5, <1>6

LEMMA CrashRec ==
  ASSUME TypeInv, TypeInv', ChannelInv, RecInv, Final, Crash PROVE RecInv'
<1>1. /\ UNCHANGED <<log, full, faults, refusals, closed, next>> /\ queue' = <<>> /\ up
      /\ ~up' /\ ~torn'
  BY DEF Crash
<1>2. log \in Seq(Event) /\ DOMAIN log \subseteq DOMAIN Rec /\ \A i \in DOMAIN log : Rec[i] = log[i]
  BY RecIs
<1>3. Rec' = log
  BY <1>1, <1>2, ConcatEmptySeq DEF Rec
<1>4. Onward
  <2>1. DeathInv'
    BY <1>1 DEF DeathInv
  <2>2. faults' >= faults /\ refusals' >= refusals /\ refusals' <= MaxRefusals
    BY <1>1 DEF TypeInv, TypeOK, RecInv, RefusalInv
  <2> QED
    BY <1>1, <2>1, <2>2, LogStays DEF Onward, RecInv, RefusalInv
<1> DEFINE s == [i \in DOMAIN log |-> i]
<1>5. Thins(Rec, Rec', s)
  BY <1>2, <1>3 DEF Thins
<1>6. FirstInv'
  <2> SUFFICES ASSUME faults = 0, ~full, NEW j \in DOMAIN log, log[j].ev = "answered"
               PROVE  Asked(log, log[j].n)
    BY <1>1, <1>3 DEF FirstInv
  <2>1. PICK i \in DOMAIN Rec : Rec[i] = Requested(log[j].n)
    BY <1>2 DEF RecInv, FirstInv, Asked
  <2>2. Rec[i].ev = "requested" /\ Rec[i].n = Rec[j].n /\ Rec[j].ev = "answered" /\ j \in DOMAIN Rec
    BY <1>2, <2>1 DEF Requested
  <2>3. i < j
    BY <2>2 DEF RecInv, OrderInv, InOrder
  <2>4. i \in DOMAIN log
    <3>1. DOMAIN log = 1..Len(log) /\ Len(log) \in Nat /\ DOMAIN Rec \subseteq Nat \ {0}
      BY <1>2, RecIs
    <3> QED
      BY <2>3, <3>1
  <2> QED
    BY <1>2, <2>1, <2>4 DEF Asked
<1>7. \A i \in DOMAIN Rec' : s[i] \in DOMAIN log => s[i] = i
  BY <1>3
<1> HIDE DEF s
<1> QED
  BY <1>1, <1>4, <1>5, <1>6, <1>7, ThinRec

LEMMA RecoverRec ==
  ASSUME TypeInv, TypeInv', ChannelInv, RecInv, Final, NEW n \in Actions, Recover(n)
  PROVE  RecInv'
<1>1. /\ UNCHANGED <<queue, torn, full, faults, up, refusals, closed, next>> /\ ~up
      /\ n \in Unanswered /\ log' = Append(log, Answered(n, "cancelled", None))
  BY DEF Recover, channel
<1>2. queue = <<>> /\ log \in Seq(Event) /\ log' \in Seq(Event)
  BY <1>1, RecIs DEF RecInv, DeathInv, TypeInv, TypeOK
<1>3. PICK e \in Event : e = Answered(n, "cancelled", None) /\ e.ev = "answered" /\ e.n = n
  <2>1. Answered(n, "cancelled", None) \in Event
    BY DEF Event, Answered, Decisions
  <2>2. Answered(n, "cancelled", None).ev = "answered" /\ Answered(n, "cancelled", None).n = n
    BY DEF Answered
  <2> QED
    BY <2>1, <2>2
<1>4. Rec = log /\ Rec' = log'
  BY <1>1, <1>2, ConcatEmptySeq DEF Rec
<1>5. PICK i \in DOMAIN log :
        log[i] = Requested(n) /\ \A j \in i..Len(log) : ~(log[j].ev = "answered" /\ log[j].n = n)
  BY <1>1 DEF Unanswered
<1>6. Asked(Rec, n)
  BY <1>4, <1>5 DEF Asked
<1>7. \A j \in DOMAIN Rec : Rec[j].ev = "answered" => Rec[j].n # n
  <2> SUFFICES ASSUME NEW j \in DOMAIN log, log[j].ev = "answered", log[j].n = n PROVE FALSE
    BY <1>4
  <2>1. log[i].ev = "requested" /\ log[i].n = n
    BY <1>5 DEF Requested
  <2>2. i < j
    BY <1>4, <2>1 DEF RecInv, OrderInv, InOrder
  <2>3. j \in i..Len(log)
    BY <1>2, <2>2
  <2> QED
    BY <1>5, <2>3
<1>8. n \in 1..next
  <2>1. log[i] \in Records(next) /\ log[i].ev = "requested" /\ log[i].n = n
    BY <1>5 DEF TypeInv, RecordInv, Requested
  <2> QED
    BY <2>1 DEF Records
<1> DEFINE t == <<e>>
<1>9. t \in Seq(Event) /\ DOMAIN t = {1} /\ t[1] = e
  OBVIOUS
<1>10. Rec' = Rec \o t
  BY <1>1, <1>2, <1>3, <1>4, AppendIsConcat
<1> HIDE DEF t
<1>11. \A m \in 1..next' : ~(m > next)
  BY <1>1, NextIs
<1>12. Follows(t)
  BY <1>1, <1>3, <1>6, <1>7, <1>8, <1>9, <1>11 DEF Follows
<1>13. Onward
  <2>1. LogKept
    BY <1>1, <1>2, <1>3, AppendIs DEF LogKept
  <2>2. DeathInv'
    BY <1>1 DEF RecInv, DeathInv
  <2>3. faults' >= faults /\ refusals' >= refusals /\ refusals' <= MaxRefusals
    BY <1>1 DEF TypeInv, TypeOK, RecInv, RefusalInv
  <2> QED
    BY <1>1, <2>1, <2>2, <2>3 DEF Onward, RecInv, RefusalInv
<1> QED
  BY <1>9, <1>10, <1>12, <1>13, RecGrows

LEMMA RecInit == Init => RecInv
<1> SUFFICES ASSUME Init PROVE RecInv
  OBVIOUS
<1>1. log = <<>> /\ queue = <<>> /\ <<>> \o <<>> = <<>> /\ DOMAIN <<>> = {}
  BY DEF Init
<1>2. Rec = <<>>
  BY <1>1 DEF Rec
<1>3. DeathInv
  BY DEF Init, DeathInv
<1>4. OrderInv
  BY <1>1, <1>2 DEF OrderInv, Distinct, InOrder
<1>5. Cardinality({}) = 0
  BY FS_EmptySet
<1>6. ChargeInv
  <2>1. Charged(<<>>, {}) /\ {} \in SUBSET DOMAIN log /\ Cardinality({}) <= faults
    BY <1>1, <1>5 DEF Charged, OneAnswer, Init
  <2> QED
    BY <1>2, <2>1 DEF ChargeInv
<1>7. RefusalInv
  <2>1. Refusals(<<>>) = {}
    BY <1>1 DEF Refusals
  <2>2. refusals = 0 /\ Cardinality({}) <= 0
    BY <1>5 DEF Init
  <2>3. 0 <= MaxRefusals /\ 0 < MaxRefusals
    BY Bounds
  <2> QED
    BY <1>2, <2>1, <2>2, <2>3 DEF RefusalInv
<1>8. FirstInv
  <2>1. \A n \in 1..0 : FALSE
    OBVIOUS
  <2> QED
    BY <1>1, <1>2, <2>1 DEF FirstInv, Init
<1> QED
  BY <1>3, <1>4, <1>6, <1>7, <1>8 DEF RecInv

LEMMA RecStep ==
  ASSUME TypeInv, TypeInv', ChannelInv, RecInv, Final, [Next]_vars PROVE RecInv'
<1>0. CASE UNCHANGED vars
  BY <1>0, CalmRec DEF vars, channel, evidence
<1>1. ASSUME NEW c \in Conns, Connection(c) PROVE RecInv'
  <2>1. CASE Accept(c) \/ BadLine(c) \/ Eof(c)
    BY <2>1, CalmRec DEF Accept, BadLine, Eof, evidence
  <2> QED
    BY <1>1, <2>1, RefuseRec, WithdrawRec, AskRec DEF Connection
<1>2. ASSUME NEW S \in SUBSET Holds \ {{}}, Touch(S) PROVE RecInv'
  BY <1>2, TouchRec
<1>3. CASE TurnStep
  <2>1. CASE EndTurn
    BY <2>1, CalmRec DEF EndTurn, channel, evidence
  <2>2. CASE Shut
    BY <2>2, CalmRec DEF Shut, evidence
  <2> QED
    BY <1>3, <2>1, <2>2, FlushOneRec, DecideRec, ExpireOneRec, CancelOneRec DEF TurnStep
<1>4. CASE Tend \/ List \/ Finish
  BY <1>4, CalmRec DEF Tend, List, Finish, channel, evidence
<1>5. CASE Pause \/ Resume \/ Tick
  BY <1>5, CalmRec DEF Pause, Resume, Tick, evidence
<1>6. CASE Fill
  BY <1>6, CalmRec DEF Fill, channel
<1>7. CASE Crash
  BY <1>7, CrashRec
<1>8. ASSUME NEW op \in Ops, NEW n \in Actions, NEW d \in {"approved", "denied"},
             Answer(op, n, d) PROVE RecInv'
  BY <1>8, CalmRec DEF Answer, channel, evidence
<1>9. ASSUME NEW n \in Actions, Recover(n) PROVE RecInv'
  BY <1>9, RecoverRec
<1> QED
  BY <1>0, <1>1, <1>2, <1>3, <1>4, <1>5, <1>6, <1>7, <1>8, <1>9 DEF Next

LEMMA RecHolds == Spec => [](TypeInv /\ RecInv)
<1>1. Init => TypeInv /\ ChannelInv /\ RecInv
  BY TypeInit, ChannelInit, RecInit
<1>2. TypeInv /\ ChannelInv /\ RecInv /\ [Next]_vars => (TypeInv /\ ChannelInv /\ RecInv)'
  BY TypeStep, ChannelStep, RecStep
<1> QED
  BY <1>1, <1>2, PTL DEF Spec

LEMMA AtMostOne ==
  ASSUME NEW S, IsFiniteSet(S), \A i, j \in S : i = j PROVE Cardinality(S) <= 1
<1>1. CASE S = {}
  BY <1>1, FS_EmptySet
<1>2. CASE S # {}
  <2>1. PICK i \in S : S = {i}
    BY <1>2
  <2> QED
    BY <2>1, FS_Singleton
<1> QED
  BY <1>1, <1>2

\* As long as no append fails, the log holds for every request one record of it and at most
\* one answer, in this order, also across the node's death and recovery:
\* actions.rs, task.rs cancel_unanswered.
THEOREM LogIsOrdered == Spec => []LogOrdered
<1>1. TypeInv /\ RecInv => LogOrdered
  <2> SUFFICES ASSUME TypeInv, RecInv, faults = 0, ~full, NEW n \in Actions
               PROVE  /\ Cardinality(LoggedRequests(n)) <= 1 /\ Cardinality(LoggedAnswers(n)) <= 1
                      /\ \A k \in LoggedAnswers(n) : \E i \in LoggedRequests(n) : i < k
    BY DEF LogOrdered
  <2>0. /\ log \in Seq(Event) /\ DOMAIN log \subseteq DOMAIN Rec
        /\ \A i \in DOMAIN log : Rec[i] = log[i]
    BY RecIs
  <2>1. DOMAIN log = 1..Len(log) /\ Len(log) \in Nat /\ DOMAIN Rec \subseteq Nat \ {0}
    BY <2>0, RecIs
  <2>2. IsFiniteSet(DOMAIN log)
    BY <2>1, FS_Interval
  <2>3. LoggedRequests(n) \in SUBSET DOMAIN log /\ LoggedAnswers(n) \in SUBSET DOMAIN log
    BY DEF LoggedRequests, LoggedAnswers
  <2>4. IsFiniteSet(LoggedRequests(n)) /\ IsFiniteSet(LoggedAnswers(n))
    BY <2>2, <2>3, FS_Subset
  <2>5. PICK X \in SUBSET DOMAIN log : Cardinality(X) <= faults /\ Charged(Rec, X)
    BY DEF RecInv, ChargeInv
  <2>6. X = {}
    <3>1. IsFiniteSet(X)
      BY <2>2, FS_Subset
    <3>2. Cardinality(X) = 0
      BY <2>5, <3>1, FS_CardinalityType
    <3> QED
      BY <3>1, <3>2, FS_EmptySet
  <2>7. \A i, j \in LoggedAnswers(n) : i = j
    BY <2>0, <2>5, <2>6 DEF Charged, OneAnswer, LoggedAnswers
  <2>8. \A i, j \in LoggedRequests(n) : i = j
    <3>1. Requested(n).ev = "requested" /\ Requested(n).n = n
      BY DEF Requested
    <3> QED
      BY <2>0, <3>1 DEF RecInv, OrderInv, Distinct, LoggedRequests
  <2>9. ASSUME NEW k \in LoggedAnswers(n) PROVE \E i \in LoggedRequests(n) : i < k
    <3>1. k \in DOMAIN log /\ k \in DOMAIN Rec /\ Rec[k].ev = "answered" /\ Rec[k].n = n
      BY <2>0, <2>9 DEF LoggedAnswers
    <3>2. PICK i \in DOMAIN Rec : Rec[i] = Requested(n)
      BY <3>1 DEF RecInv, FirstInv, Asked
    <3>3. Rec[i].ev = "requested" /\ Rec[i].n = n
      BY <3>2 DEF Requested
    <3>4. i < k
      BY <3>1, <3>3 DEF RecInv, OrderInv, InOrder
    <3>5. i \in DOMAIN log
      BY <2>1, <3>1, <3>4
    <3> QED
      BY <2>0, <3>2, <3>4, <3>5 DEF LoggedRequests
  <2> QED
    BY <2>4, <2>7, <2>8, <2>9, AtMostOne
<1> QED
  BY RecHolds, <1>1, PTL

\* Whatever the workload sends and however often the node fails to append, the channel's
\* records are bounded by its grant and its holds, and by one more answer for each failure:
\* actions.rs refuse, register, close.
THEOREM EvidenceIsBounded == Spec => []EvidenceBounded
<1>1. TypeInv /\ RecInv => EvidenceBounded
  <2> SUFFICES ASSUME TypeInv, RecInv PROVE EvidenceBounded
    OBVIOUS
  <2>0. Rec \in Seq(Records(next)) /\ next \in Nat /\ DOMAIN log \subseteq DOMAIN Rec
    BY RecIs
  <2>1. PICK R \in Seq(Records(next)) : R = Rec /\ R \in Seq(Event)
    BY RecIs
  <2>2. DOMAIN R = 1..Len(R) /\ Len(R) \in Nat
    OBVIOUS
  <2>3. IsFiniteSet(DOMAIN R)
    BY <2>2, FS_Interval
  <2>4. \A i \in DOMAIN R : R[i].ev # "refused" => R[i].n \in Actions
    <3>1. next <= MaxTotal + HoldCount /\ MaxTotal + HoldCount \in Nat
      BY Bounds DEF TypeInv, TypeOK
    <3>2. 1..next \subseteq Actions
      BY <2>0, <3>1 DEF Actions
    <3>3. \A i \in DOMAIN R : R[i] \in Records(next)
      OBVIOUS
    <3> QED
      BY <3>2, <3>3 DEF Records
  <2> DEFINE of(ev) == {i \in DOMAIN R : R[i].ev = ev}
  <2>5. IsFiniteSet(of("requested")) /\ IsFiniteSet(of("answered"))
    BY <2>3, FS_Subset
  <2>6. Cardinality(of("refused")) <= MaxRefusals
    <3>1. of("refused") = Refusals(R)
      BY DEF Refusals
    <3>2. Cardinality(Refusals(R)) <= refusals /\ refusals <= MaxRefusals
      BY <2>1 DEF RecInv, RefusalInv
    <3>3. Cardinality(Refusals(R)) \in Nat /\ refusals \in Nat /\ MaxRefusals \in Nat
      BY <2>1, RefusalsFinite, Bounds DEF TypeInv, TypeOK
    <3>4. Cardinality(Refusals(R)) <= MaxRefusals
      BY <3>2, <3>3
    <3> QED
      BY <3>1, <3>4
  <2>7. ASSUME NEW S \in SUBSET DOMAIN R, \A i \in S : R[i].ev # "refused",
               \A i, j \in S : R[i].n = R[j].n => i = j
        PROVE  IsFiniteSet(S) /\ Cardinality(S) <= MaxTotal + HoldCount
    <3> DEFINE f == [i \in S |-> R[i].n]
    <3>1. f \in [S -> Actions]
      BY <2>4, <2>7
    <3>2. \A i, j \in S : f[i] = f[j] => i = j
      BY <2>7
    <3>3. f \in Injection(S, Actions)
      BY <3>1, <3>2 DEF Injection, IsInjective
    <3>4. IsFiniteSet(Actions) /\ Cardinality(Actions) = MaxTotal + HoldCount
      BY ActionsFinite
    <3> QED
      BY <3>3, <3>4, FS_Injection
  <2>8. Cardinality(of("requested")) <= MaxTotal + HoldCount
    <3>1. Distinct(R)
      BY <2>1 DEF RecInv, OrderInv
    <3> QED
      BY <2>7, <3>1 DEF Distinct
  <2>9. Cardinality(of("answered")) <= MaxTotal + HoldCount + faults
    <3>1. PICK X \in SUBSET DOMAIN log : Cardinality(X) <= faults /\ OneAnswer(R, X)
      BY <2>1 DEF RecInv, ChargeInv, Charged
    <3> DEFINE S == of("answered") \ X
    <3>2. \A i, j \in S : R[i].n = R[j].n => i = j
      BY <3>1 DEF OneAnswer
    <3>3. IsFiniteSet(S) /\ Cardinality(S) <= MaxTotal + HoldCount
      BY <2>7, <3>2
    <3>4. X \in SUBSET DOMAIN R
      BY <2>0, <2>1
    <3>5. IsFiniteSet(X)
      BY <2>3, <3>4, FS_Subset
    <3>6. IsFiniteSet(S \cup X) /\ of("answered") \in SUBSET (S \cup X)
      BY <3>3, <3>5, FS_Union
    <3>7. Cardinality(S \cup X) <= Cardinality(S) + Cardinality(X)
      <4>1. Cardinality(S \cup X) = Cardinality(S) + Cardinality(X) - Cardinality(S \cap X)
        BY <3>3, <3>5, FS_Union
      <4>2. Cardinality(S \cap X) \in Nat /\ Cardinality(S) \in Nat /\ Cardinality(X) \in Nat
        BY <3>3, <3>5, FS_Intersection, FS_CardinalityType
      <4> QED
        BY <4>1, <4>2
    <3>8. Cardinality(of("answered")) <= Cardinality(S \cup X)
      BY <3>6, FS_Subset
    <3>9. /\ Cardinality(of("answered")) \in Nat /\ Cardinality(S \cup X) \in Nat
          /\ Cardinality(S) \in Nat /\ Cardinality(X) \in Nat /\ faults \in Nat
          /\ MaxTotal + HoldCount \in Nat
      BY <2>5, <3>3, <3>5, <3>6, FS_CardinalityType, Bounds DEF TypeInv, TypeOK
    <3> HIDE DEF S, of
    <3> QED
      BY <3>1, <3>3, <3>7, <3>8, <3>9
  <2> HIDE DEF of
  <2> QED
    BY <2>1, <2>6, <2>8, <2>9 DEF EvidenceBounded, Rec, of
<1> QED
  BY RecHolds, <1>1, PTL

================================================================================
