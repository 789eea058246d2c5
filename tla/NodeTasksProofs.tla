---------------------------- MODULE NodeTasksProofs ----------------------------
(***************************************************************************)
(* Proofs about the task registry, for every set of tasks, attempts,        *)
(* leases, operations and versions and every bound: its type; no attempt is *)
(* launched twice, no signed admission takes effect twice, a replaced       *)
(* attempt never comes back and a revoked lease launches nothing.  The last *)
(* two sections state what each step changes, and the shape of tasks,       *)
(* records and handlers, for NodeTasksSafetyProofs.                         *)
(***************************************************************************)
EXTENDS NodeTasks, TLAPS

\* A task or record that is not absent names one of the attempts.
Named(r) == r.st # "absent" => r.att \in Attempts

\* TypeOK made inductive, by part.  Whatever is registered or recorded names an attempt; a
\* handler at work works on one attempt and on a state the registry may serve; a handler
\* that seals seals a registered task; a starting node has only present records to recover.
MemInv ==
  /\ mem \in [Tasks -> TaskRec]
  /\ \A t \in Tasks : Named(mem[t]) /\ mem[t].st # "Launching"
DiskInv ==
  /\ disk \in [Tasks -> TaskRec]
  /\ \A t \in Tasks : Named(disk[t])
JobInv ==
  /\ job \in Job
  /\ job.pc # "idle" =>
       job.att \in Attempts /\ job.new.att = job.att /\ job.new.st \in States
LogInv == log \in [Attempts -> LogRec]
WorkInv ==
  /\ reap \in [Attempts -> ReapStates]
  /\ frozen \in [Attempts -> {"no", "yes", "unsure"}]
  /\ stop \subseteq Attempts
  /\ tree \in [Attempts -> TreeStates]
SealInv ==
  /\ job.pc = "seal" => job.verb = "seal"
  /\ job.pc # "idle" /\ job.verb = "seal" => mem[TaskOf[job.att]].st # "absent"
TodoInv ==
  /\ todo \subseteq Tasks /\ \A t \in todo : disk[t].st # "absent"
  /\ up = "up" => todo = {}
RestInv ==
  /\ seals \in Nat /\ kept \subseteq Attempts /\ waits \subseteq Wait
  /\ version \in [Tasks -> Nat]
  /\ revoked \subseteq Leases /\ retired \subseteq Attempts /\ dir \subseteq Attempts
  /\ up \in {"up", "down", "recovering"} \cup Refusals
  /\ faults \in Nat /\ crashes \in Nat
  /\ launches \in [Attempts -> Nat]
  /\ used \subseteq Tasks \X Nat
  /\ acked \subseteq Attempts /\ superseded \subseteq Attempts
  /\ shown \in [Attempts -> Outcomes \cup {"none"}]
TypeInv ==
  MemInv /\ DiskInv /\ JobInv /\ LogInv /\ WorkInv /\ SealInv /\ TodoInv /\ RestInv

USE BindingAssumption, BoundAssumption

--------------------------------------------------------------------------------
(* Values *)

LEMMA NewTaskType == ASSUME NEW a \in Attempts
                     PROVE  NewTask(a) \in TaskRec /\ NewTask(a).att = a
                            /\ NewTask(a).st = "Created" /\ NewTask(a).st \in States
BY DEF NewTask, TaskRec, States

LEMMA NoTaskType == NoTask \in TaskRec /\ NoTask.st = "absent" /\ NoTask.att = None
BY DEF NoTask, NewTask, TaskRec, States

LEMMA RecordType == ASSUME NEW r \in TaskRec
                    PROVE  Record(r) \in TaskRec /\ Record(r).att = r.att /\ Record(r).st = r.st
BY ZenonT(60) DEF Record, TaskRec

LEMMA FinishType == ASSUME NEW r \in TaskRec, NEW s \in States, NEW o \in Outcomes
                    PROVE  Finish(r, s, o) \in TaskRec /\ Finish(r, s, o).att = r.att
                           /\ Finish(r, s, o).st = s
BY ZenonT(60) DEF Finish, TaskRec

LEMMA SpawnFailedType == ASSUME NEW r \in TaskRec
                         PROVE  SpawnFailed(r) \in TaskRec /\ SpawnFailed(r).att = r.att
                                /\ SpawnFailed(r).st = "Exited" /\ SpawnFailed(r).st \in States
<1>1. "Exited" \in States /\ "unknown" \in Outcomes
  BY DEF States, Ended, Outcomes
<1>2. Finish(r, "Exited", "unknown") \in TaskRec
  BY <1>1, FinishType
<1> DEFINE f == Finish(r, "Exited", "unknown")
<1>3. f.att = r.att /\ f.st = "Exited"
  BY <1>1, FinishType
<1> HIDE DEF f
<1>4. f \in TaskRec
  BY <1>2 DEF f
<1> DEFINE g == [f EXCEPT !.run = TRUE]
<1>5. g.att = f.att /\ g.st = f.st
  BY <1>4 DEF TaskRec, g
<1>6. TRUE \in BOOLEAN
  OBVIOUS
<1>7. \A b \in BOOLEAN : [f EXCEPT !.run = b] \in TaskRec
  BY <1>4 DEF TaskRec
<1>8. g \in TaskRec
  BY <1>6, <1>7 DEF g
<1> QED
  BY <1>1, <1>3, <1>5, <1>8 DEF SpawnFailed, f

LEMMA VersionType == ASSUME NEW r \in TaskRec PROVE r.ver \in Nat
<1>1. r.ver \in Versions \cup {0}
  BY DEF TaskRec
<1>2. \A v \in Versions \cup {0} : v \in Nat
  BY BoundAssumption
<1> QED
  BY <1>1, <1>2

LEMMA RecordedType == ASSUME NEW l \in LogRec, NEW r \in TaskRec, r.st \in States
                      PROVE  Recorded(l, r) \in LogRec
BY DEF Recorded, LogRec, TaskRec

--------------------------------------------------------------------------------
(* The steps handlers are made of *)

LEMMA DoneType == Done => JobInv' /\ SealInv'
BY NoTaskType DEF Done, NoJob, JobInv, SealInv, Job, JobPcs, Verbs

LEMMA BeginType == ASSUME NEW pc \in JobPcs, NEW verb \in Verbs, NEW a \in Attempts,
                          NEW r \in TaskRec, r.att = a, r.st \in States,
                          pc = "seal" => verb = "seal",
                          verb = "seal" => mem'[TaskOf[a]].st # "absent",
                          Begin(pc, verb, a, r)
                   PROVE  JobInv' /\ SealInv'
BY DEF Begin, JobInv, SealInv, Job

LEMMA GotoType == ASSUME JobInv, SealInv, job.pc # "idle", UNCHANGED mem,
                         NEW pc \in JobPcs, pc = "seal" => job.verb = "seal", Goto(pc)
                  PROVE  JobInv' /\ SealInv'
<1>1. /\ job' \in Job
      /\ job'.pc = pc /\ job'.verb = job.verb /\ job'.att = job.att /\ job'.new = job.new
  BY DEF Goto, JobInv, Job
<1> QED
  BY <1>1 DEF JobInv, SealInv

LEMMA JournalType == ASSUME DiskInv, RestInv, TodoInv,
                            NEW t \in Tasks, NEW r \in TaskRec, Named(r),
                            JournalOk(t, r) \/ JournalErr(t, r)
                     PROVE  /\ DiskInv' /\ faults' \in Nat
                            /\ UNCHANGED <<todo, up>> /\ (up = "up" \/ r.st # "absent")
                                 => TodoInv'
BY DEF DiskInv, RestInv, TodoInv, JournalOk, JournalErr, Fault, Named

LEMMA AppendType == ASSUME LogInv, RestInv, NEW a \in Attempts, NEW l \in LogRec,
                           AppendOk(a, l) \/ AppendErr(a, l)
                    PROVE  LogInv' /\ faults' \in Nat
<1>1. [log[a] EXCEPT !.torn = TRUE] \in LogRec
  BY DEF LogInv, LogRec
<1>2. \A m \in LogRec : [log EXCEPT ![a] = m] \in [Attempts -> LogRec]
  BY DEF LogInv
<1>3. log[a] \in LogRec
  BY DEF LogInv
<1>4. CASE AppendOk(a, l)
  BY <1>2, <1>4 DEF LogInv, RestInv, AppendOk
<1>5. CASE AppendErr(a, l)
  <2>1. CASE ~Appendable(log[a]) /\ UNCHANGED <<log, faults>>
    BY <2>1 DEF LogInv, RestInv
  <2>2. CASE /\ Fault
             /\ \E m \in {log[a], l, [log[a] EXCEPT !.torn = TRUE]} :
                  log' = [log EXCEPT ![a] = m]
    <3>1. log' \in [Attempts -> LogRec]
      BY <1>1, <1>2, <1>3, <2>2, ZenonT(60)
    <3> QED
      BY <2>2, <3>1 DEF LogInv, RestInv, Fault
  <2> QED
    BY <1>5, <2>1, <2>2 DEF AppendErr
<1> QED
  BY <1>4, <1>5

LEMMA ApplyType == ASSUME MemInv, JobInv, RestInv, job.pc # "idle", Apply
                   PROVE  /\ MemInv' /\ JobInv' /\ SealInv'
                          /\ shown' \in [Attempts -> Outcomes \cup {"none"}]
<1>1. job.att \in Attempts /\ TaskOf[job.att] \in Tasks /\ job.new \in TaskRec
  BY DEF JobInv, Job
<1>2. job.new.out \in Outcomes \cup {"none"} /\ job.new.st # "Launching" /\ Named(job.new)
  BY <1>1 DEF JobInv, TaskRec, States, LiveStates, Ended, Named
<1>3. MemInv'
  BY <1>1, <1>2 DEF Apply, MemInv
<1>4. shown' \in [Attempts -> Outcomes \cup {"none"}]
  BY <1>1, <1>2 DEF Apply, RestInv
<1> QED
  BY <1>3, <1>4, DoneType DEF Apply

LEMMA InitType == Init => TypeInv
BY NoTaskType DEF Init, TypeInv, MemInv, DiskInv, JobInv, LogInv, WorkInv, SealInv, TodoInv,
  RestInv, Named, NoJob, Job, JobPcs, Verbs, NoLog, LogRec, ReapStates, TreeStates, Refusals

--------------------------------------------------------------------------------
(* create *)

LEMMA CreateNewType == ASSUME TypeInv, NEW a \in Attempts, CreateNew(a) PROVE TypeInv'
<1>1. JobInv' /\ SealInv'
  BY NewTaskType, BeginType DEF CreateNew, JobPcs, Verbs
<1> QED
  BY <1>1 DEF CreateNew, TypeInv, MemInv, DiskInv, LogInv, WorkInv, TodoInv, RestInv,
    workloads, durable, process, history

LEMMA RetireType == ASSUME RestInv, NEW r \in TaskRec, Named(r), r.st # "absent"
                    PROVE  Retire(r) \subseteq Attempts
BY DEF RestInv, Retire, Named

LEMMA CreateEvictType == ASSUME TypeInv, NEW a \in Attempts, CreateEvict(a) PROVE TypeInv'
<1>1. PICK old \in Registered :
        /\ mem[old].st = "Sealed"
        /\ \/ /\ JournalOk(old, NoTask)
              /\ mem' = [mem EXCEPT ![old] = NoTask]
              /\ kept' = Retire(mem[old])
              /\ Begin("journal", "create", a, NewTask(a))
           \/ JournalErr(old, NoTask) /\ UNCHANGED <<mem, kept, job>>
  BY DEF CreateEvict
<1>2. old \in Tasks /\ Named(NoTask)
  BY NoTaskType DEF Registered, Named
<1>3. DiskInv' /\ faults' \in Nat
  BY <1>1, <1>2, NoTaskType, JournalType DEF TypeInv
<1>4. MemInv'
  BY <1>1, <1>2, NoTaskType DEF TypeInv, MemInv
<1>5. kept' \subseteq Attempts
  <2>1. Retire(mem[old]) \subseteq Attempts
    BY <1>1, <1>2, RetireType DEF TypeInv, MemInv
  <2> QED
    BY <1>1, <2>1 DEF TypeInv, RestInv
<1>6. JobInv' /\ SealInv'
  <2>1. CASE Begin("journal", "create", a, NewTask(a))
    BY <2>1, NewTaskType, BeginType DEF JobPcs, Verbs
  <2>2. CASE UNCHANGED <<mem, kept, job>>
    BY <2>2 DEF TypeInv, JobInv, SealInv
  <2> QED
    BY <1>1, <2>1, <2>2
<1>7. TodoInv'
  BY <1>1, <1>2, NoTaskType, JournalType DEF CreateEvict, Idle, TypeInv
<1> QED
  BY <1>3, <1>4, <1>5, <1>6, <1>7 DEF CreateEvict, TypeInv, LogInv, WorkInv, RestInv,
    workloads, history

LEMMA CreateReplaceType == ASSUME TypeInv, NEW a \in Attempts, CreateReplace(a) PROVE TypeInv'
<1>1. JobInv' /\ SealInv'
  BY NewTaskType, BeginType DEF CreateReplace, JobPcs, Verbs, RetireAttempt
<1>2. mem[TaskOf[a]].att \in Attempts
  BY DEF CreateReplace, TypeInv, MemInv, Named, RetireAttempt
<1>3. retired' \subseteq Attempts
  BY <1>2 DEF CreateReplace, TypeInv, RestInv, RetireAttempt
<1> QED
  BY <1>1, <1>3 DEF CreateReplace, TypeInv, MemInv, DiskInv, LogInv, WorkInv, TodoInv,
    RestInv, workloads, process, history, RetireAttempt

\* What a handler at work holds in its hands.
LEMMA JobHolds == ASSUME TypeInv, job.pc # "idle"
                  PROVE  /\ job.att \in Attempts /\ TaskOf[job.att] \in Tasks
                         /\ job.new \in TaskRec /\ job.new.st \in States
                         /\ job.new.att = job.att
                         /\ Record(job.new) \in TaskRec /\ Named(Record(job.new))
                         /\ Record(job.new).st # "absent"
<1>1. /\ job.att \in Attempts /\ TaskOf[job.att] \in Tasks
      /\ job.new \in TaskRec /\ job.new.st \in States /\ job.new.att = job.att
  BY DEF TypeInv, JobInv, Job
<1> QED
  BY <1>1, RecordType DEF Named, States, LiveStates, Ended

LEMMA CreateWriteType == ASSUME TypeInv, CreateWrite PROVE TypeInv'
<1>0. job.pc # "idle" /\ up = "up"
  BY DEF CreateWrite, At
<1> DEFINE t == TaskOf[job.att]
<1>1. DiskInv' /\ faults' \in Nat /\ TodoInv'
  BY <1>0, JobHolds, JournalType DEF CreateWrite, TypeInv
<1>2. /\ MemInv' /\ JobInv' /\ SealInv'
      /\ shown' \in [Attempts -> Outcomes \cup {"none"}]
  <2>1. CASE Apply
    BY <1>0, <2>1, ApplyType DEF TypeInv
  <2>2. CASE Done /\ UNCHANGED <<mem, shown>>
    BY <2>2, DoneType DEF TypeInv, MemInv, RestInv
  <2> QED
    BY <2>1, <2>2 DEF CreateWrite
<1>3. kept' \subseteq Attempts /\ superseded' \subseteq Attempts
  <2>1. CASE mem[t].st = "absent" \/ UNCHANGED <<kept, superseded>>
    BY <2>1 DEF CreateWrite, TypeInv, RestInv
  <2>2. CASE mem[t].st # "absent" /\ kept' = Retire(mem[t])
             /\ superseded' = superseded \cup {mem[t].att}
    <3>1. mem[t] \in TaskRec /\ Named(mem[t])
      BY <1>0, JobHolds DEF TypeInv, MemInv
    <3>2. Retire(mem[t]) \subseteq Attempts /\ mem[t].att \in Attempts
      BY <2>2, <3>1, RetireType DEF TypeInv, Named
    <3> QED
      BY <2>2, <3>2 DEF TypeInv, RestInv
  <2> QED
    BY <2>1, <2>2 DEF CreateWrite
<1> QED
  BY <1>1, <1>2, <1>3 DEF CreateWrite, TypeInv, LogInv, WorkInv, RestInv, workloads

--------------------------------------------------------------------------------
(* commit *)

LEMMA RefuseType == ASSUME JobInv, SealInv, job.pc # "idle", UNCHANGED mem, Refuse
                    PROVE  JobInv' /\ SealInv'
BY DoneType, GotoType DEF Refuse, JobPcs

LEMMA CommitJournalType == ASSUME TypeInv, CommitJournal PROVE TypeInv'
<1>0. job.pc # "idle" /\ up = "up" /\ UNCHANGED mem
  BY DEF CommitJournal, At
<1>1. DiskInv' /\ faults' \in Nat /\ TodoInv'
  BY <1>0, JobHolds, JournalType DEF CommitJournal, TypeInv
<1>2. JobInv' /\ SealInv'
  <2>1. CASE Refuse
    BY <1>0, <2>1, RefuseType DEF TypeInv
  <2>2. CASE job.verb = "admit" /\ Goto("version")
    BY <1>0, <2>2, GotoType DEF TypeInv, JobPcs
  <2>3. CASE job.verb = "seal" /\ Goto("seal")
    BY <1>0, <2>3, GotoType DEF TypeInv, JobPcs
  <2>4. CASE Goto("evidence")
    BY <1>0, <2>4, GotoType DEF TypeInv, JobPcs
  <2> QED
    BY <2>1, <2>2, <2>3, <2>4 DEF CommitJournal
<1> QED
  BY <1>1, <1>2 DEF CommitJournal, TypeInv, MemInv, LogInv, WorkInv, RestInv, workloads,
    history

LEMMA CommitVersionType == ASSUME TypeInv, CommitVersion PROVE TypeInv'
<1>0. job.pc # "idle" /\ UNCHANGED mem
  BY DEF CommitVersion, At
<1>1. version' \in [Tasks -> Nat] /\ faults' \in Nat
  <2>1. job.new.ver \in Nat
    BY <1>0, JobHolds, VersionType
  <2> QED
    BY <1>0, <2>1, JobHolds DEF CommitVersion, TypeInv, RestInv, Fault
<1>2. JobInv' /\ SealInv'
  BY <1>0, GotoType DEF CommitVersion, TypeInv, JobPcs
<1> QED
  BY <1>1, <1>2 DEF CommitVersion, TypeInv, MemInv, DiskInv, LogInv, WorkInv, TodoInv,
    RestInv, workloads, history

LEMMA CommitEvidenceType == ASSUME TypeInv, CommitEvidence PROVE TypeInv'
<1>0. job.pc # "idle" /\ up = "up"
  BY DEF CommitEvidence, At
<1>1. LogInv' /\ faults' \in Nat
  <2>1. Recorded(log[job.att], job.new) \in LogRec
    BY <1>0, JobHolds, RecordedType DEF TypeInv, LogInv
  <2> QED
    BY <1>0, <2>1, JobHolds, AppendType DEF CommitEvidence, TypeInv
<1>2. /\ MemInv' /\ JobInv' /\ SealInv'
      /\ shown' \in [Attempts -> Outcomes \cup {"none"}]
  <2>1. CASE Apply
    BY <1>0, <2>1, ApplyType DEF TypeInv
  <2>2. CASE Goto("restore") /\ UNCHANGED <<mem, shown>>
    BY <1>0, <2>2, GotoType DEF TypeInv, MemInv, RestInv, JobPcs
  <2> QED
    BY <2>1, <2>2 DEF CommitEvidence
<1>3. used' \subseteq Tasks \X Nat /\ acked' \subseteq Attempts
  <2>1. <<TaskOf[job.att], job.new.ver>> \in Tasks \X Nat /\ job.att \in Attempts
    BY <1>0, JobHolds, VersionType
  <2> QED
    BY <2>1 DEF CommitEvidence, TypeInv, RestInv
<1> QED
  BY <1>1, <1>2, <1>3 DEF CommitEvidence, TypeInv, DiskInv, WorkInv, TodoInv, RestInv,
    workloads

LEMMA RestoreType == ASSUME TypeInv, Restore PROVE TypeInv'
<1>0. job.pc # "idle" /\ up = "up" /\ UNCHANGED mem
  BY DEF Restore, At
<1>1. Record(mem[TaskOf[job.att]]) \in TaskRec /\ Named(Record(mem[TaskOf[job.att]]))
  BY <1>0, JobHolds, RecordType DEF TypeInv, MemInv, Named
<1>2. DiskInv' /\ faults' \in Nat /\ TodoInv'
  BY <1>0, <1>1, JobHolds, JournalType DEF Restore, TypeInv
<1>3. JobInv' /\ SealInv'
  BY <1>0, RefuseType DEF Restore, TypeInv
<1> QED
  BY <1>2, <1>3 DEF Restore, TypeInv, MemInv, LogInv, WorkInv, RestInv, workloads, history

LEMMA UndoType == ASSUME TypeInv, Undo PROVE TypeInv'
<1>1. JobInv' /\ SealInv'
  BY DoneType DEF Undo
<1>2. frozen' \in [Attempts -> {"no", "yes", "unsure"}] /\ faults' \in Nat
  BY DEF Undo, TypeInv, WorkInv, RestInv, Fault
<1> QED
  BY <1>1, <1>2 DEF Undo, TypeInv, MemInv, DiskInv, LogInv, WorkInv, TodoInv, RestInv,
    durable, history

--------------------------------------------------------------------------------
(* admit, pause, resume *)

\* What a request's registered task is.
LEMMA HeldType == ASSUME TypeInv, NEW a \in Attempts, Holds(a)
                  PROVE  /\ TaskOf[a] \in Tasks
                         /\ mem[TaskOf[a]] \in TaskRec /\ mem[TaskOf[a]].att = a
                         /\ mem[TaskOf[a]].st # "Launching"
BY DEF TypeInv, MemInv, Holds

LEMMA AdmitType == ASSUME TypeInv, NEW a \in Attempts, NEW v \in Versions, Admit(a, v)
                   PROVE  TypeInv'
<1> DEFINE r == mem[TaskOf[a]]
           new == [r EXCEPT !.st = "Ready", !.ver = v]
<1>1. r \in TaskRec /\ r.att = a
  BY HeldType DEF Admit, Verified
<1>2. "Ready" \in States
  BY DEF States
<1>3. new \in TaskRec /\ new.att = a /\ new.st = "Ready"
  BY <1>1, <1>2, ZenonT(60) DEF TaskRec
<1>4. Begin("journal", "admit", a, new)
  BY DEF Admit, Verified
<1> HIDE DEF new
<1>5. JobInv' /\ SealInv'
  BY <1>2, <1>3, <1>4, BeginType DEF JobPcs, Verbs
<1> QED
  BY <1>5 DEF Admit, TypeInv, MemInv, DiskInv, LogInv, WorkInv, TodoInv, RestInv, workloads,
    durable, process, history, Verified

LEMMA PauseType == ASSUME TypeInv, NEW a \in Attempts, Pause(a) PROVE TypeInv'
<1> DEFINE r == mem[TaskOf[a]]
           new == [r EXCEPT !.st = "Paused", !.pauses = @ + 1]
<1>1. r \in TaskRec /\ r.att = a
  BY HeldType DEF Pause
<1>2. "Paused" \in States /\ r.pauses + 1 \in Nat
  BY <1>1 DEF States, LiveStates, TaskRec
<1>3. new \in TaskRec /\ new.att = a /\ new.st = "Paused"
  BY <1>1, <1>2, ZenonT(60) DEF TaskRec
<1>4. Begin("journal", "pause", a, new)
  BY DEF Pause
<1> HIDE DEF new
<1>5. JobInv' /\ SealInv'
  BY <1>2, <1>3, <1>4, BeginType DEF JobPcs, Verbs
<1>6. frozen' \in [Attempts -> {"no", "yes", "unsure"}]
  BY DEF Pause, TypeInv, WorkInv
<1> QED
  BY <1>5, <1>6 DEF Pause, TypeInv, MemInv, DiskInv, LogInv, WorkInv, TodoInv, RestInv,
    durable, process, history

LEMMA ResumeType == ASSUME TypeInv, NEW a \in Attempts, Resume(a) PROVE TypeInv'
<1> DEFINE r == mem[TaskOf[a]]
           new == [r EXCEPT !.st = "Running"]
<1>1. r \in TaskRec /\ r.att = a
  BY HeldType DEF Resume
<1>2. "Running" \in States
  BY DEF States, LiveStates
<1>3. new \in TaskRec /\ new.att = a /\ new.st = "Running"
  BY <1>1, <1>2 DEF TaskRec
<1>4. JobInv' /\ SealInv'
  <2> HIDE DEF new
  <2>1. CASE Begin("journal", "resume", a, new)
    BY <2>1, <1>2, <1>3, BeginType DEF JobPcs, Verbs
  <2>2. CASE UNCHANGED job
    BY <2>2 DEF Resume, TypeInv, JobInv, SealInv
  <2> QED
    BY <2>1, <2>2 DEF Resume, new
<1>5. frozen' \in [Attempts -> {"no", "yes", "unsure"}] /\ faults' \in Nat
  BY DEF Resume, TypeInv, WorkInv, RestInv, Fault
<1> QED
  BY <1>4, <1>5 DEF Resume, TypeInv, MemInv, DiskInv, LogInv, WorkInv, TodoInv, RestInv,
    durable, history

--------------------------------------------------------------------------------
(* stop, revoke *)

LEMMA EndAttemptType == ASSUME TypeInv, NEW a \in Attempts, NEW r \in TaskRec, r.att = a,
                               UNCHANGED job, job.pc = "idle", EndAttempt(a, r)
                        PROVE  /\ MemInv' /\ SealInv' /\ faults' \in Nat
                               /\ stop' \subseteq Attempts
                               /\ frozen' \in [Attempts -> {"no", "yes", "unsure"}]
<1> DEFINE new == [r EXCEPT !.st = "Running"]
<1>1. "Running" \in States /\ TaskOf[a] \in Tasks
  BY DEF States, LiveStates
<1>2. new \in TaskRec /\ new.att = a /\ new.st = "Running"
  BY <1>1 DEF TaskRec
<1>3. mem' = [mem EXCEPT ![TaskOf[a]] = new]
  BY DEF EndAttempt
<1> HIDE DEF new
<1>4. MemInv'
  BY <1>1, <1>2, <1>3 DEF TypeInv, MemInv, Named
<1>5. SealInv'
  <2>1. mem'[TaskOf[job.att]].st = mem[TaskOf[job.att]].st \/ mem'[TaskOf[job.att]].st = "Running"
    BY <1>1, <1>2, <1>3 DEF TypeInv, MemInv
  <2> QED
    BY <2>1 DEF TypeInv, SealInv
<1>6. faults' \in Nat /\ stop' \subseteq Attempts
      /\ frozen' \in [Attempts -> {"no", "yes", "unsure"}]
  BY DEF EndAttempt, TypeInv, WorkInv, RestInv, Fault
<1> QED
  BY <1>4, <1>5, <1>6

\* A finished task with the operation that finished it.
StoppedBy(r, s, o, op) == [Finish(r, s, o) EXCEPT !.stoppedBy = op]
RevokedBy(r, s, o, op) == [Finish(r, s, o) EXCEPT !.revokedBy = op]

LEMMA FinishedByType ==
  ASSUME NEW r \in TaskRec, NEW s \in States, NEW o \in Outcomes, NEW op \in Ops \cup {None}
  PROVE  /\ StoppedBy(r, s, o, op) \in TaskRec /\ StoppedBy(r, s, o, op).att = r.att
         /\ StoppedBy(r, s, o, op).st = s
         /\ RevokedBy(r, s, o, op) \in TaskRec /\ RevokedBy(r, s, o, op).att = r.att
         /\ RevokedBy(r, s, o, op).st = s
<1> DEFINE f == Finish(r, s, o)
<1>1. f \in TaskRec /\ f.att = r.att /\ f.st = s
  BY FinishType
<1> HIDE DEF f
<1>2. /\ [f EXCEPT !.stoppedBy = op] \in TaskRec /\ [f EXCEPT !.revokedBy = op] \in TaskRec
      /\ [f EXCEPT !.stoppedBy = op].att = f.att /\ [f EXCEPT !.revokedBy = op].att = f.att
      /\ [f EXCEPT !.stoppedBy = op].st = f.st /\ [f EXCEPT !.revokedBy = op].st = f.st
  BY <1>1 DEF TaskRec
<1> QED
  BY <1>1, <1>2 DEF f, StoppedBy, RevokedBy

LEMMA StopReadyType == ASSUME TypeInv, NEW op \in Ops, NEW a \in Attempts, StopReady(op, a)
                       PROVE  TypeInv'
<1> DEFINE new == StoppedBy(mem[TaskOf[a]], "Stopped", "failed", op)
<1>1. "Stopped" \in States /\ "failed" \in Outcomes
  BY DEF States, Ended, Outcomes
<1>2. new \in TaskRec /\ new.att = a /\ new.st = "Stopped"
  <2>1. mem[TaskOf[a]] \in TaskRec /\ mem[TaskOf[a]].att = a /\ op \in Ops \cup {None}
    BY HeldType DEF StopReady
  <2> QED
    BY <1>1, <2>1, FinishedByType
<1>3. Begin("journal", "stop", a, new)
  BY DEF StopReady, StoppedBy
<1> HIDE DEF new
<1>4. JobInv' /\ SealInv'
  BY <1>1, <1>2, <1>3, BeginType DEF JobPcs, Verbs
<1> QED
  BY <1>4 DEF StopReady, TypeInv, MemInv, DiskInv, LogInv, WorkInv, TodoInv, RestInv,
    workloads, durable, process, history

LEMMA StopLiveType == ASSUME TypeInv, NEW op \in Ops, NEW a \in Attempts, StopLive(op, a)
                      PROVE  TypeInv'
<1> DEFINE r == mem[TaskOf[a]]
           new == [r EXCEPT !.stopReq = IF @ = None THEN op ELSE @]
<1>1. r \in TaskRec /\ r.att = a
  BY HeldType DEF StopLive
<1>2. new \in TaskRec /\ new.att = a
  BY <1>1 DEF TaskRec
<1>3. EndAttempt(a, new) /\ UNCHANGED job /\ job.pc = "idle"
  BY DEF StopLive, Idle
<1> HIDE DEF new
<1>4. /\ MemInv' /\ SealInv' /\ faults' \in Nat
      /\ stop' \subseteq Attempts
      /\ frozen' \in [Attempts -> {"no", "yes", "unsure"}]
  BY <1>2, <1>3, EndAttemptType
<1>5. waits' \subseteq Wait
  BY DEF StopLive, TypeInv, RestInv, Wait
<1> QED
  BY <1>4, <1>5 DEF StopLive, TypeInv, DiskInv, JobInv, LogInv, WorkInv, TodoInv, RestInv,
    durable, history

LEMMA FinishStopType == ASSUME TypeInv, NEW w \in waits, FinishStop(w) PROVE TypeInv'
<1>1. w \in Wait /\ w.att \in Attempts
  BY DEF TypeInv, RestInv, Wait
<1> QED
  BY <1>1 DEF FinishStop, TypeInv, MemInv, DiskInv, JobInv, LogInv, SealInv, WorkInv, TodoInv,
    RestInv, workloads, durable, process

LEMMA StopReplayType == ASSUME TypeInv, NEW op \in Ops, NEW a \in Attempts, StopReplay(op, a)
                        PROVE  TypeInv'
BY DEF StopReplay, TypeInv, MemInv, DiskInv, JobInv, LogInv, SealInv, WorkInv, TodoInv, RestInv,
  registry, workloads, durable, process

LEMMA RevokeReadyType == ASSUME TypeInv, NEW op \in Ops, NEW a \in Attempts,
                                RevokeReady(op, a)
                         PROVE  TypeInv'
<1> DEFINE new == RevokedBy(mem[TaskOf[a]], "Revoked", "failed", op)
<1>1. "Revoked" \in States /\ "failed" \in Outcomes
  BY DEF States, Ended, Outcomes
<1>2. new \in TaskRec /\ new.att = a /\ new.st = "Revoked"
  <2>1. mem[TaskOf[a]] \in TaskRec /\ mem[TaskOf[a]].att = a /\ op \in Ops \cup {None}
    BY HeldType DEF RevokeReady, RevokeLease
  <2> QED
    BY <1>1, <2>1, FinishedByType
<1>3. Begin("journal", "revoke", a, new)
  BY DEF RevokeReady, RevokedBy, RevokeLease
<1> HIDE DEF new
<1>4. JobInv' /\ SealInv'
  BY <1>1, <1>2, <1>3, BeginType DEF JobPcs, Verbs
<1>5. revoked' \subseteq Leases
  BY DEF RevokeReady, TypeInv, RestInv, RevokeLease
<1> QED
  BY <1>4, <1>5 DEF RevokeReady, TypeInv, MemInv, DiskInv, LogInv, WorkInv, TodoInv, RestInv,
    workloads, process, history, RevokeLease

LEMMA RevokeLiveType == ASSUME TypeInv, NEW op \in Ops, NEW a \in Attempts, RevokeLive(op, a)
                        PROVE  TypeInv'
<1> DEFINE r == mem[TaskOf[a]]
           new == [r EXCEPT !.revReq = IF @ = None THEN op ELSE @]
<1>1. r \in TaskRec /\ r.att = a
  BY HeldType DEF RevokeLive, RevokeLease
<1>2. new \in TaskRec /\ new.att = a
  BY <1>1 DEF TaskRec
<1>3. EndAttempt(a, new) /\ UNCHANGED job /\ job.pc = "idle"
  BY DEF RevokeLive, Idle, RevokeLease
<1> HIDE DEF new
<1>4. /\ MemInv' /\ SealInv' /\ faults' \in Nat
      /\ stop' \subseteq Attempts
      /\ frozen' \in [Attempts -> {"no", "yes", "unsure"}]
  BY <1>2, <1>3, EndAttemptType
<1>5. waits' \subseteq Wait /\ revoked' \subseteq Leases
  BY DEF RevokeLive, TypeInv, RestInv, Wait, RevokeLease
<1> QED
  BY <1>4, <1>5 DEF RevokeLive, TypeInv, DiskInv, JobInv, LogInv, WorkInv, TodoInv, RestInv,
    history, RevokeLease

LEMMA FinishRevokeType == ASSUME TypeInv, NEW w \in waits, FinishRevoke(w) PROVE TypeInv'
<1> DEFINE new == RevokedBy(mem[TaskOf[w.att]], "Revoked", "unknown", w.op)
<1>1. w \in Wait /\ w.att \in Attempts /\ w.op \in Ops
  BY DEF TypeInv, RestInv, Wait
<1>2. waits' \subseteq Wait
  BY DEF FinishRevoke, TypeInv, RestInv
<1>3. "Revoked" \in States /\ "unknown" \in Outcomes
  BY DEF States, Ended, Outcomes
<1>4. JobInv' /\ SealInv'
  <2>1. CASE Holds(w.att) /\ Begin("journal", "unconfirmed", w.att, new)
    <3>0. /\ mem[TaskOf[w.att]] \in TaskRec /\ mem[TaskOf[w.att]].att = w.att
          /\ w.op \in Ops \cup {None}
      BY <1>1, <2>1, HeldType
    <3>1. new \in TaskRec /\ new.att = w.att /\ new.st = "Revoked"
      BY <1>3, <3>0, FinishedByType
    <3> HIDE DEF new
    <3> QED
      BY <1>1, <1>3, <2>1, <3>1, BeginType DEF JobPcs, Verbs
  <2>2. CASE UNCHANGED job
    BY <2>2 DEF FinishRevoke, TypeInv, JobInv, SealInv
  <2> QED
    BY <2>1, <2>2 DEF FinishRevoke, RevokedBy
<1> QED
  BY <1>2, <1>4 DEF FinishRevoke, TypeInv, MemInv, DiskInv, LogInv, WorkInv, TodoInv, RestInv,
    workloads, durable, process, history

--------------------------------------------------------------------------------
(* seal *)

LEMMA SealType == ASSUME TypeInv, NEW op \in Ops, NEW a \in Attempts, Seal(op, a)
                  PROVE  TypeInv'
<1> DEFINE r == mem[TaskOf[a]]
           new == [r EXCEPT !.st = "Sealed", !.sealedBy = op, !.order = seals]
<1>1. r \in TaskRec /\ r.att = a /\ r.st # "absent" /\ seals \in Nat
  BY HeldType DEF Seal, Ended, TypeInv, RestInv
<1>2. "Sealed" \in States
  BY DEF States
<1>3. new \in TaskRec /\ new.att = a /\ new.st = "Sealed"
  BY <1>1, <1>2, ZenonT(60) DEF TaskRec
<1>4. Begin("journal", "seal", a, new) /\ mem' = mem
  BY DEF Seal
<1> HIDE DEF new
<1>5. JobInv' /\ SealInv'
  BY <1>1, <1>2, <1>3, <1>4, BeginType DEF JobPcs, Verbs
<1> QED
  BY <1>5 DEF Seal, TypeInv, MemInv, DiskInv, LogInv, WorkInv, TodoInv, RestInv, workloads,
    durable, process, history

LEMMA SealOpenType == ASSUME TypeInv, SealOpen PROVE TypeInv'
<1>0. job.pc = "seal" /\ job.pc # "idle"
  BY DEF SealOpen, At
<1> DEFINE r == mem[TaskOf[job.att]]
           end == Recorded(log[job.att], r)
<1>1. end \in LogRec
  <2>1. r \in TaskRec /\ r.st # "absent" /\ r.st # "Launching"
    BY <1>0, JobHolds DEF TypeInv, MemInv, SealInv
  <2>2. r.st \in States
    BY <2>1 DEF TaskRec
  <2> QED
    BY <1>0, <2>1, <2>2, JobHolds, RecordedType DEF TypeInv, LogInv
<1>2. LogInv' /\ faults' \in Nat
  <2>1. CASE UNCHANGED <<log, faults>>
    BY <2>1 DEF TypeInv, LogInv, RestInv
  <2>2. CASE AppendOk(job.att, end) \/ AppendErr(job.att, end)
    BY <1>0, <1>1, <2>2, JobHolds, AppendType DEF TypeInv
  <2> QED
    BY <2>1, <2>2 DEF SealOpen
<1>3. /\ MemInv' /\ JobInv' /\ SealInv'
      /\ shown' \in [Attempts -> Outcomes \cup {"none"}]
  <2>1. CASE Apply
    BY <1>0, <2>1, ApplyType DEF TypeInv
  <2>2. CASE UNCHANGED <<mem, shown>> /\ \E pc \in {"restore", "headNew", "mark"} : Goto(pc)
    <3>1. JobInv' /\ SealInv'
      BY <1>0, <2>2, GotoType DEF TypeInv, JobPcs
    <3> QED
      BY <2>2, <3>1 DEF TypeInv, MemInv, RestInv
  <2> QED
    BY <2>1, <2>2 DEF SealOpen
<1>4. seals' \in Nat
  BY DEF SealOpen, TypeInv, RestInv
<1> QED
  BY <1>2, <1>3, <1>4 DEF SealOpen, TypeInv, DiskInv, WorkInv, TodoInv, RestInv, workloads

LEMMA SealMarkType == ASSUME TypeInv, SealMark PROVE TypeInv'
<1>0. job.pc # "idle" /\ UNCHANGED mem
  BY DEF SealMark, At
<1> DEFINE l == [log[job.att] EXCEPT !.held = "Sealed", !.by = job.new.sealedBy]
<1>1. log[job.att] \in LogRec /\ job.new.sealedBy \in Ops \cup {None} /\ "Sealed" \in States
  BY <1>0, JobHolds DEF TypeInv, LogInv, TaskRec, States
<1>2. l \in LogRec
  BY <1>1 DEF LogRec
<1>3. AppendOk(job.att, l) \/ AppendErr(job.att, l)
  BY DEF SealMark
<1> HIDE DEF l
<1>4. LogInv' /\ faults' \in Nat
  BY <1>0, <1>2, <1>3, JobHolds, AppendType DEF TypeInv
<1>5. JobInv' /\ SealInv'
  BY <1>0, GotoType DEF SealMark, TypeInv, JobPcs
<1> QED
  BY <1>4, <1>5 DEF SealMark, TypeInv, MemInv, DiskInv, WorkInv, TodoInv, RestInv, workloads,
    history

\* HEAD is none, cut short or written.
LEMMA HeadType == ASSUME LogInv, NEW a, NEW h \in {"none", "torn", "ok"},
                         log' = [log EXCEPT ![a].head = h]
                  PROVE  LogInv'
<1>1. \A l \in LogRec : [l EXCEPT !.head = h] \in LogRec
  BY DEF LogRec
<1> QED
  BY <1>1 DEF LogInv

LEMMA SealHeadNewType == ASSUME TypeInv, SealHeadNew PROVE TypeInv'
<1>0. job.pc # "idle" /\ UNCHANGED mem
  BY DEF SealHeadNew, At
<1>1. LogInv' /\ faults' \in Nat
  <2>1. CASE log' = [log EXCEPT ![job.att].head = "torn"] /\ UNCHANGED faults
    BY <2>1, HeadType DEF TypeInv, RestInv
  <2>2. CASE Fault /\ UNCHANGED log
    BY <2>2 DEF TypeInv, LogInv, RestInv, Fault
  <2> QED
    BY <2>1, <2>2 DEF SealHeadNew
<1>2. JobInv' /\ SealInv'
  BY <1>0, GotoType DEF SealHeadNew, TypeInv, JobPcs
<1> QED
  BY <1>1, <1>2 DEF SealHeadNew, TypeInv, MemInv, DiskInv, WorkInv, TodoInv, RestInv,
    workloads, history

LEMMA SealHeadTextType == ASSUME TypeInv, SealHeadText PROVE TypeInv'
<1>0. job.pc # "idle"
  BY DEF SealHeadText, At
<1>1. LogInv'
  <2>1. PICK h \in {"torn", "ok"} : log' = [log EXCEPT ![job.att].head = h]
    BY DEF SealHeadText
  <2> QED
    BY <2>1, HeadType DEF TypeInv
<1>2. faults' \in Nat /\ seals' \in Nat
  BY DEF SealHeadText, TypeInv, RestInv, Fault
<1>3. /\ MemInv' /\ JobInv' /\ SealInv'
      /\ shown' \in [Attempts -> Outcomes \cup {"none"}]
  <2>1. CASE Apply
    BY <1>0, <2>1, ApplyType DEF TypeInv
  <2>2. CASE Goto("restore") /\ UNCHANGED <<mem, shown>>
    BY <1>0, <2>2, GotoType DEF TypeInv, MemInv, RestInv, JobPcs
  <2> QED
    BY <2>1, <2>2 DEF SealHeadText
<1> QED
  BY <1>1, <1>2, <1>3 DEF SealHeadText, TypeInv, DiskInv, WorkInv, TodoInv, RestInv, workloads

--------------------------------------------------------------------------------
(* start and the reaper *)

LEMMA StartType == ASSUME TypeInv, NEW a \in Attempts, Start(a) PROVE TypeInv'
<1>1. /\ mem[TaskOf[a]] \in TaskRec /\ mem[TaskOf[a]].att = a
      /\ mem[TaskOf[a]].st \in States
  BY HeldType DEF Start, States, Revalidated, SlotFree, Materialise
<1>2. JobInv' /\ SealInv'
  BY <1>1, BeginType DEF Start, JobPcs, Verbs, Revalidated, SlotFree, Materialise
<1>3. dir' \subseteq Attempts
  BY DEF Start, TypeInv, RestInv, Revalidated, SlotFree, Materialise
<1> QED
  BY <1>2, <1>3 DEF Start, TypeInv, MemInv, DiskInv, LogInv, WorkInv, TodoInv, RestInv,
    workloads, process, history, Revalidated, SlotFree, Materialise

LEMMA LaunchIntentType == ASSUME TypeInv, LaunchIntent PROVE TypeInv'
<1>0. job.pc # "idle" /\ up = "up" /\ UNCHANGED mem
  BY DEF LaunchIntent, At, Discard
<1> DEFINE r == [Record(job.new) EXCEPT !.st = "Launching"]
<1>1. r \in TaskRec /\ r.st = "Launching" /\ r.att = job.att
  <2> DEFINE q == Record(job.new)
  <2>1. q \in TaskRec /\ q.att = job.att
    BY <1>0, JobHolds, RecordType
  <2> HIDE DEF q
  <2>2. /\ [q EXCEPT !.st = "Launching"] \in TaskRec
        /\ [q EXCEPT !.st = "Launching"].st = "Launching"
        /\ [q EXCEPT !.st = "Launching"].att = q.att
    BY <2>1 DEF TaskRec
  <2> QED
    BY <2>1, <2>2 DEF q
<1>2. JournalOk(TaskOf[job.att], r) \/ JournalErr(TaskOf[job.att], r)
  BY DEF LaunchIntent, Discard
<1> HIDE DEF r
<1>3. DiskInv' /\ faults' \in Nat /\ TodoInv'
  <2>1. Named(r) /\ TaskOf[job.att] \in Tasks /\ UNCHANGED <<todo, up>>
    BY <1>0, <1>1, JobHolds DEF Named, LaunchIntent, Discard
  <2> QED
    BY <1>0, <1>1, <1>2, <2>1, JournalType DEF TypeInv
<1>4. JobInv' /\ SealInv'
  BY <1>0, GotoType, DoneType DEF LaunchIntent, TypeInv, JobPcs, Discard
<1>5. reap' \in [Attempts -> ReapStates] /\ dir' \subseteq Attempts
  BY DEF LaunchIntent, TypeInv, WorkInv, RestInv, ReapStates, Discard
<1> QED
  BY <1>3, <1>4, <1>5 DEF LaunchIntent, TypeInv, MemInv, LogInv, WorkInv, RestInv, history, Discard

LEMMA NoThreadType == ASSUME TypeInv, NoThread PROVE TypeInv'
<1>1. reap' \in [Attempts -> ReapStates]
  BY DEF NoThread, TypeInv, WorkInv, ReapStates
<1>2. faults' \in Nat
  BY DEF NoThread, Fault, TypeInv, RestInv
<1> QED
  BY <1>1, <1>2 DEF NoThread, TypeInv, MemInv, DiskInv, JobInv, LogInv, SealInv, WorkInv, TodoInv,
    RestInv, registry, durable, history

LEMMA LaunchType == ASSUME TypeInv, NEW a \in Attempts, Launch(a) PROVE TypeInv'
<1>1. reap' \in [Attempts -> ReapStates] /\ tree' \in [Attempts -> TreeStates]
  BY DEF Launch, TypeInv, WorkInv, ReapStates, LiveReap, TreeStates
<1>2. launches' \in [Attempts -> Nat]
  BY DEF Launch, TypeInv, RestInv
<1> QED
  BY <1>1, <1>2 DEF Launch, TypeInv, MemInv, DiskInv, JobInv, LogInv, SealInv, WorkInv, TodoInv,
    RestInv, registry, durable, process

LEMMA SandboxSetUpType == ASSUME TypeInv, NEW a \in Attempts, SandboxSetUp(a) PROVE TypeInv'
<1>1. tree' \in [Attempts -> TreeStates]
  BY DEF SandboxSetUp, TypeInv, WorkInv, TreeStates
<1> QED
  BY <1>1 DEF SandboxSetUp, TypeInv, MemInv, DiskInv, JobInv, LogInv, SealInv, WorkInv, TodoInv,
    RestInv, registry, durable, process, history

\* What is left of a sandbox is nothing, or the inner tree it had.
LEMMA TreeAfterType == ASSUME NEW a PROVE TreeAfter(a) \subseteq {"none", "left"}
BY DEF TreeAfter

LEMMA LateLaunchType == ASSUME TypeInv, NEW a \in Attempts, LateLaunch(a) PROVE TypeInv'
<1>1. reap' \in [Attempts -> ReapStates] /\ tree' \in [Attempts -> TreeStates]
  BY DEF LateLaunch, TypeInv, WorkInv, ReapStates, LiveReap, TreeStates
<1>2. launches' \in [Attempts -> Nat]
  BY DEF LateLaunch, TypeInv, RestInv
<1> QED
  BY <1>1, <1>2 DEF LateLaunch, TypeInv, MemInv, DiskInv, JobInv, LogInv, SealInv, WorkInv,
    TodoInv, RestInv, registry, durable, process

LEMMA DropLateType == ASSUME TypeInv, NEW a \in Attempts, DropLate(a) PROVE TypeInv'
<1>1. reap' \in [Attempts -> ReapStates] /\ tree' \in [Attempts -> TreeStates]
  BY TreeAfterType DEF DropLate, TypeInv, WorkInv, ReapStates, TreeStates
<1> QED
  BY <1>1 DEF DropLate, TypeInv, MemInv, DiskInv, JobInv, LogInv, SealInv, WorkInv, TodoInv,
    RestInv, registry, durable, process, history

LEMMA WorkloadEndsType == ASSUME TypeInv, NEW a \in Attempts, NEW e \in Exits, WorkloadEnds(a, e)
                          PROVE  TypeInv'
<1>1. reap' \in [Attempts -> ReapStates] /\ tree' \in [Attempts -> TreeStates]
  BY TreeAfterType DEF WorkloadEnds, TypeInv, WorkInv, ReapStates, TreeStates
<1> QED
  BY <1>1 DEF WorkloadEnds, TypeInv, MemInv, DiskInv, JobInv, LogInv, SealInv, WorkInv, TodoInv,
    RestInv, registry, durable, process, history

LEMMA SpawnReportType == ASSUME TypeInv, SpawnReport PROVE TypeInv'
<1>0. job.pc # "idle" /\ up = "up" /\ UNCHANGED <<mem, todo, up>>
  BY DEF SpawnReport, At, Discard
<1> DEFINE r == job.new
           run == [r EXCEPT !.st = "Running", !.run = TRUE]
<1>1. run \in TaskRec /\ run.att = job.att /\ run.st \in States
  <2>1. r \in TaskRec /\ r.att = job.att /\ "Running" \in States
    BY <1>0, JobHolds DEF States, LiveStates
  <2> QED
    BY <2>1, ZenonT(60) DEF TaskRec
<1>2. DiskInv' /\ faults' \in Nat /\ TodoInv'
  <2>1. CASE UNCHANGED <<disk, faults>>
    BY <1>0, <2>1 DEF TypeInv, DiskInv, RestInv, TodoInv
  <2>2. CASE JournalOk(TaskOf[job.att], Record(r)) \/ JournalErr(TaskOf[job.att], Record(r))
    BY <1>0, <2>2, JobHolds, JournalType DEF TypeInv
  <2> QED
    BY <2>1, <2>2 DEF SpawnReport, Discard
<1>3. JobInv' /\ SealInv'
  <2>1. CASE Begin("running", "start", job.att, run)
    <3> HIDE DEF run
    <3> QED
      BY <1>0, <1>1, <2>1, JobHolds, BeginType DEF JobPcs, Verbs
  <2>2. CASE Begin("record", "start", job.att, SpawnFailed(r))
    BY <1>0, <2>2, JobHolds, SpawnFailedType, BeginType DEF JobPcs, Verbs
  <2>3. CASE Done
    BY <2>3, DoneType
  <2> QED
    BY <2>1, <2>2, <2>3 DEF SpawnReport, Discard
<1>4. /\ reap' \in [Attempts -> ReapStates]
      /\ dir' \subseteq Attempts /\ stop' \subseteq Attempts
  BY <1>0, JobHolds DEF SpawnReport, TypeInv, WorkInv, RestInv, ReapStates, LiveReap, Discard
<1> QED
  BY <1>0, <1>2, <1>3, <1>4 DEF SpawnReport, TypeInv, MemInv, LogInv, WorkInv, RestInv, history,
    Discard

LEMMA RecordRunningType == ASSUME TypeInv, RecordRunning PROVE TypeInv'
<1>0. job.pc # "idle" /\ up = "up" /\ UNCHANGED mem
  BY DEF RecordRunning, At
<1>1. DiskInv' /\ faults' \in Nat /\ TodoInv'
  BY <1>0, JobHolds, JournalType DEF RecordRunning, TypeInv
<1>2. JobInv' /\ SealInv'
  <2>1. CASE Goto("launched")
    BY <1>0, <2>1, GotoType DEF TypeInv, JobPcs
  <2>2. CASE Begin("ended", "start", job.att, SpawnFailed(job.new))
    BY <1>0, <2>2, JobHolds, SpawnFailedType, BeginType DEF JobPcs, Verbs
  <2> QED
    BY <2>1, <2>2 DEF RecordRunning
<1>3. stop' \subseteq Attempts
  BY <1>0, JobHolds DEF RecordRunning, TypeInv, WorkInv
<1> QED
  BY <1>1, <1>2, <1>3 DEF RecordRunning, TypeInv, MemInv, LogInv, WorkInv, RestInv, history

LEMMA RecordLaunchedType == ASSUME TypeInv, RecordLaunched PROVE TypeInv'
<1>0. job.pc # "idle"
  BY DEF RecordLaunched, At
<1>1. LogInv' /\ faults' \in Nat
  <2>1. Recorded(log[job.att], job.new) \in LogRec
    BY <1>0, JobHolds, RecordedType DEF TypeInv, LogInv
  <2> QED
    BY <1>0, <2>1, JobHolds, AppendType DEF RecordLaunched, TypeInv
<1>2. /\ MemInv' /\ JobInv' /\ SealInv'
      /\ shown' \in [Attempts -> Outcomes \cup {"none"}]
  <2>1. CASE Apply
    BY <1>0, <2>1, ApplyType DEF TypeInv
  <2>2. CASE Begin("record", "start", job.att, SpawnFailed(job.new)) /\ UNCHANGED <<mem, shown>>
    <3>1. JobInv' /\ SealInv'
      BY <1>0, <2>2, JobHolds, SpawnFailedType, BeginType DEF JobPcs, Verbs
    <3> QED
      BY <2>2, <3>1 DEF TypeInv, MemInv, RestInv
  <2> QED
    BY <2>1, <2>2 DEF RecordLaunched
<1>3. stop' \subseteq Attempts
  BY <1>0, JobHolds DEF RecordLaunched, TypeInv, WorkInv
<1> QED
  BY <1>1, <1>2, <1>3 DEF RecordLaunched, TypeInv, DiskInv, WorkInv, TodoInv, RestInv

LEMMA FinishAttemptType == ASSUME NEW r \in TaskRec, NEW e \in Exits, NEW stopping \in BOOLEAN
                           PROVE  /\ FinishAttempt(r, e, stopping) \in TaskRec
                                  /\ FinishAttempt(r, e, stopping).att = r.att
                                  /\ FinishAttempt(r, e, stopping).st \in States
<1>1. /\ ExitOutcome(e) \in Outcomes
      /\ "Revoked" \in States /\ "Stopped" \in States /\ "Exited" \in States
      /\ r.revReq \in Ops \cup {None} /\ r.stopReq \in Ops \cup {None}
  BY DEF ExitOutcome, Outcomes, States, Ended, TaskRec
<1> DEFINE o == ExitOutcome(e)
           rv == r.revReq
           sp == r.stopReq
<1>2. /\ o \in Outcomes /\ rv \in Ops \cup {None} /\ sp \in Ops \cup {None}
      /\ "Revoked" \in States /\ "Stopped" \in States
  BY <1>1
<1> HIDE DEF o, rv, sp
<1>3. \A s \in States, op \in Ops \cup {None} :
        /\ StoppedBy(r, s, o, op) \in TaskRec /\ StoppedBy(r, s, o, op).att = r.att
        /\ StoppedBy(r, s, o, op).st = s
        /\ RevokedBy(r, s, o, op) \in TaskRec /\ RevokedBy(r, s, o, op).att = r.att
        /\ RevokedBy(r, s, o, op).st = s
  BY <1>2, FinishedByType
<1>4. /\ RevokedBy(r, "Revoked", o, rv) \in TaskRec /\ RevokedBy(r, "Revoked", o, rv).att = r.att
      /\ RevokedBy(r, "Revoked", o, rv).st = "Revoked"
  BY <1>2, <1>3
<1>5. /\ StoppedBy(r, "Stopped", o, sp) \in TaskRec /\ StoppedBy(r, "Stopped", o, sp).att = r.att
      /\ StoppedBy(r, "Stopped", o, sp).st = "Stopped"
  BY <1>2, <1>3
<1>6. /\ Finish(r, "Exited", o) \in TaskRec /\ Finish(r, "Exited", o).att = r.att
      /\ Finish(r, "Exited", o).st = "Exited"
  BY <1>1, <1>2, FinishType
<1>7. \/ FinishAttempt(r, e, stopping) = RevokedBy(r, "Revoked", o, rv)
      \/ FinishAttempt(r, e, stopping) = StoppedBy(r, "Stopped", o, sp)
      \/ FinishAttempt(r, e, stopping) = Finish(r, "Exited", o)
  BY DEF FinishAttempt, RevokedBy, StoppedBy, o, rv, sp
<1> QED
  BY <1>1, <1>4, <1>5, <1>6, <1>7

LEMMA RecordExitType == ASSUME TypeInv, NEW a \in Attempts, RecordExit(a) PROVE TypeInv'
<1> DEFINE r == mem[TaskOf[a]]
           new == FinishAttempt(r, reap[a], a \in stop)
<1>1. JobInv' /\ SealInv'
  <2>1. CASE Holds(a) /\ Begin("record", "exit", a, new)
    <3>1. r \in TaskRec /\ r.att = a /\ reap[a] \in Exits /\ (a \in stop) \in BOOLEAN
      BY <2>1, HeldType DEF RecordExit
    <3>2. new \in TaskRec /\ new.att = a /\ new.st \in States
      BY <3>1, FinishAttemptType
    <3> HIDE DEF new
    <3> QED
      BY <2>1, <3>2, BeginType DEF JobPcs, Verbs
  <2>2. CASE UNCHANGED job
    BY <2>2 DEF RecordExit, TypeInv, JobInv, SealInv
  <2> QED
    BY <2>1, <2>2 DEF RecordExit
<1>2. reap' \in [Attempts -> ReapStates]
  BY DEF RecordExit, TypeInv, WorkInv, ReapStates
<1> QED
  BY <1>1, <1>2 DEF RecordExit, TypeInv, MemInv, DiskInv, LogInv, WorkInv, TodoInv, RestInv,
    durable, process, history

LEMMA RecordEndType == ASSUME TypeInv, RecordEnd PROVE TypeInv'
<1>0. job.pc # "idle" /\ up = "up" /\ UNCHANGED mem
  BY DEF RecordEnd, At
<1>1. DiskInv' /\ faults' \in Nat /\ TodoInv'
  BY <1>0, JobHolds, JournalType DEF RecordEnd, TypeInv
<1>2. JobInv' /\ SealInv'
  BY <1>0, GotoType DEF RecordEnd, TypeInv, JobPcs
<1> QED
  BY <1>1, <1>2 DEF RecordEnd, TypeInv, MemInv, LogInv, WorkInv, RestInv, workloads, history

LEMMA RecordEndedType == ASSUME TypeInv, RecordEnded PROVE TypeInv'
<1>0. job.pc # "idle"
  BY DEF RecordEnded, At
<1>1. LogInv' /\ faults' \in Nat
  <2>1. Recorded(log[job.att], job.new) \in LogRec
    BY <1>0, JobHolds, RecordedType DEF TypeInv, LogInv
  <2> QED
    BY <1>0, <2>1, JobHolds, AppendType DEF RecordEnded, TypeInv
<1>2. /\ MemInv' /\ JobInv' /\ SealInv'
      /\ shown' \in [Attempts -> Outcomes \cup {"none"}]
  BY <1>0, ApplyType DEF RecordEnded, TypeInv
<1>3. reap' \in [Attempts -> ReapStates]
  BY DEF RecordEnded, TypeInv, WorkInv, ReapStates
<1> QED
  BY <1>1, <1>2, <1>3 DEF RecordEnded, TypeInv, DiskInv, WorkInv, TodoInv, RestInv

--------------------------------------------------------------------------------
(* death and recovery *)

LEMMA RecoveredLogType == ASSUME NEW l \in LogRec, NEW r \in TaskRec, r.st \in States
                          PROVE  RecoveredLog(l, r) \in LogRec
<1>1. Recorded(l, r) \in LogRec
  BY RecordedType
<1>2. /\ r.out \in Outcomes \cup {"none"} /\ r.sealedBy \in Ops \cup {None}
      /\ "Sealed" \in States
  BY DEF TaskRec, States
<1>3. [l EXCEPT !.head = "ok"] \in LogRec
  BY DEF LogRec
<1>4. [l EXCEPT !.held = "Sealed", !.out = r.out, !.by = r.sealedBy, !.head = "ok"] \in LogRec
  BY <1>2 DEF LogRec
<1> QED
  BY <1>1, <1>3, <1>4 DEF RecoveredLog

LEMMA PartlyRecoveredType ==
  ASSUME NEW l \in LogRec, NEW r \in TaskRec, r.st \in States, NEW m \in PartlyRecovered(l, r)
  PROVE  m \in LogRec
<1> DEFINE cut == [l EXCEPT !.torn = FALSE]
           full == RecoveredLog(cut, r)
           appended == [full EXCEPT !.head = l.head]
<1>1. \A n \in LogRec, h \in {"none", "torn", "ok"}, b \in BOOLEAN :
        [n EXCEPT !.head = h] \in LogRec /\ [n EXCEPT !.torn = b] \in LogRec
  BY DEF LogRec
<1>2. cut \in LogRec /\ l.head \in {"none", "torn", "ok"}
  BY <1>1 DEF LogRec
<1> HIDE DEF cut
<1>3. full \in LogRec /\ Recorded(cut, r) \in LogRec
  BY <1>2, RecoveredLogType, RecordedType
<1> HIDE DEF full
<1>4. appended \in LogRec
  BY <1>1, <1>2, <1>3
<1> HIDE DEF appended
<1>5. \E b \in {l, cut, appended, Recorded(cut, r)} :
        \/ m = b \/ m = [b EXCEPT !.torn = TRUE]
        \/ m = [b EXCEPT !.head = "torn"] \/ m = [b EXCEPT !.head = "ok"]
  BY Zenon DEF PartlyRecovered, appended, full, cut
<1> QED
  BY <1>1, <1>2, <1>3, <1>4, <1>5

LEMMA CrashType == ASSUME TypeInv, Crash PROVE TypeInv'
<1>1. MemInv' /\ JobInv' /\ SealInv'
  BY NoTaskType DEF Crash, MemInv, Named, JobInv, SealInv, NoJob, Job, JobPcs, Verbs
<1>2. LogInv'
  <2>1. \A l \in LogRec : [l EXCEPT !.torn = TRUE] \in LogRec
    BY DEF LogRec
  <2>2. CASE UNCHANGED log \/ log' = [log EXCEPT ![job.att].torn = TRUE]
    BY <2>1, <2>2 DEF TypeInv, LogInv
  <2>3. CASE job.pc = "recoverLog" /\ \E m \in PartlyRecovered(log[job.att], job.new) :
               log' = [log EXCEPT ![job.att] = m]
    <3>1. log[job.att] \in LogRec /\ job.new \in TaskRec /\ job.new.st \in States
      BY <2>3, JobHolds DEF TypeInv, LogInv
    <3> QED
      BY <2>3, <3>1, PartlyRecoveredType DEF TypeInv, LogInv
  <2> QED
    BY <2>2, <2>3 DEF Crash
<1>3. WorkInv' /\ TodoInv'
  BY DEF Crash, WorkInv, TodoInv, ReapStates
<1> QED
  BY <1>1, <1>2, <1>3 DEF Crash, TypeInv, DiskInv, RestInv, history

LEMMA RestartType == ASSUME TypeInv, Restart PROVE TypeInv'
BY DEF Restart, TypeInv, MemInv, DiskInv, JobInv, LogInv, SealInv, WorkInv, TodoInv, RestInv,
  Refusals, registry, workloads, durable, history

LEMMA RecoveredType == ASSUME NEW r \in TaskRec, r.st # "absent"
                       PROVE  /\ Recovered(r) \in TaskRec /\ Recovered(r).att = r.att
                              /\ Recovered(r).st \in States
<1>1. "Created" \in States /\ "Exited" \in States /\ "unknown" \in Outcomes
  BY DEF States, Ended, Outcomes
<1>2. CASE r.st = "Ready"
  <2>1. /\ [r EXCEPT !.st = "Created"] \in TaskRec /\ [r EXCEPT !.st = "Created"].att = r.att
        /\ [r EXCEPT !.st = "Created"].st = "Created"
    BY <1>1 DEF TaskRec
  <2> QED
    BY <1>1, <1>2, <2>1 DEF Recovered
<1>3. CASE r.st \in {"Launching", "Running", "Paused"}
  <2>1. Recovered(r) = Finish(r, "Exited", "unknown")
    BY <1>3 DEF Recovered
  <2> QED
    BY <1>1, <2>1, FinishType
<1>4. CASE r.st \notin {"Ready", "Launching", "Running", "Paused"}
  <2>1. Recovered(r) = r
    BY <1>4 DEF Recovered
  <2>2. r.st \in States
    BY <1>4 DEF TaskRec
  <2> QED
    BY <2>1, <2>2
<1> QED
  BY <1>2, <1>3, <1>4

LEMMA RecoverRecordType == ASSUME TypeInv, NEW t \in todo, RecoverRecord(t) PROVE TypeInv'
<1> DEFINE r == Recovered(disk[t])
<1>1. t \in Tasks /\ disk[t] \in TaskRec /\ disk[t].att \in Attempts
  BY DEF TypeInv, TodoInv, DiskInv, Named
<1>2. r \in TaskRec /\ r.att = disk[t].att /\ r.st \in States
  BY <1>1, RecoveredType DEF TypeInv, TodoInv
<1>3. \/ /\ JournalOk(t, r) /\ Begin("recoverLog", "recover", r.att, r)
         /\ UNCHANGED <<mem, up, todo>>
      \/ /\ JournalErr(t, r)
         /\ up' = "down" /\ todo' = {} /\ mem' = [u \in Tasks |-> NoTask] /\ UNCHANGED job
  BY DEF RecoverRecord
<1>8. tree' \in [Attempts -> TreeStates]
  BY DEF RecoverRecord, EndSurvivor, TypeInv, WorkInv, TreeStates
<1> HIDE DEF r
<1>4. r.st # "absent" /\ Named(r)
  BY <1>1, <1>2 DEF States, LiveStates, Ended, Named
<1>5. DiskInv' /\ faults' \in Nat
  BY <1>1, <1>2, <1>3, <1>4, JournalType DEF TypeInv
<1>6. CASE Begin("recoverLog", "recover", r.att, r) /\ UNCHANGED <<mem, up, todo>>
           /\ JournalOk(t, r)
  <2>1. JobInv' /\ SealInv'
    BY <1>1, <1>2, <1>6, BeginType DEF JobPcs, Verbs
  <2>2. TodoInv'
    BY <1>1, <1>2, <1>4, <1>6, JournalType DEF TypeInv
  <2> QED
    BY <1>5, <1>6, <1>8, <2>1, <2>2 DEF RecoverRecord, TypeInv, MemInv, LogInv, WorkInv,
      RestInv, history
<1>7. CASE up' = "down" /\ todo' = {} /\ mem' = [u \in Tasks |-> NoTask] /\ UNCHANGED job
  <2>1. job.pc = "idle"
    BY DEF RecoverRecord
  <2>2. MemInv' /\ JobInv' /\ SealInv' /\ TodoInv'
    BY <1>7, <2>1, NoTaskType DEF TypeInv, MemInv, Named, JobInv, SealInv, TodoInv
  <2> QED
    BY <1>5, <1>7, <1>8, <2>2 DEF RecoverRecord, TypeInv, LogInv, WorkInv, RestInv, history
<1> QED
  BY <1>3, <1>6, <1>7

LEMMA RecoverLogType == ASSUME TypeInv, RecoverLog PROVE TypeInv'
<1>0. job.pc # "idle"
  BY DEF RecoverLog
<1> DEFINE a == job.att
           r == job.new
           l == [log[a] EXCEPT !.torn = FALSE]
<1>1. l \in LogRec
  <2>1. \A m \in LogRec : [m EXCEPT !.torn = FALSE] \in LogRec
    BY DEF LogRec
  <2> QED
    BY <1>0, <2>1, JobHolds DEF TypeInv, LogInv
<1>2. RecoveredLog(l, r) \in LogRec
  BY <1>0, <1>1, JobHolds, RecoveredLogType
<1>3. LogInv'
  <2>1. \/ UNCHANGED log \/ log' = [log EXCEPT ![a] = RecoveredLog(l, r)]
        \/ \E m \in PartlyRecovered(log[a], r) : log' = [log EXCEPT ![a] = m]
    BY DEF RecoverLog
  <2>2. \A m \in PartlyRecovered(log[a], r) : m \in LogRec
    BY <1>0, JobHolds, PartlyRecoveredType DEF TypeInv, LogInv
  <2> HIDE DEF l
  <2> QED
    BY <1>2, <2>1, <2>2 DEF TypeInv, LogInv
<1>4. MemInv' /\ shown' \in [Attempts -> Outcomes \cup {"none"}]
  <2>1. CASE UNCHANGED <<mem, shown>>
    BY <2>1 DEF TypeInv, MemInv, RestInv
  <2>2. CASE /\ mem' = [mem EXCEPT ![TaskOf[a]] = r]
             /\ shown' = [shown EXCEPT ![a] = IF @ = "none" THEN r.out ELSE @]
    <3>1. /\ TaskOf[a] \in Tasks /\ r \in TaskRec /\ Named(r) /\ r.st # "Launching"
          /\ r.out \in Outcomes \cup {"none"}
      BY <1>0, JobHolds DEF Named, TaskRec, States, LiveStates, Ended
    <3> QED
      BY <2>2, <3>1 DEF TypeInv, MemInv, RestInv
  <2>3. CASE mem' = [u \in Tasks |-> NoTask] /\ UNCHANGED shown
    BY <2>3, NoTaskType DEF TypeInv, MemInv, Named, RestInv
  <2> QED
    BY <2>1, <2>2, <2>3 DEF RecoverLog
<1>5. JobInv' /\ SealInv'
  BY DoneType DEF RecoverLog
<1>6. /\ TodoInv' /\ up' \in {"up", "down", "recovering"} \cup Refusals
      /\ faults' \in Nat
  BY DEF RecoverLog, Fault, TypeInv, TodoInv, RestInv, Refusals
<1> QED
  BY <1>3, <1>4, <1>5, <1>6 DEF RecoverLog, TypeInv, DiskInv, WorkInv, RestInv, workloads

LEMMA ServeType == ASSUME TypeInv, Serve PROVE TypeInv'
<1>1. seals' \in Nat
  <2>1. \A t \in Tasks : mem[t].order \in Nat
    BY DEF TypeInv, MemInv, TaskRec
  <2> QED
    BY <2>1 DEF Serve
<1> QED
  BY <1>1 DEF Serve, TypeInv, MemInv, DiskInv, JobInv, LogInv, SealInv, WorkInv, TodoInv,
    RestInv, workloads, durable, history

--------------------------------------------------------------------------------
(* Type correctness *)

LEMMA StepType == ASSUME TypeInv, [Next]_vars PROVE TypeInv'
<1>1. CASE Request
  BY <1>1, CreateNewType, CreateEvictType, CreateReplaceType, PauseType, ResumeType, StartType,
    AdmitType, StopReadyType, StopLiveType, StopReplayType, RevokeReadyType, RevokeLiveType,
    SealType DEF Request
<1>2. CASE JobStep
  BY <1>2, CreateWriteType, CommitJournalType, CommitVersionType, CommitEvidenceType,
    RestoreType, UndoType, SealOpenType, SealMarkType, SealHeadNewType, SealHeadTextType,
    LaunchIntentType, NoThreadType, SpawnReportType, RecordRunningType, RecordLaunchedType, RecordEndType,
    RecordEndedType DEF JobStep
<1>3. CASE Answer
  BY <1>3, FinishStopType, FinishRevokeType DEF Answer
<1>4. CASE Crash
  BY <1>4, CrashType
<1>5. CASE Recovery
  BY <1>5, RestartType, RecoverRecordType, RecoverLogType, ServeType DEF Recovery
<1>6. CASE \E a \in Attempts : Reaper(a)
  BY <1>6, LaunchType, SandboxSetUpType, LateLaunchType, DropLateType, RecordExitType,
    WorkloadEndsType DEF Reaper
<1>7. CASE UNCHANGED vars
  BY <1>7 DEF vars, registry, workloads, durable, process, history, TypeInv, MemInv, DiskInv,
    JobInv, LogInv, SealInv, WorkInv, TodoInv, RestInv
<1> QED
  BY <1>1, <1>2, <1>3, <1>4, <1>5, <1>6, <1>7 DEF Next

LEMMA TypeInvariant == Spec => []TypeInv
BY InitType, StepType, PTL DEF Spec

\* The registry, its durable state and its reapers keep their shape, and a launch intent is
\* never a state the registry serves (TypeOK), whatever fails and wherever the node dies.
THEOREM TypeCorrect == Spec => []TypeOK
<1>1. TypeInv => TypeOK
  BY DEF TypeInv, MemInv, DiskInv, JobInv, LogInv, WorkInv, TodoInv, RestInv, TypeOK
<1> QED
  BY <1>1, TypeInvariant, PTL

--------------------------------------------------------------------------------
(* Where a step leaves the handler *)

LEMMA GotoPc == ASSUME TypeInv, NEW pc, Goto(pc)
                PROVE  /\ job'.pc = pc /\ job'.verb = job.verb /\ job'.att = job.att
                       /\ job'.new = job.new
BY DEF Goto, TypeInv, JobInv, Job

LEMMA BeginPc == ASSUME NEW pc, NEW verb, NEW a, NEW r, Begin(pc, verb, a, r)
                 PROVE  /\ job'.pc = pc /\ job'.verb = verb /\ job'.att = a /\ job'.new = r
BY DEF Begin

LEMMA RefusePc == ASSUME TypeInv, Refuse
                  PROVE  job'.pc \in {"idle", "undo"} /\ (job'.pc = "undo" => job'.verb \in {"pause", "resume"})
<1>1. CASE Goto("undo") /\ job.verb \in {"pause", "resume"}
  BY <1>1, GotoPc
<1>2. CASE Done
  BY <1>2 DEF Done, NoJob
<1> QED
  BY <1>1, <1>2 DEF Refuse

--------------------------------------------------------------------------------
(* No attempt is launched twice *)

\* The workspace directory is the proof of a launch: whatever was launched, or still may
\* be, has its directory, and `materialise' refuses a second one.
LaunchInv ==
  \A a \in Attempts :
    /\ launches[a] <= 1
    /\ launches[a] = 1 => a \in dir
    /\ reap[a] \in {"launching", "late"} => launches[a] = 0 /\ a \in dir
    /\ reap[a] \in {"refused", "threadless"} => launches[a] = 0
    /\ job.pc = "intent" /\ job.att = a =>
         launches[a] = 0 /\ a \in dir /\ reap[a] \notin {"launching", "late"}

LEMMA LaunchQuiet == ASSUME LaunchInv, UNCHANGED <<launches, reap, dir>>,
                            UNCHANGED job \/ job'.pc # "intent"
                     PROVE  LaunchInv'
BY DEF LaunchInv

LEMMA LaunchRequest == ASSUME TypeInv, LaunchInv, Request PROVE LaunchInv'
<1>1. CASE \E a \in Attempts : Start(a)
  <2>1. PICK a \in Attempts : Start(a)
    BY <1>1
  <2>2. /\ a \notin dir /\ dir' = dir \cup {a} /\ UNCHANGED <<launches, reap>>
        /\ job'.pc = "intent" /\ job'.att = a
    BY <2>1 DEF Start, Begin, workloads, history, Revalidated, SlotFree, Materialise
  <2>3. launches[a] \in Nat /\ launches[a] <= 1
    BY DEF TypeInv, RestInv, LaunchInv
  <2>4. launches[a] = 0 /\ reap[a] \notin {"launching", "late"}
    BY <2>2, <2>3 DEF LaunchInv
  <2> QED
    BY <2>2, <2>4 DEF LaunchInv
<1>2. CASE \E a \in Attempts :
             \/ CreateNew(a) \/ CreateEvict(a) \/ CreateReplace(a) \/ Pause(a) \/ Resume(a)
             \/ \E v \in Versions : Admit(a, v)
  <2>1. UNCHANGED <<launches, reap, dir>>
    BY <1>2 DEF CreateNew, CreateEvict, CreateReplace, Pause, Resume, Admit, workloads, durable,
      history, RetireAttempt, Verified
  <2>2. UNCHANGED job \/ job'.pc = "journal"
    <3>1. ASSUME NEW a \in Attempts, CreateEvict(a) PROVE UNCHANGED job \/ job'.pc = "journal"
      BY <3>1 DEF CreateEvict, Begin
    <3>2. ASSUME NEW a \in Attempts,
                 CreateNew(a) \/ CreateReplace(a) \/ Pause(a) \/ \E v \in Versions : Admit(a, v)
          PROVE  job'.pc = "journal"
      BY <3>2, BeginPc DEF CreateNew, CreateReplace, Pause, Admit, RetireAttempt, Verified
    <3>3. ASSUME NEW a \in Attempts, Resume(a) PROVE UNCHANGED job \/ job'.pc = "journal"
      BY <3>3 DEF Resume, Begin
    <3> QED
      BY <1>2, <3>1, <3>2, <3>3
  <2> QED
    BY <2>1, <2>2, LaunchQuiet
<1>3. CASE \E a \in Attempts, op \in Ops :
             \/ StopReady(op, a) \/ StopLive(op, a) \/ StopReplay(op, a)
             \/ RevokeReady(op, a) \/ RevokeLive(op, a) \/ Seal(op, a)
  BY <1>3, LaunchQuiet DEF StopReady, StopLive, StopReplay, RevokeReady, RevokeLive, Seal, Begin,
    registry, workloads, durable, history, RevokeLease
<1> QED
  BY <1>1, <1>2, <1>3 DEF Request

LEMMA LaunchJobStep == ASSUME TypeInv, LaunchInv, JobStep PROVE LaunchInv'
<1>1. CASE CreateWrite
  BY <1>1, LaunchQuiet DEF CreateWrite, Apply, Done, NoJob, workloads
<1>2. CASE CommitJournal
  <2>1. job'.pc # "intent"
    BY <1>2, GotoPc, RefusePc DEF CommitJournal
  <2> QED
    BY <1>2, <2>1, LaunchQuiet DEF CommitJournal, workloads, history
<1>3. CASE CommitVersion
  BY <1>3, LaunchQuiet, GotoPc DEF CommitVersion, workloads, history
<1>4. CASE CommitEvidence
  BY <1>4, LaunchQuiet, GotoPc DEF CommitEvidence, Apply, Done, NoJob, workloads
<1>5. CASE Restore
  <2>1. job'.pc # "intent"
    BY <1>5, RefusePc DEF Restore
  <2> QED
    BY <1>5, <2>1, LaunchQuiet DEF Restore, workloads, history
<1>6. CASE Undo
  BY <1>6, LaunchQuiet DEF Undo, Done, NoJob, durable, history
<1>7. CASE SealOpen
  BY <1>7, LaunchQuiet, GotoPc DEF SealOpen, Apply, Done, NoJob, workloads
<1>8. CASE SealMark \/ SealHeadNew
  BY <1>8, LaunchQuiet, GotoPc DEF SealMark, SealHeadNew, workloads, history
<1>9. CASE SealHeadText
  BY <1>9, LaunchQuiet, GotoPc DEF SealHeadText, Apply, Done, NoJob, workloads
<1>10. CASE LaunchIntent
  <2>0. job.pc = "intent" /\ job.att \in Attempts /\ UNCHANGED launches
    BY <1>10 DEF LaunchIntent, At, TypeInv, JobInv, history, Discard
  <2>1. CASE reap' = [reap EXCEPT ![job.att] = "launching"] /\ Goto("spawn") /\ UNCHANGED dir
    BY <2>0, <2>1, GotoPc DEF LaunchInv, TypeInv, WorkInv
  <2>2. CASE dir' = dir \ {job.att} /\ Done /\ UNCHANGED reap
    BY <2>0, <2>2 DEF LaunchInv, Done, NoJob
  <2> QED
    BY <1>10, <2>1, <2>2 DEF LaunchIntent, Discard
<1>11. CASE SpawnReport
  <2>0. job.att \in Attempts /\ UNCHANGED launches /\ job'.pc # "intent"
    BY <1>11 DEF SpawnReport, At, TypeInv, JobInv, history, Begin, Done, NoJob, Discard
  <2>1. CASE /\ reap[job.att] = "spawned" /\ reap' = [reap EXCEPT ![job.att] = "watching"]
             /\ UNCHANGED dir
    BY <2>0, <2>1 DEF LaunchInv, TypeInv, WorkInv
  <2>2. CASE /\ reap[job.att] \in {"refused", "threadless"} /\ dir' = dir \ {job.att}
             /\ \/ reap' = [reap EXCEPT ![job.att] = "done"]
                \/ reap' = [reap EXCEPT ![job.att] = IF @ = "refused" THEN "done" ELSE @]
    BY <2>0, <2>2 DEF LaunchInv, TypeInv, WorkInv
  <2>3. CASE /\ reap[job.att] \in {"ambiguous", "launching"} /\ UNCHANGED dir
             /\ reap' = [reap EXCEPT ![job.att] = IF @ = "launching" THEN "late" ELSE "done"]
    BY <2>0, <2>3 DEF LaunchInv, TypeInv, WorkInv
  <2> QED
    BY <1>11, <2>1, <2>2, <2>3 DEF SpawnReport, Discard
<1>12. CASE RecordRunning
  BY <1>12, LaunchQuiet, GotoPc DEF RecordRunning, Begin, history
<1>13. CASE RecordLaunched
  BY <1>13, LaunchQuiet DEF RecordLaunched, Apply, Begin, Done, NoJob
<1>14. CASE RecordEnd
  BY <1>14, LaunchQuiet, GotoPc DEF RecordEnd, workloads, history
<1>15. CASE RecordEnded
  <2>1. job'.pc # "intent" /\ UNCHANGED <<launches, dir>>
    BY <1>15 DEF RecordEnded, Apply, Done, NoJob
  <2>2. reap' = reap \/ reap' = [reap EXCEPT ![job.att] = "done"]
    BY <1>15 DEF RecordEnded
  <2> QED
    BY <2>1, <2>2 DEF LaunchInv, TypeInv, WorkInv
<1>16. CASE NoThread
  BY <1>16 DEF NoThread, LaunchInv, TypeInv, WorkInv, registry, durable, history
<1> QED
  BY <1>1, <1>2, <1>3, <1>4, <1>5, <1>6, <1>7, <1>8, <1>9, <1>10, <1>11, <1>12, <1>13, <1>14,
    <1>15, <1>16 DEF JobStep

LEMMA LaunchReaper == ASSUME TypeInv, LaunchInv, NEW a \in Attempts, Reaper(a) PROVE LaunchInv'
<1>0. launches \in [Attempts -> Nat] /\ reap \in [Attempts -> ReapStates]
  BY DEF TypeInv, RestInv, WorkInv
<1>1. CASE Launch(a) \/ LateLaunch(a)
  <2>1. UNCHANGED <<job, dir>> /\ reap[a] \in {"launching", "late"}
    BY <1>1 DEF Launch, LateLaunch, registry, durable
  <2>2. launches[a] = 0 /\ a \in dir /\ ~(job.pc = "intent" /\ job.att = a)
    BY <2>1 DEF LaunchInv
  <2>3. /\ reap'[a] \notin {"launching", "late"} /\ launches'[a] \in 0..1
        /\ reap'[a] \in {"refused", "threadless"} => launches'[a] = 0
    BY <1>0, <1>1, <2>2 DEF Launch, LateLaunch
  <2>4. \A b \in Attempts \ {a} : reap'[b] = reap[b] /\ launches'[b] = launches[b]
    BY <1>0, <1>1 DEF Launch, LateLaunch
  <2> QED
    BY <2>1, <2>2, <2>3, <2>4 DEF LaunchInv
<1>2. CASE DropLate(a) \/ \E e \in Exits : WorkloadEnds(a, e)
  BY <1>0, <1>2 DEF DropLate, WorkloadEnds, Exits, LaunchInv, registry, durable, history
<1>3. CASE RecordExit(a)
  BY <1>0, <1>3 DEF RecordExit, Exits, LaunchInv, Begin, durable, history
<1>4. CASE SandboxSetUp(a)
  BY <1>4, LaunchQuiet DEF SandboxSetUp, registry, durable, history
<1> QED
  BY <1>1, <1>2, <1>3, <1>4 DEF Reaper

LEMMA LaunchInductive == ASSUME TypeInv, LaunchInv, [Next]_vars PROVE LaunchInv'
<1>1. CASE Answer
  BY <1>1, LaunchQuiet DEF Answer, FinishStop, FinishRevoke, Begin, workloads, durable, history
<1>2. CASE Crash
  BY <1>2 DEF Crash, LaunchInv, NoJob, history
<1>3. CASE Recovery
  <2>1. CASE Restart \/ Serve
    BY <2>1, LaunchQuiet DEF Restart, Serve, registry, workloads, durable, history
  <2>2. CASE RecoverLog \/ \E t \in todo : RecoverRecord(t)
    BY <2>2, LaunchQuiet DEF RecoverLog, RecoverRecord, Begin, Done, NoJob, workloads, history
  <2> QED
    BY <1>3, <2>1, <2>2 DEF Recovery
<1>4. CASE UNCHANGED vars
  BY <1>4, LaunchQuiet DEF vars, registry, workloads, durable, history
<1> QED
  BY <1>1, <1>2, <1>3, <1>4, LaunchRequest, LaunchJobStep, LaunchReaper DEF Next

\* No attempt's workload is started twice (LaunchedOnce): not by a second start, not after a
\* refused, ambiguous or timed-out spawn, not after any crash, replacement or eviction.
THEOREM LaunchesAtMostOnce == Spec => []LaunchedOnce
<1>1. Init => LaunchInv
  BY DEF Init, LaunchInv, NoJob
<1>2. LaunchInv => LaunchedOnce
  BY DEF LaunchInv, LaunchedOnce
<1> QED
  BY <1>1, <1>2, TypeInvariant, LaunchInductive, PTL DEF Spec

--------------------------------------------------------------------------------
(* A replaced attempt never comes back *)

\* A task or record of t, if it names an attempt, names one of t that was never replaced.
Placed(r, t) == r.att \in Attempts => TaskOf[r.att] = t /\ r.att \notin superseded

Creating == job.pc = "journal" /\ job.verb = "create"

\* Every replaced attempt is durably retired, nothing registered, recorded or in a handler's
\* hands is one, and a create that is about to be written names an attempt that is not
\* retired, for a task whose attempt, if there is one, is.
ReplaceInv ==
  /\ superseded \subseteq retired
  /\ \A t \in Tasks : Placed(mem[t], t) /\ Placed(disk[t], t)
  /\ job.pc # "idle" => job.att \notin superseded
  /\ Creating => /\ job.att \notin retired
                 /\ LET old == mem[TaskOf[job.att]] IN old.st = "absent" \/ old.att \in retired

LEMMA NoTaskPlaced == ASSUME NEW t PROVE Placed(NoTask, t)
BY NoTaskType DEF Placed

\* A step that replaces nothing.
LEMMA ReplaceQuiet == ASSUME ReplaceInv, UNCHANGED superseded, retired \subseteq retired',
                             \A t \in Tasks : Placed(mem'[t], t) /\ Placed(disk'[t], t),
                             job'.pc # "idle" => job'.att \notin superseded,
                             ~Creating'
                      PROVE  ReplaceInv'
BY DEF ReplaceInv, Placed

\* What a handler at work, or a request's registered task, may be written as.
LEMMA JobPlaced == ASSUME TypeInv, ReplaceInv, job.pc # "idle"
                   PROVE  /\ Placed(job.new, TaskOf[job.att])
                          /\ Placed(Record(job.new), TaskOf[job.att])
                          /\ job.att \notin superseded
BY JobHolds, RecordType DEF ReplaceInv, Placed

LEMMA JournalPlaced == ASSUME TypeInv, ReplaceInv, NEW t \in Tasks, NEW r, Placed(r, t),
                              JournalOk(t, r) \/ JournalErr(t, r)
                       PROVE  \A u \in Tasks : Placed(disk'[u], u)
<1>1. disk' = disk \/ disk' = [disk EXCEPT ![t] = r]
  BY DEF JournalOk, JournalErr
<1> QED
  BY <1>1 DEF TypeInv, DiskInv, ReplaceInv

LEMMA ApplyPlaced == ASSUME TypeInv, ReplaceInv, job.pc # "idle", Apply
                     PROVE  (\A u \in Tasks : Placed(mem'[u], u)) /\ job'.pc = "idle"
BY JobPlaced DEF Apply, Done, NoJob, TypeInv, MemInv, ReplaceInv

\* A step of a running handler that leaves the disk or writes the handler's record, leaves
\* the registry or applies the handler's task, and goes on with the same attempt or ends.
LEMMA ReplaceHandler ==
  ASSUME TypeInv, ReplaceInv, job.pc # "idle", UNCHANGED <<superseded, retired>>,
         UNCHANGED disk \/ \E r : /\ r.att = job.att
                                  /\ JournalOk(TaskOf[job.att], r) \/ JournalErr(TaskOf[job.att], r),
         UNCHANGED mem \/ Apply,
         job'.pc = "idle" \/ job'.att = job.att,
         ~Creating'
  PROVE  ReplaceInv'
<1>1. \A t \in Tasks : Placed(disk'[t], t)
  <2>1. CASE UNCHANGED disk
    BY <2>1 DEF ReplaceInv
  <2>2. CASE \E r : /\ r.att = job.att
                    /\ JournalOk(TaskOf[job.att], r) \/ JournalErr(TaskOf[job.att], r)
    <3>1. PICK r : /\ r.att = job.att
                   /\ JournalOk(TaskOf[job.att], r) \/ JournalErr(TaskOf[job.att], r)
      BY <2>2
    <3>2. Placed(r, TaskOf[job.att]) /\ TaskOf[job.att] \in Tasks
      BY <3>1, JobHolds, JobPlaced DEF Placed
    <3> QED
      BY <3>1, <3>2, JournalPlaced
  <2> QED
    BY <2>1, <2>2
<1>2. \A t \in Tasks : Placed(mem'[t], t)
  <2>1. CASE UNCHANGED mem
    BY <2>1 DEF ReplaceInv
  <2>2. CASE Apply
    BY <2>2, ApplyPlaced
  <2> QED
    BY <2>1, <2>2
<1> QED
  BY <1>1, <1>2, JobPlaced, ReplaceQuiet

LEMMA ReplaceCreate == ASSUME TypeInv, ReplaceInv, NEW a \in Attempts,
                              CreateNew(a) \/ CreateEvict(a) \/ CreateReplace(a)
                       PROVE  ReplaceInv'
<1>0. a \notin retired /\ UNCHANGED superseded /\ a \notin superseded /\ TaskOf[a] \in Tasks
  BY DEF CreateNew, CreateEvict, CreateReplace, ReplaceInv, history, RetireAttempt
<1>1. CASE CreateNew(a)
  <2>1. /\ job'.pc = "journal" /\ job'.verb = "create" /\ job'.att = a
        /\ UNCHANGED <<mem, disk, retired>> /\ mem[TaskOf[a]].st = "absent"
    BY <1>1, BeginPc DEF CreateNew, durable
  <2> QED
    BY <1>0, <2>1 DEF ReplaceInv, Placed, Creating
<1>2. CASE CreateEvict(a)
  <2>1. PICK old \in Registered :
          \/ /\ JournalOk(old, NoTask)
             /\ mem' = [mem EXCEPT ![old] = NoTask]
             /\ Begin("journal", "create", a, NewTask(a))
          \/ JournalErr(old, NoTask) /\ UNCHANGED <<mem, job>>
    BY <1>2 DEF CreateEvict
  <2>2. old \in Tasks /\ UNCHANGED retired /\ mem[TaskOf[a]].st = "absent" /\ job.pc = "idle"
    BY <1>2 DEF CreateEvict, Registered, Idle
  <2>3. \A t \in Tasks : Placed(disk'[t], t)
    BY <2>1, <2>2, NoTaskPlaced, JournalPlaced
  <2>4. CASE mem' = [mem EXCEPT ![old] = NoTask] /\ Begin("journal", "create", a, NewTask(a))
    <3>1. /\ job'.pc = "journal" /\ job'.verb = "create" /\ job'.att = a
      BY <2>4, BeginPc
    <3>2. mem'[TaskOf[a]].st = "absent" /\ \A t \in Tasks : Placed(mem'[t], t)
      BY <1>0, <2>2, <2>4, NoTaskType, NoTaskPlaced DEF TypeInv, MemInv, ReplaceInv
    <3> QED
      BY <1>0, <2>2, <2>3, <3>1, <3>2 DEF ReplaceInv, Placed, Creating
  <2>5. CASE UNCHANGED <<mem, job>>
    BY <1>0, <2>2, <2>3, <2>5 DEF ReplaceInv, Placed, Creating
  <2> QED
    BY <2>1, <2>4, <2>5
<1>3. CASE CreateReplace(a)
  <2>1. /\ job'.pc = "journal" /\ job'.verb = "create" /\ job'.att = a
        /\ UNCHANGED <<mem, disk>> /\ retired' = retired \cup {mem[TaskOf[a]].att}
        /\ mem[TaskOf[a]].att # a
    BY <1>3, BeginPc DEF CreateReplace, Holds, RetireAttempt
  <2> QED
    BY <1>0, <2>1 DEF ReplaceInv, Placed, Creating
<1> QED
  BY <1>1, <1>2, <1>3

\* Every other request is about the attempt its task is registered with.
LEMMA ReplaceHeld == ASSUME ReplaceInv, NEW a \in Attempts, Holds(a) PROVE a \notin superseded
BY DEF ReplaceInv, Placed, Holds

LEMMA ReplaceRequest == ASSUME TypeInv, ReplaceInv, Request PROVE ReplaceInv'
<1>1. ASSUME NEW a \in Attempts, Holds(a), UNCHANGED <<mem, disk, retired, superseded>>,
             (job.pc = "idle" /\ UNCHANGED job)
               \/ \E pc \in JobPcs, verb \in Verbs \ {"create"} : \E r : Begin(pc, verb, a, r)
      PROVE  ReplaceInv'
  <2>1. job'.pc = "idle" \/ (job'.att = a /\ job'.verb # "create")
    BY <1>1, BeginPc
  <2> QED
    BY <1>1, <2>1, ReplaceHeld DEF ReplaceInv, Placed, Creating
<1>2. ASSUME NEW a \in Attempts, NEW v \in Versions, Admit(a, v) PROVE ReplaceInv'
  BY <1>1, <1>2 DEF Admit, durable, history, JobPcs, Verbs, Verified
<1>3. ASSUME NEW a \in Attempts, Pause(a) \/ Start(a) PROVE ReplaceInv'
  BY <1>1, <1>3 DEF Pause, Start, durable, history, JobPcs, Verbs, Revalidated, SlotFree,
    Materialise
<1>4. ASSUME NEW a \in Attempts, Resume(a) PROVE ReplaceInv'
  BY <1>1, <1>4 DEF Resume, Idle, durable, history, JobPcs, Verbs
<1>5. ASSUME NEW a \in Attempts, NEW op \in Ops, StopReady(op, a) \/ RevokeReady(op, a)
      PROVE  ReplaceInv'
  BY <1>1, <1>5 DEF StopReady, RevokeReady, durable, history, JobPcs, Verbs, RevokeLease
<1>6. ASSUME NEW a \in Attempts, NEW op \in Ops, StopReplay(op, a) \/ Seal(op, a)
      PROVE  ReplaceInv'
  BY <1>1, <1>6 DEF StopReplay, StopAnswer, Seal, Idle, registry, durable, history, JobPcs, Verbs
<1>7. ASSUME NEW a \in Attempts, NEW op \in Ops, StopLive(op, a) \/ RevokeLive(op, a)
      PROVE  ReplaceInv'
  <2>1. /\ Holds(a) /\ job.pc = "idle" /\ UNCHANGED <<job, disk, retired, superseded>>
        /\ \E r : EndAttempt(a, r) /\ r.att = a /\ r \in TaskRec
    <3>1. mem[TaskOf[a]] \in TaskRec /\ mem[TaskOf[a]].att = a
      BY <1>7, HeldType DEF StopLive, RevokeLive, RevokeLease
    <3>2. \A r \in TaskRec : \A o \in Ops \cup {None} :
            /\ [r EXCEPT !.stopReq = o] \in TaskRec /\ [r EXCEPT !.stopReq = o].att = r.att
            /\ [r EXCEPT !.revReq = o] \in TaskRec /\ [r EXCEPT !.revReq = o].att = r.att
      BY DEF TaskRec
    <3>3. mem[TaskOf[a]].stopReq \in Ops \cup {None} /\ mem[TaskOf[a]].revReq \in Ops \cup {None}
      BY <3>1 DEF TaskRec
    <3> QED
      BY <1>7, <3>1, <3>2, <3>3, ZenonT(60) DEF StopLive, RevokeLive, Idle, durable, history,
        RevokeLease
  <2>2. PICK r : EndAttempt(a, r) /\ r.att = a /\ r \in TaskRec
    BY <2>1
  <2>3. Placed([r EXCEPT !.st = "Running"], TaskOf[a])
    BY <2>1, <2>2, ReplaceHeld DEF Placed, TaskRec
  <2>4. \A t \in Tasks : Placed(mem'[t], t)
    BY <2>2, <2>3 DEF EndAttempt, TypeInv, MemInv, ReplaceInv
  <2> QED
    BY <2>1, <2>4, ReplaceQuiet DEF ReplaceInv, Creating
<1> QED
  BY <1>2, <1>3, <1>4, <1>5, <1>6, <1>7, ReplaceCreate DEF Request

LEMMA ReplaceCreateWrite == ASSUME TypeInv, ReplaceInv, CreateWrite PROVE ReplaceInv'
<1> DEFINE a == job.att
           t == TaskOf[a]
           old == mem[t]
<1>0. /\ Creating /\ job.pc # "idle" /\ UNCHANGED retired /\ a \in Attempts /\ t \in Tasks
      /\ a \notin retired /\ job.new.att = a /\ Record(job.new).att = a
      /\ mem \in [Tasks -> TaskRec] /\ disk \in [Tasks -> TaskRec]
  BY JobHolds, RecordType DEF CreateWrite, At, Creating, ReplaceInv, TypeInv, MemInv, DiskInv
<1>1. CASE JournalErr(t, Record(job.new)) /\ Done /\ UNCHANGED <<mem, superseded>>
  <2>1. \E r : r.att = a /\ (JournalOk(t, r) \/ JournalErr(t, r))
    BY <1>0, <1>1
  <2>2. job'.pc = "idle"
    BY <1>1 DEF Done, NoJob
  <2> QED
    BY <1>0, <1>1, <2>1, <2>2, ReplaceHandler DEF Creating
<1>2. CASE /\ JournalOk(t, Record(job.new)) /\ Apply
           /\ \/ UNCHANGED superseded
              \/ old.st # "absent" /\ superseded' = superseded \cup {old.att}
  <2>1. job'.pc = "idle" /\ mem' = [mem EXCEPT ![t] = job.new]
        /\ disk' = [disk EXCEPT ![t] = Record(job.new)]
    BY <1>2 DEF Apply, Done, NoJob, JournalOk
  <2>2. superseded' \subseteq retired
    BY <1>0, <1>2 DEF ReplaceInv
  <2>3. ASSUME NEW u \in Tasks PROVE Placed(mem[u], u)' /\ Placed(disk[u], u)'
    <3>1. CASE u = t
      BY <1>0, <2>1, <2>2, <3>1 DEF Placed
    <3>2. CASE u # t
      <4>1. mem'[u] = mem[u] /\ disk'[u] = disk[u]
        BY <1>0, <2>1, <3>2
      <4>2. old.att \in Attempts => TaskOf[old.att] = t
        BY <1>0 DEF ReplaceInv, Placed
      <4> QED
        BY <1>2, <3>2, <4>1, <4>2 DEF ReplaceInv, Placed
    <3> QED
      BY <3>1, <3>2
  <2> QED
    BY <1>0, <2>1, <2>2, <2>3 DEF ReplaceInv, Creating
<1> QED
  BY <1>1, <1>2 DEF CreateWrite

LEMMA ReplaceJobStep == ASSUME TypeInv, ReplaceInv, JobStep PROVE ReplaceInv'
<1> DEFINE Writes(r) == JournalOk(TaskOf[job.att], r) \/ JournalErr(TaskOf[job.att], r)
<1>0. ASSUME job.pc # "idle" PROVE Record(job.new).att = job.att
  BY <1>0, JobHolds, RecordType
<1>1. ASSUME job.pc # "idle", UNCHANGED <<superseded, retired>>,
             UNCHANGED disk \/ Writes(Record(job.new)), UNCHANGED mem \/ Apply,
             job'.pc = "idle" \/ (job'.att = job.att /\ job'.pc # "journal")
      PROVE  ReplaceInv'
  BY <1>0, <1>1, ReplaceHandler DEF Creating
<1>2. CASE CommitJournal
  <2>1. job'.pc = "idle" \/ (job'.att = job.att /\ job'.pc # "journal")
    BY <1>2, GotoPc DEF CommitJournal, Refuse, Done, NoJob
  <2> QED
    BY <1>1, <1>2, <2>1 DEF CommitJournal, At, history
<1>3. CASE CommitVersion
  BY <1>1, <1>3, GotoPc DEF CommitVersion, At, history
<1>4. CASE CommitEvidence
  BY <1>1, <1>4, GotoPc DEF CommitEvidence, At, Apply, Done, NoJob
<1>5. CASE Restore
  <2>0. job.pc # "idle" /\ UNCHANGED <<mem, superseded, retired>>
    BY <1>5 DEF Restore, At, history
  <2>1. job'.pc = "idle" \/ (job'.att = job.att /\ job'.pc # "journal")
    BY <1>5, GotoPc DEF Restore, Refuse, Done, NoJob
  <2>2. Placed(Record(mem[TaskOf[job.att]]), TaskOf[job.att])
    BY <2>0, JobHolds, RecordType DEF TypeInv, MemInv, ReplaceInv, Placed
  <2>3. \A t \in Tasks : Placed(disk'[t], t)
    BY <1>5, <2>0, <2>2, JobHolds, JournalPlaced DEF Restore
  <2> QED
    BY <2>0, <2>1, <2>3, ReplaceQuiet, JobPlaced DEF ReplaceInv, Creating
<1>6. CASE Undo
  BY <1>1, <1>6 DEF Undo, At, Done, NoJob, durable, history
<1>7. CASE SealOpen
  BY <1>1, <1>7, GotoPc DEF SealOpen, At, Apply, Done, NoJob
<1>8. CASE SealMark
  BY <1>1, <1>8, GotoPc DEF SealMark, At, history
<1>9. CASE SealHeadNew
  BY <1>1, <1>9, GotoPc DEF SealHeadNew, At, history
<1>10. CASE SealHeadText
  BY <1>1, <1>10, GotoPc DEF SealHeadText, At, Apply, Done, NoJob
<1>11. CASE LaunchIntent
  <2>0. job.pc # "idle" /\ UNCHANGED <<mem, superseded, retired>>
    BY <1>11 DEF LaunchIntent, At, history, Discard
  <2>1. job'.pc = "idle" \/ (job'.att = job.att /\ job'.pc # "journal")
    BY <1>11, GotoPc DEF LaunchIntent, Done, NoJob, Discard
  <2>2. \E r : r.att = job.att /\ Writes(r)
    <3> DEFINE q == Record(job.new)
    <3>1. q \in TaskRec /\ q.att = job.att
      BY <2>0, JobHolds, RecordType
    <3>2. Writes([q EXCEPT !.st = "Launching"])
      BY <1>11 DEF LaunchIntent, Discard
    <3> HIDE DEF q, Writes
    <3>3. [q EXCEPT !.st = "Launching"].att = job.att
      BY <3>1 DEF TaskRec
    <3> QED
      BY <3>2, <3>3
  <2> QED
    BY <2>0, <2>1, <2>2, ReplaceHandler DEF Creating
<1>12. CASE SpawnReport
  <2>1. job'.pc = "idle" \/ (job'.att = job.att /\ job'.pc # "journal")
    BY <1>12, BeginPc DEF SpawnReport, Done, NoJob, Discard
  <2> QED
    BY <1>1, <1>12, <2>1 DEF SpawnReport, At, history, Discard
<1>13. CASE RecordRunning
  BY <1>1, <1>13, GotoPc, BeginPc DEF RecordRunning, At, history
<1>14. CASE RecordLaunched
  BY <1>1, <1>14, BeginPc DEF RecordLaunched, At, Apply, Done, NoJob
<1>15. CASE RecordEnd
  BY <1>1, <1>15, GotoPc DEF RecordEnd, At, history
<1>16. CASE RecordEnded
  BY <1>1, <1>16 DEF RecordEnded, At, Apply, Done, NoJob
<1>17. CASE NoThread
  BY <1>17 DEF NoThread, ReplaceInv, Placed, Creating, registry, durable, history
<1> QED
  BY <1>2, <1>3, <1>4, <1>5, <1>6, <1>7, <1>8, <1>9, <1>10, <1>11, <1>12, <1>13, <1>14, <1>15,
    <1>16, <1>17, ReplaceCreateWrite DEF JobStep

LEMMA ReplaceRecovery == ASSUME TypeInv, ReplaceInv, Crash \/ Recovery PROVE ReplaceInv'
<1>1. CASE Crash
  BY <1>1, NoTaskPlaced, ReplaceQuiet DEF Crash, ReplaceInv, NoJob, Creating, history
<1>2. CASE Restart \/ Serve
  BY <1>2 DEF Restart, Serve, ReplaceInv, Placed, Creating, registry, durable, history
<1>3. ASSUME NEW t \in todo, RecoverRecord(t) PROVE ReplaceInv'
  <2> DEFINE r == Recovered(disk[t])
  <2>1. t \in Tasks /\ r.att = disk[t].att /\ UNCHANGED <<retired, superseded>>
    BY <1>3, RecoveredType DEF TypeInv, TodoInv, DiskInv, RecoverRecord, history
  <2>2. r.att \in Attempts /\ r.att \notin superseded /\ TaskOf[r.att] = t
    BY <2>1 DEF TypeInv, TodoInv, DiskInv, Named, ReplaceInv, Placed
  <2>3. \A u \in Tasks : Placed(disk'[u], u)
    BY <1>3, <2>1, <2>2, JournalPlaced DEF RecoverRecord, Placed
  <2>4. \A u \in Tasks : Placed(mem'[u], u)
    BY <1>3, NoTaskPlaced DEF RecoverRecord, ReplaceInv
  <2>5. job'.pc = "idle" \/ (job'.att = r.att /\ job'.pc = "recoverLog")
    BY <1>3, BeginPc DEF RecoverRecord
  <2> HIDE DEF r
  <2> QED
    BY <2>1, <2>2, <2>3, <2>4, <2>5, ReplaceQuiet DEF Creating
<1>4. CASE RecoverLog
  <2>0. job.pc # "idle" /\ UNCHANGED <<disk, retired, superseded>> /\ job'.pc = "idle"
    BY <1>4 DEF RecoverLog, Done, NoJob
  <2>1. \/ UNCHANGED mem \/ mem' = [mem EXCEPT ![TaskOf[job.att]] = job.new]
        \/ mem' = [u \in Tasks |-> NoTask]
    BY <1>4 DEF RecoverLog
  <2>2. \A u \in Tasks : Placed(mem'[u], u)
    BY <2>0, <2>1, JobPlaced, NoTaskPlaced DEF TypeInv, MemInv, ReplaceInv
  <2> QED
    BY <2>0, <2>2, ReplaceQuiet DEF ReplaceInv, Creating
<1> QED
  BY <1>1, <1>2, <1>3, <1>4 DEF Recovery

LEMMA ReplaceInductive == ASSUME TypeInv, ReplaceInv, [Next]_vars PROVE ReplaceInv'
<1>1. CASE Answer
  <2>1. ASSUME NEW w \in waits, FinishStop(w) PROVE ReplaceInv'
    BY <2>1 DEF FinishStop, ReplaceInv, Placed, Creating, durable
  <2>2. ASSUME NEW w \in waits, FinishRevoke(w) PROVE ReplaceInv'
    <3>1. w.att \in Attempts /\ UNCHANGED <<mem, disk, retired, superseded>> /\ job.pc = "idle"
      BY <2>2 DEF FinishRevoke, Idle, TypeInv, RestInv, Wait, durable, history
    <3>2. UNCHANGED job \/ (Holds(w.att) /\ job'.att = w.att /\ job'.verb = "unconfirmed")
      BY <2>2, BeginPc DEF FinishRevoke
    <3> QED
      BY <3>1, <3>2, ReplaceHeld DEF ReplaceInv, Placed, Creating
  <2> QED
    BY <1>1, <2>1, <2>2 DEF Answer
<1>2. ASSUME NEW a \in Attempts, Reaper(a) PROVE ReplaceInv'
  <2>1. CASE RecordExit(a)
    <3>1. UNCHANGED <<mem, disk, retired, superseded>> /\ job.pc = "idle"
      BY <2>1 DEF RecordExit, Idle, durable, history
    <3>2. UNCHANGED job \/ (Holds(a) /\ job'.att = a /\ job'.verb = "exit")
      BY <2>1, BeginPc DEF RecordExit
    <3> QED
      BY <3>1, <3>2, ReplaceHeld DEF ReplaceInv, Placed, Creating
  <2>2. CASE ~RecordExit(a)
    BY <1>2, <2>2 DEF Reaper, Launch, SandboxSetUp, LateLaunch, DropLate, WorkloadEnds,
      ReplaceInv, Placed, Creating, registry, durable, history
  <2> QED
    BY <2>1, <2>2
<1>3. CASE UNCHANGED vars
  BY <1>3 DEF vars, registry, durable, history, ReplaceInv, Placed, Creating
<1> QED
  BY <1>1, <1>2, <1>3, ReplaceRequest, ReplaceJobStep, ReplaceRecovery DEF Next

\* An attempt that a later attempt of its task replaced is never registered again
\* (SupersededNeverReturns), also not from the disk after a restart.
THEOREM ReplacedNeverReturns == Spec => []SupersededNeverReturns
<1>1. Init => ReplaceInv
  BY NoTaskPlaced DEF Init, ReplaceInv, NoJob, Creating
<1>2. TypeInv /\ ReplaceInv => SupersededNeverReturns
  BY DEF TypeInv, RestInv, ReplaceInv, Placed, SupersededNeverReturns, Holds
<1> QED
  BY <1>1, <1>2, TypeInvariant, ReplaceInductive, PTL DEF Spec

--------------------------------------------------------------------------------
(* No signed admission takes effect twice *)

\* The version file bounds every admission that took effect; an admit under way carries a
\* version above the file, then the file's own, above all that took effect; and no other
\* handler makes a task Ready.
AdmitInv ==
  /\ \A p \in used : p[2] <= version[p[1]]
  /\ job.pc # "idle" /\ job.new.st = "Ready" =>
       \/ job.pc \in {"intent", "spawn"}
       \/ job.verb = "admit" /\ job.pc \in {"journal", "version", "evidence", "restore"}
  /\ job.pc = "version" => job.verb = "admit"
  /\ job.verb = "admit" /\ job.pc \in {"journal", "version"} =>
       job.new.ver > version[TaskOf[job.att]]
  /\ job.verb = "admit" /\ job.pc = "evidence" =>
       /\ job.new.ver = version[TaskOf[job.att]]
       /\ \A p \in used : p[1] = TaskOf[job.att] => p[2] < job.new.ver

LEMMA AdmitQuiet == ASSUME AdmitInv, UNCHANGED <<used, version>>,
                           \/ UNCHANGED job
                           \/ job'.pc = "idle"
                           \/ job'.pc \in {"intent", "spawn"} /\ job'.verb # "admit"
                           \/ job'.new.st # "Ready" /\ job'.verb # "admit" /\ job'.pc # "version"
                    PROVE  AdmitInv'
BY DEF AdmitInv

LEMMA AdmitRequest == ASSUME TypeInv, AdmitInv, Request PROVE AdmitInv'
<1>1. ASSUME NEW a \in Attempts, CreateNew(a) \/ CreateReplace(a) PROVE AdmitInv'
  BY <1>1, BeginPc, NewTaskType, AdmitQuiet DEF CreateNew, CreateReplace, durable, history,
    RetireAttempt
<1>2. ASSUME NEW a \in Attempts, CreateEvict(a) PROVE AdmitInv'
  <2>1. UNCHANGED <<used, version>>
    BY <1>2 DEF CreateEvict, history
  <2>2. UNCHANGED job \/ Begin("journal", "create", a, NewTask(a))
    BY <1>2 DEF CreateEvict
  <2> QED
    BY <2>1, <2>2, BeginPc, NewTaskType, AdmitQuiet
<1>3. ASSUME NEW a \in Attempts, Pause(a) PROVE AdmitInv'
  <2> DEFINE r == mem[TaskOf[a]]
             new == [r EXCEPT !.st = "Paused", !.pauses = @ + 1]
  <2>1. r \in TaskRec
    BY <1>3, HeldType DEF Pause
  <2>2. new.st = "Paused"
    BY <2>1 DEF TaskRec
  <2>3. Begin("journal", "pause", a, new) /\ UNCHANGED <<used, version>>
    BY <1>3 DEF Pause, durable, history
  <2> HIDE DEF new
  <2> QED
    BY <2>2, <2>3, BeginPc, AdmitQuiet
<1>4. ASSUME NEW a \in Attempts, Resume(a) PROVE AdmitInv'
  <2> DEFINE r == mem[TaskOf[a]]
             new == [r EXCEPT !.st = "Running"]
  <2>1. r \in TaskRec
    BY <1>4, HeldType DEF Resume
  <2>2. new.st = "Running"
    BY <2>1 DEF TaskRec
  <2>3. /\ UNCHANGED job \/ Begin("journal", "resume", a, new)
        /\ UNCHANGED <<used, version>>
    BY <1>4 DEF Resume, durable, history
  <2> HIDE DEF new
  <2> QED
    BY <2>2, <2>3, BeginPc, AdmitQuiet
<1>5. ASSUME NEW a \in Attempts, Start(a) PROVE AdmitInv'
  BY <1>5, BeginPc, AdmitQuiet DEF Start, history, Revalidated, SlotFree, Materialise
<1>6. ASSUME NEW a \in Attempts, NEW v \in Versions, Admit(a, v) PROVE AdmitInv'
  <2> DEFINE new == [mem[TaskOf[a]] EXCEPT !.st = "Ready", !.ver = v]
  <2>1. mem[TaskOf[a]] \in TaskRec
    BY <1>6, HeldType DEF Admit, Verified
  <2>2. new.ver = v
    BY <2>1 DEF TaskRec
  <2>3. /\ Begin("journal", "admit", a, new) /\ v > version[TaskOf[a]]
        /\ UNCHANGED <<used, version>>
    BY <1>6 DEF Admit, durable, history, Verified
  <2> HIDE DEF new
  <2>4. job'.pc = "journal" /\ job'.verb = "admit" /\ job'.att = a /\ job'.new = new
    BY <2>3, BeginPc
  <2> QED
    BY <2>2, <2>3, <2>4 DEF AdmitInv
<1>7. ASSUME NEW a \in Attempts, NEW op \in Ops, StopReady(op, a) PROVE AdmitInv'
  <2> DEFINE new == StoppedBy(mem[TaskOf[a]], "Stopped", "failed", op)
  <2>1. /\ mem[TaskOf[a]] \in TaskRec /\ "Stopped" \in States /\ "failed" \in Outcomes
        /\ op \in Ops \cup {None}
    BY <1>7, HeldType DEF StopReady, States, Ended, Outcomes
  <2>2. new.st = "Stopped"
    BY <2>1, FinishedByType
  <2>3. Begin("journal", "stop", a, new) /\ UNCHANGED <<used, version>>
    BY <1>7 DEF StopReady, StoppedBy, durable, history
  <2> HIDE DEF new
  <2> QED
    BY <2>2, <2>3, BeginPc, AdmitQuiet
<1>8. ASSUME NEW a \in Attempts, NEW op \in Ops, RevokeReady(op, a) PROVE AdmitInv'
  <2> DEFINE new == RevokedBy(mem[TaskOf[a]], "Revoked", "failed", op)
  <2>1. /\ mem[TaskOf[a]] \in TaskRec /\ "Revoked" \in States /\ "failed" \in Outcomes
        /\ op \in Ops \cup {None}
    BY <1>8, HeldType DEF RevokeReady, States, Ended, Outcomes, RevokeLease
  <2>2. new.st = "Revoked"
    BY <2>1, FinishedByType
  <2>3. Begin("journal", "revoke", a, new) /\ UNCHANGED <<used, version>>
    BY <1>8 DEF RevokeReady, RevokedBy, history, RevokeLease
  <2> HIDE DEF new
  <2> QED
    BY <2>2, <2>3, BeginPc, AdmitQuiet
<1>9. ASSUME NEW a \in Attempts, NEW op \in Ops,
             StopLive(op, a) \/ StopReplay(op, a) \/ RevokeLive(op, a)
      PROVE  AdmitInv'
  BY <1>9, AdmitQuiet DEF StopLive, StopReplay, RevokeLive, registry, durable, history, RevokeLease
<1>10. ASSUME NEW a \in Attempts, NEW op \in Ops, Seal(op, a) PROVE AdmitInv'
  <2> DEFINE r == mem[TaskOf[a]]
             new == [r EXCEPT !.st = "Sealed", !.sealedBy = op, !.order = seals]
  <2>1. r \in TaskRec
    BY <1>10, HeldType DEF Seal
  <2>2. new.st = "Sealed"
    BY <2>1 DEF TaskRec
  <2>3. Begin("journal", "seal", a, new) /\ UNCHANGED <<used, version>>
    BY <1>10 DEF Seal, durable, history
  <2> HIDE DEF new
  <2> QED
    BY <2>2, <2>3, BeginPc, AdmitQuiet
<1> QED
  BY <1>1, <1>2, <1>3, <1>4, <1>5, <1>6, <1>7, <1>8, <1>9, <1>10 DEF Request

LEMMA AdmitJobStep == ASSUME TypeInv, AdmitInv, JobStep PROVE AdmitInv'
<1>1. ASSUME UNCHANGED <<used, version>>, job.pc # "idle",
             job.verb # "admit", job.pc \notin {"intent", "spawn"},
             job'.pc = "idle" \/ \E pc \in JobPcs \ {"version"} : Goto(pc)
      PROVE  AdmitInv'
  BY <1>1, GotoPc, AdmitQuiet DEF AdmitInv
<1>2. CASE CreateWrite
  BY <1>2, AdmitQuiet DEF CreateWrite, Apply, Done, NoJob
<1>3. CASE CommitJournal
  <2>0. UNCHANGED <<used, version>> /\ job.pc = "journal"
    BY <1>3 DEF CommitJournal, At, history
  <2>1. CASE Refuse
    <3>1. CASE job.verb \in {"pause", "resume"} /\ Goto("undo")
      BY <1>1, <2>0, <3>1 DEF JobPcs
    <3>2. CASE Done
      BY <2>0, <3>2, AdmitQuiet DEF Done, NoJob
    <3> QED
      BY <2>1, <3>1, <3>2 DEF Refuse
  <2>2. CASE job.verb = "admit" /\ Goto("version")
    <3>1. /\ job'.pc = "version" /\ job'.verb = "admit" /\ job'.att = job.att
          /\ job'.new = job.new
      BY <2>2, GotoPc
    <3> QED
      BY <2>0, <2>2, <3>1 DEF AdmitInv
  <2>3. CASE job.verb # "admit" /\ \E pc \in {"seal", "evidence"} : Goto(pc)
    BY <1>1, <2>0, <2>3 DEF JobPcs
  <2> QED
    BY <1>3, <2>1, <2>2, <2>3 DEF CommitJournal
<1>4. CASE CommitVersion
  <2>0. job.pc = "version" /\ job.verb = "admit" /\ UNCHANGED used
    BY <1>4 DEF CommitVersion, At, AdmitInv, history
  <2>1. CASE UNCHANGED version /\ Goto("restore")
    <3>1. /\ job'.pc = "restore" /\ job'.verb = "admit" /\ job'.new = job.new
      BY <2>0, <2>1, GotoPc
    <3> QED
      BY <2>0, <2>1, <3>1 DEF AdmitInv
  <2>2. CASE version' = [version EXCEPT ![TaskOf[job.att]] = job.new.ver] /\ Goto("evidence")
    <3> DEFINE t == TaskOf[job.att]
    <3>1. /\ job'.pc = "evidence" /\ job'.verb = "admit" /\ job'.new = job.new
          /\ job'.att = job.att
      BY <2>0, <2>2, GotoPc
    <3>2. /\ version \in [Tasks -> Nat] /\ used \subseteq Tasks \X Nat /\ t \in Tasks
          /\ job.new.ver \in Nat /\ job.new.ver > version[t]
      BY <2>0, JobHolds, VersionType DEF TypeInv, RestInv, AdmitInv
    <3>3. version'[t] = job.new.ver /\ \A u \in Tasks : u # t => version'[u] = version[u]
      BY <2>2, <3>2
    <3>4. ASSUME NEW p \in used
          PROVE  p[2] <= version'[p[1]] /\ (p[1] = t => p[2] < job.new.ver)
      <4>1. p[1] \in Tasks /\ p[2] \in Nat /\ p[2] <= version[p[1]] /\ version[p[1]] \in Nat
        BY <3>2 DEF AdmitInv
      <4>2. CASE p[1] = t
        BY <3>2, <3>3, <4>1, <4>2
      <4>3. CASE p[1] # t
        BY <3>3, <4>1, <4>3
      <4> QED
        BY <4>2, <4>3
    <3> QED
      BY <2>0, <3>1, <3>3, <3>4 DEF AdmitInv
  <2> QED
    BY <1>4, <2>1, <2>2 DEF CommitVersion
<1>5. CASE CommitEvidence
  <2>0. job.pc = "evidence" /\ UNCHANGED version
    BY <1>5 DEF CommitEvidence, At
  <2>1. CASE Goto("restore") /\ UNCHANGED used
    BY <2>0, <2>1, GotoPc DEF AdmitInv
  <2>2. CASE /\ Apply
             /\ used' = used \cup
                  (IF job.verb = "admit" THEN {<<TaskOf[job.att], job.new.ver>>} ELSE {})
    <3>1. job'.pc = "idle"
      BY <2>2 DEF Apply, Done, NoJob
    <3>2. job.verb = "admit" => job.new.ver <= version[TaskOf[job.att]]
      BY <2>0, JobHolds, VersionType DEF AdmitInv
    <3>3. \A p \in used' : p[2] <= version[p[1]]
      BY <2>2, <3>2 DEF AdmitInv
    <3> QED
      BY <2>0, <3>1, <3>3 DEF AdmitInv
  <2> QED
    BY <1>5, <2>1, <2>2 DEF CommitEvidence
<1>6. CASE Restore
  <2>0. UNCHANGED <<used, version>> /\ job.pc = "restore" /\ Refuse
    BY <1>6 DEF Restore, At, history
  <2>1. CASE job.verb \in {"pause", "resume"} /\ Goto("undo")
    BY <1>1, <2>0, <2>1 DEF JobPcs
  <2>2. CASE Done
    BY <2>0, <2>2, AdmitQuiet DEF Done, NoJob
  <2> QED
    BY <2>0, <2>1, <2>2 DEF Refuse
<1>7. ASSUME UNCHANGED <<used, version>>,
             job.pc \in {"undo", "seal", "mark", "headNew", "headText", "running", "launched",
                        "record", "ended"},
             job'.pc = "idle" \/ \E pc \in JobPcs \ {"journal", "version", "evidence"} : Goto(pc)
      PROVE  AdmitInv'
  BY <1>7, GotoPc DEF AdmitInv
<1>8. CASE Undo
  BY <1>7, <1>8 DEF Undo, At, Done, NoJob, durable, history
<1>9. CASE SealOpen
  BY <1>7, <1>9 DEF SealOpen, At, Apply, Done, NoJob, JobPcs
<1>10. CASE SealMark \/ SealHeadNew
  BY <1>7, <1>10 DEF SealMark, SealHeadNew, At, JobPcs, history
<1>11. CASE SealHeadText
  BY <1>7, <1>11 DEF SealHeadText, At, Apply, Done, NoJob, JobPcs
<1>12. CASE LaunchIntent
  <2>1. UNCHANGED <<used, version>> /\ job.pc = "intent"
    BY <1>12 DEF LaunchIntent, At, history, Discard
  <2>2. Goto("spawn") \/ Done
    BY <1>12 DEF LaunchIntent, Discard
  <2> QED
    BY <2>1, <2>2, GotoPc DEF AdmitInv, Done, NoJob
<1>13. CASE SpawnReport
  <2> DEFINE new == [job.new EXCEPT !.st = "Running", !.run = TRUE]
             failed == SpawnFailed(job.new)
  <2>1. UNCHANGED <<used, version>> /\ job.new \in TaskRec
    BY <1>13, JobHolds DEF SpawnReport, At, history, Discard
  <2>2. new.st = "Running" /\ failed.st = "Exited"
    BY <2>1, SpawnFailedType DEF TaskRec
  <2>3. \/ Begin("running", "start", job.att, new) \/ Begin("record", "start", job.att, failed)
        \/ Done
    BY <1>13 DEF SpawnReport, Discard
  <2> HIDE DEF new, failed
  <2> QED
    BY <2>1, <2>2, <2>3, BeginPc, AdmitQuiet DEF Done, NoJob
<1>14. CASE RecordRunning \/ RecordLaunched
  <2> DEFINE failed == SpawnFailed(job.new)
  <2>1. /\ UNCHANGED <<used, version>> /\ job.new \in TaskRec
        /\ job.pc \in {"running", "launched"}
    BY <1>14, JobHolds DEF RecordRunning, RecordLaunched, At, history
  <2>2. failed.st = "Exited"
    BY <2>1, SpawnFailedType
  <2>3. \/ Goto("launched") \/ Apply
        \/ \E pc \in {"ended", "record"} : Begin(pc, "start", job.att, failed)
    BY <1>14 DEF RecordRunning, RecordLaunched
  <2> HIDE DEF failed
  <2>4. CASE Goto("launched") \/ Apply
    BY <1>7, <2>1, <2>4 DEF Apply, Done, NoJob, JobPcs
  <2>5. CASE \E pc \in {"ended", "record"} : Begin(pc, "start", job.att, failed)
    BY <2>1, <2>2, <2>5, BeginPc, AdmitQuiet
  <2> QED
    BY <2>3, <2>4, <2>5
<1>15. CASE RecordEnd
  BY <1>7, <1>15 DEF RecordEnd, At, JobPcs, history
<1>16. CASE RecordEnded
  BY <1>7, <1>16 DEF RecordEnded, At, Apply, Done, NoJob
<1>17. CASE NoThread
  BY <1>17, AdmitQuiet DEF NoThread, registry, durable, history
<1> QED
  BY <1>2, <1>3, <1>4, <1>5, <1>6, <1>8, <1>9, <1>10, <1>11, <1>12, <1>13, <1>14, <1>15, <1>16,
    <1>17 DEF JobStep

LEMMA RecoveredNotReady == ASSUME NEW r \in TaskRec PROVE Recovered(r).st # "Ready"
<1>1. CASE r.st = "Ready"
  <2>1. Recovered(r) = [r EXCEPT !.st = "Created"]
    BY <1>1 DEF Recovered
  <2> QED
    BY <2>1 DEF TaskRec
<1>2. CASE r.st \in {"Launching", "Running", "Paused"}
  <2>1. Recovered(r) = Finish(r, "Exited", "unknown") /\ "Exited" \in States /\ "unknown" \in Outcomes
    BY <1>2 DEF Recovered, States, Ended, Outcomes
  <2> QED
    BY <2>1, FinishType
<1>3. CASE r.st \notin {"Ready", "Launching", "Running", "Paused"}
  BY <1>3 DEF Recovered
<1> QED
  BY <1>1, <1>2, <1>3

LEMMA FinishAttemptEnds == ASSUME NEW r \in TaskRec, NEW e \in Exits, NEW stopping
                           PROVE  FinishAttempt(r, e, stopping).st # "Ready"
<1> DEFINE o == ExitOutcome(e)
<1>1. /\ o \in Outcomes
      /\ "Revoked" \in States /\ "Stopped" \in States /\ "Exited" \in States
      /\ r.revReq \in Ops \cup {None} /\ r.stopReq \in Ops \cup {None}
  BY DEF ExitOutcome, Outcomes, States, Ended, TaskRec
<1>2. \/ FinishAttempt(r, e, stopping) = RevokedBy(r, "Revoked", o, r.revReq)
      \/ FinishAttempt(r, e, stopping) = StoppedBy(r, "Stopped", o, r.stopReq)
      \/ FinishAttempt(r, e, stopping) = Finish(r, "Exited", o)
  BY DEF FinishAttempt, RevokedBy, StoppedBy
<1> HIDE DEF o
<1>3. RevokedBy(r, "Revoked", o, r.revReq).st = "Revoked"
  BY <1>1, FinishedByType
<1>4. StoppedBy(r, "Stopped", o, r.stopReq).st = "Stopped"
  BY <1>1, FinishedByType
<1>5. Finish(r, "Exited", o).st = "Exited"
  BY <1>1, FinishType
<1> QED
  BY <1>2, <1>3, <1>4, <1>5

LEMMA AdmitInductive == ASSUME TypeInv, AdmitInv, [Next]_vars PROVE AdmitInv'
<1>1. CASE Answer
  <2>1. ASSUME NEW w \in waits, FinishStop(w) PROVE AdmitInv'
    BY <2>1, AdmitQuiet DEF FinishStop, durable
  <2>2. ASSUME NEW w \in waits, FinishRevoke(w) PROVE AdmitInv'
    <3> DEFINE new == RevokedBy(mem[TaskOf[w.att]], "Revoked", "unknown", w.op)
    <3>1. /\ w.att \in Attempts /\ w.op \in Ops \cup {None}
          /\ "Revoked" \in States /\ "unknown" \in Outcomes
      BY DEF TypeInv, RestInv, Wait, States, Ended, Outcomes
    <3>2. mem[TaskOf[w.att]] \in TaskRec
      BY <3>1 DEF TypeInv, MemInv
    <3>3. new.st = "Revoked"
      BY <3>1, <3>2, FinishedByType
    <3>4. /\ UNCHANGED <<used, version>>
          /\ UNCHANGED job \/ Begin("journal", "unconfirmed", w.att, new)
      BY <2>2 DEF FinishRevoke, RevokedBy, durable, history
    <3> HIDE DEF new
    <3> QED
      BY <3>3, <3>4, BeginPc, AdmitQuiet
  <2> QED
    BY <1>1, <2>1, <2>2 DEF Answer
<1>2. CASE Crash
  BY <1>2, AdmitQuiet DEF Crash, NoJob, history
<1>3. CASE Restart \/ Serve
  BY <1>3, AdmitQuiet DEF Restart, Serve, registry, durable, history
<1>4. ASSUME NEW t \in todo, RecoverRecord(t) PROVE AdmitInv'
  <2> DEFINE r == Recovered(disk[t])
  <2>1. r.st # "Ready"
    BY RecoveredNotReady DEF TypeInv, TodoInv, DiskInv
  <2>2. UNCHANGED <<used, version>> /\ (UNCHANGED job \/ Begin("recoverLog", "recover", r.att, r))
    BY <1>4 DEF RecoverRecord, history
  <2> HIDE DEF r
  <2> QED
    BY <2>1, <2>2, BeginPc, AdmitQuiet
<1>5. CASE RecoverLog
  BY <1>5, AdmitQuiet DEF RecoverLog, Done, NoJob
<1>6. ASSUME NEW a \in Attempts, Reaper(a) PROVE AdmitInv'
  <2>1. CASE RecordExit(a)
    <3> DEFINE new == FinishAttempt(mem[TaskOf[a]], reap[a], a \in stop)
    <3>1. UNCHANGED <<used, version>> /\ (UNCHANGED job \/ Begin("record", "exit", a, new))
      BY <2>1 DEF RecordExit, durable, history
    <3>2. mem[TaskOf[a]] \in TaskRec /\ reap[a] \in Exits
      BY <2>1 DEF RecordExit, TypeInv, MemInv
    <3>3. new.st # "Ready"
      BY <3>2, FinishAttemptEnds
    <3> HIDE DEF new
    <3> QED
      BY <3>1, <3>3, BeginPc, AdmitQuiet
  <2>2. CASE ~RecordExit(a)
    BY <1>6, <2>2, AdmitQuiet DEF Reaper, Launch, SandboxSetUp, LateLaunch, DropLate,
      WorkloadEnds, registry, durable, history
  <2> QED
    BY <2>1, <2>2
<1>7. CASE UNCHANGED vars
  BY <1>7, AdmitQuiet DEF vars, registry, durable, history
<1> QED
  BY <1>1, <1>2, <1>3, <1>4, <1>5, <1>6, <1>7, AdmitRequest, AdmitJobStep DEF Next, Recovery

\* A step that makes a task Ready makes it Ready under a version that never did before.
NoReplay ==
  \A t \in Tasks : mem[t].st # "Ready" /\ mem'[t].st = "Ready" => <<t, mem'[t].ver>> \notin used

LEMMA ApplyNoReplay ==
  ASSUME TypeInv, AdmitInv, job.pc \notin {"idle", "intent", "spawn"},
         job.verb = "admit" => job.pc = "evidence", Apply
  PROVE  NoReplay
<1>1. /\ TaskOf[job.att] \in Tasks /\ job.new.ver \in Nat /\ mem \in [Tasks -> TaskRec]
      /\ used \subseteq Tasks \X Nat
  BY JobHolds, VersionType DEF TypeInv, MemInv, RestInv
<1>2. job.new.st = "Ready" => \A p \in used : p[1] = TaskOf[job.att] => p[2] < job.new.ver
  BY DEF AdmitInv
<1>3. job.new.st = "Ready" => <<TaskOf[job.att], job.new.ver>> \notin used
  BY <1>1, <1>2
<1> QED
  BY <1>1, <1>3 DEF Apply, NoReplay

LEMMA StepNoReplay == ASSUME TypeInv, AdmitInv, [Next]_vars PROVE NoReplay
<1>1. ASSUME UNCHANGED mem PROVE NoReplay
  BY <1>1 DEF NoReplay
<1>2. CASE JobStep
  <2>1. CASE CreateWrite
    BY <1>1, <2>1, ApplyNoReplay DEF CreateWrite, At
  <2>2. CASE CommitEvidence
    BY <1>1, <2>2, ApplyNoReplay DEF CommitEvidence, At
  <2>3. ASSUME job.pc \in {"seal", "headText", "launched", "ended"}, Apply PROVE NoReplay
    <3>1. job.new.st # "Ready" /\ TaskOf[job.att] \in Tasks /\ mem \in [Tasks -> TaskRec]
      BY <2>3, JobHolds DEF AdmitInv, TypeInv, MemInv
    <3> QED
      BY <2>3, <3>1 DEF Apply, NoReplay
  <2>4. CASE SealOpen \/ SealHeadText
    BY <1>1, <2>3, <2>4 DEF SealOpen, SealHeadText, At
  <2>5. CASE RecordLaunched \/ RecordEnded
    BY <1>1, <2>3, <2>5 DEF RecordLaunched, RecordEnded, At
  <2>6. CASE \/ CommitJournal \/ CommitVersion \/ Restore \/ Undo \/ SealMark \/ SealHeadNew
             \/ LaunchIntent \/ NoThread \/ SpawnReport \/ RecordRunning \/ RecordEnd
    BY <1>1, <2>6 DEF CommitJournal, CommitVersion, Restore, Undo, SealMark, SealHeadNew,
      LaunchIntent, NoThread, SpawnReport, RecordRunning, RecordEnd, Discard, registry
  <2> QED
    BY <1>2, <2>1, <2>2, <2>4, <2>5, <2>6 DEF JobStep
<1>3. CASE Request
  <2>1. ASSUME NEW a \in Attempts, NEW op \in Ops, StopLive(op, a) \/ RevokeLive(op, a)
        PROVE  NoReplay
    <3>1. \E r \in TaskRec : EndAttempt(a, r)
      <4>1. mem[TaskOf[a]] \in TaskRec
        BY <2>1, HeldType DEF StopLive, RevokeLive, RevokeLease
      <4>2. \A r \in TaskRec : \A o \in Ops \cup {None} :
              [r EXCEPT !.stopReq = o] \in TaskRec /\ [r EXCEPT !.revReq = o] \in TaskRec
        BY DEF TaskRec
      <4>3. mem[TaskOf[a]].stopReq \in Ops \cup {None} /\ mem[TaskOf[a]].revReq \in Ops \cup {None}
        BY <4>1 DEF TaskRec
      <4> QED
        BY <2>1, <4>1, <4>2, <4>3 DEF StopLive, RevokeLive, RevokeLease
    <3>2. PICK r \in TaskRec : EndAttempt(a, r)
      BY <3>1
    <3>3. [r EXCEPT !.st = "Running"].st = "Running"
      BY DEF TaskRec
    <3> QED
      BY <3>2, <3>3 DEF EndAttempt, NoReplay, TypeInv, MemInv
  <2>2. ASSUME NEW a \in Attempts, CreateEvict(a) PROVE NoReplay
    <3>1. PICK old : UNCHANGED mem \/ mem' = [mem EXCEPT ![old] = NoTask]
      BY <2>2 DEF CreateEvict
    <3> QED
      BY <3>1, NoTaskType DEF NoReplay, TypeInv, MemInv
  <2>3. ASSUME NEW a \in Attempts,
               CreateNew(a) \/ CreateReplace(a) \/ Pause(a) \/ Resume(a) \/ Start(a)
        PROVE  NoReplay
    BY <1>1, <2>3 DEF CreateNew, CreateReplace, Pause, Resume, Start, RetireAttempt, Revalidated,
      SlotFree, Materialise
  <2>4. ASSUME NEW a \in Attempts, NEW v \in Versions, Admit(a, v) PROVE NoReplay
    BY <1>1, <2>4 DEF Admit, Verified
  <2>5. ASSUME NEW a \in Attempts, NEW op \in Ops,
               StopReady(op, a) \/ StopReplay(op, a) \/ RevokeReady(op, a) \/ Seal(op, a)
        PROVE  NoReplay
    BY <1>1, <2>5 DEF StopReady, StopReplay, RevokeReady, Seal, registry, RevokeLease
  <2> QED
    BY <1>3, <2>1, <2>2, <2>3, <2>4, <2>5 DEF Request
<1>4. CASE Answer
  BY <1>1, <1>4 DEF Answer, FinishStop, FinishRevoke
<1>5. CASE Crash
  BY <1>5, NoTaskType DEF Crash, NoReplay
<1>6. CASE Recovery
  <2>1. CASE Restart \/ Serve
    BY <1>1, <2>1 DEF Restart, Serve, registry
  <2>2. ASSUME NEW t \in todo, RecoverRecord(t) PROVE NoReplay
    BY <1>1, <2>2, NoTaskType DEF RecoverRecord, NoReplay
  <2>3. CASE RecoverLog
    <3>1. /\ job.new.st # "Ready" /\ TaskOf[job.att] \in Tasks
          /\ \/ UNCHANGED mem \/ mem' = [mem EXCEPT ![TaskOf[job.att]] = job.new]
             \/ mem' = [u \in Tasks |-> NoTask]
      BY <2>3, JobHolds DEF RecoverLog, AdmitInv
    <3> QED
      BY <1>1, <3>1, NoTaskType DEF NoReplay, TypeInv, MemInv
  <2> QED
    BY <1>6, <2>1, <2>2, <2>3 DEF Recovery
<1>7. ASSUME NEW a \in Attempts, Reaper(a) PROVE NoReplay
  BY <1>1, <1>7 DEF Reaper, Launch, SandboxSetUp, LateLaunch, DropLate, WorkloadEnds, RecordExit,
    registry
<1>8. CASE UNCHANGED vars
  BY <1>1, <1>8 DEF vars, registry
<1> QED
  BY <1>2, <1>3, <1>4, <1>5, <1>6, <1>7, <1>8 DEF Next

\* A signed admission takes effect at most once per task (AdmissionNeverReplayed), over any
\* number of restarts: the version file is written before the admission takes effect.
THEOREM AdmissionsTakeEffectOnce == Spec => AdmissionNeverReplayed
<1>1. Init => AdmitInv
  BY DEF Init, AdmitInv, NoJob
<1>2. TypeInv /\ AdmitInv /\ [Next]_vars
        => [\A t \in Tasks : mem[t].st # "Ready" /\ mem'[t].st = "Ready"
                                => <<t, mem'[t].ver>> \notin used]_vars
  BY StepNoReplay DEF NoReplay
<1> QED
  BY <1>1, <1>2, TypeInvariant, AdmitInductive, PTL DEF Spec, AdmissionNeverReplayed

--------------------------------------------------------------------------------
(* A revoked lease launches nothing *)

\* A start past its revalidation keeps the mutex until its launcher has been given up, so
\* no revoke comes in between.
RevokeInv ==
  /\ job.pc = "intent" => LeaseOf[job.att] \notin revoked
  /\ \A a \in Attempts : reap[a] = "launching" =>
       job.pc = "spawn" /\ job.att = a /\ LeaseOf[a] \notin revoked

LEMMA RevokeQuiet == ASSUME RevokeInv, UNCHANGED revoked,
                            \A a \in Attempts : reap'[a] = "launching" => reap[a] = "launching",
                            UNCHANGED job \/ (job.pc # "spawn" /\ job'.pc # "intent")
                     PROVE  RevokeInv'
BY DEF RevokeInv

LEMMA RevokeRequest == ASSUME TypeInv, RevokeInv, Request PROVE RevokeInv'
<1>0. job.pc = "idle" /\ \A a \in Attempts : reap[a] # "launching"
  BY ZenonT(60) DEF Request, CreateNew, CreateEvict, CreateReplace, Pause, Resume, Start, Admit,
    StopReady,
    StopLive, StopReplay, RevokeReady, RevokeLive, Seal, Idle, RevokeInv
<1>1. CASE \E a \in Attempts : Start(a)
  <2>1. PICK a \in Attempts : Start(a)
    BY <1>1
  <2>2. /\ LeaseOf[a] \notin revoked /\ UNCHANGED <<revoked, reap>>
        /\ job'.pc = "intent" /\ job'.att = a
    BY <2>1 DEF Start, Begin, workloads, Revalidated, SlotFree, Materialise
  <2> QED
    BY <1>0, <2>2 DEF RevokeInv
<1>2. CASE \E a \in Attempts :
             \/ CreateNew(a) \/ CreateEvict(a) \/ CreateReplace(a) \/ Pause(a) \/ Resume(a)
             \/ \E v \in Versions : Admit(a, v)
  <2>1. UNCHANGED reap
    BY <1>2 DEF CreateNew, CreateEvict, CreateReplace, Pause, Resume, Admit, workloads,
      RetireAttempt, Verified
  <2>2. UNCHANGED job \/ job'.pc = "journal"
    <3>1. ASSUME NEW a \in Attempts, CreateEvict(a) \/ Resume(a)
          PROVE  UNCHANGED job \/ job'.pc = "journal"
      BY <3>1 DEF CreateEvict, Resume, Begin
    <3>2. ASSUME NEW a \in Attempts,
                 CreateNew(a) \/ CreateReplace(a) \/ Pause(a) \/ \E v \in Versions : Admit(a, v)
          PROVE  job'.pc = "journal"
      BY <3>2, BeginPc DEF CreateNew, CreateReplace, Pause, Admit, RetireAttempt, Verified
    <3> QED
      BY <1>2, <3>1, <3>2
  <2> QED
    BY <1>0, <2>1, <2>2 DEF RevokeInv
<1>3. CASE \E a \in Attempts, op \in Ops :
             \/ StopReady(op, a) \/ StopLive(op, a) \/ StopReplay(op, a)
             \/ RevokeReady(op, a) \/ RevokeLive(op, a) \/ Seal(op, a)
  <2>1. UNCHANGED reap /\ (UNCHANGED job \/ job'.pc # "intent")
    BY <1>3 DEF StopReady, StopLive, StopReplay, RevokeReady, RevokeLive, Seal, Begin,
      registry, workloads, RevokeLease
  <2> QED
    BY <1>0, <2>1 DEF RevokeInv
<1> QED
  BY <1>1, <1>2, <1>3 DEF Request

LEMMA RevokeJobStep == ASSUME TypeInv, RevokeInv, JobStep PROVE RevokeInv'
<1>1. CASE CreateWrite \/ CommitEvidence \/ SealOpen \/ SealHeadText
  BY <1>1, RevokeQuiet, GotoPc DEF CreateWrite, CommitEvidence, SealOpen, SealHeadText, At,
    Apply, Done, NoJob, workloads
<1>2. CASE CommitJournal \/ Restore
  <2>1. job'.pc # "intent"
    BY <1>2, GotoPc, RefusePc DEF CommitJournal, Restore
  <2> QED
    BY <1>2, <2>1, RevokeQuiet DEF CommitJournal, Restore, At, workloads
<1>3. CASE CommitVersion \/ SealMark \/ SealHeadNew \/ RecordEnd
  BY <1>3, RevokeQuiet, GotoPc DEF CommitVersion, SealMark, SealHeadNew, RecordEnd, At, workloads
<1>4. CASE Undo
  BY <1>4, RevokeQuiet DEF Undo, At, Done, NoJob, durable
<1>5. CASE LaunchIntent
  <2>0. job.pc = "intent" /\ job.att \in Attempts /\ UNCHANGED revoked
    BY <1>5 DEF LaunchIntent, At, TypeInv, JobInv, Discard
  <2>1. CASE reap' = [reap EXCEPT ![job.att] = "launching"] /\ Goto("spawn")
    <3>1. \A a \in Attempts : reap'[a] = "launching" => a = job.att \/ reap[a] = "launching"
      BY <2>1 DEF TypeInv, WorkInv
    <3> QED
      BY <2>0, <2>1, <3>1, GotoPc DEF RevokeInv
  <2>2. CASE Done /\ UNCHANGED reap
    BY <2>0, <2>2, RevokeQuiet DEF Done, NoJob
  <2> QED
    BY <1>5, <2>1, <2>2 DEF LaunchIntent
<1>6. CASE SpawnReport
  <2>0. job.att \in Attempts /\ UNCHANGED revoked /\ job'.pc # "intent"
    BY <1>6 DEF SpawnReport, At, TypeInv, JobInv, Begin, Done, NoJob, Discard
  <2>1. \E s \in ReapStates \ {"launching"} : reap' = [reap EXCEPT ![job.att] = s]
    BY <1>6 DEF SpawnReport, ReapStates, LiveReap, Discard
  <2>2. \A a \in Attempts : reap'[a] # "launching"
    BY <2>0, <2>1 DEF RevokeInv, TypeInv, WorkInv
  <2> QED
    BY <2>0, <2>2 DEF RevokeInv
<1>7. CASE RecordRunning
  BY <1>7, RevokeQuiet, GotoPc DEF RecordRunning, At, Begin
<1>8. CASE RecordLaunched
  BY <1>8, RevokeQuiet DEF RecordLaunched, At, Apply, Begin, Done, NoJob
<1>9. CASE RecordEnded
  <2>1. job.pc # "spawn" /\ job'.pc # "intent" /\ UNCHANGED revoked
    BY <1>9 DEF RecordEnded, At, Apply, Done, NoJob
  <2>2. reap' = reap \/ reap' = [reap EXCEPT ![job.att] = "done"]
    BY <1>9 DEF RecordEnded
  <2>3. \A a \in Attempts : reap'[a] = "launching" => reap[a] = "launching"
    BY <2>2 DEF TypeInv, WorkInv
  <2> QED
    BY <2>1, <2>3, RevokeQuiet
<1>10. CASE NoThread
  BY <1>10, RevokeQuiet DEF NoThread, TypeInv, WorkInv, registry, durable
<1> QED
  BY <1>1, <1>2, <1>3, <1>4, <1>5, <1>6, <1>7, <1>8, <1>9, <1>10 DEF JobStep

LEMMA RevokeInductive == ASSUME TypeInv, RevokeInv, [Next]_vars PROVE RevokeInv'
<1>1. CASE Answer
  BY <1>1, RevokeQuiet DEF Answer, FinishStop, FinishRevoke, Idle, Begin, workloads, durable
<1>2. CASE Crash
  BY <1>2 DEF Crash, RevokeInv, NoJob
<1>3. CASE Recovery
  <2>1. CASE Restart \/ Serve
    BY <2>1, RevokeQuiet DEF Restart, Serve, registry, workloads, durable
  <2>2. CASE RecoverLog \/ \E t \in todo : RecoverRecord(t)
    BY <2>2, RevokeQuiet DEF RecoverLog, RecoverRecord, Begin, Done, NoJob, workloads
  <2> QED
    BY <1>3, <2>1, <2>2 DEF Recovery
<1>4. ASSUME NEW a \in Attempts, Reaper(a) PROVE RevokeInv'
  <2>0. reap \in [Attempts -> ReapStates]
    BY DEF TypeInv, WorkInv
  <2>1. CASE \/ Launch(a) \/ SandboxSetUp(a) \/ LateLaunch(a) \/ DropLate(a)
             \/ \E e \in Exits : WorkloadEnds(a, e)
    <3>1. UNCHANGED <<job, revoked>>
      BY <2>1 DEF Launch, SandboxSetUp, LateLaunch, DropLate, WorkloadEnds, registry, durable
    <3>2. \A b \in Attempts : reap'[b] = "launching" => reap[b] = "launching"
      BY <2>0, <2>1 DEF Launch, SandboxSetUp, LateLaunch, DropLate, WorkloadEnds, Exits
    <3> QED
      BY <3>1, <3>2, RevokeQuiet
  <2>2. CASE RecordExit(a)
    <3>1. job.pc = "idle" /\ job'.pc # "intent" /\ UNCHANGED revoked
      BY <2>2 DEF RecordExit, Idle, Begin, durable
    <3>2. \A b \in Attempts : reap'[b] = "launching" => reap[b] = "launching"
      BY <2>0, <2>2 DEF RecordExit
    <3> QED
      BY <3>1, <3>2, RevokeQuiet
  <2> QED
    BY <1>4, <2>1, <2>2 DEF Reaper
<1>5. CASE UNCHANGED vars
  BY <1>5, RevokeQuiet DEF vars, registry, workloads, durable
<1> QED
  BY <1>1, <1>2, <1>3, <1>4, <1>5, RevokeRequest, RevokeJobStep DEF Next

\* Only a launcher, in time or late, starts a workload.
LEMMA StepLaunches ==
  ASSUME TypeInv, [Next]_vars, NEW a \in Attempts, reap[a] \notin {"launching", "late"}
  PROVE  launches'[a] = launches[a]
<1>1. CASE JobStep
  <2>1. CASE CreateWrite \/ CommitJournal \/ CommitVersion \/ CommitEvidence \/ Restore \/ Undo
    BY <2>1 DEF CreateWrite, CommitJournal, CommitVersion, CommitEvidence, Restore, Undo, history
  <2>2. CASE SealOpen \/ SealMark \/ SealHeadNew \/ SealHeadText
    BY <2>2 DEF SealOpen, SealMark, SealHeadNew, SealHeadText, history
  <2>3. CASE LaunchIntent \/ NoThread \/ SpawnReport \/ RecordRunning \/ RecordLaunched
    BY <2>3 DEF LaunchIntent, NoThread, SpawnReport, RecordRunning, RecordLaunched, history
  <2>4. CASE RecordEnd \/ RecordEnded
    BY <2>4 DEF RecordEnd, RecordEnded, history
  <2> QED
    BY <1>1, <2>1, <2>2, <2>3, <2>4 DEF JobStep
<1>2. CASE Request
  <2>1. ASSUME NEW b \in Attempts, CreateNew(b) \/ CreateEvict(b) \/ CreateReplace(b)
        PROVE  UNCHANGED launches
    BY <2>1 DEF CreateNew, CreateEvict, CreateReplace, history
  <2>2. ASSUME NEW b \in Attempts, Pause(b) \/ Resume(b) \/ Start(b) PROVE UNCHANGED launches
    BY <2>2 DEF Pause, Resume, Start, history
  <2>3. ASSUME NEW b \in Attempts, NEW v \in Versions, Admit(b, v) PROVE UNCHANGED launches
    BY <2>3 DEF Admit, history
  <2>4. ASSUME NEW b \in Attempts, NEW op \in Ops,
               StopReady(op, b) \/ StopLive(op, b) \/ StopReplay(op, b)
        PROVE  UNCHANGED launches
    BY <2>4 DEF StopReady, StopLive, StopReplay, history
  <2>5. ASSUME NEW b \in Attempts, NEW op \in Ops,
               RevokeReady(op, b) \/ RevokeLive(op, b) \/ Seal(op, b)
        PROVE  UNCHANGED launches
    BY <2>5 DEF RevokeReady, RevokeLive, Seal, history
  <2> QED
    BY <1>2, <2>1, <2>2, <2>3, <2>4, <2>5 DEF Request
<1>3. CASE Answer \/ Crash \/ Recovery
  BY <1>3 DEF Answer, FinishStop, FinishRevoke, Crash, Recovery, Restart, Serve, RecoverRecord,
    RecoverLog, history
<1>4. ASSUME NEW b \in Attempts, Reaper(b) PROVE launches'[a] = launches[a]
  <2>1. CASE Launch(b) \/ LateLaunch(b)
    BY <2>1 DEF Launch, LateLaunch, TypeInv, RestInv
  <2>2. CASE \/ SandboxSetUp(b) \/ DropLate(b) \/ RecordExit(b)
             \/ \E e \in Exits : WorkloadEnds(b, e)
    BY <2>2 DEF SandboxSetUp, DropLate, RecordExit, WorkloadEnds, history
  <2> QED
    BY <1>4, <2>1, <2>2 DEF Reaper
<1>5. CASE UNCHANGED vars
  BY <1>5 DEF vars, history
<1> QED
  BY <1>1, <1>2, <1>3, <1>4, <1>5 DEF Next

\* Once a lease is revoked nothing is launched under it (RevokedNeverLaunched), also not by
\* a start that revalidated its admission before the revoke: the mutex is held in between.
\* A launcher already past its spawn timeout is the exception the property states.
THEOREM RevokedLaunchesNothing == Spec => RevokedNeverLaunched
<1>1. Init => RevokeInv
  BY DEF Init, RevokeInv, NoJob
<1>2. TypeInv /\ RevokeInv /\ [Next]_vars
        => [\A a \in Attempts : LeaseOf[a] \in revoked /\ reap[a] # "late"
                                  => launches'[a] = launches[a]]_vars
  BY StepLaunches DEF RevokeInv
<1> QED
  BY <1>1, <1>2, TypeInvariant, RevokeInductive, PTL DEF Spec, RevokedNeverLaunched

HIDE BoundAssumption
HIDE BindingAssumption

--------------------------------------------------------------------------------
(* What a step changes, by the parts of a task and of a log the invariants speak of *)

\* Record d carries what the registry holds of task r.
Mirrors(d, r) ==
  /\ d.att = r.att /\ d.st = r.st /\ d.out = r.out
  /\ d.stoppedBy = r.stoppedBy /\ d.sealedBy = r.sealedBy

MemOnly(t) == \A u \in Tasks \ {t} : mem'[u] = mem[u]
DiskOnly(t) == \A u \in Tasks \ {t} : disk'[u] = disk[u]
LogOnly(a) == \A b \in Attempts \ {a} : log'[b] = log[b]
ReapOnly(a) == \A b \in Attempts \ {a} : reap'[b] = reap[b]
FrozenOnly(a) == \A b \in Attempts \ {a} : frozen'[b] = frozen[b]
ShownOnly(a) == \A b \in Attempts \ {a} : shown'[b] = shown[b]

\* The handler begins, goes on, or ends.
Opens(pc, verb, a) == job'.pc = pc /\ job'.verb = verb /\ job'.att = a /\ job'.new.att = a
Moves(pc) == job'.pc = pc /\ job'.verb = job.verb /\ job'.att = job.att /\ job'.new = job.new
Closes == job'.pc = "idle"
Refuses ==
  /\ job.verb \in {"pause", "resume"} => Moves("undo")
  /\ job.verb \notin {"pause", "resume"} => Closes
Shows(a, o) ==
  /\ ShownOnly(a)
  /\ shown[a] = "none" => shown'[a] = o
  /\ shown[a] # "none" => shown'[a] = shown[a]
Applies ==
  /\ mem'[TaskOf[job.att]] = job.new /\ MemOnly(TaskOf[job.att])
  /\ Shows(job.att, job.new.out) /\ Closes

\* A record is written, or its write fails before or after the rename.
Writes(t, r) ==
  Mirrors(disk'[t], r) /\ ~disk'[t].run /\ DiskOnly(t) /\ UNCHANGED faults
Fails(t, r) ==
  /\ DiskOnly(t) /\ faults' = faults + 1
  /\ disk'[t] = disk[t] \/ (Mirrors(disk'[t], r) /\ ~disk'[t].run)

\* The log's last record says s with outcome o, sealed by op or by None.
Says(l, s, o, op) == l.held = s /\ l.out = o /\ l.by = op
Logs(a, s, o, op) ==
  /\ log[a].head = "none" /\ ~log[a].torn /\ LogOnly(a) /\ UNCHANGED faults
  /\ Says(log'[a], s, o, op) /\ log'[a].head = "none" /\ ~log'[a].torn
Misses(a, s, o, op) ==
  \/ (log[a].head # "none" \/ log[a].torn) /\ UNCHANGED <<log, faults>>
  \/ /\ log[a].head = "none" /\ ~log[a].torn /\ LogOnly(a) /\ faults' = faults + 1
     /\ log'[a].head = "none"
     /\ Says(log'[a], log[a].held, log[a].out, log[a].by) \/ Says(log'[a], s, o, op)

LEMMA Types ==
  ASSUME TypeInv
  PROVE  /\ mem \in [Tasks -> TaskRec] /\ disk \in [Tasks -> TaskRec]
         /\ log \in [Attempts -> LogRec] /\ faults \in Nat
         /\ reap \in [Attempts -> ReapStates]
         /\ frozen \in [Attempts -> {"no", "yes", "unsure"}]
         /\ shown \in [Attempts -> Outcomes \cup {"none"}]
         /\ waits \subseteq Wait /\ kept \subseteq Attempts
BY DEF TypeInv, MemInv, DiskInv, LogInv, WorkInv, RestInv

LEMMA JobTypes ==
  ASSUME TypeInv, job.pc # "idle"
  PROVE  /\ job.att \in Attempts /\ TaskOf[job.att] \in Tasks /\ job.new \in TaskRec
         /\ job.new.att = job.att /\ job.new.st \in States
BY JobHolds

LEMMA RecordMirrors == ASSUME NEW r \in TaskRec PROVE Mirrors(Record(r), r) /\ ~Record(r).run
BY DEF Record, TaskRec, Mirrors

LEMMA JournalMoves ==
  ASSUME TypeInv, NEW t \in Tasks, NEW r \in TaskRec
  PROVE  /\ JournalOk(t, Record(r)) => Writes(t, r)
         /\ JournalErr(t, Record(r)) => Fails(t, r)
<1>1. disk \in [Tasks -> TaskRec] /\ Mirrors(Record(r), r) /\ ~Record(r).run
  BY Types, RecordMirrors
<1> HIDE DEF Record
<1> QED
  BY <1>1 DEF JournalOk, JournalErr, Writes, Fails, Fault, DiskOnly

LEMMA AppendMoves ==
  ASSUME TypeInv, NEW a \in Attempts, NEW l \in LogRec, l.head = log[a].head, l.torn = log[a].torn
  PROVE  /\ AppendOk(a, l) => Logs(a, l.held, l.out, l.by)
         /\ AppendErr(a, l) => Misses(a, l.held, l.out, l.by)
<1>1. log \in [Attempts -> LogRec] /\ log[a] \in LogRec
  BY Types
<1>2. CASE AppendOk(a, l)
  <2>1. log'[a] = l /\ LogOnly(a)
    BY <1>1, <1>2 DEF AppendOk, LogOnly
  <2> QED
    BY <1>1, <1>2, <2>1 DEF AppendOk, Appendable, Logs, Says, AppendErr, Fault, Misses
<1>3. CASE AppendErr(a, l)
  <2>1. CASE ~Appendable(log[a]) /\ UNCHANGED <<log, faults>>
    BY <2>1, <1>3 DEF Appendable, Misses, AppendOk
  <2>2. CASE Appendable(log[a]) /\ Fault
    <3>1. PICK m \in {log[a], l, [log[a] EXCEPT !.torn = TRUE]} : log' = [log EXCEPT ![a] = m]
      BY <1>3, <2>2 DEF AppendErr
    <3>2. log'[a] = m /\ LogOnly(a)
      BY <1>1, <3>1 DEF LogOnly
    <3>3. m.head = log[a].head /\ (Says(m, log[a].held, log[a].out, log[a].by) \/ Says(m, l.held, l.out, l.by))
      BY <1>1 DEF LogRec, Says
    <3>4. ~AppendOk(a, l)
      <4>1. faults \in Nat /\ faults' = faults + 1
        BY <2>2, Types DEF Fault
      <4> QED
        BY <4>1 DEF AppendOk
    <3> QED
      BY <2>2, <3>2, <3>3, <3>4 DEF Appendable, Fault, Misses
  <2> QED
    BY <1>3, <2>1, <2>2 DEF AppendErr
<1> QED
  BY <1>2, <1>3

LEMMA RecordedSays ==
  ASSUME NEW l \in LogRec, NEW r \in TaskRec, r.st \in States
  PROVE  /\ Recorded(l, r) \in LogRec /\ Recorded(l, r).head = l.head /\ Recorded(l, r).torn = l.torn
         /\ Recorded(l, r).held = r.st /\ Recorded(l, r).out = r.out /\ Recorded(l, r).by = None
BY DEF Recorded, LogRec, TaskRec

\* The append of a handler's record.
LEMMA RecordMoves ==
  ASSUME TypeInv, NEW a \in Attempts, NEW r \in TaskRec, r.st \in States
  PROVE  /\ AppendOk(a, Recorded(log[a], r)) => Logs(a, r.st, r.out, None)
         /\ AppendErr(a, Recorded(log[a], r)) => Misses(a, r.st, r.out, None)
<1>1. log[a] \in LogRec
  BY Types
<1> DEFINE l == Recorded(log[a], r)
<1>2. l \in LogRec /\ l.head = log[a].head /\ l.torn = log[a].torn /\ l.held = r.st /\ l.out = r.out /\ l.by = None
  BY <1>1, RecordedSays
<1> HIDE DEF l
<1>3. /\ AppendOk(a, l) => Logs(a, l.held, l.out, l.by)
      /\ AppendErr(a, l) => Misses(a, l.held, l.out, l.by)
  BY <1>2, AppendMoves
<1> QED
  BY <1>2, <1>3 DEF l

LEMMA ApplyMoves == ASSUME TypeInv, job.pc # "idle", Apply PROVE Applies
<1>1. mem \in [Tasks -> TaskRec] /\ shown \in [Attempts -> Outcomes \cup {"none"}] /\ job.att \in Attempts /\ TaskOf[job.att] \in Tasks
  BY Types, JobTypes
<1> QED
  BY <1>1 DEF Apply, Applies, Shows, ShownOnly, MemOnly, Closes, Done, NoJob

LEMMA RefuseMoves == ASSUME TypeInv, Refuse PROVE Refuses
BY GotoPc DEF Refuse, Refuses, Moves, Closes, Done, NoJob

LEMMA GotoMoves == ASSUME TypeInv, NEW pc, Goto(pc) PROVE Moves(pc)
BY GotoPc DEF Moves

LEMMA DoneCloses == ASSUME Done PROVE Closes
BY DEF Done, NoJob, Closes

--------------------------------------------------------------------------------
(* What the values a step writes look like *)

\* Task n is task r but for its state, its admission and what is asked of it.
Alike(n, r) ==
  /\ n.att = r.att /\ n.out = r.out /\ n.run = r.run
  /\ n.stoppedBy = r.stoppedBy /\ n.sealedBy = r.sealedBy
Fresh(r) ==
  r.st = "Created" /\ r.out = "none" /\ ~r.run /\ r.stoppedBy = None /\ r.sealedBy = None
Blank(r) ==
  /\ r.att = None /\ r.st = "absent" /\ r.out = "none" /\ ~r.run
  /\ r.stoppedBy = None /\ r.sealedBy = None
\* Task n is task r ended in state s with outcome o.
Ends(n, r, s, o) == n.att = r.att /\ n.st = s /\ n.out = o /\ n.sealedBy = r.sealedBy

LEMMA NewTaskFresh == ASSUME NEW a PROVE Fresh(NewTask(a)) /\ NewTask(a).att = a
BY DEF Fresh, NewTask

LEMMA NoTaskBlank == Blank(NoTask) /\ NoTask \in TaskRec
BY NoTaskType DEF Blank, NoTask, NewTask

LEMMA FinishEnds ==
  ASSUME NEW r \in TaskRec, NEW s \in States, NEW o \in Outcomes
  PROVE  /\ Ends(Finish(r, s, o), r, s, o) /\ Finish(r, s, o).run = r.run
         /\ Finish(r, s, o).stoppedBy = r.stoppedBy /\ Finish(r, s, o) \in TaskRec
BY ZenonT(60) DEF Finish, TaskRec, Ends

LEMMA EndedBy ==
  ASSUME NEW r \in TaskRec, NEW s \in States, NEW o \in Outcomes, NEW op \in Ops \cup {None}
  PROVE  /\ Ends(StoppedBy(r, s, o, op), r, s, o) /\ StoppedBy(r, s, o, op).run = r.run
         /\ StoppedBy(r, s, o, op).stoppedBy = op
         /\ Ends(RevokedBy(r, s, o, op), r, s, o) /\ RevokedBy(r, s, o, op).run = r.run
         /\ RevokedBy(r, s, o, op).stoppedBy = r.stoppedBy
<1> DEFINE f == Finish(r, s, o)
<1>1. f \in TaskRec /\ Ends(f, r, s, o) /\ f.run = r.run /\ f.stoppedBy = r.stoppedBy
  BY FinishEnds
<1> HIDE DEF f
<1>2. /\ Ends([f EXCEPT !.stoppedBy = op], r, s, o) /\ [f EXCEPT !.stoppedBy = op].run = f.run
      /\ [f EXCEPT !.stoppedBy = op].stoppedBy = op
  BY <1>1 DEF TaskRec, Ends
<1>3. /\ Ends([f EXCEPT !.revokedBy = op], r, s, o) /\ [f EXCEPT !.revokedBy = op].run = f.run
      /\ [f EXCEPT !.revokedBy = op].stoppedBy = f.stoppedBy
  BY <1>1 DEF TaskRec, Ends
<1> QED
  BY <1>1, <1>2, <1>3 DEF f, StoppedBy, RevokedBy

LEMMA SpawnFailedEnds ==
  ASSUME NEW r \in TaskRec
  PROVE  /\ Ends(SpawnFailed(r), r, "Exited", "unknown") /\ SpawnFailed(r).run
         /\ SpawnFailed(r).stoppedBy = r.stoppedBy
<1>1. "Exited" \in States /\ "unknown" \in Outcomes
  BY DEF States, Ended, Outcomes
<1> DEFINE f == Finish(r, "Exited", "unknown")
<1>2. f \in TaskRec /\ Ends(f, r, "Exited", "unknown") /\ f.stoppedBy = r.stoppedBy
  BY <1>1, FinishEnds
<1> HIDE DEF f
<1>3. /\ Ends([f EXCEPT !.run = TRUE], r, "Exited", "unknown")
      /\ [f EXCEPT !.run = TRUE].stoppedBy = f.stoppedBy
  BY <1>2 DEF TaskRec, Ends
<1>4. [f EXCEPT !.run = TRUE].run = TRUE
  BY <1>2 DEF TaskRec
<1> QED
  BY <1>2, <1>3, <1>4 DEF SpawnFailed, f

LEMMA AttemptEnds ==
  ASSUME NEW r \in TaskRec, NEW e \in Exits, NEW stopping \in BOOLEAN
  PROVE  LET n == FinishAttempt(r, e, stopping) IN
         /\ n.att = r.att /\ n.st \in Ended /\ n.out \in Outcomes /\ n.run = r.run
         /\ n.sealedBy = r.sealedBy /\ (n.st # "Stopped" => n.stoppedBy = r.stoppedBy)
<1> DEFINE o == ExitOutcome(e)
           n == FinishAttempt(r, e, stopping)
<1>1. /\ o \in Outcomes
      /\ "Revoked" \in States /\ "Stopped" \in States /\ "Exited" \in States
      /\ r.revReq \in Ops \cup {None} /\ r.stopReq \in Ops \cup {None}
  BY DEF ExitOutcome, Outcomes, States, Ended, TaskRec
<1>2. \/ n = RevokedBy(r, "Revoked", o, r.revReq)
      \/ n = StoppedBy(r, "Stopped", o, r.stopReq)
      \/ n = Finish(r, "Exited", o)
  BY DEF FinishAttempt, RevokedBy, StoppedBy
<1> HIDE DEF o, n
<1>3. CASE n = RevokedBy(r, "Revoked", o, r.revReq)
  <2>1. Ends(n, r, "Revoked", o) /\ n.run = r.run /\ n.stoppedBy = r.stoppedBy
    BY <1>1, <1>3, EndedBy
  <2> QED
    BY <1>1, <2>1 DEF Ends, Ended, n
<1>4. CASE n = StoppedBy(r, "Stopped", o, r.stopReq)
  <2>1. Ends(n, r, "Stopped", o) /\ n.run = r.run
    BY <1>1, <1>4, EndedBy
  <2> QED
    BY <1>1, <2>1 DEF Ends, Ended, n
<1>5. CASE n = Finish(r, "Exited", o)
  <2>1. Ends(n, r, "Exited", o) /\ n.run = r.run /\ n.stoppedBy = r.stoppedBy
    BY <1>1, <1>5, FinishEnds
  <2> QED
    BY <1>1, <2>1 DEF Ends, Ended, n
<1> QED
  BY <1>2, <1>3, <1>4, <1>5

\* `recovered': what the restarted node makes of record d.
Recovers(n, d) ==
  /\ n.att = d.att /\ n.run = d.run /\ n.stoppedBy = d.stoppedBy /\ n.sealedBy = d.sealedBy
  /\ d.st = "Ready" => n.st = "Created" /\ n.out = d.out
  /\ d.st \in {"Launching"} \cup LiveStates => n.st = "Exited" /\ n.out = "unknown"
  /\ d.st \notin {"Ready", "Launching"} \cup LiveStates => n.st = d.st /\ n.out = d.out

LEMMA RecoveredIs == ASSUME NEW d \in TaskRec PROVE Recovers(Recovered(d), d)
<1>1. CASE d.st = "Ready"
  <2>1. Recovered(d) = [d EXCEPT !.st = "Created"]
    BY <1>1 DEF Recovered
  <2> QED
    BY <1>1, <2>1 DEF TaskRec, Recovers, LiveStates
<1>2. CASE d.st \in {"Launching"} \cup LiveStates
  <2>1. Recovered(d) = Finish(d, "Exited", "unknown") /\ "Exited" \in States /\ "unknown" \in Outcomes
    BY <1>2 DEF Recovered, States, Ended, Outcomes, LiveStates
  <2>2. /\ Ends(Recovered(d), d, "Exited", "unknown") /\ Recovered(d).run = d.run
        /\ Recovered(d).stoppedBy = d.stoppedBy
    BY <2>1, FinishEnds
  <2> QED
    BY <1>2, <2>2 DEF Recovers, Ends, LiveStates
<1>3. CASE d.st \notin {"Ready", "Launching"} \cup LiveStates
  BY <1>3 DEF Recovered, Recovers, LiveStates
<1> QED
  BY <1>1, <1>2, <1>3

\* Who is kept when a task is forgotten.
Keeps(r) == \A b \in Attempts :
  b \in kept' <=> \/ b \in kept /\ reap[b] # "done"
                  \/ r.run /\ b = r.att /\ reap[b] # "done"

LEMMA RetireKeeps ==
  ASSUME TypeInv, NEW t \in Tasks, mem[t].st # "absent", kept' = Retire(mem[t])
  PROVE  Keeps(mem[t])
<1>1. mem[t].att \in Attempts
  BY DEF TypeInv, MemInv, Named
<1> QED
  BY <1>1 DEF Retire, Keeps

--------------------------------------------------------------------------------
(* What each request changes *)

LEMMA CreateNewFacts ==
  ASSUME TypeInv, NEW a \in Attempts, CreateNew(a)
  PROVE  /\ Idle /\ a \notin retired /\ mem[TaskOf[a]].st = "absent"
         /\ Opens("journal", "create", a) /\ Fresh(job'.new)
         /\ UNCHANGED <<mem, kept, reap, frozen, stop, disk, retired, log, dir, up, todo, faults,
              acked, superseded, shown>>
<1> DEFINE r == mem[TaskOf[a]]
           new == NewTask(a)
<1>1. Begin("journal", "create", a, new)
  BY DEF CreateNew
<1>2. Fresh(new) /\ new.att = a
  BY NewTaskFresh
<1> HIDE DEF new
<1>3. Opens("journal", "create", a) /\ job'.new = new
  BY <1>1, <1>2, BeginPc DEF Opens
<1> QED
  BY <1>2, <1>3 DEF CreateNew, Idle, registry, workloads, durable, process, history

LEMMA CreateReplaceFacts ==
  ASSUME TypeInv, NEW a \in Attempts, CreateReplace(a)
  PROVE  /\ Idle /\ a \notin retired /\ mem[TaskOf[a]].st # "absent" /\ mem[TaskOf[a]].att # a
         /\ mem[TaskOf[a]].st \in Ended \cup {"Sealed"}
         /\ retired' = retired \cup {mem[TaskOf[a]].att}
         /\ Opens("journal", "create", a) /\ Fresh(job'.new)
         /\ UNCHANGED <<mem, kept, reap, frozen, stop, disk, log, dir, up, todo, faults, acked,
              superseded, shown>>
<1> DEFINE r == mem[TaskOf[a]]
           new == NewTask(a)
<1>1. Begin("journal", "create", a, new)
  BY DEF CreateReplace
<1>2. Fresh(new) /\ new.att = a
  BY NewTaskFresh
<1> HIDE DEF new
<1>3. Opens("journal", "create", a) /\ job'.new = new
  BY <1>1, <1>2, BeginPc DEF Opens
<1> QED
  BY <1>2, <1>3 DEF CreateReplace, Idle, Holds, Finished, RetireAttempt, registry, workloads,
    durable, process, history

LEMMA CreateEvictFacts ==
  ASSUME TypeInv, NEW a \in Attempts, CreateEvict(a)
  PROVE  /\ Idle /\ a \notin retired /\ mem[TaskOf[a]].st = "absent"
         /\ UNCHANGED <<reap, frozen, stop, retired, log, dir, up, todo, acked, superseded, shown>>
         /\ \E t \in Tasks :
              /\ mem[t].st = "Sealed" /\ DiskOnly(t)
              /\ \/ /\ Blank(disk'[t]) /\ Blank(mem'[t]) /\ MemOnly(t) /\ Keeps(mem[t])
                    /\ UNCHANGED faults /\ Opens("journal", "create", a) /\ Fresh(job'.new)
                 \/ /\ UNCHANGED <<mem, kept, job>> /\ faults' = faults + 1
                    /\ disk'[t] = disk[t] \/ Blank(disk'[t])
<1>1. PICK t \in Registered :
        /\ mem[t].st = "Sealed"
        /\ \/ /\ JournalOk(t, NoTask)
              /\ mem' = [mem EXCEPT ![t] = NoTask]
              /\ kept' = Retire(mem[t])
              /\ Begin("journal", "create", a, NewTask(a))
           \/ JournalErr(t, NoTask) /\ UNCHANGED <<mem, kept, job>>
  BY DEF CreateEvict
<1>2. t \in Tasks /\ mem \in [Tasks -> TaskRec] /\ disk \in [Tasks -> TaskRec]
  BY <1>1, Types DEF Registered
<1>3. CASE JournalOk(t, NoTask) /\ mem' = [mem EXCEPT ![t] = NoTask] /\ kept' = Retire(mem[t])
           /\ Begin("journal", "create", a, NewTask(a))
  <2>1. Keeps(mem[t])
    BY <1>1, <1>2, <1>3, RetireKeeps
  <2>2. Opens("journal", "create", a) /\ Fresh(job'.new)
    BY <1>3, BeginPc, NewTaskFresh DEF Opens
  <2>3. disk'[t] = NoTask /\ mem'[t] = NoTask /\ MemOnly(t) /\ DiskOnly(t) /\ UNCHANGED faults
    BY <1>2, <1>3 DEF JournalOk, MemOnly, DiskOnly
  <2>4. Blank(disk'[t]) /\ Blank(mem'[t])
    BY <2>3, NoTaskBlank
  <2>5. Idle /\ a \notin retired /\ mem[TaskOf[a]].st = "absent"
        /\ UNCHANGED <<reap, frozen, stop, retired, log, dir, up, todo, acked, superseded, shown>>
    BY DEF CreateEvict, workloads, history
  <2> QED
    BY <1>1, <1>2, <2>1, <2>2, <2>3, <2>4, <2>5
<1>4. CASE JournalErr(t, NoTask) /\ UNCHANGED <<mem, kept, job>>
  <2>1. DiskOnly(t) /\ faults' = faults + 1 /\ (disk'[t] = disk[t] \/ disk'[t] = NoTask)
    BY <1>2, <1>4 DEF JournalErr, DiskOnly, Fault
  <2>2. disk'[t] = disk[t] \/ Blank(disk'[t])
    BY <2>1, NoTaskBlank
  <2>3. Idle /\ a \notin retired /\ mem[TaskOf[a]].st = "absent"
        /\ UNCHANGED <<reap, frozen, stop, retired, log, dir, up, todo, acked, superseded, shown>>
    BY DEF CreateEvict, workloads, history
  <2> QED
    BY <1>1, <1>2, <1>4, <2>1, <2>2, <2>3
<1> QED
  BY <1>1, <1>3, <1>4

LEMMA AdmitFacts ==
  ASSUME TypeInv, NEW a \in Attempts, NEW v \in Versions, Admit(a, v)
  PROVE  /\ Idle /\ mem[TaskOf[a]].att = a
         /\ mem[TaskOf[a]].st = "Created"
         /\ Opens("journal", "admit", a) /\ Alike(job'.new, mem[TaskOf[a]]) /\ job'.new.st = "Ready"
         /\ UNCHANGED <<mem, kept, reap, frozen, stop, disk, retired, log, dir, up, todo, faults,
              acked, superseded, shown>>
<1> DEFINE r == mem[TaskOf[a]]
           new == [r EXCEPT !.st = "Ready", !.ver = v]
<1>1. Begin("journal", "admit", a, new)
  BY DEF Admit
<1>2. new.att = a /\ Alike(new, r) /\ new.st = "Ready"
  <2>1. r \in TaskRec /\ r.att = a
    BY HeldType DEF Admit
  <2> QED
    BY <2>1 DEF TaskRec, Alike
<1> HIDE DEF new
<1>3. Opens("journal", "admit", a) /\ job'.new = new
  BY <1>1, <1>2, BeginPc DEF Opens
<1> QED
  BY <1>2, <1>3 DEF Admit, Idle, Holds, Verified, registry, workloads, durable, process, history

LEMMA StopReadyFacts ==
  ASSUME TypeInv, NEW op \in Ops, NEW a \in Attempts, StopReady(op, a)
  PROVE  /\ Idle /\ mem[TaskOf[a]].att = a
         /\ mem[TaskOf[a]].st = "Ready"
         /\ Opens("journal", "stop", a) /\ Ends(job'.new, mem[TaskOf[a]], "Stopped", "failed")
         /\ job'.new.run = mem[TaskOf[a]].run
         /\ UNCHANGED <<mem, kept, reap, frozen, stop, disk, retired, log, dir, up, todo, faults,
              acked, superseded, shown>>
<1> DEFINE r == mem[TaskOf[a]]
           new == StoppedBy(r, "Stopped", "failed", op)
<1>1. Begin("journal", "stop", a, new)
  BY DEF StopReady, StoppedBy
<1>2. new.att = a /\ Ends(new, r, "Stopped", "failed") /\ new.run = r.run
  <2>1. r \in TaskRec /\ r.att = a
    BY HeldType DEF StopReady
  <2>2. "Stopped" \in States /\ "failed" \in Outcomes
    BY DEF States, Ended, Outcomes
  <2> QED
    BY <2>1, <2>2, EndedBy DEF Ends
<1> HIDE DEF new
<1>3. Opens("journal", "stop", a) /\ job'.new = new
  BY <1>1, <1>2, BeginPc DEF Opens
<1> QED
  BY <1>2, <1>3 DEF StopReady, Idle, Holds, StoppedBy, registry, workloads, durable, process,
    history

LEMMA RevokeReadyFacts ==
  ASSUME TypeInv, NEW op \in Ops, NEW a \in Attempts, RevokeReady(op, a)
  PROVE  /\ Idle /\ mem[TaskOf[a]].att = a
         /\ mem[TaskOf[a]].st = "Ready"
         /\ Opens("journal", "revoke", a) /\ Ends(job'.new, mem[TaskOf[a]], "Revoked", "failed")
         /\ job'.new.run = mem[TaskOf[a]].run /\ job'.new.stoppedBy = mem[TaskOf[a]].stoppedBy
         /\ UNCHANGED <<mem, kept, reap, frozen, stop, disk, retired, log, dir, up, todo, faults,
              acked, superseded, shown>>
<1> DEFINE r == mem[TaskOf[a]]
           new == RevokedBy(r, "Revoked", "failed", op)
<1>1. Begin("journal", "revoke", a, new)
  BY DEF RevokeReady, RevokedBy
<1>2. new.att = a /\ Ends(new, r, "Revoked", "failed") /\ new.run = r.run /\ new.stoppedBy = r.stoppedBy
  <2>1. r \in TaskRec /\ r.att = a
    BY HeldType DEF RevokeReady
  <2>2. "Revoked" \in States /\ "failed" \in Outcomes
    BY DEF States, Ended, Outcomes
  <2> QED
    BY <2>1, <2>2, EndedBy DEF Ends
<1> HIDE DEF new
<1>3. Opens("journal", "revoke", a) /\ job'.new = new
  BY <1>1, <1>2, BeginPc DEF Opens
<1> QED
  BY <1>2, <1>3 DEF RevokeReady, Idle, Holds, RevokedBy, RevokeLease, registry, workloads, durable,
    process, history

LEMMA SealFacts ==
  ASSUME TypeInv, NEW op \in Ops, NEW a \in Attempts, Seal(op, a)
  PROVE  /\ Idle /\ mem[TaskOf[a]].att = a
         /\ mem[TaskOf[a]].st \in Ended
         /\ Opens("journal", "seal", a) /\ job'.new.st = "Sealed" /\ job'.new.sealedBy \in Ops
         /\ job'.new.out = mem[TaskOf[a]].out /\ job'.new.run = mem[TaskOf[a]].run
         /\ job'.new.stoppedBy = mem[TaskOf[a]].stoppedBy
         /\ UNCHANGED <<mem, kept, reap, frozen, stop, disk, retired, log, dir, up, todo, faults,
              acked, superseded, shown>>
<1> DEFINE r == mem[TaskOf[a]]
           new == [r EXCEPT !.st = "Sealed", !.sealedBy = op, !.order = seals]
<1>1. Begin("journal", "seal", a, new)
  BY DEF Seal
<1>2. /\ new.att = a /\ new.st = "Sealed" /\ new.sealedBy = op
      /\ new.out = r.out /\ new.run = r.run /\ new.stoppedBy = r.stoppedBy
  <2>1. r \in TaskRec /\ r.att = a
    BY HeldType DEF Seal
  <2> QED
    BY <2>1 DEF TaskRec
<1> HIDE DEF new
<1>3. Opens("journal", "seal", a) /\ job'.new = new
  BY <1>1, <1>2, BeginPc DEF Opens
<1> QED
  BY <1>2, <1>3 DEF Seal, Idle, Holds, registry, workloads, durable, process, history

LEMMA StartFacts ==
  ASSUME TypeInv, NEW a \in Attempts, Start(a)
  PROVE  /\ Idle /\ mem[TaskOf[a]].att = a
         /\ mem[TaskOf[a]].st = "Ready" /\ a \notin dir /\ dir' = dir \cup {a} /\ SlotFree
         /\ Opens("intent", "start", a) /\ job'.new = mem[TaskOf[a]]
         /\ UNCHANGED <<mem, kept, reap, frozen, stop, disk, retired, log, up, todo, faults,
              acked, superseded, shown>>
<1> DEFINE r == mem[TaskOf[a]]
           new == r
<1>1. Begin("intent", "start", a, new)
  BY DEF Start
<1>2. new.att = a
  BY DEF Start, Holds
<1> HIDE DEF new
<1>3. Opens("intent", "start", a) /\ job'.new = new
  BY <1>1, <1>2, BeginPc DEF Opens
<1> QED
  BY <1>2, <1>3 DEF Start, Idle, Holds, Revalidated, Materialise, new, registry, workloads, durable,
    process, history

LEMMA PauseFacts ==
  ASSUME TypeInv, NEW a \in Attempts, Pause(a)
  PROVE  /\ Idle /\ mem[TaskOf[a]].att = a
         /\ mem[TaskOf[a]].st = "Running" /\ mem[TaskOf[a]].run /\ a \notin stop
         /\ frozen'[a] = "yes" /\ FrozenOnly(a)
         /\ Opens("journal", "pause", a) /\ Alike(job'.new, mem[TaskOf[a]]) /\ job'.new.st = "Paused"
         /\ UNCHANGED <<mem, kept, reap, stop, disk, retired, log, dir, up, todo, faults, acked,
              superseded, shown>>
<1> DEFINE r == mem[TaskOf[a]]
           new == [r EXCEPT !.st = "Paused", !.pauses = @ + 1]
<1>1. Begin("journal", "pause", a, new)
  BY DEF Pause
<1>2. /\ new.att = a /\ Alike(new, r) /\ new.st = "Paused"
      /\ frozen'[a] = "yes" /\ FrozenOnly(a)
  <2>1. r \in TaskRec /\ r.att = a
    BY HeldType DEF Pause
  <2>2. frozen'[a] = "yes" /\ FrozenOnly(a)
    BY Types DEF Pause, FrozenOnly
  <2> QED
    BY <2>1, <2>2 DEF TaskRec, Alike
<1> HIDE DEF new
<1>3. Opens("journal", "pause", a) /\ job'.new = new
  BY <1>1, <1>2, BeginPc DEF Opens
<1> QED
  BY <1>2, <1>3 DEF Pause, Idle, Holds, registry, workloads, durable, process, history

LEMMA ResumeFacts ==
  ASSUME TypeInv, NEW a \in Attempts, Resume(a)
  PROVE  /\ Idle /\ mem[TaskOf[a]].att = a /\ a \notin stop
         /\ mem[TaskOf[a]].st = "Paused" /\ mem[TaskOf[a]].run /\ FrozenOnly(a)
         /\ UNCHANGED <<mem, kept, reap, stop, disk, retired, log, dir, up, todo, acked,
              superseded, shown>>
         /\ \/ /\ frozen'[a] = "no" /\ UNCHANGED faults /\ Opens("journal", "resume", a)
               /\ Alike(job'.new, mem[TaskOf[a]]) /\ job'.new.st = "Running"
            \/ frozen'[a] = "unsure" /\ faults' = faults + 1 /\ UNCHANGED job
<1> DEFINE r == mem[TaskOf[a]]
           new == [r EXCEPT !.st = "Running"]
<1>1. r \in TaskRec /\ r.att = a
  BY HeldType DEF Resume
<1>2. new.att = a /\ Alike(new, r) /\ new.st = "Running"
  BY <1>1 DEF TaskRec, Alike
<1>3. \/ frozen' = [frozen EXCEPT ![a] = "no"] /\ Begin("journal", "resume", a, new) /\ UNCHANGED faults
      \/ faults' = faults + 1 /\ frozen' = [frozen EXCEPT ![a] = "unsure"] /\ UNCHANGED job
  BY DEF Resume, Fault
<1> HIDE DEF new
<1>4. \/ /\ frozen'[a] = "no" /\ UNCHANGED faults /\ Opens("journal", "resume", a)
         /\ job'.new = new
      \/ frozen'[a] = "unsure" /\ faults' = faults + 1 /\ UNCHANGED job
  BY <1>2, <1>3, Types, BeginPc DEF Opens
<1>5. FrozenOnly(a)
  BY <1>3, Types DEF FrozenOnly
<1> QED
  BY <1>1, <1>2, <1>4, <1>5 DEF Resume, Idle, Holds, durable, history

\* A kill is requested: a paused tree is continued and the task reads Running.
Kills(a) ==
  /\ Idle /\ mem[TaskOf[a]].att = a /\ mem[TaskOf[a]].st \in LiveStates /\ mem[TaskOf[a]].run
  /\ stop' = stop \cup {a} /\ MemOnly(TaskOf[a])
  /\ Alike(mem'[TaskOf[a]], mem[TaskOf[a]]) /\ mem'[TaskOf[a]].st = "Running"
  /\ FrozenOnly(a)
  /\ \/ mem[TaskOf[a]].st = "Running" /\ frozen'[a] = frozen[a] /\ UNCHANGED faults
     \/ mem[TaskOf[a]].st = "Paused" /\ frozen'[a] = "no" /\ UNCHANGED faults
     \/ mem[TaskOf[a]].st = "Paused" /\ frozen'[a] = "unsure" /\ faults' = faults + 1
  /\ UNCHANGED <<kept, job, reap, disk, retired, log, dir, up, todo, acked, superseded, shown>>

LEMMA StopLiveFacts ==
  ASSUME TypeInv, NEW op \in Ops, NEW a \in Attempts, StopLive(op, a)
  PROVE  Kills(a)
<1> DEFINE t == TaskOf[a]
           v == IF mem[t].stopReq = None THEN op ELSE mem[t].stopReq
           q == [mem[t] EXCEPT !.stopReq = v]
           n == [q EXCEPT !.st = "Running"]
<1>1. t \in Tasks /\ mem[t] \in TaskRec /\ mem[t].att = a /\ IsLive(mem[t]) /\ mem[t].run
  BY HeldType DEF StopLive
<1>3. EndAttempt(a, q)
  BY DEF StopLive
<1>0. v \in Ops \cup {None}
  BY <1>1 DEF TaskRec
<1> HIDE DEF v
<1>2. q \in TaskRec /\ Alike(q, mem[t]) /\ q.st = mem[t].st
  <2>1. q \in TaskRec
    BY <1>0, <1>1 DEF TaskRec
  <2>2. Alike(q, mem[t]) /\ q.st = mem[t].st
    BY <1>1 DEF TaskRec, Alike
  <2> QED
    BY <2>1, <2>2
<1> HIDE DEF q
<1>4. Alike(n, q) /\ n.st = "Running"
  BY <1>2 DEF TaskRec, Alike
<1>5. mem' = [mem EXCEPT ![t] = n] /\ stop' = stop \cup {a}
  BY <1>3 DEF EndAttempt
<1> HIDE DEF n
<1>6. mem'[t] = n /\ MemOnly(t)
  BY <1>1, <1>5, Types DEF MemOnly
<1>7. /\ FrozenOnly(a)
      /\ \/ q.st # "Paused" /\ frozen'[a] = frozen[a] /\ UNCHANGED faults
         \/ q.st = "Paused" /\ frozen'[a] = "no" /\ UNCHANGED faults
         \/ q.st = "Paused" /\ frozen'[a] = "unsure" /\ faults' = faults + 1
  BY <1>3, Types DEF EndAttempt, FrozenOnly, Fault
<1>8. mem[t].st \in LiveStates /\ (q.st # "Paused" => mem[t].st = "Running")
  BY <1>1, <1>2 DEF IsLive, LiveStates
<1>9. Alike(mem'[t], mem[t]) /\ mem'[t].st = "Running"
  BY <1>2, <1>4, <1>6 DEF Alike
<1>10. Idle /\ UNCHANGED <<kept, job, reap, disk, retired, log, dir, up, todo, acked, superseded,
            shown>>
  BY DEF StopLive, durable, history, RevokeLease
<1> QED
  BY <1>1, <1>2, <1>5, <1>6, <1>7, <1>8, <1>9, <1>10 DEF Kills

LEMMA RevokeLiveFacts ==
  ASSUME TypeInv, NEW op \in Ops, NEW a \in Attempts, RevokeLive(op, a)
  PROVE  Kills(a)
<1> DEFINE t == TaskOf[a]
           v == IF mem[t].revReq = None THEN op ELSE mem[t].revReq
           q == [mem[t] EXCEPT !.revReq = v]
           n == [q EXCEPT !.st = "Running"]
<1>1. t \in Tasks /\ mem[t] \in TaskRec /\ mem[t].att = a /\ IsLive(mem[t]) /\ mem[t].run
  BY HeldType DEF RevokeLive
<1>3. EndAttempt(a, q)
  BY DEF RevokeLive
<1>0. v \in Ops \cup {None}
  BY <1>1 DEF TaskRec
<1> HIDE DEF v
<1>2. q \in TaskRec /\ Alike(q, mem[t]) /\ q.st = mem[t].st
  <2>1. q \in TaskRec
    BY <1>0, <1>1 DEF TaskRec
  <2>2. Alike(q, mem[t]) /\ q.st = mem[t].st
    BY <1>1 DEF TaskRec, Alike
  <2> QED
    BY <2>1, <2>2
<1> HIDE DEF q
<1>4. Alike(n, q) /\ n.st = "Running"
  BY <1>2 DEF TaskRec, Alike
<1>5. mem' = [mem EXCEPT ![t] = n] /\ stop' = stop \cup {a}
  BY <1>3 DEF EndAttempt
<1> HIDE DEF n
<1>6. mem'[t] = n /\ MemOnly(t)
  BY <1>1, <1>5, Types DEF MemOnly
<1>7. /\ FrozenOnly(a)
      /\ \/ q.st # "Paused" /\ frozen'[a] = frozen[a] /\ UNCHANGED faults
         \/ q.st = "Paused" /\ frozen'[a] = "no" /\ UNCHANGED faults
         \/ q.st = "Paused" /\ frozen'[a] = "unsure" /\ faults' = faults + 1
  BY <1>3, Types DEF EndAttempt, FrozenOnly, Fault
<1>8. mem[t].st \in LiveStates /\ (q.st # "Paused" => mem[t].st = "Running")
  BY <1>1, <1>2 DEF IsLive, LiveStates
<1>9. Alike(mem'[t], mem[t]) /\ mem'[t].st = "Running"
  BY <1>2, <1>4, <1>6 DEF Alike
<1>10. Idle /\ UNCHANGED <<kept, job, reap, disk, retired, log, dir, up, todo, acked, superseded,
            shown>>
  BY DEF RevokeLive, durable, history, RevokeLease
<1> QED
  BY <1>1, <1>2, <1>5, <1>6, <1>7, <1>8, <1>9, <1>10 DEF Kills

LEMMA FinishStopFacts ==
  ASSUME TypeInv, NEW w \in waits, FinishStop(w)
  PROVE  /\ Idle /\ UNCHANGED <<mem, kept, job, reap, frozen, stop, disk, retired, log, dir, up,
              todo, faults, superseded, shown>> /\ w.att \in Attempts
         /\ \/ UNCHANGED acked
            \/ /\ acked' = acked \cup {w.att} /\ mem[TaskOf[w.att]].att = w.att
               /\ mem[TaskOf[w.att]].stoppedBy \in Ops
<1>1. w.att \in Attempts /\ w.op \in Ops
  BY DEF TypeInv, RestInv, Wait
<1>2. \/ UNCHANGED acked
      \/ acked' = acked \cup {w.att} /\ StopAnswer(w.op, w.att)
  BY DEF FinishStop
<1> QED
  BY <1>1, <1>2 DEF FinishStop, StopAnswer, Holds, workloads, durable, process

LEMMA StopReplayFacts ==
  ASSUME TypeInv, NEW op \in Ops, NEW a \in Attempts, StopReplay(op, a)
  PROVE  /\ Idle /\ UNCHANGED <<mem, kept, job, reap, frozen, stop, disk, retired, log, dir, up,
              todo, faults, superseded, shown>>
         /\ acked' = acked \cup {a} /\ mem[TaskOf[a]].att = a
         /\ mem[TaskOf[a]].stoppedBy \in Ops
BY DEF StopReplay, StopAnswer, Holds, registry, workloads, durable, process

LEMMA FinishRevokeFacts ==
  ASSUME TypeInv, NEW w \in waits, FinishRevoke(w)
  PROVE  /\ Idle /\ UNCHANGED <<mem, kept, reap, frozen, stop, disk, retired, log, dir, up, todo,
              faults, acked, superseded, shown>> /\ w.att \in Attempts
         /\ \/ UNCHANGED job
            \/ /\ mem[TaskOf[w.att]].att = w.att /\ mem[TaskOf[w.att]].st \in LiveStates
               /\ Opens("journal", "unconfirmed", w.att)
               /\ Ends(job'.new, mem[TaskOf[w.att]], "Revoked", "unknown")
               /\ job'.new.run = mem[TaskOf[w.att]].run
               /\ job'.new.stoppedBy = mem[TaskOf[w.att]].stoppedBy
<1> DEFINE r == mem[TaskOf[w.att]]
           new == RevokedBy(r, "Revoked", "unknown", w.op)
<1>1. w.att \in Attempts /\ w.op \in Ops
  BY DEF TypeInv, RestInv, Wait
<1>2. "Revoked" \in States /\ "unknown" \in Outcomes
  BY DEF States, Ended, Outcomes
<1>3. \/ UNCHANGED job
      \/ /\ Holds(w.att) /\ IsLive(r) /\ Begin("journal", "unconfirmed", w.att, new)
  BY DEF FinishRevoke, RevokedBy
<1>4. Holds(w.att) => Ends(new, r, "Revoked", "unknown") /\ new.run = r.run /\ new.stoppedBy = r.stoppedBy
  BY <1>1, <1>2, HeldType, EndedBy
<1> HIDE DEF new
<1>5. \/ UNCHANGED job
      \/ /\ Holds(w.att) /\ IsLive(r) /\ Opens("journal", "unconfirmed", w.att) /\ job'.new = new
  BY <1>3, <1>4, BeginPc DEF Opens, Ends, Holds
<1> QED
  BY <1>1, <1>4, <1>5 DEF FinishRevoke, Holds, IsLive, workloads, durable, process, history

--------------------------------------------------------------------------------
(* What each step of a handler, of a reaper and of a restart changes *)

LEMMA CreateWriteFacts ==
  ASSUME TypeInv, CreateWrite
  PROVE  /\ up = "up" /\ job.pc = "journal" /\ job.verb = "create"
         /\ UNCHANGED <<reap, frozen, stop, retired, log, dir, up, todo, acked>>
         /\ \/ /\ Writes(TaskOf[job.att], job.new) /\ Applies
               /\ mem[TaskOf[job.att]].st = "absent" => UNCHANGED <<kept, superseded>>
               /\ mem[TaskOf[job.att]].st # "absent" =>
                    Keeps(mem[TaskOf[job.att]]) /\ superseded' = superseded \cup {mem[TaskOf[job.att]].att}
            \/ Fails(TaskOf[job.att], job.new) /\ Closes /\ UNCHANGED <<mem, kept, superseded, shown>>
<1>0. job.pc # "idle" /\ up = "up"
  BY DEF CreateWrite, At
<1>1. job.att \in Attempts /\ TaskOf[job.att] \in Tasks /\ job.new \in TaskRec /\ job.new.st \in States
  BY <1>0, JobTypes
<1>2. /\ JournalOk(TaskOf[job.att], Record(job.new)) => Writes(TaskOf[job.att], job.new)
      /\ JournalErr(TaskOf[job.att], Record(job.new)) => Fails(TaskOf[job.att], job.new)
  BY <1>1, JournalMoves
<1>3. CASE /\ JournalOk(TaskOf[job.att], Record(job.new)) /\ Apply
           /\ IF mem[TaskOf[job.att]].st = "absent"
                THEN UNCHANGED <<kept, superseded>>
                ELSE kept' = Retire(mem[TaskOf[job.att]]) /\ superseded' = superseded \cup {mem[TaskOf[job.att]].att}
  <2>1. Applies
    BY <1>0, <1>3, ApplyMoves
  <2>2. mem[TaskOf[job.att]].st # "absent" /\ kept' = Retire(mem[TaskOf[job.att]]) => Keeps(mem[TaskOf[job.att]])
    BY <1>1, RetireKeeps
  <2>3. job.pc = "journal" /\ job.verb = "create" /\ UNCHANGED <<reap, frozen, stop, retired,
             log, dir, up, todo, acked>>
    BY DEF CreateWrite, At, workloads
  <2> QED
    BY <1>0, <1>2, <1>3, <2>1, <2>2, <2>3
<1>4. CASE JournalErr(TaskOf[job.att], Record(job.new)) /\ Done /\ UNCHANGED <<mem, kept,
           superseded, shown>>
  BY <1>0, <1>2, <1>4, DoneCloses DEF CreateWrite, At, workloads
<1> QED
  BY <1>3, <1>4 DEF CreateWrite

LEMMA CommitJournalFacts ==
  ASSUME TypeInv, CommitJournal
  PROVE  /\ up = "up" /\ job.pc = "journal" /\ job.verb # "create"
         /\ UNCHANGED <<mem, kept, reap, frozen, stop, retired, log, dir, up, todo, acked,
              superseded, shown>>
         /\ \/ /\ Writes(TaskOf[job.att], job.new)
               /\ job.verb = "admit" => Moves("version")
               /\ job.verb = "seal" => Moves("seal")
               /\ job.verb \notin {"admit", "seal"} => Moves("evidence")
            \/ Fails(TaskOf[job.att], job.new) /\ Refuses
<1>0. job.pc # "idle" /\ up = "up"
  BY DEF CommitJournal, At
<1>1. job.att \in Attempts /\ TaskOf[job.att] \in Tasks /\ job.new \in TaskRec /\ job.new.st \in States
  BY <1>0, JobTypes
<1>2. /\ JournalOk(TaskOf[job.att], Record(job.new)) => Writes(TaskOf[job.att], job.new)
      /\ JournalErr(TaskOf[job.att], Record(job.new)) => Fails(TaskOf[job.att], job.new)
  BY <1>1, JournalMoves
<1>3. \/ /\ JournalOk(TaskOf[job.att], Record(job.new))
         /\ job.verb = "admit" => Goto("version")
         /\ job.verb = "seal" => Goto("seal")
         /\ job.verb \notin {"admit", "seal"} => Goto("evidence")
      \/ JournalErr(TaskOf[job.att], Record(job.new)) /\ Refuse
  BY DEF CommitJournal
<1>4. \/ /\ Writes(TaskOf[job.att], job.new)
         /\ job.verb = "admit" => Moves("version")
         /\ job.verb = "seal" => Moves("seal")
         /\ job.verb \notin {"admit", "seal"} => Moves("evidence")
      \/ Fails(TaskOf[job.att], job.new) /\ Refuses
  BY <1>2, <1>3, GotoMoves, RefuseMoves
<1> QED
  BY <1>0, <1>4 DEF CommitJournal, At, workloads, history

LEMMA CommitVersionFacts ==
  ASSUME TypeInv, CommitVersion
  PROVE  /\ up = "up" /\ job.pc = "version" /\ UNCHANGED <<mem, kept, reap, frozen, stop, disk,
              retired, log, dir, up, todo, acked, superseded, shown>>
         /\ \/ Moves("evidence") /\ UNCHANGED faults
            \/ Moves("restore") /\ faults' = faults + 1
<1>0. job.pc # "idle" /\ up = "up"
  BY DEF CommitVersion, At
<1>1. job.att \in Attempts /\ TaskOf[job.att] \in Tasks /\ job.new \in TaskRec /\ job.new.st \in States
  BY <1>0, JobTypes
<1> QED
  BY <1>0, GotoMoves DEF CommitVersion, At, Fault, workloads, history

LEMMA CommitEvidenceFacts ==
  ASSUME TypeInv, CommitEvidence
  PROVE  /\ up = "up" /\ job.pc = "evidence" /\ UNCHANGED <<kept, reap, frozen, stop, disk,
              retired, dir, up, todo, superseded>>
         /\ \/ /\ Logs(job.att, job.new.st, job.new.out, None) /\ Applies
               /\ job.verb = "stop" => acked' = acked \cup {job.att}
               /\ job.verb # "stop" => UNCHANGED acked
            \/ /\ Misses(job.att, job.new.st, job.new.out, None) /\ Moves("restore")
               /\ UNCHANGED <<mem, acked, shown>>
<1>0. job.pc # "idle" /\ up = "up"
  BY DEF CommitEvidence, At
<1>1. job.att \in Attempts /\ TaskOf[job.att] \in Tasks /\ job.new \in TaskRec /\ job.new.st \in States
  BY <1>0, JobTypes
<1> DEFINE l == Recorded(log[job.att], job.new)
<1>2. /\ AppendOk(job.att, l) => Logs(job.att, job.new.st, job.new.out, None)
      /\ AppendErr(job.att, l) => Misses(job.att, job.new.st, job.new.out, None)
  BY <1>1, RecordMoves
<1>3. \/ /\ AppendOk(job.att, l) /\ Apply
         /\ job.verb = "stop" => acked' = acked \cup {job.att}
         /\ job.verb # "stop" => UNCHANGED acked
      \/ AppendErr(job.att, l) /\ Goto("restore") /\ UNCHANGED <<mem, acked, shown>>
  BY DEF CommitEvidence
<1> HIDE DEF l
<1> QED
  BY <1>0, <1>2, <1>3, ApplyMoves, GotoMoves DEF CommitEvidence, At, workloads

LEMMA RestoreFacts ==
  ASSUME TypeInv, Restore
  PROVE  /\ up = "up" /\ job.pc = "restore" /\ UNCHANGED <<mem, kept, reap, frozen, stop,
              retired, log, dir, up, todo, acked, superseded, shown>>
         /\ Writes(TaskOf[job.att], mem[TaskOf[job.att]]) \/ Fails(TaskOf[job.att], mem[TaskOf[job.att]])
         /\ Refuses
<1>0. job.pc # "idle" /\ up = "up"
  BY DEF Restore, At
<1>1. job.att \in Attempts /\ TaskOf[job.att] \in Tasks /\ job.new \in TaskRec /\ job.new.st \in States
  BY <1>0, JobTypes
<1>2. mem[TaskOf[job.att]] \in TaskRec
  BY <1>1, Types
<1>3. /\ JournalOk(TaskOf[job.att], Record(mem[TaskOf[job.att]])) => Writes(TaskOf[job.att], mem[TaskOf[job.att]])
      /\ JournalErr(TaskOf[job.att], Record(mem[TaskOf[job.att]])) => Fails(TaskOf[job.att], mem[TaskOf[job.att]])
  BY <1>1, <1>2, JournalMoves
<1> QED
  BY <1>0, <1>3, RefuseMoves DEF Restore, At, workloads, history

LEMMA UndoFacts ==
  ASSUME TypeInv, Undo
  PROVE  /\ up = "up" /\ job.pc = "undo" /\ UNCHANGED <<mem, kept, reap, stop, disk, retired,
              log, dir, up, todo, acked, superseded, shown>> /\ Closes /\ FrozenOnly(job.att)
         /\ \/ /\ frozen'[job.att] = (IF job.verb = "pause" THEN "no" ELSE "yes")
               /\ UNCHANGED faults
            \/ frozen'[job.att] = "unsure" /\ faults' = faults + 1
<1>0. job.pc # "idle" /\ up = "up"
  BY DEF Undo, At
<1>1. job.att \in Attempts /\ TaskOf[job.att] \in Tasks /\ job.new \in TaskRec /\ job.new.st \in States
  BY <1>0, JobTypes
<1>2. /\ FrozenOnly(job.att)
      /\ \/ /\ frozen'[job.att] = (IF job.verb = "pause" THEN "no" ELSE "yes")
            /\ UNCHANGED faults
         \/ frozen'[job.att] = "unsure" /\ faults' = faults + 1
  BY <1>1, Types DEF Undo, FrozenOnly, Fault
<1> QED
  BY <1>0, <1>2, DoneCloses DEF Undo, At, durable, history

\* Only the HEAD file of a log changes.
Heads(a, h) ==
  /\ LogOnly(a) /\ log'[a].head = h /\ log'[a].torn = log[a].torn
  /\ Says(log'[a], log[a].held, log[a].out, log[a].by)

LEMMA HeadMoves ==
  ASSUME TypeInv, NEW a \in Attempts, NEW h, log' = [log EXCEPT ![a].head = h]
  PROVE  Heads(a, h)
<1>1. log \in [Attempts -> LogRec] /\ log[a] \in LogRec
  BY Types
<1>2. log'[a] = [log[a] EXCEPT !.head = h] /\ LogOnly(a)
  BY <1>1 DEF LogOnly
<1> QED
  BY <1>1, <1>2 DEF LogRec, Heads, Says

LEMMA SealOpenFacts ==
  ASSUME TypeInv, SealOpen
  PROVE  /\ up = "up" /\ job.pc = "seal" /\ UNCHANGED <<kept, reap, frozen, stop, disk, retired,
              dir, up, todo, acked, superseded>>
         /\ \/ /\ log[job.att].head = "ok" /\ log[job.att].by = job.new.sealedBy
               /\ Applies /\ UNCHANGED <<log, faults>>
            \/ /\ log[job.att].head # "none" \/ log[job.att].torn
               /\ Moves("restore") /\ UNCHANGED <<mem, shown, log, faults>>
            \/ /\ log[job.att].head = "none" /\ ~log[job.att].torn
               /\ log[job.att].by = job.new.sealedBy
               /\ Moves("headNew") /\ UNCHANGED <<mem, shown, log, faults>>
            \/ /\ log[job.att].head = "none" /\ ~log[job.att].torn
               /\ log[job.att].held = mem[TaskOf[job.att]].st /\ log[job.att].out = mem[TaskOf[job.att]].out
               /\ Moves("mark") /\ UNCHANGED <<mem, shown, log, faults>>
            \/ /\ log[job.att].head = "none" /\ ~log[job.att].torn
               /\ log[job.att].by # job.new.sealedBy
               /\ ~(log[job.att].held = mem[TaskOf[job.att]].st /\ log[job.att].out = mem[TaskOf[job.att]].out)
               /\ UNCHANGED <<mem, shown>>
               /\ \/ Logs(job.att, mem[TaskOf[job.att]].st, mem[TaskOf[job.att]].out, None) /\ Moves("mark")
                  \/ Misses(job.att, mem[TaskOf[job.att]].st, mem[TaskOf[job.att]].out, None) /\ Moves("restore")
<1>0. job.pc # "idle" /\ up = "up"
  BY DEF SealOpen, At
<1>1. job.att \in Attempts /\ TaskOf[job.att] \in Tasks /\ job.new \in TaskRec /\ job.new.st \in States
  BY <1>0, JobTypes
<1> DEFINE a == job.att
           l == log[a]
           r == mem[TaskOf[a]]
           end == Recorded(l, r)
<1>2. r \in TaskRec /\ r.st \in States
  <2>1. job.verb = "seal"
    BY DEF SealOpen, At, TypeInv, SealInv
  <2>2. r \in TaskRec /\ r.st # "absent" /\ r.st # "Launching"
    BY <1>0, <1>1, <2>1 DEF TypeInv, MemInv, SealInv
  <2> QED
    BY <2>2 DEF TaskRec
<1>3. /\ AppendOk(a, end) => Logs(a, r.st, r.out, None)
      /\ AppendErr(a, end) => Misses(a, r.st, r.out, None)
  BY <1>1, <1>2, RecordMoves
<1>4. \/ /\ l.head = "ok" /\ ~l.torn /\ l.by = job.new.sealedBy
         /\ Apply /\ UNCHANGED <<log, faults>>
      \/ /\ (l.head = "ok" /\ l.by # job.new.sealedBy) \/ l.head = "torn" \/ l.torn
         /\ Goto("restore") /\ UNCHANGED <<mem, shown, log, faults>>
      \/ /\ Appendable(l) /\ l.by = job.new.sealedBy
         /\ Goto("headNew") /\ UNCHANGED <<mem, shown, log, faults>>
      \/ /\ Appendable(l) /\ l.held = r.st /\ l.out = r.out
         /\ Goto("mark") /\ UNCHANGED <<mem, shown, log, faults>>
      \/ /\ Appendable(l) /\ l.by # job.new.sealedBy /\ ~(l.held = r.st /\ l.out = r.out)
         /\ \/ AppendOk(a, end) /\ Goto("mark")
            \/ AppendErr(a, end) /\ Goto("restore")
         /\ UNCHANGED <<mem, shown>>
  BY DEF SealOpen
<1> HIDE DEF end
<1>5. job.pc = "seal" /\ UNCHANGED <<kept, reap, frozen, stop, disk, retired, dir, up, todo,
           acked, superseded>>
  BY DEF SealOpen, At, workloads
<1>6. CASE l.head = "ok" /\ ~l.torn /\ l.by = job.new.sealedBy /\ Apply /\ UNCHANGED <<log, faults>>
  BY <1>0, <1>5, <1>6, ApplyMoves
<1>7. CASE /\ (l.head = "ok" /\ l.by # job.new.sealedBy) \/ l.head = "torn" \/ l.torn
           /\ Goto("restore") /\ UNCHANGED <<mem, shown, log, faults>>
  BY <1>0, <1>5, <1>7, GotoMoves
<1>8. CASE /\ Appendable(l) /\ l.by = job.new.sealedBy
           /\ Goto("headNew") /\ UNCHANGED <<mem, shown, log, faults>>
  BY <1>0, <1>5, <1>8, GotoMoves DEF Appendable
<1>9. CASE /\ Appendable(l) /\ l.held = r.st /\ l.out = r.out
           /\ Goto("mark") /\ UNCHANGED <<mem, shown, log, faults>>
  BY <1>0, <1>5, <1>9, GotoMoves DEF Appendable
<1>10. CASE /\ Appendable(l) /\ l.by # job.new.sealedBy /\ ~(l.held = r.st /\ l.out = r.out)
            /\ \/ AppendOk(a, end) /\ Goto("mark")
               \/ AppendErr(a, end) /\ Goto("restore")
            /\ UNCHANGED <<mem, shown>>
  BY <1>0, <1>3, <1>5, <1>10, GotoMoves DEF Appendable
<1> QED
  BY <1>4, <1>6, <1>7, <1>8, <1>9, <1>10

LEMMA SealMarkFacts ==
  ASSUME TypeInv, SealMark
  PROVE  /\ up = "up" /\ job.pc = "mark" /\ UNCHANGED <<mem, kept, reap, frozen, stop, disk,
              retired, dir, up, todo, acked, superseded, shown>>
         /\ \/ Logs(job.att, "Sealed", log[job.att].out, job.new.sealedBy) /\ Moves("headNew")
            \/ Misses(job.att, "Sealed", log[job.att].out, job.new.sealedBy) /\ Moves("restore")
<1>0. job.pc # "idle" /\ up = "up"
  BY DEF SealMark, At
<1>1. job.att \in Attempts /\ TaskOf[job.att] \in Tasks /\ job.new \in TaskRec /\ job.new.st \in States
  BY <1>0, JobTypes
<1> DEFINE l == [log[job.att] EXCEPT !.held = "Sealed", !.by = job.new.sealedBy]
<1>2. /\ l \in LogRec /\ l.head = log[job.att].head /\ l.torn = log[job.att].torn
      /\ l.held = "Sealed" /\ l.out = log[job.att].out /\ l.by = job.new.sealedBy
  <2>1. log[job.att] \in LogRec /\ job.new.sealedBy \in Ops \cup {None} /\ "Sealed" \in States
    BY <1>1, Types DEF TaskRec, States
  <2> QED
    BY <2>1 DEF LogRec
<1>3. \/ AppendOk(job.att, l) /\ Goto("headNew")
      \/ AppendErr(job.att, l) /\ Goto("restore")
  BY DEF SealMark
<1> HIDE DEF l
<1>4. /\ AppendOk(job.att, l) => Logs(job.att, l.held, l.out, l.by)
      /\ AppendErr(job.att, l) => Misses(job.att, l.held, l.out, l.by)
  BY <1>1, <1>2, AppendMoves
<1>5. \/ Logs(job.att, "Sealed", log[job.att].out, job.new.sealedBy) /\ Moves("headNew")
      \/ Misses(job.att, "Sealed", log[job.att].out, job.new.sealedBy) /\ Moves("restore")
  BY <1>2, <1>3, <1>4, GotoMoves
<1> QED
  BY <1>0, <1>5 DEF SealMark, At, workloads, history

LEMMA SealHeadNewFacts ==
  ASSUME TypeInv, SealHeadNew
  PROVE  /\ up = "up" /\ job.pc = "headNew" /\ UNCHANGED <<mem, kept, reap, frozen, stop, disk,
              retired, dir, up, todo, acked, superseded, shown>>
         /\ \/ Heads(job.att, "torn") /\ Moves("headText") /\ UNCHANGED faults
            \/ Moves("restore") /\ faults' = faults + 1 /\ UNCHANGED log
<1>0. job.pc # "idle" /\ up = "up"
  BY DEF SealHeadNew, At
<1>1. job.att \in Attempts /\ TaskOf[job.att] \in Tasks /\ job.new \in TaskRec /\ job.new.st \in States
  BY <1>0, JobTypes
<1> QED
  BY <1>0, <1>1, HeadMoves, GotoMoves DEF SealHeadNew, At, Fault, workloads, history

LEMMA SealHeadTextFacts ==
  ASSUME TypeInv, SealHeadText
  PROVE  /\ up = "up" /\ job.pc = "headText" /\ UNCHANGED <<kept, reap, frozen, stop, disk,
              retired, dir, up, todo, acked, superseded>>
         /\ \/ Heads(job.att, "ok") /\ Applies /\ UNCHANGED faults
            \/ /\ Heads(job.att, "torn") \/ Heads(job.att, "ok")
               /\ Moves("restore") /\ faults' = faults + 1 /\ UNCHANGED <<mem, shown>>
<1>0. job.pc # "idle" /\ up = "up"
  BY DEF SealHeadText, At
<1>1. job.att \in Attempts /\ TaskOf[job.att] \in Tasks /\ job.new \in TaskRec /\ job.new.st \in States
  BY <1>0, JobTypes
<1>2. CASE log' = [log EXCEPT ![job.att].head = "ok"] /\ Apply /\ UNCHANGED faults
  BY <1>0, <1>1, <1>2, HeadMoves, ApplyMoves DEF SealHeadText, At, workloads
<1>3. CASE /\ Fault /\ \E h \in {"torn", "ok"} : log' = [log EXCEPT ![job.att].head = h]
           /\ Goto("restore") /\ UNCHANGED <<mem, shown>>
  <2>1. PICK h \in {"torn", "ok"} : log' = [log EXCEPT ![job.att].head = h]
    BY <1>3
  <2>2. Heads(job.att, h)
    BY <1>1, <2>1, HeadMoves
  <2> QED
    BY <1>0, <1>3, <2>2, GotoMoves DEF SealHeadText, At, Fault, workloads
<1> QED
  BY <1>2, <1>3 DEF SealHeadText

\* Record d is the launch intent of task r.
Intends(d, r) ==
  /\ d.att = r.att /\ d.st = "Launching" /\ d.out = r.out /\ ~d.run
  /\ d.stoppedBy = r.stoppedBy /\ d.sealedBy = r.sealedBy

LEMMA LaunchIntentFacts ==
  ASSUME TypeInv, LaunchIntent
  PROVE  /\ up = "up" /\ job.pc = "intent" /\ DiskOnly(TaskOf[job.att])
         /\ UNCHANGED <<mem, kept, frozen, stop, retired, log, up, todo, acked, superseded, shown>>
         /\ \/ /\ Intends(disk'[TaskOf[job.att]], job.new) /\ UNCHANGED <<faults, dir>>
               /\ reap'[job.att] = "launching" /\ ReapOnly(job.att) /\ Moves("spawn")
            \/ /\ disk'[TaskOf[job.att]] = disk[TaskOf[job.att]] \/ Intends(disk'[TaskOf[job.att]], job.new)
               /\ faults' = faults + 1 /\ dir' = dir \ {job.att} /\ Closes /\ UNCHANGED reap
<1>0. job.pc # "idle" /\ up = "up"
  BY DEF LaunchIntent, At
<1>1. job.att \in Attempts /\ TaskOf[job.att] \in Tasks /\ job.new \in TaskRec /\ job.new.st \in States
  BY <1>0, JobTypes
<1> DEFINE q == Record(job.new)
           d == [q EXCEPT !.st = "Launching"]
<1>2. q \in TaskRec /\ Mirrors(q, job.new) /\ ~q.run
  BY <1>1, RecordType, RecordMirrors
<1>3. \/ /\ JournalOk(TaskOf[job.att], d) /\ reap' = [reap EXCEPT ![job.att] = "launching"]
         /\ Goto("spawn") /\ UNCHANGED dir
      \/ JournalErr(TaskOf[job.att], d) /\ dir' = dir \ {job.att} /\ Done /\ UNCHANGED reap
  BY DEF LaunchIntent, Discard
<1> HIDE DEF q
<1>4. d.att = q.att /\ d.st = "Launching" /\ d.out = q.out /\ d.stoppedBy = q.stoppedBy /\ d.sealedBy = q.sealedBy
  BY <1>2 DEF TaskRec
<1>5. d.run = q.run
  BY <1>2 DEF TaskRec
<1>6. Intends(d, job.new)
  BY <1>2, <1>4, <1>5 DEF Intends, Mirrors
<1> HIDE DEF d
<1>7. job.pc = "intent" /\ UNCHANGED <<mem, kept, frozen, stop, retired, log, up, todo, acked,
           superseded, shown>>
  BY DEF LaunchIntent, At, history
<1>8. CASE /\ JournalOk(TaskOf[job.att], d) /\ reap' = [reap EXCEPT ![job.att] = "launching"]
           /\ Goto("spawn") /\ UNCHANGED dir
  <2>1. /\ disk'[TaskOf[job.att]] = d /\ DiskOnly(TaskOf[job.att]) /\ UNCHANGED faults
        /\ reap'[job.att] = "launching" /\ ReapOnly(job.att)
    BY <1>1, <1>8, Types DEF JournalOk, DiskOnly, ReapOnly
  <2> QED
    BY <1>0, <1>6, <1>7, <1>8, <2>1, GotoMoves
<1>9. CASE JournalErr(TaskOf[job.att], d) /\ dir' = dir \ {job.att} /\ Done /\ UNCHANGED reap
  <2>1. /\ disk'[TaskOf[job.att]] \in {disk[TaskOf[job.att]], d} /\ DiskOnly(TaskOf[job.att])
        /\ faults' = faults + 1
    BY <1>1, <1>9, Types DEF JournalErr, DiskOnly, Fault
  <2> QED
    BY <1>0, <1>6, <1>7, <1>9, <2>1, DoneCloses
<1> QED
  BY <1>3, <1>8, <1>9

\* A spawn that cannot be confirmed or recorded goes on as ended, with a kill requested.
SpawnFails(pc) ==
  /\ Opens(pc, "start", job.att) /\ Ends(job'.new, job.new, "Exited", "unknown") /\ job'.new.run
  /\ job'.new.stoppedBy = job.new.stoppedBy /\ stop' = stop \cup {job.att}

LEMMA SpawnFailsMoves ==
  ASSUME TypeInv, job.pc # "idle", NEW pc, Begin(pc, "start", job.att, SpawnFailed(job.new)),
         stop' = stop \cup {job.att}
  PROVE  SpawnFails(pc)
<1> DEFINE n == SpawnFailed(job.new)
<1>1. Ends(n, job.new, "Exited", "unknown") /\ n.run /\ n.stoppedBy = job.new.stoppedBy /\ job.new.att = job.att
  BY JobTypes, SpawnFailedEnds
<1>2. Begin(pc, "start", job.att, n)
  OBVIOUS
<1> HIDE DEF n
<1>3. job'.pc = pc /\ job'.verb = "start" /\ job'.att = job.att /\ job'.new = n
  BY <1>2, BeginPc
<1> QED
  BY <1>1, <1>3 DEF SpawnFails, Opens, Ends

\* The task goes on as Running, with the attempt handle.
Spawns ==
  /\ Opens("running", "start", job.att) /\ job'.new.st = "Running" /\ job'.new.run
  /\ job'.new.out = job.new.out /\ job'.new.stoppedBy = job.new.stoppedBy
  /\ job'.new.sealedBy = job.new.sealedBy

LEMMA SpawnsMoves ==
  ASSUME TypeInv, job.pc # "idle",
         Begin("running", "start", job.att, [job.new EXCEPT !.st = "Running", !.run = TRUE])
  PROVE  Spawns
<1> DEFINE n == [job.new EXCEPT !.st = "Running", !.run = TRUE]
<1>1. job.new \in TaskRec /\ job.new.att = job.att
  BY JobTypes
<1>2. /\ n.att = job.att /\ n.st = "Running" /\ n.out = job.new.out
      /\ n.stoppedBy = job.new.stoppedBy /\ n.sealedBy = job.new.sealedBy
  BY <1>1 DEF TaskRec
<1>3. n.run = TRUE
  BY <1>1 DEF TaskRec
<1>4. Begin("running", "start", job.att, n)
  OBVIOUS
<1> HIDE DEF n
<1>5. job'.pc = "running" /\ job'.verb = "start" /\ job'.att = job.att /\ job'.new = n
  BY <1>4, BeginPc
<1> QED
  BY <1>2, <1>3, <1>5 DEF Spawns, Opens

LEMMA SpawnReportFacts ==
  ASSUME TypeInv, SpawnReport
  PROVE  /\ up = "up" /\ job.pc = "spawn" /\ UNCHANGED <<mem, kept, frozen, retired, log, up,
              todo, acked, superseded, shown>>
         /\ ReapOnly(job.att)
         /\ \/ /\ reap[job.att] = "spawned" /\ reap'[job.att] = "watching" /\ Spawns
               /\ UNCHANGED <<disk, dir, stop, faults>>
            \/ /\ reap[job.att] \in {"refused", "threadless"} /\ dir' = dir \ {job.att}
               /\ reap[job.att] = "refused" => reap'[job.att] = "done"
               /\ \/ /\ Writes(TaskOf[job.att], job.new) /\ Closes /\ UNCHANGED stop
                     /\ reap'[job.att] = "done"
                  \/ /\ Fails(TaskOf[job.att], job.new) /\ SpawnFails("record")
                     /\ reap[job.att] # "refused" => reap'[job.att] = "threadless"
            \/ /\ reap[job.att] \in {"ambiguous", "launching"} /\ SpawnFails("record")
               /\ reap[job.att] = "launching" => reap'[job.att] = "late"
               /\ reap[job.att] # "launching" => reap'[job.att] = "done"
               /\ UNCHANGED <<disk, dir, faults>>
<1>0. job.pc # "idle" /\ up = "up"
  BY DEF SpawnReport, At
<1>1. job.att \in Attempts /\ TaskOf[job.att] \in Tasks /\ job.new \in TaskRec /\ job.new.st \in States
  BY <1>0, JobTypes
<1>2. /\ JournalOk(TaskOf[job.att], Record(job.new)) => Writes(TaskOf[job.att], job.new)
      /\ JournalErr(TaskOf[job.att], Record(job.new)) => Fails(TaskOf[job.att], job.new)
  BY <1>1, JournalMoves
<1>3. job.pc = "spawn" /\ UNCHANGED <<mem, kept, frozen, retired, log, up, todo, acked,
           superseded, shown>>
  BY DEF SpawnReport, At, history
<1>4. CASE /\ reap[job.att] = "spawned" /\ reap' = [reap EXCEPT ![job.att] = "watching"]
           /\ Begin("running", "start", job.att, [job.new EXCEPT !.st = "Running", !.run = TRUE])
           /\ UNCHANGED <<disk, dir, stop, faults>>
  <2>1. Spawns
    BY <1>0, <1>4, SpawnsMoves
  <2>2. reap'[job.att] = "watching" /\ ReapOnly(job.att)
    BY <1>1, <1>4, Types DEF ReapOnly
  <2> QED
    BY <1>0, <1>3, <1>4, <2>1, <2>2
<1>5. CASE /\ reap[job.att] \in {"refused", "threadless"} /\ dir' = dir \ {job.att}
           /\ JournalOk(TaskOf[job.att], Record(job.new)) /\ Done /\ UNCHANGED stop
           /\ reap' = [reap EXCEPT ![job.att] = "done"]
  <2>1. Writes(TaskOf[job.att], job.new) /\ Closes /\ UNCHANGED stop
    BY <1>2, <1>5, DoneCloses
  <2>2. reap'[job.att] = "done" /\ ReapOnly(job.att)
    BY <1>1, <1>5, Types DEF ReapOnly
  <2> QED
    BY <1>0, <1>3, <1>5, <2>1, <2>2
<1>7. CASE /\ reap[job.att] \in {"refused", "threadless"} /\ dir' = dir \ {job.att}
           /\ JournalErr(TaskOf[job.att], Record(job.new))
           /\ Begin("record", "start", job.att, SpawnFailed(job.new))
           /\ stop' = stop \cup {job.att}
           /\ reap' = [reap EXCEPT ![job.att] = IF @ = "refused" THEN "done" ELSE @]
  <2>1. Fails(TaskOf[job.att], job.new) /\ SpawnFails("record")
    BY <1>0, <1>2, <1>7, SpawnFailsMoves
  <2>2. /\ reap[job.att] = "refused" => reap'[job.att] = "done"
        /\ reap[job.att] # "refused" => reap'[job.att] = "threadless"
        /\ ReapOnly(job.att)
    BY <1>1, <1>7, Types DEF ReapOnly
  <2> QED
    BY <1>0, <1>3, <1>7, <2>1, <2>2
<1>6. CASE /\ reap[job.att] \in {"ambiguous", "launching"}
           /\ reap' = [reap EXCEPT ![job.att] = IF @ = "launching" THEN "late" ELSE "done"]
           /\ Begin("record", "start", job.att, SpawnFailed(job.new))
           /\ stop' = stop \cup {job.att}
           /\ UNCHANGED <<disk, dir, faults>>
  <2>1. SpawnFails("record")
    BY <1>0, <1>6, SpawnFailsMoves
  <2>2. /\ reap[job.att] = "launching" => reap'[job.att] = "late"
        /\ reap[job.att] # "launching" => reap'[job.att] = "done"
        /\ ReapOnly(job.att)
    BY <1>1, <1>6, Types DEF ReapOnly
  <2> QED
    BY <1>0, <1>3, <1>6, <2>1, <2>2
<1> QED
  BY <1>4, <1>5, <1>6, <1>7 DEF SpawnReport, Discard

LEMMA RecordRunningFacts ==
  ASSUME TypeInv, RecordRunning
  PROVE  /\ up = "up" /\ job.pc = "running" /\ UNCHANGED <<mem, kept, reap, frozen, retired, log,
              dir, up, todo, acked, superseded, shown>>
         /\ \/ Writes(TaskOf[job.att], job.new) /\ Moves("launched") /\ UNCHANGED stop
            \/ Fails(TaskOf[job.att], job.new) /\ SpawnFails("ended")
<1>0. job.pc # "idle" /\ up = "up"
  BY DEF RecordRunning, At
<1>1. job.att \in Attempts /\ TaskOf[job.att] \in Tasks /\ job.new \in TaskRec /\ job.new.st \in States
  BY <1>0, JobTypes
<1>2. /\ JournalOk(TaskOf[job.att], Record(job.new)) => Writes(TaskOf[job.att], job.new)
      /\ JournalErr(TaskOf[job.att], Record(job.new)) => Fails(TaskOf[job.att], job.new)
  BY <1>1, JournalMoves
<1> QED
  BY <1>0, <1>2, GotoMoves, SpawnFailsMoves DEF RecordRunning, At, history

LEMMA RecordLaunchedFacts ==
  ASSUME TypeInv, RecordLaunched
  PROVE  /\ up = "up" /\ job.pc = "launched" /\ UNCHANGED <<kept, reap, frozen, disk, retired,
              dir, up, todo, acked, superseded>>
         /\ \/ Logs(job.att, job.new.st, job.new.out, None) /\ Applies /\ UNCHANGED stop
            \/ /\ Misses(job.att, job.new.st, job.new.out, None) /\ SpawnFails("record")
               /\ UNCHANGED <<mem, shown>>
<1>0. job.pc # "idle" /\ up = "up"
  BY DEF RecordLaunched, At
<1>1. job.att \in Attempts /\ TaskOf[job.att] \in Tasks /\ job.new \in TaskRec /\ job.new.st \in States
  BY <1>0, JobTypes
<1> DEFINE l == Recorded(log[job.att], job.new)
<1>2. /\ AppendOk(job.att, l) => Logs(job.att, job.new.st, job.new.out, None)
      /\ AppendErr(job.att, l) => Misses(job.att, job.new.st, job.new.out, None)
  BY <1>1, RecordMoves
<1>3. \/ AppendOk(job.att, l) /\ Apply /\ UNCHANGED stop
      \/ /\ AppendErr(job.att, l) /\ Begin("record", "start", job.att, SpawnFailed(job.new))
         /\ stop' = stop \cup {job.att} /\ UNCHANGED <<mem, shown>>
  BY DEF RecordLaunched
<1> HIDE DEF l
<1> QED
  BY <1>0, <1>2, <1>3, ApplyMoves, SpawnFailsMoves DEF RecordLaunched, At

LEMMA RecordEndFacts ==
  ASSUME TypeInv, RecordEnd
  PROVE  /\ up = "up" /\ job.pc = "record" /\ UNCHANGED <<mem, kept, reap, frozen, stop, retired,
              log, dir, up, todo, acked, superseded, shown>>
         /\ Writes(TaskOf[job.att], job.new) \/ Fails(TaskOf[job.att], job.new)
         /\ Moves("ended")
<1>0. job.pc # "idle" /\ up = "up"
  BY DEF RecordEnd, At
<1>1. job.att \in Attempts /\ TaskOf[job.att] \in Tasks /\ job.new \in TaskRec /\ job.new.st \in States
  BY <1>0, JobTypes
<1>2. /\ JournalOk(TaskOf[job.att], Record(job.new)) => Writes(TaskOf[job.att], job.new)
      /\ JournalErr(TaskOf[job.att], Record(job.new)) => Fails(TaskOf[job.att], job.new)
  BY <1>1, JournalMoves
<1> QED
  BY <1>0, <1>2, GotoMoves DEF RecordEnd, At, workloads, history

LEMMA RecordEndedFacts ==
  ASSUME TypeInv, RecordEnded
  PROVE  /\ up = "up" /\ job.pc = "ended" /\ UNCHANGED <<kept, frozen, stop, disk, retired, dir,
              up, todo, acked, superseded>>
         /\ \/ Logs(job.att, job.new.st, job.new.out, None)
            \/ Misses(job.att, job.new.st, job.new.out, None)
         /\ Applies
         /\ job.verb = "exit" => reap'[job.att] = "done" /\ ReapOnly(job.att)
         /\ job.verb # "exit" => UNCHANGED reap
<1>0. job.pc # "idle" /\ up = "up"
  BY DEF RecordEnded, At
<1>1. job.att \in Attempts /\ TaskOf[job.att] \in Tasks /\ job.new \in TaskRec /\ job.new.st \in States
  BY <1>0, JobTypes
<1> DEFINE l == Recorded(log[job.att], job.new)
<1>2. /\ AppendOk(job.att, l) => Logs(job.att, job.new.st, job.new.out, None)
      /\ AppendErr(job.att, l) => Misses(job.att, job.new.st, job.new.out, None)
  BY <1>1, RecordMoves
<1>3. (AppendOk(job.att, l) \/ AppendErr(job.att, l)) /\ Apply
  BY DEF RecordEnded
<1> HIDE DEF l
<1>4. /\ job.verb = "exit" => reap'[job.att] = "done" /\ ReapOnly(job.att)
      /\ job.verb # "exit" => UNCHANGED reap
  BY <1>1, Types DEF RecordEnded, ReapOnly
<1> QED
  BY <1>0, <1>2, <1>3, <1>4, ApplyMoves DEF RecordEnded, At

LEMMA NoThreadFacts ==
  ASSUME TypeInv, NoThread
  PROVE  /\ up = "up" /\ job.pc = "spawn" /\ reap[job.att] = "launching" /\ ReapOnly(job.att)
         /\ reap'[job.att] = "threadless" /\ faults' = faults + 1 /\ UNCHANGED <<mem, kept, job,
              frozen, stop, disk, retired, log, dir, up, todo, acked, superseded, shown>>
<1>1. job.att \in Attempts
  BY JobTypes DEF NoThread, At
<1>2. ReapOnly(job.att) /\ reap'[job.att] = "threadless"
  BY <1>1, Types DEF NoThread, ReapOnly
<1> QED
  BY <1>2 DEF NoThread, At, Fault, registry, durable, history

LEMMA LaunchFacts ==
  ASSUME TypeInv, NEW a \in Attempts, Launch(a)
  PROVE  /\ up = "up" /\ reap[a] = "launching" /\ ReapOnly(a)
         /\ reap'[a] \in {"spawned", "refused", "ambiguous"} /\ UNCHANGED <<mem, kept, job,
              frozen, stop, disk, retired, log, dir, up, todo, faults, acked, superseded, shown>>
<1>1. ReapOnly(a) /\ reap'[a] \in {"spawned", "refused", "ambiguous"}
  BY Types DEF Launch, ReapOnly
<1> QED
  BY <1>1 DEF Launch, registry, durable, process

LEMMA SandboxSetUpFacts ==
  ASSUME TypeInv, NEW a \in Attempts, SandboxSetUp(a)
  PROVE  up = "up" /\ UNCHANGED <<mem, kept, job, reap, frozen, stop, disk, retired, log, dir, up,
              todo, faults, acked, superseded, shown>>
BY DEF SandboxSetUp, registry, durable, process, history

LEMMA LateLaunchFacts ==
  ASSUME TypeInv, NEW a \in Attempts, LateLaunch(a)
  PROVE  /\ up = "up" /\ reap[a] = "late" /\ ReapOnly(a)
         /\ reap'[a] \in {"dropping", "done"} /\ UNCHANGED <<mem, kept, job, frozen, stop, disk,
              retired, log, dir, up, todo, faults, acked, superseded, shown>>
<1>1. ReapOnly(a) /\ reap'[a] \in {"dropping", "done"}
  BY Types DEF LateLaunch, ReapOnly
<1> QED
  BY <1>1 DEF LateLaunch, registry, durable, process

LEMMA DropLateFacts ==
  ASSUME TypeInv, NEW a \in Attempts, DropLate(a)
  PROVE  /\ up = "up" /\ reap[a] = "dropping" /\ ReapOnly(a)
         /\ reap'[a] = "done" /\ UNCHANGED <<mem, kept, job, frozen, stop, disk, retired, log,
              dir, up, todo, faults, acked, superseded, shown>>
<1>1. ReapOnly(a) /\ reap'[a] = "done"
  BY Types DEF DropLate, ReapOnly
<1> QED
  BY <1>1 DEF DropLate, registry, durable, process, history

LEMMA WorkloadEndsFacts ==
  ASSUME TypeInv, NEW a \in Attempts, NEW e \in Exits, WorkloadEnds(a, e)
  PROVE  /\ up = "up" /\ reap[a] = "watching" /\ ReapOnly(a)
         /\ reap'[a] \in Exits /\ UNCHANGED <<mem, kept, job, frozen, stop, disk, retired, log,
              dir, up, todo, faults, acked, superseded, shown>>
<1>1. ReapOnly(a) /\ reap'[a] \in Exits
  BY Types DEF WorkloadEnds, ReapOnly
<1> QED
  BY <1>1 DEF WorkloadEnds, registry, durable, process, history

LEMMA RecordExitFacts ==
  ASSUME TypeInv, NEW a \in Attempts, RecordExit(a)
  PROVE  /\ Idle /\ reap[a] \in Exits /\ UNCHANGED <<mem, kept, frozen, stop, disk, retired, log,
              dir, up, todo, faults, acked, superseded, shown>>
         /\ \/ /\ mem[TaskOf[a]].att = a /\ mem[TaskOf[a]].st \in LiveStates /\ mem[TaskOf[a]].run
               /\ Opens("record", "exit", a) /\ UNCHANGED reap
               /\ job'.new.st \in Ended /\ job'.new.out \in Outcomes /\ job'.new.run
               /\ job'.new.sealedBy = mem[TaskOf[a]].sealedBy
               /\ job'.new.st # "Stopped" => job'.new.stoppedBy = mem[TaskOf[a]].stoppedBy
            \/ /\ ~(mem[TaskOf[a]].att = a /\ mem[TaskOf[a]].st \in LiveStates /\ mem[TaskOf[a]].run)
               /\ reap'[a] = "done" /\ ReapOnly(a) /\ UNCHANGED job
<1> DEFINE r == mem[TaskOf[a]]
           n == FinishAttempt(r, reap[a], a \in stop)
<1>0. Idle /\ reap[a] \in Exits /\ UNCHANGED <<mem, kept, frozen, stop, disk, retired, log, dir,
           up, todo, faults, acked, superseded, shown>>
  BY DEF RecordExit, durable, process, history
<1>1. CASE Holds(a) /\ IsLive(r) /\ r.run
  <2>1. r \in TaskRec /\ r.att = a /\ reap[a] \in Exits /\ (a \in stop) \in BOOLEAN
    BY <1>0, <1>1, HeldType
  <2>2. /\ n.att = r.att /\ n.st \in Ended /\ n.out \in Outcomes /\ n.run = r.run
        /\ n.sealedBy = r.sealedBy /\ (n.st # "Stopped" => n.stoppedBy = r.stoppedBy)
    BY <2>1, AttemptEnds
  <2>3. Begin("record", "exit", a, n) /\ UNCHANGED reap
    BY <1>1 DEF RecordExit
  <2> HIDE DEF n
  <2>4. Opens("record", "exit", a) /\ job'.new = n
    BY <2>1, <2>2, <2>3, BeginPc DEF Opens
  <2>5. r.st \in LiveStates /\ n.run
    BY <1>1, <2>2 DEF IsLive
  <2> QED
    BY <1>0, <1>1, <2>1, <2>2, <2>3, <2>4, <2>5
<1>2. CASE ~(Holds(a) /\ IsLive(r) /\ r.run)
  <2>1. reap' = [reap EXCEPT ![a] = "done"] /\ UNCHANGED job
    BY <1>2 DEF RecordExit
  <2>2. reap'[a] = "done" /\ ReapOnly(a)
    BY <2>1, Types DEF ReapOnly
  <2> QED
    BY <1>0, <1>2, <2>1, <2>2 DEF Holds, IsLive
<1> QED
  BY <1>1, <1>2

\* The log of attempt a, not sealed, after a recovery of task r that was cut short.
Partly(a, r) ==
  /\ log[a].head = "none" /\ LogOnly(a)
  /\ \/ Says(log'[a], log[a].held, log[a].out, log[a].by)
     \/ Says(log'[a], r.st, r.out, None)
     \/ r.st = "Sealed" /\ Says(log'[a], "Sealed", r.out, r.sealedBy)
  /\ log'[a].head # "none" => r.st = "Sealed" /\ log'[a].by = r.sealedBy

LEMMA PartlyMoves ==
  ASSUME TypeInv, NEW a \in Attempts, log[a].head = "none", NEW r \in TaskRec, r.st \in States,
         NEW m \in PartlyRecovered(log[a], r), log' = [log EXCEPT ![a] = m]
  PROVE  Partly(a, r)
<1> DEFINE l == log[a]
           cut == [l EXCEPT !.torn = FALSE]
           full == RecoveredLog(cut, r)
           appended == [full EXCEPT !.head = l.head]
           Fits(n) ==
             \/ Says(n, l.held, l.out, l.by) \/ Says(n, r.st, r.out, None)
             \/ r.st = "Sealed" /\ Says(n, "Sealed", r.out, r.sealedBy)
<1>1. l \in LogRec /\ l.head = "none" /\ log'[a] = m /\ LogOnly(a)
  BY Types DEF LogOnly
<1>2. \A n \in LogRec, h \in {"none", "torn", "ok"}, b \in BOOLEAN :
        /\ [n EXCEPT !.head = h] \in LogRec /\ [n EXCEPT !.torn = b] \in LogRec
        /\ [n EXCEPT !.head = h].held = n.held /\ [n EXCEPT !.head = h].out = n.out
        /\ [n EXCEPT !.head = h].by = n.by /\ [n EXCEPT !.head = h].head = h
        /\ [n EXCEPT !.torn = b].held = n.held /\ [n EXCEPT !.torn = b].out = n.out
        /\ [n EXCEPT !.torn = b].by = n.by /\ [n EXCEPT !.torn = b].head = n.head
  BY DEF LogRec
<1> HIDE DEF l
<1>3. /\ cut \in LogRec /\ cut.held = l.held /\ cut.out = l.out /\ cut.by = l.by
      /\ cut.head = "none"
  BY <1>1, <1>2
<1> HIDE DEF cut
<1>4. full \in LogRec
  BY <1>3, RecoveredLogType
<1>5. /\ \/ Says(full, cut.held, cut.out, cut.by) \/ Says(full, r.st, r.out, None)
         \/ r.st = "Sealed" /\ Says(full, "Sealed", r.out, r.sealedBy)
      /\ r.st = "Sealed" => full.by = r.sealedBy
  <2>1. CASE r.st = "Sealed" /\ cut.by = r.sealedBy
    <3>1. full = [cut EXCEPT !.head = "ok"]
      BY <2>1 DEF RecoveredLog
    <3> HIDE DEF full
    <3> QED
      BY <1>2, <1>3, <2>1, <3>1 DEF Says
  <2>2. CASE r.st = "Sealed" /\ cut.by # r.sealedBy
    <3>1. full = [cut EXCEPT !.held = "Sealed", !.out = r.out, !.by = r.sealedBy, !.head = "ok"]
      BY <2>2 DEF RecoveredLog
    <3> HIDE DEF full
    <3>2. full.held = "Sealed" /\ full.out = r.out /\ full.by = r.sealedBy
      BY <1>3, <3>1 DEF LogRec
    <3> QED
      BY <2>2, <3>2 DEF Says
  <2>3. CASE r.st # "Sealed"
    <3>1. full \in {cut, Recorded(cut, r)}
      BY <2>3 DEF RecoveredLog
    <3> HIDE DEF full
    <3> QED
      BY <1>3, <2>3, <3>1, RecordedSays DEF Says
  <2> QED
    BY <2>1, <2>2, <2>3
<1> HIDE DEF full
<1>6. /\ appended \in LogRec /\ Fits(appended) /\ appended.head = "none"
      /\ r.st = "Sealed" => appended.by = r.sealedBy
  <2>1. /\ appended \in LogRec /\ appended.held = full.held /\ appended.out = full.out
        /\ appended.by = full.by /\ appended.head = "none"
    BY <1>1, <1>4 DEF LogRec
  <2> HIDE DEF appended
  <2> QED
    BY <1>3, <1>5, <2>1 DEF Says
<1> HIDE DEF appended
<1>7. Recorded(cut, r) \in LogRec /\ Fits(Recorded(cut, r)) /\ Recorded(cut, r).head = "none"
  BY <1>3, RecordedSays DEF Says
<1>8. cut \in LogRec /\ Fits(cut) /\ l \in LogRec /\ Fits(l)
  BY <1>1, <1>3 DEF Says
<1>9. \/ \E b \in {l, cut, appended, Recorded(cut, r)} : m = b \/ m = [b EXCEPT !.torn = TRUE]
      \/ r.st = "Sealed" /\ (m = [appended EXCEPT !.head = "torn"] \/ m = [appended EXCEPT !.head = "ok"])
  BY Zenon DEF PartlyRecovered, appended, full, cut, l
<1>10. CASE \E b \in {l, cut, appended, Recorded(cut, r)} : m = b \/ m = [b EXCEPT !.torn = TRUE]
  <2>1. PICK b \in {l, cut, appended, Recorded(cut, r)} : m = b \/ m = [b EXCEPT !.torn = TRUE]
    BY <1>10
  <2>2. b \in LogRec /\ Fits(b) /\ b.head = "none"
    BY <1>1, <1>3, <1>6, <1>7, <1>8
  <2>3. m.held = b.held /\ m.out = b.out /\ m.by = b.by /\ m.head = "none"
    <3>1. /\ [b EXCEPT !.torn = TRUE].held = b.held /\ [b EXCEPT !.torn = TRUE].out = b.out
          /\ [b EXCEPT !.torn = TRUE].by = b.by /\ [b EXCEPT !.torn = TRUE].head = b.head
      BY <2>2 DEF LogRec
    <3> QED
      BY <2>1, <2>2, <3>1
  <2>4. Fits(m)
    BY <2>2, <2>3 DEF Says
  <2> QED
    BY <1>1, <2>3, <2>4 DEF Partly, l
<1>11. CASE r.st = "Sealed" /\ (m = [appended EXCEPT !.head = "torn"] \/ m = [appended EXCEPT !.head = "ok"])
  <2>1. m.held = appended.held /\ m.out = appended.out /\ m.by = appended.by
    BY <1>6, <1>11 DEF LogRec
  <2>2. Fits(m)
    BY <1>6, <2>1 DEF Says
  <2> QED
    BY <1>1, <1>6, <1>11, <2>1, <2>2 DEF Partly, l
<1> QED
  BY <1>9, <1>10, <1>11

LEMMA CrashFacts ==
  ASSUME TypeInv, Crash
  PROVE  /\ up' = "down" /\ todo' = {} /\ kept' = {} /\ stop' = {} /\ Closes
         /\ up \in {"up", "recovering"}
         /\ \A t \in Tasks : Blank(mem'[t])
         /\ \A a \in Attempts : reap'[a] = "none" /\ frozen'[a] = "no"
         /\ \/ \A a \in Attempts :
                 /\ Says(log'[a], log[a].held, log[a].out, log[a].by) /\ log'[a].head = log[a].head
                 /\ \/ log'[a].torn = log[a].torn
                    \/ job.pc \in Appending /\ job.att = a /\ log[a].head = "none"
            \/ job.pc = "recoverLog" /\ Partly(job.att, job.new)
         /\ UNCHANGED <<disk, retired, dir, faults, acked, superseded, shown>>
<1>1. \A t \in Tasks : Blank(mem'[t])
  BY NoTaskBlank DEF Crash
<1>2. CASE UNCHANGED log
  BY <1>1, <1>2 DEF Crash, Closes, NoJob, history, Says
<1>3. CASE /\ job.pc \in Appending /\ Appendable(log[job.att])
           /\ log' = [log EXCEPT ![job.att].torn = TRUE]
  <2>1. ASSUME NEW a \in Attempts
        PROVE  /\ Says(log'[a], log[a].held, log[a].out, log[a].by) /\ log'[a].head = log[a].head
               /\ \/ log'[a].torn = log[a].torn
                  \/ job.pc \in Appending /\ job.att = a /\ log[a].head = "none"
    <3>0. log \in [Attempts -> LogRec] /\ log[a] \in LogRec
      BY Types
    <3>1. job.att \in Attempts
      BY <1>3, JobTypes DEF Appending
    <3>2. a # job.att => log'[a] = log[a]
      BY <1>3, <3>0, <3>1
    <3>3. a = job.att => log'[a] = [log[a] EXCEPT !.torn = TRUE] /\ log[a].head = "none"
      BY <1>3, <3>0, <3>1 DEF Appendable
    <3>4. [log[a] EXCEPT !.torn = TRUE].head = log[a].head
          /\ Says([log[a] EXCEPT !.torn = TRUE], log[a].held, log[a].out, log[a].by)
      BY <3>0 DEF LogRec, Says
    <3> QED
      BY <1>3, <3>2, <3>3, <3>4 DEF Says
  <2> QED
    BY <1>1, <2>1 DEF Crash, Closes, NoJob, history
<1>4. CASE /\ job.pc = "recoverLog" /\ log[job.att].head = "none"
           /\ \E m \in PartlyRecovered(log[job.att], job.new) :
                log' = [log EXCEPT ![job.att] = m]
  <2>1. Partly(job.att, job.new)
    BY <1>4, JobTypes, PartlyMoves
  <2> QED
    BY <1>1, <1>4, <2>1 DEF Crash, Closes, NoJob, history
<1> QED
  BY <1>2, <1>3, <1>4 DEF Crash

LEMMA RestartFacts ==
  ASSUME TypeInv, Restart
  PROVE  /\ up = "down" /\ up' \in {"recovering", "TooManyRecords"} /\ UNCHANGED <<mem, kept,
              job, reap, frozen, stop, disk, retired, log, dir, faults, acked, superseded, shown>>
         /\ up' = "recovering" => todo' = {t \in Tasks : disk[t].st # "absent"}
BY DEF Restart, registry, workloads, durable, history

LEMMA RecoverRecordFacts ==
  ASSUME TypeInv, NEW t \in todo, RecoverRecord(t)
  PROVE  /\ up = "recovering" /\ job.pc = "idle" /\ t \in Tasks /\ disk[t].att \in Attempts /\ DiskOnly(t)
         /\ disk[t].st # "absent" /\ UNCHANGED <<kept, reap, frozen, stop, retired, log, dir,
              acked, superseded, shown>>
         /\ \/ /\ disk'[t] = job'.new /\ Recovers(job'.new, disk[t]) /\ UNCHANGED <<mem, up, todo, faults>>
               /\ Opens("recoverLog", "recover", disk[t].att)
            \/ /\ disk'[t] = disk[t] \/ Recovers(disk'[t], disk[t])
               /\ faults' = faults + 1 /\ up' = "down" /\ todo' = {} /\ UNCHANGED job
               /\ \A u \in Tasks : Blank(mem'[u])
<1> DEFINE r == Recovered(disk[t])
<1>1. t \in Tasks /\ disk[t] \in TaskRec /\ disk[t].att \in Attempts /\ disk[t].st # "absent"
  BY DEF TypeInv, TodoInv, DiskInv, Named
<1>2. Recovers(r, disk[t])
  BY <1>1, RecoveredIs
<1>3. \/ /\ JournalOk(t, r) /\ Begin("recoverLog", "recover", r.att, r)
         /\ UNCHANGED <<mem, up, todo>>
      \/ /\ JournalErr(t, r)
         /\ up' = "down" /\ todo' = {} /\ mem' = [u \in Tasks |-> NoTask] /\ UNCHANGED job
  BY DEF RecoverRecord
<1>4. up = "recovering" /\ job.pc = "idle" /\ UNCHANGED <<kept, reap, frozen, stop, retired, log,
           dir, acked, superseded, shown>>
  BY DEF RecoverRecord, history
<1> HIDE DEF r
<1>5. CASE /\ JournalOk(t, r) /\ Begin("recoverLog", "recover", r.att, r)
           /\ UNCHANGED <<mem, up, todo>>
  <2>1. disk'[t] = r /\ DiskOnly(t) /\ UNCHANGED faults
    BY <1>1, <1>5, Types DEF JournalOk, DiskOnly
  <2>2. job'.pc = "recoverLog" /\ job'.verb = "recover" /\ job'.att = r.att /\ job'.new = r
    BY <1>5, BeginPc
  <2>3. Opens("recoverLog", "recover", disk[t].att) /\ r.att = disk[t].att
    BY <1>2, <2>2 DEF Opens, Recovers
  <2> QED
    BY <1>1, <1>2, <1>4, <1>5, <2>1, <2>2, <2>3
<1>6. CASE /\ JournalErr(t, r)
           /\ up' = "down" /\ todo' = {} /\ mem' = [u \in Tasks |-> NoTask] /\ UNCHANGED job
  <2>1. disk'[t] \in {disk[t], r} /\ DiskOnly(t) /\ faults' = faults + 1
    BY <1>1, <1>6, Types DEF JournalErr, DiskOnly, Fault
  <2>2. \A u \in Tasks : Blank(mem'[u])
    BY <1>6, NoTaskBlank
  <2> QED
    BY <1>1, <1>2, <1>4, <1>6, <2>1, <2>2
<1> QED
  BY <1>3, <1>5, <1>6

\* The log of attempt a after the recovery of task r.
Mends(a, r) ==
  /\ LogOnly(a) /\ ~log'[a].torn
  /\ r.st = "Sealed" => log'[a].head = "ok"
  /\ r.st # "Sealed" => log'[a].head = log[a].head
  /\ r.st = "Sealed" /\ log[a].by = r.sealedBy => Says(log'[a], log[a].held, log[a].out, log[a].by)
  /\ r.st = "Sealed" /\ log[a].by # r.sealedBy => Says(log'[a], "Sealed", r.out, r.sealedBy)
  /\ r.st # "Sealed" =>
       \/ /\ Says(log'[a], log[a].held, log[a].out, log[a].by)
          /\ (log[a].held = "none" /\ r.st = "Created") \/ (log[a].held = r.st /\ log[a].out = r.out)
       \/ Says(log'[a], r.st, r.out, None)

LEMMA RecoveredLogMends ==
  ASSUME TypeInv, NEW a \in Attempts, NEW r \in TaskRec, r.st \in States,
         log' = [log EXCEPT ![a] = RecoveredLog([log[a] EXCEPT !.torn = FALSE], r)]
  PROVE  Mends(a, r)
<1> DEFINE l == [log[a] EXCEPT !.torn = FALSE]
           m == RecoveredLog(l, r)
<1>1. log[a] \in LogRec /\ log \in [Attempts -> LogRec]
  BY Types
<1>2. /\ l \in LogRec /\ l.held = log[a].held /\ l.out = log[a].out /\ l.by = log[a].by
      /\ l.head = log[a].head
  BY <1>1 DEF LogRec
<1>3. l.torn = FALSE
  BY <1>1 DEF LogRec
<1> HIDE DEF l
<1>4. log'[a] = m /\ LogOnly(a)
  BY <1>1 DEF LogOnly, l
<1>5. CASE r.st = "Sealed" /\ l.by = r.sealedBy
  <2>1. m = [l EXCEPT !.head = "ok"]
    BY <1>5 DEF RecoveredLog
  <2>2. m.head = "ok" /\ Says(m, l.held, l.out, l.by)
    BY <1>2, <2>1 DEF LogRec, Says
  <2>3. m.torn = l.torn
    BY <1>2, <2>1 DEF LogRec
  <2> HIDE DEF m
  <2> QED
    BY <1>2, <1>3, <1>4, <1>5, <2>2, <2>3 DEF Mends
<1>6. CASE r.st = "Sealed" /\ l.by # r.sealedBy
  <2>1. m = [l EXCEPT !.held = "Sealed", !.out = r.out, !.by = r.sealedBy, !.head = "ok"]
    BY <1>6 DEF RecoveredLog
  <2>2. m.head = "ok" /\ Says(m, "Sealed", r.out, r.sealedBy)
    BY <1>2, <2>1 DEF LogRec, Says
  <2>3. m.torn = l.torn
    BY <1>2, <2>1 DEF LogRec
  <2> HIDE DEF m
  <2> QED
    BY <1>2, <1>3, <1>4, <1>6, <2>2, <2>3 DEF Mends
<1>7. CASE /\ r.st # "Sealed"
           /\ (l.held = "none" /\ r.st = "Created") \/ <<l.held, l.out>> = <<r.st, r.out>>
  <2>1. m = l
    BY <1>7 DEF RecoveredLog
  <2> HIDE DEF m
  <2>2. (l.held = "none" /\ r.st = "Created") \/ (l.held = r.st /\ l.out = r.out)
    BY <1>7
  <2> QED
    BY <1>2, <1>3, <1>4, <1>7, <2>1, <2>2 DEF Mends, Says
<1>8. CASE /\ r.st # "Sealed"
           /\ ~((l.held = "none" /\ r.st = "Created") \/ <<l.held, l.out>> = <<r.st, r.out>>)
  <2>1. m = Recorded(l, r)
    BY <1>8 DEF RecoveredLog
  <2>2. /\ m.head = l.head /\ m.torn = l.torn /\ m.held = r.st /\ m.out = r.out /\ m.by = None
    BY <1>2, <2>1, RecordedSays
  <2> HIDE DEF m
  <2> QED
    BY <1>2, <1>3, <1>4, <1>8, <2>2 DEF Mends, Says
<1> QED
  BY <1>5, <1>6, <1>7, <1>8

LEMMA RecoverLogFacts ==
  ASSUME TypeInv, RecoverLog
  PROVE  /\ up = "recovering" /\ job.pc = "recoverLog" /\ Closes
         /\ UNCHANGED <<kept, reap, frozen, stop, disk, retired, dir, acked, superseded>>
         /\ \/ up' \in {"MalformedHead", "Sealed"} /\ UNCHANGED <<log, mem, todo, shown, faults>>
            \/ /\ \/ log[job.att].head = "none"
                  \/ log[job.att].head = "ok" /\ job.new.st = "Sealed" /\ log[job.att].by = job.new.sealedBy
               /\ Mends(job.att, job.new) /\ UNCHANGED up /\ todo' = todo \ {TaskOf[job.att]}
               /\ mem'[TaskOf[job.att]] = job.new /\ MemOnly(TaskOf[job.att]) /\ Shows(job.att, job.new.out)
               /\ UNCHANGED faults
            \/ /\ Partly(job.att, job.new) /\ faults' = faults + 1
               /\ up' = "down" /\ todo' = {} /\ (\A u \in Tasks : Blank(mem'[u])) /\ UNCHANGED shown
<1>0. job.pc # "idle"
  BY DEF RecoverLog
<1>1. job.att \in Attempts /\ TaskOf[job.att] \in Tasks /\ job.new \in TaskRec /\ job.new.st \in States
  BY <1>0, JobTypes
<1> DEFINE l == [log[job.att] EXCEPT !.torn = FALSE]
<1>2. l.head = log[job.att].head /\ l.by = log[job.att].by
  BY <1>1, Types DEF LogRec
<1>3. \/ up' \in {"MalformedHead", "Sealed"} /\ UNCHANGED <<log, mem, todo, shown, faults>>
      \/ /\ l.head = "none" \/ (l.head = "ok" /\ job.new.st = "Sealed" /\ l.by = job.new.sealedBy)
         /\ log' = [log EXCEPT ![job.att] = RecoveredLog(l, job.new)]
         /\ mem' = [mem EXCEPT ![TaskOf[job.att]] = job.new]
         /\ shown' = [shown EXCEPT ![job.att] = IF @ = "none" THEN job.new.out ELSE @]
         /\ todo' = todo \ {TaskOf[job.att]} /\ UNCHANGED <<up, faults>>
      \/ /\ l.head = "none" /\ Fault
         /\ \E m \in PartlyRecovered(log[job.att], job.new) : log' = [log EXCEPT ![job.att] = m]
         /\ up' = "down" /\ todo' = {} /\ mem' = [u \in Tasks |-> NoTask] /\ UNCHANGED shown
  BY DEF RecoverLog
<1>4. up = "recovering" /\ job.pc = "recoverLog" /\ Closes /\ UNCHANGED <<kept, reap, frozen,
           stop, disk, retired, dir, acked, superseded>>
  BY DoneCloses DEF RecoverLog, workloads
<1>5. CASE up' \in {"MalformedHead", "Sealed"} /\ UNCHANGED <<log, mem, todo, shown, faults>>
  BY <1>4, <1>5
<1>6. CASE /\ l.head = "none" \/ (l.head = "ok" /\ job.new.st = "Sealed" /\ l.by = job.new.sealedBy)
           /\ log' = [log EXCEPT ![job.att] = RecoveredLog(l, job.new)]
           /\ mem' = [mem EXCEPT ![TaskOf[job.att]] = job.new]
           /\ shown' = [shown EXCEPT ![job.att] = IF @ = "none" THEN job.new.out ELSE @]
           /\ todo' = todo \ {TaskOf[job.att]} /\ UNCHANGED <<up, faults>>
  <2>1. Mends(job.att, job.new)
    BY <1>1, <1>6, RecoveredLogMends
  <2>2. mem'[TaskOf[job.att]] = job.new /\ MemOnly(TaskOf[job.att]) /\ Shows(job.att, job.new.out)
    BY <1>1, <1>6, Types DEF MemOnly, Shows, ShownOnly
  <2>3. \/ log[job.att].head = "none"
        \/ log[job.att].head = "ok" /\ job.new.st = "Sealed" /\ log[job.att].by = job.new.sealedBy
    BY <1>2, <1>6
  <2> QED
    BY <1>4, <1>6, <2>1, <2>2, <2>3
<1>7. CASE /\ l.head = "none" /\ Fault
           /\ \E m \in PartlyRecovered(log[job.att], job.new) : log' = [log EXCEPT ![job.att] = m]
           /\ up' = "down" /\ todo' = {} /\ mem' = [u \in Tasks |-> NoTask] /\ UNCHANGED shown
  <2>1. Partly(job.att, job.new)
    BY <1>1, <1>2, <1>7, PartlyMoves
  <2>2. (\A u \in Tasks : Blank(mem'[u])) /\ faults' = faults + 1
    BY <1>7, NoTaskBlank DEF Fault
  <2> QED
    BY <1>4, <1>7, <2>1, <2>2
<1> QED
  BY <1>3, <1>5, <1>6, <1>7

LEMMA ServeFacts ==
  ASSUME TypeInv, Serve
  PROVE  /\ up = "recovering" /\ up' = "up" /\ todo = {} /\ job.pc = "idle" /\ UNCHANGED <<mem,
              kept, job, reap, frozen, stop, disk, retired, log, dir, todo, faults, acked, superseded, shown>>
BY DEF Serve, workloads, durable, history

LEMMA BoundTask == \A a \in Attempts : TaskOf[a] \in Tasks
BY BindingAssumption

--------------------------------------------------------------------------------
(* The shape of tasks, records and handlers *)

Over == Ended \cup {"Sealed"}
TaskShape(r) ==
  /\ r.st = "absent" => r.att = None /\ r.stoppedBy = None
  /\ r.st \in {"Created", "Ready"} => ~r.run /\ r.out = "none" /\ r.stoppedBy = None
  /\ r.st \in LiveStates => r.run /\ r.out = "none" /\ r.stoppedBy = None
  /\ r.st \in Over => r.out # "none"
  /\ r.st = "Sealed" => r.sealedBy \in Ops
RecordShape(d) ==
  /\ d.st = "absent" => d.att = None /\ d.stoppedBy = None
  /\ d.st \in {"Created", "Ready", "Launching"} \cup LiveStates => d.out = "none" /\ d.stoppedBy = None
  /\ d.st \in Over => d.out # "none"
  /\ d.st = "Sealed" => d.sealedBy \in Ops
  /\ ~d.run
ShapeInv ==
  /\ \A t \in Tasks : TaskShape(mem[t]) /\ RecordShape(disk[t])
  /\ job.pc # "idle" => TaskShape(job.new)

\* Which handler can be at which step.
Changers == {"admit", "pause", "resume", "stop", "revoke", "unconfirmed"}
HandlerInv ==
  /\ job.pc = "journal" => job.verb \in Changers \cup {"create", "seal"}
  /\ job.pc = "version" => job.verb = "admit"
  /\ job.pc = "evidence" => job.verb \in Changers
  /\ job.pc = "restore" => job.verb \in Changers \cup {"seal"}
  /\ job.pc = "undo" => job.verb \in {"pause", "resume"}
  /\ job.pc \in {"seal", "mark", "headNew", "headText"} => job.verb = "seal"
  /\ job.pc \in {"intent", "spawn", "running", "launched"} => job.verb = "start"
  /\ job.pc \in {"record", "ended"} => job.verb \in {"start", "exit"}
  /\ job.pc = "recoverLog" => job.verb = "recover"
  /\ job.pc # "idle" => up \in {"up", "recovering"}
  /\ job.pc # "idle" => (job.verb = "recover" <=> up = "recovering")

LEMMA HandlerInductive == ASSUME TypeInv, HandlerInv, [Next]_vars PROVE HandlerInv'
<1>1. CASE UNCHANGED vars
  BY <1>1 DEF vars, registry, workloads, durable, process, history, HandlerInv, Changers
<1>2. ASSUME NEW a \in Attempts, CreateNew(a) PROVE HandlerInv'
  BY <1>2, CreateNewFacts, BoundTask DEF Opens, Fresh, Idle, HandlerInv, Changers
<1>3. ASSUME NEW a \in Attempts, CreateEvict(a) PROVE HandlerInv'
  BY <1>3, CreateEvictFacts, BoundTask DEF MemOnly, DiskOnly, Opens, Fresh, Blank, Keeps, Idle,
    HandlerInv, Changers
<1>4. ASSUME NEW a \in Attempts, CreateReplace(a) PROVE HandlerInv'
  BY <1>4, CreateReplaceFacts, BoundTask DEF Opens, Fresh, Idle, HandlerInv, Changers
<1>5. ASSUME NEW a \in Attempts, Pause(a) PROVE HandlerInv'
  BY <1>5, PauseFacts, BoundTask DEF FrozenOnly, Opens, Alike, Idle, HandlerInv, Changers
<1>6. ASSUME NEW a \in Attempts, Resume(a) PROVE HandlerInv'
  BY <1>6, ResumeFacts, BoundTask DEF FrozenOnly, Opens, Alike, Idle, HandlerInv, Changers
<1>7. ASSUME NEW a \in Attempts, Start(a) PROVE HandlerInv'
  BY <1>7, StartFacts, BoundTask DEF Opens, Idle, HandlerInv, Changers
<1>8. ASSUME NEW a \in Attempts, NEW v \in Versions, Admit(a, v) PROVE HandlerInv'
  BY <1>8, AdmitFacts, BoundTask DEF Opens, Alike, Idle, HandlerInv, Changers
<1>9. ASSUME NEW a \in Attempts, NEW op \in Ops, StopReady(op, a) PROVE HandlerInv'
  BY <1>9, StopReadyFacts, BoundTask DEF Opens, Ends, Idle, HandlerInv, Changers
<1>10. ASSUME NEW a \in Attempts, NEW op \in Ops, StopLive(op, a) PROVE HandlerInv'
  BY <1>10, StopLiveFacts, BoundTask DEF MemOnly, FrozenOnly, Alike, Kills, Idle, HandlerInv,
    Changers
<1>11. ASSUME NEW a \in Attempts, NEW op \in Ops, StopReplay(op, a) PROVE HandlerInv'
  BY <1>11, StopReplayFacts, BoundTask DEF Idle, HandlerInv, Changers
<1>12. ASSUME NEW a \in Attempts, NEW op \in Ops, RevokeReady(op, a) PROVE HandlerInv'
  BY <1>12, RevokeReadyFacts, BoundTask DEF Opens, Ends, Idle, HandlerInv, Changers
<1>13. ASSUME NEW a \in Attempts, NEW op \in Ops, RevokeLive(op, a) PROVE HandlerInv'
  BY <1>13, RevokeLiveFacts, BoundTask DEF MemOnly, FrozenOnly, Alike, Kills, Idle, HandlerInv,
    Changers
<1>14. ASSUME NEW a \in Attempts, NEW op \in Ops, Seal(op, a) PROVE HandlerInv'
  BY <1>14, SealFacts, BoundTask DEF Opens, Idle, HandlerInv, Changers
<1>15. CASE CreateWrite
  BY <1>15, CreateWriteFacts, JobTypes, BoundTask DEF Mirrors, MemOnly, DiskOnly, ShownOnly, Closes,
    Shows, Applies, Writes, Fails, Keeps, HandlerInv, Changers
<1>16. CASE CommitJournal
  BY <1>16, CommitJournalFacts, JobTypes, BoundTask DEF Mirrors, DiskOnly, Moves, Closes, Refuses,
    Writes, Fails, HandlerInv, Changers
<1>17. CASE CommitVersion
  BY <1>17, CommitVersionFacts, JobTypes, BoundTask DEF Moves, HandlerInv, Changers
<1>18. CASE CommitEvidence
  BY <1>18, CommitEvidenceFacts, JobTypes, BoundTask DEF MemOnly, LogOnly, ShownOnly, Moves, Closes,
    Shows, Applies, Says, Logs, Misses, HandlerInv, Changers
<1>19. CASE Restore
  BY <1>19, RestoreFacts, JobTypes, BoundTask DEF Mirrors, DiskOnly, Moves, Closes, Refuses, Writes,
    Fails, HandlerInv, Changers
<1>20. CASE Undo
  BY <1>20, UndoFacts, JobTypes, BoundTask DEF FrozenOnly, Closes, HandlerInv, Changers
<1>21. CASE SealOpen
  BY <1>21, SealOpenFacts, JobTypes, BoundTask DEF MemOnly, LogOnly, ShownOnly, Moves, Closes,
    Shows, Applies, Says, Logs, Misses, HandlerInv, Changers
<1>22. CASE SealMark
  BY <1>22, SealMarkFacts, JobTypes, BoundTask DEF LogOnly, Moves, Says, Logs, Misses, HandlerInv,
    Changers
<1>23. CASE SealHeadNew
  BY <1>23, SealHeadNewFacts, JobTypes, BoundTask DEF LogOnly, Moves, Says, Heads, HandlerInv,
    Changers
<1>24. CASE SealHeadText
  BY <1>24, SealHeadTextFacts, JobTypes, BoundTask DEF MemOnly, LogOnly, ShownOnly, Moves, Closes,
    Shows, Applies, Says, Heads, HandlerInv, Changers
<1>25. CASE LaunchIntent
  BY <1>25, LaunchIntentFacts, JobTypes, BoundTask DEF DiskOnly, ReapOnly, Moves, Closes, Intends,
    HandlerInv, Changers
<1>26. CASE SpawnReport
  BY <1>26, SpawnReportFacts, JobTypes, BoundTask DEF Mirrors, DiskOnly, ReapOnly, Opens, Closes,
    Writes, Fails, Ends, SpawnFails, Spawns, HandlerInv, Changers
<1>27. CASE RecordRunning
  BY <1>27, RecordRunningFacts, JobTypes, BoundTask DEF Mirrors, DiskOnly, Opens, Moves, Writes,
    Fails, Ends, SpawnFails, HandlerInv, Changers
<1>28. CASE RecordLaunched
  BY <1>28, RecordLaunchedFacts, JobTypes, BoundTask DEF MemOnly, LogOnly, ShownOnly, Opens, Closes,
    Shows, Applies, Says, Logs, Misses, Ends, SpawnFails, HandlerInv, Changers
<1>29. CASE RecordEnd
  BY <1>29, RecordEndFacts, JobTypes, BoundTask DEF Mirrors, DiskOnly, Moves, Writes, Fails,
    HandlerInv, Changers
<1>30. CASE RecordEnded
  BY <1>30, RecordEndedFacts, JobTypes, BoundTask DEF MemOnly, LogOnly, ReapOnly, ShownOnly, Closes,
    Shows, Applies, Says, Logs, Misses, HandlerInv, Changers
<1>31. ASSUME NEW w \in waits, FinishStop(w) PROVE HandlerInv'
  BY <1>31, FinishStopFacts, BoundTask DEF Idle, HandlerInv, Changers
<1>32. ASSUME NEW w \in waits, FinishRevoke(w) PROVE HandlerInv'
  BY <1>32, FinishRevokeFacts, BoundTask DEF Opens, Ends, Idle, HandlerInv, Changers
<1>33. CASE Crash
  BY <1>33, CrashFacts, BoundTask DEF Closes, Partly, Says, Blank, HandlerInv, Changers
<1>34. CASE Restart
  BY <1>34, RestartFacts, BoundTask DEF HandlerInv, Changers
<1>35. ASSUME NEW t \in todo, RecoverRecord(t) PROVE HandlerInv'
  BY <1>35, RecoverRecordFacts, BoundTask DEF DiskOnly, Opens, Blank, Recovers, HandlerInv, Changers
<1>36. CASE RecoverLog
  BY <1>36, RecoverLogFacts, JobTypes, BoundTask DEF MemOnly, LogOnly, ShownOnly, Closes, Shows,
    Partly, Says, Mends, HandlerInv, Changers
<1>37. CASE Serve
  BY <1>37, ServeFacts, BoundTask DEF HandlerInv, Changers
<1>38. ASSUME NEW a \in Attempts, Launch(a) PROVE HandlerInv'
  BY <1>38, LaunchFacts, JobTypes, BoundTask DEF ReapOnly, HandlerInv, Changers
<1>39. ASSUME NEW a \in Attempts, LateLaunch(a) PROVE HandlerInv'
  BY <1>39, LateLaunchFacts, JobTypes, BoundTask DEF ReapOnly, HandlerInv, Changers
<1>40. ASSUME NEW a \in Attempts, DropLate(a) PROVE HandlerInv'
  BY <1>40, DropLateFacts, JobTypes, BoundTask DEF ReapOnly, HandlerInv, Changers
<1>41. ASSUME NEW a \in Attempts, RecordExit(a) PROVE HandlerInv'
  BY <1>41, RecordExitFacts, JobTypes, BoundTask DEF ReapOnly, Opens, Idle, HandlerInv, Changers
<1>42. ASSUME NEW a \in Attempts, NEW e \in Exits, WorkloadEnds(a, e) PROVE HandlerInv'
  BY <1>42, WorkloadEndsFacts, JobTypes, BoundTask DEF ReapOnly, HandlerInv, Changers
<1>43. CASE NoThread
  BY <1>43, NoThreadFacts, JobTypes, BoundTask DEF ReapOnly, HandlerInv, Changers
<1>44. ASSUME NEW a \in Attempts, SandboxSetUp(a) PROVE HandlerInv'
  BY <1>44, SandboxSetUpFacts, JobTypes, BoundTask DEF HandlerInv, Changers
<1> QED
  BY <1>1, <1>2, <1>3, <1>4, <1>5, <1>6, <1>7, <1>8, <1>9, <1>10, <1>11, <1>12, <1>13, <1>14, <1>15,
    <1>16, <1>17, <1>18, <1>19, <1>20, <1>21, <1>22, <1>23, <1>24, <1>25, <1>26, <1>27, <1>28,
    <1>29, <1>30, <1>31, <1>32, <1>33, <1>34, <1>35, <1>36, <1>37, <1>38, <1>39, <1>40, <1>41, <1>42,
    <1>43, <1>44
  DEF Next, Request, JobStep, Answer, Reaper, Recovery

\* What a handler makes of the registered task.
ChangeInv ==
  job.pc # "idle" =>
    LET old == mem[TaskOf[job.att]] new == job.new IN
    /\ job.verb \notin {"create", "recover"} => old.att = job.att
    /\ job.verb \in Changers \cup {"seal"} => new.run = old.run
    /\ job.verb = "create" => old.st \in {"absent"} \cup Over /\ new.st = "Created"
    /\ job.verb = "admit" => old.st = "Created" /\ new.st = "Ready"
    /\ job.verb = "pause" => old.st = "Running" /\ new.st = "Paused"
    /\ job.verb = "resume" => old.st = "Paused" /\ new.st = "Running"
    /\ job.verb = "stop" => old.st = "Ready" /\ new.st = "Stopped" /\ new.out = "failed"
    /\ job.verb = "revoke" =>
         old.st = "Ready" /\ new.st = "Revoked" /\ new.out = "failed" /\ new.stoppedBy = None
    /\ job.verb = "unconfirmed" =>
         /\ old.st \in LiveStates /\ new.st = "Revoked" /\ new.out = "unknown"
         /\ new.stoppedBy = None
    /\ job.verb = "seal" =>
         /\ old.st \in Ended /\ new.st = "Sealed" /\ new.out = old.out /\ new.sealedBy \in Ops
         /\ new.stoppedBy = old.stoppedBy
    /\ job.verb = "start" => old.st = "Ready"
    /\ job.pc \in {"intent", "spawn"} => new.st = "Ready"
    /\ job.pc \in {"running", "launched"} => new.st = "Running" /\ new.run
    /\ job.verb = "start" /\ job.pc \in {"record", "ended"} =>
         new.st = "Exited" /\ new.out = "unknown" /\ new.run /\ new.stoppedBy = None
    /\ job.verb = "exit" =>
         /\ old.st \in LiveStates /\ new.st \in Ended /\ new.out # "none" /\ new.run
         /\ reap[job.att] \in Exits
    /\ job.verb = "recover" =>
         /\ new.st \in {"Created"} \cup Over /\ ~new.run
         /\ TaskOf[job.att] \in todo

\* A launch is under way exactly while the start handler waits for it.
Spawning == {"launching", "spawned", "refused", "ambiguous"}
SpawnInv ==
  /\ job.pc = "spawn" => reap[job.att] \in Spawning \cup {"threadless"}
  /\ \A a \in Attempts : reap[a] \in Spawning => job.pc = "spawn" /\ job.att = a

\* Nothing of a dead node is left in memory.
DownInv ==
  up # "up" =>
    kept = {} /\ stop = {} /\ \A a \in Attempts : reap[a] = "none" /\ frozen[a] = "no"

BaseInv == TypeInv /\ ReplaceInv /\ HandlerInv /\ ShapeInv /\ ChangeInv /\ SpawnInv /\ DownInv

LEMMA SpawnInductive == ASSUME TypeInv, ReplaceInv, HandlerInv, ShapeInv, ChangeInv, SpawnInv, DownInv, [Next]_vars PROVE SpawnInv'
<1>1. CASE UNCHANGED vars
  BY <1>1 DEF vars, registry, workloads, durable, process, history, SpawnInv, HandlerInv, Spawning,
    Exits, DownInv, ChangeInv
<1>2. ASSUME NEW a \in Attempts, CreateNew(a) PROVE SpawnInv'
  BY <1>2, CreateNewFacts, BoundTask DEF Opens, Fresh, Idle, SpawnInv, HandlerInv, Spawning, Exits,
    DownInv, ChangeInv
<1>3. ASSUME NEW a \in Attempts, CreateEvict(a) PROVE SpawnInv'
  BY <1>3, CreateEvictFacts, BoundTask DEF MemOnly, DiskOnly, Opens, Fresh, Blank, Keeps, Idle,
    SpawnInv, HandlerInv, Spawning, Exits, DownInv, ChangeInv
<1>4. ASSUME NEW a \in Attempts, CreateReplace(a) PROVE SpawnInv'
  BY <1>4, CreateReplaceFacts, BoundTask DEF Opens, Fresh, Idle, SpawnInv, HandlerInv, Spawning,
    Exits, DownInv, ChangeInv
<1>5. ASSUME NEW a \in Attempts, Pause(a) PROVE SpawnInv'
  BY <1>5, PauseFacts, BoundTask DEF FrozenOnly, Opens, Alike, Idle, SpawnInv, HandlerInv, Spawning,
    Exits, DownInv, ChangeInv
<1>6. ASSUME NEW a \in Attempts, Resume(a) PROVE SpawnInv'
  BY <1>6, ResumeFacts, BoundTask DEF FrozenOnly, Opens, Alike, Idle, SpawnInv, HandlerInv,
    Spawning, Exits, DownInv, ChangeInv
<1>7. ASSUME NEW a \in Attempts, Start(a) PROVE SpawnInv'
  BY <1>7, StartFacts, BoundTask DEF Opens, Idle, SpawnInv, HandlerInv, Spawning, Exits, DownInv,
    ChangeInv
<1>8. ASSUME NEW a \in Attempts, NEW v \in Versions, Admit(a, v) PROVE SpawnInv'
  BY <1>8, AdmitFacts, BoundTask DEF Opens, Alike, Idle, SpawnInv, HandlerInv, Spawning, Exits,
    DownInv, ChangeInv
<1>9. ASSUME NEW a \in Attempts, NEW op \in Ops, StopReady(op, a) PROVE SpawnInv'
  BY <1>9, StopReadyFacts, BoundTask DEF Opens, Ends, Idle, SpawnInv, HandlerInv, Spawning, Exits,
    DownInv, ChangeInv
<1>10. ASSUME NEW a \in Attempts, NEW op \in Ops, StopLive(op, a) PROVE SpawnInv'
  BY <1>10, StopLiveFacts, BoundTask DEF MemOnly, FrozenOnly, Alike, Kills, Idle, SpawnInv,
    HandlerInv, Spawning, Exits, DownInv, ChangeInv
<1>11. ASSUME NEW a \in Attempts, NEW op \in Ops, StopReplay(op, a) PROVE SpawnInv'
  BY <1>11, StopReplayFacts, BoundTask DEF Idle, SpawnInv, HandlerInv, Spawning, Exits, DownInv,
    ChangeInv
<1>12. ASSUME NEW a \in Attempts, NEW op \in Ops, RevokeReady(op, a) PROVE SpawnInv'
  BY <1>12, RevokeReadyFacts, BoundTask DEF Opens, Ends, Idle, SpawnInv, HandlerInv, Spawning,
    Exits, DownInv, ChangeInv
<1>13. ASSUME NEW a \in Attempts, NEW op \in Ops, RevokeLive(op, a) PROVE SpawnInv'
  BY <1>13, RevokeLiveFacts, BoundTask DEF MemOnly, FrozenOnly, Alike, Kills, Idle, SpawnInv,
    HandlerInv, Spawning, Exits, DownInv, ChangeInv
<1>14. ASSUME NEW a \in Attempts, NEW op \in Ops, Seal(op, a) PROVE SpawnInv'
  BY <1>14, SealFacts, BoundTask DEF Opens, Idle, SpawnInv, HandlerInv, Spawning, Exits,
    DownInv, ChangeInv
<1>15. CASE CreateWrite
  BY <1>15, CreateWriteFacts, JobTypes, BoundTask DEF Mirrors, MemOnly, DiskOnly, ShownOnly, Closes,
    Shows, Applies, Writes, Fails, Keeps, SpawnInv, HandlerInv, Spawning, Exits, DownInv, ChangeInv
<1>16. CASE CommitJournal
  BY <1>16, CommitJournalFacts, JobTypes, BoundTask DEF Mirrors, DiskOnly, Moves, Closes, Refuses,
    Writes, Fails, SpawnInv, HandlerInv, Spawning, Exits, DownInv, ChangeInv
<1>17. CASE CommitVersion
  BY <1>17, CommitVersionFacts, JobTypes, BoundTask DEF Moves, SpawnInv, HandlerInv, Spawning,
    Exits, DownInv, ChangeInv
<1>18. CASE CommitEvidence
  BY <1>18, CommitEvidenceFacts, JobTypes, BoundTask DEF MemOnly, LogOnly, ShownOnly, Moves, Closes,
    Shows, Applies, Says, Logs, Misses, SpawnInv, HandlerInv, Spawning, Exits, DownInv, ChangeInv
<1>19. CASE Restore
  BY <1>19, RestoreFacts, JobTypes, BoundTask DEF Mirrors, DiskOnly, Moves, Closes, Refuses, Writes,
    Fails, SpawnInv, HandlerInv, Spawning, Exits, DownInv, ChangeInv
<1>20. CASE Undo
  BY <1>20, UndoFacts, JobTypes, BoundTask DEF FrozenOnly, Closes, SpawnInv, HandlerInv, Spawning,
    Exits, DownInv, ChangeInv
<1>21. CASE SealOpen
  BY <1>21, SealOpenFacts, JobTypes, BoundTask DEF MemOnly, LogOnly, ShownOnly, Moves, Closes,
    Shows, Applies, Says, Logs, Misses, SpawnInv, HandlerInv, Spawning, Exits, DownInv, ChangeInv
<1>22. CASE SealMark
  BY <1>22, SealMarkFacts, JobTypes, BoundTask DEF LogOnly, Moves, Says, Logs, Misses, SpawnInv,
    HandlerInv, Spawning, Exits, DownInv, ChangeInv
<1>23. CASE SealHeadNew
  BY <1>23, SealHeadNewFacts, JobTypes, BoundTask DEF LogOnly, Moves, Says, Heads, SpawnInv,
    HandlerInv, Spawning, Exits, DownInv, ChangeInv
<1>24. CASE SealHeadText
  BY <1>24, SealHeadTextFacts, JobTypes, BoundTask DEF MemOnly, LogOnly, ShownOnly, Moves, Closes,
    Shows, Applies, Says, Heads, SpawnInv, HandlerInv, Spawning, Exits, DownInv, ChangeInv
<1>25. CASE LaunchIntent
  BY <1>25, LaunchIntentFacts, JobTypes, BoundTask DEF DiskOnly, ReapOnly, Moves, Closes, Intends,
    SpawnInv, HandlerInv, Spawning, Exits, DownInv, ChangeInv
<1>26. CASE SpawnReport
  BY <1>26, SpawnReportFacts, JobTypes, BoundTask DEF Mirrors, DiskOnly, ReapOnly, Opens, Closes,
    Writes, Fails, Ends, SpawnFails, Spawns, SpawnInv, HandlerInv, Spawning, Exits, DownInv,
    ChangeInv
<1>27. CASE RecordRunning
  BY <1>27, RecordRunningFacts, JobTypes, BoundTask DEF Mirrors, DiskOnly, Opens, Moves, Writes,
    Fails, Ends, SpawnFails, SpawnInv, HandlerInv, Spawning, Exits, DownInv, ChangeInv
<1>28. CASE RecordLaunched
  BY <1>28, RecordLaunchedFacts, JobTypes, BoundTask DEF MemOnly, LogOnly, ShownOnly, Opens, Closes,
    Shows, Applies, Says, Logs, Misses, Ends, SpawnFails, SpawnInv, HandlerInv, Spawning, Exits,
    DownInv, ChangeInv
<1>29. CASE RecordEnd
  BY <1>29, RecordEndFacts, JobTypes, BoundTask DEF Mirrors, DiskOnly, Moves, Writes, Fails,
    SpawnInv, HandlerInv, Spawning, Exits, DownInv, ChangeInv
<1>30. CASE RecordEnded
  BY <1>30, RecordEndedFacts, JobTypes, BoundTask DEF MemOnly, LogOnly, ReapOnly, ShownOnly, Closes,
    Shows, Applies, Says, Logs, Misses, SpawnInv, HandlerInv, Spawning, Exits, DownInv, ChangeInv
<1>31. ASSUME NEW w \in waits, FinishStop(w) PROVE SpawnInv'
  BY <1>31, FinishStopFacts, BoundTask DEF Idle, SpawnInv, HandlerInv, Spawning, Exits, DownInv,
    ChangeInv
<1>32. ASSUME NEW w \in waits, FinishRevoke(w) PROVE SpawnInv'
  BY <1>32, FinishRevokeFacts, BoundTask DEF Opens, Ends, Idle, SpawnInv, HandlerInv, Spawning,
    Exits, DownInv, ChangeInv
<1>33. CASE Crash
  BY <1>33, CrashFacts, BoundTask DEF Closes, Partly, Says, Blank, SpawnInv, HandlerInv, Spawning, Exits,
    DownInv, ChangeInv
<1>34. CASE Restart
  BY <1>34, RestartFacts, BoundTask DEF SpawnInv, HandlerInv, Spawning, Exits, DownInv, ChangeInv
<1>35. ASSUME NEW t \in todo, RecoverRecord(t) PROVE SpawnInv'
  BY <1>35, RecoverRecordFacts, BoundTask DEF DiskOnly, Opens, Blank, Recovers, SpawnInv,
    HandlerInv, Spawning, Exits, DownInv, ChangeInv
<1>36. CASE RecoverLog
  BY <1>36, RecoverLogFacts, JobTypes, BoundTask DEF MemOnly, LogOnly, ShownOnly, Closes, Shows,
    Partly, Says, Mends, SpawnInv, HandlerInv, Spawning, Exits, DownInv, ChangeInv
<1>37. CASE Serve
  BY <1>37, ServeFacts, BoundTask DEF SpawnInv, HandlerInv, Spawning, Exits, DownInv, ChangeInv
<1>38. ASSUME NEW a \in Attempts, Launch(a) PROVE SpawnInv'
  BY <1>38, LaunchFacts, JobTypes, BoundTask DEF ReapOnly, SpawnInv, HandlerInv, Spawning, Exits,
    DownInv, ChangeInv
<1>39. ASSUME NEW a \in Attempts, LateLaunch(a) PROVE SpawnInv'
  BY <1>39, LateLaunchFacts, JobTypes, BoundTask DEF ReapOnly, SpawnInv, HandlerInv, Spawning,
    Exits, DownInv, ChangeInv
<1>40. ASSUME NEW a \in Attempts, DropLate(a) PROVE SpawnInv'
  BY <1>40, DropLateFacts, JobTypes, BoundTask DEF ReapOnly, SpawnInv, HandlerInv, Spawning, Exits,
    DownInv, ChangeInv
<1>41. ASSUME NEW a \in Attempts, RecordExit(a) PROVE SpawnInv'
  BY <1>41, RecordExitFacts, JobTypes, BoundTask DEF ReapOnly, Opens, Idle, SpawnInv, HandlerInv,
    Spawning, Exits, DownInv, ChangeInv
<1>42. ASSUME NEW a \in Attempts, NEW e \in Exits, WorkloadEnds(a, e) PROVE SpawnInv'
  BY <1>42, WorkloadEndsFacts, JobTypes, BoundTask DEF ReapOnly, SpawnInv, HandlerInv, Spawning,
    Exits, DownInv, ChangeInv
<1>43. CASE NoThread
  BY <1>43, NoThreadFacts, JobTypes, BoundTask DEF ReapOnly, SpawnInv, HandlerInv, Spawning, Exits,
    DownInv, ChangeInv
<1>44. ASSUME NEW a \in Attempts, SandboxSetUp(a) PROVE SpawnInv'
  BY <1>44, SandboxSetUpFacts, JobTypes, BoundTask DEF SpawnInv, HandlerInv, Spawning, Exits,
    DownInv, ChangeInv
<1> QED
  BY <1>1, <1>2, <1>3, <1>4, <1>5, <1>6, <1>7, <1>8, <1>9, <1>10, <1>11, <1>12, <1>13, <1>14, <1>15,
    <1>16, <1>17, <1>18, <1>19, <1>20, <1>21, <1>22, <1>23, <1>24, <1>25, <1>26, <1>27, <1>28,
    <1>29, <1>30, <1>31, <1>32, <1>33, <1>34, <1>35, <1>36, <1>37, <1>38, <1>39, <1>40, <1>41, <1>42,
    <1>43, <1>44
  DEF Next, Request, JobStep, Answer, Reaper, Recovery

LEMMA DownInductive == ASSUME TypeInv, ReplaceInv, HandlerInv, ShapeInv, ChangeInv, SpawnInv, DownInv, [Next]_vars PROVE DownInv'
<1>1. CASE UNCHANGED vars
  BY <1>1 DEF vars, registry, workloads, durable, process, history, DownInv, HandlerInv, SpawnInv,
    Spawning
<1>2. ASSUME NEW a \in Attempts, CreateNew(a) PROVE DownInv'
  BY <1>2, CreateNewFacts, BoundTask DEF Opens, Fresh, Idle, DownInv, HandlerInv, SpawnInv, Spawning
<1>3. ASSUME NEW a \in Attempts, CreateEvict(a) PROVE DownInv'
  BY <1>3, CreateEvictFacts, BoundTask DEF MemOnly, DiskOnly, Opens, Fresh, Blank, Keeps, Idle,
    DownInv, HandlerInv, SpawnInv, Spawning
<1>4. ASSUME NEW a \in Attempts, CreateReplace(a) PROVE DownInv'
  BY <1>4, CreateReplaceFacts, BoundTask DEF Opens, Fresh, Idle, DownInv, HandlerInv, SpawnInv,
    Spawning
<1>5. ASSUME NEW a \in Attempts, Pause(a) PROVE DownInv'
  BY <1>5, PauseFacts, BoundTask DEF FrozenOnly, Opens, Alike, Idle, DownInv, HandlerInv, SpawnInv,
    Spawning
<1>6. ASSUME NEW a \in Attempts, Resume(a) PROVE DownInv'
  BY <1>6, ResumeFacts, BoundTask DEF FrozenOnly, Opens, Alike, Idle, DownInv, HandlerInv, SpawnInv,
    Spawning
<1>7. ASSUME NEW a \in Attempts, Start(a) PROVE DownInv'
  BY <1>7, StartFacts, BoundTask DEF Opens, Idle, DownInv, HandlerInv, SpawnInv, Spawning
<1>8. ASSUME NEW a \in Attempts, NEW v \in Versions, Admit(a, v) PROVE DownInv'
  BY <1>8, AdmitFacts, BoundTask DEF Opens, Alike, Idle, DownInv, HandlerInv, SpawnInv, Spawning
<1>9. ASSUME NEW a \in Attempts, NEW op \in Ops, StopReady(op, a) PROVE DownInv'
  BY <1>9, StopReadyFacts, BoundTask DEF Opens, Ends, Idle, DownInv, HandlerInv, SpawnInv, Spawning
<1>10. ASSUME NEW a \in Attempts, NEW op \in Ops, StopLive(op, a) PROVE DownInv'
  BY <1>10, StopLiveFacts, BoundTask DEF MemOnly, FrozenOnly, Alike, Kills, Idle, DownInv,
    HandlerInv, SpawnInv, Spawning
<1>11. ASSUME NEW a \in Attempts, NEW op \in Ops, StopReplay(op, a) PROVE DownInv'
  BY <1>11, StopReplayFacts, BoundTask DEF Idle, DownInv, HandlerInv, SpawnInv, Spawning
<1>12. ASSUME NEW a \in Attempts, NEW op \in Ops, RevokeReady(op, a) PROVE DownInv'
  BY <1>12, RevokeReadyFacts, BoundTask DEF Opens, Ends, Idle, DownInv, HandlerInv, SpawnInv,
    Spawning
<1>13. ASSUME NEW a \in Attempts, NEW op \in Ops, RevokeLive(op, a) PROVE DownInv'
  BY <1>13, RevokeLiveFacts, BoundTask DEF MemOnly, FrozenOnly, Alike, Kills, Idle, DownInv,
    HandlerInv, SpawnInv, Spawning
<1>14. ASSUME NEW a \in Attempts, NEW op \in Ops, Seal(op, a) PROVE DownInv'
  BY <1>14, SealFacts, BoundTask DEF Opens, Idle, DownInv, HandlerInv, SpawnInv, Spawning
<1>15. CASE CreateWrite
  BY <1>15, CreateWriteFacts, JobTypes, BoundTask DEF Mirrors, MemOnly, DiskOnly, ShownOnly, Closes,
    Shows, Applies, Writes, Fails, Keeps, DownInv, HandlerInv, SpawnInv, Spawning
<1>16. CASE CommitJournal
  BY <1>16, CommitJournalFacts, JobTypes, BoundTask DEF Mirrors, DiskOnly, Moves, Closes, Refuses,
    Writes, Fails, DownInv, HandlerInv, SpawnInv, Spawning
<1>17. CASE CommitVersion
  BY <1>17, CommitVersionFacts, JobTypes, BoundTask DEF Moves, DownInv, HandlerInv, SpawnInv,
    Spawning
<1>18. CASE CommitEvidence
  BY <1>18, CommitEvidenceFacts, JobTypes, BoundTask DEF MemOnly, LogOnly, ShownOnly, Moves, Closes,
    Shows, Applies, Says, Logs, Misses, DownInv, HandlerInv, SpawnInv, Spawning
<1>19. CASE Restore
  BY <1>19, RestoreFacts, JobTypes, BoundTask DEF Mirrors, DiskOnly, Moves, Closes, Refuses, Writes,
    Fails, DownInv, HandlerInv, SpawnInv, Spawning
<1>20. CASE Undo
  BY <1>20, UndoFacts, JobTypes, BoundTask DEF FrozenOnly, Closes, DownInv, HandlerInv, SpawnInv,
    Spawning
<1>21. CASE SealOpen
  BY <1>21, SealOpenFacts, JobTypes, BoundTask DEF MemOnly, LogOnly, ShownOnly, Moves, Closes,
    Shows, Applies, Says, Logs, Misses, DownInv, HandlerInv, SpawnInv, Spawning
<1>22. CASE SealMark
  BY <1>22, SealMarkFacts, JobTypes, BoundTask DEF LogOnly, Moves, Says, Logs, Misses, DownInv,
    HandlerInv, SpawnInv, Spawning
<1>23. CASE SealHeadNew
  BY <1>23, SealHeadNewFacts, JobTypes, BoundTask DEF LogOnly, Moves, Says, Heads, DownInv,
    HandlerInv, SpawnInv, Spawning
<1>24. CASE SealHeadText
  BY <1>24, SealHeadTextFacts, JobTypes, BoundTask DEF MemOnly, LogOnly, ShownOnly, Moves, Closes,
    Shows, Applies, Says, Heads, DownInv, HandlerInv, SpawnInv, Spawning
<1>25. CASE LaunchIntent
  BY <1>25, LaunchIntentFacts, JobTypes, BoundTask DEF DiskOnly, ReapOnly, Moves, Closes, Intends,
    DownInv, HandlerInv, SpawnInv, Spawning
<1>26. CASE SpawnReport
  BY <1>26, SpawnReportFacts, JobTypes, BoundTask DEF Mirrors, DiskOnly, ReapOnly, Opens, Closes,
    Writes, Fails, Ends, SpawnFails, Spawns, DownInv, HandlerInv, SpawnInv, Spawning
<1>27. CASE RecordRunning
  BY <1>27, RecordRunningFacts, JobTypes, BoundTask DEF Mirrors, DiskOnly, Opens, Moves, Writes,
    Fails, Ends, SpawnFails, DownInv, HandlerInv, SpawnInv, Spawning
<1>28. CASE RecordLaunched
  BY <1>28, RecordLaunchedFacts, JobTypes, BoundTask DEF MemOnly, LogOnly, ShownOnly, Opens, Closes,
    Shows, Applies, Says, Logs, Misses, Ends, SpawnFails, DownInv, HandlerInv, SpawnInv, Spawning
<1>29. CASE RecordEnd
  BY <1>29, RecordEndFacts, JobTypes, BoundTask DEF Mirrors, DiskOnly, Moves, Writes, Fails,
    DownInv, HandlerInv, SpawnInv, Spawning
<1>30. CASE RecordEnded
  BY <1>30, RecordEndedFacts, JobTypes, BoundTask DEF MemOnly, LogOnly, ReapOnly, ShownOnly, Closes,
    Shows, Applies, Says, Logs, Misses, DownInv, HandlerInv, SpawnInv, Spawning
<1>31. ASSUME NEW w \in waits, FinishStop(w) PROVE DownInv'
  BY <1>31, FinishStopFacts, BoundTask DEF Idle, DownInv, HandlerInv, SpawnInv, Spawning
<1>32. ASSUME NEW w \in waits, FinishRevoke(w) PROVE DownInv'
  BY <1>32, FinishRevokeFacts, BoundTask DEF Opens, Ends, Idle, DownInv, HandlerInv, SpawnInv,
    Spawning
<1>33. CASE Crash
  BY <1>33, CrashFacts, BoundTask DEF Closes, Partly, Says, Blank, DownInv, HandlerInv, SpawnInv, Spawning
<1>34. CASE Restart
  BY <1>34, RestartFacts, BoundTask DEF DownInv, HandlerInv, SpawnInv, Spawning
<1>35. ASSUME NEW t \in todo, RecoverRecord(t) PROVE DownInv'
  BY <1>35, RecoverRecordFacts, BoundTask DEF DiskOnly, Opens, Blank, Recovers, DownInv, HandlerInv,
    SpawnInv, Spawning
<1>36. CASE RecoverLog
  BY <1>36, RecoverLogFacts, JobTypes, BoundTask DEF MemOnly, LogOnly, ShownOnly, Closes, Shows,
    Partly, Says, Mends, DownInv, HandlerInv, SpawnInv, Spawning
<1>37. CASE Serve
  BY <1>37, ServeFacts, BoundTask DEF DownInv, HandlerInv, SpawnInv, Spawning
<1>38. ASSUME NEW a \in Attempts, Launch(a) PROVE DownInv'
  BY <1>38, LaunchFacts, JobTypes, BoundTask DEF ReapOnly, DownInv, HandlerInv, SpawnInv, Spawning
<1>39. ASSUME NEW a \in Attempts, LateLaunch(a) PROVE DownInv'
  BY <1>39, LateLaunchFacts, JobTypes, BoundTask DEF ReapOnly, DownInv, HandlerInv, SpawnInv,
    Spawning
<1>40. ASSUME NEW a \in Attempts, DropLate(a) PROVE DownInv'
  BY <1>40, DropLateFacts, JobTypes, BoundTask DEF ReapOnly, DownInv, HandlerInv, SpawnInv, Spawning
<1>41. ASSUME NEW a \in Attempts, RecordExit(a) PROVE DownInv'
  BY <1>41, RecordExitFacts, JobTypes, BoundTask DEF ReapOnly, Opens, Idle, DownInv, HandlerInv,
    SpawnInv, Spawning
<1>42. ASSUME NEW a \in Attempts, NEW e \in Exits, WorkloadEnds(a, e) PROVE DownInv'
  BY <1>42, WorkloadEndsFacts, JobTypes, BoundTask DEF ReapOnly, DownInv, HandlerInv, SpawnInv,
    Spawning
<1>43. CASE NoThread
  BY <1>43, NoThreadFacts, JobTypes, BoundTask DEF ReapOnly, DownInv, HandlerInv, SpawnInv, Spawning
<1>44. ASSUME NEW a \in Attempts, SandboxSetUp(a) PROVE DownInv'
  BY <1>44, SandboxSetUpFacts, JobTypes, BoundTask DEF DownInv, HandlerInv, SpawnInv, Spawning
<1> QED
  BY <1>1, <1>2, <1>3, <1>4, <1>5, <1>6, <1>7, <1>8, <1>9, <1>10, <1>11, <1>12, <1>13, <1>14, <1>15,
    <1>16, <1>17, <1>18, <1>19, <1>20, <1>21, <1>22, <1>23, <1>24, <1>25, <1>26, <1>27, <1>28,
    <1>29, <1>30, <1>31, <1>32, <1>33, <1>34, <1>35, <1>36, <1>37, <1>38, <1>39, <1>40, <1>41, <1>42,
    <1>43, <1>44
  DEF Next, Request, JobStep, Answer, Reaper, Recovery

LEMMA ShapeInductive == ASSUME TypeInv, ReplaceInv, HandlerInv, ShapeInv, ChangeInv, SpawnInv, DownInv, [Next]_vars PROVE ShapeInv'
<1>1. CASE UNCHANGED vars
  BY <1>1 DEF vars, registry, workloads, durable, process, history, ShapeInv, ChangeInv, HandlerInv,
    Changers, Outcomes, TaskShape, RecordShape, LiveStates, Over, Ended
<1>2. ASSUME NEW a \in Attempts, CreateNew(a) PROVE ShapeInv'
  BY <1>2, CreateNewFacts, BoundTask DEF Opens, Fresh, Idle, ShapeInv, ChangeInv, HandlerInv,
    Changers, Outcomes, TaskShape, RecordShape, LiveStates, Over, Ended
<1>3. ASSUME NEW a \in Attempts, CreateEvict(a) PROVE ShapeInv'
  BY <1>3, CreateEvictFacts, BoundTask DEF MemOnly, DiskOnly, Opens, Fresh, Blank, Keeps, Idle,
    ShapeInv, ChangeInv, HandlerInv, Changers, Outcomes, TaskShape, RecordShape, LiveStates, Over,
    Ended
<1>4. ASSUME NEW a \in Attempts, CreateReplace(a) PROVE ShapeInv'
  BY <1>4, CreateReplaceFacts, BoundTask DEF Opens, Fresh, Idle, ShapeInv, ChangeInv, HandlerInv,
    Changers, Outcomes, TaskShape, RecordShape, LiveStates, Over, Ended
<1>5. ASSUME NEW a \in Attempts, Pause(a) PROVE ShapeInv'
  BY <1>5, PauseFacts, BoundTask DEF FrozenOnly, Opens, Alike, Idle, ShapeInv, ChangeInv,
    HandlerInv, Changers, Outcomes, TaskShape, RecordShape, LiveStates, Over, Ended
<1>6. ASSUME NEW a \in Attempts, Resume(a) PROVE ShapeInv'
  BY <1>6, ResumeFacts, BoundTask DEF FrozenOnly, Opens, Alike, Idle, ShapeInv, ChangeInv,
    HandlerInv, Changers, Outcomes, TaskShape, RecordShape, LiveStates, Over, Ended
<1>7. ASSUME NEW a \in Attempts, Start(a) PROVE ShapeInv'
  BY <1>7, StartFacts, BoundTask DEF Opens, Idle, ShapeInv, ChangeInv, HandlerInv, Changers,
    Outcomes, TaskShape, RecordShape, LiveStates, Over, Ended
<1>8. ASSUME NEW a \in Attempts, NEW v \in Versions, Admit(a, v) PROVE ShapeInv'
  BY <1>8, AdmitFacts, BoundTask DEF Opens, Alike, Idle, ShapeInv, ChangeInv, HandlerInv, Changers,
    Outcomes, TaskShape, RecordShape, LiveStates, Over, Ended
<1>9. ASSUME NEW a \in Attempts, NEW op \in Ops, StopReady(op, a) PROVE ShapeInv'
  BY <1>9, StopReadyFacts, BoundTask DEF Opens, Ends, Idle, ShapeInv, ChangeInv, HandlerInv,
    Changers, Outcomes, TaskShape, RecordShape, LiveStates, Over, Ended
<1>10. ASSUME NEW a \in Attempts, NEW op \in Ops, StopLive(op, a) PROVE ShapeInv'
  BY <1>10, StopLiveFacts, BoundTask DEF MemOnly, FrozenOnly, Alike, Kills, Idle, ShapeInv,
    ChangeInv, HandlerInv, Changers, Outcomes, TaskShape, RecordShape, LiveStates, Over, Ended
<1>11. ASSUME NEW a \in Attempts, NEW op \in Ops, StopReplay(op, a) PROVE ShapeInv'
  BY <1>11, StopReplayFacts, BoundTask DEF Idle, ShapeInv, ChangeInv, HandlerInv, Changers,
    Outcomes, TaskShape, RecordShape, LiveStates, Over, Ended
<1>12. ASSUME NEW a \in Attempts, NEW op \in Ops, RevokeReady(op, a) PROVE ShapeInv'
  BY <1>12, RevokeReadyFacts, BoundTask DEF Opens, Ends, Idle, ShapeInv, ChangeInv, HandlerInv,
    Changers, Outcomes, TaskShape, RecordShape, LiveStates, Over, Ended
<1>13. ASSUME NEW a \in Attempts, NEW op \in Ops, RevokeLive(op, a) PROVE ShapeInv'
  BY <1>13, RevokeLiveFacts, BoundTask DEF MemOnly, FrozenOnly, Alike, Kills, Idle, ShapeInv,
    ChangeInv, HandlerInv, Changers, Outcomes, TaskShape, RecordShape, LiveStates, Over, Ended
<1>14. ASSUME NEW a \in Attempts, NEW op \in Ops, Seal(op, a) PROVE ShapeInv'
  BY <1>14, SealFacts, BoundTask DEF Opens, Idle, ShapeInv, ChangeInv, HandlerInv,
    Changers, Outcomes, TaskShape, RecordShape, LiveStates, Over, Ended
<1>15. CASE CreateWrite
  <2>1. /\ job.pc = "journal" /\ job.att \in Attempts /\ TaskOf[job.att] \in Tasks /\ job.new.att = job.att
    BY <1>15, CreateWriteFacts, JobTypes
  <2>2. CASE Writes(TaskOf[job.att], job.new) /\ Applies
    BY <2>1, <2>2 DEF Mirrors, MemOnly, DiskOnly, Closes, Applies, Writes, ShapeInv, ChangeInv,
      HandlerInv, Changers, TaskShape, RecordShape
  <2>3. CASE Fails(TaskOf[job.att], job.new) /\ Closes /\ UNCHANGED mem
    BY <2>1, <2>3 DEF Mirrors, DiskOnly, Closes, Fails, ShapeInv, ChangeInv, HandlerInv, Changers,
      TaskShape, RecordShape
  <2> QED
    BY <1>15, <2>2, <2>3, CreateWriteFacts
<1>16. CASE CommitJournal
  BY <1>16, CommitJournalFacts, JobTypes, BoundTask DEF Mirrors, DiskOnly, Moves, Closes, Refuses,
    Writes, Fails, ShapeInv, ChangeInv, HandlerInv, Changers, Outcomes, TaskShape, RecordShape,
    LiveStates, Over, Ended
<1>17. CASE CommitVersion
  BY <1>17, CommitVersionFacts, JobTypes, BoundTask DEF Moves, ShapeInv, ChangeInv,
    HandlerInv, Changers, Outcomes, TaskShape, RecordShape, LiveStates, Over, Ended
<1>18. CASE CommitEvidence
  BY <1>18, CommitEvidenceFacts, JobTypes, BoundTask DEF MemOnly, LogOnly, ShownOnly,
    Moves, Closes, Shows, Applies, Says, Logs, Misses, ShapeInv, ChangeInv, HandlerInv, Changers,
    Outcomes, TaskShape, RecordShape, LiveStates, Over, Ended
<1>19. CASE Restore
  <2>1. /\ job.pc = "restore" /\ UNCHANGED mem /\ Refuses
        /\ job.att \in Attempts /\ TaskOf[job.att] \in Tasks /\ job.new.att = job.att
    BY <1>19, RestoreFacts, JobTypes
  <2>2. CASE Writes(TaskOf[job.att], mem[TaskOf[job.att]])
    BY <2>1, <2>2 DEF Mirrors, DiskOnly, Moves, Closes, Refuses, Writes, ShapeInv, ChangeInv,
      HandlerInv, Changers, TaskShape, RecordShape, Ended
  <2>3. CASE Fails(TaskOf[job.att], mem[TaskOf[job.att]])
    BY <2>1, <2>3 DEF Mirrors, DiskOnly, Moves, Closes, Refuses, Fails, ShapeInv, ChangeInv,
      HandlerInv, Changers, TaskShape, RecordShape, Ended
  <2> QED
    BY <1>19, <2>2, <2>3, RestoreFacts
<1>20. CASE Undo
  BY <1>20, UndoFacts, JobTypes, BoundTask DEF FrozenOnly, Closes, ShapeInv, ChangeInv,
    HandlerInv, Changers, Outcomes, TaskShape, RecordShape, LiveStates, Over, Ended
<1>21. CASE SealOpen
  BY <1>21, SealOpenFacts DEF MemOnly, Moves, Closes, Applies, ShapeInv
<1>22. CASE SealMark
  BY <1>22, SealMarkFacts, JobTypes, BoundTask DEF LogOnly, Moves, Says, Logs, Misses, ShapeInv,
    ChangeInv, HandlerInv, Changers, Outcomes, TaskShape, RecordShape, LiveStates, Over, Ended
<1>23. CASE SealHeadNew
  BY <1>23, SealHeadNewFacts, JobTypes, BoundTask DEF LogOnly, Moves, Says, Heads,
    ShapeInv, ChangeInv, HandlerInv, Changers, Outcomes, TaskShape, RecordShape, LiveStates, Over,
    Ended
<1>24. CASE SealHeadText
  BY <1>24, SealHeadTextFacts, JobTypes, BoundTask DEF MemOnly, LogOnly, ShownOnly, Moves,
    Closes, Shows, Applies, Says, Heads, ShapeInv, ChangeInv, HandlerInv, Changers, Outcomes,
    TaskShape, RecordShape, LiveStates, Over, Ended
<1>25. CASE LaunchIntent
  BY <1>25, LaunchIntentFacts, JobTypes, BoundTask DEF DiskOnly, ReapOnly, Moves, Closes,
    Intends, ShapeInv, ChangeInv, HandlerInv, Changers, Outcomes, TaskShape, RecordShape,
    LiveStates, Over, Ended
<1>26. CASE SpawnReport
  BY <1>26, SpawnReportFacts, JobTypes, BoundTask DEF Mirrors, DiskOnly, ReapOnly, Opens,
    Closes, Writes, Fails, Ends, SpawnFails, Spawns, ShapeInv, ChangeInv, HandlerInv, Changers,
    Outcomes, TaskShape, RecordShape, LiveStates, Over, Ended
<1>27. CASE RecordRunning
  BY <1>27, RecordRunningFacts, JobTypes, BoundTask DEF Mirrors, DiskOnly, Opens, Moves,
    Writes, Fails, Ends, SpawnFails, ShapeInv, ChangeInv, HandlerInv, Changers, Outcomes, TaskShape,
    RecordShape, LiveStates, Over, Ended
<1>28. CASE RecordLaunched
  BY <1>28, RecordLaunchedFacts, JobTypes, BoundTask DEF MemOnly, LogOnly, ShownOnly,
    Opens, Closes, Shows, Applies, Says, Logs, Misses, Ends, SpawnFails, ShapeInv, ChangeInv,
    HandlerInv, Changers, Outcomes, TaskShape, RecordShape, LiveStates, Over, Ended
<1>29. CASE RecordEnd
  BY <1>29, RecordEndFacts, JobTypes, BoundTask DEF Mirrors, DiskOnly, Moves, Writes, Fails,
    ShapeInv, ChangeInv, HandlerInv, Changers, Outcomes, TaskShape, RecordShape, LiveStates, Over,
    Ended
<1>30. CASE RecordEnded
  BY <1>30, RecordEndedFacts, JobTypes, BoundTask DEF MemOnly, LogOnly, ReapOnly, ShownOnly, Closes,
    Shows, Applies, Says, Logs, Misses, ShapeInv, ChangeInv, HandlerInv, Changers, Outcomes,
    TaskShape, RecordShape, LiveStates, Over, Ended
<1>31. ASSUME NEW w \in waits, FinishStop(w) PROVE ShapeInv'
  BY <1>31, FinishStopFacts, BoundTask DEF Idle, ShapeInv, ChangeInv, HandlerInv, Changers,
    Outcomes, TaskShape, RecordShape, LiveStates, Over, Ended
<1>32. ASSUME NEW w \in waits, FinishRevoke(w) PROVE ShapeInv'
  BY <1>32, FinishRevokeFacts, BoundTask DEF Opens, Ends, Idle, ShapeInv, ChangeInv, HandlerInv,
    Changers, Outcomes, TaskShape, RecordShape, LiveStates, Over, Ended
<1>33. CASE Crash
  BY <1>33, CrashFacts, BoundTask DEF Closes, Partly, Says, Blank, ShapeInv, ChangeInv, HandlerInv,
    Changers, Outcomes, TaskShape, RecordShape, LiveStates, Over, Ended
<1>34. CASE Restart
  BY <1>34, RestartFacts, BoundTask DEF ShapeInv, ChangeInv, HandlerInv, Changers, Outcomes,
    TaskShape, RecordShape, LiveStates, Over, Ended
<1>35. ASSUME NEW t \in todo, RecoverRecord(t) PROVE ShapeInv'
  BY <1>35, RecoverRecordFacts, BoundTask DEF DiskOnly, Opens, Blank, Recovers, ShapeInv,
    ChangeInv, HandlerInv, Changers, Outcomes, TaskShape, RecordShape, LiveStates, Over, Ended
<1>36. CASE RecoverLog
  <2>0. UNCHANGED disk /\ Closes /\ job.pc # "idle"
    BY <1>36, RecoverLogFacts
  <2>1. TaskShape(job.new) /\ \A u \in Tasks : Blank(mem'[u]) => TaskShape(mem'[u])
    BY <2>0 DEF ShapeInv, TaskShape, Blank, LiveStates, Over, Ended
  <2>2. ASSUME NEW u \in Tasks PROVE TaskShape(mem'[u])
    BY <1>36, <2>1, RecoverLogFacts DEF ShapeInv, MemOnly
  <2> QED
    BY <2>0, <2>2 DEF ShapeInv, Closes
<1>37. CASE Serve
  BY <1>37, ServeFacts, BoundTask DEF ShapeInv, ChangeInv, HandlerInv, Changers, Outcomes,
    TaskShape, RecordShape, LiveStates, Over, Ended
<1>38. ASSUME NEW a \in Attempts, Launch(a) PROVE ShapeInv'
  BY <1>38, LaunchFacts, JobTypes, BoundTask DEF ReapOnly, ShapeInv, ChangeInv, HandlerInv,
    Changers, Outcomes, TaskShape, RecordShape, LiveStates, Over, Ended
<1>39. ASSUME NEW a \in Attempts, LateLaunch(a) PROVE ShapeInv'
  BY <1>39, LateLaunchFacts, JobTypes, BoundTask DEF ReapOnly, ShapeInv, ChangeInv, HandlerInv,
    Changers, Outcomes, TaskShape, RecordShape, LiveStates, Over, Ended
<1>40. ASSUME NEW a \in Attempts, DropLate(a) PROVE ShapeInv'
  BY <1>40, DropLateFacts, JobTypes, BoundTask DEF ReapOnly, ShapeInv, ChangeInv, HandlerInv,
    Changers, Outcomes, TaskShape, RecordShape, LiveStates, Over, Ended
<1>41. ASSUME NEW a \in Attempts, RecordExit(a) PROVE ShapeInv'
  BY <1>41, RecordExitFacts, JobTypes, BoundTask DEF ReapOnly, Opens, Idle, ShapeInv, ChangeInv,
    HandlerInv, Changers, Outcomes, TaskShape, RecordShape, LiveStates, Over, Ended
<1>42. ASSUME NEW a \in Attempts, NEW e \in Exits, WorkloadEnds(a, e) PROVE ShapeInv'
  BY <1>42, WorkloadEndsFacts, JobTypes, BoundTask DEF ReapOnly, ShapeInv, ChangeInv, HandlerInv,
    Changers, Outcomes, TaskShape, RecordShape, LiveStates, Over, Ended
<1>43. CASE NoThread
  BY <1>43, NoThreadFacts, JobTypes, BoundTask DEF ReapOnly, ShapeInv, ChangeInv, HandlerInv,
    Changers, Outcomes, TaskShape, RecordShape, LiveStates, Over, Ended
<1>44. ASSUME NEW a \in Attempts, SandboxSetUp(a) PROVE ShapeInv'
  BY <1>44, SandboxSetUpFacts, JobTypes, BoundTask DEF ShapeInv, ChangeInv, HandlerInv, Changers,
    Outcomes, TaskShape, RecordShape, LiveStates, Over, Ended
<1> QED
  BY <1>1, <1>2, <1>3, <1>4, <1>5, <1>6, <1>7, <1>8, <1>9, <1>10, <1>11, <1>12, <1>13, <1>14, <1>15,
    <1>16, <1>17, <1>18, <1>19, <1>20, <1>21, <1>22, <1>23, <1>24, <1>25, <1>26, <1>27, <1>28,
    <1>29, <1>30, <1>31, <1>32, <1>33, <1>34, <1>35, <1>36, <1>37, <1>38, <1>39, <1>40, <1>41, <1>42,
    <1>43, <1>44
  DEF Next, Request, JobStep, Answer, Reaper, Recovery

LEMMA ChangeInductive == ASSUME TypeInv, ReplaceInv, HandlerInv, ShapeInv, ChangeInv, SpawnInv, DownInv, [Next]_vars PROVE ChangeInv'
<1>1. CASE UNCHANGED vars
  BY <1>1 DEF vars, registry, workloads, durable, process, history, ShapeInv, Placed, ReplaceInv,
    ChangeInv, HandlerInv, Changers, LiveStates, Over, Ended, Exits, Outcomes, TaskShape,
    RecordShape
<1>2. ASSUME NEW a \in Attempts, CreateNew(a) PROVE ChangeInv'
  BY <1>2, CreateNewFacts, BoundTask DEF Opens, Fresh, Idle, ShapeInv, Placed, ReplaceInv,
    ChangeInv, HandlerInv, Changers, LiveStates, Over, Ended, Exits, Outcomes, TaskShape,
    RecordShape
<1>3. ASSUME NEW a \in Attempts, CreateEvict(a) PROVE ChangeInv'
  BY <1>3, CreateEvictFacts, BoundTask DEF MemOnly, DiskOnly, Opens, Fresh, Blank, Keeps, Idle,
    ShapeInv, Placed, ReplaceInv, ChangeInv, HandlerInv, Changers, LiveStates, Over, Ended, Exits,
    Outcomes, TaskShape, RecordShape
<1>4. ASSUME NEW a \in Attempts, CreateReplace(a) PROVE ChangeInv'
  BY <1>4, CreateReplaceFacts, BoundTask DEF Opens, Fresh, Idle, ShapeInv, Placed, ReplaceInv,
    ChangeInv, HandlerInv, Changers, LiveStates, Over, Ended, Exits, Outcomes, TaskShape,
    RecordShape
<1>5. ASSUME NEW a \in Attempts, Pause(a) PROVE ChangeInv'
  BY <1>5, PauseFacts, BoundTask DEF FrozenOnly, Opens, Alike, Idle, ShapeInv, Placed, ReplaceInv,
    ChangeInv, HandlerInv, Changers, LiveStates, Over, Ended, Exits, Outcomes, TaskShape,
    RecordShape
<1>6. ASSUME NEW a \in Attempts, Resume(a) PROVE ChangeInv'
  BY <1>6, ResumeFacts, BoundTask DEF FrozenOnly, Opens, Alike, Idle, ShapeInv, Placed, ReplaceInv,
    ChangeInv, HandlerInv, Changers, LiveStates, Over, Ended, Exits, Outcomes, TaskShape,
    RecordShape
<1>7. ASSUME NEW a \in Attempts, Start(a) PROVE ChangeInv'
  BY <1>7, StartFacts, BoundTask DEF Opens, Idle, ShapeInv, Placed, ReplaceInv, ChangeInv,
    HandlerInv, Changers, LiveStates, Over, Ended, Exits, Outcomes, TaskShape, RecordShape
<1>8. ASSUME NEW a \in Attempts, NEW v \in Versions, Admit(a, v) PROVE ChangeInv'
  BY <1>8, AdmitFacts, BoundTask DEF Opens, Alike, Idle, ShapeInv, Placed, ReplaceInv, ChangeInv,
    HandlerInv, Changers, LiveStates, Over, Ended, Exits, Outcomes, TaskShape, RecordShape
<1>9. ASSUME NEW a \in Attempts, NEW op \in Ops, StopReady(op, a) PROVE ChangeInv'
  BY <1>9, StopReadyFacts, BoundTask DEF Opens, Ends, Idle, ShapeInv, Placed, ReplaceInv, ChangeInv,
    HandlerInv, Changers, LiveStates, Over, Ended, Exits, Outcomes, TaskShape, RecordShape
<1>10. ASSUME NEW a \in Attempts, NEW op \in Ops, StopLive(op, a) PROVE ChangeInv'
  BY <1>10, StopLiveFacts, BoundTask DEF MemOnly, FrozenOnly, Alike, Kills, Idle, ShapeInv, Placed,
    ReplaceInv, ChangeInv, HandlerInv, Changers, LiveStates, Over, Ended, Exits, Outcomes,
    TaskShape, RecordShape
<1>11. ASSUME NEW a \in Attempts, NEW op \in Ops, StopReplay(op, a) PROVE ChangeInv'
  BY <1>11, StopReplayFacts, BoundTask DEF Idle, ShapeInv, Placed, ReplaceInv, ChangeInv,
    HandlerInv, Changers, LiveStates, Over, Ended, Exits, Outcomes, TaskShape, RecordShape
<1>12. ASSUME NEW a \in Attempts, NEW op \in Ops, RevokeReady(op, a) PROVE ChangeInv'
  BY <1>12, RevokeReadyFacts, BoundTask DEF Opens, Ends, Idle, ShapeInv, Placed, ReplaceInv,
    ChangeInv, HandlerInv, Changers, LiveStates, Over, Ended, Exits, Outcomes, TaskShape,
    RecordShape
<1>13. ASSUME NEW a \in Attempts, NEW op \in Ops, RevokeLive(op, a) PROVE ChangeInv'
  BY <1>13, RevokeLiveFacts, BoundTask DEF MemOnly, FrozenOnly, Alike, Kills, Idle, ShapeInv,
    Placed, ReplaceInv, ChangeInv, HandlerInv, Changers, LiveStates, Over, Ended, Exits, Outcomes,
    TaskShape, RecordShape
<1>14. ASSUME NEW a \in Attempts, NEW op \in Ops, Seal(op, a) PROVE ChangeInv'
  BY <1>14, SealFacts, BoundTask DEF Opens, Idle, ShapeInv, Placed, ReplaceInv, ChangeInv,
    HandlerInv, Changers, LiveStates, Over, Ended, Exits, Outcomes, TaskShape, RecordShape
<1>15. CASE CreateWrite
  BY <1>15, CreateWriteFacts DEF Closes, Applies, ChangeInv
<1>16. CASE CommitJournal
  BY <1>16, CommitJournalFacts, JobTypes, BoundTask DEF Mirrors, DiskOnly, Moves, Closes, Refuses,
    Writes, Fails, ShapeInv, Placed, ReplaceInv, ChangeInv, HandlerInv, Changers, LiveStates, Over,
    Ended, Exits, Outcomes, TaskShape, RecordShape
<1>17. CASE CommitVersion
  BY <1>17, CommitVersionFacts, JobTypes, BoundTask DEF Moves, ShapeInv, Placed,
    ReplaceInv, ChangeInv, HandlerInv, Changers, LiveStates, Over, Ended, Exits, Outcomes,
    TaskShape, RecordShape
<1>18. CASE CommitEvidence
  BY <1>18, CommitEvidenceFacts, JobTypes, BoundTask DEF MemOnly, LogOnly, ShownOnly,
    Moves, Closes, Shows, Applies, Says, Logs, Misses, ShapeInv, Placed, ReplaceInv, ChangeInv,
    HandlerInv, Changers, LiveStates, Over, Ended, Exits, Outcomes, TaskShape, RecordShape
<1>19. CASE Restore
  BY <1>19, RestoreFacts, JobTypes, BoundTask DEF Mirrors, DiskOnly, Moves, Closes, Refuses, Writes,
    Fails, ShapeInv, Placed, ReplaceInv, ChangeInv, HandlerInv, Changers, LiveStates, Over, Ended,
    Exits, Outcomes, TaskShape, RecordShape
<1>20. CASE Undo
  BY <1>20, UndoFacts, JobTypes, BoundTask DEF FrozenOnly, Closes, ShapeInv, Placed,
    ReplaceInv, ChangeInv, HandlerInv, Changers, LiveStates, Over, Ended, Exits, Outcomes,
    TaskShape, RecordShape
<1>21. CASE SealOpen
  BY <1>21, SealOpenFacts, JobTypes, BoundTask DEF MemOnly, LogOnly, ShownOnly, Moves,
    Closes, Shows, Applies, Says, Logs, Misses, ShapeInv, Placed, ReplaceInv, ChangeInv, HandlerInv,
    Changers, LiveStates, Over, Ended, Exits, Outcomes, TaskShape, RecordShape
<1>22. CASE SealMark
  BY <1>22, SealMarkFacts, JobTypes, BoundTask DEF LogOnly, Moves, Says, Logs, Misses, ShapeInv,
    Placed, ReplaceInv, ChangeInv, HandlerInv, Changers, LiveStates, Over, Ended, Exits, Outcomes,
    TaskShape, RecordShape
<1>23. CASE SealHeadNew
  BY <1>23, SealHeadNewFacts, JobTypes, BoundTask DEF LogOnly, Moves, Says, Heads,
    ShapeInv, Placed, ReplaceInv, ChangeInv, HandlerInv, Changers, LiveStates, Over, Ended, Exits,
    Outcomes, TaskShape, RecordShape
<1>24. CASE SealHeadText
  BY <1>24, SealHeadTextFacts, JobTypes, BoundTask DEF MemOnly, LogOnly, ShownOnly, Moves,
    Closes, Shows, Applies, Says, Heads, ShapeInv, Placed, ReplaceInv, ChangeInv, HandlerInv,
    Changers, LiveStates, Over, Ended, Exits, Outcomes, TaskShape, RecordShape
<1>25. CASE LaunchIntent
  BY <1>25, LaunchIntentFacts, JobTypes, BoundTask DEF DiskOnly, ReapOnly, Moves, Closes,
    Intends, ShapeInv, Placed, ReplaceInv, ChangeInv, HandlerInv, Changers, LiveStates, Over, Ended,
    Exits, Outcomes, TaskShape, RecordShape
<1>26. CASE SpawnReport
  BY <1>26, SpawnReportFacts, JobTypes, BoundTask DEF Mirrors, DiskOnly, ReapOnly, Opens,
    Closes, Writes, Fails, Ends, SpawnFails, Spawns, ShapeInv, Placed, ReplaceInv, ChangeInv,
    HandlerInv, Changers, LiveStates, Over, Ended, Exits, Outcomes, TaskShape, RecordShape
<1>27. CASE RecordRunning
  BY <1>27, RecordRunningFacts, JobTypes, BoundTask DEF Mirrors, DiskOnly, Opens, Moves,
    Writes, Fails, Ends, SpawnFails, ShapeInv, Placed, ReplaceInv, ChangeInv, HandlerInv, Changers,
    LiveStates, Over, Ended, Exits, Outcomes, TaskShape, RecordShape
<1>28. CASE RecordLaunched
  BY <1>28, RecordLaunchedFacts, JobTypes, BoundTask DEF MemOnly, LogOnly, ShownOnly,
    Opens, Closes, Shows, Applies, Says, Logs, Misses, Ends, SpawnFails, ShapeInv, Placed,
    ReplaceInv, ChangeInv, HandlerInv, Changers, LiveStates, Over, Ended, Exits, Outcomes,
    TaskShape, RecordShape
<1>29. CASE RecordEnd
  BY <1>29, RecordEndFacts, JobTypes, BoundTask DEF Mirrors, DiskOnly, Moves, Writes,
    Fails, ShapeInv, Placed, ReplaceInv, ChangeInv, HandlerInv, Changers, LiveStates, Over, Ended,
    Exits, Outcomes, TaskShape, RecordShape
<1>30. CASE RecordEnded
  BY <1>30, RecordEndedFacts, JobTypes, BoundTask DEF MemOnly, LogOnly, ReapOnly, ShownOnly, Closes,
    Shows, Applies, Says, Logs, Misses, ShapeInv, Placed, ReplaceInv, ChangeInv, HandlerInv,
    Changers, LiveStates, Over, Ended, Exits, Outcomes, TaskShape, RecordShape
<1>31. ASSUME NEW w \in waits, FinishStop(w) PROVE ChangeInv'
  BY <1>31, FinishStopFacts, BoundTask DEF Idle, ShapeInv, Placed, ReplaceInv, ChangeInv,
    HandlerInv, Changers, LiveStates, Over, Ended, Exits, Outcomes, TaskShape, RecordShape
<1>32. ASSUME NEW w \in waits, FinishRevoke(w) PROVE ChangeInv'
  BY <1>32, FinishRevokeFacts, BoundTask DEF Opens, Ends, Idle, ShapeInv, Placed, ReplaceInv,
    ChangeInv, HandlerInv, Changers, LiveStates, Over, Ended, Exits, Outcomes, TaskShape,
    RecordShape
<1>33. CASE Crash
  BY <1>33, CrashFacts, BoundTask DEF Closes, Partly, Says, Blank, ShapeInv, Placed, ReplaceInv, ChangeInv,
    HandlerInv, Changers, LiveStates, Over, Ended, Exits, Outcomes, TaskShape, RecordShape
<1>34. CASE Restart
  BY <1>34, RestartFacts, BoundTask DEF ShapeInv, Placed, ReplaceInv, ChangeInv, HandlerInv,
    Changers, LiveStates, Over, Ended, Exits, Outcomes, TaskShape, RecordShape
<1>35. ASSUME NEW t \in todo, RecoverRecord(t) PROVE ChangeInv'
  <2>1. t \in Tasks /\ disk[t].st \in States \cup {"absent", "Launching"} /\ TaskOf[disk[t].att] = t
    BY <1>35, RecoverRecordFacts, Types DEF TaskRec, ReplaceInv, Placed
  <2>2. CASE job'.pc = "idle"
    BY <2>2 DEF ChangeInv
  <2>3. CASE job'.pc # "idle"
    <3>1. /\ Opens("recoverLog", "recover", disk[t].att) /\ Recovers(job'.new, disk[t])
          /\ UNCHANGED todo /\ disk[t].st # "absent"
      BY <1>35, <2>3, RecoverRecordFacts
    <3>2. job'.new.st \in {"Created"} \cup Over /\ ~job'.new.run
      BY <2>1, <3>1 DEF Recovers, States, LiveStates, Over, Ended, ShapeInv, RecordShape
    <3> QED
      BY <2>1, <3>1, <3>2 DEF ChangeInv, Opens, Changers
  <2> QED
    BY <2>2, <2>3
<1>36. CASE RecoverLog
  BY <1>36, RecoverLogFacts, JobTypes, BoundTask DEF MemOnly, LogOnly, ShownOnly, Closes, Shows,
    Partly, Says, Mends, ShapeInv, Placed, ReplaceInv, ChangeInv, HandlerInv, Changers, LiveStates, Over,
    Ended, Exits, Outcomes, TaskShape, RecordShape
<1>37. CASE Serve
  BY <1>37, ServeFacts, BoundTask DEF ShapeInv, Placed, ReplaceInv, ChangeInv, HandlerInv, Changers,
    LiveStates, Over, Ended, Exits, Outcomes, TaskShape, RecordShape
<1>38. ASSUME NEW a \in Attempts, Launch(a) PROVE ChangeInv'
  BY <1>38, LaunchFacts, JobTypes, BoundTask DEF ReapOnly, ShapeInv, Placed, ReplaceInv, ChangeInv,
    HandlerInv, Changers, LiveStates, Over, Ended, Exits, Outcomes, TaskShape, RecordShape
<1>39. ASSUME NEW a \in Attempts, LateLaunch(a) PROVE ChangeInv'
  BY <1>39, LateLaunchFacts, JobTypes, BoundTask DEF ReapOnly, ShapeInv, Placed, ReplaceInv,
    ChangeInv, HandlerInv, Changers, LiveStates, Over, Ended, Exits, Outcomes, TaskShape,
    RecordShape
<1>40. ASSUME NEW a \in Attempts, DropLate(a) PROVE ChangeInv'
  BY <1>40, DropLateFacts, JobTypes, BoundTask DEF ReapOnly, ShapeInv, Placed, ReplaceInv,
    ChangeInv, HandlerInv, Changers, LiveStates, Over, Ended, Exits, Outcomes, TaskShape,
    RecordShape
<1>41. ASSUME NEW a \in Attempts, RecordExit(a) PROVE ChangeInv'
  BY <1>41, RecordExitFacts, JobTypes, BoundTask DEF ReapOnly, Opens, Idle, ShapeInv, Placed,
    ReplaceInv, ChangeInv, HandlerInv, Changers, LiveStates, Over, Ended, Exits, Outcomes,
    TaskShape, RecordShape
<1>42. ASSUME NEW a \in Attempts, NEW e \in Exits, WorkloadEnds(a, e) PROVE ChangeInv'
  BY <1>42, WorkloadEndsFacts, JobTypes, BoundTask DEF ReapOnly, ShapeInv, Placed, ReplaceInv,
    ChangeInv, HandlerInv, Changers, LiveStates, Over, Ended, Exits, Outcomes, TaskShape,
    RecordShape
<1>43. CASE NoThread
  BY <1>43, NoThreadFacts, JobTypes, BoundTask DEF ReapOnly, ShapeInv, Placed, ReplaceInv,
    ChangeInv, HandlerInv, Changers, LiveStates, Over, Ended, Exits, Outcomes, TaskShape, RecordShape
<1>44. ASSUME NEW a \in Attempts, SandboxSetUp(a) PROVE ChangeInv'
  BY <1>44, SandboxSetUpFacts, JobTypes, BoundTask DEF ShapeInv, Placed, ReplaceInv, ChangeInv,
    HandlerInv, Changers, LiveStates, Over, Ended, Exits, Outcomes, TaskShape, RecordShape
<1> QED
  BY <1>1, <1>2, <1>3, <1>4, <1>5, <1>6, <1>7, <1>8, <1>9, <1>10, <1>11, <1>12, <1>13, <1>14, <1>15,
    <1>16, <1>17, <1>18, <1>19, <1>20, <1>21, <1>22, <1>23, <1>24, <1>25, <1>26, <1>27, <1>28,
    <1>29, <1>30, <1>31, <1>32, <1>33, <1>34, <1>35, <1>36, <1>37, <1>38, <1>39, <1>40, <1>41, <1>42,
    <1>43, <1>44
  DEF Next, Request, JobStep, Answer, Reaper, Recovery

LEMMA BaseInductive == ASSUME BaseInv, [Next]_vars PROVE BaseInv'
BY StepType, ReplaceInductive, HandlerInductive, ShapeInductive, ChangeInductive, SpawnInductive,
  DownInductive DEF BaseInv

LEMMA BaseInit == Init => BaseInv
<1> SUFFICES ASSUME Init PROVE BaseInv
  OBVIOUS
<1>1. TypeInv
  BY InitType
<1>2. ReplaceInv
  BY NoTaskPlaced DEF Init, ReplaceInv, Creating, NoJob
<1>3. HandlerInv /\ ChangeInv /\ SpawnInv /\ DownInv
  BY DEF Init, HandlerInv, ChangeInv, SpawnInv, Spawning, DownInv, NoJob
<1>4. ShapeInv
  <2>1. Blank(NoTask)
    BY NoTaskBlank
  <2>2. \A t \in Tasks : mem[t] = NoTask /\ disk[t] = NoTask
    BY DEF Init
  <2>3. job.pc = "idle"
    BY DEF Init, NoJob
  <2> HIDE DEF NoTask
  <2> QED
    BY <2>1, <2>2, <2>3 DEF ShapeInv, TaskShape, RecordShape, Blank, LiveStates, Over, Ended
<1> QED
  BY <1>1, <1>2, <1>3, <1>4 DEF BaseInv

================================================================================
