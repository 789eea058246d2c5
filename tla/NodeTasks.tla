------------------------------- MODULE NodeTasks -------------------------------
(***************************************************************************)
(* The task registry of a WardOS node (crates/ward-node/src/task.rs) with   *)
(* the durable state it stands on: task records (records.rs), admission     *)
(* versions, revocations and retired attempts (state.rs, admit.rs), the     *)
(* evidence log of every attempt (evidence.rs), the attempt workspaces      *)
(* (workspace.rs), the scheduling bound (scheduling.rs) and the reaper      *)
(* threads that own the workloads (execution.rs).                           *)
(*                                                                          *)
(* Every handler runs under the registry's mutex, so handlers do not        *)
(* interleave with each other; but a handler makes several durable writes   *)
(* in a row, each of which can fail, and the node can die between any two.  *)
(* `job' is the handler that holds the mutex and how far it has come; one   *)
(* action is one durable write.  The memory view (`mem') changes in the     *)
(* last step of a handler, as readers only see it once the mutex is free.   *)
(* `stop' and `revoke' give the mutex up while the reaper kills and reaps:  *)
(* those waits are the elements of `waits'.                                 *)
(*                                                                          *)
(* Abstractions.  An attempt stands for a binding (task, attempt, lease);   *)
(* requests whose ids do not match the registered binding are refused with  *)
(* no change and are not actions.  Operation ids are kept where they decide *)
(* a later answer (stop, revoke, seal); every other replay changes nothing. *)
(* A refusal that changes nothing is a stuttering step.  An evidence log is *)
(* the fold `VerifiedEvidence::state' computes of it, its last seal, its    *)
(* HEAD file and whether its last frame is torn.  A failing write of the    *)
(* versions, the revocations or the retired attempts is taken to leave the  *)
(* file as it was.  A workload dies with the node (bwrap                    *)
(* --die-with-parent) once its sandbox has set itself up; a kill before     *)
(* that may leave the inner process tree behind.                            *)
(***************************************************************************)
EXTENDS Integers, FiniteSets

CONSTANTS
  Tasks,         \* task ids
  Attempts,      \* bindings a control plane may name
  Leases,        \* lease ids
  TaskOf,        \* the task of a binding
  LeaseOf,       \* the lease of a binding
  Ops,           \* operation ids of stop, revoke and seal requests
  Versions,      \* admission versions that have been signed
  None,          \* no operation, no attempt
  Capacity,      \* tasks the registry holds (MAX_NODE_TASKS)
  MaxRunning,    \* --max-running
  MaxPauses,     \* MAX_ATTEMPT_PAUSES
  MaxFaults,     \* bound: I/O and freezer failures explored
  MaxCrashes     \* bound: node deaths explored

ASSUME BindingAssumption ==
  /\ TaskOf \in [Attempts -> Tasks]
  /\ LeaseOf \in [Attempts -> Leases]
  /\ None \notin Attempts
  /\ None \notin Ops

ASSUME BoundAssumption ==
  /\ Versions \subseteq Nat \ {0}
  /\ Capacity \in Nat \ {0}
  /\ MaxRunning \in Nat \ {0}
  /\ MaxPauses \in Nat
  /\ MaxFaults \in Nat
  /\ MaxCrashes \in Nat

VARIABLES
  \* The registry in memory.
  mem,        \* TaskRegistry.tasks
  seals,      \* TaskRegistry.seals
  kept,       \* TaskRegistry.retired: unreaped attempts of forgotten tasks
  job,        \* the handler that holds the registry mutex
  waits,      \* stop and revoke requests waiting for a reap, mutex released
  \* The reaper threads and their workloads.
  reap,       \* where each attempt's reaper thread is
  frozen,     \* whether each workload's process tree is stopped
  stop,       \* attempts whose StopSignal is requested
  tree,       \* the processes of each attempt's sandbox
  \* The disk.
  disk,       \* task records
  version,    \* highest admission version accepted per task
  revoked,    \* revoked leases
  retired,    \* retired attempts
  log,        \* evidence logs
  dir,        \* attempts whose workspace directory exists
  \* The process.
  up,         \* serving, down, recovering, or why the node refuses to start
  todo,       \* records a starting node has still to recover
  faults, crashes,
  \* History.
  launches,   \* how often each attempt's workload was started
  used,       \* <<task, version>> of every admission that took effect
  acked,      \* attempts whose stop was answered `accepted'
  superseded, \* attempts a later attempt of their task replaced
  shown       \* the first receipt outcome each attempt was reported with

registry == <<mem, seals, kept, job, waits>>
workloads == <<reap, frozen, stop, tree>>
durable == <<disk, version, revoked, retired, log, dir>>
process == <<up, todo, faults, crashes>>
history == <<launches, used, acked, superseded, shown>>
vars == <<registry, workloads, durable, process, history>>

--------------------------------------------------------------------------------
(* Data *)

Ended == {"Exited", "Stopped", "Revoked"}
LiveStates == {"Running", "Paused"}
States == {"Created", "Ready", "Sealed"} \cup LiveStates \cup Ended
Outcomes == {"completed", "failed", "unknown"}

\* How a workload can end, as its reaper observes it (WorkloadExit).
Exits == {"zero", "fail", "stopped", "lost"}
\* A workload process exists.
LiveReap == {"spawned", "watching", "dropping"}
\* `threadless' is an attempt whose reaper thread could not be spawned.
ReapStates == LiveReap \cup Exits \cup
  {"none", "launching", "threadless", "refused", "ambiguous", "late", "done"}

\* A sandbox setting itself up, set up (its tree dies with the outer bwrap), or an inner
\* tree that outlived the outer bwrap.
TreeStates == {"none", "setup", "inside", "left"}

\* A task as the registry holds it, and its record on disk.  `Launching' is a state only
\* of records; `ver' (the admission), `run' (the attempt handle), `stopReq' and `revReq'
\* are never written.
TaskRec ==
  [att : Attempts \cup {None}, st : States \cup {"absent", "Launching"},
   ver : Versions \cup {0}, out : Outcomes \cup {"none"},
   stoppedBy : Ops \cup {None}, revokedBy : Ops \cup {None}, sealedBy : Ops \cup {None},
   order : Nat, pauses : Nat, run : BOOLEAN,
   stopReq : Ops \cup {None}, revReq : Ops \cup {None}]

NewTask(a) ==
  [att |-> a, st |-> "Created", ver |-> 0, out |-> "none",
   stoppedBy |-> None, revokedBy |-> None, sealedBy |-> None,
   order |-> 0, pauses |-> 0, run |-> FALSE, stopReq |-> None, revReq |-> None]

NoTask == [NewTask(None) EXCEPT !.st = "absent"]

\* What `NodeTask::record' writes of a task.
Record(r) == [r EXCEPT !.ver = 0, !.run = FALSE, !.stopReq = None, !.revReq = None]

\* Live, finished, and ended with an outcome.
IsLive(r) == r.st \in LiveStates
Finished(r) == r.st \in Ended \cup {"Sealed"}
Finish(r, s, o) == [r EXCEPT !.st = s, !.out = o]

Registered == {t \in Tasks : mem[t].st # "absent"}

\* An evidence log: the state and outcome its records fold to, the operation of its seal
\* record if that is its last record, its HEAD file, and a torn final frame.
LogRec ==
  [held : States \cup {"none"}, out : Outcomes \cup {"none"}, by : Ops \cup {None},
   head : {"none", "torn", "ok"}, torn : BOOLEAN]

NoLog == [held |-> "none", out |-> "none", by |-> None, head |-> "none", torn |-> FALSE]

\* The log after an Admitted, Launched, Intervened, Ended or Recovered record of task r.
Recorded(l, r) == [l EXCEPT !.held = r.st, !.out = r.out, !.by = None]
Appendable(l) == l.head = "none" /\ ~l.torn

JobPcs ==
  {"idle", "journal", "version", "evidence", "restore", "undo",
   "seal", "mark", "headNew", "headText",
   "intent", "spawn", "running", "launched", "record", "ended", "recoverLog"}
Verbs == {"none", "create", "admit", "start", "pause", "resume", "stop", "revoke",
          "unconfirmed", "seal", "exit", "recover"}
NoJob == [pc |-> "idle", verb |-> "none", att |-> None, new |-> NoTask]
Job == [pc : JobPcs, verb : Verbs, att : Attempts \cup {None}, new : TaskRec]

Wait == [verb : {"stop", "revoke"}, op : Ops, att : Attempts]
Refusals == {"TooManyRecords", "Sealed", "MalformedHead"}

Init ==
  /\ mem = [t \in Tasks |-> NoTask]
  /\ seals = 0 /\ kept = {} /\ job = NoJob /\ waits = {}
  /\ reap = [a \in Attempts |-> "none"]
  /\ frozen = [a \in Attempts |-> "no"]
  /\ stop = {}
  /\ tree = [a \in Attempts |-> "none"]
  /\ disk = [t \in Tasks |-> NoTask]
  /\ version = [t \in Tasks |-> 0]
  /\ revoked = {} /\ retired = {} /\ dir = {}
  /\ log = [a \in Attempts |-> NoLog]
  /\ up = "up" /\ todo = {} /\ faults = 0 /\ crashes = 0
  /\ launches = [a \in Attempts |-> 0]
  /\ used = {} /\ acked = {} /\ superseded = {}
  /\ shown = [a \in Attempts |-> "none"]

--------------------------------------------------------------------------------
(* The handler that holds the mutex and the writes it makes *)

Idle == up = "up" /\ job.pc = "idle"
At(pc) == up = "up" /\ job.pc = pc
\* The registered task is the one the request's binding names.
Holds(a) == mem[TaskOf[a]].att = a

Begin(pc, verb, a, new) == job' = [pc |-> pc, verb |-> verb, att |-> a, new |-> new]
Goto(pc) == job' = [job EXCEPT !.pc = pc]
Done == job' = NoJob
\* A refused handler ends; pause and resume first undo their freeze or thaw.
Refuse == IF job.verb \in {"pause", "resume"} THEN Goto("undo") ELSE Done

Fault == faults < MaxFaults /\ faults' = faults + 1

\* `write_atomic' of a record: it fails before the rename (the old record stays) or after
\* it (the directory could not be synced: the new record stays, the caller sees an error).
JournalOk(t, r) == disk' = [disk EXCEPT ![t] = r] /\ UNCHANGED faults
JournalErr(t, r) == Fault /\ disk' \in {disk, [disk EXCEPT ![t] = r]}

\* `AttemptEvidence::append': refused on a sealed, torn or malformed log; a failing write
\* may leave nothing, the whole frame or a torn one.
AppendOk(a, l) ==
  Appendable(log[a]) /\ log' = [log EXCEPT ![a] = l] /\ UNCHANGED faults
AppendErr(a, l) ==
  \/ ~Appendable(log[a]) /\ UNCHANGED <<log, faults>>
  \/ /\ Appendable(log[a]) /\ Fault
     /\ \E m \in {log[a], l, [log[a] EXCEPT !.torn = TRUE]} : log' = [log EXCEPT ![a] = m]

\* Mutant: a forgotten task's attempt is dropped at once.
RetireForgets(r) == {a \in kept : reap[a] # "done"}

\* `retire': keep a forgotten task's attempt until its reaper is done.
Retire(r) ==
  {a \in kept : reap[a] # "done"} \cup
  (IF r.run /\ reap[r.att] # "done" THEN {r.att} ELSE {})

\* The changed task becomes visible: the handler's last step.
Apply ==
  LET a == job.att new == job.new IN
  /\ mem' = [mem EXCEPT ![TaskOf[a]] = new]
  /\ shown' = [shown EXCEPT ![a] = IF @ = "none" THEN new.out ELSE @]
  /\ Done

--------------------------------------------------------------------------------
(* create *)

CreateNew(a) ==
  /\ Idle /\ a \notin retired
  /\ mem[TaskOf[a]].st = "absent"
  /\ Cardinality(Registered) < Capacity
  /\ Begin("journal", "create", a, NewTask(a))
  /\ UNCHANGED <<mem, seals, kept, waits, workloads, durable, process, history>>

\* `evict_oldest_sealed': the record goes first.
CreateEvict(a) ==
  /\ Idle /\ a \notin retired
  /\ mem[TaskOf[a]].st = "absent"
  /\ Cardinality(Registered) >= Capacity
  /\ \E old \in Registered :
       /\ mem[old].st = "Sealed"
       /\ \A t \in Registered : mem[t].st = "Sealed" => mem[old].order <= mem[t].order
       /\ \/ /\ JournalOk(old, NoTask)
             /\ mem' = [mem EXCEPT ![old] = NoTask]
             /\ kept' = Retire(mem[old])
             /\ Begin("journal", "create", a, NewTask(a))
          \/ JournalErr(old, NoTask) /\ UNCHANGED <<mem, kept, job>>
  /\ UNCHANGED <<seals, waits, workloads, version, revoked, retired, log, dir,
                 up, todo, crashes, history>>

\* `NodeState::retire_attempt'.
RetireAttempt(a) == retired' = retired \cup {a}

\* Mutant: the replaced attempt is not retired.
CreateReplaceUnretired(a) ==
  LET old == mem[TaskOf[a]] IN
  /\ Idle /\ a \notin retired
  /\ old.st # "absent" /\ ~Holds(a) /\ Finished(old)
  /\ Begin("journal", "create", a, NewTask(a))
  /\ UNCHANGED <<mem, seals, kept, waits, workloads, durable, process, history>>

\* A new attempt of a finished task: the old attempt is durably retired first.
CreateReplace(a) ==
  LET old == mem[TaskOf[a]] IN
  /\ Idle /\ a \notin retired
  /\ old.st # "absent" /\ ~Holds(a) /\ Finished(old)
  /\ RetireAttempt(old.att)
  /\ Begin("journal", "create", a, NewTask(a))
  /\ UNCHANGED <<mem, seals, kept, waits, workloads, disk, version, revoked, log, dir,
                 process, history>>

CreateWrite ==
  LET a == job.att t == TaskOf[a] IN
  /\ At("journal") /\ job.verb = "create"
  /\ \/ /\ JournalOk(t, Record(job.new))
        /\ Apply
        /\ IF mem[t].st = "absent"
             THEN UNCHANGED <<kept, superseded>>
             ELSE kept' = Retire(mem[t]) /\ superseded' = superseded \cup {mem[t].att}
     \/ JournalErr(t, Record(job.new)) /\ Done /\ UNCHANGED <<mem, kept, superseded, shown>>
  /\ UNCHANGED <<seals, waits, workloads, version, revoked, retired, log, dir,
                 up, todo, crashes, launches, used, acked>>

--------------------------------------------------------------------------------
(* `NodeTask::commit', shared by admit, pause, resume, stop, revoke and seal: write the    *)
(* changed record, append the evidence, apply; a failure restores the record.              *)

CommitJournal ==
  LET t == TaskOf[job.att] IN
  /\ At("journal") /\ job.verb # "create"
  /\ \/ /\ JournalOk(t, Record(job.new))
        /\ Goto(CASE job.verb = "admit" -> "version"
                  [] job.verb = "seal" -> "seal"
                  [] OTHER -> "evidence")
     \/ JournalErr(t, Record(job.new)) /\ Refuse
  /\ UNCHANGED <<mem, seals, kept, waits, workloads, version, revoked, retired, log, dir,
                 up, todo, crashes, history>>

\* `NodeAdmission::commit': the version is consumed before the admission takes effect.
CommitVersion ==
  /\ At("version")
  /\ \/ /\ version' = [version EXCEPT ![TaskOf[job.att]] = job.new.ver]
        /\ Goto("evidence") /\ UNCHANGED faults
     \/ Fault /\ Goto("restore") /\ UNCHANGED version
  /\ UNCHANGED <<mem, seals, kept, waits, workloads, disk, revoked, retired, log, dir,
                 up, todo, crashes, history>>

CommitEvidence ==
  LET a == job.att l == Recorded(log[a], job.new) IN
  /\ At("evidence")
  /\ \/ /\ AppendOk(a, l)
        /\ Apply
        /\ used' = used \cup
             (IF job.verb = "admit" THEN {<<TaskOf[a], job.new.ver>>} ELSE {})
        /\ acked' = acked \cup (IF job.verb = "stop" THEN {a} ELSE {})
     \/ AppendErr(a, l) /\ Goto("restore") /\ UNCHANGED <<mem, shown, used, acked>>
  /\ UNCHANGED <<seals, kept, waits, workloads, disk, version, revoked, retired, dir,
                 up, todo, crashes, launches, superseded>>

Restore ==
  LET t == TaskOf[job.att] IN
  /\ At("restore")
  /\ JournalOk(t, Record(mem[t])) \/ JournalErr(t, Record(mem[t]))
  /\ Refuse
  /\ UNCHANGED <<mem, seals, kept, waits, workloads, version, revoked, retired, log, dir,
                 up, todo, crashes, history>>

\* Mutant: a refused pause leaves the tree stopped.
UndoNothing ==
  /\ At("undo") /\ Done
  /\ UNCHANGED <<mem, seals, kept, waits, workloads, durable, process, history>>

\* A refused pause thaws the tree again, a refused resume freezes it again.
Undo ==
  LET a == job.att IN
  /\ At("undo")
  /\ \/ /\ frozen' = [frozen EXCEPT ![a] = IF job.verb = "pause" THEN "no" ELSE "yes"]
        /\ UNCHANGED faults
     \/ Fault /\ frozen' = [frozen EXCEPT ![a] = "unsure"]
  /\ Done
  /\ UNCHANGED <<mem, seals, kept, waits, reap, stop, tree, durable, up, todo, crashes, history>>

--------------------------------------------------------------------------------
(* admit, pause, resume *)

\* `NodeAdmission::verify': a version above the last one, under a lease in force.
Verified(a, v) == v > version[TaskOf[a]] /\ LeaseOf[a] \notin revoked

\* Mutant: the version already accepted is accepted again.
AdmitSameVersion(a, v) ==
  LET r == mem[TaskOf[a]] IN
  /\ Idle /\ Holds(a) /\ r.st = "Created"
  /\ v >= version[TaskOf[a]]
  /\ LeaseOf[a] \notin revoked
  /\ Begin("journal", "admit", a, [r EXCEPT !.st = "Ready", !.ver = v])
  /\ UNCHANGED <<mem, seals, kept, waits, workloads, durable, process, history>>

Admit(a, v) ==
  LET r == mem[TaskOf[a]] IN
  /\ Idle /\ Holds(a) /\ r.st = "Created"
  /\ Verified(a, v)
  /\ Begin("journal", "admit", a, [r EXCEPT !.st = "Ready", !.ver = v])
  /\ UNCHANGED <<mem, seals, kept, waits, workloads, durable, process, history>>

Pause(a) ==
  LET r == mem[TaskOf[a]] IN
  /\ Idle /\ Holds(a) /\ r.st = "Running" /\ r.run
  /\ r.pauses < MaxPauses
  /\ a \notin stop
  /\ frozen' = [frozen EXCEPT ![a] = "yes"]
  /\ Begin("journal", "pause", a, [r EXCEPT !.st = "Paused", !.pauses = @ + 1])
  /\ UNCHANGED <<mem, seals, kept, waits, reap, stop, tree, durable, process, history>>

\* A thaw that cannot be confirmed refuses the resume.
Resume(a) ==
  LET r == mem[TaskOf[a]] IN
  /\ Idle /\ Holds(a) /\ r.st = "Paused" /\ r.run
  /\ a \notin stop
  /\ \/ /\ frozen' = [frozen EXCEPT ![a] = "no"]
        /\ Begin("journal", "resume", a, [r EXCEPT !.st = "Running"])
        /\ UNCHANGED faults
     \/ Fault /\ frozen' = [frozen EXCEPT ![a] = "unsure"] /\ UNCHANGED job
  /\ UNCHANGED <<mem, seals, kept, waits, reap, stop, tree, durable, up, todo, crashes, history>>

--------------------------------------------------------------------------------
(* stop and revoke: begun under the mutex, awaited without it, finished under it *)

\* `end_attempt': request the kill; a paused tree is continued first and the task reads
\* Running, in memory only.
EndAttempt(a, r) ==
  /\ stop' = stop \cup {a}
  /\ mem' = [mem EXCEPT ![TaskOf[a]] = [r EXCEPT !.st = "Running"]]
  /\ IF r.st = "Paused"
       THEN \/ frozen' = [frozen EXCEPT ![a] = "no"] /\ UNCHANGED faults
            \/ Fault /\ frozen' = [frozen EXCEPT ![a] = "unsure"]
       ELSE UNCHANGED <<frozen, faults>>

StopReady(op, a) ==
  LET r == mem[TaskOf[a]] IN
  /\ Idle /\ Holds(a) /\ r.st = "Ready"
  /\ Begin("journal", "stop", a, [Finish(r, "Stopped", "failed") EXCEPT !.stoppedBy = op])
  /\ UNCHANGED <<mem, seals, kept, waits, workloads, durable, process, history>>

StopLive(op, a) ==
  LET r == mem[TaskOf[a]] IN
  /\ Idle /\ Holds(a) /\ IsLive(r) /\ r.run
  /\ EndAttempt(a, [r EXCEPT !.stopReq = IF @ = None THEN op ELSE @])
  /\ waits' = waits \cup {[verb |-> "stop", op |-> op, att |-> a]}
  /\ UNCHANGED <<seals, kept, job, reap, tree, durable, up, todo, crashes, history>>

\* Mutant: a stop is answered once it was requested.
StopAnswerRequested(op, a) == Holds(a) /\ mem[TaskOf[a]].stopReq = op

\* The answer of `finish_stop', and of `begin_stop' to the operation that stopped the task.
StopAnswer(op, a) == Holds(a) /\ mem[TaskOf[a]].stoppedBy = op

\* Mutant: a stop is only answered once the task is stopped.
FinishStopAccepted(w) ==
  /\ Idle /\ w.verb = "stop" /\ StopAnswer(w.op, w.att)
  /\ waits' = waits \ {w}
  /\ acked' = acked \cup {w.att}
  /\ UNCHANGED <<mem, seals, kept, job, workloads, durable, process,
                 launches, used, superseded, shown>>

\* The reap was confirmed, or the stop timeout ran out.
FinishStop(w) ==
  /\ Idle /\ w.verb = "stop"
  /\ waits' = waits \ {w}
  /\ acked' = acked \cup (IF StopAnswer(w.op, w.att) THEN {w.att} ELSE {})
  /\ UNCHANGED <<mem, seals, kept, job, workloads, durable, process,
                 launches, used, superseded, shown>>

StopReplay(op, a) ==
  /\ Idle /\ StopAnswer(op, a)
  /\ acked' = acked \cup {a}
  /\ UNCHANGED <<registry, workloads, durable, process, launches, used, superseded, shown>>

\* `NodeAdmission::revoke': the lease is durably revoked, before the attempt is ended.
RevokeLease(a) == revoked' = revoked \cup {LeaseOf[a]}

RevokeReady(op, a) ==
  LET r == mem[TaskOf[a]] IN
  /\ Idle /\ Holds(a) /\ r.st = "Ready"
  /\ RevokeLease(a)
  /\ Begin("journal", "revoke", a, [Finish(r, "Revoked", "failed") EXCEPT !.revokedBy = op])
  /\ UNCHANGED <<mem, seals, kept, waits, workloads, disk, version, retired, log, dir,
                 process, history>>

RevokeLive(op, a) ==
  LET r == mem[TaskOf[a]] IN
  /\ Idle /\ Holds(a) /\ IsLive(r) /\ r.run
  /\ RevokeLease(a)
  /\ EndAttempt(a, [r EXCEPT !.revReq = IF @ = None THEN op ELSE @])
  /\ waits' = waits \cup {[verb |-> "revoke", op |-> op, att |-> a]}
  /\ UNCHANGED <<seals, kept, job, reap, tree, disk, version, retired, log, dir,
                 up, todo, crashes, history>>

\* A revoke whose reap was not confirmed in time still ends the task, outcome unknown.
FinishRevoke(w) ==
  LET r == mem[TaskOf[w.att]] IN
  /\ Idle /\ w.verb = "revoke"
  /\ waits' = waits \ {w}
  /\ IF Holds(w.att) /\ r.revokedBy # w.op /\ IsLive(r) /\ r.run /\ r.revReq = w.op
       THEN Begin("journal", "unconfirmed", w.att,
                  [Finish(r, "Revoked", "unknown") EXCEPT !.revokedBy = w.op])
       ELSE UNCHANGED job
  /\ UNCHANGED <<mem, seals, kept, workloads, durable, process, history>>

--------------------------------------------------------------------------------
(* seal: `commit' with `AttemptEvidence::seal' as its evidence *)

Seal(op, a) ==
  LET r == mem[TaskOf[a]] IN
  /\ Idle /\ Holds(a) /\ r.st \in Ended
  /\ Begin("journal", "seal", a, [r EXCEPT !.st = "Sealed", !.sealedBy = op, !.order = seals])
  /\ UNCHANGED <<mem, seals, kept, waits, workloads, durable, process, history>>

\* Open the log: sealed already by this operation, marked by it, or still to be brought to
\* the task's end and marked.
SealOpen ==
  LET a == job.att l == log[a] r == mem[TaskOf[a]] end == Recorded(l, r) IN
  /\ At("seal")
  /\ \/ /\ l.head = "ok" /\ ~l.torn /\ l.by = job.new.sealedBy
        /\ Apply /\ seals' = seals + 1 /\ UNCHANGED <<log, faults>>
     \/ /\ (l.head = "ok" /\ l.by # job.new.sealedBy) \/ l.head = "torn" \/ l.torn
        /\ Goto("restore") /\ UNCHANGED <<mem, shown, seals, log, faults>>
     \/ /\ Appendable(l) /\ l.by = job.new.sealedBy
        /\ Goto("headNew") /\ UNCHANGED <<mem, shown, seals, log, faults>>
     \/ /\ Appendable(l) /\ l.by # job.new.sealedBy /\ <<l.held, l.out>> = <<r.st, r.out>>
        /\ Goto("mark") /\ UNCHANGED <<mem, shown, seals, log, faults>>
     \/ /\ Appendable(l) /\ l.by # job.new.sealedBy /\ <<l.held, l.out>> # <<r.st, r.out>>
        /\ \/ AppendOk(a, end) /\ Goto("mark")
           \/ AppendErr(a, end) /\ Goto("restore")
        /\ UNCHANGED <<mem, shown, seals>>
  /\ UNCHANGED <<kept, waits, workloads, disk, version, revoked, retired, dir,
                 up, todo, crashes, launches, used, acked, superseded>>

SealMark ==
  LET a == job.att
      l == [log[a] EXCEPT !.held = "Sealed", !.by = job.new.sealedBy] IN
  /\ At("mark")
  /\ \/ AppendOk(a, l) /\ Goto("headNew")
     \/ AppendErr(a, l) /\ Goto("restore")
  /\ UNCHANGED <<mem, seals, kept, waits, workloads, disk, version, revoked, retired, dir,
                 up, todo, crashes, history>>

\* `LogWriter::seal' creates HEAD, then writes it, then makes the files read-only.
SealHeadNew ==
  /\ At("headNew")
  /\ \/ /\ log' = [log EXCEPT ![job.att].head = "torn"]
        /\ Goto("headText") /\ UNCHANGED faults
     \/ Fault /\ Goto("restore") /\ UNCHANGED log
  /\ UNCHANGED <<mem, seals, kept, waits, workloads, disk, version, revoked, retired, dir,
                 up, todo, crashes, history>>

SealHeadText ==
  /\ At("headText")
  /\ \/ /\ log' = [log EXCEPT ![job.att].head = "ok"]
        /\ Apply /\ seals' = seals + 1 /\ UNCHANGED faults
     \/ /\ Fault /\ \E h \in {"torn", "ok"} : log' = [log EXCEPT ![job.att].head = h]
        /\ Goto("restore") /\ UNCHANGED <<mem, shown, seals>>
  /\ UNCHANGED <<kept, waits, workloads, disk, version, revoked, retired, dir,
                 up, todo, crashes, launches, used, acked, superseded>>

--------------------------------------------------------------------------------
(* start: materialise, record the intent, spawn on a reaper thread, record how it went *)

Unreaped == {a \in Attempts : reap[a] \notin {"none", "done"}}
\* `TaskRegistry::executing': the attempts the registry still holds a handle of.
Executing ==
  {a \in Unreaped : a \in kept \/ (Holds(a) /\ mem[TaskOf[a]].run)}

SlotFree == Cardinality(Executing) < MaxRunning
\* `NodeAdmission::revalidate': the lease of the admission is still in force.
Revalidated(a) == LeaseOf[a] \notin revoked
\* The workspace directory is created anew, so it is also the claim of the attempt.
Materialise(a) == a \notin dir /\ dir' = dir \cup {a}
Discard(a) == dir' = dir \ {a}

\* Mutant: the admission is not revalidated at start.
StartUnvalidated(a) ==
  LET r == mem[TaskOf[a]] IN
  /\ Idle /\ Holds(a) /\ r.st = "Ready" /\ r.ver # 0
  /\ SlotFree
  /\ Materialise(a)
  /\ Begin("intent", "start", a, r)
  /\ UNCHANGED <<mem, seals, kept, waits, workloads, disk, version, revoked, retired, log,
                 process, history>>

Start(a) ==
  LET r == mem[TaskOf[a]] IN
  /\ Idle /\ Holds(a) /\ r.st = "Ready" /\ r.ver # 0
  /\ Revalidated(a)
  /\ SlotFree
  /\ Materialise(a)
  /\ Begin("intent", "start", a, r)
  /\ UNCHANGED <<mem, seals, kept, waits, workloads, disk, version, revoked, retired, log,
                 process, history>>

LaunchIntent ==
  LET a == job.att t == TaskOf[a] r == [Record(job.new) EXCEPT !.st = "Launching"] IN
  /\ At("intent")
  /\ \/ /\ JournalOk(t, r)
        /\ reap' = [reap EXCEPT ![a] = "launching"]
        /\ Goto("spawn") /\ UNCHANGED dir
     \/ JournalErr(t, r) /\ Discard(a) /\ Done /\ UNCHANGED reap
  /\ UNCHANGED <<mem, seals, kept, waits, frozen, stop, tree, version, revoked, retired, log,
                 up, todo, crashes, history>>

\* The reaper thread cannot be spawned: nobody is left to say the attempt is reaped.
NoThread ==
  /\ At("spawn") /\ reap[job.att] = "launching"
  /\ Fault
  /\ reap' = [reap EXCEPT ![job.att] = "threadless"]
  /\ UNCHANGED <<registry, frozen, stop, tree, durable, up, todo, crashes, history>>

\* The reaper thread asks the launcher; the handler waits on the channel.
Launch(a) ==
  /\ up = "up" /\ reap[a] = "launching"
  /\ \/ /\ reap' = [reap EXCEPT ![a] = "spawned"]
        /\ launches' = [launches EXCEPT ![a] = @ + 1]
        /\ tree' = [tree EXCEPT ![a] = "setup"]
     \/ reap' = [reap EXCEPT ![a] = "refused"] /\ UNCHANGED <<launches, tree>>
     \/ /\ reap' = [reap EXCEPT ![a] = "ambiguous"]
        /\ \E n \in 0..1 : launches' = [launches EXCEPT ![a] = @ + n]
        /\ UNCHANGED tree
  /\ UNCHANGED <<registry, frozen, stop, durable, process, used, acked, superseded, shown>>

\* The sandbox is set up: its inner tree now dies with the outer bwrap.
SandboxSetUp(a) ==
  /\ up = "up" /\ reap[a] \in LiveReap /\ tree[a] = "setup" /\ frozen[a] # "yes"
  /\ tree' = [tree EXCEPT ![a] = "inside"]
  /\ UNCHANGED <<registry, reap, frozen, stop, durable, process, history>>

\* The outer bwrap is gone: what may be left of the sandbox's processes.
TreeAfter(a) ==
  CASE tree[a] = "setup" -> {"none", "left"}
    [] tree[a] = "left" -> {"left"}
    [] OTHER -> {"none"}

\* A launch that answers after the spawn timeout finds the channel closed and is dropped.
LateLaunch(a) ==
  /\ up = "up" /\ reap[a] = "late"
  /\ \/ /\ reap' = [reap EXCEPT ![a] = "dropping"]
        /\ launches' = [launches EXCEPT ![a] = @ + 1]
        /\ tree' = [tree EXCEPT ![a] = "setup"]
     \/ /\ reap' = [reap EXCEPT ![a] = "done"]
        /\ \E n \in 0..1 : launches' = [launches EXCEPT ![a] = @ + n]
        /\ UNCHANGED tree
  /\ UNCHANGED <<registry, frozen, stop, durable, process, used, acked, superseded, shown>>

DropLate(a) ==
  /\ up = "up" /\ reap[a] = "dropping"
  /\ reap' = [reap EXCEPT ![a] = "done"]
  /\ \E left \in TreeAfter(a) : tree' = [tree EXCEPT ![a] = left]
  /\ UNCHANGED <<registry, frozen, stop, durable, process, history>>

\* `record_spawn' of a spawn that cannot be confirmed or recorded.
SpawnFailed(r) == [Finish(r, "Exited", "unknown") EXCEPT !.run = TRUE]

\* Mutant: an ambiguous spawn is taken for a clean refusal.
SpawnReportAmbiguousRefused ==
  LET a == job.att r == job.new IN
  /\ At("spawn")
  /\ \/ /\ reap[a] = "spawned"
        /\ reap' = [reap EXCEPT ![a] = "watching"]
        /\ Begin("running", "start", a, [r EXCEPT !.st = "Running", !.run = TRUE])
        /\ UNCHANGED <<disk, dir, stop, faults>>
     \/ /\ reap[a] \in {"refused", "threadless", "ambiguous"}
        /\ reap' = [reap EXCEPT ![a] = "done"]
        /\ Discard(a)
        /\ JournalOk(TaskOf[a], Record(r)) /\ Done /\ UNCHANGED stop
     \/ /\ reap[a] = "launching"
        /\ reap' = [reap EXCEPT ![a] = "late"]
        /\ Begin("record", "start", a, SpawnFailed(r))
        /\ stop' = stop \cup {a}
        /\ UNCHANGED <<disk, dir, faults>>
  /\ UNCHANGED <<mem, seals, kept, waits, frozen, tree, version, revoked, retired, log,
                 up, todo, crashes, history>>

SpawnReport ==
  LET a == job.att r == job.new IN
  /\ At("spawn")
  /\ \/ /\ reap[a] = "spawned"
        /\ reap' = [reap EXCEPT ![a] = "watching"]
        /\ Begin("running", "start", a, [r EXCEPT !.st = "Running", !.run = TRUE])
        /\ UNCHANGED <<disk, dir, stop, faults>>
     \/ /\ reap[a] \in {"refused", "threadless"}
        /\ Discard(a)
        /\ \/ /\ JournalOk(TaskOf[a], Record(r)) /\ Done /\ UNCHANGED stop
              /\ reap' = [reap EXCEPT ![a] = "done"]
           \/ /\ JournalErr(TaskOf[a], Record(r))
              /\ Begin("record", "start", a, SpawnFailed(r)) /\ stop' = stop \cup {a}
              /\ reap' = [reap EXCEPT ![a] = IF @ = "refused" THEN "done" ELSE @]
     \/ /\ reap[a] \in {"ambiguous", "launching"}
        /\ reap' = [reap EXCEPT ![a] = IF @ = "launching" THEN "late" ELSE "done"]
        /\ Begin("record", "start", a, SpawnFailed(r))
        /\ stop' = stop \cup {a}
        /\ UNCHANGED <<disk, dir, faults>>
  /\ UNCHANGED <<mem, seals, kept, waits, frozen, tree, version, revoked, retired, log,
                 up, todo, crashes, history>>

RecordRunning ==
  LET a == job.att t == TaskOf[a] r == Record(job.new) IN
  /\ At("running")
  /\ \/ JournalOk(t, r) /\ Goto("launched") /\ UNCHANGED stop
     \/ /\ JournalErr(t, r)
        /\ Begin("ended", "start", a, SpawnFailed(job.new)) /\ stop' = stop \cup {a}
  /\ UNCHANGED <<mem, seals, kept, waits, reap, frozen, tree, version, revoked, retired, log, dir,
                 up, todo, crashes, history>>

RecordLaunched ==
  LET a == job.att l == Recorded(log[a], job.new) IN
  /\ At("launched")
  /\ \/ AppendOk(a, l) /\ Apply /\ UNCHANGED stop
     \/ /\ AppendErr(a, l)
        /\ Begin("record", "start", a, SpawnFailed(job.new)) /\ stop' = stop \cup {a}
        /\ UNCHANGED <<mem, shown>>
  /\ UNCHANGED <<seals, kept, waits, reap, frozen, tree, disk, version, revoked, retired, dir,
                 up, todo, crashes, launches, used, acked, superseded>>

--------------------------------------------------------------------------------
(* The reaper: the workload ends, its end is recorded under the mutex whatever fails *)

\* The outer bwrap ends, or is killed and reaped: a clean exit is one of a sandbox that ran.
WorkloadEnds(a, e) ==
  /\ up = "up" /\ reap[a] = "watching"
  /\ e = "zero" => frozen[a] # "yes" /\ tree[a] = "inside"
  /\ e = "stopped" => a \in stop
  /\ reap' = [reap EXCEPT ![a] = e]
  /\ \E left \in TreeAfter(a) : tree' = [tree EXCEPT ![a] = left]
  /\ UNCHANGED <<registry, frozen, stop, durable, process, history>>

\* `finish_attempt'.
ExitOutcome(e) == CASE e = "zero" -> "completed" [] e = "lost" -> "unknown"
                    [] OTHER -> "failed"
FinishAttempt(r, e, stopping) ==
  IF r.revReq # None
    THEN [Finish(r, "Revoked", ExitOutcome(e)) EXCEPT !.revokedBy = r.revReq]
  ELSE IF e = "stopped" \/ (e = "lost" /\ stopping)
    THEN [Finish(r, "Stopped", ExitOutcome(e)) EXCEPT !.stoppedBy = r.stopReq]
  ELSE Finish(r, "Exited", ExitOutcome(e))

\* Mutant: an end that is no longer the registry's to record is never noted as reaped.
RecordExitStuck(a) ==
  LET r == mem[TaskOf[a]] IN
  /\ Idle /\ reap[a] \in Exits
  /\ Holds(a) /\ IsLive(r) /\ r.run
  /\ Begin("record", "exit", a, FinishAttempt(r, reap[a], a \in stop))
  /\ UNCHANGED <<mem, seals, kept, waits, workloads, durable, process, history>>

\* An end that is no longer the registry's to record is only noted as reaped.
RecordExit(a) ==
  LET r == mem[TaskOf[a]] IN
  /\ Idle /\ reap[a] \in Exits
  /\ IF Holds(a) /\ IsLive(r) /\ r.run
       THEN /\ Begin("record", "exit", a, FinishAttempt(r, reap[a], a \in stop))
            /\ UNCHANGED reap
       ELSE reap' = [reap EXCEPT ![a] = "done"] /\ UNCHANGED job
  /\ UNCHANGED <<mem, seals, kept, waits, frozen, stop, tree, durable, process, history>>

\* Mutant: the end is not written to the task record.
RecordEndUnwritten ==
  /\ At("record") /\ Goto("ended")
  /\ UNCHANGED <<mem, seals, kept, waits, workloads, durable, process, history>>

RecordEnd ==
  LET t == TaskOf[job.att] IN
  /\ At("record")
  /\ JournalOk(t, Record(job.new)) \/ JournalErr(t, Record(job.new))
  /\ Goto("ended")
  /\ UNCHANGED <<mem, seals, kept, waits, workloads, version, revoked, retired, log, dir,
                 up, todo, crashes, history>>

\* The end record, then the reaped flag, under the same hold of the mutex.
RecordEnded ==
  LET a == job.att l == Recorded(log[a], job.new) IN
  /\ At("ended")
  /\ AppendOk(a, l) \/ AppendErr(a, l)
  /\ Apply
  /\ reap' = IF job.verb = "exit" THEN [reap EXCEPT ![a] = "done"] ELSE reap
  /\ UNCHANGED <<seals, kept, waits, frozen, stop, tree, disk, version, revoked, retired, dir,
                 up, todo, crashes, launches, used, acked, superseded>>

--------------------------------------------------------------------------------
(* The node dies and is started again *)

\* Mutants: a log is sealed without the end it lacks; a log is left as the crash left it.
RecoveredLogBlind(l, r) ==
  IF r.st = "Sealed"
    THEN [l EXCEPT !.held = "Sealed", !.by = r.sealedBy, !.head = "ok"]
    ELSE Recorded(l, r)
RecoveredLogStale(l, r) ==
  IF r.st = "Sealed" THEN [l EXCEPT !.by = r.sealedBy, !.head = "ok"] ELSE l

\* `AttemptEvidence::recover_after': the log the recovered task r must have.
RecoveredLog(l, r) ==
  IF r.st = "Sealed"
    THEN IF l.by = r.sealedBy
           THEN [l EXCEPT !.head = "ok"]
           ELSE [l EXCEPT !.held = "Sealed", !.out = r.out, !.by = r.sealedBy, !.head = "ok"]
  ELSE IF (l.held = "none" /\ r.st = "Created") \/ <<l.held, l.out>> = <<r.st, r.out>>
    THEN l
  ELSE Recorded(l, r)

\* The logs a recovery cut short may leave: the log as it was found, without its torn
\* frame, with the first of the records it lacks or all of them, and with a frame or the
\* HEAD cut short.
PartlyRecovered(l, r) ==
  LET cut == [l EXCEPT !.torn = FALSE]
      appended == [RecoveredLog(cut, r) EXCEPT !.head = l.head]
      ended == cut.held \in Ended /\ cut.out = r.out
      bases == {cut} \cup
        (IF r.st = "Sealed" /\ appended # cut /\ ~ended THEN {Recorded(cut, r)} ELSE {}) IN
  {l, appended} \cup bases
    \cup {[b EXCEPT !.torn = TRUE] : b \in {c \in bases : {c, appended} # {NoLog}}}
    \cup (IF r.st = "Sealed" THEN {[appended EXCEPT !.head = "torn"],
                                   [appended EXCEPT !.head = "ok"]} ELSE {})

Appending == {"evidence", "seal", "mark", "launched", "ended"}

\* A death in the middle of an append leaves a torn frame, one in the middle of a recovery
\* a part of it.
Crash ==
  /\ up \in {"up", "recovering"} /\ crashes < MaxCrashes
  /\ crashes' = crashes + 1
  /\ up' = "down" /\ todo' = {}
  /\ \/ UNCHANGED log
     \/ /\ job.pc \in Appending /\ Appendable(log[job.att])
        /\ log' = [log EXCEPT ![job.att].torn = TRUE]
     \/ /\ job.pc = "recoverLog" /\ log[job.att].head = "none"
        /\ \E m \in PartlyRecovered(log[job.att], job.new) :
             log' = [log EXCEPT ![job.att] = m]
  /\ mem' = [t \in Tasks |-> NoTask]
  /\ kept' = {} /\ waits' = {} /\ job' = NoJob
  /\ reap' = [a \in Attempts |-> "none"]
  /\ frozen' = [a \in Attempts |-> "no"]
  /\ stop' = {}
  /\ tree' \in [Attempts -> TreeStates] /\ \A a \in Attempts : tree'[a] \in TreeAfter(a)
  /\ UNCHANGED <<seals, disk, version, revoked, retired, dir, faults, history>>

\* `TaskStore::load': more records than the registry holds stop the node from starting.
Restart ==
  LET present == {t \in Tasks : disk[t].st # "absent"} IN
  /\ up = "down"
  /\ IF Cardinality(present) > Capacity
       THEN up' = "TooManyRecords" /\ todo' = {}
       ELSE up' = "recovering" /\ todo' = present
  /\ UNCHANGED <<registry, workloads, durable, faults, crashes, history>>

\* `NodeTask::recovered'.
Recovered(r) ==
  CASE r.st = "Ready" -> [r EXCEPT !.st = "Created"]
    [] r.st \in {"Launching", "Running", "Paused"} -> Finish(r, "Exited", "unknown")
    [] OTHER -> r

\* `end_survivor' kills the tree still rooted at the recorded outer bwrap, if there is one (a
\* process is recorded from the spawn on): an inner tree whose outer bwrap is gone is not found.
EndSurvivor(a, r) ==
  \/ UNCHANGED tree
  \/ /\ IsLive(r) \/ Finished(r)
     /\ tree[a] = "left"
     /\ tree' = [tree EXCEPT ![a] = "none"]

\* A recovered change that cannot be recorded stops the node.
RecoverRecord(t) ==
  LET r == Recovered(disk[t]) IN
  /\ up = "recovering" /\ job.pc = "idle"
  /\ \/ JournalOk(t, r) /\ Begin("recoverLog", "recover", r.att, r) /\ UNCHANGED <<mem, up, todo>>
     \/ /\ r # disk[t] /\ JournalErr(t, r)
        /\ up' = "down" /\ todo' = {} /\ mem' = [u \in Tasks |-> NoTask] /\ UNCHANGED job
  /\ EndSurvivor(r.att, disk[t])
  /\ UNCHANGED <<seals, kept, waits, reap, frozen, stop, version, revoked, retired, log, dir,
                 crashes, history>>

\* A write that fails on the way stops the node.
RecoverLog ==
  LET a == job.att r == job.new l == [log[a] EXCEPT !.torn = FALSE] IN
  /\ up = "recovering" /\ job.pc = "recoverLog"
  /\ \/ /\ l.head = "torn"
        /\ up' = "MalformedHead" /\ UNCHANGED <<log, mem, todo, shown, faults>>
     \/ /\ l.head = "ok" /\ ~(r.st = "Sealed" /\ l.by = r.sealedBy)
        /\ up' = "Sealed" /\ UNCHANGED <<log, mem, todo, shown, faults>>
     \/ /\ l.head = "none" \/ (l.head = "ok" /\ r.st = "Sealed" /\ l.by = r.sealedBy)
        /\ log' = [log EXCEPT ![a] = RecoveredLog(l, r)]
        /\ mem' = [mem EXCEPT ![TaskOf[a]] = r]
        /\ shown' = [shown EXCEPT ![a] = IF @ = "none" THEN r.out ELSE @]
        /\ todo' = todo \ {TaskOf[a]}
        /\ UNCHANGED <<up, faults>>
     \/ /\ l.head = "none" /\ Fault
        /\ \E m \in PartlyRecovered(log[a], r) : log' = [log EXCEPT ![a] = m]
        /\ up' = "down" /\ todo' = {} /\ mem' = [u \in Tasks |-> NoTask] /\ UNCHANGED shown
  /\ Done
  /\ UNCHANGED <<seals, kept, waits, workloads, disk, version, revoked, retired, dir,
                 crashes, launches, used, acked, superseded>>

\* Every record is recovered: the node serves, counting seals from the highest recorded.
Serve ==
  LET orders == {mem[t].order : t \in {u \in Tasks : mem[u].st = "Sealed"}} IN
  /\ up = "recovering" /\ todo = {} /\ job.pc = "idle"
  /\ up' = "up"
  /\ \/ orders = {} /\ seals' = 0
     \/ \E n \in orders : (\A m \in orders : m <= n) /\ seals' = n + 1
  /\ UNCHANGED <<mem, kept, job, waits, workloads, durable, todo, faults, crashes, history>>

--------------------------------------------------------------------------------

Request ==
  \/ \E a \in Attempts :
       \/ CreateNew(a) \/ CreateEvict(a) \/ CreateReplace(a)
       \/ Pause(a) \/ Resume(a) \/ Start(a)
       \/ \E v \in Versions : Admit(a, v)
       \/ \E op \in Ops :
            \/ StopReady(op, a) \/ StopLive(op, a) \/ StopReplay(op, a)
            \/ RevokeReady(op, a) \/ RevokeLive(op, a) \/ Seal(op, a)

JobStep ==
  \/ CreateWrite \/ CommitJournal \/ CommitVersion \/ CommitEvidence \/ Restore \/ Undo
  \/ SealOpen \/ SealMark \/ SealHeadNew \/ SealHeadText
  \/ LaunchIntent \/ NoThread \/ SpawnReport \/ RecordRunning \/ RecordLaunched
  \/ RecordEnd \/ RecordEnded

Answer == \E w \in waits : FinishStop(w) \/ FinishRevoke(w)

Reaper(a) ==
  \/ Launch(a) \/ SandboxSetUp(a) \/ LateLaunch(a) \/ DropLate(a) \/ RecordExit(a)
  \/ \E e \in Exits : WorkloadEnds(a, e)

Recovery == Restart \/ (\E t \in todo : RecoverRecord(t)) \/ RecoverLog \/ Serve

Next ==
  \/ Request \/ JobStep \/ Answer \/ Crash \/ Recovery
  \/ \E a \in Attempts : Reaper(a)

Spec == Init /\ [][Next]_vars

\* Scheduling.  A handler holding the mutex runs on; a reaper's thread runs and kills once
\* the stop is requested; a waiting request times out at the latest.  Whoever waits for the
\* mutex gets it in the end, also while clients keep sending requests that are refused.
\* Nothing is assumed of clients, of workloads ending on their own, of faults or restarts.
Fairness ==
  /\ WF_vars(JobStep)
  /\ SF_vars(Answer)
  /\ \A a \in Attempts :
       /\ WF_vars(Launch(a)) /\ WF_vars(LateLaunch(a)) /\ WF_vars(DropLate(a))
       /\ SF_vars(RecordExit(a)) /\ WF_vars(WorkloadEnds(a, "stopped"))

FairSpec == Spec /\ Fairness

--------------------------------------------------------------------------------
(* Properties *)

\* Every variable keeps its shape, through every handler, crash and recovery; a launch
\* intent is a state of records only, never of a task the registry serves.
TypeOK ==
  /\ mem \in [Tasks -> TaskRec] /\ disk \in [Tasks -> TaskRec]
  /\ \A t \in Tasks : mem[t].st # "Launching"
  /\ seals \in Nat /\ kept \subseteq Attempts
  /\ job \in Job /\ waits \subseteq Wait
  /\ reap \in [Attempts -> ReapStates]
  /\ frozen \in [Attempts -> {"no", "yes", "unsure"}]
  /\ stop \subseteq Attempts
  /\ tree \in [Attempts -> TreeStates]
  /\ version \in [Tasks -> Nat]
  /\ revoked \subseteq Leases /\ retired \subseteq Attempts
  /\ log \in [Attempts -> LogRec] /\ dir \subseteq Attempts
  /\ up \in {"up", "down", "recovering"} \cup Refusals
  /\ todo \subseteq Tasks /\ faults \in Nat /\ crashes \in Nat
  /\ launches \in [Attempts -> Nat]
  /\ used \subseteq Tasks \X Nat
  /\ acked \subseteq Attempts /\ superseded \subseteq Attempts
  /\ shown \in [Attempts -> Outcomes \cup {"none"}]

\* No attempt's workload is started twice: not by a replayed or second start, not after a
\* refused or ambiguous spawn, not after a restart, a replacement or an eviction.
LaunchedOnce == \A a \in Attempts : launches[a] <= 1

\* A signed admission takes effect at most once per task: the version a task becomes Ready
\* under never made it Ready before, in this process or an earlier one.
AdmissionNeverReplayed ==
  [][\A t \in Tasks : mem[t].st # "Ready" /\ mem'[t].st = "Ready"
                        => <<t, mem'[t].ver>> \notin used]_vars

\* Once a lease is revoked no workload is launched under it, except one whose launcher was
\* already past its spawn timeout, which is dropped as soon as it appears.
RevokedNeverLaunched ==
  [][\A a \in Attempts : LeaseOf[a] \in revoked /\ reap[a] # "late"
                           => launches'[a] = launches[a]]_vars

\* A stop answered `accepted' means that no process of the workload is left (or there never
\* was one), for ever.  The lapse the launcher names: an inner tree whose outer bwrap was
\* killed before the sandbox had set itself up.
StopConfirmed == \A a \in acked : reap[a] \notin LiveReap /\ tree[a] \in {"none", "left"}

\* Not so in the code, as `SandboxLauncher' says of itself: nothing outlives its outer bwrap.
NothingLeft == \A a \in Attempts : tree[a] # "left"

\* The workloads on the host never exceed --max-running: paused ones, ones being killed,
\* ones of replaced or evicted tasks and late launches included.
SlotBound == Cardinality({a \in Attempts : reap[a] \in LiveReap}) <= MaxRunning

\* A served task is Paused exactly when its tree is stopped, whichever write of a pause or
\* resume failed, unless a thaw or freeze itself could not be confirmed.
PausedIffFrozen ==
  Idle => \A a \in Attempts :
    Holds(a) /\ IsLive(mem[TaskOf[a]]) /\ frozen[a] # "unsure"
      => (mem[TaskOf[a]].st = "Paused" <=> frozen[a] = "yes")

\* An attempt that was replaced is never registered again, also after a restart or an
\* eviction of its successor.
SupersededNeverReturns == \A a \in superseded : ~Holds(a)

\* An attempt keeps the receipt it was reported with, across restarts.  Only a failed write
\* can turn a known outcome into `unknown', or change or forget an `unknown' one; an attempt
\* created anew after its sealed task was evicted has none.
ReceiptKept ==
  Idle => \A a \in Attempts : LET out == mem[TaskOf[a]].out IN
    Holds(a) /\ shown[a] # "none"
      => \/ out = shown[a]
         \/ "unknown" \in {out, shown[a]} /\ faults > 0
         \/ out = "none" /\ log[a].head # "none"

\* A sealed task's log is sealed, by the same operation and with the receipt's outcome,
\* whatever failed before.
SealedLogMatches ==
  Idle => \A a \in Attempts : LET r == mem[TaskOf[a]] l == log[a] IN
    Holds(a) /\ r.st = "Sealed"
      => l.head = "ok" /\ l.held = "Sealed" /\ l.out = r.out /\ l.by = r.sealedBy

\* Without I/O failures the evidence log of a served attempt folds to what the registry
\* says of it, wherever the node died; a pending kill may still read Paused in the log.
LogAgrees ==
  Idle /\ faults = 0 => \A a \in Attempts : LET r == mem[TaskOf[a]] l == log[a] IN
    Holds(a) /\ l.head = "none"
      => \/ l.held = r.st /\ l.out = r.out
         \/ l.held = "none" /\ r.st = "Created"
         \/ l.held = "Paused" /\ r.st = "Running" /\ a \in stop

\* A node that died starts again on what it wrote (a HEAD file cut short is told apart).
RestartServes == up \notin {"Sealed", "TooManyRecords"}

\* A death while sealing leaves nothing worse than a torn final frame.
SealSurvivesCrash == up # "MalformedHead"

\* A requested kill is carried out and the attempt reaped, if the node lives.  The lapse: an
\* attempt whose reaper thread could not be spawned, and whose launch intent could not be
\* withdrawn either.
StopReaped ==
  \A a \in Attempts :
    (a \in stop /\ a \in Unreaped /\ reap[a] # "threadless") ~> (a \notin Unreaped)

\* Not so in the code: a slot taken by an attempt without a thread is given back.
ThreadlessFreed == \A a \in Attempts : (reap[a] = "threadless") ~> (reap[a] # "threadless")

\* Every stop or revoke that waits for a reap is answered, if the node lives.
RequestAnswered == \A w \in Wait : (w \in waits) ~> (w \notin waits)

================================================================================
