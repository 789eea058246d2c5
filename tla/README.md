# WardOS: a TLA+ verification of the node, the session daemon and the snapshot store

WardOS runs coding agents and other workloads in sandboxes, under signed authority, with an
evidence log of everything that happened. A *node* (`crates/ward-node`) is the part that
takes signed admissions from a control plane and runs tasks on their behalf; the *daemon*
(`crates/ward-daemon`) is the same idea on a desktop, driven by a person. This directory
models the parts whose correctness rests on the order of durable writes, on threads that share a
lock, on timeouts and on restarts.

## Inventory

Paths are relative to `crates/`. "Model" names the module here; a dash means not modelled yet.

| Component | State it keeps | Operations | What makes it correct | Model |
|---|---|---|---|---|
| Task registry, `ward-node/src/task.rs` | tasks with their attempt, state and operation ids; seal order; attempts retired but not reaped | create, admit, start, pause, resume, stop, revoke, seal, the reaper's report, restart | an attempt is launched at most once; a stop answered `accepted` has reaped; nothing replaced comes back; slots are counted right | `NodeTasks` |
| Records, `records.rs` | one file per task | write, remove, load | a failed change leaves a record the restarted node can serve | `NodeTasks` |
| Node state, `state.rs`, admission, `admit.rs` | highest admission version per task, revoked leases, retired attempts | consume a version, record a revocation, retire | a signed admission takes effect once; a revoked lease never launches | `NodeTasks` |
| Evidence, `evidence.rs`, `ward-events/src/log.rs` | an append-only log per attempt, HEAD file | append, seal, recover | a log never contradicts the record; a seal says what the record says | `NodeTasks` (fold of the log) |
| Workspaces, `workspace.rs` | a directory per attempt | materialise, discard | the directory is the claim of a launch | `NodeTasks` |
| Scheduling, `scheduling.rs` | `--max-running` | admit a start | never more workloads than slots | `NodeTasks` |
| Execution, `execution.rs` | a reaper thread and a stop signal per attempt | spawn, freeze, thaw, kill, wait | every requested kill is reaped | `NodeTasks` |
| Action channel, `actions.rs` | pending requests, answers, a queue of records, wait clocks, held capabilities | ask, refuse, withdraw, hold, list, answer, expire, pause, finish | one final answer per request, recorded before it is told; nothing passes a hold without a recorded approval | `ActionChannel` |
| Node credentials, `credentials.rs`, `ward-credentials/src/lib.rs` | leases of an attempt at their providers, `leases.json`, routes | issue, keep, renew, revoke, recover | a lease is revoked at the end of its attempt whatever a renewal does; a lease alive at a provider is known on disk | `NodeLeases` |
| Node egress tally, `egress.rs` | bounded counts of network decisions | record, flush | bounded evidence with an honest gap record | - |
| Adapters, output, TLS, audit, peer | process wiring, files, sockets | - | - | - |
| Node protocol and client | message shapes; a driver with retries | - | a retried request is not applied twice | - |
| Authority, `ward-authority` | a chain of attenuated leases, revocations | attenuate, verify, revoke | a child never exceeds its parent; revoking an ancestor revokes the child | - |
| Snapshots, `ward-snapshot` | a content-addressed store, capture leases, kept marks | capture, materialise, plan, apply | a sweep never takes what a snapshot needs | `SnapshotGc` (not materialise or transfer) |
| Daemon sessions, control, registry | a session directory per run, launches, attempts | start, stop, seal, resume | a seal over nothing that still runs | `SessionLifecycle` (lifecycle requests, launches) |
| Daemon approvals, `approvals.rs`, `acks.rs` | held questions, remembered grants, history | register, wait, answer, pause, close | every question gets one outcome, recorded before the seal and told unchanged | `Approvals`, `DecideOnce` |
| Daemon pause, `pause.rs`, `ward-launch/src/freeze.rs` | intent, pause marker, stop marker, owners file, frozen processes | pause, resume, capture hold, hold for a stop, stop, restart over any of them | a pause covers every process or is undone; a begun stop is final; nothing stays stopped unheld | `SessionLifecycle` |
| Daemon revocation, `revoke.rs`, `egress.rs`, `ward-proxy/src/proxy.rs` | grants, revocation markers, waits, gateway exchanges | revoke, acknowledge, inject | what a caller is told of a credential is true of the proxy; one revocation, one record | `CredentialRevoke` |
| Retention, reclaim, verification | roots over sessions and attempts | sweep, verify | roots name everything still needed | `SnapshotGc` (retention) |
| Policy, proxy | capability sets, host patterns | merge, match, hold | merging only narrows | - |
| Sandbox, launcher, agent supervisor, CLI, desktop, benchmarks, release verification | - | - | - | - |

How they interact. A control plane calls the registry through one entry point that holds the
registry's mutex for the whole handler. A handler writes a task record, a version or a
revocation, and an evidence record, in an order fixed per verb. `start` hands the workload to a
reaper thread, which takes the same mutex when it reports the exit. `stop` and `revoke` release
the mutex while they wait for that report. The action channel has a lock of its own: connection
threads and the egress proxy take only that lock; the registry takes its mutex first and then the
channel's, appends the queued records and acts on what could not be appended. Credential leases belong to an attempt: `start` issues and keeps them under the
registry's mutex, the attempt's reaper renews and revokes them without it.

A desktop session has a daemon of its own that serves one control request at a time. A launch is
another process: it takes the session's file lock and reads the session directory itself. Its egress proxy
polls two kinds of file there, the pause marker and the revocation markers, and answers in files. A hook's
question holds a connection open; its wait takes only the approvals' lock, everything else the daemon's.

What is hard here: two durable writes of one handler with a death or a failure between them
(and a failure to undo the first); requests that arrive while another waits with the mutex
released; a workload that appears after its start was given up; the same question answered by the
control plane, by time, by a closed connection and by the end of the attempt; a pause that stops
clocks; a daemon that dies in the middle of a pause, a capture or a stop and is replaced by one that knows only the files;
an acknowledgement that comes after its wait; a lease renewed while it is being revoked. The list, each at its line, is `hazards` in `PROJECT.json`.

## The modules

### NodeTasks

One node with its disk. The registry in memory is `mem` (one task per task id), `seals`, `kept`
(attempts of forgotten tasks that are not reaped) and `waits` (stops and revokes that wait with
the mutex released). The disk is `disk` (records), `version`, `revoked`, `retired`, `log` and
`dir`. The reaper threads are `reap`, `frozen` and `stop`; `tree` is what exists of the sandbox's inner process tree. `job` is the handler that holds the
mutex: every handler begins with an action named after its verb and continues with one action for
every durable write, so a death (`Crash`) or a failure (`Fault`) can come between any two.
`Restart` and `RecoverRecord`, `RecoverLog`, `Serve` are the start of a node over an existing
disk, one task at a time; the node may refuse to start (`up` is then the reason). A death in a recovery leaves any part of what it
appends (`PartlyRecovered`).

`bwrap` is told to die with its parent only once it runs. So a launched attempt has its tree in `setup` until `SandboxSetUp`; a kill, an exit or a
death of the node before that may leave the inner tree behind (`TreeAfter`), and `EndSurvivor` of the next node finds it only while the
recorded outer process is there. The thread that launches may itself not start (`NoThread`): its attempt is `threadless`, and if the launch
intent cannot be withdrawn either nobody ever reports it reaped.

The verbs share `NodeTask::commit`: write the changed record (`CommitJournal`), for `admit`
consume the version (`CommitVersion`), append the evidence (`CommitEvidence`), and only then make
the change visible (`Apply`); a failure restores the record (`Restore`), and that may fail as
well. `create` has no evidence (`CreateWrite`), `seal` has its own four writes (`SealOpen`,
`SealMark`, `SealHeadNew`, `SealHeadText`), `start` writes its launch intent, materialises the
workspace, spawns and records the result (`LaunchIntent` to `RecordLaunched`), and the reaper
records an exit in `RecordExit`, `RecordEnd`, `RecordEnded`.

What is abstracted: an attempt stands for a binding (task, attempt, lease), so a request that does
not match the registered binding is refused with no change and is no action; a log is the state its
records fold to, its seal, its HEAD file and whether its last frame is torn; signatures, grants and
expiry decide only whether an admission exists; host readings (memory, disk floors) are left out, so
a start refused for them is one of the stuttering steps. A failing write of a record may leave the
old or the new one, a failing append may leave nothing, the frame, or a torn frame. A failing write
of the versions, the revocations or the retired attempts is taken to leave the file as it was: that
narrows the failures explored, and is the one place where the model has fewer of them than the disk.

### ActionChannel

The channel of one attempt, from its start to `finish` and, after a node death, to the recovery of
its log. Its state is the code's `State` (`next`, `sent`, `ids`, `pend`, `ans`, `ops`, `queue`,
`open`, `refusals`, `paused`, `closed`, `slot`), a program counter per connection thread (`conn`),
and what the registry does while it holds the channel's lock (`turn`): it flushes the queue one
append at a time (`FlushOne`), then expires what is due (`ExpireOne`), then lists, answers
(`Decide`) or finishes (`CancelOne`, `Shut`). Because the lock is held, connection threads and the
proxy only step when there is no turn; because each append is a step, a node death can come between
any two. Deadlines are relative to now: `Tick` lowers them, also while paused, and `Resume` adds
the length of the pause (`since`) as `set_paused` does. The log is the sequence of the channel's own
records; other records of the attempt only fill it (`Fill`), after which only records that close the
attempt fit (`Closes`).

### SnapshotGc

The content-addressed store of `ward-snapshot`, its mark-and-sweep collection, and the roots that
`ward-daemon/src/retention.rs` hands it. Captures, sweeps and `ward snapshot keep` are processes that share
nothing but the file system, so each system call that one of them decides on is a step.
The files are `stored` with their `mtime`; lease files are `lease` (of running captures) and `stale` (left by
a process that died or could not remove its own); the roots are `rooted` and `kept`. `cap`, `keeping` and
`sweep` are where each process is. A capture takes its lease (`Acquire`), puts blobs, looks for its manifest,
writes or touches it, puts its metadata, releases; its caller then names the snapshot (`Record`) or does not. A
sweep reads the clock and the roots (`Roots`), looks for leases, plans, and looks for leases again before each
removal (`Recheck`, `Remove`). A capture or a sweep may stop at any step (`Fail`, `End`). A sweep passes over in silence a
session, log or marker it cannot read and an entry or a directory of the store it cannot list: `Roots` takes the roots it could not
read and `Plan` the objects it listed, at most `MaxSkips` less than there are.

What is abstracted: `put_blob`'s look and its write are one step, and so are one reading of the roots and one
listing of the store; the role in a metadata record's name is dropped; `apply`'s look before its first removal is
folded into the look before every removal. Two guards are assumptions on the environment, both the code's own
words: a capture ends before its lease does (`Tick`; the doc of `DEFAULT_CAPTURE_LEASE_TTL`), and a caller records a
snapshot within the grace period (`Record`; "Grace period" in `gc.rs`, which calls it a mitigation). `raced` is a
history variable: the snapshots captured after some sweep looked for leases, or kept while some sweep ran. The
properties leave those out, as well as the roots some sweep did not read (`unread`) and the snapshots some sweep did not find
in its listing (`unlisted`), and the section on disagreements says what happens to them.

### SessionLifecycle

One session of the daemon: its directory (`intent`, `marker`, `stopMarker`, the owners file `kept`, `file` and `torn`), the log
as `read_log_tail` folds it (`tail`, `sealed`), the daemon's memory (`held`, `own`, `unsure`, `appr` and the freeze
`known`, `stable`), the session lock, the processes (`alive`, `halted`), the proxy's view of the marker and the capturing
clients. Each operation is a chain of actions, one per durable step, and `at` is where the daemon is in it: `Begin...`
(admitted by `Admits`, the transition table), then freeze, marker, owners, record, `ClearIntent`. The undo paths
(`TakeBack`, `TakeBackThaw`) and the release of a hold (`ReleaseMarker` to `ReleaseRecord`) are shared as in the code. A write may
fail (`Fault`), the daemon may die at any step (`Crash`), and `Restart` reads the files back and adopts (`BootAdopt`),
finishes (`BootStop`, `BootResume`) or releases (`BootOrphan`) what it finds before it serves. `Freeze` is what scans of a
process tree may achieve: stable over everything, or cut short with forks missed.

Files are written in place. A write that fails, or during which the daemon dies, may leave the marker or the stop marker there, since they count by
existing (`MarkerLost`, `StopMarkerLost`), and the owners file cut short (`TornOwners`), which the next daemon refuses to start over (`BootRefuse`).
A thaw by cgroup is one best-effort write and sends no `SIGCONT`, so a release may leave a part of the processes stopped (`ThawLost`).

`lapses` is a history variable. It names the five ways in which the code itself gives up what it should keep: `cut` (a death inside a release no intent
records), `robbed` (a live capture's hold given up), `unmarked` (a release taken back without its marker), `stuck` (a thaw that left processes
stopped) and `half` (a refused stop whose marker is there all the same). The properties say what holds apart from them, and the section on disagreements says what they are.

What is abstracted: reasons, counts, methods and times; components other than the proxy confirm at once; the capture
freeze a client takes by itself when no daemon serves is left out.

### Approvals and DecideOnce

`DecideOnce` is what a hold on questions promises whoever keeps it: decided once, recorded once and as decided, recorded
before it is told, told as decided, and no seal over an unrecorded decision unless its record is known lost.
`Approvals` is the code: the hold's state (`held`, `answer`, the decision clock as `left` and `ran`, `remembered`, `history`,
and the two maps between a stop and the waiters, `handoff` and `unclaimed`), one connection per question, the stop that has the
daemon's lock, the log. `wait` needs the approvals' lock alone (`Settle`, `SettleDrained`), so it interleaves with a stop
(`BeginClose`, `CloseAppend`, `SealLog`), while asking, answering and recording (`Finish`) need the daemon's lock. The
property `DecidesOnce` is `Once!Spec`, the refinement mapping being: a question's verdict is its answer, else what was handed over,
else what its waiter has; its record is the one entry of the log; what was lost is waived. Questions a standing
`allow-session` covered are not questions the hold took, and are mapped to nothing.

### CredentialRevoke

The grants of a session, the connections that revoke one (leader or joiner of a slot), the marker files, the egress of each
launch and the exchanges of the proxy. The marker is a file that is created, filled and removed by two processes, so creation and
filling are two steps (`PollOpen`, `PollWrite`). An exchange passes two checks with a connection and a handshake in between
(`Admit`, `Enter`, `LastCheck`); what passed the last one writes the credential in a step of its own (`Inject`), counted in flight from `Enter` on. Waits are bounded: their deadline may pass at any time (`Late`).

### NodeLeases

The leases of one node attempt. `job` is what the holder of the registry lock does, `thr` each generation's reaper (a start
that is refused and retried makes a new generation), `rv` each actor's call of `revoke`: withdraw the routes (`Withdraw`), take each lease under a lock of
its own (`Take`), ask the provider of each lease taken (`Ask`), remove the file (`Forget`). Two calls may share the leases of a generation between them,
and either removes the one file. An issue whose route cannot be built drops what it has (`IssueUnrouted`); a recovery that cannot read the
handles returns nothing and the node serves (`RecoverUnread`). The history variables `crossed` and `unread` name the generations whose handles went on another's account, and such a recovery. `lease` holds what the provider thinks (`prov`, `refused`) beside what the node thinks (`held`,
`route`, `exp`); `kept` is `leases.json`; `log` keeps the latest expiry each lease was granted and how often its revocation
was told. Renewal follows `renewal_due`, `renewal_ttl` and `clamped` of `ward-credentials`, in ticks.

## The runs

All bounds are CONSTANTS named in the modules. `CHECK_DEADLOCK FALSE` everywhere: a node that is idle,
that refused to start, or whose attempt has ended may stop for ever.

| Run | Instance | Shows |
|---|---|---|
| `tasks` | one task, two attempts under two leases, two admission versions, one failure and two deaths anywhere | launched once (`LaunchedOnce`); a stop answered `accepted` left no process of the workload, but for the inner tree of a sandbox killed before its setup (`StopConfirmed`); a replaced attempt never returns (`SupersededNeverReturns`); an attempt keeps the receipt it was reported with, except that a failed write may bring `unknown` in or lose it (`ReceiptKept`); a seal says what the record says (`SealedLogMatches`); an admission takes effect once (`AdmissionNeverReplayed`); once a lease is revoked nothing is launched under it, but for a workload whose launcher was past its spawn timeout, which is dropped as it appears (`RevokedNeverLaunched`) |
| `slots` | two tasks, room for one task and one workload, one pause, one failure, one death | late launches, pending kills and evictions never let a second workload exist (`SlotBound`); a task is paused exactly when its tree is stopped (`PausedIffFrozen`); logs agree with the registry while no write failed (`LogAgrees`) |
| `live` | two attempts of one task, one operation id, one pause, two failures, fair | every requested kill of an attempt that has a thread is reaped (`StopReaped`), every waiting stop or revoke is answered (`RequestAnswered`) |
| `channel` | two connections, two ids, one failing append, one death, a log that may fill | answers are final and recorded before they are told; the control plane sees only recorded requests; the evidence is bounded |
| `holds` | two held capabilities, two operation ids, one failing append, one death | the proxy lets nothing through without its recorded approval; nothing is queued or pending after `finish`; after recovery the log has each request once, answered at most once, in order |
| `channel_live` | one connection, two ids, pauses up to two ticks against a wait of two, one failing append, fair | no request expires before it has had its wait unpaused; none stays pending for ever |
| `gc` | two snapshots that share a blob, two captures (symmetric), one sweep that may pass over one root and one object, one keep, grace of one tick, leases of two, three clock readings | a root every sweep could read keeps its manifest (`RootsStored`) and a stored manifest every sweep had as a root or listed its blobs (`ManifestsWhole`), at every step of a sweep and wherever it stops |
| `lifecycle` | two processes, one capture, two faults (failing writes, incomplete thaws or deaths of the daemon), fair | a stop's seal is over nothing that runs or can still be launched (`StopEndsAll`); a granted capture sees nothing move (`CaptureQuiescent`); a daemon that serves and holds nothing leaves nothing stopped, unless a release was cut short, taken back unmarked or incomplete (`NothingStranded`); once a stop has begun nothing stopped runs again, but over the marker of a refused stop (`StopIsFinal`); a user's pause ends only by a resume (`UserPauseStands`); every operation and every start comes to its end with the lock dropped (`OperationsEnd`) |
| `approvals` | two questions, a decision time of two, a history of one, two faults, fair | the refinement `DecidesOnce`; no question is given up before its time has passed unpaused, and no answer is taken after it (`ExpiryIsFair`); every hook hears once the session stays unpaused (`HooksHear`) |
| `revoke` | one credential, three clients, one exchange at a time, one fault, fair | `Withdrawn` means withdrawn and silent (`WithdrawnIsSilent`); after a confirmed outcome no further exchange passes its last check (`NothingNewInjected`); one record per revocation (`RevokedOnce`); every caller is answered (`RevokeAnswered`) |
| `leases` | two services, one start, a period of three and a maximum of five against a clock of three, three faults, fair | a lease alive at its provider is kept on disk from the launch on, unless another call took the file (`HandleKept`); a route injects only within what the log says and while the task is live (`RouteRecorded`); a withdrawn route stays withdrawn (`NotReopened`); every kept lease is in the end revoked or refused, if the node that starts on it lives and can read its handle (`LeasesEnd`) |
| `evict` | two tasks, room for one | the disagreement listed first below: `RestartServes` is violated |

Why the bounds are enough to be interesting: two attempts are what replacement needs, two tasks what
eviction and slots need, one shared lease what a revocation through another task needs. One failure and
two deaths, at any write, cover a death of the recovery after a death, every pair "failure, then death" and every failure of an undo whose
first cause is a sealed or torn log (which needs no second failure). In the channel, two requests with
`MaxPending = 1` reach the pending limit, `MaxTotal` the total, `MaxRefusals = 1` the close by refusal,
and a wait of one or two ticks puts expiry before and after every other step. In the store, a shared
blob, a snapshot captured again after its first root is gone, and a lease left behind are what two captures reach; a
grace of one against a clock of three readings makes an object young, old, and refreshed; one skip is enough to lose a root, or
a manifest that holds a blob.
In a session, two faults are what "a step fails, and the daemon dies while it undoes it" needs, and two processes what a freeze
that misses a fork needs. For approvals, two questions are what a stop that drains one while it claims the other needs, and a
standing answer; a history of one overflows at the second. Three clients are a leader, a joiner and a second leader after the first
is gone. A clock of three against a period of three sees a renewal due, its record late, and its maximum reached, and two services are
what two revocations that share the leases need; three faults a failed write, a
death, and a death of the recovery. 
Distinct states each run reaches: `tasks` 4.3 million, `slots` 3.0 million, `live` 120 thousand, `channel` 4.1 million, `holds`
6.1 million, `channel_live` 296 thousand, `gc` 6.3 million, `lifecycle` 1.2 million, `approvals` 53 thousand, `revoke` 521 thousand,
`leases` 391 thousand. Each takes from half a minute to about four on two workers.

Symmetry is used only where
no liveness is checked and no CHOOSE or order distinguishes the permuted values.

Fairness. `NodeTasks`: a handler that has begun runs on, a reaper thread runs, a waiting request is
resumed by the reap or by its timeout, and a workload whose stop is requested ends: these are threads of
a running process and a kill by the kernel. What waits for the mutex (`Answer`, `RecordExit`) is strongly fair, since others take and release it;
the rest is weakly fair. Nothing is assumed of the control plane, nor of a workload ending by itself. `ActionChannel`:
time passes (`SF(Tick)`: strong, because the lock is held again and again while it does), the reaper's
tending thread runs when something is due, and a turn that holds the lock goes on. Nothing is assumed of
the workload, the proxy or the control plane; a pause may last for ever, and then the request may stay. `SessionLifecycle`:
the daemon's thread and the launcher's spawn run on; nothing is assumed of the proxy, the processes or the
clients, nor of who starts a dead daemon again (only `ward up` does). `Approvals`: time passes, waiters wake, a stop that has the lock finishes; `Finish` is strongly fair because the lock it needs is
taken and released by others (a mutex that is free again and again is got in the end). `CredentialRevoke`: only the connections' own threads, whose
waits are bounded. `NodeLeases`: provider calls are bounded in time, a workload exits or is killed at its budget, a node that starts recovers; nothing is assumed of who starts a dead one.

## Where the code and its words disagree

The `evict` run: a sealed task that is evicted is not retired, so its binding can be created again over a
sealed log; the next restart answers `Sealed` for that record and the node refuses to start.

The following are definitions of the modules that TLC refutes. They have no configuration of their own; each is
found at once by checking the named invariant with the constants given (others as in the module's own configuration, `SPECIFICATION Spec`).

- `NodeTasks!SealSurvivesCrash` (`MCNodeTasks_live.cfg` with `MaxCrashes = 1`). `LogWriter::seal` creates `HEAD` and then writes it; a
  death in between leaves an empty file, `parse_head` refuses it and the node does not start. `ward-node/src/evidence.rs:36`: "A
  crash can leave only a torn final frame that was never acknowledged".
- `NodeTasks!NothingLeft` (`MCNodeTasks.cfg`). A stop, or a death of the node, between the spawn of `bwrap` and the sandbox's setup leaves the inner process tree
  behind, and the stop is answered `accepted`. The code says so itself (`ward-node/src/execution.rs:470`: "can leave that sandbox's inner process
  tree behind after the outer `bwrap` is reaped"); `StopConfirmed` names the case.
- `NodeTasks!ThreadlessFreed` (`MCNodeTasks_live.cfg`, `SPECIFICATION FairSpec`, as a property). When the reaper thread cannot be spawned and the write that withdraws
  the launch intent fails (`task.rs:1433`, `1446`), the attempt is kept as started and nobody ever sets `reaped`: its slot is lost until the node
  restarts. `StopReaped` names the case.
- `ActionChannel!UnrecordedNotAnswered` (`MCActionChannel.cfg`). A request withdrawn before the failing append of its record has its
  answer queued behind it, and that is appended: the log answers a request it never recorded. `actions.rs:442`: "a request
  whose record failed is answered `cancelled`, unrecorded and unlisted".
- `SnapshotGc!CaptureNotRaced` (`MCSnapshotGc.cfg`). `apply` looks whether a lease is active now and never plans again: a capture that
  begins after the plan and is over before the next look rests on an old blob that the sweep then removes. `gc.rs:69`: a lease acquired
  after `plan`, "even mid-`apply`", "stops the rest of the sweep rather than racing a capture that starts partway through".
- `SnapshotGc!UnreadRootsStored` (`MCSnapshotGc.cfg`). A session whose `session.json` or log cannot be read names no root and the sweep goes on, so what only it
  names is reclaimed. `retention.rs:83`: "the conservative response to "can't tell" lives one level up, in `ward_snapshot::gc::plan`'s own refusal to
  delete around an unresolvable root", but a root that was never named does not reach the plan.
- `SnapshotGc!UnlistedWhole` (`MCSnapshotGc.cfg`). A young manifest that cannot be listed does not hold its blobs, which are listed and removed. `gc.rs:54`: a failed
  listing "only ever under-reports what could be reclaimed, never over-reports it".
- `SessionLifecycle!FrozenReleasable` (`Procs = {p1}`, `MaxTrouble = 1`). The release of a capture's hold removes the marker, waits for the
  proxy, and only then thaws; no intent is recorded for it. A death in between leaves processes stopped with no marker, and the next daemon serves
  the session as running. `pause.rs:1665` calls that state "unrecoverable: the daemon does not consider the session paused, so `ward resume` answers
  'not paused' and nothing ever thaws it". The same state is reached by a thaw that lets only a part run (`stuck`): `stabilize` (`pause.rs:1033`) stops with `SIGSTOP` what it
  cannot migrate into the cgroup, and `thaw` of a cgroup sends no `SIGCONT`, though its doc is "Let a frozen tree run again".
- `SessionLifecycle!StopNeverYields` (`MCSessionLifecycle.cfg`, as a property). `write_stop_marker` is a plain `fs::write`: it may create the marker and then fail. The stop is refused, and over an
  unsettled pause the daemon still admits a resume and thaws with the marker there. `pause.rs:86`: "A session is ended by its first stop".
- `SessionLifecycle!OwnersReadable` (`Procs = {p1}`, `MaxTrouble = 1`). `held_by.json` is written in place; a death in the middle leaves a file that `read_held_by` refuses, and every daemon
  started next over the marker or the intent fails on it (`daemon.rs:2545`), so the session stays stopped until somebody removes the file.
- `SessionLifecycle!CaptureHoldKept` (same constants). A daemon that finishes an interrupted resume takes whatever is frozen as the user's hold
  (`Holders::for_user`, `daemon.rs:2625`) and releases it, a live capture's hold with it. `session.rs:568`: "The hold is the capture's own,
  released by `release_capture` and by nothing else - a user's `ward resume` leaves it".
- `Approvals!SealedDecided` (`MaxTrouble = 0`). A question that a standing `allow-session` covers is not held, so a stop that seals between the two
  times its hook takes the daemon's lock (`daemon.rs:2938` and `2975`) neither closes nor claims it; its request is in the log, its
  decision is not. `docs/desktop.md:692`: "Every approval given a terminal record".
- `CredentialRevoke!ToldOfItsOwnGrant` (`Launches = {l1, l2}`, one client). A restarted daemon mints grant ids from one again while the egress
  of an earlier launch still answers to them: a revoke of the new grant is acknowledged by the old launch. `approvals.rs:1136`: "a grant
  id is never reused ... an id a caller once saw always means the one grant it was minted for, or nothing".
- `NodeLeases!EndAccounts` (`Services = {s1}`, `MaxNow = 0`, `MaxTrouble = 0`). The reaper has taken the leases when a revoke's wait for the reap times out; the
  revoke finds none to take, and appends `NodeAttemptEnded` with no `CredentialRevoked`. `docs/node-integration.md:1149`: the node "revokes every lease
  at its provider, recording each before `NodeAttemptEnded`".
- `NodeLeases!NeverCrossed` (`MaxNow = 0`, `MaxTrouble = 0`). The reaper's revoke takes one lease and an unconfirmed revoke's the other; the first to return removes `leases.json`
  while the other's provider is not asked yet, and a death then leaves that lease to its expiry. With `MaxStarts = 2` and `MaxTrouble = 2` a
  refused start does the same to the handles of the retried one. `credentials.rs:42`: the handles are "written before the workload starts and removed once the leases are
  revoked, so a restarted node can revoke at the provider what a node that died left behind". `HandleKept` and `LeasesEnd` name the case.
- `NodeLeases!NothingLeaked` (`Services = {s1}`, `MaxNow = 0`, `MaxTrouble = 1`). A lease whose route cannot be built is not yet part of the attempt when `issue` returns the error, so nothing revokes
  it (`credentials.rs:294`). `credentials.rs:263`: "nothing issued is left alive then".

Observations beside them, with no run of their own:

- A receipt can be lost to two failing writes and a death. A spawn is refused; the write that takes its intent back fails after its rename, so the
  record on disk is `ready` (`task.rs:1444`); the attempt is reported `exited` with outcome `unknown`, and the write of that fails before its rename
  (`record_spawn`). The restarted node serves the attempt as created, while `task.rs:175` says that an `exited` task "keeps its state and receipt".
  `ReceiptKept` leaves this case open, and it was the proof of `ReceiptsStand` that showed it: one failure, the bound of the runs, is not enough.
- `expire` tells the workload `expired` even when the record of the expiry could not be appended (the wait has run
  out either way), so a log can lack the answer that was given.
- A create that fails in the directory sync after the rename is refused and still leaves its record, so the disk can
  hold one record more than the registry does.
- `keep` checks that the manifest is there and then writes the marker; a sweep that read the roots before may remove
  the manifest in between, and that marker then makes every later plan fail on an unresolvable root.
- The doc of `SweepPlan::objects` lists blobs first. The code plans manifests, then metadata, then blobs, and that is
  the order `ManifestsWhole` needs.
- A restarted daemon that finishes a resume or releases an orphan hold forgets that the hold was unconfirmed; when that release is refused,
  the lifecycle reads `paused` while the log reads unsettled, which the comment in `adopt_hold` (`daemon.rs:2595`) rules out for its own path.
- A release that the proxy does not confirm is taken back by writing the marker again; when that write fails the session is held with no marker, and
  launches are admitted (`unmarked`).
- A log-only seal that fails has already killed the frozen tree and dropped the hold, and the daemon exits.
- A question covered by a standing answer is answered at once while the session is paused; the doc of `set_paused` says that new questions wait
  like the rest.
- A stop whose `SessionEnded` cannot be appended leaves the log open and the hold closed: later questions are refused after their request was recorded.
- After a restart of the daemon, credentials of earlier launches are neither listed nor revocable, and questions it held stay undecided in the log.
- A caller may be told `Withdrawn` with no `CredentialRevoked` in the log when the launch ended under its wait.
- `leases.json` is removed also when the provider refused a revocation; a death between a provider's issue and `keep` leaks the lease until it expires; a
  death between the removal and the append loses the records of a recovery; handles that cannot be read or parsed are passed over, and the node serves (`unread`).
- Renewals may take a lease past its grant's `ttl_secs`, up to `max_ttl`; a workload runs before the records of its issue are appended.

## The proofs

`NodeTasksProofs` proves `TypeCorrect`, `Spec => []TypeOK`, by an inductive `TypeInv` whose parts follow
the groups of variables: `TypeOK` alone is not inductive, since the types of `mem` after a handler come from
what `job.new` holds, and those of recovery from what may be in `disk`.

It also proves, for any number of tasks, attempts, leases, operations and versions and for
every bound on failures and deaths:

- `LaunchesAtMostOnce` (`LaunchedOnce`). The strengthening `LaunchInv` says that an attempt whose workload
  was ever started has its workspace directory, and that the directory exists before the launch step is
  reached: the directory, which `materialise` refuses to create twice, is what stops a second launch after any crash.
- `ReplacedNeverReturns` (`SupersededNeverReturns`). `ReplaceInv`: a superseded attempt is in `retired`, and the
  attempt a pending create carries is not.
- `AdmissionsTakeEffectOnce` (`AdmissionNeverReplayed`). `AdmitInv`: a version that took effect is at most the
  durable one, and a pending admission past its version write carries exactly it.
- `RevokedLaunchesNothing` (`RevokedNeverLaunched`). `RevokeInv`: a start past its second look at the revocations holds
  the mutex until its launch is given up or done, so no revoke comes in between; an attempt still launching is under a
  lease that is not revoked. A workload that appears after its start was given up is the stated exception.

Its last part prepares what follows: one `...Facts` lemma per action says what the step may change, in the words the invariants use
(`Opens`, `Moves`, `Closes`, `Writes`, `Says`), so that no later proof expands an action; and `BaseInv` collects the shapes of handlers,
records and workloads (`HandlerInv`, `ChangeInv`, `SpawnInv`, `ShapeInv`, `DownInv`) on which every other invariant rests.

`NodeTasksSafetyProofs` proves the other safety properties of `NodeTasks`, each from `BaseInv` and an invariant of its own, preserved by every
action:

- `SlotsBounded` (`SlotBound`). `TrackInv`: a workload that is not reaped belongs to an attempt that is kept, registered with its handle, or
  being started. `CountInv`: those are at most `MaxRunning`, and a start that has passed its check still has its slot, since it holds the mutex.
- `PausedMeansFrozen` (`PausedIffFrozen`). `FrozenInv` says where inside a pause or a resume state and tree may differ, and that the undo of a failed
  write brings them together again or leaves the thaw unconfirmed.
- `SealsMatchReceipts` (`SealedLogMatches`). `SealedInv` follows a seal through its four writes: record, log, mark and HEAD name the same operation and
  outcome, or the record is still the one before.
- `AnsweredStopsHold` (`StopConfirmed`). The property is about for ever, so the invariant must account for every way back. `JournalInv`
  relates the record on disk to the task in memory at each step of a handler; `KeptInv` the attempts that outlive their task; `SettledInv`
  says that once an attempt was reported over, every copy of it, in memory, on disk, in a pending handler and at the reaper, is spent; `StoppedInv` adds the answers.
  `TreeInv` ties the inner tree to the outer process: a tree still being set up or running inside has an outer process that is not reaped, so what an answered stop may leave is only
  a tree cut loose before its setup.
- `ReceiptsStand` (`ReceiptKept`). `ReceiptInv`: what is served and what is stored match what was shown, with `unknown` on either side only after a failed write.
- `LogsAgree` (`LogAgrees`). `Agreed`, for each attempt: while nothing has failed, the log folds to the task in memory, or the handler that holds
  the mutex is exactly one append ahead or behind.

The assumptions of both modules are `BindingAssumption` and `BoundAssumption` of `NodeTasks`: bindings name tasks and leases,
`None` is neither an attempt nor an operation, bounds are natural numbers.

`ActionChannelProofs` proves `TypeCorrect` and the eight safety properties of `ActionChannel`, for any connections, capabilities, operation ids, limits
and waits. `TypeInv` adds to the types what the numbers handed out may be (`NumberInv`), what a record names (`RecordInv`) and what the holder of the lock is at
(`TurnInv`). On it rest two inductive invariants.

- `ChannelInv` relates a request, its answer and the log. `AnswerInv`: a request is pending or answered, and a connection was told what `ans` has.
  `VouchInv`: an answer the control plane gave, and a request it was shown, are in the log. `ClosedInv`: a closed channel has nothing pending, a
  finished one nothing queued either. `WaitInv`: a deadline together with the time it has waited unpaused makes up the wait. These give `AnswersAreFinal`,
  `ToldOnlyRecorded`, `HoldsNeedApproval`, `ListsOnlyRecorded`, `FinishedIsSilent` and `ExpiryWaits`.
- `RecInv` speaks of the log followed by the queue, the records as they will be, so that flushing one changes nothing. `OrderInv`: a request
  comes once and before its answer; `FirstInv`: while no append failed, every request is recorded; `RefusalInv` and `ChargeInv`: refusals are within their limit and an answer that comes again is paid by a
  failure; `DeathInv`: after a death there is no queue. These give `LogIsOrdered` and `EvidenceIsBounded`, by injections of
  the records into the numbers and failures that may produce them.

The assumption is `GrantAssumption`: `None` is no connection and no operation, limits and bounds are natural numbers, and the limits on connections, refusals and the
wait are not zero.

`SnapshotGcProofs` proves `TypeCorrect`, `RootsKeepManifests` (`RootsStored`) and `StoredMeansWhole`
(`ManifestsWhole`) for any snapshots, blobs, captures and sweeps, any grace period and any lease. Neither safety
property is inductive: they rest on `GcInv`, whose parts say that a capture no sweep raced runs while none is past its
lease check (`CaptureInv`), so what it has put stays; that a returned capture's manifest is there as long as it may
still be recorded (`ReturnInv`), and likewise for a checked keep (`KeepInv`); that a root some sweep does not know of is
young by that sweep's clock or among those a sweep could not read (`RootInv`), while a planned manifest is too old to become a root (`DoomedInv`); and that
a planned blob goes only after every manifest naming it that was listed (`OrderInv`). The assumptions are `StoreAssumption`,
`TimeAssumption` and `NoneAssumption`: manifests name blobs, bounds are natural numbers, a lease lasts at least a tick,
and `None` is no snapshot and no object.

`CredentialRevokeProofs` proves, for any launches, connections and exchanges and every number of faults, `TypeCorrect`,
`WithdrawnMeansSilent` (`WithdrawnIsSilent`), `NothingIsInjectedAfter` (`NothingNewInjected`) and `RevokedAtMostOnce`
(`RevokedOnce`). The inductive `Inv` follows an outcome on its way: what the egress found in the proxy, then the marker, then what a leader
got and what it published to its joiners. At each place a confirmed outcome has its evidence (`EvidenceInv`): some launch with that id is
revoked and, for `withdrawn`, silent. `Keeps` says why evidence does not age: a withdrawal is never undone, and a
revoked credential lets no exchange past its last check (one already past it is among those counted in flight). `ConnInv` and `SlotInv` tie a connection's slot to its own grant's id. From an id the theorems come back to a
launch under `Alone`: ids are minted again after a restart, and then the evidence may be another launch's (see above).
The assumptions are `RevokeAssumption` (finitely many launches, bounds are natural numbers) and `NoneAssumption`.

`SessionLifecycleProofs` proves `StoppedMeansEnded` (`StopEndsAll`). `StopInv` adds where the stop is: from its first kill to its record it
has the session lock and the stop marker, once the kill is confirmed nothing is alive, and nothing that is gone can fork. The lock keeps a launch
that was admitted from spawning, the marker keeps a new one from being admitted when the lock is let go.

It also proves the other four safety properties, for any processes, any captures and every number of faults. `OwnInv` and `MarkInv` say of each step of
each operation who holds the session, in memory, in the owners file and by the marker; only two places thaw (`Thawing`, `Releasing`), and with these invariants neither is
reached while a stop has begun or a user's pause stands: `StopsAreFinal` (`StopIsFinal`) and `UserPausesStand` (`UserPauseStands`). `GrantInv` and `QuietInv` follow a capture's hold
from its grant to its release with every process stopped in between, over restarts that read it back (`ClientInv`, `ReleaseInv`, `MarkedInv`):
`CapturesAreQuiescent` (`CaptureQuiescent`). `StrandInv` says which record, marker or running operation answers for a stopped process at each step:
`NothingIsStranded` (`NothingStranded`). The exceptions are the lapses named in the properties, which the section on disagreements describes.

`ApprovalsProofs` proves `HoldDecidesOnce` (`DecidesOnce`): `Approvals` implements `DecideOnce`, for any questions, any wait, any history
size and every number of faults. A verdict moves from the hold to whoever takes it, the question's own waiter or the stop that drains the hold, and from
there to the log. `QuestionInv` says for each state of a hook's connection which of these places has the verdict and whether it is recorded
(`NewInv`, `WaitingInv`, `SettledInv`, `EndedInv`); `Accounted`: a verdict that was drained is recorded, lost with a failed append, or still the
stop's to append; `StopInv`: a closed hold is empty, and the stop owes records only until it seals.
With that, each action maps to one step of `DecideOnce` or to none (one `Maps` lemma per action). It also proves `ClockIsFair` (`ExpiryIsFair`), from `ClockInv`: the clock of a held question stands exactly while the session is
paused, and has left what its decision time lacks of the unpaused ticks the question was open for, over any number of pauses. The assumptions are
`NoneAssumption` (`None` is no outcome and no time) and, for the clock, `ApprovalsAssumption` (times and bounds are natural numbers).

`NodeLeasesProofs` proves `WithdrawnStaysWithdrawn` (`NotReopened`) for any services, starts and faults: a route
injects exactly while its lease is held (`HeldInv`), and past a start's issue every step ends a lease, leaves it or lengthens one that is held (`Touched`, with
`RenewInv` for what a renewal on its way may bring), so a late renewal finds nothing to open. `LiveLeasesKept` (`HandleKept`) is for any number
of starts as well: `LeaseInv` (`CallInv`, `RouteCalls`, `AskedInv`, `FileInv`) follows a generation's leases from their issue through `leases.json` to the removal of their handles, also when two calls share
them, and a handle that goes while its lease is alive puts its generation in `crossed`. `RoutesWithinLog` (`RouteRecorded`) is for an attempt that is started once (`OneStart`), from `RouteInv`: the routes
of a refused start may outlive it. The assumption is `LeaseBounds`.

Only model-checked. Liveness (`StopReaped`, `RequestAnswered`, `EventuallyAnswered`, `OperationsEnd`, `HooksHear`, `RevokeAnswered`, `LeasesEnd`): it needs
fairness and ENABLED, which the prover does not treat. Every safety property that a passing run checks has a
theorem; `RouteRecorded` of `NodeLeases` has its own for one start, as in its run. `TypeOK` of `Approvals` is not proved: its bound on the history
after a stop is an induction over the questions drained.

## Not modelled

Sockets, TLS, the sandbox and its kernel filters, hashing and framing of logs, formats of files, host readings,
the content of workspaces, snapshots and outputs, user interfaces. They are I/O, or payload that no property here
distinguishes. Sizes are left out as well, so the reserve a log keeps for its last records is not checked. `components` in
`PROJECT.json` lists every part with its status.

Most of the repository is of that kind: of the 159 thousand lines, the command line, shell and desktop, the sandbox and launcher, the wire
protocol's shapes, reports, self-tests and, in every file, its tests hold far the larger part. What is mapped is the part with state that several
actors or a restart can disagree about. The map names only lines a definition stands for, so its share of the whole stays small.

## Plan

Done, in this order: `NodeTasks`, `ActionChannel`; `SnapshotGc`; `Approvals` over `DecideOnce`; `CredentialRevoke`; `NodeLeases`; `SessionLifecycle`.

Next:

1. Proofs: type correctness of `SessionLifecycle` and `NodeLeases`; routes of `NodeLeases` for several starts.
2. `AttemptEvidence`: the frame level under `NodeTasks`' logs with the size bound and its reserve, refined by the
   fold `NodeTasks` uses; the egress tally on top of it.
3. `Authority` and `Policy` as pure operators against reference definitions.

The set of runs is kept small: a run per question, and the runs that ask the same question of smaller instances are merged.
