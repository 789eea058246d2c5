------------------------- MODULE NodeTasksSafetyProofs -------------------------
(***************************************************************************)
(* Safety of the task registry across failed writes, deaths and restarts,   *)
(* for every value of the constants: the running workloads are bounded, a   *)
(* paused task is a stopped tree, a sealed task's log is sealed, an         *)
(* answered stop holds for ever, a receipt stands and, while no write       *)
(* fails, the evidence agrees with the registry.  Each is an invariant      *)
(* strengthened until a step preserves it; the type invariant, the facts    *)
(* about steps and the shape invariants come from NodeTasksProofs.          *)
(***************************************************************************)
EXTENDS NodeTasksProofs, FiniteSetTheorems

--------------------------------------------------------------------------------
(* The bound on running workloads *)

Starting(a) == job.pc # "idle" /\ job.verb = "start" /\ job.att = a

\* Every workload that is not reaped is counted: its attempt is kept, registered with its
\* handle, or being started, past the recorded intent.
TrackInv ==
  \A a \in Attempts : reap[a] \notin {"none", "done"} =>
    \/ a \in kept
    \/ mem[TaskOf[a]].att = a /\ mem[TaskOf[a]].run
    \/ Starting(a) /\ job.pc # "intent"

\* The slots in use fit the bound, and a start that passed the check still has one.
CountInv ==
  /\ IsFiniteSet(Unreaped) /\ Cardinality(Unreaped) <= MaxRunning
  /\ job.pc = "intent" => Cardinality(Unreaped) < MaxRunning

LEMMA TrackInductive == ASSUME BaseInv, TrackInv, [Next]_vars PROVE TrackInv'
<1> USE DEF BaseInv
<1>1. CASE UNCHANGED vars
  BY <1>1 DEF vars, registry, workloads, durable, process, history, TrackInv, Starting, HandlerInv,
    ChangeInv, Changers, SpawnInv, Spawning, Exits, DownInv
<1>2. ASSUME NEW a \in Attempts, CreateNew(a) PROVE TrackInv'
  BY <1>2, CreateNewFacts, BoundTask DEF Opens, Fresh, Idle, TrackInv, Starting, HandlerInv,
    ChangeInv, Changers, SpawnInv, Spawning, Exits, DownInv
<1>3. ASSUME NEW a \in Attempts, CreateEvict(a) PROVE TrackInv'
  <2>1. PICK t \in Tasks :
          /\ mem[t].st = "Sealed"
          /\ \/ Blank(mem'[t]) /\ MemOnly(t) /\ Keeps(mem[t])
             \/ UNCHANGED <<mem, kept, job>>
    BY <1>3, CreateEvictFacts
  <2>2. UNCHANGED reap /\ job.pc = "idle" /\ \A b \in Attempts : TaskOf[b] \in Tasks
    BY <1>3, CreateEvictFacts, BoundTask DEF Idle
  <2> QED
    BY <2>1, <2>2 DEF TrackInv, Starting, MemOnly, Keeps
<1>4. ASSUME NEW a \in Attempts, CreateReplace(a) PROVE TrackInv'
  BY <1>4, CreateReplaceFacts, BoundTask DEF Opens, Fresh, Idle, TrackInv, Starting, HandlerInv,
    ChangeInv, Changers, SpawnInv, Spawning, Exits, DownInv
<1>5. ASSUME NEW a \in Attempts, Pause(a) PROVE TrackInv'
  BY <1>5, PauseFacts, BoundTask DEF FrozenOnly, Opens, Alike, Idle, TrackInv, Starting, HandlerInv,
    ChangeInv, Changers, SpawnInv, Spawning, Exits, DownInv
<1>6. ASSUME NEW a \in Attempts, Resume(a) PROVE TrackInv'
  BY <1>6, ResumeFacts, BoundTask DEF FrozenOnly, Opens, Alike, Idle, TrackInv, Starting,
    HandlerInv, ChangeInv, Changers, SpawnInv, Spawning, Exits, DownInv
<1>7. ASSUME NEW a \in Attempts, Start(a) PROVE TrackInv'
  BY <1>7, StartFacts, BoundTask DEF Opens, Idle, TrackInv, Starting, HandlerInv, ChangeInv,
    Changers, SpawnInv, Spawning, Exits, DownInv
<1>8. ASSUME NEW a \in Attempts, NEW v \in Versions, Admit(a, v) PROVE TrackInv'
  BY <1>8, AdmitFacts, BoundTask DEF Opens, Alike, Idle, TrackInv, Starting, HandlerInv, ChangeInv,
    Changers, SpawnInv, Spawning, Exits, DownInv
<1>9. ASSUME NEW a \in Attempts, NEW op \in Ops, StopReady(op, a) PROVE TrackInv'
  BY <1>9, StopReadyFacts, BoundTask DEF Opens, Ends, Idle, TrackInv, Starting, HandlerInv,
    ChangeInv, Changers, SpawnInv, Spawning, Exits, DownInv
<1>10. ASSUME NEW a \in Attempts, NEW op \in Ops, StopLive(op, a) PROVE TrackInv'
  BY <1>10, StopLiveFacts, BoundTask DEF MemOnly, FrozenOnly, Alike, Kills, Idle, TrackInv,
    Starting, HandlerInv, ChangeInv, Changers, SpawnInv, Spawning, Exits, DownInv
<1>11. ASSUME NEW a \in Attempts, NEW op \in Ops, StopReplay(op, a) PROVE TrackInv'
  BY <1>11, StopReplayFacts, BoundTask DEF Idle, TrackInv, Starting, HandlerInv, ChangeInv,
    Changers, SpawnInv, Spawning, Exits, DownInv
<1>12. ASSUME NEW a \in Attempts, NEW op \in Ops, RevokeReady(op, a) PROVE TrackInv'
  BY <1>12, RevokeReadyFacts, BoundTask DEF Opens, Ends, Idle, TrackInv, Starting, HandlerInv,
    ChangeInv, Changers, SpawnInv, Spawning, Exits, DownInv
<1>13. ASSUME NEW a \in Attempts, NEW op \in Ops, RevokeLive(op, a) PROVE TrackInv'
  BY <1>13, RevokeLiveFacts, BoundTask DEF MemOnly, FrozenOnly, Alike, Kills, Idle, TrackInv,
    Starting, HandlerInv, ChangeInv, Changers, SpawnInv, Spawning, Exits, DownInv
<1>14. ASSUME NEW a \in Attempts, NEW op \in Ops, Seal(op, a) PROVE TrackInv'
  BY <1>14, SealFacts, BoundTask DEF Opens, Idle, TrackInv, Starting, HandlerInv, ChangeInv,
    Changers, SpawnInv, Spawning, Exits, DownInv
<1>15. CASE CreateWrite
  <2>1. \/ /\ Applies
           /\ mem[TaskOf[job.att]].st = "absent" => UNCHANGED kept
           /\ mem[TaskOf[job.att]].st # "absent" => Keeps(mem[TaskOf[job.att]])
        \/ Closes /\ UNCHANGED <<mem, kept>>
    BY <1>15, CreateWriteFacts
  <2>2. UNCHANGED reap /\ job.verb = "create" /\ job.pc = "journal" /\ TaskOf[job.att] \in Tasks
        /\ \A b \in Attempts : TaskOf[b] \in Tasks
    BY <1>15, CreateWriteFacts, JobTypes, BoundTask
  <2>3. mem[TaskOf[job.att]].st = "absent" => mem[TaskOf[job.att]].att \notin Attempts
    BY <2>2, BindingAssumption DEF ShapeInv, TaskShape
  <2> QED
    BY <2>1, <2>2, <2>3 DEF TrackInv, Starting, Applies, MemOnly, Keeps, Closes
<1>16. CASE CommitJournal
  BY <1>16, CommitJournalFacts, JobTypes, BoundTask DEF Mirrors, DiskOnly, Moves, Closes, Refuses,
    Writes, Fails, TrackInv, Starting, HandlerInv, ChangeInv, Changers, SpawnInv, Spawning, Exits,
    DownInv
<1>17. CASE CommitVersion
  BY <1>17, CommitVersionFacts, JobTypes, BoundTask DEF Moves, TrackInv, Starting, HandlerInv,
    ChangeInv, Changers, SpawnInv, Spawning, Exits, DownInv
<1>18. CASE CommitEvidence
  BY <1>18, CommitEvidenceFacts, JobTypes, BoundTask DEF MemOnly, LogOnly, ShownOnly, Moves, Closes,
    Shows, Applies, Says, Logs, Misses, TrackInv, Starting, HandlerInv, ChangeInv, Changers,
    SpawnInv, Spawning, Exits, DownInv
<1>19. CASE Restore
  BY <1>19, RestoreFacts, JobTypes, BoundTask DEF Mirrors, DiskOnly, Moves, Closes, Refuses, Writes,
    Fails, TrackInv, Starting, HandlerInv, ChangeInv, Changers, SpawnInv, Spawning, Exits, DownInv
<1>20. CASE Undo
  BY <1>20, UndoFacts, JobTypes, BoundTask DEF FrozenOnly, Closes, TrackInv, Starting, HandlerInv,
    ChangeInv, Changers, SpawnInv, Spawning, Exits, DownInv
<1>21. CASE SealOpen
  BY <1>21, SealOpenFacts, JobTypes, BoundTask DEF MemOnly, LogOnly, ShownOnly, Moves, Closes,
    Shows, Applies, Says, Logs, Misses, TrackInv, Starting, HandlerInv, ChangeInv, Changers,
    SpawnInv, Spawning, Exits, DownInv
<1>22. CASE SealMark
  BY <1>22, SealMarkFacts, JobTypes, BoundTask DEF LogOnly, Moves, Says, Logs, Misses, TrackInv,
    Starting, HandlerInv, ChangeInv, Changers, SpawnInv, Spawning, Exits, DownInv
<1>23. CASE SealHeadNew
  BY <1>23, SealHeadNewFacts, JobTypes, BoundTask DEF LogOnly, Moves, Says, Heads, TrackInv,
    Starting, HandlerInv, ChangeInv, Changers, SpawnInv, Spawning, Exits, DownInv
<1>24. CASE SealHeadText
  BY <1>24, SealHeadTextFacts, JobTypes, BoundTask DEF MemOnly, LogOnly, ShownOnly, Moves, Closes,
    Shows, Applies, Says, Heads, TrackInv, Starting, HandlerInv, ChangeInv, Changers, SpawnInv,
    Spawning, Exits, DownInv
<1>25. CASE LaunchIntent
  BY <1>25, LaunchIntentFacts, JobTypes, BoundTask DEF DiskOnly, ReapOnly, Moves, Closes, Intends,
    TrackInv, Starting, HandlerInv, ChangeInv, Changers, SpawnInv, Spawning, Exits, DownInv
<1>26. CASE SpawnReport
  BY <1>26, SpawnReportFacts, JobTypes, BoundTask DEF Mirrors, DiskOnly, ReapOnly, Opens, Closes,
    Writes, Fails, Ends, SpawnFails, Spawns, TrackInv, Starting, HandlerInv, ChangeInv, Changers,
    SpawnInv, Spawning, Exits, DownInv
<1>27. CASE RecordRunning
  BY <1>27, RecordRunningFacts, JobTypes, BoundTask DEF Mirrors, DiskOnly, Opens, Moves, Writes,
    Fails, Ends, SpawnFails, TrackInv, Starting, HandlerInv, ChangeInv, Changers, SpawnInv,
    Spawning, Exits, DownInv
<1>28. CASE RecordLaunched
  BY <1>28, RecordLaunchedFacts, JobTypes, BoundTask DEF MemOnly, LogOnly, ShownOnly, Opens, Closes,
    Shows, Applies, Says, Logs, Misses, Ends, SpawnFails, TrackInv, Starting, HandlerInv, ChangeInv,
    Changers, SpawnInv, Spawning, Exits, DownInv
<1>29. CASE RecordEnd
  BY <1>29, RecordEndFacts, JobTypes, BoundTask DEF Mirrors, DiskOnly, Moves, Writes, Fails,
    TrackInv, Starting, HandlerInv, ChangeInv, Changers, SpawnInv, Spawning, Exits, DownInv
<1>30. CASE RecordEnded
  BY <1>30, RecordEndedFacts, JobTypes, BoundTask DEF MemOnly, LogOnly, ReapOnly, ShownOnly, Closes,
    Shows, Applies, Says, Logs, Misses, TrackInv, Starting, HandlerInv, ChangeInv, Changers,
    SpawnInv, Spawning, Exits, DownInv
<1>31. ASSUME NEW w \in waits, FinishStop(w) PROVE TrackInv'
  BY <1>31, FinishStopFacts, BoundTask DEF Idle, TrackInv, Starting, HandlerInv, ChangeInv,
    Changers, SpawnInv, Spawning, Exits, DownInv
<1>32. ASSUME NEW w \in waits, FinishRevoke(w) PROVE TrackInv'
  BY <1>32, FinishRevokeFacts, BoundTask DEF Opens, Ends, Idle, TrackInv, Starting, HandlerInv,
    ChangeInv, Changers, SpawnInv, Spawning, Exits, DownInv
<1>33. CASE Crash
  BY <1>33, CrashFacts, BoundTask DEF Closes, Partly, Says, Blank, TrackInv, Starting, HandlerInv,
    ChangeInv, Changers, SpawnInv, Spawning, Exits, DownInv
<1>34. CASE Restart
  BY <1>34, RestartFacts, BoundTask DEF TrackInv, Starting, HandlerInv, ChangeInv, Changers,
    SpawnInv, Spawning, Exits, DownInv
<1>35. ASSUME NEW t \in todo, RecoverRecord(t) PROVE TrackInv'
  BY <1>35, RecoverRecordFacts, BoundTask DEF DiskOnly, Opens, Blank, Recovers, TrackInv, Starting,
    HandlerInv, ChangeInv, Changers, SpawnInv, Spawning, Exits, DownInv
<1>36. CASE RecoverLog
  BY <1>36, RecoverLogFacts, JobTypes, BoundTask DEF MemOnly, LogOnly, ShownOnly, Closes, Shows,
    Partly, Says, Mends, TrackInv, Starting, HandlerInv, ChangeInv, Changers, SpawnInv, Spawning, Exits,
    DownInv
<1>37. CASE Serve
  BY <1>37, ServeFacts, BoundTask DEF TrackInv, Starting, HandlerInv, ChangeInv, Changers, SpawnInv,
    Spawning, Exits, DownInv
<1>38. ASSUME NEW a \in Attempts, Launch(a) PROVE TrackInv'
  BY <1>38, LaunchFacts, JobTypes, BoundTask DEF ReapOnly, TrackInv, Starting, HandlerInv,
    ChangeInv, Changers, SpawnInv, Spawning, Exits, DownInv
<1>39. ASSUME NEW a \in Attempts, LateLaunch(a) PROVE TrackInv'
  BY <1>39, LateLaunchFacts, JobTypes, BoundTask DEF ReapOnly, TrackInv, Starting, HandlerInv,
    ChangeInv, Changers, SpawnInv, Spawning, Exits, DownInv
<1>40. ASSUME NEW a \in Attempts, DropLate(a) PROVE TrackInv'
  BY <1>40, DropLateFacts, JobTypes, BoundTask DEF ReapOnly, TrackInv, Starting, HandlerInv,
    ChangeInv, Changers, SpawnInv, Spawning, Exits, DownInv
<1>41. ASSUME NEW a \in Attempts, RecordExit(a) PROVE TrackInv'
  BY <1>41, RecordExitFacts, JobTypes, BoundTask DEF ReapOnly, Opens, Idle, TrackInv, Starting,
    HandlerInv, ChangeInv, Changers, SpawnInv, Spawning, Exits, DownInv
<1>42. ASSUME NEW a \in Attempts, NEW e \in Exits, WorkloadEnds(a, e) PROVE TrackInv'
  BY <1>42, WorkloadEndsFacts, JobTypes, BoundTask DEF ReapOnly, TrackInv, Starting, HandlerInv,
    ChangeInv, Changers, SpawnInv, Spawning, Exits, DownInv
<1>43. CASE NoThread
  BY <1>43, NoThreadFacts, JobTypes, BoundTask DEF ReapOnly, TrackInv, Starting, HandlerInv,
    ChangeInv, Changers, SpawnInv, Spawning, Exits, DownInv
<1>44. ASSUME NEW a \in Attempts, SandboxSetUp(a) PROVE TrackInv'
  BY <1>44, SandboxSetUpFacts, JobTypes, BoundTask DEF TrackInv, Starting, HandlerInv, ChangeInv,
    Changers, SpawnInv, Spawning, Exits, DownInv
<1> QED
  BY <1>1, <1>2, <1>3, <1>4, <1>5, <1>6, <1>7, <1>8, <1>9, <1>10, <1>11, <1>12, <1>13, <1>14, <1>15,
    <1>16, <1>17, <1>18, <1>19, <1>20, <1>21, <1>22, <1>23, <1>24, <1>25, <1>26, <1>27, <1>28,
    <1>29, <1>30, <1>31, <1>32, <1>33, <1>34, <1>35, <1>36, <1>37, <1>38, <1>39, <1>40, <1>41, <1>42,
    <1>43, <1>44
  DEF Next, Request, JobStep, Answer, Reaper, Recovery

\* A step frees slots or leaves them, except the recorded intent of a start.
LEMMA SlotsMove ==
  ASSUME BaseInv, TrackInv, [Next]_vars
  PROVE  \/ /\ Unreaped' \subseteq Unreaped
            /\ job'.pc = "intent" => job.pc = "intent" \/ (Idle /\ SlotFree)
         \/ job.pc = "intent" /\ job'.pc = "spawn" /\ Unreaped' \subseteq Unreaped \cup {job.att}
<1> DEFINE SlotGoal ==
      \/ /\ Unreaped' \subseteq Unreaped
         /\ job'.pc = "intent" => job.pc = "intent" \/ (Idle /\ SlotFree)
      \/ job.pc = "intent" /\ job'.pc = "spawn" /\ Unreaped' \subseteq Unreaped \cup {job.att}
<1> USE DEF BaseInv
<1>1. CASE UNCHANGED vars
  BY <1>1 DEF vars, registry, workloads, durable, process, history, Unreaped, HandlerInv
<1>2. ASSUME NEW a \in Attempts, CreateNew(a) PROVE SlotGoal
  BY <1>2, CreateNewFacts, BoundTask DEF Opens, Fresh, Idle, Unreaped, HandlerInv
<1>3. ASSUME NEW a \in Attempts, CreateEvict(a) PROVE SlotGoal
  BY <1>3, CreateEvictFacts, BoundTask DEF MemOnly, DiskOnly, Opens, Fresh, Blank, Keeps, Idle,
    Unreaped, HandlerInv
<1>4. ASSUME NEW a \in Attempts, CreateReplace(a) PROVE SlotGoal
  BY <1>4, CreateReplaceFacts, BoundTask DEF Opens, Fresh, Idle, Unreaped, HandlerInv
<1>5. ASSUME NEW a \in Attempts, Pause(a) PROVE SlotGoal
  BY <1>5, PauseFacts, BoundTask DEF FrozenOnly, Opens, Alike, Idle, Unreaped, HandlerInv
<1>6. ASSUME NEW a \in Attempts, Resume(a) PROVE SlotGoal
  BY <1>6, ResumeFacts, BoundTask DEF FrozenOnly, Opens, Alike, Idle, Unreaped, HandlerInv
<1>7. ASSUME NEW a \in Attempts, Start(a) PROVE SlotGoal
  BY <1>7, StartFacts, BoundTask DEF Opens, Idle, Unreaped, HandlerInv
<1>8. ASSUME NEW a \in Attempts, NEW v \in Versions, Admit(a, v) PROVE SlotGoal
  BY <1>8, AdmitFacts, BoundTask DEF Opens, Alike, Idle, Unreaped, HandlerInv
<1>9. ASSUME NEW a \in Attempts, NEW op \in Ops, StopReady(op, a) PROVE SlotGoal
  BY <1>9, StopReadyFacts, BoundTask DEF Opens, Ends, Idle, Unreaped, HandlerInv
<1>10. ASSUME NEW a \in Attempts, NEW op \in Ops, StopLive(op, a) PROVE SlotGoal
  BY <1>10, StopLiveFacts, BoundTask DEF MemOnly, FrozenOnly, Alike, Kills, Idle, Unreaped,
    HandlerInv
<1>11. ASSUME NEW a \in Attempts, NEW op \in Ops, StopReplay(op, a) PROVE SlotGoal
  BY <1>11, StopReplayFacts, BoundTask DEF Idle, Unreaped, HandlerInv
<1>12. ASSUME NEW a \in Attempts, NEW op \in Ops, RevokeReady(op, a) PROVE SlotGoal
  BY <1>12, RevokeReadyFacts, BoundTask DEF Opens, Ends, Idle, Unreaped, HandlerInv
<1>13. ASSUME NEW a \in Attempts, NEW op \in Ops, RevokeLive(op, a) PROVE SlotGoal
  BY <1>13, RevokeLiveFacts, BoundTask DEF MemOnly, FrozenOnly, Alike, Kills, Idle, Unreaped,
    HandlerInv
<1>14. ASSUME NEW a \in Attempts, NEW op \in Ops, Seal(op, a) PROVE SlotGoal
  BY <1>14, SealFacts, BoundTask DEF Opens, Idle, Unreaped, HandlerInv
<1>15. CASE CreateWrite
  BY <1>15, CreateWriteFacts, JobTypes, BoundTask DEF Mirrors, MemOnly, DiskOnly, ShownOnly, Closes,
    Shows, Applies, Writes, Fails, Keeps, Unreaped, HandlerInv
<1>16. CASE CommitJournal
  BY <1>16, CommitJournalFacts, JobTypes, BoundTask DEF Mirrors, DiskOnly, Moves, Closes, Refuses,
    Writes, Fails, Unreaped, HandlerInv
<1>17. CASE CommitVersion
  BY <1>17, CommitVersionFacts, JobTypes, BoundTask DEF Moves, Unreaped, HandlerInv
<1>18. CASE CommitEvidence
  BY <1>18, CommitEvidenceFacts, JobTypes, BoundTask DEF MemOnly, LogOnly, ShownOnly, Moves, Closes,
    Shows, Applies, Says, Logs, Misses, Unreaped, HandlerInv
<1>19. CASE Restore
  BY <1>19, RestoreFacts, JobTypes, BoundTask DEF Mirrors, DiskOnly, Moves, Closes, Refuses, Writes,
    Fails, Unreaped, HandlerInv
<1>20. CASE Undo
  BY <1>20, UndoFacts, JobTypes, BoundTask DEF FrozenOnly, Closes, Unreaped, HandlerInv
<1>21. CASE SealOpen
  BY <1>21, SealOpenFacts, JobTypes, BoundTask DEF MemOnly, LogOnly, ShownOnly, Moves, Closes,
    Shows, Applies, Says, Logs, Misses, Unreaped, HandlerInv
<1>22. CASE SealMark
  BY <1>22, SealMarkFacts, JobTypes, BoundTask DEF LogOnly, Moves, Says, Logs, Misses, Unreaped,
    HandlerInv
<1>23. CASE SealHeadNew
  BY <1>23, SealHeadNewFacts, JobTypes, BoundTask DEF LogOnly, Moves, Says, Heads, Unreaped,
    HandlerInv
<1>24. CASE SealHeadText
  BY <1>24, SealHeadTextFacts, JobTypes, BoundTask DEF MemOnly, LogOnly, ShownOnly, Moves, Closes,
    Shows, Applies, Says, Heads, Unreaped, HandlerInv
<1>25. CASE LaunchIntent
  BY <1>25, LaunchIntentFacts, JobTypes, BoundTask DEF DiskOnly, ReapOnly, Moves, Closes, Intends,
    Unreaped, HandlerInv
<1>26. CASE SpawnReport
  BY <1>26, SpawnReportFacts, JobTypes, BoundTask DEF Mirrors, DiskOnly, ReapOnly, Opens, Closes,
    Writes, Fails, Ends, SpawnFails, Spawns, Unreaped, HandlerInv, SpawnInv, Spawning
<1>27. CASE RecordRunning
  BY <1>27, RecordRunningFacts, JobTypes, BoundTask DEF Mirrors, DiskOnly, Opens, Moves, Writes,
    Fails, Ends, SpawnFails, Unreaped, HandlerInv
<1>28. CASE RecordLaunched
  BY <1>28, RecordLaunchedFacts, JobTypes, BoundTask DEF MemOnly, LogOnly, ShownOnly, Opens, Closes,
    Shows, Applies, Says, Logs, Misses, Ends, SpawnFails, Unreaped, HandlerInv
<1>29. CASE RecordEnd
  BY <1>29, RecordEndFacts, JobTypes, BoundTask DEF Mirrors, DiskOnly, Moves, Writes, Fails,
    Unreaped, HandlerInv
<1>30. CASE RecordEnded
  BY <1>30, RecordEndedFacts, JobTypes, BoundTask DEF MemOnly, LogOnly, ReapOnly, ShownOnly, Closes,
    Shows, Applies, Says, Logs, Misses, Unreaped, HandlerInv
<1>31. ASSUME NEW w \in waits, FinishStop(w) PROVE SlotGoal
  BY <1>31, FinishStopFacts, BoundTask DEF Idle, Unreaped, HandlerInv
<1>32. ASSUME NEW w \in waits, FinishRevoke(w) PROVE SlotGoal
  BY <1>32, FinishRevokeFacts, BoundTask DEF Opens, Ends, Idle, Unreaped, HandlerInv
<1>33. CASE Crash
  BY <1>33, CrashFacts, BoundTask DEF Closes, Partly, Says, Blank, Unreaped, HandlerInv
<1>34. CASE Restart
  BY <1>34, RestartFacts, BoundTask DEF Unreaped, HandlerInv
<1>35. ASSUME NEW t \in todo, RecoverRecord(t) PROVE SlotGoal
  BY <1>35, RecoverRecordFacts, BoundTask DEF DiskOnly, Opens, Blank, Recovers, Unreaped, HandlerInv
<1>36. CASE RecoverLog
  BY <1>36, RecoverLogFacts, JobTypes, BoundTask DEF MemOnly, LogOnly, ShownOnly, Closes, Shows,
    Partly, Says, Mends, Unreaped, HandlerInv
<1>37. CASE Serve
  BY <1>37, ServeFacts, BoundTask DEF Unreaped, HandlerInv
<1>38. ASSUME NEW a \in Attempts, Launch(a) PROVE SlotGoal
  BY <1>38, LaunchFacts, JobTypes, BoundTask DEF ReapOnly, Unreaped, HandlerInv
<1>39. ASSUME NEW a \in Attempts, LateLaunch(a) PROVE SlotGoal
  BY <1>39, LateLaunchFacts, JobTypes, BoundTask DEF ReapOnly, Unreaped, HandlerInv
<1>40. ASSUME NEW a \in Attempts, DropLate(a) PROVE SlotGoal
  BY <1>40, DropLateFacts, JobTypes, BoundTask DEF ReapOnly, Unreaped, HandlerInv
<1>41. ASSUME NEW a \in Attempts, RecordExit(a) PROVE SlotGoal
  BY <1>41, RecordExitFacts, JobTypes, BoundTask DEF ReapOnly, Opens, Idle, Unreaped, HandlerInv,
    Exits
<1>42. ASSUME NEW a \in Attempts, NEW e \in Exits, WorkloadEnds(a, e) PROVE SlotGoal
  BY <1>42, WorkloadEndsFacts, JobTypes, BoundTask DEF ReapOnly, Unreaped, HandlerInv, Exits
<1>43. CASE NoThread
  BY <1>43, NoThreadFacts, JobTypes, BoundTask DEF ReapOnly, Unreaped, HandlerInv, Exits
<1>44. ASSUME NEW a \in Attempts, SandboxSetUp(a) PROVE SlotGoal
  BY <1>44, SandboxSetUpFacts, JobTypes, BoundTask DEF Unreaped, HandlerInv, Exits
<1> QED
  BY <1>1, <1>2, <1>3, <1>4, <1>5, <1>6, <1>7, <1>8, <1>9, <1>10, <1>11, <1>12, <1>13, <1>14, <1>15,
    <1>16, <1>17, <1>18, <1>19, <1>20, <1>21, <1>22, <1>23, <1>24, <1>25, <1>26, <1>27, <1>28,
    <1>29, <1>30, <1>31, <1>32, <1>33, <1>34, <1>35, <1>36, <1>37, <1>38, <1>39, <1>40, <1>41, <1>42,
    <1>43, <1>44
  DEF SlotGoal, Next, Request, JobStep, Answer, Reaper, Recovery

LEMMA AllExecuting == ASSUME BaseInv, TrackInv, Idle PROVE Unreaped = Executing
BY DEF BaseInv, TrackInv, Idle, Starting, Executing, Unreaped, Holds

LEMMA CountInductive == ASSUME BaseInv, TrackInv, CountInv, [Next]_vars PROVE CountInv'
<1> USE DEF CountInv
<1>0. Cardinality(Unreaped) \in Nat
  BY FS_CardinalityType
<1>1. CASE /\ Unreaped' \subseteq Unreaped
           /\ job'.pc = "intent" => job.pc = "intent" \/ (Idle /\ SlotFree)
  <2>1. /\ IsFiniteSet(Unreaped') /\ Cardinality(Unreaped') \in Nat
        /\ Cardinality(Unreaped') <= Cardinality(Unreaped)
    BY <1>1, FS_Subset, FS_CardinalityType
  <2>2. Idle /\ SlotFree => Cardinality(Unreaped) < MaxRunning
    BY AllExecuting DEF SlotFree
  <2>3. MaxRunning \in Nat
    BY BoundAssumption
  <2> HIDE DEF Idle, SlotFree, Unreaped
  <2>4. CASE job'.pc = "intent"
    BY <1>0, <1>1, <2>1, <2>2, <2>3, <2>4
  <2>5. CASE job'.pc # "intent"
    BY <1>0, <2>1, <2>3, <2>5
  <2> QED
    BY <2>4, <2>5
<1>2. CASE job.pc = "intent" /\ job'.pc = "spawn" /\ Unreaped' \subseteq Unreaped \cup {job.att}
  <2>1. /\ IsFiniteSet(Unreaped \cup {job.att})
        /\ Cardinality(Unreaped \cup {job.att}) \in {Cardinality(Unreaped), Cardinality(Unreaped) + 1}
    BY FS_AddElement
  <2>2. /\ IsFiniteSet(Unreaped') /\ Cardinality(Unreaped') \in Nat
        /\ Cardinality(Unreaped') <= Cardinality(Unreaped \cup {job.att})
    BY <1>2, <2>1, FS_Subset, FS_CardinalityType
  <2>3. Cardinality(Unreaped) < MaxRunning /\ MaxRunning \in Nat
    BY <1>2, BoundAssumption
  <2> HIDE DEF Unreaped
  <2>4. Cardinality(Unreaped') <= MaxRunning
    BY <1>0, <2>1, <2>2, <2>3
  <2> QED
    BY <1>2, <2>2, <2>4
<1> QED
  BY <1>1, <1>2, SlotsMove

\* Every constant: the workloads that exist on the host never exceed --max-running
\* (SlotBound), the paused, the dying, the replaced, the evicted and the late ones included.
THEOREM SlotsBounded == Spec => []SlotBound
<1>1. Init => TrackInv /\ CountInv
  <2> SUFFICES ASSUME Init PROVE TrackInv /\ CountInv
    OBVIOUS
  <2>1. TrackInv
    BY DEF Init, TrackInv
  <2>2. Unreaped = {}
    BY DEF Init, Unreaped
  <2>3. IsFiniteSet(Unreaped) /\ Cardinality(Unreaped) = 0
    BY <2>2, FS_EmptySet
  <2>4. job.pc = "idle" /\ MaxRunning \in Nat \ {0}
    BY BoundAssumption DEF Init, NoJob
  <2> QED
    BY <2>1, <2>3, <2>4 DEF CountInv
<1>2. TypeInv /\ CountInv => SlotBound
  <2> SUFFICES ASSUME CountInv PROVE SlotBound
    OBVIOUS
  <2> DEFINE S == {a \in Attempts : reap[a] \in LiveReap}
  <2>1. S \subseteq Unreaped
    BY DEF Unreaped, LiveReap
  <2>2. Cardinality(S) <= Cardinality(Unreaped) /\ Cardinality(S) \in Nat /\ Cardinality(Unreaped) \in Nat
    BY <2>1, FS_Subset, FS_CardinalityType DEF CountInv
  <2>3. Cardinality(Unreaped) <= MaxRunning /\ MaxRunning \in Nat
    BY BoundAssumption DEF CountInv
  <2> HIDE DEF S
  <2>4. Cardinality(S) <= MaxRunning
    BY <2>2, <2>3
  <2> QED
    BY <2>4 DEF SlotBound, S
<1>3. BaseInv => TypeInv
  BY DEF BaseInv
<1> QED
  BY <1>1, <1>2, <1>3, BaseInit, BaseInductive, TrackInductive, CountInductive, PTL DEF Spec

--------------------------------------------------------------------------------
(* Paused and frozen *)

\* A live task has its workspace, from the moment its start is accepted; only a tree with a
\* workspace is ever frozen, none of an attempt being started.  A live task is Paused exactly when its tree is stopped, but while a pause or a resume is under
\* way the tree is ahead of the task.
Freezing(a) == job.pc # "idle" /\ job.att = a /\ job.verb \in {"pause", "resume"}
FrozenInv ==
  \A a \in Attempts :
    /\ mem[TaskOf[a]].att = a /\ mem[TaskOf[a]].st \in LiveStates => a \in dir
    /\ Starting(a) /\ job.pc \in {"intent", "spawn", "running", "launched"} => a \in dir
    /\ frozen[a] # "no" => a \in dir /\ ~Starting(a)
    /\ mem[TaskOf[a]].att = a /\ mem[TaskOf[a]].st \in LiveStates /\ frozen[a] # "unsure" =>
         /\ Freezing(a) => frozen[a] = (IF job.verb = "pause" THEN "yes" ELSE "no")
         /\ ~Freezing(a) => (mem[TaskOf[a]].st = "Paused" <=> frozen[a] = "yes")

LEMMA FrozenInductive == ASSUME BaseInv, FrozenInv, [Next]_vars PROVE FrozenInv'
<1> USE DEF BaseInv
<1>1. CASE UNCHANGED vars
  BY <1>1 DEF vars, registry, workloads, durable, process, history, FrozenInv, Freezing, Starting,
    HandlerInv, ChangeInv, Changers, LiveStates, Ended, DownInv, Over
<1>2. ASSUME NEW a \in Attempts, CreateNew(a) PROVE FrozenInv'
  BY <1>2, CreateNewFacts, BoundTask DEF Opens, Fresh, Idle, FrozenInv, Freezing, Starting,
    HandlerInv, ChangeInv, Changers, LiveStates, Ended, DownInv, Over
<1>3. ASSUME NEW a \in Attempts, CreateEvict(a) PROVE FrozenInv'
  <2>1. PICK t \in Tasks :
          /\ mem[t].st = "Sealed"
          /\ \/ Blank(mem'[t]) /\ MemOnly(t) /\ Opens("journal", "create", a)
             \/ UNCHANGED <<mem, job>>
    BY <1>3, CreateEvictFacts
  <2>2. UNCHANGED <<frozen, dir>> /\ job.pc = "idle" /\ \A b \in Attempts : TaskOf[b] \in Tasks
    BY <1>3, CreateEvictFacts, BoundTask DEF Idle
  <2> QED
    BY <2>1, <2>2 DEF FrozenInv, Freezing, Starting, MemOnly, Blank, Opens, LiveStates
<1>4. ASSUME NEW a \in Attempts, CreateReplace(a) PROVE FrozenInv'
  BY <1>4, CreateReplaceFacts, BoundTask DEF Opens, Fresh, Idle, FrozenInv, Freezing, Starting,
    HandlerInv, ChangeInv, Changers, LiveStates, Ended, DownInv, Over
<1>5. ASSUME NEW a \in Attempts, Pause(a) PROVE FrozenInv'
  BY <1>5, PauseFacts, BoundTask DEF FrozenOnly, Opens, Alike, Idle, FrozenInv, Freezing, Starting,
    HandlerInv, ChangeInv, Changers, LiveStates, Ended, DownInv, Over
<1>6. ASSUME NEW a \in Attempts, Resume(a) PROVE FrozenInv'
  BY <1>6, ResumeFacts, BoundTask DEF FrozenOnly, Opens, Alike, Idle, FrozenInv, Freezing, Starting,
    HandlerInv, ChangeInv, Changers, LiveStates, Ended, DownInv, Over
<1>7. ASSUME NEW a \in Attempts, Start(a) PROVE FrozenInv'
  BY <1>7, StartFacts, BoundTask DEF Opens, Idle, FrozenInv, Freezing, Starting, HandlerInv,
    ChangeInv, Changers, LiveStates, Ended, DownInv, Over
<1>8. ASSUME NEW a \in Attempts, NEW v \in Versions, Admit(a, v) PROVE FrozenInv'
  BY <1>8, AdmitFacts, BoundTask DEF Opens, Alike, Idle, FrozenInv, Freezing, Starting, HandlerInv,
    ChangeInv, Changers, LiveStates, Ended, DownInv, Over
<1>9. ASSUME NEW a \in Attempts, NEW op \in Ops, StopReady(op, a) PROVE FrozenInv'
  BY <1>9, StopReadyFacts, BoundTask DEF Opens, Ends, Idle, FrozenInv, Freezing, Starting,
    HandlerInv, ChangeInv, Changers, LiveStates, Ended, DownInv, Over
<1>10. ASSUME NEW a \in Attempts, NEW op \in Ops, StopLive(op, a) PROVE FrozenInv'
  BY <1>10, StopLiveFacts, BoundTask DEF MemOnly, FrozenOnly, Alike, Kills, Idle, FrozenInv,
    Freezing, Starting, HandlerInv, ChangeInv, Changers, LiveStates, Ended, DownInv, Over
<1>11. ASSUME NEW a \in Attempts, NEW op \in Ops, StopReplay(op, a) PROVE FrozenInv'
  BY <1>11, StopReplayFacts, BoundTask DEF Idle, FrozenInv, Freezing, Starting, HandlerInv,
    ChangeInv, Changers, LiveStates, Ended, DownInv, Over
<1>12. ASSUME NEW a \in Attempts, NEW op \in Ops, RevokeReady(op, a) PROVE FrozenInv'
  BY <1>12, RevokeReadyFacts, BoundTask DEF Opens, Ends, Idle, FrozenInv, Freezing, Starting,
    HandlerInv, ChangeInv, Changers, LiveStates, Ended, DownInv, Over
<1>13. ASSUME NEW a \in Attempts, NEW op \in Ops, RevokeLive(op, a) PROVE FrozenInv'
  BY <1>13, RevokeLiveFacts, BoundTask DEF MemOnly, FrozenOnly, Alike, Kills, Idle, FrozenInv,
    Freezing, Starting, HandlerInv, ChangeInv, Changers, LiveStates, Ended, DownInv, Over
<1>14. ASSUME NEW a \in Attempts, NEW op \in Ops, Seal(op, a) PROVE FrozenInv'
  BY <1>14, SealFacts, BoundTask DEF Opens, Idle, FrozenInv, Freezing, Starting,
    HandlerInv, ChangeInv, Changers, LiveStates, Ended, DownInv, Over
<1>15. CASE CreateWrite
  BY <1>15, CreateWriteFacts, JobTypes, BoundTask DEF Mirrors, MemOnly, DiskOnly, ShownOnly, Closes,
    Shows, Applies, Writes, Fails, Keeps, FrozenInv, Freezing, Starting, HandlerInv, ChangeInv,
    Changers, LiveStates, Ended, DownInv, Over
<1>16. CASE CommitJournal
  BY <1>16, CommitJournalFacts, JobTypes, BoundTask DEF Mirrors, DiskOnly, Moves, Closes, Refuses,
    Writes, Fails, FrozenInv, Freezing, Starting, HandlerInv, ChangeInv, Changers, LiveStates,
    Ended, DownInv, Over
<1>17. CASE CommitVersion
  BY <1>17, CommitVersionFacts, JobTypes, BoundTask DEF Moves, FrozenInv, Freezing, Starting,
    HandlerInv, ChangeInv, Changers, LiveStates, Ended, DownInv, Over
<1>18. CASE CommitEvidence
  BY <1>18, CommitEvidenceFacts, JobTypes, BoundTask DEF MemOnly, LogOnly, ShownOnly, Moves, Closes,
    Shows, Applies, Says, Logs, Misses, FrozenInv, Freezing, Starting, HandlerInv, ChangeInv,
    Changers, LiveStates, Ended, DownInv, Over
<1>19. CASE Restore
  BY <1>19, RestoreFacts, JobTypes, BoundTask DEF Mirrors, DiskOnly, Moves, Closes, Refuses, Writes,
    Fails, FrozenInv, Freezing, Starting, HandlerInv, ChangeInv, Changers, LiveStates, Ended,
    DownInv, Over
<1>20. CASE Undo
  BY <1>20, UndoFacts, JobTypes, BoundTask DEF FrozenOnly, Closes, FrozenInv, Freezing, Starting,
    HandlerInv, ChangeInv, Changers, LiveStates, Ended, DownInv, Over
<1>21. CASE SealOpen
  BY <1>21, SealOpenFacts, JobTypes, BoundTask DEF MemOnly, LogOnly, ShownOnly, Moves, Closes,
    Shows, Applies, Says, Logs, Misses, FrozenInv, Freezing, Starting, HandlerInv, ChangeInv,
    Changers, LiveStates, Ended, DownInv, Over
<1>22. CASE SealMark
  BY <1>22, SealMarkFacts, JobTypes, BoundTask DEF LogOnly, Moves, Says, Logs, Misses, FrozenInv,
    Freezing, Starting, HandlerInv, ChangeInv, Changers, LiveStates, Ended, DownInv, Over
<1>23. CASE SealHeadNew
  BY <1>23, SealHeadNewFacts, JobTypes, BoundTask DEF LogOnly, Moves, Says, Heads, FrozenInv,
    Freezing, Starting, HandlerInv, ChangeInv, Changers, LiveStates, Ended, DownInv, Over
<1>24. CASE SealHeadText
  BY <1>24, SealHeadTextFacts, JobTypes, BoundTask DEF MemOnly, LogOnly, ShownOnly, Moves, Closes,
    Shows, Applies, Says, Heads, FrozenInv, Freezing, Starting, HandlerInv, ChangeInv, Changers,
    LiveStates, Ended, DownInv, Over
<1>25. CASE LaunchIntent
  BY <1>25, LaunchIntentFacts, JobTypes, BoundTask DEF DiskOnly, ReapOnly, Moves, Closes, Intends,
    FrozenInv, Freezing, Starting, HandlerInv, ChangeInv, Changers, LiveStates, Ended, DownInv, Over
<1>26. CASE SpawnReport
  BY <1>26, SpawnReportFacts, JobTypes, BoundTask DEF Mirrors, DiskOnly, ReapOnly, Opens, Closes,
    Writes, Fails, Ends, SpawnFails, Spawns, FrozenInv, Freezing, Starting, HandlerInv, ChangeInv,
    Changers, LiveStates, Ended, DownInv, Over
<1>27. CASE RecordRunning
  BY <1>27, RecordRunningFacts, JobTypes, BoundTask DEF Mirrors, DiskOnly, Opens, Moves, Writes,
    Fails, Ends, SpawnFails, FrozenInv, Freezing, Starting, HandlerInv, ChangeInv, Changers,
    LiveStates, Ended, DownInv, Over
<1>28. CASE RecordLaunched
  BY <1>28, RecordLaunchedFacts, JobTypes, BoundTask DEF MemOnly, LogOnly, ShownOnly, Opens, Closes,
    Shows, Applies, Says, Logs, Misses, Ends, SpawnFails, FrozenInv, Freezing, Starting, HandlerInv,
    ChangeInv, Changers, LiveStates, Ended, DownInv, Over
<1>29. CASE RecordEnd
  BY <1>29, RecordEndFacts, JobTypes, BoundTask DEF Mirrors, DiskOnly, Moves, Writes, Fails,
    FrozenInv, Freezing, Starting, HandlerInv, ChangeInv, Changers, LiveStates, Ended, DownInv, Over
<1>30. CASE RecordEnded
  BY <1>30, RecordEndedFacts, JobTypes, BoundTask DEF MemOnly, LogOnly, ReapOnly, ShownOnly, Closes,
    Shows, Applies, Says, Logs, Misses, FrozenInv, Freezing, Starting, HandlerInv, ChangeInv,
    Changers, LiveStates, Ended, DownInv, Over
<1>31. ASSUME NEW w \in waits, FinishStop(w) PROVE FrozenInv'
  BY <1>31, FinishStopFacts, BoundTask DEF Idle, FrozenInv, Freezing, Starting, HandlerInv,
    ChangeInv, Changers, LiveStates, Ended, DownInv, Over
<1>32. ASSUME NEW w \in waits, FinishRevoke(w) PROVE FrozenInv'
  BY <1>32, FinishRevokeFacts, BoundTask DEF Opens, Ends, Idle, FrozenInv, Freezing, Starting,
    HandlerInv, ChangeInv, Changers, LiveStates, Ended, DownInv, Over
<1>33. CASE Crash
  BY <1>33, CrashFacts, BoundTask DEF Closes, Partly, Says, Blank, FrozenInv, Freezing, Starting,
    HandlerInv, ChangeInv, Changers, LiveStates, Ended, DownInv, Over
<1>34. CASE Restart
  BY <1>34, RestartFacts, BoundTask DEF FrozenInv, Freezing, Starting, HandlerInv, ChangeInv,
    Changers, LiveStates, Ended, DownInv, Over
<1>35. ASSUME NEW t \in todo, RecoverRecord(t) PROVE FrozenInv'
  BY <1>35, RecoverRecordFacts, BoundTask DEF DiskOnly, Opens, Blank, Recovers, FrozenInv, Freezing,
    Starting, HandlerInv, ChangeInv, Changers, LiveStates, Ended, DownInv, Over
<1>36. CASE RecoverLog
  <2>1. /\ up = "recovering" /\ job.pc = "recoverLog" /\ job'.pc = "idle" /\ UNCHANGED <<frozen, dir>>
        /\ job.verb = "recover" /\ job.new.st \notin LiveStates
    BY <1>36, RecoverLogFacts DEF Closes, HandlerInv, ChangeInv, LiveStates, Over, Ended
  <2>2. \A a \in Attempts : frozen[a] = "no"
    BY <2>1 DEF DownInv
  <2>3. ASSUME NEW t \in Tasks PROVE mem'[t] = mem[t] \/ mem'[t].st \notin LiveStates
    BY <1>36, <2>1, RecoverLogFacts DEF MemOnly, Blank, LiveStates
  <2> QED
    BY <2>1, <2>2, <2>3, BoundTask DEF FrozenInv, Freezing, Starting
<1>37. CASE Serve
  BY <1>37, ServeFacts, BoundTask DEF FrozenInv, Freezing, Starting, HandlerInv, ChangeInv,
    Changers, LiveStates, Ended, DownInv, Over
<1>38. ASSUME NEW a \in Attempts, Launch(a) PROVE FrozenInv'
  BY <1>38, LaunchFacts, JobTypes, BoundTask DEF ReapOnly, FrozenInv, Freezing, Starting,
    HandlerInv, ChangeInv, Changers, LiveStates, Ended, DownInv, Over
<1>39. ASSUME NEW a \in Attempts, LateLaunch(a) PROVE FrozenInv'
  BY <1>39, LateLaunchFacts, JobTypes, BoundTask DEF ReapOnly, FrozenInv, Freezing, Starting,
    HandlerInv, ChangeInv, Changers, LiveStates, Ended, DownInv, Over
<1>40. ASSUME NEW a \in Attempts, DropLate(a) PROVE FrozenInv'
  BY <1>40, DropLateFacts, JobTypes, BoundTask DEF ReapOnly, FrozenInv, Freezing, Starting,
    HandlerInv, ChangeInv, Changers, LiveStates, Ended, DownInv, Over
<1>41. ASSUME NEW a \in Attempts, RecordExit(a) PROVE FrozenInv'
  BY <1>41, RecordExitFacts, JobTypes, BoundTask DEF ReapOnly, Opens, Idle, FrozenInv, Freezing,
    Starting, HandlerInv, ChangeInv, Changers, LiveStates, Ended, DownInv, Over
<1>42. ASSUME NEW a \in Attempts, NEW e \in Exits, WorkloadEnds(a, e) PROVE FrozenInv'
  BY <1>42, WorkloadEndsFacts, JobTypes, BoundTask DEF ReapOnly, FrozenInv, Freezing, Starting,
    HandlerInv, ChangeInv, Changers, LiveStates, Ended, DownInv, Over
<1>43. CASE NoThread
  BY <1>43, NoThreadFacts, JobTypes, BoundTask DEF ReapOnly, FrozenInv, Freezing, Starting,
    HandlerInv, ChangeInv, Changers, LiveStates, Ended, DownInv, Over
<1>44. ASSUME NEW a \in Attempts, SandboxSetUp(a) PROVE FrozenInv'
  BY <1>44, SandboxSetUpFacts, JobTypes, BoundTask DEF FrozenInv, Freezing, Starting, HandlerInv,
    ChangeInv, Changers, LiveStates, Ended, DownInv, Over
<1> QED
  BY <1>1, <1>2, <1>3, <1>4, <1>5, <1>6, <1>7, <1>8, <1>9, <1>10, <1>11, <1>12, <1>13, <1>14, <1>15,
    <1>16, <1>17, <1>18, <1>19, <1>20, <1>21, <1>22, <1>23, <1>24, <1>25, <1>26, <1>27, <1>28,
    <1>29, <1>30, <1>31, <1>32, <1>33, <1>34, <1>35, <1>36, <1>37, <1>38, <1>39, <1>40, <1>41, <1>42,
    <1>43, <1>44
  DEF Next, Request, JobStep, Answer, Reaper, Recovery

\* A served task is Paused exactly when its process tree is stopped (PausedIffFrozen),
\* whichever write of its pause or resume failed, unless a thaw could not be confirmed.
THEOREM PausedMeansFrozen == Spec => []PausedIffFrozen
<1>1. Init => FrozenInv
  <2> SUFFICES ASSUME Init PROVE FrozenInv
    OBVIOUS
  <2>1. \A a \in Attempts : mem[TaskOf[a]].st = "absent" /\ frozen[a] = "no"
    BY NoTaskType, BoundTask DEF Init
  <2>2. job.pc = "idle"
    BY DEF Init, NoJob
  <2> QED
    BY <2>1, <2>2 DEF FrozenInv, LiveStates, Starting
<1>2. FrozenInv => PausedIffFrozen
  BY DEF FrozenInv, PausedIffFrozen, Freezing, Idle, Holds, IsLive
<1> QED
  BY <1>1, <1>2, BaseInit, BaseInductive, FrozenInductive, PTL DEF Spec

--------------------------------------------------------------------------------
(* A sealed task's log *)

\* The log of an attempt against its task and its record.  A marked log reads Sealed, a log
\* with a HEAD file is marked; nothing that may still run is marked, and what has ended
\* carries the outcome of the mark.  A seal at work has its record on disk.
SealedInv ==
  \A a \in Attempts : LET r == mem[TaskOf[a]] l == log[a] d == disk[TaskOf[a]] IN
    /\ l.by # None => l.held = "Sealed"
    /\ l.head # "none" => l.by # None
    /\ r.att = a /\ r.st \in {"Ready"} \cup LiveStates => l.by = None
    /\ r.att = a /\ r.st \in Ended /\ l.by # None => l.out = r.out
    /\ r.att = a /\ r.st = "Sealed" => l.head = "ok" /\ l.by = r.sealedBy /\ l.out = r.out
    /\ d.att = a /\ d.st \in {"Launching"} \cup LiveStates => l.by = None
    /\ d.att = a /\ d.st \in Over /\ l.by # None => l.out = d.out
    /\ job.att = a /\ job.pc \in {"seal", "mark", "headNew", "headText"} => Mirrors(d, job.new)
    /\ job.att = a /\ job.pc = "mark" => l.out = r.out
    /\ job.att = a /\ job.pc \in {"headNew", "headText"} => l.by = job.new.sealedBy /\ l.out = r.out
    /\ job.att = a /\ job.pc = "recoverLog" => Mirrors(d, job.new)

\* A recovery cut short.
LEMMA PartlySealed ==
  ASSUME BaseInv, SealedInv, job.pc = "recoverLog", Partly(job.att, job.new), UNCHANGED disk,
         \A t \in Tasks : Blank(mem'[t]), Closes
  PROVE  SealedInv'
<1> DEFINE d == disk[TaskOf[job.att]]
<1>1. job.att \in Attempts /\ Mirrors(d, job.new)
  BY JobTypes DEF BaseInv, SealedInv
<1>2. /\ job.new.st \in {"Created"} \cup Over
      /\ job.new.st = "Sealed" => job.new.sealedBy # None
  BY BindingAssumption DEF BaseInv, HandlerInv, ChangeInv, ShapeInv, TaskShape
<1>3. ASSUME NEW a \in Attempts
      PROVE  LET l == log'[a] e == disk[TaskOf[a]] IN
             /\ l.by # None => l.held = "Sealed"
             /\ l.head # "none" => l.by # None
             /\ e.att = a /\ e.st \in {"Launching"} \cup LiveStates => l.by = None
             /\ e.att = a /\ e.st \in Over /\ l.by # None => l.out = e.out
  <2>1. CASE a # job.att
    BY <2>1 DEF Partly, LogOnly, SealedInv
  <2>2. CASE a = job.att
    <3>1. /\ log'[a].by # None => log'[a].held = "Sealed"
          /\ log'[a].head # "none" => log'[a].by # None
      BY <1>2, <2>2 DEF Partly, Says, SealedInv
    <3>2. d.st \in {"Created"} \cup Over /\ d.out = job.new.out
      BY <1>1, <1>2 DEF Mirrors
    <3>3. d.st \notin {"Launching"} \cup LiveStates
      BY <3>2 DEF Over, Ended, LiveStates
    <3>4. d.att = a /\ d.st \in Over /\ log'[a].by # None => log'[a].out = d.out
      BY <2>2, <3>2 DEF Partly, Says, SealedInv
    <3> QED
      BY <2>2, <3>1, <3>3, <3>4
  <2> QED
    BY <2>1, <2>2
<1>4. \A a \in Attempts : mem'[TaskOf[a]].att # a /\ job'.pc = "idle"
  BY BoundTask, BindingAssumption DEF Blank, Closes
<1> QED
  BY <1>3, <1>4 DEF SealedInv

LEMMA SealedInductive == ASSUME BaseInv, SealedInv, [Next]_vars PROVE SealedInv'
<1> USE DEF BaseInv
<1>1. CASE UNCHANGED vars
  BY <1>1 DEF vars, registry, workloads, durable, process, history, SealedInv, HandlerInv,
    ChangeInv, Changers, LiveStates, Ended, Over, ShapeInv, TaskShape, RecordShape
<1>2. ASSUME NEW a \in Attempts, CreateNew(a) PROVE SealedInv'
  BY <1>2, CreateNewFacts, BoundTask, BindingAssumption DEF Opens, Fresh, Idle, SealedInv,
    HandlerInv, ChangeInv, Changers, LiveStates, Ended, Over, ShapeInv, TaskShape, RecordShape,
    Mirrors
<1>3. ASSUME NEW a \in Attempts, CreateEvict(a) PROVE SealedInv'
  BY <1>3, CreateEvictFacts, BoundTask, BindingAssumption DEF MemOnly, DiskOnly, Opens, Fresh,
    Blank, Keeps, Idle, SealedInv, HandlerInv, ChangeInv, Changers, LiveStates, Ended, Over,
    ShapeInv, TaskShape, RecordShape, Mirrors
<1>4. ASSUME NEW a \in Attempts, CreateReplace(a) PROVE SealedInv'
  BY <1>4, CreateReplaceFacts, BoundTask, BindingAssumption DEF Opens, Fresh, Idle, SealedInv,
    HandlerInv, ChangeInv, Changers, LiveStates, Ended, Over, ShapeInv, TaskShape, RecordShape,
    Mirrors
<1>5. ASSUME NEW a \in Attempts, Pause(a) PROVE SealedInv'
  BY <1>5, PauseFacts, BoundTask, BindingAssumption DEF FrozenOnly, Opens, Alike, Idle, SealedInv,
    HandlerInv, ChangeInv, Changers, LiveStates, Ended, Over, ShapeInv, TaskShape, RecordShape,
    Mirrors
<1>6. ASSUME NEW a \in Attempts, Resume(a) PROVE SealedInv'
  BY <1>6, ResumeFacts, BoundTask, BindingAssumption DEF FrozenOnly, Opens, Alike, Idle, SealedInv,
    HandlerInv, ChangeInv, Changers, LiveStates, Ended, Over, ShapeInv, TaskShape, RecordShape,
    Mirrors
<1>7. ASSUME NEW a \in Attempts, Start(a) PROVE SealedInv'
  BY <1>7, StartFacts, BoundTask, BindingAssumption DEF Opens, Idle, SealedInv, HandlerInv,
    ChangeInv, Changers, LiveStates, Ended, Over, ShapeInv, TaskShape, RecordShape, Mirrors
<1>8. ASSUME NEW a \in Attempts, NEW v \in Versions, Admit(a, v) PROVE SealedInv'
  BY <1>8, AdmitFacts, BoundTask, BindingAssumption DEF Opens, Alike, Idle, SealedInv, HandlerInv,
    ChangeInv, Changers, LiveStates, Ended, Over, ShapeInv, TaskShape, RecordShape, Mirrors
<1>9. ASSUME NEW a \in Attempts, NEW op \in Ops, StopReady(op, a) PROVE SealedInv'
  BY <1>9, StopReadyFacts, BoundTask, BindingAssumption DEF Opens, Ends, Idle, SealedInv,
    HandlerInv, ChangeInv, Changers, LiveStates, Ended, Over, ShapeInv, TaskShape, RecordShape,
    Mirrors
<1>10. ASSUME NEW a \in Attempts, NEW op \in Ops, StopLive(op, a) PROVE SealedInv'
  BY <1>10, StopLiveFacts, BoundTask, BindingAssumption DEF MemOnly, FrozenOnly, Alike, Kills, Idle,
    SealedInv, HandlerInv, ChangeInv, Changers, LiveStates, Ended, Over, ShapeInv, TaskShape,
    RecordShape, Mirrors
<1>11. ASSUME NEW a \in Attempts, NEW op \in Ops, StopReplay(op, a) PROVE SealedInv'
  BY <1>11, StopReplayFacts, BoundTask, BindingAssumption DEF Idle, SealedInv, HandlerInv,
    ChangeInv, Changers, LiveStates, Ended, Over, ShapeInv, TaskShape, RecordShape, Mirrors
<1>12. ASSUME NEW a \in Attempts, NEW op \in Ops, RevokeReady(op, a) PROVE SealedInv'
  BY <1>12, RevokeReadyFacts, BoundTask, BindingAssumption DEF Opens, Ends, Idle, SealedInv,
    HandlerInv, ChangeInv, Changers, LiveStates, Ended, Over, ShapeInv, TaskShape, RecordShape,
    Mirrors
<1>13. ASSUME NEW a \in Attempts, NEW op \in Ops, RevokeLive(op, a) PROVE SealedInv'
  BY <1>13, RevokeLiveFacts, BoundTask, BindingAssumption DEF MemOnly, FrozenOnly, Alike, Kills,
    Idle, SealedInv, HandlerInv, ChangeInv, Changers, LiveStates, Ended, Over, ShapeInv, TaskShape,
    RecordShape, Mirrors
<1>14. ASSUME NEW a \in Attempts, NEW op \in Ops, Seal(op, a) PROVE SealedInv'
  BY <1>14, SealFacts, BoundTask, BindingAssumption DEF Opens, Idle, SealedInv,
    HandlerInv, ChangeInv, Changers, LiveStates, Ended, Over, ShapeInv, TaskShape, RecordShape,
    Mirrors
<1>15. CASE CreateWrite
  <2>1. /\ up = "up" /\ job.pc = "journal" /\ job.verb = "create" /\ UNCHANGED <<log, up>>
        /\ job.att \in Attempts /\ TaskOf[job.att] \in Tasks /\ job.new.att = job.att
    BY <1>15, CreateWriteFacts, JobTypes
  <2>2. CASE Writes(TaskOf[job.att], job.new) /\ Applies
    BY <2>1, <2>2, BindingAssumption DEF Mirrors, MemOnly, DiskOnly, Closes, Applies, Writes,
      SealedInv, ChangeInv, LiveStates, Ended, Over
  <2>3. CASE Fails(TaskOf[job.att], job.new) /\ Closes /\ UNCHANGED mem
    BY <2>1, <2>3, BindingAssumption DEF Mirrors, DiskOnly, Closes, Fails, SealedInv, ChangeInv,
      LiveStates, Ended, Over
  <2> QED
    BY <1>15, <2>2, <2>3, CreateWriteFacts
<1>16. CASE CommitJournal
  <2>1. /\ up = "up" /\ job.pc = "journal" /\ job.verb # "create" /\ UNCHANGED <<mem, log, up>>
        /\ job.att \in Attempts /\ TaskOf[job.att] \in Tasks /\ job.new.att = job.att
    BY <1>16, CommitJournalFacts, JobTypes
  <2>2. CASE /\ Writes(TaskOf[job.att], job.new)
             /\ job.verb = "admit" => Moves("version")
             /\ job.verb = "seal" => Moves("seal")
             /\ job.verb \notin {"admit", "seal"} => Moves("evidence")
    BY <2>1, <2>2, BindingAssumption DEF Mirrors, DiskOnly, Moves, Writes, SealedInv, HandlerInv,
      ChangeInv, Changers, LiveStates, Ended, Over
  <2>3. CASE Fails(TaskOf[job.att], job.new) /\ Refuses
    BY <2>1, <2>3, BindingAssumption DEF Mirrors, DiskOnly, Moves, Closes, Refuses, Fails,
      SealedInv, HandlerInv, ChangeInv, Changers, LiveStates, Ended, Over
  <2> QED
    BY <1>16, <2>2, <2>3, CommitJournalFacts
<1>17. CASE CommitVersion
  BY <1>17, CommitVersionFacts, JobTypes, BoundTask, BindingAssumption DEF Moves,
    SealedInv, HandlerInv, ChangeInv, Changers, LiveStates, Ended, Over, ShapeInv, TaskShape,
    RecordShape, Mirrors
<1>18. CASE CommitEvidence
  BY <1>18, CommitEvidenceFacts, JobTypes, BoundTask, BindingAssumption DEF MemOnly,
    LogOnly, ShownOnly, Moves, Closes, Shows, Applies, Says, Logs, Misses, SealedInv, HandlerInv,
    ChangeInv, Changers, LiveStates, Ended, Over, ShapeInv, TaskShape, RecordShape, Mirrors
<1>19. CASE Restore
  BY <1>19, RestoreFacts, JobTypes, BoundTask, BindingAssumption DEF Mirrors, DiskOnly, Moves,
    Closes, Refuses, Writes, Fails, SealedInv, HandlerInv, ChangeInv, Changers, LiveStates, Ended,
    Over, ShapeInv, TaskShape, RecordShape
<1>20. CASE Undo
  BY <1>20, UndoFacts, JobTypes, BoundTask, BindingAssumption DEF FrozenOnly, Closes,
    SealedInv, HandlerInv, ChangeInv, Changers, LiveStates, Ended, Over, ShapeInv, TaskShape,
    RecordShape, Mirrors
<1>21. CASE SealOpen
  BY <1>21, SealOpenFacts, JobTypes, BoundTask, BindingAssumption DEF MemOnly, LogOnly, Moves,
    Closes, Applies, Says, Logs, Misses, SealedInv, HandlerInv, ChangeInv, LiveStates
<1>22. CASE SealMark
  BY <1>22, SealMarkFacts, JobTypes, BoundTask, BindingAssumption DEF LogOnly, Moves, Says, Logs,
    Misses, SealedInv, HandlerInv, ChangeInv, Changers, LiveStates, Ended, Over, ShapeInv,
    TaskShape, RecordShape, Mirrors
<1>23. CASE SealHeadNew
  BY <1>23, SealHeadNewFacts, JobTypes, BoundTask, BindingAssumption DEF LogOnly, Moves,
    Says, Heads, SealedInv, HandlerInv, ChangeInv, Changers, LiveStates, Ended, Over, ShapeInv,
    TaskShape, RecordShape, Mirrors
<1>24. CASE SealHeadText
  BY <1>24, SealHeadTextFacts, JobTypes, BoundTask, BindingAssumption DEF MemOnly,
    LogOnly, ShownOnly, Moves, Closes, Shows, Applies, Says, Heads, SealedInv, HandlerInv,
    ChangeInv, Changers, LiveStates, Ended, Over, ShapeInv, TaskShape, RecordShape, Mirrors
<1>25. CASE LaunchIntent
  BY <1>25, LaunchIntentFacts, JobTypes, BoundTask, BindingAssumption DEF DiskOnly,
    ReapOnly, Moves, Closes, Intends, SealedInv, HandlerInv, ChangeInv, Changers, LiveStates, Ended,
    Over, ShapeInv, TaskShape, RecordShape, Mirrors
<1>26. CASE SpawnReport
  <2>1. /\ up = "up" /\ job.pc = "spawn" /\ UNCHANGED <<mem, log, up>>
        /\ job.att \in Attempts /\ TaskOf[job.att] \in Tasks /\ job.new.att = job.att
    BY <1>26, SpawnReportFacts, JobTypes
  <2>2. CASE Spawns /\ UNCHANGED disk
    BY <2>1, <2>2 DEF Opens, Spawns, SealedInv
  <2>3. CASE Writes(TaskOf[job.att], job.new) /\ Closes
    BY <2>1, <2>3, BindingAssumption DEF Mirrors, DiskOnly, Closes, Writes, SealedInv, HandlerInv,
      ChangeInv
  <2>4. CASE Fails(TaskOf[job.att], job.new) /\ SpawnFails("record")
    BY <2>1, <2>4, BindingAssumption DEF Mirrors, DiskOnly, Opens, Fails, SpawnFails, SealedInv,
      HandlerInv, ChangeInv
  <2>5. CASE SpawnFails("record") /\ UNCHANGED disk
    BY <2>1, <2>5 DEF Opens, SpawnFails, SealedInv
  <2> QED
    BY <1>26, <2>2, <2>3, <2>4, <2>5, SpawnReportFacts
<1>27. CASE RecordRunning
  BY <1>27, RecordRunningFacts, JobTypes, BoundTask, BindingAssumption DEF Mirrors,
    DiskOnly, Opens, Moves, Writes, Fails, Ends, SpawnFails, SealedInv, HandlerInv, ChangeInv,
    Changers, LiveStates, Ended, Over, ShapeInv, TaskShape, RecordShape
<1>28. CASE RecordLaunched
  BY <1>28, RecordLaunchedFacts, JobTypes, BoundTask, BindingAssumption DEF MemOnly,
    LogOnly, ShownOnly, Opens, Closes, Shows, Applies, Says, Logs, Misses, Ends, SpawnFails,
    SealedInv, HandlerInv, ChangeInv, Changers, LiveStates, Ended, Over, ShapeInv, TaskShape,
    RecordShape, Mirrors
<1>29. CASE RecordEnd
  BY <1>29, RecordEndFacts, JobTypes, BoundTask, BindingAssumption DEF Mirrors, DiskOnly,
    Moves, Writes, Fails, SealedInv, HandlerInv, ChangeInv, Changers, LiveStates, Ended, Over,
    ShapeInv, TaskShape, RecordShape
<1>30. CASE RecordEnded
  BY <1>30, RecordEndedFacts, JobTypes, BoundTask, BindingAssumption DEF MemOnly, LogOnly, ReapOnly,
    ShownOnly, Closes, Shows, Applies, Says, Logs, Misses, SealedInv, HandlerInv, ChangeInv,
    Changers, LiveStates, Ended, Over, ShapeInv, TaskShape, RecordShape, Mirrors
<1>31. ASSUME NEW w \in waits, FinishStop(w) PROVE SealedInv'
  BY <1>31, FinishStopFacts, BoundTask, BindingAssumption DEF Idle, SealedInv, HandlerInv,
    ChangeInv, Changers, LiveStates, Ended, Over, ShapeInv, TaskShape, RecordShape, Mirrors
<1>32. ASSUME NEW w \in waits, FinishRevoke(w) PROVE SealedInv'
  BY <1>32, FinishRevokeFacts, BoundTask, BindingAssumption DEF Opens, Ends, Idle, SealedInv,
    HandlerInv, ChangeInv, Changers, LiveStates, Ended, Over, ShapeInv, TaskShape, RecordShape,
    Mirrors
<1>33. CASE Crash
  <2>1. CASE job.pc = "recoverLog" /\ Partly(job.att, job.new)
    BY <1>33, <2>1, CrashFacts, PartlySealed
  <2>2. CASE \A a \in Attempts :
               Says(log'[a], log[a].held, log[a].out, log[a].by) /\ log'[a].head = log[a].head
    BY <1>33, <2>2, CrashFacts, BoundTask, BindingAssumption DEF Closes, Says, Blank, SealedInv
  <2> QED
    BY <1>33, <2>1, <2>2, CrashFacts
<1>34. CASE Restart
  BY <1>34, RestartFacts, BoundTask, BindingAssumption DEF SealedInv, HandlerInv, ChangeInv,
    Changers, LiveStates, Ended, Over, ShapeInv, TaskShape, RecordShape, Mirrors
<1>35. ASSUME NEW t \in todo, RecoverRecord(t) PROVE SealedInv'
  <2>1. TaskOf[disk[t].att] = t /\ disk[t].att \in Attempts /\ t \in Tasks
    BY <1>35, RecoverRecordFacts DEF ReplaceInv, Placed
  <2>2. Recovers(disk'[t], disk[t]) \/ disk'[t] = disk[t]
    BY <1>35, RecoverRecordFacts
  <2>3. DiskOnly(t) /\ UNCHANGED log /\ job.pc = "idle"
    BY <1>35, RecoverRecordFacts
  <2>4. \/ UNCHANGED mem
        \/ \A u \in Tasks : Blank(mem'[u])
    BY <1>35, RecoverRecordFacts
  <2>5. \/ job'.pc = "recoverLog" /\ job'.att = disk[t].att /\ job'.new = disk'[t]
        \/ UNCHANGED job
    BY <1>35, RecoverRecordFacts DEF Opens
  <2>6. \A a \in Attempts : disk'[TaskOf[a]] = disk[TaskOf[a]] \/ Recovers(disk'[TaskOf[a]], disk[TaskOf[a]])
    BY <2>2, <2>3, BoundTask DEF DiskOnly
  <2>7. \A a \in Attempts : mem'[TaskOf[a]] = mem[TaskOf[a]] \/ mem'[TaskOf[a]].att = None
    BY <2>4, BoundTask DEF Blank
  <2>8. ASSUME NEW a \in Attempts
        PROVE  LET d == disk'[TaskOf[a]] IN
               /\ d.att = a /\ d.st \in {"Launching"} \cup LiveStates => log[a].by = None
               /\ d.att = a /\ d.st \in Over /\ log[a].by # None => log[a].out = d.out
    BY <2>6 DEF SealedInv, Recovers, LiveStates, Over, Ended
  <2> QED
    BY <2>1, <2>3, <2>5, <2>7, <2>8, BindingAssumption DEF SealedInv, Mirrors
<1>36. CASE RecoverLog
  <2>1. CASE /\ up' = "down" /\ Partly(job.att, job.new) /\ \A u \in Tasks : Blank(mem'[u])
    BY <1>36, <2>1, RecoverLogFacts, PartlySealed
  <2>2. CASE up' # "down"
    BY <1>36, <2>2, RecoverLogFacts, JobTypes, BoundTask, BindingAssumption DEF MemOnly, LogOnly, ShownOnly,
      Closes, Shows, Says, Mends, SealedInv, HandlerInv, ChangeInv, Changers, LiveStates, Ended, Over,
      ShapeInv, TaskShape, RecordShape, Mirrors
  <2> QED
    BY <1>36, <2>1, <2>2, RecoverLogFacts
<1>37. CASE Serve
  BY <1>37, ServeFacts, BoundTask, BindingAssumption DEF SealedInv, HandlerInv, ChangeInv, Changers,
    LiveStates, Ended, Over, ShapeInv, TaskShape, RecordShape, Mirrors
<1>38. ASSUME NEW a \in Attempts, Launch(a) PROVE SealedInv'
  BY <1>38, LaunchFacts, JobTypes, BoundTask, BindingAssumption DEF ReapOnly, SealedInv, HandlerInv,
    ChangeInv, Changers, LiveStates, Ended, Over, ShapeInv, TaskShape, RecordShape, Mirrors
<1>39. ASSUME NEW a \in Attempts, LateLaunch(a) PROVE SealedInv'
  BY <1>39, LateLaunchFacts, JobTypes, BoundTask, BindingAssumption DEF ReapOnly, SealedInv,
    HandlerInv, ChangeInv, Changers, LiveStates, Ended, Over, ShapeInv, TaskShape, RecordShape,
    Mirrors
<1>40. ASSUME NEW a \in Attempts, DropLate(a) PROVE SealedInv'
  BY <1>40, DropLateFacts, JobTypes, BoundTask, BindingAssumption DEF ReapOnly, SealedInv,
    HandlerInv, ChangeInv, Changers, LiveStates, Ended, Over, ShapeInv, TaskShape, RecordShape,
    Mirrors
<1>41. ASSUME NEW a \in Attempts, RecordExit(a) PROVE SealedInv'
  BY <1>41, RecordExitFacts, JobTypes, BoundTask, BindingAssumption DEF ReapOnly, Opens, Idle,
    SealedInv, HandlerInv, ChangeInv, Changers, LiveStates, Ended, Over, ShapeInv, TaskShape,
    RecordShape, Mirrors
<1>42. ASSUME NEW a \in Attempts, NEW e \in Exits, WorkloadEnds(a, e) PROVE SealedInv'
  BY <1>42, WorkloadEndsFacts, JobTypes, BoundTask, BindingAssumption DEF ReapOnly, SealedInv,
    HandlerInv, ChangeInv, Changers, LiveStates, Ended, Over, ShapeInv, TaskShape, RecordShape,
    Mirrors
<1>43. CASE NoThread
  BY <1>43, NoThreadFacts, JobTypes, BoundTask, BindingAssumption DEF ReapOnly, SealedInv,
    HandlerInv, ChangeInv, Changers, LiveStates, Ended, Over, ShapeInv, TaskShape, RecordShape,
    Mirrors
<1>44. ASSUME NEW a \in Attempts, SandboxSetUp(a) PROVE SealedInv'
  BY <1>44, SandboxSetUpFacts, JobTypes, BoundTask, BindingAssumption DEF SealedInv, HandlerInv,
    ChangeInv, Changers, LiveStates, Ended, Over, ShapeInv, TaskShape, RecordShape, Mirrors
<1> QED
  BY <1>1, <1>2, <1>3, <1>4, <1>5, <1>6, <1>7, <1>8, <1>9, <1>10, <1>11, <1>12, <1>13, <1>14, <1>15,
    <1>16, <1>17, <1>18, <1>19, <1>20, <1>21, <1>22, <1>23, <1>24, <1>25, <1>26, <1>27, <1>28,
    <1>29, <1>30, <1>31, <1>32, <1>33, <1>34, <1>35, <1>36, <1>37, <1>38, <1>39, <1>40, <1>41, <1>42,
    <1>43, <1>44
  DEF Next, Request, JobStep, Answer, Reaper, Recovery

\* A sealed task's evidence log is sealed by the same operation and with the outcome of its
\* receipt (SealedLogMatches), whatever failed, died or was recovered before.
THEOREM SealsMatchReceipts == Spec => []SealedLogMatches
<1>1. Init => SealedInv
  <2> SUFFICES ASSUME Init PROVE SealedInv
    OBVIOUS
  <2>1. \A a \in Attempts : mem[TaskOf[a]].att = None /\ disk[TaskOf[a]].att = None
    BY NoTaskType, BoundTask DEF Init
  <2>2. job.pc = "idle" /\ \A a \in Attempts : log[a].by = None /\ log[a].head = "none"
    BY DEF Init, NoJob, NoLog
  <2> QED
    BY <2>1, <2>2, BindingAssumption DEF SealedInv
<1>2. BaseInv /\ SealedInv => SealedLogMatches
  <2> SUFFICES ASSUME BaseInv, SealedInv, NEW a \in Attempts, mem[TaskOf[a]].att = a, mem[TaskOf[a]].st = "Sealed"
               PROVE  LET r == mem[TaskOf[a]] l == log[a] IN
                      l.head = "ok" /\ l.held = "Sealed" /\ l.out = r.out /\ l.by = r.sealedBy
    BY DEF SealedLogMatches, Holds
  <2>1. log[a].head = "ok" /\ log[a].by = mem[TaskOf[a]].sealedBy /\ log[a].out = mem[TaskOf[a]].out
    BY DEF SealedInv
  <2> QED
    BY <2>1 DEF SealedInv
<1> QED
  BY <1>1, <1>2, BaseInit, BaseInductive, SealedInductive, PTL DEF Spec

--------------------------------------------------------------------------------
(* What is on disk of a task *)

\* The record of a task whose workload may exist: a restart reads it as ended, unknown.
Runs(d) == d.st \in {"Launching"} \cup LiveStates \/ (d.st = "Revoked" /\ d.out = "unknown")

\* A live task's record says so, or already carries its end; a start past its intent has
\* its record; a commit that appends has written its record.  A starting node has read
\* every record that is not still to be read, as it stands.
JournalInv ==
  /\ \A a \in Attempts : LET r == mem[TaskOf[a]] d == disk[TaskOf[a]] IN
       /\ r.att = a /\ r.st \in LiveStates =>
            /\ d.att = a
            /\ Runs(d) \/ (job.verb = "exit" /\ job.pc = "ended" /\ job.att = a /\ Mirrors(d, job.new))
            /\ d.st = "Revoked" /\ faults = 0 =>
                 job.pc # "idle" /\ job.verb \in {"unconfirmed", "exit"} /\ job.att = a
       /\ Starting(a) /\ job.pc \in {"spawn", "running", "launched"} =>
            d.att = a /\ d.st \in {"Launching", "Running"}
       /\ Starting(a) /\ job.pc \in {"record", "ended"} /\ faults = 0 =>
            /\ d.att = a
            /\ d.st \in {"Launching", "Running"} \/ (d.st = "Exited" /\ d.out = "unknown")
  /\ job.pc \in {"version", "evidence"} => Mirrors(disk[TaskOf[job.att]], job.new)
  /\ job.pc = "ended" /\ job.verb = "exit" /\ faults = 0 => Mirrors(disk[TaskOf[job.att]], job.new)
  /\ up = "recovering" => \A t \in Tasks :
       /\ disk[t].st # "absent" => t \in todo \/ mem[t].att = disk[t].att
       /\ t \in todo => mem[t].att = None
       /\ mem[t].st \notin {"Ready"} \cup LiveStates
       /\ mem[t].att # None => Mirrors(disk[t], mem[t])
  /\ up = "down" => \A t \in Tasks : mem[t].st = "absent" /\ mem[t].att = None

LEMMA JournalInductive == ASSUME BaseInv, SealedInv, JournalInv, [Next]_vars PROVE JournalInv'
<1> USE DEF BaseInv
<1>1. CASE UNCHANGED vars
  BY <1>1 DEF vars, registry, workloads, durable, process, history, JournalInv, Runs, Starting,
    HandlerInv, ChangeInv, Changers, LiveStates, Ended, Over, ShapeInv, TaskShape, RecordShape
<1>2. ASSUME NEW a \in Attempts, CreateNew(a) PROVE JournalInv'
  BY <1>2, CreateNewFacts, BoundTask, BindingAssumption, Types DEF Opens, Fresh, Idle, JournalInv,
    Runs, Starting, HandlerInv, ChangeInv, Changers, LiveStates, Ended, Over, ShapeInv, TaskShape,
    RecordShape, Mirrors
<1>3. ASSUME NEW a \in Attempts, CreateEvict(a) PROVE JournalInv'
  BY <1>3, CreateEvictFacts, BoundTask, BindingAssumption, Types DEF MemOnly, DiskOnly, Opens,
    Fresh, Blank, Keeps, Idle, JournalInv, Runs, Starting, HandlerInv, ChangeInv, Changers,
    LiveStates, Ended, Over, ShapeInv, TaskShape, RecordShape, Mirrors
<1>4. ASSUME NEW a \in Attempts, CreateReplace(a) PROVE JournalInv'
  BY <1>4, CreateReplaceFacts, BoundTask, BindingAssumption, Types DEF Opens, Fresh, Idle,
    JournalInv, Runs, Starting, HandlerInv, ChangeInv, Changers, LiveStates, Ended, Over, ShapeInv,
    TaskShape, RecordShape, Mirrors
<1>5. ASSUME NEW a \in Attempts, Pause(a) PROVE JournalInv'
  BY <1>5, PauseFacts, BoundTask, BindingAssumption, Types DEF FrozenOnly, Opens, Alike, Idle,
    JournalInv, Runs, Starting, HandlerInv, ChangeInv, Changers, LiveStates, Ended, Over, ShapeInv,
    TaskShape, RecordShape, Mirrors
<1>6. ASSUME NEW a \in Attempts, Resume(a) PROVE JournalInv'
  BY <1>6, ResumeFacts, BoundTask, BindingAssumption, Types DEF FrozenOnly, Opens, Alike, Idle,
    JournalInv, Runs, Starting, HandlerInv, ChangeInv, Changers, LiveStates, Ended, Over, ShapeInv,
    TaskShape, RecordShape, Mirrors
<1>7. ASSUME NEW a \in Attempts, Start(a) PROVE JournalInv'
  BY <1>7, StartFacts, BoundTask, BindingAssumption, Types DEF Opens, Idle, JournalInv, Runs,
    Starting, HandlerInv, ChangeInv, Changers, LiveStates, Ended, Over, ShapeInv, TaskShape,
    RecordShape, Mirrors
<1>8. ASSUME NEW a \in Attempts, NEW v \in Versions, Admit(a, v) PROVE JournalInv'
  BY <1>8, AdmitFacts, BoundTask, BindingAssumption, Types DEF Opens, Alike, Idle, JournalInv, Runs,
    Starting, HandlerInv, ChangeInv, Changers, LiveStates, Ended, Over, ShapeInv, TaskShape,
    RecordShape, Mirrors
<1>9. ASSUME NEW a \in Attempts, NEW op \in Ops, StopReady(op, a) PROVE JournalInv'
  BY <1>9, StopReadyFacts, BoundTask, BindingAssumption, Types DEF Opens, Ends, Idle, JournalInv,
    Runs, Starting, HandlerInv, ChangeInv, Changers, LiveStates, Ended, Over, ShapeInv, TaskShape,
    RecordShape, Mirrors
<1>10. ASSUME NEW a \in Attempts, NEW op \in Ops, StopLive(op, a) PROVE JournalInv'
  BY <1>10, StopLiveFacts, BoundTask, BindingAssumption, Types DEF MemOnly, FrozenOnly, Alike,
    Kills, Idle, JournalInv, Runs, Starting, HandlerInv, ChangeInv, Changers, LiveStates, Ended,
    Over, ShapeInv, TaskShape, RecordShape, Mirrors
<1>11. ASSUME NEW a \in Attempts, NEW op \in Ops, StopReplay(op, a) PROVE JournalInv'
  BY <1>11, StopReplayFacts, BoundTask, BindingAssumption, Types DEF Idle, JournalInv, Runs,
    Starting, HandlerInv, ChangeInv, Changers, LiveStates, Ended, Over, ShapeInv, TaskShape,
    RecordShape, Mirrors
<1>12. ASSUME NEW a \in Attempts, NEW op \in Ops, RevokeReady(op, a) PROVE JournalInv'
  BY <1>12, RevokeReadyFacts, BoundTask, BindingAssumption, Types DEF Opens, Ends, Idle, JournalInv,
    Runs, Starting, HandlerInv, ChangeInv, Changers, LiveStates, Ended, Over, ShapeInv, TaskShape,
    RecordShape, Mirrors
<1>13. ASSUME NEW a \in Attempts, NEW op \in Ops, RevokeLive(op, a) PROVE JournalInv'
  BY <1>13, RevokeLiveFacts, BoundTask, BindingAssumption, Types DEF MemOnly, FrozenOnly, Alike,
    Kills, Idle, JournalInv, Runs, Starting, HandlerInv, ChangeInv, Changers, LiveStates, Ended,
    Over, ShapeInv, TaskShape, RecordShape, Mirrors
<1>14. ASSUME NEW a \in Attempts, NEW op \in Ops, Seal(op, a) PROVE JournalInv'
  BY <1>14, SealFacts, BoundTask, BindingAssumption, Types DEF Opens, Idle, JournalInv, Runs,
    Starting, HandlerInv, ChangeInv, Changers, LiveStates, Ended, Over, ShapeInv, TaskShape,
    RecordShape, Mirrors
<1>15. CASE CreateWrite
  <2>1. /\ up = "up" /\ UNCHANGED up /\ job.pc = "journal" /\ job.verb = "create" /\ job'.pc = "idle"
        /\ job.att \in Attempts /\ TaskOf[job.att] \in Tasks /\ DiskOnly(TaskOf[job.att])
        /\ MemOnly(TaskOf[job.att])
    BY <1>15, CreateWriteFacts, JobTypes DEF Applies, Closes, Writes, Fails, MemOnly
  <2>2. mem'[TaskOf[job.att]].st \notin LiveStates
    BY <1>15, CreateWriteFacts DEF Applies, ChangeInv, LiveStates, Over, Ended
  <2>3. faults' = 0 => faults = 0
    <3>1. UNCHANGED faults \/ faults' = faults + 1
      BY <1>15, CreateWriteFacts DEF Writes, Fails
    <3>2. faults \in Nat
      BY Types
    <3> QED
      BY <3>1, <3>2
  <2>4. ASSUME NEW a \in Attempts, mem'[TaskOf[a]].att = a, mem'[TaskOf[a]].st \in LiveStates
        PROVE  LET d == disk'[TaskOf[a]] IN
               d.att = a /\ Runs(d) /\ (faults' = 0 => d.st # "Revoked")
    <3>1. TaskOf[a] # TaskOf[job.att]
      BY <2>2, <2>4
    <3>2. mem'[TaskOf[a]] = mem[TaskOf[a]] /\ disk'[TaskOf[a]] = disk[TaskOf[a]]
      BY <2>1, <3>1, BoundTask DEF MemOnly, DiskOnly
    <3> QED
      BY <2>1, <2>3, <2>4, <3>2 DEF JournalInv
  <2> QED
    BY <2>1, <2>4 DEF JournalInv, Starting
<1>16. CASE CommitJournal
  <2>1. /\ up = "up" /\ job.pc = "journal" /\ job.verb # "create" /\ UNCHANGED <<mem, up, todo>>
        /\ job.att \in Attempts /\ TaskOf[job.att] \in Tasks /\ job.new.att = job.att
    BY <1>16, CommitJournalFacts, JobTypes
  <2>2. CASE /\ Writes(TaskOf[job.att], job.new)
             /\ job.verb = "admit" => Moves("version")
             /\ job.verb = "seal" => Moves("seal")
             /\ job.verb \notin {"admit", "seal"} => Moves("evidence")
    BY <2>1, <2>2, BindingAssumption DEF Mirrors, DiskOnly, Moves, Logs, Writes, JournalInv, Runs,
      HandlerInv, ChangeInv, Changers, LiveStates, Ended
  <2>3. CASE Fails(TaskOf[job.att], job.new) /\ Refuses
    BY <2>1, <2>3, BindingAssumption, Types DEF Mirrors, DiskOnly, Moves, Closes, Refuses, Fails,
      JournalInv, Runs, HandlerInv, ChangeInv, Changers, LiveStates, Ended
  <2> QED
    BY <1>16, <2>2, <2>3, CommitJournalFacts
<1>17. CASE CommitVersion
  BY <1>17, CommitVersionFacts, JobTypes, BoundTask, BindingAssumption, Types DEF Moves,
    JournalInv, Runs, Starting, HandlerInv, ChangeInv, Changers, LiveStates, Ended, Over, ShapeInv,
    TaskShape, RecordShape, Mirrors
<1>18. CASE CommitEvidence
  <2>1. /\ up = "up" /\ job.pc = "evidence" /\ UNCHANGED <<disk, up, todo>>
        /\ job.att \in Attempts /\ TaskOf[job.att] \in Tasks /\ job.new.att = job.att
    BY <1>18, CommitEvidenceFacts, JobTypes
  <2>2. CASE Logs(job.att, job.new.st, job.new.out, None) /\ Applies
    BY <2>1, <2>2, BindingAssumption DEF MemOnly, Closes, Applies, Logs, JournalInv, HandlerInv,
      ChangeInv, Changers, LiveStates
  <2>3. CASE /\ Misses(job.att, job.new.st, job.new.out, None)
             /\ Moves("restore") /\ UNCHANGED mem
    BY <2>1, <2>3, Types DEF Moves, Misses, JournalInv
  <2> QED
    BY <1>18, <2>2, <2>3, CommitEvidenceFacts
<1>19. CASE Restore
  <2>1. /\ up = "up" /\ UNCHANGED <<up,
             mem>> /\ job.pc = "restore" /\ job.verb \in Changers \cup {"seal"}
        /\ job.att \in Attempts /\ TaskOf[job.att] \in Tasks /\ DiskOnly(TaskOf[job.att])
        /\ mem[TaskOf[job.att]].att = job.att
    BY <1>19, RestoreFacts, JobTypes DEF Writes, Fails, HandlerInv, ChangeInv, Changers
  <2>2. job'.pc \in {"idle", "undo"} /\ (job'.pc = "undo" => job'.verb \in {"pause", "resume"})
    BY <1>19, RestoreFacts DEF Refuses, Moves, Closes
  <2>3. /\ faults' = 0 => faults = 0 /\ Mirrors(disk'[TaskOf[job.att]], mem[TaskOf[job.att]])
        /\ \/ Mirrors(disk'[TaskOf[job.att]], mem[TaskOf[job.att]])
           \/ disk'[TaskOf[job.att]] = disk[TaskOf[job.att]]
    <3>1. \/ UNCHANGED faults /\ Mirrors(disk'[TaskOf[job.att]], mem[TaskOf[job.att]])
          \/ /\ faults' = faults + 1
             /\ \/ Mirrors(disk'[TaskOf[job.att]], mem[TaskOf[job.att]])
                \/ disk'[TaskOf[job.att]] = disk[TaskOf[job.att]]
      BY <1>19, RestoreFacts DEF Writes, Fails
    <3>2. faults \in Nat
      BY Types
    <3> QED
      BY <3>1, <3>2
  <2>4. ASSUME NEW a \in Attempts, mem'[TaskOf[a]].att = a, mem'[TaskOf[a]].st \in LiveStates
        PROVE  LET d == disk'[TaskOf[a]] IN
               d.att = a /\ Runs(d) /\ (faults' = 0 => d.st # "Revoked")
    <3>1. CASE a # job.att
      <4>1. TaskOf[a] # TaskOf[job.att] /\ TaskOf[a] \in Tasks
        BY <2>1, <2>4, <3>1, BoundTask
      <4>2. disk'[TaskOf[a]] = disk[TaskOf[a]]
        BY <2>1, <4>1 DEF DiskOnly
      <4> QED
        BY <2>1, <2>3, <2>4, <3>1, <4>2 DEF JournalInv, Changers
    <3>2. CASE a = job.att
      <4>1. disk[TaskOf[a]].att = a /\ Runs(disk[TaskOf[a]])
        BY <2>1, <2>4, <3>2 DEF JournalInv, Changers
      <4> QED
        BY <2>1, <2>3, <2>4, <3>2, <4>1 DEF Mirrors, Runs, LiveStates
    <3> QED
      BY <3>1, <3>2
  <2> QED
    BY <2>1, <2>2, <2>4 DEF JournalInv, Starting
<1>20. CASE Undo
  BY <1>20, UndoFacts, JobTypes, BoundTask, BindingAssumption, Types DEF FrozenOnly, Closes,
    JournalInv, Runs, Starting, HandlerInv, ChangeInv, Changers, LiveStates, Ended, Over, ShapeInv,
    TaskShape, RecordShape, Mirrors
<1>21. CASE SealOpen
  <2>1. /\ UNCHANGED <<disk, todo, up>> /\ job.pc = "seal" /\ up = "up" /\ job.verb = "seal"
        /\ job.att \in Attempts /\ TaskOf[job.att] \in Tasks
    BY <1>21, SealOpenFacts, JobTypes DEF HandlerInv
  <2>2. \/ Applies
        \/ UNCHANGED mem /\ job'.pc \in {"restore", "headNew", "mark"} /\ job'.verb = "seal"
    BY <1>21, <2>1, SealOpenFacts DEF Moves
  <2>3. \A a \in Attempts : \/ mem'[TaskOf[a]] = mem[TaskOf[a]]
                           \/ mem'[TaskOf[a]].st = "Sealed"
    BY <2>1, <2>2, BoundTask DEF Applies, MemOnly, ChangeInv
  <2>4. job'.pc \in {"idle", "restore", "headNew", "mark"} /\ (job'.pc # "idle" => job'.verb = "seal")
    BY <2>2 DEF Applies, Closes
  <2>5. faults' = 0 => faults = 0
    <3>1. UNCHANGED faults \/ faults' = faults + 1
      BY <1>21, SealOpenFacts DEF Logs, Misses
    <3>2. faults \in Nat
      BY Types
    <3> QED
      BY <3>1, <3>2
  <2> QED
    BY <2>1, <2>3, <2>4, <2>5 DEF JournalInv, Starting, LiveStates
<1>22. CASE SealMark
  BY <1>22, SealMarkFacts, Types DEF Moves, Logs, Misses, JournalInv
<1>23. CASE SealHeadNew
  BY <1>23, SealHeadNewFacts, Types DEF Moves, JournalInv
<1>24. CASE SealHeadText
  BY <1>24, SealHeadTextFacts, BindingAssumption, Types DEF MemOnly, Moves, Closes, Applies,
    JournalInv, HandlerInv, ChangeInv, Over, ShapeInv, TaskShape
<1>25. CASE LaunchIntent
  <2>1. /\ up = "up" /\ job.pc = "intent" /\ DiskOnly(TaskOf[job.att]) /\ UNCHANGED <<mem, up, todo>>
        /\ job.att \in Attempts /\ TaskOf[job.att] \in Tasks /\ job.new.att = job.att
    BY <1>25, LaunchIntentFacts, JobTypes
  <2>2. CASE Intends(disk'[TaskOf[job.att]], job.new) /\ UNCHANGED faults /\ Moves("spawn")
    BY <2>1, <2>2, BindingAssumption DEF DiskOnly, Moves, Intends, JournalInv, Starting, HandlerInv,
      ChangeInv, LiveStates
  <2>3. CASE /\ disk'[TaskOf[job.att]] = disk[TaskOf[job.att]] \/ Intends(disk'[TaskOf[job.att]], job.new)
             /\ faults' = faults + 1 /\ Closes
    BY <2>1, <2>3, BindingAssumption, Types DEF DiskOnly, Closes, JournalInv, HandlerInv, ChangeInv,
      LiveStates
  <2> QED
    BY <1>25, <2>2, <2>3, LaunchIntentFacts
<1>26. CASE SpawnReport
  <2>1. /\ up = "up" /\ UNCHANGED <<up, mem>> /\ job.pc = "spawn" /\ job.verb = "start"
        /\ job.att \in Attempts /\ TaskOf[job.att] \in Tasks /\ DiskOnly(TaskOf[job.att])
        /\ mem[TaskOf[job.att]].st = "Ready" /\ Starting(job.att)
    BY <1>26, SpawnReportFacts, JobTypes DEF Writes, Fails, HandlerInv, ChangeInv, Changers,
      DiskOnly, Starting
  <2>2. /\ disk[TaskOf[job.att]].att = job.att /\ disk[TaskOf[job.att]].st \in {"Launching", "Running"}
    BY <2>1 DEF JournalInv
  <2>3. \/ job'.pc = "idle" /\ UNCHANGED faults
        \/ /\ job'.pc = "running" /\ job'.verb = "start" /\ job'.att = job.att
           /\ UNCHANGED <<disk, faults>>
        \/ /\ job'.pc = "record" /\ job'.verb = "start" /\ job'.att = job.att
           /\ UNCHANGED <<disk, faults>> \/ faults' = faults + 1
    BY <1>26, SpawnReportFacts DEF Closes, Writes, Fails, Spawns, SpawnFails, Opens
  <2>4. faults \in Nat
    BY Types
  <2>5. ASSUME NEW a \in Attempts, mem'[TaskOf[a]].att = a, mem'[TaskOf[a]].st \in LiveStates
        PROVE  LET d == disk'[TaskOf[a]] IN
               d.att = a /\ Runs(d) /\ (faults' = 0 => d.st # "Revoked")
    <3>1. TaskOf[a] # TaskOf[job.att] /\ TaskOf[a] \in Tasks
      BY <2>1, <2>5, BoundTask DEF LiveStates
    <3>2. disk'[TaskOf[a]] = disk[TaskOf[a]]
      BY <2>1, <3>1 DEF DiskOnly
    <3> QED
      BY <2>1, <2>3, <2>4, <2>5, <3>2 DEF JournalInv
  <2>6. CASE job'.pc = "idle"
    BY <2>1, <2>5, <2>6 DEF JournalInv, Starting
  <2>7. CASE job'.pc = "running" /\ job'.verb = "start" /\ job'.att = job.att /\ UNCHANGED <<disk, faults>>
    BY <2>1, <2>2, <2>5, <2>7 DEF JournalInv, Starting
  <2>8. CASE /\ job'.pc = "record" /\ job'.verb = "start" /\ job'.att = job.att
             /\ UNCHANGED <<disk, faults>> \/ faults' = faults + 1
    <3>1. faults' = 0 => UNCHANGED disk
      BY <2>4, <2>8
    <3> QED
      BY <2>1, <2>2, <2>5, <2>8, <3>1 DEF JournalInv, Starting
  <2> QED
    BY <2>3, <2>6, <2>7, <2>8
<1>27. CASE RecordRunning
  <2>1. /\ up = "up" /\ job.pc = "running" /\ UNCHANGED <<mem, up, todo>>
        /\ job.att \in Attempts /\ TaskOf[job.att] \in Tasks /\ job.new.att = job.att
    BY <1>27, RecordRunningFacts, JobTypes
  <2>2. CASE Writes(TaskOf[job.att], job.new) /\ Moves("launched")
    BY <2>1, <2>2, BindingAssumption DEF Mirrors, DiskOnly, Moves, Writes, JournalInv, Starting,
      HandlerInv, ChangeInv, LiveStates
  <2>3. CASE Fails(TaskOf[job.att], job.new) /\ SpawnFails("ended")
    BY <2>1, <2>3, BindingAssumption, Types DEF DiskOnly, Opens, Fails, SpawnFails, JournalInv,
      HandlerInv, ChangeInv, LiveStates
  <2> QED
    BY <1>27, <2>2, <2>3, RecordRunningFacts
<1>28. CASE RecordLaunched
  BY <1>28, RecordLaunchedFacts, JobTypes, BindingAssumption, Types DEF MemOnly, Opens, Closes,
    Applies, Logs, Misses, SpawnFails, JournalInv, Runs, Starting, HandlerInv, ChangeInv
<1>29. CASE RecordEnd
  <2>1. /\ up = "up" /\ job.pc = "record" /\ Moves("ended") /\ UNCHANGED <<mem, up, todo>>
        /\ job.att \in Attempts /\ TaskOf[job.att] \in Tasks /\ job.new.att = job.att
    BY <1>29, RecordEndFacts, JobTypes
  <2>2. CASE Writes(TaskOf[job.att], job.new)
    BY <2>1, <2>2, BoundTask, BindingAssumption, Types DEF Mirrors, MemOnly, DiskOnly, Moves, Opens,
      Closes, Refuses, Applies, Logs, Misses, Writes, Fails, SpawnFails, Intends, JournalInv, Runs,
      Starting, HandlerInv, ChangeInv, Changers, LiveStates, Ended, Over, ShapeInv, TaskShape,
      RecordShape
  <2>3. CASE Fails(TaskOf[job.att], job.new)
    BY <2>1, <2>3, BoundTask, BindingAssumption, Types DEF Mirrors, MemOnly, DiskOnly, Moves, Opens,
      Closes, Refuses, Applies, Logs, Misses, Writes, Fails, SpawnFails, Intends, JournalInv, Runs,
      Starting, HandlerInv, ChangeInv, Changers, LiveStates, Ended, Over, ShapeInv, TaskShape,
      RecordShape
  <2> QED
    BY <1>29, <2>2, <2>3, RecordEndFacts
<1>30. CASE RecordEnded
  BY <1>30, RecordEndedFacts, BindingAssumption, Types DEF MemOnly, Closes, Applies, Logs, Misses,
    JournalInv, HandlerInv, ChangeInv, LiveStates, Ended
<1>31. ASSUME NEW w \in waits, FinishStop(w) PROVE JournalInv'
  BY <1>31, FinishStopFacts, BoundTask, BindingAssumption, Types DEF Idle, JournalInv,
    Runs, Starting, HandlerInv, ChangeInv, Changers, LiveStates, Ended, Over, ShapeInv, TaskShape,
    RecordShape, Mirrors
<1>32. ASSUME NEW w \in waits, FinishRevoke(w) PROVE JournalInv'
  BY <1>32, FinishRevokeFacts, BoundTask, BindingAssumption, Types DEF Opens, Ends, Idle,
    JournalInv, Runs, Starting, HandlerInv, ChangeInv, Changers, LiveStates, Ended, Over, ShapeInv,
    TaskShape, RecordShape, Mirrors
<1>33. CASE Crash
  BY <1>33, CrashFacts, BoundTask, BindingAssumption, Types DEF Closes, Partly, Says, Blank,
    JournalInv, Runs, Starting, HandlerInv, ChangeInv, Changers, LiveStates, Ended, Over, ShapeInv,
    TaskShape, RecordShape, Mirrors
<1>34. CASE Restart
  BY <1>34, RestartFacts, BoundTask, BindingAssumption, Types DEF JournalInv, Runs, Starting,
    HandlerInv, ChangeInv, Changers, LiveStates, Ended, Over, ShapeInv, TaskShape, RecordShape,
    Mirrors
<1>35. ASSUME NEW t \in todo, RecoverRecord(t) PROVE JournalInv'
  <2>1. TaskOf[disk[t].att] = t /\ disk[t].att \in Attempts /\ t \in Tasks /\ up = "recovering" /\ job.pc = "idle"
    BY <1>35, RecoverRecordFacts DEF ReplaceInv, Placed
  <2>2. CASE up' = "down"
    <3>1. \A u \in Tasks : mem'[u].st = "absent" /\ mem'[u].att = None
      BY <1>35, <2>1, <2>2, RecoverRecordFacts DEF Blank
    <3>2. job'.pc = "idle"
      BY <1>35, <2>1, <2>2, RecoverRecordFacts
    <3> QED
      BY <2>2, <3>1, <3>2, BoundTask DEF JournalInv, Starting, LiveStates
  <2>3. CASE up' # "down"
    <3>1. /\ DiskOnly(t) /\ disk'[t] = job'.new /\ Recovers(job'.new, disk[t]) /\ UNCHANGED <<mem, up, todo>>
          /\ job'.pc = "recoverLog" /\ job'.verb = "recover"
      BY <1>35, <2>1, <2>3, RecoverRecordFacts DEF Opens
    <3>2. mem[t].att = None /\ \A u \in Tasks : mem[u].st \notin {"Ready"} \cup LiveStates
      BY <1>35, <2>1 DEF JournalInv
    <3>3. \A u \in Tasks : disk'[u].st # "absent" => u \in todo \/ mem[u].att = disk'[u].att
      BY <1>35, <2>1, <3>1 DEF JournalInv, DiskOnly
    <3>4. \A u \in Tasks : mem[u].att # None => Mirrors(disk'[u], mem[u])
      BY <2>1, <3>1, <3>2 DEF JournalInv, DiskOnly
    <3>5. \A u \in Tasks : u \in todo => mem[u].att = None
      BY <2>1 DEF JournalInv
    <3>6. up' = "recovering"
      BY <2>1, <3>1
    <3> QED
      BY <2>1, <3>1, <3>2, <3>3, <3>4, <3>5, <3>6, BoundTask DEF JournalInv, Starting
  <2> QED
    BY <2>2, <2>3
<1>36. CASE RecoverLog
  <2>1. /\ up = "recovering" /\ job.pc = "recoverLog" /\ UNCHANGED disk /\ job'.pc = "idle"
        /\ job.att \in Attempts /\ TaskOf[job.att] \in Tasks /\ job.new.att = job.att
        /\ job.verb = "recover"
    BY <1>36, RecoverLogFacts, JobTypes DEF Closes, HandlerInv
  <2>2. CASE up' \in {"MalformedHead", "Sealed"} /\ UNCHANGED mem
    <3>1. \A a \in Attempts : mem'[TaskOf[a]].st \notin LiveStates
      BY <2>1, <2>2, BoundTask DEF JournalInv
    <3> QED
      BY <2>1, <2>2, <3>1 DEF JournalInv, Starting
  <2>3. CASE /\ UNCHANGED up /\ todo' = todo \ {TaskOf[job.att]}
             /\ mem'[TaskOf[job.att]] = job.new /\ MemOnly(TaskOf[job.att])
    <3>1. Mirrors(disk[TaskOf[job.att]], job.new)
      BY <2>1 DEF SealedInv
    <3>2. job.new.st \notin {"Ready"} \cup LiveStates
      BY <2>1 DEF ChangeInv, LiveStates, Over, Ended
    <3>3. \A u \in Tasks : /\ disk'[u].st # "absent" => u \in todo' \/ mem'[u].att = disk'[u].att
                           /\ u \in todo' => mem'[u].att = None
                           /\ mem'[u].st \notin {"Ready"} \cup LiveStates
                           /\ mem'[u].att # None => Mirrors(disk'[u], mem'[u])
      BY <2>1, <2>3, <3>1, <3>2 DEF JournalInv, MemOnly, Mirrors
    <3> QED
      BY <2>1, <2>3, <3>3, BoundTask DEF JournalInv, Starting
  <2>4. CASE up' = "down" /\ \A u \in Tasks : Blank(mem'[u])
    <3>1. \A u \in Tasks : mem'[u].st = "absent" /\ mem'[u].att = None
      BY <2>4 DEF Blank
    <3> QED
      BY <2>1, <2>4, <3>1, BoundTask, BindingAssumption DEF JournalInv, Starting
  <2> QED
    BY <1>36, <2>2, <2>3, <2>4, RecoverLogFacts
<1>37. CASE Serve
  BY <1>37, ServeFacts, BoundTask, BindingAssumption, Types DEF JournalInv, Runs,
    Starting, HandlerInv, ChangeInv, Changers, LiveStates, Ended, Over, ShapeInv, TaskShape,
    RecordShape, Mirrors
<1>38. ASSUME NEW a \in Attempts, Launch(a) PROVE JournalInv'
  BY <1>38, LaunchFacts, JobTypes, BoundTask, BindingAssumption, Types DEF ReapOnly,
    JournalInv, Runs, Starting, HandlerInv, ChangeInv, Changers, LiveStates, Ended, Over, ShapeInv,
    TaskShape, RecordShape, Mirrors
<1>39. ASSUME NEW a \in Attempts, LateLaunch(a) PROVE JournalInv'
  BY <1>39, LateLaunchFacts, JobTypes, BoundTask, BindingAssumption, Types DEF ReapOnly,
    JournalInv, Runs, Starting, HandlerInv, ChangeInv, Changers, LiveStates, Ended, Over, ShapeInv,
    TaskShape, RecordShape, Mirrors
<1>40. ASSUME NEW a \in Attempts, DropLate(a) PROVE JournalInv'
  BY <1>40, DropLateFacts, JobTypes, BoundTask, BindingAssumption, Types DEF ReapOnly,
    JournalInv, Runs, Starting, HandlerInv, ChangeInv, Changers, LiveStates, Ended, Over, ShapeInv,
    TaskShape, RecordShape, Mirrors
<1>41. ASSUME NEW a \in Attempts, RecordExit(a) PROVE JournalInv'
  BY <1>41, RecordExitFacts, JobTypes, BoundTask, BindingAssumption, Types DEF ReapOnly,
    Opens, Idle, JournalInv, Runs, Starting, HandlerInv, ChangeInv, Changers, LiveStates, Ended,
    Over, ShapeInv, TaskShape, RecordShape, Mirrors
<1>42. ASSUME NEW a \in Attempts, NEW e \in Exits, WorkloadEnds(a, e) PROVE JournalInv'
  BY <1>42, WorkloadEndsFacts, JobTypes, BoundTask, BindingAssumption, Types DEF ReapOnly,
    JournalInv, Runs, Starting, HandlerInv, ChangeInv, Changers, LiveStates, Ended, Over, ShapeInv,
    TaskShape, RecordShape, Mirrors
<1>43. CASE NoThread
  BY <1>43, NoThreadFacts, JobTypes, BoundTask, BindingAssumption, Types DEF ReapOnly, JournalInv,
    Runs, Starting, HandlerInv, ChangeInv, Changers, LiveStates, Ended, Over, ShapeInv, TaskShape,
    RecordShape, Mirrors
<1>44. ASSUME NEW a \in Attempts, SandboxSetUp(a) PROVE JournalInv'
  BY <1>44, SandboxSetUpFacts, JobTypes, BoundTask, BindingAssumption, Types DEF JournalInv, Runs,
    Starting, HandlerInv, ChangeInv, Changers, LiveStates, Ended, Over, ShapeInv, TaskShape,
    RecordShape, Mirrors
<1> QED
  BY <1>1, <1>2, <1>3, <1>4, <1>5, <1>6, <1>7, <1>8, <1>9, <1>10, <1>11, <1>12, <1>13, <1>14, <1>15,
    <1>16, <1>17, <1>18, <1>19, <1>20, <1>21, <1>22, <1>23, <1>24, <1>25, <1>26, <1>27, <1>28,
    <1>29, <1>30, <1>31, <1>32, <1>33, <1>34, <1>35, <1>36, <1>37, <1>38, <1>39, <1>40, <1>41, <1>42,
    <1>43, <1>44
  DEF Next, Request, JobStep, Answer, Reaper, Recovery

--------------------------------------------------------------------------------
(* A stop that was answered *)

\* A kept attempt was replaced, or its log is sealed.
KeptInv == \A a \in kept : a \in superseded \/ log[a].head # "none"

\* An attempt that was reported as over: a stop of it answered, a known outcome reported, a
\* stop recorded, or any outcome when no write ever failed.
Settled(a) ==
  \/ a \in acked
  \/ shown[a] \in {"completed", "failed"}
  \/ mem[TaskOf[a]].att = a /\ mem[TaskOf[a]].stoppedBy # None
  \/ faults = 0 /\ shown[a] # "none"

\* An attempt that can never run again: its log is sealed, so that no admission of it can be
\* recorded; or what is registered, recorded or in a handler's hands of it is over and it
\* cannot be created anew.
Spent(a) ==
  \/ log[a].head # "none"
  \/ /\ mem[TaskOf[a]].att = a => mem[TaskOf[a]].st \in Over
     /\ disk[TaskOf[a]].att = a => disk[TaskOf[a]].st \in {"Launching"} \cup LiveStates \cup Over
     /\ a \in retired \/ (disk[TaskOf[a]].att = a /\ (up = "up" => mem[TaskOf[a]].att = a))
     /\ job.pc # "idle" /\ job.att = a => job.new.st \in Over

SettledInv == \A a \in Attempts : Settled(a) => Spent(a)

RunInv == BaseInv /\ TrackInv /\ SealedInv /\ JournalInv /\ KeptInv

LEMMA FaultsGrow == ASSUME TypeInv, [Next]_vars PROVE (faults' = 0 => faults = 0)
<1>1. CASE UNCHANGED vars
  BY <1>1 DEF vars, registry, workloads, durable, process, history
<1>2. ASSUME NEW a \in Attempts, CreateNew(a) PROVE (faults' = 0 => faults = 0)
  BY <1>2, CreateNewFacts, Types DEF Opens, Fresh, Idle
<1>3. ASSUME NEW a \in Attempts, CreateEvict(a) PROVE (faults' = 0 => faults = 0)
  BY <1>3, CreateEvictFacts, Types DEF MemOnly, DiskOnly, Opens, Fresh, Blank, Keeps, Idle
<1>4. ASSUME NEW a \in Attempts, CreateReplace(a) PROVE (faults' = 0 => faults = 0)
  BY <1>4, CreateReplaceFacts, Types DEF Opens, Fresh, Idle
<1>5. ASSUME NEW a \in Attempts, Pause(a) PROVE (faults' = 0 => faults = 0)
  BY <1>5, PauseFacts, Types DEF FrozenOnly, Opens, Alike, Idle
<1>6. ASSUME NEW a \in Attempts, Resume(a) PROVE (faults' = 0 => faults = 0)
  BY <1>6, ResumeFacts, Types DEF FrozenOnly, Opens, Alike, Idle
<1>7. ASSUME NEW a \in Attempts, Start(a) PROVE (faults' = 0 => faults = 0)
  BY <1>7, StartFacts, Types DEF Opens, Idle
<1>8. ASSUME NEW a \in Attempts, NEW v \in Versions, Admit(a, v) PROVE (faults' = 0 => faults = 0)
  BY <1>8, AdmitFacts, Types DEF Opens, Alike, Idle
<1>9. ASSUME NEW a \in Attempts, NEW op \in Ops, StopReady(op, a) PROVE (faults' = 0 => faults = 0)
  BY <1>9, StopReadyFacts, Types DEF Opens, Ends, Idle
<1>10. ASSUME NEW a \in Attempts, NEW op \in Ops, StopLive(op, a) PROVE (faults' = 0 => faults = 0)
  BY <1>10, StopLiveFacts, Types DEF MemOnly, FrozenOnly, Alike, Kills, Idle
<1>11. ASSUME NEW a \in Attempts, NEW op \in Ops, StopReplay(op, a) PROVE (faults' = 0 => faults = 0)
  BY <1>11, StopReplayFacts, Types DEF Idle
<1>12. ASSUME NEW a \in Attempts, NEW op \in Ops, RevokeReady(op, a) PROVE (faults' = 0 => faults = 0)
  BY <1>12, RevokeReadyFacts, Types DEF Opens, Ends, Idle
<1>13. ASSUME NEW a \in Attempts, NEW op \in Ops, RevokeLive(op, a) PROVE (faults' = 0 => faults = 0)
  BY <1>13, RevokeLiveFacts, Types DEF MemOnly, FrozenOnly, Alike, Kills, Idle
<1>14. ASSUME NEW a \in Attempts, NEW op \in Ops, Seal(op, a) PROVE (faults' = 0 => faults = 0)
  BY <1>14, SealFacts, Types DEF Opens, Idle
<1>15. CASE CreateWrite
  BY <1>15, CreateWriteFacts, Types DEF Mirrors, MemOnly, DiskOnly, ShownOnly, Closes, Shows,
    Applies, Writes, Fails, Keeps
<1>16. CASE CommitJournal
  BY <1>16, CommitJournalFacts, Types DEF Mirrors, DiskOnly, Moves, Closes, Refuses, Writes, Fails
<1>17. CASE CommitVersion
  BY <1>17, CommitVersionFacts, Types DEF Moves
<1>18. CASE CommitEvidence
  BY <1>18, CommitEvidenceFacts, Types DEF MemOnly, LogOnly, ShownOnly, Moves, Closes, Shows,
    Applies, Says, Logs, Misses
<1>19. CASE Restore
  BY <1>19, RestoreFacts, Types DEF Mirrors, DiskOnly, Moves, Closes, Refuses, Writes, Fails
<1>20. CASE Undo
  BY <1>20, UndoFacts, Types DEF FrozenOnly, Closes
<1>21. CASE SealOpen
  BY <1>21, SealOpenFacts, Types DEF MemOnly, LogOnly, ShownOnly, Moves, Closes, Shows, Applies,
    Says, Logs, Misses
<1>22. CASE SealMark
  BY <1>22, SealMarkFacts, Types DEF LogOnly, Moves, Says, Logs, Misses
<1>23. CASE SealHeadNew
  BY <1>23, SealHeadNewFacts, Types DEF LogOnly, Moves, Says, Heads
<1>24. CASE SealHeadText
  BY <1>24, SealHeadTextFacts, Types DEF MemOnly, LogOnly, ShownOnly, Moves, Closes, Shows, Applies,
    Says, Heads
<1>25. CASE LaunchIntent
  BY <1>25, LaunchIntentFacts, Types DEF DiskOnly, ReapOnly, Moves, Closes, Intends
<1>26. CASE SpawnReport
  BY <1>26, SpawnReportFacts, Types DEF Mirrors, DiskOnly, ReapOnly, Opens, Closes, Writes, Fails,
    Ends, SpawnFails, Spawns
<1>27. CASE RecordRunning
  BY <1>27, RecordRunningFacts, Types DEF Mirrors, DiskOnly, Opens, Moves, Writes, Fails, Ends,
    SpawnFails
<1>28. CASE RecordLaunched
  BY <1>28, RecordLaunchedFacts, Types DEF MemOnly, LogOnly, ShownOnly, Opens, Closes, Shows,
    Applies, Says, Logs, Misses, Ends, SpawnFails
<1>29. CASE RecordEnd
  BY <1>29, RecordEndFacts, Types DEF Mirrors, DiskOnly, Moves, Writes, Fails
<1>30. CASE RecordEnded
  BY <1>30, RecordEndedFacts, Types DEF MemOnly, LogOnly, ReapOnly, ShownOnly, Closes, Shows,
    Applies, Says, Logs, Misses
<1>31. ASSUME NEW w \in waits, FinishStop(w) PROVE (faults' = 0 => faults = 0)
  BY <1>31, FinishStopFacts, Types DEF Idle
<1>32. ASSUME NEW w \in waits, FinishRevoke(w) PROVE (faults' = 0 => faults = 0)
  BY <1>32, FinishRevokeFacts, Types DEF Opens, Ends, Idle
<1>33. CASE Crash
  BY <1>33, CrashFacts, Types DEF Closes, Partly, Says, Blank
<1>34. CASE Restart
  BY <1>34, RestartFacts, Types
<1>35. ASSUME NEW t \in todo, RecoverRecord(t) PROVE (faults' = 0 => faults = 0)
  BY <1>35, RecoverRecordFacts, Types DEF DiskOnly, Opens, Blank, Recovers
<1>36. CASE RecoverLog
  BY <1>36, RecoverLogFacts, Types DEF MemOnly, LogOnly, ShownOnly, Closes, Shows, Partly, Says, Mends
<1>37. CASE Serve
  BY <1>37, ServeFacts, Types
<1>38. ASSUME NEW a \in Attempts, Launch(a) PROVE (faults' = 0 => faults = 0)
  BY <1>38, LaunchFacts, Types DEF ReapOnly
<1>39. ASSUME NEW a \in Attempts, LateLaunch(a) PROVE (faults' = 0 => faults = 0)
  BY <1>39, LateLaunchFacts, Types DEF ReapOnly
<1>40. ASSUME NEW a \in Attempts, DropLate(a) PROVE (faults' = 0 => faults = 0)
  BY <1>40, DropLateFacts, Types DEF ReapOnly
<1>41. ASSUME NEW a \in Attempts, RecordExit(a) PROVE (faults' = 0 => faults = 0)
  BY <1>41, RecordExitFacts, Types DEF ReapOnly, Opens, Idle
<1>42. ASSUME NEW a \in Attempts, NEW e \in Exits, WorkloadEnds(a, e) PROVE (faults' = 0 => faults = 0)
  BY <1>42, WorkloadEndsFacts, Types DEF ReapOnly
<1>43. CASE NoThread
  BY <1>43, NoThreadFacts, Types DEF ReapOnly
<1>44. ASSUME NEW a \in Attempts, SandboxSetUp(a) PROVE (faults' = 0 => faults = 0)
  BY <1>44, SandboxSetUpFacts, Types DEF ReapOnly
<1> QED
  BY <1>1, <1>2, <1>3, <1>4, <1>5, <1>6, <1>7, <1>8, <1>9, <1>10, <1>11, <1>12, <1>13, <1>14, <1>15,
    <1>16, <1>17, <1>18, <1>19, <1>20, <1>21, <1>22, <1>23, <1>24, <1>25, <1>26, <1>27, <1>28,
    <1>29, <1>30, <1>31, <1>32, <1>33, <1>34, <1>35, <1>36, <1>37, <1>38, <1>39, <1>40, <1>41, <1>42,
    <1>43, <1>44
  DEF Next, Request, JobStep, Answer, Reaper, Recovery

LEMMA HeadStays == ASSUME TypeInv, NEW b \in Attempts, log[b].head # "none", [Next]_vars PROVE (log'[b].head # "none")
<1>1. CASE UNCHANGED vars
  BY <1>1 DEF vars, registry, workloads, durable, process, history
<1>2. ASSUME NEW a \in Attempts, CreateNew(a) PROVE (log'[b].head # "none")
  BY <1>2, CreateNewFacts, BoundTask DEF Opens, Fresh, Idle
<1>3. ASSUME NEW a \in Attempts, CreateEvict(a) PROVE (log'[b].head # "none")
  BY <1>3, CreateEvictFacts, BoundTask DEF MemOnly, DiskOnly, Opens, Fresh, Blank, Keeps, Idle
<1>4. ASSUME NEW a \in Attempts, CreateReplace(a) PROVE (log'[b].head # "none")
  BY <1>4, CreateReplaceFacts, BoundTask DEF Opens, Fresh, Idle
<1>5. ASSUME NEW a \in Attempts, Pause(a) PROVE (log'[b].head # "none")
  BY <1>5, PauseFacts, BoundTask DEF FrozenOnly, Opens, Alike, Idle
<1>6. ASSUME NEW a \in Attempts, Resume(a) PROVE (log'[b].head # "none")
  BY <1>6, ResumeFacts, BoundTask DEF FrozenOnly, Opens, Alike, Idle
<1>7. ASSUME NEW a \in Attempts, Start(a) PROVE (log'[b].head # "none")
  BY <1>7, StartFacts, BoundTask DEF Opens, Idle
<1>8. ASSUME NEW a \in Attempts, NEW v \in Versions, Admit(a, v) PROVE (log'[b].head # "none")
  BY <1>8, AdmitFacts, BoundTask DEF Opens, Alike, Idle
<1>9. ASSUME NEW a \in Attempts, NEW op \in Ops, StopReady(op, a) PROVE (log'[b].head # "none")
  BY <1>9, StopReadyFacts, BoundTask DEF Opens, Ends, Idle
<1>10. ASSUME NEW a \in Attempts, NEW op \in Ops, StopLive(op, a) PROVE (log'[b].head # "none")
  BY <1>10, StopLiveFacts, BoundTask DEF MemOnly, FrozenOnly, Alike, Kills, Idle
<1>11. ASSUME NEW a \in Attempts, NEW op \in Ops, StopReplay(op, a) PROVE (log'[b].head # "none")
  BY <1>11, StopReplayFacts, BoundTask DEF Idle
<1>12. ASSUME NEW a \in Attempts, NEW op \in Ops, RevokeReady(op, a) PROVE (log'[b].head # "none")
  BY <1>12, RevokeReadyFacts, BoundTask DEF Opens, Ends, Idle
<1>13. ASSUME NEW a \in Attempts, NEW op \in Ops, RevokeLive(op, a) PROVE (log'[b].head # "none")
  BY <1>13, RevokeLiveFacts, BoundTask DEF MemOnly, FrozenOnly, Alike, Kills, Idle
<1>14. ASSUME NEW a \in Attempts, NEW op \in Ops, Seal(op, a) PROVE (log'[b].head # "none")
  BY <1>14, SealFacts, BoundTask DEF Opens, Idle
<1>15. CASE CreateWrite
  BY <1>15, CreateWriteFacts, JobTypes, BoundTask DEF Mirrors, MemOnly, DiskOnly, ShownOnly, Closes,
    Shows, Applies, Writes, Fails, Keeps
<1>16. CASE CommitJournal
  BY <1>16, CommitJournalFacts, JobTypes, BoundTask DEF Mirrors, DiskOnly, Moves, Closes, Refuses,
    Writes, Fails
<1>17. CASE CommitVersion
  BY <1>17, CommitVersionFacts, JobTypes, BoundTask DEF Moves
<1>18. CASE CommitEvidence
  BY <1>18, CommitEvidenceFacts, JobTypes, BoundTask DEF MemOnly, LogOnly, ShownOnly, Moves, Closes,
    Shows, Applies, Says, Logs, Misses
<1>19. CASE Restore
  BY <1>19, RestoreFacts, JobTypes, BoundTask DEF Mirrors, DiskOnly, Moves, Closes, Refuses, Writes,
    Fails
<1>20. CASE Undo
  BY <1>20, UndoFacts, JobTypes, BoundTask DEF FrozenOnly, Closes
<1>21. CASE SealOpen
  BY <1>21, SealOpenFacts, JobTypes, BoundTask DEF MemOnly, LogOnly, ShownOnly, Moves, Closes,
    Shows, Applies, Says, Logs, Misses
<1>22. CASE SealMark
  BY <1>22, SealMarkFacts, JobTypes, BoundTask DEF LogOnly, Moves, Says, Logs, Misses
<1>23. CASE SealHeadNew
  BY <1>23, SealHeadNewFacts, JobTypes, BoundTask DEF LogOnly, Moves, Says, Heads
<1>24. CASE SealHeadText
  BY <1>24, SealHeadTextFacts, JobTypes, BoundTask DEF MemOnly, LogOnly, ShownOnly, Moves, Closes,
    Shows, Applies, Says, Heads
<1>25. CASE LaunchIntent
  BY <1>25, LaunchIntentFacts, JobTypes, BoundTask DEF DiskOnly, ReapOnly, Moves, Closes, Intends
<1>26. CASE SpawnReport
  BY <1>26, SpawnReportFacts, JobTypes, BoundTask DEF Mirrors, DiskOnly, ReapOnly, Opens, Closes,
    Writes, Fails, Ends, SpawnFails, Spawns
<1>27. CASE RecordRunning
  BY <1>27, RecordRunningFacts, JobTypes, BoundTask DEF Mirrors, DiskOnly, Opens, Moves, Writes,
    Fails, Ends, SpawnFails
<1>28. CASE RecordLaunched
  BY <1>28, RecordLaunchedFacts, JobTypes, BoundTask DEF MemOnly, LogOnly, ShownOnly, Opens, Closes,
    Shows, Applies, Says, Logs, Misses, Ends, SpawnFails
<1>29. CASE RecordEnd
  BY <1>29, RecordEndFacts, JobTypes, BoundTask DEF Mirrors, DiskOnly, Moves, Writes, Fails
<1>30. CASE RecordEnded
  BY <1>30, RecordEndedFacts, JobTypes, BoundTask DEF MemOnly, LogOnly, ReapOnly, ShownOnly, Closes,
    Shows, Applies, Says, Logs, Misses
<1>31. ASSUME NEW w \in waits, FinishStop(w) PROVE (log'[b].head # "none")
  BY <1>31, FinishStopFacts, BoundTask DEF Idle
<1>32. ASSUME NEW w \in waits, FinishRevoke(w) PROVE (log'[b].head # "none")
  BY <1>32, FinishRevokeFacts, BoundTask DEF Opens, Ends, Idle
<1>33. CASE Crash
  <2>1. CASE \A a \in Attempts : log'[a].head = log[a].head
    BY <2>1
  <2>2. CASE job.pc = "recoverLog" /\ Partly(job.att, job.new)
    BY <2>2 DEF Partly, LogOnly
  <2> QED
    BY <1>33, <2>1, <2>2, CrashFacts
<1>34. CASE Restart
  BY <1>34, RestartFacts, BoundTask
<1>35. ASSUME NEW t \in todo, RecoverRecord(t) PROVE (log'[b].head # "none")
  BY <1>35, RecoverRecordFacts, BoundTask DEF DiskOnly, Opens, Blank, Recovers
<1>36. CASE RecoverLog
  BY <1>36, RecoverLogFacts, JobTypes, BoundTask DEF MemOnly, LogOnly, ShownOnly, Closes, Shows,
    Partly, Says, Mends
<1>37. CASE Serve
  BY <1>37, ServeFacts, BoundTask
<1>38. ASSUME NEW a \in Attempts, Launch(a) PROVE (log'[b].head # "none")
  BY <1>38, LaunchFacts, JobTypes, BoundTask DEF ReapOnly
<1>39. ASSUME NEW a \in Attempts, LateLaunch(a) PROVE (log'[b].head # "none")
  BY <1>39, LateLaunchFacts, JobTypes, BoundTask DEF ReapOnly
<1>40. ASSUME NEW a \in Attempts, DropLate(a) PROVE (log'[b].head # "none")
  BY <1>40, DropLateFacts, JobTypes, BoundTask DEF ReapOnly
<1>41. ASSUME NEW a \in Attempts, RecordExit(a) PROVE (log'[b].head # "none")
  BY <1>41, RecordExitFacts, JobTypes, BoundTask DEF ReapOnly, Opens, Idle
<1>42. ASSUME NEW a \in Attempts, NEW e \in Exits, WorkloadEnds(a, e) PROVE (log'[b].head # "none")
  BY <1>42, WorkloadEndsFacts, JobTypes, BoundTask DEF ReapOnly
<1>43. CASE NoThread
  BY <1>43, NoThreadFacts, JobTypes, BoundTask DEF ReapOnly
<1>44. ASSUME NEW a \in Attempts, SandboxSetUp(a) PROVE (log'[b].head # "none")
  BY <1>44, SandboxSetUpFacts, JobTypes, BoundTask DEF ReapOnly
<1> QED
  BY <1>1, <1>2, <1>3, <1>4, <1>5, <1>6, <1>7, <1>8, <1>9, <1>10, <1>11, <1>12, <1>13, <1>14, <1>15,
    <1>16, <1>17, <1>18, <1>19, <1>20, <1>21, <1>22, <1>23, <1>24, <1>25, <1>26, <1>27, <1>28,
    <1>29, <1>30, <1>31, <1>32, <1>33, <1>34, <1>35, <1>36, <1>37, <1>38, <1>39, <1>40, <1>41, <1>42,
    <1>43, <1>44
  DEF Next, Request, JobStep, Answer, Reaper, Recovery

LEMMA NextTyped == ASSUME TypeInv, [Next]_vars PROVE \A b \in kept' : b \in Attempts
<1>1. TypeInv'
  BY StepType
<1> QED
  BY <1>1 DEF TypeInv, RestInv

\* What becomes kept was replaced or is sealed.
LEMMA KeptNew == ASSUME BaseInv, SealedInv, [Next]_vars PROVE (superseded \subseteq superseded' /\ \A b \in kept' : b \in kept \/ b \in superseded' \/ log[b].head # "none")
<1> USE DEF BaseInv
<1>1. CASE UNCHANGED vars
  BY <1>1 DEF vars, registry, workloads, durable, process, history
<1>2. ASSUME NEW a \in Attempts, CreateNew(a) PROVE (superseded \subseteq superseded' /\ \A b \in kept' : b \in kept \/ b \in superseded' \/ log[b].head # "none")
  BY <1>2, CreateNewFacts, BoundTask DEF Opens, Fresh, Idle
<1>3. ASSUME NEW a \in Attempts, CreateEvict(a) PROVE (superseded \subseteq superseded' /\ \A b \in kept' : b \in kept \/ b \in superseded' \/ log[b].head # "none")
  <2>1. PICK t \in Tasks :
          /\ mem[t].st = "Sealed"
          /\ Keeps(mem[t]) \/ UNCHANGED kept
    BY <1>3, CreateEvictFacts
  <2>2. UNCHANGED superseded
    BY <1>3, CreateEvictFacts
  <2>3. mem[t].att \in Attempts => log[mem[t].att].head # "none"
    <3>1. mem[t].att \in Attempts => TaskOf[mem[t].att] = t
      BY DEF ReplaceInv, Placed
    <3> QED
      BY <2>1, <3>1 DEF SealedInv
  <2>4. \A b \in kept' : b \in Attempts
    BY NextTyped
  <2> QED
    BY <2>1, <2>2, <2>3, <2>4 DEF Keeps
<1>4. ASSUME NEW a \in Attempts, CreateReplace(a) PROVE (superseded \subseteq superseded' /\ \A b \in kept' : b \in kept \/ b \in superseded' \/ log[b].head # "none")
  BY <1>4, CreateReplaceFacts, BoundTask DEF Opens, Fresh, Idle
<1>5. ASSUME NEW a \in Attempts, Pause(a) PROVE (superseded \subseteq superseded' /\ \A b \in kept' : b \in kept \/ b \in superseded' \/ log[b].head # "none")
  BY <1>5, PauseFacts, BoundTask DEF FrozenOnly, Opens, Alike, Idle
<1>6. ASSUME NEW a \in Attempts, Resume(a) PROVE (superseded \subseteq superseded' /\ \A b \in kept' : b \in kept \/ b \in superseded' \/ log[b].head # "none")
  BY <1>6, ResumeFacts, BoundTask DEF FrozenOnly, Opens, Alike, Idle
<1>7. ASSUME NEW a \in Attempts, Start(a) PROVE (superseded \subseteq superseded' /\ \A b \in kept' : b \in kept \/ b \in superseded' \/ log[b].head # "none")
  BY <1>7, StartFacts, BoundTask DEF Opens, Idle
<1>8. ASSUME NEW a \in Attempts, NEW v \in Versions, Admit(a, v) PROVE (superseded \subseteq superseded' /\ \A b \in kept' : b \in kept \/ b \in superseded' \/ log[b].head # "none")
  BY <1>8, AdmitFacts, BoundTask DEF Opens, Alike, Idle
<1>9. ASSUME NEW a \in Attempts, NEW op \in Ops, StopReady(op, a) PROVE (superseded \subseteq superseded' /\ \A b \in kept' : b \in kept \/ b \in superseded' \/ log[b].head # "none")
  BY <1>9, StopReadyFacts, BoundTask DEF Opens, Ends, Idle
<1>10. ASSUME NEW a \in Attempts, NEW op \in Ops, StopLive(op, a) PROVE (superseded \subseteq superseded' /\ \A b \in kept' : b \in kept \/ b \in superseded' \/ log[b].head # "none")
  BY <1>10, StopLiveFacts, BoundTask DEF MemOnly, FrozenOnly, Alike, Kills, Idle
<1>11. ASSUME NEW a \in Attempts, NEW op \in Ops, StopReplay(op, a) PROVE (superseded \subseteq superseded' /\ \A b \in kept' : b \in kept \/ b \in superseded' \/ log[b].head # "none")
  BY <1>11, StopReplayFacts, BoundTask DEF Idle
<1>12. ASSUME NEW a \in Attempts, NEW op \in Ops, RevokeReady(op, a) PROVE (superseded \subseteq superseded' /\ \A b \in kept' : b \in kept \/ b \in superseded' \/ log[b].head # "none")
  BY <1>12, RevokeReadyFacts, BoundTask DEF Opens, Ends, Idle
<1>13. ASSUME NEW a \in Attempts, NEW op \in Ops, RevokeLive(op, a) PROVE (superseded \subseteq superseded' /\ \A b \in kept' : b \in kept \/ b \in superseded' \/ log[b].head # "none")
  BY <1>13, RevokeLiveFacts, BoundTask DEF MemOnly, FrozenOnly, Alike, Kills, Idle
<1>14. ASSUME NEW a \in Attempts, NEW op \in Ops, Seal(op, a) PROVE (superseded \subseteq superseded' /\ \A b \in kept' : b \in kept \/ b \in superseded' \/ log[b].head # "none")
  BY <1>14, SealFacts, BoundTask DEF Opens, Idle
<1>15. CASE CreateWrite
  <2>1. \/ UNCHANGED <<kept, superseded>>
        \/ Keeps(mem[TaskOf[job.att]]) /\ superseded' = superseded \cup {mem[TaskOf[job.att]].att}
    BY <1>15, CreateWriteFacts
  <2>2. \A b \in kept' : b \in Attempts
    BY NextTyped
  <2> QED
    BY <2>1, <2>2 DEF Keeps
<1>16. CASE CommitJournal
  BY <1>16, CommitJournalFacts, JobTypes, BoundTask DEF Mirrors, DiskOnly, Moves, Closes, Refuses,
    Writes, Fails
<1>17. CASE CommitVersion
  BY <1>17, CommitVersionFacts, JobTypes, BoundTask DEF Moves
<1>18. CASE CommitEvidence
  BY <1>18, CommitEvidenceFacts, JobTypes, BoundTask DEF MemOnly, ShownOnly, Moves, Closes, Shows,
    Applies
<1>19. CASE Restore
  BY <1>19, RestoreFacts, JobTypes, BoundTask DEF Mirrors, DiskOnly, Moves, Closes, Refuses, Writes,
    Fails
<1>20. CASE Undo
  BY <1>20, UndoFacts, JobTypes, BoundTask DEF FrozenOnly, Closes
<1>21. CASE SealOpen
  BY <1>21, SealOpenFacts, JobTypes, BoundTask DEF MemOnly, ShownOnly, Moves, Closes, Shows, Applies
<1>22. CASE SealMark
  BY <1>22, SealMarkFacts, JobTypes, BoundTask DEF Moves
<1>23. CASE SealHeadNew
  BY <1>23, SealHeadNewFacts, JobTypes, BoundTask DEF Moves
<1>24. CASE SealHeadText
  BY <1>24, SealHeadTextFacts, JobTypes, BoundTask DEF MemOnly, ShownOnly, Moves, Closes, Shows,
    Applies
<1>25. CASE LaunchIntent
  BY <1>25, LaunchIntentFacts, JobTypes, BoundTask DEF DiskOnly, ReapOnly, Moves, Closes, Intends
<1>26. CASE SpawnReport
  BY <1>26, SpawnReportFacts, JobTypes, BoundTask DEF Mirrors, DiskOnly, ReapOnly, Opens, Closes,
    Writes, Fails, Ends, SpawnFails, Spawns
<1>27. CASE RecordRunning
  BY <1>27, RecordRunningFacts, JobTypes, BoundTask DEF Mirrors, DiskOnly, Opens, Moves, Writes,
    Fails, Ends, SpawnFails
<1>28. CASE RecordLaunched
  BY <1>28, RecordLaunchedFacts, JobTypes, BoundTask DEF MemOnly, ShownOnly, Opens, Closes, Shows,
    Applies, Ends, SpawnFails
<1>29. CASE RecordEnd
  BY <1>29, RecordEndFacts, JobTypes, BoundTask DEF Mirrors, DiskOnly, Moves, Writes, Fails
<1>30. CASE RecordEnded
  BY <1>30, RecordEndedFacts, JobTypes, BoundTask DEF MemOnly, ReapOnly, ShownOnly, Closes, Shows,
    Applies
<1>31. ASSUME NEW w \in waits, FinishStop(w) PROVE (superseded \subseteq superseded' /\ \A b \in kept' : b \in kept \/ b \in superseded' \/ log[b].head # "none")
  BY <1>31, FinishStopFacts, BoundTask DEF Idle
<1>32. ASSUME NEW w \in waits, FinishRevoke(w) PROVE (superseded \subseteq superseded' /\ \A b \in kept' : b \in kept \/ b \in superseded' \/ log[b].head # "none")
  BY <1>32, FinishRevokeFacts, BoundTask DEF Opens, Ends, Idle
<1>33. CASE Crash
  BY <1>33, CrashFacts, BoundTask DEF Closes, Blank
<1>34. CASE Restart
  BY <1>34, RestartFacts, BoundTask
<1>35. ASSUME NEW t \in todo, RecoverRecord(t) PROVE (superseded \subseteq superseded' /\ \A b \in kept' : b \in kept \/ b \in superseded' \/ log[b].head # "none")
  BY <1>35, RecoverRecordFacts, BoundTask DEF DiskOnly, Opens, Blank, Recovers
<1>36. CASE RecoverLog
  BY <1>36, RecoverLogFacts, JobTypes, BoundTask DEF MemOnly, ShownOnly, Closes, Shows
<1>37. CASE Serve
  BY <1>37, ServeFacts, BoundTask
<1>38. ASSUME NEW a \in Attempts, Launch(a) PROVE (superseded \subseteq superseded' /\ \A b \in kept' : b \in kept \/ b \in superseded' \/ log[b].head # "none")
  BY <1>38, LaunchFacts, JobTypes, BoundTask DEF ReapOnly
<1>39. ASSUME NEW a \in Attempts, LateLaunch(a) PROVE (superseded \subseteq superseded' /\ \A b \in kept' : b \in kept \/ b \in superseded' \/ log[b].head # "none")
  BY <1>39, LateLaunchFacts, JobTypes, BoundTask DEF ReapOnly
<1>40. ASSUME NEW a \in Attempts, DropLate(a) PROVE (superseded \subseteq superseded' /\ \A b \in kept' : b \in kept \/ b \in superseded' \/ log[b].head # "none")
  BY <1>40, DropLateFacts, JobTypes, BoundTask DEF ReapOnly
<1>41. ASSUME NEW a \in Attempts, RecordExit(a) PROVE (superseded \subseteq superseded' /\ \A b \in kept' : b \in kept \/ b \in superseded' \/ log[b].head # "none")
  BY <1>41, RecordExitFacts, JobTypes, BoundTask DEF ReapOnly, Opens, Idle
<1>42. ASSUME NEW a \in Attempts, NEW e \in Exits, WorkloadEnds(a, e) PROVE (superseded \subseteq superseded' /\ \A b \in kept' : b \in kept \/ b \in superseded' \/ log[b].head # "none")
  BY <1>42, WorkloadEndsFacts, JobTypes, BoundTask DEF ReapOnly
<1>43. CASE NoThread
  BY <1>43, NoThreadFacts, JobTypes, BoundTask DEF ReapOnly
<1>44. ASSUME NEW a \in Attempts, SandboxSetUp(a) PROVE (superseded \subseteq superseded' /\ \A b \in kept' : b \in kept \/ b \in superseded' \/ log[b].head # "none")
  BY <1>44, SandboxSetUpFacts, JobTypes, BoundTask DEF ReapOnly
<1> QED
  BY <1>1, <1>2, <1>3, <1>4, <1>5, <1>6, <1>7, <1>8, <1>9, <1>10, <1>11, <1>12, <1>13, <1>14, <1>15,
    <1>16, <1>17, <1>18, <1>19, <1>20, <1>21, <1>22, <1>23, <1>24, <1>25, <1>26, <1>27, <1>28,
    <1>29, <1>30, <1>31, <1>32, <1>33, <1>34, <1>35, <1>36, <1>37, <1>38, <1>39, <1>40, <1>41, <1>42,
    <1>43, <1>44
  DEF Next, Request, JobStep, Answer, Reaper, Recovery

LEMMA KeptInductive == ASSUME BaseInv, SealedInv, KeptInv, [Next]_vars PROVE KeptInv'
<1>1. superseded \subseteq superseded' /\ \A b \in kept' : b \in kept \/ b \in superseded' \/ log[b].head # "none"
  BY KeptNew
<1>2. \A b \in kept' : b \in Attempts
  BY NextTyped DEF BaseInv
<1>3. \A b \in Attempts : log[b].head # "none" => log'[b].head # "none"
  BY HeadStays DEF BaseInv
<1> QED
  BY <1>1, <1>2, <1>3 DEF KeptInv

\* What is spent stays spent.
LEMMA SpentStays == ASSUME RunInv, NEW b \in Attempts, Spent(b), log[b].head = "none", [Next]_vars PROVE Spent(b)'
<1> USE DEF RunInv, BaseInv
<1>1. CASE UNCHANGED vars
  BY <1>1 DEF vars, registry, workloads, durable, process, history, Spent, HandlerInv, ChangeInv,
    Changers, LiveStates, Ended, Over
<1>2. ASSUME NEW a \in Attempts, CreateNew(a) PROVE Spent(b)'
  BY <1>2, CreateNewFacts, BoundTask, BindingAssumption DEF Opens, Fresh, Idle, Spent, HandlerInv,
    ChangeInv, Changers, LiveStates, Ended, Over
<1>3. ASSUME NEW a \in Attempts, CreateEvict(a) PROVE Spent(b)'
  <2>1. PICK t \in Tasks :
          /\ mem[t].st = "Sealed" /\ DiskOnly(t)
          /\ disk'[t] = disk[t] \/ disk'[t].att = None
          /\ \/ mem'[t].att = None /\ MemOnly(t) /\ Opens("journal", "create", a)
             \/ UNCHANGED <<mem, job>>
    BY <1>3, CreateEvictFacts DEF Blank
  <2>2. up = "up" /\ job.pc = "idle" /\ UNCHANGED <<retired,
             up>> /\ TaskOf[b] \in Tasks /\ a \notin retired
    BY <1>3, CreateEvictFacts, BoundTask DEF Idle
  <2>3. mem[t].att # b
    BY <2>1 DEF ReplaceInv, Placed, SealedInv
  <2>4. b \notin retired => mem[TaskOf[b]].att = b /\ disk[TaskOf[b]].att = b /\ TaskOf[b] # t
    BY <2>2, <2>3 DEF Spent
  <2>5. b \notin retired => a # b
    <3>1. mem[TaskOf[a]].att = None
      BY <1>3, CreateEvictFacts, BoundTask DEF ShapeInv, TaskShape
    <3> QED
      BY <2>4, <3>1, BindingAssumption
  <2>6. b \notin retired => mem'[TaskOf[b]] = mem[TaskOf[b]] /\ disk'[TaskOf[b]] = disk[TaskOf[b]]
    BY <2>1, <2>2, <2>4 DEF MemOnly, DiskOnly
  <2>7. /\ mem'[TaskOf[b]] = mem[TaskOf[b]] \/ mem'[TaskOf[b]].att = None
        /\ disk'[TaskOf[b]] = disk[TaskOf[b]] \/ disk'[TaskOf[b]].att = None
    BY <2>1, <2>2 DEF MemOnly, DiskOnly
  <2>8. job'.pc # "idle" => job'.att # b
    BY <2>1, <2>2, <2>5 DEF Opens
  <2> QED
    BY <2>2, <2>4, <2>6, <2>7, <2>8, BindingAssumption DEF Spent
<1>4. ASSUME NEW a \in Attempts, CreateReplace(a) PROVE Spent(b)'
  BY <1>4, CreateReplaceFacts, BoundTask, BindingAssumption DEF Opens, Fresh, Idle, Spent,
    HandlerInv, ChangeInv, Changers, LiveStates, Ended, Over
<1>5. ASSUME NEW a \in Attempts, Pause(a) PROVE Spent(b)'
  BY <1>5, PauseFacts, BoundTask, BindingAssumption DEF FrozenOnly, Opens, Alike, Idle, Spent,
    HandlerInv, ChangeInv, Changers, LiveStates, Ended, Over
<1>6. ASSUME NEW a \in Attempts, Resume(a) PROVE Spent(b)'
  BY <1>6, ResumeFacts, BoundTask, BindingAssumption DEF FrozenOnly, Opens, Alike, Idle, Spent,
    HandlerInv, ChangeInv, Changers, LiveStates, Ended, Over
<1>7. ASSUME NEW a \in Attempts, Start(a) PROVE Spent(b)'
  BY <1>7, StartFacts, BoundTask, BindingAssumption DEF Opens, Idle, Spent, HandlerInv, ChangeInv,
    Changers, LiveStates, Ended, Over
<1>8. ASSUME NEW a \in Attempts, NEW v \in Versions, Admit(a, v) PROVE Spent(b)'
  BY <1>8, AdmitFacts, BoundTask, BindingAssumption DEF Opens, Alike, Idle, Spent, HandlerInv,
    ChangeInv, Changers, LiveStates, Ended, Over
<1>9. ASSUME NEW a \in Attempts, NEW op \in Ops, StopReady(op, a) PROVE Spent(b)'
  BY <1>9, StopReadyFacts, BoundTask, BindingAssumption DEF Opens, Ends, Idle, Spent, HandlerInv,
    ChangeInv, Changers, LiveStates, Ended, Over
<1>10. ASSUME NEW a \in Attempts, NEW op \in Ops, StopLive(op, a) PROVE Spent(b)'
  BY <1>10, StopLiveFacts, BoundTask, BindingAssumption DEF MemOnly, FrozenOnly, Alike, Kills, Idle,
    Spent, HandlerInv, ChangeInv, Changers, LiveStates, Ended, Over
<1>11. ASSUME NEW a \in Attempts, NEW op \in Ops, StopReplay(op, a) PROVE Spent(b)'
  BY <1>11, StopReplayFacts, BoundTask, BindingAssumption DEF Idle, Spent, HandlerInv, ChangeInv,
    Changers, LiveStates, Ended, Over
<1>12. ASSUME NEW a \in Attempts, NEW op \in Ops, RevokeReady(op, a) PROVE Spent(b)'
  BY <1>12, RevokeReadyFacts, BoundTask, BindingAssumption DEF Opens, Ends, Idle, Spent, HandlerInv,
    ChangeInv, Changers, LiveStates, Ended, Over
<1>13. ASSUME NEW a \in Attempts, NEW op \in Ops, RevokeLive(op, a) PROVE Spent(b)'
  BY <1>13, RevokeLiveFacts, BoundTask, BindingAssumption DEF MemOnly, FrozenOnly, Alike, Kills,
    Idle, Spent, HandlerInv, ChangeInv, Changers, LiveStates, Ended, Over
<1>14. ASSUME NEW a \in Attempts, NEW op \in Ops, Seal(op, a) PROVE Spent(b)'
  BY <1>14, SealFacts, BoundTask, BindingAssumption DEF Opens, Idle, Spent, HandlerInv, ChangeInv,
    Changers, LiveStates, Ended, Over
<1>15. CASE CreateWrite
  <2>1. /\ up = "up" /\ job.pc = "journal" /\ job.verb = "create" /\ job'.pc = "idle"
        /\ UNCHANGED <<retired, up>> /\ TaskOf[b] \in Tasks /\ job.new.att = job.att
        /\ DiskOnly(TaskOf[job.att]) /\ MemOnly(TaskOf[job.att]) /\ TaskOf[job.att] \in Tasks
    BY <1>15, CreateWriteFacts, JobTypes, BoundTask DEF Applies, Closes, Writes, Fails, MemOnly
  <2>2. job.att # b
    BY <2>1 DEF Spent, ChangeInv, Over, Ended
  <2>3. /\ mem'[TaskOf[job.att]] = mem[TaskOf[job.att]] \/ mem'[TaskOf[job.att]].att = job.att
        /\ disk'[TaskOf[job.att]] = disk[TaskOf[job.att]] \/ disk'[TaskOf[job.att]].att = job.att
    BY <1>15, <2>1, CreateWriteFacts DEF Applies, Writes, Fails, Mirrors
  <2>4. b \notin retired => mem[TaskOf[b]].att = b /\ disk[TaskOf[b]].att = b
    BY <2>1 DEF Spent
  <2>5. b \notin retired => TaskOf[b] # TaskOf[job.att]
    <3>1. mem[TaskOf[job.att]].att = None \/ mem[TaskOf[job.att]].att \in retired
      BY <2>1 DEF ReplaceInv, Creating, ShapeInv, TaskShape
    <3> QED
      BY <2>4, <3>1, BindingAssumption
  <2>6. b \notin retired => mem'[TaskOf[b]] = mem[TaskOf[b]] /\ disk'[TaskOf[b]] = disk[TaskOf[b]]
    BY <2>1, <2>5 DEF MemOnly, DiskOnly
  <2>7. /\ mem'[TaskOf[b]] = mem[TaskOf[b]] \/ mem'[TaskOf[b]].att # b
        /\ disk'[TaskOf[b]] = disk[TaskOf[b]] \/ disk'[TaskOf[b]].att # b
    BY <2>1, <2>2, <2>3 DEF MemOnly, DiskOnly
  <2> QED
    BY <2>1, <2>4, <2>6, <2>7 DEF Spent
<1>16. CASE CommitJournal
  BY <1>16, CommitJournalFacts, JobTypes, BoundTask, BindingAssumption DEF Mirrors, DiskOnly, Moves,
    Closes, Refuses, Writes, Fails, Spent, HandlerInv, ChangeInv, Changers, LiveStates, Ended, Over
<1>17. CASE CommitVersion
  BY <1>17, CommitVersionFacts, JobTypes, BoundTask, BindingAssumption DEF Moves, Spent, HandlerInv,
    ChangeInv, Changers, LiveStates, Ended, Over
<1>18. CASE CommitEvidence
  BY <1>18, CommitEvidenceFacts, JobTypes, BoundTask, BindingAssumption DEF MemOnly, LogOnly,
    ShownOnly, Moves, Closes, Shows, Applies, Says, Logs, Misses, Spent, HandlerInv, ChangeInv,
    Changers, LiveStates, Ended, Over
<1>19. CASE Restore
  BY <1>19, RestoreFacts, JobTypes, BoundTask, BindingAssumption DEF Mirrors, DiskOnly, Moves,
    Closes, Refuses, Writes, Fails, Spent, HandlerInv, ChangeInv, Changers, LiveStates, Ended, Over
<1>20. CASE Undo
  BY <1>20, UndoFacts, JobTypes, BoundTask, BindingAssumption DEF FrozenOnly, Closes, Spent,
    HandlerInv, ChangeInv, Changers, LiveStates, Ended, Over
<1>21. CASE SealOpen
  BY <1>21, SealOpenFacts, JobTypes, BoundTask, BindingAssumption DEF MemOnly, LogOnly, ShownOnly,
    Moves, Closes, Shows, Applies, Says, Logs, Misses, Spent, HandlerInv, ChangeInv, Changers,
    LiveStates, Ended, Over
<1>22. CASE SealMark
  BY <1>22, SealMarkFacts, JobTypes, BoundTask, BindingAssumption DEF LogOnly, Moves, Says, Logs,
    Misses, Spent, HandlerInv, ChangeInv, Changers, LiveStates, Ended, Over
<1>23. CASE SealHeadNew
  BY <1>23, SealHeadNewFacts, JobTypes, BoundTask, BindingAssumption DEF LogOnly, Moves, Says,
    Heads, Spent, HandlerInv, ChangeInv, Changers, LiveStates, Ended, Over
<1>24. CASE SealHeadText
  BY <1>24, SealHeadTextFacts, JobTypes, BoundTask, BindingAssumption DEF MemOnly, LogOnly,
    ShownOnly, Moves, Closes, Shows, Applies, Says, Heads, Spent, HandlerInv, ChangeInv, Changers,
    LiveStates, Ended, Over
<1>25. CASE LaunchIntent
  BY <1>25, LaunchIntentFacts, JobTypes, BoundTask, BindingAssumption DEF DiskOnly, ReapOnly, Moves,
    Closes, Intends, Spent, HandlerInv, ChangeInv, Changers, LiveStates, Ended, Over
<1>26. CASE SpawnReport
  BY <1>26, SpawnReportFacts, JobTypes, BoundTask, BindingAssumption DEF Mirrors, DiskOnly,
    ReapOnly, Opens, Closes, Writes, Fails, Ends, SpawnFails, Spawns, Spent, HandlerInv, ChangeInv,
    Changers, LiveStates, Ended, Over
<1>27. CASE RecordRunning
  BY <1>27, RecordRunningFacts, JobTypes, BoundTask, BindingAssumption DEF Mirrors, DiskOnly, Opens,
    Moves, Writes, Fails, Ends, SpawnFails, Spent, HandlerInv, ChangeInv, Changers, LiveStates,
    Ended, Over
<1>28. CASE RecordLaunched
  BY <1>28, RecordLaunchedFacts, JobTypes, BoundTask, BindingAssumption DEF MemOnly, LogOnly,
    ShownOnly, Opens, Closes, Shows, Applies, Says, Logs, Misses, Ends, SpawnFails, Spent,
    HandlerInv, ChangeInv, Changers, LiveStates, Ended, Over
<1>29. CASE RecordEnd
  BY <1>29, RecordEndFacts, JobTypes, BoundTask, BindingAssumption DEF Mirrors, DiskOnly, Moves,
    Writes, Fails, Spent, HandlerInv, ChangeInv, Changers, LiveStates, Ended, Over
<1>30. CASE RecordEnded
  BY <1>30, RecordEndedFacts, JobTypes, BoundTask, BindingAssumption DEF MemOnly, LogOnly, ReapOnly,
    ShownOnly, Closes, Shows, Applies, Says, Logs, Misses, Spent, HandlerInv, ChangeInv, Changers,
    LiveStates, Ended, Over
<1>31. ASSUME NEW w \in waits, FinishStop(w) PROVE Spent(b)'
  BY <1>31, FinishStopFacts, BoundTask, BindingAssumption DEF Idle, Spent, HandlerInv, ChangeInv,
    Changers, LiveStates, Ended, Over
<1>32. ASSUME NEW w \in waits, FinishRevoke(w) PROVE Spent(b)'
  BY <1>32, FinishRevokeFacts, BoundTask, BindingAssumption DEF Opens, Ends, Idle, Spent,
    HandlerInv, ChangeInv, Changers, LiveStates, Ended, Over
<1>33. CASE Crash
  BY <1>33, CrashFacts, BoundTask, BindingAssumption DEF Closes, Partly, Says, Blank, Spent, HandlerInv,
    ChangeInv, Changers, LiveStates, Ended, Over
<1>34. CASE Restart
  BY <1>34, RestartFacts, BoundTask, BindingAssumption DEF Spent, HandlerInv, ChangeInv, Changers,
    LiveStates, Ended, Over
<1>35. ASSUME NEW t \in todo, RecoverRecord(t) PROVE Spent(b)'
  <2>1. TaskOf[disk[t].att] = t /\ disk[t].att \in Attempts /\ t \in Tasks /\ job.pc = "idle" /\ TaskOf[b] \in Tasks
    BY <1>35, RecoverRecordFacts, BoundTask DEF ReplaceInv, Placed
  <2>2. /\ DiskOnly(t) /\ (disk'[t] = disk[t] \/ Recovers(disk'[t], disk[t]))
        /\ UNCHANGED retired /\ up' # "up"
        /\ UNCHANGED mem \/ \A u \in Tasks : mem'[u].att = None
    BY <1>35, RecoverRecordFacts DEF Blank
  <2>3. \/ job'.pc = "idle"
        \/ job'.att = disk[t].att /\ Recovers(job'.new, disk[t])
    BY <1>35, <2>1, RecoverRecordFacts DEF Opens
  <2>4. disk'[TaskOf[b]] = disk[TaskOf[b]] \/ Recovers(disk'[TaskOf[b]], disk[TaskOf[b]])
    BY <2>1, <2>2 DEF DiskOnly
  <2>5. /\ disk'[TaskOf[b]].att = disk[TaskOf[b]].att
        /\ disk[TaskOf[b]].att = b => disk'[TaskOf[b]].st \in {"Launching"} \cup LiveStates \cup Over
    BY <2>4 DEF Spent, Recovers, LiveStates, Over, Ended
  <2>6. job'.pc # "idle" /\ job'.att = b => job'.new.st \in Over
    BY <2>1, <2>3 DEF Spent, Recovers, LiveStates, Over, Ended
  <2>7. mem'[TaskOf[b]].att = b => mem'[TaskOf[b]] = mem[TaskOf[b]]
    BY <2>1, <2>2, BindingAssumption
  <2> QED
    BY <2>2, <2>5, <2>6, <2>7 DEF Spent
<1>36. CASE RecoverLog
  <2>1. CASE up' = "down" /\ \A u \in Tasks : Blank(mem'[u])
    <3>1. mem'[TaskOf[b]].att # b
      BY <2>1, BoundTask, BindingAssumption DEF Blank
    <3>2. UNCHANGED <<disk, retired>> /\ job'.pc = "idle" /\ up = "recovering"
      BY <1>36, RecoverLogFacts DEF Closes
    <3> QED
      BY <2>1, <3>1, <3>2 DEF Spent
  <2>2. CASE up' # "down"
    BY <1>36, <2>2, RecoverLogFacts, JobTypes, BoundTask, BindingAssumption DEF MemOnly, LogOnly, ShownOnly,
      Closes, Shows, Says, Mends, Spent, HandlerInv, ChangeInv, Changers, LiveStates, Ended, Over
  <2> QED
    BY <1>36, <2>1, <2>2, RecoverLogFacts
<1>37. CASE Serve
  <2>1. /\ up = "recovering" /\ todo = {} /\ UNCHANGED <<mem, disk, retired,
             job>> /\ TaskOf[b] \in Tasks
        /\ job.pc = "idle"
    BY <1>37, ServeFacts, BoundTask
  <2>2. disk[TaskOf[b]].att = b => mem[TaskOf[b]].att = b
    BY <2>1, BindingAssumption DEF JournalInv, ShapeInv, RecordShape
  <2> QED
    BY <2>1, <2>2 DEF Spent
<1>38. ASSUME NEW a \in Attempts, Launch(a) PROVE Spent(b)'
  BY <1>38, LaunchFacts, JobTypes, BoundTask, BindingAssumption DEF ReapOnly, Spent, HandlerInv,
    ChangeInv, Changers, LiveStates, Ended, Over
<1>39. ASSUME NEW a \in Attempts, LateLaunch(a) PROVE Spent(b)'
  BY <1>39, LateLaunchFacts, JobTypes, BoundTask, BindingAssumption DEF ReapOnly, Spent, HandlerInv,
    ChangeInv, Changers, LiveStates, Ended, Over
<1>40. ASSUME NEW a \in Attempts, DropLate(a) PROVE Spent(b)'
  BY <1>40, DropLateFacts, JobTypes, BoundTask, BindingAssumption DEF ReapOnly, Spent, HandlerInv,
    ChangeInv, Changers, LiveStates, Ended, Over
<1>41. ASSUME NEW a \in Attempts, RecordExit(a) PROVE Spent(b)'
  BY <1>41, RecordExitFacts, JobTypes, BoundTask, BindingAssumption DEF ReapOnly, Opens, Idle,
    Spent, HandlerInv, ChangeInv, Changers, LiveStates, Ended, Over
<1>42. ASSUME NEW a \in Attempts, NEW e \in Exits, WorkloadEnds(a, e) PROVE Spent(b)'
  BY <1>42, WorkloadEndsFacts, JobTypes, BoundTask, BindingAssumption DEF ReapOnly, Spent,
    HandlerInv, ChangeInv, Changers, LiveStates, Ended, Over
<1>43. CASE NoThread
  BY <1>43, NoThreadFacts, JobTypes, BoundTask, BindingAssumption DEF ReapOnly, Spent, HandlerInv,
    ChangeInv, Changers, LiveStates, Ended, Over
<1>44. ASSUME NEW a \in Attempts, SandboxSetUp(a) PROVE Spent(b)'
  BY <1>44, SandboxSetUpFacts, JobTypes, BoundTask, BindingAssumption DEF Spent, HandlerInv,
    ChangeInv, Changers, LiveStates, Ended, Over
<1> QED
  BY <1>1, <1>2, <1>3, <1>4, <1>5, <1>6, <1>7, <1>8, <1>9, <1>10, <1>11, <1>12, <1>13, <1>14, <1>15,
    <1>16, <1>17, <1>18, <1>19, <1>20, <1>21, <1>22, <1>23, <1>24, <1>25, <1>26, <1>27, <1>28,
    <1>29, <1>30, <1>31, <1>32, <1>33, <1>34, <1>35, <1>36, <1>37, <1>38, <1>39, <1>40, <1>41, <1>42,
    <1>43, <1>44
  DEF Next, Request, JobStep, Answer, Reaper, Recovery

\* What is newly reported as over is spent.
LEMMA SettledNew == ASSUME RunInv, NEW b \in Attempts, [Next]_vars PROVE (Settled(b)' => Settled(b) \/ Spent(b)')
<1> USE DEF RunInv, BaseInv
<1>1. CASE UNCHANGED vars
  BY <1>1 DEF vars, registry, workloads, durable, process, history, Settled
<1>2. ASSUME NEW a \in Attempts, CreateNew(a) PROVE (Settled(b)' => Settled(b) \/ Spent(b)')
  BY <1>2, CreateNewFacts, BoundTask, BindingAssumption, FaultsGrow DEF Opens, Fresh, Idle, Settled
<1>3. ASSUME NEW a \in Attempts, CreateEvict(a) PROVE (Settled(b)' => Settled(b) \/ Spent(b)')
  <2>1. PICK t \in Tasks : UNCHANGED mem \/ (mem'[t].att = None /\ MemOnly(t))
    BY <1>3, CreateEvictFacts DEF Blank
  <2>2. UNCHANGED <<acked, shown>> /\ TaskOf[b] \in Tasks
    BY <1>3, CreateEvictFacts, BoundTask
  <2>3. mem'[TaskOf[b]].att = b => mem'[TaskOf[b]] = mem[TaskOf[b]]
    BY <2>1, <2>2, BindingAssumption DEF MemOnly
  <2> QED
    BY <2>2, <2>3, FaultsGrow DEF Settled
<1>4. ASSUME NEW a \in Attempts, CreateReplace(a) PROVE (Settled(b)' => Settled(b) \/ Spent(b)')
  BY <1>4, CreateReplaceFacts, BoundTask, BindingAssumption, FaultsGrow DEF Opens, Fresh, Idle,
    Settled
<1>5. ASSUME NEW a \in Attempts, Pause(a) PROVE (Settled(b)' => Settled(b) \/ Spent(b)')
  BY <1>5, PauseFacts, BoundTask, BindingAssumption, FaultsGrow DEF FrozenOnly, Opens, Alike, Idle,
    Settled
<1>6. ASSUME NEW a \in Attempts, Resume(a) PROVE (Settled(b)' => Settled(b) \/ Spent(b)')
  BY <1>6, ResumeFacts, BoundTask, BindingAssumption, FaultsGrow DEF FrozenOnly, Opens, Alike, Idle,
    Settled
<1>7. ASSUME NEW a \in Attempts, Start(a) PROVE (Settled(b)' => Settled(b) \/ Spent(b)')
  BY <1>7, StartFacts, BoundTask, BindingAssumption, FaultsGrow DEF Opens, Idle, Settled
<1>8. ASSUME NEW a \in Attempts, NEW v \in Versions, Admit(a, v) PROVE (Settled(b)' => Settled(b) \/ Spent(b)')
  BY <1>8, AdmitFacts, BoundTask, BindingAssumption, FaultsGrow DEF Opens, Alike, Idle, Settled
<1>9. ASSUME NEW a \in Attempts, NEW op \in Ops, StopReady(op, a) PROVE (Settled(b)' => Settled(b) \/ Spent(b)')
  BY <1>9, StopReadyFacts, BoundTask, BindingAssumption, FaultsGrow DEF Opens, Ends, Idle, Settled
<1>10. ASSUME NEW a \in Attempts, NEW op \in Ops, StopLive(op, a) PROVE (Settled(b)' => Settled(b) \/ Spent(b)')
  BY <1>10, StopLiveFacts, BoundTask, BindingAssumption, FaultsGrow DEF MemOnly, FrozenOnly, Alike,
    Kills, Idle, Settled
<1>11. ASSUME NEW a \in Attempts, NEW op \in Ops, StopReplay(op, a) PROVE (Settled(b)' => Settled(b) \/ Spent(b)')
  BY <1>11, StopReplayFacts, BoundTask, BindingAssumption, FaultsGrow DEF Idle, Settled
<1>12. ASSUME NEW a \in Attempts, NEW op \in Ops, RevokeReady(op, a) PROVE (Settled(b)' => Settled(b) \/ Spent(b)')
  BY <1>12, RevokeReadyFacts, BoundTask, BindingAssumption, FaultsGrow DEF Opens, Ends, Idle,
    Settled
<1>13. ASSUME NEW a \in Attempts, NEW op \in Ops, RevokeLive(op, a) PROVE (Settled(b)' => Settled(b) \/ Spent(b)')
  BY <1>13, RevokeLiveFacts, BoundTask, BindingAssumption, FaultsGrow DEF MemOnly, FrozenOnly,
    Alike, Kills, Idle, Settled
<1>14. ASSUME NEW a \in Attempts, NEW op \in Ops, Seal(op, a) PROVE (Settled(b)' => Settled(b) \/ Spent(b)')
  BY <1>14, SealFacts, BoundTask, BindingAssumption, FaultsGrow DEF Opens, Idle, Settled
<1>15. CASE CreateWrite
  <2>1. CASE UNCHANGED <<mem, shown>>
    BY <1>15, <2>1, CreateWriteFacts, FaultsGrow DEF Settled
  <2>2. CASE Applies
    <3>1. /\ job.pc # "idle" /\ job.new.st = "Created" /\ UNCHANGED acked
          /\ job.att \in Attempts /\ job.new.att = job.att /\ TaskOf[b] \in Tasks
      BY <1>15, CreateWriteFacts, JobTypes, BoundTask DEF ChangeInv
    <3>2. job.new.out = "none" /\ job.new.stoppedBy = None
      BY <3>1 DEF ShapeInv, TaskShape
    <3>3. shown'[b] = shown[b]
      BY <2>2, <3>1, <3>2 DEF Applies, Shows, ShownOnly
    <3>4. mem'[TaskOf[b]] = job.new \/ mem'[TaskOf[b]] = mem[TaskOf[b]]
      BY <2>2, <3>1 DEF Applies, MemOnly
    <3> QED
      BY <3>1, <3>2, <3>3, <3>4, FaultsGrow DEF Settled
  <2> QED
    BY <1>15, <2>1, <2>2, CreateWriteFacts
<1>16. CASE CommitJournal
  BY <1>16, CommitJournalFacts, JobTypes, BoundTask, BindingAssumption, FaultsGrow DEF Moves,
    Closes, Refuses, Settled
<1>17. CASE CommitVersion
  BY <1>17, CommitVersionFacts, JobTypes, BoundTask, BindingAssumption, FaultsGrow DEF Moves,
    Settled
<1>18. CASE CommitEvidence
  <2>1. CASE UNCHANGED <<mem, acked, shown>>
    BY <2>1, FaultsGrow DEF Settled
  <2>2. CASE Applies /\ (UNCHANGED acked \/ (job.verb = "stop" /\ acked' = acked \cup {job.att}))
    <3>1. /\ job.pc = "evidence" /\ job'.pc = "idle" /\ job.verb \in Changers /\ UNCHANGED disk
          /\ job.att \in Attempts /\ job.new.att = job.att /\ TaskOf[b] \in Tasks
      BY <1>18, <2>2, CommitEvidenceFacts, JobTypes, BoundTask DEF Applies, Closes, HandlerInv
    <3>2. CASE job.att # b
      <4>1. shown'[b] = shown[b] /\ (b \in acked' => b \in acked)
        BY <2>2, <3>2 DEF Applies, Shows, ShownOnly
      <4>2. mem'[TaskOf[b]].att = b => mem'[TaskOf[b]] = mem[TaskOf[b]]
        BY <2>2, <3>1, <3>2 DEF Applies, MemOnly
      <4> QED
        BY <4>1, <4>2, FaultsGrow DEF Settled
    <3>3. CASE job.att = b /\ job.new.st \in Over
      <4>1. Mirrors(disk[TaskOf[b]], job.new)
        BY <3>1, <3>3 DEF JournalInv
      <4>2. mem'[TaskOf[b]] = job.new
        BY <2>2, <3>3 DEF Applies
      <4> QED
        BY <3>1, <3>3, <4>1, <4>2 DEF Spent, Mirrors
    <3>4. CASE job.att = b /\ job.new.st \notin Over
      <4>1. job.new.st \in {"Ready"} \cup LiveStates /\ job.verb # "stop"
        BY <3>1, <3>4 DEF ChangeInv, Changers, Over, Ended, LiveStates
      <4>2. job.new.out = "none" /\ job.new.stoppedBy = None
        BY <3>1, <4>1 DEF ShapeInv, TaskShape
      <4>3. shown'[b] = shown[b] /\ mem'[TaskOf[b]] = job.new /\ UNCHANGED acked
        BY <2>2, <3>4, <4>1, <4>2 DEF Applies, Shows
      <4> QED
        BY <4>2, <4>3, FaultsGrow DEF Settled
    <3> QED
      BY <3>2, <3>3, <3>4
  <2> QED
    BY <1>18, <2>1, <2>2, CommitEvidenceFacts
<1>19. CASE Restore
  BY <1>19, RestoreFacts, JobTypes, BoundTask, BindingAssumption, FaultsGrow DEF Moves, Closes,
    Refuses, Settled
<1>20. CASE Undo
  BY <1>20, UndoFacts, JobTypes, BoundTask, BindingAssumption, FaultsGrow DEF FrozenOnly, Closes,
    Settled
<1>21. CASE SealOpen
  <2>1. CASE UNCHANGED <<mem, shown>>
    BY <1>21, <2>1, SealOpenFacts, FaultsGrow DEF Settled
  <2>2. CASE Applies /\ log'[job.att].head = "ok"
    <3>1. /\ job.pc # "idle" /\ UNCHANGED acked
          /\ job.att \in Attempts /\ job.new.att = job.att /\ TaskOf[b] \in Tasks
      BY <1>21, SealOpenFacts, JobTypes, BoundTask
    <3>2. CASE job.att # b
      <4>1. shown'[b] = shown[b]
        BY <2>2, <3>2 DEF Applies, Shows, ShownOnly
      <4>2. mem'[TaskOf[b]].att = b => mem'[TaskOf[b]] = mem[TaskOf[b]]
        BY <2>2, <3>1, <3>2 DEF Applies, MemOnly
      <4> QED
        BY <3>1, <4>1, <4>2, FaultsGrow DEF Settled
    <3>3. CASE job.att = b
      BY <2>2, <3>3 DEF Spent
    <3> QED
      BY <3>2, <3>3
  <2> QED
    BY <1>21, <2>1, <2>2, SealOpenFacts DEF Heads
<1>22. CASE SealMark
  BY <1>22, SealMarkFacts, JobTypes, BoundTask, BindingAssumption, FaultsGrow DEF Moves, Settled
<1>23. CASE SealHeadNew
  BY <1>23, SealHeadNewFacts, JobTypes, BoundTask, BindingAssumption, FaultsGrow DEF Moves, Settled
<1>24. CASE SealHeadText
  <2>1. CASE UNCHANGED <<mem, shown>>
    BY <1>24, <2>1, SealHeadTextFacts, FaultsGrow DEF Settled
  <2>2. CASE Applies /\ log'[job.att].head = "ok"
    <3>1. /\ job.pc # "idle" /\ UNCHANGED acked
          /\ job.att \in Attempts /\ job.new.att = job.att /\ TaskOf[b] \in Tasks
      BY <1>24, SealHeadTextFacts, JobTypes, BoundTask
    <3>2. CASE job.att # b
      <4>1. shown'[b] = shown[b]
        BY <2>2, <3>2 DEF Applies, Shows, ShownOnly
      <4>2. mem'[TaskOf[b]].att = b => mem'[TaskOf[b]] = mem[TaskOf[b]]
        BY <2>2, <3>1, <3>2 DEF Applies, MemOnly
      <4> QED
        BY <3>1, <4>1, <4>2, FaultsGrow DEF Settled
    <3>3. CASE job.att = b
      BY <2>2, <3>3 DEF Spent
    <3> QED
      BY <3>2, <3>3
  <2> QED
    BY <1>24, <2>1, <2>2, SealHeadTextFacts DEF Heads
<1>25. CASE LaunchIntent
  BY <1>25, LaunchIntentFacts, JobTypes, BoundTask, BindingAssumption, FaultsGrow DEF ReapOnly,
    Moves, Closes, Intends, Settled
<1>26. CASE SpawnReport
  BY <1>26, SpawnReportFacts, JobTypes, BoundTask, BindingAssumption, FaultsGrow DEF ReapOnly,
    Opens, Closes, Ends, SpawnFails, Spawns, Settled
<1>27. CASE RecordRunning
  BY <1>27, RecordRunningFacts, JobTypes, BoundTask, BindingAssumption, FaultsGrow DEF Opens, Moves,
    Ends, SpawnFails, Settled
<1>28. CASE RecordLaunched
  <2>1. CASE UNCHANGED <<mem, shown>>
    BY <1>28, <2>1, RecordLaunchedFacts, FaultsGrow DEF Settled
  <2>2. CASE Applies
    <3>1. /\ job.pc # "idle" /\ job.new.st = "Running" /\ UNCHANGED acked
          /\ job.att \in Attempts /\ job.new.att = job.att /\ TaskOf[b] \in Tasks
      BY <1>28, RecordLaunchedFacts, JobTypes, BoundTask DEF ChangeInv
    <3>2. job.new.out = "none" /\ job.new.stoppedBy = None
      BY <3>1 DEF ShapeInv, TaskShape, LiveStates
    <3>3. shown'[b] = shown[b]
      BY <2>2, <3>1, <3>2 DEF Applies, Shows, ShownOnly
    <3>4. mem'[TaskOf[b]] = job.new \/ mem'[TaskOf[b]] = mem[TaskOf[b]]
      BY <2>2, <3>1 DEF Applies, MemOnly
    <3> QED
      BY <3>1, <3>2, <3>3, <3>4, FaultsGrow DEF Settled
  <2> QED
    BY <1>28, <2>1, <2>2, RecordLaunchedFacts
<1>29. CASE RecordEnd
  BY <1>29, RecordEndFacts, JobTypes, BoundTask, BindingAssumption, FaultsGrow DEF Moves, Settled
<1>30. CASE RecordEnded
  <2>1. /\ Applies /\ job.pc = "ended" /\ job'.pc = "idle" /\ UNCHANGED <<acked, disk>>
        /\ job.att \in Attempts /\ job.new.att = job.att /\ TaskOf[b] \in Tasks
        /\ job.verb \in {"start", "exit"}
    BY <1>30, RecordEndedFacts, JobTypes, BoundTask DEF Applies, Closes, HandlerInv
  <2>2. CASE job.att # b
    <3>1. shown'[b] = shown[b]
      BY <2>1, <2>2 DEF Applies, Shows, ShownOnly
    <3>2. mem'[TaskOf[b]].att = b => mem'[TaskOf[b]] = mem[TaskOf[b]]
      BY <2>1, <2>2 DEF Applies, MemOnly
    <3> QED
      BY <2>1, <3>1, <3>2, FaultsGrow DEF Settled
  <2>3. CASE job.att = b /\ job.verb = "exit"
    <3>1. mem[TaskOf[b]].att = b /\ mem[TaskOf[b]].st \in LiveStates /\ job.new.st \in Over
      BY <2>1, <2>3 DEF ChangeInv, Over
    <3>2. disk[TaskOf[b]].att = b /\ disk[TaskOf[b]].st \in {"Launching"} \cup LiveStates \cup Over
      BY <3>1 DEF JournalInv, Runs, Mirrors, Over, Ended
    <3>3. mem'[TaskOf[b]] = job.new
      BY <2>1, <2>3 DEF Applies
    <3> QED
      BY <2>1, <2>3, <3>1, <3>2, <3>3 DEF Spent
  <2>4. CASE job.att = b /\ job.verb = "start"
    <3>1. job.new.st = "Exited" /\ job.new.out = "unknown" /\ job.new.stoppedBy = None
      BY <2>1, <2>4 DEF ChangeInv
    <3>2. mem'[TaskOf[b]] = job.new /\ shown'[b] \in {shown[b], "unknown"}
      BY <2>1, <2>4, <3>1 DEF Applies, Shows
    <3>3. CASE faults' = 0
      <4>1. /\ disk[TaskOf[b]].att = b
            /\ disk[TaskOf[b]].st \in {"Launching", "Running", "Exited"}
        BY <2>1, <2>4, <3>3, FaultsGrow DEF JournalInv, Starting
      <4> QED
        BY <2>1, <2>4, <3>1, <3>2, <4>1 DEF Spent, Over, Ended, LiveStates
    <3>4. CASE faults' # 0
      BY <2>1, <3>1, <3>2, <3>4 DEF Settled
    <3> QED
      BY <3>3, <3>4
  <2> QED
    BY <2>1, <2>2, <2>3, <2>4
<1>31. ASSUME NEW w \in waits, FinishStop(w) PROVE (Settled(b)' => Settled(b) \/ Spent(b)')
  BY <1>31, FinishStopFacts, BoundTask, BindingAssumption, FaultsGrow DEF Idle, Settled
<1>32. ASSUME NEW w \in waits, FinishRevoke(w) PROVE (Settled(b)' => Settled(b) \/ Spent(b)')
  BY <1>32, FinishRevokeFacts, BoundTask, BindingAssumption, FaultsGrow DEF Opens, Ends, Idle,
    Settled
<1>33. CASE Crash
  BY <1>33, CrashFacts, BoundTask, BindingAssumption, FaultsGrow DEF Closes, Blank, Settled
<1>34. CASE Restart
  BY <1>34, RestartFacts, BoundTask, BindingAssumption, FaultsGrow DEF Settled
<1>35. ASSUME NEW t \in todo, RecoverRecord(t) PROVE (Settled(b)' => Settled(b) \/ Spent(b)')
  <2>1. UNCHANGED mem \/ \A u \in Tasks : mem'[u].att = None
    BY <1>35, RecoverRecordFacts DEF Blank
  <2>2. UNCHANGED <<acked, shown>> /\ TaskOf[b] \in Tasks
    BY <1>35, RecoverRecordFacts, BoundTask
  <2>3. mem'[TaskOf[b]].att = b => mem'[TaskOf[b]] = mem[TaskOf[b]]
    BY <2>1, <2>2, BindingAssumption
  <2> QED
    BY <2>2, <2>3, FaultsGrow DEF Settled
<1>36. CASE RecoverLog
  <2>1. CASE UNCHANGED <<mem, shown>>
    BY <1>36, <2>1, RecoverLogFacts, FaultsGrow DEF Settled
  <2>2. CASE /\ mem'[TaskOf[job.att]] = job.new /\ MemOnly(TaskOf[job.att])
             /\ Shows(job.att, job.new.out) /\ UNCHANGED up
    <3>1. /\ job.pc = "recoverLog" /\ job'.pc = "idle" /\ UNCHANGED <<acked, disk>> /\ up = "recovering"
          /\ job.att \in Attempts /\ job.new.att = job.att /\ TaskOf[b] \in Tasks
          /\ job.new.st \in {"Created"} \cup Over
      BY <1>36, RecoverLogFacts, JobTypes, BoundTask DEF Closes, ChangeInv, HandlerInv
    <3>2. CASE job.att # b
      <4>1. shown'[b] = shown[b]
        BY <2>2, <3>2 DEF Shows, ShownOnly
      <4>2. mem'[TaskOf[b]].att = b => mem'[TaskOf[b]] = mem[TaskOf[b]]
        BY <2>2, <3>1, <3>2 DEF MemOnly
      <4> QED
        BY <3>1, <4>1, <4>2, FaultsGrow DEF Settled
    <3>3. CASE job.att = b /\ job.new.st \in Over
      <4>1. Mirrors(disk[TaskOf[b]], job.new)
        BY <3>1, <3>3 DEF SealedInv
      <4> QED
        BY <2>2, <3>1, <3>3, <4>1 DEF Spent, Mirrors
    <3>4. CASE job.att = b /\ job.new.st = "Created"
      <4>1. job.new.out = "none" /\ job.new.stoppedBy = None
        BY <3>1, <3>4 DEF ShapeInv, TaskShape
      <4>2. shown'[b] = shown[b] /\ mem'[TaskOf[b]] = job.new
        BY <2>2, <3>4, <4>1 DEF Shows
      <4> QED
        BY <3>1, <4>1, <4>2, FaultsGrow DEF Settled
    <3> QED
      BY <3>1, <3>2, <3>3, <3>4
  <2>3. CASE UNCHANGED shown /\ \A u \in Tasks : Blank(mem'[u])
    <3>1. mem'[TaskOf[b]].att # b
      BY <2>3, BoundTask, BindingAssumption DEF Blank
    <3> QED
      BY <1>36, <2>3, <3>1, RecoverLogFacts, FaultsGrow DEF Settled
  <2> QED
    BY <1>36, <2>1, <2>2, <2>3, RecoverLogFacts
<1>37. CASE Serve
  BY <1>37, ServeFacts, BoundTask, BindingAssumption, FaultsGrow DEF Settled
<1>38. ASSUME NEW a \in Attempts, Launch(a) PROVE (Settled(b)' => Settled(b) \/ Spent(b)')
  BY <1>38, LaunchFacts, JobTypes, BoundTask, BindingAssumption, FaultsGrow DEF ReapOnly, Settled
<1>39. ASSUME NEW a \in Attempts, LateLaunch(a) PROVE (Settled(b)' => Settled(b) \/ Spent(b)')
  BY <1>39, LateLaunchFacts, JobTypes, BoundTask, BindingAssumption, FaultsGrow DEF ReapOnly,
    Settled
<1>40. ASSUME NEW a \in Attempts, DropLate(a) PROVE (Settled(b)' => Settled(b) \/ Spent(b)')
  BY <1>40, DropLateFacts, JobTypes, BoundTask, BindingAssumption, FaultsGrow DEF ReapOnly, Settled
<1>41. ASSUME NEW a \in Attempts, RecordExit(a) PROVE (Settled(b)' => Settled(b) \/ Spent(b)')
  BY <1>41, RecordExitFacts, JobTypes, BoundTask, BindingAssumption, FaultsGrow DEF ReapOnly, Opens,
    Idle, Settled
<1>42. ASSUME NEW a \in Attempts, NEW e \in Exits, WorkloadEnds(a, e) PROVE (Settled(b)' => Settled(b) \/ Spent(b)')
  BY <1>42, WorkloadEndsFacts, JobTypes, BoundTask, BindingAssumption, FaultsGrow DEF ReapOnly,
    Settled
<1>43. CASE NoThread
  BY <1>43, NoThreadFacts, JobTypes, BoundTask, BindingAssumption, FaultsGrow DEF ReapOnly, Settled
<1>44. ASSUME NEW a \in Attempts, SandboxSetUp(a) PROVE (Settled(b)' => Settled(b) \/ Spent(b)')
  BY <1>44, SandboxSetUpFacts, JobTypes, BoundTask, BindingAssumption, FaultsGrow DEF Settled
<1> QED
  BY <1>1, <1>2, <1>3, <1>4, <1>5, <1>6, <1>7, <1>8, <1>9, <1>10, <1>11, <1>12, <1>13, <1>14, <1>15,
    <1>16, <1>17, <1>18, <1>19, <1>20, <1>21, <1>22, <1>23, <1>24, <1>25, <1>26, <1>27, <1>28,
    <1>29, <1>30, <1>31, <1>32, <1>33, <1>34, <1>35, <1>36, <1>37, <1>38, <1>39, <1>40, <1>41, <1>42,
    <1>43, <1>44
  DEF Next, Request, JobStep, Answer, Reaper, Recovery

LEMMA SettledInductive == ASSUME RunInv, SettledInv, [Next]_vars PROVE SettledInv'
<1> SUFFICES ASSUME NEW b \in Attempts, Settled(b)' PROVE Spent(b)'
  BY DEF SettledInv
<1>1. CASE Settled(b)
  <2>1. Spent(b)
    BY <1>1 DEF SettledInv
  <2>2. CASE log[b].head = "none"
    BY <2>1, <2>2, SpentStays
  <2>3. CASE log[b].head # "none"
    <3>1. log'[b].head # "none"
      BY <2>3, HeadStays DEF RunInv, BaseInv
    <3> QED
      BY <3>1 DEF Spent
  <2> QED
    BY <2>2, <2>3
<1>2. CASE ~Settled(b)
  BY <1>2, SettledNew
<1> QED
  BY <1>1, <1>2

\* A stop of the attempt was answered, or recorded on its task.
Ceased(a) == a \in acked \/ (mem[TaskOf[a]].att = a /\ mem[TaskOf[a]].stoppedBy # None)
\* No workload of the attempt exists, and none can appear.
Gone(a) == reap[a] \notin {"launching", "late"} \cup LiveReap
StoppedInv == \A a \in Attempts : Ceased(a) => Gone(a)

LEMMA ReadyIdle ==
  ASSUME RunInv, NEW b \in Attempts, mem[TaskOf[b]].att = b, mem[TaskOf[b]].st = "Ready",
         ~Starting(b) \/ job.pc = "intent"
  PROVE  reap[b] \in {"none", "done"}
<1>1. ~mem[TaskOf[b]].run
  BY BoundTask DEF RunInv, BaseInv, ShapeInv, TaskShape
<1>2. log[b].head = "none"
  BY DEF RunInv, SealedInv
<1>3. b \notin superseded
  BY BoundTask DEF RunInv, BaseInv, ReplaceInv, Placed
<1>4. b \notin kept
  BY <1>2, <1>3 DEF RunInv, KeptInv
<1> QED
  BY <1>1, <1>4 DEF RunInv, TrackInv

LEMMA StoppedStep == ASSUME RunInv, SettledInv, StoppedInv, NEW b \in Attempts, Ceased(b)', [Next]_vars PROVE Gone(b)'
<1> USE DEF RunInv, BaseInv
<1>1. CASE UNCHANGED vars
  BY <1>1 DEF vars, registry, workloads, durable, process, history, Ceased, LiveReap, Gone,
    StoppedInv
<1>2. ASSUME NEW a \in Attempts, CreateNew(a) PROVE Gone(b)'
  BY <1>2, CreateNewFacts, BoundTask, BindingAssumption DEF Opens, Fresh, Idle, Ceased, LiveReap,
    Gone, StoppedInv
<1>3. ASSUME NEW a \in Attempts, CreateEvict(a) PROVE Gone(b)'
  <2>1. PICK t \in Tasks : UNCHANGED mem \/ (mem'[t].att = None /\ MemOnly(t))
    BY <1>3, CreateEvictFacts DEF Blank
  <2>2. UNCHANGED <<acked, reap>> /\ TaskOf[b] \in Tasks
    BY <1>3, CreateEvictFacts, BoundTask
  <2>3. mem'[TaskOf[b]].att = b => mem'[TaskOf[b]] = mem[TaskOf[b]]
    BY <2>1, <2>2, BindingAssumption DEF MemOnly
  <2> QED
    BY <2>2, <2>3 DEF Ceased, Gone, StoppedInv
<1>4. ASSUME NEW a \in Attempts, CreateReplace(a) PROVE Gone(b)'
  BY <1>4, CreateReplaceFacts, BoundTask, BindingAssumption DEF Opens, Fresh, Idle, Ceased,
    LiveReap, Gone, StoppedInv
<1>5. ASSUME NEW a \in Attempts, Pause(a) PROVE Gone(b)'
  BY <1>5, PauseFacts, BoundTask, BindingAssumption DEF FrozenOnly, Opens, Alike, Idle, Ceased,
    LiveReap, Gone, StoppedInv
<1>6. ASSUME NEW a \in Attempts, Resume(a) PROVE Gone(b)'
  BY <1>6, ResumeFacts, BoundTask, BindingAssumption DEF FrozenOnly, Opens, Alike, Idle, Ceased,
    LiveReap, Gone, StoppedInv
<1>7. ASSUME NEW a \in Attempts, Start(a) PROVE Gone(b)'
  BY <1>7, StartFacts, BoundTask, BindingAssumption DEF Opens, Idle, Ceased, LiveReap, Gone,
    StoppedInv
<1>8. ASSUME NEW a \in Attempts, NEW v \in Versions, Admit(a, v) PROVE Gone(b)'
  BY <1>8, AdmitFacts, BoundTask, BindingAssumption DEF Opens, Alike, Idle, Ceased, LiveReap, Gone,
    StoppedInv
<1>9. ASSUME NEW a \in Attempts, NEW op \in Ops, StopReady(op, a) PROVE Gone(b)'
  BY <1>9, StopReadyFacts, BoundTask, BindingAssumption DEF Opens, Ends, Idle, Ceased, LiveReap,
    Gone, StoppedInv
<1>10. ASSUME NEW a \in Attempts, NEW op \in Ops, StopLive(op, a) PROVE Gone(b)'
  BY <1>10, StopLiveFacts, BoundTask, BindingAssumption DEF MemOnly, FrozenOnly, Alike, Kills, Idle,
    Ceased, LiveReap, Gone, StoppedInv
<1>11. ASSUME NEW a \in Attempts, NEW op \in Ops, StopReplay(op, a) PROVE Gone(b)'
  BY <1>11, StopReplayFacts, BoundTask, BindingAssumption DEF Idle, Ceased, LiveReap, Gone,
    StoppedInv
<1>12. ASSUME NEW a \in Attempts, NEW op \in Ops, RevokeReady(op, a) PROVE Gone(b)'
  BY <1>12, RevokeReadyFacts, BoundTask, BindingAssumption DEF Opens, Ends, Idle, Ceased, LiveReap,
    Gone, StoppedInv
<1>13. ASSUME NEW a \in Attempts, NEW op \in Ops, RevokeLive(op, a) PROVE Gone(b)'
  BY <1>13, RevokeLiveFacts, BoundTask, BindingAssumption DEF MemOnly, FrozenOnly, Alike, Kills,
    Idle, Ceased, LiveReap, Gone, StoppedInv
<1>14. ASSUME NEW a \in Attempts, NEW op \in Ops, Seal(op, a) PROVE Gone(b)'
  BY <1>14, SealFacts, BoundTask, BindingAssumption DEF Opens, Idle, Ceased, LiveReap, Gone,
    StoppedInv
<1>15. CASE CreateWrite
  <2>1. CASE UNCHANGED mem
    BY <1>15, <2>1, CreateWriteFacts DEF Ceased, Gone, StoppedInv
  <2>2. CASE Applies
    <3>1. /\ job.pc # "idle" /\ job.new.st = "Created" /\ UNCHANGED <<acked, reap>>
          /\ job.att \in Attempts /\ job.new.att = job.att /\ TaskOf[b] \in Tasks
      BY <1>15, CreateWriteFacts, JobTypes, BoundTask DEF ChangeInv, HandlerInv
    <3>2. job.new.stoppedBy = None
      BY <3>1 DEF ShapeInv, TaskShape, LiveStates, ChangeInv
    <3>3. CASE TaskOf[b] # TaskOf[job.att]
      <4>1. mem'[TaskOf[b]] = mem[TaskOf[b]]
        BY <2>2, <3>1, <3>3 DEF Applies, MemOnly
      <4> QED
        BY <3>1, <4>1 DEF Ceased, Gone, StoppedInv
    <3>4. CASE TaskOf[b] = TaskOf[job.att]
      <4>1. mem'[TaskOf[b]] = job.new
        BY <2>2, <3>4 DEF Applies
      <4> QED
        BY <3>1, <3>2, <3>4, <4>1 DEF Ceased, Gone, StoppedInv
    <3> QED
      BY <3>3, <3>4
  <2> QED
    BY <1>15, <2>1, <2>2, CreateWriteFacts
<1>16. CASE CommitJournal
  BY <1>16, CommitJournalFacts, JobTypes, BoundTask, BindingAssumption DEF Moves, Closes, Refuses,
    Ceased, LiveReap, Gone, StoppedInv
<1>17. CASE CommitVersion
  BY <1>17, CommitVersionFacts, JobTypes, BoundTask, BindingAssumption DEF Moves, Ceased, LiveReap,
    Gone, StoppedInv
<1>18. CASE CommitEvidence
  <2>1. CASE UNCHANGED <<mem, acked>>
    BY <1>18, <2>1, CommitEvidenceFacts DEF Ceased, Gone, StoppedInv
  <2>2. CASE Applies /\ (UNCHANGED acked \/ (job.verb = "stop" /\ acked' = acked \cup {job.att}))
    <3>1. /\ job.pc = "evidence" /\ job.verb \in Changers /\ UNCHANGED reap
          /\ job.att \in Attempts /\ job.new.att = job.att /\ TaskOf[b] \in Tasks
      BY <1>18, CommitEvidenceFacts, JobTypes, BoundTask DEF HandlerInv
    <3>2. CASE job.att # b \/ job.verb # "stop"
      <4>1. b \in acked' => b \in acked
        BY <2>2, <3>2
      <4>2. mem'[TaskOf[b]].att = b /\ job.att # b => mem'[TaskOf[b]] = mem[TaskOf[b]]
        BY <2>2, <3>1 DEF Applies, MemOnly
      <4>3. job.verb # "stop" => job.new.stoppedBy = None
        BY <3>1 DEF ChangeInv, ShapeInv, TaskShape, Changers, LiveStates
      <4>4. job.att = b => mem'[TaskOf[b]] = job.new
        BY <2>2 DEF Applies
      <4> QED
        BY <3>1, <3>2, <4>1, <4>2, <4>3, <4>4 DEF Ceased, Gone, StoppedInv
    <3>3. CASE job.att = b /\ job.verb = "stop"
      <4>1. mem[TaskOf[b]].att = b /\ mem[TaskOf[b]].st = "Ready"
        BY <3>1, <3>3 DEF ChangeInv
      <4>2. reap[b] \in {"none", "done"}
        BY <3>1, <3>3, <4>1, ReadyIdle DEF Starting
      <4> QED
        BY <3>1, <4>2 DEF Gone, LiveReap
    <3> QED
      BY <3>2, <3>3
  <2> QED
    BY <1>18, <2>1, <2>2, CommitEvidenceFacts
<1>19. CASE Restore
  BY <1>19, RestoreFacts, JobTypes, BoundTask, BindingAssumption DEF Moves, Closes, Refuses, Ceased,
    LiveReap, Gone, StoppedInv
<1>20. CASE Undo
  BY <1>20, UndoFacts, JobTypes, BoundTask, BindingAssumption DEF FrozenOnly, Closes, Ceased,
    LiveReap, Gone, StoppedInv
<1>21. CASE SealOpen
  <2>1. CASE UNCHANGED mem
    BY <1>21, <2>1, SealOpenFacts DEF Ceased, Gone, StoppedInv
  <2>2. CASE Applies
    <3>1. /\ job.pc # "idle" /\ job.verb = "seal" /\ UNCHANGED <<acked, reap>>
          /\ job.att \in Attempts /\ job.new.att = job.att /\ TaskOf[b] \in Tasks
      BY <1>21, SealOpenFacts, JobTypes, BoundTask DEF ChangeInv, HandlerInv
    <3>2. mem[TaskOf[job.att]].att = job.att /\ job.new.stoppedBy = mem[TaskOf[job.att]].stoppedBy
      BY <3>1 DEF ShapeInv, TaskShape, LiveStates, ChangeInv
    <3>3. CASE TaskOf[b] # TaskOf[job.att]
      <4>1. mem'[TaskOf[b]] = mem[TaskOf[b]]
        BY <2>2, <3>1, <3>3 DEF Applies, MemOnly
      <4> QED
        BY <3>1, <4>1 DEF Ceased, Gone, StoppedInv
    <3>4. CASE TaskOf[b] = TaskOf[job.att]
      <4>1. mem'[TaskOf[b]] = job.new
        BY <2>2, <3>4 DEF Applies
      <4> QED
        BY <3>1, <3>2, <3>4, <4>1 DEF Ceased, Gone, StoppedInv
    <3> QED
      BY <3>3, <3>4
  <2> QED
    BY <1>21, <2>1, <2>2, SealOpenFacts
<1>22. CASE SealMark
  BY <1>22, SealMarkFacts, JobTypes, BoundTask, BindingAssumption DEF Moves, Ceased, LiveReap, Gone,
    StoppedInv
<1>23. CASE SealHeadNew
  BY <1>23, SealHeadNewFacts, JobTypes, BoundTask, BindingAssumption DEF Moves, Ceased, LiveReap,
    Gone, StoppedInv
<1>24. CASE SealHeadText
  <2>1. CASE UNCHANGED mem
    BY <1>24, <2>1, SealHeadTextFacts DEF Ceased, Gone, StoppedInv
  <2>2. CASE Applies
    <3>1. /\ job.pc # "idle" /\ job.verb = "seal" /\ UNCHANGED <<acked, reap>>
          /\ job.att \in Attempts /\ job.new.att = job.att /\ TaskOf[b] \in Tasks
      BY <1>24, SealHeadTextFacts, JobTypes, BoundTask DEF ChangeInv, HandlerInv
    <3>2. mem[TaskOf[job.att]].att = job.att /\ job.new.stoppedBy = mem[TaskOf[job.att]].stoppedBy
      BY <3>1 DEF ShapeInv, TaskShape, LiveStates, ChangeInv
    <3>3. CASE TaskOf[b] # TaskOf[job.att]
      <4>1. mem'[TaskOf[b]] = mem[TaskOf[b]]
        BY <2>2, <3>1, <3>3 DEF Applies, MemOnly
      <4> QED
        BY <3>1, <4>1 DEF Ceased, Gone, StoppedInv
    <3>4. CASE TaskOf[b] = TaskOf[job.att]
      <4>1. mem'[TaskOf[b]] = job.new
        BY <2>2, <3>4 DEF Applies
      <4> QED
        BY <3>1, <3>2, <3>4, <4>1 DEF Ceased, Gone, StoppedInv
    <3> QED
      BY <3>3, <3>4
  <2> QED
    BY <1>24, <2>1, <2>2, SealHeadTextFacts
<1>25. CASE LaunchIntent
  <2>1. UNCHANGED <<mem, acked>> /\ job.att \in Attempts /\ job.pc = "intent"
    BY <1>25, LaunchIntentFacts, JobTypes
  <2>2. Ceased(b) /\ Gone(b)
    BY <2>1 DEF Ceased, Gone, StoppedInv
  <2>3. job.att # b
    <3>1. SUFFICES ASSUME job.att = b PROVE FALSE
      OBVIOUS
    <3>2. mem[TaskOf[b]].att = b /\ mem[TaskOf[b]].st = "Ready"
      BY <2>1, <3>1 DEF ChangeInv, HandlerInv
    <3>3. log[b].head = "none"
      BY <3>2 DEF SealedInv
    <3>4. Spent(b)
      BY <2>2 DEF SettledInv, Settled, Ceased
    <3> QED
      BY <3>2, <3>3, <3>4 DEF Spent, Over, Ended
  <2>4. UNCHANGED reap \/ ReapOnly(job.att)
    BY <1>25, LaunchIntentFacts
  <2> QED
    BY <2>2, <2>3, <2>4 DEF Gone, ReapOnly
<1>26. CASE SpawnReport
  BY <1>26, SpawnReportFacts, JobTypes, BoundTask, BindingAssumption DEF ReapOnly, Opens, Closes,
    Ends, SpawnFails, Spawns, Ceased, LiveReap, Gone, StoppedInv
<1>27. CASE RecordRunning
  BY <1>27, RecordRunningFacts, JobTypes, BoundTask, BindingAssumption DEF Opens, Moves, Ends,
    SpawnFails, Ceased, LiveReap, Gone, StoppedInv
<1>28. CASE RecordLaunched
  <2>1. CASE UNCHANGED mem
    BY <1>28, <2>1, RecordLaunchedFacts DEF Ceased, Gone, StoppedInv
  <2>2. CASE Applies
    <3>1. /\ job.pc # "idle" /\ job.new.st = "Running" /\ UNCHANGED <<acked, reap>>
          /\ job.att \in Attempts /\ job.new.att = job.att /\ TaskOf[b] \in Tasks
      BY <1>28, RecordLaunchedFacts, JobTypes, BoundTask DEF ChangeInv, HandlerInv
    <3>2. job.new.stoppedBy = None
      BY <3>1 DEF ShapeInv, TaskShape, LiveStates, ChangeInv
    <3>3. CASE TaskOf[b] # TaskOf[job.att]
      <4>1. mem'[TaskOf[b]] = mem[TaskOf[b]]
        BY <2>2, <3>1, <3>3 DEF Applies, MemOnly
      <4> QED
        BY <3>1, <4>1 DEF Ceased, Gone, StoppedInv
    <3>4. CASE TaskOf[b] = TaskOf[job.att]
      <4>1. mem'[TaskOf[b]] = job.new
        BY <2>2, <3>4 DEF Applies
      <4> QED
        BY <3>1, <3>2, <3>4, <4>1 DEF Ceased, Gone, StoppedInv
    <3> QED
      BY <3>3, <3>4
  <2> QED
    BY <1>28, <2>1, <2>2, RecordLaunchedFacts
<1>29. CASE RecordEnd
  BY <1>29, RecordEndFacts, JobTypes, BoundTask, BindingAssumption DEF Moves, Ceased, LiveReap,
    Gone, StoppedInv
<1>30. CASE RecordEnded
  <2>1. /\ Applies /\ job.pc = "ended" /\ UNCHANGED acked
        /\ job.att \in Attempts /\ job.new.att = job.att /\ TaskOf[b] \in Tasks
        /\ job.verb \in {"start", "exit"}
        /\ job.verb = "exit" => reap'[job.att] = "done" /\ ReapOnly(job.att)
        /\ job.verb = "start" => UNCHANGED reap
    BY <1>30, RecordEndedFacts, JobTypes, BoundTask DEF HandlerInv
  <2>2. CASE job.att # b
    <3>1. mem'[TaskOf[b]].att = b => mem'[TaskOf[b]] = mem[TaskOf[b]]
      BY <2>1, <2>2 DEF Applies, MemOnly
    <3>2. reap'[b] = reap[b]
      BY <2>1, <2>2 DEF ReapOnly
    <3> QED
      BY <2>1, <3>1, <3>2 DEF Ceased, Gone, StoppedInv
  <2>3. CASE job.att = b /\ job.verb = "exit"
    BY <2>1, <2>3 DEF Gone, LiveReap
  <2>4. CASE job.att = b /\ job.verb = "start"
    <3>1. job.new.stoppedBy = None
      BY <2>1, <2>4 DEF ChangeInv
    <3>2. mem'[TaskOf[b]] = job.new
      BY <2>1, <2>4 DEF Applies
    <3> QED
      BY <2>1, <2>4, <3>1, <3>2 DEF Ceased, Gone, StoppedInv
  <2> QED
    BY <2>1, <2>2, <2>3, <2>4
<1>31. ASSUME NEW w \in waits, FinishStop(w) PROVE Gone(b)'
  BY <1>31, FinishStopFacts, BoundTask, BindingAssumption DEF Idle, Ceased, LiveReap, Gone,
    StoppedInv
<1>32. ASSUME NEW w \in waits, FinishRevoke(w) PROVE Gone(b)'
  BY <1>32, FinishRevokeFacts, BoundTask, BindingAssumption DEF Opens, Ends, Idle, Ceased, LiveReap,
    Gone, StoppedInv
<1>33. CASE Crash
  BY <1>33, CrashFacts DEF Gone, LiveReap
<1>34. CASE Restart
  BY <1>34, RestartFacts, BoundTask, BindingAssumption DEF Ceased, LiveReap, Gone, StoppedInv
<1>35. ASSUME NEW t \in todo, RecoverRecord(t) PROVE Gone(b)'
  <2>1. UNCHANGED reap /\ reap[b] = "none"
    BY <1>35, RecoverRecordFacts DEF DownInv
  <2> QED
    BY <2>1 DEF Gone, LiveReap
<1>36. CASE RecoverLog
  <2>1. UNCHANGED reap /\ reap[b] = "none"
    BY <1>36, RecoverLogFacts DEF DownInv
  <2> QED
    BY <2>1 DEF Gone, LiveReap
<1>37. CASE Serve
  BY <1>37, ServeFacts, BoundTask, BindingAssumption DEF Ceased, LiveReap, Gone, StoppedInv
<1>38. ASSUME NEW a \in Attempts, Launch(a) PROVE Gone(b)'
  BY <1>38, LaunchFacts, JobTypes, BoundTask, BindingAssumption DEF ReapOnly, Ceased, LiveReap,
    Gone, StoppedInv
<1>39. ASSUME NEW a \in Attempts, LateLaunch(a) PROVE Gone(b)'
  BY <1>39, LateLaunchFacts, JobTypes, BoundTask, BindingAssumption DEF ReapOnly, Ceased, LiveReap,
    Gone, StoppedInv
<1>40. ASSUME NEW a \in Attempts, DropLate(a) PROVE Gone(b)'
  BY <1>40, DropLateFacts, JobTypes, BoundTask, BindingAssumption DEF ReapOnly, Ceased, LiveReap,
    Gone, StoppedInv
<1>41. ASSUME NEW a \in Attempts, RecordExit(a) PROVE Gone(b)'
  BY <1>41, RecordExitFacts, JobTypes, BoundTask, BindingAssumption DEF ReapOnly, Opens, Idle,
    Ceased, LiveReap, Gone, StoppedInv
<1>42. ASSUME NEW a \in Attempts, NEW e \in Exits, WorkloadEnds(a, e) PROVE Gone(b)'
  BY <1>42, WorkloadEndsFacts, JobTypes, BoundTask, BindingAssumption DEF ReapOnly, Ceased,
    LiveReap, Gone, StoppedInv
<1>43. CASE NoThread
  BY <1>43, NoThreadFacts, JobTypes, BoundTask, BindingAssumption DEF ReapOnly, Ceased, LiveReap,
    Gone, StoppedInv
<1>44. ASSUME NEW a \in Attempts, SandboxSetUp(a) PROVE Gone(b)'
  BY <1>44, SandboxSetUpFacts, JobTypes, BoundTask, BindingAssumption DEF Ceased, LiveReap, Gone,
    StoppedInv
<1> QED
  BY <1>1, <1>2, <1>3, <1>4, <1>5, <1>6, <1>7, <1>8, <1>9, <1>10, <1>11, <1>12, <1>13, <1>14, <1>15,
    <1>16, <1>17, <1>18, <1>19, <1>20, <1>21, <1>22, <1>23, <1>24, <1>25, <1>26, <1>27, <1>28,
    <1>29, <1>30, <1>31, <1>32, <1>33, <1>34, <1>35, <1>36, <1>37, <1>38, <1>39, <1>40, <1>41, <1>42,
    <1>43, <1>44
  DEF Next, Request, JobStep, Answer, Reaper, Recovery

StopInv == RunInv /\ SettledInv /\ StoppedInv

LEMMA StopInductive == ASSUME StopInv, [Next]_vars PROVE StopInv'
<1>1. BaseInv' /\ TrackInv' /\ SealedInv' /\ JournalInv' /\ KeptInv'
  BY BaseInductive, TrackInductive, SealedInductive, JournalInductive, KeptInductive DEF StopInv,
    RunInv
<1>2. SettledInv'
  BY SettledInductive DEF StopInv
<1>3. StoppedInv'
  BY StoppedStep DEF StopInv, StoppedInv
<1> QED
  BY <1>1, <1>2, <1>3 DEF StopInv, RunInv

LEMMA StopInit == ASSUME Init PROVE StopInv
<1>1. BaseInv
  BY BaseInit
<1>2. /\ \A t \in Tasks : mem[t].att = None /\ mem[t].st = "absent"
      /\ \A t \in Tasks : disk[t].att = None /\ disk[t].st = "absent"
      /\ \A a \in Attempts : reap[a] = "none" /\ log[a].by = None /\ log[a].head = "none"
      /\ \A a \in Attempts : shown[a] = "none"
      /\ job.pc = "idle" /\ up = "up" /\ kept = {} /\ acked = {}
  BY NoTaskType, NoTaskBlank DEF Init, NoJob, NoLog, Blank
<1>3. TrackInv /\ KeptInv
  BY <1>2 DEF TrackInv, KeptInv
<1>4. SealedInv
  BY <1>2, BoundTask, BindingAssumption DEF SealedInv
<1>5. JournalInv
  BY <1>2, BoundTask, BindingAssumption DEF JournalInv, Starting
<1>6. SettledInv /\ StoppedInv
  BY <1>2, BoundTask, BindingAssumption DEF SettledInv, StoppedInv, Settled, Ceased
<1> QED
  BY <1>1, <1>3, <1>4, <1>5, <1>6 DEF StopInv, RunInv

\* The sandbox of an attempt sets itself up or runs only while its reaper has the workload.
TreeInv == \A a \in Attempts : tree[a] \in {"setup", "inside"} => reap[a] \in LiveReap

LEMMA TreeRequest == ASSUME TreeInv, Request PROVE TreeInv'
<1> SUFFICES UNCHANGED <<reap, tree>>
  BY DEF TreeInv
<1>1. ASSUME NEW a \in Attempts, CreateNew(a) \/ CreateEvict(a) \/ CreateReplace(a) \/ Start(a)
      PROVE  UNCHANGED <<reap, tree>>
  BY <1>1 DEF CreateNew, CreateEvict, CreateReplace, Start, workloads
<1>2. ASSUME NEW a \in Attempts, Pause(a) \/ Resume(a) PROVE UNCHANGED <<reap, tree>>
  BY <1>2 DEF Pause, Resume
<1>3. ASSUME NEW a \in Attempts, NEW v \in Versions, Admit(a, v) PROVE UNCHANGED <<reap, tree>>
  BY <1>3 DEF Admit, workloads
<1>4. ASSUME NEW a \in Attempts, NEW op \in Ops,
             StopReady(op, a) \/ StopReplay(op, a) \/ RevokeReady(op, a) \/ Seal(op, a)
      PROVE  UNCHANGED <<reap, tree>>
  BY <1>4 DEF StopReady, StopReplay, RevokeReady, Seal, workloads
<1>5. ASSUME NEW a \in Attempts, NEW op \in Ops, StopLive(op, a) \/ RevokeLive(op, a)
      PROVE  UNCHANGED <<reap, tree>>
  BY <1>5 DEF StopLive, RevokeLive
<1> QED
  BY <1>1, <1>2, <1>3, <1>4, <1>5 DEF Request

LEMMA TreeJobStep == ASSUME RunInv, TreeInv, JobStep PROVE TreeInv'
<1> USE DEF RunInv, BaseInv
<1>1. CASE CreateWrite \/ CommitJournal \/ CommitVersion \/ CommitEvidence \/ Restore
  BY <1>1 DEF CreateWrite, CommitJournal, CommitVersion, CommitEvidence, Restore, workloads, TreeInv
<1>2. CASE SealOpen \/ SealMark \/ SealHeadNew \/ SealHeadText \/ RecordEnd
  BY <1>2 DEF SealOpen, SealMark, SealHeadNew, SealHeadText, RecordEnd, workloads, TreeInv
<1>3. CASE Undo \/ RecordRunning \/ RecordLaunched
  BY <1>3 DEF Undo, RecordRunning, RecordLaunched, TreeInv
<1>4. CASE LaunchIntent
  <2>1. UNCHANGED tree
    BY <1>4 DEF LaunchIntent
  <2>2. job.pc = "intent" /\ job.att \in Attempts /\ (UNCHANGED reap \/ ReapOnly(job.att))
    BY <1>4, LaunchIntentFacts, JobTypes
  <2>3. mem[TaskOf[job.att]].att = job.att /\ mem[TaskOf[job.att]].st = "Ready"
    BY <2>2 DEF ChangeInv, HandlerInv
  <2>4. reap[job.att] \notin LiveReap
    BY <2>2, <2>3, ReadyIdle DEF LiveReap
  <2> QED
    BY <2>1, <2>2, <2>4 DEF TreeInv, ReapOnly
<1>5. CASE NoThread
  <2>1. UNCHANGED tree
    BY <1>5 DEF NoThread
  <2> QED
    BY <1>5, <2>1, NoThreadFacts DEF TreeInv, ReapOnly, LiveReap
<1>6. CASE SpawnReport
  <2>1. UNCHANGED tree
    BY <1>6 DEF SpawnReport
  <2>2. reap[job.att] \notin LiveReap \/ reap'[job.att] \in LiveReap
    BY <1>6, SpawnReportFacts DEF LiveReap
  <2>3. ReapOnly(job.att)
    BY <1>6, SpawnReportFacts
  <2> QED
    BY <2>1, <2>2, <2>3 DEF TreeInv, ReapOnly
<1>7. CASE RecordEnded
  <2>1. UNCHANGED tree
    BY <1>7 DEF RecordEnded
  <2>2. /\ job.pc = "ended" /\ job.verb \in {"start", "exit"}
        /\ job.verb = "exit" => ReapOnly(job.att)
        /\ job.verb = "start" => UNCHANGED reap
    BY <1>7, RecordEndedFacts DEF HandlerInv
  <2>3. job.verb = "exit" => reap[job.att] \notin LiveReap
    BY <2>2 DEF ChangeInv, Exits, LiveReap
  <2> QED
    BY <2>1, <2>2, <2>3 DEF TreeInv, ReapOnly
<1> QED
  BY <1>1, <1>2, <1>3, <1>4, <1>5, <1>6, <1>7 DEF JobStep

LEMMA TreeReaper == ASSUME RunInv, TreeInv, NEW a \in Attempts, Reaper(a) PROVE TreeInv'
<1> USE DEF RunInv, BaseInv
<1>0. tree \in [Attempts -> TreeStates]
  BY DEF TypeInv, WorkInv
<1>1. CASE Launch(a)
  <2>1. /\ ReapOnly(a) /\ reap[a] \notin LiveReap
    BY <1>1, LaunchFacts DEF LiveReap
  <2>2. UNCHANGED tree \/ (reap'[a] \in LiveReap /\ tree' = [tree EXCEPT ![a] = "setup"])
    BY <1>1, Types DEF Launch, LiveReap
  <2> QED
    BY <1>0, <2>1, <2>2 DEF TreeInv, ReapOnly
<1>2. CASE LateLaunch(a)
  <2>1. /\ ReapOnly(a) /\ reap[a] \notin LiveReap
    BY <1>2, LateLaunchFacts DEF LiveReap
  <2>2. UNCHANGED tree \/ (reap'[a] \in LiveReap /\ tree' = [tree EXCEPT ![a] = "setup"])
    BY <1>2, Types DEF LateLaunch, LiveReap
  <2> QED
    BY <1>0, <2>1, <2>2 DEF TreeInv, ReapOnly
<1>3. CASE SandboxSetUp(a)
  BY <1>0, <1>3 DEF SandboxSetUp, TreeInv
<1>4. CASE DropLate(a)
  <2>1. ReapOnly(a)
    BY <1>4, DropLateFacts
  <2>2. \E left \in {"none", "left"} : tree' = [tree EXCEPT ![a] = left]
    BY <1>4, TreeAfterType DEF DropLate
  <2> QED
    BY <1>0, <2>1, <2>2 DEF TreeInv, ReapOnly
<1>5. ASSUME NEW e \in Exits, WorkloadEnds(a, e) PROVE TreeInv'
  <2>1. ReapOnly(a)
    BY <1>5, WorkloadEndsFacts
  <2>2. \E left \in {"none", "left"} : tree' = [tree EXCEPT ![a] = left]
    BY <1>5, TreeAfterType DEF WorkloadEnds
  <2> QED
    BY <1>0, <2>1, <2>2 DEF TreeInv, ReapOnly
<1>6. CASE RecordExit(a)
  <2>1. UNCHANGED tree /\ reap[a] \notin LiveReap
    BY <1>6 DEF RecordExit, Exits, LiveReap
  <2>2. UNCHANGED reap \/ ReapOnly(a)
    BY <1>6, Types DEF RecordExit, ReapOnly
  <2> QED
    BY <2>1, <2>2 DEF TreeInv, ReapOnly
<1> QED
  BY <1>1, <1>2, <1>3, <1>4, <1>5, <1>6 DEF Reaper

LEMMA TreeRecovery == ASSUME RunInv, TreeInv, Recovery PROVE TreeInv'
<1>0. tree \in [Attempts -> TreeStates]
  BY DEF RunInv, BaseInv, TypeInv, WorkInv
<1>1. CASE Restart \/ RecoverLog \/ Serve
  BY <1>1 DEF Restart, RecoverLog, Serve, workloads, TreeInv
<1>2. ASSUME NEW t \in todo, RecoverRecord(t) PROVE TreeInv'
  <2>1. UNCHANGED reap /\ EndSurvivor(Recovered(disk[t]).att, disk[t])
    BY <1>2 DEF RecoverRecord
  <2>2. PICK a : UNCHANGED tree \/ tree' = [tree EXCEPT ![a] = "none"]
    BY <2>1 DEF EndSurvivor
  <2> QED
    BY <1>0, <2>1, <2>2 DEF TreeInv
<1> QED
  BY <1>1, <1>2 DEF Recovery

LEMMA TreeInductive == ASSUME RunInv, TreeInv, [Next]_vars PROVE TreeInv'
<1>1. CASE UNCHANGED vars
  BY <1>1 DEF vars, workloads, TreeInv
<1>2. CASE Answer
  BY <1>2 DEF Answer, FinishStop, FinishRevoke, workloads, TreeInv
<1>3. CASE Crash
  <2>1. \A a \in Attempts : tree'[a] \in TreeAfter(a)
    BY <1>3 DEF Crash
  <2> QED
    BY <2>1, TreeAfterType DEF TreeInv
<1> QED
  BY <1>1, <1>2, <1>3, TreeRequest, TreeJobStep, TreeReaper, TreeRecovery DEF Next

\* A stop answered `accepted' means that no process of the attempt's workload is on the host,
\* for ever, but for an inner tree whose outer bwrap was killed before the sandbox had set
\* itself up (the lapse `SandboxLauncher' names): no late launch, failed write, death,
\* recovery, replacement or eviction brings one back (StopConfirmed; `finish_stop' and
\* `begin_stop' against `record_spawn' and `recovered').
THEOREM AnsweredStopsHold == Spec => []StopConfirmed
<1>1. Init => StopInv /\ TreeInv
  BY StopInit DEF Init, TreeInv
<1>2. StopInv /\ TreeInv /\ [Next]_vars => StopInv' /\ TreeInv'
  BY StopInductive, TreeInductive DEF StopInv
<1>3. StopInv /\ TreeInv => StopConfirmed
  <2> SUFFICES ASSUME StopInv, TreeInv, NEW a \in acked
               PROVE  reap[a] \notin LiveReap /\ tree[a] \in {"none", "left"}
    BY DEF StopConfirmed
  <2>1. a \in Attempts
    BY DEF StopInv, RunInv, BaseInv, TypeInv, RestInv
  <2>2. reap[a] \notin LiveReap
    BY <2>1 DEF StopInv, StoppedInv, Ceased, Gone
  <2>3. tree[a] \in TreeStates
    BY <2>1 DEF StopInv, RunInv, BaseInv, TypeInv, WorkInv
  <2> QED
    BY <2>1, <2>2, <2>3 DEF TreeInv, TreeStates
<1> QED
  BY <1>1, <1>2, <1>3, PTL DEF Spec

--------------------------------------------------------------------------------
(* The receipt an attempt was reported with *)

\* Outcome o agrees with the one reported of attempt a: the same, or one of them is unknown
\* and a write has failed.
Matches(o, a) == o \in {"none", shown[a]} \/ ("unknown" \in {o, shown[a]} /\ faults # 0)

\* A restart reads record d of attempt a as ended with an outcome that agrees, if as ended.
Retells(d, a) ==
  /\ d.st \in Over => Matches(d.out, a)
  /\ d.st \in {"Launching"} \cup LiveStates => Matches("unknown", a)

Served(a) ==
  mem[TaskOf[a]].att = a =>
    Matches(mem[TaskOf[a]].out, a) /\ (mem[TaskOf[a]].out # "none" => shown[a] # "none")
Stored(a) == disk[TaskOf[a]].att = a /\ shown[a] # "none" => Retells(disk[TaskOf[a]], a)

ReceiptInv == \A a \in Attempts : Served(a) /\ Stored(a)

\* What is not over can only have been reported with an unknown outcome, after a failed write.
LEMMA OpenMatches ==
  ASSUME StopInv, NEW a \in Attempts, mem[TaskOf[a]].att = a,
         mem[TaskOf[a]].st \in {"Ready"} \cup LiveStates, shown[a] # "none"
  PROVE  shown[a] = "unknown" /\ faults # 0
<1>1. log[a].head = "none"
  BY DEF StopInv, RunInv, SealedInv
<1>2. ~Spent(a)
  BY <1>1 DEF Spent, Over, Ended, LiveStates
<1>3. ~Settled(a)
  BY <1>2 DEF StopInv, SettledInv
<1>4. shown[a] \in {"completed", "failed", "unknown"}
  BY Types DEF StopInv, RunInv, BaseInv, Outcomes
<1> QED
  BY <1>3, <1>4 DEF Settled

\* What a handler is about to write or apply agrees with what was reported.
LEMMA JobRetells ==
  ASSUME StopInv, ReceiptInv, job.pc # "idle", shown[job.att] # "none"
  PROVE  Retells(job.new, job.att) /\ Matches(job.new.out, job.att)
<1> USE DEF StopInv, RunInv, BaseInv
<1>1. job.att \in Attempts /\ TaskOf[job.att] \in Tasks /\ TaskShape(job.new) /\ job.new.st \in States
  BY JobTypes DEF ShapeInv
<1>2. job.verb \in {"create", "seal", "start", "exit", "recover"} \cup Changers
  <2>1. job.pc \in JobPcs
    BY DEF TypeInv, JobInv, Job
  <2> QED
    BY <2>1 DEF HandlerInv, Changers, JobPcs
<1>3. Retells(job.new, job.att)
  <2>1. CASE job.verb \in {"create", "admit"}
    <3>1. job.new.st \in {"Created", "Ready"}
      BY <2>1 DEF ChangeInv
    <3> QED
      BY <3>1 DEF Retells, Over, Ended, LiveStates
  <2>2. CASE job.verb \in {"pause", "resume", "stop", "revoke", "unconfirmed", "start", "exit"}
    <3>1. mem[TaskOf[job.att]].att = job.att /\ mem[TaskOf[job.att]].st \in {"Ready"} \cup LiveStates
      BY <2>2 DEF ChangeInv, LiveStates
    <3>2. shown[job.att] = "unknown" /\ faults # 0
      BY <1>1, <3>1, OpenMatches
    <3> QED
      BY <3>2 DEF Retells, Matches
  <2>3. CASE job.verb = "seal"
    <3>1. mem[TaskOf[job.att]].att = job.att /\ job.new.st = "Sealed" /\ job.new.out = mem[TaskOf[job.att]].out
      BY <2>3 DEF ChangeInv
    <3>2. Matches(job.new.out, job.att)
      BY <1>1, <3>1 DEF ReceiptInv, Served
    <3> QED
      BY <3>1, <3>2 DEF Retells, LiveStates
  <2>4. CASE job.verb = "recover"
    <3>1. job.pc = "recoverLog"
      <4>1. job.pc \in JobPcs
        BY DEF TypeInv, JobInv, Job
      <4> QED
        BY <2>4, <4>1 DEF HandlerInv, Changers, JobPcs
    <3>2. Mirrors(disk[TaskOf[job.att]], job.new) /\ job.new.att = job.att
      BY <1>1, <3>1, JobTypes DEF SealedInv
    <3>3. Retells(disk[TaskOf[job.att]], job.att)
      BY <1>1, <3>2 DEF ReceiptInv, Stored, Mirrors
    <3> QED
      BY <3>2, <3>3 DEF Retells, Mirrors
  <2> QED
    BY <1>2, <2>1, <2>2, <2>3, <2>4 DEF Changers
<1>4. job.new.st \notin Over => job.new.out = "none"
  BY <1>1, <1>2 DEF TaskShape, States, Over, Ended, LiveStates
<1> QED
  BY <1>3, <1>4 DEF Retells, Matches

\* Outcomes that agree go on agreeing while the report stands.
LEMMA MatchesStays ==
  ASSUME StopInv, [Next]_vars, NEW a \in Attempts, shown'[a] = shown[a], NEW o, Matches(o, a)
  PROVE  Matches(o, a)'
BY FaultsGrow DEF Matches, StopInv, RunInv, BaseInv

\* A handler's task becomes visible.
LEMMA AppliedServes ==
  ASSUME StopInv, ReceiptInv, [Next]_vars, NEW b \in Attempts, job.pc # "idle",
         mem'[TaskOf[job.att]] = job.new, MemOnly(TaskOf[job.att]), Shows(job.att, job.new.out)
  PROVE  Served(b)'
<1>1. job.att \in Attempts /\ job.new.att = job.att /\ TaskOf[b] \in Tasks
  BY JobTypes, BoundTask DEF StopInv, RunInv, BaseInv
<1>2. CASE job.att # b
  <2>1. shown'[b] = shown[b]
    BY <1>2 DEF Shows, ShownOnly
  <2>2. mem'[TaskOf[b]].att = b => mem'[TaskOf[b]] = mem[TaskOf[b]]
    BY <1>1, <1>2 DEF MemOnly
  <2>3. \A o : Matches(o, b) => Matches(o, b)'
    BY <2>1, MatchesStays
  <2> QED
    BY <2>1, <2>2, <2>3 DEF ReceiptInv, Served, Matches
<1>3. CASE job.att = b
  <2>1. CASE shown[b] = "none"
    <3>1. shown'[b] = job.new.out /\ mem'[TaskOf[b]] = job.new
      BY <1>3, <2>1 DEF Shows
    <3> QED
      BY <3>1 DEF Served, Matches
  <2>2. CASE shown[b] # "none"
    <3>1. shown'[b] = shown[b] /\ mem'[TaskOf[b]] = job.new
      BY <1>3, <2>2 DEF Shows
    <3>2. Matches(job.new.out, b)
      BY <1>3, <2>2, JobRetells
    <3>3. "unknown" \in {job.new.out, shown[b]} /\ faults # 0 => faults' # 0
      BY FaultsGrow DEF StopInv, RunInv, BaseInv
    <3> QED
      BY <2>2, <3>1, <3>2, <3>3 DEF Served, Matches
  <2> QED
    BY <2>1, <2>2
<1> QED
  BY <1>2, <1>3

LEMMA ServedStep == ASSUME StopInv, ReceiptInv, NEW b \in Attempts, [Next]_vars PROVE Served(b)'
<1> USE DEF StopInv, RunInv, BaseInv
<1>1. CASE UNCHANGED vars
  BY <1>1 DEF vars, registry, workloads, durable, process, history, ReceiptInv, Served, Matches
<1>2. ASSUME NEW a \in Attempts, CreateNew(a) PROVE Served(b)'
  BY <1>2, CreateNewFacts, BoundTask, BindingAssumption, FaultsGrow DEF Opens, Fresh, Idle,
    ReceiptInv, Served, Matches
<1>3. ASSUME NEW a \in Attempts, CreateEvict(a) PROVE Served(b)'
  <2>1. PICK t \in Tasks : UNCHANGED mem \/ (mem'[t].att = None /\ MemOnly(t))
    BY <1>3, CreateEvictFacts DEF Blank
  <2>2. UNCHANGED shown /\ TaskOf[b] \in Tasks
    BY <1>3, CreateEvictFacts, BoundTask
  <2>3. mem'[TaskOf[b]].att = b => mem'[TaskOf[b]] = mem[TaskOf[b]]
    BY <2>1, <2>2, BindingAssumption DEF MemOnly
  <2> QED
    BY <2>2, <2>3, FaultsGrow DEF ReceiptInv, Served, Matches
<1>4. ASSUME NEW a \in Attempts, CreateReplace(a) PROVE Served(b)'
  BY <1>4, CreateReplaceFacts, BoundTask, BindingAssumption, FaultsGrow DEF Opens, Fresh, Idle,
    ReceiptInv, Served, Matches
<1>5. ASSUME NEW a \in Attempts, Pause(a) PROVE Served(b)'
  BY <1>5, PauseFacts, BoundTask, BindingAssumption, FaultsGrow DEF FrozenOnly, Opens, Alike, Idle,
    ReceiptInv, Served, Matches
<1>6. ASSUME NEW a \in Attempts, Resume(a) PROVE Served(b)'
  BY <1>6, ResumeFacts, BoundTask, BindingAssumption, FaultsGrow DEF FrozenOnly, Opens, Alike, Idle,
    ReceiptInv, Served, Matches
<1>7. ASSUME NEW a \in Attempts, Start(a) PROVE Served(b)'
  BY <1>7, StartFacts, BoundTask, BindingAssumption, FaultsGrow DEF Opens, Idle, ReceiptInv, Served,
    Matches
<1>8. ASSUME NEW a \in Attempts, NEW v \in Versions, Admit(a, v) PROVE Served(b)'
  BY <1>8, AdmitFacts, BoundTask, BindingAssumption, FaultsGrow DEF Opens, Alike, Idle, ReceiptInv,
    Served, Matches
<1>9. ASSUME NEW a \in Attempts, NEW op \in Ops, StopReady(op, a) PROVE Served(b)'
  BY <1>9, StopReadyFacts, BoundTask, BindingAssumption, FaultsGrow DEF Opens, Ends, Idle,
    ReceiptInv, Served, Matches
<1>10. ASSUME NEW a \in Attempts, NEW op \in Ops, StopLive(op, a) PROVE Served(b)'
  BY <1>10, StopLiveFacts, BoundTask, BindingAssumption, FaultsGrow DEF MemOnly, FrozenOnly, Alike,
    Kills, Idle, ReceiptInv, Served, Matches
<1>11. ASSUME NEW a \in Attempts, NEW op \in Ops, StopReplay(op, a) PROVE Served(b)'
  BY <1>11, StopReplayFacts, BoundTask, BindingAssumption, FaultsGrow DEF Idle, ReceiptInv, Served,
    Matches
<1>12. ASSUME NEW a \in Attempts, NEW op \in Ops, RevokeReady(op, a) PROVE Served(b)'
  BY <1>12, RevokeReadyFacts, BoundTask, BindingAssumption, FaultsGrow DEF Opens, Ends, Idle,
    ReceiptInv, Served, Matches
<1>13. ASSUME NEW a \in Attempts, NEW op \in Ops, RevokeLive(op, a) PROVE Served(b)'
  BY <1>13, RevokeLiveFacts, BoundTask, BindingAssumption, FaultsGrow DEF MemOnly, FrozenOnly,
    Alike, Kills, Idle, ReceiptInv, Served, Matches
<1>14. ASSUME NEW a \in Attempts, NEW op \in Ops, Seal(op, a) PROVE Served(b)'
  BY <1>14, SealFacts, BoundTask, BindingAssumption, FaultsGrow DEF Opens, Idle, ReceiptInv, Served,
    Matches
<1>15. CASE CreateWrite
  <2>1. job.pc # "idle"
    BY <1>15, CreateWriteFacts
  <2>2. CASE mem'[TaskOf[job.att]] = job.new /\ MemOnly(TaskOf[job.att]) /\ Shows(job.att, job.new.out)
    BY <2>1, <2>2, AppliedServes
  <2>3. CASE UNCHANGED <<mem, shown>>
    BY <2>3, FaultsGrow DEF ReceiptInv, Served, Matches
  <2> QED
    BY <1>15, <2>2, <2>3, CreateWriteFacts DEF Applies
<1>16. CASE CommitJournal
  BY <1>16, CommitJournalFacts, JobTypes, BoundTask, BindingAssumption, FaultsGrow DEF Moves,
    Closes, Refuses, ReceiptInv, Served, Matches
<1>17. CASE CommitVersion
  BY <1>17, CommitVersionFacts, JobTypes, BoundTask, BindingAssumption, FaultsGrow DEF Moves,
    ReceiptInv, Served, Matches
<1>18. CASE CommitEvidence
  <2>1. job.pc # "idle"
    BY <1>18, CommitEvidenceFacts
  <2>2. CASE mem'[TaskOf[job.att]] = job.new /\ MemOnly(TaskOf[job.att]) /\ Shows(job.att, job.new.out)
    BY <2>1, <2>2, AppliedServes
  <2>3. CASE UNCHANGED <<mem, shown>>
    BY <2>3, FaultsGrow DEF ReceiptInv, Served, Matches
  <2> QED
    BY <1>18, <2>2, <2>3, CommitEvidenceFacts DEF Applies
<1>19. CASE Restore
  BY <1>19, RestoreFacts, JobTypes, BoundTask, BindingAssumption, FaultsGrow DEF Moves, Closes,
    Refuses, ReceiptInv, Served, Matches
<1>20. CASE Undo
  BY <1>20, UndoFacts, JobTypes, BoundTask, BindingAssumption, FaultsGrow DEF FrozenOnly, Closes,
    ReceiptInv, Served, Matches
<1>21. CASE SealOpen
  <2>1. job.pc # "idle"
    BY <1>21, SealOpenFacts
  <2>2. CASE mem'[TaskOf[job.att]] = job.new /\ MemOnly(TaskOf[job.att]) /\ Shows(job.att, job.new.out)
    BY <2>1, <2>2, AppliedServes
  <2>3. CASE UNCHANGED <<mem, shown>>
    BY <2>3, FaultsGrow DEF ReceiptInv, Served, Matches
  <2> QED
    BY <1>21, <2>2, <2>3, SealOpenFacts DEF Applies
<1>22. CASE SealMark
  BY <1>22, SealMarkFacts, JobTypes, BoundTask, BindingAssumption, FaultsGrow DEF Moves, ReceiptInv,
    Served, Matches
<1>23. CASE SealHeadNew
  BY <1>23, SealHeadNewFacts, JobTypes, BoundTask, BindingAssumption, FaultsGrow DEF Moves,
    ReceiptInv, Served, Matches
<1>24. CASE SealHeadText
  <2>1. job.pc # "idle"
    BY <1>24, SealHeadTextFacts
  <2>2. CASE mem'[TaskOf[job.att]] = job.new /\ MemOnly(TaskOf[job.att]) /\ Shows(job.att, job.new.out)
    BY <2>1, <2>2, AppliedServes
  <2>3. CASE UNCHANGED <<mem, shown>>
    BY <2>3, FaultsGrow DEF ReceiptInv, Served, Matches
  <2> QED
    BY <1>24, <2>2, <2>3, SealHeadTextFacts DEF Applies
<1>25. CASE LaunchIntent
  BY <1>25, LaunchIntentFacts, JobTypes, BoundTask, BindingAssumption, FaultsGrow DEF ReapOnly,
    Moves, Closes, Intends, ReceiptInv, Served, Matches
<1>26. CASE SpawnReport
  BY <1>26, SpawnReportFacts, JobTypes, BoundTask, BindingAssumption, FaultsGrow DEF ReapOnly,
    Opens, Closes, Ends, SpawnFails, Spawns, ReceiptInv, Served, Matches
<1>27. CASE RecordRunning
  BY <1>27, RecordRunningFacts, JobTypes, BoundTask, BindingAssumption, FaultsGrow DEF Opens, Moves,
    Ends, SpawnFails, ReceiptInv, Served, Matches
<1>28. CASE RecordLaunched
  <2>1. job.pc # "idle"
    BY <1>28, RecordLaunchedFacts
  <2>2. CASE mem'[TaskOf[job.att]] = job.new /\ MemOnly(TaskOf[job.att]) /\ Shows(job.att, job.new.out)
    BY <2>1, <2>2, AppliedServes
  <2>3. CASE UNCHANGED <<mem, shown>>
    BY <2>3, FaultsGrow DEF ReceiptInv, Served, Matches
  <2> QED
    BY <1>28, <2>2, <2>3, RecordLaunchedFacts DEF Applies
<1>29. CASE RecordEnd
  BY <1>29, RecordEndFacts, JobTypes, BoundTask, BindingAssumption, FaultsGrow DEF Moves,
    ReceiptInv, Served, Matches
<1>30. CASE RecordEnded
  <2>1. job.pc # "idle"
    BY <1>30, RecordEndedFacts
  <2>2. CASE mem'[TaskOf[job.att]] = job.new /\ MemOnly(TaskOf[job.att]) /\ Shows(job.att, job.new.out)
    BY <2>1, <2>2, AppliedServes
  <2>3. CASE UNCHANGED <<mem, shown>>
    BY <2>3, FaultsGrow DEF ReceiptInv, Served, Matches
  <2> QED
    BY <1>30, <2>2, <2>3, RecordEndedFacts DEF Applies
<1>31. ASSUME NEW w \in waits, FinishStop(w) PROVE Served(b)'
  BY <1>31, FinishStopFacts, BoundTask, BindingAssumption, FaultsGrow DEF Idle, ReceiptInv, Served,
    Matches
<1>32. ASSUME NEW w \in waits, FinishRevoke(w) PROVE Served(b)'
  BY <1>32, FinishRevokeFacts, BoundTask, BindingAssumption, FaultsGrow DEF Opens, Ends, Idle,
    ReceiptInv, Served, Matches
<1>33. CASE Crash
  BY <1>33, CrashFacts, BoundTask, BindingAssumption, FaultsGrow DEF Closes, Blank, ReceiptInv,
    Served, Matches
<1>34. CASE Restart
  BY <1>34, RestartFacts, BoundTask, BindingAssumption, FaultsGrow DEF ReceiptInv, Served, Matches
<1>35. ASSUME NEW t \in todo, RecoverRecord(t) PROVE Served(b)'
  <2>1. UNCHANGED mem \/ \A u \in Tasks : mem'[u].att = None
    BY <1>35, RecoverRecordFacts DEF Blank
  <2>2. UNCHANGED shown /\ TaskOf[b] \in Tasks
    BY <1>35, RecoverRecordFacts, BoundTask
  <2>3. mem'[TaskOf[b]].att = b => mem'[TaskOf[b]] = mem[TaskOf[b]]
    BY <2>1, <2>2, BindingAssumption DEF MemOnly
  <2> QED
    BY <2>2, <2>3, FaultsGrow DEF ReceiptInv, Served, Matches
<1>36. CASE RecoverLog
  <2>1. job.pc # "idle"
    BY <1>36, RecoverLogFacts
  <2>2. CASE mem'[TaskOf[job.att]] = job.new /\ MemOnly(TaskOf[job.att]) /\ Shows(job.att, job.new.out)
    BY <2>1, <2>2, AppliedServes
  <2>3. CASE UNCHANGED <<mem, shown>>
    BY <2>3, FaultsGrow DEF ReceiptInv, Served, Matches
  <2>4. CASE \A u \in Tasks : Blank(mem'[u])
    BY <2>4, BoundTask, BindingAssumption DEF Served, Blank
  <2> QED
    BY <1>36, <2>2, <2>3, <2>4, RecoverLogFacts DEF Applies
<1>37. CASE Serve
  BY <1>37, ServeFacts, BoundTask, BindingAssumption, FaultsGrow DEF ReceiptInv, Served, Matches
<1>38. ASSUME NEW a \in Attempts, Launch(a) PROVE Served(b)'
  BY <1>38, LaunchFacts, JobTypes, BoundTask, BindingAssumption, FaultsGrow DEF ReapOnly,
    ReceiptInv, Served, Matches
<1>39. ASSUME NEW a \in Attempts, LateLaunch(a) PROVE Served(b)'
  BY <1>39, LateLaunchFacts, JobTypes, BoundTask, BindingAssumption, FaultsGrow DEF ReapOnly,
    ReceiptInv, Served, Matches
<1>40. ASSUME NEW a \in Attempts, DropLate(a) PROVE Served(b)'
  BY <1>40, DropLateFacts, JobTypes, BoundTask, BindingAssumption, FaultsGrow DEF ReapOnly,
    ReceiptInv, Served, Matches
<1>41. ASSUME NEW a \in Attempts, RecordExit(a) PROVE Served(b)'
  BY <1>41, RecordExitFacts, JobTypes, BoundTask, BindingAssumption, FaultsGrow DEF ReapOnly, Opens,
    Idle, ReceiptInv, Served, Matches
<1>42. ASSUME NEW a \in Attempts, NEW e \in Exits, WorkloadEnds(a, e) PROVE Served(b)'
  BY <1>42, WorkloadEndsFacts, JobTypes, BoundTask, BindingAssumption, FaultsGrow DEF ReapOnly,
    ReceiptInv, Served, Matches
<1>43. CASE NoThread
  BY <1>43, NoThreadFacts, JobTypes, BoundTask, BindingAssumption, FaultsGrow DEF ReapOnly,
    ReceiptInv, Served, Matches
<1>44. ASSUME NEW a \in Attempts, SandboxSetUp(a) PROVE Served(b)'
  BY <1>44, SandboxSetUpFacts, JobTypes, BoundTask, BindingAssumption, FaultsGrow DEF ReceiptInv,
    Served, Matches
<1> QED
  BY <1>1, <1>2, <1>3, <1>4, <1>5, <1>6, <1>7, <1>8, <1>9, <1>10, <1>11, <1>12, <1>13, <1>14, <1>15,
    <1>16, <1>17, <1>18, <1>19, <1>20, <1>21, <1>22, <1>23, <1>24, <1>25, <1>26, <1>27, <1>28,
    <1>29, <1>30, <1>31, <1>32, <1>33, <1>34, <1>35, <1>36, <1>37, <1>38, <1>39, <1>40, <1>41, <1>42,
    <1>43, <1>44
  DEF Next, Request, JobStep, Answer, Reaper, Recovery

\* A handler's record is written, or its write fails, and the report stands.
LEMMA WrittenStores ==
  ASSUME StopInv, ReceiptInv, [Next]_vars, NEW b \in Attempts, UNCHANGED shown, NEW r,
         NEW a \in Attempts, r.att = a, shown[a] # "none" => Retells(r, a),
         DiskOnly(TaskOf[a]),
         disk'[TaskOf[a]] = disk[TaskOf[a]] \/ Mirrors(disk'[TaskOf[a]], r)
  PROVE  Stored(b)'
<1>1. TaskOf[b] \in Tasks /\ TaskOf[a] \in Tasks /\ shown'[b] = shown[b]
  BY BoundTask
<1>2. \A o : Matches(o, b) => Matches(o, b)'
  BY <1>1, MatchesStays
<1>3. CASE disk'[TaskOf[b]] = disk[TaskOf[b]]
  BY <1>1, <1>2, <1>3 DEF ReceiptInv, Stored, Retells, Matches
<1>4. CASE TaskOf[a] = TaskOf[b] /\ Mirrors(disk'[TaskOf[a]], r)
  <2>1. CASE a = b
    <3>1. shown[b] # "none" => Retells(r, b)
      BY <2>1
    <3>2. disk'[TaskOf[b]].st = r.st /\ disk'[TaskOf[b]].out = r.out
      BY <1>4 DEF Mirrors
    <3> QED
      BY <1>1, <1>2, <3>1, <3>2 DEF Stored, Retells, Matches
  <2>2. CASE a # b
    BY <1>4, <2>2 DEF Stored, Mirrors
  <2> QED
    BY <2>1, <2>2
<1> QED
  BY <1>1, <1>3, <1>4 DEF DiskOnly

\* A handler's task becomes visible, its record written before.
LEMMA AppliedStores ==
  ASSUME StopInv, ReceiptInv, [Next]_vars, NEW b \in Attempts, job.pc # "idle",
         UNCHANGED disk, Shows(job.att, job.new.out),
         \/ Mirrors(disk[TaskOf[job.att]], job.new)
         \/ job.new.out = "none"
  PROVE  Stored(b)'
<1>1. job.att \in Attempts /\ job.new.att = job.att /\ TaskOf[b] \in Tasks
  BY JobTypes, BoundTask DEF StopInv, RunInv, BaseInv
<1>2. CASE shown'[b] = shown[b]
  <2>1. \A o : Matches(o, b) => Matches(o, b)'
    BY <1>2, MatchesStays
  <2> QED
    BY <1>2, <2>1 DEF ReceiptInv, Stored, Retells, Matches
<1>3. CASE shown'[b] # shown[b]
  <2>1. job.att = b /\ shown'[b] = job.new.out /\ shown[b] = "none"
    BY <1>3 DEF Shows, ShownOnly
  <2>2. Mirrors(disk[TaskOf[b]], job.new) /\ job.new.out # "none"
    BY <1>3, <2>1
  <2>3. job.new.st \in Over
    <3>1. TaskShape(job.new) /\ job.new.st \in States
      BY JobTypes DEF StopInv, RunInv, BaseInv, ShapeInv
    <3> QED
      BY <2>2, <3>1 DEF TaskShape, States, Over, Ended, LiveStates
  <2> QED
    BY <2>1, <2>2, <2>3 DEF Stored, Retells, Matches, Mirrors, Over, Ended, LiveStates
<1> QED
  BY <1>2, <1>3

LEMMA StoredStep == ASSUME StopInv, ReceiptInv, NEW b \in Attempts, [Next]_vars PROVE Stored(b)'
<1> USE DEF StopInv, RunInv, BaseInv
<1>1. CASE UNCHANGED vars
  BY <1>1 DEF vars, registry, workloads, durable, process, history, ReceiptInv, Stored, Retells,
    Matches
<1>2. ASSUME NEW a \in Attempts, CreateNew(a) PROVE Stored(b)'
  BY <1>2, CreateNewFacts, BoundTask, BindingAssumption, FaultsGrow DEF Opens, Fresh, Idle,
    ReceiptInv, Stored, Retells, Matches
<1>3. ASSUME NEW a \in Attempts, CreateEvict(a) PROVE Stored(b)'
  <2>1. PICK t \in Tasks : DiskOnly(t) /\ (disk'[t] = disk[t] \/ disk'[t].att = None)
    BY <1>3, CreateEvictFacts DEF Blank
  <2>2. UNCHANGED shown /\ TaskOf[b] \in Tasks
    BY <1>3, CreateEvictFacts, BoundTask
  <2>3. disk'[TaskOf[b]] = disk[TaskOf[b]] \/ disk'[TaskOf[b]].att = None
    BY <2>1, <2>2 DEF DiskOnly
  <2>4. \A o : Matches(o, b) => Matches(o, b)'
    BY <2>2, MatchesStays
  <2> QED
    BY <2>2, <2>3, <2>4, BindingAssumption DEF ReceiptInv, Stored, Retells, Matches
<1>4. ASSUME NEW a \in Attempts, CreateReplace(a) PROVE Stored(b)'
  BY <1>4, CreateReplaceFacts, BoundTask, BindingAssumption, FaultsGrow DEF Opens, Fresh, Idle,
    ReceiptInv, Stored, Retells, Matches
<1>5. ASSUME NEW a \in Attempts, Pause(a) PROVE Stored(b)'
  BY <1>5, PauseFacts, BoundTask, BindingAssumption, FaultsGrow DEF FrozenOnly, Opens, Alike, Idle,
    ReceiptInv, Stored, Retells, Matches
<1>6. ASSUME NEW a \in Attempts, Resume(a) PROVE Stored(b)'
  BY <1>6, ResumeFacts, BoundTask, BindingAssumption, FaultsGrow DEF FrozenOnly, Opens, Alike, Idle,
    ReceiptInv, Stored, Retells, Matches
<1>7. ASSUME NEW a \in Attempts, Start(a) PROVE Stored(b)'
  BY <1>7, StartFacts, BoundTask, BindingAssumption, FaultsGrow DEF Opens, Idle, ReceiptInv, Stored,
    Retells, Matches
<1>8. ASSUME NEW a \in Attempts, NEW v \in Versions, Admit(a, v) PROVE Stored(b)'
  BY <1>8, AdmitFacts, BoundTask, BindingAssumption, FaultsGrow DEF Opens, Alike, Idle, ReceiptInv,
    Stored, Retells, Matches
<1>9. ASSUME NEW a \in Attempts, NEW op \in Ops, StopReady(op, a) PROVE Stored(b)'
  BY <1>9, StopReadyFacts, BoundTask, BindingAssumption, FaultsGrow DEF Opens, Ends, Idle,
    ReceiptInv, Stored, Retells, Matches
<1>10. ASSUME NEW a \in Attempts, NEW op \in Ops, StopLive(op, a) PROVE Stored(b)'
  BY <1>10, StopLiveFacts, BoundTask, BindingAssumption, FaultsGrow DEF MemOnly, FrozenOnly, Alike,
    Kills, Idle, ReceiptInv, Stored, Retells, Matches
<1>11. ASSUME NEW a \in Attempts, NEW op \in Ops, StopReplay(op, a) PROVE Stored(b)'
  BY <1>11, StopReplayFacts, BoundTask, BindingAssumption, FaultsGrow DEF Idle, ReceiptInv, Stored,
    Retells, Matches
<1>12. ASSUME NEW a \in Attempts, NEW op \in Ops, RevokeReady(op, a) PROVE Stored(b)'
  BY <1>12, RevokeReadyFacts, BoundTask, BindingAssumption, FaultsGrow DEF Opens, Ends, Idle,
    ReceiptInv, Stored, Retells, Matches
<1>13. ASSUME NEW a \in Attempts, NEW op \in Ops, RevokeLive(op, a) PROVE Stored(b)'
  BY <1>13, RevokeLiveFacts, BoundTask, BindingAssumption, FaultsGrow DEF MemOnly, FrozenOnly,
    Alike, Kills, Idle, ReceiptInv, Stored, Retells, Matches
<1>14. ASSUME NEW a \in Attempts, NEW op \in Ops, Seal(op, a) PROVE Stored(b)'
  BY <1>14, SealFacts, BoundTask, BindingAssumption, FaultsGrow DEF Opens, Idle, ReceiptInv, Stored,
    Retells, Matches
<1>15. CASE CreateWrite
  <2>1. /\ job.pc # "idle" /\ job.new.st = "Created" /\ job.att \in Attempts /\ job.new.att = job.att
        /\ TaskOf[b] \in Tasks
    BY <1>15, CreateWriteFacts, JobTypes, BoundTask DEF ChangeInv
  <2>2. job.new.out = "none"
    BY <2>1 DEF ShapeInv, TaskShape
  <2>3. shown'[b] = shown[b]
    <3>1. UNCHANGED shown \/ Shows(job.att, job.new.out)
      BY <1>15, CreateWriteFacts DEF Applies
    <3> QED
      BY <2>1, <2>2, <3>1 DEF Shows, ShownOnly
  <2>4. disk'[TaskOf[b]] = disk[TaskOf[b]] \/ disk'[TaskOf[b]].st = "Created"
    BY <1>15, <2>1, CreateWriteFacts DEF Writes, Fails, DiskOnly, Mirrors
  <2>5. \A o : Matches(o, b) => Matches(o, b)'
    BY <2>3, MatchesStays
  <2> QED
    BY <2>3, <2>4, <2>5 DEF ReceiptInv, Stored, Retells, Matches, Over, Ended, LiveStates
<1>16. CASE CommitJournal
  <2>1. job.pc # "idle" /\ UNCHANGED shown
    BY <1>16, CommitJournalFacts
  <2>2. job.att \in Attempts /\ job.new.att = job.att
    BY <2>1, JobTypes
  <2>3. shown[job.att] # "none" => Retells(job.new, job.att)
    BY <2>1, JobRetells
  <2>4. /\ DiskOnly(TaskOf[job.att])
        /\ \/ disk'[TaskOf[job.att]] = disk[TaskOf[job.att]]
           \/ Mirrors(disk'[TaskOf[job.att]], job.new)
    BY <1>16, CommitJournalFacts DEF Writes, Fails
  <2> QED
    BY <2>1, <2>2, <2>3, <2>4, WrittenStores
<1>17. CASE CommitVersion
  BY <1>17, CommitVersionFacts, JobTypes, BoundTask, BindingAssumption, FaultsGrow DEF Moves,
    ReceiptInv, Stored, Retells, Matches
<1>18. CASE CommitEvidence
  <2>1. job.pc # "idle" /\ job.att \in Attempts /\ UNCHANGED disk
    BY <1>18, CommitEvidenceFacts, JobTypes
  <2>2. CASE Shows(job.att, job.new.out)
    <3>1. Mirrors(disk[TaskOf[job.att]], job.new)
      BY <1>18, <2>1, CommitEvidenceFacts DEF JournalInv
    <3> QED
      BY <2>1, <2>2, <3>1, AppliedStores
  <2>3. CASE UNCHANGED shown
    BY <2>1, <2>3, FaultsGrow DEF ReceiptInv, Stored, Retells, Matches
  <2> QED
    BY <1>18, <2>2, <2>3, CommitEvidenceFacts DEF Applies
<1>19. CASE Restore
  <2>1. job.pc = "restore" /\ UNCHANGED shown
    BY <1>19, RestoreFacts
  <2>2. job.att \in Attempts /\ TaskOf[job.att] \in Tasks /\ mem[TaskOf[job.att]].att = job.att
    BY <2>1, JobTypes DEF HandlerInv, ChangeInv, Changers
  <2>3. shown[job.att] # "none" => Retells(mem[TaskOf[job.att]], job.att)
    <3>1. Matches(mem[TaskOf[job.att]].out, job.att)
      BY <2>2 DEF ReceiptInv, Served
    <3>2. mem[TaskOf[job.att]].st \in LiveStates /\ shown[job.att] # "none" => Matches("unknown", job.att)
      BY <2>2, OpenMatches DEF Matches
    <3>3. mem[TaskOf[job.att]].st # "Launching"
      BY <2>2 DEF TypeInv, MemInv
    <3> QED
      BY <3>1, <3>2, <3>3 DEF Retells
  <2>4. /\ DiskOnly(TaskOf[job.att])
        /\ \/ disk'[TaskOf[job.att]] = disk[TaskOf[job.att]]
           \/ Mirrors(disk'[TaskOf[job.att]], mem[TaskOf[job.att]])
    BY <1>19, RestoreFacts DEF Writes, Fails
  <2> QED
    BY <2>1, <2>2, <2>3, <2>4, WrittenStores
<1>20. CASE Undo
  BY <1>20, UndoFacts, JobTypes, BoundTask, BindingAssumption, FaultsGrow DEF FrozenOnly, Closes,
    ReceiptInv, Stored, Retells, Matches
<1>21. CASE SealOpen
  <2>1. job.pc # "idle" /\ job.att \in Attempts /\ UNCHANGED disk
    BY <1>21, SealOpenFacts, JobTypes
  <2>2. CASE Shows(job.att, job.new.out)
    <3>1. Mirrors(disk[TaskOf[job.att]], job.new)
      BY <1>21, <2>1, SealOpenFacts DEF SealedInv
    <3> QED
      BY <2>1, <2>2, <3>1, AppliedStores
  <2>3. CASE UNCHANGED shown
    BY <2>1, <2>3, FaultsGrow DEF ReceiptInv, Stored, Retells, Matches
  <2> QED
    BY <1>21, <2>2, <2>3, SealOpenFacts DEF Applies
<1>22. CASE SealMark
  BY <1>22, SealMarkFacts, JobTypes, BoundTask, BindingAssumption, FaultsGrow DEF Moves, ReceiptInv,
    Stored, Retells, Matches
<1>23. CASE SealHeadNew
  BY <1>23, SealHeadNewFacts, JobTypes, BoundTask, BindingAssumption, FaultsGrow DEF Moves,
    ReceiptInv, Stored, Retells, Matches
<1>24. CASE SealHeadText
  <2>1. job.pc # "idle" /\ job.att \in Attempts /\ UNCHANGED disk
    BY <1>24, SealHeadTextFacts, JobTypes
  <2>2. CASE Shows(job.att, job.new.out)
    <3>1. Mirrors(disk[TaskOf[job.att]], job.new)
      BY <1>24, <2>1, SealHeadTextFacts DEF SealedInv
    <3> QED
      BY <2>1, <2>2, <3>1, AppliedStores
  <2>3. CASE UNCHANGED shown
    BY <2>1, <2>3, FaultsGrow DEF ReceiptInv, Stored, Retells, Matches
  <2> QED
    BY <1>24, <2>2, <2>3, SealHeadTextFacts DEF Applies
<1>25. CASE LaunchIntent
  <2>1. /\ job.pc = "intent" /\ UNCHANGED shown /\ DiskOnly(TaskOf[job.att])
        /\ \/ disk'[TaskOf[job.att]] = disk[TaskOf[job.att]]
           \/ Intends(disk'[TaskOf[job.att]], job.new)
    BY <1>25, LaunchIntentFacts
  <2>2. job.att \in Attempts /\ job.new.att = job.att /\ TaskOf[b] \in Tasks /\ TaskOf[job.att] \in Tasks
    BY <2>1, JobTypes, BoundTask
  <2>3. shown[job.att] # "none" => Matches("unknown", job.att)
    <3>1. mem[TaskOf[job.att]].att = job.att /\ mem[TaskOf[job.att]].st = "Ready"
      BY <2>1 DEF ChangeInv, HandlerInv
    <3> QED
      BY <2>2, <3>1, OpenMatches DEF Matches
  <2>4. \A o : Matches(o, b) => Matches(o, b)'
    BY <2>1, MatchesStays
  <2>5. \/ disk'[TaskOf[b]] = disk[TaskOf[b]]
        \/ disk'[TaskOf[b]].att = job.att /\ disk'[TaskOf[b]].st = "Launching"
    BY <2>1, <2>2 DEF DiskOnly, Intends
  <2>6. CASE disk'[TaskOf[b]] = disk[TaskOf[b]]
    BY <2>1, <2>4, <2>6 DEF ReceiptInv, Stored, Retells, Matches
  <2>7. CASE disk'[TaskOf[b]].att = job.att /\ disk'[TaskOf[b]].st = "Launching"
    BY <2>1, <2>3, <2>4, <2>7 DEF Stored, Retells, Matches, Over, Ended
  <2> QED
    BY <2>5, <2>6, <2>7
<1>26. CASE SpawnReport
  <2>1. job.pc # "idle" /\ UNCHANGED shown
    BY <1>26, SpawnReportFacts
  <2>2. job.att \in Attempts /\ job.new.att = job.att
    BY <2>1, JobTypes
  <2>3. shown[job.att] # "none" => Retells(job.new, job.att)
    BY <2>1, JobRetells
  <2>4. /\ DiskOnly(TaskOf[job.att])
        /\ \/ disk'[TaskOf[job.att]] = disk[TaskOf[job.att]]
           \/ Mirrors(disk'[TaskOf[job.att]], job.new)
    BY <1>26, SpawnReportFacts DEF Writes, Fails, DiskOnly
  <2> QED
    BY <2>1, <2>2, <2>3, <2>4, WrittenStores
<1>27. CASE RecordRunning
  <2>1. job.pc # "idle" /\ UNCHANGED shown
    BY <1>27, RecordRunningFacts
  <2>2. job.att \in Attempts /\ job.new.att = job.att
    BY <2>1, JobTypes
  <2>3. shown[job.att] # "none" => Retells(job.new, job.att)
    BY <2>1, JobRetells
  <2>4. /\ DiskOnly(TaskOf[job.att])
        /\ \/ disk'[TaskOf[job.att]] = disk[TaskOf[job.att]]
           \/ Mirrors(disk'[TaskOf[job.att]], job.new)
    BY <1>27, RecordRunningFacts DEF Writes, Fails
  <2> QED
    BY <2>1, <2>2, <2>3, <2>4, WrittenStores
<1>28. CASE RecordLaunched
  <2>1. job.pc # "idle" /\ job.att \in Attempts /\ UNCHANGED disk
    BY <1>28, RecordLaunchedFacts, JobTypes
  <2>2. CASE Shows(job.att, job.new.out)
    <3>1. job.new.out = "none"
      BY <1>28, RecordLaunchedFacts DEF ChangeInv, ShapeInv, TaskShape, LiveStates
    <3> QED
      BY <2>1, <2>2, <3>1, AppliedStores
  <2>3. CASE UNCHANGED shown
    BY <2>1, <2>3, FaultsGrow DEF ReceiptInv, Stored, Retells, Matches
  <2> QED
    BY <1>28, <2>2, <2>3, RecordLaunchedFacts DEF Applies
<1>29. CASE RecordEnd
  <2>1. job.pc # "idle" /\ UNCHANGED shown
    BY <1>29, RecordEndFacts
  <2>2. job.att \in Attempts /\ job.new.att = job.att
    BY <2>1, JobTypes
  <2>3. shown[job.att] # "none" => Retells(job.new, job.att)
    BY <2>1, JobRetells
  <2>4. /\ DiskOnly(TaskOf[job.att])
        /\ \/ disk'[TaskOf[job.att]] = disk[TaskOf[job.att]]
           \/ Mirrors(disk'[TaskOf[job.att]], job.new)
    BY <1>29, RecordEndFacts DEF Writes, Fails
  <2> QED
    BY <2>1, <2>2, <2>3, <2>4, WrittenStores
<1>30. CASE RecordEnded
  <2>1. /\ job.pc = "ended" /\ job.att \in Attempts /\ UNCHANGED disk /\ job.new.att = job.att
        /\ Shows(job.att, job.new.out) /\ job.verb \in {"start", "exit"} /\ TaskOf[job.att] \in Tasks
    BY <1>30, RecordEndedFacts, JobTypes DEF Applies, HandlerInv
  <2>2. CASE shown'[b] = shown[b]
    <3>1. \A o : Matches(o, b) => Matches(o, b)'
      BY <2>2, MatchesStays
    <3> QED
      BY <2>1, <2>2, <3>1 DEF ReceiptInv, Stored, Retells, Matches
  <2>3. CASE shown'[b] # shown[b]
    <3>1. job.att = b /\ shown'[b] = job.new.out
      BY <2>1, <2>3 DEF Shows, ShownOnly
    <3>2. CASE job.verb = "start"
      <4>1. job.new.out = "unknown"
        BY <2>1, <3>2 DEF ChangeInv
      <4>2. CASE faults' # 0
        BY <2>1, <3>1, <4>1, <4>2 DEF Stored, Retells, Matches
      <4>3. CASE faults' = 0
        <5>1. faults = 0
          BY <4>3, FaultsGrow
        <5>2. \/ disk[TaskOf[b]].st \in {"Launching", "Running"}
              \/ disk[TaskOf[b]].st = "Exited" /\ disk[TaskOf[b]].out = "unknown"
          BY <2>1, <3>1, <3>2, <5>1 DEF JournalInv, Starting
        <5> QED
          BY <2>1, <3>1, <4>1, <5>2 DEF Stored, Retells, Matches, Over, Ended, LiveStates
      <4> QED
        BY <4>2, <4>3
    <3>3. CASE job.verb = "exit"
      <4>1. /\ mem[TaskOf[b]].att = b /\ mem[TaskOf[b]].st \in LiveStates /\ job.new.st \in Ended
        BY <2>1, <3>1, <3>3 DEF ChangeInv
      <4>2. CASE Mirrors(disk[TaskOf[b]], job.new)
        BY <2>1, <3>1, <4>1, <4>2 DEF Stored, Retells, Matches, Mirrors, Over, Ended, LiveStates
      <4>3. CASE ~Mirrors(disk[TaskOf[b]], job.new)
        <5>1. Runs(disk[TaskOf[b]])
          BY <4>1, <4>3 DEF JournalInv
        <5>2. faults' # 0
          BY <2>1, <3>1, <3>3, <4>3, FaultsGrow DEF JournalInv
        <5> QED
          BY <2>1, <3>1, <5>1, <5>2 DEF Stored, Retells, Matches, Runs, Over, Ended, LiveStates
      <4> QED
        BY <4>2, <4>3
    <3> QED
      BY <2>1, <3>2, <3>3
  <2> QED
    BY <2>2, <2>3
<1>31. ASSUME NEW w \in waits, FinishStop(w) PROVE Stored(b)'
  BY <1>31, FinishStopFacts, BoundTask, BindingAssumption, FaultsGrow DEF Idle, ReceiptInv, Stored,
    Retells, Matches
<1>32. ASSUME NEW w \in waits, FinishRevoke(w) PROVE Stored(b)'
  BY <1>32, FinishRevokeFacts, BoundTask, BindingAssumption, FaultsGrow DEF Opens, Ends, Idle,
    ReceiptInv, Stored, Retells, Matches
<1>33. CASE Crash
  BY <1>33, CrashFacts, BoundTask, BindingAssumption, FaultsGrow DEF Closes, Blank, ReceiptInv,
    Stored, Retells, Matches
<1>34. CASE Restart
  BY <1>34, RestartFacts, BoundTask, BindingAssumption, FaultsGrow DEF ReceiptInv, Stored, Retells,
    Matches
<1>35. ASSUME NEW t \in todo, RecoverRecord(t) PROVE Stored(b)'
  <2>1. DiskOnly(t) /\ (disk'[t] = disk[t] \/ Recovers(disk'[t], disk[t])) /\ t \in Tasks
    BY <1>35, RecoverRecordFacts
  <2>2. UNCHANGED shown /\ TaskOf[b] \in Tasks
    BY <1>35, RecoverRecordFacts, BoundTask
  <2>3. disk'[TaskOf[b]] = disk[TaskOf[b]] \/ Recovers(disk'[TaskOf[b]], disk[TaskOf[b]])
    BY <2>1, <2>2 DEF DiskOnly
  <2>4. \A o : Matches(o, b) => Matches(o, b)'
    BY <2>2, MatchesStays
  <2>5. disk[TaskOf[b]].att = b /\ shown[b] # "none" => Retells(disk'[TaskOf[b]], b)
    BY <2>3 DEF ReceiptInv, Stored, Retells, Recovers, Over, Ended, LiveStates
  <2>6. disk'[TaskOf[b]].att = disk[TaskOf[b]].att
    BY <2>3 DEF Recovers
  <2> QED
    BY <2>2, <2>4, <2>5, <2>6 DEF Stored, Retells, Matches
<1>36. CASE RecoverLog
  <2>1. job.pc # "idle" /\ job.att \in Attempts /\ UNCHANGED disk
    BY <1>36, RecoverLogFacts, JobTypes
  <2>2. CASE Shows(job.att, job.new.out)
    <3>1. Mirrors(disk[TaskOf[job.att]], job.new)
      BY <1>36, <2>1, RecoverLogFacts DEF SealedInv
    <3> QED
      BY <2>1, <2>2, <3>1, AppliedStores
  <2>3. CASE UNCHANGED shown
    BY <2>1, <2>3, FaultsGrow DEF ReceiptInv, Stored, Retells, Matches
  <2> QED
    BY <1>36, <2>2, <2>3, RecoverLogFacts DEF Applies
<1>37. CASE Serve
  BY <1>37, ServeFacts, BoundTask, BindingAssumption, FaultsGrow DEF ReceiptInv, Stored, Retells,
    Matches
<1>38. ASSUME NEW a \in Attempts, Launch(a) PROVE Stored(b)'
  BY <1>38, LaunchFacts, JobTypes, BoundTask, BindingAssumption, FaultsGrow DEF ReapOnly,
    ReceiptInv, Stored, Retells, Matches
<1>39. ASSUME NEW a \in Attempts, LateLaunch(a) PROVE Stored(b)'
  BY <1>39, LateLaunchFacts, JobTypes, BoundTask, BindingAssumption, FaultsGrow DEF ReapOnly,
    ReceiptInv, Stored, Retells, Matches
<1>40. ASSUME NEW a \in Attempts, DropLate(a) PROVE Stored(b)'
  BY <1>40, DropLateFacts, JobTypes, BoundTask, BindingAssumption, FaultsGrow DEF ReapOnly,
    ReceiptInv, Stored, Retells, Matches
<1>41. ASSUME NEW a \in Attempts, RecordExit(a) PROVE Stored(b)'
  BY <1>41, RecordExitFacts, JobTypes, BoundTask, BindingAssumption, FaultsGrow DEF ReapOnly, Opens,
    Idle, ReceiptInv, Stored, Retells, Matches
<1>42. ASSUME NEW a \in Attempts, NEW e \in Exits, WorkloadEnds(a, e) PROVE Stored(b)'
  BY <1>42, WorkloadEndsFacts, JobTypes, BoundTask, BindingAssumption, FaultsGrow DEF ReapOnly,
    ReceiptInv, Stored, Retells, Matches
<1>43. CASE NoThread
  BY <1>43, NoThreadFacts, JobTypes, BoundTask, BindingAssumption, FaultsGrow DEF ReapOnly,
    ReceiptInv, Stored, Retells, Matches
<1>44. ASSUME NEW a \in Attempts, SandboxSetUp(a) PROVE Stored(b)'
  BY <1>44, SandboxSetUpFacts, JobTypes, BoundTask, BindingAssumption, FaultsGrow DEF ReceiptInv,
    Stored, Retells, Matches
<1> QED
  BY <1>1, <1>2, <1>3, <1>4, <1>5, <1>6, <1>7, <1>8, <1>9, <1>10, <1>11, <1>12, <1>13, <1>14, <1>15,
    <1>16, <1>17, <1>18, <1>19, <1>20, <1>21, <1>22, <1>23, <1>24, <1>25, <1>26, <1>27, <1>28,
    <1>29, <1>30, <1>31, <1>32, <1>33, <1>34, <1>35, <1>36, <1>37, <1>38, <1>39, <1>40, <1>41, <1>42,
    <1>43, <1>44
  DEF Next, Request, JobStep, Answer, Reaper, Recovery

\* An attempt keeps the receipt it was reported with: a known outcome is never replaced by
\* another known one, and not forgotten unless its sealed task is evicted, by no failed write,
\* death, recovery or late end; and where no write failed no receipt changes at all
\* (ReceiptKept; `record_spawn', `finish_attempt' and `NodeTask::recovered').
THEOREM ReceiptsStand == Spec => []ReceiptKept
<1>1. Init => StopInv /\ ReceiptInv
  <2> SUFFICES ASSUME Init PROVE ReceiptInv
    BY StopInit
  <2>1. \A t \in Tasks : mem[t].att = None /\ disk[t].att = None
    BY NoTaskType DEF Init
  <2> QED
    BY <2>1, BoundTask, BindingAssumption DEF ReceiptInv, Served, Stored
<1>2. StopInv /\ ReceiptInv /\ [Next]_vars => StopInv' /\ ReceiptInv'
  <2> SUFFICES ASSUME StopInv, ReceiptInv, [Next]_vars PROVE StopInv' /\ ReceiptInv'
    OBVIOUS
  <2>1. \A b \in Attempts : Served(b)' /\ Stored(b)'
    BY ServedStep, StoredStep
  <2> QED
    BY <2>1, StopInductive DEF ReceiptInv
<1>3. StopInv /\ ReceiptInv => ReceiptKept
  <2> SUFFICES ASSUME StopInv, ReceiptInv, NEW a \in Attempts, mem[TaskOf[a]].att = a, shown[a] # "none"
               PROVE  \/ mem[TaskOf[a]].out = shown[a]
                      \/ "unknown" \in {mem[TaskOf[a]].out, shown[a]} /\ faults > 0
                      \/ mem[TaskOf[a]].out = "none" /\ log[a].head # "none"
    BY DEF ReceiptKept, Holds
  <2>1. faults \in Nat /\ shown[a] \in {"completed", "failed", "unknown"}
    BY Types DEF StopInv, RunInv, BaseInv, Outcomes
  <2>2. faults # 0 => faults > 0
    BY <2>1
  <2>3. CASE shown[a] = "unknown" /\ faults # 0
    BY <2>2, <2>3
  <2>4. CASE ~(shown[a] = "unknown" /\ faults # 0)
    <3>1. Spent(a)
      BY <2>1, <2>4 DEF StopInv, SettledInv, Settled
    <3>2. log[a].head # "none" \/ mem[TaskOf[a]].out # "none"
      BY <3>1, BoundTask DEF Spent, StopInv, RunInv, BaseInv, ShapeInv, TaskShape
    <3>3. Matches(mem[TaskOf[a]].out, a)
      BY DEF ReceiptInv, Served
    <3> QED
      BY <2>2, <3>2, <3>3 DEF Matches
  <2> QED
    BY <2>3, <2>4
<1> QED
  BY <1>1, <1>2, <1>3, PTL DEF Spec

--------------------------------------------------------------------------------
(* The evidence log folds to what the registry says *)

\* What a log may fold to while its task is r.
Tells(l, r, a) ==
  \/ l.held = r.st /\ l.out = r.out
  \/ l.held = "none" /\ r.st = "Created"
  \/ l.held = "Paused" /\ r.st = "Running" /\ a \in stop

\* While no write failed: the log of a task agrees with it, apart from the moment between a
\* seal's mark and its HEAD file; a log with records belongs to the attempt registered and
\* recorded, or to one that is retired or sealed; and only a dead node leaves a torn frame,
\* in a log it goes on to mend.
Agreed(a) == LET r == mem[TaskOf[a]] d == disk[TaskOf[a]] l == log[a] IN
  /\ up = "up" => /\ ~l.torn
                  /\ a \in retired \/ r.att = a \/ l.held = "none" \/ l.head # "none"
                  /\ d.att = r.att
  /\ up \in {"up", "recovering"} /\ r.att = a /\ l.head = "none" =>
       Tells(l, r, a) \/ (job.pc = "headNew" /\ job.att = a)
  /\ l.torn => d.att = a /\ (up = "recovering" => TaskOf[a] \in todo)
  /\ a \in retired \/ d.att = a \/ l.held = "none" \/ l.head # "none"

LEMMA AgreedStep == ASSUME RunInv, faults = 0, faults' = 0, \A a \in Attempts : Agreed(a), NEW b \in Attempts, [Next]_vars PROVE Agreed(b)'
<1> USE DEF RunInv, BaseInv
<1>1. CASE UNCHANGED vars
  BY <1>1 DEF vars, registry, workloads, durable, process, history, Agreed, Tells, HandlerInv,
    ChangeInv, Changers
<1>2. ASSUME NEW a \in Attempts, CreateNew(a) PROVE Agreed(b)'
  BY <1>2, CreateNewFacts, BoundTask, BindingAssumption DEF Opens, Fresh, Idle, Agreed, Tells,
    HandlerInv, ChangeInv, Changers
<1>3. ASSUME NEW a \in Attempts, CreateEvict(a) PROVE Agreed(b)'
  <2>1. PICK t \in Tasks :
          /\ mem[t].st = "Sealed" /\ DiskOnly(t) /\ MemOnly(t)
          /\ disk'[t].att = None /\ mem'[t].att = None
    BY <1>3, CreateEvictFacts DEF Blank
  <2>2. /\ up = "up" /\ job.pc = "idle" /\ UNCHANGED <<retired, up, log, stop>> /\ TaskOf[b] \in Tasks
    BY <1>3, CreateEvictFacts, BoundTask DEF Idle
  <2>3. mem[t].att = b => log[b].head # "none"
    BY <2>1 DEF ReplaceInv, Placed, SealedInv
  <2>4. CASE TaskOf[b] # t
    <3>1. mem'[TaskOf[b]] = mem[TaskOf[b]] /\ disk'[TaskOf[b]] = disk[TaskOf[b]]
      BY <2>1, <2>2, <2>4 DEF MemOnly, DiskOnly
    <3> QED
      BY <2>2, <3>1 DEF Agreed, Tells
  <2>5. CASE TaskOf[b] = t
    <3>1. b \in retired \/ log[b].held = "none" \/ log[b].head # "none"
      BY <2>2, <2>3, <2>5 DEF Agreed
    <3>2. ~log[b].torn
      BY <2>2 DEF Agreed
    <3> QED
      BY <2>1, <2>2, <2>5, <3>1, <3>2, BindingAssumption DEF Agreed
  <2> QED
    BY <2>4, <2>5
<1>4. ASSUME NEW a \in Attempts, CreateReplace(a) PROVE Agreed(b)'
  BY <1>4, CreateReplaceFacts, BoundTask, BindingAssumption DEF Opens, Fresh, Idle, Agreed, Tells,
    HandlerInv, ChangeInv, Changers
<1>5. ASSUME NEW a \in Attempts, Pause(a) PROVE Agreed(b)'
  BY <1>5, PauseFacts, BoundTask, BindingAssumption DEF FrozenOnly, Opens, Alike, Idle, Agreed,
    Tells, HandlerInv, ChangeInv, Changers
<1>6. ASSUME NEW a \in Attempts, Resume(a) PROVE Agreed(b)'
  BY <1>6, ResumeFacts, BoundTask, BindingAssumption DEF FrozenOnly, Opens, Alike, Idle, Agreed,
    Tells, HandlerInv, ChangeInv, Changers
<1>7. ASSUME NEW a \in Attempts, Start(a) PROVE Agreed(b)'
  BY <1>7, StartFacts, BoundTask, BindingAssumption DEF Opens, Idle, Agreed, Tells, HandlerInv,
    ChangeInv, Changers
<1>8. ASSUME NEW a \in Attempts, NEW v \in Versions, Admit(a, v) PROVE Agreed(b)'
  BY <1>8, AdmitFacts, BoundTask, BindingAssumption DEF Opens, Alike, Idle, Agreed, Tells,
    HandlerInv, ChangeInv, Changers
<1>9. ASSUME NEW a \in Attempts, NEW op \in Ops, StopReady(op, a) PROVE Agreed(b)'
  BY <1>9, StopReadyFacts, BoundTask, BindingAssumption DEF Opens, Ends, Idle, Agreed, Tells,
    HandlerInv, ChangeInv, Changers
<1>10. ASSUME NEW a \in Attempts, NEW op \in Ops, StopLive(op, a) PROVE Agreed(b)'
  BY <1>10, StopLiveFacts, BoundTask, BindingAssumption DEF MemOnly, FrozenOnly, Alike, Kills, Idle,
    Agreed, Tells, HandlerInv, ChangeInv, Changers
<1>11. ASSUME NEW a \in Attempts, NEW op \in Ops, StopReplay(op, a) PROVE Agreed(b)'
  BY <1>11, StopReplayFacts, BoundTask, BindingAssumption DEF Idle, Agreed, Tells, HandlerInv,
    ChangeInv, Changers
<1>12. ASSUME NEW a \in Attempts, NEW op \in Ops, RevokeReady(op, a) PROVE Agreed(b)'
  BY <1>12, RevokeReadyFacts, BoundTask, BindingAssumption DEF Opens, Ends, Idle, Agreed, Tells,
    HandlerInv, ChangeInv, Changers
<1>13. ASSUME NEW a \in Attempts, NEW op \in Ops, RevokeLive(op, a) PROVE Agreed(b)'
  BY <1>13, RevokeLiveFacts, BoundTask, BindingAssumption DEF MemOnly, FrozenOnly, Alike, Kills,
    Idle, Agreed, Tells, HandlerInv, ChangeInv, Changers
<1>14. ASSUME NEW a \in Attempts, NEW op \in Ops, Seal(op, a) PROVE Agreed(b)'
  BY <1>14, SealFacts, BoundTask, BindingAssumption DEF Opens, Idle, Agreed, Tells, HandlerInv,
    ChangeInv, Changers
<1>15. CASE CreateWrite
  <2>1. /\ up = "up" /\ job.pc = "journal" /\ job.verb = "create" /\ UNCHANGED <<retired, up,
             log, stop>>
        /\ job.att \in Attempts /\ TaskOf[b] \in Tasks /\ job.new.att = job.att /\ job.new.st = "Created"
        /\ TaskOf[job.att] \in Tasks
    BY <1>15, CreateWriteFacts, JobTypes, BoundTask DEF ChangeInv
  <2>2. /\ mem'[TaskOf[job.att]] = job.new /\ MemOnly(TaskOf[job.att])
        /\ disk'[TaskOf[job.att]].att = job.att /\ DiskOnly(TaskOf[job.att])
    BY <1>15, <2>1, CreateWriteFacts DEF Applies, Writes, Fails, Mirrors
  <2>3. /\ job.att \notin retired
        /\ mem[TaskOf[job.att]].att = None \/ mem[TaskOf[job.att]].att \in retired
    BY <2>1 DEF ReplaceInv, Creating, ShapeInv, TaskShape
  <2>4. CASE TaskOf[b] # TaskOf[job.att]
    <3>1. mem'[TaskOf[b]] = mem[TaskOf[b]] /\ disk'[TaskOf[b]] = disk[TaskOf[b]]
      BY <2>1, <2>2, <2>4 DEF MemOnly, DiskOnly
    <3> QED
      BY <2>1, <3>1 DEF Agreed, Tells
  <2>5. CASE TaskOf[b] = TaskOf[job.att]
    <3>1. b \in retired \/ log[b].held = "none" \/ log[b].head # "none"
      BY <2>1, <2>3, <2>5, BindingAssumption DEF Agreed
    <3>2. ~log[b].torn
      BY <2>1 DEF Agreed
    <3>3. mem'[TaskOf[b]].att = b => b \notin retired /\ mem'[TaskOf[b]].st = "Created"
      BY <2>1, <2>2, <2>3, <2>5
    <3> QED
      BY <2>1, <2>2, <2>5, <3>1, <3>2, <3>3 DEF Agreed, Tells
  <2> QED
    BY <2>4, <2>5
<1>16. CASE CommitJournal
  BY <1>16, CommitJournalFacts, JobTypes, BoundTask, BindingAssumption DEF Mirrors, DiskOnly, Moves,
    Closes, Refuses, Writes, Fails, Agreed, Tells, HandlerInv, ChangeInv, Changers
<1>17. CASE CommitVersion
  BY <1>17, CommitVersionFacts, JobTypes, BoundTask, BindingAssumption DEF Moves, Agreed, Tells,
    HandlerInv, ChangeInv, Changers
<1>18. CASE CommitEvidence
  BY <1>18, CommitEvidenceFacts, JobTypes, BoundTask, BindingAssumption DEF MemOnly, LogOnly,
    ShownOnly, Moves, Closes, Shows, Applies, Says, Logs, Misses, Agreed, Tells, HandlerInv,
    ChangeInv, Changers
<1>19. CASE Restore
  BY <1>19, RestoreFacts, JobTypes, BoundTask, BindingAssumption DEF Mirrors, DiskOnly, Moves,
    Closes, Refuses, Writes, Fails, Agreed, Tells, HandlerInv, ChangeInv, Changers
<1>20. CASE Undo
  BY <1>20, UndoFacts, JobTypes, BoundTask, BindingAssumption DEF FrozenOnly, Closes,
    Agreed, Tells, HandlerInv, ChangeInv, Changers
<1>21. CASE SealOpen
  BY <1>21, SealOpenFacts, JobTypes, BoundTask, BindingAssumption DEF MemOnly, LogOnly, ShownOnly,
    Moves, Closes, Shows, Applies, Says, Logs, Misses, Agreed, Tells, HandlerInv, ChangeInv,
    Changers
<1>22. CASE SealMark
  BY <1>22, SealMarkFacts, JobTypes, BoundTask, BindingAssumption DEF LogOnly, Moves, Says, Logs,
    Misses, Agreed, Tells, HandlerInv, ChangeInv, Changers
<1>23. CASE SealHeadNew
  BY <1>23, SealHeadNewFacts, JobTypes, BoundTask, BindingAssumption DEF LogOnly, Moves, Says,
    Heads, Agreed, Tells, HandlerInv, ChangeInv, Changers
<1>24. CASE SealHeadText
  BY <1>24, SealHeadTextFacts, JobTypes, BoundTask, BindingAssumption DEF MemOnly, LogOnly,
    ShownOnly, Moves, Closes, Shows, Applies, Says, Heads, Agreed, Tells, HandlerInv, ChangeInv,
    Changers
<1>25. CASE LaunchIntent
  BY <1>25, LaunchIntentFacts, JobTypes, BoundTask, BindingAssumption DEF DiskOnly, ReapOnly, Moves,
    Closes, Intends, Agreed, Tells, HandlerInv, ChangeInv, Changers
<1>26. CASE SpawnReport
  BY <1>26, SpawnReportFacts, JobTypes, BoundTask, BindingAssumption DEF Mirrors, DiskOnly,
    ReapOnly, Opens, Closes, Writes, Fails, Ends, SpawnFails, Spawns, Agreed, Tells, HandlerInv,
    ChangeInv, Changers
<1>27. CASE RecordRunning
  BY <1>27, RecordRunningFacts, JobTypes, BoundTask, BindingAssumption DEF Mirrors, DiskOnly, Opens,
    Moves, Writes, Fails, Ends, SpawnFails, Agreed, Tells, HandlerInv, ChangeInv, Changers
<1>28. CASE RecordLaunched
  BY <1>28, RecordLaunchedFacts, JobTypes, BoundTask, BindingAssumption DEF MemOnly, LogOnly,
    ShownOnly, Opens, Closes, Shows, Applies, Says, Logs, Misses, Ends, SpawnFails, Agreed, Tells,
    HandlerInv, ChangeInv, Changers
<1>29. CASE RecordEnd
  BY <1>29, RecordEndFacts, JobTypes, BoundTask, BindingAssumption DEF Mirrors, DiskOnly, Moves,
    Writes, Fails, Agreed, Tells, HandlerInv, ChangeInv, Changers
<1>30. CASE RecordEnded
  BY <1>30, RecordEndedFacts, JobTypes, BoundTask, BindingAssumption DEF MemOnly, LogOnly, ReapOnly,
    ShownOnly, Closes, Shows, Applies, Says, Logs, Misses, Agreed, Tells, HandlerInv, ChangeInv,
    Changers
<1>31. ASSUME NEW w \in waits, FinishStop(w) PROVE Agreed(b)'
  BY <1>31, FinishStopFacts, BoundTask, BindingAssumption DEF Idle, Agreed, Tells, HandlerInv,
    ChangeInv, Changers
<1>32. ASSUME NEW w \in waits, FinishRevoke(w) PROVE Agreed(b)'
  BY <1>32, FinishRevokeFacts, BoundTask, BindingAssumption DEF Opens, Ends, Idle, Agreed, Tells,
    HandlerInv, ChangeInv, Changers
<1>33. CASE Crash
  <2>0. up' = "down" /\ UNCHANGED <<disk, retired>> /\ up \in {"up", "recovering"}
    BY <1>33, CrashFacts
  <2>1. CASE job.pc = "recoverLog" /\ job.att = b
    BY <2>0, <2>1, JobTypes DEF SealedInv, Mirrors, Agreed
  <2>2. CASE ~(job.pc = "recoverLog" /\ job.att = b)
    <3>1. /\ log'[b].held = log[b].held /\ log'[b].head = log[b].head
          /\ log'[b].torn = log[b].torn \/ (job.pc \in Appending /\ job.att = b)
      BY <1>33, <2>2, CrashFacts DEF Partly, LogOnly, Says
    <3>2. CASE log'[b].torn = log[b].torn
      BY <2>0, <3>1, <3>2 DEF Agreed
    <3>3. CASE job.pc \in Appending /\ job.att = b
      <4>1. job.pc # "idle" /\ job.verb \notin {"create", "recover"}
        BY <3>3 DEF HandlerInv, Changers, Appending
      <4>2. up = "up" /\ mem[TaskOf[b]].att = b
        BY <2>0, <3>3, <4>1 DEF HandlerInv, ChangeInv
      <4> QED
        BY <2>0, <3>1, <4>2 DEF Agreed
    <3> QED
      BY <3>1, <3>2, <3>3
  <2> QED
    BY <2>1, <2>2
<1>34. CASE Restart
  <2>1. /\ up = "down" /\ up' # "up" /\ UNCHANGED <<mem, disk, retired, log>> /\ TaskOf[b] \in Tasks
        /\ up' = "recovering" => todo' = {t \in Tasks : disk[t].st # "absent"}
    BY <1>34, RestartFacts, BoundTask
  <2>2. mem[TaskOf[b]].att # b
    BY <2>1, BindingAssumption DEF JournalInv
  <2>3. disk[TaskOf[b]].att = b => disk[TaskOf[b]].st # "absent"
    BY <2>1, BindingAssumption DEF ShapeInv, RecordShape
  <2> QED
    BY <2>1, <2>2, <2>3 DEF Agreed
<1>35. ASSUME NEW t \in todo, RecoverRecord(t) PROVE Agreed(b)'
  BY <1>35, RecoverRecordFacts, BoundTask, BindingAssumption DEF DiskOnly, Opens, Blank, Recovers,
    Agreed, Tells, HandlerInv, ChangeInv, Changers
<1>36. CASE RecoverLog
  <2>1. /\ up = "recovering" /\ job.pc = "recoverLog" /\ UNCHANGED <<disk, retired, stop>>
        /\ job.att \in Attempts /\ TaskOf[b] \in Tasks /\ job.new.att = job.att
        /\ TaskOf[job.att] \in Tasks
    BY <1>36, RecoverLogFacts, JobTypes, BoundTask
  <2>2. CASE up' \in {"MalformedHead", "Sealed"} /\ UNCHANGED log
    BY <2>1, <2>2 DEF Agreed
  <2>3. CASE /\ Mends(job.att, job.new) /\ UNCHANGED up /\ todo' = todo \ {TaskOf[job.att]}
             /\ mem'[TaskOf[job.att]] = job.new /\ MemOnly(TaskOf[job.att])
    <3>1. disk[TaskOf[job.att]].att = job.att
      BY <2>1 DEF SealedInv, Mirrors
    <3>2. CASE job.att # b
      <4>1. log'[b] = log[b]
        BY <2>3, <3>2 DEF Mends, LogOnly
      <4>2. mem'[TaskOf[b]].att = b => mem'[TaskOf[b]] = mem[TaskOf[b]]
        BY <2>1, <2>3, <3>2 DEF MemOnly
      <4>3. disk[TaskOf[b]].att = b => TaskOf[b] # TaskOf[job.att]
        BY <3>1, <3>2
      <4> QED
        BY <2>1, <2>3, <4>1, <4>2, <4>3 DEF Agreed, Tells
    <3>3. CASE job.att = b
      <4>1. ~log'[b].torn /\ mem'[TaskOf[b]] = job.new
        BY <2>3, <3>3 DEF Mends
      <4>2. log'[b].head = "none" => Tells(log'[b], job.new, b)
        BY <2>3, <3>3 DEF Mends, Says, Tells
      <4> QED
        BY <2>1, <2>3, <3>1, <3>3, <4>1, <4>2 DEF Agreed, Tells
    <3> QED
      BY <3>2, <3>3
  <2> QED
    BY <1>36, <2>2, <2>3, RecoverLogFacts
<1>37. CASE Serve
  <2>1. /\ up = "recovering" /\ todo = {} /\ UNCHANGED <<mem, disk, retired, log, job, stop, todo>>
        /\ TaskOf[b] \in Tasks /\ up' = "up"
    BY <1>37, ServeFacts, BoundTask
  <2>2. ~log[b].torn
    BY <2>1 DEF Agreed
  <2>3. disk[TaskOf[b]].att = mem[TaskOf[b]].att
    <3>1. CASE disk[TaskOf[b]].st # "absent"
      BY <2>1, <3>1 DEF JournalInv
    <3>2. CASE disk[TaskOf[b]].st = "absent"
      <4>1. disk[TaskOf[b]].att = None
        BY <2>1, <3>2 DEF ShapeInv, RecordShape
      <4> QED
        BY <2>1, <4>1 DEF JournalInv, Mirrors
    <3> QED
      BY <3>1, <3>2
  <2> QED
    BY <2>1, <2>2, <2>3 DEF Agreed, Tells
<1>38. ASSUME NEW a \in Attempts, Launch(a) PROVE Agreed(b)'
  BY <1>38, LaunchFacts, JobTypes, BoundTask, BindingAssumption DEF ReapOnly, Agreed, Tells,
    HandlerInv, ChangeInv, Changers
<1>39. ASSUME NEW a \in Attempts, LateLaunch(a) PROVE Agreed(b)'
  BY <1>39, LateLaunchFacts, JobTypes, BoundTask, BindingAssumption DEF ReapOnly, Agreed, Tells,
    HandlerInv, ChangeInv, Changers
<1>40. ASSUME NEW a \in Attempts, DropLate(a) PROVE Agreed(b)'
  BY <1>40, DropLateFacts, JobTypes, BoundTask, BindingAssumption DEF ReapOnly, Agreed, Tells,
    HandlerInv, ChangeInv, Changers
<1>41. ASSUME NEW a \in Attempts, RecordExit(a) PROVE Agreed(b)'
  BY <1>41, RecordExitFacts, JobTypes, BoundTask, BindingAssumption DEF ReapOnly, Opens, Idle,
    Agreed, Tells, HandlerInv, ChangeInv, Changers
<1>42. ASSUME NEW a \in Attempts, NEW e \in Exits, WorkloadEnds(a, e) PROVE Agreed(b)'
  BY <1>42, WorkloadEndsFacts, JobTypes, BoundTask, BindingAssumption DEF ReapOnly, Agreed, Tells,
    HandlerInv, ChangeInv, Changers
<1>43. CASE NoThread
  BY <1>43, NoThreadFacts, JobTypes, BoundTask, BindingAssumption DEF ReapOnly, Agreed, Tells,
    HandlerInv, ChangeInv, Changers
<1>44. ASSUME NEW a \in Attempts, SandboxSetUp(a) PROVE Agreed(b)'
  BY <1>44, SandboxSetUpFacts, JobTypes, BoundTask, BindingAssumption DEF Agreed, Tells, HandlerInv,
    ChangeInv, Changers
<1> QED
  BY <1>1, <1>2, <1>3, <1>4, <1>5, <1>6, <1>7, <1>8, <1>9, <1>10, <1>11, <1>12, <1>13, <1>14, <1>15,
    <1>16, <1>17, <1>18, <1>19, <1>20, <1>21, <1>22, <1>23, <1>24, <1>25, <1>26, <1>27, <1>28,
    <1>29, <1>30, <1>31, <1>32, <1>33, <1>34, <1>35, <1>36, <1>37, <1>38, <1>39, <1>40, <1>41, <1>42,
    <1>43, <1>44
  DEF Next, Request, JobStep, Answer, Reaper, Recovery

\* While no write failed the evidence log of a served attempt folds to what the registry says
\* of it, wherever the node died (LogAgrees; `NodeTask::commit', `record_spawn' and
\* `AttemptEvidence::recover_after').
THEOREM LogsAgree == Spec => []LogAgrees
<1> DEFINE AgreeInv == faults = 0 => \A a \in Attempts : Agreed(a)
<1>1. Init => StopInv /\ AgreeInv
  <2> SUFFICES ASSUME Init PROVE AgreeInv
    BY StopInit
  <2>1. \A t \in Tasks : mem[t].att = None /\ disk[t].att = None
    BY NoTaskType DEF Init
  <2>2. \A a \in Attempts : log[a].held = "none" /\ ~log[a].torn
    BY DEF Init, NoLog
  <2> QED
    BY <2>1, <2>2, BoundTask, BindingAssumption DEF Agreed
<1>2. StopInv /\ AgreeInv /\ [Next]_vars => StopInv' /\ AgreeInv'
  <2> SUFFICES ASSUME StopInv, AgreeInv, [Next]_vars, faults' = 0, NEW b \in Attempts PROVE Agreed(b)'
    BY StopInductive
  <2>1. faults = 0
    BY FaultsGrow DEF StopInv, RunInv, BaseInv
  <2>2. \A a \in Attempts : Agreed(a)
    BY <2>1
  <2> QED
    BY <2>1, <2>2, AgreedStep DEF StopInv
<1>3. AgreeInv => LogAgrees
  BY DEF Agreed, Tells, LogAgrees, Holds, Idle
<1> QED
  BY <1>1, <1>2, <1>3, PTL DEF Spec

================================================================================
