----------------------- MODULE SessionLifecycleProofs -----------------------
(***************************************************************************)
(* The safety of a session's lifecycle, for any processes, captures,       *)
(* failing writes and deaths of the daemon.                                *)
(*                                                                         *)
(* A stop leaves nothing behind (StopInv): from the moment its marker is   *)
(* written the stop has the session lock, which a launch needs, until its  *)
(* kill is confirmed; after that nothing is left to fork, and the marker   *)
(* refuses every launch.  Who owns a hold, in the daemon's memory and in   *)
(* its files (OwnInv, MarkInv), says which steps may let a stopped process *)
(* run: over a user's pause only a resume, and none once a stop has begun, *)
(* unless it was refused and left its marker.                              *)
(* A capture that was granted finds the files in a state every restart     *)
(* adopts (MarkedInv, GrantInv, QuietInv).  What is stopped, the daemon    *)
(* knows of or its files lead the next one to it (StrandInv).              *)
(***************************************************************************)
EXTENDS SessionLifecycle, TLAPS

Killing == {"s_close", "s_kill", "s_confirm", "s_hold", "s_record"}

StopInv ==
  /\ intent \in {"none", "pause", "resume", "capture", "stop"}
  /\ at \in Killing => lock = "daemon" /\ stopMarker
  /\ at \in {"s_confirm", "s_record", "s_seal"} => alive = {}
  /\ at = "s_seal" => stopMarker /\ lock # "launch"
  /\ StopEndsAll

LEMMA StopInit == Init => StopInv
BY DEF Init, StopInv, StopEndsAll, Killing

LEMMA StopStep == StopInv /\ [Next]_vars => StopInv'
<1> SUFFICES ASSUME StopInv, [Next]_vars PROVE StopInv'
  OBVIOUS
<1>1. CASE UNCHANGED vars
  BY <1>1 DEF vars, plan, files, log, hold, tree, oper, history, StopInv, StopEndsAll, Killing
<1>2. CASE PauseFreeze
  BY <1>2 DEF PauseFreeze, Refuse, Take, plan, files, log, hold, tree, oper, history, StopInv,
       StopEndsAll, Killing
<1>3. CASE PauseMark
  BY <1>3 DEF PauseMark, plan, log, hold, tree, oper, history, StopInv, StopEndsAll, Killing
<1>4. CASE PauseOwners
  BY <1>4 DEF PauseOwners, plan, log, hold, tree, oper, history, StopInv, StopEndsAll, Killing
<1>5. CASE PauseRecord
  BY <1>5 DEF PauseRecord, Refuse, plan, files, hold, oper, history, StopInv, StopEndsAll, Killing
<1>6. CASE TakeBack
  BY <1>6 DEF TakeBack, plan, log, tree, oper, history, StopInv, StopEndsAll, Killing
<1>7. CASE TakeBackThaw
  BY <1>7 DEF TakeBackThaw, Step, plan, log, hold, oper, history, StopInv, StopEndsAll, Killing
<1>8. CASE ClearIntent
  BY <1>8 DEF ClearIntent, plan, files, log, hold, tree, history, StopInv, StopEndsAll, Killing
<1>9. CASE ResumeOwners
  BY <1>9 DEF ResumeOwners, plan, log, tree, oper, history, StopInv, StopEndsAll, Killing
<1>10. CASE ResumeRecord
  BY <1>10 DEF ResumeRecord, Refuse, plan, files, hold, tree, history, StopInv, StopEndsAll,
       Killing
<1>11. CASE ReleaseMarker
  BY <1>11 DEF ReleaseMarker, Refuse, Released, plan, log, hold, tree, history, StopInv,
       StopEndsAll, Killing
<1>12. CASE ReleaseConfirm
  BY <1>12 DEF ReleaseConfirm, Released, plan, log, hold, tree, StopInv, StopEndsAll, Killing
<1>13. CASE ReleaseThaw
  BY <1>13 DEF ReleaseThaw, Step, plan, log, hold, oper, history, StopInv, StopEndsAll, Killing
<1>14. CASE ReleaseRecord
  BY <1>14 DEF ReleaseRecord, Released, plan, files, tree, history, StopInv, StopEndsAll, Killing
<1>15. CASE CaptureFreeze
  BY <1>15 DEF CaptureFreeze, plan, files, log, hold, history, StopInv, StopEndsAll, Killing
<1>16. CASE CaptureMark
  BY <1>16 DEF CaptureMark, plan, log, hold, tree, history, StopInv, StopEndsAll, Killing
<1>17. CASE CaptureOwners
  BY <1>17 DEF CaptureOwners, plan, log, hold, tree, history, StopInv, StopEndsAll, Killing
<1>18. CASE CaptureRecord
  BY <1>18 DEF CaptureRecord, plan, files, hold, tree, history, StopInv, StopEndsAll, Killing
<1>19. CASE HoldStopMarker
  BY <1>19 DEF HoldStopMarker, StopMarkerLost, Refuse, plan, files, log, hold, tree, oper,
       history, StopInv, StopEndsAll, Killing
<1>20. CASE HoldOver
  BY <1>20 DEF HoldOver, Refuse, plan, log, oper, history, StopInv, StopEndsAll, Killing
<1>21. CASE HoldFreeze
  BY <1>21 DEF HoldFreeze, Step, plan, files, log, hold, oper, history, StopInv, StopEndsAll,
       Killing
<1>22. CASE HoldMark
  BY <1>22 DEF HoldMark, Refuse, plan, files, log, hold, tree, oper, history, StopInv,
       StopEndsAll, Killing
<1>23. CASE HoldRecord
  BY <1>23 DEF HoldRecord, Refuse, plan, files, tree, oper, history, StopInv, StopEndsAll, Killing
<1>24. CASE StopIntent
  BY <1>24 DEF StopIntent, Refuse, plan, files, log, hold, tree, oper, history, StopInv,
       StopEndsAll, Killing
<1>25. CASE StopMark
  BY <1>25 DEF StopMark, StopMarkerLost, Refuse, Take, plan, files, log, hold, tree, oper,
       history, StopInv, StopEndsAll, Killing
<1>26. CASE StopClose
  BY <1>26 DEF StopClose, Refuse, plan, log, tree, oper, history, StopInv, StopEndsAll, Killing
<1>27. CASE StopKill
  BY <1>27 DEF StopKill, Terminated, plan, files, log, hold, oper, history, StopInv, StopEndsAll,
       Killing
<1>28. CASE StopConfirm
  BY <1>28 DEF StopConfirm, plan, files, log, hold, oper, history, StopInv, StopEndsAll, Killing
<1>29. CASE StopHold
  BY <1>29 DEF StopHold, Refuse, plan, tree, oper, history, StopInv, StopEndsAll, Killing
<1>30. CASE StopRecord
  BY <1>30 DEF StopRecord, Refuse, plan, files, oper, history, StopInv, StopEndsAll, Killing
<1>31. CASE StopSeal
  BY <1>31 DEF StopSeal, Refuse, plan, files, hold, tree, history, StopInv, StopEndsAll, Killing
<1>32. CASE Exit
  BY <1>32 DEF Exit, Forget, plan, files, log, history, StopInv, StopEndsAll, Killing
<1>33. CASE BootServe
  BY <1>33 DEF BootServe, plan, files, log, hold, tree, oper, history, StopInv, StopEndsAll,
       Killing
<1>34. CASE BootStop
  BY <1>34 DEF BootStop, plan, files, log, tree, history, StopInv, StopEndsAll, Killing
<1>35. CASE BootAdopt
  BY <1>35 DEF BootAdopt, plan, files, log, tree, StopInv, StopEndsAll, Killing
<1>36. CASE AdoptFreeze
  BY <1>36 DEF AdoptFreeze, Take, Step, plan, files, log, hold, oper, history, StopInv,
       StopEndsAll, Killing
<1>37. CASE AdoptWrite
  BY <1>37 DEF AdoptWrite, Refuse, plan, log, hold, tree, oper, history, StopInv, StopEndsAll,
       Killing
<1>38. CASE AdoptRecord
  BY <1>38 DEF AdoptRecord, Refuse, plan, files, tree, oper, history, StopInv, StopEndsAll,
       Killing
<1>39. CASE BootResume
  BY <1>39 DEF BootResume, Take, Step, plan, files, log, StopInv, StopEndsAll, Killing
<1>40. CASE FinishResume
  BY <1>40 DEF FinishResume, Refuse, plan, log, tree, oper, history, StopInv, StopEndsAll, Killing
<1>41. CASE BootOrphan
  BY <1>41 DEF BootOrphan, Take, Step, plan, files, log, StopInv, StopEndsAll, Killing
<1>42. CASE ReleaseOrphan
  BY <1>42 DEF ReleaseOrphan, plan, log, tree, oper, history, StopInv, StopEndsAll, Killing
<1>43. CASE BeginPause
  BY <1>43 DEF BeginPause, Enter, Ready, plan, files, log, tree, oper, history, StopInv,
       StopEndsAll, Killing
<1>44. CASE BeginResume
  BY <1>44 DEF BeginResume, Take, Enter, Ready, plan, files, log, tree, history, StopInv,
       StopEndsAll, Killing
<1>45. CASE BeginHoldForStop
  BY <1>45 DEF BeginHoldForStop, Take, Enter, Ready, plan, files, log, tree, oper, history,
       StopInv, StopEndsAll, Killing
<1>46. CASE BeginStop
  BY <1>46 DEF BeginStop, Enter, Ready, plan, files, log, tree, oper, history, StopInv,
       StopEndsAll, Killing
<1>47. CASE Seal
  BY <1>47 DEF Seal, Ready, plan, files, oper, StopInv, StopEndsAll, Killing
<1>48. ASSUME NEW c \in Caps, JoinCapture(c) PROVE StopInv'
  BY <1>48 DEF JoinCapture, Ready, plan, log, oper, history, StopInv, StopEndsAll, Killing
<1>49. ASSUME NEW c \in Caps, BeginCapture(c) PROVE StopInv'
  BY <1>49 DEF BeginCapture, Take, Enter, Ready, plan, files, log, tree, oper, history, StopInv,
       StopEndsAll, Killing
<1>50. ASSUME NEW c \in Caps, ReleaseCapture(c) PROVE StopInv'
  BY <1>50 DEF ReleaseCapture, Take, Ready, plan, files, log, tree, oper, history, StopInv,
       StopEndsAll, Killing
<1>51. ASSUME NEW c \in Caps, ClientDie(c) PROVE StopInv'
  BY <1>51 DEF ClientDie, plan, files, log, hold, tree, oper, history, StopInv, StopEndsAll,
       Killing
<1>52. CASE Crash
  BY <1>52 DEF Crash, Forget, plan, files, log, StopInv, StopEndsAll, Killing
<1>53. CASE Restart
  BY <1>53 DEF Restart, plan, files, log, hold, tree, oper, history, StopInv, StopEndsAll, Killing
<1>54. CASE LaunchAdmit
  BY <1>54 DEF LaunchAdmit, AdmitsLaunch, Marks, plan, files, log, hold, tree, oper, history,
       StopInv, StopEndsAll, Killing
<1>55. CASE LaunchSpawn
  BY <1>55 DEF LaunchSpawn, plan, files, log, hold, tree, oper, history, StopInv, StopEndsAll,
       Killing
<1>56. CASE Fork
  BY <1>56 DEF Fork, plan, files, log, hold, tree, oper, history, StopInv, StopEndsAll, Killing
<1>57. CASE ProcessExit
  BY <1>57 DEF ProcessExit, plan, files, log, hold, oper, history, StopInv, StopEndsAll, Killing
<1>58. CASE ProxyPoll
  BY <1>58 DEF ProxyPoll, plan, files, log, hold, tree, oper, history, StopInv, StopEndsAll,
       Killing
<1>59. CASE BootRefuse
  BY <1>59 DEF BootRefuse, plan, files, log, hold, tree, oper, history, StopInv, StopEndsAll,
       Killing
<1> QED
  BY <1>1, <1>2, <1>3, <1>4, <1>5, <1>6, <1>7, <1>8, <1>9, <1>10, <1>11, <1>12, <1>13, <1>14, <1>15,
       <1>16, <1>17, <1>18, <1>19, <1>20, <1>21, <1>22, <1>23, <1>24, <1>25, <1>26, <1>27, <1>28, <1>29,
       <1>30, <1>31, <1>32, <1>33, <1>34, <1>35, <1>36, <1>37, <1>38, <1>39, <1>40, <1>41, <1>42, <1>43,
       <1>44, <1>45, <1>46, <1>47, <1>48, <1>49, <1>50, <1>51, <1>52, <1>53, <1>54, <1>55, <1>56, <1>57,
       <1>58, <1>59 DEF Next, Daemon, Requests

\* A log that a stop sealed belongs to a session with no process left and no launch still to
\* spawn one, whatever failed or died on the way: daemon.rs stop, end_workloads.
THEOREM StoppedMeansEnded == Spec => []StopEndsAll
<1>1. StopInv => StopEndsAll
  BY DEF StopInv
<1> QED
  BY StopInit, StopStep, <1>1, PTL DEF Spec

--------------------------------------------------------------------------------
(* Who holds the session, in the daemon's memory and on disk *)

Adopting == {"a_freeze", "a_write", "a_record"}
Releasing == {"l_marker", "l_confirm", "l_thaw", "l_record"}
Pausing == {"p_freeze", "p_mark", "p_owners", "p_record"}
Capturing == {"c_freeze", "c_mark", "c_owners", "c_record"}
Holding == {"h_stop", "h_over", "h_freeze", "h_mark", "h_record"}

\* Owners are of a hold, or of one that is being adopted; a release is of a hold the user does
\* not own unless it is a resume.
OwnInv ==
  /\ ~up => at = "idle" /\ ~held /\ own = {} /\ goal # "boot"
  /\ ~held => own = {} \/ at \in Adopting \cup {"f_write", "exit"}
  /\ at \in {"boot", "o_write", "back_thaw", "h_freeze", "h_mark"} => ~held /\ own = {}
  /\ at \in Adopting \cup {"f_write", "o_write"} => goal = "boot" /\ ~held
  /\ at \in {"idle", "boot", "back", "r_owners", "r_record"} \cup Pausing \cup Capturing \cup Holding
       => goal # "boot"
  /\ at = "h_over" => held
  /\ at \in Releasing => held /\ ("user" \in own => intent = "resume")
  /\ at = "f_write" => intent = "resume"
  /\ at \in {"h_stop", "s_intent", "s_mark"} => intent # "resume"
  /\ intent = "capture" => intentCap \in Caps

LEMMA Names == "user" \notin Caps /\ "stop" \notin Caps /\ None \notin Caps
BY LifecycleAssumption

\* What the transition table admits.
LEMMA Admitted ==
  ASSUME sealed = "no"
  PROVE  /\ Admits("resume") => held /\ "stop" \notin Pruned
         /\ Admits("pause") => IF held THEN "stop" \notin Pruned ELSE ~stopMarker
         /\ Admits("capture") /\ ~held => ~stopMarker
BY DEF Admits, Lifecycle

LEMMA OwnInit == Init => OwnInv
BY DEF Init, OwnInv, Adopting, Releasing, Pausing, Capturing, Holding

LEMMA OwnStep == OwnInv /\ [Next]_vars => OwnInv'
<1> SUFFICES ASSUME OwnInv, [Next]_vars PROVE OwnInv'
  OBVIOUS
<1> USE DEF Adopting, Releasing, Pausing, Capturing, Holding
<1>1. CASE UNCHANGED vars
  BY <1>1 DEF vars, plan, files, log, hold, tree, oper, history, OwnInv
<1>2. CASE PauseFreeze
  BY <1>2 DEF PauseFreeze, Refuse, Take, plan, files, log, hold, tree, oper, history, OwnInv
<1>3. CASE PauseMark
  BY <1>3 DEF PauseMark, plan, log, hold, tree, oper, history, OwnInv
<1>4. CASE PauseOwners
  BY <1>4 DEF PauseOwners, plan, log, hold, tree, oper, history, OwnInv
<1>5. CASE PauseRecord
  BY <1>5 DEF PauseRecord, Refuse, plan, files, hold, oper, history, OwnInv
<1>6. CASE TakeBack
  BY <1>6 DEF TakeBack, plan, log, tree, oper, history, OwnInv
<1>7. CASE TakeBackThaw
  BY <1>7 DEF TakeBackThaw, Step, plan, log, hold, oper, history, OwnInv
<1>8. CASE ClearIntent
  BY <1>8 DEF ClearIntent, plan, files, log, hold, tree, history, OwnInv
<1>9. CASE ResumeOwners
  BY <1>9 DEF ResumeOwners, plan, log, tree, oper, history, OwnInv
<1>10. CASE ResumeRecord
  BY <1>10 DEF ResumeRecord, Refuse, plan, files, hold, tree, history, OwnInv
<1>11. CASE ReleaseMarker
  BY <1>11 DEF ReleaseMarker, Refuse, Released, plan, log, hold, tree, history, OwnInv
<1>12. CASE ReleaseConfirm
  BY <1>12 DEF ReleaseConfirm, Released, plan, log, hold, tree, OwnInv
<1>13. CASE ReleaseThaw
  BY <1>13 DEF ReleaseThaw, Step, plan, log, hold, oper, history, OwnInv
<1>14. CASE ReleaseRecord
  BY <1>14 DEF ReleaseRecord, Released, plan, files, tree, history, OwnInv
<1>15. CASE CaptureFreeze
  BY <1>15 DEF CaptureFreeze, plan, files, log, hold, history, OwnInv
<1>16. CASE CaptureMark
  BY <1>16 DEF CaptureMark, plan, log, hold, tree, history, OwnInv
<1>17. CASE CaptureOwners
  BY <1>17 DEF CaptureOwners, plan, log, hold, tree, history, OwnInv
<1>18. CASE CaptureRecord
  BY <1>18 DEF CaptureRecord, plan, files, hold, tree, history, OwnInv
<1>19. CASE HoldStopMarker
  BY <1>19 DEF HoldStopMarker, Refuse, plan, files, log, hold, tree, oper, history, OwnInv
<1>20. CASE HoldOver
  BY <1>20 DEF HoldOver, Refuse, plan, log, oper, history, OwnInv
<1>21. CASE HoldFreeze
  BY <1>21 DEF HoldFreeze, Step, plan, files, log, hold, oper, history, OwnInv
<1>22. CASE HoldMark
  BY <1>22 DEF HoldMark, Refuse, plan, files, log, hold, tree, oper, history, OwnInv
<1>23. CASE HoldRecord
  BY <1>23 DEF HoldRecord, Refuse, plan, files, tree, oper, history, OwnInv
<1>24. CASE StopIntent
  BY <1>24 DEF StopIntent, Refuse, plan, files, log, hold, tree, oper, history, OwnInv
<1>25. CASE StopMark
  BY <1>25 DEF StopMark, Refuse, Take, plan, files, log, hold, tree, oper, history, OwnInv
<1>26. CASE StopClose
  BY <1>26 DEF StopClose, Refuse, plan, log, tree, oper, history, OwnInv
<1>27. CASE StopKill
  BY <1>27 DEF StopKill, Terminated, plan, files, log, hold, oper, history, OwnInv
<1>28. CASE StopConfirm
  BY <1>28 DEF StopConfirm, plan, files, log, hold, oper, history, OwnInv
<1>29. CASE StopHold
  BY <1>29 DEF StopHold, Refuse, plan, tree, oper, history, OwnInv
<1>30. CASE StopRecord
  BY <1>30 DEF StopRecord, Refuse, plan, files, oper, history, OwnInv
<1>31. CASE StopSeal
  BY <1>31 DEF StopSeal, Refuse, plan, files, hold, tree, history, OwnInv
<1>32. CASE Exit
  BY <1>32 DEF Exit, Forget, plan, files, log, history, OwnInv
<1>33. CASE BootServe
  BY <1>33 DEF BootServe, plan, files, log, hold, tree, oper, history, OwnInv
<1>34. CASE BootStop
  BY <1>34 DEF BootStop, plan, files, log, tree, history, OwnInv
<1>35. CASE BootAdopt
  BY <1>35 DEF BootAdopt, Rob, plan, files, log, tree, OwnInv
<1>36. CASE AdoptFreeze
  BY <1>36 DEF AdoptFreeze, Take, Step, plan, files, log, hold, oper, history, OwnInv
<1>37. CASE AdoptWrite
  BY <1>37 DEF AdoptWrite, Refuse, plan, log, hold, tree, oper, history, OwnInv
<1>38. CASE AdoptRecord
  BY <1>38 DEF AdoptRecord, Refuse, plan, files, tree, oper, history, OwnInv
<1>39. CASE BootResume
  BY <1>39 DEF BootResume, Take, Step, Rob, plan, files, log, OwnInv
<1>40. CASE FinishResume
  <2>0. at = "f_write" /\ UNCHANGED <<up, goal, intent, intentCap>>
    BY <1>40 DEF FinishResume, plan, oper
  <2>1. CASE held' = TRUE /\ at' = "l_marker" /\ UNCHANGED own
    BY <2>0, <2>1 DEF OwnInv, Adopting, Releasing, Pausing, Capturing, Holding
  <2>2. CASE UNCHANGED <<held, own>> /\ Refuse
    BY <2>0, <2>2 DEF Refuse, OwnInv, Adopting, Releasing, Pausing, Capturing, Holding
  <2>3. CASE own' = {} /\ at' = "back_thaw" /\ held' = held
    BY <2>0, <2>3 DEF OwnInv, Adopting, Releasing, Pausing, Capturing, Holding
  <2> QED
    BY <1>40, <2>1, <2>2, <2>3 DEF FinishResume
<1>41. CASE BootOrphan
  BY <1>41 DEF BootOrphan, Take, Step, Rob, plan, files, log, OwnInv
<1>42. CASE ReleaseOrphan
  BY <1>42 DEF ReleaseOrphan, plan, log, tree, oper, history, OwnInv
<1>43. CASE BeginPause
  BY <1>43, Admitted DEF BeginPause, Enter, Ready, Pruned, Dead, plan, files, log, tree, oper,
       history, OwnInv
<1>44. CASE BeginResume
  BY <1>44, Admitted DEF BeginResume, Take, Enter, Pruned, Dead, Ready, plan, files, log, tree,
       history, OwnInv
<1>45. CASE BeginHoldForStop
  BY <1>45 DEF BeginHoldForStop, Take, Enter, Ready, Pruned, Dead, plan, files, log, tree, oper,
       history, OwnInv
<1>46. CASE BeginStop
  BY <1>46 DEF BeginStop, Enter, Ready, Pruned, Dead, plan, files, log, tree, oper, history,
       OwnInv
<1>47. CASE Seal
  BY <1>47 DEF Seal, Ready, Rob, plan, files, oper, OwnInv
<1>48. ASSUME NEW c \in Caps, JoinCapture(c) PROVE OwnInv'
  BY <1>48 DEF JoinCapture, Ready, Pruned, Dead, plan, log, oper, history, OwnInv
<1>49. ASSUME NEW c \in Caps, BeginCapture(c) PROVE OwnInv'
  BY <1>49 DEF BeginCapture, Take, Enter, Ready, Pruned, Dead, plan, files, log, tree, oper,
       history, OwnInv
<1>50. ASSUME NEW c \in Caps, ReleaseCapture(c) PROVE OwnInv'
  BY <1>50, Names DEF ReleaseCapture, Take, Ready, LeftBy, Pruned, Dead, plan, files, log, tree,
       oper, history, OwnInv
<1>51. ASSUME NEW c \in Caps, ClientDie(c) PROVE OwnInv'
  BY <1>51 DEF ClientDie, plan, files, log, hold, tree, oper, history, OwnInv
<1>52. CASE Crash
  BY <1>52 DEF Crash, Forget, plan, files, log, OwnInv
<1>53. CASE Restart
  BY <1>53 DEF Restart, plan, files, log, hold, tree, oper, history, OwnInv
<1>54. CASE LaunchAdmit
  BY <1>54 DEF LaunchAdmit, AdmitsLaunch, Marks, plan, files, log, hold, tree, oper, history,
       OwnInv
<1>55. CASE LaunchSpawn
  BY <1>55 DEF LaunchSpawn, plan, files, log, hold, tree, oper, history, OwnInv
<1>56. CASE Fork
  BY <1>56 DEF Fork, plan, files, log, hold, tree, oper, history, OwnInv
<1>57. CASE ProcessExit
  BY <1>57 DEF ProcessExit, plan, files, log, hold, oper, history, OwnInv
<1>58. CASE ProxyPoll
  BY <1>58 DEF ProxyPoll, plan, files, log, hold, tree, oper, history, OwnInv
<1>59. CASE BootRefuse
  BY <1>59 DEF BootRefuse, plan, files, log, hold, tree, oper, history, OwnInv
<1> QED
  BY <1>1, <1>2, <1>3, <1>4, <1>5, <1>6, <1>7, <1>8, <1>9, <1>10, <1>11, <1>12, <1>13, <1>14, <1>15,
       <1>16, <1>17, <1>18, <1>19, <1>20, <1>21, <1>22, <1>23, <1>24, <1>25, <1>26, <1>27, <1>28, <1>29,
       <1>30, <1>31, <1>32, <1>33, <1>34, <1>35, <1>36, <1>37, <1>38, <1>39, <1>40, <1>41, <1>42, <1>43,
       <1>44, <1>45, <1>46, <1>47, <1>48, <1>49, <1>50, <1>51, <1>52, <1>53, <1>54, <1>55, <1>56, <1>57,
       <1>58, <1>59 DEF Next, Daemon, Requests

\* Once a stop has begun it owns every hold, and nothing that undoes one is under way; unless a
\* stop was refused and its marker is there all the same.
MarkInv ==
  stopMarker /\ "half" \notin lapses =>
    /\ intent # "resume"
    /\ at \notin Pausing \cup Capturing \cup Releasing
                 \cup {"back", "back_thaw", "r_owners", "r_record", "f_write", "o_write"}
    /\ held => "stop" \in own \/ at \in Killing \cup {"h_over"}
    /\ at \in Adopting => "stop" \in own

LEMMA MarkInit == Init => MarkInv
BY DEF Init, MarkInv

LEMMA MarkStep == OwnInv /\ MarkInv /\ [Next]_vars => MarkInv'
<1> SUFFICES ASSUME OwnInv, MarkInv, [Next]_vars PROVE MarkInv'
  OBVIOUS
<1> USE DEF OwnInv, MarkInv, Adopting, Releasing, Pausing, Capturing, Holding, Killing
<1>1. CASE UNCHANGED vars
  BY <1>1 DEF vars, plan, files, log, hold, tree, oper, history
<1>2. CASE PauseFreeze
  BY <1>2, Names DEF PauseFreeze, Refuse, Take, plan, files, log, hold, tree, oper, history
<1>3. CASE PauseMark
  BY <1>3, Names DEF PauseMark, plan, log, hold, tree, oper, history
<1>4. CASE PauseOwners
  BY <1>4, Names DEF PauseOwners, plan, log, hold, tree, oper, history
<1>5. CASE PauseRecord
  BY <1>5, Names DEF PauseRecord, Refuse, plan, files, hold, oper, history
<1>6. CASE TakeBack
  BY <1>6, Names DEF TakeBack, plan, log, tree, oper, history
<1>7. CASE TakeBackThaw
  BY <1>7, Names DEF TakeBackThaw, ThawLost, Thaw, Step, plan, log, hold, oper, history
<1>8. CASE ClearIntent
  BY <1>8, Names DEF ClearIntent, plan, files, log, hold, tree, history
<1>9. CASE ResumeOwners
  BY <1>9, Names DEF ResumeOwners, plan, log, tree, oper, history
<1>10. CASE ResumeRecord
  BY <1>10, Names DEF ResumeRecord, Refuse, plan, files, hold, tree, history
<1>11. CASE ReleaseMarker
  BY <1>11, Names DEF ReleaseMarker, Refuse, Released, plan, log, hold, tree, history
<1>12. CASE ReleaseConfirm
  BY <1>12, Names DEF ReleaseConfirm, Released, plan, log, hold, tree
<1>13. CASE ReleaseThaw
  BY <1>13, Names DEF ReleaseThaw, ThawLost, Thaw, Step, plan, log, hold, oper, history
<1>14. CASE ReleaseRecord
  BY <1>14, Names DEF ReleaseRecord, Released, plan, files, tree, history
<1>15. CASE CaptureFreeze
  BY <1>15, Names DEF CaptureFreeze, plan, files, log, hold, history
<1>16. CASE CaptureMark
  BY <1>16, Names DEF CaptureMark, plan, log, hold, tree, history
<1>17. CASE CaptureOwners
  BY <1>17, Names DEF CaptureOwners, plan, log, hold, tree, history
<1>18. CASE CaptureRecord
  BY <1>18, Names DEF CaptureRecord, plan, files, hold, tree, history
<1>19. CASE HoldStopMarker
  BY <1>19, Names DEF HoldStopMarker, StopMarkerLost, Refuse, plan, files, log, hold, tree, oper,
       history
<1>20. CASE HoldOver
  BY <1>20, Names DEF HoldOver, Refuse, plan, log, oper, history
<1>21. CASE HoldFreeze
  BY <1>21, Names DEF HoldFreeze, Step, plan, files, log, hold, oper, history
<1>22. CASE HoldMark
  BY <1>22, Names DEF HoldMark, ThawLost, Thaw, Refuse, plan, files, log, hold, tree, oper,
       history
<1>23. CASE HoldRecord
  BY <1>23, Names DEF HoldRecord, Refuse, plan, files, tree, oper, history
<1>24. CASE StopIntent
  BY <1>24, Names DEF StopIntent, Refuse, plan, files, log, hold, tree, oper, history
<1>25. CASE StopMark
  BY <1>25, Names DEF StopMark, StopMarkerLost, Refuse, Take, plan, files, log, hold, tree, oper,
       history
<1>26. CASE StopClose
  BY <1>26, Names DEF StopClose, Refuse, plan, log, tree, oper, history
<1>27. CASE StopKill
  BY <1>27, Names DEF StopKill, Terminated, plan, files, log, hold, oper, history
<1>28. CASE StopConfirm
  BY <1>28, Names DEF StopConfirm, plan, files, log, hold, oper, history
<1>29. CASE StopHold
  BY <1>29, Names DEF StopHold, Refuse, plan, tree, oper, history
<1>30. CASE StopRecord
  BY <1>30, Names DEF StopRecord, Refuse, plan, files, oper, history
<1>31. CASE StopSeal
  BY <1>31, Names DEF StopSeal, Refuse, plan, files, hold, tree, history
<1>32. CASE Exit
  BY <1>32, Names DEF Exit, Forget, plan, files, log, history
<1>33. CASE BootServe
  BY <1>33, Names DEF BootServe, plan, files, log, hold, tree, oper, history
<1>34. CASE BootStop
  BY <1>34, Names DEF BootStop, Recorded, Dead, plan, files, log, tree, history
<1>35. CASE BootAdopt
  BY <1>35, Names DEF BootAdopt, Rob, Recorded, Dead, plan, files, log, tree
<1>36. CASE AdoptFreeze
  BY <1>36, Names DEF AdoptFreeze, Take, Step, plan, files, log, hold, oper, history
<1>37. CASE AdoptWrite
  BY <1>37, Names DEF AdoptWrite, Refuse, plan, log, hold, tree, oper, history
<1>38. CASE AdoptRecord
  BY <1>38, Names DEF AdoptRecord, Refuse, plan, files, tree, oper, history
<1>39. CASE BootResume
  BY <1>39, Names DEF BootResume, Take, Step, Rob, plan, files, log
<1>40. CASE FinishResume
  BY <1>40, Names DEF FinishResume, Refuse, plan, log, tree, oper, history
<1>41. CASE BootOrphan
  BY <1>41, Names DEF BootOrphan, Take, Step, Rob, Recorded, Dead, plan, files, log
<1>42. CASE ReleaseOrphan
  BY <1>42, Names DEF ReleaseOrphan, plan, log, tree, oper, history
<1>43. CASE BeginPause
  BY <1>43, Admitted, Names DEF BeginPause, Enter, Ready, Pruned, Dead, plan, files, log, tree,
       oper, history
<1>44. CASE BeginResume
  BY <1>44, Admitted, Names DEF BeginResume, Take, Enter, Pruned, Dead, Ready, plan, files, log,
       tree, history
<1>45. CASE BeginHoldForStop
  BY <1>45, Names DEF BeginHoldForStop, Take, Enter, Ready, Pruned, Dead, plan, files, log, tree,
       oper, history
<1>46. CASE BeginStop
  BY <1>46, Names DEF BeginStop, Enter, Ready, Pruned, Dead, plan, files, log, tree, oper, history
<1>47. CASE Seal
  BY <1>47, Names DEF Seal, Ready, Rob, plan, files, oper
<1>48. ASSUME NEW c \in Caps, JoinCapture(c) PROVE MarkInv'
  BY <1>48, Names DEF JoinCapture, Ready, Pruned, Dead, plan, log, oper, history
<1>49. ASSUME NEW c \in Caps, BeginCapture(c) PROVE MarkInv'
  BY <1>49, Admitted, Names DEF BeginCapture, Take, Enter, Ready, Pruned, Dead, plan, files, log,
       tree, oper, history
<1>50. ASSUME NEW c \in Caps, ReleaseCapture(c) PROVE MarkInv'
  BY <1>50, Names DEF ReleaseCapture, Take, Ready, LeftBy, Pruned, Dead, plan, files, log, tree,
       oper, history
<1>51. ASSUME NEW c \in Caps, ClientDie(c) PROVE MarkInv'
  BY <1>51, Names DEF ClientDie, plan, files, log, hold, tree, oper, history
<1>52. CASE Crash
  BY <1>52, Names DEF Crash, Forget, plan, files, log
<1>53. CASE Restart
  BY <1>53, Names DEF Restart, plan, files, log, hold, tree, oper, history
<1>54. CASE LaunchAdmit
  BY <1>54, Names DEF LaunchAdmit, AdmitsLaunch, Marks, plan, files, log, hold, tree, oper,
       history
<1>55. CASE LaunchSpawn
  BY <1>55, Names DEF LaunchSpawn, plan, files, log, hold, tree, oper, history
<1>56. CASE Fork
  BY <1>56, Names DEF Fork, plan, files, log, hold, tree, oper, history
<1>57. CASE ProcessExit
  BY <1>57, Names DEF ProcessExit, plan, files, log, hold, oper, history
<1>58. CASE ProxyPoll
  BY <1>58, Names DEF ProxyPoll, plan, files, log, hold, tree, oper, history
<1>59. CASE BootRefuse
  BY <1>59, Names DEF BootRefuse, plan, files, log, hold, tree, oper, history
<1> QED
  BY <1>1, <1>2, <1>3, <1>4, <1>5, <1>6, <1>7, <1>8, <1>9, <1>10, <1>11, <1>12, <1>13, <1>14, <1>15,
       <1>16, <1>17, <1>18, <1>19, <1>20, <1>21, <1>22, <1>23, <1>24, <1>25, <1>26, <1>27, <1>28, <1>29,
       <1>30, <1>31, <1>32, <1>33, <1>34, <1>35, <1>36, <1>37, <1>38, <1>39, <1>40, <1>41, <1>42, <1>43,
       <1>44, <1>45, <1>46, <1>47, <1>48, <1>49, <1>50, <1>51, <1>52, <1>53, <1>54, <1>55, <1>56, <1>57,
       <1>58, <1>59 DEF Next, Daemon, Requests

LEMMA HoldsHold == Spec => [](OwnInv /\ MarkInv)
BY OwnInit, OwnStep, MarkInit, MarkStep, PTL DEF Spec

\* Only these steps let a stopped process run again: the others stop more or end it.
Thawing == at \in {"back_thaw", "l_thaw", "h_mark"}

LEMMA ThawStep ==
  ASSUME [Next]_vars, ~Thawing PROVE halted \cap alive' \subseteq halted'
<1> USE DEF Thawing
<1>1. CASE UNCHANGED vars
  BY <1>1 DEF vars, plan, files, log, hold, tree, oper, history
<1>2. CASE PauseFreeze
  BY <1>2 DEF PauseFreeze, Refuse, Take, Freeze, plan, files, log, hold, tree, oper, history
<1>3. CASE PauseMark
  BY <1>3 DEF PauseMark, plan, log, hold, tree, oper, history
<1>4. CASE PauseOwners
  BY <1>4 DEF PauseOwners, plan, log, hold, tree, oper, history
<1>5. CASE PauseRecord
  BY <1>5 DEF PauseRecord, Refuse, plan, files, hold, oper, history
<1>6. CASE TakeBack
  BY <1>6 DEF TakeBack, plan, log, tree, oper, history
<1>7. CASE TakeBackThaw
  BY <1>7 DEF TakeBackThaw, Step, plan, log, hold, oper, history
<1>8. CASE ClearIntent
  BY <1>8 DEF ClearIntent, plan, files, log, hold, tree, history
<1>9. CASE ResumeOwners
  BY <1>9 DEF ResumeOwners, plan, log, tree, oper, history
<1>10. CASE ResumeRecord
  BY <1>10 DEF ResumeRecord, Refuse, plan, files, hold, tree, history
<1>11. CASE ReleaseMarker
  BY <1>11 DEF ReleaseMarker, Refuse, Released, plan, log, hold, tree, history
<1>12. CASE ReleaseConfirm
  BY <1>12 DEF ReleaseConfirm, Released, plan, log, hold, tree
<1>13. CASE ReleaseThaw
  BY <1>13 DEF ReleaseThaw, Step, plan, log, hold, oper, history
<1>14. CASE ReleaseRecord
  BY <1>14 DEF ReleaseRecord, Released, plan, files, tree, history
<1>15. CASE CaptureFreeze
  BY <1>15 DEF CaptureFreeze, Freeze, plan, files, log, hold, history
<1>16. CASE CaptureMark
  BY <1>16 DEF CaptureMark, plan, log, hold, tree, history
<1>17. CASE CaptureOwners
  BY <1>17 DEF CaptureOwners, plan, log, hold, tree, history
<1>18. CASE CaptureRecord
  BY <1>18 DEF CaptureRecord, plan, files, hold, tree, history
<1>19. CASE HoldStopMarker
  BY <1>19 DEF HoldStopMarker, Refuse, plan, files, log, hold, tree, oper, history
<1>20. CASE HoldOver
  BY <1>20 DEF HoldOver, Refuse, Freeze, plan, log, oper, history
<1>21. CASE HoldFreeze
  BY <1>21 DEF HoldFreeze, Step, Freeze, plan, files, log, hold, oper, history
<1>22. CASE HoldMark
  BY <1>22 DEF HoldMark, Refuse, plan, files, log, hold, tree, oper, history
<1>23. CASE HoldRecord
  BY <1>23 DEF HoldRecord, Refuse, plan, files, tree, oper, history
<1>24. CASE StopIntent
  BY <1>24 DEF StopIntent, Refuse, plan, files, log, hold, tree, oper, history
<1>25. CASE StopMark
  BY <1>25 DEF StopMark, Refuse, Take, plan, files, log, hold, tree, oper, history
<1>26. CASE StopClose
  BY <1>26 DEF StopClose, Refuse, plan, log, tree, oper, history
<1>27. CASE StopKill
  BY <1>27 DEF StopKill, Terminated, plan, files, log, hold, oper, history
<1>28. CASE StopConfirm
  BY <1>28 DEF StopConfirm, plan, files, log, hold, oper, history
<1>29. CASE StopHold
  BY <1>29 DEF StopHold, Refuse, plan, tree, oper, history
<1>30. CASE StopRecord
  BY <1>30 DEF StopRecord, Refuse, plan, files, oper, history
<1>31. CASE StopSeal
  BY <1>31 DEF StopSeal, Refuse, plan, files, hold, tree, history
<1>32. CASE Exit
  BY <1>32 DEF Exit, Forget, plan, files, log, history
<1>33. CASE BootServe
  BY <1>33 DEF BootServe, plan, files, log, hold, tree, oper, history
<1>34. CASE BootStop
  BY <1>34 DEF BootStop, plan, files, log, tree, history
<1>35. CASE BootAdopt
  BY <1>35 DEF BootAdopt, Rob, plan, files, log, tree
<1>36. CASE AdoptFreeze
  BY <1>36 DEF AdoptFreeze, Take, Step, Freeze, plan, files, log, hold, oper, history
<1>37. CASE AdoptWrite
  BY <1>37 DEF AdoptWrite, Refuse, plan, log, hold, tree, oper, history
<1>38. CASE AdoptRecord
  BY <1>38 DEF AdoptRecord, Refuse, plan, files, tree, oper, history
<1>39. CASE BootResume
  BY <1>39 DEF BootResume, Take, Step, Rob, Freeze, plan, files, log
<1>40. CASE FinishResume
  BY <1>40 DEF FinishResume, Refuse, plan, log, tree, oper, history
<1>41. CASE BootOrphan
  BY <1>41 DEF BootOrphan, Take, Step, Rob, Freeze, plan, files, log
<1>42. CASE ReleaseOrphan
  BY <1>42 DEF ReleaseOrphan, plan, log, tree, oper, history
<1>43. CASE BeginPause
  BY <1>43 DEF BeginPause, Enter, Ready, Pruned, Dead, plan, files, log, tree, oper, history
<1>44. CASE BeginResume
  BY <1>44 DEF BeginResume, Take, Enter, Pruned, Dead, Ready, plan, files, log, tree, history
<1>45. CASE BeginHoldForStop
  BY <1>45 DEF BeginHoldForStop, Take, Enter, Ready, Pruned, Dead, plan, files, log, tree, oper,
       history
<1>46. CASE BeginStop
  BY <1>46 DEF BeginStop, Enter, Ready, Pruned, Dead, plan, files, log, tree, oper, history
<1>47. CASE Seal
  BY <1>47 DEF Seal, Ready, Rob, plan, files, oper
<1>48. ASSUME NEW c \in Caps, JoinCapture(c) PROVE halted \cap alive' \subseteq halted'
  BY <1>48 DEF JoinCapture, Ready, Pruned, Freeze, Dead, plan, log, oper, history
<1>49. ASSUME NEW c \in Caps, BeginCapture(c) PROVE halted \cap alive' \subseteq halted'
  BY <1>49 DEF BeginCapture, Take, Enter, Ready, Pruned, Dead, plan, files, log, tree, oper,
       history
<1>50. ASSUME NEW c \in Caps, ReleaseCapture(c) PROVE halted \cap alive' \subseteq halted'
  BY <1>50 DEF ReleaseCapture, Take, Ready, LeftBy, Pruned, Dead, plan, files, log, tree, oper,
       history
<1>51. ASSUME NEW c \in Caps, ClientDie(c) PROVE halted \cap alive' \subseteq halted'
  BY <1>51 DEF ClientDie, plan, files, log, hold, tree, oper, history
<1>52. CASE Crash
  BY <1>52 DEF Crash, Forget, plan, files, log
<1>53. CASE Restart
  BY <1>53 DEF Restart, plan, files, log, hold, tree, oper, history
<1>54. CASE LaunchAdmit
  BY <1>54 DEF LaunchAdmit, AdmitsLaunch, Marks, plan, files, log, hold, tree, oper, history
<1>55. CASE LaunchSpawn
  BY <1>55 DEF LaunchSpawn, plan, files, log, hold, tree, oper, history
<1>56. CASE Fork
  BY <1>56 DEF Fork, plan, files, log, hold, tree, oper, history
<1>57. CASE ProcessExit
  BY <1>57 DEF ProcessExit, plan, files, log, hold, oper, history
<1>58. CASE ProxyPoll
  BY <1>58 DEF ProxyPoll, plan, files, log, hold, tree, oper, history
<1>59. CASE BootRefuse
  BY <1>59 DEF BootRefuse, plan, files, log, hold, tree, oper, history
<1> QED
  BY <1>1, <1>2, <1>3, <1>4, <1>5, <1>6, <1>7, <1>8, <1>9, <1>10, <1>11, <1>12, <1>13, <1>14, <1>15,
       <1>16, <1>17, <1>18, <1>19, <1>20, <1>21, <1>22, <1>23, <1>24, <1>25, <1>26, <1>27, <1>28, <1>29,
       <1>30, <1>31, <1>32, <1>33, <1>34, <1>35, <1>36, <1>37, <1>38, <1>39, <1>40, <1>41, <1>42, <1>43,
       <1>44, <1>45, <1>46, <1>47, <1>48, <1>49, <1>50, <1>51, <1>52, <1>53, <1>54, <1>55, <1>56, <1>57,
       <1>58, <1>59 DEF Next, Daemon, Requests

\* Once a stop has begun nothing stopped runs again, whatever fails or dies, except by the hold
\* for a stop that could not write its marker, and by a release over the marker a refused stop
\* left behind: daemon.rs resume, recorded_holders.
THEOREM StopsAreFinal == Spec => StopIsFinal
<1>1. OwnInv /\ MarkInv /\ [Next]_vars
      => [stopMarker /\ at # "h_mark" /\ ~Yields => halted \cap alive' \subseteq halted']_vars
  BY ThawStep DEF MarkInv, Thawing, Releasing, Yields
<1> QED
  BY HoldsHold, <1>1, PTL DEF Spec, StopIsFinal

\* A session the user paused runs again only by a resume, whichever captures, failures and
\* deaths of the daemon there are: daemon.rs release_capture, take_back_user_layer, adopt_hold.
THEOREM UserPausesStand == Spec => UserPauseStands
<1>1. OwnInv /\ MarkInv /\ [Next]_vars
      => [(\E p \in halted : p \in alive' \ halted') /\ "user" \in own => intent = "resume"]_vars
  BY ThawStep DEF OwnInv, Thawing, Releasing
<1> QED
  BY HoldsHold, <1>1, PTL DEF Spec, UserPauseStands

--------------------------------------------------------------------------------
(* Captures *)

ClientInv == client \in [Caps -> {"new", "waiting", "capturing", "done", "dead"}]

LEMMA ClientInit == Init => ClientInv
BY DEF Init, ClientInv

LEMMA ClientStep == ClientInv /\ [Next]_vars => ClientInv'
<1> SUFFICES ASSUME ClientInv, [Next]_vars PROVE ClientInv'
  OBVIOUS
<1> USE DEF ClientInv
<1>1. CASE UNCHANGED vars
  BY <1>1 DEF vars, plan, files, log, hold, tree, oper, history
<1>2. CASE PauseFreeze
  BY <1>2 DEF PauseFreeze, Refuse, Take, Freeze, plan, files, log, hold, tree, oper, history
<1>3. CASE PauseMark
  BY <1>3 DEF PauseMark, plan, log, hold, tree, oper, history
<1>4. CASE PauseOwners
  BY <1>4 DEF PauseOwners, plan, log, hold, tree, oper, history
<1>5. CASE PauseRecord
  BY <1>5 DEF PauseRecord, Refuse, plan, files, hold, oper, history
<1>6. CASE TakeBack
  BY <1>6 DEF TakeBack, plan, log, tree, oper, history
<1>7. CASE TakeBackThaw
  BY <1>7 DEF TakeBackThaw, Step, Thaw, plan, log, hold, oper, history
<1>8. CASE ClearIntent
  BY <1>8 DEF ClearIntent, plan, files, log, hold, tree, history
<1>9. CASE ResumeOwners
  BY <1>9 DEF ResumeOwners, plan, log, tree, oper, history
<1>10. CASE ResumeRecord
  BY <1>10 DEF ResumeRecord, Refuse, plan, files, hold, tree, history
<1>11. CASE ReleaseMarker
  BY <1>11 DEF ReleaseMarker, Refuse, Released, plan, log, hold, tree, history
<1>12. CASE ReleaseConfirm
  BY <1>12 DEF ReleaseConfirm, Released, plan, log, hold, tree
<1>13. CASE ReleaseThaw
  BY <1>13 DEF ReleaseThaw, Step, Thaw, plan, log, hold, oper, history
<1>14. CASE ReleaseRecord
  BY <1>14 DEF ReleaseRecord, Released, plan, files, tree, history
<1>15. CASE CaptureFreeze
  BY <1>15 DEF CaptureFreeze, Freeze, plan, files, log, hold, history
<1>16. CASE CaptureMark
  BY <1>16 DEF CaptureMark, plan, log, hold, tree, history
<1>17. CASE CaptureOwners
  BY <1>17 DEF CaptureOwners, plan, log, hold, tree, history
<1>18. CASE CaptureRecord
  BY <1>18 DEF CaptureRecord, plan, files, hold, tree, history
<1>19. CASE HoldStopMarker
  BY <1>19 DEF HoldStopMarker, Refuse, plan, files, log, hold, tree, oper, history
<1>20. CASE HoldOver
  BY <1>20 DEF HoldOver, Refuse, Freeze, plan, log, oper, history
<1>21. CASE HoldFreeze
  BY <1>21 DEF HoldFreeze, Step, Freeze, plan, files, log, hold, oper, history
<1>22. CASE HoldMark
  BY <1>22 DEF HoldMark, Refuse, Thaw, plan, files, log, hold, tree, oper, history
<1>23. CASE HoldRecord
  BY <1>23 DEF HoldRecord, Refuse, plan, files, tree, oper, history
<1>24. CASE StopIntent
  BY <1>24 DEF StopIntent, Refuse, plan, files, log, hold, tree, oper, history
<1>25. CASE StopMark
  BY <1>25 DEF StopMark, Refuse, Take, plan, files, log, hold, tree, oper, history
<1>26. CASE StopClose
  BY <1>26 DEF StopClose, Refuse, plan, log, tree, oper, history
<1>27. CASE StopKill
  BY <1>27 DEF StopKill, Terminated, plan, files, log, hold, oper, history
<1>28. CASE StopConfirm
  BY <1>28 DEF StopConfirm, plan, files, log, hold, oper, history
<1>29. CASE StopHold
  BY <1>29 DEF StopHold, Refuse, plan, tree, oper, history
<1>30. CASE StopRecord
  BY <1>30 DEF StopRecord, Refuse, plan, files, oper, history
<1>31. CASE StopSeal
  BY <1>31 DEF StopSeal, Refuse, plan, files, hold, tree, history
<1>32. CASE Exit
  BY <1>32 DEF Exit, Forget, plan, files, log, history
<1>33. CASE BootServe
  BY <1>33 DEF BootServe, plan, files, log, hold, tree, oper, history
<1>34. CASE BootStop
  BY <1>34 DEF BootStop, plan, files, log, tree, history
<1>35. CASE BootAdopt
  BY <1>35 DEF BootAdopt, Rob, plan, files, log, tree
<1>36. CASE AdoptFreeze
  BY <1>36 DEF AdoptFreeze, Take, Step, Freeze, plan, files, log, hold, oper, history
<1>37. CASE AdoptWrite
  BY <1>37 DEF AdoptWrite, Refuse, plan, log, hold, tree, oper, history
<1>38. CASE AdoptRecord
  BY <1>38 DEF AdoptRecord, Refuse, plan, files, tree, oper, history
<1>39. CASE BootResume
  BY <1>39 DEF BootResume, Take, Step, Rob, Freeze, plan, files, log
<1>40. CASE FinishResume
  BY <1>40 DEF FinishResume, Refuse, plan, log, tree, oper, history
<1>41. CASE BootOrphan
  BY <1>41 DEF BootOrphan, Take, Step, Rob, Freeze, plan, files, log
<1>42. CASE ReleaseOrphan
  BY <1>42 DEF ReleaseOrphan, plan, log, tree, oper, history
<1>43. CASE BeginPause
  BY <1>43 DEF BeginPause, Enter, Ready, Pruned, Dead, plan, files, log, tree, oper, history
<1>44. CASE BeginResume
  BY <1>44 DEF BeginResume, Take, Enter, Pruned, Dead, Ready, plan, files, log, tree, history
<1>45. CASE BeginHoldForStop
  BY <1>45 DEF BeginHoldForStop, Take, Enter, Ready, Pruned, Dead, plan, files, log, tree, oper,
       history
<1>46. CASE BeginStop
  BY <1>46 DEF BeginStop, Enter, Ready, Pruned, Dead, plan, files, log, tree, oper, history
<1>47. CASE Seal
  BY <1>47 DEF Seal, Ready, Rob, plan, files, oper
<1>48. ASSUME NEW c \in Caps, JoinCapture(c) PROVE ClientInv'
  BY <1>48 DEF JoinCapture, Ready, Pruned, Freeze, Dead, plan, log, oper, history
<1>49. ASSUME NEW c \in Caps, BeginCapture(c) PROVE ClientInv'
  BY <1>49 DEF BeginCapture, Take, Enter, Ready, Pruned, Dead, plan, files, log, tree, oper,
       history
<1>50. ASSUME NEW c \in Caps, ReleaseCapture(c) PROVE ClientInv'
  BY <1>50 DEF ReleaseCapture, Take, Ready, LeftBy, Pruned, Dead, plan, files, log, tree, oper,
       history
<1>51. ASSUME NEW c \in Caps, ClientDie(c) PROVE ClientInv'
  BY <1>51 DEF ClientDie, plan, files, log, hold, tree, oper, history
<1>52. CASE Crash
  BY <1>52 DEF Crash, Forget, plan, files, log
<1>53. CASE Restart
  BY <1>53 DEF Restart, plan, files, log, hold, tree, oper, history
<1>54. CASE LaunchAdmit
  BY <1>54 DEF LaunchAdmit, AdmitsLaunch, Marks, plan, files, log, hold, tree, oper, history
<1>55. CASE LaunchSpawn
  BY <1>55 DEF LaunchSpawn, plan, files, log, hold, tree, oper, history
<1>56. CASE Fork
  BY <1>56 DEF Fork, plan, files, log, hold, tree, oper, history
<1>57. CASE ProcessExit
  BY <1>57 DEF ProcessExit, plan, files, log, hold, oper, history
<1>58. CASE ProxyPoll
  BY <1>58 DEF ProxyPoll, plan, files, log, hold, tree, oper, history
<1>59. CASE BootRefuse
  BY <1>59 DEF BootRefuse, plan, files, log, hold, tree, oper, history
<1> QED
  BY <1>1, <1>2, <1>3, <1>4, <1>5, <1>6, <1>7, <1>8, <1>9, <1>10, <1>11, <1>12, <1>13, <1>14, <1>15,
       <1>16, <1>17, <1>18, <1>19, <1>20, <1>21, <1>22, <1>23, <1>24, <1>25, <1>26, <1>27, <1>28, <1>29,
       <1>30, <1>31, <1>32, <1>33, <1>34, <1>35, <1>36, <1>37, <1>38, <1>39, <1>40, <1>41, <1>42, <1>43,
       <1>44, <1>45, <1>46, <1>47, <1>48, <1>49, <1>50, <1>51, <1>52, <1>53, <1>54, <1>55, <1>56, <1>57,
       <1>58, <1>59 DEF Next, Daemon, Requests

\* What a client that captures after a step did before it.
LEMMA Granted ==
  ASSUME ClientInv, NEW c \in Caps, NEW d \in Caps, NEW s, client' = [client EXCEPT ![c] = s]
  PROVE  /\ d # c => client'[d] = client[d]
         /\ client'[c] = s
BY DEF ClientInv

\* A release is of a hold no live capture owns; a resume a daemon finishes is the user's.
ReleaseInv ==
  /\ at = "f_write" => own = {"user"}
  /\ at \in Releasing => "stop" \notin own /\ \A c \in Caps : c \in own => client[c] # "capturing"

LEMMA ReleaseInit == Init => ReleaseInv
BY DEF Init, ReleaseInv, Releasing

LEMMA ReleaseStep == OwnInv /\ ClientInv /\ ReleaseInv /\ [Next]_vars => ReleaseInv'
<1> SUFFICES ASSUME OwnInv, ClientInv, ReleaseInv, [Next]_vars PROVE ReleaseInv'
  OBVIOUS
<1> USE DEF Adopting, Releasing
<1>1. CASE UNCHANGED vars
  BY <1>1 DEF vars, plan, files, log, hold, tree, oper, history, OwnInv, ClientInv, ReleaseInv
<1>2. CASE PauseFreeze
  BY <1>2, Names DEF PauseFreeze, Refuse, Take, plan, files, log, hold, tree, oper, history,
       OwnInv, ClientInv, ReleaseInv
<1>3. CASE PauseMark
  BY <1>3, Names DEF PauseMark, plan, log, hold, tree, oper, history, OwnInv, ClientInv,
       ReleaseInv
<1>4. CASE PauseOwners
  BY <1>4, Names DEF PauseOwners, plan, log, hold, tree, oper, history, OwnInv, ClientInv,
       ReleaseInv
<1>5. CASE PauseRecord
  BY <1>5, Names DEF PauseRecord, Refuse, plan, files, hold, oper, history, OwnInv, ClientInv,
       ReleaseInv
<1>6. CASE TakeBack
  BY <1>6, Names DEF TakeBack, plan, log, tree, oper, history, OwnInv, ClientInv, ReleaseInv
<1>7. CASE TakeBackThaw
  BY <1>7, Names DEF TakeBackThaw, Step, plan, log, hold, oper, history, OwnInv, ClientInv,
       ReleaseInv
<1>8. CASE ClearIntent
  BY <1>8, Names DEF ClearIntent, plan, files, log, hold, tree, history, OwnInv, ClientInv,
       ReleaseInv
<1>9. CASE ResumeOwners
  BY <1>9, Names DEF ResumeOwners, plan, log, tree, oper, history, OwnInv, ClientInv, ReleaseInv
<1>10. CASE ResumeRecord
  BY <1>10, Names DEF ResumeRecord, Refuse, plan, files, hold, tree, history, OwnInv, ClientInv,
       ReleaseInv
<1>11. CASE ReleaseMarker
  BY <1>11, Names DEF ReleaseMarker, Refuse, Released, plan, log, hold, tree, history, OwnInv,
       ClientInv, ReleaseInv
<1>12. CASE ReleaseConfirm
  BY <1>12, Names DEF ReleaseConfirm, Released, plan, log, hold, tree, OwnInv, ClientInv,
       ReleaseInv
<1>13. CASE ReleaseThaw
  BY <1>13, Names DEF ReleaseThaw, Step, plan, log, hold, oper, history, OwnInv, ClientInv,
       ReleaseInv
<1>14. CASE ReleaseRecord
  BY <1>14, Names DEF ReleaseRecord, Released, plan, files, tree, history, OwnInv, ClientInv,
       ReleaseInv
<1>15. CASE CaptureFreeze
  BY <1>15, Names DEF CaptureFreeze, plan, files, log, hold, history, OwnInv, ClientInv,
       ReleaseInv
<1>16. CASE CaptureMark
  BY <1>16, Names DEF CaptureMark, plan, log, hold, tree, history, OwnInv, ClientInv, ReleaseInv
<1>17. CASE CaptureOwners
  BY <1>17, Names DEF CaptureOwners, plan, log, hold, tree, history, OwnInv, ClientInv, ReleaseInv
<1>18. CASE CaptureRecord
  BY <1>18, Names DEF CaptureRecord, plan, files, hold, tree, history, OwnInv, ClientInv,
       ReleaseInv
<1>19. CASE HoldStopMarker
  BY <1>19, Names DEF HoldStopMarker, Refuse, plan, files, log, hold, tree, oper, history, OwnInv,
       ClientInv, ReleaseInv
<1>20. CASE HoldOver
  BY <1>20, Names DEF HoldOver, Refuse, plan, log, oper, history, OwnInv, ClientInv, ReleaseInv
<1>21. CASE HoldFreeze
  BY <1>21, Names DEF HoldFreeze, Step, plan, files, log, hold, oper, history, OwnInv, ClientInv,
       ReleaseInv
<1>22. CASE HoldMark
  BY <1>22, Names DEF HoldMark, Refuse, plan, files, log, hold, tree, oper, history, OwnInv,
       ClientInv, ReleaseInv
<1>23. CASE HoldRecord
  BY <1>23, Names DEF HoldRecord, Refuse, plan, files, tree, oper, history, OwnInv, ClientInv,
       ReleaseInv
<1>24. CASE StopIntent
  BY <1>24, Names DEF StopIntent, Refuse, plan, files, log, hold, tree, oper, history, OwnInv,
       ClientInv, ReleaseInv
<1>25. CASE StopMark
  BY <1>25, Names DEF StopMark, Refuse, Take, plan, files, log, hold, tree, oper, history, OwnInv,
       ClientInv, ReleaseInv
<1>26. CASE StopClose
  BY <1>26, Names DEF StopClose, Refuse, plan, log, tree, oper, history, OwnInv, ClientInv,
       ReleaseInv
<1>27. CASE StopKill
  BY <1>27, Names DEF StopKill, Terminated, plan, files, log, hold, oper, history, OwnInv,
       ClientInv, ReleaseInv
<1>28. CASE StopConfirm
  BY <1>28, Names DEF StopConfirm, plan, files, log, hold, oper, history, OwnInv, ClientInv,
       ReleaseInv
<1>29. CASE StopHold
  BY <1>29, Names DEF StopHold, Refuse, plan, tree, oper, history, OwnInv, ClientInv, ReleaseInv
<1>30. CASE StopRecord
  BY <1>30, Names DEF StopRecord, Refuse, plan, files, oper, history, OwnInv, ClientInv,
       ReleaseInv
<1>31. CASE StopSeal
  BY <1>31, Names DEF StopSeal, Refuse, plan, files, hold, tree, history, OwnInv, ClientInv,
       ReleaseInv
<1>32. CASE Exit
  BY <1>32, Names DEF Exit, Forget, plan, files, log, history, OwnInv, ClientInv, ReleaseInv
<1>33. CASE BootServe
  BY <1>33, Names DEF BootServe, plan, files, log, hold, tree, oper, history, OwnInv, ClientInv,
       ReleaseInv
<1>34. CASE BootStop
  BY <1>34, Names DEF BootStop, plan, files, log, tree, history, OwnInv, ClientInv, ReleaseInv
<1>35. CASE BootAdopt
  BY <1>35, Names DEF BootAdopt, Rob, plan, files, log, tree, OwnInv, ClientInv, ReleaseInv
<1>36. CASE AdoptFreeze
  BY <1>36, Names DEF AdoptFreeze, Take, Step, plan, files, log, hold, oper, history, OwnInv,
       ClientInv, ReleaseInv
<1>37. CASE AdoptWrite
  BY <1>37, Names DEF AdoptWrite, Refuse, plan, log, hold, tree, oper, history, OwnInv, ClientInv,
       ReleaseInv
<1>38. CASE AdoptRecord
  BY <1>38, Names DEF AdoptRecord, Refuse, plan, files, tree, oper, history, OwnInv, ClientInv,
       ReleaseInv
<1>39. CASE BootResume
  BY <1>39, Names DEF BootResume, Take, Step, Rob, plan, files, log, OwnInv, ClientInv, ReleaseInv
<1>40. CASE FinishResume
  <2>0. at = "f_write" /\ own = {"user"} /\ UNCHANGED client
    BY <1>40 DEF FinishResume, ReleaseInv
  <2>1. CASE at' = "l_marker" /\ UNCHANGED own
    BY <2>0, <2>1, Names DEF ReleaseInv, Releasing
  <2>2. CASE at' \notin Releasing \cup {"f_write"}
    BY <2>2 DEF ReleaseInv
  <2>3. at' \in {"exit", "idle", "back_thaw"} => at' \notin Releasing \cup {"f_write"}
    BY DEF Releasing
  <2> QED
    BY <1>40, <2>1, <2>2, <2>3 DEF FinishResume, Refuse
<1>41. CASE BootOrphan
  BY <1>41, Names DEF BootOrphan, Take, Step, Rob, plan, files, log, OwnInv, ClientInv, ReleaseInv
<1>42. CASE ReleaseOrphan
  BY <1>42, Names DEF ReleaseOrphan, plan, log, tree, oper, history, OwnInv, ClientInv, ReleaseInv
<1>43. CASE BeginPause
  BY <1>43, Names DEF BeginPause, Enter, Ready, Pruned, Dead, plan, files, log, tree, oper,
       history, OwnInv, ClientInv, ReleaseInv
<1>44. CASE BeginResume
  BY <1>44, Admitted, Names DEF BeginResume, Take, Enter, Pruned, Dead, Ready, plan, files, log,
       tree, history, OwnInv, ClientInv, ReleaseInv
<1>45. CASE BeginHoldForStop
  BY <1>45, Names DEF BeginHoldForStop, Take, Enter, Ready, Pruned, Dead, plan, files, log, tree,
       oper, history, OwnInv, ClientInv, ReleaseInv
<1>46. CASE BeginStop
  BY <1>46, Names DEF BeginStop, Enter, Ready, Pruned, Dead, plan, files, log, tree, oper,
       history, OwnInv, ClientInv, ReleaseInv
<1>47. CASE Seal
  BY <1>47, Names DEF Seal, Ready, Rob, plan, files, oper, OwnInv, ClientInv, ReleaseInv
<1>48. ASSUME NEW c \in Caps, JoinCapture(c) PROVE ReleaseInv'
  BY <1>48, Names DEF JoinCapture, Ready, Pruned, Dead, plan, log, oper, history, OwnInv,
       ClientInv, ReleaseInv
<1>49. ASSUME NEW c \in Caps, BeginCapture(c) PROVE ReleaseInv'
  BY <1>49, Names DEF BeginCapture, Take, Enter, Ready, Pruned, Dead, plan, files, log, tree,
       oper, history, OwnInv, ClientInv, ReleaseInv
<1>50. ASSUME NEW c \in Caps, ReleaseCapture(c) PROVE ReleaseInv'
  <2>0. at = "idle" /\ client' = [client EXCEPT ![c] = "done"]
    BY <1>50 DEF ReleaseCapture, Ready
  <2>1. CASE LeftBy(c) = {} /\ at' = "l_marker" /\ UNCHANGED own
    <3>0. "stop" \notin own
      BY <2>1, Names DEF LeftBy, Pruned, Dead
    <3> SUFFICES ASSUME NEW d \in Caps, d \in own PROVE client'[d] # "capturing"
      BY <2>1, <3>0 DEF ReleaseInv, Releasing
    <3>1. d = c \/ client[d] = "dead"
      BY <2>1 DEF LeftBy, Pruned, Dead
    <3>2. (d # c => client'[d] = client[d]) /\ client'[c] = "done"
      BY <2>0, Granted
    <3> QED
      BY <3>1, <3>2
  <2>2. CASE at' = "idle"
    BY <2>2 DEF ReleaseInv, Releasing
  <2> QED
    BY <1>50, <2>0, <2>1, <2>2 DEF ReleaseCapture
<1>51. ASSUME NEW c \in Caps, ClientDie(c) PROVE ReleaseInv'
  BY <1>51, Names DEF ClientDie, plan, files, log, hold, tree, oper, history, OwnInv, ClientInv,
       ReleaseInv
<1>52. CASE Crash
  BY <1>52, Names DEF Crash, Forget, plan, files, log, OwnInv, ClientInv, ReleaseInv
<1>53. CASE Restart
  BY <1>53, Names DEF Restart, plan, files, log, hold, tree, oper, history, OwnInv, ClientInv,
       ReleaseInv
<1>54. CASE LaunchAdmit
  BY <1>54, Names DEF LaunchAdmit, AdmitsLaunch, Marks, plan, files, log, hold, tree, oper,
       history, OwnInv, ClientInv, ReleaseInv
<1>55. CASE LaunchSpawn
  BY <1>55, Names DEF LaunchSpawn, plan, files, log, hold, tree, oper, history, OwnInv, ClientInv,
       ReleaseInv
<1>56. CASE Fork
  BY <1>56, Names DEF Fork, plan, files, log, hold, tree, oper, history, OwnInv, ClientInv,
       ReleaseInv
<1>57. CASE ProcessExit
  BY <1>57, Names DEF ProcessExit, plan, files, log, hold, oper, history, OwnInv, ClientInv,
       ReleaseInv
<1>58. CASE ProxyPoll
  BY <1>58, Names DEF ProxyPoll, plan, files, log, hold, tree, oper, history, OwnInv, ClientInv,
       ReleaseInv
<1>59. CASE BootRefuse
  BY <1>59, Names DEF BootRefuse, plan, files, log, hold, tree, oper, history, OwnInv, ClientInv,
       ReleaseInv
<1> QED
  BY <1>1, <1>2, <1>3, <1>4, <1>5, <1>6, <1>7, <1>8, <1>9, <1>10, <1>11, <1>12, <1>13, <1>14, <1>15,
       <1>16, <1>17, <1>18, <1>19, <1>20, <1>21, <1>22, <1>23, <1>24, <1>25, <1>26, <1>27, <1>28, <1>29,
       <1>30, <1>31, <1>32, <1>33, <1>34, <1>35, <1>36, <1>37, <1>38, <1>39, <1>40, <1>41, <1>42, <1>43,
       <1>44, <1>45, <1>46, <1>47, <1>48, <1>49, <1>50, <1>51, <1>52, <1>53, <1>54, <1>55, <1>56, <1>57,
       <1>58, <1>59 DEF Next, Daemon, Requests

\* A hold in force is marked, except while it is let go.
MarkedInv ==
  "unmarked" \notin lapses =>
    /\ held => \/ marker \/ at \in {"l_confirm", "l_thaw", "l_record", "s_record", "exit"}
               \/ at = "l_marker" /\ goal = "boot"
    /\ at \in {"p_owners", "p_record", "c_owners", "c_record", "a_record", "h_record", "s_kill",
               "s_confirm"} => marker

LEMMA MarkedInit == Init => MarkedInv
BY DEF Init, MarkedInv

LEMMA MarkedStep == OwnInv /\ MarkInv /\ MarkedInv /\ [Next]_vars => MarkedInv'
<1> SUFFICES ASSUME OwnInv, MarkInv, MarkedInv, [Next]_vars PROVE MarkedInv'
  OBVIOUS
<1> USE DEF Adopting, Releasing, Pausing, Capturing, Holding, Killing
<1>1. CASE UNCHANGED vars
  BY <1>1 DEF vars, plan, files, log, hold, tree, oper, history, OwnInv, MarkInv, MarkedInv
<1>2. CASE PauseFreeze
  BY <1>2, Names DEF PauseFreeze, Refuse, Take, Freeze, plan, files, log, hold, tree, oper,
       history, OwnInv, MarkInv, MarkedInv
<1>3. CASE PauseMark
  BY <1>3, Names DEF PauseMark, MarkerLost, plan, log, hold, tree, oper, history, OwnInv, MarkInv,
       MarkedInv
<1>4. CASE PauseOwners
  BY <1>4, Names DEF PauseOwners, plan, log, hold, tree, oper, history, OwnInv, MarkInv, MarkedInv
<1>5. CASE PauseRecord
  BY <1>5, Names DEF PauseRecord, Refuse, plan, files, hold, oper, history, OwnInv, MarkInv,
       MarkedInv
<1>6. CASE TakeBack
  BY <1>6, Names DEF TakeBack, ClearMarker, ClearOwners, plan, log, tree, oper, history, OwnInv,
       MarkInv, MarkedInv
<1>7. CASE TakeBackThaw
  BY <1>7, Names DEF TakeBackThaw, ThawLost, Step, ClearMarker, ClearOwners, Thaw, plan, log,
       hold, oper, history, OwnInv, MarkInv, MarkedInv
<1>8. CASE ClearIntent
  BY <1>8, Names DEF ClearIntent, plan, files, log, hold, tree, history, OwnInv, MarkInv,
       MarkedInv
<1>9. CASE ResumeOwners
  BY <1>9, Names DEF ResumeOwners, MarkerLost, plan, log, tree, oper, history, OwnInv, MarkInv,
       MarkedInv
<1>10. CASE ResumeRecord
  BY <1>10, Names DEF ResumeRecord, Refuse, plan, files, hold, tree, history, OwnInv, MarkInv,
       MarkedInv
<1>11. CASE ReleaseMarker
  BY <1>11, Names DEF ReleaseMarker, Refuse, Released, plan, log, hold, tree, history, OwnInv,
       MarkInv, MarkedInv
<1>12. CASE ReleaseConfirm
  BY <1>12, Names DEF ReleaseConfirm, MarkerLost, Released, plan, log, hold, tree, OwnInv,
       MarkInv, MarkedInv
<1>13. CASE ReleaseThaw
  BY <1>13, Names DEF ReleaseThaw, ThawLost, Step, ClearOwners, Thaw, plan, log, hold, oper,
       history, OwnInv, MarkInv, MarkedInv
<1>14. CASE ReleaseRecord
  BY <1>14, Names DEF ReleaseRecord, Released, plan, files, tree, history, OwnInv, MarkInv,
       MarkedInv
<1>15. CASE CaptureFreeze
  BY <1>15, Names DEF CaptureFreeze, Freeze, plan, files, log, hold, history, OwnInv, MarkInv,
       MarkedInv
<1>16. CASE CaptureMark
  BY <1>16, Names DEF CaptureMark, MarkerLost, plan, log, hold, tree, history, OwnInv, MarkInv,
       MarkedInv
<1>17. CASE CaptureOwners
  BY <1>17, Names DEF CaptureOwners, plan, log, hold, tree, history, OwnInv, MarkInv, MarkedInv
<1>18. CASE CaptureRecord
  BY <1>18, Names DEF CaptureRecord, Quiescent, plan, files, hold, tree, history, OwnInv, MarkInv,
       MarkedInv
<1>19. CASE HoldStopMarker
  BY <1>19, Names DEF HoldStopMarker, StopMarkerLost, Refuse, plan, files, log, hold, tree, oper,
       history, OwnInv, MarkInv, MarkedInv
<1>20. CASE HoldOver
  <2>0. at = "h_over" /\ goal # "boot" /\ held /\ UNCHANGED <<held, goal, lapses>>
    BY <1>20 DEF HoldOver, OwnInv, Holding, oper, history
  <2>1. at' \in {"clear", "idle"}
    BY <1>20, <2>0 DEF HoldOver, Refuse
  <2>2. marker' = TRUE \/ marker' = marker
    BY <1>20 DEF HoldOver, MarkerLost
  <2> QED
    BY <2>0, <2>1, <2>2 DEF MarkedInv
<1>21. CASE HoldFreeze
  BY <1>21, Names DEF HoldFreeze, Step, Freeze, plan, files, log, hold, oper, history, OwnInv,
       MarkInv, MarkedInv
<1>22. CASE HoldMark
  BY <1>22, Names DEF HoldMark, ThawLost, MarkerLost, Refuse, Thaw, plan, files, log, hold, tree,
       oper, history, OwnInv, MarkInv, MarkedInv
<1>23. CASE HoldRecord
  BY <1>23, Names DEF HoldRecord, Refuse, plan, files, tree, oper, history, OwnInv, MarkInv,
       MarkedInv
<1>24. CASE StopIntent
  BY <1>24, Names DEF StopIntent, Refuse, plan, files, log, hold, tree, oper, history, OwnInv,
       MarkInv, MarkedInv
<1>25. CASE StopMark
  BY <1>25, Names DEF StopMark, StopMarkerLost, Refuse, Take, plan, files, log, hold, tree, oper,
       history, OwnInv, MarkInv, MarkedInv
<1>26. CASE StopClose
  BY <1>26, Names DEF StopClose, MarkerLost, Refuse, plan, log, tree, oper, history, OwnInv,
       MarkInv, MarkedInv
<1>27. CASE StopKill
  BY <1>27, Names DEF StopKill, Terminated, plan, files, log, hold, oper, history, OwnInv,
       MarkInv, MarkedInv
<1>28. CASE StopConfirm
  BY <1>28, Names DEF StopConfirm, plan, files, log, hold, oper, history, OwnInv, MarkInv,
       MarkedInv
<1>29. CASE StopHold
  BY <1>29, Names DEF StopHold, Refuse, plan, tree, oper, history, OwnInv, MarkInv, MarkedInv
<1>30. CASE StopRecord
  BY <1>30, Names DEF StopRecord, Refuse, plan, files, oper, history, OwnInv, MarkInv, MarkedInv
<1>31. CASE StopSeal
  BY <1>31, Names DEF StopSeal, Refuse, plan, files, hold, tree, history, OwnInv, MarkInv,
       MarkedInv
<1>32. CASE Exit
  BY <1>32, Names DEF Exit, Forget, plan, files, log, history, OwnInv, MarkInv, MarkedInv
<1>33. CASE BootServe
  BY <1>33, Names DEF BootServe, plan, files, log, hold, tree, oper, history, OwnInv, MarkInv,
       MarkedInv
<1>34. CASE BootStop
  BY <1>34, Names DEF BootStop, plan, files, log, tree, history, OwnInv, MarkInv, MarkedInv
<1>35. CASE BootAdopt
  BY <1>35, Names DEF BootAdopt, Rob, plan, files, log, tree, OwnInv, MarkInv, MarkedInv
<1>36. CASE AdoptFreeze
  BY <1>36, Names DEF AdoptFreeze, Take, Step, Freeze, plan, files, log, hold, oper, history,
       OwnInv, MarkInv, MarkedInv
<1>37. CASE AdoptWrite
  BY <1>37, Names DEF AdoptWrite, FilesLost, MarkerLost, Refuse, plan, log, hold, tree, oper,
       history, OwnInv, MarkInv, MarkedInv
<1>38. CASE AdoptRecord
  BY <1>38, Names DEF AdoptRecord, Refuse, plan, files, tree, oper, history, OwnInv, MarkInv,
       MarkedInv
<1>39. CASE BootResume
  BY <1>39, Names DEF BootResume, Take, Step, Rob, Freeze, plan, files, log, OwnInv, MarkInv,
       MarkedInv
<1>40. CASE FinishResume
  BY <1>40, Names DEF FinishResume, FilesLost, MarkerLost, Refuse, ClearMarker, plan, log, tree,
       oper, history, OwnInv, MarkInv, MarkedInv
<1>41. CASE BootOrphan
  BY <1>41, Names DEF BootOrphan, Take, Step, Rob, Freeze, plan, files, log, OwnInv, MarkInv,
       MarkedInv
<1>42. CASE ReleaseOrphan
  BY <1>42, Names DEF ReleaseOrphan, ClearMarker, plan, log, tree, oper, history, OwnInv, MarkInv,
       MarkedInv
<1>43. CASE BeginPause
  BY <1>43, Names DEF BeginPause, Enter, Ready, Pruned, Dead, plan, files, log, tree, oper,
       history, OwnInv, MarkInv, MarkedInv
<1>44. CASE BeginResume
  BY <1>44, Admitted, Names DEF BeginResume, Take, Enter, Pruned, Dead, Ready, plan, files, log,
       tree, history, OwnInv, MarkInv, MarkedInv
<1>45. CASE BeginHoldForStop
  BY <1>45, Names DEF BeginHoldForStop, Take, Enter, Ready, Pruned, Dead, plan, files, log, tree,
       oper, history, OwnInv, MarkInv, MarkedInv
<1>46. CASE BeginStop
  BY <1>46, Names DEF BeginStop, Enter, Ready, Pruned, Dead, plan, files, log, tree, oper,
       history, OwnInv, MarkInv, MarkedInv
<1>47. CASE Seal
  BY <1>47, Names DEF Seal, Ready, Rob, plan, files, oper, OwnInv, MarkInv, MarkedInv
<1>48. ASSUME NEW c \in Caps, JoinCapture(c) PROVE MarkedInv'
  BY <1>48, Names DEF JoinCapture, Ready, Pruned, Freeze, Quiescent, Dead, plan, log, oper,
       history, OwnInv, MarkInv, MarkedInv
<1>49. ASSUME NEW c \in Caps, BeginCapture(c) PROVE MarkedInv'
  BY <1>49, Names DEF BeginCapture, Take, Enter, Ready, Pruned, Dead, plan, files, log, tree,
       oper, history, OwnInv, MarkInv, MarkedInv
<1>50. ASSUME NEW c \in Caps, ReleaseCapture(c) PROVE MarkedInv'
  BY <1>50, Names DEF ReleaseCapture, Take, Ready, LeftBy, Pruned, Dead, plan, files, log, tree,
       oper, history, OwnInv, MarkInv, MarkedInv
<1>51. ASSUME NEW c \in Caps, ClientDie(c) PROVE MarkedInv'
  BY <1>51, Names DEF ClientDie, plan, files, log, hold, tree, oper, history, OwnInv, MarkInv,
       MarkedInv
<1>52. CASE Crash
  BY <1>52, Names DEF Crash, WritesOwners, MarksFirst, Forget, plan, files, log, OwnInv, MarkInv,
       MarkedInv
<1>53. CASE Restart
  BY <1>53, Names DEF Restart, plan, files, log, hold, tree, oper, history, OwnInv, MarkInv,
       MarkedInv
<1>54. CASE LaunchAdmit
  BY <1>54, Names DEF LaunchAdmit, AdmitsLaunch, Marks, plan, files, log, hold, tree, oper,
       history, OwnInv, MarkInv, MarkedInv
<1>55. CASE LaunchSpawn
  BY <1>55, Names DEF LaunchSpawn, plan, files, log, hold, tree, oper, history, OwnInv, MarkInv,
       MarkedInv
<1>56. CASE Fork
  BY <1>56, Names DEF Fork, plan, files, log, hold, tree, oper, history, OwnInv, MarkInv,
       MarkedInv
<1>57. CASE ProcessExit
  BY <1>57, Names DEF ProcessExit, plan, files, log, hold, oper, history, OwnInv, MarkInv,
       MarkedInv
<1>58. CASE ProxyPoll
  BY <1>58, Names DEF ProxyPoll, plan, files, log, hold, tree, oper, history, OwnInv, MarkInv,
       MarkedInv
<1>59. CASE BootRefuse
  BY <1>59, Names DEF BootRefuse, plan, files, log, hold, tree, oper, history, OwnInv, MarkInv,
       MarkedInv
<1> QED
  BY <1>1, <1>2, <1>3, <1>4, <1>5, <1>6, <1>7, <1>8, <1>9, <1>10, <1>11, <1>12, <1>13, <1>14, <1>15,
       <1>16, <1>17, <1>18, <1>19, <1>20, <1>21, <1>22, <1>23, <1>24, <1>25, <1>26, <1>27, <1>28, <1>29,
       <1>30, <1>31, <1>32, <1>33, <1>34, <1>35, <1>36, <1>37, <1>38, <1>39, <1>40, <1>41, <1>42, <1>43,
       <1>44, <1>45, <1>46, <1>47, <1>48, <1>49, <1>50, <1>51, <1>52, <1>53, <1>54, <1>55, <1>56, <1>57,
       <1>58, <1>59 DEF Next, Daemon, Requests

\* A sealed log is served no more.  A capture keeps the lock until it is granted, on a freeze
\* that holds every process, and by then the files name it.
GrantInv ==
  /\ sealed # "no" => /\ at \in {"exit", "clear", "idle"}
                      /\ at = "clear" => goal = "end"
                      /\ at = "idle" => ~up
  /\ goal = "end" => sealed # "no"
  /\ at \in Capturing => lock = "daemon" /\ own = {} /\ goal = "capture"
  /\ at \in {"c_mark", "c_owners", "c_record"} /\ stable => alive \subseteq halted
  /\ at \in {"c_owners", "c_record"} => marker
  /\ at = "c_record" => kept /\ file = {cap}
  /\ at = "clear" /\ goal = "capture" =>
       /\ held /\ own = {cap} /\ kept /\ file = {cap} /\ marker /\ lock = "daemon"
       /\ alive \subseteq halted
  /\ goal = "capture" => at \in Capturing \cup {"clear"}

LEMMA GrantInit == Init => GrantInv
BY DEF Init, GrantInv, Capturing

LEMMA GrantStep == OwnInv /\ StopInv /\ GrantInv /\ [Next]_vars => GrantInv'
<1> SUFFICES ASSUME OwnInv, StopInv, GrantInv, [Next]_vars PROVE GrantInv'
  OBVIOUS
<1> USE DEF OwnInv, GrantInv, Adopting, Releasing, Pausing, Capturing, Holding
<1>1. CASE UNCHANGED vars
  BY <1>1 DEF vars, plan, files, owners, log, hold, tree, oper, history
<1>2. CASE PauseFreeze
  BY <1>2 DEF PauseFreeze, owners, Refuse, Take, Freeze, plan, files, log, hold, tree, oper,
       history
<1>3. CASE PauseMark
  BY <1>3 DEF PauseMark, MarkerLost, owners, plan, log, hold, tree, oper, history
<1>4. CASE PauseOwners
  BY <1>4 DEF PauseOwners, OwnersLost, TornOwners, PutOwners, owners, plan, log, hold, tree, oper,
       history
<1>5. CASE PauseRecord
  BY <1>5 DEF PauseRecord, owners, Refuse, plan, files, hold, oper, history
<1>6. CASE TakeBack
  BY <1>6 DEF TakeBack, OwnersLost, TornOwners, DropOwners, PutOwners, owners, ClearMarker,
       ClearOwners, plan, log, tree, oper, history
<1>7. CASE TakeBackThaw
  BY <1>7 DEF TakeBackThaw, ThawLost, DropOwners, owners, Step, ClearMarker, ClearOwners, Thaw,
       plan, log, hold, oper, history
<1>8. CASE ClearIntent
  BY <1>8 DEF ClearIntent, owners, plan, files, log, hold, tree, history
<1>9. CASE ResumeOwners
  BY <1>9 DEF ResumeOwners, MarkerLost, OwnersLost, TornOwners, PutOwners, owners, plan, log,
       tree, oper, history
<1>10. CASE ResumeRecord
  BY <1>10 DEF ResumeRecord, owners, Refuse, plan, files, hold, tree, history
<1>11. CASE ReleaseMarker
  BY <1>11 DEF ReleaseMarker, owners, Refuse, Released, plan, log, hold, tree, history
<1>12. CASE ReleaseConfirm
  BY <1>12 DEF ReleaseConfirm, MarkerLost, owners, Released, plan, log, hold, tree
<1>13. CASE ReleaseThaw
  BY <1>13 DEF ReleaseThaw, ThawLost, DropOwners, owners, Step, ClearOwners, Thaw, plan, log,
       hold, oper, history
<1>14. CASE ReleaseRecord
  BY <1>14 DEF ReleaseRecord, owners, Released, plan, files, tree, history
<1>15. CASE CaptureFreeze
  BY <1>15 DEF CaptureFreeze, owners, Freeze, plan, files, log, hold, history
<1>16. CASE CaptureMark
  BY <1>16 DEF CaptureMark, MarkerLost, owners, plan, log, hold, tree, history
<1>17. CASE CaptureOwners
  BY <1>17 DEF CaptureOwners, OwnersLost, TornOwners, PutOwners, owners, plan, log, hold, tree,
       history
<1>18. CASE CaptureRecord
  BY <1>18 DEF CaptureRecord, owners, Quiescent, plan, files, hold, tree, history
<1>19. CASE HoldStopMarker
  BY <1>19 DEF HoldStopMarker, StopMarkerLost, owners, Refuse, plan, files, log, hold, tree, oper,
       history
<1>20. CASE HoldOver
  BY <1>20 DEF HoldOver, MarkerLost, OwnersLost, TornOwners, PutOwners, owners, Refuse, Freeze,
       plan, log, oper, history
<1>21. CASE HoldFreeze
  BY <1>21 DEF HoldFreeze, owners, Step, Freeze, plan, files, log, hold, oper, history
<1>22. CASE HoldMark
  BY <1>22 DEF HoldMark, ThawLost, MarkerLost, OwnersLost, TornOwners, PutOwners, owners, Refuse,
       Thaw, plan, files, log, hold, tree, oper, history
<1>23. CASE HoldRecord
  BY <1>23 DEF HoldRecord, owners, Refuse, plan, files, tree, oper, history
<1>24. CASE StopIntent
  BY <1>24 DEF StopIntent, owners, Refuse, plan, files, log, hold, tree, oper, history
<1>25. CASE StopMark
  BY <1>25 DEF StopMark, StopMarkerLost, owners, Refuse, Take, plan, files, log, hold, tree, oper,
       history
<1>26. CASE StopClose
  BY <1>26 DEF StopClose, MarkerLost, owners, Refuse, plan, log, tree, oper, history
<1>27. CASE StopKill
  BY <1>27 DEF StopKill, owners, Terminated, plan, files, log, hold, oper, history
<1>28. CASE StopConfirm
  BY <1>28 DEF StopConfirm, DropOwners, owners, plan, files, log, hold, oper, history
<1>29. CASE StopHold
  BY <1>29 DEF StopHold, OwnersLost, TornOwners, PutOwners, owners, Refuse, plan, tree, oper,
       history
<1>30. CASE StopRecord
  BY <1>30 DEF StopRecord, owners, Refuse, plan, files, oper, history
<1>31. CASE StopSeal
  BY <1>31 DEF StopSeal, owners, Refuse, plan, files, hold, tree, history
<1>32. CASE Exit
  BY <1>32 DEF Exit, owners, Forget, plan, files, log, history
<1>33. CASE BootServe
  BY <1>33 DEF BootServe, owners, plan, files, log, hold, tree, oper, history
<1>34. CASE BootStop
  BY <1>34 DEF BootStop, owners, plan, files, log, tree, history
<1>35. CASE BootAdopt
  BY <1>35 DEF BootAdopt, owners, Rob, plan, files, log, tree
<1>36. CASE AdoptFreeze
  BY <1>36 DEF AdoptFreeze, owners, Take, Step, Freeze, plan, files, log, hold, oper, history
<1>37. CASE AdoptWrite
  BY <1>37 DEF AdoptWrite, FilesLost, MarkerLost, TornOwners, PutOwners, owners, Refuse, plan,
       log, hold, tree, oper, history
<1>38. CASE AdoptRecord
  BY <1>38 DEF AdoptRecord, owners, Refuse, plan, files, tree, oper, history
<1>39. CASE BootResume
  BY <1>39 DEF BootResume, owners, Take, Step, Rob, Freeze, plan, files, log
<1>40. CASE FinishResume
  BY <1>40, Names DEF FinishResume, FilesLost, MarkerLost, TornOwners, PutOwners, owners, Refuse,
       ClearMarker, plan, log, tree, oper, history
<1>41. CASE BootOrphan
  BY <1>41 DEF BootOrphan, owners, Take, Step, Rob, Freeze, plan, files, log
<1>42. CASE ReleaseOrphan
  BY <1>42 DEF ReleaseOrphan, owners, ClearMarker, plan, log, tree, oper, history
<1>43. CASE BeginPause
  BY <1>43 DEF BeginPause, owners, Enter, Ready, Pruned, Dead, plan, files, log, tree, oper,
       history
<1>44. CASE BeginResume
  BY <1>44, Admitted, Names DEF BeginResume, owners, Take, Enter, Pruned, Dead, Ready, plan,
       files, log, tree, history
<1>45. CASE BeginHoldForStop
  BY <1>45 DEF BeginHoldForStop, owners, Take, Enter, Ready, Pruned, Dead, plan, files, log, tree,
       oper, history
<1>46. CASE BeginStop
  BY <1>46 DEF BeginStop, owners, Enter, Ready, Pruned, Dead, plan, files, log, tree, oper,
       history
<1>47. CASE Seal
  BY <1>47 DEF Seal, DropOwners, owners, Ready, Rob, plan, files, oper
<1>48. ASSUME NEW c \in Caps, JoinCapture(c) PROVE GrantInv'
  BY <1>48 DEF JoinCapture, OwnersLost, TornOwners, PutOwners, owners, Ready, Pruned, Freeze,
       Quiescent, Dead, plan, log, oper, history
<1>49. ASSUME NEW c \in Caps, BeginCapture(c) PROVE GrantInv'
  BY <1>49 DEF BeginCapture, owners, Take, Enter, Ready, Pruned, Dead, plan, files, log, tree,
       oper, history
<1>50. ASSUME NEW c \in Caps, ReleaseCapture(c) PROVE GrantInv'
  BY <1>50, Names DEF ReleaseCapture, OwnersLost, TornOwners, PutOwners, owners, Take, Ready,
       LeftBy, Pruned, Dead, plan, files, log, tree, oper, history
<1>51. ASSUME NEW c \in Caps, ClientDie(c) PROVE GrantInv'
  BY <1>51 DEF ClientDie, owners, plan, files, log, hold, tree, oper, history
<1>52. CASE Crash
  BY <1>52 DEF Crash, WritesOwners, MarksFirst, TornOwners, owners, Forget, plan, files, log
<1>53. CASE Restart
  BY <1>53 DEF Restart, owners, plan, files, log, hold, tree, oper, history
<1>54. CASE LaunchAdmit
  BY <1>54 DEF LaunchAdmit, owners, AdmitsLaunch, Marks, plan, files, log, hold, tree, oper,
       history
<1>55. CASE LaunchSpawn
  BY <1>55 DEF LaunchSpawn, owners, plan, files, log, hold, tree, oper, history
<1>56. CASE Fork
  BY <1>56 DEF Fork, owners, plan, files, log, hold, tree, oper, history
<1>57. CASE ProcessExit
  BY <1>57 DEF ProcessExit, owners, plan, files, log, hold, oper, history
<1>58. CASE ProxyPoll
  BY <1>58 DEF ProxyPoll, owners, plan, files, log, hold, tree, oper, history
<1>59. CASE BootRefuse
  BY <1>59 DEF BootRefuse, owners, plan, files, log, hold, tree, oper, history
<1> QED
  BY <1>1, <1>2, <1>3, <1>4, <1>5, <1>6, <1>7, <1>8, <1>9, <1>10, <1>11, <1>12, <1>13, <1>14, <1>15,
       <1>16, <1>17, <1>18, <1>19, <1>20, <1>21, <1>22, <1>23, <1>24, <1>25, <1>26, <1>27, <1>28, <1>29,
       <1>30, <1>31, <1>32, <1>33, <1>34, <1>35, <1>36, <1>37, <1>38, <1>39, <1>40, <1>41, <1>42, <1>43,
       <1>44, <1>45, <1>46, <1>47, <1>48, <1>49, <1>50, <1>51, <1>52, <1>53, <1>54, <1>55, <1>56, <1>57,
       <1>58, <1>59 DEF Next, Daemon, Requests

Serving == up /\ at \notin {"boot", "exit"}

\* Nothing runs, and what the daemon or its files keep lets nothing run.
Quiet(c) ==
  /\ alive \subseteq halted /\ lock # "launch"
  /\ \/ sealed # "no"
     \/ stopMarker /\ alive = {}
     \/ /\ marker /\ (Serving => held \/ at \in Adopting)
        /\ \/ stopMarker /\ (Serving => "stop" \in own)
           \/ (torn \/ (kept /\ c \in file)) /\ (Serving => c \in own)

QuietInv ==
  lapses \cap {"robbed", "unmarked"} = {} => \A c \in Caps : client[c] = "capturing" => Quiet(c)

\* What keeps the session quiet: the files stay, or the daemon's hold and its owners do.
LEMMA StillQuiet ==
  ASSUME NEW c \in Caps, Quiet(c), UNCHANGED <<alive, sealed>>, halted \subseteq halted',
         stopMarker => stopMarker', marker => marker', lock' # "launch",
         Serving' => /\ Serving
                     /\ held \/ at \in Adopting => held' \/ at' \in Adopting
                     /\ "stop" \in own => "stop" \in own'
                     /\ c \in own => c \in own',
         (torn \/ (kept /\ c \in file)) /\ (Serving => c \in own) => torn' \/ (kept' /\ c \in file')
  PROVE  Quiet(c)'
BY DEF Quiet

LEMMA QuietInit == Init => QuietInv
BY DEF Init, QuietInv

LEMMA QuietStep == OwnInv /\ MarkInv /\ StopInv /\ ClientInv /\ ReleaseInv /\ MarkedInv /\ GrantInv /\ QuietInv
                   /\ [Next]_vars => QuietInv'
<1> SUFFICES ASSUME OwnInv, MarkInv, StopInv, ClientInv, ReleaseInv, MarkedInv, GrantInv, QuietInv, [Next]_vars
             PROVE  QuietInv'
  OBVIOUS
<1> USE DEF Adopting, Releasing, Pausing, Capturing, Holding, Killing
<1>1. CASE UNCHANGED vars
  BY <1>1 DEF vars, plan, files, owners, log, hold, tree, oper, history, OwnInv, ClientInv, ReleaseInv,
       MarkInv, StopInv, GrantInv, QuietInv, Quiet, Serving
<1>2. CASE PauseFreeze
  BY <1>2, Names DEF PauseFreeze, owners, Refuse, Take, Freeze, plan, files, log, hold, tree,
       oper, history, OwnInv, ClientInv, ReleaseInv, MarkInv, StopInv, GrantInv, QuietInv, Quiet,
       Serving
<1>3. CASE PauseMark
  BY <1>3, Names DEF PauseMark, MarkerLost, owners, plan, log, hold, tree, oper, history, OwnInv,
       ClientInv, ReleaseInv, MarkInv, StopInv, GrantInv, QuietInv, Quiet, Serving
<1>4. CASE PauseOwners
  BY <1>4, Names DEF PauseOwners, OwnersLost, TornOwners, PutOwners, owners, plan, log, hold,
       tree, oper, history, OwnInv, ClientInv, ReleaseInv, MarkInv, StopInv, GrantInv, QuietInv,
       Quiet, Serving
<1>5. CASE PauseRecord
  BY <1>5, Names DEF PauseRecord, owners, Refuse, plan, files, hold, oper, history, OwnInv,
       ClientInv, ReleaseInv, MarkInv, StopInv, GrantInv, QuietInv, Quiet, Serving
<1>6. CASE TakeBack
  <2>0. /\ at = "back" /\ at' \in {"back_thaw", "clear"} /\ Serving
        /\ UNCHANGED <<stopMarker, sealed, up, own, alive, halted, lock, lapses, client>>
    BY <1>6 DEF TakeBack, OwnInv, Serving, log, tree, history
  <2> SUFFICES ASSUME lapses \cap {"robbed", "unmarked"} = {}, NEW c \in Caps, client[c] = "capturing"
               PROVE  Quiet(c)'
    BY <2>0 DEF QuietInv
  <2>1. Quiet(c) /\ sealed = "no"
    BY <2>0 DEF QuietInv, GrantInv, Killing
  <2>2. CASE own = {}
    BY <2>0, <2>1, <2>2 DEF Quiet, Adopting
  <2>3. CASE own # {}
    <3>0. marker' = (marker \/ own \cap Caps # {}) \/ marker' = marker
      BY <1>6, <2>3 DEF TakeBack
    <3>a. ASSUME marker PROVE marker'
      BY <3>0, <3>a, Zenon
    <3>b. held' = held
      BY <1>6, <2>3 DEF TakeBack
    <3>1. held' = held /\ (marker => marker')
      BY <3>a, <3>b
    <3>2. \/ UNCHANGED owners \/ torn' \/ (kept' /\ file' = own)
      BY <1>6, <2>3 DEF TakeBack, OwnersLost, TornOwners, PutOwners
    <3> QED
      BY <2>0, <2>1, <3>1, <3>2, StillQuiet DEF Quiet, Serving, owners, Adopting
  <2> QED
    BY <2>2, <2>3
<1>7. CASE TakeBackThaw
  BY <1>7, Names DEF TakeBackThaw, ThawLost, DropOwners, owners, Step, ClearMarker, ClearOwners,
       Thaw, plan, log, hold, oper, history, OwnInv, ClientInv, ReleaseInv, MarkInv, StopInv,
       GrantInv, QuietInv, Quiet, Serving
<1>8. CASE ClearIntent
  BY <1>8, Names DEF ClearIntent, owners, plan, files, log, hold, tree, history, OwnInv,
       ClientInv, ReleaseInv, MarkInv, StopInv, GrantInv, QuietInv, Quiet, Serving
<1>9. CASE ResumeOwners
  <2>0. /\ at = "r_owners" /\ at' \in {"r_record", "clear"} /\ Serving
        /\ UNCHANGED <<stopMarker, sealed, up, held, alive, halted, lock, lapses, client>>
    BY <1>9 DEF ResumeOwners, OwnInv, Serving, log, tree, history
  <2> SUFFICES ASSUME lapses \cap {"robbed", "unmarked"} = {}, NEW c \in Caps, client[c] = "capturing"
               PROVE  Quiet(c)'
    BY <2>0 DEF QuietInv
  <2>1. Quiet(c) /\ sealed = "no"
    BY <2>0 DEF QuietInv, GrantInv, Killing
  <2>a. marker' = TRUE \/ marker' = marker
    BY <1>9 DEF ResumeOwners, MarkerLost
  <2>2. (marker => marker') /\ own \ {"user"} \subseteq own'
    BY <1>9, <2>a DEF ResumeOwners
  <2>3. \/ UNCHANGED owners \/ torn' \/ (kept' /\ file' = own \ {"user"})
    BY <1>9 DEF ResumeOwners, OwnersLost, TornOwners, PutOwners
  <2> QED
    BY <2>0, <2>1, <2>2, <2>3, Names, StillQuiet DEF Quiet, Serving, owners, Adopting
<1>10. CASE ResumeRecord
  BY <1>10, Names DEF ResumeRecord, owners, Refuse, plan, files, hold, tree, history, OwnInv,
       ClientInv, ReleaseInv, MarkInv, StopInv, GrantInv, QuietInv, Quiet, Serving
<1>11. CASE ReleaseMarker
  BY <1>11, Names DEF ReleaseMarker, owners, Refuse, Released, plan, log, hold, tree, history,
       OwnInv, ClientInv, ReleaseInv, MarkInv, StopInv, GrantInv, QuietInv, Quiet, Serving
<1>12. CASE ReleaseConfirm
  BY <1>12, Names DEF ReleaseConfirm, MarkerLost, owners, Released, plan, log, hold, tree, OwnInv,
       ClientInv, ReleaseInv, MarkInv, StopInv, GrantInv, QuietInv, Quiet, Serving
<1>13. CASE ReleaseThaw
  BY <1>13, Names DEF ReleaseThaw, ThawLost, DropOwners, owners, Step, ClearOwners, Thaw, plan,
       log, hold, oper, history, OwnInv, ClientInv, ReleaseInv, MarkInv, StopInv, GrantInv,
       QuietInv, Quiet, Serving
<1>14. CASE ReleaseRecord
  BY <1>14, Names DEF ReleaseRecord, owners, Released, plan, files, tree, history, OwnInv,
       ClientInv, ReleaseInv, MarkInv, StopInv, GrantInv, QuietInv, Quiet, Serving
<1>15. CASE CaptureFreeze
  BY <1>15, Names DEF CaptureFreeze, owners, Freeze, plan, files, log, hold, history, OwnInv,
       ClientInv, ReleaseInv, MarkInv, StopInv, GrantInv, QuietInv, Quiet, Serving
<1>16. CASE CaptureMark
  BY <1>16, Names DEF CaptureMark, MarkerLost, owners, plan, log, hold, tree, history, OwnInv,
       ClientInv, ReleaseInv, MarkInv, StopInv, GrantInv, QuietInv, Quiet, Serving
<1>17. CASE CaptureOwners
  BY <1>17, Names DEF CaptureOwners, OwnersLost, TornOwners, PutOwners, owners, plan, log, hold,
       tree, history, OwnInv, ClientInv, ReleaseInv, MarkInv, StopInv, GrantInv, QuietInv, Quiet,
       Serving
<1>18. CASE CaptureRecord
  BY <1>18, Names DEF CaptureRecord, owners, Quiescent, plan, files, hold, tree, history, OwnInv,
       ClientInv, ReleaseInv, MarkInv, StopInv, GrantInv, QuietInv, Quiet, Serving
<1>19. CASE HoldStopMarker
  BY <1>19, Names DEF HoldStopMarker, StopMarkerLost, owners, Refuse, plan, files, log, hold,
       tree, oper, history, OwnInv, ClientInv, ReleaseInv, MarkInv, StopInv, GrantInv, QuietInv,
       Quiet, Serving
<1>20. CASE HoldOver
  <2>0. /\ at = "h_over" /\ at' \in {"clear", "idle", "exit"} /\ Serving /\ lock' \in {lock, "free"}
        /\ UNCHANGED <<stopMarker, sealed, up, held, alive, lapses, client>>
    BY <1>20 DEF HoldOver, Refuse, OwnInv, Serving, log, history
  <2> SUFFICES ASSUME lapses \cap {"robbed", "unmarked"} = {}, NEW c \in Caps, client[c] = "capturing"
               PROVE  Quiet(c)'
    BY <2>0 DEF QuietInv
  <2>1. Quiet(c) /\ sealed = "no"
    BY <2>0 DEF QuietInv, GrantInv, Killing
  <2>a. marker' = TRUE \/ marker' = marker
    BY <1>20 DEF HoldOver, MarkerLost
  <2>2. (marker => marker') /\ own \subseteq own'
    BY <1>20, <2>a DEF HoldOver
  <2>3. halted \subseteq halted'
    BY <1>20 DEF HoldOver, Freeze
  <2>4. \/ UNCHANGED owners \/ torn' \/ (kept' /\ own \subseteq file')
    BY <1>20 DEF HoldOver, OwnersLost, TornOwners, PutOwners
  <2> QED
    BY <2>0, <2>1, <2>2, <2>3, <2>4, StillQuiet DEF Quiet, Serving, owners, Adopting
<1>21. CASE HoldFreeze
  BY <1>21, Names DEF HoldFreeze, owners, Step, Freeze, plan, files, log, hold, oper, history,
       OwnInv, ClientInv, ReleaseInv, MarkInv, StopInv, GrantInv, QuietInv, Quiet, Serving
<1>22. CASE HoldMark
  BY <1>22, Names DEF HoldMark, ThawLost, MarkerLost, OwnersLost, TornOwners, PutOwners, owners,
       Refuse, Thaw, plan, files, log, hold, tree, oper, history, OwnInv, ClientInv, ReleaseInv,
       MarkInv, StopInv, GrantInv, QuietInv, Quiet, Serving
<1>23. CASE HoldRecord
  BY <1>23, Names DEF HoldRecord, owners, Refuse, plan, files, tree, oper, history, OwnInv,
       ClientInv, ReleaseInv, MarkInv, StopInv, GrantInv, QuietInv, Quiet, Serving
<1>24. CASE StopIntent
  BY <1>24, Names DEF StopIntent, owners, Refuse, plan, files, log, hold, tree, oper, history,
       OwnInv, ClientInv, ReleaseInv, MarkInv, StopInv, GrantInv, QuietInv, Quiet, Serving
<1>25. CASE StopMark
  <2>0. /\ at = "s_mark" /\ at' \in {"s_close", "idle", "exit"} /\ Serving /\ lock' \in {"daemon", "free"}
        /\ lapses \subseteq lapses'
        /\ UNCHANGED <<marker, owners, sealed, up, held, own, alive, halted, client>>
    BY <1>25 DEF StopMark, StopMarkerLost, Refuse, Take, OwnInv, Serving, files, log, hold, tree
  <2> SUFFICES ASSUME lapses \cap {"robbed", "unmarked"} = {}, NEW c \in Caps, client[c] = "capturing"
               PROVE  Quiet(c)'
    BY <2>0 DEF QuietInv
  <2>1. Quiet(c) /\ sealed = "no"
    BY <2>0 DEF QuietInv, GrantInv, Killing
  <2>2. stopMarker => stopMarker'
    BY <1>25 DEF StopMark, StopMarkerLost
  <2> QED
    BY <2>0, <2>1, <2>2, StillQuiet DEF Quiet, Serving, owners, Adopting
<1>26. CASE StopClose
  BY <1>26, Names DEF StopClose, MarkerLost, owners, Refuse, plan, log, tree, oper, history,
       OwnInv, ClientInv, ReleaseInv, MarkInv, StopInv, GrantInv, QuietInv, Quiet, Serving
<1>27. CASE StopKill
  BY <1>27, Names DEF StopKill, owners, Terminated, plan, files, log, hold, oper, history, OwnInv,
       ClientInv, ReleaseInv, MarkInv, StopInv, GrantInv, QuietInv, Quiet, Serving
<1>28. CASE StopConfirm
  BY <1>28, Names DEF StopConfirm, DropOwners, owners, plan, files, log, hold, oper, history,
       OwnInv, ClientInv, ReleaseInv, MarkInv, StopInv, GrantInv, QuietInv, Quiet, Serving
<1>29. CASE StopHold
  BY <1>29, Names DEF StopHold, OwnersLost, TornOwners, PutOwners, owners, Refuse, plan, tree,
       oper, history, OwnInv, ClientInv, ReleaseInv, MarkInv, StopInv, GrantInv, QuietInv, Quiet,
       Serving
<1>30. CASE StopRecord
  BY <1>30, Names DEF StopRecord, owners, Refuse, plan, files, oper, history, OwnInv, ClientInv,
       ReleaseInv, MarkInv, StopInv, GrantInv, QuietInv, Quiet, Serving
<1>31. CASE StopSeal
  BY <1>31, Names DEF StopSeal, owners, Refuse, plan, files, hold, tree, history, OwnInv,
       ClientInv, ReleaseInv, MarkInv, StopInv, GrantInv, QuietInv, Quiet, Serving
<1>32. CASE Exit
  BY <1>32, Names DEF Exit, owners, Forget, plan, files, log, history, OwnInv, ClientInv,
       ReleaseInv, MarkInv, StopInv, GrantInv, QuietInv, Quiet, Serving
<1>33. CASE BootServe
  BY <1>33, Names DEF BootServe, owners, plan, files, log, hold, tree, oper, history, OwnInv,
       ClientInv, ReleaseInv, MarkInv, StopInv, GrantInv, QuietInv, Quiet, Serving
<1>34. CASE BootStop
  BY <1>34, Names DEF BootStop, owners, Recorded, Dead, plan, files, log, tree, history, OwnInv,
       ClientInv, ReleaseInv, MarkInv, StopInv, GrantInv, QuietInv, Quiet, Serving
<1>35. CASE BootAdopt
  BY <1>35, Names DEF BootAdopt, owners, Rob, Recorded, Dead, plan, files, log, tree, OwnInv,
       ClientInv, ReleaseInv, MarkInv, StopInv, GrantInv, QuietInv, Quiet, Serving
<1>36. CASE AdoptFreeze
  BY <1>36, Names DEF AdoptFreeze, owners, Take, Step, Freeze, plan, files, log, hold, oper,
       history, OwnInv, ClientInv, ReleaseInv, MarkInv, StopInv, GrantInv, QuietInv, Quiet,
       Serving
<1>37. CASE AdoptWrite
  <2>0. /\ at = "a_write" /\ Serving /\ goal = "boot"
        /\ UNCHANGED <<stopMarker, sealed, up, held, own, alive, halted, lapses, client>>
    BY <1>37 DEF AdoptWrite, OwnInv, Adopting, Serving, log, hold, tree, history
  <2> SUFFICES ASSUME lapses \cap {"robbed", "unmarked"} = {}, NEW c \in Caps, client[c] = "capturing"
               PROVE  Quiet(c)'
    BY <2>0 DEF QuietInv
  <2>1. Quiet(c) /\ sealed = "no"
    BY <2>0 DEF QuietInv, GrantInv, Killing
  <2>2. \/ at' = "a_record" /\ lock' = lock
        \/ at' = "exit" /\ lock' = "free"
    BY <1>37, <2>0 DEF AdoptWrite, Refuse
  <2>3. marker => marker'
    BY <1>37 DEF AdoptWrite, FilesLost, MarkerLost
  <2>4. \/ UNCHANGED owners \/ torn' \/ (kept' /\ file' = own)
    BY <1>37 DEF AdoptWrite, FilesLost, TornOwners, PutOwners
  <2> QED
    BY <2>0, <2>1, <2>2, <2>3, <2>4, StillQuiet DEF Quiet, Serving, owners, Adopting
<1>38. CASE AdoptRecord
  BY <1>38, Names DEF AdoptRecord, owners, Refuse, plan, files, tree, oper, history, OwnInv,
       ClientInv, ReleaseInv, MarkInv, StopInv, GrantInv, QuietInv, Quiet, Serving
<1>39. CASE BootResume
  BY <1>39, Names DEF BootResume, owners, Take, Step, Rob, Freeze, plan, files, log, OwnInv,
       ClientInv, ReleaseInv, MarkInv, StopInv, GrantInv, QuietInv, Quiet, Serving
<1>40. CASE FinishResume
  BY <1>40, Names DEF FinishResume, FilesLost, MarkerLost, TornOwners, PutOwners, owners, Refuse,
       ClearMarker, plan, log, tree, oper, history, OwnInv, ClientInv, ReleaseInv, MarkInv,
       StopInv, GrantInv, QuietInv, Quiet, Serving
<1>41. CASE BootOrphan
  BY <1>41, Names DEF BootOrphan, owners, Take, Step, Rob, Freeze, Recorded, Dead, plan, files,
       log, OwnInv, ClientInv, ReleaseInv, MarkInv, StopInv, GrantInv, QuietInv, Quiet, Serving
<1>42. CASE ReleaseOrphan
  BY <1>42, Names DEF ReleaseOrphan, owners, ClearMarker, plan, log, tree, oper, history, OwnInv,
       ClientInv, ReleaseInv, MarkInv, StopInv, GrantInv, QuietInv, Quiet, Serving
<1>43. CASE BeginPause
  BY <1>43, Admitted, Names DEF BeginPause, owners, Enter, Ready, Pruned, Dead, plan, files, log,
       tree, oper, history, OwnInv, ClientInv, ReleaseInv, MarkInv, StopInv, GrantInv, QuietInv,
       Quiet, Serving
<1>44. CASE BeginResume
  BY <1>44, Admitted, Names DEF BeginResume, owners, Take, Enter, Pruned, Dead, Ready, plan,
       files, log, tree, history, OwnInv, ClientInv, ReleaseInv, MarkInv, StopInv, GrantInv,
       QuietInv, Quiet, Serving
<1>45. CASE BeginHoldForStop
  BY <1>45, Names DEF BeginHoldForStop, owners, Take, Enter, Ready, Pruned, Dead, plan, files,
       log, tree, oper, history, OwnInv, ClientInv, ReleaseInv, MarkInv, StopInv, GrantInv,
       QuietInv, Quiet, Serving
<1>46. CASE BeginStop
  BY <1>46, Names DEF BeginStop, owners, Enter, Ready, Pruned, Dead, plan, files, log, tree, oper,
       history, OwnInv, ClientInv, ReleaseInv, MarkInv, StopInv, GrantInv, QuietInv, Quiet,
       Serving
<1>47. CASE Seal
  BY <1>47, Names DEF Seal, DropOwners, owners, Ready, Rob, plan, files, oper, OwnInv, ClientInv,
       ReleaseInv, MarkInv, StopInv, GrantInv, QuietInv, Quiet, Serving
<1>48. ASSUME NEW c \in Caps, JoinCapture(c) PROVE QuietInv'
  <2>0. /\ at = "idle" /\ up /\ sealed = "no" /\ held /\ lock = "free"
        /\ UNCHANGED <<marker, stopMarker, sealed, up, held, at, lock, alive, lapses>>
    BY <1>48 DEF JoinCapture, Ready, log, history
  <2>1. Freeze /\ halted \subseteq halted' /\ (stable' => alive \subseteq halted')
    BY <1>48 DEF JoinCapture, Freeze
  <2> SUFFICES ASSUME lapses \cap {"robbed", "unmarked"} = {}, NEW d \in Caps, client'[d] = "capturing"
               PROVE  Quiet(d)'
    BY <2>0 DEF QuietInv
  <2>2. CASE Quiescent /\ own' = Pruned \cup {c} /\ PutOwners(Pruned \cup {c})
    <3>1. alive \subseteq halted' /\ lock # "launch"
      BY <2>0, <2>1, <2>2 DEF Quiescent
    <3>2. d = c \/ client[d] = "capturing"
      <4>1. \E s : client' = [client EXCEPT ![c] = s]
        BY <1>48 DEF JoinCapture
      <4> QED
        BY <4>1, Granted
    <3>3. d \in own' \/ (stopMarker /\ alive = {}) \/ (stopMarker /\ "stop" \in own')
      <4>1. CASE client[d] = "capturing"
        <5>1. Quiet(d) /\ d \notin Dead
          BY <4>1 DEF QuietInv, Dead
        <5> QED
          BY <2>0, <2>2, <5>1, Names DEF Quiet, Serving, Pruned, Dead
      <4> QED
        BY <2>2, <3>2, <4>1
    <3>4. marker
      BY <2>0 DEF MarkedInv
    <3> QED
      BY <2>0, <2>2, <3>1, <3>3, <3>4 DEF Quiet, Serving, PutOwners
  <2>3. CASE own' = Pruned /\ client' = [client EXCEPT ![c] = "done"] /\ OwnersLost
    <3>1. client[d] = "capturing" /\ d \notin Dead
      BY <2>3, Granted DEF Dead
    <3>2. Quiet(d)
      BY <3>1 DEF QuietInv
    <3> QED
      <4>1. d \in own => d \in own'
        BY <2>3, <3>1 DEF Pruned
      <4>2. "stop" \in own => "stop" \in own'
        BY <2>3, Names DEF Pruned, Dead
      <4>3. UNCHANGED owners \/ torn'
        BY <2>3 DEF OwnersLost, TornOwners
      <4> QED
        BY <2>0, <2>1, <3>2, <4>1, <4>2, <4>3, StillQuiet DEF Serving, owners
  <2> QED
    BY <1>48, <2>2, <2>3 DEF JoinCapture, OwnersLost
<1>49. ASSUME NEW c \in Caps, BeginCapture(c) PROVE QuietInv'
  <2>0. /\ at = "idle" /\ up /\ sealed = "no" /\ ~held /\ ~stopMarker
        /\ UNCHANGED <<marker, owners, stopMarker, sealed, up, held, alive, halted, lapses>>
    BY <1>49, Admitted DEF BeginCapture, Enter, Ready, files, log, tree, history
  <2> SUFFICES ASSUME lapses \cap {"robbed", "unmarked"} = {}, NEW d \in Caps, client'[d] = "capturing"
               PROVE  Quiet(d)'
    BY <2>0 DEF QuietInv
  <2>1. client[d] = "capturing"
    <3>1. client' = [client EXCEPT ![c] = "waiting"] \/ client' = [client EXCEPT ![c] = "done"]
      BY <1>49 DEF BeginCapture
    <3> QED
      BY <3>1, Granted
  <2>2. Quiet(d)
    BY <2>1 DEF QuietInv
  <2>3. FALSE
    BY <2>0, <2>2 DEF Quiet, Serving, Adopting
  <2> QED
    BY <2>3
<1>50. ASSUME NEW c \in Caps, ReleaseCapture(c) PROVE QuietInv'
  <2>0. /\ at = "idle" /\ up /\ sealed = "no" /\ client' = [client EXCEPT ![c] = "done"]
        /\ UNCHANGED <<stopMarker, sealed, up, held, alive, halted, lapses>>
    BY <1>50 DEF ReleaseCapture, Ready, log, tree, history
  <2> SUFFICES ASSUME lapses \cap {"robbed", "unmarked"} = {}, NEW d \in Caps, client'[d] = "capturing"
               PROVE  Quiet(d)'
    BY <2>0 DEF QuietInv
  <2>1. client[d] = "capturing" /\ d # c /\ d \notin Dead
    BY <2>0, Granted DEF Dead
  <2>2. Quiet(d)
    BY <2>1 DEF QuietInv
  <2>3. CASE UNCHANGED <<files, own, at, lock>>
    BY <2>0, <2>2, <2>3 DEF Quiet, Serving, files, owners
  <2>4. CASE held /\ LeftBy(c) = {} /\ Take /\ at' = "l_marker" /\ UNCHANGED <<files, own>>
    <3>1. d \notin own /\ "stop" \notin own
      BY <2>1, <2>4, Names DEF LeftBy, Pruned, Dead
    <3> QED
      BY <2>0, <2>2, <2>4, <3>1 DEF Quiet, Serving, Take
  <2>5. CASE /\ lock = "free" /\ own' = LeftBy(c) /\ UNCHANGED <<marker, at, lock>>
             /\ PutOwners(LeftBy(c)) \/ OwnersLost
    <3>1. d \in own => d \in LeftBy(c)
      BY <2>1 DEF LeftBy, Pruned
    <3>2. "stop" \in own => "stop" \in LeftBy(c)
      BY Names DEF LeftBy, Pruned, Dead
    <3>3. \/ UNCHANGED owners \/ torn' \/ (kept' /\ file' = LeftBy(c))
      BY <2>5 DEF PutOwners, OwnersLost, TornOwners
    <3> QED
      BY <2>0, <2>2, <2>5, <3>1, <3>2, <3>3, StillQuiet DEF Quiet, Serving, owners
  <2> QED
    BY <1>50, <2>3, <2>4, <2>5 DEF ReleaseCapture
<1>51. ASSUME NEW c \in Caps, ClientDie(c) PROVE QuietInv'
  BY <1>51, Names DEF ClientDie, owners, plan, files, log, hold, tree, oper, history, OwnInv,
       ClientInv, ReleaseInv, MarkInv, StopInv, GrantInv, QuietInv, Quiet, Serving
<1>52. CASE Crash
  <2>0. /\ ~Serving' /\ lock' \in {lock, "free"} /\ UNCHANGED <<alive, halted, sealed, stopMarker>>
        /\ lapses \subseteq lapses'
    BY <1>52 DEF Crash, Forget, Serving, log
  <2>a. marker' = marker \/ marker' = TRUE \/ marker' = (marker \/ MarksFirst)
    BY <1>52 DEF Crash, files
  <2>b. UNCHANGED owners \/ torn'
    BY <1>52 DEF Crash, TornOwners, files
  <2>c. ASSUME marker PROVE marker'
    BY <2>a, <2>c, Zenon
  <2>1. (marker => marker') /\ (UNCHANGED owners \/ torn')
    BY <2>b, <2>c
  <2> SUFFICES ASSUME lapses \cap {"robbed", "unmarked"} = {}, NEW c \in Caps, client[c] = "capturing"
               PROVE  Quiet(c)'
    BY <1>52, <2>0 DEF QuietInv, Crash, Forget
  <2>2. Quiet(c)
    BY DEF QuietInv
  <2> QED
    BY <2>0, <2>1, <2>2, StillQuiet DEF owners, Quiet
<1>53. CASE Restart
  BY <1>53, Names DEF Restart, owners, plan, files, log, hold, tree, oper, history, OwnInv,
       ClientInv, ReleaseInv, MarkInv, StopInv, GrantInv, QuietInv, Quiet, Serving
<1>54. CASE LaunchAdmit
  BY <1>54, Names DEF LaunchAdmit, owners, AdmitsLaunch, Marks, plan, files, log, hold, tree,
       oper, history, OwnInv, ClientInv, ReleaseInv, MarkInv, StopInv, GrantInv, QuietInv, Quiet,
       Serving
<1>55. CASE LaunchSpawn
  BY <1>55, Names DEF LaunchSpawn, owners, plan, files, log, hold, tree, oper, history, OwnInv,
       ClientInv, ReleaseInv, MarkInv, StopInv, GrantInv, QuietInv, Quiet, Serving
<1>56. CASE Fork
  BY <1>56, Names DEF Fork, owners, plan, files, log, hold, tree, oper, history, OwnInv,
       ClientInv, ReleaseInv, MarkInv, StopInv, GrantInv, QuietInv, Quiet, Serving
<1>57. CASE ProcessExit
  BY <1>57, Names DEF ProcessExit, owners, plan, files, log, hold, oper, history, OwnInv,
       ClientInv, ReleaseInv, MarkInv, StopInv, GrantInv, QuietInv, Quiet, Serving
<1>58. CASE ProxyPoll
  BY <1>58, Names DEF ProxyPoll, owners, plan, files, log, hold, tree, oper, history, OwnInv,
       ClientInv, ReleaseInv, MarkInv, StopInv, GrantInv, QuietInv, Quiet, Serving
<1>59. CASE BootRefuse
  BY <1>59, Names DEF BootRefuse, owners, plan, files, log, hold, tree, oper, history, OwnInv,
       ClientInv, ReleaseInv, MarkInv, StopInv, GrantInv, QuietInv, Quiet, Serving
<1> QED
  BY <1>1, <1>2, <1>3, <1>4, <1>5, <1>6, <1>7, <1>8, <1>9, <1>10, <1>11, <1>12, <1>13, <1>14, <1>15,
       <1>16, <1>17, <1>18, <1>19, <1>20, <1>21, <1>22, <1>23, <1>24, <1>25, <1>26, <1>27, <1>28, <1>29,
       <1>30, <1>31, <1>32, <1>33, <1>34, <1>35, <1>36, <1>37, <1>38, <1>39, <1>40, <1>41, <1>42, <1>43,
       <1>44, <1>45, <1>46, <1>47, <1>48, <1>49, <1>50, <1>51, <1>52, <1>53, <1>54, <1>55, <1>56, <1>57,
       <1>58, <1>59 DEF Next, Daemon, Requests

LEMMA QuietHolds ==
  Spec => [](OwnInv /\ MarkInv /\ StopInv /\ ClientInv /\ ReleaseInv /\ MarkedInv /\ GrantInv /\ QuietInv)
<1>1. Init => OwnInv /\ MarkInv /\ StopInv /\ ClientInv /\ ReleaseInv /\ MarkedInv /\ GrantInv /\ QuietInv
  BY OwnInit, MarkInit, StopInit, ClientInit, ReleaseInit, MarkedInit, GrantInit, QuietInit
<1> QED
  BY <1>1, OwnStep, MarkStep, StopStep, ClientStep, ReleaseStep, MarkedStep, GrantStep, QuietStep,
       PTL
     DEF Spec

\* While a client captures under a hold it was granted, every process of the session is
\* stopped, whatever the other captures, the user, a stop and a restarted daemon do, unless
\* that daemon gave its hold up: daemon.rs hold_for_capture, release_capture.
THEOREM CapturesAreQuiescent == Spec => []CaptureQuiescent
<1>1. QuietInv => CaptureQuiescent
  BY DEF QuietInv, Quiet, CaptureQuiescent
<1> QED
  BY <1>1, QuietHolds, PTL

--------------------------------------------------------------------------------
(* What a release or a restart leaves stopped *)

\* No stop has begun, and no hold was given up with nothing to find it by.
Intact == sealed = "no" /\ ~stopMarker /\ lapses \cap {"cut", "unmarked", "stuck"} = {}

LEMMA StaysIntact == ASSUME [Next]_vars, Intact' PROVE Intact
<1> USE DEF Intact
<1>1. CASE UNCHANGED vars
  BY <1>1 DEF vars, plan, files, log, hold, tree, oper, history
<1>2. CASE PauseFreeze
  BY <1>2 DEF PauseFreeze, Refuse, Take, plan, files, log, hold, tree, oper, history
<1>3. CASE PauseMark
  BY <1>3 DEF PauseMark, plan, log, hold, tree, oper, history
<1>4. CASE PauseOwners
  BY <1>4 DEF PauseOwners, plan, log, hold, tree, oper, history
<1>5. CASE PauseRecord
  BY <1>5 DEF PauseRecord, Refuse, plan, files, hold, oper, history
<1>6. CASE TakeBack
  BY <1>6 DEF TakeBack, plan, log, tree, oper, history
<1>7. CASE TakeBackThaw
  BY <1>7 DEF TakeBackThaw, ThawLost, Thaw, Step, plan, log, hold, oper, history
<1>8. CASE ClearIntent
  BY <1>8 DEF ClearIntent, plan, files, log, hold, tree, history
<1>9. CASE ResumeOwners
  BY <1>9 DEF ResumeOwners, plan, log, tree, oper, history
<1>10. CASE ResumeRecord
  BY <1>10 DEF ResumeRecord, Refuse, plan, files, hold, tree, history
<1>11. CASE ReleaseMarker
  BY <1>11 DEF ReleaseMarker, Refuse, Released, plan, log, hold, tree, history
<1>12. CASE ReleaseConfirm
  BY <1>12 DEF ReleaseConfirm, Released, plan, log, hold, tree
<1>13. CASE ReleaseThaw
  BY <1>13 DEF ReleaseThaw, ThawLost, Thaw, Step, plan, log, hold, oper, history
<1>14. CASE ReleaseRecord
  BY <1>14 DEF ReleaseRecord, Released, plan, files, tree, history
<1>15. CASE CaptureFreeze
  BY <1>15 DEF CaptureFreeze, plan, files, log, hold, history
<1>16. CASE CaptureMark
  BY <1>16 DEF CaptureMark, plan, log, hold, tree, history
<1>17. CASE CaptureOwners
  BY <1>17 DEF CaptureOwners, plan, log, hold, tree, history
<1>18. CASE CaptureRecord
  BY <1>18 DEF CaptureRecord, plan, files, hold, tree, history
<1>19. CASE HoldStopMarker
  <2>1. sealed' = sealed /\ lapses \subseteq lapses'
    BY <1>19 DEF HoldStopMarker, StopMarkerLost, log
  <2>2. stopMarker' = TRUE \/ stopMarker' = stopMarker
    BY <1>19 DEF HoldStopMarker, StopMarkerLost
  <2> QED
    BY <2>1, <2>2
<1>20. CASE HoldOver
  BY <1>20 DEF HoldOver, Refuse, plan, log, oper, history
<1>21. CASE HoldFreeze
  BY <1>21 DEF HoldFreeze, Step, plan, files, log, hold, oper, history
<1>22. CASE HoldMark
  BY <1>22 DEF HoldMark, ThawLost, Thaw, Refuse, plan, files, log, hold, tree, oper, history
<1>23. CASE HoldRecord
  BY <1>23 DEF HoldRecord, Refuse, plan, files, tree, oper, history
<1>24. CASE StopIntent
  BY <1>24 DEF StopIntent, Refuse, plan, files, log, hold, tree, oper, history
<1>25. CASE StopMark
  <2>1. sealed' = sealed /\ lapses \subseteq lapses'
    BY <1>25 DEF StopMark, StopMarkerLost, log
  <2>2. stopMarker' = TRUE \/ stopMarker' = stopMarker
    BY <1>25 DEF StopMark, StopMarkerLost
  <2> QED
    BY <2>1, <2>2
<1>26. CASE StopClose
  BY <1>26 DEF StopClose, Refuse, plan, log, tree, oper, history
<1>27. CASE StopKill
  BY <1>27 DEF StopKill, Terminated, plan, files, log, hold, oper, history
<1>28. CASE StopConfirm
  BY <1>28 DEF StopConfirm, plan, files, log, hold, oper, history
<1>29. CASE StopHold
  BY <1>29 DEF StopHold, Refuse, plan, tree, oper, history
<1>30. CASE StopRecord
  BY <1>30 DEF StopRecord, Refuse, plan, files, oper, history
<1>31. CASE StopSeal
  BY <1>31 DEF StopSeal, Refuse, plan, files, hold, tree, history
<1>32. CASE Exit
  BY <1>32 DEF Exit, Forget, plan, files, log, history
<1>33. CASE BootServe
  BY <1>33 DEF BootServe, plan, files, log, hold, tree, oper, history
<1>34. CASE BootStop
  BY <1>34 DEF BootStop, plan, files, log, tree, history
<1>35. CASE BootAdopt
  BY <1>35 DEF BootAdopt, Rob, plan, files, log, tree
<1>36. CASE AdoptFreeze
  BY <1>36 DEF AdoptFreeze, Take, Step, plan, files, log, hold, oper, history
<1>37. CASE AdoptWrite
  BY <1>37 DEF AdoptWrite, Refuse, plan, log, hold, tree, oper, history
<1>38. CASE AdoptRecord
  BY <1>38 DEF AdoptRecord, Refuse, plan, files, tree, oper, history
<1>39. CASE BootResume
  BY <1>39 DEF BootResume, Take, Step, Rob, plan, files, log
<1>40. CASE FinishResume
  BY <1>40 DEF FinishResume, Refuse, plan, log, tree, oper, history
<1>41. CASE BootOrphan
  BY <1>41 DEF BootOrphan, Take, Step, Rob, plan, files, log
<1>42. CASE ReleaseOrphan
  BY <1>42 DEF ReleaseOrphan, plan, log, tree, oper, history
<1>43. CASE BeginPause
  BY <1>43 DEF BeginPause, Enter, Ready, Pruned, Dead, plan, files, log, tree, oper, history
<1>44. CASE BeginResume
  BY <1>44 DEF BeginResume, Take, Enter, Pruned, Dead, Ready, plan, files, log, tree, history
<1>45. CASE BeginHoldForStop
  BY <1>45 DEF BeginHoldForStop, Take, Enter, Ready, Pruned, Dead, plan, files, log, tree, oper,
       history
<1>46. CASE BeginStop
  BY <1>46 DEF BeginStop, Enter, Ready, Pruned, Dead, plan, files, log, tree, oper, history
<1>47. CASE Seal
  BY <1>47 DEF Seal, Ready, Rob, plan, files, oper
<1>48. ASSUME NEW c \in Caps, JoinCapture(c) PROVE Intact
  BY <1>48 DEF JoinCapture, Ready, Pruned, Dead, plan, log, oper, history
<1>49. ASSUME NEW c \in Caps, BeginCapture(c) PROVE Intact
  BY <1>49 DEF BeginCapture, Take, Enter, Ready, Pruned, Dead, plan, files, log, tree, oper,
       history
<1>50. ASSUME NEW c \in Caps, ReleaseCapture(c) PROVE Intact
  BY <1>50 DEF ReleaseCapture, Take, Ready, LeftBy, Pruned, Dead, plan, files, log, tree, oper,
       history
<1>51. ASSUME NEW c \in Caps, ClientDie(c) PROVE Intact
  BY <1>51 DEF ClientDie, plan, files, log, hold, tree, oper, history
<1>52. CASE Crash
  BY <1>52 DEF Crash, Forget, plan, files, log
<1>53. CASE Restart
  BY <1>53 DEF Restart, plan, files, log, hold, tree, oper, history
<1>54. CASE LaunchAdmit
  BY <1>54 DEF LaunchAdmit, AdmitsLaunch, Marks, plan, files, log, hold, tree, oper, history
<1>55. CASE LaunchSpawn
  BY <1>55 DEF LaunchSpawn, plan, files, log, hold, tree, oper, history
<1>56. CASE Fork
  BY <1>56 DEF Fork, plan, files, log, hold, tree, oper, history
<1>57. CASE ProcessExit
  BY <1>57 DEF ProcessExit, plan, files, log, hold, oper, history
<1>58. CASE ProxyPoll
  BY <1>58 DEF ProxyPoll, plan, files, log, hold, tree, oper, history
<1>59. CASE BootRefuse
  BY <1>59 DEF BootRefuse, plan, files, log, hold, tree, oper, history
<1> QED
  BY <1>1, <1>2, <1>3, <1>4, <1>5, <1>6, <1>7, <1>8, <1>9, <1>10, <1>11, <1>12, <1>13, <1>14, <1>15,
       <1>16, <1>17, <1>18, <1>19, <1>20, <1>21, <1>22, <1>23, <1>24, <1>25, <1>26, <1>27, <1>28, <1>29,
       <1>30, <1>31, <1>32, <1>33, <1>34, <1>35, <1>36, <1>37, <1>38, <1>39, <1>40, <1>41, <1>42, <1>43,
       <1>44, <1>45, <1>46, <1>47, <1>48, <1>49, <1>50, <1>51, <1>52, <1>53, <1>54, <1>55, <1>56, <1>57,
       <1>58, <1>59 DEF Next, Daemon, Requests

\* Steps at which a daemon without a hold has stopped nothing.
Loose == {"idle", "p_freeze", "c_freeze", "h_stop", "clear", "s_intent", "s_mark"}
\* A daemon that has just read the intent of a stop and not yet looked at the processes.
Booted == at \in {"s_intent", "s_mark"} /\ goal = "boot" /\ ~held

\* What is stopped the daemon knows of, or its files lead the next one to it.
Strand ==
  /\ at \notin (Holding \ {"h_stop"}) \cup Killing \cup {"s_seal"}
  /\ up /\ at \notin {"boot", "exit", "a_freeze"} /\ ~Booted => halted \subseteq known
  /\ up /\ at \in Loose /\ ~held /\ ~Booted => halted = {}
  /\ at = "l_record" => halted = {}
  /\ at \in {"r_owners", "r_record"} => held
  /\ halted # {} => marker \/ intent # "none" \/ at \in {"l_confirm", "l_thaw", "back_thaw"}
  /\ at \in {"p_freeze", "c_freeze", "f_write"} => intent # "none"
  /\ at \in {"a_freeze", "o_write"} => intent # "none" \/ marker

StrandInv == Intact => Strand

LEMMA StrandInit == Init => StrandInv
BY DEF Init, StrandInv, Strand, Holding, Killing, Booted, Loose

LEMMA StrandStep ==
  OwnInv /\ MarkInv /\ StopInv /\ MarkedInv /\ StrandInv /\ [Next]_vars => StrandInv'
<1> SUFFICES ASSUME OwnInv, MarkInv, StopInv, MarkedInv, StrandInv, [Next]_vars, Intact' PROVE Strand'
  BY DEF StrandInv
<1>0. Intact /\ Strand
  BY StaysIntact DEF StrandInv
<1> USE DEF OwnInv, MarkInv, StopInv, MarkedInv, Strand, Intact, Booted, Loose, Adopting, Releasing, Pausing, Capturing, Holding, Killing
<1>1. CASE UNCHANGED vars
  BY <1>1, <1>0 DEF vars, plan, files, log, hold, tree, oper, history
<1>2. CASE PauseFreeze
  BY <1>2, <1>0, Names DEF PauseFreeze, Refuse, Take, Freeze, plan, files, log, hold, tree, oper,
       history
<1>3. CASE PauseMark
  BY <1>3, <1>0, Names DEF PauseMark, MarkerLost, plan, log, hold, tree, oper, history
<1>4. CASE PauseOwners
  BY <1>4, <1>0, Names DEF PauseOwners, plan, log, hold, tree, oper, history
<1>5. CASE PauseRecord
  BY <1>5, <1>0, Names DEF PauseRecord, Refuse, plan, files, hold, oper, history
<1>6. CASE TakeBack
  BY <1>6, <1>0, Names DEF TakeBack, ClearMarker, ClearOwners, plan, log, tree, oper, history
<1>7. CASE TakeBackThaw
  BY <1>7, <1>0, Names DEF TakeBackThaw, ThawLost, Step, ClearMarker, ClearOwners, Thaw, plan,
       log, hold, oper, history
<1>8. CASE ClearIntent
  BY <1>8, <1>0, Names DEF ClearIntent, plan, files, log, hold, tree, history
<1>9. CASE ResumeOwners
  BY <1>9, <1>0, Names DEF ResumeOwners, MarkerLost, plan, log, tree, oper, history
<1>10. CASE ResumeRecord
  BY <1>10, <1>0, Names DEF ResumeRecord, Refuse, plan, files, hold, tree, history
<1>11. CASE ReleaseMarker
  BY <1>11, <1>0, Names DEF ReleaseMarker, Refuse, Released, plan, log, hold, tree, history
<1>12. CASE ReleaseConfirm
  BY <1>12, <1>0, Names DEF ReleaseConfirm, MarkerLost, Released, plan, log, hold, tree
<1>13. CASE ReleaseThaw
  BY <1>13, <1>0, Names DEF ReleaseThaw, ThawLost, Step, ClearOwners, Thaw, plan, log, hold, oper,
       history
<1>14. CASE ReleaseRecord
  BY <1>14, <1>0, Names DEF ReleaseRecord, Released, plan, files, tree, history
<1>15. CASE CaptureFreeze
  BY <1>15, <1>0, Names DEF CaptureFreeze, Freeze, plan, files, log, hold, history
<1>16. CASE CaptureMark
  BY <1>16, <1>0, Names DEF CaptureMark, MarkerLost, plan, log, hold, tree, history
<1>17. CASE CaptureOwners
  BY <1>17, <1>0, Names DEF CaptureOwners, plan, log, hold, tree, history
<1>18. CASE CaptureRecord
  BY <1>18, <1>0, Names DEF CaptureRecord, Quiescent, plan, files, hold, tree, history
<1>19. CASE HoldStopMarker
  BY <1>19, <1>0, Names DEF HoldStopMarker, StopMarkerLost, Refuse, plan, files, log, hold, tree,
       oper, history
<1>20. CASE HoldOver
  BY <1>20, <1>0, Names DEF HoldOver, MarkerLost, Refuse, Freeze, plan, log, oper, history
<1>21. CASE HoldFreeze
  BY <1>21, <1>0, Names DEF HoldFreeze, Step, Freeze, plan, files, log, hold, oper, history
<1>22. CASE HoldMark
  BY <1>22, <1>0, Names DEF HoldMark, ThawLost, MarkerLost, Refuse, Thaw, plan, files, log, hold,
       tree, oper, history
<1>23. CASE HoldRecord
  BY <1>23, <1>0, Names DEF HoldRecord, Refuse, plan, files, tree, oper, history
<1>24. CASE StopIntent
  BY <1>24, <1>0, Names DEF StopIntent, Refuse, plan, files, log, hold, tree, oper, history
<1>25. CASE StopMark
  BY <1>25, <1>0, Names DEF StopMark, StopMarkerLost, Refuse, Take, plan, files, log, hold, tree,
       oper, history
<1>26. CASE StopClose
  BY <1>26, <1>0, Names DEF StopClose, MarkerLost, Refuse, plan, log, tree, oper, history
<1>27. CASE StopKill
  BY <1>27, <1>0, Names DEF StopKill, Terminated, plan, files, log, hold, oper, history
<1>28. CASE StopConfirm
  BY <1>28, <1>0, Names DEF StopConfirm, plan, files, log, hold, oper, history
<1>29. CASE StopHold
  BY <1>29, <1>0, Names DEF StopHold, Refuse, plan, tree, oper, history
<1>30. CASE StopRecord
  BY <1>30, <1>0, Names DEF StopRecord, Refuse, plan, files, oper, history
<1>31. CASE StopSeal
  BY <1>31, <1>0, Names DEF StopSeal, Refuse, plan, files, hold, tree, history
<1>32. CASE Exit
  BY <1>32, <1>0, Names DEF Exit, Forget, plan, files, log, history
<1>33. CASE BootServe
  BY <1>33, <1>0, Names DEF BootServe, plan, files, log, hold, tree, oper, history
<1>34. CASE BootStop
  BY <1>34, <1>0, Names DEF BootStop, Recorded, Dead, plan, files, log, tree, history
<1>35. CASE BootAdopt
  BY <1>35, <1>0, Names DEF BootAdopt, Rob, Recorded, Dead, plan, files, log, tree
<1>36. CASE AdoptFreeze
  BY <1>36, <1>0, Names DEF AdoptFreeze, Take, Step, Freeze, plan, files, log, hold, oper, history
<1>37. CASE AdoptWrite
  BY <1>37, <1>0, Names DEF AdoptWrite, FilesLost, MarkerLost, Refuse, plan, log, hold, tree,
       oper, history
<1>38. CASE AdoptRecord
  BY <1>38, <1>0, Names DEF AdoptRecord, Refuse, plan, files, tree, oper, history
<1>39. CASE BootResume
  BY <1>39, <1>0, Names DEF BootResume, Take, Step, Rob, Freeze, plan, files, log
<1>40. CASE FinishResume
  BY <1>40, <1>0, Names DEF FinishResume, FilesLost, MarkerLost, Refuse, ClearMarker, plan, log,
       tree, oper, history
<1>41. CASE BootOrphan
  BY <1>41, <1>0, Names DEF BootOrphan, Take, Step, Rob, Freeze, Recorded, Dead, plan, files, log
<1>42. CASE ReleaseOrphan
  BY <1>42, <1>0, Names DEF ReleaseOrphan, ClearMarker, plan, log, tree, oper, history
<1>43. CASE BeginPause
  BY <1>43, <1>0, Names DEF BeginPause, Enter, Ready, Pruned, Dead, plan, files, log, tree, oper,
       history
<1>44. CASE BeginResume
  BY <1>44, <1>0, Admitted, Names DEF BeginResume, Take, Enter, Pruned, Dead, Ready, plan, files,
       log, tree, history
<1>45. CASE BeginHoldForStop
  BY <1>45, <1>0, Names DEF BeginHoldForStop, Take, Enter, Ready, Pruned, Dead, plan, files, log,
       tree, oper, history
<1>46. CASE BeginStop
  BY <1>46, <1>0, Names DEF BeginStop, Enter, Ready, Pruned, Dead, plan, files, log, tree, oper,
       history
<1>47. CASE Seal
  BY <1>47, <1>0, Names DEF Seal, Ready, Rob, plan, files, oper
<1>48. ASSUME NEW c \in Caps, JoinCapture(c) PROVE Strand'
  BY <1>48, <1>0, Names DEF JoinCapture, Ready, Pruned, Freeze, Quiescent, Dead, plan, log, oper,
       history
<1>49. ASSUME NEW c \in Caps, BeginCapture(c) PROVE Strand'
  BY <1>49, <1>0, Names DEF BeginCapture, Take, Enter, Ready, Pruned, Dead, plan, files, log,
       tree, oper, history
<1>50. ASSUME NEW c \in Caps, ReleaseCapture(c) PROVE Strand'
  BY <1>50, <1>0, Names DEF ReleaseCapture, Take, Ready, LeftBy, Pruned, Dead, plan, files, log,
       tree, oper, history
<1>51. ASSUME NEW c \in Caps, ClientDie(c) PROVE Strand'
  BY <1>51, <1>0, Names DEF ClientDie, plan, files, log, hold, tree, oper, history
<1>52. CASE Crash
  BY <1>52, <1>0, Names DEF Crash, WritesOwners, MarksFirst, Forget, plan, files, log
<1>53. CASE Restart
  BY <1>53, <1>0, Names DEF Restart, plan, files, log, hold, tree, oper, history
<1>54. CASE LaunchAdmit
  BY <1>54, <1>0, Names DEF LaunchAdmit, AdmitsLaunch, Marks, plan, files, log, hold, tree, oper,
       history
<1>55. CASE LaunchSpawn
  BY <1>55, <1>0, Names DEF LaunchSpawn, plan, files, log, hold, tree, oper, history
<1>56. CASE Fork
  BY <1>56, <1>0, Names DEF Fork, plan, files, log, hold, tree, oper, history
<1>57. CASE ProcessExit
  BY <1>57, <1>0, Names DEF ProcessExit, plan, files, log, hold, oper, history
<1>58. CASE ProxyPoll
  BY <1>58, <1>0, Names DEF ProxyPoll, plan, files, log, hold, tree, oper, history
<1>59. CASE BootRefuse
  BY <1>59, <1>0, Names DEF BootRefuse, plan, files, log, hold, tree, oper, history
<1> QED
  BY <1>1, <1>2, <1>3, <1>4, <1>5, <1>6, <1>7, <1>8, <1>9, <1>10, <1>11, <1>12, <1>13, <1>14, <1>15,
       <1>16, <1>17, <1>18, <1>19, <1>20, <1>21, <1>22, <1>23, <1>24, <1>25, <1>26, <1>27, <1>28, <1>29,
       <1>30, <1>31, <1>32, <1>33, <1>34, <1>35, <1>36, <1>37, <1>38, <1>39, <1>40, <1>41, <1>42, <1>43,
       <1>44, <1>45, <1>46, <1>47, <1>48, <1>49, <1>50, <1>51, <1>52, <1>53, <1>54, <1>55, <1>56, <1>57,
       <1>58, <1>59 DEF Next, Daemon, Requests

\* A daemon that serves and holds nothing leaves nothing stopped, whatever failed and however
\* often a daemon died, unless a stop has begun, the daemon before it died while it released a
\* capture's hold, or a release by the freezer did not reach every process: daemon.rs
\* reconcile_lifecycle, release_hold, pause.rs thaw.
THEOREM NothingIsStranded == Spec => []NothingStranded
<1>1. StrandInv => NothingStranded
  BY DEF StrandInv, Intact, Strand, Loose, Booted, NothingStranded
<1>2. Init => StrandInv
  BY StrandInit
<1> QED
  BY <1>1, <1>2, QuietHolds, StrandStep, PTL DEF Spec

=============================================================================
