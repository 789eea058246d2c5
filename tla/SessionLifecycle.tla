--------------------------- MODULE SessionLifecycle ---------------------------
(***************************************************************************)
(* Pausing, resuming, capturing and stopping one session                    *)
(* (crates/ward-daemon/src/daemon.rs and pause.rs).                         *)
(*                                                                          *)
(* The session daemon serves one request at a time.  A lifecycle operation  *)
(* is several durable steps: an intent file, a freeze of the sandbox        *)
(* processes, the pause marker the proxies poll, the owners file, a record  *)
(* in the log.  The daemon may die between any two of them; the daemon      *)
(* started next reads the files back and finishes, adopts or releases what  *)
(* it finds before it serves.  Launches and capturing clients are other     *)
(* processes: a launch takes the session lock and reads the files itself.   *)
(*                                                                          *)
(* Abstractions.  The log is what read_log_tail derives from it (`tail')    *)
(* and whether it is sealed.  Reasons, counts, methods and times are left   *)
(* out.  A freeze knows the processes its scans found; it is stable when    *)
(* it holds every process, otherwise anything forked meanwhile is missed    *)
(* and some signalled process may not have stopped yet.  The session has    *)
(* one proxy; the other components confirm at once.                         *)
(***************************************************************************)
EXTENDS Naturals, FiniteSets

CONSTANTS
  Procs,        \* sandbox processes
  Caps,         \* captures, by operation id
  None,
  MaxTrouble    \* bound: failing writes, failing appends and daemon deaths explored

ASSUME LifecycleAssumption ==
  /\ MaxTrouble \in Nat
  /\ None \notin Caps /\ Caps \cap {"user", "stop"} = {}

VARIABLES
  \* The session directory and the log.
  intent, intentCap,   \* intent.json: its verb, and the capture it names
  marker, stopMarker,
  kept, file, torn,    \* held_by.json: whether it exists, the owners in it, whether it was
                       \* left cut short and nobody can read it
  tail,                \* what the log says: "running", "paused" or "unsettled"
  sealed,              \* "no", or sealed by a "stop" or by a log-only "seal"
  \* The daemon.
  up, held, own, unsure, appr, known, stable,
  at, cap, goal,       \* the step of the operation under way, its capture, what it serves
  \* The session lock, the processes, the proxy, the capturing clients.
  lock, alive, halted, proxy, client,
  \* History and bounds.
  lapses,              \* what went wrong that nothing puts right:
                       \* "cut": the daemon died in a release no intent records;
                       \* "robbed": a restart or a failed seal gave up a live capture's hold;
                       \* "unmarked": a release was taken back without its marker;
                       \* "stuck": a release left stopped what it should have let run;
                       \* "half": a stop refused for want of its marker left the marker there
  faults, crashes

plan == <<intent, intentCap>>
owners == <<kept, file, torn>>
files == <<marker, owners>>
log == <<tail, sealed>>
hold == <<held, own, unsure>>
tree == <<known, stable, halted>>
oper == <<cap, goal>>
history == <<lapses, crashes>>
vars == <<plan, files, stopMarker, log, up, hold, appr, tree, at, oper, lock, alive, proxy,
          client, faults, history>>

Owners == {"user", "stop"} \cup Caps
Steps == {"idle",
          "p_freeze", "p_mark", "p_owners", "p_record", "clear", "back", "back_thaw", "exit",
          "r_owners", "r_record", "l_marker", "l_confirm", "l_thaw", "l_record",
          "c_freeze", "c_mark", "c_owners", "c_record",
          "h_stop", "h_over", "h_freeze", "h_mark", "h_record",
          "s_intent", "s_mark", "s_close", "s_kill", "s_confirm", "s_hold", "s_record", "s_seal",
          "boot", "a_freeze", "a_write", "a_record", "f_write", "o_write"}

Init ==
  /\ intent = "none" /\ intentCap = None /\ marker = FALSE /\ stopMarker = FALSE
  /\ kept = FALSE /\ file = {} /\ torn = FALSE /\ tail = "running" /\ sealed = "no"
  /\ up = TRUE /\ held = FALSE /\ own = {} /\ unsure = FALSE /\ appr = FALSE
  /\ known = {} /\ stable = FALSE
  /\ at = "idle" /\ cap = None /\ goal = "none"
  /\ lock = "free" /\ alive = {} /\ halted = {} /\ proxy = FALSE
  /\ client = [c \in Caps |-> "new"]
  /\ lapses = {} /\ faults = 0 /\ crashes = 0

--------------------------------------------------------------------------------
(* The lifecycle and its transition table *)

\* The lifecycle from the daemon's own state.
Lifecycle ==
  CASE sealed # "no" -> "stopped"
    [] sealed = "no" /\ held /\ unsure -> "incomplete"
    [] sealed = "no" /\ held /\ ~unsure /\ ("stop" \in own \/ stopMarker) -> "stopping"
    [] sealed = "no" /\ held /\ ~unsure /\ "stop" \notin own /\ ~stopMarker -> "paused"
    [] sealed = "no" /\ ~held /\ stopMarker -> "stopping"
    [] OTHER -> "running"

\* The lifecycle a launch reads from the session directory.
Marks ==
  CASE intent \in {"pause", "capture"} -> "pausing"
    [] intent = "resume" -> "resuming"
    [] intent = "stop" -> "stopping"
    [] intent = "none" /\ sealed # "no" -> "stopped"
    [] intent = "none" /\ sealed = "no" /\ stopMarker -> "stopping"
    [] intent = "none" /\ sealed = "no" /\ ~stopMarker /\ marker -> "paused"
    [] OTHER -> "running"

Dead == {c \in Caps : client[c] = "dead"}

\* Owners as `enter' leaves them: a capture whose process is gone owns nothing.
Pruned == own \ Dead

Admits(op) ==
  CASE op = "pause" ->
         \/ Lifecycle = "running"
         \/ held /\ Pruned \cap {"user", "stop"} = {} /\ (Lifecycle = "stopping" => Pruned # {})
    [] op = "resume" ->
         /\ Lifecycle \in {"paused", "incomplete"}
         /\ "stop" \notin Pruned /\ ("user" \in Pruned \/ Pruned = {})
    [] op = "capture" ->
         \/ Lifecycle \in {"running", "paused", "incomplete"}
         \/ Lifecycle = "stopping" /\ held /\ Pruned # {}
    [] OTHER -> Lifecycle \in {"running", "stopping", "paused", "incomplete"}

--------------------------------------------------------------------------------
(* Helpers *)

Sound == UNCHANGED faults
Fault == faults + crashes < MaxTrouble /\ faults' = faults + 1

Ready == up /\ at = "idle" /\ sealed = "no"
Step(from, to) == at = from /\ at' = to

\* Mutant: a refused operation keeps the lock.
RefuseLocked == at' = (IF goal = "boot" THEN "exit" ELSE "idle") /\ lock' = lock
\* The operation is over and its lock dropped; a daemon that was starting does not serve.
Refuse == at' = (IF goal = "boot" THEN "exit" ELSE "idle") /\ lock' = "free"
Take == lock = "free" /\ lock' = "daemon"

\* Admitted by the transition table; what `enter' pruned stays pruned.
Enter(op) == Ready /\ Admits(op) /\ own' = Pruned

\* The scans find and signal every process they see; a stable freeze holds them all, one cut
\* short by its bound may have missed a fork or signalled what has not stopped yet.
Freeze ==
  \E K \in SUBSET alive, H \in SUBSET alive :
    /\ halted \subseteq H /\ H \subseteq K
    /\ \/ stable' = TRUE /\ H = alive
       \/ stable' = FALSE /\ K # {}
    /\ known' = K /\ halted' = H

Thaw == halted' = halted \ known /\ known' = {} /\ UNCHANGED <<stable, lapses>>
\* By the freezer a thaw is one write, best effort, and continues nothing that `stabilize' could
\* not move into the group and stopped by a signal.
ThawLost ==
  /\ Fault
  /\ \E S \in SUBSET (known \cap halted) : S # {} /\ halted' = halted \ (known \ S)
  /\ known' = {} /\ lapses' = lapses \cup {"stuck"} /\ UNCHANGED stable

\* Nothing the freeze knows of still runs.
Settled(H) == known \cap alive \subseteq H
HasRecord == tail # "running"

\* held_by.json is written in place: a write cut short leaves a file nobody can read.
PutOwners(X) == kept' = TRUE /\ file' = X /\ torn' = FALSE
DropOwners == kept' = FALSE /\ file' = {} /\ torn' = FALSE
TornOwners == kept' = TRUE /\ file' = {} /\ torn' = TRUE
OwnersLost == UNCHANGED owners \/ TornOwners

\* The pause marker and the stop marker count by existing: a failing write may leave either.
MarkerLost == marker' \in {marker, TRUE}
FilesLost == \/ MarkerLost /\ UNCHANGED owners
             \/ marker' = TRUE /\ TornOwners
StopMarkerLost ==
  /\ stopMarker' \in {stopMarker, TRUE}
  /\ lapses' = IF stopMarker' = stopMarker THEN lapses ELSE lapses \cup {"half"}

\* Files removed best effort.
ClearMarker == \/ Sound /\ marker' = FALSE
               \/ Fault /\ UNCHANGED marker
ClearOwners == \/ Sound /\ DropOwners
               \/ Fault /\ UNCHANGED owners

\* The daemon gives up a hold without asking whether a live capture owns it.
Rob == IF \E c \in Caps : client[c] = "capturing" THEN lapses \cup {"robbed"} ELSE lapses

--------------------------------------------------------------------------------
(* pause *)

BeginPause ==
  /\ Enter("pause")
  /\ \/ Sound /\ intent' = "pause" /\ intentCap' = None /\ at' = "p_freeze"
     \/ Fault /\ UNCHANGED <<plan, at>>
  /\ UNCHANGED <<files, stopMarker, log, up, held, unsure, appr, tree, oper, lock, alive, proxy,
                 client, history>>

PauseFreeze ==
  /\ at = "p_freeze"
  /\ \/ Sound /\ Take /\ at' = "p_mark" /\ IF held THEN UNCHANGED tree ELSE Freeze
     \/ Fault /\ Refuse /\ UNCHANGED tree
  /\ UNCHANGED <<plan, files, stopMarker, log, up, hold, appr, oper, alive, proxy, client,
                 history>>

PauseMark ==
  /\ at = "p_mark"
  /\ \/ Sound /\ marker' = TRUE /\ at' = "p_owners"
     \/ Fault /\ at' = "back" /\ MarkerLost
  /\ UNCHANGED <<plan, owners, stopMarker, log, up, hold, appr, tree, oper, lock, alive,
                 proxy, client, history>>

PauseOwners ==
  /\ at = "p_owners"
  /\ \/ Sound /\ PutOwners(own \cup {"user"}) /\ at' = "p_record"
     \/ Fault /\ at' = "back" /\ OwnersLost
  /\ UNCHANGED <<plan, marker, stopMarker, log, up, hold, appr, tree, oper, lock, alive, proxy,
                 client, history>>

\* The record to append: confirmed when the processes settled and the proxy acknowledged.
HoldConfirmed(H) == Settled(H) /\ proxy

\* The approvals are held, the freeze given its bound to settle, the one record appended: a
\* confirmed pause that cannot be recorded is undone, an unconfirmed one stands unrecorded.
PauseRecord ==
  /\ at = "p_record" /\ appr' = TRUE
  /\ \E H \in SUBSET alive :
       /\ halted \subseteq H /\ H \subseteq halted \cup known /\ halted' = H
       /\ \/ /\ Sound /\ tail' = IF HoldConfirmed(H) THEN "paused" ELSE "unsettled"
             /\ held' = TRUE /\ own' = own \cup {"user"} /\ unsure' = ~HoldConfirmed(H)
             /\ at' = "clear" /\ UNCHANGED lock
          \/ /\ Fault /\ HoldConfirmed(H)
             /\ at' = "back" /\ UNCHANGED <<tail, hold, lock>>
          \/ /\ Fault /\ ~HoldConfirmed(H)
             /\ held' = TRUE /\ own' = own \cup {"user"} /\ unsure' = TRUE
             /\ Refuse /\ UNCHANGED tail
  /\ UNCHANGED <<plan, files, stopMarker, sealed, up, known, stable, oper, alive, proxy, client,
                 history>>

\* Undo a hold that did not complete: all of a fresh one, a capture's owners file first and a
\* pause's marker first, only its own layer over another.
TakeBack ==
  /\ at = "back"
  /\ \/ /\ own = {} /\ at' = "back_thaw"
        /\ appr' = FALSE /\ held' = FALSE /\ unsure' = FALSE
        /\ IF goal = "refuse" THEN ClearOwners /\ UNCHANGED marker
                              ELSE ClearMarker /\ UNCHANGED owners
     \/ /\ own # {} /\ at' = "clear"
        /\ \/ Sound /\ marker' = (marker \/ own \cap Caps # {}) /\ PutOwners(own)
           \/ Fault /\ marker' = (marker \/ own \cap Caps # {}) /\ OwnersLost
           \/ Fault /\ PutOwners(own) /\ UNCHANGED marker
        /\ UNCHANGED <<held, unsure, appr>>
  /\ UNCHANGED <<plan, stopMarker, log, up, own, tree, oper, lock, alive, proxy, client, history>>

\* The other file is removed and the processes run again.
TakeBackThaw ==
  /\ Step("back_thaw", "clear")
  /\ \/ Thaw /\ IF goal = "refuse" THEN ClearMarker /\ UNCHANGED owners
                                    ELSE ClearOwners /\ UNCHANGED marker
     \/ ThawLost /\ IF goal = "refuse" THEN marker' = FALSE /\ UNCHANGED owners
                                        ELSE DropOwners /\ UNCHANGED marker
  /\ UNCHANGED <<plan, stopMarker, log, up, hold, appr, oper, lock, alive, proxy, client,
                 crashes>>

\* What an operation that reached its outcome does last: best effort, except while starting.
ClearIntent ==
  /\ at = "clear" /\ lock' = "free" /\ cap' = None /\ goal' = "none"
  /\ \/ /\ Sound /\ intent' = "none" /\ intentCap' = None
        /\ at' = IF goal = "end" THEN "exit" ELSE "idle"
     \/ /\ Fault /\ intent # "none" /\ UNCHANGED plan
        /\ at' = IF goal \in {"boot", "end"} THEN "exit" ELSE "idle"
  /\ client' = [c \in Caps |->
                 IF c # cap \/ client[c] # "waiting" THEN client[c]
                 ELSE IF goal = "capture" THEN "capturing" ELSE "done"]
  /\ UNCHANGED <<files, stopMarker, log, up, hold, appr, tree, alive, proxy, history>>

--------------------------------------------------------------------------------
(* resume, and the release of a hold no owner keeps *)

BeginResume ==
  /\ Enter("resume")
  /\ \/ /\ Sound /\ Take /\ intent' = "resume" /\ intentCap' = None /\ goal' = "resume"
        /\ at' = IF Pruned \cap Caps # {} THEN "r_owners" ELSE "l_marker"
     \/ Fault /\ UNCHANGED <<plan, lock, goal, at>>
  /\ UNCHANGED <<files, stopMarker, log, up, held, unsure, appr, tree, cap, alive, proxy, client,
                 history>>

\* Captures keep the hold: the user's layer is dropped and the marker relabelled.
ResumeOwners ==
  /\ at = "r_owners"
  /\ \/ /\ Sound /\ PutOwners(own \ {"user"}) /\ marker' = TRUE
        /\ own' = own \ {"user"} /\ at' = "r_record"
     \/ /\ Fault /\ at' = "clear"
        /\ \/ OwnersLost /\ UNCHANGED marker
           \/ PutOwners(own \ {"user"}) /\ MarkerLost
        /\ UNCHANGED own
  /\ UNCHANGED <<plan, stopMarker, log, up, held, unsure, appr, tree, oper, lock, alive, proxy,
                 client, history>>

ResumeRecord ==
  /\ at = "r_record"
  /\ \/ Sound /\ tail' = "paused" /\ at' = "clear" /\ UNCHANGED <<lock, goal>>
     \/ Fault /\ Refuse /\ goal' = "none" /\ UNCHANGED tail
  /\ UNCHANGED <<plan, files, stopMarker, sealed, up, hold, appr, tree, cap, alive, proxy, client,
                 history>>

\* Where a release goes once it has its outcome: only a capture's has no intent to clear.
Released ==
  IF goal = "release" THEN at' = "idle" /\ lock' = "free" /\ goal' = "none"
  ELSE at' = "clear" /\ UNCHANGED <<lock, goal>>

ReleaseMarker ==
  /\ at = "l_marker"
  /\ \/ Sound /\ appr' = FALSE /\ marker' = FALSE /\ at' = "l_confirm" /\ UNCHANGED <<lock, goal>>
     \/ /\ Fault /\ appr' = TRUE /\ UNCHANGED marker
        /\ IF goal = "boot" THEN Refuse /\ UNCHANGED goal ELSE Released
  /\ UNCHANGED <<plan, owners, stopMarker, log, up, hold, tree, cap, alive, proxy, client,
                 history>>

\* A release the proxy does not confirm within its bound is taken back.
ReleaseConfirm ==
  /\ at = "l_confirm"
  /\ \/ /\ ~proxy /\ Sound /\ at' = "l_thaw" /\ UNCHANGED <<marker, appr, lock, goal, lapses>>
     \/ /\ proxy /\ appr' = TRUE /\ Released
        /\ \/ Sound /\ marker' = TRUE /\ UNCHANGED lapses
           \/ Fault /\ MarkerLost
              /\ lapses' = IF marker' THEN lapses ELSE lapses \cup {"unmarked"}
  /\ UNCHANGED <<plan, owners, stopMarker, log, up, hold, tree, cap, alive, proxy, client,
                 crashes>>

ReleaseThaw ==
  /\ Step("l_thaw", "l_record")
  /\ \/ Thaw /\ ClearOwners
     \/ ThawLost /\ DropOwners
  /\ UNCHANGED <<plan, marker, stopMarker, log, up, hold, appr, oper, lock, alive, proxy, client,
                 crashes>>

ReleaseRecord ==
  /\ at = "l_record" /\ held' = FALSE /\ own' = {}
  /\ Released
  /\ \/ Sound /\ tail' = "running"
     \/ Fault /\ UNCHANGED tail
  /\ UNCHANGED <<plan, files, stopMarker, sealed, up, unsure, appr, tree, cap, alive, proxy,
                 client, history>>

--------------------------------------------------------------------------------
(* captures *)

\* Mutant: a capture is granted on a freeze that was never confirmed stable.
QuiescentSettled == known' \cap alive \subseteq halted' /\ proxy
\* What a capture needs: the freeze stable and the proxy holding.
Quiescent == stable' /\ proxy

\* Over a hold in force: re-confirmed, and the capture joins its owners with no record.
JoinCapture(c) ==
  /\ client[c] = "new" /\ Ready /\ Admits("capture") /\ held /\ lock = "free" /\ Freeze
  /\ \/ /\ Quiescent /\ Sound
        /\ own' = Pruned \cup {c} /\ PutOwners(Pruned \cup {c})
        /\ client' = [client EXCEPT ![c] = "capturing"]
     \/ /\ \/ ~Quiescent /\ Sound /\ UNCHANGED owners
           \/ Quiescent /\ Fault /\ OwnersLost
        /\ own' = Pruned /\ client' = [client EXCEPT ![c] = "done"]
  /\ UNCHANGED <<plan, marker, stopMarker, log, up, held, unsure, appr, at, oper, lock, alive,
                 proxy, history>>

BeginCapture(c) ==
  /\ client[c] = "new" /\ Enter("capture") /\ ~held
  /\ \/ /\ Sound /\ Take /\ intent' = "capture" /\ intentCap' = c
        /\ at' = "c_freeze" /\ cap' = c /\ goal' = "capture"
        /\ client' = [client EXCEPT ![c] = "waiting"]
     \/ /\ Fault /\ client' = [client EXCEPT ![c] = "done"]
        /\ UNCHANGED <<plan, lock, at, oper>>
  /\ UNCHANGED <<files, stopMarker, log, up, held, unsure, appr, tree, alive, proxy, history>>

\* An idle session is held by nothing.
CaptureFreeze ==
  /\ at = "c_freeze" /\ Freeze
  /\ IF known' = {} THEN at' = "clear" /\ goal' = "nothing"
                    ELSE at' = "c_mark" /\ UNCHANGED goal
  /\ UNCHANGED <<plan, files, stopMarker, log, up, hold, appr, cap, lock, alive, proxy, client,
                 faults, history>>

CaptureMark ==
  /\ at = "c_mark"
  /\ \/ Sound /\ marker' = TRUE /\ at' = "c_owners" /\ UNCHANGED goal
     \/ Fault /\ at' = "back" /\ goal' = "refuse" /\ MarkerLost
  /\ UNCHANGED <<plan, owners, stopMarker, log, up, hold, appr, tree, cap, lock, alive,
                 proxy, client, history>>

CaptureOwners ==
  /\ at = "c_owners"
  /\ \/ /\ Sound /\ PutOwners({cap}) /\ appr' = TRUE
        /\ at' = "c_record" /\ UNCHANGED goal
     \/ Fault /\ at' = "back" /\ goal' = "refuse" /\ OwnersLost /\ UNCHANGED appr
  /\ UNCHANGED <<plan, marker, stopMarker, log, up, hold, tree, cap, lock, alive, proxy, client,
                 history>>

\* Recorded only from confirmed quiescence; otherwise the hold is undone whole.
CaptureRecord ==
  /\ at = "c_record" /\ UNCHANGED tree
  /\ \/ /\ Quiescent /\ Sound /\ tail' = "paused" /\ at' = "clear"
        /\ held' = TRUE /\ own' = {cap} /\ unsure' = FALSE /\ UNCHANGED goal
     \/ /\ \/ ~Quiescent /\ Sound
           \/ Quiescent /\ Fault
        /\ at' = "back" /\ goal' = "refuse" /\ UNCHANGED <<tail, hold>>
  /\ UNCHANGED <<plan, files, stopMarker, sealed, up, appr, cap, lock, alive, proxy, client,
                 history>>

\* Mutant: the last capture to let go ends the hold although the user's pause is under it.
LeftByCaptures(c) == Pruned \ {c, "user"}
\* Who still holds the session once capture c lets go.
LeftBy(c) == Pruned \ {c}

\* The capture lets go: the last owner's release ends the hold.
ReleaseCapture(c) ==
  /\ client[c] = "capturing" /\ Ready
  /\ client' = [client EXCEPT ![c] = "done"]
  /\ \/ /\ ~held \/ c \notin own
        /\ Sound /\ UNCHANGED <<files, own, at, oper, lock>>
     \/ /\ held /\ c \in own /\ LeftBy(c) = {}
        /\ Take /\ at' = "l_marker" /\ goal' = "release"
        /\ Sound /\ UNCHANGED <<files, own, cap>>
     \/ /\ held /\ c \in own /\ LeftBy(c) # {} /\ lock = "free" /\ own' = LeftBy(c)
        /\ \/ Sound /\ PutOwners(LeftBy(c))
           \/ Fault /\ OwnersLost
        /\ UNCHANGED <<marker, at, oper, lock>>
  /\ UNCHANGED <<plan, stopMarker, log, up, held, unsure, appr, tree, alive, proxy, history>>

\* The capturing process ends, whatever it was doing.
ClientDie(c) ==
  /\ client[c] \in {"waiting", "capturing", "done"}
  /\ client' = [client EXCEPT ![c] = "dead"]
  /\ UNCHANGED <<plan, files, stopMarker, log, up, hold, appr, tree, at, oper, lock, alive, proxy,
                 faults, history>>

--------------------------------------------------------------------------------
(* the hold for a stop *)

BeginHoldForStop ==
  /\ Enter("stop")
  /\ \/ Sound /\ Take /\ intent' = "pause" /\ intentCap' = None /\ at' = "h_stop"
     \/ Fault /\ UNCHANGED <<plan, lock, at>>
  /\ UNCHANGED <<files, stopMarker, log, up, held, unsure, appr, tree, oper, alive, proxy, client,
                 history>>

HoldStopMarker ==
  /\ at = "h_stop"
  /\ \/ /\ Sound /\ stopMarker' = TRUE /\ UNCHANGED <<lock, lapses>>
        /\ at' = IF held THEN "h_over" ELSE "h_freeze"
     \/ Fault /\ Refuse /\ StopMarkerLost
  /\ UNCHANGED <<plan, files, log, up, hold, appr, tree, oper, alive, proxy, client, crashes>>

\* A hold in force is taken over: re-confirmed, with no record.
HoldOver ==
  /\ at = "h_over" /\ Freeze
  /\ own' = own \cup {"stop"} /\ appr' = TRUE /\ unsure' = ~(stable' /\ proxy)
  /\ \/ /\ Sound /\ marker' = TRUE /\ PutOwners(own \cup {"stop"})
        /\ at' = "clear" /\ UNCHANGED lock
     \/ /\ Fault /\ Refuse
        /\ \/ marker' = TRUE /\ OwnersLost
           \/ MarkerLost /\ PutOwners(own \cup {"stop"})
  /\ UNCHANGED <<plan, stopMarker, log, up, held, oper, alive, proxy, client, history>>

HoldFreeze ==
  /\ Step("h_freeze", "h_mark") /\ Freeze
  /\ UNCHANGED <<plan, files, stopMarker, log, up, hold, appr, oper, lock, alive, proxy, client,
                 faults, history>>

\* No marker: nothing is held, and the processes run again.
HoldMark ==
  /\ at = "h_mark"
  /\ \/ /\ marker' = TRUE /\ appr' = TRUE
        /\ held' = TRUE /\ own' = {"stop"} /\ unsure' = ~stable /\ UNCHANGED <<tree, lapses>>
        /\ \/ /\ Sound /\ PutOwners({"stop"})
              /\ at' = "h_record" /\ UNCHANGED lock
           \/ Fault /\ Refuse /\ OwnersLost
     \/ /\ \/ Fault /\ Thaw
           \/ ThawLost
        /\ Refuse /\ MarkerLost /\ UNCHANGED <<owners, hold, appr>>
  /\ UNCHANGED <<plan, stopMarker, log, up, oper, alive, proxy, client, crashes>>

HoldRecord ==
  /\ at = "h_record" /\ unsure' = ~(stable /\ proxy)
  /\ \/ /\ Sound /\ tail' = IF stable /\ proxy THEN "paused" ELSE "unsettled"
        /\ at' = "clear" /\ UNCHANGED lock
     \/ Fault /\ Refuse /\ UNCHANGED tail
  /\ UNCHANGED <<plan, files, stopMarker, sealed, up, held, own, appr, tree, oper, alive, proxy,
                 client, history>>

--------------------------------------------------------------------------------
(* stop *)

BeginStop ==
  /\ Enter("stop")
  /\ \/ Sound /\ intent' = "stop" /\ intentCap' = None /\ at' = "s_mark"
     \/ Fault /\ UNCHANGED <<plan, at>>
  /\ UNCHANGED <<files, stopMarker, log, up, held, unsure, appr, tree, oper, lock, alive, proxy,
                 client, history>>

\* The same, run by a daemon finishing the stop a previous one began.
StopIntent ==
  /\ at = "s_intent"
  /\ \/ Sound /\ at' = "s_mark" /\ UNCHANGED lock
     \/ Fault /\ Refuse
  /\ UNCHANGED <<plan, files, stopMarker, log, up, hold, appr, tree, oper, alive, proxy, client,
                 history>>

\* The stop marker, under the lock every launch takes.
StopMark ==
  /\ at = "s_mark"
  /\ \/ Sound /\ Take /\ stopMarker' = TRUE /\ at' = "s_close" /\ UNCHANGED lapses
     \/ Fault /\ lock = "free" /\ Refuse /\ StopMarkerLost
  /\ UNCHANGED <<plan, files, log, up, hold, appr, tree, oper, alive, proxy, client, crashes>>

\* The proxies are closed before anything is killed; without the marker the hold is dropped.
StopClose ==
  /\ at = "s_close"
  /\ \/ Sound /\ marker' = TRUE /\ appr' = TRUE /\ at' = "s_kill" /\ UNCHANGED <<held, own, lock>>
     \/ /\ Fault /\ ~marker /\ held' = FALSE /\ own' = {} /\ Refuse /\ MarkerLost
        /\ UNCHANGED appr
  /\ UNCHANGED <<plan, owners, stopMarker, log, up, unsure, tree, oper, alive, proxy, client,
                 history>>

\* Mutant: no pending process is taken for a confirmed termination, whatever the barrier.
TerminatedNoPending(left, closed) == left = {}
\* Every process found is gone, and the freeze before the kill was stable.
Terminated(left, closed) == left = {} /\ closed

\* Frozen, killed, waited for: `left' is what the scans still see when the bound expires.
StopKill ==
  /\ at = "s_kill"
  /\ \E closed \in BOOLEAN, H \in SUBSET alive, A \in SUBSET alive : \E left \in SUBSET A :
       /\ halted \subseteq H
       /\ IF closed THEN H = alive /\ left = A ELSE alive # {}
       /\ alive' = A /\ halted' = H \cap A /\ stable' = closed
       /\ IF Terminated(left, closed) THEN at' = "s_confirm" /\ known' = alive \ A
                                      ELSE at' = "s_hold" /\ known' = left
  /\ UNCHANGED <<plan, files, stopMarker, log, up, hold, appr, oper, lock, proxy, client, faults,
                 history>>

\* A stop is not confirmed by termination alone: the proxy must hold as well.
StopConfirm ==
  /\ at = "s_confirm"
  /\ \/ /\ proxy /\ at' = "s_record" /\ UNCHANGED known
        /\ \/ Sound /\ marker' = FALSE /\ DropOwners
           \/ Fault /\ UNCHANGED owners /\ marker' \in BOOLEAN
     \/ ~proxy /\ Sound /\ at' = "s_hold" /\ known' = {} /\ UNCHANGED files
  /\ UNCHANGED <<plan, stopMarker, log, up, hold, appr, stable, halted, oper, lock, alive, proxy,
                 client, history>>

\* Refused: the session is held for the stop over whatever is left, and the log says so.
StopHold ==
  /\ at = "s_hold" /\ held' = TRUE /\ own' = {"stop"} /\ unsure' = TRUE /\ marker' = TRUE
  /\ \/ Sound /\ PutOwners({"stop"})
        /\ tail' = "unsettled" /\ at' = "clear" /\ UNCHANGED lock
     \/ Fault /\ OwnersLost
        /\ tail' = "unsettled" /\ at' = "clear" /\ UNCHANGED lock
     \/ Fault /\ PutOwners({"stop"}) /\ Refuse /\ UNCHANGED tail
  /\ UNCHANGED <<plan, stopMarker, sealed, up, appr, tree, oper, alive, proxy, client, history>>

\* WorkloadsTerminated, when anything ended or an incomplete stop is retried; the lock is dropped.
StopRecord ==
  /\ at = "s_record" /\ held' = FALSE /\ own' = {} /\ known' = {}
  /\ \/ /\ Sound /\ lock' = "free" /\ at' = "s_seal"
        /\ tail' = IF known # {} \/ "stop" \in own THEN "running" ELSE tail
     \/ Fault /\ (known # {} \/ "stop" \in own) /\ Refuse /\ UNCHANGED tail
  /\ UNCHANGED <<plan, files, stopMarker, sealed, up, unsure, appr, stable, halted, oper, alive,
                 proxy, client, history>>

\* The open launches aborted, `finished' recorded, the approvals closed, the log sealed.  A log
\* that cannot be sealed is let go all the same, and the daemon with it.
StopSeal ==
  /\ at = "s_seal"
  /\ \/ Sound /\ sealed' = "stop" /\ goal' = "end" /\ at' = "clear" /\ UNCHANGED lock
     \/ Fault /\ Refuse /\ UNCHANGED <<sealed, goal>>
     \/ Fault /\ at' = "exit" /\ UNCHANGED <<sealed, goal, lock>>
  /\ UNCHANGED <<plan, files, stopMarker, tail, up, hold, appr, tree, cap, alive, proxy, client,
                 history>>

\* Seal: log-only.  A frozen tree is killed rather than left stopped for ever.
Seal ==
  /\ Ready
  /\ IF held
     THEN /\ alive' = alive \ known /\ halted' = halted \ known /\ known' = {}
          /\ marker' = FALSE /\ DropOwners /\ held' = FALSE /\ own' = {}
     ELSE UNCHANGED <<alive, halted, known, files, held, own>>
  /\ at' = "exit"
  /\ \/ Sound /\ sealed' = "seal" /\ UNCHANGED lapses
     \/ Fault /\ lapses' = (IF held THEN Rob ELSE lapses) /\ UNCHANGED sealed
  /\ UNCHANGED <<plan, stopMarker, tail, up, unsure, appr, stable, oper, lock, proxy, client,
                 crashes>>

--------------------------------------------------------------------------------
(* death, and the daemon started next *)

\* What the daemon's memory holds when nothing runs.
Forget ==
  /\ up' = FALSE /\ held' = FALSE /\ own' = {} /\ unsure' = FALSE /\ appr' = FALSE
  /\ known' = {} /\ stable' = FALSE /\ at' = "idle" /\ cap' = None /\ goal' = "none"
  /\ lock' = IF lock = "daemon" THEN "free" ELSE lock
  /\ client' = [c \in Caps |-> IF client[c] = "waiting" THEN "done" ELSE client[c]]

\* The steps that write the owners file, and those of them that write the marker first.
MarksFirst ==
  \/ at \in {"h_over", "h_mark", "s_hold", "a_write"}
  \/ at = "f_write" /\ HasRecord
  \/ at = "back" /\ own \cap Caps # {}
WritesOwners ==
  \/ MarksFirst
  \/ at \in {"p_owners", "r_owners", "c_owners"}
  \/ at = "back" /\ own # {}
  \/ at = "idle" /\ held /\ \E c \in Caps : client[c] \in {"new", "capturing"}

\* A death in the middle of a write leaves the file cut short.
Crash ==
  /\ up /\ faults + crashes < MaxTrouble /\ crashes' = crashes + 1 /\ Forget
  /\ lapses' = IF at \in {"l_confirm", "l_thaw", "back_thaw"} /\ intent = "none"
               THEN lapses \cup {"cut"} ELSE lapses
  /\ \/ UNCHANGED files
     \/ MarksFirst /\ marker' = TRUE /\ UNCHANGED owners
     \/ WritesOwners /\ marker' = (marker \/ MarksFirst) /\ TornOwners
  /\ UNCHANGED <<plan, stopMarker, log, halted, alive, proxy, faults>>

\* The log is sealed, or the daemon could not start.
Exit ==
  /\ up /\ at = "exit" /\ Forget
  /\ UNCHANGED <<plan, files, stopMarker, log, halted, alive, proxy, faults, history>>

Restart ==
  /\ ~up /\ sealed = "no" /\ up' = TRUE /\ at' = "boot"
  /\ UNCHANGED <<plan, files, stopMarker, log, hold, appr, tree, oper, lock, alive, proxy, client,
                 faults, history>>

\* Mutant: the owners read back forget the stop marker.
RecordedForgetful == (IF kept THEN file ELSE IF marker THEN {"user"} ELSE {}) \ Dead
\* Who the previous daemon recorded as holding the session.
Recorded ==
  ((IF kept THEN file ELSE IF marker THEN {"user"} ELSE {}) \ Dead)
    \cup (IF stopMarker THEN {"stop"} ELSE {})

\* An owners file nobody can read: the start is refused before anything is adopted.
BootRefuse ==
  /\ at = "boot" /\ torn /\ at' = "exit"
  /\ \/ intent \in {"pause", "capture"}
     \/ intent \in {"stop", "none"} /\ marker
  /\ UNCHANGED <<plan, files, stopMarker, log, up, hold, appr, tree, oper, lock, alive, proxy,
                 client, faults, history>>

\* Mutant: a session without a marker is served whatever its intent says.
BootServeUnmarked ==
  /\ at = "boot" /\ ~marker /\ at' = "idle"
  /\ UNCHANGED <<plan, files, stopMarker, log, up, hold, appr, tree, oper, lock, alive, proxy,
                 client, faults, history>>
\* reconcile_lifecycle: what the intent and the marker ask the new daemon to do first.
BootServe ==
  /\ at = "boot" /\ intent = "none" /\ ~marker /\ at' = "idle"
  /\ UNCHANGED <<plan, files, stopMarker, log, up, hold, appr, tree, oper, lock, alive, proxy,
                 client, faults, history>>

BootStop ==
  /\ at = "boot" /\ intent = "stop" /\ goal' = "boot"
  /\ IF marker THEN ~torn /\ at' = "a_freeze" /\ own' = Recorded \cup {"stop"}
               ELSE at' = "s_intent" /\ UNCHANGED own
  /\ UNCHANGED <<plan, files, stopMarker, log, up, held, unsure, appr, tree, cap, lock, alive,
                 proxy, client, faults, history>>

BootAdopt ==
  /\ at = "boot" /\ ~torn /\ at' = "a_freeze" /\ goal' = "boot"
  /\ \/ intent = "pause" /\ own' = Recorded \cup {"user"} /\ UNCHANGED lapses
     \/ intent = "capture" /\ own' = Recorded \ {intentCap} /\ own' # {} /\ lapses' = Rob
     \/ intent = "none" /\ marker /\ own' = Recorded /\ own' # {} /\ UNCHANGED lapses
  /\ UNCHANGED <<plan, files, stopMarker, log, up, held, unsure, appr, tree, cap, lock, alive,
                 proxy, client, faults, crashes>>

AdoptFreeze ==
  /\ Step("a_freeze", "a_write") /\ Take /\ Freeze
  /\ UNCHANGED <<plan, files, stopMarker, log, up, hold, appr, oper, alive, proxy, client, faults,
                 history>>

AdoptWrite ==
  /\ at = "a_write"
  /\ \/ /\ Sound /\ marker' = TRUE /\ PutOwners(own) /\ appr' = TRUE
        /\ at' = "a_record" /\ UNCHANGED lock
     \/ Fault /\ FilesLost /\ Refuse /\ UNCHANGED appr
  /\ UNCHANGED <<plan, stopMarker, log, up, hold, tree, oper, alive, proxy, client, history>>

\* One record, unless the log already carries the hold and the proxy confirms it.
AdoptRecord ==
  LET confirmed == (stable \/ Settled(halted)) /\ proxy
      silent == (HasRecord \/ intent = "stop") /\ proxy
  IN
  /\ at = "a_record"
  /\ \/ /\ Sound /\ held' = TRUE /\ unsure' = (~confirmed \/ tail = "unsettled")
        /\ tail' = IF silent THEN tail ELSE IF confirmed THEN "paused" ELSE "unsettled"
        /\ IF intent = "stop" THEN at' = "s_intent" /\ lock' = "free"
                              ELSE at' = "clear" /\ UNCHANGED lock
     \/ Fault /\ ~silent /\ Refuse /\ UNCHANGED <<held, unsure, tail>>
  /\ UNCHANGED <<plan, files, stopMarker, sealed, up, own, appr, tree, oper, alive, proxy, client,
                 history>>

\* An interrupted resume: whatever is frozen is taken as the user's and released.
BootResume ==
  /\ Step("boot", "f_write") /\ intent = "resume" /\ Take /\ Freeze
  /\ goal' = "boot" /\ own' = {"user"} /\ unsure' = FALSE /\ lapses' = Rob
  /\ UNCHANGED <<plan, files, stopMarker, log, up, held, appr, cap, alive, proxy, client, faults,
                 crashes>>

FinishResume ==
  /\ at = "f_write"
  /\ \/ /\ HasRecord /\ Sound /\ marker' = TRUE /\ PutOwners({"user"})
        /\ appr' = TRUE /\ held' = TRUE /\ at' = "l_marker" /\ UNCHANGED <<own, lock>>
     \/ /\ HasRecord /\ Fault /\ FilesLost /\ Refuse
        /\ UNCHANGED <<appr, held, own>>
     \/ /\ ~HasRecord /\ ClearMarker /\ appr' = FALSE /\ own' = {}
        /\ at' = "back_thaw" /\ UNCHANGED <<owners, held, lock>>
  /\ UNCHANGED <<plan, stopMarker, log, up, unsure, tree, oper, alive, proxy, client, history>>

\* A hold no owner remains for, or one a capture was still taking.
BootOrphan ==
  /\ Step("boot", "o_write") /\ ~torn /\ Take /\ Freeze /\ goal' = "boot" /\ unsure' = FALSE
  /\ \/ intent = "capture" /\ Recorded \ {intentCap} = {} /\ lapses' = Rob
     \/ intent = "none" /\ marker /\ Recorded = {} /\ UNCHANGED lapses
  /\ UNCHANGED <<plan, files, stopMarker, log, up, held, own, appr, cap, alive, proxy, client,
                 faults, crashes>>

ReleaseOrphan ==
  /\ at = "o_write"
  /\ \/ /\ HasRecord /\ appr' = TRUE /\ held' = TRUE /\ at' = "l_marker"
        /\ Sound /\ UNCHANGED marker
     \/ /\ ~HasRecord /\ appr' = FALSE /\ ClearMarker /\ at' = "back_thaw"
        /\ UNCHANGED held
  /\ UNCHANGED <<plan, owners, stopMarker, log, up, own, unsure, tree, oper, lock, alive,
                 proxy, client, history>>

--------------------------------------------------------------------------------
(* launches, the processes, the proxy *)

\* A launch reads the session directory under the lock it keeps until it has spawned.
AdmitsLaunch == Marks = "running"

LaunchAdmit ==
  /\ lock = "free" /\ AdmitsLaunch /\ lock' = "launch"
  /\ UNCHANGED <<plan, files, stopMarker, log, up, hold, appr, tree, at, oper, alive, proxy,
                 client, faults, history>>

LaunchSpawn ==
  /\ lock = "launch" /\ lock' = "free"
  /\ alive' = alive \/ \E p \in Procs \ alive : alive' = alive \cup {p}
  /\ UNCHANGED <<plan, files, stopMarker, log, up, hold, appr, tree, at, oper, proxy, client,
                 faults, history>>

Fork ==
  /\ alive \ halted # {} /\ \E p \in Procs \ alive : alive' = alive \cup {p}
  /\ UNCHANGED <<plan, files, stopMarker, log, up, hold, appr, tree, at, oper, lock, proxy, client,
                 faults, history>>

ProcessExit ==
  /\ \E p \in alive \ halted : alive' = alive \ {p} /\ known' = known \ {p}
  /\ UNCHANGED <<plan, files, stopMarker, log, up, hold, appr, stable, halted, at, oper, lock,
                 proxy, client, faults, history>>

ProxyPoll ==
  /\ proxy # marker /\ proxy' = marker
  /\ UNCHANGED <<plan, files, stopMarker, log, up, hold, appr, tree, at, oper, lock, alive, client,
                 faults, history>>

--------------------------------------------------------------------------------
Daemon ==
  \/ PauseFreeze \/ PauseMark \/ PauseOwners \/ PauseRecord \/ TakeBack \/ TakeBackThaw
  \/ ClearIntent
  \/ ResumeOwners \/ ResumeRecord
  \/ ReleaseMarker \/ ReleaseConfirm \/ ReleaseThaw \/ ReleaseRecord
  \/ CaptureFreeze \/ CaptureMark \/ CaptureOwners \/ CaptureRecord
  \/ HoldStopMarker \/ HoldOver \/ HoldFreeze \/ HoldMark \/ HoldRecord
  \/ StopIntent \/ StopMark \/ StopClose \/ StopKill \/ StopConfirm \/ StopHold \/ StopRecord
  \/ StopSeal
  \/ Exit
  \/ BootRefuse \/ BootServe \/ BootStop \/ BootAdopt \/ AdoptFreeze \/ AdoptWrite \/ AdoptRecord
  \/ BootResume \/ FinishResume \/ BootOrphan \/ ReleaseOrphan

Requests ==
  \/ BeginPause \/ BeginResume \/ BeginHoldForStop \/ BeginStop \/ Seal
  \/ \E c \in Caps : JoinCapture(c) \/ BeginCapture(c) \/ ReleaseCapture(c) \/ ClientDie(c)

Next ==
  \/ Daemon \/ Requests \/ Crash \/ Restart
  \/ LaunchAdmit \/ LaunchSpawn \/ Fork \/ ProcessExit \/ ProxyPoll

Spec == Init /\ [][Next]_vars

\* The daemon's thread and the launcher's keep running; nobody need start a daemon again.
FairSpec == Spec /\ WF_vars(Daemon) /\ WF_vars(LaunchSpawn)

--------------------------------------------------------------------------------
(* Properties *)

TypeOK ==
  /\ intent \in {"none", "pause", "resume", "capture", "stop"} /\ intentCap \in Caps \cup {None}
  /\ {marker, stopMarker, kept, torn, up, held, unsure, appr, stable, proxy} \subseteq BOOLEAN
  /\ file \subseteq Owners /\ own \subseteq Owners
  /\ tail \in {"running", "paused", "unsettled"} /\ sealed \in {"no", "stop", "seal"}
  /\ at \in Steps /\ cap \in Caps \cup {None}
  /\ goal \in {"none", "resume", "release", "capture", "refuse", "nothing", "boot", "end"}
  /\ lock \in {"free", "daemon", "launch"}
  /\ alive \subseteq Procs /\ halted \subseteq alive /\ known \subseteq Procs
  /\ client \in [Caps -> {"new", "waiting", "capturing", "done", "dead"}]
  /\ lapses \subseteq {"cut", "robbed", "unmarked", "stuck", "half"}
  /\ faults \in Nat /\ crashes \in Nat /\ faults + crashes <= MaxTrouble

\* A log a stop sealed belongs to a session with no process left and no launch still to spawn
\* one: daemon.rs stop, end_workloads.
StopEndsAll == sealed = "stop" => alive = {} /\ lock # "launch"

\* While a client captures under a hold it was granted, every process of the session is
\* stopped, unless a restarted daemon gave its hold up: daemon.rs hold_for_capture.
CaptureQuiescent ==
  (\E c \in Caps : client[c] = "capturing") /\ lapses \cap {"robbed", "unmarked"} = {}
    => alive \subseteq halted

\* The hold of a capture, while no write fails, ends by that capture's release or its death
\* and by nothing else: session.rs hold_for_capture.
CaptureHoldKept ==
  (\E c \in Caps : client[c] = "capturing") /\ faults = 0 => alive \subseteq halted

\* A daemon that serves and holds nothing leaves nothing stopped, unless a stop has begun, the
\* daemon before it died while it released a capture's hold, or a release by the freezer did
\* not reach every process: daemon.rs reconcile_lifecycle, pause.rs thaw.
NothingStranded ==
  up /\ at = "idle" /\ ~held /\ sealed = "no" /\ ~stopMarker
    => halted = {} \/ lapses \cap {"cut", "unmarked", "stuck"} # {}

\* No daemon serves with the session's processes stopped and no hold to release them by:
\* pause.rs, CaptureFreeze's drop.
FrozenReleasable == up /\ at = "idle" /\ ~held /\ sealed = "no" /\ ~stopMarker => halted = {}

\* The thaw of a release or of an undone hold, over the marker a refused stop left.
Yields == "half" \in lapses /\ at \in {"l_thaw", "back_thaw"}

\* Once a stop has begun nothing stopped runs again, except by the hold for a stop that could
\* not write its marker; a stop that was refused and left its stop marker behind yields to the
\* resume of an unsettled pause, the last capture's release and the undoing of a pause over a
\* hold nobody owns, to nothing else: daemon.rs resume, recorded_holders.
StopIsFinal ==
  [][stopMarker /\ at # "h_mark" /\ ~Yields => halted \cap alive' \subseteq halted']_vars

\* Once a stop has begun no resume lets the session run: pause.rs, the stop marker.
StopNeverYields == [][stopMarker /\ at # "h_mark" => halted \cap alive' \subseteq halted']_vars

\* Whatever a death or a failing write leaves of the owners file, the next daemon can start:
\* daemon.rs reconcile_lifecycle.
OwnersReadable == at = "boot" => ~torn

\* A session the user paused runs again only by a resume: no capture's release, failed pause
\* or restart lets it: daemon.rs release_capture, take_back_user_layer, adopt_hold.
UserPauseStands ==
  [][(\E p \in halted : p \in alive' \ halted') /\ "user" \in own => intent = "resume"]_vars

\* Every operation and every start comes to its end, the session lock dropped: the daemon
\* serves again, or is down.
OperationsEnd == at # "idle" ~> at = "idle" /\ lock # "daemon"

================================================================================
