------------------------- MODULE SnapshotGcProofs -------------------------
(***************************************************************************)
(* What holds of SnapshotGc for any snapshots, blobs, captures and sweeps  *)
(* and any bounds.  GcInv carries the argument: a capture that no sweep    *)
(* raced runs while none is past its lease check (CaptureInv), so what it  *)
(* put stays; a root that a sweep does not know of is young at the sweep's *)
(* time (RootInv), and a manifest in a plan is too old to become one       *)
(* (DoomedInv); a blob in a plan goes after every manifest naming it       *)
(* (OrderInv).                                                             *)
(***************************************************************************)
EXTENDS SnapshotGc, TLAPS

LEMMA ObjectsAre ==
  /\ \A s \in Snapshots : Manifest(s) \in Objects /\ Meta(s) \in Objects
  /\ \A b \in Blobs : Blob(b) \in Objects
BY DEF Manifest, Meta, Blob, Objects

LEMMA DeadStored == \A g \in Sweeps, listed \in SUBSET stored : Dead(g, listed) \subseteq stored
BY DEF Dead

\* The records that steps build have their types.
LEMMA WroteRec ==
  ASSUME NEW r \in CaptureRec, NEW t \in 0..MaxTime
  PROVE  [r EXCEPT !.pc = "meta", !.wrote = t] \in CaptureRec
BY DEF CaptureRec, Steps

LEMMA NoSweepRec == NoSweep \in SweepRec
BY TimeAssumption DEF NoSweep, SweepRec

LEMMA PlannedRec ==
  ASSUME NEW r \in SweepRec, NEW d \in SUBSET Objects
  PROVE  [r EXCEPT !.pc = "apply", !.plan = d] \in SweepRec
BY DEF SweepRec

LEMMA RootedRec ==
  ASSUME NEW t \in 0..MaxTime, NEW r \in SUBSET Snapshots
  PROVE  [NoSweep EXCEPT !.pc = "lease", !.now = t, !.roots = r] \in SweepRec
BY DEF SweepRec, NoSweep

LEMMA RecheckedRec ==
  ASSUME NEW r \in SweepRec, NEW o \in Objects
  PROVE  [r EXCEPT !.pc = "remove", !.plan = r.plan \ {o}, !.next = o] \in SweepRec
BY DEF SweepRec

LEMMA RemovedRec ==
  ASSUME NEW r \in SweepRec
  PROVE  [r EXCEPT !.pc = "apply", !.next = None] \in SweepRec
BY DEF SweepRec

\* Every variable keeps its shape, and a capture that is writing holds an unexpired lease
\* (LeaseGuard), through every step, failure and death.
THEOREM TypeCorrect == Spec => []TypeOK
<1> USE StoreAssumption, TimeAssumption, NoneAssumption, ObjectsAre
<1>1. Init => TypeOK
  BY DEF Init, TypeOK, StoreOK, CaptureOK, RootsOK, SweepOK, NoCapture, NoSweep, Capturing, CaptureRec, SweepRec, Steps
<1>2. TypeOK /\ [Next]_vars => TypeOK'
  <2> SUFFICES ASSUME TypeOK, [Next]_vars PROVE TypeOK'
    OBVIOUS
  <2> USE DEF TypeOK, StoreOK, CaptureOK, RootsOK, SweepOK, Capturing, store, roots, skips
  <2>1. CASE UNCHANGED vars
    BY <2>1 DEF vars
  <2>2. CASE Tick
    BY <2>2 DEF Tick, CaptureRec, SweepRec, Steps
  <2>3. ASSUME NEW c \in Captures, Capture(c) PROVE TypeOK'
    <3>1. ASSUME NEW s \in Snapshots, Acquire(c, s) PROVE TypeOK'
      BY <3>1 DEF Acquire, CaptureRec, SweepRec, Steps
    <3>2. ASSUME NEW b \in Blobs, PutBlob(c, b) PROVE TypeOK'
      <4>1. StoreOK'
        BY <3>2 DEF PutBlob, Write, CaptureRec, SweepRec, Steps
      <4>2. CaptureOK'
        BY <3>2 DEF PutBlob, Write, CaptureRec, SweepRec, Steps
      <4>3. RootsOK'
        BY <3>2 DEF PutBlob, Write, CaptureRec, SweepRec, Steps
      <4>4. SweepOK'
        BY <3>2 DEF PutBlob, Write, CaptureRec, SweepRec, Steps
      <4> QED
        BY <4>1, <4>2, <4>3, <4>4
    <3>3. CASE FindManifest(c)
      BY <3>3 DEF FindManifest, CaptureRec, SweepRec, Steps
    <3>4. CASE WriteManifest(c)
      <4>1. StoreOK'
        BY <3>4 DEF WriteManifest, Write
      <4>2. CaptureOK'
        <5>1. cap'[c] \in CaptureRec
          BY WroteRec, <3>4 DEF WriteManifest, Write
        <5>2. cap' = [cap EXCEPT ![c] = cap'[c]]
          BY <3>4 DEF WriteManifest, Write
        <5> QED
          BY <3>4, <5>1, <5>2 DEF WriteManifest, Write
      <4>3. RootsOK'
        BY <3>4 DEF WriteManifest, Write
      <4>4. SweepOK'
        BY <3>4 DEF WriteManifest, Write
      <4> QED
        BY <4>1, <4>2, <4>3, <4>4
    <3>5. CASE TouchManifest(c)
      <4>1. StoreOK'
        BY <3>5 DEF TouchManifest
      <4>2. CaptureOK'
        <5>1. cap'[c] \in CaptureRec
          BY WroteRec, <3>5 DEF TouchManifest
        <5>2. cap' = [cap EXCEPT ![c] = cap'[c]]
          BY <3>5 DEF TouchManifest
        <5> QED
          BY <3>5, <5>1, <5>2 DEF TouchManifest
      <4>3. RootsOK'
        BY <3>5 DEF TouchManifest
      <4>4. SweepOK'
        BY <3>5 DEF TouchManifest
      <4> QED
        BY <4>1, <4>2, <4>3, <4>4
    <3>6. CASE PutMeta(c)
      <4>1. StoreOK'
        BY <3>6 DEF PutMeta, Write
      <4>2. CaptureOK'
        <5>1. cap' \in [Captures -> CaptureRec]
          BY <3>6 DEF PutMeta, CaptureRec, Steps
        <5>2. \A d \in Captures : cap'[d].snap = cap[d].snap /\ (cap'[d].pc = cap[d].pc \/ cap[d].pc = "meta")
          BY <3>6 DEF PutMeta, CaptureRec
        <5> QED
          BY <5>1, <5>2, <3>6 DEF PutMeta
      <4> QED
        BY <4>1, <4>2, <3>6 DEF PutMeta
    <3>7. CASE Release(c)
      <4>1. CaptureOK'
        BY <3>7 DEF Release, DropLease, CaptureRec, Steps
      <4> QED
        BY <4>1, <3>7 DEF Release
    <3>8. CASE Fail(c)
      BY <3>8 DEF Fail, DropLease, NoCapture, CaptureRec, SweepRec, Steps
    <3>9. CASE Record(c)
      BY <3>9 DEF Record, CaptureRec, SweepRec, Steps
    <3>10. CASE Forget(c)
      BY <3>10 DEF Forget, NoCapture, CaptureRec, SweepRec, Steps
    <3> QED
      BY <2>3, <3>1, <3>2, <3>3, <3>4, <3>5, <3>6, <3>7, <3>8, <3>9, <3>10 DEF Capture
  <2>4. ASSUME NEW s \in Snapshots, Keeper(s) PROVE TypeOK'
    <3>1. CASE Unroot(s)
      BY <3>1 DEF Unroot, CaptureRec, SweepRec, Steps
    <3>2. CASE CheckKeep(s)
      BY <3>2 DEF CheckKeep, CaptureRec, SweepRec, Steps
    <3>3. CASE MarkKept(s)
      BY <3>3 DEF MarkKept, CaptureRec, SweepRec, Steps
    <3>4. CASE UnmarkKept(s)
      BY <3>4 DEF UnmarkKept, CaptureRec, SweepRec, Steps
    <3> QED
      BY <2>4, <3>1, <3>2, <3>3, <3>4 DEF Keeper
  <2>5. ASSUME NEW g \in Sweeps, Sweep(g) PROVE TypeOK'
    <3>1. ASSUME NEW u \in SUBSET Snapshots, Roots(g, u) PROVE TypeOK'
      <4>1. StoreOK'
        BY <3>1 DEF Roots, NoSweep, CaptureRec, SweepRec, Steps
      <4>2. CaptureOK'
        BY <3>1 DEF Roots, NoSweep, CaptureRec, SweepRec, Steps
      <4>3. RootsOK'
        BY <3>1 DEF Roots, NoSweep, CaptureRec, SweepRec, Steps
      <4>4. SweepOK'
        <5>1. [NoSweep EXCEPT !.pc = "lease", !.now = now, !.roots = (rooted \cup kept) \ u] \in SweepRec
          BY RootedRec
        <5>2. /\ sweep' \in [Sweeps -> SweepRec]
              /\ \A h \in Sweeps : sweep'[h] = sweep[h] \/ sweep'[h].pc = "lease"
          BY <3>1, <5>1 DEF Roots, NoSweep
        <5>3. begun' \in [captures : 0..MaxCaptures, sweeps : 0..MaxSweeps, keeps : 0..MaxKeeps]
          BY <3>1 DEF Roots
        <5> QED
          BY <5>2, <5>3
      <4> QED
        BY <4>1, <4>2, <4>3, <4>4
    <3>2. CASE CheckLease(g)
      BY <3>2 DEF CheckLease, NoSweep, CaptureRec, SweepRec, Steps
    <3>3. ASSUME NEW listed \in SUBSET stored, Plan(g, listed) PROVE TypeOK'
      <4>1. StoreOK' /\ CaptureOK'
        BY <3>3 DEF Plan
      <4>2. RootsOK'
        BY <3>3 DEF Plan, Unrooted
      <4>3. \/ sweep' = [sweep EXCEPT ![g] = NoSweep]
            \/ sweep' = [sweep EXCEPT ![g] = [@ EXCEPT !.pc = "apply", !.plan = Dead(g, listed)]]
        BY <3>3 DEF Plan
      <4>4. [sweep[g] EXCEPT !.pc = "apply", !.plan = Dead(g, listed)] \in SweepRec
        BY DeadStored, PlannedRec
      <4>5. SweepOK'
        <5>1. sweep' \in [Sweeps -> SweepRec]
          BY <4>3, <4>4, NoSweepRec
        <5>2. \A h \in Sweeps : sweep'[h] = sweep[h] \/ sweep'[h].pc \in {"idle", "apply"}
          <6>1. NoSweep.pc = "idle"
            BY DEF NoSweep
          <6>2. [sweep[g] EXCEPT !.pc = "apply", !.plan = Dead(g, listed)].pc = "apply"
            BY DEF SweepRec
          <6> QED
            BY <4>3, <6>1, <6>2
        <5> QED
          BY <5>1, <5>2, <3>3 DEF Plan
      <4> QED
        BY <4>1, <4>2, <4>5
    <3>4. ASSUME NEW o \in Objects, Recheck(g, o) PROVE TypeOK'
      <4>1. StoreOK'
        BY <3>4 DEF Recheck, NoSweep
      <4>2. CaptureOK'
        BY <3>4 DEF Recheck, NoSweep
      <4>3. RootsOK'
        BY <3>4 DEF Recheck, NoSweep
      <4>4. SweepOK'
        <5>1. sweep'[g] \in SweepRec
          <6>1. sweep[g] \in SweepRec
            OBVIOUS
          <6>2. \/ sweep'[g] = NoSweep
                \/ sweep'[g] = [sweep[g] EXCEPT !.pc = "remove", !.plan = sweep[g].plan \ {o}, !.next = o]
            BY <3>4 DEF Recheck
          <6>3. [sweep[g] EXCEPT !.pc = "remove", !.plan = sweep[g].plan \ {o}, !.next = o] \in SweepRec
            BY <6>1, RecheckedRec
          <6> QED
            BY <6>2, <6>3, NoSweepRec
        <5>2. sweep' = [sweep EXCEPT ![g] = sweep'[g]]
          BY <3>4 DEF Recheck, NoSweep
        <5> QED
          BY <3>4, <5>1, <5>2 DEF Recheck, NoSweep
      <4> QED
        BY <4>1, <4>2, <4>3, <4>4
    <3>5. CASE Remove(g)
      <4>1. StoreOK'
        BY <3>5 DEF Remove
      <4>2. CaptureOK'
        BY <3>5 DEF Remove
      <4>3. RootsOK'
        BY <3>5 DEF Remove
      <4>4. SweepOK'
        <5>1. sweep'[g] \in SweepRec
          BY RemovedRec, <3>5 DEF Remove
        <5>2. sweep' = [sweep EXCEPT ![g] = sweep'[g]]
          BY <3>5 DEF Remove
        <5> QED
          BY <3>5, <5>1, <5>2 DEF Remove
      <4> QED
        BY <4>1, <4>2, <4>3, <4>4
    <3>6. CASE End(g)
      BY <3>6 DEF End, NoSweep, CaptureRec, SweepRec, Steps
    <3> QED
      BY <2>5, <3>1, <3>2, <3>3, <3>4, <3>5, <3>6 DEF Sweep
  <2> QED
    BY <2>1, <2>2, <2>3, <2>4, <2>5 DEF Next
<1> QED
  BY <1>1, <1>2, PTL DEF Spec

---------------------------------------------------------------------------
(* The inductive invariant *)

\* Clocks: no file, capture or sweep is ahead of the wall clock.
TimeInv ==
  /\ \A o \in Objects : mtime[o] <= now
  /\ \A c \in Captures : cap[c].wrote <= now
  /\ \A g \in Sweeps : sweep[g].now <= now

\* A capture of a snapshot that no sweep raced runs with no sweep past its lease check, so what it
\* has put or found stays.
CaptureInv ==
  \A c \in Captures : Capturing(c) /\ cap[c].snap \notin raced =>
    /\ \A g \in Sweeps : ~PastLeaseCheck(g)
    /\ \A b \in Content[cap[c].snap] \ cap[c].todo : Blob(b) \in stored
    /\ cap[c].pc # "blobs" => cap[c].todo = {}
    /\ cap[c].pc \in {"touch", "meta", "release"} => Manifest(cap[c].snap) \in stored
    /\ cap[c].pc \in {"meta", "release"} => cap[c].wrote <= mtime[Manifest(cap[c].snap)]

\* What a caller holds is as young as it thinks, or the time to record it is over.
ReturnInv ==
  \A c \in Captures : cap[c].pc = "returned" /\ cap[c].snap \notin raced =>
    IF Manifest(cap[c].snap) \in stored
    THEN cap[c].wrote <= mtime[Manifest(cap[c].snap)]
    ELSE now - cap[c].wrote >= Grace

KeepInv == \A s \in keeping \ raced : Manifest(s) \in stored

\* A root that a sweep does not know of is young at the sweep's time, or the sweep failed to read it.
RootInv ==
  \A g \in Sweeps : sweep[g].pc # "idle" =>
    /\ keeping \subseteq raced
    /\ kept \subseteq sweep[g].roots \cup raced \cup unread
    /\ \A s \in rooted \ (sweep[g].roots \cup raced \cup unread) : sweep[g].now - mtime[Manifest(s)] < Grace

Doomed(g) == sweep[g].plan \cup {sweep[g].next}

\* A manifest about to go is not a root (unless it was not read), and is too old to become one.
DoomedBy(g) ==
  sweep[g].pc \in {"apply", "remove"} =>
    \A s \in Snapshots \ raced : Manifest(s) \in Doomed(g) =>
      /\ s \notin unread => s \notin rooted \cup kept
      /\ \A c \in Captures : cap[c].pc = "returned" /\ cap[c].snap = s => sweep[g].now - cap[c].wrote >= Grace

DoomedInv == \A g \in Sweeps : DoomedBy(g)

\* Manifests that the listing showed go before the blobs they name.
OrderOf(g) ==
  /\ sweep[g].pc # "remove" => sweep[g].next = None
  /\ sweep[g].pc \notin {"apply", "remove"} => sweep[g].plan = {}
  /\ \A s \in Snapshots \ (raced \cup unlisted), b \in Blobs : b \in Content[s] /\ Manifest(s) \in stored =>
       /\ Blob(b) \in sweep[g].plan => Manifest(s) \in Doomed(g)
       /\ Blob(b) # sweep[g].next

OrderInv == \A g \in Sweeps : OrderOf(g)

GcInv ==
  /\ TimeInv /\ CaptureInv /\ ReturnInv /\ KeepInv /\ RootInv /\ DoomedInv /\ OrderInv
  /\ RootsStored /\ ManifestsWhole

LEMMA FindManifestCapture ==
  ASSUME TypeOK, GcInv, NEW c \in Captures, FindManifest(c)
  PROVE  CaptureInv'
<1> USE StoreAssumption, ObjectsAre DEF TypeOK, CaptureOK, CaptureRec, Steps, FindManifest, store, roots, skips, Capturing, PastLeaseCheck
<1>1. /\ cap'[c].snap = cap[c].snap /\ cap'[c].todo = {} /\ cap[c].todo = {}
      /\ cap'[c].pc = IF Manifest(cap[c].snap) \in stored THEN "touch" ELSE "write"
  OBVIOUS
<1>2. \A d \in Captures \ {c} : cap'[d] = cap[d]
  OBVIOUS
<1> QED
  BY <1>1, <1>2 DEF GcInv, CaptureInv, Manifest

LEMMA WriteManifestCapture ==
  ASSUME TypeOK, GcInv, NEW c \in Captures, WriteManifest(c)
  PROVE  CaptureInv' /\ ReturnInv'
<1> USE StoreAssumption, ObjectsAre DEF TypeOK, StoreOK, CaptureOK, CaptureRec, Steps, WriteManifest, Write, store, roots, skips, Capturing, PastLeaseCheck
<1>1. /\ cap'[c].snap = cap[c].snap /\ cap'[c].todo = cap[c].todo
      /\ cap'[c].pc = "meta" /\ cap'[c].wrote = now
  OBVIOUS
<1>2. \A d \in Captures \ {c} : cap'[d] = cap[d]
  OBVIOUS
<1>3. \A o \in Objects : mtime[o] <= mtime'[o]
  BY DEF GcInv, TimeInv
<1>4. mtime'[Manifest(cap[c].snap)] = now
  OBVIOUS
<1>5. \A d \in Captures : cap'[d].wrote \in Nat /\ cap'[d].wrote <= now
  BY <1>1, <1>2 DEF GcInv, TimeInv
<1>6. CaptureInv'
  BY <1>1, <1>2, <1>3, <1>4, <1>5 DEF GcInv, CaptureInv, Manifest
<1>7. ReturnInv'
  BY <1>1, <1>2, <1>3, <1>4, <1>5 DEF GcInv, ReturnInv, Manifest
<1> QED
  BY <1>6, <1>7

LEMMA TouchManifestCapture ==
  ASSUME TypeOK, GcInv, NEW c \in Captures, TouchManifest(c)
  PROVE  TimeInv' /\ CaptureInv' /\ ReturnInv' /\ RootInv'
<1> USE StoreAssumption, ObjectsAre DEF TypeOK, StoreOK, CaptureOK, CaptureRec, Steps, TouchManifest, store, roots, skips, Capturing, PastLeaseCheck
<1>1. /\ cap'[c].snap = cap[c].snap /\ cap'[c].todo = cap[c].todo
      /\ cap'[c].pc = "meta" /\ cap'[c].wrote = now
  OBVIOUS
<1>2. \A d \in Captures \ {c} : cap'[d] = cap[d]
  OBVIOUS
<1>3. \A o \in Objects : mtime[o] <= mtime'[o] /\ mtime'[o] <= now /\ mtime'[o] \in Nat
  BY DEF GcInv, TimeInv
<1>4. Manifest(cap[c].snap) \in stored => mtime'[Manifest(cap[c].snap)] = now
  OBVIOUS
<1>5. \A d \in Captures : cap'[d].wrote \in Nat /\ cap'[d].wrote <= now
  BY <1>1, <1>2 DEF GcInv, TimeInv
<1>6. CaptureInv'
  BY <1>1, <1>2, <1>3, <1>4, <1>5 DEF GcInv, CaptureInv, Manifest
<1>7. ReturnInv'
  BY <1>1, <1>2, <1>3, <1>4, <1>5 DEF GcInv, ReturnInv, Manifest
<1>8. RootInv'
  BY <1>3, TimeAssumption DEF GcInv, RootInv, RootsOK, SweepOK, SweepRec
<1>9. TimeInv'
  BY <1>3, <1>5 DEF GcInv, TimeInv
<1> QED
  BY <1>6, <1>7, <1>8, <1>9

LEMMA RecordStored ==
  ASSUME TypeOK, GcInv, NEW c \in Captures, Record(c)
  PROVE  RootsStored'
<1>1. cap[c].snap \in raced \/ Manifest(cap[c].snap) \in stored
  BY TimeAssumption DEF GcInv, ReturnInv, Record, TypeOK, StoreOK, CaptureOK, CaptureRec
<1> QED
  BY <1>1 DEF GcInv, RootsStored, Record, store, roots, skips, Manifest

LEMMA CheckLeaseOrder ==
  ASSUME TypeOK, GcInv, NEW g \in Sweeps, CheckLease(g)
  PROVE  OrderInv'
<1>1. sweep'[g].plan = {} /\ sweep'[g].next = None /\ sweep'[g].pc \in {"idle", "plan"}
  BY DEF CheckLease, NoSweep, TypeOK, SweepOK, SweepRec, GcInv, OrderInv, OrderOf
<1>2. \A h \in Sweeps \ {g} : sweep'[h] = sweep[h]
  BY DEF CheckLease, TypeOK, SweepOK
<1> QED
  BY <1>1, <1>2, NoneAssumption, ObjectsAre DEF GcInv, OrderInv, OrderOf, CheckLease, store, roots, skips, Doomed, Blob, Manifest

LEMMA PlanSweep ==
  ASSUME TypeOK, NEW g \in Sweeps, NEW listed \in SUBSET stored, Plan(g, listed)
  PROVE  /\ \/ sweep'[g] = NoSweep
            \/ /\ sweep'[g].pc = "apply" /\ sweep'[g].plan = Dead(g, listed) /\ sweep'[g].next = sweep[g].next
               /\ sweep'[g].roots = sweep[g].roots /\ sweep'[g].now = sweep[g].now
         /\ \A h \in Sweeps \ {g} : sweep'[h] = sweep[h]
<1>1. \/ sweep' = [sweep EXCEPT ![g] = NoSweep]
      \/ sweep' = [sweep EXCEPT ![g] = [@ EXCEPT !.pc = "apply", !.plan = Dead(g, listed)]]
  BY DEF Plan
<1>2. /\ sweep'[g] = NoSweep \/ sweep'[g] = [sweep[g] EXCEPT !.pc = "apply", !.plan = Dead(g, listed)]
      /\ \A h \in Sweeps \ {g} : sweep'[h] = sweep[h]
  BY <1>1 DEF TypeOK, SweepOK
<1>3. sweep[g] \in SweepRec
  BY DEF TypeOK, SweepOK
<1>4. CASE sweep'[g] = [sweep[g] EXCEPT !.pc = "apply", !.plan = Dead(g, listed)]
  <2>1. /\ sweep'[g].pc = "apply" /\ sweep'[g].plan = Dead(g, listed)
        /\ sweep'[g].next = sweep[g].next /\ sweep'[g].roots = sweep[g].roots
        /\ sweep'[g].now = sweep[g].now
    BY <1>3, <1>4 DEF SweepRec
  <2> QED
    BY <2>1, <1>2
<1> QED
  BY <1>2, <1>4

LEMMA PlanOrder ==
  ASSUME TypeOK, GcInv, NEW g \in Sweeps, NEW listed \in SUBSET stored, Plan(g, listed)
  PROVE  OrderInv' /\ DoomedInv'
<1>a. /\ \/ sweep'[g] = NoSweep
         \/ /\ sweep'[g].pc = "apply" /\ sweep'[g].plan = Dead(g, listed) /\ sweep'[g].next = sweep[g].next
            /\ sweep'[g].roots = sweep[g].roots /\ sweep'[g].now = sweep[g].now
      /\ \A h \in Sweeps \ {g} : sweep'[h] = sweep[h]
  BY PlanSweep
<1>b. UNCHANGED <<now, stored, mtime, cap, rooted, kept, keeping, raced, unread>> /\ sweep[g].pc = "plan"
  BY DEF Plan, store, roots
<1>c. /\ unlisted \subseteq unlisted'
      /\ sweep'[g] # NoSweep => \A s \in Snapshots : Manifest(s) \in stored /\ s \notin sweep[g].roots /\ s \notin unlisted' => Manifest(s) \in listed
  BY DEF Plan, Unrooted, TypeOK, SweepOK
<1>1. sweep[g].next = None
  BY <1>b DEF GcInv, OrderInv, OrderOf
<1>2. \A s \in Snapshots, b \in Blobs :
        /\ b \in Content[s] /\ Manifest(s) \in stored /\ Blob(b) \in Dead(g, listed)
        /\ sweep'[g] # NoSweep /\ s \notin unlisted'
        => Manifest(s) \in Dead(g, listed)
  <2> SUFFICES ASSUME NEW s \in Snapshots, NEW b \in Blobs, b \in Content[s], Manifest(s) \in stored,
                      Blob(b) \in Dead(g, listed), sweep'[g] # NoSweep, s \notin unlisted'
               PROVE  Manifest(s) \in Dead(g, listed)
    OBVIOUS
  <2>1. b \notin LiveBlobs(g, listed)
    BY DEF Dead, Blob
  <2>2. s \notin sweep[g].roots /\ s \notin Held(g, listed)
    BY <2>1 DEF LiveBlobs
  <2> QED
    BY <2>2, <1>c DEF Held, Dead, Unrooted, Manifest
<1>3. ASSUME NEW h \in Sweeps PROVE OrderOf(h)'
  <2>1. CASE h # g
    BY <2>1, <1>a, <1>b, <1>c DEF GcInv, OrderInv, OrderOf, Doomed, Blob, Manifest
  <2>2. CASE h = g /\ sweep'[g] = NoSweep
    BY <2>2, NoneAssumption, ObjectsAre DEF OrderOf, NoSweep, Doomed
  <2>3. CASE h = g /\ sweep'[g] # NoSweep
    BY <2>3, <1>1, <1>2, <1>a, <1>b, NoneAssumption, ObjectsAre DEF OrderOf, Doomed, Blob, Manifest
  <2> QED
    BY <2>1, <2>2, <2>3
<1>4. \A s \in Snapshots \ raced : Manifest(s) \in Dead(g, listed) =>
        /\ s \notin unread => s \notin rooted \cup kept
        /\ \A c \in Captures : cap[c].pc = "returned" /\ cap[c].snap = s => sweep[g].now - cap[c].wrote >= Grace
  <2> SUFFICES ASSUME NEW s \in Snapshots \ raced, Manifest(s) \in Dead(g, listed)
               PROVE  /\ s \notin unread => s \notin rooted \cup kept
                      /\ \A c \in Captures : cap[c].pc = "returned" /\ cap[c].snap = s => sweep[g].now - cap[c].wrote >= Grace
    OBVIOUS
  <2>1. Manifest(s) \in stored /\ s \notin sweep[g].roots /\ sweep[g].now - mtime[Manifest(s)] >= Grace
    BY DEF Dead, OldEnough, Unrooted, Manifest
  <2>2. s \notin unread => s \notin rooted \cup kept
    BY <1>b, <2>1, ObjectsAre, TimeAssumption DEF GcInv, RootInv, TypeOK, StoreOK, SweepOK, SweepRec
  <2>3. ASSUME NEW c \in Captures, cap[c].pc = "returned", cap[c].snap = s
        PROVE  sweep[g].now - cap[c].wrote >= Grace
    BY <2>1, <2>3, ObjectsAre, TimeAssumption DEF GcInv, ReturnInv, TypeOK, StoreOK, CaptureOK, CaptureRec, SweepOK, SweepRec
  <2> QED
    BY <2>2, <2>3
<1>5. ASSUME NEW h \in Sweeps PROVE DoomedBy(h)'
  <2>1. CASE h # g
    BY <2>1, <1>a, <1>b DEF GcInv, DoomedInv, DoomedBy, Doomed, Manifest
  <2>2. CASE h = g /\ sweep'[g] = NoSweep
    BY <2>2 DEF DoomedBy, NoSweep
  <2>3. CASE h = g /\ sweep'[g] # NoSweep
    BY <2>3, <1>1, <1>4, <1>a, <1>b, NoneAssumption, ObjectsAre DEF DoomedBy, Doomed, Manifest
  <2> QED
    BY <2>1, <2>2, <2>3
<1> QED
  BY <1>3, <1>5 DEF OrderInv, DoomedInv

LEMMA RecheckOrder ==
  ASSUME TypeOK, GcInv, NEW g \in Sweeps, NEW o \in Objects, Recheck(g, o)
  PROVE  OrderInv'
<1>1. \/ sweep'[g] = NoSweep
      \/ sweep'[g].pc = "remove" /\ sweep'[g].plan = sweep[g].plan \ {o} /\ sweep'[g].next = o
  BY DEF Recheck, TypeOK, SweepOK, SweepRec
<1>2. \A h \in Sweeps \ {g} : sweep'[h] = sweep[h]
  BY DEF Recheck, TypeOK, SweepOK
<1>3. sweep[g].pc = "apply" /\ sweep[g].next = None /\ o \in sweep[g].plan
  BY DEF Recheck, GcInv, OrderInv, OrderOf
<1>4. \A s \in Snapshots, b \in Blobs : o = Blob(b) => Manifest(s) \notin sweep[g].plan
  BY DEF Recheck, InTurn, Rank, Blob, Manifest
<1>5. ASSUME NEW h \in Sweeps PROVE OrderOf(h)'
  <2>1. CASE h # g
    BY <2>1, <1>2 DEF GcInv, OrderInv, OrderOf, Recheck, store, roots, skips, Doomed, Blob, Manifest
  <2>2. CASE h = g /\ sweep'[g] = NoSweep
    BY <2>2, NoneAssumption, ObjectsAre DEF OrderOf, NoSweep, Doomed
  <2>3. CASE h = g /\ sweep'[g] # NoSweep
    <3>1. ASSUME NEW s \in Snapshots \ (raced \cup unlisted), NEW b \in Blobs, b \in Content[s], Manifest(s) \in stored
          PROVE  /\ Blob(b) \in sweep[g].plan => Manifest(s) \in sweep[g].plan
                 /\ Blob(b) # o
      <4>1. Blob(b) \in sweep[g].plan => Manifest(s) \in sweep[g].plan
        BY <3>1, <1>3, NoneAssumption, ObjectsAre DEF GcInv, OrderInv, OrderOf, Doomed
      <4> QED
        BY <4>1, <1>3, <1>4
    <3> QED
      BY <3>1, <2>3, <1>1, <1>4 DEF OrderOf, Recheck, store, roots, skips, Doomed, Blob, Manifest
  <2> QED
    BY <2>1, <2>2, <2>3
<1> QED
  BY <1>5 DEF OrderInv

LEMMA RemoveSweep ==
  ASSUME TypeOK, NEW g \in Sweeps, Remove(g)
  PROVE  /\ sweep'[g].pc = "apply" /\ sweep'[g].plan = sweep[g].plan /\ sweep'[g].next = None
         /\ sweep'[g].roots = sweep[g].roots /\ sweep'[g].now = sweep[g].now
         /\ \A h \in Sweeps \ {g} : sweep'[h] = sweep[h]
         /\ sweep[g].pc = "remove" /\ sweep[g].next \in Objects
BY DEF Remove, TypeOK, SweepOK, SweepRec

LEMMA RemoveOrder ==
  ASSUME TypeOK, GcInv, NEW g \in Sweeps, Remove(g)
  PROVE  DoomedInv' /\ OrderInv'
<1>a. /\ sweep'[g].pc = "apply" /\ sweep'[g].plan = sweep[g].plan /\ sweep'[g].next = None
      /\ sweep'[g].now = sweep[g].now /\ sweep[g].pc = "remove"
      /\ \A h \in Sweeps \ {g} : sweep'[h] = sweep[h]
  BY RemoveSweep
<1>b. UNCHANGED <<now, cap, rooted, kept, keeping, raced, unread, unlisted>> /\ stored' = stored \ {sweep[g].next}
  BY DEF Remove, roots, skips
<1>1. ASSUME NEW h \in Sweeps PROVE DoomedBy(h)'
  <2>1. CASE h # g
    BY <2>1, <1>a, <1>b DEF GcInv, DoomedInv, DoomedBy, Doomed, Manifest
  <2>2. CASE h = g
    BY <2>2, <1>a, <1>b, NoneAssumption, ObjectsAre DEF GcInv, DoomedInv, DoomedBy, Doomed, Manifest
  <2> QED
    BY <2>1, <2>2
<1>2. ASSUME NEW h \in Sweeps PROVE OrderOf(h)'
  <2>1. CASE h # g
    BY <2>1, <1>a, <1>b DEF GcInv, OrderInv, OrderOf, Doomed, Manifest, Blob
  <2>2. CASE h = g
    BY <2>2, <1>a, <1>b, NoneAssumption, ObjectsAre DEF GcInv, OrderInv, OrderOf, Doomed, Manifest, Blob
  <2> QED
    BY <2>1, <2>2
<1> QED
  BY <1>1, <1>2 DEF DoomedInv, OrderInv

LEMMA PutBlobFrame ==
  ASSUME TypeOK, GcInv, NEW c \in Captures, NEW b \in Blobs, PutBlob(c, b)
  PROVE  /\ stored \subseteq stored' /\ Blob(b) \in stored'
         /\ \A s \in Snapshots : /\ Manifest(s) \in stored' <=> Manifest(s) \in stored
                                 /\ mtime'[Manifest(s)] = mtime[Manifest(s)]
         /\ \A o \in Objects : mtime'[o] <= now
         /\ \A d \in Captures \ {c} : cap'[d] = cap[d]
         /\ cap'[c].pc = "blobs" /\ cap[c].pc = "blobs" /\ cap'[c].snap = cap[c].snap
         /\ cap'[c].todo = cap[c].todo \ {b} /\ cap'[c].wrote = cap[c].wrote
<1> USE ObjectsAre DEF PutBlob, Write, store, TypeOK, StoreOK, CaptureOK, CaptureRec, Steps
<1>1. CASE Blob(b) \in stored
  BY <1>1 DEF GcInv, TimeInv
<1>2. CASE Blob(b) \notin stored
  <2>1. stored' = stored \cup {Blob(b)} /\ mtime' = [mtime EXCEPT ![Blob(b)] = now]
    BY <1>2
  <2>2. \A s \in Snapshots : Manifest(s) # Blob(b)
    BY DEF Blob, Manifest
  <2>3. \A o \in Objects : mtime'[o] <= now
    BY <2>1 DEF GcInv, TimeInv
  <2> QED
    BY <2>1, <2>2, <2>3
<1> QED
  BY <1>1, <1>2

LEMMA PutBlobSafe ==
  ASSUME TypeOK, GcInv, NEW c \in Captures, NEW b \in Blobs, PutBlob(c, b)
  PROVE  GcInv'
<1> USE PutBlobFrame, StoreAssumption DEF GcInv, roots, skips, TypeOK, CaptureOK
<1>0. UNCHANGED <<now, lease, stale, rooted, kept, keeping, sweep, begun, raced, unread, unlisted>>
  BY DEF PutBlob
<1>1. TimeInv'
  BY <1>0 DEF TimeInv
<1>2. CaptureInv'
  BY <1>0 DEF CaptureInv, Capturing, PastLeaseCheck
<1>3. ReturnInv'
  BY <1>0 DEF ReturnInv
<1>4. KeepInv'
  BY <1>0 DEF KeepInv, RootsOK
<1>5. RootInv'
  BY <1>0 DEF RootInv, RootsOK
<1>6. DoomedInv'
  BY <1>0 DEF DoomedInv, DoomedBy, Doomed
<1>7. OrderInv'
  BY <1>0 DEF OrderInv, OrderOf, Doomed
<1>8. RootsStored'
  BY <1>0 DEF RootsStored
<1>9. ManifestsWhole'
  BY <1>0 DEF ManifestsWhole
<1> QED
  BY <1>1, <1>2, <1>3, <1>4, <1>5, <1>6, <1>7, <1>8, <1>9

LEMMA TickSafe ==
  ASSUME TypeOK, GcInv, Tick
  PROVE  GcInv'
<1> USE StoreAssumption, TimeAssumption, NoneAssumption, ObjectsAre
        DEF TypeOK, StoreOK, CaptureOK, RootsOK, SweepOK, CaptureRec, SweepRec, Steps, GcInv, Manifest, Blob, Meta, Tick, store, roots, skips
<1>1. TimeInv' /\ CaptureInv' /\ ReturnInv' /\ KeepInv' /\ RootInv' /\ DoomedInv' /\ OrderInv' /\ RootsStored' /\ ManifestsWhole'
  BY DEF TimeInv, CaptureInv, Capturing, PastLeaseCheck, ReturnInv, KeepInv, RootInv, DoomedInv, DoomedBy, Doomed, OrderInv, OrderOf, RootsStored, ManifestsWhole
<1> QED
  BY <1>1

LEMMA AcquireSafe ==
  ASSUME TypeOK, GcInv, NEW c \in Captures, NEW s \in Snapshots, Acquire(c, s)
  PROVE  GcInv'
<1> USE StoreAssumption, TimeAssumption, NoneAssumption, ObjectsAre
        DEF TypeOK, StoreOK, CaptureOK, RootsOK, SweepOK, CaptureRec, SweepRec, Steps, GcInv, Manifest, Blob, Meta, Acquire, store, roots, skips
<1>1. TimeInv' /\ CaptureInv' /\ ReturnInv' /\ KeepInv' /\ RootInv' /\ DoomedInv' /\ OrderInv' /\ RootsStored' /\ ManifestsWhole'
  BY DEF TimeInv, CaptureInv, Capturing, PastLeaseCheck, ReturnInv, KeepInv, RootInv, DoomedInv, DoomedBy, Doomed, OrderInv, OrderOf, RootsStored, ManifestsWhole
<1> QED
  BY <1>1

LEMMA FindManifestSafe ==
  ASSUME TypeOK, GcInv, NEW c \in Captures, FindManifest(c)
  PROVE  GcInv'
<1> USE StoreAssumption, TimeAssumption, NoneAssumption, ObjectsAre
        DEF TypeOK, StoreOK, CaptureOK, RootsOK, SweepOK, CaptureRec, SweepRec, Steps, GcInv, Manifest, Blob, Meta, FindManifest, store, roots, skips
<1>1. TimeInv' /\ ReturnInv' /\ KeepInv' /\ RootInv' /\ DoomedInv' /\ OrderInv' /\ RootsStored' /\ ManifestsWhole'
  BY DEF TimeInv, ReturnInv, KeepInv, RootInv, DoomedInv, DoomedBy, Doomed, OrderInv, OrderOf, RootsStored, ManifestsWhole
<1>2. CaptureInv'
  BY FindManifestCapture
<1> QED
  BY <1>1, <1>2

LEMMA WriteManifestSafe ==
  ASSUME TypeOK, GcInv, NEW c \in Captures, WriteManifest(c)
  PROVE  GcInv'
<1> USE StoreAssumption, TimeAssumption, NoneAssumption, ObjectsAre
        DEF TypeOK, StoreOK, CaptureOK, RootsOK, SweepOK, CaptureRec, SweepRec, Steps, GcInv, Manifest, Blob, Meta, WriteManifest, Write, store, roots, skips
<1>1. TimeInv' /\ KeepInv' /\ DoomedInv' /\ RootsStored'
  BY DEF TimeInv, KeepInv, DoomedInv, DoomedBy, Doomed, RootsStored
<1>2. RootInv'
  BY DEF RootInv, TimeInv
<1>3. OrderInv'
  BY DEF OrderInv, OrderOf, Doomed, CaptureInv, Capturing, PastLeaseCheck
<1>4. ManifestsWhole'
  <2>1. \A s \in Snapshots : Manifest(s) \in stored' => Manifest(s) \in stored \/ s = cap[c].snap
    OBVIOUS
  <2>2. cap[c].snap \notin raced => \A b \in Content[cap[c].snap] : Blob(b) \in stored
    BY DEF CaptureInv, Capturing
  <2> QED
    BY <2>1, <2>2 DEF ManifestsWhole
<1>5. CaptureInv' /\ ReturnInv'
  BY WriteManifestCapture
<1> QED
  BY <1>1, <1>2, <1>3, <1>4, <1>5

LEMMA TouchManifestSafe ==
  ASSUME TypeOK, GcInv, NEW c \in Captures, TouchManifest(c)
  PROVE  GcInv'
<1> USE StoreAssumption, TimeAssumption, NoneAssumption, ObjectsAre
        DEF TypeOK, StoreOK, CaptureOK, RootsOK, SweepOK, CaptureRec, SweepRec, Steps, GcInv, Manifest, Blob, Meta, TouchManifest, store, roots, skips
<1>1. KeepInv' /\ DoomedInv' /\ OrderInv' /\ RootsStored' /\ ManifestsWhole'
  BY DEF KeepInv, DoomedInv, DoomedBy, Doomed, OrderInv, OrderOf, RootsStored, ManifestsWhole
<1>2. TimeInv' /\ CaptureInv' /\ ReturnInv' /\ RootInv'
  BY TouchManifestCapture
<1> QED
  BY <1>1, <1>2

LEMMA PutMetaSafe ==
  ASSUME TypeOK, GcInv, NEW c \in Captures, PutMeta(c)
  PROVE  GcInv'
<1> USE StoreAssumption, TimeAssumption, NoneAssumption, ObjectsAre
        DEF TypeOK, StoreOK, CaptureOK, RootsOK, SweepOK, CaptureRec, SweepRec, Steps, GcInv, Manifest, Blob, Meta, PutMeta, Write, store, roots, skips
<1>1. TimeInv' /\ CaptureInv' /\ ReturnInv' /\ KeepInv' /\ RootInv' /\ DoomedInv' /\ OrderInv' /\ RootsStored' /\ ManifestsWhole'
  BY DEF TimeInv, CaptureInv, Capturing, PastLeaseCheck, ReturnInv, KeepInv, RootInv, DoomedInv, DoomedBy, Doomed, OrderInv, OrderOf, RootsStored, ManifestsWhole
<1> QED
  BY <1>1

LEMMA ReleaseSafe ==
  ASSUME TypeOK, GcInv, NEW c \in Captures, Release(c)
  PROVE  GcInv'
<1> USE StoreAssumption, TimeAssumption, NoneAssumption, ObjectsAre
        DEF TypeOK, StoreOK, CaptureOK, RootsOK, SweepOK, CaptureRec, SweepRec, Steps, GcInv, Manifest, Blob, Meta, Release, DropLease, store, roots, skips
<1>1. TimeInv' /\ CaptureInv' /\ KeepInv' /\ RootInv' /\ OrderInv' /\ RootsStored' /\ ManifestsWhole'
  BY DEF TimeInv, CaptureInv, Capturing, PastLeaseCheck, KeepInv, RootInv, OrderInv, OrderOf, Doomed, RootsStored, ManifestsWhole
<1>2. ReturnInv'
  BY DEF ReturnInv, CaptureInv, Capturing, PastLeaseCheck
<1>3. DoomedInv'
  BY DEF DoomedInv, DoomedBy, Doomed, CaptureInv, Capturing, PastLeaseCheck
<1> QED
  BY <1>1, <1>2, <1>3

LEMMA FailSafe ==
  ASSUME TypeOK, GcInv, NEW c \in Captures, Fail(c)
  PROVE  GcInv'
<1> USE StoreAssumption, TimeAssumption, NoneAssumption, ObjectsAre
        DEF TypeOK, StoreOK, CaptureOK, RootsOK, SweepOK, CaptureRec, SweepRec, Steps, GcInv, Manifest, Blob, Meta, Fail, DropLease, NoCapture, store, roots, skips
<1>1. TimeInv' /\ CaptureInv' /\ ReturnInv' /\ KeepInv' /\ RootInv' /\ DoomedInv' /\ OrderInv' /\ RootsStored' /\ ManifestsWhole'
  BY DEF TimeInv, CaptureInv, Capturing, PastLeaseCheck, ReturnInv, KeepInv, RootInv, DoomedInv, DoomedBy, Doomed, OrderInv, OrderOf, RootsStored, ManifestsWhole
<1> QED
  BY <1>1

LEMMA RecordSafe ==
  ASSUME TypeOK, GcInv, NEW c \in Captures, Record(c)
  PROVE  GcInv'
<1> USE StoreAssumption, TimeAssumption, NoneAssumption, ObjectsAre
        DEF TypeOK, StoreOK, CaptureOK, RootsOK, SweepOK, CaptureRec, SweepRec, Steps, GcInv, Manifest, Blob, Meta, Record, store, roots, skips
<1>1. TimeInv' /\ CaptureInv' /\ ReturnInv' /\ KeepInv' /\ OrderInv' /\ ManifestsWhole'
  BY DEF TimeInv, CaptureInv, Capturing, PastLeaseCheck, ReturnInv, KeepInv, OrderInv, OrderOf, Doomed, ManifestsWhole
<1>2. RootInv'
  BY DEF RootInv, ReturnInv, TimeInv
<1>3. DoomedInv'
  BY DEF DoomedInv, DoomedBy, Doomed, TimeInv
<1>4. RootsStored'
  BY RecordStored
<1> QED
  BY <1>1, <1>2, <1>3, <1>4

LEMMA ForgetSafe ==
  ASSUME TypeOK, GcInv, NEW c \in Captures, Forget(c)
  PROVE  GcInv'
<1> USE StoreAssumption, TimeAssumption, NoneAssumption, ObjectsAre
        DEF TypeOK, StoreOK, CaptureOK, RootsOK, SweepOK, CaptureRec, SweepRec, Steps, GcInv, Manifest, Blob, Meta, Forget, NoCapture, store, roots, skips
<1>1. TimeInv' /\ CaptureInv' /\ ReturnInv' /\ KeepInv' /\ RootInv' /\ DoomedInv' /\ OrderInv' /\ RootsStored' /\ ManifestsWhole'
  BY DEF TimeInv, CaptureInv, Capturing, PastLeaseCheck, ReturnInv, KeepInv, RootInv, DoomedInv, DoomedBy, Doomed, OrderInv, OrderOf, RootsStored, ManifestsWhole
<1> QED
  BY <1>1

LEMMA UnrootSafe ==
  ASSUME TypeOK, GcInv, NEW s \in Snapshots, Unroot(s)
  PROVE  GcInv'
<1> USE StoreAssumption, TimeAssumption, NoneAssumption, ObjectsAre
        DEF TypeOK, StoreOK, CaptureOK, RootsOK, SweepOK, CaptureRec, SweepRec, Steps, GcInv, Manifest, Blob, Meta, Unroot, store, roots, skips
<1>1. TimeInv' /\ CaptureInv' /\ ReturnInv' /\ KeepInv' /\ RootInv' /\ DoomedInv' /\ OrderInv' /\ RootsStored' /\ ManifestsWhole'
  BY DEF TimeInv, CaptureInv, Capturing, PastLeaseCheck, ReturnInv, KeepInv, RootInv, DoomedInv, DoomedBy, Doomed, OrderInv, OrderOf, RootsStored, ManifestsWhole
<1> QED
  BY <1>1

LEMMA CheckKeepSafe ==
  ASSUME TypeOK, GcInv, NEW s \in Snapshots, CheckKeep(s)
  PROVE  GcInv'
<1> USE StoreAssumption, TimeAssumption, NoneAssumption, ObjectsAre
        DEF TypeOK, StoreOK, CaptureOK, RootsOK, SweepOK, CaptureRec, SweepRec, Steps, GcInv, Manifest, Blob, Meta, CheckKeep, store, roots, skips
<1>1. TimeInv' /\ CaptureInv' /\ ReturnInv' /\ KeepInv' /\ RootInv' /\ DoomedInv' /\ OrderInv' /\ RootsStored' /\ ManifestsWhole'
  BY DEF TimeInv, CaptureInv, Capturing, PastLeaseCheck, ReturnInv, KeepInv, RootInv, DoomedInv, DoomedBy, Doomed, OrderInv, OrderOf, RootsStored, ManifestsWhole
<1> QED
  BY <1>1

LEMMA MarkKeptSafe ==
  ASSUME TypeOK, GcInv, NEW s \in Snapshots, MarkKept(s)
  PROVE  GcInv'
<1> USE StoreAssumption, TimeAssumption, NoneAssumption, ObjectsAre
        DEF TypeOK, StoreOK, CaptureOK, RootsOK, SweepOK, CaptureRec, SweepRec, Steps, GcInv, Manifest, Blob, Meta, MarkKept, store, roots, skips
<1>1. TimeInv' /\ CaptureInv' /\ ReturnInv' /\ KeepInv' /\ RootInv' /\ OrderInv' /\ ManifestsWhole'
  BY DEF TimeInv, CaptureInv, Capturing, PastLeaseCheck, ReturnInv, KeepInv, RootInv, OrderInv, OrderOf, Doomed, ManifestsWhole
<1>2. DoomedInv'
  BY DEF DoomedInv, DoomedBy, Doomed, RootInv
<1>3. RootsStored'
  BY DEF RootsStored, KeepInv
<1> QED
  BY <1>1, <1>2, <1>3

LEMMA UnmarkKeptSafe ==
  ASSUME TypeOK, GcInv, NEW s \in Snapshots, UnmarkKept(s)
  PROVE  GcInv'
<1> USE StoreAssumption, TimeAssumption, NoneAssumption, ObjectsAre
        DEF TypeOK, StoreOK, CaptureOK, RootsOK, SweepOK, CaptureRec, SweepRec, Steps, GcInv, Manifest, Blob, Meta, UnmarkKept, store, roots, skips
<1>1. TimeInv' /\ CaptureInv' /\ ReturnInv' /\ KeepInv' /\ RootInv' /\ DoomedInv' /\ OrderInv' /\ RootsStored' /\ ManifestsWhole'
  BY DEF TimeInv, CaptureInv, Capturing, PastLeaseCheck, ReturnInv, KeepInv, RootInv, DoomedInv, DoomedBy, Doomed, OrderInv, OrderOf, RootsStored, ManifestsWhole
<1> QED
  BY <1>1

LEMMA RootsSafe ==
  ASSUME TypeOK, GcInv, NEW g \in Sweeps, NEW u \in SUBSET Snapshots, Roots(g, u)
  PROVE  GcInv'
<1> USE StoreAssumption, TimeAssumption, NoneAssumption, ObjectsAre
        DEF TypeOK, StoreOK, CaptureOK, RootsOK, SweepOK, CaptureRec, SweepRec, Steps, GcInv, Manifest, Blob, Meta, Roots, NoSweep, store, roots, skips
<1>1. TimeInv' /\ ReturnInv' /\ KeepInv' /\ RootsStored' /\ ManifestsWhole'
  BY DEF TimeInv, ReturnInv, KeepInv, RootsStored, ManifestsWhole
<1>2. CaptureInv'
  BY DEF CaptureInv, Capturing, PastLeaseCheck
<1>3. RootInv'
  BY DEF RootInv
<1>4. DoomedInv'
  BY DEF DoomedInv, DoomedBy, Doomed
<1>5. OrderInv'
  BY DEF OrderInv, OrderOf, Doomed
<1> QED
  BY <1>1, <1>2, <1>3, <1>4, <1>5

LEMMA CheckLeaseSafe ==
  ASSUME TypeOK, GcInv, NEW g \in Sweeps, CheckLease(g)
  PROVE  GcInv'
<1> USE StoreAssumption, TimeAssumption, NoneAssumption, ObjectsAre
        DEF TypeOK, StoreOK, CaptureOK, RootsOK, SweepOK, CaptureRec, SweepRec, Steps, GcInv, Manifest, Blob, Meta, CheckLease, NoSweep, store, roots, skips
<1>1. TimeInv' /\ ReturnInv' /\ KeepInv' /\ RootInv' /\ DoomedInv' /\ RootsStored' /\ ManifestsWhole'
  BY DEF TimeInv, ReturnInv, KeepInv, RootInv, DoomedInv, DoomedBy, Doomed, RootsStored, ManifestsWhole
<1>2. CaptureInv'
  BY DEF CaptureInv, Capturing, PastLeaseCheck, TimeInv, LeaseActive
<1>3. OrderInv'
  BY CheckLeaseOrder
<1> QED
  BY <1>1, <1>2, <1>3

LEMMA PlanSafe ==
  ASSUME TypeOK, GcInv, NEW g \in Sweeps, NEW listed \in SUBSET stored, Plan(g, listed)
  PROVE  GcInv'
<1> USE DEF GcInv
<1>1. /\ UNCHANGED <<now, stored, mtime, cap, rooted, kept, keeping, raced, unread>>
      /\ unlisted \subseteq unlisted' /\ sweep[g].pc = "plan"
  BY DEF Plan, store, roots
<1>2. /\ sweep'[g].now \in {0, sweep[g].now}
      /\ sweep'[g].pc \in {"idle", "apply"}
      /\ sweep'[g].pc # "idle" => sweep'[g].roots = sweep[g].roots /\ sweep'[g].now = sweep[g].now
      /\ \A h \in Sweeps \ {g} : sweep'[h] = sweep[h]
  BY PlanSweep DEF NoSweep
<1>3. TimeInv'
  BY <1>1, <1>2, TimeAssumption DEF TimeInv, TypeOK, StoreOK
<1>4. CaptureInv'
  BY <1>1, <1>2 DEF CaptureInv, Capturing, PastLeaseCheck, Manifest, Blob
<1>5. ReturnInv' /\ KeepInv' /\ RootsStored' /\ ManifestsWhole'
  BY <1>1 DEF ReturnInv, KeepInv, RootsStored, ManifestsWhole, Manifest, Blob
<1>6. RootInv'
  BY <1>1, <1>2 DEF RootInv, Manifest
<1>7. DoomedInv' /\ OrderInv'
  BY PlanOrder
<1> QED
  BY <1>3, <1>4, <1>5, <1>6, <1>7

LEMMA RecheckSafe ==
  ASSUME TypeOK, GcInv, NEW g \in Sweeps, NEW o \in Objects, Recheck(g, o)
  PROVE  GcInv'
<1> USE StoreAssumption, TimeAssumption, NoneAssumption, ObjectsAre
        DEF TypeOK, StoreOK, CaptureOK, RootsOK, SweepOK, CaptureRec, SweepRec, Steps, GcInv, Manifest, Blob, Meta, Recheck, NoSweep, store, roots, skips
<1>1. TimeInv' /\ CaptureInv' /\ ReturnInv' /\ KeepInv' /\ RootInv' /\ DoomedInv' /\ RootsStored' /\ ManifestsWhole'
  BY DEF TimeInv, CaptureInv, Capturing, PastLeaseCheck, ReturnInv, KeepInv, RootInv, DoomedInv, DoomedBy, Doomed, RootsStored, ManifestsWhole
<1>2. OrderInv'
  BY RecheckOrder
<1> QED
  BY <1>1, <1>2

LEMMA RemoveSafe ==
  ASSUME TypeOK, GcInv, NEW g \in Sweeps, Remove(g)
  PROVE  GcInv'
<1> USE StoreAssumption, TimeAssumption, NoneAssumption, ObjectsAre
        DEF TypeOK, StoreOK, CaptureOK, RootsOK, SweepOK, CaptureRec, SweepRec, Steps, GcInv, Manifest, Blob, Meta, Remove, store, roots, skips
<1>1. TimeInv' /\ CaptureInv'
  BY DEF TimeInv, CaptureInv, Capturing, PastLeaseCheck
<1>2. ReturnInv'
  BY DEF ReturnInv, DoomedInv, DoomedBy, Doomed, TimeInv
<1>3. KeepInv'
  BY DEF KeepInv, RootInv
<1>4. RootInv'
  BY DEF RootInv, DoomedInv, DoomedBy, Doomed
<1>5. RootsStored'
  BY DEF RootsStored, DoomedInv, DoomedBy, Doomed
<1>6. ManifestsWhole'
  BY DEF ManifestsWhole, OrderInv, OrderOf, Doomed
<1>7. DoomedInv' /\ OrderInv'
  BY RemoveOrder
<1> QED
  BY <1>1, <1>2, <1>3, <1>4, <1>5, <1>6, <1>7

LEMMA EndSafe ==
  ASSUME TypeOK, GcInv, NEW g \in Sweeps, End(g)
  PROVE  GcInv'
<1> USE StoreAssumption, TimeAssumption, NoneAssumption, ObjectsAre
        DEF TypeOK, StoreOK, CaptureOK, RootsOK, SweepOK, CaptureRec, SweepRec, Steps, GcInv, Manifest, Blob, Meta, End, NoSweep, store, roots, skips
<1>1. TimeInv' /\ ReturnInv' /\ KeepInv' /\ RootsStored' /\ ManifestsWhole'
  BY DEF TimeInv, ReturnInv, KeepInv, RootsStored, ManifestsWhole
<1>2. CaptureInv'
  BY DEF CaptureInv, Capturing, PastLeaseCheck
<1>3. RootInv'
  BY DEF RootInv
<1>4. DoomedInv'
  BY DEF DoomedInv, DoomedBy, Doomed
<1>5. OrderInv'
  BY DEF OrderInv, OrderOf, Doomed
<1> QED
  BY <1>1, <1>2, <1>3, <1>4, <1>5

LEMMA GcInductive == TypeOK /\ GcInv /\ [Next]_vars => GcInv'
<1> SUFFICES ASSUME TypeOK, GcInv, [Next]_vars PROVE GcInv'
  OBVIOUS
<1>1. CASE UNCHANGED vars
  BY <1>1 DEF vars, GcInv, TimeInv, CaptureInv, Capturing, PastLeaseCheck, ReturnInv, KeepInv, RootInv, DoomedInv,
    DoomedBy, OrderInv, OrderOf, Doomed, RootsStored, ManifestsWhole
<1>2. CASE Tick
  BY <1>2, TickSafe
<1>3. ASSUME NEW c \in Captures, Capture(c) PROVE GcInv'
  BY <1>3, AcquireSafe, PutBlobSafe, FindManifestSafe, WriteManifestSafe, TouchManifestSafe, PutMetaSafe,
    ReleaseSafe, FailSafe, RecordSafe, ForgetSafe DEF Capture
<1>4. ASSUME NEW s \in Snapshots, Keeper(s) PROVE GcInv'
  BY <1>4, UnrootSafe, CheckKeepSafe, MarkKeptSafe, UnmarkKeptSafe DEF Keeper
<1>5. ASSUME NEW g \in Sweeps, Sweep(g) PROVE GcInv'
  BY <1>5, RootsSafe, CheckLeaseSafe, PlanSafe, RecheckSafe, RemoveSafe, EndSafe DEF Sweep
<1> QED
  BY <1>1, <1>2, <1>3, <1>4, <1>5 DEF Next

LEMMA GcInvariant == Spec => []GcInv
<1>1. Init => GcInv
  BY StoreAssumption, TimeAssumption, NoneAssumption, ObjectsAre
  DEF Init, NoCapture, NoSweep, GcInv, TimeInv, CaptureInv, Capturing, PastLeaseCheck, ReturnInv, KeepInv, RootInv,
    DoomedInv, DoomedBy, OrderInv, OrderOf, Doomed, RootsStored, ManifestsWhole
<1> QED
  BY <1>1, GcInductive, TypeCorrect, PTL DEF Spec

\* A root that was neither captured nor kept beside a sweep, and that every sweep could read,
\* never loses its manifest, with any number of captures and sweeps, any grace period and lease
\* time, and whatever other roots and objects are passed over (gc::plan, gc::apply).
THEOREM RootsKeepManifests == Spec => []RootsStored
BY GcInvariant, PTL DEF GcInv

\* A manifest captured beside no sweep, that every sweep's listing showed or some root named, has
\* all its blobs as long as it is stored, wherever sweeps stop, whichever roots they could not read
\* and whatever else they did not list (the order of the plan, blobs held by young manifests).
THEOREM StoredMeansWhole == Spec => []ManifestsWhole
BY GcInvariant, PTL DEF GcInv
===========================================================================
