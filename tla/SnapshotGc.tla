---------------------------- MODULE SnapshotGc ----------------------------
(***************************************************************************)
(* The snapshot store of ward-snapshot (cas.rs, capture.rs, lib.rs), its   *)
(* mark-and-sweep collection (gc.rs) and the retention roots that          *)
(* ward-daemon hands it (retention.rs).  Captures, sweeps and              *)
(* `ward snapshot keep` are processes that share only the file system, so  *)
(* every system call that one of them decides on is a step.                *)
(*                                                                         *)
(* A blob, a manifest and a metadata record are files: present or not, and *)
(* with an mtime.  What a manifest lists is Content.                       *)
(***************************************************************************)
EXTENDS Integers, FiniteSets

CONSTANTS
  Snapshots,   \* manifest ids
  Blobs,       \* content digests
  Content,     \* the blobs each manifest names
  Captures,    \* processes that may be capturing
  Sweeps,      \* processes that may be running `ward snapshot gc --apply`
  Grace,       \* GcOptions::grace_period, in ticks
  Ttl,         \* DEFAULT_CAPTURE_LEASE_TTL, in ticks
  MaxTime,     \* bound: ticks of the clock
  MaxCaptures, \* bound: captures begun
  MaxSweeps,   \* bound: sweeps begun
  MaxKeeps,    \* bound: `ward snapshot keep` commands begun
  MaxSkips,    \* bound: roots one reading, or objects one listing, passes over
  None         \* no snapshot, no object

ASSUME StoreAssumption ==
  /\ Content \in [Snapshots -> SUBSET Blobs]
  /\ None \notin Snapshots

ASSUME TimeAssumption ==
  /\ Grace \in Nat
  /\ Ttl \in Nat \ {0}
  /\ {MaxTime, MaxCaptures, MaxSweeps, MaxKeeps, MaxSkips} \subseteq Nat

VARIABLES
  now,      \* the wall clock
  stored,   \* objects on disk
  mtime,    \* their modification times (0 for one that is not there)
  cap,      \* captures and what their callers still do with the result
  lease,    \* expiry of each running capture's lease file, 0 without one
  stale,    \* expiries of lease files whose holder is gone
  rooted,   \* snapshots that sessions, attempt markers or evidence name
  kept,     \* snapshots with a kept marker
  keeping,  \* snapshots that `keep` has checked and not marked yet
  sweep,    \* sweeps
  begun,    \* captures, sweeps and keeps begun so far
  raced,    \* history: snapshots captured or kept while a sweep was under way
  unread,   \* history: roots that a sweep could not read
  unlisted  \* history: snapshots whose manifest a sweep did not find in its listing

store == <<stored, mtime>>
roots == <<rooted, kept, keeping>>
skips == <<unread, unlisted>>
vars ==
  <<now, stored, mtime, cap, lease, stale, rooted, kept, keeping, sweep, begun, raced, unread,
    unlisted>>

Manifest(s) == <<"manifest", s>>
Meta(s) == <<"meta", s>>
Blob(b) == <<"blob", b>>
Objects == ({"manifest", "meta"} \X Snapshots) \cup ({"blob"} \X Blobs)

ASSUME NoneAssumption == None \notin Objects

\* Writing is a temporary file and a rename, so an object is there whole or not at all.
Write(o) ==
  /\ stored' = stored \cup {o}
  /\ mtime' = [mtime EXCEPT ![o] = now]

NoCapture == [pc |-> "idle", snap |-> None, todo |-> {}, wrote |-> 0]
NoSweep == [pc |-> "idle", now |-> 0, roots |-> {}, plan |-> {}, next |-> None]

Init ==
  /\ now = 0
  /\ stored = {}
  /\ mtime = [o \in Objects |-> 0]
  /\ cap = [c \in Captures |-> NoCapture]
  /\ lease = [c \in Captures |-> 0]
  /\ stale = {}
  /\ rooted = {} /\ kept = {} /\ keeping = {}
  /\ sweep = [g \in Sweeps |-> NoSweep]
  /\ begun = [captures |-> 0, sweeps |-> 0, keeps |-> 0]
  /\ raced = {} /\ unread = {} /\ unlisted = {}

---------------------------------------------------------------------------
(* Captures *)

Capturing(c) == cap[c].pc \notin {"idle", "returned"}

\* A sweep that has looked for leases and has not ended.
PastLeaseCheck(g) == sweep[g].pc \in {"plan", "apply", "remove"}

\* The lease file is written before anything else.
Acquire(c, s) ==
  /\ cap[c].pc = "idle"
  /\ begun.captures < MaxCaptures
  /\ begun' = [begun EXCEPT !.captures = @ + 1]
  /\ cap' = [cap EXCEPT ![c] = [pc |-> "blobs", snap |-> s, todo |-> Content[s], wrote |-> 0]]
  /\ lease' = [lease EXCEPT ![c] = now + Ttl]
  /\ raced' = IF \E g \in Sweeps : PastLeaseCheck(g) THEN raced \cup {s} ELSE raced
  /\ UNCHANGED <<now, store, stale, roots, sweep, skips>>

\* put_blob leaves a blob that is there as it is, mtime included.
PutBlob(c, b) ==
  /\ cap[c].pc = "blobs" /\ b \in cap[c].todo
  /\ cap' = [cap EXCEPT ![c].todo = @ \ {b}]
  /\ IF Blob(b) \in stored THEN UNCHANGED store ELSE Write(Blob(b))
  /\ UNCHANGED <<now, lease, stale, roots, sweep, begun, raced, skips>>

\* put_manifest looks whether the manifest is there...
FindManifest(c) ==
  /\ cap[c].pc = "blobs" /\ cap[c].todo = {}
  /\ cap' = [cap EXCEPT ![c].pc = IF Manifest(cap[c].snap) \in stored THEN "touch" ELSE "write"]
  /\ UNCHANGED <<now, store, lease, stale, roots, sweep, begun, raced, skips>>

\* ...and writes it,
WriteManifest(c) ==
  /\ cap[c].pc = "write"
  /\ Write(Manifest(cap[c].snap))
  /\ cap' = [cap EXCEPT ![c] = [@ EXCEPT !.pc = "meta", !.wrote = now]]
  /\ UNCHANGED <<now, lease, stale, roots, sweep, begun, raced, skips>>

\* Mutant of TouchManifest: a manifest that is there is left as it is.
LeaveManifest(c) ==
  /\ cap[c].pc = "touch"
  /\ cap' = [cap EXCEPT ![c] = [@ EXCEPT !.pc = "meta", !.wrote = now]]
  /\ UNCHANGED <<now, store, lease, stale, roots, sweep, begun, raced, skips>>

\* or opens it and refreshes its mtime, which does nothing to one removed once it was open
\* (one removed before that fails the capture: Fail).
TouchManifest(c) ==
  /\ cap[c].pc = "touch"
  /\ IF Manifest(cap[c].snap) \in stored
     THEN /\ mtime' = [mtime EXCEPT ![Manifest(cap[c].snap)] = now]
          /\ stored' = stored
     ELSE UNCHANGED store
  /\ cap' = [cap EXCEPT ![c] = [@ EXCEPT !.pc = "meta", !.wrote = now]]
  /\ UNCHANGED <<now, lease, stale, roots, sweep, begun, raced, skips>>

PutMeta(c) ==
  /\ cap[c].pc = "meta"
  /\ Write(Meta(cap[c].snap))
  /\ cap' = [cap EXCEPT ![c].pc = "release"]
  /\ UNCHANGED <<now, lease, stale, roots, sweep, begun, raced, skips>>

\* Dropping the guard removes the lease file; a failure to is ignored and leaves it to expire.
DropLease(c) ==
  /\ lease' = [lease EXCEPT ![c] = 0]
  /\ stale' \in {stale, stale \cup {lease[c]}}

Release(c) ==
  /\ cap[c].pc = "release"
  /\ cap' = [cap EXCEPT ![c].pc = "returned"]
  /\ DropLease(c)
  /\ UNCHANGED <<now, store, roots, sweep, begun, raced, skips>>

\* An error of any step returns early and drops the guard; a process that dies leaves the file.
Fail(c) ==
  /\ Capturing(c)
  /\ cap' = [cap EXCEPT ![c] = NoCapture]
  /\ DropLease(c)
  /\ UNCHANGED <<now, store, roots, sweep, begun, raced, skips>>

---------------------------------------------------------------------------
(* Roots *)

\* The caller names the snapshot in session.json, a log, a marker or evidence, as often as it
\* likes.  The grace period is what it has for that (gc.rs, "Grace period").
Record(c) ==
  /\ cap[c].pc = "returned"
  /\ now - cap[c].wrote < Grace
  /\ rooted' = rooted \cup {cap[c].snap}
  /\ UNCHANGED <<now, store, cap, lease, stale, kept, keeping, sweep, begun, raced, skips>>

Forget(c) ==
  /\ cap[c].pc = "returned"
  /\ cap' = [cap EXCEPT ![c] = NoCapture]
  /\ UNCHANGED <<now, store, lease, stale, roots, sweep, begun, raced, skips>>

\* A session is sealed or an attempt's marker removed.
Unroot(s) ==
  /\ s \in rooted
  /\ rooted' = rooted \ {s}
  /\ UNCHANGED <<now, store, cap, lease, stale, kept, keeping, sweep, begun, raced, skips>>

\* mark_kept loads the manifest...
CheckKeep(s) ==
  /\ s \notin kept \cup keeping
  /\ begun.keeps < MaxKeeps
  /\ begun' = [begun EXCEPT !.keeps = @ + 1]
  /\ Manifest(s) \in stored
  /\ keeping' = keeping \cup {s}
  /\ raced' = IF \E g \in Sweeps : sweep[g].pc # "idle" THEN raced \cup {s} ELSE raced
  /\ UNCHANGED <<now, store, cap, lease, stale, rooted, kept, sweep, skips>>

\* ...and then writes the marker.
MarkKept(s) ==
  /\ s \in keeping
  /\ keeping' = keeping \ {s}
  /\ kept' = kept \cup {s}
  /\ UNCHANGED <<now, store, cap, lease, stale, rooted, sweep, begun, raced, skips>>

UnmarkKept(s) ==
  /\ s \in kept
  /\ kept' = kept \ {s}
  /\ UNCHANGED <<now, store, cap, lease, stale, rooted, keeping, sweep, begun, raced, skips>>

---------------------------------------------------------------------------
(* Sweeps *)

LeaseActive(t) == (\E c \in Captures : t < lease[c]) \/ (\E e \in stale : t < e)

OldEnough(o, t) == t - mtime[o] >= Grace

\* retention::roots, against the time the command started at.  A session.json, log, attempt
\* marker or kept entry that cannot be read is passed over in silence, and what only it names
\* (u) is no root of this sweep; a directory that cannot be listed at all ends it (End).
Roots(g, u) ==
  /\ sweep[g].pc = "idle"
  /\ begun.sweeps < MaxSweeps
  /\ begun' = [begun EXCEPT !.sweeps = @ + 1]
  /\ u \subseteq rooted \cup kept /\ Cardinality(u) <= MaxSkips
  /\ sweep' = [sweep EXCEPT ![g] =
       [NoSweep EXCEPT !.pc = "lease", !.now = now, !.roots = (rooted \cup kept) \ u]]
  /\ raced' = raced \cup keeping
  /\ unread' = unread \cup u
  /\ UNCHANGED <<now, store, cap, lease, stale, roots, unlisted>>

\* gc::plan refuses to plan anything while a lease is active.
CheckLease(g) ==
  /\ sweep[g].pc = "lease"
  /\ sweep' = [sweep EXCEPT ![g] = IF LeaseActive(@.now) THEN NoSweep ELSE [@ EXCEPT !.pc = "plan"]]
  /\ UNCHANGED <<now, store, cap, lease, stale, roots, begun, raced, skips>>

Unrooted(g) == Snapshots \ sweep[g].roots

\* Listed manifests that no root names and the grace period holds, with all their blobs.
Held(g, listed) ==
  {s \in Unrooted(g) : Manifest(s) \in listed /\ ~OldEnough(Manifest(s), sweep[g].now)}

\* Mutant of LiveBlobs: a young manifest does not hold its blobs.
RootBlobs(g, listed) == UNION {Content[s] : s \in sweep[g].roots}

LiveBlobs(g, listed) == UNION {Content[s] : s \in sweep[g].roots \cup Held(g, listed)}

Dead(g, listed) ==
  {o \in listed :
     /\ OldEnough(o, sweep[g].now)
     /\ \/ o \in {"manifest", "meta"} \X Unrooted(g)
        \/ o \in {"blob"} \X (Blobs \ LiveBlobs(g, listed))}

\* A root that cannot be loaded aborts the plan; an entry, a shard or a whole category that
\* cannot be listed is passed over, so what is planned goes by the part of the store listed.
Plan(g, listed) ==
  /\ sweep[g].pc = "plan"
  /\ listed \subseteq stored /\ Cardinality(stored \ listed) <= MaxSkips
  /\ IF \A s \in sweep[g].roots : Manifest(s) \in stored
     THEN /\ sweep' = [sweep EXCEPT ![g] = [@ EXCEPT !.pc = "apply", !.plan = Dead(g, listed)]]
          /\ unlisted' = unlisted \cup {s \in Unrooted(g) : Manifest(s) \in stored \ listed}
     ELSE /\ sweep' = [sweep EXCEPT ![g] = NoSweep]
          /\ unlisted' = unlisted
  /\ UNCHANGED <<now, store, cap, lease, stale, roots, begun, raced, unread>>

\* The plan lists manifests, then metadata, then blobs.
Rank(o) == CASE o[1] = "manifest" -> 1 [] o[1] = "meta" -> 2 [] o[1] = "blob" -> 3

InTurn(g, o) == \A p \in sweep[g].plan : Rank(o) <= Rank(p)

\* apply looks for leases again before every removal, and is over when one is active.
Recheck(g, o) ==
  /\ sweep[g].pc = "apply"
  /\ o \in sweep[g].plan
  /\ InTurn(g, o)
  /\ sweep' = [sweep EXCEPT ![g] =
       IF LeaseActive(@.now) THEN NoSweep
       ELSE [@ EXCEPT !.pc = "remove", !.plan = sweep[g].plan \ {o}, !.next = o]]
  /\ UNCHANGED <<now, store, cap, lease, stale, roots, begun, raced, skips>>

\* A file that is gone already is not an error.
Remove(g) ==
  /\ sweep[g].pc = "remove"
  /\ stored' = stored \ {sweep[g].next}
  /\ mtime' = [mtime EXCEPT ![sweep[g].next] = 0]
  /\ sweep' = [sweep EXCEPT ![g] = [@ EXCEPT !.pc = "apply", !.next = None]]
  /\ UNCHANGED <<now, cap, lease, stale, roots, begun, raced, skips>>

\* The plan is done, a file cannot be read or removed, or the process dies.
End(g) ==
  /\ sweep[g].pc # "idle"
  /\ sweep' = [sweep EXCEPT ![g] = NoSweep]
  /\ UNCHANGED <<now, store, cap, lease, stale, roots, begun, raced, skips>>

---------------------------------------------------------------------------

\* No capture is expected to outlive its lease (DEFAULT_CAPTURE_LEASE_TTL).
Tick ==
  /\ now < MaxTime
  /\ \A c \in Captures : Capturing(c) => now + 1 < lease[c]
  /\ now' = now + 1
  /\ UNCHANGED <<store, cap, lease, stale, roots, sweep, begun, raced, skips>>

Capture(c) ==
  \/ \E s \in Snapshots : Acquire(c, s)
  \/ \E b \in Blobs : PutBlob(c, b)
  \/ FindManifest(c) \/ WriteManifest(c) \/ TouchManifest(c) \/ PutMeta(c)
  \/ Release(c) \/ Fail(c) \/ Record(c) \/ Forget(c)

Keeper(s) == Unroot(s) \/ CheckKeep(s) \/ MarkKept(s) \/ UnmarkKept(s)

Sweep(g) ==
  \/ \E u \in SUBSET Snapshots : Roots(g, u)
  \/ CheckLease(g)
  \/ \E listed \in SUBSET stored : Plan(g, listed)
  \/ \E o \in Objects : Recheck(g, o)
  \/ Remove(g) \/ End(g)

Next ==
  \/ Tick
  \/ \E c \in Captures : Capture(c)
  \/ \E s \in Snapshots : Keeper(s)
  \/ \E g \in Sweeps : Sweep(g)

Spec == Init /\ [][Next]_vars

---------------------------------------------------------------------------
(* Properties *)

Steps == {"blobs", "touch", "write", "meta", "release"}

CaptureRec ==
  [pc : {"idle", "returned"} \cup Steps, snap : Snapshots \cup {None}, todo : SUBSET Blobs,
   wrote : 0..MaxTime]

SweepRec ==
  [pc : {"idle", "lease", "plan", "apply", "remove"}, now : 0..MaxTime, roots : SUBSET Snapshots,
   plan : SUBSET Objects, next : Objects \cup {None}]

StoreOK ==
  /\ now \in 0..MaxTime
  /\ stored \subseteq Objects
  /\ mtime \in [Objects -> 0..MaxTime]

CaptureOK ==
  /\ cap \in [Captures -> CaptureRec]
  /\ lease \in [Captures -> 0..MaxTime + Ttl]
  /\ stale \subseteq 0..MaxTime + Ttl
  /\ \A c \in Captures : cap[c].pc # "idle" => cap[c].snap \in Snapshots
  /\ \A c \in Captures : Capturing(c) => now < lease[c]

RootsOK ==
  /\ rooted \subseteq Snapshots
  /\ kept \subseteq Snapshots
  /\ keeping \subseteq Snapshots
  /\ raced \subseteq Snapshots
  /\ unread \subseteq Snapshots
  /\ unlisted \subseteq Snapshots

SweepOK ==
  /\ sweep \in [Sweeps -> SweepRec]
  /\ begun \in [captures : 0..MaxCaptures, sweeps : 0..MaxSweeps, keeps : 0..MaxKeeps]
  /\ \A g \in Sweeps : sweep[g].pc = "remove" => sweep[g].next \in Objects

\* Shapes; and a capture that is writing holds a lease that has not expired, which is what it
\* relies on (LeaseGuard::acquire_capture).
TypeOK == StoreOK /\ CaptureOK /\ RootsOK /\ SweepOK

\* Whatever sweeps run and wherever they stop, a snapshot that a session, a marker, evidence or
\* a kept marker names still has its manifest, unless it was captured or kept while a sweep was
\* under way or a sweep could not read what names it (gc::plan with retention::roots).
RootsStored == \A s \in (rooted \cup kept) \ (raced \cup unread) : Manifest(s) \in stored

\* A manifest in the store, rooted or not, has every blob it names, at every step of a sweep and
\* after one that stopped half way, unless it was captured beside a sweep or a sweep's listing
\* did not show it (the plan's order, and blobs held with a young manifest).
ManifestsWhole ==
  \A s \in Snapshots \ (raced \cup unlisted) :
    Manifest(s) \in stored => \A b \in Content[s] : Blob(b) \in stored

(* Not so, and in no configuration *)

\* gc.rs: a lease acquired after plan ran stops the rest of the sweep rather than racing a
\* capture that starts partway through; so what a capture returned and its caller recorded in
\* time can be materialised.
CaptureNotRaced ==
  \A s \in rooted \ (unread \cup unlisted) :
    Manifest(s) \in stored /\ \A b \in Content[s] : Blob(b) \in stored

\* retention.rs: the conservative response to a root that cannot be told lives in gc::plan's
\* refusal to delete around it; but a root that was not read never reaches the plan.
UnreadRootsStored == \A s \in (rooted \cup kept) \ raced : Manifest(s) \in stored

\* gc.rs: a listing failure degrades to "found nothing new here"; but a manifest that is not
\* found does not hold its blobs either.
UnlistedWhole ==
  \A s \in Snapshots \ raced : Manifest(s) \in stored => \A b \in Content[s] : Blob(b) \in stored
===========================================================================
