------------------------------ MODULE Eviction ------------------------------
(***************************************************************************)
(* One hoshino process deleting from the cache (eviction/notify.go:        *)
(* cleanup and selectVictims), interleaved with the Bazel invocations that *)
(* use it, other users of the disk, failures and restarts.                 *)
(*                                                                         *)
(* Every call that leaves the process is a step: one Lstat of the scan,    *)
(* Statfs, Flock, the Open of the root, the Fstatat and the Unlinkat of a  *)
(* deletion.  Between two of them anything may happen to the disk.  The    *)
(* heat ranking is an arbitrary function here, changed at will between two *)
(* cycles.                                                                 *)
(***************************************************************************)
EXTENDS EvictionPolicy, ActivityLease, DiskCache

CONSTANTS
  Lawless,    \* clients that use the cache without taking the lock
  Modes,      \* the values of --shadow that processes are started with
  Faults,     \* whether system calls may fail and the process may die
  MaxHeat,    \* bound: largest heat
  MaxEdits    \* bound: how often the disk is altered by others

ASSUME EvictionAssumption ==
  /\ Lawless \subseteq Client
  /\ Modes \subseteq BOOLEAN /\ Modes # {}
  /\ Faults \in BOOLEAN
  /\ MaxHeat \in Nat /\ MaxEdits \in Nat

VARIABLES
  pc,                 \* where cleanup is; "loop": in the select of Run
  evicting, warmUntil, heat,                   \* fields of Notify
  shadow,             \* its policy.Shadow: only propose victims
  now,                \* the parameter of cleanup
  todo,               \* keys GetEntries has yet to visit
  entries,            \* snapshots collected, later those yet to consider
  victim,             \* the entry being deleted, as a set
  rootFD,             \* whether deleteSnapshot has opened a replacement of the root
  cacheBytes, actionCacheBytes,                \* totalBytes, bytesByKind
  bytesFree, bytesSinceCheck, deletedSinceCheck,
  seen,               \* history: the last measure of free, plus what was deleted since
  edits               \* bound: alterations by others so far

notifyVars == <<evicting, warmUntil, heat, shadow>>
scanVars == <<now, todo, entries, cacheBytes, actionCacheBytes>>
passVars == <<bytesFree, bytesSinceCheck, deletedSinceCheck, seen>>
deleteVars == <<victim, rootFD>>
vars == <<pc, notifyVars, scanVars, passVars, deleteVars, edits, leaseVars, diskVars>>

PC == {"down", "loop", "scan", "lease", "select", "open", "stat", "unlink", "account",
       "confirm"}

\* Type invariant: every variable keeps the type of the Go variable it models.
TypeOK ==
  /\ LeaseTypeOK
  /\ DiskTypeOK
  /\ pc \in PC
  /\ evicting \in BOOLEAN
  /\ warmUntil \in Int /\ now \in Nat
  /\ heat \in [Key -> Nat]
  /\ shadow \in BOOLEAN
  /\ todo \in SUBSET Key
  /\ entries \in SUBSET EntryInfo
  /\ victim \in SUBSET EntryInfo
  /\ rootFD \in BOOLEAN
  /\ cacheBytes \in Int /\ actionCacheBytes \in Int
  /\ bytesFree \in Int /\ bytesSinceCheck \in Int /\ deletedSinceCheck \in Int
  /\ seen \in Int
  /\ edits \in Nat

Cold == [k \in Key |-> 0]

Entry(i, s, t) == [inode |-> i, size |-> s, mtime |-> t, regular |-> TRUE]

\* The daemon is started on a cache that may already hold entries.  Inodes of
\* different keys are never compared, so these may share one.
Init ==
  /\ LeaseInit
  /\ \E i \in Inode, S \in SUBSET Key : files \in [S -> {Entry(i, s, 0) : s \in Size}]
  /\ free \in 0 .. Blocks
  /\ free + BytesOnDisk(Key) <= Blocks
  /\ moved = NoFiles /\ rootReplaced = FALSE /\ clock = 0 /\ changed = {}
  /\ pc = "down" /\ evicting = FALSE /\ warmUntil = 0 /\ heat = Cold
  /\ shadow \in Modes
  /\ now = 0 /\ todo = {} /\ entries = {} /\ victim = {} /\ rootFD = FALSE
  /\ cacheBytes = 0 /\ actionCacheBytes = 0
  /\ bytesFree = 0 /\ bytesSinceCheck = 0 /\ deletedSinceCheck = 0 /\ seen = 0
  /\ edits = 0

(***************************************************************************)
(* cleanup: scan, pressure, warm-up gate, lease, second scan.              *)
(***************************************************************************)
BeginScan ==
  /\ todo' = Key /\ entries' = {} /\ cacheBytes' = 0 /\ actionCacheBytes' = 0

StartCleanupBackdated ==
  /\ pc = "loop"
  /\ pc' = "scan"
  /\ now' = clock - Policy.MinimumResidence
  /\ BeginScan
  /\ UNCHANGED <<notifyVars, passVars, deleteVars, edits, leaseVars, diskVars>>

StartCleanup ==
  /\ pc = "loop"
  /\ pc' = "scan"
  /\ now' = clock
  /\ BeginScan
  /\ UNCHANGED <<notifyVars, passVars, deleteVars, edits, leaseVars, diskVars>>

\* The local variables of cleanup go out of scope.
DropLocals ==
  /\ now' = 0 /\ todo' = {} /\ entries' = {} /\ victim' = {} /\ rootFD' = FALSE
  /\ cacheBytes' = 0 /\ actionCacheBytes' = 0
  /\ bytesFree' = 0 /\ bytesSinceCheck' = 0 /\ deletedSinceCheck' = 0 /\ seen' = 0

ReturnLocked ==
  /\ pc' = "loop"
  /\ DropLocals
  /\ UNCHANGED leaseVars

\* Every return path of cleanup runs the deferred release.
Return ==
  /\ pc' = "loop"
  /\ DropLocals
  /\ ReleaseExclusive

\* The callback of GetEntries for one name: an entry that is missing or not a
\* regular file is left out.
VisitEntry(k) ==
  /\ pc = "scan"
  /\ k \in todo
  /\ todo' = todo \ {k}
  /\ IF HasSnapshot(k)
     THEN /\ entries' = entries \cup {Snapshot(k)}
          /\ cacheBytes' = cacheBytes + files[k].size
          /\ actionCacheBytes' = actionCacheBytes + IF IsAction(k) THEN files[k].size ELSE 0
     ELSE UNCHANGED <<entries, cacheBytes, actionCacheBytes>>
  /\ changed' = Seen(k)
  /\ UNCHANGED <<pc, now, notifyVars, passVars, deleteVars, edits, leaseVars,
                 files, moved, free, rootReplaced, clock>>

Warming == now < warmUntil

MeasurePressureActive ==
  /\ pc = "scan" /\ todo = {}
  /\ evicting' = nextEvicting(evicting, free, cacheBytes)
  /\ IF ~evicting' \/ (~exclusive /\ Warming)
     THEN Return
     ELSE /\ pc' = IF exclusive THEN "select" ELSE "lease"
          /\ bytesFree' = free /\ seen' = free
          /\ UNCHANGED <<scanVars, bytesSinceCheck, deletedSinceCheck, deleteVars, leaseVars>>
  /\ UNCHANGED <<warmUntil, heat, shadow, edits, diskVars>>

\* GetDiskUsage and what cleanup decides from it.  The first pass goes on to
\* take the lease (or, in shadow mode, straight to the projection); the pass
\* under the lease goes on to delete.  cleanup has one caller, the loop of Run,
\* which is ready whenever it takes up a tick, so its test of Ready is left out.
MeasurePressure ==
  /\ pc = "scan" /\ todo = {}
  /\ evicting' = nextEvicting(evicting, free, cacheBytes)
  /\ IF ~evicting' \/ (~exclusive /\ Warming)
     THEN Return
     ELSE /\ pc' = IF exclusive \/ shadow THEN "select" ELSE "lease"
          /\ bytesFree' = free /\ seen' = free
          /\ UNCHANGED <<scanVars, bytesSinceCheck, deletedSinceCheck, deleteVars, leaseVars>>
  /\ UNCHANGED <<warmUntil, heat, shadow, edits, diskVars>>

\* The non-blocking TryExclusive; a cycle that gets the lock scans again.
TryExclusive ==
  /\ pc = "lease"
  /\ IF Busy
     THEN Return
     ELSE /\ AcquireExclusive
          /\ pc' = "scan"
          /\ BeginScan
          /\ UNCHANGED <<now, passVars, deleteVars>>
  /\ UNCHANGED <<notifyVars, edits, diskVars>>

(***************************************************************************)
(* selectVictims: one iteration of its loop is "select", then, when it     *)
(* deletes, "open", "stat" and "unlink" (deleteSnapshot), then "account".  *)
(***************************************************************************)
lessByAge(e, f) == e.mtime < f.mtime

\* The order sort.Slice establishes; ties may come out in any order.
less(e, f) ==
  \/ heat[e.key] < heat[f.key]
  \/ /\ heat[e.key] = heat[f.key]
     /\ \/ e.mtime < f.mtime
        \/ e.mtime = f.mtime /\ e.size > f.size

NextInOrder == {e \in entries : \A f \in entries : ~less(f, e)}

FloorOnly(e, at, actionBytes) ==
  IsAction(e.key) /\ actionBytes - e.size < Policy.MinActionCacheBytes

\* The two reasons to pass an entry over.
Protected(e, at, actionBytes) ==
  \/ e.mtime > at - Policy.MinimumResidence
  \/ IsAction(e.key) /\ actionBytes - e.size < Policy.MinActionCacheBytes

SelectNextStopsEarly ==
  /\ pc = "select"
  /\ IF \E e \in NextInOrder : ~Protected(e, now, actionCacheBytes)
     THEN /\ \E e \in NextInOrder :
               /\ entries' = entries \ {e}
               /\ pc' = "open" /\ victim' = {e}
          /\ UNCHANGED <<now, todo, cacheBytes, actionCacheBytes, passVars, rootFD, leaseVars>>
     ELSE Return
  /\ UNCHANGED <<notifyVars, edits, diskVars>>

SelectNext ==
  /\ pc = "select"
  /\ IF entries = {}
     THEN Return
     ELSE /\ \E e \in NextInOrder :
               /\ entries' = entries \ {e}
               /\ IF Protected(e, now, actionCacheBytes)
                  THEN UNCHANGED <<pc, victim>>
                  ELSE /\ pc' = IF shadow THEN "account" ELSE "open"
                       /\ victim' = {e}
          /\ UNCHANGED <<now, todo, cacheBytes, actionCacheBytes, passVars, rootFD, leaseVars>>
  /\ UNCHANGED <<notifyVars, edits, diskVars>>

\* Delete returns an error and the loop continues with the next entry.
Skip ==
  /\ pc' = "select"
  /\ victim' = {} /\ rootFD' = FALSE
  /\ UNCHANGED <<notifyVars, scanVars, passVars, edits, leaseVars>>

OpenRootUnchecked ==
  /\ pc = "open"
  /\ pc' = "stat" /\ rootFD' = rootReplaced
  /\ UNCHANGED <<notifyVars, scanVars, passVars, victim, edits, leaseVars, diskVars>>

\* deleteSnapshot opens the root path and goes on only with the directory it
\* named at start-up; what a descriptor refers to never changes, so Open and
\* Fstat are one step.
OpenRoot ==
  /\ pc = "open"
  /\ IF rootReplaced
     THEN Skip
     ELSE /\ pc' = "stat" /\ rootFD' = rootReplaced
          /\ UNCHANGED <<notifyVars, scanVars, passVars, victim, edits, leaseVars>>
  /\ UNCHANGED diskVars

\* The Openats and the Fstatat below it, compared with the snapshot.
Revalidate ==
  /\ pc = "stat"
  /\ \E e \in victim :
       IF Matches(e, Opened(rootFD))
       THEN /\ pc' = "unlink"
            /\ UNCHANGED <<notifyVars, scanVars, passVars, deleteVars, edits, leaseVars>>
       ELSE Skip
  /\ UNCHANGED diskVars

\* The unlinkat of deleteSnapshot, and heavykeeper.Remove.
UnlinkSucceeds(e) ==
  /\ Unlinkat(e.key, rootFD)
  /\ pc' = "account"
  /\ heat' = [heat EXCEPT ![e.key] = 0]
  /\ deletedSinceCheck' = deletedSinceCheck + 1
  /\ UNCHANGED <<evicting, warmUntil, shadow, scanVars, bytesFree, bytesSinceCheck, seen,
                 deleteVars, edits, leaseVars>>

\* ENOENT: the name is gone from the directory that was opened.
UnlinkFindsNothing(e) ==
  /\ e.key \notin DOMAIN Opened(rootFD)
  /\ Skip
  /\ UNCHANGED diskVars

UnlinkVictim ==
  /\ pc = "unlink"
  /\ \E e \in victim : UnlinkSucceeds(e) \/ UnlinkFindsNothing(e)

Continue ==
  /\ pc' = "select"
  /\ victim' = {} /\ rootFD' = FALSE

AccountForgetsAction(e) ==
  LET cache   == cacheBytes - e.size
      action  == actionCacheBytes
      refresh == ~shadow /\ deletedSinceCheck >= Policy.CleanupBatchSize
      fresh   == IF refresh THEN free ELSE bytesFree
      since   == IF refresh THEN 0 ELSE bytesSinceCheck + e.size
      more    == nextEvicting(TRUE, fresh + since, cache)
  IN  IF ~more /\ shadow
      THEN Return
      ELSE /\ IF more THEN Continue ELSE pc' = "confirm" /\ UNCHANGED deleteVars
           /\ cacheBytes' = cache /\ actionCacheBytes' = action
           /\ bytesFree' = fresh /\ bytesSinceCheck' = since
           /\ deletedSinceCheck' = IF refresh THEN 0 ELSE deletedSinceCheck
           /\ seen' = IF refresh THEN free ELSE seen + e.size
           /\ UNCHANGED <<now, todo, entries, leaseVars>>

AccountForgetsTotal(e) ==
  LET cache   == cacheBytes
      action  == actionCacheBytes - IF IsAction(e.key) THEN e.size ELSE 0
      refresh == ~shadow /\ deletedSinceCheck >= Policy.CleanupBatchSize
      fresh   == IF refresh THEN free ELSE bytesFree
      since   == IF refresh THEN 0 ELSE bytesSinceCheck + e.size
      more    == nextEvicting(TRUE, fresh + since, cache)
  IN  IF ~more /\ shadow
      THEN Return
      ELSE /\ IF more THEN Continue ELSE pc' = "confirm" /\ UNCHANGED deleteVars
           /\ cacheBytes' = cache /\ actionCacheBytes' = action
           /\ bytesFree' = fresh /\ bytesSinceCheck' = since
           /\ deletedSinceCheck' = IF refresh THEN 0 ELSE deletedSinceCheck
           /\ seen' = IF refresh THEN free ELSE seen + e.size
           /\ UNCHANGED <<now, todo, entries, leaseVars>>

\* The rest of the iteration for the deleted or projected entry e.  After
\* CleanupBatchSize deletions the simulated free space gives way to a fresh
\* measure.  Meeting the inner watermarks ends a projection at once, and a
\* deletion only after a confirming measure.
AccountFor(e) ==
  LET cache   == cacheBytes - e.size
      action  == actionCacheBytes - IF IsAction(e.key) THEN e.size ELSE 0
      refresh == ~shadow /\ deletedSinceCheck >= Policy.CleanupBatchSize
      fresh   == IF refresh THEN free ELSE bytesFree
      since   == IF refresh THEN 0 ELSE bytesSinceCheck + e.size
      more    == nextEvicting(TRUE, fresh + since, cache)
  IN  IF ~more /\ shadow
      THEN Return
      ELSE /\ IF more THEN Continue ELSE pc' = "confirm" /\ UNCHANGED deleteVars
           /\ cacheBytes' = cache /\ actionCacheBytes' = action
           /\ bytesFree' = fresh /\ bytesSinceCheck' = since
           /\ deletedSinceCheck' = IF refresh THEN 0 ELSE deletedSinceCheck
           /\ seen' = IF refresh THEN free ELSE seen + e.size
           /\ UNCHANGED <<now, todo, entries, leaseVars>>

Account ==
  /\ pc = "account"
  /\ \E e \in victim : AccountFor(e)
  /\ UNCHANGED <<notifyVars, edits, diskVars>>

ConfirmGivesUp ==
  /\ pc = "confirm"
  /\ evicting' = nextEvicting(TRUE, free, cacheBytes)
  /\ Return
  /\ UNCHANGED <<warmUntil, heat, shadow, edits, diskVars>>

Confirm ==
  /\ pc = "confirm"
  /\ IF nextEvicting(TRUE, free, cacheBytes)
     THEN /\ Continue
          /\ seen' = free
          /\ UNCHANGED <<evicting, scanVars, bytesFree, bytesSinceCheck, deletedSinceCheck, leaseVars>>
     ELSE /\ evicting' = FALSE
          /\ Return
  /\ UNCHANGED <<warmUntil, heat, shadow, edits, diskVars>>

(***************************************************************************)
(* Failing system calls, in the process that carries on.                   *)
(***************************************************************************)
CycleFailsLocked ==
  /\ Faults
  /\ \/ pc \in {"scan", "lease", "confirm"}
     \/ pc = "account" /\ ~shadow /\ deletedSinceCheck >= Policy.CleanupBatchSize
  /\ ReturnLocked
  /\ UNCHANGED <<notifyVars, edits, diskVars>>

\* A scan, Statfs or Flock error: cleanup or selectVictims returns.
CycleFails ==
  /\ Faults
  /\ \/ pc \in {"scan", "lease", "confirm"}
     \/ pc = "account" /\ ~shadow /\ deletedSinceCheck >= Policy.CleanupBatchSize
  /\ Return
  /\ UNCHANGED <<notifyVars, edits, diskVars>>

\* An error inside deleteSnapshot, before anything is unlinked.
DeleteFails ==
  /\ Faults
  /\ pc \in {"open", "stat", "unlink"}
  /\ Skip
  /\ UNCHANGED diskVars

(***************************************************************************)
(* The rest of Run, as far as deletion depends on it.                      *)
(***************************************************************************)
\* restoreCheckpoint and reconcile(false): a restored checkpoint brings back
\* some ranking and no warm-up, a missing one a warm-up from now on.  The new
\* process takes the directory it finds for the cache root.
Start ==
  /\ pc = "down"
  /\ pc' = "loop"
  /\ \/ heat' \in [Key -> 0 .. MaxHeat] /\ warmUntil' = 0
     \/ heat' = Cold /\ warmUntil' = clock + Policy.WarmupDuration
  /\ rootReplaced' = FALSE /\ moved' = NoFiles /\ changed' = {}
  /\ UNCHANGED <<evicting, shadow, scanVars, passVars, deleteVars, edits, leaseVars,
                 files, free, clock>>

\* Access events, deletion events and fading, between two cycles.
HeatChanges(k) ==
  /\ pc = "loop"
  /\ \E h \in 0 .. MaxHeat : heat' = [heat EXCEPT ![k] = h]
  /\ UNCHANGED <<pc, evicting, warmUntil, shadow, scanVars, passVars, deleteVars, edits,
                 leaseVars, diskVars>>

\* recoverWatcher, when the watcher can be rebuilt.
RecoverWatcher ==
  /\ pc = "loop"
  /\ heat' = Cold
  /\ warmUntil' = clock + Policy.WarmupDuration
  /\ UNCHANGED <<pc, evicting, shadow, scanVars, passVars, deleteVars, edits, leaseVars, diskVars>>

\* The process dies, at any point; the kernel drops its lock.  The next one may
\* be started in the other mode.
Crash ==
  /\ Faults
  /\ pc # "down"
  /\ pc' = "down"
  /\ evicting' = FALSE /\ warmUntil' = 0 /\ heat' = Cold /\ shadow' \in Modes
  /\ DropLocals
  /\ ReleaseExclusive
  /\ UNCHANGED <<edits, diskVars>>

(***************************************************************************)
(* Clients and the rest of the node.                                       *)
(***************************************************************************)
hoshinoVars == <<pc, notifyVars, scanVars, passVars, deleteVars>>

ClientLease ==
  /\ \E c \in Client : RequestShared(c) \/ GrantShared(c) \/ ReleaseShared(c)
  /\ UNCHANGED <<hoshinoVars, edits, diskVars>>

\* Only a lease holder alters the cache, unless some client is lawless.
MayEdit == shared \cup Lawless # {}

AlterCache ==
  /\ MayEdit
  /\ edits < MaxEdits /\ edits' = edits + 1
  /\ \/ \E k \in Key :
          \/ \E i \in Inode, s \in Size, r \in {TRUE, Lawless = {}} :
               PutEntry(k, [Entry(i, s, clock) EXCEPT !.regular = r])
          \/ TouchEntry(k)
          \/ DropEntry(k)
          \/ DropMoved(k)
     \/ Lawless # {} /\ ReplaceRoot
  /\ UNCHANGED <<hoshinoVars, leaseVars>>

OtherPods ==
  /\ edits < MaxEdits /\ edits' = edits + 1
  /\ \E f \in 0 .. Blocks : OtherUse(f, Blocks)
  /\ UNCHANGED <<hoshinoVars, leaseVars>>

TimePasses == Tick /\ UNCHANGED <<hoshinoVars, edits, leaseVars>>

CleanupStep ==
  \/ \E k \in Key : VisitEntry(k)
  \/ MeasurePressure \/ TryExclusive \/ SelectNext
  \/ OpenRoot \/ Revalidate \/ UnlinkVictim \/ Account \/ Confirm

Next ==
  \/ StartCleanup \/ CleanupStep \/ CycleFails \/ DeleteFails
  \/ Start \/ (\E k \in Key : HeatChanges(k)) \/ RecoverWatcher \/ Crash
  \/ ClientLease \/ AlterCache \/ OtherPods \/ TimePasses

Spec == Init /\ [][Next]_vars

(***************************************************************************)
(* Safety.                                                                 *)
(***************************************************************************)
\* hoshino, and not a client, removes the file of key k from the cache.
HoshinoUnlinks(k) ==
  pc = "unlink" /\ pc' = "account" /\ k \in DOMAIN files \ DOMAIN files'

\* No deletion overlaps a Bazel invocation that holds the activity lock:
\* deleteSnapshot runs only in a cycle that TryExclusive let through.
NoDeleteDuringBuild ==
  pc \in {"open", "stat", "unlink"} => exclusive /\ shared = {}

\* hoshino holds the lock only inside the cycle that took it: whichever call
\* fails and wherever the process dies, every way out of cleanup releases it,
\* so that builds are not shut out between two cycles and no cycle asks for a
\* lock its process still holds.
LeaseOnlyInCycle == pc \in {"down", "loop", "lease"} => ~exclusive

\* Clients that respect the lock never lose an entry younger than
\* MinimumResidence at the very moment of its unlinkat, although the age was
\* judged from a snapshot taken earlier.
DeletesOnlyResident ==
  [][\A k \in Key :
       HoshinoUnlinks(k) => files[k].mtime + Policy.MinimumResidence <= clock]_vars

\* With clients that respect the lock, the file that unlinkat takes away is to
\* the inode, size and mtime the one that was scanned: nothing slips into the
\* window between the last fstatat of deleteSnapshot and its unlinkat, which
\* only the lock can close.
UnlinksSnapshot ==
  [][\A k \in Key : HoshinoUnlinks(k) => Snapshot(k) \in victim]_vars

\* The running totals of selectVictims are the bytes really on disk, after
\* any number of deletions, skips and failures of one cycle.
AccountingExact ==
  exclusive /\ pc \in {"select", "open", "stat", "unlink", "confirm"} =>
    /\ cacheBytes = BytesOnDisk(Key)
    /\ actionCacheBytes = BytesOnDisk(ActionKey)

\* Deleting an ac/ entry leaves at least MinActionCacheBytes of them on disk.
ActionCacheFloor ==
  [][\A k \in ActionKey :
       HoshinoUnlinks(k) => BytesOnDisk(ActionKey)' >= Policy.MinActionCacheBytes]_vars

\* An entry is deleted, or counted by a projection, only while an inner
\* watermark is missed, by the bytes still cached or by the last measure of
\* free space plus what was deleted since it: selectVictims never goes on past
\* its target.
EvictsOnlyUnderPressure ==
  pc \in {"open", "stat", "unlink", "account"} =>
    \/ cacheBytes > Policy.TargetCacheBytes
    \/ seen * 100 < Policy.EvictUntilPercentBlocksFree * Blocks

\* When no call fails, an entry is deleted only if every strictly colder entry
\* still on disk is protected: skipping one never lets it be overtaken.
ColdestFirst ==
  [][\A k \in Key : HoshinoUnlinks(k) =>
       \A j \in DOMAIN files :
         heat[j] < heat[k] => Protected(Snapshot(j), now, actionCacheBytes)]_vars

\* When no call fails, a cycle that held the lock ends with eviction switched
\* off or with every remaining entry protected: selectVictims does not give up
\* early, whatever the simulated free space said.
CycleComplete ==
  [][exclusive /\ pc' = "loop" /\ evicting' =>
       \A k \in DOMAIN files : Protected(Snapshot(k), now, BytesOnDisk(ActionKey))]_vars

\* Whoever ignores the lock, the last look of deleteSnapshot at an entry never
\* takes a file that was rewritten, touched, or removed and made anew since its
\* snapshot for the one it had seen, inode reuse included, even when the root
\* is replaced under the open descriptors.  It needs a positive
\* MinimumResidence.
ChangedEntryRefused ==
  [][pc = "stat" /\ pc' = "unlink" => \A e \in victim : e.key \notin changed]_vars

\* Nothing is deleted from a directory that took the place of the cache root,
\* whenever the replacement happens between the opening of the root and the
\* unlinkat: what goes then is the file in the directory moved away.
ReplacedRootUntouched ==
  [][\A k \in Key : HoshinoUnlinks(k) => ~rootReplaced]_vars

\* In shadow mode cleanup neither takes the lock nor reaches a deletion.
ShadowOnlyProjects ==
  shadow => ~exclusive /\ pc \notin {"lease", "open", "stat", "unlink", "confirm"}

(***************************************************************************)
(* Liveness.  The loop of Run and its ticker keep running.  A client       *)
(* blocked in flock is woken when the lock is released, and hoshino asks   *)
(* for it again only a DiskCheckInterval later, hence the strong fairness. *)
(***************************************************************************)
Fairness ==
  /\ WF_vars(Start) /\ WF_vars(StartCleanup) /\ WF_vars(CleanupStep)
  /\ WF_vars(TimePasses)
  /\ \A c \in Client : SF_vars(GrantShared(c) /\ UNCHANGED <<hoshinoVars, edits, diskVars>>)

FairSpec == Spec /\ Fairness

\* A Bazel invocation that waits for the lock gets it.
ClientProceeds == \A c \in Client : c \in waiting ~> c \in shared

Pressured == nextEvicting(evicting, free, BytesOnDisk(Key))

NothingEligible ==
  \A k \in DOMAIN files : Protected(Snapshot(k), clock, BytesOnDisk(ActionKey))

\* When no call fails and builds pause for good, eviction gets its way: from
\* some point on, between two cycles, the watermarks are met or everything
\* that is left is protected.
EvictionConverges ==
  <>[](shared = {}) => <>[](pc = "loop" => ~Pressured \/ NothingEligible)
=============================================================================
