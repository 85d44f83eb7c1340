------------------------------ MODULE Tracking ------------------------------
(***************************************************************************)
(* Which keys the heat model knows of, against what is on disk: restoring  *)
(* a checkpoint, reconcile with its drain goroutine, handleEvent, the      *)
(* seeding of new directories and the deletions of a cycle                 *)
(* (eviction/notify.go), while Bazel alters the cache.                     *)
(*                                                                         *)
(* A watcher is one bounded FIFO of events and a flag for what its Error   *)
(* channel, or an event about a watched directory itself, would report;    *)
(* module Watcher has the detail.  heat holds the keys that were added to  *)
(* the heavy keeper and not removed: its table is always a subset.         *)
(***************************************************************************)
EXTENDS Naturals, Sequences

CONSTANTS
  Dir, Key,         \* directories of the cache, completed entries
  DirOf,            \* [Key -> Dir]
  QueueSize,        \* events that the watcher holds
  MaxChanges        \* bound: how often the cache changes

ASSUME TrackingAssumption ==
  /\ Dir \cap Key = {} /\ DirOf \in [Key -> Dir]
  /\ QueueSize \in Nat \ {0} /\ MaxChanges \in Nat

VARIABLES
  dirs, disk,       \* directories and entries there are
  changes,          \* bound: changes so far
  root, watched,    \* whether the cache root is watched, and which directories
  queue, loss,      \* the watcher
  heat,
  pc,               \* what Run does
  resetHeat,        \* the parameter of the latest reconcile
  todo,             \* what the loop at hand has yet to visit
  cur,              \* the directory or key at hand
  stop, drain,      \* the stop channel is closed; the drain goroutine
  missed, placed    \* history: see NoGhosts and PlacedCounted

cacheVars == <<dirs, disk, changes>>
watcherVars == <<root, watched, queue, loss>>
drainVars == <<stop, drain>>
runVars == <<pc, resetHeat, todo, cur, drainVars>>
history == <<missed, placed>>
vars == <<cacheVars, watcherVars, heat, runVars, history>>

EventType == {"count", "delete"} \X Key \cup {"mkdir"} \X Dir

\* Run is past its reconcile: the channels are read by handleEvent.
Looping == pc \in {"loop", "watch", "list", "seed", "unlinked"}

\* Type invariant: the fields and locals of Run, and a watcher within its bounds.
TypeOK ==
  /\ dirs \subseteq Dir /\ disk \subseteq Key /\ changes \in 0 .. MaxChanges
  /\ root \in BOOLEAN /\ watched \subseteq Dir /\ loss \in BOOLEAN
  /\ queue \in Seq(EventType) /\ Len(queue) <= QueueSize
  /\ heat \subseteq Key /\ missed \subseteq Key /\ placed \subseteq Key
  /\ pc \in {"start", "restore", "cover", "scan"} \/ Looping
  /\ resetHeat \in BOOLEAN /\ stop \in BOOLEAN /\ drain \in {"on", "stopped", "failed"}
  /\ todo \subseteq Dir \cup Key /\ cur \in Dir \cup Key

KeysIn(d) == {k \in Key : DirOf[k] = d}

Init ==
  /\ dirs \in SUBSET Dir /\ disk \in SUBSET {k \in Key : DirOf[k] \in dirs} /\ changes = 0
  /\ root = FALSE /\ watched = {} /\ queue = <<>> /\ loss = FALSE
  /\ heat = {} /\ pc = "start" /\ resetHeat = FALSE /\ todo = {} /\ cur \in Dir
  /\ stop = FALSE /\ drain = "stopped"
  /\ missed = {} /\ placed = {}

(***************************************************************************)
(* The cache and the watcher.                                              *)
(***************************************************************************)
Change == changes < MaxChanges /\ changes' = changes + 1

\* An event for a watched directory, or the overflow that takes its place.
Emit(e, isWatched) ==
  /\ queue' = IF isWatched /\ Len(queue) < QueueSize THEN Append(queue, e) ELSE queue
  /\ loss' = (loss \/ (isWatched /\ Len(queue) >= QueueSize))

\* Entries leave the disk.  Until Run is in its loop nobody will tell the heat.
Gone(keys) ==
  /\ disk' = disk \ keys
  /\ missed' = IF Looping THEN missed ELSE missed \cup (keys \cap heat)
  /\ placed' = placed \ keys

\* mkdir, or a directory renamed into the cache with some entries.
AddDir(d) ==
  /\ Change /\ d \notin dirs
  /\ dirs' = dirs \cup {d}
  /\ \E keys \in SUBSET KeysIn(d) :
       /\ disk' = disk \cup keys
       /\ placed' = IF Looping THEN placed \cup keys ELSE placed
  /\ Emit(<<"mkdir", d>>, root)
  /\ UNCHANGED <<root, watched, heat, runVars, missed>>

\* A directory goes, with its entries: IN_DELETE_SELF or IN_MOVE_SELF.
DropDir(d) ==
  /\ Change /\ d \in dirs
  /\ dirs' = dirs \ {d}
  /\ Gone(KeysIn(d))
  /\ watched' = watched \ {d}
  /\ loss' = (loss \/ d \in watched)
  /\ UNCHANGED <<root, queue, heat, runVars>>

\* Bazel renames an entry into place, or opens one.
Use(k) ==
  /\ Change /\ DirOf[k] \in dirs
  /\ disk' = disk \cup {k}
  /\ placed' = IF Looping THEN placed \cup {k} ELSE placed
  /\ Emit(<<"count", k>>, DirOf[k] \in watched)
  /\ UNCHANGED <<dirs, root, watched, heat, runVars, missed>>

DropEntry(k) ==
  /\ Change /\ k \in disk
  /\ Gone({k})
  /\ Emit(<<"delete", k>>, DirOf[k] \in watched)
  /\ UNCHANGED <<dirs, root, watched, heat, runVars>>

Environment ==
  \/ \E d \in Dir : AddDir(d) \/ DropDir(d)
  \/ \E k \in Key : Use(k) \/ DropEntry(k)

(***************************************************************************)
(* Start-up and reconcile.                                                 *)
(***************************************************************************)
Add(k) == heat' = heat \cup {k} /\ missed' = missed \ {k}
Remove(k) == heat' = heat \ {k} /\ missed' = missed \ {k}

\* A process begins, with the keys of whatever checkpoint it finds.
Start ==
  /\ pc = "start"
  /\ pc' = "restore" /\ todo' \in SUBSET Key
  /\ UNCHANGED <<cacheVars, watcherVars, heat, resetHeat, cur, drainVars, history>>

\* restoreCheckpoint keeps the items whose entry Snapshot finds.
RestoreItem(k) ==
  /\ pc = "restore" /\ k \in todo
  /\ todo' = todo \ {k}
  /\ heat' = IF k \in disk THEN heat \cup {k} ELSE heat
  /\ UNCHANGED <<cacheVars, watcherVars, pc, resetHeat, cur, drainVars, history>>

\* reconcile up to the walk: the old watcher is closed with all it held.
reconcile(reset) ==
  /\ root' = FALSE /\ watched' = {} /\ queue' = <<>> /\ loss' = FALSE
  /\ pc' = "cover" /\ resetHeat' = reset /\ todo' = {}

Reconcile ==
  /\ pc = "restore" /\ todo = {}
  /\ reconcile(FALSE)
  /\ UNCHANGED <<cacheVars, heat, cur, drainVars, history>>

recoverWatcher ==
  /\ reconcile(TRUE)
  /\ placed' = {}
  /\ UNCHANGED <<cacheVars, heat, cur, drainVars, missed>>

\* Run returns an error, or the process is killed.  A new one begins.
Restart ==
  /\ pc # "start"
  /\ pc' = "start" /\ resetHeat' = FALSE /\ todo' = {}
  /\ root' = FALSE /\ watched' = {} /\ queue' = <<>> /\ loss' = FALSE
  /\ stop' = FALSE /\ drain' = "stopped"
  /\ heat' = {} /\ missed' = {} /\ placed' = {}
  /\ UNCHANGED <<cacheVars, cur>>

CoverRoot ==
  /\ pc = "cover" /\ ~root
  /\ root' = TRUE /\ todo' = dirs
  /\ UNCHANGED <<cacheVars, watched, queue, loss, heat, pc, resetHeat, cur, drainVars, history>>

\* The walk watches the directories; one that is gone makes it fail (Restart).
CoverNext(d) ==
  /\ pc = "cover" /\ d \in todo \cap dirs
  /\ watched' = watched \cup {d} /\ todo' = todo \ {d}
  /\ UNCHANGED <<cacheVars, root, queue, loss, heat, pc, resetHeat, cur, drainVars, history>>

\* scanEntriesWhileDraining starts the goroutine and the scan.
BeginScan ==
  /\ pc = "cover" /\ root /\ todo = {}
  /\ pc' = "scan" /\ stop' = FALSE /\ drain' = "on"
  /\ UNCHANGED <<cacheVars, watcherVars, heat, resetHeat, todo, cur, history>>

\* handleReconciliationEvent only cares for directories.
DrainEvent ==
  /\ drain = "on" /\ queue # <<>>
  /\ queue' = Tail(queue)
  /\ LET e == Head(queue)
         new == {e[2]} \cap dirs
     IN  IF e[1] = "mkdir"
         THEN /\ watched' = watched \cup new
              /\ drain' = IF new = {} THEN "failed" ELSE "on"
         ELSE UNCHANGED <<watched, drain>>
  /\ UNCHANGED <<cacheVars, root, loss, heat, pc, resetHeat, todo, cur, stop, history>>

DrainLoss ==
  /\ drain = "on" /\ loss
  /\ drain' = "failed"
  /\ UNCHANGED <<cacheVars, watcherVars, heat, pc, resetHeat, todo, cur, stop, history>>

DrainStop ==
  /\ drain = "on" /\ stop
  /\ drain' = "stopped"
  /\ UNCHANGED <<cacheVars, watcherVars, heat, pc, resetHeat, todo, cur, stop, history>>

ScanWaitsForDrain ==
  /\ pc = "scan" /\ ~stop /\ drain # "on"
  /\ stop' = TRUE
  /\ UNCHANGED <<cacheVars, watcherVars, heat, pc, resetHeat, todo, cur, drain, history>>

\* getEntries returns, with an error or without.
ScanEnds ==
  /\ pc = "scan" /\ ~stop
  /\ stop' = TRUE
  /\ UNCHANGED <<cacheVars, watcherVars, heat, pc, resetHeat, todo, cur, drain, history>>

JoinKeepsHeat ==
  /\ pc = "scan" /\ stop /\ drain = "stopped"
  /\ pc' = "loop"
  /\ UNCHANGED <<cacheVars, watcherVars, heat, resetHeat, todo, cur, drainVars, history>>

\* The goroutine is done and nothing has failed: the watcher goes into service.
Join ==
  /\ pc = "scan" /\ stop /\ drain = "stopped"
  /\ pc' = "loop"
  /\ IF resetHeat THEN heat' = {} /\ missed' = {} ELSE UNCHANGED <<heat, missed>>
  /\ UNCHANGED <<cacheVars, watcherVars, resetHeat, todo, cur, drainVars, placed>>

ReconcileFails == pc = "scan" /\ stop /\ drain = "failed" /\ Restart

(***************************************************************************)
(* The loop of Run.                                                        *)
(***************************************************************************)
\* handleEvent for an entry, or the beginning of it for a new directory.
HandleEvent ==
  /\ pc = "loop" /\ queue # <<>>
  /\ queue' = Tail(queue)
  /\ cur' = Head(queue)[2]
  /\ CASE Head(queue)[1] = "count" -> Add(cur') /\ UNCHANGED pc
       [] Head(queue)[1] = "delete" -> Remove(cur') /\ UNCHANGED pc
       [] Head(queue)[1] = "mkdir" -> pc' = "watch" /\ UNCHANGED <<heat, missed>>
  /\ UNCHANGED <<cacheVars, root, watched, loss, resetHeat, todo, drainVars, placed>>

\* addDirectoryWatches, then the listing by seedExistingEntries.  A directory
\* that is gone by then is a loss of coverage.
WatchNew ==
  /\ pc = "watch" /\ cur \in dirs
  /\ watched' = watched \cup {cur}
  /\ pc' = "list"
  /\ UNCHANGED <<cacheVars, root, queue, loss, heat, resetHeat, todo, cur, drainVars, history>>

ListNothing ==
  /\ pc = "list" /\ cur \in dirs
  /\ pc' = "loop" /\ UNCHANGED todo
  /\ UNCHANGED <<cacheVars, watcherVars, heat, resetHeat, cur, drainVars, history>>

ListNew ==
  /\ pc = "list" /\ cur \in dirs
  /\ pc' = "seed" /\ todo' = KeysIn(cur) \cap disk
  /\ UNCHANGED <<cacheVars, watcherVars, heat, resetHeat, cur, drainVars, history>>

\* seedExistingEntries counts what Snapshot still finds.
SeedNext(k) ==
  /\ pc = "seed" /\ k \in todo
  /\ todo' = todo \ {k}
  /\ IF k \in disk THEN Add(k) ELSE UNCHANGED <<heat, missed>>
  /\ UNCHANGED <<cacheVars, watcherVars, pc, resetHeat, cur, drainVars, placed>>

SeedDone ==
  /\ pc = "seed" /\ todo = {}
  /\ pc' = "loop"
  /\ UNCHANGED <<cacheVars, watcherVars, heat, resetHeat, todo, cur, drainVars, history>>

Recover ==
  /\ \/ pc = "loop" /\ loss
     \/ pc \in {"watch", "list"} /\ cur \notin dirs
  /\ recoverWatcher

\* A cycle unlinks an entry, then tells the heavy keeper.
Unlink(k) ==
  /\ pc = "loop" /\ k \in disk
  /\ Gone({k})
  /\ Emit(<<"delete", k>>, DirOf[k] \in watched)
  /\ pc' = "unlinked" /\ cur' = k
  /\ UNCHANGED <<dirs, changes, root, watched, heat, resetHeat, todo, drainVars>>

RemoveHeat ==
  /\ pc = "unlinked"
  /\ Remove(cur)
  /\ pc' = "loop"
  /\ UNCHANGED <<cacheVars, watcherVars, resetHeat, todo, cur, drainVars, placed>>

Drain == DrainEvent \/ DrainLoss \/ DrainStop

Run ==
  \/ Start \/ Reconcile \/ CoverRoot \/ BeginScan \/ ScanEnds \/ Join
  \/ HandleEvent \/ WatchNew \/ ListNew \/ SeedDone \/ Recover \/ RemoveHeat
  \/ \E d \in Dir : CoverNext(d)
  \/ \E k \in Key : RestoreItem(k) \/ SeedNext(k) \/ Unlink(k)

Next == Environment \/ Run \/ Drain \/ Restart

Spec == Init /\ [][Next]_vars

(***************************************************************************)
(* Properties.                                                             *)
(***************************************************************************)
Pending(e) == \E i \in DOMAIN queue : queue[i] = e

\* The latest event about k that is on its way.
LatestIs(kind, k) ==
  \E i \in DOMAIN queue : /\ queue[i] = <<kind, k>>
                          /\ \A j \in DOMAIN queue : j > i => queue[j][2] # k

\* Once Run is in its loop, a key the heat model knows is on disk, or the event
\* that will remove it is the last one about it, or a loss that resets the heat
\* is about to be noticed.  The one exception is missed: restored keys whose
\* entry went while reconcile threw events away.  A recovery leaves none.
NoGhosts ==
  Looping => \A k \in heat \ (disk \cup missed) : loss \/ LatestIs("delete", k)

\* An entry placed or opened since Run is in its loop has been added to the heat
\* model (Add was called; the sketch may still decay it) or is on its way there, through an event or the seeding of a new directory,
\* however the event, the watch, the listing and deletions interleave.
PlacedCounted ==
  Looping => \A k \in placed :
    \/ k \in heat \/ loss \/ LatestIs("count", k)
    \/ Pending(<<"mkdir", DirOf[k]>>)
    \/ pc \in {"watch", "list"} /\ cur = DirOf[k]
    \/ pc = "seed" /\ k \in todo

\* Goroutines are scheduled, the scan returns, and the select of the drain does
\* not pass over a closed stop channel for ever.
FairSpec ==
  /\ Spec
  /\ WF_vars(ScanEnds) /\ WF_vars(Join) /\ WF_vars(Drain) /\ SF_vars(DrainStop)
  /\ WF_vars(ReconcileFails)

\* reconcile does not hang on its drain goroutine, whatever that has met.
ScanReturns == pc = "scan" ~> pc # "scan"
=============================================================================
