# A TLA+ model of hoshino

Hoshino watches a Bazel disk cache on a node and deletes its coldest entries
when space runs short. This directory holds TLA+ modules that model it, TLC
configurations that check them on small instances, and TLAPS proofs of the
properties that matter most. `PROJECT.json` lists runs, theorems, hazards and,
for every definition, the source lines it stands for.

## The system

| Part | State | What makes it hard | Modules |
|---|---|---|---|
| Eviction policy (`eviction/policy.go`) | the policy record | two pairs of watermarks, strict against inclusive bounds | `EvictionPolicy` |
| Activity lease (`eviction/lease.go`) | one `flock` | builds hold it shared and come and go; every return path must release | `ActivityLease` |
| Disk cache (`diskutil/`) | files, root identity, free blocks | what was read may have changed by the time it is used; four pieces of code judge paths | `DiskCache`, `CacheKey` |
| Cleanup (`cleanup`, `selectVictims`) | `evicting`, `warmUntil`, totals | simulated free space, skipped and failed deletions, two scans around the lease | `Eviction` |
| Inotify watcher (`eviction/internal/inotify`) | kernel queue, two channels, maps, mutex | bounded buffers, lost events, reader and receiver waiting on each other | `Watcher`, `EventStream`, `WatcherStream` |
| Event handling and reconciliation (`handleEvent`, `reconcile`, `seedExistingEntries`) | watches, the keys with heat | directories and entries that come and go while they are being watched, listed or drained | `Watcher`, `Tracking` |
| Heavy keeper (`eviction/internal/heavykeeper`) | sketch, table, total | random decay, shared buckets and fingerprints, 32-bit counters | `HeavyKeeper`, `TopK` |
| Min heap (`eviction/internal/minheap`) | array, indices, map | indices carried through the swaps of `container/heap` | `MinHeap` |
| Checkpoint (`eviction/checkpoint.go`) | temporary file, checkpoint, directory | kills, failures and power loss between any two calls | `Checkpoint` |
| Daemon (`main.go`, `Notify.Run`) | two goroutines, readiness, warm-up | losses during recovery, restarts, shutdown racing the final save | `Daemon` |
| Options (`parseOptions`, `evictionConfig`) | the command line | conversions that may overflow | `Options` |

Cleanup calls the policy, the lease and the cache; the watcher feeds the heavy
keeper with accesses and `Run` with losses; `Run` freezes cleanup through
`ready` and `warmUntil`; the checkpoint carries heat from one process to the
next.

## Modules

`EvictionPolicy`, `ActivityLease` and `DiskCache` model their parts as operators
and actions over their own variables; `Eviction` composes them.

**Eviction.** `pc` is the place in the cycle: `scan` (`GetEntries`, one entry
per step), `lease`, `scan` again under the lock, then for each victim `select`,
`open`, `stat` and `unlink` (the calls of `deleteSnapshot` that a change can fall
between), `account`, and `confirm` for the measure that ends a cycle. `open`
compares the root with the one of start-up; `stat` and `unlink` work on the
directory that was opened (`rootFD`), also when it has been moved away since
(`moved`): a file there that did not change is then deleted where it is. The two
`Openat` calls belong to `stat`, because nobody removes store and shard
directories. `cleanup` is called only from the loop of `Run`, which is ready
then, so its test of `Ready` is left out. The locals of the two functions are
variables with the same names and are cleared on return. Clients take the shared lock and alter the cache while they hold it;
clients in `Lawless` alter it at will, and may replace the root. Other pods use
space. With `Faults`, any system call may fail and the process may die at any
step; the next process starts in any mode of `Modes` (`shadow`). Heat is any
function to `0..MaxHeat`, changed between cycles.

**Watcher.** One watcher from `NewWatcher` to `Close`: file system, kernel
queue with its overflow event, failing polls and reads, reader goroutine,
channels, mutex, and the receiver in `handleEvent` and `addDirectoryWatches`.
`AddWatch` is three steps (lock, system call, maps) so that the reader can run
in between. `lost` and `muted` are history: the kernel has dropped an event;
`reportOverflow` has dropped the report of one because read errors, and no
overflow, filled the Error channel. Directories are at most two levels below the
root (`TwoLevels`): the watch filter admits `ac`, `cas` and their shards.

**EventStream, WatcherStream.** The promise of a watcher to its receiver: the
events of the watched directories, in order, each once, without a gap until
something is lost. `WatcherStream` maps the Event channel, the read buffer and
the kernel queue, in this order, to that stream. `Tracking` builds on the promise.

**Tracking.** Which keys the heat model knows of, against what is on disk:
`restoreCheckpoint`, `reconcile` with the drain goroutine of
`scanEntriesWhileDraining`, `handleEvent`, `seedExistingEntries`, and the unlink
and `Remove` of a cycle, while Bazel adds, uses and removes entries and
directories. A watcher is one bounded queue and a flag for everything that ends
its service. The history variable `missed` holds restored keys whose entry went
while reconciliation threw events away, `placed` the entries placed or opened
since `Run` entered its loop. That a key is in `heat` means that `Add` was called
for it; what the sketch makes of it is `HeavyKeeper`'s matter.

**TopK, HeavyKeeper, MinHeap.** `TopK` is the bounded table of counts, with the
order among equal counts that the heap uses. `HeavyKeeper` is the sketch over
it: random decay is a choice, counters wrap at `MaxCount + 1`, `Restore` adds
item by item in the order of `List`. `MinHeap` is the array with the index in
each node, the map and `container/heap`'s sifting, and implements `TopK`. Its
loops are written as the rounds they can take at most; a round whose condition
fails changes nothing.

**Checkpoint.** One step per system call of `saveCheckpoint`. A rename is
visible at once; until the directory is synced, a power loss may undo it; data
not synced may be torn. The directory is assumed to exist and to be durable: one
that `MkdirAll` makes (`eviction/checkpoint.go:54`) is never synced in its parent,
and could be lost with the power together with a confirmed checkpoint. `loadCheckpoint` classifies what it finds; its read
limit and the capacity of the table are separate constants, as in the code.

**Daemon.** `run` and `Run` as two goroutines, with signals, server errors,
losses, kills and restarts. A deleting cycle is entered and left; what happens
inside is `Eviction`'s matter. A process that fails in `parseOptions` or `New`
never starts a manager and is left out.

**CacheKey, Options.** `ParseKey`, `KeyForPath`, `filepath.Clean`, `Rel` and the
watch filter over paths as sequences of names, where a name is known by its
length, its first two letters and whether it is lower-case hex; and the way from
flags to `Validate` in integers of limited width.

Modules with `Proofs` in their name hold theorems, those with `MC` instances;
`MCParts` explores four parts that share no state, one at a time. Definitions in
front of a definition that resemble it with one thing wrong (`BusyIgnored`,
`SyncOmitted`, ...) are the faults each property is shown to detect; no
specification uses them.

## Runs

| Run | Question | Distinct states |
|---|---|---|
| `EvictionCooperating.cfg` | With lawful clients, faults and crashes: are builds left alone, is the lock never left behind by a cycle, are totals exact, residence, action-cache floor and watermarks respected, and is what is unlinked the file of the snapshot? | 1,961,977 |
| `EvictionLawless.cfg` | With clients that ignore the lock, faults, restarts and a root replaced between any two calls: does re-validation refuse what changed, is the new root left alone? Does a process in shadow mode lock and delete nothing? | 1,743,575 |
| `EvictionLiveness.cfg` | Coldest first, no cycle that gives up early; builds proceed, pressure is relieved | 682,360 |
| `WatcherSafety.cfg` | No directory loses its watch silently, no lost event goes unreported, and the watcher implements `EventStream` | 1,165,770 |
| `WatcherLiveness.cfg` | The reader ends after `Close`, `AddWatch` does not deadlock, a lost event ends the watcher | 187,295 |
| `Tracking.cfg` | No heat for vanished entries, no placed entry overlooked, reconciliation ends | 1,869,838 |
| `HeavyKeeper.cfg` | Heat is never invented, and the table holds the hottest keys | 484,671 |
| `Parts.cfg` | Paths and keys, options, the heap against `TopK`, the checkpoint | 957,609 |
| `DaemonLife.cfg` | The freeze within a process, losses handled, the process ends when it should | 23,430 |
| `DaemonRestart.cfg`, `DaemonStop.cfg`, `CheckpointLimit.cfg` | Violated: see below | |

All but the last three find no error.

### Where the code departs from its documentation or tests

* `README.md:22-23` promises a new warm-up after watcher loss. The deadline is
  kept in memory only, and a process that finds a checkpoint starts without a
  warm-up (`eviction/notify.go:98`). A daemon that ends after noticing a loss,
  for instance because rebuilding the watches failed, is followed by one that
  may delete at its first tick (`FreezeSurvivesRestart`).
* `Run` saves a final checkpoint when its context ends, and a test that waits
  for `Run` relies on it (`eviction/notify_linux_test.go:68-80`). `run` does
  not wait for `Run` after a signal (`main.go:224-231`), so the process may
  exit before the save or in the middle of it (`FinalCheckpoint`). The
  previous checkpoint stays valid, as `NeverTorn` says.
* A test requires that a saved table loads again
  (`eviction/checkpoint_test.go:20-23`). `loadCheckpoint` reads at most 64 MiB
  (`eviction/checkpoint.go:33`), while `--top-k-capacity` is only checked to fit
  32 bits: a table of more than roughly 700,000 keys is saved without an error
  and rejected at every start (`RoundTrip`).

Two weaknesses appear in properties rather than as violations, because nothing
in the repository promises otherwise. An overflow report that finds the Error
channel full of read errors is dropped, and the watcher stays in service with
gaps (`muted` in `LossReported`, `LossEndsWatcher` and `CoverageKept`). And a
restored key whose entry is removed during start-up keeps its heat until it
fades (`missed` in `NoGhosts`); a recovery leaves none.

## Bounds

* Eviction: two or three keys of both kinds, sizes 1 and 2 against watermarks of
  4 and 2 blocks, a batch size of 2, so that a cycle crosses every watermark,
  the batch refresh and the confirming measure; two or three clock values around
  `MinimumResidence`; `MaxEdits` changes by others, two without the lock: enough
  to alter an entry and replace the root, at any two places of a cycle. Inodes are compared only under the
  same key, so two are enough for reuse. They are symmetric, and so are the keys
  under `ac/`, since ties in the order are broken either way. Order, completeness
  and convergence are checked without failing calls, which may skip entries.
* Watcher: a directory with a subdirectory, buffers of one place, a kernel queue
  of one or two, and `MaxChanges` changes, enough to fill the queue, lose an
  event, and replace a directory while it is being watched.
* Tracking: two directories, one with two entries, a queue of two and four
  changes: a directory can appear with entries, lose one and get it back.
  Restarts and deletions by a cycle are not bounded.
* Heavy keeper: three keys that meet pairwise in one of two rows, two of them
  with one fingerprint, a table of two, counters that wrap at 4 and four
  accesses between resets. The heap has five places for six keys, three levels.
* Paths of up to six names of every class that the code tells apart; GiB values,
  ports and all four counts of the heavy keeper on both sides of every limit; a
  command line is one choice of all flags.
* Checkpoint: `MaxSaves` saves, with crashes between any two calls.
* Daemon: a clock that runs twice the warm-up; restarts are not bounded.

Deadlock is not checked where the model stops by design: a closed watcher, and
parts whose inputs are used up.

## Fairness

`Eviction`: the loop, its ticker and the cycle keep running (weak fairness).
Granting the shared lock is strongly fair: `flock` wakes its waiters when the
lock is released and hoshino asks again only a `DiskCheckInterval` later.
`EvictionConverges` is conditional on builds pausing and on calls not failing;
its run has a `WarmupDuration` of 0, so watcher losses cannot postpone deletion
for ever.
`Watcher` and `Daemon`: goroutines run; a `select` with several ready branches
picks at random, so a branch that is ready again and again is taken (strong
fairness). For `LossEndsWatcher` this includes that reads and polls do not fail
for ever: a reader that never reads again never sees the overflow. `Tracking`: the scan returns, and the drain's `select` does not pass
over a closed `stop` for ever; neither Bazel nor the kernel owes anything. The
shutdown of the servers has a deadline, so `Exit` is weakly fair.

## Proofs

Each module of proofs shows its invariants by induction: a strengthening that
`Init` establishes and every action keeps. Type correctness is always the first
of them; for `Checkpoint`, `Daemon` and `Tracking` no run repeats it. The
constants are arbitrary within the named assumptions of their modules. Where
data needs induction (sums over files, loops, filtered sequences) a least
counterexample is taken from a well-founded order, over the numbers or over the
subsets of a finite set.

**EvictionProofs**, for every policy `Validate` accepts, cache and client set:

* `TypeCorrect`, by induction on the steps.
* `DeletionExcludesBuilds`, `LeaseConfined`, `ShadowDeletesNothing`: `LeaseInv`
  says that the places of the cycle behind `TryExclusive` are reached only with
  the exclusive lock and never in shadow mode; the lock's own rules exclude shared
  holders. Every return, failure and crash gives the lock back in the same step,
  so it is held nowhere else.
* `EvictionStopsInTime`: `PressureInv` ties the simulated free space to the
  last measure (`seen`) and says that every pass through `select` still has
  pressure. `Hysteresis` supplies the step from starting to continuing.
* `ResidenceRespected`, `WindowClosed` (when no client is lawless): `VictimInv`
  says that while the lock is held the victim's file is still the one in the
  snapshot, so the window between `fstatat` and `unlinkat` is closed.
* `ReplacementSafe`: store and shard are opened below the root that was
  verified, so an unlink after a replacement cannot reach the new tree.
* `ChangesDetected` (when `MinimumResidence` is positive): `ChangeInv` says that
  whatever was altered since its snapshot carries an mtime that is no older
  than the scan, under the root path or in the directory moved away, while a
  victim's mtime is older. With a residence of zero an
  inode reused within one clock instant could go unnoticed.
* `TotalsExact`, `FloorKept` (when no client is lawless): `TotalsInv` follows the
  two totals from the scan, where they cover the entries visited so far, over
  each `unlinkat`, after which they still include the victim, to its accounting.
  The set of keys is finite, so that the bytes on disk are a sum.
* `ColdestGoFirst`, `CyclesComplete` (when moreover no call fails): `OrderInv`
  says that under the lock the snapshots agree with the disk, every file is still
  to be considered or was passed over, and nothing still to be considered comes
  before the victim; `UnprotectedInv` that what was passed over is protected.
  Protection lasts, because the totals only shrink and `now` is fixed.

**HeavyKeeperProofs**, for every hash, fingerprint, capacity and counter width:
`HeavyKeeperTyped`, `HeatNeverInvented`, `HeatWithinTotal`, `HottestKept`. None
is inductive alone. `HKInv` bounds every bucket by the total, every bucket of an
unconfused key by its accesses, and says that a tracked key's table count is not
below its buckets, unless these are below `minCount`; `AddEffect` and
`AdmitEffect` say what one access does to a sketch and to the table.

**WatcherProofs**, for every tree and all sizes of queues: `TypeCorrect` needs
`QueueInv`, that the kernel's queue is over its bound only by an overflow event;
`NoSilentLoss` follows an overflow from the kernel's queue to the reader's
buffer, the Error channel and the receiver that closes (`LossInv`).
`NothingUncovered` shows `CoverageKept` with `CoverInv`: either a loss is certain
to be noticed (`LossSure`), or the maps, the kernel's watches, the queued events
and the walk are consistent and every directory is watched or on its way
(`Intact`). A deletion of a watched directory leads from the second to the first,
since the reader knows its descriptor.

**StreamProofs**: `StreamImplemented`, that the watcher implements `EventStream`.
What the reader drops is either an overflow or an event of a descriptor outside
the maps; `StreamInv` says that the latter happens only after a loss, when the
abstract stream may have a gap too, and that no descriptor is given out twice.
`ReportedConcat` and `RemoveMiddle` say how the filtered sequence behaves when
an event moves from one queue to the next or is dropped from the middle.

**HeapProofs**, for every set of numbers as keys and every capacity:
`HeapIndexed`, `HeapOrdered`, `TableImplemented`. The invariant is that the array
and the indices agree (`Good`), the order holds (`Ordered`) and the map is the
set of keys with a place. For each loop there is an invariant of its rounds: in
`up` all is ordered but one place and its parent, whose other descendants are
not less than that parent (`UpHole`); in `down` all but one place and its
neighbours (`DownHole`, `Settled`); `Init` orders the places from the last
parent down to the root; `ScaleDown` pops until the root, the coldest node
(`RootIsColdest`), counts something. `UpWorks`, `DownWorks`, `InitWorks` and
`PopZerosWorks` say what the loops leave behind, `HeapMoves` what each action
does to the keys and counts, and `TableStep` that this is a step of `TopK`.

**TrackingProofs**, for every cache and queue size: `NoGhostsKept` and
`PlacedKept`. `TInv` adds that the last queued event about an entry tells whether
it is there (`QueueTrue`), that every directory is watched or about to be
(`CoverInv`), and that before the loop only missed keys are known and gone, or
the heat is about to be reset (`HeatInv`).

**PartsProofs**: `OptionsMean` for integers of any width and every command line,
from the fact that `gibToBytes` refuses what `MaxInt64` divided by a GiB does not
cover, and `evictionConfig` what 32 bits do not hold.
`KeysNameEntries` and `AllEntriesWatched` for every root, set of names and length
of paths: `filepath.Clean` leaves a clean path alone, and a path has the parts
that `Rel` and `ParseKey` split it into. `CheckpointAtomic` and
`CheckpointDurable` for any number of saves: `SaveInv` adds that past `Sync` the
temporary file is complete and synced, so a rename exposes nothing else, and that
no durable content is older than the last confirmed save.

**DaemonProofs**: `FreezeHolds` for every warm-up:
`FreezeInv` relates the deadline to the time the process went blind and says that
the branch that sets it is still due while reconciliation runs.

Checked by TLC only: the liveness properties (`ClientProceeds`, `EvictionConverges`, `ReaderExits`, `AddWatchReturns`, `LossEndsWatcher`,
`LossHandled`, `ProcessEnds`, `ScanReturns`), because the prover handles neither
fairness nor `ENABLED`. Every safety invariant, action property and refinement
that a passing run checks is also proved, `TotalsExact`, `FloorKept`,
`ResidenceRespected` and `WindowClosed` without lawless clients as in the run
that checks them.

## Not modelled

* Metrics and the observer's log lines: output that nothing reads back.
* Stubs for other platforms, which return an error.
* `RemoveWatch` and `Watch` of the inotify package, which have no caller; its
  flag tables and `String`.
* Rounding and NaN of `float64` percentages (integers here), and the 64-bit width
  of the heavy keeper's total (unbounded here; it grows by accesses and restored counts).
* Options that are copied unchanged.
* The content of files: an entry is its attributes.
