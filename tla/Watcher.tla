------------------------------- MODULE Watcher ------------------------------
(***************************************************************************)
(* The life of one inotify watcher, from NewWatcher to Close               *)
(* (eviction/internal/inotify): the kernel's bounded queue, the reader     *)
(* goroutine, the two channels, the mutex, and the goroutine that receives *)
(* (handleEvent, addDirectoryWatches and the select of Run in              *)
(* eviction/notify.go) while directories come and go.                      *)
(*                                                                         *)
(* A watch descriptor is identified with the directory it was made for: a  *)
(* path and the generation of the directory at that path.  watches and     *)
(* paths of the Go struct hold the same pairs, so they are one set here.   *)
(***************************************************************************)
EXTENDS Naturals, Sequences, Functions

CONSTANTS
  Dir,              \* paths of directories that may appear below the root
  Root,             \* the cache root, not in Dir
  Parent,           \* [Dir -> Dir \cup {Root}]
  MaxQueuedEvents,  \* the kernel's max_queued_events
  EventBufferSize,  \* watcherEventBufferSize of Event
  ErrorBufferSize,  \* watcherEventBufferSize of Error
  ReadFaults,       \* whether poll and read may fail
  MaxChanges        \* bound: how often the file system changes

ASSUME WatcherAssumption ==
  /\ Root \notin Dir
  /\ Parent \in [Dir -> Dir \cup {Root}]
  /\ MaxQueuedEvents \in Nat \ {0} /\ EventBufferSize \in Nat \ {0}
  /\ ErrorBufferSize \in Nat \ {0}
  /\ ReadFaults \in BOOLEAN
  /\ MaxChanges \in Nat

\* The cache has two levels of directories: stores and their shards.
ASSUME TwoLevels == \A d \in Dir : Parent[d] # Root => Parent[Parent[d]] = Root

VARIABLES
  gen, exists,      \* the directories: generation of each path, paths in use
  changes,          \* bound: changes so far
  watched,          \* descriptors of the live kernel watches
  kernelQ,          \* events the kernel holds
  lost,             \* history: the kernel has dropped an event
  muted,            \* history: a full Error channel without an overflow has dropped one
  rpc, buf, event,  \* reader: control, events read but not sent, the one being sent
  Event, Error,     \* the channels
  mu, isClosed, paths,
  cpc, walk, cur, wd  \* receiver: control, directories to watch, the one at hand and its descriptor

dirVars == <<gen, exists, changes>>
kernelVars == <<watched, kernelQ, lost, muted>>
readerVars == <<rpc, buf, event>>
receiverVars == <<cpc, walk, cur, wd>>
vars == <<dirVars, kernelVars, readerVars, Event, Error, mu, isClosed, paths, receiverVars>>

WD == (Dir \cup {Root}) \X Nat

\* An event carries the descriptor of the watch and, for a new directory, its
\* path.  "self" stands for IN_DELETE_SELF, IN_MOVE_SELF, IN_IGNORED and
\* IN_UNMOUNT, "file" for every event that adds no watch.
EventType == [kind : {"create", "self", "file"}, wd : WD, dir : Dir \cup {Root}]
           \cup [kind : {"overflow"}]

Current(d) == <<d, gen[d]>>

Children(d) == {c \in exists \ {Root} : Parent[c] = d}

\* Type invariant: the fields of Watcher and the bounds of its two channels.
TypeOK ==
  /\ gen \in [Dir \cup {Root} -> Nat]
  /\ exists \subseteq Dir \cup {Root} /\ changes \in 0 .. MaxChanges
  /\ watched \subseteq WD /\ paths \subseteq WD /\ lost \in BOOLEAN /\ muted \in BOOLEAN
  /\ kernelQ \in Seq(EventType) /\ Len(kernelQ) <= MaxQueuedEvents + 1
  /\ buf \in Seq(EventType) /\ event \in Seq(EventType) /\ Len(event) <= 1
  /\ rpc \in {"poll", "parse", "send", "exited"}
  /\ Event \in Seq(EventType) /\ Len(Event) <= EventBufferSize
  /\ Error \in Seq({"overflow", "read"}) /\ Len(Error) <= ErrorBufferSize
  /\ mu \in {"free", "reader", "receiver"} /\ isClosed \in BOOLEAN
  /\ cpc \in {"idle", "walk", "lock", "add", "record", "list", "closing", "closed"}
  /\ walk \subseteq Dir \cup {Root} /\ cur \in Dir \cup {Root} /\ wd \in WD

\* NewWatcher has just returned, and addDirectoryWatches starts at the root of
\* a tree that may already hold directories.
Init ==
  /\ gen = [d \in Dir \cup {Root} |-> 0]
  /\ exists \in {E \in SUBSET (Dir \cup {Root}) : Root \in E /\ \A d \in E \ {Root} : Parent[d] \in E}
  /\ changes = 0
  /\ watched = {} /\ kernelQ = <<>> /\ lost = FALSE /\ muted = FALSE
  /\ rpc = "poll" /\ buf = <<>> /\ event = <<>>
  /\ Event = <<>> /\ Error = <<>>
  /\ mu = "free" /\ isClosed = FALSE /\ paths = {}
  /\ cpc = "walk" /\ walk = {Root} /\ cur = Root /\ wd = <<Root, 0>>

(***************************************************************************)
(* The file system and the kernel.                                         *)
(***************************************************************************)
Overflow == [kind |-> "overflow"]

\* The kernel queues an event for a live watch.  A full queue drops it and
\* holds one overflow event instead.
Emit(kind, w, d) ==
  IF w \notin watched
  THEN UNCHANGED <<kernelQ, lost>>
  ELSE IF Len(kernelQ) < MaxQueuedEvents
       THEN /\ kernelQ' = Append(kernelQ, [kind |-> kind, wd |-> w, dir |-> d])
            /\ UNCHANGED lost
       ELSE /\ kernelQ' = IF Overflow \in Range(kernelQ) THEN kernelQ ELSE Append(kernelQ, Overflow)
            /\ lost' = TRUE

Change == changes < MaxChanges /\ changes' = changes + 1

others == <<muted, readerVars, Event, Error, mu, isClosed, paths, receiverVars>>

\* mkdir, or a directory moved into place with some subdirectories.
Appear(d) ==
  /\ Change
  /\ d \notin exists /\ Parent[d] \in exists
  /\ \E sub \in SUBSET {c \in Dir : Parent[c] = d} :
       /\ exists' = exists \cup {d} \cup sub
       /\ gen' = [x \in DOMAIN gen |-> IF x \in {d} \cup sub THEN gen[x] + 1 ELSE gen[x]]
  /\ Emit("create", Current(Parent[d]), d)
  /\ UNCHANGED <<watched, others>>

Below(d) == {c \in Dir : Parent[c] = d}

\* rmdir, or a directory moved away with what is below it.
Vanish(d) ==
  /\ Change
  /\ d \in exists \ {Root}
  /\ exists' = exists \ ({d} \cup Below(d))
  /\ Emit("self", Current(d), d)
  /\ watched' = watched \ {Current(d)}
  /\ UNCHANGED <<gen, others>>

\* A file is opened, closed, renamed or deleted in a watched directory.
FileActivity(d) ==
  /\ Change
  /\ d \in exists
  /\ Emit("file", Current(d), d)
  /\ UNCHANGED <<gen, exists, watched, others>>

(***************************************************************************)
(* readEvents.                                                             *)
(***************************************************************************)
exitVars == <<dirVars, kernelVars, buf, Event, mu, isClosed, paths, receiverVars>>

\* The done channel is closed: waitReadable, or the check after Read, returns.
\* The deferred calls close both channels and the descriptor.
ReaderStops ==
  /\ rpc = "poll" /\ isClosed
  /\ rpc' = "exited" /\ event' = <<>>
  /\ UNCHANGED <<exitVars, Error>>

\* Poll, then Read of some of what is queued.
Read ==
  /\ rpc = "poll" /\ ~isClosed
  /\ \E n \in 1 .. Len(kernelQ) :
       /\ buf' = SubSeq(kernelQ, 1, n)
       /\ kernelQ' = SubSeq(kernelQ, n + 1, Len(kernelQ))
  /\ rpc' = "parse"
  /\ UNCHANGED <<dirVars, watched, lost, muted, event, Event, Error, mu, isClosed, paths, receiverVars>>

reportErrorUnbounded(e) ==
  Error' = Append(Error, e)

\* reportError does not wait: a full channel drops the error.
reportError(e) ==
  Error' = IF Len(Error) < ErrorBufferSize THEN Append(Error, e) ELSE Error

ReadFails ==
  /\ ReadFaults
  /\ rpc = "poll" /\ ~isClosed
  /\ reportError("read")
  /\ UNCHANGED <<exitVars, rpc, event>>

\* Poll fails, or reports POLLERR, POLLHUP or POLLNVAL.
PollFails ==
  /\ ReadFaults
  /\ rpc = "poll" /\ ~isClosed
  /\ Error' = Error \/ reportError("read")
  /\ rpc' = "exited" /\ event' = <<>>
  /\ UNCHANGED exitVars

NextBuffered == /\ buf' = Tail(buf)
                /\ rpc' = IF Len(buf) = 1 THEN "poll" ELSE "parse"

ParseOverflowSilently ==
  /\ rpc = "parse" /\ Head(buf) = Overflow
  /\ NextBuffered
  /\ UNCHANGED <<dirVars, kernelVars, event, Event, Error, mu, isClosed, paths, receiverVars>>

ParseOverflow ==
  /\ rpc = "parse" /\ Head(buf) = Overflow
  /\ reportError("overflow")
  /\ muted' = (muted \/ "overflow" \notin Range(Error'))
  /\ NextBuffered
  /\ UNCHANGED <<dirVars, watched, kernelQ, lost, event, Event, mu, isClosed, paths, receiverVars>>

LookupKeepsLock ==
  /\ rpc = "parse" /\ Head(buf) # Overflow
  /\ mu = "free"
  /\ IF Head(buf).wd \in paths
     THEN event' = <<Head(buf)>> /\ rpc' = "send" /\ mu' = "reader" /\ UNCHANGED buf
     ELSE NextBuffered /\ UNCHANGED <<event, mu>>
  /\ UNCHANGED <<dirVars, kernelVars, Event, Error, isClosed, paths, receiverVars>>

\* The name of the descriptor, under the mutex; an event without one is dropped.
Lookup ==
  /\ rpc = "parse" /\ Head(buf) # Overflow
  /\ mu = "free"
  /\ IF Head(buf).wd \in paths
     THEN event' = <<Head(buf)>> /\ rpc' = "send" /\ UNCHANGED buf
     ELSE NextBuffered /\ UNCHANGED event
  /\ UNCHANGED <<dirVars, kernelVars, Event, Error, mu, isClosed, paths, receiverVars>>

Send ==
  /\ rpc = "send" /\ Len(Event) < EventBufferSize
  /\ Event' = Event \o event
  /\ event' = <<>>
  /\ NextBuffered
  /\ UNCHANGED <<dirVars, kernelVars, Error, mu, isClosed, paths, receiverVars>>

sendEventWaits == Send

\* The select of sendEvent: the channel has room, or the watcher is closed.
sendEvent ==
  \/ Send
  \/ /\ rpc = "send" /\ isClosed
     /\ rpc' = "exited" /\ event' = <<>>
     /\ UNCHANGED <<exitVars, Error>>

(***************************************************************************)
(* The receiver: the select of Run, handleEvent, addDirectoryWatches.      *)
(***************************************************************************)
quiet == <<dirVars, kernelVars, readerVars>>

\* A new directory is walked, a change of coverage or an overflow ends the
\* watcher's life, everything else only counts accesses.
ReceiveEvent ==
  /\ cpc = "idle" /\ Event # <<>>
  /\ Event' = Tail(Event)
  /\ cpc' = CASE Head(Event).kind = "create" -> "walk"
              [] Head(Event).kind = "self" -> "closing"
              [] OTHER -> "idle"
  /\ walk' = IF Head(Event).kind = "create" THEN {Head(Event).dir} ELSE {}
  /\ UNCHANGED <<quiet, Error, mu, isClosed, paths, cur, wd>>

ReceiveErrorLogs ==
  /\ cpc = "idle" /\ Error # <<>>
  /\ Error' = Tail(Error)
  /\ UNCHANGED <<quiet, Event, mu, isClosed, paths, receiverVars>>

ReceiveError ==
  /\ cpc = "idle" /\ Error # <<>>
  /\ Error' = Tail(Error)
  /\ cpc' = IF Head(Error) = "overflow" THEN "closing" ELSE "idle"
  /\ UNCHANGED <<quiet, Event, mu, isClosed, paths, walk, cur, wd>>

\* A channel that is closed and empty.
ReceiveClosed ==
  /\ cpc = "idle" /\ rpc = "exited" /\ (Event = <<>> \/ Error = <<>>)
  /\ cpc' = "closing"
  /\ UNCHANGED <<quiet, Event, Error, mu, isClosed, paths, walk, cur, wd>>

\* The context is done.
Stop ==
  /\ cpc = "idle"
  /\ cpc' = "closing"
  /\ UNCHANGED <<quiet, Event, Error, mu, isClosed, paths, walk, cur, wd>>

\* WalkDir calls back for the next directory, or is finished.
WalkNext ==
  /\ cpc = "walk"
  /\ \/ walk = {} /\ cpc' = "idle" /\ UNCHANGED cur
     \/ \E d \in walk : cur' = d /\ cpc' = "lock"
  /\ UNCHANGED <<quiet, Event, Error, mu, isClosed, paths, walk, wd>>

\* AddWatch in three steps: the lock, the system call, the maps and the unlock.
AddWatchLock ==
  /\ cpc = "lock" /\ mu = "free"
  /\ mu' = "receiver"
  /\ cpc' = "add"
  /\ UNCHANGED <<quiet, Event, Error, isClosed, paths, walk, cur, wd>>

InotifyAddWatchUnlocks ==
  /\ cpc = "add"
  /\ mu' = "free"
  /\ IF cur \in exists
     THEN wd' = Current(cur) /\ watched' = watched \cup {wd'} /\ cpc' = "record"
     ELSE cpc' = "closing" /\ UNCHANGED <<wd, watched>>
  /\ UNCHANGED <<dirVars, kernelQ, lost, muted, readerVars, Event, Error, isClosed, paths, walk, cur>>

InotifyAddWatch ==
  /\ cpc = "add"
  /\ IF cur \in exists
     THEN wd' = Current(cur) /\ watched' = watched \cup {wd'} /\ cpc' = "record" /\ UNCHANGED mu
     ELSE cpc' = "closing" /\ mu' = "free" /\ UNCHANGED <<wd, watched>>
  /\ UNCHANGED <<dirVars, kernelQ, lost, muted, readerVars, Event, Error, isClosed, paths, walk, cur>>

\* A path that is already in watches keeps its old descriptor.
AddWatchRecord ==
  /\ cpc = "record"
  /\ paths' = IF \E w \in paths : w[1] = cur THEN paths ELSE paths \cup {wd}
  /\ mu' = "free"
  /\ cpc' = "list"
  /\ UNCHANGED <<quiet, Event, Error, isClosed, walk, cur, wd>>

\* WalkDir reads the directory after the callback has watched it.
ReadDir ==
  /\ cpc = "list"
  /\ IF cur \in exists
     THEN walk' = (walk \ {cur}) \cup Children(cur) /\ cpc' = "walk"
     ELSE cpc' = "closing" /\ UNCHANGED walk
  /\ UNCHANGED <<quiet, Event, Error, mu, isClosed, paths, cur, wd>>

Close ==
  /\ cpc = "closing" /\ mu = "free"
  /\ isClosed' = TRUE
  /\ cpc' = "closed"
  /\ UNCHANGED <<quiet, Event, Error, mu, paths, walk, cur, wd>>

Environment ==
  \/ \E d \in Dir : Appear(d) \/ Vanish(d)
  \/ \E d \in Dir \cup {Root} : FileActivity(d)

Reader == ReaderStops \/ Read \/ ParseOverflow \/ Lookup \/ sendEvent

AddWatch == WalkNext \/ AddWatchLock \/ InotifyAddWatch \/ AddWatchRecord \/ ReadDir

Receiver == ReceiveEvent \/ ReceiveError \/ ReceiveClosed \/ AddWatch \/ Close

Next == Environment \/ Reader \/ ReadFails \/ PollFails \/ Receiver \/ Stop

Spec == Init /\ [][Next]_vars

(***************************************************************************)
(* Properties.                                                             *)
(***************************************************************************)
InFlight == Range(kernelQ) \cup Range(buf) \cup Range(Event)

\* The receiver is bound to learn that this watcher no longer covers the tree,
\* but for a report that found the Error channel full of read errors.
LossPending ==
  \/ Overflow \in InFlight \/ "overflow" \in Range(Error)
  \/ \E e \in InFlight : e # Overflow /\ e.kind = "self"
  \/ cpc \in {"closing", "closed"} \/ rpc = "exited" \/ muted

Creates(d) == {e \in InFlight : e # Overflow /\ e.kind = "create" /\ e.dir = d}

\* d, or a directory above it, is still to be walked.
WalkPending(d) ==
  \E a \in {d} \cup (IF d = Root THEN {} ELSE {Parent[d], Root}) : a \in walk \/ Creates(a) # {}

\* Every directory in the cache has a live watch whose events reach the
\* receiver, or is still to be walked, or the receiver is about to learn of a
\* loss: no directory falls between AddWatch, ReadDir and the events, even when
\* it is replaced by another one of the same name.
CoverageKept ==
  \A d \in exists :
    Current(d) \in watched \cap paths \/ WalkPending(d) \/ LossPending

\* Once the kernel has dropped an event, the receiver learns of it: the report
\* is on its way, or the watcher is being closed.  Only an Error channel that is
\* full of read errors can swallow it; one that is full of overflows cannot.
LossReported ==
  lost /\ ~muted =>
    \/ Overflow \in InFlight \/ "overflow" \in Range(Error)
    \/ cpc \in {"closing", "closed"}

\* The reader and the receiver keep running; a receiver with a choice of
\* channels takes each of them in the end.
Fairness ==
  /\ WF_vars(Reader) /\ WF_vars(Receiver)
  /\ SF_vars(ReceiveError) /\ SF_vars(ReceiveEvent)

FairSpec == Spec /\ Fairness

\* After Close the reader goroutine ends and closes both channels and the
\* descriptor, even if nobody receives from a full Event channel any more.
ReaderExits == isClosed ~> rpc = "exited"

\* AddWatch always gets the mutex and returns, even while the reader is stuck
\* on a full Event channel that only the caller of AddWatch could empty.
AddWatchReturns == cpc = "lock" ~> cpc \in {"walk", "closing"}

\* A dropped event ends the watcher's life, unless the report of it was dropped
\* too, by an Error channel full of read errors.  Reads do not fail for ever.
LossEndsWatcher == lost ~> isClosed \/ muted
=============================================================================
