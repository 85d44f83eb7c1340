----------------------------- MODULE Checkpoint -----------------------------
(***************************************************************************)
(* The hot-set checkpoint (eviction/checkpoint.go): saveCheckpoint writes  *)
(* a temporary file, syncs it, renames it over the checkpoint and syncs    *)
(* the directory; loadCheckpoint accepts a complete file of this version   *)
(* and no other.  Any call may fail, the process may be killed between any *)
(* two, and the node may lose power.                                       *)
(*                                                                         *)
(* The file system: a rename is atomic and visible at once; until the      *)
(* directory is synced a power loss may undo it; data that was not synced  *)
(* may be lost with the power, leaving a torn file under its name.  The    *)
(* directory itself is there from the start and durable: a mounted volume. *)
(***************************************************************************)
EXTENDS Naturals

CONSTANTS
  MaxSaves,       \* bound: saves attempted
  TopKCapacity,   \* most items a checkpoint may hold
  ReadLimit       \* items that fit in the 64 MiB loadCheckpoint reads

\* The capacity is a flag; no check of the program relates it to the limit.
ASSUME CheckpointAssumption ==
  /\ MaxSaves \in Nat
  /\ TopKCapacity \in Nat \ {0}
  /\ ReadLimit \in Nat

VARIABLES
  pc,         \* saveCheckpoint: "idle", then what has been done
  saves,      \* number of the latest save
  items,      \* its number of items
  tmp,        \* temporary files left in the directory, as a set
  path,       \* what opening the checkpoint finds now
  durable,    \* what it may find after a power loss
  confirmed   \* history: the last save that returned nil

vars == <<pc, saves, items, tmp, path, durable, confirmed>>

\* Contents: the save it comes from, whether all of it was written, whether
\* it was synced, and the number of items.  Save 0 is "no such file".
Content == [save : Nat, whole : BOOLEAN, synced : BOOLEAN, items : Nat]

NoFile == [save |-> 0, whole |-> FALSE, synced |-> FALSE, items |-> 0]

PC == {"idle", "created", "encoded", "synced", "closed", "renamed", "dirOpen"}

\* The temporary file of the latest save.
Temporary == {f \in tmp : f.save = saves}

\* Type invariant of the file system and of saveCheckpoint's control.
TypeOK ==
  /\ pc \in PC /\ saves \in Nat /\ items \in Nat
  /\ tmp \in SUBSET Content /\ path \in Content /\ durable \in SUBSET Content
  /\ confirmed \in Nat
  /\ \A f, g \in Temporary : f = g

Init ==
  /\ pc = "idle" /\ saves = 0 /\ items = 0
  /\ tmp = {} /\ path = NoFile /\ durable = {NoFile}
  /\ confirmed = 0

\* saveCheckpoint returns; the deferred Remove finds the temporary file, or,
\* after the rename, nothing.  If Remove fails too, nobody hears of it.
ReturnError ==
  /\ pc' = "idle"
  /\ tmp' \in {tmp, tmp \ Temporary}
  /\ UNCHANGED <<saves, items, path, durable, confirmed>>

\* MkdirAll, CreateTemp and Chmod, for a hot set of i items.  MkdirAll finds the
\* directory; one that it makes is never synced in its parent, and a power loss
\* could take it away with a confirmed checkpoint.
CreateTemp(i) ==
  /\ pc = "idle" /\ saves < MaxSaves
  /\ saves' = saves + 1 /\ items' = i
  /\ tmp' = tmp \cup {[save |-> saves', whole |-> FALSE, synced |-> FALSE, items |-> i]}
  /\ pc' = "created"
  /\ UNCHANGED <<path, durable, confirmed>>

Written(synced) == [save |-> saves, whole |-> TRUE, synced |-> synced, items |-> items]

Encode ==
  /\ pc = "created"
  /\ tmp' = (tmp \ Temporary) \cup {Written(FALSE)}
  /\ pc' = "encoded"
  /\ UNCHANGED <<saves, items, path, durable, confirmed>>

SyncOmitted ==
  /\ pc = "encoded"
  /\ pc' = "synced"
  /\ UNCHANGED <<saves, items, tmp, path, durable, confirmed>>

Sync ==
  /\ pc = "encoded"
  /\ tmp' = (tmp \ Temporary) \cup {Written(TRUE)}
  /\ pc' = "synced"
  /\ UNCHANGED <<saves, items, path, durable, confirmed>>

CloseFile ==
  /\ pc = "synced"
  /\ pc' = "closed"
  /\ UNCHANGED <<saves, items, tmp, path, durable, confirmed>>

\* What a power loss may make of a file's data.
AfterPowerLoss(f) == IF f.synced THEN {f} ELSE {f, [f EXCEPT !.whole = FALSE]}

Rename ==
  /\ pc = "closed"
  /\ \E f \in Temporary :
       /\ tmp' = tmp \ {f}
       /\ path' = f
       /\ durable' = durable \cup AfterPowerLoss(f)
  /\ pc' = "renamed"
  /\ UNCHANGED <<saves, items, confirmed>>

OpenDirectory ==
  /\ pc = "renamed"
  /\ pc' = "dirOpen"
  /\ UNCHANGED <<saves, items, tmp, path, durable, confirmed>>

SyncDirectoryOmitted ==
  /\ pc = "dirOpen"
  /\ confirmed' = saves
  /\ pc' = "idle"
  /\ UNCHANGED <<saves, items, tmp, path, durable>>

\* The directory's Sync makes the rename last; saveCheckpoint returns nil.
SyncDirectory ==
  /\ pc = "dirOpen"
  /\ durable' = AfterPowerLoss(path)
  /\ confirmed' = saves
  /\ pc' = "idle"
  /\ UNCHANGED <<saves, items, tmp, path>>

\* Any of the calls fails.
SaveFails == pc # "idle" /\ ReturnError

\* The process is killed: what was done stays done, a temporary file included.
Kill ==
  /\ pc # "idle"
  /\ pc' = "idle"
  /\ UNCHANGED <<saves, items, tmp, path, durable, confirmed>>

\* Power loss, after which the directory holds one of the durable states; what
\* it may find from then on is settled.
PowerLoss ==
  /\ pc' = "idle"
  /\ path' \in durable
  /\ durable' = {path'}
  /\ UNCHANGED <<saves, items, tmp, confirmed>>

Next ==
  \/ \E i \in 0 .. TopKCapacity : CreateTemp(i)
  \/ Encode \/ Sync \/ CloseFile \/ Rename \/ OpenDirectory \/ SyncDirectory
  \/ SaveFails \/ Kill \/ PowerLoss

Spec == Init /\ [][Next]_vars

(***************************************************************************)
(* loadCheckpoint.                                                         *)
(***************************************************************************)
Missing(f) == f.save = 0

\* Decoding what the LimitReader lets through and the checks that follow it,
\* for a daemon whose capacity is max.  A file cut off at the limit does not
\* decode.  Keys and counts are those the heavy keeper held: names ParseKey
\* accepted, counts above zero.
Valid(f, max) == f.whole /\ f.items <= ReadLimit /\ f.items <= max

loadCheckpoint(f, max) ==
  IF Missing(f) THEN "none" ELSE IF Valid(f, max) THEN "items" ELSE "error"

\* A daemon started after any failure, kill or power loss never finds a torn
\* checkpoint: it finds none, or a complete one, now and after a power loss,
\* and loads it unless it is longer than loadCheckpoint reads.
NeverTorn ==
  \A f \in durable \cup {path} :
    f.items <= ReadLimit => loadCheckpoint(f, TopKCapacity) # "error"

\* A save that returned nil is never undone: whatever happens afterwards, the
\* checkpoint found is that one or a later one, as long as the directory lasts.
ConfirmedSurvives ==
  \A f \in durable \cup {path} : f.save >= confirmed

\* What saveCheckpoint stored with success, a daemon with the same settings
\* loads, as TestCheckpointRoundTrip expects.  It does not hold of a capacity
\* whose checkpoint is longer than loadCheckpoint reads.
RoundTrip ==
  \A f \in durable \cup {path} :
    f.save = confirmed /\ ~Missing(f) => loadCheckpoint(f, TopKCapacity) = "items"
=============================================================================
