------------------------------ MODULE DiskCache -----------------------------
(***************************************************************************)
(* The cache directory (diskutil/cache.go, diskutil/delete_linux.go) and   *)
(* what Bazel and the rest of the node do to it.                           *)
(*                                                                         *)
(* Key is the set of names that ParseKey accepts.  The code compares an    *)
(* inode only with the inode an earlier snapshot saw under the same key,   *)
(* so Inode need only tell apart a reused number from a fresh one.  Sizes  *)
(* are in blocks.                                                          *)
(***************************************************************************)
EXTENDS Integers, FiniteSetsExt

CONSTANTS
  Key,          \* names of completed entries, ac/<shard>/<digest> or cas/...
  ActionKey,    \* those under ac/
  Size,         \* possible sizes of an entry
  Inode,        \* inode numbers
  MaxClock      \* bound: the last instant

ASSUME DiskCacheAssumption ==
  /\ IsFiniteSet(Key)
  /\ ActionKey \subseteq Key
  /\ Size \subseteq Nat
  /\ MaxClock \in Nat

VARIABLES
  files,        \* the entries found under the root path: Key -|-> Attr
  moved,        \* those of the directory the root path named at start-up,
                \* once that directory was moved away
  free,         \* blocks available on the file system
  rootReplaced, \* the root path names another directory than at start-up
  clock,        \* wall clock
  changed       \* history: keys whose file in the directory of start-up was
                \* altered since hoshino last snapshotted them

diskVars == <<files, moved, free, rootReplaced, clock, changed>>

Attr == [inode : Inode, size : Size, mtime : Nat, regular : BOOLEAN]

EntryInfo == [key : Key, inode : Inode, size : Size, mtime : Nat]

DiskTypeOK ==
  /\ DOMAIN files \subseteq Key /\ files \in [DOMAIN files -> Attr]
  /\ DOMAIN moved \subseteq Key /\ moved \in [DOMAIN moved -> Attr]
  /\ free \in Int
  /\ rootReplaced \in BOOLEAN
  /\ clock \in Nat
  /\ changed \in SUBSET Key

NoFiles == [x \in {} |-> 0]

IsAction(k) == k \in ActionKey

\* Bytes of the entries of a set of keys, in a state fs of the directory and
\* on disk now.
BytesIn(fs, K) == MapThenSumSet(LAMBDA k : fs[k].size, K \cap DOMAIN fs)

BytesOnDisk(K) == BytesIn(files, K)

(***************************************************************************)
(* Snapshot and deleteSnapshot.                                            *)
(***************************************************************************)

\* Snapshot succeeds on a regular file and on nothing else.
HasSnapshot(k) == k \in DOMAIN files /\ files[k].regular

Snapshot(k) ==
  [key |-> k, inode |-> files[k].inode, size |-> files[k].size, mtime |-> files[k].mtime]

\* The entries a descriptor reaches that was opened on the root path when it
\* named a replacement (TRUE) or the directory of start-up (FALSE).  A rename
\* of the root does not disturb an open descriptor.
Opened(fd) == IF fd = rootReplaced THEN files ELSE moved

MatchesNoTime(e, fs) ==
  /\ e.key \in DOMAIN fs
  /\ fs[e.key].regular /\ fs[e.key].inode = e.inode /\ fs[e.key].size = e.size

\* What deleteSnapshot compares in the directory it has opened: the type,
\* inode, size and mtime of the entry.
Matches(e, fs) ==
  /\ e.key \in DOMAIN fs
  /\ fs[e.key].regular /\ fs[e.key].inode = e.inode /\ fs[e.key].size = e.size
  /\ fs[e.key].mtime = e.mtime

Without(fs, k) == [x \in DOMAIN fs \ {k} |-> fs[x]]

\* Unlinkat in the opened directory.  The blocks come back unless a process
\* holds the file open or a hard link remains.
Unlinkat(k, fd) ==
  /\ k \in DOMAIN Opened(fd)
  /\ IF fd = rootReplaced
     THEN files' = Without(files, k) /\ moved' = moved
     ELSE moved' = Without(moved, k) /\ files' = files
  /\ free' \in {free, free + Opened(fd)[k].size}
  /\ UNCHANGED <<rootReplaced, clock, changed>>

(***************************************************************************)
(* The environment: Bazel writes an entry under tmp/ and renames it into   *)
(* place, refreshes the mtime of an entry it hits, and discards entries;   *)
(* other pods use and free space; the root may be renamed away and made    *)
(* anew (TestDeleteRejectsReplacedCacheRoot), and the directory moved away *)
(* may be emptied.  Store and shard directories are left in place.         *)
(***************************************************************************)
\* What changed becomes when the file of k under the root path is altered.
Altered(k) == IF rootReplaced THEN changed ELSE changed \cup {k}

\* What it becomes when that file is snapshotted: a snapshot taken after a
\* replacement is not of the file in the directory of start-up.
Seen(k) == IF rootReplaced THEN changed \cup {k} ELSE changed \ {k}

SizeOf(k) == IF k \in DOMAIN files THEN files[k].size ELSE 0

PutEntry(k, a) ==
  /\ k \in DOMAIN files => a.inode # files[k].inode
  /\ a.mtime = clock
  /\ free + SizeOf(k) >= a.size
  /\ files' = [x \in DOMAIN files \cup {k} |-> IF x = k THEN a ELSE files[x]]
  /\ free' = free + SizeOf(k) - a.size
  /\ changed' = Altered(k)
  /\ UNCHANGED <<moved, rootReplaced, clock>>

TouchEntry(k) ==
  /\ k \in DOMAIN files
  /\ files[k].mtime # clock
  /\ files' = [files EXCEPT ![k].mtime = clock]
  /\ changed' = Altered(k)
  /\ UNCHANGED <<moved, free, rootReplaced, clock>>

DropEntry(k) ==
  /\ k \in DOMAIN files
  /\ files' = Without(files, k)
  /\ free' = free + files[k].size
  /\ changed' = Altered(k)
  /\ UNCHANGED <<moved, rootReplaced, clock>>

ReplaceRoot ==
  /\ ~rootReplaced
  /\ rootReplaced' = TRUE
  /\ files' = NoFiles /\ moved' = files
  /\ UNCHANGED <<free, clock, changed>>

DropMoved(k) ==
  /\ k \in DOMAIN moved
  /\ moved' = Without(moved, k)
  /\ free' = free + moved[k].size
  /\ UNCHANGED <<files, rootReplaced, clock, changed>>

OtherUse(f, blocks) ==
  /\ f \in {free - 1, free + 1}
  /\ f >= 0 /\ f + BytesOnDisk(Key) + BytesIn(moved, Key) <= blocks
  /\ free' = f
  /\ UNCHANGED <<files, moved, rootReplaced, clock, changed>>

Tick ==
  /\ clock < MaxClock
  /\ clock' = clock + 1
  /\ UNCHANGED <<files, moved, free, rootReplaced, changed>>
=============================================================================
