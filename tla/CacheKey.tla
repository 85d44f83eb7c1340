------------------------------ MODULE CacheKey ------------------------------
(***************************************************************************)
(* Which paths are cache entries and which directories are watched: the    *)
(* two filters on paths, ParseKey and KeyForPath of diskutil/cache.go and  *)
(* watchPathAllowed and addDirectoryWatches of eviction/notify.go.         *)
(*                                                                         *)
(* A path is the sequence of the segments between its slashes.  Of a name  *)
(* only its length, its first two characters and whether it is lowercase   *)
(* hexadecimal matter.                                                     *)
(***************************************************************************)
EXTENDS Naturals, Sequences, SequencesExt

CONSTANTS
  Name,         \* names, "", "." and ".." among them
  Length,       \* [Name -> Nat]
  Prefix,       \* [Name -> Name], the first two characters
  LowerHex,     \* names of which isLowerHex holds
  Root,         \* segments of the absolute path of the cache root
  MaxDepth      \* bound: segments of a path

ASSUME CacheKeyAssumption ==
  /\ {"", ".", "..", "ac", "cas"} \subseteq Name
  /\ Length \in [Name -> Nat] /\ Prefix \in [Name -> Name]
  /\ LowerHex \subseteq Name \ {"", ".", ".."}
  /\ Root \in Seq(Name \ {"", ".", ".."}) /\ MaxDepth \in Nat

VARIABLE given   \* a path that an event, the scan or a checkpoint brings up

PathInit == given = <<>>

PathNext == Len(given) < MaxDepth /\ \E s \in Name : given' = Append(given, s)

(***************************************************************************)
(* path/filepath.                                                          *)
(***************************************************************************)
Enter(absolute, p, s) ==
  CASE s \in {"", "."} -> p
    [] s = ".." -> IF p # <<>> /\ Last(p) # ".." THEN Front(p)
                   ELSE IF absolute THEN p ELSE Append(p, s)
    [] OTHER -> Append(p, s)

Clean(absolute, p) == FoldLeft(LAMBDA q, s : Enter(absolute, q, s), <<>>, p)

\* The path from the root to a clean absolute path; <<>> stands for ".".
Rel(p) ==
  LET common == Len(LongestCommonPrefix({Root, p}))
  IN  [i \in 1 .. Len(Root) - common |-> ".."] \o SubSeq(p, common + 1, Len(p))

(***************************************************************************)
(* diskutil.                                                               *)
(***************************************************************************)
ParseKeySuffix(key) ==
  LET parts == SubSeq(key, Len(key) - 2, Len(key))
  IN  /\ Len(key) >= 3
      /\ parts[1] \in {"ac", "cas"}
      /\ Length[parts[2]] = 2 /\ Length[parts[3]] = 64 /\ parts[2] = Prefix[parts[3]]
      /\ parts[2] \in LowerHex /\ parts[3] \in LowerHex

\* ParseKey accepts the key.  An absolute key begins with an empty segment.
ParseKey(key) ==
  /\ Clean(FALSE, key) = key
  /\ Len(key) = 3
  /\ key[1] \in {"ac", "cas"}
  /\ Length[key[2]] = 2 /\ Length[key[3]] = 64 /\ key[2] = Prefix[key[3]]
  /\ key[2] \in LowerHex /\ key[3] \in LowerHex

KeyOf(p) == Rel(Clean(TRUE, p))

\* KeyForPath returns KeyOf(p) and no error.
KeyForPath(p) == ParseKey(KeyOf(p))

\* Where Snapshot and deleteSnapshot look for a key.
PathOf(key) == Clean(TRUE, Root \o key)

(***************************************************************************)
(* eviction.                                                               *)
(***************************************************************************)
watchPathAllowedAction(p) ==
  LET relative == KeyOf(p) IN relative = <<>> \/ relative[1] = "ac"

watchPathAllowed(p) ==
  LET relative == KeyOf(p)
  IN  relative = <<>> \/ relative[1] \in {"ac", "cas"}

\* addDirectoryWatches gets to directory p: it starts at the root and skips
\* what it does not watch.
Walked(p) ==
  IsPrefix(Root, p) /\ \A n \in Len(Root) .. Len(p) : watchPathAllowed(SubSeq(p, 1, n))

(***************************************************************************)
(* Properties.                                                             *)
(***************************************************************************)
\* The two filters agree: whatever KeyForPath takes for an entry, however its
\* path is spelled, lies in a directory that addDirectoryWatches watches.  No
\* entry can be counted, scanned or evicted out of sight of the watcher.
EntriesWatched ==
  KeyForPath(given) => Walked(Front(Clean(TRUE, given)))

\* A key that ParseKey accepts, be it from a checkpoint file, names one place
\* three levels below the root, and that place has no other key.
KeyNamesEntry ==
  ParseKey(given) => /\ PathOf(given) = Root \o given
                     /\ KeyForPath(PathOf(given)) /\ KeyOf(PathOf(given)) = given
=============================================================================
