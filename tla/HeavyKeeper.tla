----------------------------- MODULE HeavyKeeper ----------------------------
(***************************************************************************)
(* The heat model (eviction/internal/heavykeeper): a sketch of Row x Slot  *)
(* counters that fingerprints compete for, and the table of the K hottest  *)
(* keys.  Every exported method holds the mutex throughout, so each is one *)
(* step, except Restore, which adds its items one by one while the mutex   *)
(* keeps everybody else out.                                               *)
(*                                                                         *)
(* The random decay of a counter owned by another fingerprint is a choice. *)
(* accesses and cut are history: how often each key was counted, halved    *)
(* whenever the sketch fades, and whether Remove has taken a key out of    *)
(* the table since it was last empty.                                      *)
(***************************************************************************)
EXTENDS Integers, TopK

CONSTANTS
  Row, Slot,        \* depth and width of the sketch
  hash,             \* hash[r][k]: the slot of key k in row r
  fingerprint,      \* of each key; two keys may share one
  minCount,
  MaxAccesses       \* bound: accesses counted for a key

ASSUME HeavyKeeperAssumption ==
  /\ Row # {}
  /\ hash \in [Row -> [Key -> Slot]]
  /\ fingerprint \in [Key -> Nat]
  /\ minCount \in Nat \ {0} /\ K > 0
  /\ MaxAccesses \in Nat

VARIABLES
  buckets, total,   \* fields of HeavyKeeper, besides top
  todo,             \* items that Restore has yet to add, hottest first
  accesses, cut

vars == <<top, buckets, total, todo, accesses, cut>>

Bucket == [fingerprint : Nat, count : 0 .. MaxCount]

IsTable(t) == DOMAIN t \subseteq Key /\ t \in [DOMAIN t -> 1 .. MaxCount]

\* Type invariant: counters of 32 bits, and a table that loadCheckpoint would
\* accept, with at most K items and none of them zero.
TypeOK ==
  /\ buckets \in [Row -> [Slot -> Bucket]]
  /\ IsTable(top) /\ Cardinality(DOMAIN top) <= K
  /\ IsTable(todo)
  /\ total \in Nat /\ accesses \in [Key -> Nat] /\ cut \in BOOLEAN

Clear == [r \in Row |-> [s \in Slot |-> [fingerprint |-> 0, count |-> 0]]]

HKInit ==
  /\ top = Empty /\ buckets = Clear /\ total = 0 /\ todo = Empty
  /\ accesses = [k \in Key |-> 0] /\ cut = FALSE

(***************************************************************************)
(* add.                                                                    *)
(***************************************************************************)
Owned(k, c) == [bucket |-> [fingerprint |-> fingerprint[k], count |-> c], count |-> c]

DecayKeepsCount(b, k, n) ==
  {[bucket |-> [b EXCEPT !.count = @ - d], count |-> 0] : d \in {d \in 0 .. n : d < b.count}}
  \cup {Owned(k, b.count + left) : left \in 1 .. (n - b.count + 1)}

\* n trials against another fingerprint's counter.  Each may take one from it.
\* The one that takes the last gives the bucket to k, with the trials that were
\* left, itself included.
Decay(b, k, n) ==
  {[bucket |-> [b EXCEPT !.count = @ - d], count |-> 0] : d \in {d \in 0 .. n : d < b.count}}
  \cup {Owned(k, left) : left \in 1 .. (n - b.count + 1)}

\* What counting k n times may make of its bucket, and what the row reports.
Touch(b, k, n) ==
  IF b.count = 0 THEN {Owned(k, n)}
  ELSE IF b.fingerprint = fingerprint[k] THEN {Owned(k, (b.count + n) % (MaxCount + 1))}
  ELSE Decay(b, k, n)

At(r, k) == buckets[r][hash[r][k]]

Touched(k, n) ==
  {o \in [Row -> UNION {Touch(At(r, k), k, n) : r \in Row}] :
     \A r \in Row : o[r] \in Touch(At(r, k), k, n)}

AdmitAnyway(k, c) == IF c < minCount THEN top ELSE Put(top, k, c)

\* The table after the sketch has reported c for k.
Admit(k, c) ==
  IF c < minCount \/ (Cardinality(DOMAIN top) = K /\ c < Min(top)) THEN top
  ELSE Upserted(top, k, c)

add(k, n) ==
  \E o \in Touched(k, n) : \E c \in {o[r].count : r \in Row} :
    /\ \A r \in Row : o[r].count <= c
    /\ buckets' = [r \in Row |-> [buckets[r] EXCEPT ![hash[r][k]] = o[r].bucket]]
    /\ top' = Admit(k, c)
    /\ total' = total + n

Unlocked == todo = Empty

Add(k) ==
  /\ Unlocked
  /\ accesses[k] < MaxAccesses
  /\ add(k, 1)
  /\ accesses' = [accesses EXCEPT ![k] = @ + 1]
  /\ UNCHANGED <<todo, cut>>

(***************************************************************************)
(* Remove, Fading, Reset, List and Restore.                                *)
(***************************************************************************)
\* Only the table forgets the key; its counters stay in the sketch.
RemoveKey(k) ==
  /\ Unlocked
  /\ k \in DOMAIN top
  /\ Remove(k)
  /\ cut' = TRUE
  /\ UNCHANGED <<buckets, total, todo, accesses>>

FadeBuckets == buckets' = [r \in Row |-> [s \in Slot |-> [buckets[r][s] EXCEPT !.count = @ \div 2]]]

FadingTableOnly ==
  /\ Unlocked
  /\ ScaleDown
  /\ total' = total \div 2
  /\ accesses' = [k \in Key |-> accesses[k] \div 2]
  /\ UNCHANGED <<buckets, todo, cut>>

Fading ==
  /\ Unlocked
  /\ FadeBuckets
  /\ ScaleDown
  /\ total' = total \div 2
  /\ accesses' = [k \in Key |-> accesses[k] \div 2]
  /\ UNCHANGED <<todo, cut>>

reset ==
  /\ buckets' = Clear /\ top' = Empty /\ total' = 0
  /\ accesses' = [k \in Key |-> 0] /\ cut' = FALSE

\* recoverWatcher, or a new process that finds no checkpoint.
Reset == Unlocked /\ reset /\ UNCHANGED todo

\* List, saveCheckpoint, and a new process that restores those of the items
\* that are still on disk.  A checkpoint may be older than the process's last
\* breath; since nothing but the items survives, that is the same as a process
\* that ended when it was saved.
Restore(existing) ==
  /\ Unlocked
  /\ reset
  /\ todo' = [k \in existing |-> top[k]]

RestoreNext ==
  /\ ~Unlocked
  /\ LET k == Hottest(todo)
     IN  /\ add(k, todo[k])
         /\ accesses' = [accesses EXCEPT ![k] = @ + todo[k]]
         /\ todo' = Drop(todo, k)
  /\ UNCHANGED cut

HKNext ==
  \/ \E k \in Key : Add(k) \/ RemoveKey(k)
  \/ Fading \/ Reset \/ RestoreNext
  \/ \E existing \in SUBSET DOMAIN top : Restore(existing)

HKSpec == HKInit /\ [][HKNext]_vars

(***************************************************************************)
(* Properties.                                                             *)
(***************************************************************************)
\* No other key hashes to the fingerprint of k.
OwnFingerprint(k) == \A j \in Key : fingerprint[j] = fingerprint[k] => j = k

\* The heat of a key that shares its fingerprint with no other is never more than
\* how often it was counted since the sketch was last empty, faded like the
\* sketch: competition for buckets, decay, overflow and restoring a checkpoint
\* only ever lose counts.
NoOverestimate ==
  \A k \in DOMAIN top : OwnFingerprint(k) => top[k] <= accesses[k]

\* Even keys that share a fingerprint cannot be counted higher than everything
\* that was counted: no heat exceeds Total().
HeatBelowTotal == \A k \in DOMAIN top : top[k] <= total

\* The sketch counts key k at most c times.
AtMost(sketch, k, c) ==
  \A r \in Row : LET b == sketch[r][hash[r][k]]
                IN  b.fingerprint = fingerprint[k] => b.count <= c

\* As long as no key was removed, the table holds the hottest keys: a key that it
\* does not hold, and that is not confused with another, is below minCount, or
\* the table is full and the sketch counts the key no higher than anything in it,
\* through overflow, decay and fading.
HottestTracked ==
  ~cut =>
    \A k \in Key \ DOMAIN top : OwnFingerprint(k) =>
      \/ AtMost(buckets, k, minCount - 1)
      \/ /\ Cardinality(DOMAIN top) = K
         /\ \A t \in DOMAIN top : AtMost(buckets, k, top[t])
=============================================================================
