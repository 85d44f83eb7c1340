----------------------------- MODULE MCEviction -----------------------------
(* Small instances of Eviction for TLC. *)
EXTENDS Eviction, TLC

CONSTANTS a1, a2, c1, c2,          \* keys: a* under ac/, c* under cas/
          MinimumResidence, WarmupDuration, MinActionCacheBytes

\* Inodes, and the keys under ac/, are told apart by nothing but equality.
Symmetry == Permutations(Inode) \cup Permutations(ActionKey)

MCPolicy ==
  [ DiskCheckInterval |-> 1, CheckpointInterval |-> 1, TopKDecayInterval |-> 1,
    MinimumResidence |-> MinimumResidence, WarmupDuration |-> WarmupDuration,
    MinPercentBlocksFree |-> 20, EvictUntilPercentBlocksFree |-> 50,
    MaxCacheBytes |-> 4, TargetCacheBytes |-> 2,
    MinActionCacheBytes |-> MinActionCacheBytes,
    CleanupBatchSize |-> 2,
    TopKCapacity |-> 1, TopKWidth |-> 1, TopKDepth |-> 1, TopKDecay |-> 90,
    TopKMinCount |-> 1 ]
=============================================================================
