--------------------------- MODULE EvictionPolicy ---------------------------
(***************************************************************************)
(* The watermark policy of eviction/policy.go.                             *)
(*                                                                         *)
(* A free-space percentage is bytesFree / (bytesFree + bytesUsed) * 100.   *)
(* The sum is the size of the file system, the constant Blocks, so a       *)
(* percentage is compared here by cross-multiplication: free * 100 against *)
(* percent * Blocks.  Percentages and TopKDecay (in hundredths) are        *)
(* integers, which leaves out only the NaN and Inf tests of Validate.  The *)
(* field Shadow, which selects a mode, is state of the process in Eviction.*)
(***************************************************************************)
EXTENDS Integers

CONSTANTS
  Policy,   \* an EvictionPolicy record
  Blocks    \* size of the file system that holds the cache

EvictionPolicyType ==
  [ DiskCheckInterval : Int, CheckpointInterval : Int, TopKDecayInterval : Int,
    MinimumResidence : Int, WarmupDuration : Int,
    MinPercentBlocksFree : Int, EvictUntilPercentBlocksFree : Int,
    MaxCacheBytes : Int, TargetCacheBytes : Int, MinActionCacheBytes : Int,
    CleanupBatchSize : Int,
    TopKCapacity : Nat, TopKWidth : Nat, TopKDepth : Nat, TopKDecay : Int,
    TopKMinCount : Nat ]

validatePercent(value) == value >= 0 /\ value <= 100

Validate(p) ==
  /\ p.DiskCheckInterval > 0
  /\ p.CheckpointInterval > 0
  /\ p.TopKDecayInterval > 0
  /\ p.MinimumResidence >= 0 /\ p.WarmupDuration >= 0
  /\ validatePercent(p.MinPercentBlocksFree)
  /\ validatePercent(p.EvictUntilPercentBlocksFree)
  /\ p.MinPercentBlocksFree < p.EvictUntilPercentBlocksFree
  /\ p.MaxCacheBytes > 0
  /\ p.TargetCacheBytes >= 0 /\ p.TargetCacheBytes < p.MaxCacheBytes
  /\ p.MinActionCacheBytes >= 0 /\ p.MinActionCacheBytes <= p.TargetCacheBytes
  /\ p.CleanupBatchSize > 0
  /\ p.TopKCapacity # 0 /\ p.TopKWidth # 0 /\ p.TopKDepth # 0 /\ p.TopKMinCount # 0
  /\ p.TopKDecay > 0 /\ p.TopKDecay < 100

\* eviction.New returns an error for a policy that Validate rejects, and
\* GetDiskUsage one for a file system of zero blocks.
ASSUME PolicyAssumption ==
  /\ Policy \in EvictionPolicyType
  /\ Validate(Policy)
  /\ Blocks \in Nat \ {0}

nextEvictingInclusive(current, free, cacheBytes) ==
  IF current
  THEN \/ free * 100 < Policy.EvictUntilPercentBlocksFree * Blocks
       \/ cacheBytes >= Policy.TargetCacheBytes
  ELSE \/ free * 100 <= Policy.MinPercentBlocksFree * Blocks
       \/ cacheBytes >= Policy.MaxCacheBytes

\* Eviction starts at the outer pair of watermarks and, once started, goes on
\* until both inner ones are met.
nextEvicting(current, free, cacheBytes) ==
  IF current
  THEN \/ free * 100 < Policy.EvictUntilPercentBlocksFree * Blocks
       \/ cacheBytes > Policy.TargetCacheBytes
  ELSE \/ free * 100 <= Policy.MinPercentBlocksFree * Blocks
       \/ cacheBytes >= Policy.MaxCacheBytes
=============================================================================
