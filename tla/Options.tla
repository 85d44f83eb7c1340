------------------------------ MODULE Options -------------------------------
(***************************************************************************)
(* From command line to eviction policy: the checks of parseOptions, the   *)
(* conversions of evictionConfig (main.go) and Validate (eviction/policy.  *)
(* go), in integers of the machine's widths.  Options that are copied as   *)
(* they are have their defaults.                                           *)
(***************************************************************************)
EXTENDS Integers

CONSTANTS
  gibibyte,
  MaxInt64, MaxUint32,  \* largest values of the two types
  GiB, Count, Port,     \* values on the command line: of --*-gib, --top-k-*, --*-port
  MaxPort               \* 65535

ASSUME OptionsAssumption ==
  /\ gibibyte \in Nat \ {0} /\ MaxInt64 \in Nat /\ MaxUint32 \in Nat
  /\ GiB \subseteq Nat /\ Count \subseteq Nat
  /\ Port \subseteq Int /\ MaxPort \in Nat

VARIABLE opts

Policies == INSTANCE EvictionPolicy WITH Policy <- opts, Blocks <- 1

\* The defaults.
OptionsInit ==
  opts = [ cacheDirSet |-> FALSE, args |-> 0, metricsPort |-> 1, pprofPort |-> 0,
           maxCacheGiB |-> 3, targetCacheGiB |-> 1, minActionCacheGiB |-> 1,
           topKCapacity |-> 1, topKWidth |-> 1, topKDepth |-> 1, topKMinCount |-> 1 ]

CommandLine ==
  [ cacheDirSet : BOOLEAN, args : {0, 1}, metricsPort : Port, pprofPort : Port,
    maxCacheGiB : GiB, targetCacheGiB : GiB, minActionCacheGiB : GiB,
    topKCapacity : Count, topKWidth : Count, topKDepth : Count, topKMinCount : Count ]

\* flags.Parse, once, on any command line; leaving out a flag is giving it its
\* default.
OptionsNext == OptionsInit /\ opts' \in CommandLine

\* parseOptions returns no error.
parseOptions(o) ==
  /\ o.args = 0 /\ o.cacheDirSet
  /\ o.metricsPort > 0 /\ o.metricsPort <= MaxPort
  /\ o.pprofPort >= 0 /\ o.pprofPort <= MaxPort

\* Conversion to int64 and to uint32.
int64(v) == ((v + MaxInt64 + 1) % (2 * (MaxInt64 + 1))) - (MaxInt64 + 1)
uint32(v) == v % (MaxUint32 + 1)

gibToBytesUnchecked(value) == <<TRUE, int64(value * gibibyte)>>

\* Whether gibToBytes accepts the value, and its result.
gibToBytes(value) ==
  <<value <= MaxInt64 \div gibibyte, int64(int64(value) * gibibyte)>>

\* evictionConfig returns no error.
Convertible(o) ==
  /\ gibToBytes(o.maxCacheGiB)[1] /\ gibToBytes(o.targetCacheGiB)[1]
  /\ gibToBytes(o.minActionCacheGiB)[1]
  /\ o.topKCapacity <= MaxUint32 /\ o.topKWidth <= MaxUint32
  /\ o.topKDepth <= MaxUint32 /\ o.topKMinCount <= MaxUint32

evictionConfig(o) ==
  [ DiskCheckInterval |-> 1, CheckpointInterval |-> 5, TopKDecayInterval |-> 60,
    MinimumResidence |-> 60, WarmupDuration |-> 30,
    MinPercentBlocksFree |-> 30, EvictUntilPercentBlocksFree |-> 35,
    MaxCacheBytes |-> gibToBytes(o.maxCacheGiB)[2],
    TargetCacheBytes |-> gibToBytes(o.targetCacheGiB)[2],
    MinActionCacheBytes |-> gibToBytes(o.minActionCacheGiB)[2],
    CleanupBatchSize |-> 100,
    TopKCapacity |-> uint32(o.topKCapacity), TopKWidth |-> uint32(o.topKWidth),
    TopKDepth |-> uint32(o.topKDepth), TopKDecay |-> 90,
    TopKMinCount |-> uint32(o.topKMinCount) ]

\* The daemon starts: parseOptions, evictionConfig and New accept the options.
Starts(o) == parseOptions(o) /\ Convertible(o) /\ Policies!Validate(evictionConfig(o))

(***************************************************************************)
(* Properties.                                                             *)
(***************************************************************************)
\* A daemon that starts works with the watermarks and sizes it was given, not
\* with what is left of them after an overflow, and those are in order as given.
MeansWhatItSays ==
  Starts(opts) =>
    LET p == evictionConfig(opts)
    IN  /\ p.MaxCacheBytes = opts.maxCacheGiB * gibibyte
        /\ p.TargetCacheBytes = opts.targetCacheGiB * gibibyte
        /\ p.MinActionCacheBytes = opts.minActionCacheGiB * gibibyte
        /\ p.TopKCapacity = opts.topKCapacity /\ p.TopKWidth = opts.topKWidth
        /\ p.TopKDepth = opts.topKDepth /\ p.TopKMinCount = opts.topKMinCount
        /\ opts.minActionCacheGiB <= opts.targetCacheGiB
        /\ opts.targetCacheGiB < opts.maxCacheGiB
        /\ opts.topKCapacity > 0 /\ opts.topKWidth > 0
        /\ opts.topKDepth > 0 /\ opts.topKMinCount > 0
=============================================================================
