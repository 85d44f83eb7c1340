--------------------------- MODULE EvictionProofs ---------------------------
(***************************************************************************)
(* Theorems about Eviction, for every policy that Validate accepts and any *)
(* number of clients, keys, sizes and inodes.                              *)
(***************************************************************************)
EXTENDS Eviction, FiniteSetTheorems, TLAPS

USE DEF leaseVars, diskVars, notifyVars, scanVars, passVars, deleteVars, hoshinoVars

(***************************************************************************)
(* The policy.                                                             *)
(***************************************************************************)
\* The thresholds of Policy as plain numbers.
LEMMA PolicyNumbers ==
  /\ Policy.MinimumResidence \in Int /\ Policy.WarmupDuration \in Int
  /\ Policy.MinPercentBlocksFree \in Int /\ Policy.EvictUntilPercentBlocksFree \in Int
  /\ Policy.MaxCacheBytes \in Int /\ Policy.TargetCacheBytes \in Int
  /\ Policy.MinActionCacheBytes \in Int /\ Policy.CleanupBatchSize \in Int
  /\ Policy.MinimumResidence >= 0 /\ Policy.WarmupDuration >= 0
  /\ Policy.MinPercentBlocksFree < Policy.EvictUntilPercentBlocksFree
  /\ Policy.TargetCacheBytes < Policy.MaxCacheBytes
  /\ Blocks \in Nat /\ Blocks > 0
BY PolicyAssumption DEF EvictionPolicyType, Validate

\* The watermarks form a hysteresis band: pressure that starts an eviction is
\* pressure that keeps one going, so Policy.nextEvicting cannot flap between
\* two calls on the same measure.
THEOREM Hysteresis ==
  ASSUME NEW f \in Int, NEW c \in Int, nextEvicting(FALSE, f, c)
  PROVE  nextEvicting(TRUE, f, c)
<1> DEFINE lo == Policy.MinPercentBlocksFree
           hi == Policy.EvictUntilPercentBlocksFree
<1>1. lo \in Int /\ hi \in Int /\ Blocks \in Int /\ lo < hi /\ Blocks > 0
  BY PolicyNumbers
<1>2. lo * Blocks < hi * Blocks
  <2> HIDE DEF lo, hi
  <2>1. (hi - lo) * Blocks > 0
    BY <1>1, Z3
  <2>2. (hi - lo) * Blocks = hi * Blocks - lo * Blocks
    BY <1>1, Z3
  <2>3. lo * Blocks \in Int /\ hi * Blocks \in Int
    BY <1>1
  <2> QED BY <2>1, <2>2, <2>3
<1>3. lo * Blocks \in Int /\ hi * Blocks \in Int
  BY <1>1
<1>4. f * 100 <= lo * Blocks => f * 100 < hi * Blocks
  <2> HIDE DEF lo, hi
  <2> QED BY <1>2, <1>3
<1>5. c >= Policy.MaxCacheBytes => c > Policy.TargetCacheBytes
  BY PolicyNumbers
<1> QED BY <1>4, <1>5, Zenon DEF nextEvicting

(***************************************************************************)
(* Types.                                                                  *)
(***************************************************************************)
\* What nextEvicting returns is a Boolean.
LEMMA NextEvictingBoolean ==
  ASSUME NEW b \in BOOLEAN, NEW f, NEW c
  PROVE  nextEvicting(b, f, c) \in BOOLEAN
BY Zenon DEF nextEvicting

\* A snapshot of a typed file is a typed EntryInfo.
LEMMA SnapshotType ==
  ASSUME DiskTypeOK, NEW k \in Key, HasSnapshot(k)
  PROVE  Snapshot(k) \in EntryInfo /\ files[k].size \in Int /\ Snapshot(k).mtime \in Nat
BY DiskCacheAssumption DEF DiskTypeOK, HasSnapshot, Snapshot, EntryInfo, Attr

\* Sizes and times of a snapshot are integers.
LEMMA EntryNumbers ==
  ASSUME NEW e \in EntryInfo
  PROVE  e.size \in Nat /\ e.mtime \in Nat /\ e.key \in Key
BY DiskCacheAssumption, Zenon DEF EntryInfo

\* The values locals are reset to have their types.
LEMMA DropLocalsType ==
  ASSUME DropLocals
  PROVE  /\ now' \in Nat /\ todo' \in SUBSET Key
         /\ entries' \in SUBSET EntryInfo /\ victim' \in SUBSET EntryInfo
         /\ rootFD' \in BOOLEAN /\ cacheBytes' \in Int /\ actionCacheBytes' \in Int
         /\ bytesFree' \in Int /\ bytesSinceCheck' \in Int /\ deletedSinceCheck' \in Int
         /\ seen' \in Int
<1>1. rootFD' \in BOOLEAN
  BY Zenon DEF DropLocals
<1>2. /\ now' \in Nat /\ todo' \in SUBSET Key
      /\ entries' \in SUBSET EntryInfo /\ victim' \in SUBSET EntryInfo
      /\ cacheBytes' \in Int /\ actionCacheBytes' \in Int
      /\ bytesFree' \in Int /\ bytesSinceCheck' \in Int /\ deletedSinceCheck' \in Int
      /\ seen' \in Int
  BY DEF DropLocals
<1> QED BY <1>1, <1>2, Zenon

\* Leaving cleanup keeps the types.
LEMMA ReturnType ==
  ASSUME TypeOK, Return, evicting' \in BOOLEAN,
         UNCHANGED <<warmUntil, heat, shadow, edits, diskVars>>
  PROVE  TypeOK'
<1>1. LeaseTypeOK'
  BY Zenon DEF TypeOK, LeaseTypeOK, Return, ReleaseExclusive
<1>2. DiskTypeOK'
  BY Zenon DEF TypeOK, DiskTypeOK
<1>3. /\ pc' \in PC /\ evicting' \in BOOLEAN /\ warmUntil' \in Int
      /\ heat' \in [Key -> Nat] /\ edits' \in Nat
  BY Zenon DEF TypeOK, Return, PC
<1> QED BY <1>1, <1>2, <1>3, DropLocalsType, Zenon DEF TypeOK, Return

\* The type invariant is preserved by every step.
LEMMA TypeStep ==
  ASSUME TypeOK, [Next]_vars
  PROVE  TypeOK'
<1> USE DEF TypeOK, PC
<1>1. CASE StartCleanup
  BY <1>1 DEF StartCleanup, BeginScan, LeaseTypeOK, DiskTypeOK
<1>2. ASSUME NEW k \in Key, VisitEntry(k) PROVE TypeOK'
  <2>1. CASE HasSnapshot(k)
    BY <1>2, <2>1, SnapshotType DEF VisitEntry, Seen, LeaseTypeOK, DiskTypeOK
  <2>2. CASE ~HasSnapshot(k)
    BY <1>2, <2>2, Zenon DEF VisitEntry, Seen, LeaseTypeOK, DiskTypeOK
  <2> QED BY <2>1, <2>2, Zenon
<1>3. CASE MeasurePressure
  <2>1. evicting' \in BOOLEAN
    BY <1>3, NextEvictingBoolean, Zenon DEF MeasurePressure
  <2>2. CASE Return
    BY <1>3, <2>1, <2>2, ReturnType, Zenon DEF MeasurePressure
  <2>3. CASE ~Return
    BY <1>3, <2>1, <2>3, Zenon DEF MeasurePressure, LeaseTypeOK, DiskTypeOK
  <2> QED BY <2>2, <2>3, Zenon
<1>4. CASE TryExclusive
  <2>1. CASE Busy
    BY <1>4, <2>1, ReturnType, Zenon DEF TryExclusive
  <2>2. CASE ~Busy
    BY <1>4, <2>2 DEF TryExclusive, AcquireExclusive, BeginScan, LeaseTypeOK, DiskTypeOK
  <2> QED BY <2>1, <2>2, Zenon
<1>5. CASE SelectNext
  <2>1. CASE entries = {}
    BY <1>5, <2>1, ReturnType, Zenon DEF SelectNext
  <2>2. CASE entries # {}
    BY <1>5, <2>2, Zenon DEF SelectNext, NextInOrder, LeaseTypeOK, DiskTypeOK
  <2> QED BY <2>1, <2>2, Zenon
<1>o. CASE OpenRoot
  <2>1. CASE Skip
    BY <1>o, <2>1, Zenon DEF OpenRoot, Skip, LeaseTypeOK, DiskTypeOK
  <2>2. CASE ~Skip
    BY <1>o, <2>2, Zenon DEF OpenRoot, LeaseTypeOK, DiskTypeOK
  <2> QED BY <2>1, <2>2, Zenon
<1>6. CASE Revalidate
  BY <1>6, Zenon DEF Revalidate, Skip, LeaseTypeOK, DiskTypeOK
<1>7. CASE UnlinkVictim
  <2>1. PICK e \in victim : UnlinkSucceeds(e) \/ UnlinkFindsNothing(e)
    BY <1>7, Zenon DEF UnlinkVictim
  <2>2. e \in EntryInfo /\ e.size \in Nat /\ e.key \in Key
    BY <2>1, EntryNumbers, Zenon
  <2>3. CASE UnlinkSucceeds(e)
    <3>1. DiskTypeOK'
      <4>1. free' \in Int
        <5>1. Opened(rootFD)[e.key].size \in Nat
          BY <2>3, DiskCacheAssumption, Zenon DEF UnlinkSucceeds, Unlinkat, Opened, DiskTypeOK, Attr
        <5> QED BY <2>3, <5>1 DEF UnlinkSucceeds, Unlinkat, DiskTypeOK
      <4>2. CASE rootFD = rootReplaced
        BY <2>3, <4>1, <4>2, Zenon DEF UnlinkSucceeds, Unlinkat, Without, DiskTypeOK
      <4>3. CASE rootFD # rootReplaced
        BY <2>3, <4>1, <4>3, Zenon DEF UnlinkSucceeds, Unlinkat, Without, DiskTypeOK
      <4> QED BY <4>2, <4>3, Zenon
    <3>2. heat' \in [Key -> Nat]
      BY <2>2, <2>3, Zenon DEF UnlinkSucceeds
    <3> QED BY <2>3, <3>1, <3>2 DEF UnlinkSucceeds, LeaseTypeOK
  <2>4. CASE UnlinkFindsNothing(e)
    BY <2>4, Zenon DEF UnlinkFindsNothing, Skip, LeaseTypeOK, DiskTypeOK
  <2> QED BY <2>1, <2>3, <2>4, Zenon
<1>8. CASE Account
  <2>1. PICK e \in victim : AccountFor(e)
    BY <1>8, Zenon DEF Account
  <2>2. e.size \in Nat
    BY EntryNumbers, Zenon
  <2>3. CASE Return
    BY <1>8, <2>3, ReturnType, Zenon DEF Account
  <2>4. CASE ~Return
    <3>1. LeaseTypeOK' /\ DiskTypeOK'
      BY <1>8, <2>1, <2>4, Zenon DEF Account, AccountFor, LeaseTypeOK, DiskTypeOK
    <3>2. /\ cacheBytes' \in Int /\ actionCacheBytes' \in Int /\ seen' \in Int
          /\ bytesFree' \in Int /\ bytesSinceCheck' \in Int /\ deletedSinceCheck' \in Int
      <4>1. /\ cacheBytes' = cacheBytes - e.size
            /\ actionCacheBytes' = actionCacheBytes - IF IsAction(e.key) THEN e.size ELSE 0
        BY <2>1, <2>4, Zenon DEF AccountFor
      <4>2. bytesFree' \in {free, bytesFree} /\ bytesSinceCheck' \in {0, bytesSinceCheck + e.size}
        BY <2>1, <2>4, Zenon DEF AccountFor
      <4>3. deletedSinceCheck' \in {0, deletedSinceCheck} /\ seen' \in {free, seen + e.size}
        BY <2>1, <2>4, Zenon DEF AccountFor
      <4>4. (IF IsAction(e.key) THEN e.size ELSE 0) \in Int
        BY <2>2
      <4> QED BY <2>2, <4>1, <4>2, <4>3, <4>4 DEF DiskTypeOK
    <3>3. pc' \in PC /\ victim' \in SUBSET EntryInfo
      BY <1>8, <2>1, <2>4, Zenon DEF Account, AccountFor, Continue
    <3>4. rootFD' \in BOOLEAN
      BY <2>1, <2>4, Zenon DEF AccountFor, Continue
    <3> QED BY <1>8, <2>1, <2>4, <3>1, <3>2, <3>3, <3>4 DEF Account, AccountFor
  <2> QED BY <2>3, <2>4, Zenon
<1>9. CASE Confirm
  <2>1. CASE Return
    BY <1>9, <2>1, ReturnType, Zenon DEF Confirm, Continue
  <2>2. CASE ~Return
    BY <1>9, <2>2, Zenon DEF Confirm, Continue, LeaseTypeOK, DiskTypeOK
  <2> QED BY <2>1, <2>2, Zenon
<1>10. CASE CycleFails
  BY <1>10, ReturnType, Zenon DEF CycleFails
<1>11. CASE DeleteFails
  BY <1>11, Zenon DEF DeleteFails, Skip, LeaseTypeOK, DiskTypeOK
<1>12. CASE Start
  <2>1. heat' \in [Key -> Nat]
    <3>1. CASE heat' \in [Key -> 0 .. MaxHeat]
      BY <3>1, EvictionAssumption
    <3> QED BY <1>12, <3>1 DEF Start, Cold
  <2>2. warmUntil' \in Int
    BY <1>12, PolicyNumbers DEF Start, DiskTypeOK
  <2>3. LeaseTypeOK' /\ DiskTypeOK'
    BY <1>12, Zenon DEF Start, NoFiles, LeaseTypeOK, DiskTypeOK
  <2> QED BY <1>12, <2>1, <2>2, <2>3, Zenon DEF Start
<1>13. ASSUME NEW k \in Key, HeatChanges(k) PROVE TypeOK'
  BY <1>13, EvictionAssumption DEF HeatChanges, LeaseTypeOK, DiskTypeOK
<1>14. CASE RecoverWatcher
  BY <1>14, PolicyNumbers DEF RecoverWatcher, Cold, LeaseTypeOK, DiskTypeOK
<1>15. CASE Crash
  <2>1. LeaseTypeOK' /\ DiskTypeOK'
    BY <1>15, Zenon DEF Crash, ReleaseExclusive, LeaseTypeOK, DiskTypeOK
  <2>2. pc' \in PC /\ warmUntil' \in Int /\ heat' \in [Key -> Nat] /\ edits' \in Nat
    BY <1>15 DEF Crash, Cold
  <2>3. evicting' \in BOOLEAN /\ shadow' \in BOOLEAN
    BY <1>15, EvictionAssumption, Zenon DEF Crash
  <2> QED BY <1>15, <2>1, <2>2, <2>3, DropLocalsType, Zenon DEF Crash
<1>16. CASE ClientLease
  BY <1>16 DEF ClientLease, RequestShared, GrantShared, ReleaseShared, LeaseTypeOK, DiskTypeOK
<1>17. CASE AlterCache
  <2>1. DiskTypeOK'
    <3>1. ASSUME NEW k \in Key, NEW i \in Inode, NEW s \in Size, NEW r \in {TRUE, Lawless = {}},
                 PutEntry(k, [Entry(i, s, clock) EXCEPT !.regular = r])
          PROVE  DiskTypeOK'
      <4> DEFINE a == [Entry(i, s, clock) EXCEPT !.regular = r]
      <4>1. a \in Attr /\ a.size \in Int
        <5>1. a = [inode |-> i, size |-> s, mtime |-> clock, regular |-> r]
          BY DEF Entry
        <5>2. r \in BOOLEAN
          BY Zenon
        <5> QED BY <5>1, <5>2, DiskCacheAssumption DEF Attr, DiskTypeOK
      <4>2. SizeOf(k) \in Int
        BY DiskCacheAssumption DEF SizeOf, DiskTypeOK, Attr
      <4>3. PutEntry(k, a)
        BY <3>1, Zenon
      <4> HIDE DEF a
      <4> QED BY <4>1, <4>2, <4>3 DEF PutEntry, Altered, DiskTypeOK
    <3>2. ASSUME NEW k \in Key, TouchEntry(k) PROVE DiskTypeOK'
      BY <3>2 DEF TouchEntry, Altered, DiskTypeOK, Attr
    <3>3. ASSUME NEW k \in Key, DropEntry(k) PROVE DiskTypeOK'
      BY <3>3, DiskCacheAssumption DEF DropEntry, Altered, Without, DiskTypeOK, Attr
    <3>4. CASE ReplaceRoot
      BY <3>4, Zenon DEF ReplaceRoot, NoFiles, DiskTypeOK
    <3>5. ASSUME NEW k \in Key, DropMoved(k) PROVE DiskTypeOK'
      BY <3>5, DiskCacheAssumption DEF DropMoved, Without, DiskTypeOK, Attr
    <3> QED BY <1>17, <3>1, <3>2, <3>3, <3>4, <3>5, Zenon DEF AlterCache
  <2> QED BY <1>17, <2>1 DEF AlterCache, LeaseTypeOK
<1>18. CASE OtherPods
  BY <1>18, PolicyNumbers DEF OtherPods, OtherUse, LeaseTypeOK, DiskTypeOK
<1>19. CASE TimePasses
  BY <1>19 DEF TimePasses, Tick, LeaseTypeOK, DiskTypeOK
<1>20. CASE UNCHANGED vars
  BY <1>20 DEF vars, LeaseTypeOK, DiskTypeOK
<1> QED
  BY <1>1, <1>2, <1>3, <1>4, <1>5, <1>6, <1>7, <1>8, <1>9, <1>10, <1>11, <1>12, <1>13,
     <1>o, <1>14, <1>15, <1>16, <1>17, <1>18, <1>19, <1>20, Zenon DEF Next, CleanupStep

\* Every reachable state is well typed.
THEOREM TypeCorrect == Spec => []TypeOK
<1>1. Init => TypeOK
  <2> SUFFICES ASSUME Init PROVE TypeOK
    BY Zenon
  <2>1. DOMAIN files \subseteq Key /\ files \in [DOMAIN files -> Attr]
    <3>1. PICK i \in Inode, S \in SUBSET Key : files \in [S -> {Entry(i, s, 0) : s \in Size}]
      BY Zenon DEF Init
    <3>2. \A s \in Size : Entry(i, s, 0) \in Attr
      BY Zenon DEF Entry, Attr
    <3> QED BY <3>1, <3>2, Zenon
  <2>6. DOMAIN moved \subseteq Key /\ moved \in [DOMAIN moved -> Attr]
    BY Zenon DEF Init, NoFiles
  <2>2. free \in Int /\ clock \in Nat /\ changed \in SUBSET Key
    BY PolicyNumbers DEF Init
  <2>3. /\ rootReplaced \in BOOLEAN /\ evicting \in BOOLEAN /\ rootFD \in BOOLEAN
        /\ shadow \in BOOLEAN
    BY EvictionAssumption, Zenon DEF Init
  <2>4. LeaseTypeOK
    BY Zenon DEF Init, LeaseInit, LeaseTypeOK
  <2>5. heat \in [Key -> Nat]
    BY ZenonT(40) DEF Init, Cold
  <2> QED BY <2>1, <2>2, <2>3, <2>4, <2>5, <2>6 DEF Init, TypeOK, DiskTypeOK, PC
<1> QED BY <1>1, TypeStep, PTL DEF Spec

(***************************************************************************)
(* The lease.                                                              *)
(***************************************************************************)
\* Who holds the lock at which point of cleanup.
LeaseInv ==
  /\ exclusive => /\ shared = {} /\ ~shadow
                  /\ pc \in {"scan", "select", "open", "stat", "unlink", "account", "confirm"}
  /\ pc = "lease" => ~shadow
  /\ pc \in {"open", "stat", "unlink", "confirm"} => exclusive
  /\ pc \in {"select", "account"} => exclusive \/ shadow

\* LeaseInv is preserved by every step.
LEMMA LeaseStep ==
  ASSUME LeaseInv, [Next]_vars
  PROVE  LeaseInv'
<1> USE DEF LeaseInv
<1>0. ASSUME Return PROVE LeaseInv'
  BY <1>0, Zenon DEF Return, ReleaseExclusive
<1>1. CASE StartCleanup
  BY <1>1, Zenon DEF StartCleanup
<1>2. ASSUME NEW k \in Key, VisitEntry(k) PROVE LeaseInv'
  BY <1>2, Zenon DEF VisitEntry
<1>3. CASE MeasurePressure
  <2>1. CASE ~Return
    BY <1>3, <2>1, Zenon DEF MeasurePressure
  <2> QED BY <1>0, <2>1, Zenon
<1>4. CASE TryExclusive
  <2>1. CASE ~Return
    BY <1>4, <2>1, Zenon DEF TryExclusive, AcquireExclusive, Busy
  <2> QED BY <1>0, <2>1, Zenon
<1>5. CASE SelectNext
  <2>1. CASE ~Return
    BY <1>5, <2>1, Zenon DEF SelectNext
  <2> QED BY <1>0, <2>1, Zenon
<1>o. CASE OpenRoot
  BY <1>o, Zenon DEF OpenRoot, Skip
<1>6. CASE Revalidate
  BY <1>6, Zenon DEF Revalidate, Skip
<1>7. CASE UnlinkVictim
  <2>1. PICK e \in victim : UnlinkSucceeds(e) \/ UnlinkFindsNothing(e)
    BY <1>7, Zenon DEF UnlinkVictim
  <2>2. pc = "unlink" /\ pc' \in {"account", "select"} /\ UNCHANGED <<shadow, leaseVars>>
    BY <1>7, <2>1, Zenon DEF UnlinkVictim, UnlinkSucceeds, UnlinkFindsNothing, Skip
  <2> QED BY <2>2, Zenon
<1>8. CASE Account
  <2>1. PICK e \in victim : AccountFor(e)
    BY <1>8, Zenon DEF Account
  <2>2. CASE ~Return
    <3>1. UNCHANGED leaseVars /\ pc' \in {"select", "confirm"} /\ (pc' = "confirm" => ~shadow)
      BY <2>1, <2>2, Zenon DEF AccountFor, Continue
    <3> QED BY <1>8, <3>1, Zenon DEF Account
  <2> QED BY <1>0, <2>2, Zenon
<1>9. CASE Confirm
  BY <1>0, <1>9, Zenon DEF Confirm, Continue
<1>10. CASE CycleFails
  BY <1>0, <1>10, Zenon DEF CycleFails
<1>11. CASE DeleteFails
  BY <1>11, Zenon DEF DeleteFails, Skip
<1>12. CASE Start
  BY <1>12, Zenon DEF Start
<1>13. ASSUME NEW k \in Key, HeatChanges(k) PROVE LeaseInv'
  BY <1>13, Zenon DEF HeatChanges
<1>14. CASE RecoverWatcher
  BY <1>14, Zenon DEF RecoverWatcher
<1>15. CASE Crash
  BY <1>15, Zenon DEF Crash, ReleaseExclusive
<1>16. CASE ClientLease
  BY <1>16 DEF ClientLease, RequestShared, GrantShared, ReleaseShared
<1>17. CASE AlterCache
  BY <1>17, Zenon DEF AlterCache
<1>18. CASE OtherPods
  BY <1>18, Zenon DEF OtherPods
<1>19. CASE TimePasses
  BY <1>19, Zenon DEF TimePasses
<1>20. CASE UNCHANGED vars
  BY <1>20, Zenon DEF vars
<1> QED
  BY <1>1, <1>2, <1>3, <1>4, <1>5, <1>6, <1>7, <1>8, <1>9, <1>10, <1>11, <1>12, <1>13,
     <1>o, <1>14, <1>15, <1>16, <1>17, <1>18, <1>19, <1>20 DEF Next, CleanupStep

\* LeaseInv holds in every reachable state.
LEMMA LeaseAlways == Spec => []LeaseInv
<1>1. Init => LeaseInv
  BY Zenon DEF Init, LeaseInit, LeaseInv
<1> QED BY <1>1, LeaseStep, PTL DEF Spec

\* deleteSnapshot never runs while a Bazel invocation holds the activity lock,
\* for any number of clients, lawful or not.
THEOREM DeletionExcludesBuilds == Spec => []NoDeleteDuringBuild
<1>1. LeaseInv => NoDeleteDuringBuild
  BY Zenon DEF LeaseInv, NoDeleteDuringBuild
<1> QED BY <1>1, LeaseAlways, PTL

\* Whatever fails and whenever the process dies, hoshino holds the lock only
\* inside the cycle that took it: every way out of cleanup releases it.
THEOREM LeaseConfined == Spec => []LeaseOnlyInCycle
<1>1. LeaseInv => LeaseOnlyInCycle
  BY Zenon DEF LeaseInv, LeaseOnlyInCycle
<1> QED BY <1>1, LeaseAlways, PTL

\* In shadow mode cleanup neither takes the lock nor reaches a deletion.
THEOREM ShadowDeletesNothing == Spec => []ShadowOnlyProjects
<1>1. LeaseInv => ShadowOnlyProjects
  BY Zenon DEF LeaseInv, ShadowOnlyProjects
<1> QED BY <1>1, LeaseAlways, PTL

(***************************************************************************)
(* Pressure.                                                               *)
(***************************************************************************)
Until == Policy.EvictUntilPercentBlocksFree * Blocks

\* Some inner watermark is missed while an entry is being considered, and the
\* simulated free space is either the history variable or already enough.
PressureInv ==
  /\ pc \in {"select", "open", "stat", "unlink", "account"} =>
       /\ cacheBytes > Policy.TargetCacheBytes \/ seen * 100 < Until
       /\ seen = bytesFree + bytesSinceCheck \/ (bytesFree + bytesSinceCheck) * 100 >= Until
  /\ pc = "confirm" => (bytesFree + bytesSinceCheck) * 100 >= Until
  /\ pc \in {"down", "loop", "scan", "lease"} => bytesSinceCheck = 0

\* The inner watermarks, as a disjunction of two thresholds.
LEMMA StillEvicting ==
  ASSUME NEW f, NEW c
  PROVE  nextEvicting(TRUE, f, c) <=> f * 100 < Until \/ c > Policy.TargetCacheBytes
BY ZenonT(40) DEF nextEvicting, Until

\* PressureInv is preserved by every step.
LEMMA PressureStep ==
  ASSUME TypeOK, PressureInv, [Next]_vars
  PROVE  PressureInv'
<1> USE DEF PressureInv
<1>n. Until \in Int
  BY PolicyNumbers DEF Until
<1>t. /\ evicting \in BOOLEAN /\ free \in Int /\ cacheBytes \in Int /\ seen \in Int
      /\ bytesFree \in Int /\ bytesSinceCheck \in Int
      /\ \A e \in victim : e.size \in Nat
  BY EntryNumbers, Zenon DEF TypeOK, DiskTypeOK
<1>0. ASSUME Return PROVE PressureInv'
  BY <1>0, Zenon DEF Return, DropLocals
<1>1. CASE StartCleanup
  BY <1>1, Zenon DEF StartCleanup
<1>2. ASSUME NEW k \in Key, VisitEntry(k) PROVE PressureInv'
  BY <1>2, Zenon DEF VisitEntry
<1>3. CASE MeasurePressure
  <2>1. CASE ~Return
    <3>1. nextEvicting(evicting, free, cacheBytes)
      BY <1>3, <2>1, Zenon DEF MeasurePressure
    <3>2. nextEvicting(TRUE, free, cacheBytes)
      BY <1>t, <3>1, Hysteresis, Zenon
    <3>3. free * 100 < Until \/ cacheBytes > Policy.TargetCacheBytes
      BY <3>2, StillEvicting, Zenon
    <3>4. /\ bytesFree' = free /\ seen' = free /\ bytesSinceCheck' = 0
          /\ cacheBytes' = cacheBytes /\ pc' \in {"select", "lease"}
      <4>1. bytesSinceCheck = 0
        BY <1>3, Zenon DEF MeasurePressure
      <4>2. /\ bytesFree' = free /\ seen' = free /\ bytesSinceCheck' = bytesSinceCheck
            /\ cacheBytes' = cacheBytes
        BY <1>3, <2>1, Zenon DEF MeasurePressure
      <4>3. pc' \in {"select", "lease"}
        BY <1>3, <2>1, Zenon DEF MeasurePressure
      <4> QED BY <4>1, <4>2, <4>3, Zenon
    <3> QED BY <1>t, <3>3, <3>4 DEF Until
  <2> QED BY <1>0, <2>1, Zenon
<1>4. CASE TryExclusive
  <2>1. CASE ~Return
    BY <1>4, <2>1, Zenon DEF TryExclusive
  <2> QED BY <1>0, <2>1, Zenon
<1>5. CASE SelectNext
  <2>1. CASE ~Return
    BY <1>5, <2>1, Zenon DEF SelectNext, Until
  <2> QED BY <1>0, <2>1, Zenon
<1>o. CASE OpenRoot
  BY <1>o DEF OpenRoot, Skip, Until
<1>6. CASE Revalidate
  BY <1>6 DEF Revalidate, Skip, Until
<1>7. CASE UnlinkVictim
  BY <1>7 DEF UnlinkVictim, UnlinkSucceeds, UnlinkFindsNothing, Skip, Until
<1>8. CASE Account
  <2>1. PICK e \in victim : AccountFor(e)
    BY <1>8, Zenon DEF Account
  <2>2. CASE ~Return
    <3> DEFINE sim == bytesFree' + bytesSinceCheck'
    <3>1. /\ cacheBytes' \in Int /\ sim \in Int
          /\ \/ sim = bytesFree + bytesSinceCheck + e.size /\ seen' = seen + e.size
             \/ sim = free /\ seen' = free
      <4>1. cacheBytes' = cacheBytes - e.size
        BY <2>1, <2>2, Zenon DEF AccountFor
      <4>2. \/ bytesFree' = bytesFree /\ bytesSinceCheck' = bytesSinceCheck + e.size
               /\ seen' = seen + e.size
            \/ bytesFree' = free /\ bytesSinceCheck' = 0 /\ seen' = free
        BY <2>1, <2>2, Zenon DEF AccountFor
      <4> QED BY <1>t, <4>1, <4>2
    <3>2. /\ pc' \in {"select", "confirm"}
          /\ pc' = "select" => nextEvicting(TRUE, sim, cacheBytes')
          /\ pc' = "confirm" => ~nextEvicting(TRUE, sim, cacheBytes')
      BY <2>1, <2>2, Zenon DEF AccountFor, Continue
    <3>3. seen' = sim \/ sim * 100 >= Until
      BY <1>8, <1>n, <1>t, <3>1 DEF Account
    <3>4. CASE pc' = "select"
      <4>1. sim * 100 < Until \/ cacheBytes' > Policy.TargetCacheBytes
        BY <3>2, <3>4, StillEvicting, Zenon
      <4> QED BY <1>n, <3>1, <3>3, <3>4, <4>1 DEF Until
    <3>5. CASE pc' = "confirm"
      <4>1. ~(sim * 100 < Until)
        BY <3>2, <3>5, StillEvicting, Zenon
      <4> QED BY <1>n, <3>1, <3>5, <4>1 DEF Until
    <3> QED BY <3>2, <3>4, <3>5, Zenon
  <2> QED BY <1>0, <2>2, Zenon
<1>9. CASE Confirm
  <2>1. CASE ~Return
    <3>1. /\ free * 100 < Until \/ cacheBytes > Policy.TargetCacheBytes
          /\ pc' = "select" /\ seen' = free
          /\ UNCHANGED <<cacheBytes, bytesFree, bytesSinceCheck>>
      BY <1>9, <2>1, StillEvicting, Zenon DEF Confirm, Continue
    <3> QED BY <1>9, <3>1, Zenon DEF Confirm, Until
  <2> QED BY <1>0, <2>1, Zenon
<1>10. CASE CycleFails
  BY <1>0, <1>10, Zenon DEF CycleFails
<1>11. CASE DeleteFails
  BY <1>11, Zenon DEF DeleteFails, Skip, Until
<1>12. CASE Start
  BY <1>12, Zenon DEF Start
<1>13. ASSUME NEW k \in Key, HeatChanges(k) PROVE PressureInv'
  BY <1>13, Zenon DEF HeatChanges
<1>14. CASE RecoverWatcher
  BY <1>14, Zenon DEF RecoverWatcher
<1>15. CASE Crash
  BY <1>15, Zenon DEF Crash, DropLocals
<1>16. CASE UNCHANGED hoshinoVars
  BY <1>16, Zenon DEF Until
<1> QED
  BY <1>1, <1>2, <1>3, <1>4, <1>5, <1>6, <1>7, <1>8, <1>9, <1>10, <1>11, <1>12, <1>13,
     <1>o, <1>14, <1>15, <1>16
  DEF Next, CleanupStep, ClientLease, AlterCache, OtherPods, TimePasses, vars

\* selectVictims deletes, or projects, only while an inner watermark is missed:
\* the simulated free space between two measures never makes it go too far.
THEOREM EvictionStopsInTime == Spec => []EvictsOnlyUnderPressure
<1>1. Init => PressureInv
  BY Zenon DEF Init, PressureInv
<1>2. PressureInv => EvictsOnlyUnderPressure
  BY Zenon DEF PressureInv, EvictsOnlyUnderPressure, Until
<1> QED BY <1>1, <1>2, TypeCorrect, PressureStep, PTL DEF Spec

(***************************************************************************)
(* What is deleted.                                                        *)
(***************************************************************************)
\* There is one victim at most, it is old enough, it is looked up in the
\* directory of start-up and, unless a lawless client exists, it is at the
\* unlink still the file that was revalidated.  The clock of a cycle does not
\* run ahead of the wall clock.
VictimInv ==
  /\ \A e, f \in victim : e = f
  /\ pc \notin {"down", "loop"} => now <= clock
  /\ pc \in {"open", "stat", "unlink"} =>
       \A e \in victim : e.mtime <= now - Policy.MinimumResidence
  /\ pc \in {"stat", "unlink"} => ~rootFD
  /\ pc = "unlink" /\ Lawless = {} => \A e \in victim : Matches(e, Opened(rootFD))

\* Whether an entry still matches its snapshot depends on the disk alone.
LEMMA MatchesUnchanged ==
  ASSUME NEW e, UNCHANGED <<files, moved, rootReplaced, rootFD>>
  PROVE  Matches(e, Opened(rootFD))' <=> Matches(e, Opened(rootFD))
BY ZenonT(40) DEF Matches, Opened

\* An entry that matches has the snapshot it had.
LEMMA MatchIsSnapshot ==
  ASSUME NEW e \in EntryInfo, Matches(e, files)
  PROVE  Snapshot(e.key) = e
BY DEF Matches, Snapshot, EntryInfo

\* VictimInv is preserved by every step.
LEMMA VictimStep ==
  ASSUME TypeOK, LeaseInv, VictimInv, [Next]_vars
  PROVE  VictimInv'
<1> USE DEF VictimInv
<1>t. /\ pc \in PC /\ clock \in Nat /\ now \in Nat /\ Policy.MinimumResidence \in Int
      /\ \A e \in entries \cup victim : e.mtime \in Nat
  BY PolicyNumbers, EntryNumbers, Zenon DEF TypeOK, DiskTypeOK
<1>0. ASSUME pc' \in {"down", "loop"}, DropLocals PROVE VictimInv'
  BY <1>0, Zenon DEF DropLocals
<1>r. ASSUME Return PROVE VictimInv'
  BY <1>0, <1>r, Zenon DEF Return
<1>s. ASSUME pc \in {"open", "stat", "unlink"}, Skip, UNCHANGED diskVars PROVE VictimInv'
  BY <1>s, Zenon DEF Skip
<1>1. CASE StartCleanup
  BY <1>1, <1>t DEF StartCleanup
<1>2. ASSUME NEW k \in Key, VisitEntry(k) PROVE VictimInv'
  BY <1>2, Zenon DEF VisitEntry
<1>3. CASE MeasurePressure
  <2>1. CASE ~Return
    BY <1>3, <2>1, Zenon DEF MeasurePressure
  <2> QED BY <1>r, <2>1, Zenon
<1>4. CASE TryExclusive
  <2>1. CASE ~Return
    BY <1>4, <2>1, Zenon DEF TryExclusive
  <2> QED BY <1>r, <2>1, Zenon
<1>5. CASE SelectNext
  <2>1. CASE ~Return
    <3>1. PICK e \in entries :
             IF Protected(e, now, actionCacheBytes)
             THEN UNCHANGED <<pc, victim>>
             ELSE /\ pc' = IF shadow THEN "account" ELSE "open"
                  /\ victim' = {e}
      BY <1>5, <2>1, Zenon DEF SelectNext, NextInOrder
    <3>2. ~Protected(e, now, actionCacheBytes) => e.mtime <= now - Policy.MinimumResidence
      BY <1>t DEF Protected
    <3>3. pc = "select" /\ now' = now /\ clock' = clock
      BY <1>5, <2>1, Zenon DEF SelectNext
    <3> QED BY <3>1, <3>2, <3>3, Zenon
  <2> QED BY <1>r, <2>1, Zenon
<1>o. CASE OpenRoot
  <2>1. CASE rootReplaced
    BY <1>o, <1>s, <2>1, Zenon DEF OpenRoot
  <2>2. CASE ~rootReplaced
    BY <1>o, <2>2, Zenon DEF OpenRoot
  <2> QED BY <2>1, <2>2, Zenon
<1>6. CASE Revalidate
  <2>1. PICK e \in victim :
          IF Matches(e, Opened(rootFD))
          THEN pc' = "unlink" /\ UNCHANGED <<scanVars, deleteVars>>
          ELSE Skip
    BY <1>6, Zenon DEF Revalidate
  <2>2. CASE ~Matches(e, Opened(rootFD))
    BY <1>6, <1>s, <2>1, <2>2, Zenon DEF Revalidate
  <2>3. CASE Matches(e, Opened(rootFD))
    <3>1. pc = "stat" /\ UNCHANGED <<now, victim, rootFD, files, moved, rootReplaced, clock>>
      BY <1>6, <2>1, <2>3, Zenon DEF Revalidate
    <3>2. \A f \in victim : f = e
      BY Zenon
    <3>3. \A f \in victim' : Matches(f, Opened(rootFD))'
      BY <2>3, <3>1, <3>2, MatchesUnchanged, Zenon
    <3> QED BY <2>1, <2>3, <3>1, <3>3, Zenon
  <2> QED BY <2>2, <2>3, Zenon
<1>7. CASE UnlinkVictim
  <2>1. PICK e \in victim : UnlinkSucceeds(e) \/ UnlinkFindsNothing(e)
    BY <1>7, Zenon DEF UnlinkVictim
  <2>2. CASE UnlinkSucceeds(e)
    BY <1>7, <2>2, Zenon DEF UnlinkVictim, UnlinkSucceeds, Unlinkat
  <2>3. CASE UnlinkFindsNothing(e)
    BY <1>7, <1>s, <2>3, Zenon DEF UnlinkVictim, UnlinkFindsNothing
  <2> QED BY <2>1, <2>2, <2>3, Zenon
<1>8. CASE Account
  <2>1. PICK e \in victim : AccountFor(e)
    BY <1>8, Zenon DEF Account
  <2>2. CASE ~Return
    <3>1. /\ pc' \in {"select", "confirm"} /\ now' = now
          /\ victim' = {} \/ victim' = victim
      BY <2>1, <2>2, Zenon DEF AccountFor, Continue
    <3> QED BY <1>8, <3>1, Zenon DEF Account
  <2> QED BY <1>r, <2>2, Zenon
<1>9. CASE Confirm
  <2>1. CASE ~Return
    BY <1>9, <2>1, Zenon DEF Confirm, Continue
  <2> QED BY <1>r, <2>1, Zenon
<1>10. CASE CycleFails
  BY <1>r, <1>10, Zenon DEF CycleFails
<1>11. CASE DeleteFails
  BY <1>s, <1>11, Zenon DEF DeleteFails
<1>12. CASE Start
  BY <1>12, Zenon DEF Start
<1>13. ASSUME NEW k \in Key, HeatChanges(k) PROVE VictimInv'
  BY <1>13, Zenon DEF HeatChanges
<1>14. CASE RecoverWatcher
  BY <1>14, Zenon DEF RecoverWatcher
<1>15. CASE Crash
  BY <1>0, <1>15, Zenon DEF Crash
<1>16. CASE UNCHANGED <<hoshinoVars, files, moved, rootReplaced>> /\ clock' \in {clock, clock + 1}
  BY <1>t, <1>16, MatchesUnchanged
<1>17. CASE AlterCache
  <2>1. UNCHANGED hoshinoVars /\ clock' = clock
    BY <1>17 DEF AlterCache, PutEntry, TouchEntry, DropEntry, ReplaceRoot, DropMoved
  <2>2. ~(pc = "unlink" /\ Lawless = {})
    BY <1>17, Zenon DEF AlterCache, MayEdit, LeaseInv
  <2> QED BY <2>1, <2>2, Zenon
<1> QED
  BY <1>1, <1>2, <1>3, <1>4, <1>5, <1>6, <1>7, <1>8, <1>9, <1>10, <1>11, <1>12, <1>13,
     <1>o, <1>14, <1>15, <1>16, <1>17
  DEF Next, CleanupStep, ClientLease, OtherPods, OtherUse, TimePasses, Tick, vars

\* VictimInv holds in every reachable state.
LEMMA VictimAlways == Spec => []VictimInv
<1>1. Init => VictimInv
  BY Zenon DEF Init, VictimInv
<1> QED BY <1>1, TypeCorrect, LeaseAlways, VictimStep, PTL DEF Spec

\* The only step that takes a file away for hoshino is a successful unlink.
LEMMA UnlinkIsVictim ==
  ASSUME TypeOK, VictimInv, [Next]_vars, NEW k \in Key, HoshinoUnlinks(k)
  PROVE  /\ ~rootReplaced
         /\ \E e \in victim : e.key = k
<1>1. pc = "unlink" /\ pc' = "account" /\ k \in DOMAIN files /\ k \notin DOMAIN files'
  BY Zenon DEF HoshinoUnlinks
<1>2. UnlinkVictim
  BY <1>1, Zenon DEF Next, CleanupStep, StartCleanup, VisitEntry, MeasurePressure, TryExclusive,
     SelectNext, OpenRoot, Revalidate, Account, Confirm, CycleFails, DeleteFails, Skip, Start, HeatChanges,
     RecoverWatcher, Crash, ClientLease, AlterCache, OtherPods, TimePasses, vars
<1>3. PICK e \in victim : UnlinkSucceeds(e)
  BY <1>1, <1>2, Zenon DEF UnlinkVictim, UnlinkFindsNothing, Skip
<1>4. rootFD = rootReplaced /\ files' = Without(files, e.key)
  BY <1>1, <1>3, Zenon DEF UnlinkSucceeds, Unlinkat
<1>5. k = e.key
  BY <1>1, <1>4, Zenon DEF Without
<1>6. ~rootReplaced
  BY <1>1, <1>4, Zenon DEF VictimInv
<1> QED BY <1>5, <1>6, Zenon

\* With lawful clients the file it takes away matches the victim.
LEMMA VictimIsHere ==
  ASSUME Lawless = {}, TypeOK, VictimInv, [Next]_vars, NEW k \in Key, HoshinoUnlinks(k),
         NEW e \in victim
  PROVE  Matches(e, files)
<1>1. ~rootReplaced /\ rootReplaced \in BOOLEAN /\ rootFD \in BOOLEAN
  BY UnlinkIsVictim, Zenon DEF TypeOK, DiskTypeOK
<1>2. pc = "unlink" /\ ~rootFD /\ Matches(e, Opened(rootFD))
  BY Zenon DEF HoshinoUnlinks, VictimInv
<1>3. Opened(rootFD) = files
  BY <1>1, <1>2, Zenon DEF Opened
<1> QED BY <1>2, <1>3, Zenon

\* When every client respects the lock, no entry is deleted younger than
\* MinimumResidence at the moment it disappears.
THEOREM ResidenceRespected ==
  ASSUME Lawless = {}
  PROVE  Spec => DeletesOnlyResident
<1> DEFINE Step == \A k \in Key :
             HoshinoUnlinks(k) => files[k].mtime + Policy.MinimumResidence <= clock
<1>1. ASSUME TypeOK, VictimInv, [Next]_vars PROVE Step
  <2> SUFFICES ASSUME NEW k \in Key, HoshinoUnlinks(k)
               PROVE  files[k].mtime + Policy.MinimumResidence <= clock
    BY Zenon
  <2>1. PICK e \in victim : e.key = k
    BY <1>1, UnlinkIsVictim, Zenon
  <2>2. pc = "unlink"
    BY Zenon DEF HoshinoUnlinks
  <2>3. files[k].mtime = e.mtime /\ e.mtime <= now - Policy.MinimumResidence /\ now <= clock
    BY <1>1, <2>1, <2>2, VictimIsHere, Zenon DEF VictimInv, Matches
  <2>4. e.mtime \in Nat /\ now \in Nat /\ clock \in Nat /\ Policy.MinimumResidence \in Int
    BY <1>1, EntryNumbers, PolicyNumbers, Zenon DEF TypeOK, DiskTypeOK
  <2> QED BY <2>3, <2>4
<1>2. ASSUME TypeOK, VictimInv, [Next]_vars PROVE [Step]_vars
  BY <1>1, <1>2, Zenon
<1> QED BY <1>2, TypeCorrect, VictimAlways, PTL DEF Spec, DeletesOnlyResident

\* When every client respects the lock, what unlinkat takes away is the file
\* that was scanned and re-validated, and no other of its name.
THEOREM WindowClosed ==
  ASSUME Lawless = {}
  PROVE  Spec => UnlinksSnapshot
<1> DEFINE Step == \A k \in Key : HoshinoUnlinks(k) => Snapshot(k) \in victim
<1>1. ASSUME TypeOK, VictimInv, [Next]_vars PROVE Step
  <2> SUFFICES ASSUME NEW k \in Key, HoshinoUnlinks(k) PROVE Snapshot(k) \in victim
    BY Zenon
  <2>1. PICK e \in victim : e.key = k
    BY <1>1, UnlinkIsVictim, Zenon
  <2>2. pc = "unlink"
    BY Zenon DEF HoshinoUnlinks
  <2>3. Matches(e, files) /\ e \in EntryInfo
    BY <1>1, <2>1, VictimIsHere, Zenon DEF TypeOK
  <2> QED BY <2>1, <2>3, MatchIsSnapshot, Zenon
<1>2. ASSUME TypeOK, VictimInv, [Next]_vars PROVE [Step]_vars
  BY <1>1, <1>2, Zenon
<1> QED BY <1>2, TypeCorrect, VictimAlways, PTL DEF Spec, UnlinksSnapshot

\* Nothing is ever deleted from a directory that took the place of the root,
\* even if it did so between the opening of the root and the unlink.
THEOREM ReplacementSafe == Spec => ReplacedRootUntouched
<1> DEFINE Step == \A k \in Key : HoshinoUnlinks(k) => ~rootReplaced
<1>1. ASSUME TypeOK, VictimInv, [Next]_vars PROVE [Step]_vars
  BY <1>1, UnlinkIsVictim, Zenon
<1> QED BY <1>1, TypeCorrect, VictimAlways, PTL DEF Spec, ReplacedRootUntouched

(***************************************************************************)
(* Changes behind hoshino's back.                                          *)
(***************************************************************************)
\* The entries of the directory of start-up, wherever it is now.
Original == Opened(FALSE)

\* A file altered since its snapshot carries an mtime of this cycle.
FreshIfChanged(e) ==
  e.key \in changed /\ e.key \in DOMAIN Original => Original[e.key].mtime >= now

\* A snapshot is taken once per scan.  FreshIfChanged holds of all of them until
\* the root is replaced, and of the one being deleted even after that.
ChangeInv ==
  /\ pc \in {"down", "loop"} => entries = {}
  /\ pc \in {"down", "loop", "scan", "lease", "select"} => victim = {}
  /\ \A e \in entries : e.key \notin todo
  /\ ~rootReplaced => \A e \in entries \cup victim : FreshIfChanged(e)
  /\ pc \in {"stat", "unlink"} => \A e \in victim : FreshIfChanged(e)

\* An alteration of the cache keeps FreshIfChanged.
LEMMA EditsAreFresh ==
  ASSUME TypeOK, VictimInv, NEW e \in EntryInfo, FreshIfChanged(e), AlterCache,
         pc \notin {"down", "loop"}
  PROVE  FreshIfChanged(e)'
<1>1. /\ now' = now /\ now \in Nat /\ clock \in Nat /\ now <= clock
      /\ DOMAIN files \subseteq Key /\ files \in [DOMAIN files -> Attr]
  BY Zenon DEF TypeOK, DiskTypeOK, VictimInv, AlterCache
<1>f. rootReplaced \in BOOLEAN
  BY Zenon DEF TypeOK, DiskTypeOK
<1>2. ASSUME NEW k \in Key, NEW a, PutEntry(k, a) PROVE FreshIfChanged(e)'
  <2>1. CASE rootReplaced
    BY <1>1, <1>2, <2>1, Zenon DEF PutEntry, Altered, FreshIfChanged, Original, Opened
  <2>2. CASE ~rootReplaced
    <3>1. Original = files /\ Original' = files'
      BY <1>2, <1>f, <2>2, Zenon DEF PutEntry, Original, Opened
    <3>2. CASE e.key = k
      BY <1>1, <1>2, <3>1, <3>2, Zenon DEF PutEntry, FreshIfChanged
    <3>3. CASE e.key # k
      BY <1>1, <1>2, <2>2, <3>1, <3>3, Zenon DEF PutEntry, Altered, FreshIfChanged
    <3> QED BY <3>2, <3>3, Zenon
  <2> QED BY <2>1, <2>2, Zenon
<1>3. ASSUME NEW k \in Key, TouchEntry(k) PROVE FreshIfChanged(e)'
  <2>1. CASE rootReplaced
    BY <1>1, <1>3, <2>1, Zenon DEF TouchEntry, Altered, FreshIfChanged, Original, Opened
  <2>2. CASE ~rootReplaced
    <3>1. Original = files /\ Original' = files'
      BY <1>3, <1>f, <2>2, Zenon DEF TouchEntry, Original, Opened
    <3>2. CASE e.key = k
      BY <1>1, <1>3, <3>1, <3>2, Zenon DEF TouchEntry, FreshIfChanged, Attr
    <3>3. CASE e.key # k
      BY <1>1, <1>3, <2>2, <3>1, <3>3, Zenon DEF TouchEntry, Altered, FreshIfChanged
    <3> QED BY <3>2, <3>3, Zenon
  <2> QED BY <2>1, <2>2, Zenon
<1>4. ASSUME NEW k \in Key, DropEntry(k) PROVE FreshIfChanged(e)'
  <2>1. CASE rootReplaced
    BY <1>1, <1>4, <2>1, Zenon DEF DropEntry, Altered, FreshIfChanged, Original, Opened
  <2>2. CASE ~rootReplaced
    <3>1. Original = files /\ Original' = files'
      BY <1>4, <1>f, <2>2, Zenon DEF DropEntry, Original, Opened
    <3> QED BY <1>1, <1>4, <2>2, <3>1, Zenon DEF DropEntry, Altered, Without, FreshIfChanged
  <2> QED BY <2>1, <2>2, Zenon
<1>5. CASE ReplaceRoot
  <2>1. Original' = Original /\ changed' = changed
    BY <1>5, <1>f, Zenon DEF ReplaceRoot, Original, Opened
  <2> QED BY <1>1, <2>1, Zenon DEF FreshIfChanged
<1>6. ASSUME NEW k \in Key, DropMoved(k) PROVE FreshIfChanged(e)'
  <2>1. Original' = Original \/ Original' = Without(Original, k)
    BY <1>6, Zenon DEF DropMoved, Original, Opened
  <2> QED BY <1>1, <1>6, <2>1, Zenon DEF DropMoved, Without, FreshIfChanged
<1>7. \/ \E k \in Key : (\E a : PutEntry(k, a)) \/ TouchEntry(k) \/ DropEntry(k) \/ DropMoved(k)
      \/ ReplaceRoot
  BY ZenonT(40) DEF AlterCache
<1> QED BY <1>2, <1>3, <1>4, <1>5, <1>6, <1>7, Zenon

\* ChangeInv is preserved by every step.
LEMMA ChangeStep ==
  ASSUME TypeOK, VictimInv, ChangeInv, [Next]_vars
  PROVE  ChangeInv'
<1> USE DEF ChangeInv
<1>t. now \in Nat /\ clock \in Nat /\ entries \in SUBSET EntryInfo /\ victim \in SUBSET EntryInfo
  BY Zenon DEF TypeOK, DiskTypeOK
<1>0. ASSUME DropLocals PROVE ChangeInv'
  BY <1>0, Zenon DEF DropLocals
<1>r. ASSUME Return PROVE ChangeInv'
  BY <1>0, <1>r, Zenon DEF Return
<1>u. ASSUME UNCHANGED <<files, moved, rootReplaced, changed, now>>, NEW e
      PROVE  FreshIfChanged(e)' <=> FreshIfChanged(e)
  BY <1>u, Zenon DEF FreshIfChanged, Original, Opened
<1>s. ASSUME Skip, UNCHANGED diskVars PROVE ChangeInv'
  BY <1>s, <1>u, Zenon DEF Skip
<1>1. CASE StartCleanup
  BY <1>1, Zenon DEF StartCleanup, BeginScan
<1>2. ASSUME NEW k \in Key, VisitEntry(k) PROVE ChangeInv'
  <2>1. /\ pc = "scan" /\ pc' = "scan" /\ victim = {} /\ victim' = {}
        /\ todo' = todo \ {k} /\ k \in todo
        /\ UNCHANGED <<files, moved, rootReplaced, now>>
        /\ ~rootReplaced => changed' = changed \ {k}
    BY <1>2, Zenon DEF VisitEntry, Seen
  <2>2. entries' = entries \/ entries' = entries \cup {Snapshot(k)}
    BY <1>2, Zenon DEF VisitEntry
  <2>3. Snapshot(k).key = k
    BY Zenon DEF Snapshot
  <2>4. \A e \in entries' : e.key \notin todo'
    BY <2>1, <2>2, <2>3, Zenon
  <2>5. ~rootReplaced => \A e \in entries' : FreshIfChanged(e)'
    BY <2>1, <2>2, <2>3, Zenon DEF FreshIfChanged, Original, Opened
  <2> QED BY <2>1, <2>4, <2>5, Zenon
<1>3. CASE MeasurePressure
  <2>1. CASE ~Return
    <3>1. /\ pc = "scan" /\ pc' \in {"select", "lease"}
          /\ UNCHANGED <<scanVars, deleteVars, diskVars>>
      BY <1>3, <2>1, Zenon DEF MeasurePressure
    <3> QED BY <1>u, <3>1, Zenon
  <2> QED BY <1>r, <2>1, Zenon
<1>4. CASE TryExclusive
  <2>1. CASE ~Return
    BY <1>4, <2>1, Zenon DEF TryExclusive, BeginScan
  <2> QED BY <1>r, <2>1, Zenon
<1>5. CASE SelectNext
  <2>1. CASE ~Return
    <3>1. PICK e \in entries :
            /\ entries' = entries \ {e}
            /\ \/ pc' = pc /\ victim' = victim
               \/ pc' \in {"account", "open"} /\ victim' = {e}
      <4>1. PICK e \in NextInOrder :
              /\ entries' = entries \ {e}
              /\ IF Protected(e, now, actionCacheBytes)
                 THEN UNCHANGED <<pc, victim>>
                 ELSE /\ pc' = IF shadow THEN "account" ELSE "open"
                      /\ victim' = {e}
        BY <1>5, <2>1, Zenon DEF SelectNext
      <4>2. e \in entries
        BY Zenon DEF NextInOrder
      <4>3. \/ pc' = pc /\ victim' = victim
            \/ pc' \in {"account", "open"} /\ victim' = {e}
        BY <4>1, Zenon
      <4> QED BY <4>1, <4>2, <4>3, Zenon
    <3>2. pc = "select" /\ UNCHANGED <<now, todo, diskVars>>
      BY <1>5, <2>1, Zenon DEF SelectNext
    <3> QED BY <1>u, <3>1, <3>2, Zenon
  <2> QED BY <1>r, <2>1, Zenon
<1>o. CASE OpenRoot
  <2>1. CASE ~Skip
    <3>1. /\ pc' = "stat" /\ ~rootReplaced
          /\ UNCHANGED <<entries, todo, now, victim, files, moved, rootReplaced, changed>>
      BY <1>o, <2>1, Zenon DEF OpenRoot
    <3> QED BY <1>u, <3>1, Zenon
  <2> QED BY <1>o, <1>s, <2>1, Zenon DEF OpenRoot
<1>6. CASE Revalidate
  <2>1. CASE ~Skip
    BY <1>6, <1>u, <2>1 DEF Revalidate
  <2> QED BY <1>6, <1>s, <2>1, Zenon DEF Revalidate
<1>7. CASE UnlinkVictim
  <2>1. PICK e \in victim : UnlinkSucceeds(e) \/ UnlinkFindsNothing(e)
    BY <1>7, Zenon DEF UnlinkVictim
  <2>2. CASE UnlinkSucceeds(e)
    <3>1. /\ pc' = "account" /\ UNCHANGED <<entries, victim, todo, now, changed, rootReplaced>>
          /\ files' = files \/ files' = Without(files, e.key)
          /\ moved' = moved \/ moved' = Without(moved, e.key)
      BY <2>2, Zenon DEF UnlinkSucceeds, Unlinkat
    <3>3. Original' = Original \/ Original' = Without(Original, e.key)
      BY <3>1, Zenon DEF Original, Opened
    <3>2. ASSUME NEW f \in entries \cup victim, FreshIfChanged(f) PROVE FreshIfChanged(f)'
      <4>1. CASE Original' = Original
        BY <3>1, <3>2, <4>1, Zenon DEF FreshIfChanged
      <4>2. CASE Original' = Without(Original, e.key)
        <5>1. /\ DOMAIN Original' \subseteq DOMAIN Original
              /\ \A x \in DOMAIN Original' : Original'[x] = Original[x]
          BY <4>2, Zenon DEF Without
        <5> QED BY <3>1, <3>2, <5>1, Zenon DEF FreshIfChanged
      <4> QED BY <3>3, <4>1, <4>2, Zenon
    <3> QED BY <3>1, <3>2, Zenon
  <2>3. CASE UnlinkFindsNothing(e)
    BY <1>s, <2>3, Zenon DEF UnlinkFindsNothing
  <2> QED BY <2>1, <2>2, <2>3, Zenon
<1>8. CASE Account
  <2>1. PICK e \in victim : AccountFor(e)
    BY <1>8, Zenon DEF Account
  <2>2. CASE ~Return
    <3>1. /\ UNCHANGED <<now, todo, entries>>
          /\ \/ pc' = "select" /\ victim' = {}
             \/ pc' = "confirm" /\ victim' = victim
      BY <2>1, <2>2, Zenon DEF AccountFor, Continue
    <3> QED BY <1>8, <1>u, <3>1, Zenon DEF Account
  <2> QED BY <1>r, <2>2, Zenon
<1>9. CASE Confirm
  <2>1. CASE ~Return
    <3>1. pc' = "select" /\ victim' = {} /\ UNCHANGED <<scanVars, diskVars>>
      BY <1>9, <2>1, Zenon DEF Confirm, Continue
    <3> QED BY <1>u, <3>1, Zenon
  <2> QED BY <1>r, <2>1, Zenon
<1>10. CASE CycleFails
  BY <1>r, <1>10, Zenon DEF CycleFails
<1>11. CASE DeleteFails
  BY <1>s, <1>11, Zenon DEF DeleteFails
<1>12. CASE Start
  BY <1>12, Zenon DEF Start
<1>13. ASSUME NEW k \in Key, HeatChanges(k) PROVE ChangeInv'
  BY <1>13, Zenon DEF HeatChanges
<1>14. CASE RecoverWatcher
  BY <1>14, Zenon DEF RecoverWatcher
<1>15. CASE Crash
  BY <1>0, <1>15, Zenon DEF Crash
<1>16. CASE AlterCache
  <2>0. \/ \E k \in Key : (\E a : PutEntry(k, a)) \/ TouchEntry(k) \/ DropEntry(k) \/ DropMoved(k)
        \/ ReplaceRoot
    BY <1>16, ZenonT(40) DEF AlterCache
  <2>4. rootReplaced => rootReplaced'
    BY <2>0, Zenon DEF PutEntry, TouchEntry, DropEntry, DropMoved, ReplaceRoot
  <2>1. UNCHANGED <<pc, entries, victim, todo>> /\ (rootReplaced => rootReplaced')
    BY <1>16, <2>4, Zenon DEF AlterCache
  <2>2. CASE pc \in {"down", "loop"}
    BY <2>1, <2>2, Zenon
  <2>3. CASE pc \notin {"down", "loop"}
    BY <1>16, <1>t, <2>1, <2>3, EditsAreFresh, Zenon
  <2> QED BY <2>2, <2>3, Zenon
<1>17. CASE UNCHANGED <<hoshinoVars, files, moved, rootReplaced, changed>>
  BY <1>u, <1>17, Zenon
<1> QED
  BY <1>1, <1>2, <1>3, <1>4, <1>5, <1>6, <1>7, <1>8, <1>9, <1>10, <1>11, <1>12, <1>13,
     <1>o, <1>14, <1>15, <1>16, <1>17
  DEF Next, CleanupStep, ClientLease, OtherPods, OtherUse, TimePasses, Tick, vars

\* With a positive MinimumResidence, the comparison in deleteSnapshot refuses
\* every entry that anyone altered since its snapshot, even one rewritten with
\* the same size under a reused inode, and also when the root is replaced
\* between the opening of the directories and the comparison.
THEOREM ChangesDetected ==
  ASSUME Policy.MinimumResidence > 0
  PROVE  Spec => ChangedEntryRefused
<1> DEFINE Step == pc = "stat" /\ pc' = "unlink" => \A e \in victim : e.key \notin changed
<1>1. ASSUME TypeOK, VictimInv, ChangeInv, [Next]_vars PROVE Step
  <2> SUFFICES ASSUME pc = "stat", pc' = "unlink", NEW e \in victim PROVE e.key \notin changed
    BY Zenon
  <2>1. Revalidate
    BY <1>1, Zenon DEF Next, CleanupStep, StartCleanup, VisitEntry, MeasurePressure, TryExclusive,
       SelectNext, OpenRoot, UnlinkVictim, Account, Confirm, CycleFails, DeleteFails, Skip, Start,
       HeatChanges, RecoverWatcher, Crash, ClientLease, AlterCache, OtherPods, TimePasses, vars
  <2>2. Matches(e, Opened(rootFD))
    BY <1>1, <2>1, Zenon DEF Revalidate, Skip, VictimInv
  <2>6. rootFD = FALSE
    BY <1>1, Zenon DEF VictimInv, TypeOK
  <2>3. Original[e.key].mtime = e.mtime /\ e.key \in DOMAIN Original
    BY <2>2, <2>6, Zenon DEF Matches, Original
  <2>4. e.mtime <= now - Policy.MinimumResidence
    BY <1>1, Zenon DEF VictimInv
  <2>5. e.mtime \in Nat /\ now \in Nat /\ Policy.MinimumResidence \in Int
    BY <1>1, EntryNumbers, PolicyNumbers, Zenon DEF TypeOK
  <2> QED BY <1>1, <2>3, <2>4, <2>5 DEF ChangeInv, FreshIfChanged
<1>2. ASSUME TypeOK, VictimInv, ChangeInv, [Next]_vars PROVE [Step]_vars
  BY <1>1, <1>2, Zenon
<1>3. Init => ChangeInv
  BY Zenon DEF Init, ChangeInv
<1> QED BY <1>2, <1>3, TypeCorrect, VictimAlways, ChangeStep, PTL DEF Spec, ChangedEntryRefused

(***************************************************************************)
(* Sums over finite sets: what BytesIn computes.                           *)
(***************************************************************************)
\* g gives every part of S the sum of the weights w of its elements.
Sums(g, w, S) ==
  /\ g \in [SUBSET S -> Nat]
  /\ g[{}] = 0
  /\ \A s \in SUBSET S : \A x \in s : g[s] = w[x] + g[s \ {x}]

\* w gives the sizes of the files of fs, all of which are in S.
Weighs(w, fs, S) == DOMAIN fs \subseteq S /\ \A k \in DOMAIN fs : w[k] = fs[k].size

\* g gives the bytes of every set of keys.
GivesBytes(g, fs) == \A K : BytesIn(fs, K) = g[K \cap DOMAIN fs]

\* Induction over finite sets, as a minimal counterexample: a nonempty set of
\* subsets of a finite set has a member that loses an element only by leaving it.
LEMMA MinimalSubset ==
  ASSUME NEW S, IsFiniteSet(S), NEW T, T \subseteq SUBSET S, T # {}
  PROVE  \E s \in T : \A x \in s : s \ {x} \notin T
<1>1. IsWellFoundedOn(StrictSubsetOrdering(S), FiniteSubsetsOf(S))
  BY FS_StrictSubsetOrderingWellFounded, Zenon
<1>2. T \subseteq FiniteSubsetsOf(S)
  BY FS_Subset, Zenon DEF FiniteSubsetsOf
<1>3. \E s \in T : \A t \in T : <<t, s>> \notin StrictSubsetOrdering(S)
  BY <1>1, <1>2, WFMin, Zenon
<1>4. PICK s \in T : \A t \in T : <<t, s>> \notin StrictSubsetOrdering(S)
  BY <1>3, Zenon
<1>5. ASSUME NEW x \in s, s \ {x} \in T PROVE FALSE
  <2>1. <<s \ {x}, s>> \in StrictSubsetOrdering(S)
    BY <1>5, Zenon DEF StrictSubsetOrdering
  <2> QED BY <1>4, <1>5, <2>1, Zenon
<1> QED BY <1>5, Zenon

\* There is such a function for every finite S.
LEMMA SumsExist ==
  ASSUME NEW S, IsFiniteSet(S), NEW w, \A x \in S : w[x] \in Nat
  PROVE  \E g : Sums(g, w, S)
<1> DEFINE T == {s \in SUBSET S : ~ \E g : Sums(g, w, s)}
<1> SUFFICES ASSUME T # {} PROVE FALSE
  BY Zenon
<1>1. PICK s \in T : \A x \in s : s \ {x} \notin T
  BY MinimalSubset, Zenon
<1>2. s \in SUBSET S /\ ~ \E g : Sums(g, w, s)
  BY Zenon
<1>3. CASE s = {}
  <2> DEFINE g == [t \in SUBSET {} |-> 0]
  <2>1. Sums(g, w, {})
    BY Zenon DEF Sums
  <2> QED BY <1>2, <1>3, <2>1, Zenon
<1>4. CASE s # {}
  <2>1. PICK x \in s : TRUE
    BY <1>4, Zenon
  <2>2. s \ {x} \in SUBSET S /\ s \ {x} \notin T
    BY <1>1, <1>2, Zenon
  <2>3. PICK g : Sums(g, w, s \ {x})
    BY <2>2, Zenon
  <2> HIDE DEF T
  <2> DEFINE h == [t \in SUBSET s |-> IF x \in t THEN w[x] + g[t \ {x}] ELSE g[t]]
  <2>4. \A y \in s : w[y] \in Nat
    BY <1>2, Zenon
  <2>a. \A t \in SUBSET s : x \in t => t \ {x} \in SUBSET (s \ {x})
    BY Zenon
  <2>b. \A t \in SUBSET s : x \notin t => t \in SUBSET (s \ {x})
    BY Zenon
  <2>g. /\ g \in [SUBSET (s \ {x}) -> Nat] /\ g[{}] = 0
        /\ \A t \in SUBSET (s \ {x}) : \A y \in t : g[t] = w[y] + g[t \ {y}]
    BY <2>3, Zenon DEF Sums
  <2>5. h \in [SUBSET s -> Nat]
    BY <2>a, <2>b, <2>g, <2>4
  <2>6. h[{}] = 0
    BY <2>g, Zenon
  <2>7. ASSUME NEW t \in SUBSET s, NEW y \in t PROVE h[t] = w[y] + h[t \ {y}]
    <3>1. CASE x \notin t
      <4>1. h[t] = g[t] /\ h[t \ {y}] = g[t \ {y}]
        BY <3>1, Zenon
      <4> QED BY <4>1, <3>1, <2>b, <2>g, Zenon
    <3>2. CASE x = y
      <4>1. h[t] = w[x] + g[t \ {x}] /\ h[t \ {y}] = g[t \ {x}]
        BY <3>2, Zenon
      <4> QED BY <3>2, <4>1, Zenon
    <3>3. CASE x \in t /\ x # y
      <4>1. h[t] = w[x] + g[t \ {x}] /\ h[t \ {y}] = w[x] + g[(t \ {y}) \ {x}]
        BY <3>3, Zenon
      <4>2. (t \ {y}) \ {x} = (t \ {x}) \ {y}
        BY Zenon
      <4>3. t \ {x} \in SUBSET (s \ {x}) /\ y \in t \ {x} /\ (t \ {x}) \ {y} \in SUBSET (s \ {x})
        BY <3>3, Zenon
      <4>4. g[t \ {x}] = w[y] + g[(t \ {x}) \ {y}]
        BY <4>3, <2>g, Zenon
      <4>5. w[x] \in Nat /\ w[y] \in Nat /\ g[(t \ {x}) \ {y}] \in Nat
        BY <4>3, <2>4, <2>g, Zenon
      <4> DEFINE c == g[(t \ {x}) \ {y}]
                 a == w[x]  b == w[y]  u == h[t]  v == h[t \ {y}]  r == g[t \ {x}]
      <4>6. u = a + r /\ v = a + c /\ r = b + c /\ a \in Nat /\ b \in Nat /\ c \in Nat
        BY <4>1, <4>2, <4>4, <4>5, Zenon
      <4> HIDE DEF a, b, c, u, v, r
      <4>7. u = b + v
        BY <4>6
      <4> QED BY <4>7, Zenon DEF b, u, v
    <3> QED BY <3>1, <3>2, <3>3, Zenon
  <2>8. Sums(h, w, s)
    <3> HIDE DEF h
    <3> QED BY <2>5, <2>6, <2>7, Zenon DEF Sums
  <2> QED BY <1>2, <2>8, Zenon
<1> QED BY <1>3, <1>4, Zenon

\* What the fold of BytesIn computes is that sum, whichever element its CHOOSE
\* takes first.
LEMMA BytesAreSums ==
  ASSUME NEW S, NEW fs, NEW w, NEW g,
         IsFiniteSet(S), Sums(g, w, S), Weighs(w, fs, S)
  PROVE  GivesBytes(g, fs)
<1> SUFFICES ASSUME NEW K PROVE BytesIn(fs, K) = g[K \cap DOMAIN fs]
  BY Zenon DEF GivesBytes
<1> DEFINE D == K \cap DOMAIN fs
           Rec(i) == [s \in SUBSET D |->
                        IF s = {} THEN 0
                        ELSE fs[CHOOSE x \in s : TRUE].size + i[s \ {CHOOSE x \in s : TRUE}]]
           iter == CHOOSE i : i = Rec(i)
           G == [s \in SUBSET D |-> g[s]]
<1>1. BytesIn(fs, K) = iter[D]
  BY Zenon DEF BytesIn, MapThenSumSet, MapThenFoldSet
<1>2. D \subseteq S /\ \A k \in D : w[k] = fs[k].size
  BY Zenon DEF Weighs
<1> HIDE DEF D
<1>3. G = Rec(G)
  <2> SUFFICES ASSUME NEW s \in SUBSET D
               PROVE  g[s] = IF s = {} THEN 0
                             ELSE fs[CHOOSE x \in s : TRUE].size + G[s \ {CHOOSE x \in s : TRUE}]
    BY Zenon
  <2>1. CASE s = {}
    BY <2>1, Zenon DEF Sums
  <2>2. CASE s # {}
    <3> DEFINE x == CHOOSE x \in s : TRUE
    <3>1. x \in s
      BY <2>2, Zenon
    <3> HIDE DEF x
    <3>2. s \in SUBSET S /\ s \ {x} \in SUBSET D
      BY <1>2, Zenon
    <3>3. g[s] = w[x] + g[s \ {x}] /\ w[x] = fs[x].size
      BY <1>2, <3>1, <3>2, Zenon DEF Sums
    <3>4. g[s] = fs[x].size + G[s \ {x}]
      BY <3>2, <3>3, Zenon
    <3> QED BY <2>2, <3>4, Zenon DEF x
  <2> QED BY <2>1, <2>2, Zenon
<1>4. iter = Rec(iter)
  <2> HIDE DEF Rec, G
  <2> QED BY <1>3, Zenon
<1> HIDE DEF iter
<1> DEFINE T == {s \in SUBSET D : iter[s] # g[s]}
<1>5. CASE T # {}
  <2>1. IsFiniteSet(D)
    BY <1>2, FS_Subset, Zenon
  <2>2. PICK s \in T : \A x \in s : s \ {x} \notin T
    BY <1>5, <2>1, MinimalSubset, Zenon
  <2>3. s \in SUBSET D /\ iter[s] # g[s]
    BY Zenon
  <2>4. CASE s = {}
    <3>1. iter[{}] = 0
      BY <1>4, Zenon
    <3> QED BY <2>3, <2>4, <3>1, Zenon DEF Sums
  <2>5. CASE s # {}
    <3> DEFINE x == CHOOSE x \in s : TRUE
    <3>1. x \in s
      BY <2>5, Zenon
    <3>2. iter[s] = fs[x].size + iter[s \ {x}]
      BY <1>4, <2>3, <2>5, Zenon
    <3> HIDE DEF x
    <3>3. iter[s \ {x}] = g[s \ {x}]
      BY <2>2, <2>3, <3>1, Zenon
    <3>4. g[s] = w[x] + g[s \ {x}] /\ w[x] = fs[x].size
      BY <1>2, <2>3, <3>1, Zenon DEF Sums
    <3> QED BY <2>3, <3>2, <3>3, <3>4, Zenon
  <2> QED BY <2>4, <2>5, Zenon
<1>6. CASE T = {}
  <2>1. iter[D] = g[D]
    BY <1>6, Zenon
  <2> QED BY <1>1, <2>1, Zenon DEF D
<1> QED BY <1>5, <1>6, Zenon

\* The bytes of an entry add to those of the other entries, and an unlink
\* takes away those of the unlinked entry and no others.
LEMMA BytesFacts ==
  ASSUME NEW fs, DOMAIN fs \subseteq Key, \A k \in DOMAIN fs : fs[k].size \in Nat
  PROVE  /\ BytesIn(fs, {}) = 0
         /\ \A K : BytesIn(fs, K) \in Nat
         /\ \A K : \A k \in K \cap DOMAIN fs : BytesIn(fs, K) = fs[k].size + BytesIn(fs, K \ {k})
         /\ \A K, k : k \notin DOMAIN fs => BytesIn(fs, K) = BytesIn(fs, K \ {k})
         /\ \A K, k : BytesIn([x \in DOMAIN fs \ {k} |-> fs[x]], K) = BytesIn(fs, K \ {k})
<1> DEFINE D == DOMAIN fs
           w == [k \in D |-> fs[k].size]
<1>1. IsFiniteSet(D)
  BY DiskCacheAssumption, FS_Subset, Zenon
<1>2. \A k \in D : w[k] = fs[k].size /\ w[k] \in Nat
  BY Zenon
<1> HIDE DEF w
<1>3. PICK g : Sums(g, w, D)
  BY <1>1, <1>2, SumsExist, Zenon
<1>4. ASSUME NEW K PROVE BytesIn(fs, K) = g[K \cap D]
  <2>1. Weighs(w, fs, D)
    BY <1>2, Zenon DEF Weighs
  <2>2. GivesBytes(g, fs)
    <3> HIDE DEF D
    <3> QED BY <1>1, <1>3, <2>1, BytesAreSums, Zenon
  <2> QED BY <2>2, Zenon DEF GivesBytes
<1>5. g \in [SUBSET D -> Nat] /\ g[{}] = 0
      /\ \A s \in SUBSET D : \A x \in s : g[s] = w[x] + g[s \ {x}]
  BY <1>3, Zenon DEF Sums
<1>6. BytesIn(fs, {}) = 0
  <2>1. {} \cap D = {}
    BY Zenon
  <2> QED BY <1>4, <1>5, <2>1, Zenon
<1>7. ASSUME NEW K PROVE BytesIn(fs, K) \in Nat
  <2>1. BytesIn(fs, K) = g[K \cap D] /\ K \cap D \in SUBSET D
    BY <1>4, Zenon
  <2> QED BY <1>5, <2>1
<1>8. ASSUME NEW K, NEW k \in K \cap D PROVE BytesIn(fs, K) = fs[k].size + BytesIn(fs, K \ {k})
  <2>1. (K \ {k}) \cap D = (K \cap D) \ {k}
    BY Zenon
  <2>2. g[K \cap D] = w[k] + g[(K \cap D) \ {k}]
    BY <1>5, Zenon
  <2> QED BY <1>2, <1>4, <2>1, <2>2, Zenon
<1>9. ASSUME NEW K, NEW k, k \notin D PROVE BytesIn(fs, K) = BytesIn(fs, K \ {k})
  <2>1. (K \ {k}) \cap D = K \cap D
    BY <1>9, Zenon
  <2> QED BY <1>4, <2>1, Zenon
<1>10. ASSUME NEW K, NEW k
       PROVE  BytesIn([x \in D \ {k} |-> fs[x]], K) = BytesIn(fs, K \ {k})
  <2> DEFINE gs == [x \in D \ {k} |-> fs[x]]
  <2>1. DOMAIN gs = D \ {k} /\ DOMAIN gs \subseteq D /\ \A x \in DOMAIN gs : w[x] = gs[x].size
    BY <1>2, Zenon
  <2> HIDE DEF gs
  <2>2. GivesBytes(g, gs)
    <3>1. Weighs(w, gs, D)
      BY <2>1, Zenon DEF Weighs
    <3> HIDE DEF D
    <3> QED BY <1>1, <1>3, <3>1, BytesAreSums, Zenon
  <2>3. K \cap DOMAIN gs = (K \ {k}) \cap D
    BY <2>1, Zenon
  <2>4. BytesIn(gs, K) = g[K \cap DOMAIN gs]
    BY <2>2, ZenonT(40) DEF GivesBytes
  <2> QED BY <1>4, <2>3, <2>4, Zenon DEF gs
<1> QED BY <1>6, <1>7, <1>8, <1>9, <1>10, Zenon

(***************************************************************************)
(* Accounting.                                                             *)
(***************************************************************************)
\* Without lawless clients the root stays in place and holds regular files.
LawfulDisk == ~rootReplaced /\ \A k \in DOMAIN files : files[k].regular

\* The totals of a cycle under the lock: of the entries visited so far during
\* the scan, of what is on disk during the pass, and between an unlink and its
\* accounting of what is on disk and the victim.
TotalsInv ==
  exclusive =>
    /\ pc = "scan" =>
         /\ cacheBytes = BytesIn(files, Key \ todo)
         /\ actionCacheBytes = BytesIn(files, ActionKey \ todo)
    /\ pc \in {"select", "open", "stat", "unlink", "confirm"} =>
         /\ cacheBytes = BytesIn(files, Key)
         /\ actionCacheBytes = BytesIn(files, ActionKey)
    /\ pc = "account" => \A e \in victim :
         /\ cacheBytes = BytesIn(files, Key) + e.size
         /\ actionCacheBytes = BytesIn(files, ActionKey) + IF IsAction(e.key) THEN e.size ELSE 0

\* LawfulDisk is preserved by every step.
LEMMA LawfulStep ==
  ASSUME Lawless = {}, TypeOK, LawfulDisk, [Next]_vars
  PROVE  LawfulDisk'
<1> USE DEF LawfulDisk
<1>1. CASE UNCHANGED <<files, rootReplaced>>
  BY <1>1, Zenon
<1>2. CASE UnlinkVictim
  <2>1. rootReplaced' = rootReplaced /\ (files' = files \/ \E e : files' = Without(files, e.key))
    BY <1>2, Zenon DEF UnlinkVictim, UnlinkSucceeds, UnlinkFindsNothing, Unlinkat
  <2> QED BY <2>1, Zenon DEF Without
<1>3. CASE Start
  BY <1>3, Zenon DEF Start
<1>4. CASE AlterCache
  <2>1. PICK k \in Key :
          \/ \E i \in Inode, s \in Size, r \in {TRUE, Lawless = {}} :
               PutEntry(k, [Entry(i, s, clock) EXCEPT !.regular = r])
          \/ TouchEntry(k)
          \/ DropEntry(k)
          \/ DropMoved(k)
    BY <1>4, Zenon DEF AlterCache
  <2>2. ASSUME NEW i \in Inode, NEW s \in Size, NEW r \in {TRUE, Lawless = {}},
               PutEntry(k, [Entry(i, s, clock) EXCEPT !.regular = r])
        PROVE  LawfulDisk'
    <3> DEFINE a == [Entry(i, s, clock) EXCEPT !.regular = r]
    <3>1. a.regular
      BY Zenon DEF Entry
    <3> HIDE DEF a
    <3> QED BY <2>2, <3>1, Zenon DEF PutEntry, a
  <2>3. CASE TouchEntry(k)
    <3>1. files \in [DOMAIN files -> Attr]
      BY Zenon DEF TypeOK, DiskTypeOK
    <3> QED BY <2>3, <3>1, Zenon DEF TouchEntry, Attr
  <2>4. CASE DropEntry(k)
    BY <2>4, Zenon DEF DropEntry, Without
  <2>5. CASE DropMoved(k)
    BY <2>5, Zenon DEF DropMoved
  <2> QED BY <2>1, <2>2, <2>3, <2>4, <2>5, Zenon
<1>5. CASE OtherPods \/ TimePasses
  BY <1>5, <1>1, Zenon DEF OtherPods, OtherUse, TimePasses, Tick
<1>6. CASE \E k \in Key : VisitEntry(k)
  BY <1>6, <1>1, Zenon DEF VisitEntry
<1> QED
  BY <1>1, <1>2, <1>3, <1>4, <1>5, <1>6
  DEF Next, CleanupStep, StartCleanup, MeasurePressure, TryExclusive, SelectNext, OpenRoot,
      Revalidate, Account, Confirm, CycleFails, DeleteFails, HeatChanges, RecoverWatcher, Crash,
      ClientLease, vars

\* Sizes on disk are natural numbers.
LEMMA FilesSized ==
  ASSUME DiskTypeOK
  PROVE  DOMAIN files \subseteq Key /\ \A k \in DOMAIN files : files[k].size \in Nat
BY DiskCacheAssumption, Zenon DEF DiskTypeOK, Attr

\* While hoshino holds the lock, no one else alters the cache.
LEMMA LockedOut ==
  ASSUME Lawless = {}, LeaseInv, exclusive, AlterCache
  PROVE  FALSE
BY ZenonT(40) DEF LeaseInv, AlterCache, MayEdit

\* TotalsInv is preserved by every step.
LEMMA TotalsStep ==
  ASSUME Lawless = {}, TypeOK, LeaseInv, VictimInv, LawfulDisk, TotalsInv, [Next]_vars
  PROVE  TotalsInv'
<1>t. /\ DiskTypeOK /\ DOMAIN files \subseteq Key /\ \A k \in DOMAIN files : files[k].size \in Nat
  BY FilesSized, Zenon DEF TypeOK
<1>b. /\ BytesIn(files, {}) = 0
      /\ \A K : BytesIn(files, K) \in Nat
      /\ \A K : \A k \in K \cap DOMAIN files :
           BytesIn(files, K) = files[k].size + BytesIn(files, K \ {k})
      /\ \A K, k : k \notin DOMAIN files => BytesIn(files, K) = BytesIn(files, K \ {k})
      /\ \A K, k : BytesIn(Without(files, k), K) = BytesIn(files, K \ {k})
  BY <1>t, BytesFacts DEF Without
<1>r. ASSUME ReleaseExclusive PROVE TotalsInv'
  BY <1>r, Zenon DEF ReleaseExclusive, TotalsInv
<1>s. ASSUME pc \in {"open", "stat", "unlink"}, Skip, UNCHANGED diskVars PROVE TotalsInv'
  BY <1>s, Zenon DEF Skip, TotalsInv
<1>1. CASE StartCleanup
  BY <1>1, Zenon DEF StartCleanup, LeaseInv, TotalsInv
<1>2. ASSUME NEW k \in Key, VisitEntry(k) PROVE TotalsInv'
  <2>1. /\ pc = "scan" /\ pc' = "scan" /\ exclusive' = exclusive /\ files' = files
        /\ k \in todo /\ todo' = todo \ {k}
    BY <1>2, Zenon DEF VisitEntry
  <2>2. CASE k \notin DOMAIN files
    <3>1. UNCHANGED <<cacheBytes, actionCacheBytes>>
      BY <1>2, <2>2, Zenon DEF VisitEntry, HasSnapshot
    <3>2. (Key \ todo') \ {k} = Key \ todo /\ (ActionKey \ todo') \ {k} = (ActionKey \ todo)
      BY <2>1, Zenon
    <3>3. /\ BytesIn(files, Key \ todo') = BytesIn(files, Key \ todo)
          /\ BytesIn(files, ActionKey \ todo') = BytesIn(files, ActionKey \ todo)
      <4>1. BytesIn(files, Key \ todo') = BytesIn(files, (Key \ todo') \ {k})
        BY <1>b, <2>2, Zenon
      <4>2. BytesIn(files, ActionKey \ todo') = BytesIn(files, (ActionKey \ todo') \ {k})
        BY <1>b, <2>2, Zenon
      <4> QED BY <3>2, <4>1, <4>2, Zenon
    <3> QED BY <2>1, <3>1, <3>3, Zenon DEF TotalsInv
  <2>3. CASE k \in DOMAIN files
    <3>1. /\ cacheBytes' = cacheBytes + files[k].size
          /\ actionCacheBytes' = actionCacheBytes + IF IsAction(k) THEN files[k].size ELSE 0
      BY <1>2, <2>3, Zenon DEF VisitEntry, HasSnapshot, LawfulDisk
    <3>2. (Key \ todo') \ {k} = Key \ todo /\ (ActionKey \ todo') \ {k} = (ActionKey \ todo)
      BY <2>1, Zenon
    <3>3. BytesIn(files, Key \ todo') = files[k].size + BytesIn(files, Key \ todo)
      <4>1. k \in (Key \ todo') \cap DOMAIN files
        BY <2>1, <2>3, Zenon
      <4>2. BytesIn(files, Key \ todo') = files[k].size + BytesIn(files, (Key \ todo') \ {k})
        BY <1>b, <4>1, Zenon
      <4> QED BY <3>2, <4>2, Zenon
    <3>4. BytesIn(files, ActionKey \ todo')
            = BytesIn(files, ActionKey \ todo) + IF IsAction(k) THEN files[k].size ELSE 0
      <4>1. CASE IsAction(k)
        <5>1. k \in (ActionKey \ todo') \cap DOMAIN files
          BY <2>1, <2>3, <4>1, Zenon DEF IsAction
        <5>2. BytesIn(files, ActionKey \ todo')
                = files[k].size + BytesIn(files, (ActionKey \ todo') \ {k})
          BY <1>b, <5>1, Zenon
        <5>3. BytesIn(files, ActionKey \ todo) \in Nat /\ files[k].size \in Nat
          BY <1>b, <1>t, <2>3, Zenon
        <5>4. BytesIn(files, ActionKey \ todo') = files[k].size + BytesIn(files, ActionKey \ todo)
          BY <3>2, <5>2, Zenon
        <5> QED BY <4>1, <5>3, <5>4
      <4>2. CASE ~IsAction(k)
        <5>1. ActionKey \ todo' = ActionKey \ todo
          BY <2>1, <4>2, Zenon DEF IsAction
        <5>2. BytesIn(files, ActionKey \ todo) \in Nat
          BY <1>b, Zenon
        <5>3. BytesIn(files, ActionKey \ todo') = BytesIn(files, ActionKey \ todo)
          BY <5>1, Zenon
        <5> QED BY <4>2, <5>2, <5>3
      <4> QED BY <4>1, <4>2, Zenon
    <3>5. BytesIn(files, Key \ todo) \in Nat /\ files[k].size \in Nat
      BY <1>b, <1>t, <2>3, Zenon
    <3>6. exclusive => /\ cacheBytes = BytesIn(files, Key \ todo)
                       /\ actionCacheBytes = BytesIn(files, ActionKey \ todo)
      BY <2>1, Zenon DEF TotalsInv
    <3>7. exclusive => cacheBytes' = BytesIn(files, Key \ todo')
      BY <3>1, <3>3, <3>5, <3>6
    <3>8. exclusive => actionCacheBytes' = BytesIn(files, ActionKey \ todo')
      BY <3>1, <3>4, <3>6, Zenon
    <3> QED BY <2>1, <3>7, <3>8, Zenon DEF TotalsInv
  <2> QED BY <2>2, <2>3, Zenon
<1>3. CASE MeasurePressure
  <2>1. CASE ~Return
    <3>1. /\ pc = "scan" /\ todo = {} /\ pc' \in {"select", "lease"}
          /\ UNCHANGED <<files, cacheBytes, actionCacheBytes, exclusive>>
      BY <1>3, <2>1, Zenon DEF MeasurePressure
    <3>2. Key \ todo = Key /\ ActionKey \ todo = ActionKey
      BY <3>1, Zenon
    <3> QED BY <3>1, <3>2, Zenon DEF TotalsInv
  <2> QED BY <1>r, <2>1, Zenon DEF Return
<1>4. CASE TryExclusive
  <2>1. CASE ~Return
    <3>1. /\ pc' = "scan" /\ todo' = Key /\ cacheBytes' = 0 /\ actionCacheBytes' = 0
          /\ files' = files
      BY <1>4, <2>1, Zenon DEF TryExclusive, BeginScan
    <3>2. Key \ todo' = {} /\ ActionKey \ todo' = {}
      BY <3>1, DiskCacheAssumption, Zenon
    <3> QED BY <1>b, <3>1, <3>2, Zenon DEF TotalsInv
  <2> QED BY <1>r, <2>1, Zenon DEF Return
<1>5. CASE SelectNext
  <2>1. CASE ~Return
    <3>1. /\ pc = "select" /\ UNCHANGED <<files, cacheBytes, actionCacheBytes, leaseVars, shadow>>
          /\ pc' \in {"select", "open"} \/ (pc' = "account" /\ shadow)
      BY <1>5, <2>1, Zenon DEF SelectNext
    <3> QED BY <3>1, Zenon DEF TotalsInv, LeaseInv
  <2> QED BY <1>r, <2>1, Zenon DEF Return
<1>o. CASE OpenRoot
  <2>1. CASE ~Skip
    BY <1>o, <2>1, Zenon DEF OpenRoot, TotalsInv
  <2> QED BY <1>o, <1>s, <2>1, Zenon DEF OpenRoot
<1>6. CASE Revalidate
  <2>1. CASE ~Skip
    BY <1>6, <2>1, Zenon DEF Revalidate, TotalsInv
  <2> QED BY <1>6, <1>s, <2>1, Zenon DEF Revalidate
<1>7. CASE UnlinkVictim
  <2>1. PICK e \in victim : UnlinkSucceeds(e) \/ UnlinkFindsNothing(e)
    BY <1>7, Zenon DEF UnlinkVictim
  <2>2. CASE UnlinkSucceeds(e)
    <3>1. /\ pc = "unlink" /\ exclusive /\ Matches(e, Opened(rootFD))
          /\ rootFD = FALSE /\ rootReplaced = FALSE
      BY <1>7, Zenon DEF UnlinkVictim, LeaseInv, VictimInv, LawfulDisk, TypeOK, DiskTypeOK
    <3>2. /\ pc' = "account" /\ UNCHANGED <<victim, cacheBytes, actionCacheBytes>>
          /\ e.key \in DOMAIN files /\ files' = Without(files, e.key)
      BY <2>2, <3>1, Zenon DEF UnlinkSucceeds, Unlinkat, Opened
    <3>3. files[e.key].size = e.size /\ e.key \in Key
      BY <1>t, <3>1, <3>2, Zenon DEF Matches, Opened
    <3>4. BytesIn(files, Key) = e.size + BytesIn(files', Key)
      <4>1. e.key \in Key \cap DOMAIN files
        BY <3>2, <3>3, Zenon
      <4>2. BytesIn(files, Key) = files[e.key].size + BytesIn(files, Key \ {e.key})
        BY <1>b, <4>1, Zenon
      <4> QED BY <1>b, <3>2, <3>3, <4>2, Zenon
    <3>5. BytesIn(files, ActionKey)
            = BytesIn(files', ActionKey) + IF IsAction(e.key) THEN e.size ELSE 0
      <4>1. BytesIn(files', ActionKey) = BytesIn(files, ActionKey \ {e.key})
        BY <1>b, <3>2, Zenon
      <4>2. CASE IsAction(e.key)
        <5>1. e.key \in ActionKey \cap DOMAIN files
          BY <3>2, <4>2, Zenon DEF IsAction
        <5>2. BytesIn(files, ActionKey) = files[e.key].size + BytesIn(files, ActionKey \ {e.key})
          BY <1>b, <5>1, Zenon
        <5>3. BytesIn(files, ActionKey \ {e.key}) \in Nat /\ files[e.key].size \in Nat
          BY <1>b, <1>t, <3>2, Zenon
        <5>4. files[e.key].size = e.size
          BY <3>3, Zenon
        <5>5. BytesIn(files, ActionKey) = e.size + BytesIn(files', ActionKey)
          BY <4>1, <5>2, <5>4, Zenon
        <5>6. BytesIn(files', ActionKey) \in Nat /\ e.size \in Nat
          BY <4>1, <5>3, <5>4, Zenon
        <5> QED BY <4>2, <5>5, <5>6
      <4>3. CASE ~IsAction(e.key)
        <5>1. ActionKey \ {e.key} = ActionKey
          BY <4>3, Zenon DEF IsAction
        <5>2. BytesIn(files, ActionKey) \in Nat
          BY <1>b, Zenon
        <5> QED BY <4>1, <4>3, <5>1, <5>2
      <4> QED BY <4>2, <4>3, Zenon
    <3>6. BytesIn(files', Key) \in Nat /\ e.size \in Nat
      <4>1. BytesIn(files', Key) = BytesIn(files, Key \ {e.key})
        BY <1>b, <3>2, Zenon
      <4>2. BytesIn(files, Key \ {e.key}) \in Nat
        BY <1>b, Zenon
      <4> QED BY <1>t, <3>2, <3>3, <4>1, <4>2
    <3>7. \A f \in victim : f = e
      BY Zenon DEF VictimInv
    <3>8. /\ cacheBytes = BytesIn(files', Key) + e.size
          /\ actionCacheBytes = BytesIn(files', ActionKey) + IF IsAction(e.key) THEN e.size ELSE 0
      BY <3>1, <3>4, <3>5, <3>6 DEF TotalsInv
    <3> QED BY <3>2, <3>7, <3>8, Zenon DEF TotalsInv, IsAction
  <2>3. CASE UnlinkFindsNothing(e)
    BY <1>7, <1>s, <2>3, Zenon DEF UnlinkVictim, UnlinkFindsNothing
  <2> QED BY <2>1, <2>2, <2>3, Zenon
<1>8. CASE Account
  <2>1. PICK e \in victim : AccountFor(e)
    BY <1>8, Zenon DEF Account
  <2>2. CASE ~Return
    <3>1. /\ cacheBytes' = cacheBytes - e.size
          /\ actionCacheBytes' = actionCacheBytes - IF IsAction(e.key) THEN e.size ELSE 0
      BY <2>1, <2>2, Zenon DEF AccountFor
    <3>2. pc = "account" /\ pc' \in {"select", "confirm"} /\ UNCHANGED <<files, exclusive>>
      BY <1>8, <2>1, <2>2, Zenon DEF Account, AccountFor, Continue
    <3>3. e.size \in Nat /\ (IF IsAction(e.key) THEN e.size ELSE 0) \in Nat
      BY EntryNumbers, Zenon DEF TypeOK
    <3>4. BytesIn(files, Key) \in Nat /\ BytesIn(files, ActionKey) \in Nat
      BY <1>b, Zenon
    <3>5. exclusive => cacheBytes' = BytesIn(files, Key) /\ actionCacheBytes' = BytesIn(files, ActionKey)
      BY <3>1, <3>2, <3>3, <3>4 DEF TotalsInv
    <3> QED BY <3>2, <3>5, Zenon DEF TotalsInv
  <2> QED BY <1>r, <2>2, Zenon DEF Return
<1>9. CASE Confirm
  <2>1. CASE ~Return
    BY <1>9, <2>1, Zenon DEF Confirm, Continue, TotalsInv
  <2> QED BY <1>r, <2>1, Zenon DEF Return
<1>10. CASE CycleFails
  BY <1>r, <1>10, Zenon DEF CycleFails, Return
<1>11. CASE DeleteFails
  BY <1>s, <1>11, Zenon DEF DeleteFails
<1>12. CASE Start
  BY <1>12, Zenon DEF Start, LeaseInv, TotalsInv
<1>13. ASSUME NEW k \in Key, HeatChanges(k) PROVE TotalsInv'
  BY <1>13, Zenon DEF HeatChanges, LeaseInv, TotalsInv
<1>14. CASE RecoverWatcher
  BY <1>14, Zenon DEF RecoverWatcher, LeaseInv, TotalsInv
<1>15. CASE Crash
  BY <1>r, <1>15, Zenon DEF Crash
<1>16. CASE AlterCache
  <2>1. ~exclusive'
    BY <1>16, LockedOut, Zenon DEF AlterCache
  <2> QED BY <2>1, Zenon DEF TotalsInv
<1>17. CASE UNCHANGED <<hoshinoVars, files, exclusive>>
  BY <1>17, Zenon DEF TotalsInv, IsAction
<1>18. CASE ClientLease
  <2>1. exclusive' = exclusive
    BY <1>18, Zenon DEF ClientLease, RequestShared, GrantShared, ReleaseShared
  <2> QED BY <1>17, <1>18, <2>1, Zenon DEF ClientLease
<1> QED
  BY <1>1, <1>2, <1>3, <1>4, <1>5, <1>6, <1>7, <1>8, <1>9, <1>10, <1>11, <1>12, <1>13,
     <1>o, <1>14, <1>15, <1>16, <1>17, <1>18
  DEF Next, CleanupStep, OtherPods, OtherUse, TimePasses, Tick, vars

\* LawfulDisk and TotalsInv hold in every reachable state.
LEMMA TotalsAlways ==
  ASSUME Lawless = {}
  PROVE  Spec => [](LawfulDisk /\ TotalsInv)
<1>1. Init => LawfulDisk /\ TotalsInv
  <2> SUFFICES ASSUME Init PROVE LawfulDisk /\ TotalsInv
    BY Zenon
  <2>1. PICK i \in Inode, S \in SUBSET Key : files \in [S -> {Entry(i, s, 0) : s \in Size}]
    BY Zenon DEF Init
  <2>2. \A k \in DOMAIN files : files[k].regular
    BY <2>1 DEF Entry
  <2>3. ~rootReplaced /\ ~exclusive
    BY Zenon DEF Init, LeaseInit
  <2> QED BY <2>2, <2>3, Zenon DEF LawfulDisk, TotalsInv
<1>2. ASSUME TypeOK, LeaseInv, VictimInv, LawfulDisk /\ TotalsInv, [Next]_vars
      PROVE  LawfulDisk' /\ TotalsInv'
  BY <1>2, LawfulStep, TotalsStep, Zenon
<1> QED BY <1>1, <1>2, TypeCorrect, LeaseAlways, VictimAlways, PTL DEF Spec

\* When every client respects the lock, the running totals of selectVictims are
\* the bytes on disk through every pass, for any number of entries of any size
\* and any mixture of deletions, skips and failures.
THEOREM TotalsExact ==
  ASSUME Lawless = {}
  PROVE  Spec => []AccountingExact
<1>1. TotalsInv => AccountingExact
  BY Zenon DEF TotalsInv, AccountingExact, BytesOnDisk
<1> QED BY <1>1, TotalsAlways, PTL

\* What is being deleted was found unprotected by the totals still in force.
UnprotectedInv ==
  pc \in {"open", "stat", "unlink"} => \A e \in victim : ~Protected(e, now, actionCacheBytes)

\* UnprotectedInv is preserved by every step.
LEMMA UnprotectedStep ==
  ASSUME UnprotectedInv, [Next]_vars
  PROVE  UnprotectedInv'
<1> USE DEF UnprotectedInv
<1>1. CASE pc' \notin {"open", "stat", "unlink"}
  BY <1>1, Zenon
<1>2. CASE SelectNext /\ pc' \in {"open", "stat", "unlink"}
  <2>1. PICK e \in NextInOrder :
          IF Protected(e, now, actionCacheBytes) THEN UNCHANGED <<pc, victim>>
          ELSE victim' = {e}
    BY <1>2, Zenon DEF SelectNext, Return
  <2>2. pc = "select" /\ UNCHANGED <<now, actionCacheBytes>>
    BY <1>2, Zenon DEF SelectNext, Return
  <2> QED BY <1>2, <2>1, <2>2, Zenon DEF Protected
<1>3. CASE UNCHANGED <<victim, now, actionCacheBytes>> /\ pc \in {"open", "stat", "unlink"}
  BY <1>3, Zenon DEF Protected
<1>4. CASE UNCHANGED hoshinoVars
  BY <1>1, <1>3, <1>4, Zenon
<1>o. CASE OpenRoot
  BY <1>1, <1>3, <1>o, Zenon DEF OpenRoot, Skip
<1>5. CASE Revalidate
  BY <1>1, <1>3, <1>5, Zenon DEF Revalidate, Skip
<1>6. CASE UnlinkVictim \/ Account \/ Confirm
  <2>1. pc' \notin {"open", "stat", "unlink"}
    BY <1>6 DEF UnlinkVictim, UnlinkSucceeds, UnlinkFindsNothing, Skip, Account, AccountFor,
       Confirm, Continue, Return
  <2> QED BY <1>1, <2>1, Zenon
<1>7. CASE /\ ~SelectNext /\ ~OpenRoot /\ ~Revalidate /\ ~UnlinkVictim /\ ~Account /\ ~Confirm
          /\ ~UNCHANGED hoshinoVars
  <2>1. pc' \notin {"open", "stat", "unlink"}
    BY <1>7
    DEF Next, CleanupStep, StartCleanup, VisitEntry, MeasurePressure, TryExclusive, Return,
        CycleFails, DeleteFails, Skip, Start, HeatChanges, RecoverWatcher, Crash, ClientLease,
        AlterCache, OtherPods, TimePasses, vars
  <2> QED BY <1>1, <2>1, Zenon
<1> QED BY <1>1, <1>2, <1>4, <1>5, <1>6, <1>7, <1>o, Zenon

\* When every client respects the lock, an unlink under ac/ leaves at least
\* MinActionCacheBytes of entries there, by the sizes really on disk.
THEOREM FloorKept ==
  ASSUME Lawless = {}
  PROVE  Spec => ActionCacheFloor
<1> DEFINE Step == \A k \in ActionKey :
             HoshinoUnlinks(k) => BytesOnDisk(ActionKey)' >= Policy.MinActionCacheBytes
<1>1. ASSUME TypeOK, LeaseInv, VictimInv, LawfulDisk /\ TotalsInv, UnprotectedInv, [Next]_vars
      PROVE  Step
  <2> SUFFICES ASSUME NEW k \in ActionKey, HoshinoUnlinks(k)
               PROVE  BytesOnDisk(ActionKey)' >= Policy.MinActionCacheBytes
    BY Zenon
  <2>0. k \in Key
    BY DiskCacheAssumption, Zenon
  <2>1. PICK e \in victim : e.key = k
    BY <1>1, <2>0, UnlinkIsVictim, Zenon
  <2>2. pc = "unlink" /\ pc' = "account" /\ exclusive
    BY <1>1, ZenonT(40) DEF HoshinoUnlinks, LeaseInv
  <2>3. UnlinkVictim
    BY <1>1, <2>2 DEF Next, CleanupStep, StartCleanup, VisitEntry, MeasurePressure, TryExclusive,
       SelectNext, OpenRoot, Revalidate, Account, Confirm, CycleFails, DeleteFails, Skip, Start, HeatChanges,
       RecoverWatcher, Crash, ClientLease, AlterCache, OtherPods, TimePasses, vars
  <2>4. UNCHANGED <<victim, actionCacheBytes, exclusive>>
    BY <2>2, <2>3, Zenon DEF UnlinkVictim, UnlinkSucceeds, UnlinkFindsNothing, Skip
  <2>5. TotalsInv'
    BY <1>1, TotalsStep, Zenon
  <2>6. actionCacheBytes = BytesIn(files', ActionKey) + e.size
    BY <2>1, <2>2, <2>4, <2>5, Zenon DEF TotalsInv, IsAction
  <2>7. ~(actionCacheBytes - e.size < Policy.MinActionCacheBytes)
    BY <1>1, <2>1, <2>2, Zenon DEF UnprotectedInv, Protected, IsAction
  <2>8. DiskTypeOK'
    BY <1>1, TypeStep, Zenon DEF TypeOK
  <2>9. DOMAIN files' \subseteq Key /\ \A j \in DOMAIN files' : files'[j].size \in Nat
    BY <2>8, DiskCacheAssumption, Zenon DEF DiskTypeOK, Attr
  <2>10. BytesIn(files', ActionKey) \in Nat
    BY <2>9, BytesFacts, Zenon
  <2>11. e.size \in Nat /\ Policy.MinActionCacheBytes \in Int
    BY <1>1, EntryNumbers, PolicyNumbers, Zenon DEF TypeOK
  <2> QED BY <2>6, <2>7, <2>10, <2>11 DEF BytesOnDisk
<1>2. ASSUME TypeOK, LeaseInv, VictimInv, LawfulDisk /\ TotalsInv, UnprotectedInv, [Next]_vars
      PROVE  [Step]_vars
  BY <1>1, <1>2, Zenon
<1>3. Init => UnprotectedInv
  BY Zenon DEF Init, UnprotectedInv
<1> QED
  BY <1>2, <1>3, TypeCorrect, LeaseAlways, VictimAlways, TotalsAlways, UnprotectedStep, PTL
  DEF Spec, ActionCacheFloor

(***************************************************************************)
(* The order of deletion.                                                  *)
(***************************************************************************)
\* The pass still has to consider the file of j, is at it, or was right to
\* pass it over.
Considered(j) ==
  \/ Snapshot(j) \in entries
  \/ pc \in {"open", "stat", "unlink"} /\ Snapshot(j) \in victim
  \/ Protected(Snapshot(j), now, actionCacheBytes)

\* Under the lock the snapshots of a cycle agree with the disk, every file is
\* accounted for, and nothing yet to be considered comes before the victim.
OrderInv ==
  /\ exclusive => \A e \in entries : e.key \in DOMAIN files /\ e = Snapshot(e.key)
  /\ exclusive /\ pc = "scan" => \A j \in DOMAIN files \ todo : Snapshot(j) \in entries
  /\ exclusive /\ pc # "scan" => \A j \in DOMAIN files : Considered(j)
  /\ pc \in {"open", "stat", "unlink"} =>
       \A e \in victim :
         /\ e \notin entries /\ e.key \in DOMAIN files /\ e = Snapshot(e.key)
         /\ \A f \in entries : ~less(f, e)

\* Deleting only ever protects more: the floor under ac/ comes closer.
LEMMA ProtectedStays ==
  ASSUME NEW e \in EntryInfo, NEW at \in Int, NEW a \in Int, NEW b \in Int, b <= a,
         Protected(e, at, a)
  PROVE  Protected(e, at, b)
<1>1. e.size \in Nat /\ e.mtime \in Nat /\ Policy.MinActionCacheBytes \in Int
  BY EntryNumbers, PolicyNumbers, Zenon
<1>2. CASE e.mtime > at - Policy.MinimumResidence
  BY <1>2, Zenon DEF Protected
<1>3. CASE IsAction(e.key) /\ a - e.size < Policy.MinActionCacheBytes
  <2>1. b - e.size < Policy.MinActionCacheBytes
    BY <1>1, <1>3
  <2> QED BY <1>3, <2>1, Zenon DEF Protected
<1> QED BY <1>2, <1>3, Zenon DEF Protected

\* OrderInv is preserved by every step.
LEMMA OrderStep ==
  ASSUME Lawless = {}, ~Faults,
         TypeOK, LeaseInv, VictimInv, ChangeInv, LawfulDisk, OrderInv, [Next]_vars
  PROVE  OrderInv'
<1>t. /\ DOMAIN files \subseteq Key /\ DiskTypeOK /\ now \in Nat
      /\ actionCacheBytes \in Int /\ entries \subseteq EntryInfo /\ victim \subseteq EntryInfo
  BY Zenon DEF TypeOK, DiskTypeOK
<1>k. \A j : Snapshot(j).key = j
  BY Zenon DEF Snapshot
<1>u. ASSUME files' = files, NEW j PROVE Snapshot(j)' = Snapshot(j)
  BY <1>u, Zenon DEF Snapshot
<1>p. ASSUME NEW e, NEW a, UNCHANGED now PROVE Protected(e, now, a)' <=> Protected(e, now, a')
  BY <1>p, Zenon DEF Protected, IsAction
<1>0. ASSUME ~exclusive', pc' \notin {"open", "stat", "unlink"} PROVE OrderInv'
  BY <1>0, Zenon DEF OrderInv
<1>r. ASSUME Return PROVE OrderInv'
  BY <1>r, <1>0, Zenon DEF Return, ReleaseExclusive
<1>1. CASE StartCleanup
  BY <1>0, <1>1, Zenon DEF StartCleanup, LeaseInv
<1>2. ASSUME NEW k \in Key, VisitEntry(k) PROVE OrderInv'
  <2>1. /\ pc = "scan" /\ pc' = "scan" /\ UNCHANGED <<exclusive, files>>
        /\ k \in todo /\ todo' = todo \ {k}
    BY <1>2, Zenon DEF VisitEntry
  <2>q. ASSUME exclusive => \A e \in entries' : e.key \in DOMAIN files /\ e = Snapshot(e.key),
               exclusive => \A j \in DOMAIN files \ todo' : Snapshot(j) \in entries'
        PROVE  OrderInv'
    <3>1. \A j : Snapshot(j)' = Snapshot(j)
      BY <1>u, <2>1, Zenon
    <3> QED BY <2>1, <2>q, <3>1, Zenon DEF OrderInv
  <2>2. CASE k \notin DOMAIN files
    <3>1. entries' = entries
      BY <1>2, <2>2, Zenon DEF VisitEntry, HasSnapshot
    <3>2. DOMAIN files \ todo' = DOMAIN files \ todo
      BY <2>1, <2>2, Zenon
    <3>3. exclusive => \A e \in entries' : e.key \in DOMAIN files /\ e = Snapshot(e.key)
      BY <3>1, Zenon DEF OrderInv
    <3>4. exclusive => \A j \in DOMAIN files \ todo' : Snapshot(j) \in entries'
      BY <2>1, <3>1, <3>2 DEF OrderInv
    <3> QED BY <2>q, <3>3, <3>4, Zenon
  <2>3. CASE k \in DOMAIN files
    <3>1. entries' = entries \cup {Snapshot(k)}
      BY <1>2, <2>3, Zenon DEF VisitEntry, HasSnapshot, LawfulDisk
    <3>2. exclusive => \A e \in entries' : e.key \in DOMAIN files /\ e = Snapshot(e.key)
      BY <1>k, <2>3, <3>1, Zenon DEF OrderInv
    <3>3. exclusive => \A j \in DOMAIN files \ todo' : Snapshot(j) \in entries'
      BY <2>1, <3>1, Zenon DEF OrderInv
    <3> QED BY <2>q, <3>2, <3>3, Zenon
  <2> QED BY <2>2, <2>3, Zenon
<1>3. CASE MeasurePressure
  <2>1. CASE ~Return
    <3>1. /\ pc = "scan" /\ todo = {} /\ pc' \in {"select", "lease"}
          /\ UNCHANGED <<files, entries, victim, exclusive>>
      BY <1>3, <2>1, Zenon DEF MeasurePressure
    <3>2. exclusive => \A j \in DOMAIN files : Snapshot(j) \in entries
      BY <3>1, Zenon DEF OrderInv
    <3>3. exclusive' => \A j \in DOMAIN files' : Considered(j)'
      BY <1>u, <3>1, <3>2, Zenon DEF Considered
    <3>4. exclusive' => \A e \in entries' : e.key \in DOMAIN files' /\ e = Snapshot(e.key)'
      BY <1>u, <3>1, Zenon DEF OrderInv
    <3> QED BY <3>1, <3>3, <3>4, Zenon DEF OrderInv
  <2> QED BY <1>r, <2>1, Zenon
<1>4. CASE TryExclusive
  <2>1. CASE ~Return
    <3>1. pc' = "scan" /\ todo' = Key /\ entries' = {} /\ files' = files
      BY <1>4, <2>1, Zenon DEF TryExclusive, BeginScan
    <3> QED BY <1>t, <3>1, Zenon DEF OrderInv
  <2> QED BY <1>r, <2>1, Zenon
<1>5. CASE SelectNext
  <2>1. CASE ~Return
    <3>0. CASE shadow
      <4>1. ~exclusive' /\ pc' \notin {"open", "stat", "unlink"}
        BY <1>5, <2>1, <3>0, Zenon DEF SelectNext, LeaseInv
      <4> QED BY <1>0, <4>1, Zenon
    <3>1. CASE ~shadow
      <4>1. PICK e \in NextInOrder :
              /\ entries' = entries \ {e}
              /\ IF Protected(e, now, actionCacheBytes) THEN UNCHANGED <<pc, victim>>
                 ELSE pc' = "open" /\ victim' = {e}
        BY <1>5, <2>1, <3>1, Zenon DEF SelectNext
      <4>2. /\ pc = "select" /\ exclusive /\ exclusive'
            /\ UNCHANGED <<files, now, actionCacheBytes, heat>>
        BY <1>5, <2>1, <3>1, Zenon DEF SelectNext, LeaseInv
      <4>3. e \in entries /\ \A f \in entries : ~less(f, e)
        BY Zenon DEF NextInOrder
      <4>4. /\ e.key \in DOMAIN files /\ e = Snapshot(e.key)
            /\ \A f \in entries : f.key \in DOMAIN files /\ f = Snapshot(f.key)
        BY <4>2, <4>3, Zenon DEF OrderInv
      <4>5. ASSUME NEW j \in DOMAIN files PROVE Considered(j)'
        <5>1. Snapshot(j) \in entries \/ Protected(Snapshot(j), now, actionCacheBytes)
          BY <4>2, Zenon DEF OrderInv, Considered
        <5>2. Snapshot(j)' = Snapshot(j)
          BY <1>u, <4>2, Zenon
        <5>3. CASE Protected(Snapshot(j), now, actionCacheBytes)
          BY <4>2, <5>2, <5>3, Zenon DEF Considered, Protected, IsAction
        <5>4. CASE Snapshot(j) \in entries /\ ~Protected(Snapshot(j), now, actionCacheBytes)
          BY <4>1, <5>2, <5>4, Zenon DEF Considered
        <5> QED BY <5>1, <5>3, <5>4, Zenon
      <4>6. CASE Protected(e, now, actionCacheBytes)
        <5>1. pc' = "select" /\ entries' \subseteq entries
          BY <4>1, <4>2, <4>6, Zenon
        <5> QED BY <1>u, <4>2, <4>4, <4>5, <5>1, Zenon DEF OrderInv
      <4>7. CASE ~Protected(e, now, actionCacheBytes)
        <5>1. pc' = "open" /\ victim' = {e} /\ entries' = entries \ {e}
          BY <4>1, <4>7, Zenon
        <5>2. \A f \in entries' : ~less(f, e)'
          BY <4>2, <4>3, <5>1, Zenon DEF less
        <5> QED BY <1>u, <4>2, <4>4, <4>5, <5>1, <5>2 DEF OrderInv
      <4> QED BY <4>6, <4>7, Zenon
    <3> QED BY <3>0, <3>1, Zenon
  <2> QED BY <1>r, <2>1, Zenon
<1>m. ASSUME pc \in {"open", "stat"}, pc' \in {"stat", "unlink"},
             UNCHANGED <<files, victim, heat, entries, now, actionCacheBytes, exclusive>>
      PROVE  OrderInv'
  <2>1. exclusive' => \A j \in DOMAIN files' : Considered(j)'
    <3> SUFFICES ASSUME exclusive, NEW j \in DOMAIN files PROVE Considered(j)'
      BY <1>m, Zenon
    <3>1. Considered(j) /\ Snapshot(j)' = Snapshot(j)
      BY <1>u, <1>m, Zenon DEF OrderInv
    <3> QED BY <1>m, <3>1, Zenon DEF Considered, Protected, IsAction
  <2>2. \A f, g : less(f, g)' <=> less(f, g)
    BY <1>m, Zenon DEF less
  <2> QED BY <1>u, <1>m, <2>1, <2>2, Zenon DEF OrderInv
<1>o. CASE OpenRoot
  <2>1. ~rootReplaced
    BY Zenon DEF LawfulDisk
  <2> QED BY <1>m, <1>o, <2>1, Zenon DEF OpenRoot
<1>6. CASE Revalidate
  <2>1. PICK e \in victim : pc = "stat" /\
          IF Matches(e, Opened(rootFD))
          THEN pc' = "unlink" /\ UNCHANGED <<victim, heat, scanVars, leaseVars>>
          ELSE Skip
    BY <1>6, Zenon DEF Revalidate
  <2>2. Matches(e, Opened(rootFD))
    <3>1. Opened(rootFD) = files
      BY <2>1, Zenon DEF Opened, LawfulDisk, VictimInv, TypeOK, DiskTypeOK
    <3>2. e.key \in DOMAIN files /\ e = Snapshot(e.key) /\ files[e.key].regular
      BY <2>1, Zenon DEF OrderInv, LawfulDisk
    <3>3. Matches(e, files)
      BY <3>2 DEF Matches, Snapshot
    <3> QED BY <3>1, <3>3, Zenon
  <2> QED BY <1>6, <1>m, <2>1, <2>2, Zenon DEF Revalidate
<1>7. CASE UnlinkVictim
  <2>1. PICK e \in victim : UnlinkSucceeds(e) \/ UnlinkFindsNothing(e)
    BY <1>7, Zenon DEF UnlinkVictim
  <2>2. /\ pc = "unlink" /\ exclusive /\ rootFD = FALSE /\ rootReplaced = FALSE
        /\ e \notin entries /\ e.key \in DOMAIN files /\ e = Snapshot(e.key)
    BY <1>7, <2>1, Zenon DEF UnlinkVictim, LeaseInv, VictimInv, LawfulDisk, OrderInv, TypeOK, DiskTypeOK
  <2>3. ~UnlinkFindsNothing(e)
    BY <2>2, Zenon DEF UnlinkFindsNothing, Opened
  <2>4. /\ pc' = "account" /\ files' = Without(files, e.key)
        /\ UNCHANGED <<entries, now, actionCacheBytes, exclusive>>
    BY <2>1, <2>2, <2>3, Zenon DEF UnlinkSucceeds, Unlinkat
  <2>5. DOMAIN files' = DOMAIN files \ {e.key} /\ \A j \in DOMAIN files' : files'[j] = files[j]
    BY <2>4, Zenon DEF Without
  <2>6. \A j \in DOMAIN files' : Snapshot(j)' = Snapshot(j)
    BY <2>5, Zenon DEF Snapshot
  <2>7. \A f \in entries : f.key \in DOMAIN files' /\ f = Snapshot(f.key)'
    <3> SUFFICES ASSUME NEW f \in entries PROVE f.key \in DOMAIN files' /\ f = Snapshot(f.key)'
      BY Zenon
    <3>1. f.key \in DOMAIN files /\ f = Snapshot(f.key)
      BY <2>2, Zenon DEF OrderInv
    <3>2. f.key # e.key
      BY <2>2, <3>1, Zenon
    <3> QED BY <2>5, <2>6, <3>1, <3>2, Zenon
  <2>8. ASSUME NEW j \in DOMAIN files' PROVE Considered(j)'
    <3>1. j \in DOMAIN files /\ j # e.key /\ Snapshot(j)' = Snapshot(j)
      BY <2>5, <2>6, Zenon
    <3>2. Considered(j)
      BY <2>2, <3>1, Zenon DEF OrderInv
    <3>3. Snapshot(j) \notin victim
      BY <1>k, <2>2, <3>1, Zenon DEF VictimInv
    <3> QED BY <2>4, <3>1, <3>2, <3>3, Zenon DEF Considered, Protected, IsAction
  <2> QED BY <2>4, <2>7, <2>8, Zenon DEF OrderInv
<1>8. CASE Account
  <2>1. PICK e \in victim : AccountFor(e)
    BY <1>8, Zenon DEF Account
  <2>2. CASE ~Return
    <3>1. actionCacheBytes' = actionCacheBytes - IF IsAction(e.key) THEN e.size ELSE 0
      BY <2>1, <2>2, Zenon DEF AccountFor
    <3>2. /\ pc = "account" /\ pc' \in {"select", "confirm"}
          /\ UNCHANGED <<files, exclusive, now, entries>>
      BY <1>8, <2>1, <2>2, Zenon DEF Account, AccountFor, Continue
    <3>3. e.size \in Nat
      BY EntryNumbers, <1>t, Zenon
    <3>4. actionCacheBytes' \in Int /\ actionCacheBytes' <= actionCacheBytes
      BY <1>t, <3>1, <3>3
    <3>5. ASSUME exclusive, NEW j \in DOMAIN files PROVE Considered(j)'
      <4>1. Snapshot(j) \in entries \/ Protected(Snapshot(j), now, actionCacheBytes)
        BY <3>2, <3>5, Zenon DEF OrderInv, Considered
      <4>2. Snapshot(j)' = Snapshot(j)
        BY <1>u, <3>2, Zenon
      <4>3. CASE Snapshot(j) \in entries
        BY <3>2, <4>2, <4>3, Zenon DEF Considered
      <4>4. CASE Protected(Snapshot(j), now, actionCacheBytes)
        <5>1. Snapshot(j) \in EntryInfo
          BY <1>t, SnapshotType, Zenon DEF HasSnapshot, LawfulDisk
        <5>2. Protected(Snapshot(j), now, actionCacheBytes')
          BY <1>t, <3>4, <4>4, <5>1, ProtectedStays
        <5> QED BY <3>2, <4>2, <5>2, Zenon DEF Considered, Protected, IsAction
      <4> QED BY <4>1, <4>3, <4>4, Zenon
    <3> QED BY <1>u, <3>2, <3>5, Zenon DEF OrderInv
  <2> QED BY <1>r, <2>2, Zenon
<1>9. CASE Confirm
  <2>1. CASE ~Return
    <3>1. /\ pc = "confirm" /\ pc' = "select"
          /\ UNCHANGED <<files, exclusive, now, entries, actionCacheBytes>>
      BY <1>9, <2>1, Zenon DEF Confirm, Continue
    <3>2. ASSUME exclusive, NEW j \in DOMAIN files PROVE Considered(j)'
      <4>1. Considered(j) /\ Snapshot(j)' = Snapshot(j)
        BY <1>u, <3>1, <3>2, Zenon DEF OrderInv
      <4> QED BY <3>1, <4>1, Zenon DEF Considered, Protected, IsAction
    <3> QED BY <1>u, <3>1, <3>2, Zenon DEF OrderInv
  <2> QED BY <1>r, <2>1, Zenon
<1>10. CASE CycleFails \/ DeleteFails \/ Crash
  BY <1>10, Zenon DEF CycleFails, DeleteFails, Crash
<1>11. CASE Start \/ (\E k \in Key : HeatChanges(k)) \/ RecoverWatcher
  <2>1. CASE Start
    BY <1>0, <2>1, Zenon DEF Start, LeaseInv
  <2>2. CASE \E k \in Key : HeatChanges(k)
    BY <1>0, <2>2 DEF HeatChanges, LeaseInv
  <2>3. CASE RecoverWatcher
    BY <1>0, <2>3, Zenon DEF RecoverWatcher, LeaseInv
  <2> QED BY <1>11, <2>1, <2>2, <2>3, Zenon
<1>12. CASE AlterCache
  <2>1. ~exclusive' /\ pc' \notin {"open", "stat", "unlink"}
    BY <1>12, LockedOut, ZenonT(40) DEF AlterCache, LeaseInv
  <2> QED BY <1>0, <2>1, Zenon
<1>13. CASE UNCHANGED <<hoshinoVars, files, exclusive>>
  <2>1. \A j : Considered(j)' <=> Considered(j)
    BY <1>13, <1>u, Zenon DEF Considered, Protected, IsAction
  <2>2. \A f, g : less(f, g)' <=> less(f, g)
    BY <1>13, Zenon DEF less
  <2> QED BY <1>13, <1>u, <2>1, <2>2 DEF OrderInv
<1>14. CASE ClientLease
  <2>1. exclusive' = exclusive
    BY <1>14, Zenon DEF ClientLease, RequestShared, GrantShared, ReleaseShared
  <2> QED BY <1>13, <1>14, <2>1, Zenon DEF ClientLease
<1> QED
  BY <1>1, <1>2, <1>3, <1>4, <1>5, <1>6, <1>7, <1>8, <1>9, <1>10, <1>11, <1>12, <1>13, <1>14,
     <1>o
  DEF Next, CleanupStep, OtherPods, OtherUse, TimePasses, Tick, vars

\* ChangeInv and OrderInv hold in every reachable state.
LEMMA OrderAlways ==
  ASSUME Lawless = {}, ~Faults
  PROVE  Spec => [](ChangeInv /\ OrderInv)
<1>1. Init => ChangeInv /\ OrderInv
  BY Zenon DEF Init, LeaseInit, ChangeInv, OrderInv
<1>2. ASSUME TypeOK, LeaseInv, VictimInv, LawfulDisk /\ TotalsInv, ChangeInv /\ OrderInv, [Next]_vars
      PROVE  ChangeInv' /\ OrderInv'
  BY <1>2, ChangeStep, OrderStep, Zenon
<1> QED BY <1>1, <1>2, TypeCorrect, LeaseAlways, VictimAlways, TotalsAlways, PTL DEF Spec

\* When clients respect the lock and no call fails, an entry is deleted only
\* after every strictly colder file on disk was passed over for a reason that
\* still holds: the order of sort.Slice survives skips and re-measurements.
THEOREM ColdestGoFirst ==
  ASSUME Lawless = {}, ~Faults
  PROVE  Spec => ColdestFirst
<1> DEFINE Step == \A k \in Key : HoshinoUnlinks(k) =>
             \A j \in DOMAIN files :
               heat[j] < heat[k] => Protected(Snapshot(j), now, actionCacheBytes)
<1>1. ASSUME TypeOK, LeaseInv, VictimInv, ChangeInv /\ OrderInv, [Next]_vars
      PROVE  Step
  <2> SUFFICES ASSUME NEW k \in Key, HoshinoUnlinks(k), NEW j \in DOMAIN files, heat[j] < heat[k]
               PROVE  Protected(Snapshot(j), now, actionCacheBytes)
    BY Zenon
  <2>1. PICK e \in victim : e.key = k
    BY <1>1, UnlinkIsVictim, Zenon
  <2>2. pc = "unlink" /\ exclusive
    BY <1>1, Zenon DEF HoshinoUnlinks, LeaseInv
  <2>3. Snapshot(j).key = j
    BY Zenon DEF Snapshot
  <2>4. heat[j] \in Nat /\ heat[k] \in Nat
    BY <1>1, Zenon DEF TypeOK, DiskTypeOK
  <2>5. Snapshot(j) \notin victim
    <3>1. j # k
      BY <2>4
    <3>2. \A f, g \in victim : f = g
      BY <1>1, Zenon DEF VictimInv
    <3> QED BY <2>1, <2>3, <3>1, <3>2, Zenon
  <2>6. Snapshot(j) \notin entries
    BY <1>1, <2>1, <2>2, <2>3, Zenon DEF OrderInv, less
  <2>7. Considered(j)
    BY <1>1, <2>2, Zenon DEF OrderInv
  <2> QED BY <2>5, <2>6, <2>7, Zenon DEF Considered
<1>2. ASSUME TypeOK, LeaseInv, VictimInv, ChangeInv /\ OrderInv, [Next]_vars
      PROVE  [Step]_vars
  BY <1>1, <1>2, Zenon
<1> QED
  BY <1>2, TypeCorrect, LeaseAlways, VictimAlways, OrderAlways, PTL DEF Spec, ColdestFirst

\* When clients respect the lock and no call fails, a cycle that held the lock
\* and leaves eviction switched on leaves nothing behind that it was allowed to
\* delete.
THEOREM CyclesComplete ==
  ASSUME Lawless = {}, ~Faults
  PROVE  Spec => CycleComplete
<1> DEFINE Step == exclusive /\ pc' = "loop" /\ evicting' =>
             \A k \in DOMAIN files : Protected(Snapshot(k), now, BytesOnDisk(ActionKey))
<1>1. ASSUME TypeOK, LeaseInv, LawfulDisk /\ TotalsInv, ChangeInv /\ OrderInv, [Next]_vars
      PROVE  Step
  <2> SUFFICES ASSUME exclusive, pc' = "loop", evicting', NEW k \in DOMAIN files
               PROVE  Protected(Snapshot(k), now, BytesOnDisk(ActionKey))
    BY Zenon
  <2>1. ~shadow /\ pc \in {"scan", "select", "open", "stat", "unlink", "account", "confirm"}
    BY <1>1, Zenon DEF LeaseInv
  <2>2. ~MeasurePressure /\ ~Confirm
    BY Zenon DEF MeasurePressure, Confirm, Continue
  <2>3. ~Account
    BY <2>1, ZenonT(40) DEF Account, AccountFor, Continue
  <2>4. SelectNext
    BY <1>1, <2>1, <2>2, <2>3 DEF Next, CleanupStep, StartCleanup, VisitEntry, TryExclusive,
       OpenRoot, Revalidate, UnlinkVictim, UnlinkSucceeds, UnlinkFindsNothing, CycleFails, DeleteFails, Skip,
       Start, HeatChanges, RecoverWatcher, Crash, ClientLease, AlterCache, OtherPods, TimePasses, vars
  <2>5. pc = "select" /\ entries = {}
    BY <2>1, <2>4, Zenon DEF SelectNext
  <2>6. actionCacheBytes = BytesOnDisk(ActionKey)
    BY <1>1, <2>5, Zenon DEF TotalsInv, BytesOnDisk
  <2>7. Considered(k)
    BY <1>1, <2>5, Zenon DEF OrderInv
  <2>8. Protected(Snapshot(k), now, actionCacheBytes)
    BY <2>5, <2>7, Zenon DEF Considered
  <2> QED BY <2>6, <2>8, Zenon
<1>2. ASSUME TypeOK, LeaseInv, LawfulDisk /\ TotalsInv, ChangeInv /\ OrderInv, [Next]_vars
      PROVE  [Step]_vars
  BY <1>1, <1>2, Zenon
<1> QED
  BY <1>2, TypeCorrect, LeaseAlways, TotalsAlways, OrderAlways, PTL DEF Spec, CycleComplete
=============================================================================
