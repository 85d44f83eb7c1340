---------------------------- MODULE DaemonProofs ----------------------------
(***************************************************************************)
(* Type correctness of the daemon's life cycle, and that a process never   *)
(* deletes before the warm-up it owes is over, for every WarmupDuration.   *)
(***************************************************************************)
EXTENDS Daemon, TLAPS

USE DaemonAssumption DEF Alive, cancelled, mainVars, freezeVars

\* The control states and the times of the process keep their types in every
\* step of Run, of run and of the supervisor.
THEOREM TypeCorrect == Spec => []TypeOK
<1>1. Init => TypeOK
  <2> SUFFICES ASSUME Init PROVE TypeOK
    OBVIOUS
  <2>1. /\ signalled \in BOOLEAN /\ resetHeat \in BOOLEAN /\ restored \in BOOLEAN
        /\ ready \in BOOLEAN /\ loss \in BOOLEAN /\ checkpoint \in BOOLEAN
    BY Zenon DEF Init
  <2>2. /\ clock \in Nat /\ warmUntil \in Nat /\ blindSince = -1 /\ lostAt = -1
        /\ main = "select" /\ manager = "start"
    BY DEF Init
  <2> QED
    BY <2>1, <2>2 DEF TypeOK
<1>2. TypeOK /\ [Next]_vars => TypeOK'
  <2> SUFFICES ASSUME TypeOK, [Next]_vars PROVE TypeOK'
    OBVIOUS
  <2> USE DEF TypeOK
  <2>1. CASE restoreCheckpoint
    <3>1. restored' \in BOOLEAN
      BY <2>1, Zenon DEF restoreCheckpoint
    <3>2. /\ manager' = "reconcile" /\ blindSince' \in Nat \cup {-1}
          /\ UNCHANGED <<clock, main, signalled, resetHeat, ready, warmUntil, loss, checkpoint, lostAt>>
      BY <2>1 DEF restoreCheckpoint
    <3> QED
      BY <3>1, <3>2
  <2>2. CASE ReconcileSucceeds
    BY <2>2 DEF ReconcileSucceeds
  <2>10. CASE ReconcileFails \/ WatcherLoses
    BY <2>10 DEF ReconcileFails, WatcherLoses
  <2>3. CASE recoverWatcher
    BY <2>3 DEF recoverWatcher
  <2>4. CASE Cleanup \/ CleanupReturns \/ SaveCheckpoint
    BY <2>4 DEF Cleanup, CleanupReturns, SaveCheckpoint
  <2>5. CASE ContextDone \/ FinalSave
    BY <2>5 DEF ContextDone, FinalSave
  <2>6. CASE Signal \/ Select
    BY <2>6 DEF Signal, Select
  <2>11. CASE ServerFails
    BY <2>11 DEF ServerFails
  <2>12. CASE Exit \/ Kill
    BY <2>12 DEF Exit, Kill
  <2>7. CASE Restart
    BY <2>7 DEF Restart
  <2>8. CASE Tick
    BY <2>8 DEF Tick
  <2>9. CASE UNCHANGED vars
    BY <2>9 DEF vars
  <2> QED
    BY <2>1, <2>2, <2>3, <2>4, <2>5, <2>6, <2>7, <2>8, <2>9, <2>10, <2>11, <2>12
    DEF Next, Run
<1> QED
  BY <1>1, <1>2, PTL DEF Spec

-----------------------------------------------------------------------------
\* Once the process is blind, the deadline that reconcile or Run stores covers
\* the time of blindness; before that, the branch that stores it is still due.
FreezeInv ==
  /\ blindSince # -1 => blindSince <= clock
  /\ blindSince # -1 /\ manager = "reconcile" => resetHeat \/ ~restored
  /\ blindSince # -1 /\ manager \in {"loop", "cleanup", "final"}
       => blindSince + WarmupDuration <= warmUntil
  /\ manager = "cleanup" => warmUntil <= clock

\* Every step of the process and of its surroundings preserves FreezeInv.
LEMMA FreezeStep == TypeOK /\ FreezeInv /\ [Next]_vars => FreezeInv'
<1> SUFFICES ASSUME TypeOK, FreezeInv, [Next]_vars PROVE FreezeInv'
  OBVIOUS
<1> USE DEF TypeOK, FreezeInv
<1>1. CASE restoreCheckpoint
  BY <1>1 DEF restoreCheckpoint
<1>2. CASE ReconcileSucceeds
  BY <1>2 DEF ReconcileSucceeds
<1>3. CASE ReconcileFails \/ WatcherLoses
  BY <1>3 DEF ReconcileFails, WatcherLoses
<1>4. CASE recoverWatcher
  BY <1>4 DEF recoverWatcher
<1>5. CASE Cleanup \/ CleanupReturns \/ SaveCheckpoint
  BY <1>5 DEF Cleanup, CleanupReturns, SaveCheckpoint
<1>6. CASE ContextDone \/ FinalSave
  BY <1>6 DEF ContextDone, FinalSave
<1>7. CASE Signal \/ Select \/ ServerFails \/ Exit \/ Kill
  BY <1>7 DEF Signal, Select, ServerFails, Exit, Kill
<1>8. CASE Restart
  BY <1>8 DEF Restart
<1>9. CASE Tick
  BY <1>9 DEF Tick
<1>10. CASE UNCHANGED vars
  BY <1>10 DEF vars
<1> QED
  BY <1>1, <1>2, <1>3, <1>4, <1>5, <1>6, <1>7, <1>8, <1>9, <1>10 DEF Next, Run

\* However losses, recoveries, cycles and saves interleave, a process that has
\* no heat data runs no deleting cycle before its warm-up is over (the gate in
\* cleanup, the deadlines set in Run and reconcile).
THEOREM FreezeHolds == Spec => []FreezeRespected
<1>1. Init => FreezeInv
  BY DEF Init, FreezeInv
<1>2. TypeOK /\ FreezeInv => FreezeRespected
  BY DEF TypeOK, FreezeInv, FreezeRespected
<1> QED
  BY <1>1, <1>2, TypeCorrect, FreezeStep, PTL DEF Spec
=============================================================================
