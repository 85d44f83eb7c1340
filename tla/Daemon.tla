------------------------------- MODULE Daemon -------------------------------
(***************************************************************************)
(* The life of the hoshino process: run and main of main.go, and the Run   *)
(* goroutine of eviction/notify.go with its start-up, select loop,         *)
(* recovery from watcher loss and shutdown, under a supervisor that starts *)
(* a new process whenever one ends.                                        *)
(*                                                                         *)
(* A cleanup is two steps here, past its gates and back (module Eviction   *)
(* has the detail), and what the watcher reports is one flag (module       *)
(* Watcher has the detail).                                                *)
(***************************************************************************)
EXTENDS Integers

CONSTANTS
  WarmupDuration,
  MaxClock        \* bound: the last instant

ASSUME DaemonAssumption == WarmupDuration \in Nat /\ MaxClock \in Nat

VARIABLES
  clock,
  main,           \* the goroutine of run, or how the process ended
  signalled,      \* ctx is done: SIGINT or SIGTERM arrived
  manager,        \* the goroutine of Run; "final" is its last saveCheckpoint
  resetHeat,      \* the parameter of the latest reconcile
  restored,       \* checkpointRestored
  ready,
  warmUntil,
  loss,           \* a loss is queued in the watcher's channels
  checkpoint,     \* a checkpoint is on disk
  blindSince,     \* history: when this process last began without heat data, or -1
  lostAt          \* history: when any process last noticed a watcher loss, or -1

mainVars == <<main, signalled>>
freezeVars == <<resetHeat, restored, ready, warmUntil, loss, blindSince>>
vars == <<clock, mainVars, manager, freezeVars, checkpoint, lostAt>>

\* Type invariant: the control states of the two goroutines and the times.
TypeOK ==
  /\ clock \in Nat /\ warmUntil \in Nat
  /\ main \in {"select", "shutdown", "exited", "killed"}
  /\ manager \in {"start", "reconcile", "loop", "cleanup", "final", "returned"}
  /\ signalled \in BOOLEAN /\ resetHeat \in BOOLEAN /\ restored \in BOOLEAN
  /\ ready \in BOOLEAN /\ loss \in BOOLEAN /\ checkpoint \in BOOLEAN
  /\ blindSince \in Nat \cup {-1} /\ lostAt \in Nat \cup {-1}

Alive == main \in {"select", "shutdown"}

\* runContext is done.
cancelled == signalled \/ main = "shutdown"

Init ==
  /\ clock = 0
  /\ main = "select" /\ signalled = FALSE
  /\ manager = "start" /\ resetHeat = FALSE /\ restored = FALSE
  /\ ready = FALSE /\ warmUntil = 0 /\ loss = FALSE
  /\ checkpoint \in BOOLEAN
  /\ blindSince = -1 /\ lostAt = -1

-----------------------------------------------------------------------------
(***************************************************************************)
(* Notify.Run.                                                             *)
(***************************************************************************)

\* restoreCheckpoint; a checkpoint that does not load counts as none.
restoreCheckpoint ==
  /\ Alive /\ manager = "start"
  /\ restored' \in {FALSE, checkpoint}
  /\ blindSince' = IF restored' THEN -1 ELSE clock
  /\ manager' = "reconcile"
  /\ UNCHANGED <<clock, mainVars, resetHeat, ready, warmUntil, loss, checkpoint, lostAt>>

WarmupOnlyAtStart ==
  /\ Alive /\ manager = "reconcile"
  /\ warmUntil' = IF ~resetHeat /\ ~restored THEN clock + WarmupDuration ELSE warmUntil
  /\ ready' = TRUE
  /\ manager' = "loop"
  /\ UNCHANGED <<clock, mainVars, resetHeat, restored, loss, checkpoint, blindSince, lostAt>>

\* reconcile succeeds: the new watcher covers the tree, although a loss
\* reported while the drain was told to stop may already be queued.  The
\* warm-up starts at the end of reconcile(true), or in Run after the first
\* reconcile when no checkpoint was restored.
ReconcileSucceeds ==
  /\ Alive /\ manager = "reconcile"
  /\ warmUntil' = IF resetHeat \/ ~restored THEN clock + WarmupDuration ELSE warmUntil
  /\ ready' = TRUE
  /\ manager' = "loop"
  /\ UNCHANGED <<clock, mainVars, resetHeat, restored, loss, checkpoint, blindSince, lostAt>>

\* NewWatcher, a watch or the scan fails, or the drain meets a loss: Run
\* returns the error.
ReconcileFails ==
  /\ Alive /\ manager = "reconcile"
  /\ manager' = "returned"
  /\ UNCHANGED <<clock, mainVars, freezeVars, checkpoint, lostAt>>

\* The kernel or the tree takes coverage away from a running watcher.
WatcherLoses ==
  /\ Alive /\ manager \in {"reconcile", "loop", "cleanup", "final"} /\ ~loss
  /\ loss' = TRUE
  /\ UNCHANGED <<clock, mainVars, manager, resetHeat, restored, ready, warmUntil, checkpoint,
                 blindSince, lostAt>>

RecoverOnce ==
  /\ Alive /\ manager = "loop" /\ loss /\ ~resetHeat
  /\ loss' = FALSE
  /\ ready' = FALSE
  /\ manager' = "reconcile" /\ resetHeat' = TRUE
  /\ blindSince' = clock /\ lostAt' = clock
  /\ UNCHANGED <<clock, mainVars, restored, warmUntil, checkpoint>>

\* A branch of the select that calls recoverWatcher, up to the point where
\* reconcile(true) has closed the old watcher and what it had queued.
recoverWatcher ==
  /\ Alive /\ manager = "loop" /\ loss
  /\ loss' = FALSE
  /\ ready' = FALSE
  /\ manager' = "reconcile" /\ resetHeat' = TRUE
  /\ blindSince' = clock /\ lostAt' = clock
  /\ UNCHANGED <<clock, mainVars, restored, warmUntil, checkpoint>>

\* The cleanup ticker, for a cycle that gets past the two gates of cleanup.
\* Any other cycle changes nothing here.
Cleanup ==
  /\ Alive /\ manager = "loop"
  /\ ready /\ clock >= warmUntil
  /\ manager' = "cleanup"
  /\ UNCHANGED <<clock, mainVars, freezeVars, checkpoint, lostAt>>

CleanupReturns ==
  /\ Alive /\ manager = "cleanup"
  /\ manager' = "loop"
  /\ UNCHANGED <<clock, mainVars, freezeVars, checkpoint, lostAt>>

\* The checkpoint ticker; a save that fails is logged.
SaveCheckpoint ==
  /\ Alive /\ manager = "loop"
  /\ checkpoint' \in {checkpoint, TRUE}
  /\ UNCHANGED <<clock, mainVars, manager, freezeVars, lostAt>>

\* The ctx.Done branch up to saveCheckpoint.
ContextDone ==
  /\ Alive /\ manager = "loop" /\ cancelled
  /\ manager' = "final"
  /\ UNCHANGED <<clock, mainVars, freezeVars, checkpoint, lostAt>>

\* The final save, and the deferred calls of Run.
FinalSave ==
  /\ Alive /\ manager = "final"
  /\ checkpoint' \in {checkpoint, TRUE}
  /\ manager' = "returned" /\ ready' = FALSE
  /\ UNCHANGED <<clock, mainVars, resetHeat, restored, warmUntil, loss, blindSince, lostAt>>

-----------------------------------------------------------------------------
(***************************************************************************)
(* run and main, and what surrounds the process.                           *)
(***************************************************************************)

Signal ==
  /\ main = "select" /\ ~signalled
  /\ signalled' = TRUE
  /\ UNCHANGED <<clock, main, manager, freezeVars, checkpoint, lostAt>>

SelectWithoutManager ==
  /\ main = "select" /\ signalled
  /\ main' = "shutdown"
  /\ UNCHANGED <<clock, signalled, manager, freezeVars, checkpoint, lostAt>>

\* The select of run sees ctx.Done or what Run returned, and cancels.
Select ==
  /\ main = "select" /\ (signalled \/ manager = "returned")
  /\ main' = "shutdown"
  /\ UNCHANGED <<clock, signalled, manager, freezeVars, checkpoint, lostAt>>

\* ListenAndServe of one of the two servers returns an error.
ServerFails ==
  /\ main = "select"
  /\ main' = "shutdown"
  /\ UNCHANGED <<clock, signalled, manager, freezeVars, checkpoint, lostAt>>

\* The servers are shut down, run and main return, and every goroutine ends.
Exit ==
  /\ main = "shutdown"
  /\ main' = "exited"
  /\ UNCHANGED <<clock, signalled, manager, freezeVars, checkpoint, lostAt>>

\* SIGKILL, or the node goes down.
Kill ==
  /\ Alive
  /\ main' = "killed"
  /\ UNCHANGED <<clock, signalled, manager, freezeVars, checkpoint, lostAt>>

\* A new process: only the disk survives.
Restart ==
  /\ ~Alive
  /\ main' = "select" /\ signalled' = FALSE
  /\ manager' = "start" /\ resetHeat' = FALSE /\ restored' = FALSE
  /\ ready' = FALSE /\ warmUntil' = 0 /\ loss' = FALSE
  /\ blindSince' = -1
  /\ UNCHANGED <<clock, checkpoint, lostAt>>

Tick ==
  /\ clock < MaxClock
  /\ clock' = clock + 1
  /\ UNCHANGED <<mainVars, manager, freezeVars, checkpoint, lostAt>>

Run ==
  \/ restoreCheckpoint \/ ReconcileSucceeds \/ ReconcileFails \/ recoverWatcher
  \/ Cleanup \/ CleanupReturns \/ SaveCheckpoint \/ ContextDone \/ FinalSave

Next == Run \/ WatcherLoses \/ Signal \/ Select \/ ServerFails \/ Exit \/ Kill \/ Restart \/ Tick

Spec == Init /\ [][Next]_vars

\* The goroutines are scheduled, reconcile and cleanup return, and the
\* shutdown of the servers has a deadline.  The select of Run chooses among
\* the ready branches at random, so a branch that is ready whenever the loop
\* comes round is taken in the end.
Fairness ==
  /\ WF_vars(Select) /\ WF_vars(Exit)
  /\ WF_vars(restoreCheckpoint) /\ WF_vars(ReconcileSucceeds \/ ReconcileFails)
  /\ WF_vars(CleanupReturns) /\ WF_vars(FinalSave)
  /\ SF_vars(recoverWatcher) /\ SF_vars(ContextDone)

FairSpec == Spec /\ Fairness

-----------------------------------------------------------------------------
(***************************************************************************)
(* Properties.                                                             *)
(***************************************************************************)

\* A process that started without a checkpoint, or noticed a watcher loss,
\* runs no deleting cycle until a full WarmupDuration after that, however
\* the loss falls among cycles, saves and further losses.
FreezeRespected ==
  manager = "cleanup" /\ blindSince # -1 => clock >= blindSince + WarmupDuration

\* A queued watcher loss does not stay unhandled behind the tickers: Run
\* takes it up, or the process ends.
LossHandled == loss ~> (~loss \/ ~Alive)

\* A process told to stop, or whose Run has returned (a recovery that
\* failed), ends; it does not live on without its manager.
ProcessEnds == (Alive /\ (signalled \/ manager = "returned")) ~> ~Alive

\* The freeze as the documentation states it, of the deployed daemon: no
\* deleting cycle within WarmupDuration of a noticed watcher loss.
FreezeSurvivesRestart ==
  manager = "cleanup" /\ lostAt # -1 => clock >= lostAt + WarmupDuration

\* A daemon that is told to stop while Run is in its loop has been through
\* the final save when it exits.
FinalCheckpoint ==
  main = "exited" /\ signalled => manager \notin {"loop", "cleanup", "final"}
=============================================================================
