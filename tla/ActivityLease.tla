---------------------------- MODULE ActivityLease ---------------------------
(***************************************************************************)
(* The activity lock: one flock(2) lock, held shared by every Bazel        *)
(* invocation that uses the cache (`flock --shared`, which blocks) and     *)
(* exclusively by hoshino during an active deletion cycle                  *)
(* (eviction/lease.go, LOCK_EX|LOCK_NB).  The lock itself is the kernel's. *)
(***************************************************************************)
CONSTANT Client     \* the Bazel invocations

VARIABLES
  waiting,          \* clients blocked in flock --shared
  shared,           \* clients that hold the lock shared
  exclusive         \* hoshino holds the lock exclusively

leaseVars == <<waiting, shared, exclusive>>

LeaseTypeOK ==
  /\ waiting \in SUBSET Client
  /\ shared \in SUBSET Client
  /\ exclusive \in BOOLEAN

LeaseInit == waiting = {} /\ shared = {} /\ exclusive = FALSE

(* The wrapper around a Bazel command. *)
RequestShared(c) ==
  /\ c \notin shared \cup waiting
  /\ waiting' = waiting \cup {c}
  /\ UNCHANGED <<shared, exclusive>>

GrantShared(c) ==
  /\ c \in waiting
  /\ ~exclusive
  /\ waiting' = waiting \ {c}
  /\ shared' = shared \cup {c}
  /\ UNCHANGED exclusive

ReleaseShared(c) ==
  /\ c \in shared
  /\ shared' = shared \ {c}
  /\ UNCHANGED <<waiting, exclusive>>

BusyIgnored == exclusive

(* TryExclusive opens the lock file anew, so its flock call fails with       *)
(* EWOULDBLOCK while any other open file description holds the lock: a       *)
(* client's, or one that an earlier cycle of hoshino failed to release.      *)
Busy == shared # {} \/ exclusive

AcquireExclusive ==
  /\ ~Busy
  /\ exclusive' = TRUE
  /\ UNCHANGED <<waiting, shared>>

(* The release closure; also what the kernel does when hoshino dies. *)
ReleaseExclusive ==
  /\ exclusive' = FALSE
  /\ UNCHANGED <<waiting, shared>>
=============================================================================
