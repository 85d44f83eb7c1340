----------------------------- MODULE MCTracking -----------------------------
(***************************************************************************)
(* Small instances of Tracking: two directories, one with two entries.     *)
(***************************************************************************)
EXTENDS Tracking

CONSTANTS a, b, a1, a2, b1

MCDir == {a, b}
MCKey == {a1, a2, b1}
MCDirOf == [k \in MCKey |-> IF k = b1 THEN b ELSE a]
=============================================================================
