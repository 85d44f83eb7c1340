---------------------------- MODULE MCHeavyKeeper ---------------------------
(***************************************************************************)
(* A small instance of HeavyKeeper: each two of the three keys meet in     *)
(* some slot of one of the two rows, and the last two share a fingerprint. *)
(***************************************************************************)
EXTENDS HeavyKeeper

MCHash == <<<<1, 1, 2>>, <<1, 2, 2>>>>
MCShared == <<1, 2, 2>>
=============================================================================
