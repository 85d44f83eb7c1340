------------------------------ MODULE MCWatcher -----------------------------
(* A store directory s with one shard t below it. *)
EXTENDS WatcherStream, TLC

CONSTANTS s, t

MCParent == (s :> Root) @@ (t :> s)
=============================================================================
