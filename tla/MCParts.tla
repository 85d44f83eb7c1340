------------------------------ MODULE MCParts -------------------------------
(***************************************************************************)
(* Four parts of the program that share no state: the path filters, the    *)
(* options, the heap and the checkpoint.  Each is explored on its own,     *)
(* with the others at rest.                                                *)
(*                                                                         *)
(* There are names of every class ParseKey tells apart: both stores, a     *)
(* shard, a digest, one partly in capitals, and the root's own name.       *)
(***************************************************************************)
EXTENDS CacheKey, Options, MinHeap, Checkpoint

MCName == {"", ".", "..", "ac", "cas", "ac64", "acFF64", "cache"}
MCLength == [n \in MCName |-> CASE n \in {"..", "ac"} -> 2
                                [] n \in {"ac64", "acFF64"} -> 64
                                [] OTHER -> 3]
MCPrefix == [n \in MCName |-> IF n \in {"ac64", "acFF64"} THEN "ac" ELSE n]
MCLowerHex == {"ac", "ac64"}
MCRoot == <<"cache">>

PartsInit == PathInit /\ OptionsInit /\ MinHeapInit /\ Init

PartsNext ==
  \/ OptionsInit /\ MinHeapInit /\ Init /\ PathNext /\ UNCHANGED <<opts, heapVars, vars>>
  \/ PathInit /\ MinHeapInit /\ Init /\ OptionsNext /\ UNCHANGED <<given, heapVars, vars>>
  \/ PathInit /\ OptionsInit /\ Init /\ MinHeapNext /\ UNCHANGED <<given, opts, vars>>
  \/ PathInit /\ OptionsInit /\ MinHeapInit /\ Next /\ UNCHANGED <<given, opts, heapVars>>

PartsSpec == PartsInit /\ [][PartsNext]_<<given, opts, heapVars, vars>>
=============================================================================
