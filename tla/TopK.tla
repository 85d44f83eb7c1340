-------------------------------- MODULE TopK --------------------------------
(***************************************************************************)
(* What the min heap of eviction/internal/minheap promises: a table of at  *)
(* most K keys and their counts, in which room is made by expelling the    *)
(* coldest key.  MinHeap implements it with an array; HeavyKeeper uses it. *)
(*                                                                         *)
(* Keys are numbers because Less breaks ties by comparing them.            *)
(***************************************************************************)
EXTENDS Naturals, FiniteSets

CONSTANTS
  Key,        \* cache keys
  K,          \* Heap.K
  MaxCount    \* largest count, 2^32 - 1 in the code

ASSUME TopKAssumption == Key \subseteq Nat /\ IsFiniteSet(Key) /\ K \in Nat /\ MaxCount \in Nat \ {0}

VARIABLE top  \* the table: a function from the keys it holds to their counts

\* Of two counted keys, j is the colder one.  In a tie the larger key is.
Colder(t, j, k) == t[j] < t[k] \/ (t[j] = t[k] /\ j > k)

\* The coldest and the hottest key of a table that is not empty.
Coldest(t) == CHOOSE k \in DOMAIN t : \A j \in DOMAIN t \ {k} : Colder(t, k, j)
Hottest(t) == CHOOSE k \in DOMAIN t : \A j \in DOMAIN t \ {k} : Colder(t, j, k)

\* The smallest count, 0 for an empty table.
Min(t) == IF DOMAIN t = {} THEN 0 ELSE t[Coldest(t)]

Empty == [k \in {} |-> 0]

Drop(t, k) == [j \in DOMAIN t \ {k} |-> t[j]]

Put(t, k, c) == [j \in DOMAIN t \cup {k} |-> IF j = k THEN c ELSE t[j]]

\* A known key is recounted.  A new one is taken while there is room, then only
\* in exchange for a coldest key that counts strictly less.
Upserted(t, k, c) ==
  IF k \in DOMAIN t \/ Cardinality(DOMAIN t) < K THEN Put(t, k, c)
  ELSE IF K > 0 /\ c > Min(t) THEN Put(Drop(t, Coldest(t)), k, c)
  ELSE t

Halved(t) == [k \in {j \in DOMAIN t : t[j] \div 2 > 0} |-> t[k] \div 2]

Upsert(k, c) == top' = Upserted(top, k, c)
Remove(k) == top' = Drop(top, k)
ScaleDown == top' = Halved(top)
Pop == DOMAIN top # {} /\ top' = Drop(top, Coldest(top))

Init == top = Empty

Next ==
  \/ \E k \in Key : (\E c \in 0 .. MaxCount : Upsert(k, c)) \/ Remove(k)
  \/ ScaleDown \/ Pop

Spec == Init /\ [][Next]_top
=============================================================================
