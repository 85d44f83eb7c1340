------------------------------- MODULE MinHeap ------------------------------
(***************************************************************************)
(* The heap of eviction/internal/minheap: an array of nodes that           *)
(* container/heap keeps in heap order, each node knowing its own place,    *)
(* and a map from keys to nodes.  A node is named by its key.  Places      *)
(* count from 1, and 0 stands for the -1 of a node outside the array.      *)
(***************************************************************************)
EXTENDS Naturals, Sequences, FiniteSets

CONSTANTS
  Key, K,
  MaxCount    \* largest count

VARIABLES
  heap,       \* Nodes, and the fields Count and index of the nodes
  byKey       \* keys of the map

heapVars == <<heap, byKey>>

Less(h, i, j) ==
  LET a == h.nodes[i]  b == h.nodes[j]
  IN  h.count[a] < h.count[b] \/ (h.count[a] = h.count[b] /\ a > b)

SwapForgetsIndex(h, i, j) == [nodes |-> [h.nodes EXCEPT ![i] = h.nodes[j], ![j] = h.nodes[i]],
                              count |-> h.count,
                              index |-> [h.index EXCEPT ![h.nodes[j]] = i]]

Swap(h, i, j) == [nodes |-> [h.nodes EXCEPT ![i] = h.nodes[j], ![j] = h.nodes[i]],
                  count |-> h.count,
                  index |-> [h.index EXCEPT ![h.nodes[j]] = i, ![h.nodes[i]] = j]]

\* Nodes.Push and Nodes.Pop.
PushLast(h, k, c) == [nodes |-> Append(h.nodes, k),
                      count |-> [h.count EXCEPT ![k] = c],
                      index |-> [h.index EXCEPT ![k] = Len(h.nodes) + 1]]

PopLast(h) ==
  LET last == h.nodes[Len(h.nodes)]
  IN  [nodes |-> SubSeq(h.nodes, 1, Len(h.nodes) - 1),
       count |-> [h.count EXCEPT ![last] = 0],
       index |-> [h.index EXCEPT ![last] = 0]]

(***************************************************************************)
(* container/heap.  A loop is run for as many rounds as it can take; a     *)
(* round in which its condition fails changes nothing.                     *)
(***************************************************************************)
UpStep(s) ==
  IF s.at > 1 /\ Less(s.h, s.at, s.at \div 2)
  THEN [h |-> Swap(s.h, s.at \div 2, s.at), at |-> s.at \div 2]
  ELSE s

up(h, j) ==
  LET run[m \in 0 .. j] == IF m = 0 THEN [h |-> h, at |-> j] ELSE UpStep(run[m - 1])
  IN  run[j].h

\* The lesser of the children of i, if it has any.
Child(h, i, n) == IF 2 * i < n /\ Less(h, 2 * i + 1, 2 * i) THEN 2 * i + 1 ELSE 2 * i

DownStep(s, n) ==
  LET child == Child(s.h, s.at, n)
  IN  IF 2 * s.at <= n /\ Less(s.h, child, s.at)
      THEN [h |-> Swap(s.h, s.at, child), at |-> child]
      ELSE s

down(h, i, n) ==
  LET run[m \in 0 .. n] == IF m = 0 THEN [h |-> h, at |-> i] ELSE DownStep(run[m - 1], n)
  IN  run[n].h

downOrUp(h, i, n) == LET d == down(h, i, n) IN IF d # h THEN d ELSE up(h, i)

heapFix(h, i) == downOrUp(h, i, Len(h.nodes))

heapPush(h, k, c) == up(PushLast(h, k, c), Len(h.nodes) + 1)

heapPop(h) == LET n == Len(h.nodes) IN PopLast(down(Swap(h, 1, n), 1, n - 1))

heapRemove(h, i) ==
  LET n == Len(h.nodes)
  IN  PopLast(IF i = n THEN h ELSE downOrUp(Swap(h, i, n), i, n - 1))

heapInit(h) ==
  LET n == Len(h.nodes)
      run[m \in 0 .. n \div 2] == IF m = 0 THEN h ELSE down(run[m - 1], n \div 2 + 1 - m, n)
  IN  run[n \div 2]

(***************************************************************************)
(* Heap.                                                                   *)
(***************************************************************************)
NewHeap == [nodes |-> <<>>, count |-> [k \in Key |-> 0], index |-> [k \in Key |-> 0]]

MinHeapInit == heap = NewHeap /\ byKey = {}

FixAt(h, i, c) == heapFix([h EXCEPT !.count[h.nodes[i]] = c], i)

\* Find and Fix, as the heavy keeper calls them.
Fix(k, c) ==
  /\ k \in byKey
  /\ heap' = FixAt(heap, heap.index[k], c)
  /\ UNCHANGED byKey

HotterOrEqual(c) == c >= heap.count[heap.nodes[1]]

\* A full heap takes a new key that counts more than the coldest one.
Hotter(c) == c > heap.count[heap.nodes[1]]

\* upsert: Add and Upsert.
Upsert(k, c) ==
  \/ Fix(k, c)
  \/ /\ k \notin byKey /\ Len(heap.nodes) < K
     /\ heap' = heapPush(heap, k, c)
     /\ byKey' = byKey \cup {k}
  \/ /\ k \notin byKey /\ Len(heap.nodes) >= K /\ K > 0
     /\ IF Hotter(c)
        THEN /\ heap' = heapPush(heapPop(heap), k, c)
             /\ byKey' = (byKey \ {heap.nodes[1]}) \cup {k}
        ELSE UNCHANGED heapVars

Pop ==
  /\ heap.nodes # <<>>
  /\ heap' = heapPop(heap)
  /\ byKey' = byKey \ {heap.nodes[1]}

RemoveKey(k) ==
  /\ k \in byKey
  /\ heap' = heapRemove(heap, heap.index[k])
  /\ byKey' = byKey \ {k}

PopZero(h) == IF h.nodes # <<>> /\ h.count[h.nodes[1]] = 0 THEN heapPop(h) ELSE h

PopZeros(h) ==
  LET run[m \in 0 .. Len(h.nodes)] == IF m = 0 THEN h ELSE PopZero(run[m - 1])
  IN  run[Len(h.nodes)]

Halve(h) == [h EXCEPT !.count = [k \in Key |-> h.count[k] \div 2]]

KeepsArray(h) == h

\* Halving creates new ties, which the keys decide: the order is made anew.
Reorder(h) == heapInit(h)

\* The map loses the keys that the loop pops, and no other.
ScaleDown ==
  /\ heap' = PopZeros(Reorder(Halve(heap)))
  /\ byKey' = byKey \ {k \in Key : heap.index[k] > 0 /\ heap'.index[k] = 0}

\* The heavy keeper passes counts of at least its minCount, which is positive.
MinHeapNext ==
  \/ \E k \in Key : (\E c \in 1 .. MaxCount : Upsert(k, c)) \/ RemoveKey(k)
  \/ Pop \/ ScaleDown

MinHeapSpec == MinHeapInit /\ [][MinHeapNext]_heapVars

(***************************************************************************)
(* Properties.                                                             *)
(***************************************************************************)
\* The array, the map and the places the nodes believe to be in agree, so that
\* Find, Fix and Remove reach the node of their key after any history of swaps.
IndexConsistent ==
  /\ \A i \in DOMAIN heap.nodes : heap.nodes[i] \in byKey /\ heap.index[heap.nodes[i]] = i
  /\ Cardinality(byKey) = Len(heap.nodes)

\* No node counts less than its parent: Min and the expulsion of upsert look at
\* the coldest node, whatever was recounted, removed or halved before.
HeapOrder == \A i \in DOMAIN heap.nodes \ {1} : ~Less(heap, i, i \div 2)

Table == INSTANCE TopK WITH top <- [k \in byKey |-> heap.count[k]]

\* The array implements the bounded table of TopK: every Upsert, Fix, Remove,
\* Pop and ScaleDown of the heap is that step of the table, ties included.
ImplementsTopK == Table!Spec
=============================================================================
