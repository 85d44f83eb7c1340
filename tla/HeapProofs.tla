----------------------------- MODULE HeapProofs -----------------------------
(***************************************************************************)
(* Properties of MinHeap for every set of keys and every capacity: what    *)
(* each loop of container/heap leaves behind, that the array, the indices  *)
(* and the map agree, that the array is in heap order, and that it         *)
(* implements TopK.                                                        *)
(***************************************************************************)
EXTENDS MinHeap, SequenceTheorems, FiniteSetTheorems, WellFoundedInduction, TLAPS

(***************************************************************************)
(* Loops.                                                                  *)
(***************************************************************************)
\* Induction over the rounds of a loop, by the first round that fails.
LEMMA Rounds ==
  ASSUME NEW n \in Nat, NEW T, 0 \in T, \A m \in 1 .. n : m - 1 \in T => m \in T
  PROVE  n \in T
<1> DEFINE B == (0 .. n) \ T
<1> SUFFICES ASSUME B # {} PROVE FALSE
  OBVIOUS
<1>1. B \subseteq Nat
  OBVIOUS
<1>2. PICK m \in B : \A x \in B : <<x, m>> \notin OpToRel(<, Nat)
  BY <1>1, NatLessThanWellFounded, WFMin, Zenon
<1>0. m \in (0 .. n) \ T
  BY <1>2, Zenon
<1>3. m \in 1 .. n /\ m - 1 \in 0 .. n /\ m - 1 < m
  BY <1>0
<1>4. <<m - 1, m>> \in OpToRel(<, Nat)
  BY <1>3 DEF OpToRel
<1>5. m - 1 \in T
  BY <1>2, <1>3, <1>4, Zenon
<1> QED BY <1>2, <1>3, <1>5, Zenon

\* A loop of n rounds whose rounds stay in S.
Runs(r, f, s, n) == r[0] = s /\ \A m \in 1 .. n : r[m] = f[<<m, r[m - 1]>>]

LEMMA RunExists ==
  ASSUME NEW S, NEW N \in Nat, NEW f \in [(1 .. N) \X S -> S], NEW s \in S
  PROVE  \E r \in [0 .. N -> S] : Runs(r, f, s, N)
<1> DEFINE T == {n \in 0 .. N : \E r \in [0 .. n -> S] : Runs(r, f, s, n)}
<1>1. 0 \in T
  <2> DEFINE r == [m \in 0 .. 0 |-> s]
  <2>1. r \in [0 .. 0 -> S] /\ r[0] = s
    OBVIOUS
  <2>2. \A m \in 1 .. 0 : FALSE
    OBVIOUS
  <2>3. Runs(r, f, s, 0)
    BY <2>1, <2>2, Zenon DEF Runs
  <2> QED BY <2>1, <2>3
<1>2. ASSUME NEW n \in 1 .. N, n - 1 \in T PROVE n \in T
  <2>1. PICK q \in [0 .. n - 1 -> S] : Runs(q, f, s, n - 1)
    BY <1>2, Zenon
  <2> DEFINE r == [m \in 0 .. n |-> IF m = n THEN f[<<n, q[n - 1]>>] ELSE q[m]]
  <2>2. n - 1 \in 0 .. n - 1 /\ f[<<n, q[n - 1]>>] \in S
    BY <2>1
  <2>3. r \in [0 .. n -> S]
    BY <2>1, <2>2
  <2>4. r[0] = s
    <3>1. 0 \in 0 .. n /\ 0 # n
      OBVIOUS
    <3> QED BY <2>1, <3>1, Zenon DEF Runs
  <2>5. ASSUME NEW m \in 1 .. n PROVE r[m] = f[<<m, r[m - 1]>>]
    <3>1. m \in 0 .. n /\ m - 1 \in 0 .. n /\ m - 1 # n
      OBVIOUS
    <3>2. CASE m = n
      BY <3>1, <3>2, Zenon
    <3>3. CASE m # n
      <4>1. m \in 1 .. n - 1
        BY <3>3
      <4>2. q[m] = f[<<m, q[m - 1]>>]
        BY <2>1, <4>1, Zenon DEF Runs
      <4> QED BY <3>1, <3>3, <4>2, Zenon
    <3> QED BY <3>2, <3>3, Zenon
  <2> HIDE DEF r
  <2>6. Runs(r, f, s, n)
    BY <2>4, <2>5, Zenon DEF Runs
  <2> QED BY <2>3, <2>6
<1> HIDE DEF T
<1>3. N \in T
  BY <1>1, <1>2, Rounds, Zenon
<1> QED BY <1>3, Zenon DEF T

(***************************************************************************)
(* Nodes and their order.                                                  *)
(***************************************************************************)
HeapType == [nodes : Seq(Key), count : [Key -> Nat], index : [Key -> Nat]]

\* The array and the indices agree.
Good(h) ==
  /\ h \in HeapType
  /\ \A i \in 1 .. Len(h.nodes) : h.index[h.nodes[i]] = i
  /\ \A k \in Key : h.index[k] # 0 => h.index[k] \in 1 .. Len(h.nodes) /\ h.nodes[h.index[k]] = k

\* The keys in the array.
Held(h) == {k \in Key : h.index[k] # 0}

\* Less, between keys.
Before(c, a, b) == c[a] < c[b] \/ (c[a] = c[b] /\ a > b)

LEMMA LessIsBefore ==
  ASSUME NEW h, NEW i, NEW j
  PROVE  Less(h, i, j) <=> Before(h.count, h.nodes[i], h.nodes[j])
BY Zenon DEF Less, Before

\* Less is a linear order.
LEMMA BeforeOrders ==
  ASSUME Key \subseteq Nat, NEW c \in [Key -> Nat], NEW x \in Key, NEW y \in Key, NEW z \in Key
  PROVE  /\ ~Before(c, x, x)
         /\ Before(c, x, y) => ~Before(c, y, x)
         /\ x # y => Before(c, x, y) \/ Before(c, y, x)
         /\ ~Before(c, y, x) /\ ~Before(c, z, y) => ~Before(c, z, x)
         /\ Before(c, x, y) /\ ~Before(c, z, y) => ~Before(c, z, x)
         /\ Before(c, x, y) /\ ~Before(c, z, y) => Before(c, x, z)
<1>1. c[x] \in Nat /\ c[y] \in Nat /\ c[z] \in Nat /\ x \in Nat /\ y \in Nat /\ z \in Nat
  BY Zenon
<1> QED BY <1>1 DEF Before

LEMMA BeforeBoth ==
  ASSUME Key \subseteq Nat, NEW c \in [Key -> Nat], NEW x \in Key, NEW y \in Key, NEW z \in Key,
         Before(c, x, y), ~Before(c, z, y)
  PROVE  ~Before(c, z, x)
BY BeforeOrders, Zenon

LEMMA NotBeforeBoth ==
  ASSUME Key \subseteq Nat, NEW c \in [Key -> Nat], NEW x \in Key, NEW y \in Key, NEW z \in Key,
         ~Before(c, y, x), ~Before(c, z, y)
  PROVE  ~Before(c, z, x)
BY BeforeOrders, Zenon

LEMMA BeforeOne ==
  ASSUME Key \subseteq Nat, NEW c \in [Key -> Nat], NEW x \in Key, NEW y \in Key
  PROVE  ~Before(c, x, x) /\ (Before(c, x, y) => ~Before(c, y, x))
BY BeforeOrders, Zenon

\* The parent of a place.
LEMMA Halves ==
  ASSUME NEW k \in Nat, k > 1
  PROVE  /\ k \div 2 \in Nat /\ 1 <= k \div 2 /\ k \div 2 < k
         /\ \A i \in Nat : k \div 2 = i <=> k = 2 * i \/ k = 2 * i + 1
<1>1. k \div 2 \in Nat /\ (k = 2 * (k \div 2) \/ k = 2 * (k \div 2) + 1)
  OBVIOUS
<1> QED BY <1>1

\* s is h with some of the first n places permuted.
Permuted(h, s, n) ==
  /\ Good(s) /\ s.count = h.count /\ Len(s.nodes) = Len(h.nodes) /\ Held(s) = Held(h)
  /\ \A i \in 1 .. Len(h.nodes) : i > n => s.nodes[i] = h.nodes[i]

\* The nodes after a swap.
Swapped(h, s, i, j) ==
  /\ s.nodes[i] = h.nodes[j] /\ s.nodes[j] = h.nodes[i]
  /\ \A k \in 1 .. Len(h.nodes) : k # i /\ k # j => s.nodes[k] = h.nodes[k]

LEMMA SwapKeeps ==
  ASSUME NEW h, Good(h), NEW n \in Nat, n <= Len(h.nodes), NEW i \in 1 .. n, NEW j \in 1 .. n
  PROVE  Permuted(h, Swap(h, i, j), n) /\ Swapped(h, Swap(h, i, j), i, j)
<1> DEFINE s == Swap(h, i, j)
<1> DEFINE L == Len(h.nodes)
<1> DEFINE a == h.nodes[i]
<1> DEFINE b == h.nodes[j]
<1>0. /\ h \in HeapType /\ h.nodes \in Seq(Key) /\ h.count \in [Key -> Nat] /\ h.index \in [Key -> Nat]
      /\ L \in Nat /\ h.nodes \in [1 .. L -> Key]
  BY SMTT(20) DEF Good, HeapType
<1>1. i \in 1 .. L /\ j \in 1 .. L /\ i \in Nat /\ j \in Nat /\ a \in Key /\ b \in Key
  <2>1. L \in Nat /\ n <= L
    BY <1>0, Zenon
  <2>2. i \in 1 .. L /\ j \in 1 .. L /\ i \in Nat /\ j \in Nat
    <3> HIDE DEF L
    <3> QED BY <2>1
  <2>3. a \in Key /\ b \in Key
    BY <1>0, <2>2, Zenon
  <2> QED BY <2>2, <2>3, Zenon
<1>2. h.index[a] = i /\ h.index[b] = j
  BY <1>1, Zenon DEF Good
<1>3. s = [nodes |-> [[h.nodes EXCEPT ![i] = b] EXCEPT ![j] = a],
           count |-> h.count,
           index |-> [[h.index EXCEPT ![b] = i] EXCEPT ![a] = j]]
  BY Zenon DEF Swap
<1>4. s.count = h.count /\ s.nodes = [[h.nodes EXCEPT ![i] = b] EXCEPT ![j] = a]
      /\ s.index = [[h.index EXCEPT ![b] = i] EXCEPT ![a] = j]
  BY <1>3
<1> HIDE DEF s
<1>5. s.nodes \in [1 .. L -> Key] /\ s.nodes \in Seq(Key) /\ Len(s.nodes) = L
  <2>1. s.nodes \in [1 .. L -> Key]
    BY <1>0, <1>1, <1>4, Zenon
  <2>2. s.nodes \in Seq(Key)
    <3>1. s.nodes \in UNION {[1 .. l -> Key] : l \in Nat}
      BY <1>0, <2>1, Zenon
    <3> QED BY <3>1, SeqDef, Zenon
  <2>3. DOMAIN s.nodes = 1 .. Len(s.nodes) /\ Len(s.nodes) \in Nat
    BY <2>2, LenProperties, Zenon
  <2>4. Len(s.nodes) = L
    BY <1>0, <2>1, <2>3
  <2> QED BY <2>1, <2>2, <2>4, Zenon
<1>6. \A k \in 1 .. L : s.nodes[k] = IF k = j THEN a ELSE IF k = i THEN b ELSE h.nodes[k]
  BY <1>0, <1>1, <1>4, Zenon
<1>7. s.index \in [Key -> Nat]
      /\ \A k \in Key : s.index[k] = IF k = a THEN j ELSE IF k = b THEN i ELSE h.index[k]
  <2> DEFINE g == [h.index EXCEPT ![b] = i]
  <2>1. g \in [Key -> Nat] /\ \A k \in Key : g[k] = IF k = b THEN i ELSE h.index[k]
    BY <1>0, <1>1, Zenon
  <2>2. s.index = [g EXCEPT ![a] = j]
    BY <1>4, Zenon
  <2> HIDE DEF g, a, b
  <2>3. s.index \in [Key -> Nat] /\ \A k \in Key : s.index[k] = IF k = a THEN j ELSE g[k]
    BY <1>1, <2>1, <2>2, Zenon
  <2> QED BY <2>1, <2>3, Zenon
<1>8. s \in HeapType
  BY <1>0, <1>3, <1>4, <1>5, <1>7, Zenon DEF HeapType
<1>9. ASSUME NEW k \in 1 .. L PROVE s.index[s.nodes[k]] = k
  <2>1. h.nodes[k] \in Key /\ h.index[h.nodes[k]] = k
    BY <1>0, Zenon DEF Good
  <2>2. CASE k = j
    BY <1>1, <1>6, <1>7, <2>2, Zenon
  <2>3. CASE k = i /\ k # j
    <3>1. a # b
      BY <1>2, <2>3, Zenon
    <3> QED BY <1>1, <1>6, <1>7, <2>3, <3>1, Zenon
  <2>4. CASE k # i /\ k # j
    <3>1. h.nodes[k] # a /\ h.nodes[k] # b
      BY <1>2, <2>1, <2>4, Zenon
    <3> QED BY <1>6, <1>7, <2>1, <2>4, <3>1, Zenon
  <2> QED BY <2>2, <2>3, <2>4, Zenon
<1>10. ASSUME NEW k \in Key, s.index[k] # 0 PROVE s.index[k] \in 1 .. L /\ s.nodes[s.index[k]] = k
  <2>1. CASE k = a
    BY <1>1, <1>6, <1>7, <2>1, Zenon
  <2>2. CASE k # a /\ k = b
    <3>1. i # j
      BY <2>2, Zenon
    <3> QED BY <1>1, <1>6, <1>7, <2>2, <3>1, Zenon
  <2>3. CASE k # a /\ k # b
    <3>1. s.index[k] = h.index[k]
      BY <1>7, <2>3, Zenon
    <3>2. h.index[k] \in 1 .. L /\ h.nodes[h.index[k]] = k
      BY <1>10, <3>1, Zenon DEF Good
    <3>3. h.index[k] # i /\ h.index[k] # j
      BY <2>3, <3>2, Zenon
    <3> QED BY <1>6, <3>1, <3>2, <3>3, Zenon
  <2> QED BY <2>1, <2>2, <2>3, Zenon
<1>11. Good(s)
  BY <1>5, <1>8, <1>9, <1>10, Zenon DEF Good
<1>12. Held(s) = Held(h)
  <2>1. ASSUME NEW k \in Key PROVE s.index[k] # 0 <=> h.index[k] # 0
    BY <1>1, <1>2, <1>7
  <2> QED BY <2>1, Zenon DEF Held
<1>13. Permuted(h, s, n)
  <2>1. ASSUME NEW k \in 1 .. L, k > n PROVE s.nodes[k] = h.nodes[k]
    <3>1. k # i /\ k # j
      BY <1>0, <2>1
    <3> QED BY <1>6, <3>1, Zenon
  <2> QED BY <1>4, <1>5, <1>11, <1>12, <2>1, Zenon DEF Permuted
<1>14. Swapped(h, s, i, j)
  <2>1. s.nodes[j] = a
    BY <1>1, <1>6, Zenon
  <2>2. s.nodes[i] = b
    BY <1>1, <1>6, Zenon
  <2>3. \A k \in 1 .. L : k # i /\ k # j => s.nodes[k] = h.nodes[k]
    BY <1>6, Zenon
  <2> QED BY <2>1, <2>2, <2>3, Zenon DEF Swapped
<1> QED BY <1>13, <1>14, Zenon DEF s

LEMMA PermutedTwice ==
  ASSUME NEW h, NEW s, NEW t, NEW n, Permuted(h, s, n), Permuted(s, t, n)
  PROVE  Permuted(h, t, n)
BY Zenon DEF Permuted

LEMMA PermutedSame ==
  ASSUME NEW h, NEW n, Good(h)
  PROVE  Permuted(h, h, n)
BY Zenon DEF Permuted

(***************************************************************************)
(* up.                                                                     *)
(***************************************************************************)
\* The first n places are in heap order, from the parents at lo on.
Ordered(h, n, lo) == \A k \in 2 .. n : k \div 2 >= lo => ~Less(h, k, k \div 2)

\* They are, but for the node at j, which may be less than its parent.
UpHole(h, j, n) ==
  /\ \A k \in 2 .. n : k # j => ~Less(h, k, k \div 2)
  /\ \A k \in 2 .. n : k \div 2 = j /\ j > 1 => ~Less(h, k, j \div 2)

\* The places of an array with n places, and what is in them.
LEMMA NodesTyped ==
  ASSUME NEW h, Good(h), NEW n \in Nat, n <= Len(h.nodes)
  PROVE  /\ Len(h.nodes) \in Nat /\ h.count \in [Key -> Nat] /\ h.nodes \in Seq(Key)
         /\ \A k \in 1 .. n : h.nodes[k] \in Key
         /\ \A k \in 2 .. n : k \div 2 \in 1 .. n
<1>1. Len(h.nodes) \in Nat /\ h.count \in [Key -> Nat] /\ h.nodes \in Seq(Key)
  BY DEF Good, HeapType
<1>2. \A k \in 1 .. n : h.nodes[k] \in Key
  BY <1>1
<1>3. ASSUME NEW k \in 2 .. n PROVE k \div 2 \in 1 .. n
  <2>1. k \in Nat /\ k > 1
    OBVIOUS
  <2>2. k \div 2 \in Nat /\ 1 <= k \div 2 /\ k \div 2 < k
    BY <2>1, Halves, Zenon
  <2> QED BY <2>2
<1> QED BY <1>1, <1>2, <1>3, Zenon

\* One swap of up moves the hole to the parent.
LEMMA UpSwap ==
  ASSUME Key \subseteq Nat, NEW h, Good(h), NEW n \in Nat, n <= Len(h.nodes), NEW j \in 2 .. n,
         Less(h, j, j \div 2), UpHole(h, j, n)
  PROVE  UpHole(Swap(h, j \div 2, j), j \div 2, n)
<1> DEFINE i == j \div 2
<1> DEFINE s == Swap(h, i, j)
<1> DEFINE c == h.count
<1>0. /\ c \in [Key -> Nat] /\ (\A k \in 1 .. n : h.nodes[k] \in Key) /\ (\A k \in 2 .. n : k \div 2 \in 1 .. n)
  BY NodesTyped, Zenon
<1>1. i \in 1 .. n /\ j \in 1 .. n /\ i < j /\ (\A k \in 2 .. n : k \div 2 < k) /\ Len(h.nodes) \in Nat
  BY <1>0, Halves DEF Good, HeapType
<1>2. s.count = c /\ Swapped(h, s, i, j)
  BY <1>1, SwapKeeps, Zenon DEF Permuted
<1>3. /\ s.nodes[i] = h.nodes[j] /\ s.nodes[j] = h.nodes[i]
      /\ \A k \in 1 .. n : k # i /\ k # j => s.nodes[k] = h.nodes[k]
  BY <1>1, <1>2 DEF Swapped
<1> HIDE DEF s
<1>4. /\ \A k \in 2 .. n : k # j => ~Before(c, h.nodes[k], h.nodes[k \div 2])
      /\ \A k \in 2 .. n : k \div 2 = j => ~Before(c, h.nodes[k], h.nodes[i])
      /\ Before(c, h.nodes[j], h.nodes[i])
  BY LessIsBefore DEF UpHole
<1> HIDE DEF i, c
<1>5. ASSUME NEW k \in 2 .. n, k # i PROVE ~Before(c, s.nodes[k], s.nodes[k \div 2])
  <2>0. k \in 1 .. n /\ k \div 2 \in 1 .. n /\ k \div 2 < k
    BY <1>0, <1>1
  <2>1. CASE k = j
    <3>1. s.nodes[k] = h.nodes[i] /\ s.nodes[k \div 2] = h.nodes[j]
      BY <1>3, <2>1, Zenon DEF i
    <3>2. ~Before(c, h.nodes[i], h.nodes[j])
      <4>1. h.nodes[i] \in Key /\ h.nodes[j] \in Key
        BY <1>0, <1>1, Zenon
      <4> QED BY <1>0, <1>4, <4>1, BeforeOrders, Zenon
    <3> QED BY <3>1, <3>2, Zenon
  <2>2. CASE k # j /\ k \div 2 = i
    <3>1. s.nodes[k] = h.nodes[k] /\ s.nodes[k \div 2] = h.nodes[j]
      BY <1>3, <1>5, <2>0, <2>2, Zenon
    <3>2. ~Before(c, h.nodes[k], h.nodes[i])
      BY <1>4, <2>2, Zenon
    <3>3. ~Before(c, h.nodes[k], h.nodes[j])
      <4>1. h.nodes[i] \in Key /\ h.nodes[j] \in Key /\ h.nodes[k] \in Key
        BY <1>0, <1>1, <2>0, Zenon
      <4>2. c \in [Key -> Nat] /\ Before(c, h.nodes[j], h.nodes[i])
        BY <1>0, <1>4, Zenon
      <4> QED BY <3>2, <4>1, <4>2, BeforeBoth, Zenon
    <3> QED BY <3>1, <3>3, Zenon
  <2>3. CASE k # j /\ k \div 2 = j
    <3>1. s.nodes[k] = h.nodes[k] /\ s.nodes[k \div 2] = h.nodes[i]
      BY <1>3, <1>5, <2>0, <2>3, Zenon
    <3>2. ~Before(c, h.nodes[k], h.nodes[i])
      BY <1>4, <2>3, Zenon
    <3> QED BY <3>1, <3>2, Zenon
  <2>4. CASE k # j /\ k \div 2 # i /\ k \div 2 # j
    <3>1. s.nodes[k] = h.nodes[k] /\ s.nodes[k \div 2] = h.nodes[k \div 2]
      BY <1>3, <1>5, <2>0, <2>4, Zenon
    <3>2. ~Before(c, h.nodes[k], h.nodes[k \div 2])
      BY <1>4, <2>4, Zenon
    <3> QED BY <3>1, <3>2, Zenon
  <2> QED BY <2>1, <2>2, <2>3, <2>4, Zenon
<1>6. ASSUME NEW k \in 2 .. n, k \div 2 = i, i > 1 PROVE ~Before(c, s.nodes[k], s.nodes[i \div 2])
  <2>0. k \in 1 .. n /\ i \in 2 .. n /\ i \div 2 \in 1 .. n /\ i \div 2 < i /\ i # j
    BY <1>0, <1>1, <1>6
  <2>1. s.nodes[i \div 2] = h.nodes[i \div 2]
    BY <1>1, <1>3, <2>0
  <2>2. ~Before(c, h.nodes[i], h.nodes[i \div 2])
    BY <1>4, <2>0, Zenon
  <2>3. CASE k = j
    BY <1>3, <2>1, <2>2, <2>3, Zenon
  <2>4. CASE k # j
    <3>1. k # i
      BY <1>1, <1>6
    <3>2. s.nodes[k] = h.nodes[k]
      BY <1>3, <2>0, <2>4, <3>1, Zenon
    <3>3. ~Before(c, h.nodes[k], h.nodes[i])
      BY <1>4, <1>6, <2>4, Zenon
    <3>4. ~Before(c, h.nodes[k], h.nodes[i \div 2])
      <4>1. h.nodes[i \div 2] \in Key /\ h.nodes[i] \in Key /\ h.nodes[k] \in Key /\ c \in [Key -> Nat]
        BY <1>0, <1>1, <2>0, Zenon
      <4> QED BY <2>2, <3>3, <4>1, NotBeforeBoth, Zenon
    <3> QED BY <2>1, <3>2, <3>4, Zenon
  <2> QED BY <2>3, <2>4, Zenon
<1>7. UpHole(s, i, n)
  <2>1. ASSUME NEW k \in 2 .. n, k # i PROVE ~Less(s, k, k \div 2)
    BY <1>2, <1>5, <2>1, LessIsBefore, Zenon
  <2>2. ASSUME NEW k \in 2 .. n, k \div 2 = i, i > 1 PROVE ~Less(s, k, i \div 2)
    BY <1>2, <1>6, <2>2, LessIsBefore, Zenon
  <2> QED BY <2>1, <2>2, Zenon DEF UpHole
<1> QED BY <1>7, Zenon DEF i, s

\* The states of the loop of up.
Rising(h, n) == {s \in [h : HeapType, at : Nat] : Permuted(h, s.h, n) /\ s.at \in 1 .. n}

\* One round of up.
LEMMA UpRound ==
  ASSUME Key \subseteq Nat, NEW h, Good(h), NEW n \in Nat, n <= Len(h.nodes), NEW s \in Rising(h, n)
  PROVE  /\ UpStep(s) \in Rising(h, n)
         /\ UpHole(s.h, s.at, n) => UpHole(UpStep(s).h, UpStep(s).at, n)
         /\ UpStep(s).at < s.at \/ (UpStep(s) = s /\ (UpHole(s.h, s.at, n) => Ordered(s.h, n, 1)))
         /\ Ordered(s.h, n, 1) => UpStep(s) = s
<1> DEFINE g == s.h
<1> DEFINE j == s.at
<1>0. s \in [h : HeapType, at : Nat] /\ Permuted(h, g, n) /\ j \in 1 .. n /\ Good(g) /\ n <= Len(g.nodes)
  BY Zenon DEF Rising, Permuted
<1>1. CASE j > 1 /\ Less(g, j, j \div 2)
  <2>1. UpStep(s) = [h |-> Swap(g, j \div 2, j), at |-> j \div 2]
    BY <1>1, Zenon DEF UpStep
  <2>2. j \in 2 .. n /\ j \div 2 \in 1 .. n /\ j \div 2 < j /\ j \div 2 \in Nat
    BY <1>0, <1>1, Halves
  <2> HIDE DEF g, j
  <2>3. Permuted(g, Swap(g, j \div 2, j), n)
    BY <1>0, <2>2, SwapKeeps, Zenon
  <2>4. Permuted(h, Swap(g, j \div 2, j), n) /\ Swap(g, j \div 2, j) \in HeapType
    BY <1>0, <2>3, PermutedTwice, Zenon DEF Permuted, Good
  <2>5. UpStep(s) \in Rising(h, n)
    BY <2>1, <2>2, <2>4 DEF Rising
  <2>6. UpHole(g, j, n) => UpHole(Swap(g, j \div 2, j), j \div 2, n)
    BY <1>0, <1>1, <2>2, UpSwap, Zenon
  <2>7. ~Ordered(g, n, 1)
    BY <1>1, <2>2 DEF Ordered
  <2> QED BY <2>1, <2>2, <2>5, <2>6, <2>7 DEF g, j
<1>2. CASE ~(j > 1 /\ Less(g, j, j \div 2))
  <2>1. UpStep(s) = s
    BY <1>2, Zenon DEF UpStep
  <2>2. ASSUME UpHole(g, j, n) PROVE Ordered(g, n, 1)
    <3>1. ASSUME NEW k \in 2 .. n PROVE ~Less(g, k, k \div 2)
      <4>1. CASE k = j
        BY <1>2, <4>1
      <4>2. CASE k # j
        BY <2>2, <4>2, Zenon DEF UpHole
      <4> QED BY <4>1, <4>2, Zenon
    <3> QED BY <3>1, Zenon DEF Ordered
  <2> QED BY <2>1, <2>2, Zenon
<1> QED BY <1>1, <1>2, Zenon

UpRun(r, h, j) == r = [m \in 0 .. j |-> IF m = 0 THEN [h |-> h, at |-> j] ELSE UpStep(r[m - 1])]

\* up closes the hole.
LEMMA UpWorks ==
  ASSUME Key \subseteq Nat, NEW h, Good(h), NEW n \in Nat, n <= Len(h.nodes), NEW j \in 1 .. n, UpHole(h, j, n)
  PROVE  Permuted(h, up(h, j), n) /\ Ordered(up(h, j), n, 1)
<1> DEFINE S == Rising(h, n)
<1> DEFINE s == [h |-> h, at |-> j]
<1>1. s \in S /\ j \in Nat
  BY PermutedSame DEF Rising, Good
<1>2. \E r : UpRun(r, h, j)
  <2> DEFINE f == [p \in (1 .. j) \X S |-> UpStep(p[2])]
  <2>1. f \in [(1 .. j) \X S -> S]
    BY UpRound, Zenon
  <2>2. PICK r \in [0 .. j -> S] : Runs(r, f, s, j)
    BY <1>1, <2>1, RunExists, Zenon
  <2>3. ASSUME NEW m \in 1 .. j PROVE r[m] = UpStep(r[m - 1])
    <3>1. m - 1 \in 0 .. j
      BY <1>1
    <3>2. r[m - 1] \in S
      BY <2>2, <3>1, Zenon
    <3>3. r[m] = f[<<m, r[m - 1]>>]
      BY <2>2, Zenon DEF Runs
    <3> QED BY <3>2, <3>3, Zenon
  <2>4. r[0] = s
    BY <2>2, Zenon DEF Runs
  <2>5. ASSUME NEW m \in 0 .. j PROVE r[m] = IF m = 0 THEN s ELSE UpStep(r[m - 1])
    <3>1. m = 0 \/ m \in 1 .. j
      BY <1>1
    <3> QED BY <2>3, <2>4, <3>1, Zenon
  <2>6. r = [m \in 0 .. j |-> r[m]]
    BY <2>2, Zenon
  <2>7. r = [m \in 0 .. j |-> IF m = 0 THEN s ELSE UpStep(r[m - 1])]
    BY <2>5, <2>6, Zenon
  <2> QED BY <2>7, Zenon DEF UpRun
<1> DEFINE c == CHOOSE r : UpRun(r, h, j)
<1>3. up(h, j) = c[j].h
  BY Zenon DEF up, UpRun
<1>4. UpRun(c, h, j)
  BY <1>2, Zenon
<1> HIDE DEF c
<1>5. c[0] = s
  <2>1. 0 \in 0 .. j
    BY <1>1
  <2> QED BY <1>4, <2>1, Zenon DEF UpRun
<1>6. ASSUME NEW m \in 1 .. j PROVE c[m] = UpStep(c[m - 1])
  <2>1. m \in 0 .. j /\ m # 0
    BY <1>1
  <2> QED BY <1>4, <2>1, Zenon DEF UpRun
<1> DEFINE T == {m \in 0 .. j : /\ c[m] \in S /\ UpHole(c[m].h, c[m].at, n)
                                /\ Ordered(c[m].h, n, 1) \/ c[m].at <= j - m}
<1> HIDE DEF S
<1>7. 0 \in T
  BY <1>1, <1>5
<1>8. ASSUME NEW m \in 1 .. j, m - 1 \in T PROVE m \in T
  <2> DEFINE b == c[m - 1]
  <2>1. b \in S /\ UpHole(b.h, b.at, n) /\ (Ordered(b.h, n, 1) \/ b.at <= j - (m - 1)) /\ c[m] = UpStep(b)
    BY <1>6, <1>8, Zenon
  <2> HIDE DEF b
  <2>2. /\ UpStep(b) \in S
        /\ UpHole(b.h, b.at, n) => UpHole(UpStep(b).h, UpStep(b).at, n)
        /\ UpStep(b).at < b.at \/ (UpStep(b) = b /\ (UpHole(b.h, b.at, n) => Ordered(b.h, n, 1)))
        /\ Ordered(b.h, n, 1) => UpStep(b) = b
    BY <2>1, UpRound, Zenon DEF S
  <2>3. Ordered(UpStep(b).h, n, 1) \/ UpStep(b).at <= j - m
    <3>1. CASE Ordered(b.h, n, 1)
      BY <2>2, <3>1, Zenon
    <3>2. CASE ~Ordered(b.h, n, 1)
      <4>1. UpStep(b).at < b.at /\ b.at <= j - (m - 1)
        BY <2>1, <2>2, <3>2, Zenon
      <4>2. UpStep(b).at \in Nat /\ b.at \in Nat
        BY <2>1, <2>2, Zenon DEF S, Rising
      <4>3. UpStep(b).at <= j - m
        BY <1>1, <4>1, <4>2
      <4> QED BY <4>3, Zenon
    <3> QED BY <3>1, <3>2, Zenon
  <2> QED BY <2>1, <2>2, <2>3
<1> HIDE DEF T
<1>9. j \in T
  BY <1>1, <1>7, <1>8, Rounds, Zenon
<1>10. c[j] \in S /\ (Ordered(c[j].h, n, 1) \/ c[j].at <= j - j)
  BY <1>9, Zenon DEF T
<1>11. Permuted(h, c[j].h, n) /\ c[j].at \in 1 .. n
  BY <1>10, Zenon DEF S, Rising
<1> QED BY <1>1, <1>3, <1>10, <1>11

(***************************************************************************)
(* down.                                                                   *)
(***************************************************************************)
\* In heap order from lo on, but for the node at i, which may be less than its
\* parent or not less than its children.
DownHole(h, i, n, lo) ==
  /\ \A k \in 2 .. n : k \div 2 >= lo /\ k # i /\ k \div 2 # i => ~Less(h, k, k \div 2)
  /\ \A k \in 2 .. n : k \div 2 = i /\ i > 1 /\ i \div 2 >= lo => ~Less(h, k, i \div 2)

\* The same, and the node at i is not less than its parent.
Settled(h, i, n, lo) ==
  /\ DownHole(h, i, n, lo)
  /\ i > 1 /\ i \div 2 >= lo => ~Less(h, i, i \div 2)

\* No child of i is less than it.
Calm(h, i, n) == \A k \in 2 .. n : k \div 2 = i => ~Less(h, k, i)

LEMMA SettledCalm ==
  ASSUME NEW h, NEW i \in Nat, NEW n \in Nat, NEW lo \in Nat, Settled(h, i, n, lo), Calm(h, i, n)
  PROVE  Ordered(h, n, lo)
<1> SUFFICES ASSUME NEW k \in 2 .. n, k \div 2 >= lo PROVE ~Less(h, k, k \div 2)
  BY Zenon DEF Ordered
<1>1. CASE k = i
  <2>1. i > 1 /\ i \div 2 >= lo
    BY <1>1
  <2> QED BY <1>1, <2>1, Zenon DEF Settled
<1>2. CASE k \div 2 = i
  BY <1>2, Zenon DEF Calm
<1>3. CASE k # i /\ k \div 2 # i
  BY <1>3, Zenon DEF Settled, DownHole
<1> QED BY <1>1, <1>2, <1>3, Zenon

\* The child that down looks at is the lesser one.
LEMMA LesserChild ==
  ASSUME Key \subseteq Nat, NEW h, Good(h), NEW n \in Nat, n <= Len(h.nodes), NEW i \in Nat \ {0}, 2 * i <= n
  PROVE  /\ Child(h, i, n) \in 2 .. n /\ Child(h, i, n) \div 2 = i /\ i < Child(h, i, n)
         /\ \A k \in 2 .. n : k \div 2 = i => ~Before(h.count, h.nodes[k], h.nodes[Child(h, i, n)])
<1> DEFINE c == Child(h, i, n)
<1>0. h.count \in [Key -> Nat] /\ (\A k \in 1 .. n : h.nodes[k] \in Key)
  BY NodesTyped, Zenon
<1>1. c = 2 * i \/ (c = 2 * i + 1 /\ 2 * i < n)
  BY Zenon DEF Child
<1>2. c \in 2 .. n /\ i < c
  BY <1>1
<1>3. c \div 2 = i
  BY <1>1, <1>2, Halves
<1>4. ASSUME NEW k \in 2 .. n, k \div 2 = i PROVE ~Before(h.count, h.nodes[k], h.nodes[c])
  <2>1. k = 2 * i \/ k = 2 * i + 1
    BY <1>4, Halves
  <2>2. k \in 1 .. n /\ c \in 1 .. n
    BY <1>2
  <2>k. h.nodes[k] \in Key /\ h.nodes[c] \in Key
    BY <1>0, <2>2, Zenon
  <2>3. CASE k = c
    BY <1>0, <2>k, <2>3, BeforeOne, Zenon
  <2>4. CASE k # c /\ c = 2 * i + 1
    <3>1. Less(h, 2 * i + 1, 2 * i) /\ k = 2 * i
      BY <2>1, <2>4, Zenon DEF Child
    <3>2. Before(h.count, h.nodes[c], h.nodes[k])
      BY <2>4, <3>1, LessIsBefore, Zenon
    <3> QED BY <1>0, <2>k, <3>2, BeforeOne, Zenon
  <2>5. CASE k # c /\ c = 2 * i
    <3>1. k = 2 * i + 1 /\ 2 * i < n
      BY <2>1, <2>5
    <3>2. ~Less(h, 2 * i + 1, 2 * i)
      BY <2>5, <3>1, Zenon DEF Child
    <3> QED BY <2>5, <3>1, <3>2, LessIsBefore, Zenon
  <2> QED BY <1>1, <2>3, <2>4, <2>5, Zenon
<1> QED BY <1>2, <1>3, <1>4, Zenon

\* One swap of down moves the hole to the lesser child.
LEMMA DownSwap ==
  ASSUME Key \subseteq Nat, NEW h, Good(h), NEW n \in Nat, n <= Len(h.nodes), NEW lo \in Nat \ {0},
         NEW i \in Nat, lo <= i, NEW j \in 2 .. n, j \div 2 = i, i < j,
         \A k \in 2 .. n : k \div 2 = i => ~Before(h.count, h.nodes[k], h.nodes[j]),
         Less(h, j, i), DownHole(h, i, n, lo)
  PROVE  Settled(Swap(h, i, j), j, n, lo)
<1> DEFINE s == Swap(h, i, j)
<1> DEFINE c == h.count
<1>0. /\ c \in [Key -> Nat] /\ (\A k \in 1 .. n : h.nodes[k] \in Key) /\ (\A k \in 2 .. n : k \div 2 \in 1 .. n)
  BY NodesTyped, Zenon
<1>1. i \in 1 .. n /\ j \in 1 .. n /\ (\A k \in 2 .. n : k \div 2 < k) /\ Len(h.nodes) \in Nat
  BY <1>0, Halves DEF Good, HeapType
<1>2. s.count = c /\ Swapped(h, s, i, j)
  <2>1. Permuted(h, s, n) /\ Swapped(h, s, i, j)
    BY <1>1, SwapKeeps
  <2> QED BY <2>1, Zenon DEF Permuted
<1>3. /\ s.nodes[i] = h.nodes[j] /\ s.nodes[j] = h.nodes[i]
      /\ \A k \in 1 .. n : k # i /\ k # j => s.nodes[k] = h.nodes[k]
  BY <1>1, <1>2 DEF Swapped
<1> HIDE DEF s
<1>4. /\ \A k \in 2 .. n : k \div 2 >= lo /\ k # i /\ k \div 2 # i => ~Before(c, h.nodes[k], h.nodes[k \div 2])
      /\ \A k \in 2 .. n : k \div 2 = i /\ i > 1 /\ i \div 2 >= lo => ~Before(c, h.nodes[k], h.nodes[i \div 2])
      /\ Before(c, h.nodes[j], h.nodes[i])
  BY LessIsBefore, Zenon DEF DownHole
<1>5. \A k \in 2 .. n : k \div 2 = i => ~Before(c, h.nodes[k], h.nodes[j])
  BY Zenon
<1> HIDE DEF c
<1>6. ASSUME NEW k \in 2 .. n, k \div 2 >= lo, k # j, k \div 2 # j
      PROVE  ~Before(c, s.nodes[k], s.nodes[k \div 2])
  <2>0. k \in 1 .. n /\ k \div 2 \in 1 .. n /\ k \div 2 < k
    BY <1>0, <1>1
  <2>1. CASE k = i
    <3>1. s.nodes[k] = h.nodes[j] /\ s.nodes[k \div 2] = h.nodes[k \div 2]
      BY <1>3, <1>6, <2>0, <2>1
    <3>2. i > 1 /\ i \div 2 >= lo
      BY <1>6, <2>1
    <3>3. ~Before(c, h.nodes[j], h.nodes[i \div 2])
      BY <1>4, <3>2, Zenon
    <3> QED BY <2>1, <3>1, <3>3, Zenon
  <2>2. CASE k \div 2 = i
    <3>1. s.nodes[k] = h.nodes[k] /\ s.nodes[k \div 2] = h.nodes[j]
      BY <1>3, <1>6, <2>0, <2>2
    <3> QED BY <1>5, <2>2, <3>1, Zenon
  <2>3. CASE k # i /\ k \div 2 # i
    <3>1. s.nodes[k] = h.nodes[k] /\ s.nodes[k \div 2] = h.nodes[k \div 2]
      BY <1>3, <1>6, <2>0, <2>3, Zenon
    <3>2. ~Before(c, h.nodes[k], h.nodes[k \div 2])
      BY <1>4, <1>6, <2>3, Zenon
    <3> QED BY <3>1, <3>2, Zenon
  <2> QED BY <2>1, <2>2, <2>3, Zenon
<1>7. ASSUME NEW k \in 2 .. n, k \div 2 = j PROVE ~Before(c, s.nodes[k], s.nodes[i])
  <2>0. k \in 1 .. n /\ k # j /\ k # i
    BY <1>1, <1>7
  <2>1. s.nodes[k] = h.nodes[k]
    BY <1>3, <2>0, Zenon
  <2>2. k \div 2 >= lo /\ k \div 2 # i
    BY <1>1, <1>7
  <2>3. ~Before(c, h.nodes[k], h.nodes[k \div 2])
    BY <1>4, <2>0, <2>2, Zenon
  <2> QED BY <1>3, <1>7, <2>1, <2>3, Zenon
<1>8. ~Before(c, s.nodes[j], s.nodes[i])
  <2>1. ~Before(c, h.nodes[i], h.nodes[j])
    BY <1>0, <1>1, <1>4, BeforeOrders, Zenon
  <2> QED BY <1>3, <2>1, Zenon
<1>9. Settled(s, j, n, lo)
  <2>1. ASSUME NEW k \in 2 .. n, k \div 2 >= lo, k # j, k \div 2 # j PROVE ~Less(s, k, k \div 2)
    BY <1>2, <1>6, <2>1, LessIsBefore, Zenon
  <2>2. ASSUME NEW k \in 2 .. n, k \div 2 = j PROVE ~Less(s, k, j \div 2)
    BY <1>2, <1>7, <2>2, LessIsBefore, Zenon
  <2>3. ~Less(s, j, j \div 2)
    BY <1>2, <1>8, LessIsBefore, Zenon
  <2>4. DownHole(s, j, n, lo)
    BY <2>1, <2>2, Zenon DEF DownHole
  <2> QED BY <2>3, <2>4, Zenon DEF Settled
<1> QED BY <1>9, Zenon DEF s

\* The states of the loop of down.
Sinking(h, n) == {s \in [h : HeapType, at : Nat] : Permuted(h, s.h, n) /\ s.at \in 1 .. Len(h.nodes)}

\* One round of down.
LEMMA DownRound ==
  ASSUME Key \subseteq Nat, NEW h, Good(h), NEW n \in Nat, n <= Len(h.nodes), NEW s \in Sinking(h, n)
  PROVE  /\ DownStep(s, n) \in Sinking(h, n)
         /\ \/ /\ s.at < DownStep(s, n).at
               /\ \A lo \in Nat \ {0} : lo <= s.at /\ DownHole(s.h, s.at, n, lo)
                                          => Settled(DownStep(s, n).h, DownStep(s, n).at, n, lo)
            \/ DownStep(s, n) = s /\ Calm(s.h, s.at, n)
<1> DEFINE g == s.h
<1> DEFINE i == s.at
<1> DEFINE c == Child(g, i, n)
<1>0. /\ s \in [h : HeapType, at : Nat] /\ Permuted(h, g, n) /\ i \in 1 .. Len(h.nodes)
      /\ Good(g) /\ n <= Len(g.nodes) /\ Len(g.nodes) = Len(h.nodes) /\ Len(h.nodes) \in Nat
      /\ i \in Nat \ {0}
  <2>1. s \in [h : HeapType, at : Nat] /\ Permuted(h, g, n) /\ i \in 1 .. Len(h.nodes)
    BY Zenon DEF Sinking
  <2>2. Good(g) /\ Len(g.nodes) = Len(h.nodes)
    BY <2>1, Zenon DEF Permuted
  <2>3. Len(h.nodes) \in Nat
    BY NodesTyped, Zenon
  <2> HIDE DEF g, i
  <2>4. i \in Nat \ {0}
    BY <2>1, <2>3
  <2> QED BY <2>1, <2>2, <2>3, <2>4, Zenon
<1>1. CASE 2 * i <= n /\ Less(g, c, i)
  <2>1. DownStep(s, n) = [h |-> Swap(g, i, c), at |-> c]
    BY <1>1, Zenon DEF DownStep
  <2> HIDE DEF g, i
  <2>2. /\ c \in 2 .. n /\ c \div 2 = i /\ i < c /\ i \in Nat
        /\ \A k \in 2 .. n : k \div 2 = i => ~Before(g.count, g.nodes[k], g.nodes[c])
    BY <1>0, <1>1, LesserChild, Zenon
  <2> HIDE DEF c
  <2>3. i \in 1 .. n /\ c \in 1 .. n /\ c \in 1 .. Len(h.nodes) /\ c \in Nat
    BY <1>0, <2>2
  <2>4. Permuted(g, Swap(g, i, c), n)
    BY <1>0, <2>3, SwapKeeps, Zenon
  <2>5. Permuted(h, Swap(g, i, c), n) /\ Swap(g, i, c) \in HeapType
    BY <1>0, <2>4, PermutedTwice DEF Permuted, Good
  <2>6. DownStep(s, n) \in Sinking(h, n)
    BY <2>1, <2>3, <2>5 DEF Sinking
  <2>7. ASSUME NEW lo \in Nat \ {0}, lo <= i, DownHole(g, i, n, lo)
        PROVE  Settled(Swap(g, i, c), c, n, lo)
    BY <1>0, <1>1, <2>2, <2>7, DownSwap, Zenon
  <2> QED BY <2>1, <2>2, <2>6, <2>7 DEF g, i
<1>2. CASE ~(2 * i <= n /\ Less(g, c, i))
  <2>1. DownStep(s, n) = s
    BY <1>2, Zenon DEF DownStep
  <2>2. Calm(g, i, n)
    <3> SUFFICES ASSUME NEW k \in 2 .. n, k \div 2 = i PROVE ~Less(g, k, i)
      BY Zenon DEF Calm
    <3>1. k = 2 * i \/ k = 2 * i + 1
      BY Halves
    <3>2. 2 * i <= n
      BY <1>0, <3>1
    <3>3. /\ c \in 2 .. n /\ ~Before(g.count, g.nodes[k], g.nodes[c])
      BY <1>0, <3>2, LesserChild, Zenon
    <3>4. ~Before(g.count, g.nodes[c], g.nodes[i])
      BY <1>2, <3>2, LessIsBefore, Zenon
    <3>5. /\ g.count \in [Key -> Nat] /\ g.nodes[k] \in Key /\ g.nodes[c] \in Key /\ g.nodes[i] \in Key
      <4>1. g.count \in [Key -> Nat] /\ (\A x \in 1 .. n : g.nodes[x] \in Key)
        BY <1>0, NodesTyped, Zenon
      <4>2. k \in 1 .. n /\ c \in 1 .. n /\ i \in 1 .. n
        BY <1>0, <3>2, <3>3
      <4> QED BY <4>1, <4>2, Zenon
    <3>6. ~Before(g.count, g.nodes[k], g.nodes[i])
      BY <3>3, <3>4, <3>5, NotBeforeBoth, Zenon
    <3> QED BY <3>6, LessIsBefore, Zenon
  <2> QED BY <2>1, <2>2, Zenon
<1> QED BY <1>1, <1>2, Zenon

DownRun(r, h, i, n) == r = [m \in 0 .. n |-> IF m = 0 THEN [h |-> h, at |-> i] ELSE DownStep(r[m - 1], n)]

\* What down leaves of an array with a hole at i.
Sunk(h, d, i, n, lo) ==
  Permuted(h, d, n) /\ ((d = h /\ Calm(h, i, n)) \/ Ordered(d, n, lo))

LEMMA DownWorks ==
  ASSUME Key \subseteq Nat, NEW h, Good(h), NEW n \in Nat, n <= Len(h.nodes), NEW i \in 1 .. Len(h.nodes),
         NEW lo \in Nat \ {0}, lo <= i, DownHole(h, i, n, lo)
  PROVE  Sunk(h, down(h, i, n), i, n, lo)
<1> DEFINE S == Sinking(h, n)
<1> DEFINE s == [h |-> h, at |-> i]
<1>1. s \in S /\ i \in Nat /\ Len(h.nodes) \in Nat
  <2>1. Permuted(h, h, n) /\ h \in HeapType /\ Len(h.nodes) \in Nat
    BY PermutedSame, NodesTyped, Zenon DEF Good
  <2>2. i \in Nat
    BY <2>1
  <2>3. s \in [h : HeapType, at : Nat] /\ s.h = h /\ s.at = i
    BY <2>1, <2>2, Zenon
  <2> QED BY <2>1, <2>2, <2>3, Zenon DEF Sinking
<1>2. \E r : DownRun(r, h, i, n)
  <2> DEFINE f == [p \in (1 .. n) \X S |-> DownStep(p[2], n)]
  <2>1. f \in [(1 .. n) \X S -> S]
    BY DownRound, Zenon
  <2>2. PICK r \in [0 .. n -> S] : Runs(r, f, s, n)
    BY <1>1, <2>1, RunExists, Zenon
  <2>3. ASSUME NEW m \in 1 .. n PROVE r[m] = DownStep(r[m - 1], n)
    <3>1. m - 1 \in 0 .. n
      BY <1>1
    <3>2. r[m - 1] \in S
      BY <2>2, <3>1, Zenon
    <3>3. r[m] = f[<<m, r[m - 1]>>]
      BY <2>2, Zenon DEF Runs
    <3> QED BY <3>2, <3>3, Zenon
  <2>4. r[0] = s
    BY <2>2, Zenon DEF Runs
  <2>5. ASSUME NEW m \in 0 .. n PROVE r[m] = IF m = 0 THEN s ELSE DownStep(r[m - 1], n)
    <3>1. m = 0 \/ m \in 1 .. n
      BY <1>1
    <3> QED BY <2>3, <2>4, <3>1, Zenon
  <2>6. r = [m \in 0 .. n |-> r[m]]
    BY <2>2, Zenon
  <2>7. r = [m \in 0 .. n |-> IF m = 0 THEN s ELSE DownStep(r[m - 1], n)]
    BY <2>5, <2>6, Zenon
  <2> QED BY <2>7, Zenon DEF DownRun
<1> DEFINE c == CHOOSE r : DownRun(r, h, i, n)
<1>3. down(h, i, n) = c[n].h
  BY Zenon DEF down, DownRun
<1>4. DownRun(c, h, i, n)
  BY <1>2, Zenon
<1> HIDE DEF c
<1>5. c[0] = s
  <2>1. 0 \in 0 .. n
    BY <1>1
  <2> QED BY <1>4, <2>1, Zenon DEF DownRun
<1>6. ASSUME NEW m \in 1 .. n PROVE c[m] = DownStep(c[m - 1], n)
  <2>1. m \in 0 .. n /\ m # 0
    BY <1>1
  <2> QED BY <1>4, <2>1, Zenon DEF DownRun
<1> DEFINE Deep(x) == x.at >= lo /\ (x = s \/ Settled(x.h, x.at, n, lo))
<1> DEFINE Done(x) == DownStep(x, n) = x /\ Calm(x.h, x.at, n)
<1> DEFINE T == {m \in 0 .. n : c[m] \in S /\ Deep(c[m]) /\ (Done(c[m]) \/ c[m].at >= i + m)}
<1>7. ASSUME NEW x \in S, Deep(x)
      PROVE  /\ DownStep(x, n) \in S /\ Deep(DownStep(x, n))
             /\ Done(x) \/ x.at < DownStep(x, n).at
  <2>1. DownHole(x.h, x.at, n, lo) /\ lo <= x.at /\ x.at \in Nat /\ DownStep(x, n) \in S
    BY <1>7, DownRound DEF Settled, Sinking
  <2>2. CASE x.at < DownStep(x, n).at
    <3>1. Settled(DownStep(x, n).h, DownStep(x, n).at, n, lo)
      BY <2>1, <2>2, DownRound
    <3>2. DownStep(x, n).at \in Nat
      BY <2>1, Zenon DEF Sinking
    <3>3. DownStep(x, n).at >= lo
      BY <2>1, <2>2, <3>2
    <3> HIDE DEF Done, S
    <3> QED BY <2>1, <2>2, <3>1, <3>3, Zenon
  <2>3. CASE ~(x.at < DownStep(x, n).at)
    BY <1>7, <2>1, <2>3, DownRound
  <2> QED BY <2>2, <2>3, Zenon
<1>8. 0 \in T
  BY <1>1, <1>5
<1>9. ASSUME NEW m \in 1 .. n, m - 1 \in T PROVE m \in T
  <2> DEFINE b == c[m - 1]
  <2> HIDE DEF Deep, Done, S
  <2>1. b \in S /\ Deep(b) /\ (Done(b) \/ b.at >= i + (m - 1)) /\ c[m] = DownStep(b, n)
    BY <1>6, <1>9, Zenon
  <2> HIDE DEF b
  <2>2. DownStep(b, n) \in S /\ Deep(DownStep(b, n)) /\ (Done(b) \/ b.at < DownStep(b, n).at)
    BY <1>7, <2>1, Zenon
  <2>3. Done(c[m]) \/ c[m].at >= i + m
    <3>1. CASE Done(b)
      <4>1. c[m] = b
        BY <2>1, <3>1, Zenon DEF Done
      <4> QED BY <3>1, <4>1, Zenon
    <3>2. CASE ~Done(b)
      <4>1. b.at < c[m].at /\ b.at >= i + (m - 1)
        BY <2>1, <2>2, <3>2, Zenon
      <4>2. b.at \in Nat /\ c[m].at \in Nat
        BY <2>1, <2>2, Zenon DEF S, Sinking
      <4>3. c[m].at >= i + m
        BY <1>1, <4>1, <4>2
      <4> QED BY <4>3, Zenon
    <3> QED BY <3>1, <3>2, Zenon
  <2> QED BY <2>1, <2>2, <2>3
<1> HIDE DEF T
<1>10. n \in T
  BY <1>8, <1>9, Rounds, Zenon
<1> HIDE DEF Deep, Done, S
<1>11. c[n] \in S /\ Deep(c[n]) /\ (Done(c[n]) \/ c[n].at >= i + n)
  BY <1>10, Zenon DEF T
<1>12. Permuted(h, c[n].h, n) /\ c[n].at \in Nat
  BY <1>11, Zenon DEF S, Sinking
<1>13. Calm(c[n].h, c[n].at, n)
  <2>1. CASE Done(c[n])
    BY <2>1, Zenon DEF Done
  <2>2. CASE c[n].at >= i + n
    <3> DEFINE a == c[n].at
    <3>1. a \in Nat /\ a > n
      BY <1>12, <2>2
    <3> HIDE DEF a
    <3>2. ASSUME NEW k \in 2 .. n, k \div 2 = a PROVE FALSE
      <4>1. k \div 2 < k
        BY Halves
      <4> QED BY <3>1, <3>2, <4>1
    <3> QED BY <3>2, Zenon DEF Calm, a
  <2> QED BY <1>11, <2>1, <2>2, Zenon
<1>14. CASE c[n] = s
  <2>1. c[n].h = h /\ c[n].at = i
    BY <1>14
  <2> QED BY <1>3, <1>12, <1>13, <2>1, Zenon DEF Sunk
<1>15. CASE Settled(c[n].h, c[n].at, n, lo)
  <2>1. Ordered(c[n].h, n, lo)
    BY <1>12, <1>13, <1>15, SettledCalm, Zenon
  <2> QED BY <1>3, <1>12, <2>1, Zenon DEF Sunk
<1> QED BY <1>11, <1>14, <1>15, Zenon DEF Deep

\* down, and up if it changed nothing: the hole at i is closed.
LEMMA DownOrUpWorks ==
  ASSUME Key \subseteq Nat, NEW h, Good(h), NEW n \in Nat, n <= Len(h.nodes), NEW i \in 1 .. n, DownHole(h, i, n, 1)
  PROVE  Permuted(h, downOrUp(h, i, n), n) /\ Ordered(downOrUp(h, i, n), n, 1)
<1> DEFINE d == down(h, i, n)
<1>1. i \in 1 .. Len(h.nodes) /\ Len(h.nodes) \in Nat
  BY DEF Good, HeapType
<1>2. Sunk(h, d, i, n, 1)
  BY <1>1, DownWorks
<1>3. downOrUp(h, i, n) = IF d # h THEN d ELSE up(h, i)
  BY Zenon DEF downOrUp
<1> HIDE DEF d
<1>4. CASE d # h
  BY <1>2, <1>3, <1>4, Zenon DEF Sunk
<1>5. CASE d = h
  <2>1. \A k \in 2 .. n : k \div 2 >= 1
    BY Halves
  <2>2. ASSUME NEW k \in 2 .. n, k # i PROVE ~Less(h, k, k \div 2)
    BY <1>2, <1>5, <2>1, <2>2, Zenon DEF Sunk, Calm, Ordered, DownHole
  <2>3. ASSUME NEW k \in 2 .. n, k \div 2 = i, i > 1 PROVE ~Less(h, k, i \div 2)
    <3>1. i \div 2 >= 1
      BY <2>1, <2>3
    <3> QED BY <2>3, <3>1, Zenon DEF DownHole
  <2>4. UpHole(h, i, n)
    BY <2>2, <2>3, Zenon DEF UpHole
  <2>5. Permuted(h, up(h, i), n) /\ Ordered(up(h, i), n, 1)
    BY <2>4, UpWorks, Zenon
  <2> QED BY <1>3, <1>5, <2>5, Zenon
<1> QED BY <1>4, <1>5, Zenon

(***************************************************************************)
(* Init: the places are put in order from the last parent to the root.     *)
(***************************************************************************)
InitRun(r, h, n) == r = [m \in 0 .. n \div 2 |-> IF m = 0 THEN h ELSE down(r[m - 1], n \div 2 + 1 - m, n)]

\* An array in order above lo is in order from lo on once down has run at lo.
LEMMA InitRound ==
  ASSUME Key \subseteq Nat, NEW h, Good(h), NEW n \in Nat, n = Len(h.nodes), NEW i \in 1 .. n, Ordered(h, n, i + 1)
  PROVE  Permuted(h, down(h, i, n), n) /\ Ordered(down(h, i, n), n, i)
<1>1. i \in Nat \ {0} /\ i \div 2 \in Nat /\ i \div 2 < i
  OBVIOUS
<1>2. \A k \in 2 .. n : k \div 2 \in Nat
  OBVIOUS
<1>3. \A k \in 2 .. n : k \div 2 >= i /\ k \div 2 # i => k \div 2 >= i + 1
  BY <1>2
<1>4. DownHole(h, i, n, i)
  BY <1>1, <1>3 DEF DownHole, Ordered
<1>5. Sunk(h, down(h, i, n), i, n, i)
  BY <1>1, <1>4, DownWorks
<1>6. Settled(h, i, n, i)
  BY <1>1, <1>4 DEF Settled
<1>7. Calm(h, i, n) => Ordered(h, n, i)
  BY <1>1, <1>6, SettledCalm, Zenon
<1> QED BY <1>5, <1>7, Zenon DEF Sunk

LEMMA InitWorks ==
  ASSUME Key \subseteq Nat, NEW h, Good(h)
  PROVE  Permuted(h, heapInit(h), Len(h.nodes)) /\ Ordered(heapInit(h), Len(h.nodes), 1)
<1> DEFINE n == Len(h.nodes)
<1> DEFINE N == n \div 2
<1> DEFINE S == {x \in HeapType : Permuted(h, x, n)}
<1>1. n \in Nat /\ N \in Nat /\ N <= n /\ h \in S
  <2>1. n \in Nat
    BY DEF Good, HeapType
  <2>2. Permuted(h, h, n) /\ h \in HeapType
    BY PermutedSame, Zenon DEF Good
  <2>3. h \in S
    BY <2>2, Zenon
  <2> HIDE DEF n, S
  <2>4. N \in Nat /\ N <= n
    BY <2>1
  <2> QED BY <2>1, <2>3, <2>4, Zenon
<1>2. ASSUME NEW x \in S, NEW m \in 1 .. N
      PROVE  Good(x) /\ n = Len(x.nodes) /\ N + 1 - m \in 1 .. n /\ N - m + 2 = N + 1 - m + 1
  <2>1. Good(x) /\ n = Len(x.nodes)
    BY Zenon DEF Permuted
  <2> HIDE DEF n, N, S
  <2>2. N + 1 - m \in 1 .. n /\ N - m + 2 = N + 1 - m + 1
    BY <1>1
  <2> QED BY <2>1, <2>2, Zenon
<1> HIDE DEF n, N
<1> DEFINE Step(x, m) == IF Ordered(x, n, N + 1 - m + 1) THEN down(x, N + 1 - m, n) ELSE x
<1> DEFINE f == [p \in (1 .. N) \X S |-> Step(p[2], p[1])]
<1>3. ASSUME NEW x \in S, NEW m \in 1 .. N
      PROVE  /\ Step(x, m) \in S
             /\ Ordered(x, n, N + 1 - m + 1) => Ordered(Step(x, m), n, N + 1 - m)
  <2>1. CASE Ordered(x, n, N + 1 - m + 1)
    <3>1. Permuted(x, down(x, N + 1 - m, n), n) /\ Ordered(down(x, N + 1 - m, n), n, N + 1 - m)
      BY <1>1, <1>2, <2>1, InitRound, Zenon
    <3>2. Permuted(h, down(x, N + 1 - m, n), n) /\ down(x, N + 1 - m, n) \in HeapType
      BY <3>1, PermutedTwice DEF Permuted, Good
    <3> QED BY <2>1, <3>1, <3>2, Zenon
  <2>2. CASE ~Ordered(x, n, N + 1 - m + 1)
    BY <2>2, Zenon
  <2> QED BY <2>1, <2>2, Zenon
<1> HIDE DEF Step
<1>4. f \in [(1 .. N) \X S -> S]
  BY <1>3, Zenon
<1>5. PICK r \in [0 .. N -> S] : Runs(r, f, h, N)
  BY <1>1, <1>4, RunExists, Zenon
<1>6. r[0] = h /\ \A m \in 1 .. N : m - 1 \in 0 .. N /\ r[m - 1] \in S /\ r[m] = Step(r[m - 1], m)
  <2>1. ASSUME NEW m \in 1 .. N PROVE m - 1 \in 0 .. N /\ r[m - 1] \in S /\ r[m] = Step(r[m - 1], m)
    <3>1. m - 1 \in 0 .. N
      BY <1>1
    <3>2. r[m - 1] \in S
      BY <1>5, <3>1, Zenon
    <3>3. r[m] = f[<<m, r[m - 1]>>]
      BY <1>5, Zenon DEF Runs
    <3> QED BY <3>1, <3>2, <3>3, Zenon
  <2> QED BY <1>5, <2>1, Zenon DEF Runs
<1> DEFINE T == {m \in 0 .. N : Ordered(r[m], n, N + 1 - m)}
<1>7. 0 \in T
  <2>1. ASSUME NEW k \in 2 .. n PROVE ~(k \div 2 >= N + 1 - 0)
    BY <1>1 DEF N
  <2> QED BY <1>1, <2>1 DEF Ordered
<1>8. ASSUME NEW m \in 1 .. N, m - 1 \in T PROVE m \in T
  <2>1. N + 1 - (m - 1) = N + 1 - m + 1
    BY <1>1
  <2>2. Ordered(r[m - 1], n, N + 1 - m + 1)
    BY <1>8, <2>1, Zenon
  <2>3. Ordered(r[m], n, N + 1 - m)
    BY <1>3, <1>6, <2>2, Zenon
  <2> QED BY <2>3
<1> DEFINE Q == {m \in 0 .. N : \A l \in 0 .. m : l \in T}
<1> HIDE DEF T
<1>9. N \in Q
  <2>1. 0 \in Q
    BY <1>1, <1>7
  <2>2. ASSUME NEW m \in 1 .. N, m - 1 \in Q PROVE m \in Q
    <3>1. m \in T
      BY <1>8, <2>2
    <3>2. \A l \in 0 .. m : l = m \/ l \in 0 .. m - 1
      BY <1>1
    <3> QED BY <2>2, <3>1, <3>2
  <2> HIDE DEF Q
  <2> QED BY <1>1, <2>1, <2>2, Rounds, Zenon
<1>10. ASSUME NEW m \in 1 .. N PROVE r[m] = down(r[m - 1], N + 1 - m, n)
  <2>1. m - 1 \in T
    BY <1>1, <1>9
  <2>2. N + 1 - (m - 1) = N + 1 - m + 1
    BY <1>1
  <2>3. Ordered(r[m - 1], n, N + 1 - m + 1)
    BY <2>1, <2>2, Zenon DEF T
  <2> QED BY <1>6, <2>3, Zenon DEF Step
<1>11. InitRun(r, h, n)
  <2>1. ASSUME NEW m \in 0 .. N PROVE r[m] = IF m = 0 THEN h ELSE down(r[m - 1], N + 1 - m, n)
    <3>1. m = 0 \/ m \in 1 .. N
      BY <1>1
    <3> QED BY <1>6, <1>10, <3>1, Zenon
  <2>2. r = [m \in 0 .. N |-> r[m]]
    BY <1>5, Zenon
  <2>3. r = [m \in 0 .. N |-> IF m = 0 THEN h ELSE down(r[m - 1], N + 1 - m, n)]
    BY <2>1, <2>2, Zenon
  <2> QED BY <2>3, Zenon DEF InitRun, N
<1> DEFINE c == CHOOSE q : InitRun(q, h, n)
<1>12. heapInit(h) = c[N]
  BY Zenon DEF heapInit, InitRun, n, N
<1>13. InitRun(c, h, n)
  BY <1>11, Zenon
<1> HIDE DEF c
<1>14. c[0] = h /\ \A m \in 1 .. N : c[m] = down(c[m - 1], N + 1 - m, n)
  <2>1. c = [m \in 0 .. N |-> IF m = 0 THEN h ELSE down(c[m - 1], N + 1 - m, n)]
    BY <1>13, Zenon DEF InitRun, N
  <2>2. 0 \in 0 .. N
    BY <1>1
  <2>3. \A m \in 1 .. N : m \in 0 .. N /\ m # 0
    BY <1>1
  <2> QED BY <2>1, <2>2, <2>3, Zenon
<1> DEFINE U == {m \in 0 .. N : c[m] = r[m]}
<1>15. 0 \in U
  BY <1>1, <1>6, <1>14
<1>16. ASSUME NEW m \in 1 .. N, m - 1 \in U PROVE m \in U
  <2>1. c[m - 1] = r[m - 1]
    BY <1>16, Zenon
  <2>2. c[m] = r[m]
    BY <1>10, <1>14, <2>1, Zenon
  <2> QED BY <2>2
<1> HIDE DEF U
<1>17. N \in U
  BY <1>1, <1>15, <1>16, Rounds, Zenon
<1>18. heapInit(h) = r[N]
  BY <1>12, <1>17, Zenon DEF U
<1>19. N \in 0 .. N /\ N + 1 - N = 1
  BY <1>1
<1>20. Ordered(r[N], n, 1)
  BY <1>9, <1>19, Zenon DEF T
<1>21. Permuted(h, r[N], n)
  BY <1>5, <1>19, Zenon
<1> QED BY <1>18, <1>20, <1>21, Zenon DEF n

(***************************************************************************)
(* The operations of container/heap on an array in heap order.             *)
(***************************************************************************)
Fit(h) == Good(h) /\ Ordered(h, Len(h.nodes), 1)

\* g is h with k counted c, and with k held.
With(h, g, k, c) == Fit(g) /\ Held(g) = Held(h) \cup {k} /\ g.count = [h.count EXCEPT ![k] = c]

\* g is h without k.
Without(h, g, k) ==
  /\ Fit(g) /\ Held(g) = Held(h) \ {k} /\ g.count = [h.count EXCEPT ![k] = 0]
  /\ Len(g.nodes) = Len(h.nodes) - 1

\* Nodes, places and keys of an array in heap order.
LEMMA FitFacts ==
  ASSUME Key \subseteq Nat, NEW h, Fit(h)
  PROVE  /\ h.nodes \in Seq(Key) /\ h.count \in [Key -> Nat] /\ h.index \in [Key -> Nat]
         /\ Len(h.nodes) \in Nat /\ Good(h) /\ h \in HeapType
         /\ \A i \in 1 .. Len(h.nodes) : h.nodes[i] \in Key /\ h.index[h.nodes[i]] = i /\ h.nodes[i] \in Held(h)
         /\ \A i, j \in 1 .. Len(h.nodes) : i # j => h.nodes[i] # h.nodes[j]
         /\ \A k \in 2 .. Len(h.nodes) : k \div 2 \in 1 .. Len(h.nodes) /\ k \div 2 < k
         /\ \A k \in 2 .. Len(h.nodes) : ~Before(h.count, h.nodes[k], h.nodes[k \div 2])
<1>1. /\ h.nodes \in Seq(Key) /\ h.count \in [Key -> Nat] /\ h.index \in [Key -> Nat]
      /\ Len(h.nodes) \in Nat /\ Good(h) /\ h \in HeapType
  <2>1. Good(h)
    BY Zenon DEF Fit
  <2>2. h \in HeapType
    BY <2>1, Zenon DEF Good
  <2>3. h.nodes \in Seq(Key) /\ h.count \in [Key -> Nat] /\ h.index \in [Key -> Nat]
    BY <2>2, Zenon DEF HeapType
  <2>4. Len(h.nodes) \in Nat
    BY <2>3
  <2> QED BY <2>1, <2>2, <2>3, <2>4, Zenon
<1>2. \A i \in 1 .. Len(h.nodes) : h.nodes[i] \in Key /\ h.index[h.nodes[i]] = i
  BY <1>1 DEF Good
<1>3. \A i \in 1 .. Len(h.nodes) : h.nodes[i] \in Held(h)
  BY <1>1, <1>2 DEF Held
<1>4. \A k \in 2 .. Len(h.nodes) : k \div 2 \in 1 .. Len(h.nodes) /\ k \div 2 < k /\ k \div 2 >= 1
  <2> SUFFICES ASSUME NEW k \in 2 .. Len(h.nodes)
               PROVE  k \div 2 \in 1 .. Len(h.nodes) /\ k \div 2 < k /\ k \div 2 >= 1
    BY Zenon
  <2>1. k \in Nat /\ k > 1 /\ k <= Len(h.nodes)
    BY <1>1
  <2>2. k \div 2 \in Nat /\ 1 <= k \div 2 /\ k \div 2 < k
    BY <2>1, Halves, Zenon
  <2> QED BY <1>1, <2>1, <2>2
<1>5. \A k \in 2 .. Len(h.nodes) : ~Before(h.count, h.nodes[k], h.nodes[k \div 2])
  BY <1>4, LessIsBefore, Zenon DEF Fit, Ordered
<1>6. \A i, j \in 1 .. Len(h.nodes) : i # j => h.nodes[i] # h.nodes[j]
  BY <1>2, Zenon
<1> QED BY <1>1, <1>2, <1>3, <1>4, <1>5, <1>6, Zenon

\* A recount, and heap.Fix.
LEMMA FixAtWorks ==
  ASSUME Key \subseteq Nat, NEW h, Fit(h), NEW i \in 1 .. Len(h.nodes), NEW c \in Nat
  PROVE  With(h, FixAt(h, i, c), h.nodes[i], c)
<1> DEFINE n == Len(h.nodes)
<1> DEFINE a == h.nodes[i]
<1> DEFINE x == [h EXCEPT !.count[h.nodes[i]] = c]
<1>0. /\ h.nodes \in Seq(Key) /\ h.count \in [Key -> Nat] /\ h.index \in [Key -> Nat]
      /\ n \in Nat /\ Good(h) /\ h \in HeapType /\ a \in Key /\ a \in Held(h)
      /\ \A p \in 1 .. n : h.nodes[p] \in Key
      /\ \A p, q \in 1 .. n : p # q => h.nodes[p] # h.nodes[q]
      /\ \A k \in 2 .. n : k \div 2 \in 1 .. n /\ k \div 2 < k
      /\ \A k \in 2 .. n : ~Before(h.count, h.nodes[k], h.nodes[k \div 2])
  BY FitFacts, Zenon
<1>1. /\ x = [nodes |-> h.nodes, count |-> [h.count EXCEPT ![a] = c], index |-> h.index]
  <2>1. x = [h EXCEPT !.count = [h.count EXCEPT ![a] = c]]
    BY Zenon
  <2> HIDE DEF x
  <2>2. h = [nodes |-> h.nodes, count |-> h.count, index |-> h.index]
    BY <1>0, Zenon DEF HeapType
  <2> QED BY <2>1, <2>2, Zenon
<1> DEFINE y == [h.count EXCEPT ![a] = c]
<1>2. y \in [Key -> Nat] /\ y[a] = c /\ \A k \in Key : k # a => y[k] = h.count[k]
  BY <1>0, Zenon
<1> HIDE DEF x, y
<1>3. x.nodes = h.nodes /\ x.count = y /\ x.index = h.index /\ x \in HeapType
  BY <1>0, <1>1, <1>2, Zenon DEF HeapType, y
<1>4. Good(x) /\ Held(x) = Held(h)
  BY <1>0, <1>3 DEF Good, Held
<1>5. \A p, q \in Key : p # a /\ q # a /\ ~Before(h.count, p, q) => ~Before(y, p, q)
  BY <1>2, Zenon DEF Before
<1>6. ASSUME NEW k \in 2 .. n, k # i, k \div 2 # i PROVE ~Less(x, k, k \div 2)
  <2>1. k \in 1 .. n /\ k \div 2 \in 1 .. n
    BY <1>0
  <2>2. h.nodes[k] # a /\ h.nodes[k \div 2] # a /\ h.nodes[k] \in Key /\ h.nodes[k \div 2] \in Key
    BY <1>0, <1>6, <2>1, Zenon
  <2>3. ~Before(y, h.nodes[k], h.nodes[k \div 2])
    BY <1>0, <1>5, <2>2, Zenon
  <2> QED BY <1>3, <2>3, LessIsBefore, Zenon
<1>7. ASSUME NEW k \in 2 .. n, k \div 2 = i, i > 1 PROVE ~Less(x, k, i \div 2)
  <2>1. i \in 2 .. n
    BY <1>0, <1>7
  <2>2. k \in 1 .. n /\ k # i /\ i \div 2 \in 1 .. n /\ i \div 2 # i
    BY <1>0, <1>7, <2>1
  <2>3. h.nodes[k] # a /\ h.nodes[i \div 2] # a /\ h.nodes[k] \in Key /\ h.nodes[i \div 2] \in Key
    BY <1>0, <2>2, Zenon
  <2>4. ~Before(h.count, h.nodes[k], a) /\ ~Before(h.count, a, h.nodes[i \div 2])
    BY <1>0, <1>7, <2>1, Zenon
  <2>5. ~Before(h.count, h.nodes[k], h.nodes[i \div 2])
    BY <1>0, <2>3, <2>4, NotBeforeBoth, Zenon
  <2>6. ~Before(y, h.nodes[k], h.nodes[i \div 2])
    BY <1>5, <2>3, <2>5, Zenon
  <2> QED BY <1>3, <2>6, LessIsBefore, Zenon
<1>8. DownHole(x, i, n, 1)
  BY <1>6, <1>7, Zenon DEF DownHole
<1>9. Permuted(x, downOrUp(x, i, n), n) /\ Ordered(downOrUp(x, i, n), n, 1)
  BY <1>0, <1>3, <1>4, <1>8, DownOrUpWorks
<1>10. FixAt(h, i, c) = downOrUp(x, i, n)
  BY <1>3, Zenon DEF FixAt, heapFix, x
<1>11. Len(downOrUp(x, i, n).nodes) = n /\ Good(downOrUp(x, i, n))
       /\ downOrUp(x, i, n).count = y /\ Held(downOrUp(x, i, n)) = Held(h)
  BY <1>3, <1>4, <1>9, Zenon DEF Permuted
<1>12. Fit(downOrUp(x, i, n))
  BY <1>9, <1>11, Zenon DEF Fit
<1>13. Held(h) = Held(h) \cup {a}
  BY <1>0, Zenon
<1> QED BY <1>10, <1>11, <1>12, <1>13, Zenon DEF With, y

\* heap.Push.
LEMMA PushWorks ==
  ASSUME Key \subseteq Nat, NEW h, Fit(h), NEW k \in Key, k \notin Held(h), NEW c \in Nat
  PROVE  With(h, heapPush(h, k, c), k, c)
<1> DEFINE n == Len(h.nodes)
<1> DEFINE x == PushLast(h, k, c)
<1> DEFINE y == [h.count EXCEPT ![k] = c]
<1> DEFINE z == [h.index EXCEPT ![k] = n + 1]
<1>0. /\ h.nodes \in Seq(Key) /\ h.count \in [Key -> Nat] /\ h.index \in [Key -> Nat]
      /\ n \in Nat /\ Good(h)
      /\ \A p \in 1 .. n : h.nodes[p] \in Key /\ h.index[h.nodes[p]] = p /\ h.nodes[p] \in Held(h)
      /\ \A p \in 2 .. n : p \div 2 \in 1 .. n /\ p \div 2 < p
      /\ \A p \in 2 .. n : ~Before(h.count, h.nodes[p], h.nodes[p \div 2])
  BY FitFacts, Zenon
<1>1. /\ y \in [Key -> Nat] /\ (\A p \in Key : p # k => y[p] = h.count[p])
      /\ z \in [Key -> Nat] /\ z[k] = n + 1 /\ (\A p \in Key : p # k => z[p] = h.index[p])
  BY <1>0
<1>2. x = [nodes |-> Append(h.nodes, k), count |-> y, index |-> z]
  BY Zenon DEF PushLast
<1> DEFINE A == Append(h.nodes, k)
<1>3. A \in Seq(Key) /\ Len(A) = n + 1 /\ A[n + 1] = k /\ \A p \in 1 .. n : A[p] = h.nodes[p]
  BY <1>0
<1> HIDE DEF x, y, z, n, A
<1>4. x.nodes = A /\ x.count = y /\ x.index = z /\ x \in HeapType
  BY <1>1, <1>2, <1>3, Zenon DEF HeapType, A
<1>5. h.index[k] = 0 /\ \A p \in 1 .. n : h.nodes[p] # k
  BY <1>0, Zenon DEF Held
<1>6. Good(x)
  <2>1. ASSUME NEW p \in 1 .. n + 1 PROVE z[A[p]] = p
    <3>1. CASE p = n + 1
      BY <1>1, <1>3, <3>1, Zenon
    <3>2. CASE p # n + 1
      <4>1. p \in 1 .. n
        BY <1>0, <3>2
      <4>2. A[p] = h.nodes[p] /\ h.nodes[p] \in Key /\ h.nodes[p] # k /\ h.index[h.nodes[p]] = p
        BY <1>0, <1>3, <1>5, <4>1, Zenon
      <4> QED BY <1>1, <4>2, Zenon
    <3> QED BY <3>1, <3>2, Zenon
  <2>2. ASSUME NEW q \in Key, z[q] # 0 PROVE z[q] \in 1 .. n + 1 /\ A[z[q]] = q
    <3>1. CASE q = k
      BY <1>0, <1>1, <1>3, <3>1
    <3>2. CASE q # k
      <4>1. z[q] = h.index[q]
        BY <1>1, <3>2, Zenon
      <4>2. h.index[q] \in 1 .. n /\ h.nodes[h.index[q]] = q
        BY <1>0, <2>2, <4>1, Zenon DEF Good, n
      <4>3. h.index[q] \in 1 .. n + 1
        BY <1>0, <4>2
      <4> QED BY <1>3, <4>1, <4>2, <4>3, Zenon
    <3> QED BY <3>1, <3>2, Zenon
  <2> QED BY <1>3, <1>4, <2>1, <2>2, Zenon DEF Good
<1>7. Held(x) = Held(h) \cup {k}
  <2>1. z[k] # 0
    BY <1>0, <1>1
  <2>2. ASSUME NEW q \in Key PROVE z[q] # 0 <=> h.index[q] # 0 \/ q = k
    BY <1>1, <2>1, Zenon
  <2> QED BY <1>4, <2>2, Zenon DEF Held
<1>8. \A p, q \in Key : p # k /\ q # k /\ ~Before(h.count, p, q) => ~Before(y, p, q)
  BY <1>1, Zenon DEF Before
<1>9. ASSUME NEW p \in 2 .. n + 1, p # n + 1 PROVE ~Less(x, p, p \div 2)
  <2>1. p \in 2 .. n
    BY <1>0, <1>9
  <2>2. p \in 1 .. n /\ p \div 2 \in 1 .. n
    BY <1>0, <2>1
  <2>3. ~Before(y, h.nodes[p], h.nodes[p \div 2])
    BY <1>0, <1>5, <1>8, <2>1, <2>2, Zenon
  <2>4. ~Before(y, A[p], A[p \div 2])
    BY <1>3, <2>2, <2>3, Zenon
  <2> QED BY <1>4, <2>4, LessIsBefore, Zenon
<1>10. ASSUME NEW p \in 2 .. n + 1, p \div 2 = n + 1 PROVE FALSE
  <2>1. p \div 2 < p
    BY <1>0, Halves
  <2> QED BY <1>0, <1>10, <2>1
<1>11. UpHole(x, n + 1, n + 1)
  BY <1>9, <1>10, Zenon DEF UpHole
<1>12. Permuted(x, up(x, n + 1), n + 1) /\ Ordered(up(x, n + 1), n + 1, 1)
  <2>1. n + 1 \in Nat /\ n + 1 \in 1 .. n + 1 /\ n + 1 <= Len(x.nodes)
    BY <1>0, <1>3, <1>4
  <2> QED BY <1>6, <1>11, <2>1, UpWorks, Zenon
<1>13. heapPush(h, k, c) = up(x, n + 1)
  BY Zenon DEF heapPush, x, n
<1>14. Fit(up(x, n + 1)) /\ up(x, n + 1).count = y /\ Held(up(x, n + 1)) = Held(h) \cup {k}
  BY <1>3, <1>4, <1>7, <1>12, Zenon DEF Permuted, Fit
<1> QED BY <1>13, <1>14, Zenon DEF With, y

\* Nodes.Pop drops the last node.
LEMMA PopLastWorks ==
  ASSUME Key \subseteq Nat, NEW h, Good(h), Len(h.nodes) > 0, Ordered(h, Len(h.nodes) - 1, 1)
  PROVE  Without(h, PopLast(h), h.nodes[Len(h.nodes)])
<1> DEFINE n == Len(h.nodes)
<1> DEFINE a == h.nodes[n]
<1> DEFINE x == PopLast(h)
<1> DEFINE A == SubSeq(h.nodes, 1, n - 1)
<1> DEFINE y == [h.count EXCEPT ![a] = 0]
<1> DEFINE z == [h.index EXCEPT ![a] = 0]
<1>0. /\ h.nodes \in Seq(Key) /\ h.count \in [Key -> Nat] /\ h.index \in [Key -> Nat] /\ n \in Nat /\ n > 0
  BY DEF Good, HeapType
<1>1. /\ \A p \in 1 .. n : h.nodes[p] \in Key /\ h.index[h.nodes[p]] = p
      /\ n \in 1 .. n
      /\ \A k \in Key : h.index[k] # 0 => h.index[k] \in 1 .. n /\ h.nodes[h.index[k]] = k
  BY <1>0 DEF Good
<1>2. a \in Key /\ h.index[a] = n
  BY <1>1, Zenon
<1>3. /\ y \in [Key -> Nat] /\ (\A p \in Key : p # a => y[p] = h.count[p])
      /\ z \in [Key -> Nat] /\ z[a] = 0 /\ (\A p \in Key : p # a => z[p] = h.index[p])
  BY <1>0, <1>2, Zenon
<1>4. A \in Seq(Key) /\ Len(A) = n - 1 /\ \A p \in 1 .. n - 1 : A[p] = h.nodes[p]
  <2>1. 1 \in Int /\ n - 1 \in Int /\ 1 .. n - 1 \subseteq 1 .. n
    BY <1>0
  <2> QED BY <1>0, <1>1, <2>1
<1>5. x = [nodes |-> A, count |-> y, index |-> z]
  BY Zenon DEF PopLast
<1> HIDE DEF x, A, y, z, n, a
<1>6. x.nodes = A /\ x.count = y /\ x.index = z /\ x \in HeapType
  BY <1>3, <1>4, <1>5, Zenon DEF HeapType
<1>7. \A p \in 1 .. n - 1 : p \in 1 .. n /\ h.nodes[p] # a
  BY <1>0, <1>1, <1>2
<1>8. Good(x)
  <2>1. ASSUME NEW p \in 1 .. n - 1 PROVE z[A[p]] = p
    <3>1. A[p] = h.nodes[p] /\ h.nodes[p] \in Key /\ h.nodes[p] # a /\ h.index[h.nodes[p]] = p
      BY <1>1, <1>4, <1>7, Zenon
    <3> QED BY <1>3, <3>1, Zenon
  <2>2. ASSUME NEW q \in Key, z[q] # 0 PROVE z[q] \in 1 .. n - 1 /\ A[z[q]] = q
    <3>1. q # a /\ z[q] = h.index[q]
      BY <1>3, <2>2, Zenon
    <3>2. h.index[q] \in 1 .. n /\ h.nodes[h.index[q]] = q
      BY <1>1, <2>2, <3>1, Zenon
    <3>3. h.index[q] # n
      BY <3>1, <3>2, Zenon DEF a
    <3>4. h.index[q] \in 1 .. n - 1
      BY <1>0, <3>2, <3>3
    <3> QED BY <1>4, <3>1, <3>2, <3>4, Zenon
  <2> QED BY <1>4, <1>6, <2>1, <2>2, Zenon DEF Good
<1>9. Held(x) = Held(h) \ {a}
  BY <1>3, <1>6, Zenon DEF Held
<1>10. ASSUME NEW p \in 2 .. n - 1 PROVE ~Less(x, p, p \div 2)
  <2>1. p \div 2 \in Nat /\ 1 <= p \div 2 /\ p \div 2 < p
    BY <1>0, Halves
  <2>2. p \in 1 .. n - 1 /\ p \div 2 \in 1 .. n - 1
    BY <1>0, <2>1
  <2>3. ~Before(h.count, h.nodes[p], h.nodes[p \div 2])
    BY <2>1, LessIsBefore, Zenon DEF Ordered, n
  <2>4. A[p] = h.nodes[p] /\ A[p \div 2] = h.nodes[p \div 2]
        /\ y[h.nodes[p]] = h.count[h.nodes[p]] /\ y[h.nodes[p \div 2]] = h.count[h.nodes[p \div 2]]
    BY <1>1, <1>3, <1>4, <1>7, <2>2, Zenon
  <2>5. ~Before(y, A[p], A[p \div 2])
    BY <2>3, <2>4, Zenon DEF Before
  <2> QED BY <1>6, <2>5, LessIsBefore, Zenon
<1>11. Fit(x)
  BY <1>4, <1>6, <1>8, <1>10, Zenon DEF Fit, Ordered
<1>12. Without(h, x, a)
  BY <1>4, <1>6, <1>9, <1>11, Zenon DEF Without, y, n
<1> QED BY <1>12, Zenon DEF x, a, n

\* From a permutation of h, Nodes.Pop takes the same key.
LEMMA WithoutPermuted ==
  ASSUME NEW h, NEW x, NEW g, NEW n, NEW k, Permuted(h, x, n), Without(x, g, k)
  PROVE  Without(h, g, k)
BY Zenon DEF Permuted, Without

\* heap.Remove.
LEMMA RemoveWorks ==
  ASSUME Key \subseteq Nat, NEW h, Fit(h), NEW i \in 1 .. Len(h.nodes)
  PROVE  Without(h, heapRemove(h, i), h.nodes[i])
<1> DEFINE n == Len(h.nodes)
<1>0. /\ h.count \in [Key -> Nat] /\ n \in Nat /\ Good(h)
      /\ \A p \in 1 .. n : h.nodes[p] \in Key
      /\ \A p \in 2 .. n : p \div 2 \in 1 .. n /\ p \div 2 < p
      /\ \A p \in 2 .. n : ~Before(h.count, h.nodes[p], h.nodes[p \div 2])
  BY FitFacts, Zenon
<1>1. n - 1 \in Nat /\ n > 0 /\ n \in 1 .. n /\ 2 .. n - 1 \subseteq 2 .. n
  BY <1>0
<1>2. CASE i = n
  <2>1. Ordered(h, n - 1, 1)
    BY <1>1, Zenon DEF Ordered, Fit
  <2>2. heapRemove(h, i) = PopLast(h)
    BY <1>2, Zenon DEF heapRemove
  <2> QED BY <1>0, <1>1, <1>2, <2>1, <2>2, PopLastWorks, Zenon
<1>3. CASE i # n
  <2> DEFINE x == Swap(h, i, n)
  <2>0. i \in 1 .. n - 1
    BY <1>0, <1>3
  <2>1. Permuted(h, x, n) /\ Swapped(h, x, i, n)
    BY <1>0, <1>1, SwapKeeps
  <2>2. heapRemove(h, i) = PopLast(downOrUp(x, i, n - 1))
    BY <1>3, Zenon DEF heapRemove
  <2> HIDE DEF x, n
  <2>3. /\ Good(x) /\ x.count = h.count /\ Len(x.nodes) = n /\ x.nodes[n] = h.nodes[i]
        /\ \A p \in 1 .. n : p # i /\ p # n => x.nodes[p] = h.nodes[p]
    BY <2>1, Zenon DEF Permuted, Swapped, n
  <2>4. ASSUME NEW p \in 2 .. n - 1, p # i, p \div 2 # i PROVE ~Less(x, p, p \div 2)
    <3>1. p \in 2 .. n /\ p \in 1 .. n /\ p # n /\ p \div 2 \in 1 .. n /\ p \div 2 # n
      BY <1>0, <1>1
    <3>2. x.nodes[p] = h.nodes[p] /\ x.nodes[p \div 2] = h.nodes[p \div 2]
      BY <2>3, <2>4, <3>1, Zenon
    <3>3. ~Before(x.count, x.nodes[p], x.nodes[p \div 2])
      BY <1>0, <2>3, <3>1, <3>2, Zenon
    <3> QED BY <3>3, LessIsBefore, Zenon
  <2>5. ASSUME NEW p \in 2 .. n - 1, p \div 2 = i, i > 1 PROVE ~Less(x, p, i \div 2)
    <3>1. p \in 2 .. n /\ p \in 1 .. n /\ p # n /\ p # i /\ i \in 2 .. n
      BY <1>0, <1>1, <2>0, <2>5
    <3>2. i \div 2 \in 1 .. n /\ i \div 2 # i /\ i \div 2 # n
      BY <1>0, <2>0, <3>1
    <3>3. x.nodes[p] = h.nodes[p] /\ x.nodes[i \div 2] = h.nodes[i \div 2]
      BY <2>3, <3>1, <3>2, Zenon
    <3>4. ~Before(h.count, h.nodes[p], h.nodes[i]) /\ ~Before(h.count, h.nodes[i], h.nodes[i \div 2])
      BY <1>0, <2>5, <3>1, Zenon
    <3>5. h.nodes[p] \in Key /\ h.nodes[i] \in Key /\ h.nodes[i \div 2] \in Key
      BY <1>0, <3>1, <3>2
    <3>6. ~Before(h.count, h.nodes[p], h.nodes[i \div 2])
      BY <1>0, <3>4, <3>5, NotBeforeBoth, Zenon
    <3>7. ~Before(x.count, x.nodes[p], x.nodes[i \div 2])
      BY <2>3, <3>3, <3>6, Zenon
    <3> QED BY <3>7, LessIsBefore, Zenon
  <2>6. DownHole(x, i, n - 1, 1)
    BY <2>4, <2>5, Zenon DEF DownHole
  <2> DEFINE d == downOrUp(x, i, n - 1)
  <2>7. Permuted(x, d, n - 1) /\ Ordered(d, n - 1, 1)
    <3>1. n - 1 <= Len(x.nodes)
      BY <1>0, <2>3
    <3> QED BY <1>1, <2>0, <2>3, <2>6, <3>1, DownOrUpWorks
  <2> HIDE DEF d
  <2>8. Good(d) /\ Len(d.nodes) = n /\ d.nodes[n] = x.nodes[n]
    BY <1>0, <1>1, <2>3, <2>7 DEF Permuted
  <2>9. Without(d, PopLast(d), d.nodes[n])
    BY <1>1, <2>7, <2>8, PopLastWorks, Zenon
  <2>10. Without(x, PopLast(d), h.nodes[i])
    BY <2>3, <2>7, <2>8, <2>9, WithoutPermuted, Zenon
  <2>11. Without(h, PopLast(d), h.nodes[i])
    BY <2>1, <2>10, WithoutPermuted, Zenon
  <2> QED BY <2>2, <2>11, Zenon DEF d
<1> QED BY <1>2, <1>3, Zenon

\* heap.Pop.
LEMMA PopWorks ==
  ASSUME Key \subseteq Nat, NEW h, Fit(h), Len(h.nodes) > 0
  PROVE  Without(h, heapPop(h), h.nodes[1])
<1> DEFINE n == Len(h.nodes)
<1> DEFINE x == Swap(h, 1, n)
<1>0. /\ h.count \in [Key -> Nat] /\ n \in Nat /\ Good(h)
      /\ \A p \in 2 .. n : p \div 2 \in 1 .. n /\ p \div 2 < p
      /\ \A p \in 2 .. n : ~Before(h.count, h.nodes[p], h.nodes[p \div 2])
  BY FitFacts, Zenon
<1>1. n - 1 \in Nat /\ n > 0 /\ n \in 1 .. n /\ 1 \in 1 .. n /\ 2 .. n - 1 \subseteq 2 .. n
  BY <1>0
<1>2. Permuted(h, x, n) /\ Swapped(h, x, 1, n)
  BY <1>0, <1>1, SwapKeeps
<1>3. heapPop(h) = PopLast(down(x, 1, n - 1))
  BY Zenon DEF heapPop
<1> HIDE DEF x, n
<1>4. /\ Good(x) /\ x.count = h.count /\ Len(x.nodes) = n /\ x.nodes[n] = h.nodes[1]
      /\ \A p \in 1 .. n : p # 1 /\ p # n => x.nodes[p] = h.nodes[p]
  BY <1>2, Zenon DEF Permuted, Swapped, n
<1>5. ASSUME NEW p \in 2 .. n - 1, p \div 2 # 1 PROVE ~Less(x, p, p \div 2)
  <2>1. p \in 2 .. n /\ p \in 1 .. n /\ p # n /\ p # 1 /\ p \div 2 \in 1 .. n /\ p \div 2 # n
    BY <1>0, <1>1
  <2>2. x.nodes[p] = h.nodes[p] /\ x.nodes[p \div 2] = h.nodes[p \div 2]
    BY <1>4, <1>5, <2>1, Zenon
  <2>3. ~Before(x.count, x.nodes[p], x.nodes[p \div 2])
    BY <1>0, <1>4, <2>1, <2>2, Zenon
  <2> QED BY <2>3, LessIsBefore, Zenon
<1>6. DownHole(x, 1, n - 1, 1) /\ Settled(x, 1, n - 1, 1)
  BY <1>5 DEF DownHole, Settled
<1> DEFINE d == down(x, 1, n - 1)
<1>7. Sunk(x, d, 1, n - 1, 1)
  <2>1. n - 1 <= Len(x.nodes) /\ 1 \in 1 .. Len(x.nodes) /\ 1 \in Nat \ {0} /\ 1 <= 1
    BY <1>0, <1>1, <1>4
  <2> QED BY <1>1, <1>4, <1>6, <2>1, DownWorks, Zenon
<1> HIDE DEF d
<1>8. Permuted(x, d, n - 1) /\ Ordered(d, n - 1, 1)
  <2>1. Calm(x, 1, n - 1) => Ordered(x, n - 1, 1)
    BY <1>1, <1>6, SettledCalm, Zenon
  <2> QED BY <1>7, <2>1, Zenon DEF Sunk
<1>9. Good(d) /\ Len(d.nodes) = n /\ d.nodes[n] = x.nodes[n]
  BY <1>0, <1>1, <1>4, <1>8 DEF Permuted
<1>10. Without(d, PopLast(d), d.nodes[n])
  BY <1>1, <1>8, <1>9, PopLastWorks, Zenon
<1>11. Without(x, PopLast(d), h.nodes[1])
  BY <1>4, <1>8, <1>9, <1>10, WithoutPermuted, Zenon
<1>12. Without(h, PopLast(d), h.nodes[1])
  BY <1>2, <1>11, WithoutPermuted, Zenon
<1> QED BY <1>3, <1>12, Zenon DEF d

(***************************************************************************)
(* The root is the coldest node, and the array has a place for each key.   *)
(***************************************************************************)
LEMMA RootIsColdest ==
  ASSUME Key \subseteq Nat, NEW h, Fit(h)
  PROVE  \A i \in 1 .. Len(h.nodes) : ~Before(h.count, h.nodes[i], h.nodes[1])
<1> DEFINE n == Len(h.nodes)
<1> DEFINE T == {m \in 0 .. n : \A i \in 1 .. m : ~Before(h.count, h.nodes[i], h.nodes[1])}
<1>0. /\ h.count \in [Key -> Nat] /\ n \in Nat
      /\ \A p \in 1 .. n : h.nodes[p] \in Key
      /\ \A p \in 2 .. n : p \div 2 \in 1 .. n /\ p \div 2 < p
      /\ \A p \in 2 .. n : ~Before(h.count, h.nodes[p], h.nodes[p \div 2])
  BY FitFacts, Zenon
<1> HIDE DEF n
<1>1. 0 \in T
  BY <1>0
<1>2. ASSUME NEW m \in 1 .. n, m - 1 \in T PROVE m \in T
  <2>1. ~Before(h.count, h.nodes[m], h.nodes[1])
    <3>0. 1 \in 1 .. n
      BY <1>0
    <3>1. CASE m = 1
      <4>1. h.nodes[m] \in Key /\ h.nodes[m] = h.nodes[1]
        BY <1>0, <3>0, <3>1, Zenon
      <4> QED BY <1>0, <4>1, BeforeOne, Zenon
    <3>2. CASE m # 1
      <4>1. m \in 2 .. n
        BY <1>0, <3>2
      <4>2. m \div 2 \in 1 .. n /\ m \div 2 < m /\ ~Before(h.count, h.nodes[m], h.nodes[m \div 2])
        BY <1>0, <4>1, Zenon
      <4>3. m \div 2 \in 1 .. m - 1
        BY <1>0, <4>2
      <4>4. ~Before(h.count, h.nodes[m \div 2], h.nodes[1])
        BY <1>2, <4>3, Zenon
      <4>5. h.nodes[1] \in Key /\ h.nodes[m] \in Key /\ h.nodes[m \div 2] \in Key
        BY <1>0, <3>0, <4>2, Zenon
      <4> QED BY <1>0, <4>2, <4>4, <4>5, NotBeforeBoth, Zenon
    <3> QED BY <3>1, <3>2, Zenon
  <2>2. \A i \in 1 .. m : i = m \/ i \in 1 .. m - 1
    BY <1>0
  <2>3. \A i \in 1 .. m : ~Before(h.count, h.nodes[i], h.nodes[1])
    BY <1>2, <2>1, <2>2, Zenon
  <2> QED BY <2>3
<1> HIDE DEF T
<1>3. n \in T
  BY <1>0, <1>1, <1>2, Rounds, Zenon
<1> QED BY <1>3, Zenon DEF T, n

LEMMA HeldCounted ==
  ASSUME NEW h, Good(h)
  PROVE  Cardinality(Held(h)) = Len(h.nodes)
<1> DEFINE n == Len(h.nodes)
<1>0. /\ h.nodes \in Seq(Key) /\ h.index \in [Key -> Nat] /\ n \in Nat /\ h.nodes \in [1 .. n -> Key]
  BY DEF Good, HeapType
<1>1. \A i \in 1 .. n : h.nodes[i] \in Key /\ h.index[h.nodes[i]] = i
  BY <1>0, Zenon DEF Good
<1>2. \A i \in 1 .. n : h.nodes[i] \in Held(h)
  BY <1>0, <1>1 DEF Held
<1>3. \A k \in Held(h) : h.index[k] \in 1 .. n /\ h.nodes[h.index[k]] = k
  BY Zenon DEF Held, Good
<1>4. h.nodes \in [1 .. n -> Held(h)]
  BY <1>0, <1>2, Zenon
<1>5. h.nodes \in Injection(1 .. n, Held(h))
  BY <1>1, <1>4 DEF Injection, IsInjective
<1>6. h.nodes \in Surjection(1 .. n, Held(h))
  BY <1>3, <1>4, Zenon DEF Surjection
<1>7. ExistsBijection(1 .. n, Held(h))
  BY <1>5, <1>6, Zenon DEF ExistsBijection, Bijection
<1> QED BY <1>0, <1>7, FS_CountingElements, Zenon

\* Find, and the root.
LEMMA Finds ==
  ASSUME Key \subseteq Nat, NEW h, Fit(h)
  PROVE  /\ \A k \in Held(h) : h.index[k] \in 1 .. Len(h.nodes) /\ h.nodes[h.index[k]] = k
         /\ Len(h.nodes) > 0 => /\ h.nodes[1] \in Held(h) /\ h.nodes[1] \in Key
                                /\ \A k \in Held(h) : ~Before(h.count, k, h.nodes[1])
         /\ h.nodes = <<>> <=> Len(h.nodes) = 0
<1>1. /\ h.nodes \in Seq(Key) /\ Len(h.nodes) \in Nat
      /\ \A i \in 1 .. Len(h.nodes) : h.nodes[i] \in Held(h) /\ h.nodes[i] \in Key
  BY FitFacts, Zenon
<1>2. \A k \in Held(h) : h.index[k] \in 1 .. Len(h.nodes) /\ h.nodes[h.index[k]] = k
  BY Zenon DEF Fit, Good, Held
<1>3. \A k \in Held(h) : ~Before(h.count, k, h.nodes[1])
  BY <1>2, RootIsColdest, Zenon
<1>4. Len(h.nodes) > 0 => 1 \in 1 .. Len(h.nodes)
  BY <1>1
<1>5. h.nodes = <<>> <=> Len(h.nodes) = 0
  BY <1>1
<1> QED BY <1>1, <1>2, <1>3, <1>4, <1>5, Zenon

(***************************************************************************)
(* ScaleDown.                                                              *)
(***************************************************************************)
\* No node that counts nothing is at the root.
Purged(h) == h.nodes = <<>> \/ h.count[h.nodes[1]] # 0

\* One round of the loop that pops the nodes that count nothing.
LEMMA PopZeroWorks ==
  ASSUME Key \subseteq Nat, NEW h, Fit(h)
  PROVE  /\ Fit(PopZero(h)) /\ PopZero(h).count = h.count
         /\ Held(PopZero(h)) \subseteq Held(h)
         /\ \A k \in Held(h) : h.count[k] # 0 => k \in Held(PopZero(h))
         /\ \/ Purged(h) /\ PopZero(h) = h
            \/ Len(h.nodes) > 0 /\ Len(PopZero(h).nodes) = Len(h.nodes) - 1
<1>1. CASE Purged(h)
  <2>1. PopZero(h) = h
    BY <1>1, Zenon DEF Purged, PopZero
  <2> QED BY <1>1, <2>1, Zenon
<1>2. CASE ~Purged(h)
  <2>1. PopZero(h) = heapPop(h) /\ h.count[h.nodes[1]] = 0 /\ h.nodes # <<>>
    BY <1>2, Zenon DEF Purged, PopZero
  <2>2. Len(h.nodes) > 0 /\ h.nodes[1] \in Key /\ h.count \in [Key -> Nat]
    BY <2>1, Finds, FitFacts
  <2>3. Without(h, heapPop(h), h.nodes[1])
    BY <2>2, PopWorks, Zenon
  <2>4. [h.count EXCEPT ![h.nodes[1]] = 0] = h.count
    BY <2>1, <2>2, Zenon
  <2> QED BY <2>1, <2>2, <2>3, <2>4, Zenon DEF Without
<1> QED BY <1>1, <1>2, Zenon

PopRun(r, h) == r = [m \in 0 .. Len(h.nodes) |-> IF m = 0 THEN h ELSE PopZero(r[m - 1])]

\* g is h with the nodes that count nothing popped.
Popped(h, g) == Fit(g) /\ g.count = h.count /\ Held(g) = {k \in Held(h) : h.count[k] # 0}

LEMMA PopZerosWorks ==
  ASSUME Key \subseteq Nat, NEW h, Fit(h)
  PROVE  Popped(h, PopZeros(h))
<1> DEFINE n == Len(h.nodes)
<1> DEFINE S == {x \in HeapType : Fit(x)}
<1>1. h \in S /\ n \in Nat
  BY FitFacts, Zenon
<1>2. \A x \in S : PopZero(x) \in S
  BY PopZeroWorks, Zenon DEF Fit, Good
<1>3. \E r : PopRun(r, h)
  <2> DEFINE f == [p \in (1 .. n) \X S |-> PopZero(p[2])]
  <2>1. f \in [(1 .. n) \X S -> S]
    BY <1>2, Zenon
  <2>2. PICK r \in [0 .. n -> S] : Runs(r, f, h, n)
    BY <1>1, <2>1, RunExists, Zenon
  <2>3. ASSUME NEW m \in 1 .. n PROVE r[m] = PopZero(r[m - 1])
    <3>1. m - 1 \in 0 .. n
      BY <1>1
    <3>2. r[m - 1] \in S
      BY <2>2, <3>1, Zenon
    <3>3. r[m] = f[<<m, r[m - 1]>>]
      BY <2>2, Zenon DEF Runs
    <3> QED BY <3>2, <3>3, Zenon
  <2>4. r[0] = h
    BY <2>2, Zenon DEF Runs
  <2>5. ASSUME NEW m \in 0 .. n PROVE r[m] = IF m = 0 THEN h ELSE PopZero(r[m - 1])
    <3>1. m = 0 \/ m \in 1 .. n
      BY <1>1
    <3> QED BY <2>3, <2>4, <3>1, Zenon
  <2>6. r = [m \in 0 .. n |-> r[m]]
    BY <2>2, Zenon
  <2>7. r = [m \in 0 .. n |-> IF m = 0 THEN h ELSE PopZero(r[m - 1])]
    BY <2>5, <2>6, Zenon
  <2> QED BY <2>7, Zenon DEF PopRun
<1> DEFINE c == CHOOSE r : PopRun(r, h)
<1>4. PopZeros(h) = c[n]
  BY Zenon DEF PopZeros, PopRun
<1>5. PopRun(c, h)
  BY <1>3, Zenon
<1> HIDE DEF c, n
<1>6. c[0] = h /\ \A m \in 1 .. n : c[m] = PopZero(c[m - 1])
  <2>1. 0 \in 0 .. n /\ \A m \in 1 .. n : m \in 0 .. n /\ m # 0
    BY <1>1
  <2> QED BY <1>5, <2>1, Zenon DEF PopRun, n
<1> DEFINE Less0(x) == /\ Fit(x) /\ x.count = h.count /\ Held(x) \subseteq Held(h)
                       /\ \A k \in Held(h) : h.count[k] # 0 => k \in Held(x)
<1> DEFINE T == {m \in 0 .. n : Less0(c[m]) /\ (Purged(c[m]) \/ Len(c[m].nodes) <= n - m)}
<1>7. 0 \in T
  BY <1>1, <1>6 DEF n
<1>8. ASSUME NEW m \in 1 .. n, m - 1 \in T PROVE m \in T
  <2> DEFINE b == c[m - 1]
  <2>1. Less0(b) /\ (Purged(b) \/ Len(b.nodes) <= n - (m - 1)) /\ c[m] = PopZero(b)
    BY <1>6, <1>8, Zenon
  <2> HIDE DEF b
  <2>2. /\ Fit(PopZero(b)) /\ PopZero(b).count = b.count
        /\ Held(PopZero(b)) \subseteq Held(b)
        /\ \A k \in Held(b) : b.count[k] # 0 => k \in Held(PopZero(b))
        /\ \/ Purged(b) /\ PopZero(b) = b
           \/ Len(b.nodes) > 0 /\ Len(PopZero(b).nodes) = Len(b.nodes) - 1
    BY <2>1, PopZeroWorks, Zenon
  <2>3. Less0(c[m])
    BY <2>1, <2>2, Zenon
  <2>4. Purged(c[m]) \/ Len(c[m].nodes) <= n - m
    <3>1. CASE Purged(b) /\ PopZero(b) = b
      BY <2>1, <3>1, Zenon
    <3>2. CASE ~(Purged(b) /\ PopZero(b) = b)
      <4>1. Len(c[m].nodes) = Len(b.nodes) - 1 /\ Len(b.nodes) > 0
        BY <2>1, <2>2, <3>2, Zenon
      <4>2. ~Purged(b)
        BY <2>1, <3>2, Zenon DEF Purged, PopZero
      <4>3. Len(b.nodes) <= n - (m - 1) /\ Len(b.nodes) \in Nat
        BY <2>1, <4>2, FitFacts, Zenon
      <4>4. Len(c[m].nodes) <= n - m
        BY <1>1, <4>1, <4>3
      <4> QED BY <4>4, Zenon
    <3> QED BY <3>1, <3>2, Zenon
  <2> HIDE DEF Less0
  <2> QED BY <2>3, <2>4
<1> HIDE DEF T
<1>9. n \in T
  BY <1>1, <1>7, <1>8, Rounds, Zenon
<1> DEFINE g == c[n]
<1>10. Less0(g) /\ (Purged(g) \/ Len(g.nodes) <= n - n)
  BY <1>9, Zenon DEF T
<1> HIDE DEF g
<1>11. Purged(g)
  <2>1. CASE Len(g.nodes) <= n - n
    <3>1. Len(g.nodes) = 0
      BY <1>1, <1>10, <2>1, FitFacts
    <3> QED BY <1>10, <3>1, Finds, Zenon DEF Purged
  <2> QED BY <1>10, <2>1, Zenon
<1>12. ASSUME NEW k \in Held(g) PROVE h.count[k] # 0
  <2>1. g.index[k] \in 1 .. Len(g.nodes) /\ Len(g.nodes) \in Nat /\ k \in Key
    BY <1>10, Finds, FitFacts, Zenon DEF Held
  <2>2. Len(g.nodes) > 0
    BY <2>1
  <2>3. g.nodes # <<>> /\ ~Before(g.count, k, g.nodes[1]) /\ g.nodes[1] \in Key /\ g.count \in [Key -> Nat]
    BY <1>10, <2>2, Finds, FitFacts
  <2>4. g.count[g.nodes[1]] # 0 /\ g.count[g.nodes[1]] \in Nat /\ g.count[k] \in Nat
    BY <1>11, <2>1, <2>3, Zenon DEF Purged
  <2>5. g.count[k] # 0
    BY <2>3, <2>4 DEF Before
  <2> QED BY <1>10, <2>5, Zenon
<1>13. Held(g) = {k \in Held(h) : h.count[k] # 0}
  BY <1>10, <1>12, Zenon
<1>14. Popped(h, g)
  BY <1>10, <1>13, Zenon DEF Popped
<1> QED BY <1>4, <1>14, Zenon DEF g

\* The array after ScaleDown.
LEMMA ScaleDownWorks ==
  ASSUME Key \subseteq Nat, NEW h, Fit(h)
  PROVE  /\ Fit(PopZeros(Reorder(Halve(h))))
         /\ PopZeros(Reorder(Halve(h))).count = [k \in Key |-> h.count[k] \div 2]
         /\ Held(PopZeros(Reorder(Halve(h)))) = {k \in Held(h) : h.count[k] \div 2 # 0}
<1> DEFINE x == Halve(h)
<1> DEFINE y == [k \in Key |-> h.count[k] \div 2]
<1>0. h \in HeapType /\ h.count \in [Key -> Nat] /\ h.index \in [Key -> Nat] /\ h.nodes \in Seq(Key)
  BY FitFacts, Zenon
<1>1. x = [nodes |-> h.nodes, count |-> y, index |-> h.index]
  <2>1. x = [h EXCEPT !.count = y]
    BY Zenon DEF Halve
  <2> HIDE DEF x, y
  <2>2. h = [nodes |-> h.nodes, count |-> h.count, index |-> h.index]
    BY <1>0, Zenon DEF HeapType
  <2> QED BY <2>1, <2>2, Zenon
<1>2. y \in [Key -> Nat]
  <2>1. \A k \in Key : h.count[k] \in Nat
    BY <1>0, Zenon
  <2>2. \A v \in Nat : v \div 2 \in Nat
    OBVIOUS
  <2> QED BY <2>1, <2>2, Zenon
<1> HIDE DEF x, y
<1>3. x \in HeapType /\ x.nodes = h.nodes /\ x.count = y /\ x.index = h.index
  BY <1>0, <1>1, <1>2, Zenon DEF HeapType
<1>4. Good(x) /\ Held(x) = Held(h)
  BY <1>3 DEF Good, Held, Fit
<1> DEFINE z == heapInit(x)
<1>5. Permuted(x, z, Len(x.nodes)) /\ Ordered(z, Len(x.nodes), 1)
  BY <1>4, InitWorks, Zenon
<1> HIDE DEF z
<1>6. Fit(z) /\ z.count = y /\ Held(z) = Held(h)
  BY <1>3, <1>4, <1>5, Zenon DEF Permuted, Fit
<1>7. Popped(z, PopZeros(z))
  BY <1>6, PopZerosWorks, Zenon
<1>8. \A k \in Held(h) : y[k] = h.count[k] \div 2
  BY Zenon DEF y, Held
<1>9. /\ Fit(PopZeros(z)) /\ PopZeros(z).count = y
      /\ Held(PopZeros(z)) = {k \in Held(h) : h.count[k] \div 2 # 0}
  BY <1>6, <1>7, <1>8, Zenon DEF Popped
<1> QED BY <1>9, Zenon DEF z, x, y, Reorder

(***************************************************************************)
(* The heap.                                                               *)
(***************************************************************************)
\* Keys are compared as numbers, and counts are numbers.
HeapConstants == Key \subseteq Nat /\ K \in Nat /\ MaxCount \in Nat

HeapInv == Fit(heap) /\ byKey = Held(heap)

\* The steps of the heap, in terms of the keys it holds.
Renewed == \E k \in Key, c \in 1 .. MaxCount :
             (k \in byKey \/ Len(heap.nodes) < K) /\ With(heap, heap', k, c)
Replaced == \E k \in Key, c \in 1 .. MaxCount : \E g :
              /\ k \notin byKey /\ Len(heap.nodes) >= K /\ K > 0 /\ Len(heap.nodes) > 0
              /\ c > heap.count[heap.nodes[1]]
              /\ Without(heap, g, heap.nodes[1]) /\ With(g, heap', k, c)
Taken == \E k \in byKey : Without(heap, heap', k)
Lost == Len(heap.nodes) > 0 /\ Without(heap, heap', heap.nodes[1])
Scaled ==
  /\ Fit(heap') /\ heap'.count = [k \in Key |-> heap.count[k] \div 2]
  /\ Held(heap') = {k \in Held(heap) : heap.count[k] \div 2 # 0}

\* Every step is one of them, or none, and the map follows the array.
LEMMA HeapMoves ==
  ASSUME HeapConstants, HeapInv, [MinHeapNext]_heapVars
  PROVE  byKey' = Held(heap') /\ (Renewed \/ Replaced \/ Taken \/ Lost \/ Scaled \/ UNCHANGED heapVars)
<1>0. /\ Key \subseteq Nat /\ MaxCount \in Nat /\ K \in Nat /\ Fit(heap) /\ byKey = Held(heap)
      /\ Len(heap.nodes) \in Nat /\ heap.index \in [Key -> Nat]
      /\ \A k \in Held(heap) : heap.index[k] \in 1 .. Len(heap.nodes) /\ heap.nodes[heap.index[k]] = k
      /\ Len(heap.nodes) > 0 => heap.nodes[1] \in Held(heap)
      /\ heap.nodes = <<>> <=> Len(heap.nodes) = 0
  BY FitFacts, Finds, Zenon DEF HeapConstants, HeapInv
<1>1. ASSUME NEW k \in Key, NEW c \in 1 .. MaxCount, Fix(k, c)
      PROVE  byKey' = Held(heap') /\ Renewed
  <2>1. k \in byKey /\ byKey' = byKey /\ heap' = FixAt(heap, heap.index[k], c) /\ c \in Nat
    BY <1>0, <1>1 DEF Fix
  <2>2. heap.index[k] \in 1 .. Len(heap.nodes) /\ heap.nodes[heap.index[k]] = k
    BY <1>0, <2>1, Zenon
  <2>3. With(heap, FixAt(heap, heap.index[k], c), heap.nodes[heap.index[k]], c)
    BY <1>0, <2>1, <2>2, FixAtWorks, Zenon
  <2>4. With(heap, heap', k, c)
    BY <2>1, <2>2, <2>3, Zenon
  <2>5. Held(heap') = Held(heap)
    BY <1>0, <2>1, <2>4 DEF With
  <2> QED BY <1>0, <2>1, <2>4, <2>5, Zenon DEF Renewed
<1>2. ASSUME NEW k \in Key, NEW c \in 1 .. MaxCount, k \notin byKey, Len(heap.nodes) < K,
             heap' = heapPush(heap, k, c), byKey' = byKey \cup {k}
      PROVE  byKey' = Held(heap') /\ Renewed
  <2>1. With(heap, heap', k, c)
    BY <1>0, <1>2, PushWorks
  <2> QED BY <1>0, <1>2, <2>1, Zenon DEF With, Renewed
<1>3. ASSUME NEW k \in Key, NEW c \in 1 .. MaxCount, k \notin byKey, Len(heap.nodes) >= K, K > 0, Hotter(c),
             heap' = heapPush(heapPop(heap), k, c), byKey' = (byKey \ {heap.nodes[1]}) \cup {k}
      PROVE  byKey' = Held(heap') /\ Replaced
  <2> DEFINE g == heapPop(heap)
  <2>1. Len(heap.nodes) > 0 /\ c \in Nat
    BY <1>0, <1>3
  <2>2. Without(heap, g, heap.nodes[1])
    BY <1>0, <2>1, PopWorks, Zenon
  <2> HIDE DEF g
  <2>3. Fit(g) /\ Held(g) = Held(heap) \ {heap.nodes[1]}
    BY <2>2, Zenon DEF Without
  <2>4. With(g, heapPush(g, k, c), k, c)
    BY <1>0, <1>3, <2>1, <2>3, PushWorks
  <2>5. With(g, heap', k, c)
    BY <1>3, <2>4, Zenon DEF g
  <2>6. byKey' = Held(heap')
    BY <1>0, <1>3, <2>3, <2>5, Zenon DEF With
  <2>7. Replaced
    BY <1>3, <2>1, <2>2, <2>5 DEF Replaced, Hotter
  <2> QED BY <2>6, <2>7, Zenon
<1>4. ASSUME Pop PROVE byKey' = Held(heap') /\ Lost
  <2>1. Len(heap.nodes) > 0
    BY <1>0, <1>4 DEF Pop
  <2>2. Without(heap, heap', heap.nodes[1])
    BY <1>0, <1>4, <2>1, PopWorks, Zenon DEF Pop
  <2> QED BY <1>0, <1>4, <2>1, <2>2, Zenon DEF Pop, Lost, Without
<1>5. ASSUME NEW k \in Key, RemoveKey(k) PROVE byKey' = Held(heap') /\ Taken
  <2>1. k \in byKey /\ byKey' = byKey \ {k} /\ heap' = heapRemove(heap, heap.index[k])
    BY <1>5, Zenon DEF RemoveKey
  <2>2. heap.index[k] \in 1 .. Len(heap.nodes) /\ heap.nodes[heap.index[k]] = k
    BY <1>0, <2>1, Zenon
  <2>3. Without(heap, heapRemove(heap, heap.index[k]), heap.nodes[heap.index[k]])
    BY <1>0, <2>2, RemoveWorks, Zenon
  <2>4. Without(heap, heap', k)
    BY <2>1, <2>2, <2>3, Zenon
  <2> QED BY <1>0, <2>1, <2>4, Zenon DEF Without, Taken
<1>6. ASSUME ScaleDown PROVE byKey' = Held(heap') /\ Scaled
  <2>1. Scaled
    BY <1>0, <1>6, ScaleDownWorks, Zenon DEF ScaleDown, Scaled
  <2>2. heap'.index \in [Key -> Nat]
    BY <1>0, <2>1, Zenon DEF Scaled, Fit, Good, HeapType
  <2>3. Held(heap') \subseteq Held(heap)
    BY <2>1, Zenon DEF Scaled
  <2>4. byKey' = byKey \ {k \in Key : heap.index[k] > 0 /\ heap'.index[k] = 0}
    BY <1>6, Zenon DEF ScaleDown
  <2>5. \A k \in Key : heap.index[k] > 0 <=> heap.index[k] # 0
    BY <1>0
  <2>6. byKey' = Held(heap')
    BY <1>0, <2>3, <2>4, <2>5 DEF Held
  <2> QED BY <2>1, <2>6, Zenon
<1>7. ASSUME NEW k \in Key, NEW c \in 1 .. MaxCount, Upsert(k, c)
      PROVE  byKey' = Held(heap') /\ (Renewed \/ Replaced \/ UNCHANGED heapVars)
  <2>1. CASE Fix(k, c)
    BY <1>1, <2>1, Zenon
  <2>2. CASE k \notin byKey /\ Len(heap.nodes) < K /\ heap' = heapPush(heap, k, c) /\ byKey' = byKey \cup {k}
    BY <1>2, <2>2, Zenon
  <2>3. CASE k \notin byKey /\ Len(heap.nodes) >= K /\ K > 0 /\ Hotter(c)
             /\ heap' = heapPush(heapPop(heap), k, c) /\ byKey' = (byKey \ {heap.nodes[1]}) \cup {k}
    BY <1>3, <2>3, Zenon
  <2>4. CASE UNCHANGED heapVars
    BY <1>0, <2>4, Zenon DEF heapVars
  <2> QED BY <1>7, <2>1, <2>2, <2>3, <2>4 DEF Upsert
<1>8. CASE UNCHANGED heapVars
  BY <1>0, <1>8, Zenon DEF heapVars
<1>9. CASE MinHeapNext
  <2>1. CASE \E k \in Key, c \in 1 .. MaxCount : Upsert(k, c)
    BY <1>7, <2>1, Zenon
  <2>2. CASE \E k \in Key : RemoveKey(k)
    BY <1>5, <2>2, Zenon
  <2>3. CASE Pop
    BY <1>4, <2>3, Zenon
  <2>4. CASE ScaleDown
    BY <1>6, <2>4, Zenon
  <2> QED BY <1>9, <2>1, <2>2, <2>3, <2>4 DEF MinHeapNext
<1> QED BY <1>8, <1>9, Zenon

LEMMA HeapStarts ==
  ASSUME MinHeapInit
  PROVE  HeapInv /\ Held(heap) = {}
<1>1. heap = NewHeap /\ byKey = {}
  BY Zenon DEF MinHeapInit
<1>2. NewHeap.nodes = <<>> /\ NewHeap.index = [k \in Key |-> 0] /\ NewHeap \in HeapType
  BY DEF NewHeap, HeapType
<1>3. Len(NewHeap.nodes) = 0
  BY <1>2
<1>4. Good(NewHeap)
  BY <1>2, <1>3 DEF Good
<1>5. Fit(NewHeap)
  BY <1>3, <1>4 DEF Fit, Ordered
<1>6. Held(NewHeap) = {}
  BY <1>2, Zenon DEF Held
<1> QED BY <1>1, <1>5, <1>6, Zenon DEF HeapInv

LEMMA HeapKept ==
  ASSUME HeapConstants, HeapInv, [MinHeapNext]_heapVars
  PROVE  HeapInv'
<1>1. byKey' = Held(heap') /\ (Renewed \/ Replaced \/ Taken \/ Lost \/ Scaled \/ UNCHANGED heapVars)
  BY HeapMoves, Zenon
<1>2. Fit(heap')
  <2>1. CASE UNCHANGED heapVars
    BY <2>1, Zenon DEF heapVars, HeapInv
  <2>2. CASE Renewed \/ Replaced
    BY <2>2, Zenon DEF Renewed, Replaced, With
  <2>3. CASE Taken \/ Lost \/ Scaled
    BY <2>3, Zenon DEF Taken, Lost, Scaled, Without
  <2> QED BY <1>1, <2>1, <2>2, <2>3, Zenon
<1> QED BY <1>1, <1>2, Zenon DEF HeapInv

\* After any history of Upsert, Fix, Remove, Pop and ScaleDown every node of
\* minheap is at the place it believes to be in, and the map holds exactly the
\* keys of the array.
THEOREM HeapIndexed ==
  ASSUME HeapConstants
  PROVE  MinHeapSpec => []IndexConsistent
<1>1. MinHeapInit => HeapInv
  BY HeapStarts, Zenon
<1>2. HeapInv /\ [MinHeapNext]_heapVars => HeapInv'
  BY HeapKept, Zenon
<1>3. HeapInv => IndexConsistent
  <2> SUFFICES ASSUME HeapInv PROVE IndexConsistent
    BY Zenon
  <2>1. Fit(heap) /\ byKey = Held(heap) /\ Key \subseteq Nat
    BY Zenon DEF HeapInv, HeapConstants
  <2>2. /\ heap.nodes \in Seq(Key)
        /\ \A i \in 1 .. Len(heap.nodes) : heap.nodes[i] \in Held(heap) /\ heap.index[heap.nodes[i]] = i
    BY <2>1, FitFacts, Zenon
  <2>3. DOMAIN heap.nodes = 1 .. Len(heap.nodes)
    BY <2>2
  <2>4. Cardinality(byKey) = Len(heap.nodes)
    BY <2>1, HeldCounted DEF Fit
  <2> QED BY <2>1, <2>2, <2>3, <2>4, Zenon DEF IndexConsistent
<1> QED BY <1>1, <1>2, <1>3, PTL DEF MinHeapSpec

\* After any such history no node of minheap counts less than its parent.
THEOREM HeapOrdered ==
  ASSUME HeapConstants
  PROVE  MinHeapSpec => []HeapOrder
<1>1. MinHeapInit => HeapInv
  BY HeapStarts, Zenon
<1>2. HeapInv /\ [MinHeapNext]_heapVars => HeapInv'
  BY HeapKept, Zenon
<1>3. HeapInv => HeapOrder
  <2> SUFFICES ASSUME HeapInv PROVE HeapOrder
    BY Zenon
  <2>1. Fit(heap) /\ Key \subseteq Nat
    BY Zenon DEF HeapInv, HeapConstants
  <2>2. /\ heap.nodes \in Seq(Key) /\ Len(heap.nodes) \in Nat
        /\ \A i \in 2 .. Len(heap.nodes) : ~Less(heap, i, i \div 2)
    BY <2>1, FitFacts, LessIsBefore, Zenon
  <2>3. DOMAIN heap.nodes \ {1} = 2 .. Len(heap.nodes)
    BY <2>2
  <2> QED BY <2>2, <2>3, Zenon DEF HeapOrder
<1> QED BY <1>1, <1>2, <1>3, PTL DEF MinHeapSpec

(***************************************************************************)
(* Refinement.                                                             *)
(***************************************************************************)
\* The table that the array stands for.
Top(h) == [k \in Held(h) |-> h.count[k]]

LEMMA TopWith ==
  ASSUME NEW h, Fit(h), NEW g, NEW k \in Key, NEW c, With(h, g, k, c)
  PROVE  Top(g) = Table!Put(Top(h), k, c)
<1>1. h.count \in [Key -> Nat] /\ Held(h) \subseteq Key
  BY Zenon DEF Fit, Good, HeapType, Held
<1>2. Held(g) = Held(h) \cup {k} /\ g.count = [h.count EXCEPT ![k] = c]
  BY Zenon DEF With
<1>3. \A j \in Held(h) \cup {k} : g.count[j] = IF j = k THEN c ELSE h.count[j]
  BY <1>1, <1>2, Zenon
<1> QED BY <1>2, <1>3, Zenon DEF Top, Table!Put

LEMMA TopWithout ==
  ASSUME NEW h, Fit(h), NEW g, NEW k, Without(h, g, k)
  PROVE  Top(g) = Table!Drop(Top(h), k)
<1>1. h.count \in [Key -> Nat] /\ Held(h) \subseteq Key
  BY Zenon DEF Fit, Good, HeapType, Held
<1>2. Held(g) = Held(h) \ {k} /\ g.count = [h.count EXCEPT ![k] = 0]
  BY Zenon DEF Without
<1>3. \A j \in Held(h) \ {k} : g.count[j] = h.count[j]
  BY <1>1, <1>2, Zenon
<1> QED BY <1>2, <1>3, Zenon DEF Top, Table!Drop

LEMMA TopColdest ==
  ASSUME Key \subseteq Nat, NEW h, Fit(h), Len(h.nodes) > 0
  PROVE  Table!Coldest(Top(h)) = h.nodes[1] /\ Table!Min(Top(h)) = h.count[h.nodes[1]]
<1> DEFINE a == h.nodes[1]
<1>1. h.count \in [Key -> Nat] /\ Held(h) \subseteq Key /\ a \in Held(h)
      /\ \A k \in Held(h) : ~Before(h.count, k, a)
  BY Finds, FitFacts, Zenon DEF Held
<1> HIDE DEF a
<1>2. \A k \in Held(h) \ {a} : Before(h.count, a, k) /\ ~Before(h.count, k, a)
  <2> SUFFICES ASSUME NEW k \in Held(h) \ {a} PROVE Before(h.count, a, k)
    BY <1>1, Zenon
  <2>1. k \in Key /\ a \in Key /\ k # a
    BY <1>1, Zenon
  <2> QED BY <1>1, <2>1, BeforeOrders, Zenon
<1> DEFINE P(k) == k \in Held(h) /\ \A j \in Held(h) \ {k} : Before(h.count, k, j)
<1>3. P(a) /\ \A k : P(k) => k = a
  BY <1>1, <1>2, Zenon
<1>4. DOMAIN Top(h) = Held(h) /\ \A k \in Held(h) : Top(h)[k] = h.count[k]
  BY Zenon DEF Top
<1>5. \A j, k \in Held(h) : Table!Colder(Top(h), j, k) <=> Before(h.count, j, k)
  BY <1>4, Zenon DEF Table!Colder, Before
<1>6. a \in DOMAIN Top(h) /\ \A j \in DOMAIN Top(h) \ {a} : Table!Colder(Top(h), a, j)
  BY <1>1, <1>2, <1>4, <1>5, Zenon
<1>7. ASSUME NEW k \in DOMAIN Top(h), \A j \in DOMAIN Top(h) \ {k} : Table!Colder(Top(h), k, j)
      PROVE  k = a
  BY <1>3, <1>4, <1>5, <1>7
<1>8. Table!Coldest(Top(h)) = a
  BY <1>6, <1>7, Zenon DEF Table!Coldest
<1>9. Table!Min(Top(h)) = h.count[a]
  BY <1>1, <1>4, <1>8, Zenon DEF Table!Min
<1> QED BY <1>8, <1>9, Zenon DEF a

LEMMA TopHalved ==
  ASSUME Key \subseteq Nat, NEW h, Fit(h), NEW g, g.count = [k \in Key |-> h.count[k] \div 2],
         Held(g) = {k \in Held(h) : h.count[k] \div 2 # 0}
  PROVE  Top(g) = Table!Halved(Top(h))
<1>1. h.count \in [Key -> Nat] /\ Held(h) \subseteq Key
  BY Zenon DEF Fit, Good, HeapType, Held
<1>2. \A k \in Held(h) : h.count[k] \in Nat
  BY <1>1, Zenon
<1>3. \A k \in Held(h) : h.count[k] \div 2 \in Nat
  BY <1>2
<1>4. \A k \in Held(h) : h.count[k] \div 2 # 0 <=> h.count[k] \div 2 > 0
  BY <1>3
<1>5. DOMAIN Top(h) = Held(h) /\ \A k \in Held(h) : Top(h)[k] = h.count[k]
  BY Zenon DEF Top
<1>6. {j \in DOMAIN Top(h) : Top(h)[j] \div 2 > 0} = Held(g)
  BY <1>4, <1>5, Zenon
<1>7. \A k \in Held(g) : Top(h)[k] \div 2 = g.count[k]
  BY <1>1, <1>5, Zenon
<1> QED BY <1>6, <1>7, Zenon DEF Top, Table!Halved

LEMMA SameCardinality == \A S : Table!Cardinality(S) = Cardinality(S)
BY Zenon DEF Table!Cardinality, Cardinality

\* Every step of the array is a step of the table.
LEMMA TableStep ==
  ASSUME HeapConstants, HeapInv, [MinHeapNext]_heapVars
  PROVE  \/ \E k \in Key, c \in 0 .. MaxCount : Top(heap') = Table!Upserted(Top(heap), k, c)
         \/ \E k \in Key : Top(heap') = Table!Drop(Top(heap), k)
         \/ Top(heap') = Table!Halved(Top(heap))
         \/ DOMAIN Top(heap) # {} /\ Top(heap') = Table!Drop(Top(heap), Table!Coldest(Top(heap)))
         \/ Top(heap') = Top(heap)
<1>0. /\ Key \subseteq Nat /\ MaxCount \in Nat /\ K \in Nat /\ Fit(heap) /\ byKey = Held(heap)
      /\ Len(heap.nodes) \in Nat /\ 1 .. MaxCount \subseteq 0 .. MaxCount
  BY FitFacts DEF HeapConstants, HeapInv
<1>1. DOMAIN Top(heap) = Held(heap) /\ Cardinality(DOMAIN Top(heap)) = Len(heap.nodes)
  BY <1>0, HeldCounted, Zenon DEF Top, Fit
<1>2. CASE Renewed
  <2>1. PICK k \in Key, c \in 1 .. MaxCount :
             (k \in byKey \/ Len(heap.nodes) < K) /\ With(heap, heap', k, c)
    BY <1>2, Zenon DEF Renewed
  <2>2. Top(heap') = Table!Put(Top(heap), k, c)
    BY <1>0, <2>1, TopWith
  <2>3. Table!Upserted(Top(heap), k, c) = Table!Put(Top(heap), k, c)
    <3>1. k \in DOMAIN Top(heap) \/ Cardinality(DOMAIN Top(heap)) < K
      BY <1>0, <1>1, <2>1, Zenon
    <3> QED BY <3>1, SameCardinality, Zenon DEF Table!Upserted
  <2>4. Top(heap') = Table!Upserted(Top(heap), k, c) /\ c \in 0 .. MaxCount
    BY <1>0, <2>2, <2>3
  <2> QED BY <2>4, Zenon
<1>3. CASE Replaced
  <2>1. PICK k \in Key, c \in 1 .. MaxCount : \E g :
              /\ k \notin byKey /\ Len(heap.nodes) >= K /\ K > 0 /\ Len(heap.nodes) > 0
              /\ c > heap.count[heap.nodes[1]]
              /\ Without(heap, g, heap.nodes[1]) /\ With(g, heap', k, c)
    BY <1>3, Zenon DEF Replaced
  <2>2. PICK g : Without(heap, g, heap.nodes[1]) /\ With(g, heap', k, c)
    BY <2>1, Zenon
  <2>3. Fit(g) /\ Top(g) = Table!Drop(Top(heap), heap.nodes[1])
    BY <1>0, <2>2, TopWithout, Zenon DEF Without
  <2>4. Top(heap') = Table!Put(Top(g), k, c)
    BY <2>2, <2>3, TopWith
  <2>5. Table!Coldest(Top(heap)) = heap.nodes[1] /\ Table!Min(Top(heap)) = heap.count[heap.nodes[1]]
    BY <1>0, <2>1, TopColdest, Zenon
  <2>6. Top(heap') = Table!Put(Table!Drop(Top(heap), Table!Coldest(Top(heap))), k, c)
    BY <2>3, <2>4, <2>5, Zenon
  <2>7. ~(k \in DOMAIN Top(heap) \/ Cardinality(DOMAIN Top(heap)) < K) /\ K > 0 /\ c > Table!Min(Top(heap))
    BY <1>0, <1>1, <2>1, <2>5
  <2>8. Top(heap') = Table!Upserted(Top(heap), k, c) /\ c \in 0 .. MaxCount
    <3>1. Table!Upserted(Top(heap), k, c) = Table!Put(Table!Drop(Top(heap), Table!Coldest(Top(heap))), k, c)
      BY <2>7, SameCardinality, Zenon DEF Table!Upserted
    <3> QED BY <1>0, <2>6, <3>1, Zenon
  <2> QED BY <2>8, Zenon
<1>4. CASE Taken
  <2>1. PICK k \in byKey : Without(heap, heap', k)
    BY <1>4, Zenon DEF Taken
  <2>2. k \in Key /\ Top(heap') = Table!Drop(Top(heap), k)
    BY <1>0, <2>1, TopWithout DEF Held
  <2> QED BY <2>2, Zenon
<1>5. CASE Lost
  <2>1. Top(heap') = Table!Drop(Top(heap), heap.nodes[1])
    BY <1>0, <1>5, TopWithout DEF Lost
  <2>2. Table!Coldest(Top(heap)) = heap.nodes[1]
    BY <1>0, <1>5, TopColdest DEF Lost
  <2>3. DOMAIN Top(heap) # {}
    BY <1>0, <1>1, <1>5, Finds DEF Lost
  <2> QED BY <2>1, <2>2, <2>3, Zenon
<1>6. CASE Scaled
  <2>1. Top(heap') = Table!Halved(Top(heap))
    BY <1>0, <1>6, TopHalved, Zenon DEF Scaled
  <2> QED BY <2>1, Zenon
<1>7. CASE UNCHANGED heapVars
  BY <1>7, Zenon DEF heapVars
<1>8. Renewed \/ Replaced \/ Taken \/ Lost \/ Scaled \/ UNCHANGED heapVars
  BY HeapMoves, Zenon
<1> QED BY <1>2, <1>3, <1>4, <1>5, <1>6, <1>7, <1>8, Zenon

\* The array, the indices and the map of minheap implement the bounded table of
\* TopK: whatever swaps an operation takes, its effect is that of one step of
\* the table, the expelled key is the coldest, and ties are broken the same way.
THEOREM TableImplemented ==
  ASSUME HeapConstants
  PROVE  MinHeapSpec => ImplementsTopK
<1>1. MinHeapInit => HeapInv
  BY HeapStarts, Zenon
<1>2. HeapInv /\ [MinHeapNext]_heapVars => HeapInv'
  BY HeapKept, Zenon
<1>3. MinHeapInit => Table!Init
  <2> SUFFICES ASSUME MinHeapInit PROVE Table!Init
    BY Zenon
  <2>1. byKey = {}
    BY Zenon DEF MinHeapInit
  <2> QED BY <2>1, Zenon DEF Table!Init, Table!Empty
<1>4. HeapInv /\ HeapInv' /\ [MinHeapNext]_heapVars => [Table!Next]_([k \in byKey |-> heap.count[k]])
  <2> SUFFICES ASSUME HeapInv, HeapInv', [MinHeapNext]_heapVars
               PROVE  [Table!Next]_([k \in byKey |-> heap.count[k]])
    BY Zenon
  <2>1. Top(heap) = [k \in byKey |-> heap.count[k]] /\ Top(heap') = [k \in byKey' |-> heap'.count[k]]
    BY Zenon DEF Top, HeapInv
  <2>2. CASE \E k \in Key, c \in 0 .. MaxCount : Top(heap') = Table!Upserted(Top(heap), k, c)
    <3>1. PICK k \in Key, c \in 0 .. MaxCount : Top(heap') = Table!Upserted(Top(heap), k, c)
      BY <2>2, Zenon
    <3>2. Table!Upsert(k, c)
      BY <2>1, <3>1, Zenon DEF Table!Upsert
    <3> QED BY <3>2, Zenon DEF Table!Next
  <2>3. CASE \E k \in Key : Top(heap') = Table!Drop(Top(heap), k)
    <3>1. PICK k \in Key : Top(heap') = Table!Drop(Top(heap), k)
      BY <2>3, Zenon
    <3>2. Table!Remove(k)
      BY <2>1, <3>1, Zenon DEF Table!Remove
    <3> QED BY <3>2, Zenon DEF Table!Next
  <2>4. CASE Top(heap') = Table!Halved(Top(heap))
    <3>1. Table!ScaleDown
      BY <2>1, <2>4, Zenon DEF Table!ScaleDown
    <3> QED BY <3>1, Zenon DEF Table!Next
  <2>5. CASE DOMAIN Top(heap) # {} /\ Top(heap') = Table!Drop(Top(heap), Table!Coldest(Top(heap)))
    <3>1. Table!Pop
      BY <2>1, <2>5, Zenon DEF Table!Pop
    <3> QED BY <3>1, Zenon DEF Table!Next
  <2>6. CASE Top(heap') = Top(heap)
    BY <2>1, <2>6, Zenon
  <2>7. \/ \E k \in Key, c \in 0 .. MaxCount : Top(heap') = Table!Upserted(Top(heap), k, c)
        \/ \E k \in Key : Top(heap') = Table!Drop(Top(heap), k)
        \/ Top(heap') = Table!Halved(Top(heap))
        \/ DOMAIN Top(heap) # {} /\ Top(heap') = Table!Drop(Top(heap), Table!Coldest(Top(heap)))
        \/ Top(heap') = Top(heap)
    BY TableStep, Zenon
  <2> QED BY <2>2, <2>3, <2>4, <2>5, <2>6, <2>7, Zenon
<1> QED BY <1>1, <1>2, <1>3, <1>4, PTL DEF MinHeapSpec, ImplementsTopK, Table!Spec
=============================================================================
