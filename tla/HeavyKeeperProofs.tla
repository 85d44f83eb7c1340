------------------------- MODULE HeavyKeeperProofs --------------------------
(***************************************************************************)
(* The heat model never invents heat and, until a key is removed, tracks   *)
(* the hottest keys: for every sketch, every hash, every capacity and any  *)
(* number of accesses, fadings and restarts.                               *)
(***************************************************************************)
EXTENDS HeavyKeeper, FiniteSetTheorems, TLAPS

USE TopKAssumption, HeavyKeeperAssumption

(***************************************************************************)
(* Tables.                                                                 *)
(***************************************************************************)
\* The domain of a table is finite, and so are its subsets.
LEMMA TableFinite ==
  ASSUME NEW t, IsTable(t)
  PROVE  IsFiniteSet(DOMAIN t) /\ Cardinality(DOMAIN t) \in Nat
<1>1. DOMAIN t \in SUBSET Key
  BY Zenon DEF IsTable
<1>2. IsFiniteSet(DOMAIN t)
  BY <1>1, FS_Subset, Zenon
<1> QED
  BY <1>2, FS_CardinalityType, Zenon

\* Every table that is not empty has a coldest key: of all sets of keys colder
\* than some key, a minimal one is empty, because Colder is transitive.
LEMMA ColdestExists ==
  ASSUME NEW t, IsTable(t), DOMAIN t # {}
  PROVE  /\ Coldest(t) \in DOMAIN t
         /\ \A j \in DOMAIN t : t[Coldest(t)] <= t[j]
<1> DEFINE D == DOMAIN t
           Below(k) == {j \in D : Colder(t, j, k)}
           F == {Below(k) : k \in D}
<1>1. IsFiniteSet(D)
  BY TableFinite, Zenon
<1>2. D \subseteq Nat /\ \A k \in D : t[k] \in Nat
  BY DEF IsTable
<1>3. F \subseteq FiniteSubsetsOf(D) /\ F # {}
  <2>1. ASSUME NEW k \in D PROVE Below(k) \in FiniteSubsetsOf(D)
    <3>1. Below(k) \in SUBSET D
      BY Zenon
    <3> HIDE DEF Below
    <3> QED
      BY <1>1, <3>1, FS_Subset, Zenon DEF FiniteSubsetsOf
  <2> HIDE DEF Below
  <2> QED
    BY <2>1
<1>4. \E x \in F : \A y \in F : ~ (<<y, x>> \in StrictSubsetOrdering(D))
  <2> HIDE DEF F
  <2> QED
    BY <1>3, FS_StrictSubsetOrderingWellFounded, WFMin, Zenon
<1>5. PICK k \in D : \A y \in F : ~ (<<y, Below(k)>> \in StrictSubsetOrdering(D))
  BY <1>4, Zenon
<1>6. Below(k) = {}
  <2> SUFFICES ASSUME NEW j \in Below(k) PROVE FALSE
    BY Zenon
  <2>1. j \in Below(k) /\ j \notin Below(j)
    BY <1>2 DEF Colder
  <2>2. Below(j) \subseteq Below(k)
    BY <1>2 DEF Colder
  <2>3. <<Below(j), Below(k)>> \in StrictSubsetOrdering(D)
    BY <2>1, <2>2, Zenon DEF StrictSubsetOrdering
  <2> QED
    BY <2>3, <1>5, Zenon
<1>7. \A j \in D \ {k} : Colder(t, k, j)
  BY <1>2, <1>6 DEF Colder
<1>8. Coldest(t) \in D /\ \A j \in D \ {Coldest(t)} : Colder(t, Coldest(t), j)
  BY <1>7, Zenon DEF Coldest
<1> QED
  BY <1>2, <1>8 DEF Colder

\* The same for the hottest key, which Restore looks for.
LEMMA HottestExists ==
  ASSUME NEW t, IsTable(t), DOMAIN t # {}
  PROVE  Hottest(t) \in DOMAIN t
<1> DEFINE D == DOMAIN t
           Above(k) == {j \in D : Colder(t, k, j)}
           F == {Above(k) : k \in D}
<1>1. IsFiniteSet(D)
  BY TableFinite, Zenon
<1>2. D \subseteq Nat /\ \A k \in D : t[k] \in Nat
  BY DEF IsTable
<1>3. F \subseteq FiniteSubsetsOf(D) /\ F # {}
  <2>1. ASSUME NEW k \in D PROVE Above(k) \in FiniteSubsetsOf(D)
    <3>1. Above(k) \in SUBSET D
      BY Zenon
    <3> HIDE DEF Above
    <3> QED
      BY <1>1, <3>1, FS_Subset, Zenon DEF FiniteSubsetsOf
  <2> HIDE DEF Above
  <2> QED
    BY <2>1, Zenon
<1>4. \E x \in F : \A y \in F : ~ (<<y, x>> \in StrictSubsetOrdering(D))
  <2> HIDE DEF F
  <2> QED
    BY <1>3, FS_StrictSubsetOrderingWellFounded, WFMin, Zenon
<1>5. PICK k \in D : \A y \in F : ~ (<<y, Above(k)>> \in StrictSubsetOrdering(D))
  BY <1>4, Zenon
<1>6. Above(k) = {}
  <2> SUFFICES ASSUME NEW j \in Above(k) PROVE FALSE
    BY Zenon
  <2>1. j \in Above(k) /\ j \notin Above(j)
    BY <1>2 DEF Colder
  <2>2. Above(j) \subseteq Above(k)
    BY <1>2 DEF Colder
  <2>3. <<Above(j), Above(k)>> \in StrictSubsetOrdering(D)
    BY <2>1, <2>2, Zenon DEF StrictSubsetOrdering
  <2> QED
    BY <2>3, <1>5, Zenon
<1>7. \A j \in D \ {k} : Colder(t, j, k)
  BY <1>2, <1>6 DEF Colder
<1> QED
  BY <1>7, Zenon DEF Hottest

\* Min bounds a table from below.
LEMMA MinBound ==
  ASSUME NEW t, IsTable(t)
  PROVE  /\ Min(t) \in 0 .. MaxCount
         /\ \A j \in DOMAIN t : Min(t) <= t[j]
         /\ DOMAIN t # {} => Coldest(t) \in DOMAIN t /\ t[Coldest(t)] = Min(t)
<1>1. CASE DOMAIN t = {}
  BY <1>1 DEF Min
<1>2. CASE DOMAIN t # {}
  BY <1>2, ColdestExists DEF Min, IsTable
<1> QED
  BY <1>1, <1>2, Zenon

\* The domains and values of the tables that Put, Drop and Halved return.
LEMMA TableSteps ==
  ASSUME NEW t, IsTable(t), Cardinality(DOMAIN t) <= K, NEW k \in Key, NEW c \in 1 .. MaxCount
  PROVE  /\ IsTable(Put(t, k, c)) /\ IsTable(Drop(t, k)) /\ IsTable(Halved(t))
         /\ k \in DOMAIN t => Cardinality(DOMAIN Put(t, k, c)) = Cardinality(DOMAIN t)
         /\ Cardinality(DOMAIN t) < K => Cardinality(DOMAIN Put(t, k, c)) <= K
         /\ Cardinality(DOMAIN Drop(t, k)) <= K
         /\ Cardinality(DOMAIN Halved(t)) <= K
         /\ k \in DOMAIN t => Cardinality(DOMAIN Drop(t, k)) = Cardinality(DOMAIN t) - 1
<1>1. IsFiniteSet(DOMAIN t) /\ Cardinality(DOMAIN t) \in Nat
  BY TableFinite, Zenon
<1>2. IsTable(Put(t, k, c)) /\ DOMAIN Put(t, k, c) = DOMAIN t \cup {k}
  BY Zenon DEF IsTable, Put
<1>3. IsTable(Drop(t, k)) /\ DOMAIN Drop(t, k) = DOMAIN t \ {k}
  BY Zenon DEF IsTable, Drop
<1>4. IsTable(Halved(t)) /\ DOMAIN Halved(t) \in SUBSET DOMAIN t
  BY DEF IsTable, Halved
<1>5. Cardinality(DOMAIN Halved(t)) <= Cardinality(DOMAIN t) /\ Cardinality(DOMAIN Halved(t)) \in Nat
  BY <1>1, <1>4, FS_Subset, TableFinite, Zenon
<1>6. Cardinality(DOMAIN t \cup {k}) = IF k \in DOMAIN t THEN Cardinality(DOMAIN t) ELSE Cardinality(DOMAIN t) + 1
  BY <1>1, FS_AddElement, Zenon
<1>7. Cardinality(DOMAIN t \ {k}) = IF k \in DOMAIN t THEN Cardinality(DOMAIN t) - 1 ELSE Cardinality(DOMAIN t)
  BY <1>1, FS_RemoveElement, Zenon
<1> QED
  BY <1>1, <1>2, <1>3, <1>4, <1>5, <1>6, <1>7

(***************************************************************************)
(* The sketch.                                                             *)
(***************************************************************************)
\* What one bucket becomes: it is k's, with the count it reports, or stays
\* another fingerprint's, with no more than it had.
LEMMA TouchEffect ==
  ASSUME NEW b \in Bucket, NEW k \in Key, NEW n \in 1 .. MaxCount, NEW o \in Touch(b, k, n)
  PROVE  /\ o.bucket \in Bucket /\ o.count \in 0 .. MaxCount
         /\ \/ /\ o.bucket.fingerprint = fingerprint[k] /\ o.bucket.count = o.count
               /\ o.count <= n \/ (b.fingerprint = fingerprint[k] /\ o.count <= b.count + n)
            \/ /\ o.bucket.fingerprint = b.fingerprint /\ o.bucket.count <= b.count
               /\ b.fingerprint # fingerprint[k] /\ o.count = 0
<1>1. b.count \in 0 .. MaxCount /\ b.fingerprint \in Nat /\ fingerprint[k] \in Nat
  BY Zenon DEF Bucket
<1>2. CASE b.count = 0
  BY <1>1, <1>2 DEF Touch, Owned, Bucket
<1>3. CASE b.count # 0 /\ b.fingerprint = fingerprint[k]
  <2>1. (b.count + n) % (MaxCount + 1) \in 0 .. MaxCount /\ (b.count + n) % (MaxCount + 1) <= b.count + n
    BY <1>1
  <2> QED
    BY <1>1, <1>3, <2>1 DEF Touch, Owned, Bucket
<1>4. CASE b.count # 0 /\ b.fingerprint # fingerprint[k]
  <2>1. o \in Decay(b, k, n)
    BY <1>4, Zenon DEF Touch
  <2>2. CASE \E d \in 0 .. n : d < b.count /\ o = [bucket |-> [b EXCEPT !.count = @ - d], count |-> 0]
    BY <1>1, <1>4, <2>2 DEF Bucket
  <2>3. CASE \E left \in 1 .. (n - b.count + 1) : o = Owned(k, left)
    BY <1>1, <1>4, <2>3 DEF Owned, Bucket
  <2> QED
    BY <2>1, <2>2, <2>3, Zenon DEF Decay
<1> QED
  BY <1>2, <1>3, <1>4, Zenon

\* A larger bound holds too.
LEMMA AtMostWeaken ==
  ASSUME NEW b \in [Row -> [Slot -> Bucket]], NEW k \in Key, NEW c \in Int, NEW d \in Int,
         AtMost(b, k, c), c <= d
  PROVE  AtMost(b, k, d)
BY DEF AtMost, Bucket

\* What add does to the sketch, for the count c that it reports for k: k's own
\* counters are bounded by c, c by what they were before, and the counters of
\* any other fingerprint have not grown.
LEMMA AddEffect ==
  ASSUME TypeOK, NEW k \in Key, NEW n \in 1 .. MaxCount, add(k, n),
         \A r \in Row, s \in Slot : buckets[r][s].count <= total
  PROVE  \E c \in 0 .. MaxCount :
           /\ top' = Admit(k, c) /\ total' = total + n
           /\ buckets' \in [Row -> [Slot -> Bucket]]
           /\ \A r \in Row, s \in Slot : buckets'[r][s].count <= total'
           /\ c <= total'
           /\ AtMost(buckets', k, c)
           /\ \A a \in Nat : AtMost(buckets, k, a) => c <= a + n
           /\ \A j \in Key \ {k}, a \in Nat :
                OwnFingerprint(j) /\ AtMost(buckets, j, a) => AtMost(buckets', j, a)
<1>1. PICK o \in Touched(k, n) : \E c \in {o[r].count : r \in Row} :
        /\ \A r \in Row : o[r].count <= c
        /\ buckets' = [r \in Row |-> [buckets[r] EXCEPT ![hash[r][k]] = o[r].bucket]]
        /\ top' = Admit(k, c)
        /\ total' = total + n
  BY Zenon DEF add
<1>2. PICK c \in {o[r].count : r \in Row} :
        /\ \A r \in Row : o[r].count <= c
        /\ buckets' = [r \in Row |-> [buckets[r] EXCEPT ![hash[r][k]] = o[r].bucket]]
        /\ top' = Admit(k, c)
        /\ total' = total + n
  BY <1>1, Zenon
<1>3. PICK q \in Row : c = o[q].count
  BY <1>2, Zenon
<1>4. \A r \in Row : At(r, k) \in Bucket /\ At(r, k).count <= total /\ hash[r][k] \in Slot
  <2> TAKE r \in Row
  <2>1. hash[r][k] \in Slot
    BY Zenon
  <2>2. buckets[r][hash[r][k]] \in Bucket
    BY <2>1 DEF TypeOK
  <2> QED
    BY <2>1, <2>2, Zenon DEF At
<1>5. \A r \in Row : o[r] \in Touch(At(r, k), k, n)
  BY Zenon DEF Touched
<1>6. \A r \in Row :
        /\ o[r].bucket \in Bucket /\ o[r].count \in 0 .. MaxCount
        /\ \/ /\ o[r].bucket.fingerprint = fingerprint[k] /\ o[r].bucket.count = o[r].count
              /\ o[r].count <= n \/ (At(r, k).fingerprint = fingerprint[k] /\ o[r].count <= At(r, k).count + n)
           \/ /\ o[r].bucket.fingerprint = At(r, k).fingerprint /\ o[r].bucket.count <= At(r, k).count
              /\ At(r, k).fingerprint # fingerprint[k] /\ o[r].count = 0
  <2> TAKE r \in Row
  <2> DEFINE b == At(r, k)
             x == o[r]
  <2>1. b \in Bucket /\ x \in Touch(b, k, n)
    BY <1>4, <1>5, Zenon
  <2> HIDE DEF b, x
  <2>2. /\ x.bucket \in Bucket /\ x.count \in 0 .. MaxCount
        /\ \/ /\ x.bucket.fingerprint = fingerprint[k] /\ x.bucket.count = x.count
              /\ x.count <= n \/ (b.fingerprint = fingerprint[k] /\ x.count <= b.count + n)
           \/ /\ x.bucket.fingerprint = b.fingerprint /\ x.bucket.count <= b.count
              /\ b.fingerprint # fingerprint[k] /\ x.count = 0
    BY <2>1, TouchEffect
  <2> QED
    BY <2>2, Zenon DEF b, x
<1>7. \A r \in Row, s \in Slot :
        buckets'[r][s] = IF s = hash[r][k] THEN o[r].bucket ELSE buckets[r][s]
  BY <1>2, Zenon DEF TypeOK
<1>8. c \in 0 .. MaxCount /\ total \in Nat /\ total' = total + n
  BY <1>2, <1>3, <1>6, Zenon DEF TypeOK
<1>9. buckets' \in [Row -> [Slot -> Bucket]]
  BY <1>2, <1>4, <1>6, Zenon DEF TypeOK
<1>10. \A r \in Row : o[r].count <= total' /\ o[r].bucket.count <= total'
  <2> TAKE r \in Row
  <2>1. o[r].bucket.count \in 0 .. MaxCount /\ At(r, k).count \in 0 .. MaxCount
    BY <1>4, <1>6, Zenon DEF Bucket
  <2> QED
    BY <1>4, <1>6, <1>8, <2>1
<1>11. \A r \in Row, s \in Slot : buckets'[r][s].count <= total'
  <2> TAKE r \in Row, s \in Slot
  <2>1. buckets[r][s].count \in 0 .. MaxCount /\ buckets[r][s].count <= total
    BY DEF TypeOK, Bucket
  <2> QED
    BY <1>7, <1>8, <1>10, <2>1
<1>12. AtMost(buckets', k, c)
  <2> SUFFICES ASSUME NEW r \in Row, o[r].bucket.fingerprint = fingerprint[k]
               PROVE  o[r].bucket.count <= c
    BY <1>4, <1>7 DEF AtMost
  <2>1. o[r].bucket.count = o[r].count
    BY <1>6, Zenon
  <2> QED
    BY <1>2, <2>1, Zenon
<1>13. ASSUME NEW a \in Nat, AtMost(buckets, k, a) PROVE c <= a + n
  <2>1. At(q, k).fingerprint = fingerprint[k] => At(q, k).count <= a
    BY <1>13, Zenon DEF AtMost, At
  <2>2. At(q, k).count \in 0 .. MaxCount
    BY <1>4, Zenon DEF Bucket
  <2> QED
    BY <1>3, <1>6, <1>8, <2>1, <2>2
<1>14. ASSUME NEW j \in Key \ {k}, NEW a \in Nat, OwnFingerprint(j), AtMost(buckets, j, a)
       PROVE  AtMost(buckets', j, a)
  <2>1. fingerprint[j] # fingerprint[k]
    BY <1>14, Zenon DEF OwnFingerprint
  <2> SUFFICES ASSUME NEW r \in Row, buckets'[r][hash[r][j]].fingerprint = fingerprint[j]
               PROVE  buckets'[r][hash[r][j]].count <= a
    BY Zenon DEF AtMost
  <2>2. buckets[r][hash[r][j]].fingerprint = fingerprint[j] => buckets[r][hash[r][j]].count <= a
    BY <1>14, Zenon DEF AtMost
  <2>3. hash[r][j] \in Slot
    BY Zenon
  <2>4. CASE hash[r][j] # hash[r][k]
    BY <1>7, <2>2, <2>3, <2>4, Zenon
  <2>5. CASE hash[r][j] = hash[r][k]
    <3>1. buckets'[r][hash[r][j]] = o[r].bucket /\ At(r, k) = buckets[r][hash[r][j]]
      BY <1>7, <2>3, <2>5, Zenon DEF At
    <3>2. o[r].bucket.fingerprint = At(r, k).fingerprint /\ o[r].bucket.count <= At(r, k).count
      BY <1>6, <2>1, <3>1, Zenon
    <3>3. o[r].bucket.count \in Nat /\ At(r, k).count \in Nat
      BY <1>4, <1>6 DEF Bucket
    <3> QED
      BY <2>2, <3>1, <3>2, <3>3
  <2> QED
    BY <2>4, <2>5, Zenon
<1>15. c <= total'
  BY <1>3, <1>10, Zenon
<1> QED
  BY <1>2, <1>8, <1>9, <1>11, <1>12, <1>13, <1>14, <1>15, Zenon

\* What the table does with the count c that the sketch reports for k: it is
\* left alone because c is too small, or it holds k with c, nobody else's count
\* is changed, and only its minimum can have left, for a larger c.
LEMMA AdmitEffect ==
  ASSUME TypeOK, NEW k \in Key, NEW c \in 0 .. MaxCount, top' = Admit(k, c)
  PROVE  /\ IsTable(top') /\ Cardinality(DOMAIN top') <= K
         /\ \/ /\ top' = top
               /\ c < minCount \/ (Cardinality(DOMAIN top) = K /\ c <= Min(top))
            \/ /\ k \in DOMAIN top' /\ top'[k] = c
               /\ \A j \in DOMAIN top' \ {k} : j \in DOMAIN top /\ top'[j] = top[j]
               /\ \A j \in DOMAIN top \ DOMAIN top' :
                    Cardinality(DOMAIN top') = K /\ top[j] = Min(top) /\ Min(top) <= c
               /\ Cardinality(DOMAIN top) = K =>
                    Cardinality(DOMAIN top') = K /\ Min(top) <= c
<1>1. IsTable(top) /\ Cardinality(DOMAIN top) <= K /\ Cardinality(DOMAIN top) \in Nat
  BY TableFinite, Zenon DEF TypeOK
<1>2. Min(top) \in 0 .. MaxCount /\ (DOMAIN top # {} => Coldest(top) \in DOMAIN top /\ top[Coldest(top)] = Min(top))
  BY <1>1, MinBound, Zenon
<1>3. CASE c < minCount \/ (Cardinality(DOMAIN top) = K /\ c < Min(top))
  BY <1>1, <1>2, <1>3 DEF Admit
<1>4. CASE ~ (c < minCount \/ (Cardinality(DOMAIN top) = K /\ c < Min(top)))
  <2>1. c \in 1 .. MaxCount /\ top' = Upserted(top, k, c)
    BY <1>4 DEF Admit
  <2>2. CASE k \in DOMAIN top \/ Cardinality(DOMAIN top) < K
    <3>1. top' = Put(top, k, c)
      BY <2>1, <2>2, Zenon DEF Upserted
    <3>2. /\ IsTable(top') /\ Cardinality(DOMAIN top') <= K
          /\ k \in DOMAIN top => Cardinality(DOMAIN top') = Cardinality(DOMAIN top)
      BY <1>1, <2>1, <2>2, <3>1, TableSteps
    <3>3. /\ DOMAIN top' = DOMAIN top \cup {k} /\ top'[k] = c
          /\ \A j \in DOMAIN top \ {k} : top'[j] = top[j]
      BY <3>1, Zenon DEF Put
    <3> QED
      BY <1>1, <1>2, <1>4, <2>2, <3>2, <3>3
  <2>3. CASE k \notin DOMAIN top /\ Cardinality(DOMAIN top) = K /\ c > Min(top)
    <3> DEFINE x == Coldest(top)
               t == Drop(top, x)
    <3>1. top' = Put(t, k, c)
      BY <1>1, <2>1, <2>3 DEF Upserted
    <3>2. DOMAIN top # {}
      BY <2>3, FS_EmptySet
    <3>3. x \in DOMAIN top /\ x \in Key /\ top[x] = Min(top)
      BY <1>1, <1>2, <3>2, Zenon DEF IsTable
    <3>4. IsTable(t) /\ Cardinality(DOMAIN t) = K - 1
      <4> HIDE DEF x
      <4> QED
        BY <1>1, <2>1, <2>3, <3>3, TableSteps, Zenon
    <3>5. DOMAIN t = DOMAIN top \ {x} /\ \A j \in DOMAIN t : t[j] = top[j]
      BY Zenon DEF Drop
    <3> HIDE DEF t, x
    <3>6. DOMAIN top' = DOMAIN t \cup {k} /\ top'[k] = c /\ \A j \in DOMAIN t \ {k} : top'[j] = t[j]
      BY <3>1, Zenon DEF Put
    <3>7. IsTable(top') /\ Cardinality(DOMAIN top') <= K
      BY <2>1, <3>1, <3>4, TableSteps
    <3>8. Cardinality(DOMAIN top') = K
      <4>1. IsFiniteSet(DOMAIN t) /\ k \notin DOMAIN t
        BY <2>3, <3>4, <3>5, TableFinite, Zenon
      <4> QED
        BY <3>4, <3>6, <4>1, FS_AddElement
    <3>9. \A j \in DOMAIN top' \ {k} : j \in DOMAIN top /\ top'[j] = top[j]
      BY <3>5, <3>6, Zenon
    <3>10. \A j \in DOMAIN top \ DOMAIN top' : top[j] = Min(top)
      BY <3>3, <3>5, <3>6, Zenon
    <3>11. k \in DOMAIN top' /\ top'[k] = c /\ Min(top) <= c
      BY <1>2, <2>3, <3>6
    <3> QED
      BY <3>7, <3>8, <3>9, <3>10, <3>11, Zenon
  <2>4. CASE k \notin DOMAIN top /\ Cardinality(DOMAIN top) = K /\ ~ (c > Min(top))
    BY <1>1, <1>2, <2>1, <2>4 DEF Upserted
  <2> QED
    BY <1>1, <2>2, <2>3, <2>4
<1> QED
  BY <1>3, <1>4, Zenon

(***************************************************************************)
(* The inductive invariant.  Overestimates are ruled out in the sketch     *)
(* first, and a key that is evicted from the table must be one that the    *)
(* sketch counts no higher than the table did.                             *)
(***************************************************************************)
BucketsBelowTotal == \A r \in Row, s \in Slot : buckets[r][s].count <= total

SketchBound == \A k \in Key : OwnFingerprint(k) => AtMost(buckets, k, accesses[k])

TableCurrent ==
  \A k \in DOMAIN top : OwnFingerprint(k) =>
    AtMost(buckets, k, top[k]) \/ AtMost(buckets, k, minCount - 1)

HKInv ==
  /\ TypeOK
  /\ BucketsBelowTotal /\ HeatBelowTotal
  /\ SketchBound /\ TableCurrent
  /\ NoOverestimate
  /\ HottestTracked

\* Counting a key keeps the invariant, whether for an event or from a
\* checkpoint.
LEMMA AddKeeps ==
  ASSUME HKInv, NEW k \in Key, NEW n \in 1 .. MaxCount, add(k, n),
         accesses' = [accesses EXCEPT ![k] = @ + n], cut' = cut, IsTable(todo')
  PROVE  HKInv'
<1>1. TypeOK /\ BucketsBelowTotal /\ HeatBelowTotal
  BY Zenon DEF HKInv
<1>2. PICK c \in 0 .. MaxCount :
        /\ top' = Admit(k, c) /\ total' = total + n
        /\ buckets' \in [Row -> [Slot -> Bucket]]
        /\ \A r \in Row, s \in Slot : buckets'[r][s].count <= total'
        /\ c <= total'
        /\ AtMost(buckets', k, c)
        /\ \A a \in Nat : AtMost(buckets, k, a) => c <= a + n
        /\ \A j \in Key \ {k}, a \in Nat :
             OwnFingerprint(j) /\ AtMost(buckets, j, a) => AtMost(buckets', j, a)
  BY <1>1, AddEffect, Zenon DEF BucketsBelowTotal
<1> DEFINE Kept == /\ top' = top
                   /\ c < minCount \/ (Cardinality(DOMAIN top) = K /\ c <= Min(top))
           Counted == /\ k \in DOMAIN top' /\ top'[k] = c
                      /\ \A j \in DOMAIN top' \ {k} : j \in DOMAIN top /\ top'[j] = top[j]
                      /\ \A j \in DOMAIN top \ DOMAIN top' :
                           Cardinality(DOMAIN top') = K /\ top[j] = Min(top) /\ Min(top) <= c
                      /\ Cardinality(DOMAIN top) = K => Cardinality(DOMAIN top') = K /\ Min(top) <= c
<1>3. IsTable(top') /\ Cardinality(DOMAIN top') <= K /\ (Kept \/ Counted)
  BY <1>1, <1>2, AdmitEffect, Zenon
<1> HIDE DEF Kept, Counted
<1>4. /\ DOMAIN top \subseteq Key /\ DOMAIN top' \subseteq Key
      /\ \A j \in DOMAIN top : top[j] \in Nat /\ Min(top) <= top[j]
      /\ \A j \in DOMAIN top' : top'[j] \in Nat
      /\ Min(top) \in Nat /\ total \in Nat /\ accesses \in [Key -> Nat] /\ accesses' \in [Key -> Nat]
  <2>1. Min(top) \in Nat /\ \A j \in DOMAIN top : Min(top) <= top[j]
    BY <1>1, MinBound DEF TypeOK
  <2> QED
    BY <1>1, <1>3, <2>1 DEF TypeOK, IsTable
<1>5. TypeOK'
  BY <1>1, <1>2, <1>3, <1>4 DEF TypeOK
<1>6. BucketsBelowTotal'
  BY <1>2, Zenon DEF BucketsBelowTotal
<1>7. HeatBelowTotal'
  <2>1. ASSUME NEW j \in DOMAIN top' PROVE top'[j] <= total'
    <3>1. top'[j] = c \/ (j \in DOMAIN top /\ top'[j] = top[j])
      BY <1>3, Zenon DEF Kept, Counted
    <3>2. j \in DOMAIN top => top[j] <= total
      BY <1>1, Zenon DEF HeatBelowTotal
    <3> QED
      BY <1>2, <1>4, <3>1, <3>2
  <2> QED
    BY <2>1, Zenon DEF HeatBelowTotal
<1>8. buckets' \in [Row -> [Slot -> Bucket]] /\ AtMost(buckets', k, c)
  BY <1>2, Zenon
<1>9. SketchBound' /\ TableCurrent' /\ HottestTracked' /\ NoOverestimate'
  <2>1. SketchBound /\ TableCurrent
    BY Zenon DEF HKInv
  <2>2. \A j \in Key \ {k}, a \in Nat :
          OwnFingerprint(j) /\ AtMost(buckets, j, a) => AtMost(buckets', j, a)
    BY <1>2, Zenon
  <2>3. (OwnFingerprint(k) => c <= accesses[k] + n) /\ accesses'[k] = accesses[k] + n
    BY <1>2, <1>4, <2>1, Zenon DEF SketchBound
  <2>4. \A j \in Key \ {k} : accesses'[j] = accesses[j]
    BY <1>4, Zenon
  <2>5. SketchBound'
    <3>1. OwnFingerprint(k) => AtMost(buckets', k, accesses'[k])
      BY <1>2, <1>4, <2>3, AtMostWeaken
    <3>2. \A j \in Key \ {k} : OwnFingerprint(j) => AtMost(buckets', j, accesses'[j])
      BY <1>4, <2>1, <2>2, <2>4, Zenon DEF SketchBound
    <3> QED
      BY <3>1, <3>2, Zenon DEF SketchBound
  <2>6. NoOverestimate'
    <3>1. ASSUME NEW j \in DOMAIN top', OwnFingerprint(j) PROVE top'[j] <= accesses'[j]
      <4>1. (j = k /\ top'[j] = c) \/ (j \in DOMAIN top /\ top'[j] = top[j])
        BY <1>3, Zenon DEF Kept, Counted
      <4>2. j \in DOMAIN top => top[j] <= accesses[j]
        BY <3>1, Zenon DEF HKInv, NoOverestimate
      <4>3. accesses[j] \in Nat /\ accesses'[j] \in Nat /\ accesses[j] <= accesses'[j]
        <5>1. j \in Key /\ accesses[j] \in Nat /\ accesses[k] \in Nat
          BY <1>4, Zenon
        <5> QED
          BY <2>3, <2>4, <5>1
      <4> QED
        BY <1>4, <2>3, <3>1, <4>1, <4>2, <4>3
    <3> QED
      BY <3>1, Zenon DEF NoOverestimate
  <2>7. TableCurrent'
    <3> SUFFICES ASSUME NEW j \in DOMAIN top', OwnFingerprint(j)
                 PROVE  AtMost(buckets', j, top'[j]) \/ AtMost(buckets', j, minCount - 1)
      BY Zenon DEF TableCurrent
    <3>1. CASE j # k
      <4>1. j \in DOMAIN top /\ top'[j] = top[j]
        BY <1>3, <3>1, Zenon DEF Kept, Counted
      <4>2. AtMost(buckets, j, top[j]) \/ AtMost(buckets, j, minCount - 1)
        BY <2>1, <4>1, Zenon DEF TableCurrent
      <4>3. j \in Key \ {k} /\ top[j] \in Nat /\ minCount - 1 \in Nat
        BY <1>4, <3>1, <4>1
      <4> QED
        BY <2>2, <4>1, <4>2, <4>3, Zenon
    <3>2. CASE j = k /\ Counted
      BY <1>2, <3>2, Zenon DEF Counted
    <3>3. CASE j = k /\ Kept
      <4>1. c <= top'[j] \/ c <= minCount - 1
        BY <1>4, <3>3 DEF Kept
      <4> QED
        BY <1>4, <1>8, <3>3, <4>1, AtMostWeaken
    <3> QED
      BY <1>3, <3>1, <3>2, <3>3, Zenon
  <2>8. HottestTracked'
    <3> SUFFICES ASSUME ~cut, NEW j \in Key, j \notin DOMAIN top', OwnFingerprint(j),
                        ~AtMost(buckets', j, minCount - 1)
                 PROVE  /\ Cardinality(DOMAIN top') = K
                        /\ \A t \in DOMAIN top' : AtMost(buckets', j, top'[t])
      BY Zenon DEF HottestTracked
    <3>1. CASE j = k
      <4>1. Kept /\ c >= minCount
        <5>1. c <= minCount - 1 => AtMost(buckets', j, minCount - 1)
          BY <1>2, <3>1, AtMostWeaken
        <5> QED
          BY <1>3, <3>1, <5>1 DEF Counted
      <4>2. top' = top /\ Cardinality(DOMAIN top) = K /\ c <= Min(top)
        BY <4>1 DEF Kept
      <4>3. \A t \in DOMAIN top : c <= top[t]
        BY <1>4, <4>2
      <4> QED
        BY <1>4, <1>8, <3>1, <4>2, <4>3, AtMostWeaken
    <3>2. CASE j # k
      <4>1. ~AtMost(buckets, j, minCount - 1)
        BY <2>2, <3>2
      <4>2. j \notin DOMAIN top => Cardinality(DOMAIN top) = K /\ \A t \in DOMAIN top : AtMost(buckets, j, top[t])
        BY <4>1, Zenon DEF HKInv, HottestTracked
      <4>3. j \in DOMAIN top => AtMost(buckets, j, top[j])
        BY <2>1, <4>1, Zenon DEF TableCurrent
      <4>4. CASE Kept
        BY <1>4, <2>2, <3>2, <4>2, <4>4, Zenon DEF Kept
      <4>5. CASE Counted
        <5>1. Cardinality(DOMAIN top') = K /\ Min(top) <= c
          BY <4>2, <4>5, Zenon DEF Counted
        <5>2. AtMost(buckets, j, Min(top))
          <6>1. CASE j \in DOMAIN top
            BY <4>3, <4>5, <6>1, Zenon DEF Counted
          <6>2. CASE j \notin DOMAIN top
            <7>1. DOMAIN top # {}
              <8>1. Cardinality(DOMAIN top) = K /\ K # 0
                BY <4>2, <6>2
              <8> QED
                BY <8>1, FS_EmptySet, Zenon
            <7>2. Coldest(top) \in DOMAIN top /\ top[Coldest(top)] = Min(top)
              BY <1>1, <7>1, MinBound, Zenon DEF TypeOK
            <7> QED
              BY <4>2, <6>2, <7>2, Zenon
          <6> QED
            BY <6>1, <6>2, Zenon
        <5>3. AtMost(buckets', j, Min(top))
          <6>1. j \in Key \ {k} /\ Min(top) \in Nat /\ OwnFingerprint(j)
            BY <1>4, <3>2, Zenon
          <6> QED
            BY <2>2, <5>2, <6>1, Zenon
        <5>4. \A t \in DOMAIN top' : Min(top) <= top'[t]
          BY <1>4, <4>5, <5>1, Zenon DEF Counted
        <5> QED
          BY <1>4, <1>8, <5>1, <5>3, <5>4, AtMostWeaken
      <4> QED
        BY <1>3, <4>4, <4>5, Zenon
    <3> QED
      BY <3>1, <3>2, Zenon
  <2> QED
    BY <2>5, <2>6, <2>7, <2>8, Zenon
<1> QED
  BY <1>5, <1>6, <1>7, <1>9, Zenon DEF HKInv

EmptyModel ==
  /\ top = Empty /\ buckets = Clear /\ total = 0
  /\ accesses = [k \in Key |-> 0] /\ cut = FALSE
  /\ IsTable(todo)

\* An empty model satisfies the invariant, whatever waits to be restored.
LEMMA EmptyKeeps == EmptyModel => HKInv
<1> SUFFICES ASSUME EmptyModel PROVE HKInv
  BY Zenon
<1> USE DEF EmptyModel
<1>1. DOMAIN top = {} /\ IsTable(top) /\ Cardinality(DOMAIN top) = 0
  BY FS_EmptySet, Zenon DEF Empty, IsTable
<1>2. \A r \in Row, s \in Slot : buckets[r][s] = [fingerprint |-> 0, count |-> 0]
  BY Zenon DEF Clear
<1>3. TypeOK
  <2>1. buckets \in [Row -> [Slot -> Bucket]]
    <3>1. [fingerprint |-> 0, count |-> 0] \in Bucket
      BY DEF Bucket
    <3> QED
      BY <3>1, Zenon DEF Clear
  <2>2. total \in Nat /\ accesses \in [Key -> Nat] /\ IsTable(todo) /\ 0 <= K
    OBVIOUS
  <2>3. cut \in BOOLEAN
    BY Zenon
  <2> QED
    BY <1>1, <2>1, <2>2, <2>3, Zenon DEF TypeOK
<1>4. \A k \in Key, a \in Nat : AtMost(buckets, k, a)
  BY <1>2 DEF AtMost
<1>5. minCount - 1 \in Nat /\ \A k \in Key : accesses[k] \in Nat
  OBVIOUS
<1> QED
  BY <1>1, <1>2, <1>3, <1>4, <1>5
  DEF HKInv, BucketsBelowTotal, HeatBelowTotal, SketchBound, TableCurrent, NoOverestimate, HottestTracked

\* A removed key takes nothing else with it, and HottestTracked is given up.
LEMMA RemoveKeeps ==
  ASSUME HKInv, NEW k \in Key, RemoveKey(k)
  PROVE  HKInv'
<1>1. TypeOK /\ IsTable(top) /\ Cardinality(DOMAIN top) <= K /\ 1 \in 1 .. MaxCount
  BY DEF HKInv, TypeOK
<1>2. top' = Drop(top, k) /\ cut' = TRUE /\ UNCHANGED <<buckets, total, todo, accesses>>
  BY Zenon DEF RemoveKey, Remove
<1>3. IsTable(top') /\ Cardinality(DOMAIN top') <= K
  BY <1>1, <1>2, TableSteps, Zenon
<1>4. TypeOK'
  BY <1>1, <1>2, <1>3, Zenon DEF TypeOK
<1>5. DOMAIN top' \subseteq DOMAIN top /\ \A j \in DOMAIN top' : top'[j] = top[j]
  BY <1>2, Zenon DEF Drop
<1>6. BucketsBelowTotal' /\ HeatBelowTotal'
  BY <1>2, <1>5, Zenon DEF HKInv, BucketsBelowTotal, HeatBelowTotal
<1>7. SketchBound' /\ TableCurrent' /\ NoOverestimate'
  BY <1>2, <1>5, Zenon DEF HKInv, SketchBound, TableCurrent, NoOverestimate
<1>8. HottestTracked'
  BY <1>2, Zenon DEF HottestTracked
<1> QED
  BY <1>4, <1>6, <1>7, <1>8, Zenon DEF HKInv

\* Halving keeps the order of the counts, and what it drops counts zero.
LEMMA FadingKeeps ==
  ASSUME HKInv, Fading
  PROVE  HKInv'
<1>1. /\ TypeOK /\ IsTable(top) /\ Cardinality(DOMAIN top) <= K
      /\ total \in Nat /\ accesses \in [Key -> Nat] /\ DOMAIN top \subseteq Key
      /\ \A j \in DOMAIN top : top[j] \in 1 .. MaxCount
  BY Zenon DEF HKInv, TypeOK, IsTable
<1>2. /\ top' = Halved(top) /\ total' = total \div 2 /\ cut' = cut /\ todo' = todo
      /\ accesses' = [k \in Key |-> accesses[k] \div 2]
      /\ buckets' = [r \in Row |-> [s \in Slot |-> [buckets[r][s] EXCEPT !.count = @ \div 2]]]
  BY Zenon DEF Fading, FadeBuckets, ScaleDown
<1>3. \A r \in Row, s \in Slot :
        /\ buckets'[r][s] \in Bucket /\ buckets[r][s].count \in Nat
        /\ buckets'[r][s].fingerprint = buckets[r][s].fingerprint
        /\ buckets'[r][s].count = buckets[r][s].count \div 2
  <2> TAKE r \in Row, s \in Slot
  <2>1. buckets[r][s] \in Bucket
    BY <1>1, Zenon DEF TypeOK
  <2>2. buckets'[r][s] = [buckets[r][s] EXCEPT !.count = @ \div 2]
    BY <1>2, Zenon
  <2> QED
    BY <2>1, <2>2 DEF Bucket
<1>4. \A a, b \in Nat : a <= b => a \div 2 <= b \div 2 /\ a \div 2 \in Nat
  OBVIOUS
<1>5. /\ DOMAIN top' = {j \in DOMAIN top : top[j] \div 2 > 0}
      /\ \A j \in DOMAIN top' : top'[j] = top[j] \div 2 /\ top'[j] \in 1 .. MaxCount
  BY <1>1, <1>2 DEF Halved
<1>6. IsTable(top') /\ Cardinality(DOMAIN top') <= K
  <2>1. IsTable(top')
    BY <1>1, <1>2, <1>5, Zenon DEF IsTable, Halved
  <2>2. DOMAIN top' \in SUBSET DOMAIN top
    BY <1>5, Zenon
  <2>3. Cardinality(DOMAIN top') <= Cardinality(DOMAIN top)
    BY <1>1, <2>2, FS_Subset, TableFinite, Zenon
  <2>4. Cardinality(DOMAIN top') \in Nat /\ Cardinality(DOMAIN top) \in Nat
    BY <1>1, <2>1, TableFinite, Zenon
  <2> QED
    BY <1>1, <2>1, <2>3, <2>4
<1>7. TypeOK'
  <2>1. buckets' \in [Row -> [Slot -> Bucket]]
    BY <1>2, <1>3, Zenon
  <2>2. total' \in Nat /\ accesses' \in [Key -> Nat]
    BY <1>1, <1>2
  <2> QED
    BY <1>1, <1>2, <1>6, <2>1, <2>2, Zenon DEF TypeOK
<1>8. BucketsBelowTotal' /\ HeatBelowTotal'
  <2>1. ASSUME NEW r \in Row, NEW s \in Slot PROVE buckets'[r][s].count <= total'
    <3>1. buckets[r][s].count \in Nat /\ buckets[r][s].count <= total
      BY <1>3, Zenon DEF HKInv, BucketsBelowTotal
    <3> QED
      BY <1>1, <1>2, <1>3, <1>4, <3>1
  <2>2. ASSUME NEW j \in DOMAIN top' PROVE top'[j] <= total'
    BY <1>1, <1>2, <1>4, <1>5 DEF HKInv, HeatBelowTotal
  <2> QED
    BY <2>1, <2>2, Zenon DEF BucketsBelowTotal, HeatBelowTotal
<1>9. ASSUME NEW j \in Key, NEW a \in Nat, AtMost(buckets, j, a)
      PROVE  AtMost(buckets', j, a \div 2)
  <2> SUFFICES ASSUME NEW r \in Row, buckets'[r][hash[r][j]].fingerprint = fingerprint[j]
               PROVE  buckets'[r][hash[r][j]].count <= a \div 2
    BY Zenon DEF AtMost
  <2>1. hash[r][j] \in Slot
    BY Zenon
  <2>2. buckets[r][hash[r][j]].count <= a
    BY <1>3, <1>9, <2>1, Zenon DEF AtMost
  <2> QED
    BY <1>3, <1>4, <2>1, <2>2
<1>10. ASSUME NEW j \in Key, NEW a \in Nat, AtMost(buckets, j, a), a \div 2 <= minCount - 1
       PROVE  AtMost(buckets', j, minCount - 1)
  <2>1. a \div 2 \in Int /\ buckets' \in [Row -> [Slot -> Bucket]]
    BY <1>7 DEF TypeOK
  <2>2. AtMost(buckets', j, a \div 2)
    BY <1>9, <1>10, Zenon
  <2> QED
    BY <1>10, <2>1, <2>2, AtMostWeaken
<1>11. minCount - 1 \in Nat /\ (minCount - 1) \div 2 <= minCount - 1
  OBVIOUS
<1>12. SketchBound' /\ TableCurrent' /\ HottestTracked' /\ NoOverestimate'
  <2>1. SketchBound /\ TableCurrent
    BY Zenon DEF HKInv
  <2>2. \A k \in Key : accesses[k] \in Nat /\ accesses'[k] = accesses[k] \div 2
    BY <1>1, <1>2, Zenon
  <2>3. SketchBound'
    BY <1>9, <2>1, <2>2, Zenon DEF SketchBound
  <2>4. NoOverestimate'
    <3>1. \A j \in DOMAIN top : j \in Key /\ top[j] \in Nat /\ (OwnFingerprint(j) => top[j] <= accesses[j])
      BY <1>1 DEF HKInv, NoOverestimate
    <3>2. ASSUME NEW j \in DOMAIN top', OwnFingerprint(j) PROVE top'[j] <= accesses'[j]
      BY <1>4, <1>5, <2>2, <3>1, <3>2, Zenon
    <3> QED
      BY <3>2, Zenon DEF NoOverestimate
  <2>5. ASSUME NEW j \in DOMAIN top, OwnFingerprint(j), ~AtMost(buckets', j, minCount - 1)
        PROVE  j \in DOMAIN top' /\ AtMost(buckets', j, top'[j])
    <3>1. j \in Key /\ top[j] \in Nat
      BY <1>1
    <3>2. AtMost(buckets, j, top[j])
      BY <1>10, <1>11, <2>1, <2>5, <3>1, Zenon DEF TableCurrent
    <3>3. top[j] \div 2 > 0
      <4>1. ~ (top[j] \div 2 <= minCount - 1)
        BY <1>10, <2>5, <3>1, <3>2, Zenon
      <4> QED
        BY <3>1, <4>1
    <3> QED
      BY <1>5, <1>9, <3>1, <3>2, <3>3, Zenon
  <2>6. TableCurrent'
    BY <1>5, <2>5, Zenon DEF TableCurrent
  <2>7. HottestTracked'
    <3> SUFFICES ASSUME ~cut, NEW j \in Key, j \notin DOMAIN top', OwnFingerprint(j),
                        ~AtMost(buckets', j, minCount - 1)
                 PROVE  /\ Cardinality(DOMAIN top') = K
                        /\ \A t \in DOMAIN top' : AtMost(buckets', j, top'[t])
      BY <1>2, Zenon DEF HottestTracked
    <3>1. j \notin DOMAIN top /\ ~AtMost(buckets, j, minCount - 1)
      BY <1>10, <1>11, <2>5, Zenon
    <3>2. Cardinality(DOMAIN top) = K /\ \A t \in DOMAIN top : AtMost(buckets, j, top[t])
      BY <3>1, Zenon DEF HKInv, HottestTracked
    <3>3. ASSUME NEW t \in DOMAIN top PROVE t \in DOMAIN top' /\ AtMost(buckets', j, top'[t])
      <4>1. top[t] \in Nat /\ AtMost(buckets, j, top[t])
        BY <1>1, <3>2
      <4>2. top[t] \div 2 > 0
        BY <1>10, <1>11, <4>1
      <4> QED
        BY <1>5, <1>9, <4>1, <4>2, Zenon
    <3>4. DOMAIN top' = DOMAIN top
      BY <1>5, <3>3, Zenon
    <3> QED
      BY <3>2, <3>3, <3>4, Zenon
  <2> QED
    BY <2>3, <2>4, <2>6, <2>7, Zenon
<1> QED
  BY <1>7, <1>8, <1>12, Zenon DEF HKInv

\* The invariant is inductive.
LEMMA HKStep ==
  ASSUME HKInv, [HKNext]_vars
  PROVE  HKInv'
<1>1. ASSUME NEW k \in Key, Add(k) PROVE HKInv'
  <2>1. IsTable(todo') /\ cut' = cut /\ 1 \in 1 .. MaxCount
    BY <1>1 DEF HKInv, TypeOK, Add
  <2> QED
    BY <1>1, <2>1, AddKeeps, Zenon DEF Add
<1>2. ASSUME RestoreNext PROVE HKInv'
  <2> DEFINE k == Hottest(todo)
             n == todo[k]
  <2>1. IsTable(todo) /\ DOMAIN todo # {}
    BY <1>2, Zenon DEF HKInv, TypeOK, IsTable, RestoreNext, Unlocked, Empty
  <2>2. k \in DOMAIN todo /\ k \in Key /\ n \in 1 .. MaxCount
    BY <2>1, HottestExists, Zenon DEF IsTable
  <2>3. add(k, n) /\ accesses' = [accesses EXCEPT ![k] = @ + n] /\ todo' = Drop(todo, k) /\ cut' = cut
    BY <1>2, Zenon DEF RestoreNext
  <2>4. IsTable(todo')
    BY <2>1, <2>3, Zenon DEF IsTable, Drop
  <2> HIDE DEF k, n
  <2> QED
    BY <2>2, <2>3, <2>4, AddKeeps, Zenon
<1>3. ASSUME reset, IsTable(todo') PROVE HKInv'
  <2>1. EmptyModel'
    BY <1>3, Zenon DEF reset, EmptyModel
  <2> QED
    BY <2>1, EmptyKeeps, PTL
<1>4. ASSUME Reset PROVE HKInv'
  <2>1. reset /\ IsTable(todo')
    BY <1>4, Zenon DEF Reset, HKInv, TypeOK
  <2> QED
    BY <1>3, <2>1, Zenon
<1>5. ASSUME NEW existing \in SUBSET DOMAIN top, Restore(existing) PROVE HKInv'
  <2>1. reset /\ IsTable(todo')
    BY <1>5, Zenon DEF Restore, HKInv, TypeOK, IsTable
  <2> QED
    BY <1>3, <2>1, Zenon
<1>6. CASE UNCHANGED vars
  <2> USE <1>6 DEF vars, HKInv
  <2>1. TypeOK'
    BY Zenon DEF TypeOK
  <2>2. BucketsBelowTotal' /\ HeatBelowTotal' /\ NoOverestimate'
    BY Zenon DEF BucketsBelowTotal, HeatBelowTotal, NoOverestimate
  <2>3. SketchBound' /\ TableCurrent'
    BY Zenon DEF SketchBound, TableCurrent
  <2>4. HottestTracked'
    BY Zenon DEF HottestTracked
  <2> QED
    BY <2>1, <2>2, <2>3, <2>4, Zenon
<1> QED
  BY <1>1, <1>2, <1>4, <1>5, <1>6, RemoveKeeps, FadingKeeps, Zenon DEF HKNext

\* The invariant holds throughout, for any sketch, table and fingerprints.
LEMMA HKInvariant == HKSpec => []HKInv
<1>1. HKInit => HKInv
  <2>1. HKInit => EmptyModel
    BY Zenon DEF HKInit, EmptyModel, IsTable, Empty
  <2> QED
    BY <2>1, EmptyKeeps, Zenon
<1>2. HKInv /\ [HKNext]_vars => HKInv'
  BY HKStep, Zenon
<1> QED
  BY <1>1, <1>2, PTL DEF HKSpec

(***************************************************************************)
(* The theorems.                                                           *)
(***************************************************************************)
\* Add, Remove, Fading, Reset and Restore keep the counters in their width and
\* the table within TopKCapacity and free of zeros.
THEOREM HeavyKeeperTyped == HKSpec => []TypeOK
<1>1. HKInv => TypeOK
  BY Zenon DEF HKInv
<1> QED
  BY <1>1, HKInvariant, PTL

\* List never reports more accesses of a key than Add and Restore counted.
THEOREM HeatNeverInvented == HKSpec => []NoOverestimate
<1>1. HKInv => NoOverestimate
  BY Zenon DEF HKInv
<1> QED
  BY <1>1, HKInvariant, PTL

\* List never reports a heat above Total(), shared fingerprints included.
THEOREM HeatWithinTotal == HKSpec => []HeatBelowTotal
<1>1. HKInv => HeatBelowTotal
  BY Zenon DEF HKInv
<1> QED
  BY <1>1, HKInvariant, PTL

\* Until Remove takes one out, the keys the sketch counts highest are those
\* that List returns.
THEOREM HottestKept == HKSpec => []HottestTracked
<1>1. HKInv => HottestTracked
  BY Zenon DEF HKInv
<1> QED
  BY <1>1, HKInvariant, PTL
=============================================================================
