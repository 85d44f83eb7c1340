----------------------------- MODULE PartsProofs ----------------------------
(***************************************************************************)
(* Theorems about the parts that share no state with the others: the       *)
(* options, for integers of any width, the path filters, for any set of    *)
(* names, any root and paths of any depth, and the checkpoint.             *)
(***************************************************************************)
EXTENDS CacheKey, Options, Checkpoint, SequenceTheorems, WellFoundedInduction, TLAPS

(***************************************************************************)
(* The options.                                                            *)
(***************************************************************************)
OptionsSpec == OptionsInit /\ [][OptionsNext]_opts

\* A division followed by the multiplication never exceeds the dividend.
LEMMA DivTimes ==
  ASSUME NEW m \in Nat, NEW g \in Nat \ {0}
  PROVE  m \div g \in Nat /\ (m \div g) * g <= m
<1>1. m \div g \in Int /\ m = g * (m \div g) + (m % g) /\ m % g \in 0 .. g - 1
  OBVIOUS
<1> DEFINE q == m \div g  r == m % g
<1> HIDE DEF q, r
<1>2. q \in Int /\ m = g * q + r /\ r \in Int /\ 0 <= r /\ r < g
  BY <1>1 DEF q, r
<1>3. q >= 0
  BY <1>2
<1>4. q * g <= m
  BY <1>2
<1> QED BY <1>2, <1>3, <1>4 DEF q

\* A number below the modulus is its own remainder.
LEMMA SmallMod ==
  ASSUME NEW a \in Nat, NEW b \in Nat, a < b
  PROVE  a % b = a
<1>1. b > 0 /\ a \div b \in Int /\ a = b * (a \div b) + (a % b) /\ a % b \in 0 .. b - 1
  OBVIOUS
<1> DEFINE q == a \div b  r == a % b
<1> HIDE DEF q, r
<1>2. q \in Int /\ a = b * q + r /\ r \in Int /\ 0 <= r /\ r < b /\ b > 0
  BY <1>1 DEF q, r
<1>3. q = 0
  <2>1. CASE q >= 1
    <3>1. b * q >= b
      BY <1>2, <2>1
    <3> QED BY <1>2, <3>1
  <2>2. CASE q <= -1
    <3>1. b * q <= -b
      BY <1>2, <2>2
    <3> QED BY <1>2, <3>1
  <2> QED BY <1>2, <2>1, <2>2
<1>4. r = a
  BY <1>2, <1>3
<1> QED BY <1>4, Zenon DEF r

\* The conversion to int64 keeps the numbers that int64 can hold.
LEMMA Int64Keeps ==
  ASSUME NEW v \in Nat, v <= MaxInt64
  PROVE  int64(v) = v
<1>1. MaxInt64 \in Nat
  BY OptionsAssumption, Zenon
<1> DEFINE a == v + MaxInt64 + 1  b == 2 * (MaxInt64 + 1)
<1>2. a \in Nat /\ b \in Nat /\ a < b
  BY <1>1
<1>3. a % b = a
  <2> HIDE DEF a, b
  <2> QED BY <1>2, SmallMod, Zenon
<1> QED BY <1>1, <1>3 DEF int64

\* What gibToBytes accepts is multiplied without overflow.
LEMMA GibExact ==
  ASSUME NEW v \in Nat, gibToBytes(v)[1]
  PROVE  gibToBytes(v)[2] = v * gibibyte
<1>1. gibibyte \in Nat /\ gibibyte > 0 /\ MaxInt64 \in Nat
  BY OptionsAssumption
<1> DEFINE q == MaxInt64 \div gibibyte
<1>2. q \in Nat /\ q * gibibyte <= MaxInt64 /\ v <= q
  <2>1. q \in Nat /\ q * gibibyte <= MaxInt64
    BY <1>1, DivTimes
  <2>2. v <= q
    BY Zenon DEF gibToBytes
  <2> QED BY <2>1, <2>2, Zenon
<1> HIDE DEF q
<1>3. v * gibibyte <= q * gibibyte /\ v <= v * gibibyte /\ v * gibibyte \in Nat
  <2>1. (q - v) * gibibyte >= 0
    BY <1>1, <1>2
  <2>2. v * (gibibyte - 1) >= 0
    BY <1>1, <1>2
  <2> QED BY <1>1, <1>2, <2>1, <2>2
<1>4. v <= MaxInt64 /\ v * gibibyte <= MaxInt64
  <2> DEFINE x == v * gibibyte  y == q * gibibyte
  <2>1. x \in Nat /\ y \in Int /\ x <= y /\ v <= x /\ y <= MaxInt64
    BY <1>1, <1>2, <1>3
  <2> HIDE DEF x, y
  <2>2. v <= MaxInt64 /\ x <= MaxInt64
    BY <1>1, <2>1
  <2> QED BY <2>2, Zenon DEF x
<1>5. int64(v) = v /\ int64(v * gibibyte) = v * gibibyte
  BY <1>3, <1>4, Int64Keeps
<1>6. gibToBytes(v)[2] = int64(int64(v) * gibibyte)
  BY Zenon DEF gibToBytes
<1> QED BY <1>5, <1>6, Zenon

\* The options keep their types, whatever flags are given.
OptionsOK ==
  /\ opts.maxCacheGiB \in Nat /\ opts.targetCacheGiB \in Nat /\ opts.minActionCacheGiB \in Nat
  /\ opts.topKCapacity \in Nat /\ opts.topKWidth \in Nat
  /\ opts.topKDepth \in Nat /\ opts.topKMinCount \in Nat

\* OptionsOK holds of every command line.
LEMMA OptionsStep == OptionsOK /\ [OptionsNext]_opts => OptionsOK'
<1> SUFFICES ASSUME OptionsOK, [OptionsNext]_opts PROVE OptionsOK'
  BY Zenon
<1>1. CASE opts' \in CommandLine
  BY <1>1, OptionsAssumption, Zenon DEF OptionsOK, CommandLine
<1>2. CASE UNCHANGED opts
  BY <1>2, Zenon DEF OptionsOK
<1> QED BY <1>1, <1>2, Zenon DEF OptionsNext

\* Multiplying by a positive number keeps strict and non-strict order.
LEMMA ScaleOrder ==
  ASSUME NEW a \in Nat, NEW b \in Nat, NEW g \in Nat, g > 0
  PROVE  /\ a * g <= b * g => a <= b
         /\ a * g < b * g => a < b
<1>1. ASSUME a > b PROVE a * g > b * g
  <2>1. (a - b) * g > 0
    BY <1>1
  <2> QED BY <2>1
<1>2. ASSUME a >= b PROVE a * g >= b * g
  <2>1. (a - b) * g >= 0
    BY <1>2
  <2> QED BY <2>1
<1> DEFINE x == a * g  y == b * g
<1>3. x \in Int /\ y \in Int /\ (a > b => x > y) /\ (a >= b => x >= y)
  BY <1>1, <1>2
<1> HIDE DEF x, y
<1>4. (x <= y => a <= b) /\ (x < y => a < b)
  BY <1>3
<1> QED BY <1>4, Zenon DEF x, y

\* For integers of any width, a daemon that starts works with the watermarks
\* and table sizes of its command line: gibToBytes, evictionConfig and Validate
\* let no overflowed or misordered value through.
THEOREM OptionsMean == OptionsSpec => []MeansWhatItSays
<1>1. OptionsInit => OptionsOK
  BY DEF OptionsInit, OptionsOK
<1>2. OptionsOK => MeansWhatItSays
  <2> SUFFICES ASSUME OptionsOK, Starts(opts) PROVE MeansWhatItSays
    BY Zenon DEF MeansWhatItSays
  <2> DEFINE p == evictionConfig(opts)
  <2>1. /\ opts.maxCacheGiB \in Nat /\ opts.targetCacheGiB \in Nat /\ opts.minActionCacheGiB \in Nat
        /\ opts.topKCapacity \in Nat /\ opts.topKWidth \in Nat
        /\ opts.topKDepth \in Nat /\ opts.topKMinCount \in Nat
    BY Zenon DEF OptionsOK
  <2>2. Convertible(opts) /\ Policies!Validate(p)
    BY Zenon DEF Starts
  <2>3. /\ gibToBytes(opts.maxCacheGiB)[2] = opts.maxCacheGiB * gibibyte
        /\ gibToBytes(opts.targetCacheGiB)[2] = opts.targetCacheGiB * gibibyte
        /\ gibToBytes(opts.minActionCacheGiB)[2] = opts.minActionCacheGiB * gibibyte
    BY <2>1, <2>2, GibExact DEF Convertible
  <2>4. /\ uint32(opts.topKCapacity) = opts.topKCapacity /\ uint32(opts.topKWidth) = opts.topKWidth
        /\ uint32(opts.topKDepth) = opts.topKDepth
        /\ uint32(opts.topKMinCount) = opts.topKMinCount
    <3>1. ASSUME NEW c \in Nat, c <= MaxUint32 PROVE uint32(c) = c
      <4>1. MaxUint32 + 1 \in Nat /\ c < MaxUint32 + 1
        BY <3>1, OptionsAssumption
      <4> QED BY <4>1, SmallMod DEF uint32
    <3> QED BY <2>1, <2>2, <3>1 DEF Convertible
  <2>5. /\ p.MaxCacheBytes = gibToBytes(opts.maxCacheGiB)[2]
        /\ p.TargetCacheBytes = gibToBytes(opts.targetCacheGiB)[2]
        /\ p.MinActionCacheBytes = gibToBytes(opts.minActionCacheGiB)[2]
        /\ p.TopKCapacity = uint32(opts.topKCapacity) /\ p.TopKWidth = uint32(opts.topKWidth)
        /\ p.TopKDepth = uint32(opts.topKDepth) /\ p.TopKMinCount = uint32(opts.topKMinCount)
    BY Zenon DEF evictionConfig
  <2> HIDE DEF p
  <2>6. /\ p.TargetCacheBytes < p.MaxCacheBytes /\ p.MinActionCacheBytes <= p.TargetCacheBytes
        /\ p.TopKCapacity # 0 /\ p.TopKWidth # 0 /\ p.TopKDepth # 0 /\ p.TopKMinCount # 0
    BY <2>2, Zenon DEF Policies!Validate
  <2>7. opts.minActionCacheGiB <= opts.targetCacheGiB /\ opts.targetCacheGiB < opts.maxCacheGiB
    <3>1. gibibyte \in Nat /\ gibibyte > 0
      BY OptionsAssumption
    <3>2. /\ opts.targetCacheGiB * gibibyte < opts.maxCacheGiB * gibibyte
          /\ opts.minActionCacheGiB * gibibyte <= opts.targetCacheGiB * gibibyte
      BY <2>3, <2>5, <2>6
    <3> QED BY <2>1, <3>1, <3>2, ScaleOrder
  <2>8. /\ opts.topKCapacity > 0 /\ opts.topKWidth > 0
        /\ opts.topKDepth > 0 /\ opts.topKMinCount > 0
    BY <2>1, <2>4, <2>5, <2>6
  <2> QED BY <2>3, <2>4, <2>5, <2>7, <2>8 DEF MeansWhatItSays, p
<1> QED BY <1>1, <1>2, OptionsStep, PTL DEF OptionsSpec

(***************************************************************************)
(* The path filters.                                                       *)
(***************************************************************************)
PathSpec == PathInit /\ [][PathNext]_given

\* Induction over Nat, as a least counterexample.
LEMMA LeastNumber ==
  ASSUME NEW T, T \subseteq Nat, T # {}
  PROVE  \E n \in T : \A m \in T : n <= m
<1>1. PICK n \in T : \A m \in T : <<m, n>> \notin OpToRel(<, Nat)
  BY NatLessThanWellFounded, WFMin, Zenon
<1>2. ASSUME NEW m \in T PROVE n <= m
  <2>1. CASE m < n
    <3>1. <<m, n>> \in OpToRel(<, Nat)
      BY <2>1, Zenon DEF OpToRel
    <3> QED BY <1>1, <3>1, Zenon
  <2> QED BY <2>1
<1> QED BY <1>2, Zenon

\* The recursion of the fold that Clean is.
CleanRec(h, absolute, p, n) ==
  h = [s \in SUBSET (1 .. n) |->
         IF s = {} THEN <<>> ELSE Enter(absolute, h[s \ {Max(s)}], p[Max(s)])]

\* The largest of a set of numbers up to n that contains n.
LEMMA MaxIsLast ==
  ASSUME NEW n \in Nat, NEW s \in SUBSET (1 .. n), n \in s
  PROVE  Max(s) = n
<1>1. n \in s /\ \A y \in s : n >= y
  OBVIOUS
<1>2. Max(s) \in s /\ \A y \in s : Max(s) >= y
  BY <1>1, Zenon DEF Max
<1>3. Max(s) \in 1 .. n /\ Max(s) >= n
  BY <1>2, Zenon
<1> QED BY <1>3

\* The recursion has a solution for paths of any length.
LEMMA CleanRecExists ==
  ASSUME NEW absolute, NEW p, NEW N \in Nat
  PROVE  \E h : CleanRec(h, absolute, p, N)
<1> DEFINE T == {n \in Nat : ~ \E h : CleanRec(h, absolute, p, n)}
<1> SUFFICES ASSUME T # {} PROVE FALSE
  BY Zenon
<1>1. PICK n \in T : \A m \in T : n <= m
  BY LeastNumber, Zenon
<1>2. n \in Nat /\ ~ \E h : CleanRec(h, absolute, p, n)
  BY Zenon
<1>3. CASE n = 0
  <2> DEFINE h == [s \in SUBSET (1 .. 0) |-> <<>>]
  <2>1. \A s \in SUBSET (1 .. 0) : s = {}
    OBVIOUS
  <2>2. CleanRec(h, absolute, p, 0)
    BY <2>1, Zenon DEF CleanRec
  <2> QED BY <1>2, <1>3, <2>2
<1>4. CASE n # 0
  <2>1. n - 1 \in Nat /\ n - 1 \notin T
    BY <1>1, <1>2, <1>4
  <2>2. PICK g : CleanRec(g, absolute, p, n - 1)
    BY <2>1, Zenon
  <2> HIDE DEF T
  <2> DEFINE h == [s \in SUBSET (1 .. n) |->
                     IF n \in s THEN Enter(absolute, g[s \ {n}], p[n]) ELSE g[s]]
  <2>3. ASSUME NEW s \in SUBSET (1 .. n)
        PROVE  h[s] = IF s = {} THEN <<>> ELSE Enter(absolute, h[s \ {Max(s)}], p[Max(s)])
    <3>1. CASE n \in s
      <4>1. Max(s) = n /\ s # {}
        BY <1>2, <3>1, MaxIsLast
      <4>2. h[s] = Enter(absolute, g[s \ {n}], p[n]) /\ h[s \ {n}] = g[s \ {n}]
        BY <3>1, Zenon
      <4> QED BY <4>1, <4>2, Zenon
    <3>2. CASE n \notin s
      <4>1. s \in SUBSET (1 .. n - 1)
        BY <1>2, <3>2
      <4>2. g[s] = IF s = {} THEN <<>> ELSE Enter(absolute, g[s \ {Max(s)}], p[Max(s)])
        BY <2>2, <4>1, Zenon DEF CleanRec
      <4>3. h[s] = g[s] /\ h[s \ {Max(s)}] = g[s \ {Max(s)}]
        BY <3>2, Zenon
      <4> QED BY <4>2, <4>3
    <3> QED BY <3>1, <3>2
  <2>4. CleanRec(h, absolute, p, n)
    <3>1. h = [s \in SUBSET (1 .. n) |-> h[s]]
      BY Zenon
    <3> HIDE DEF h
    <3> QED BY <2>3, <3>1 DEF CleanRec
  <2> QED BY <1>2, <2>4, Zenon
<1> QED BY <1>3, <1>4, Zenon

\* Clean enters the segments of its path from left to right.
Cleaning(f, absolute, p) ==
  /\ f[0] = <<>>
  /\ \A i \in 1 .. Len(p) : f[i] = Enter(absolute, f[i - 1], p[i])
  /\ Clean(absolute, p) = f[Len(p)]

\* What the fold computes, as the sequence of its intermediate results.
LEMMA CleanSteps ==
  ASSUME NEW S, NEW p \in Seq(S), NEW absolute
  PROVE  \E f : Cleaning(f, absolute, p)
<1> DEFINE n == Len(p)
           h == CHOOSE h : CleanRec(h, absolute, p, n)
           f == [i \in 0 .. n |-> h[1 .. i]]
<1>1. n \in Nat /\ DOMAIN p = 1 .. n
  OBVIOUS
<1>2. Clean(absolute, p) = h[1 .. n]
  <2>1. Clean(absolute, p) = h[DOMAIN p]
    BY <1>1, Zenon DEF Clean, FoldLeft, MapThenFoldSet, CleanRec
  <2> QED BY <1>1, <2>1, Zenon
<1>3. CleanRec(h, absolute, p, n)
  BY <1>1, CleanRecExists
<1> HIDE DEF h, n
<1>4. f[0] = <<>>
  <2>1. 1 .. 0 = {} /\ {} \in SUBSET (1 .. n)
    OBVIOUS
  <2>2. h[{}] = <<>>
    BY <1>3, <2>1, Zenon DEF CleanRec
  <2> QED BY <1>1, <2>1, <2>2
<1>5. ASSUME NEW i \in 1 .. n PROVE f[i] = Enter(absolute, f[i - 1], p[i])
  <2>1. i \in Nat /\ 1 .. i \in SUBSET (1 .. n) /\ i \in 1 .. i /\ i - 1 \in 0 .. n /\ i \in 0 .. n
    BY <1>1
  <2>2. Max(1 .. i) = i
    BY <2>1, MaxIsLast, Zenon
  <2>3. (1 .. i) \ {i} = 1 .. (i - 1)
    BY <2>1
  <2>4. h[1 .. i] = Enter(absolute, h[(1 .. i) \ {Max(1 .. i)}], p[Max(1 .. i)])
    BY <1>3, <2>1 DEF CleanRec
  <2> QED BY <2>1, <2>2, <2>3, <2>4
<1>6. f[n] = h[1 .. n]
  BY <1>1
<1> HIDE DEF f
<1>7. Cleaning(f, absolute, p)
  BY <1>2, <1>4, <1>5, <1>6 DEF Cleaning, n
<1> QED BY <1>7, Zenon

\* The segments that name something: not empty, not ".", not "..".
Plain == Name \ {"", ".", ".."}

\* Entering a segment keeps an absolute path plain; a plain segment is added.
LEMMA EnterPlain ==
  ASSUME NEW q \in Seq(Plain), NEW s \in Name
  PROVE  /\ Enter(TRUE, q, s) \in Seq(Plain)
         /\ \A absolute : s \in Plain => Enter(absolute, q, s) = Append(q, s)
<1>1. CASE s \in {"", "."}
  BY <1>1, Zenon DEF Enter, Plain
<1>2. CASE s = ".."
  <2>1. s \notin {"", "."} /\ s \notin Plain
    BY <1>2, Zenon DEF Plain
  <2>2. Enter(TRUE, q, s) = IF q # <<>> /\ Last(q) # ".." THEN Front(q) ELSE q
    BY <1>2, <2>1 DEF Enter
  <2>3. q # <<>> => Front(q) \in Seq(Plain)
    BY DEF Front
  <2> QED BY <2>1, <2>2, <2>3
<1>3. CASE s \in Plain
  <2>1. s \notin {"", "."} /\ s # ".."
    BY <1>3, Zenon DEF Plain
  <2>2. \A absolute : Enter(absolute, q, s) = Append(q, s)
    BY <2>1, Zenon DEF Enter
  <2>3. Append(q, s) \in Seq(Plain)
    BY <1>3
  <2> QED BY <2>2, <2>3
<1> QED BY <1>1, <1>2, <1>3 DEF Plain

\* filepath.Clean of an absolute path leaves only names.
LEMMA CleanIsPlain ==
  ASSUME NEW p \in Seq(Name)
  PROVE  Clean(TRUE, p) \in Seq(Plain)
<1>1. PICK f : Cleaning(f, TRUE, p)
  BY CleanSteps, Zenon
<1> DEFINE T == {i \in 0 .. Len(p) : f[i] \notin Seq(Plain)}
<1>2. T = {}
  <2> SUFFICES ASSUME T # {} PROVE FALSE
    BY Zenon
  <2>1. T \subseteq Nat
    OBVIOUS
  <2>2. PICK i \in T : \A m \in T : i <= m
    BY <2>1, LeastNumber, Zenon
  <2>3. CASE i = 0
    <3>1. f[0] = <<>> /\ <<>> \in Seq(Plain)
      BY <1>1 DEF Cleaning
    <3> QED BY <2>3, <3>1, Zenon
  <2>4. CASE i # 0
    <3>1. i \in 1 .. Len(p) /\ i - 1 \in 0 .. Len(p) /\ i - 1 \notin T /\ p[i] \in Name
      BY <2>2, <2>4
    <3>2. f[i - 1] \in Seq(Plain)
      BY <3>1, Zenon
    <3>3. f[i] = Enter(TRUE, f[i - 1], p[i])
      BY <1>1, <3>1, Zenon DEF Cleaning
    <3>4. f[i] \in Seq(Plain)
      BY <3>1, <3>2, <3>3, EnterPlain
    <3> QED BY <3>4, Zenon
  <2> QED BY <2>3, <2>4, Zenon
<1>3. Len(p) \in 0 .. Len(p)
  OBVIOUS
<1>4. f[Len(p)] \in Seq(Plain)
  BY <1>2, <1>3, Zenon
<1> QED BY <1>1, <1>4, Zenon DEF Cleaning

\* filepath.Clean returns a path of names as it is.
LEMMA CleanKeepsPlain ==
  ASSUME NEW p \in Seq(Plain), NEW absolute
  PROVE  Clean(absolute, p) = p
<1>1. PICK f : Cleaning(f, absolute, p)
  BY CleanSteps, Zenon
<1> DEFINE T == {i \in 0 .. Len(p) : f[i] # SubSeq(p, 1, i)}
<1>2. T = {}
  <2> SUFFICES ASSUME T # {} PROVE FALSE
    BY Zenon
  <2>1. T \subseteq Nat
    OBVIOUS
  <2>2. PICK i \in T : \A m \in T : i <= m
    BY <2>1, LeastNumber, Zenon
  <2>3. CASE i = 0
    <3>1. SubSeq(p, 1, 0) = <<>>
      OBVIOUS
    <3> QED BY <1>1, <2>3, <3>1 DEF Cleaning
  <2>4. CASE i # 0
    <3>1. i \in 1 .. Len(p) /\ i - 1 \in 0 .. Len(p) /\ i - 1 \notin T /\ p[i] \in Plain
      BY <2>2, <2>4
    <3>2. f[i - 1] = SubSeq(p, 1, i - 1) /\ SubSeq(p, 1, i - 1) \in Seq(Plain)
      BY <3>1
    <3>3. f[i] = Enter(absolute, f[i - 1], p[i])
      BY <1>1, <3>1 DEF Cleaning
    <3>4. p[i] \in Name
      BY <3>1, Zenon DEF Plain
    <3>5. f[i] = Append(SubSeq(p, 1, i - 1), p[i])
      BY <3>1, <3>2, <3>3, <3>4, EnterPlain
    <3>6. Append(SubSeq(p, 1, i - 1), p[i]) = SubSeq(p, 1, i)
      BY <3>1
    <3> QED BY <3>5, <3>6
  <2> QED BY <2>3, <2>4
<1>3. Len(p) \in 0 .. Len(p) /\ SubSeq(p, 1, Len(p)) = p
  OBVIOUS
<1>4. f[Len(p)] = p
  BY <1>2, <1>3
<1> QED BY <1>1, <1>4 DEF Cleaning

\* The length of what two paths have in common.
LEMMA CommonLength ==
  ASSUME NEW S, NEW r \in Seq(S), NEW p \in Seq(S)
  PROVE  LET c == Len(LongestCommonPrefix({r, p}))
         IN  /\ c \in 0 .. Len(r) /\ c <= Len(p)
             /\ c = Len(r) <=> IsPrefix(r, p)
<1> DEFINE C == CommonPrefixes({r, p})
           L == LongestCommonPrefix({r, p})
<1>1. ASSUME NEW q \in C
      PROVE  q \in Seq(S) /\ Len(q) <= Len(r) /\ Len(q) <= Len(p) /\ IsPrefix(q, r) /\ IsPrefix(q, p)
  <2>1. IsPrefix(q, r) /\ IsPrefix(q, p) /\ q \in Prefixes(r) \cup Prefixes(p)
    BY Zenon DEF CommonPrefixes
  <2>2. Prefixes(r) \subseteq Seq(S) /\ Prefixes(p) \subseteq Seq(S)
    BY DEF Prefixes
  <2> QED BY <2>1, <2>2 DEF IsPrefix
<1>2. ASSUME NEW l \in 0 .. Len(r), IsPrefix(SubSeq(r, 1, l), p)
      PROVE  SubSeq(r, 1, l) \in C
  <2>1. SubSeq(r, 1, l) \in Prefixes(r)
    BY Zenon DEF Prefixes
  <2>2. Len(SubSeq(r, 1, l)) = l /\ SubSeq(r, 1, l) \in Seq(S)
    OBVIOUS
  <2>3. SubSeq(SubSeq(r, 1, l), 1, l) = SubSeq(r, 1, l)
    BY <2>2
  <2>4. IsPrefix(SubSeq(r, 1, l), r)
    BY <2>2, <2>3 DEF IsPrefix
  <2> QED BY <1>2, <2>1, <2>4 DEF CommonPrefixes
<1>3. C # {}
  <2>1. SubSeq(r, 1, 0) = <<>> /\ 0 \in 0 .. Len(r)
    OBVIOUS
  <2>2. IsPrefix(<<>>, p)
    BY DEF IsPrefix
  <2> QED BY <1>2, <2>1, <2>2
<1> HIDE DEF C
<1>4. \E q \in C : \A t \in C : Len(t) <= Len(q)
  <2> DEFINE T == {Len(r) - Len(q) : q \in C}
  <2>1. T \subseteq Nat /\ T # {}
    BY <1>1, <1>3
  <2>2. PICK m \in T : \A k \in T : m <= k
    BY <2>1, LeastNumber, Zenon
  <2>3. PICK q \in C : m = Len(r) - Len(q)
    BY <2>2, Zenon
  <2>4. ASSUME NEW t \in C PROVE Len(t) <= Len(q)
    <3>1. m <= Len(r) - Len(t)
      BY <2>2, Zenon
    <3>2. Len(t) \in Nat /\ Len(q) \in Nat /\ Len(r) \in Nat
      BY <1>1, <2>3
    <3> QED BY <2>3, <3>1, <3>2
  <2> QED BY <2>4, Zenon
<1>5. L \in C /\ \A t \in C : Len(t) <= Len(L)
  BY <1>4, Zenon DEF LongestCommonPrefix, C
<1> HIDE DEF L
<1>6. L \in Seq(S) /\ Len(L) <= Len(r) /\ Len(L) <= Len(p) /\ IsPrefix(L, r) /\ IsPrefix(L, p)
  BY <1>1, <1>5
<1>7. ASSUME IsPrefix(r, p) PROVE Len(L) = Len(r)
  <2>1. SubSeq(r, 1, Len(r)) = r /\ Len(r) \in 0 .. Len(r)
    OBVIOUS
  <2>2. r \in C
    BY <1>2, <1>7, <2>1
  <2> QED BY <1>5, <1>6, <2>2
<1>8. ASSUME Len(L) = Len(r) PROVE IsPrefix(r, p)
  <2>1. SubSeq(r, 1, Len(r)) = r /\ SubSeq(L, 1, Len(L)) = L
    BY <1>6
  <2>2. L = r
    BY <1>6, <1>8, <2>1 DEF IsPrefix
  <2> QED BY <1>6, <2>2
<1>9. Len(L) \in 0 .. Len(r) /\ Len(L) <= Len(p) /\ (Len(L) = Len(r) <=> IsPrefix(r, p))
  BY <1>6, <1>7, <1>8
<1> QED BY <1>9 DEF L

LEMMA RootPlain == Root \in Seq(Plain) /\ Len(Root) \in Nat
<1>1. Root \in Seq(Plain)
  BY CacheKeyAssumption, Zenon DEF Plain
<1> QED BY <1>1

\* filepath.Rel below the root is the rest of the path; anywhere else it
\* begins with "..".
LEMMA RelOfPath ==
  ASSUME NEW p \in Seq(Plain)
  PROVE  /\ IsPrefix(Root, p) => Rel(p) = SubSeq(p, Len(Root) + 1, Len(p))
         /\ ~ IsPrefix(Root, p) => Rel(p) # <<>> /\ Rel(p)[1] = ".."
<1> DEFINE c == Len(LongestCommonPrefix({Root, p}))
           up == [i \in 1 .. Len(Root) - c |-> ".."]
           down == SubSeq(p, c + 1, Len(p))
<1>1. Root \in Seq(Plain) /\ Len(Root) \in Nat
  BY RootPlain, Zenon
<1>2. c \in 0 .. Len(Root) /\ c <= Len(p) /\ (c = Len(Root) <=> IsPrefix(Root, p))
  BY <1>1, CommonLength
<1>3. Rel(p) = up \o down
  BY Zenon DEF Rel
<1> HIDE DEF c
<1>4. up \in Seq({".."}) /\ Len(up) = Len(Root) - c
  <2>1. Len(Root) - c \in Nat
    BY <1>1, <1>2
  <2> QED BY <2>1
<1>5. down \in Seq(Plain)
  BY <1>1, <1>2
<1>6. ASSUME IsPrefix(Root, p) PROVE Rel(p) = SubSeq(p, Len(Root) + 1, Len(p))
  <2>1. c = Len(Root)
    BY <1>2, <1>6
  <2>2. up = <<>>
    BY <1>1, <2>1
  <2> HIDE DEF up, down
  <2>3. up \o down = down
    BY <1>5, <2>2, ConcatEmptySeq, Zenon
  <2> QED BY <1>3, <2>1, <2>3 DEF down
<1>7. ASSUME ~ IsPrefix(Root, p) PROVE Rel(p) # <<>> /\ Rel(p)[1] = ".."
  <2>1. Len(Root) - c \in Nat /\ Len(Root) - c >= 1
    BY <1>1, <1>2, <1>7
  <2>2. up[1] = ".."
    BY <2>1
  <2> HIDE DEF up, down
  <2>3. Len(up) >= 1 /\ Len(up) \in Nat
    BY <1>4, <2>1
  <2>4. (up \o down)[1] = up[1] /\ up \o down # <<>>
    BY <1>4, <1>5, <2>3
  <2> QED BY <1>3, <2>2, <2>4
<1> QED BY <1>6, <1>7

\* The paths that are considered are sequences of names.
PathTyped == given \in Seq(Name)

LEMMA PathsTyped == PathSpec => []PathTyped
<1>1. PathInit => PathTyped
  BY DEF PathInit, PathTyped
<1>2. PathTyped /\ [PathNext]_given => PathTyped'
  BY DEF PathNext, PathTyped
<1> QED BY <1>1, <1>2, PTL DEF PathSpec

\* Whatever tree, names and root there are: a key that ParseKey accepts is at
\* root/key and KeyForPath gives it back.
THEOREM KeysNameEntries == PathSpec => []KeyNamesEntry
<1>1. ASSUME given \in Seq(Name), ParseKey(given) PROVE KeyNamesEntry
  <2> DEFINE p == Root \o given
  <2>1. Len(given) = 3 /\ given[1] \in {"ac", "cas"} /\ given[2] \in LowerHex /\ given[3] \in LowerHex
    BY <1>1, Zenon DEF ParseKey
  <2>2. given \in Seq(Plain)
    <3>1. {"ac", "cas"} \subseteq Plain /\ LowerHex \subseteq Plain
      BY CacheKeyAssumption, Zenon DEF Plain
    <3>2. \A i \in 1 .. Len(given) : given[i] \in Plain
      <4>1. \A i \in 1 .. 3 : i = 1 \/ i = 2 \/ i = 3
        OBVIOUS
      <4> QED BY <2>1, <3>1, <4>1
    <3> QED BY <1>1, <3>2
  <2>3. Root \in Seq(Plain) /\ Len(Root) \in Nat
    BY RootPlain, Zenon
  <2>4. p \in Seq(Plain) /\ Len(p) = Len(Root) + 3
    <3>1. p \in Seq(Plain) /\ Len(p) = Len(Root) + Len(given)
      BY <2>2, <2>3, ConcatProperties, Zenon
    <3> QED BY <2>1, <3>1
  <2>5. SubSeq(p, 1, Len(Root)) = Root /\ SubSeq(p, Len(Root) + 1, Len(p)) = given
    BY <2>1, <2>2, <2>3, <2>4
  <2>6. IsPrefix(Root, p)
    <3>1. SubSeq(Root, 1, Len(Root)) = Root
      BY <2>3
    <3> QED BY <2>3, <2>4, <2>5, <3>1 DEF IsPrefix
  <2> HIDE DEF p
  <2>7. PathOf(given) = p /\ Clean(TRUE, p) = p
    BY <2>4, CleanKeepsPlain, Zenon DEF PathOf, p
  <2>8. KeyOf(p) = given
    BY <2>4, <2>5, <2>6, <2>7, RelOfPath DEF KeyOf
  <2> QED BY <1>1, <2>7, <2>8 DEF KeyNamesEntry, KeyForPath, p
<1>2. PathTyped => KeyNamesEntry
  BY <1>1 DEF KeyNamesEntry, PathTyped
<1> QED BY <1>2, PathsTyped, PTL

\* Whatever tree, names and root there are: addDirectoryWatches reaches the
\* directory of every path that KeyForPath accepts.
THEOREM AllEntriesWatched == PathSpec => []EntriesWatched
<1>1. ASSUME given \in Seq(Name), KeyForPath(given) PROVE EntriesWatched
  <2> DEFINE q == Clean(TRUE, given)
             k == Rel(q)
             d == Front(q)
  <2>1. q \in Seq(Plain)
    BY <1>1, CleanIsPlain, Zenon
  <2>2. Len(k) = 3 /\ k[1] \in {"ac", "cas"}
    BY <1>1, Zenon DEF KeyForPath, ParseKey, KeyOf
  <2> HIDE DEF q
  <2>3. Root \in Seq(Plain) /\ Len(Root) \in Nat /\ Len(q) \in Nat
    BY <2>1, RootPlain
  <2>4. IsPrefix(Root, q) /\ k = SubSeq(q, Len(Root) + 1, Len(q))
    <3>1. k[1] # ".."
      BY <2>2, Zenon
    <3> HIDE DEF k
    <3> QED BY <2>1, <3>1, RelOfPath DEF k
  <2> HIDE DEF k
  <2>5. Len(Root) <= Len(q) /\ SubSeq(q, 1, Len(Root)) = Root
    <3>1. SubSeq(Root, 1, Len(Root)) = Root
      BY <2>3
    <3> QED BY <2>4, <3>1 DEF IsPrefix
  <2>6. Len(q) = Len(Root) + 3 /\ q[Len(Root) + 1] = k[1]
    BY <2>1, <2>2, <2>3, <2>4, <2>5
  <2>7. d \in Seq(Plain) /\ Len(d) = Len(Root) + 2 /\ d = SubSeq(q, 1, Len(Root) + 2)
    BY <2>1, <2>3, <2>6 DEF Front
  <2> HIDE DEF d
  <2>8. ASSUME NEW n \in Len(Root) .. Len(d) PROVE watchPathAllowed(SubSeq(d, 1, n))
    <3> DEFINE r == SubSeq(d, 1, n)
    <3>1. n \in Nat /\ n >= Len(Root) /\ n <= Len(Root) + 2
      BY <2>3, <2>7
    <3>2. r = SubSeq(q, 1, n) /\ r \in Seq(Plain) /\ Len(r) = n
      BY <2>1, <2>3, <2>6, <2>7, <3>1
    <3>3. IsPrefix(Root, r)
      <4>1. SubSeq(Root, 1, Len(Root)) = Root
        BY <2>3
      <4>2. SubSeq(SubSeq(q, 1, n), 1, Len(Root)) = SubSeq(q, 1, Len(Root))
        BY <2>1, <2>3, <2>6, <3>1
      <4> QED BY <2>5, <3>1, <3>2, <4>1, <4>2 DEF IsPrefix
    <3>4. n > Len(Root) => SubSeq(r, Len(Root) + 1, n)[1] = k[1]
      BY <2>1, <2>3, <2>6, <3>1, <3>2
    <3>5. n = Len(Root) => SubSeq(r, Len(Root) + 1, n) = <<>>
      BY <2>3, <3>2
    <3> HIDE DEF r
    <3>6. KeyOf(r) = SubSeq(r, Len(Root) + 1, n)
      BY <3>2, <3>3, CleanKeepsPlain, RelOfPath DEF KeyOf
    <3>7. watchPathAllowed(r)
      BY <2>2, <2>3, <3>1, <3>4, <3>5, <3>6 DEF watchPathAllowed
    <3> QED BY <3>7, Zenon DEF r
  <2>9. IsPrefix(Root, d)
    <3>1. SubSeq(Root, 1, Len(Root)) = Root
      BY <2>3
    <3>2. SubSeq(SubSeq(q, 1, Len(Root) + 2), 1, Len(Root)) = SubSeq(q, 1, Len(Root))
      BY <2>1, <2>3, <2>6
    <3> QED BY <2>3, <2>5, <2>7, <3>1, <3>2 DEF IsPrefix
  <2>10. Walked(d)
    BY <2>8, <2>9 DEF Walked
  <2> QED BY <2>10, Zenon DEF EntriesWatched, d, q
<1>2. PathTyped => EntriesWatched
  BY <1>1 DEF EntriesWatched, PathTyped
<1> QED BY <1>2, PathsTyped, PTL

(***************************************************************************)
(* The checkpoint: saveCheckpoint is atomic and lasting, for every number  *)
(* of saves and every capacity, whichever call fails and whenever the      *)
(* process is killed or the node loses power.                              *)
(***************************************************************************)
USE CheckpointAssumption

\* The strengthening of the three properties.  Nothing newer than the current
\* save exists; past Sync its temporary file is complete and synced, so all
\* the rename can expose is; and no durable content is older than the last
\* confirmed save.
SaveInv ==
  /\ TypeOK
  /\ pc # "idle" => saves > 0 /\ items <= TopKCapacity
  /\ \A f \in tmp : f.save <= saves
  /\ pc \in {"synced", "closed"} => Temporary \subseteq {Written(TRUE)}
  /\ pc \in {"renamed", "dirOpen"} => path.save = saves
  /\ path \in durable
  /\ \A f \in durable : f.save = 0 \/ (f.whole /\ f.synced /\ f.items <= TopKCapacity)
  /\ \A f \in durable : confirmed <= f.save
  /\ confirmed <= saves

\* No step of saveCheckpoint, failure, kill or power loss breaks SaveInv.
LEMMA SaveStep == SaveInv /\ [Next]_vars => SaveInv'
<1> SUFFICES ASSUME SaveInv, [Next]_vars PROVE SaveInv'
  BY Zenon
<1> USE DEF SaveInv, TypeOK, PC, Content, Temporary
<1>1. ASSUME NEW i \in 0 .. TopKCapacity, CreateTemp(i) PROVE SaveInv'
  <2> DEFINE new == [save |-> saves + 1, whole |-> FALSE, synced |-> FALSE, items |-> i]
  <2>1. new \in Content /\ new.save = saves + 1
    OBVIOUS
  <2>2. /\ pc' = "created" /\ saves' = saves + 1 /\ items' = i /\ tmp' = tmp \cup {new}
        /\ UNCHANGED <<path, durable, confirmed>>
    BY <1>1, Zenon DEF CreateTemp
  <2>3. Temporary' = {new}
    BY <2>1, <2>2
  <2> HIDE DEF new
  <2> QED
    BY <2>1, <2>2, <2>3
<1>2. CASE Encode
  <2>1. Written(FALSE) \in Content /\ Written(FALSE).save = saves
    BY Zenon DEF Written
  <2>2. /\ pc' = "encoded" /\ tmp' = (tmp \ Temporary) \cup {Written(FALSE)}
        /\ UNCHANGED <<saves, items, path, durable, confirmed>>
    BY <1>2, Zenon DEF Encode
  <2>3. Temporary' = {Written(FALSE)} /\ Written(FALSE)' = Written(FALSE)
    BY <2>1, <2>2 DEF Written
  <2>4. pc # "idle"
    BY <1>2, Zenon DEF Encode
  <2>5. TypeOK'
    BY <2>1, <2>2, <2>3
  <2>6. \A f \in tmp' : f.save <= saves'
    <3> TAKE f \in tmp'
    <3>1. f.save <= saves \/ f.save = saves
      BY <2>1, <2>2, Zenon
    <3> QED
      BY <2>2, <3>1
  <2> HIDE DEF TypeOK, Temporary, Content
  <2> QED
    BY <2>2, <2>3, <2>4, <2>5, <2>6, Zenon
<1>3. CASE Sync
  <2>1. Written(TRUE) \in Content /\ Written(TRUE).save = saves
    BY Zenon DEF Written
  <2>2. /\ pc' = "synced" /\ tmp' = (tmp \ Temporary) \cup {Written(TRUE)}
        /\ UNCHANGED <<saves, items, path, durable, confirmed>>
    BY <1>3 DEF Sync
  <2>3. Temporary' = {Written(TRUE)} /\ Written(TRUE)' = Written(TRUE)
    BY <2>1, <2>2 DEF Written
  <2>4. pc # "idle"
    BY <1>3, Zenon DEF Sync
  <2>5. TypeOK'
    BY <2>1, <2>2, <2>3
  <2>6. \A f \in tmp' : f.save <= saves'
    <3> TAKE f \in tmp'
    <3>1. f.save <= saves \/ f.save = saves
      BY <2>1, <2>2, Zenon
    <3> QED
      BY <2>2, <3>1
  <2> HIDE DEF TypeOK, Temporary, Content
  <2> QED
    BY <2>2, <2>3, <2>4, <2>5, <2>6
<1>4. CASE CloseFile \/ OpenDirectory \/ Kill
  BY <1>4 DEF CloseFile, OpenDirectory, Kill, Written
<1>5. CASE Rename
  <2>1. PICK f \in Temporary : tmp' = tmp \ {f} /\ path' = f /\ durable' = durable \cup AfterPowerLoss(f)
    BY <1>5 DEF Rename
  <2>2. f = Written(TRUE) /\ f \in Content
    BY <1>5, <2>1 DEF Rename
  <2>3. f.save = saves /\ f.whole /\ f.synced /\ f.items = items
    BY <2>2, Zenon DEF Written
  <2>4. durable' = durable \cup {f}
    BY <2>1, <2>3 DEF AfterPowerLoss
  <2> QED
    BY <1>5, <2>1, <2>2, <2>3, <2>4 DEF Rename
<1>6. CASE SyncDirectory
  <2>1. path.save = saves /\ path.synced
    BY <1>6 DEF SyncDirectory
  <2>2. durable' = {path}
    BY <1>6, <2>1, Zenon DEF SyncDirectory, AfterPowerLoss
  <2> QED
    BY <1>6, <2>1, <2>2 DEF SyncDirectory
<1>7. CASE SaveFails
  BY <1>7, Zenon DEF SaveFails, ReturnError
<1>8. CASE PowerLoss
  BY <1>8, Zenon DEF PowerLoss
<1>9. CASE UNCHANGED vars
  BY <1>9, Zenon DEF vars, Written
<1> QED
  BY <1>1, <1>2, <1>3, <1>4, <1>5, <1>6, <1>7, <1>8, <1>9 DEF Next

\* The invariant holds over every sequence of saves, kills and power losses.
LEMMA SaveAlways == Spec => []SaveInv
<1>1. Init => SaveInv
  BY DEF Init, SaveInv, TypeOK, PC, Content, NoFile, Temporary
<1> QED
  BY <1>1, SaveStep, PTL DEF Spec

\* The state of saveCheckpoint is well-typed and a save never has two
\* temporary files.
THEOREM TypeCorrect == Spec => []TypeOK
<1>1. SaveInv => TypeOK
  BY Zenon DEF SaveInv
<1> QED
  BY <1>1, SaveAlways, PTL

\* A daemon started after any failure, kill or power loss finds no checkpoint
\* or a complete one, never a torn one that loadCheckpoint rejects; only a file
\* longer than it reads is refused.
THEOREM CheckpointAtomic == Spec => []NeverTorn
<1>1. SaveInv => NeverTorn
  BY DEF SaveInv, TypeOK, Content, NeverTorn, loadCheckpoint, Missing, Valid
<1> QED
  BY <1>1, SaveAlways, PTL

\* What a saveCheckpoint that returned nil has stored is never undone, only
\* replaced by a later save.
THEOREM CheckpointDurable == Spec => []ConfirmedSurvives
<1>1. SaveInv => ConfirmedSurvives
  BY Zenon DEF SaveInv, TypeOK, ConfirmedSurvives, Content
<1> QED
  BY <1>1, SaveAlways, PTL
=============================================================================
