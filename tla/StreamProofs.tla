---------------------------- MODULE StreamProofs ----------------------------
(***************************************************************************)
(* The watcher implements EventStream: for every tree of two levels and    *)
(* all bounds of the queue and the channels.                               *)
(***************************************************************************)
EXTENDS WatcherStream, WatcherProofs, WellFoundedInduction

(***************************************************************************)
(* What Reported does.                                                     *)
(***************************************************************************)
\* Induction over Nat, as a least counterexample.
LEMMA LeastNumber ==
  ASSUME NEW T, T \subseteq Nat, T # {}
  PROVE  \E n \in T : \A m \in T : n <= m
<1>1. PICK n \in T : \A m \in T : <<m, n>> \notin OpToRel(<, Nat)
  BY NatLessThanWellFounded, WFMin, Zenon
<1>2. ASSUME NEW m \in T PROVE n <= m
  <2>1. CASE m < n
    <3>1. <<m, n>> \in OpToRel(<, Nat)
      BY <2>1, Zenon DEF OpToRel
    <3> QED BY <1>1, <3>1, Zenon
  <2> QED BY <2>1
<1> QED BY <1>2, Zenon

\* One step of the recursion, and the recursion up to n.
Keep(q, e) == IF e = Overflow THEN q ELSE Append(q, e)

KeptRec(f, s, n) ==
  f = [i \in 0 .. n |-> IF i = 0 THEN <<>>
                        ELSE IF s[i] = Overflow THEN f[i - 1] ELSE Append(f[i - 1], s[i])]

LEMMA KeptExists ==
  ASSUME NEW s, NEW N \in Nat
  PROVE  \E f : KeptRec(f, s, N)
<1> DEFINE T == {n \in Nat : ~ \E f : KeptRec(f, s, n)}
<1> SUFFICES ASSUME T # {} PROVE FALSE
  BY Zenon
<1>1. PICK n \in T : \A m \in T : n <= m
  BY LeastNumber, Zenon
<1>2. n \in Nat /\ ~ \E f : KeptRec(f, s, n)
  BY Zenon
<1>3. CASE n = 0
  <2> DEFINE f == [i \in 0 .. 0 |-> <<>>]
  <2>1. \A i \in 0 .. 0 : i = 0
    OBVIOUS
  <2>2. KeptRec(f, s, 0)
    BY <2>1, Zenon DEF KeptRec
  <2> QED BY <1>2, <1>3, <2>2, Zenon
<1>4. CASE n # 0
  <2>1. n - 1 \in Nat /\ n - 1 \notin T
    BY <1>1, <1>2, <1>4
  <2>2. PICK g : KeptRec(g, s, n - 1)
    BY <2>1, Zenon
  <2> HIDE DEF T
  <2> DEFINE f == [i \in 0 .. n |-> IF i = n THEN Keep(g[n - 1], s[n]) ELSE g[i]]
  <2>3. ASSUME NEW i \in 0 .. n
        PROVE  f[i] = IF i = 0 THEN <<>>
                      ELSE IF s[i] = Overflow THEN f[i - 1] ELSE Append(f[i - 1], s[i])
    <3>1. CASE i = n
      <4>1. f[i] = Keep(g[n - 1], s[n]) /\ f[i - 1] = g[n - 1] /\ i # 0
        BY <1>2, <1>4, <3>1
      <4> HIDE DEF f
      <4> QED BY <3>1, <4>1, Zenon DEF Keep
    <3>2. CASE i # n
      <4>1. i \in 0 .. n - 1 /\ (i # 0 => i - 1 \in 0 .. n /\ i - 1 # n)
        BY <1>2, <3>2
      <4>2. f[i] = g[i] /\ (i # 0 => f[i - 1] = g[i - 1])
        BY <3>2, <4>1, Zenon
      <4>3. g[i] = IF i = 0 THEN <<>>
                   ELSE IF s[i] = Overflow THEN g[i - 1] ELSE Append(g[i - 1], s[i])
        BY <2>2, <4>1, Zenon DEF KeptRec
      <4> HIDE DEF f
      <4> QED BY <4>2, <4>3, Zenon
    <3> QED BY <3>1, <3>2, Zenon
  <2>4. KeptRec(f, s, n)
    <3>1. f = [i \in 0 .. n |-> f[i]]
      BY Zenon
    <3> HIDE DEF f
    <3> QED BY <2>3, <3>1, Zenon DEF KeptRec
  <2> QED BY <1>2, <2>4, Zenon
<1> QED BY <1>3, <1>4, Zenon

\* The intermediate results of Reported.
Keeping(f, s) ==
  /\ f[0] = <<>>
  /\ \A i \in 1 .. Len(s) : f[i] = Keep(f[i - 1], s[i])
  /\ Reported(s) = f[Len(s)]

LEMMA ReportedSteps ==
  ASSUME NEW S, NEW s \in Seq(S)
  PROVE  \E f : Keeping(f, s)
<1> DEFINE f == CHOOSE f : KeptRec(f, s, Len(s))
<1>1. Reported(s) = f[Len(s)]
  BY Zenon DEF Reported, KeptRec
<1>2. Len(s) \in Nat
  OBVIOUS
<1>3. KeptRec(f, s, Len(s))
  BY <1>2, KeptExists, Zenon
<1> HIDE DEF f
<1>4. f[0] = <<>>
  <2>1. 0 \in 0 .. Len(s)
    BY <1>2
  <2> QED BY <1>3, <2>1, Zenon DEF KeptRec
<1>5. ASSUME NEW i \in 1 .. Len(s) PROVE f[i] = Keep(f[i - 1], s[i])
  <2>1. i \in 0 .. Len(s) /\ i # 0
    BY <1>2
  <2> QED BY <1>3, <2>1, Zenon DEF KeptRec, Keep
<1>6. Keeping(f, s)
  BY <1>1, <1>4, <1>5, Zenon DEF Keeping
<1> QED BY <1>6, Zenon

\* Equal prefixes give equal intermediate results.
LEMMA KeepingAgrees ==
  ASSUME NEW S, NEW s \in Seq(S), NEW t \in Seq(S), NEW f, NEW g, Keeping(f, s), Keeping(g, t),
         NEW n \in Nat, n <= Len(s), n <= Len(t), \A i \in 1 .. n : s[i] = t[i]
  PROVE  f[n] = g[n]
<1> DEFINE T == {i \in 0 .. n : f[i] # g[i]}
<1> SUFFICES ASSUME T # {} PROVE FALSE
  OBVIOUS
<1>1. T \subseteq Nat
  OBVIOUS
<1>2. PICK i \in T : \A m \in T : i <= m
  BY <1>1, LeastNumber, Zenon
<1>3. CASE i = 0
  BY <1>3, Zenon DEF Keeping
<1>4. CASE i # 0
  <2>1. i \in 1 .. n /\ i \in 1 .. Len(s) /\ i \in 1 .. Len(t) /\ i - 1 \in 0 .. n /\ i - 1 \notin T
    BY <1>2, <1>4
  <2>2. f[i - 1] = g[i - 1] /\ s[i] = t[i]
    BY <2>1, Zenon
  <2>3. f[i] = Keep(f[i - 1], s[i]) /\ g[i] = Keep(g[i - 1], t[i])
    BY <2>1, Zenon DEF Keeping
  <2>4. f[i] = g[i]
    BY <2>2, <2>3, Zenon
  <2> QED BY <2>4, Zenon
<1> QED BY <1>3, <1>4, Zenon

\* Reported goes through a queue from left to right.
LEMMA ReportedAppend ==
  ASSUME NEW S, NEW s \in Seq(S), NEW e \in S
  PROVE  Reported(Append(s, e)) = Keep(Reported(s), e)
<1> DEFINE t == Append(s, e)
<1>1. t \in Seq(S) /\ Len(t) = Len(s) + 1 /\ t[Len(s) + 1] = e /\ Len(s) \in Nat
      /\ \A i \in 1 .. Len(s) : t[i] = s[i]
  OBVIOUS
<1> HIDE DEF t
<1>2. PICK f : Keeping(f, s)
  BY ReportedSteps, Zenon
<1>3. PICK g : Keeping(g, t)
  BY <1>1, ReportedSteps, Zenon
<1>4. f[Len(s)] = g[Len(s)]
  <2>1. Len(s) <= Len(s) /\ Len(s) <= Len(t) /\ \A i \in 1 .. Len(s) : s[i] = t[i]
    BY <1>1
  <2> QED BY <1>1, <1>2, <1>3, <2>1, KeepingAgrees
<1>5. Len(t) \in 1 .. Len(t) /\ Len(t) - 1 = Len(s)
  BY <1>1
<1>6. g[Len(t)] = Keep(g[Len(t) - 1], t[Len(t)])
  BY <1>3, <1>5, Zenon DEF Keeping
<1>7. Reported(t) = g[Len(t)] /\ Reported(s) = f[Len(s)]
  BY <1>2, <1>3, Zenon DEF Keeping
<1>8. Reported(t) = Keep(Reported(s), e)
  BY <1>1, <1>4, <1>5, <1>6, <1>7, Zenon
<1> QED BY <1>8, Zenon DEF t

LEMMA ReportedEmpty == Reported(<<>>) = <<>>
<1>1. <<>> \in Seq({}) /\ Len(<<>>) = 0
  BY EmptySeq, Zenon
<1>2. PICK f : Keeping(f, <<>>)
  BY <1>1, ReportedSteps, Zenon
<1> QED BY <1>1, <1>2, Zenon DEF Keeping

LEMMA ReportedTyped ==
  ASSUME NEW S, NEW s \in Seq(S)
  PROVE  Reported(s) \in Seq(S)
<1>1. PICK f : Keeping(f, s)
  BY ReportedSteps, Zenon
<1> DEFINE T == {i \in 0 .. Len(s) : f[i] \notin Seq(S)}
<1>2. T = {}
  <2> SUFFICES ASSUME T # {} PROVE FALSE
    BY Zenon
  <2>1. T \subseteq Nat
    OBVIOUS
  <2>2. PICK i \in T : \A m \in T : i <= m
    BY <2>1, LeastNumber, Zenon
  <2>3. CASE i = 0
    <3>1. f[0] = <<>> /\ <<>> \in Seq(S)
      BY <1>1 DEF Keeping
    <3> QED BY <2>3, <3>1, Zenon
  <2>4. CASE i # 0
    <3>1. i \in 1 .. Len(s) /\ i - 1 \in 0 .. Len(s) /\ i - 1 \notin T /\ s[i] \in S
      BY <2>2, <2>4
    <3>2. f[i - 1] \in Seq(S)
      BY <3>1, Zenon
    <3>3. f[i] = Keep(f[i - 1], s[i])
      BY <1>1, <3>1, Zenon DEF Keeping
    <3>4. f[i] \in Seq(S)
      BY <3>1, <3>2, <3>3 DEF Keep
    <3> QED BY <3>4, Zenon
  <2> QED BY <2>3, <2>4, Zenon
<1>3. Len(s) \in 0 .. Len(s)
  OBVIOUS
<1> QED BY <1>1, <1>2, <1>3, Zenon DEF Keeping

\* Appending to the second part of a queue.
LEMMA AppendConcat ==
  ASSUME NEW S, NEW s \in Seq(S), NEW t \in Seq(S), NEW e \in S
  PROVE  s \o Append(t, e) = Append(s \o t, e)
<1>1. Append(t, e) = t \o <<e>> /\ <<e>> \in Seq(S) /\ s \o t \in Seq(S)
  BY AppendIsConcat, ConcatProperties
<1>2. Append(s \o t, e) = (s \o t) \o <<e>>
  BY <1>1, AppendIsConcat, Zenon
<1>3. (s \o t) \o <<e>> = s \o (t \o <<e>>)
  BY <1>1, ConcatAssociative
<1> QED BY <1>1, <1>2, <1>3, Zenon

\* The parts of a queue are reported one after the other.
LEMMA ReportedConcat ==
  ASSUME NEW S, NEW s \in Seq(S), NEW t \in Seq(S)
  PROVE  Reported(s \o t) = Reported(s) \o Reported(t)
<1> DEFINE P(n) == SubSeq(t, 1, n)
<1> DEFINE Splits(n) == Reported(s \o P(n)) = Reported(s) \o Reported(P(n))
<1> DEFINE T == {n \in 0 .. Len(t) : ~Splits(n)}
<1> HIDE DEF Splits
<1>0. Len(t) \in Nat /\ Reported(s) \in Seq(S)
  BY ReportedTyped
<1>1. T = {}
  <2> SUFFICES ASSUME T # {} PROVE FALSE
    BY Zenon
  <2>1. T \subseteq Nat
    OBVIOUS
  <2>2. PICK n \in T : \A m \in T : n <= m
    BY <2>1, LeastNumber, Zenon
  <2>3. n \in 0 .. Len(t) /\ ~Splits(n)
    BY Zenon
  <2>4. CASE n = 0
    <3>1. P(0) = <<>>
      <4>1. 1 \in Int /\ 0 \in Int /\ 0 < 1
        OBVIOUS
      <4> QED BY <4>1, SubSeqEmpty, Zenon
    <3>2. s \o <<>> = s /\ Reported(s) \o <<>> = Reported(s)
      BY <1>0, ConcatEmptySeq, Zenon
    <3> HIDE DEF P, T
    <3> QED BY <2>3, <2>4, <3>1, <3>2, ReportedEmpty, Zenon DEF Splits
  <2>5. CASE n # 0
    <3>1. n \in 1 .. Len(t) /\ n - 1 \in 0 .. Len(t) /\ n - 1 \notin T /\ 1 \in 1 .. Len(t)
      BY <2>2, <2>3, <2>5, <1>0
    <3>2. Reported(s \o P(n - 1)) = Reported(s) \o Reported(P(n - 1))
      <4>1. Splits(n - 1)
        BY <3>1, Zenon
      <4> QED BY <4>1, Zenon DEF Splits
    <3>3. P(n - 1) \in Seq(S) /\ t[n] \in S
      <4>1. \A i \in 1 .. n - 1 : t[i] \in S
        BY <3>1
      <4>2. 1 \in Int /\ n - 1 \in Int
        BY <3>1
      <4> QED BY <3>1, <4>1, <4>2, SubSeqProperties
    <3>4. P(n) = P(n - 1) \o <<t[n]>>
      BY <3>1, SubSeqRecursiveSecond, Zenon
    <3> HIDE DEF P, T
    <3> DEFINE p == P(n - 1)
    <3> DEFINE e == t[n]
    <3>5. P(n) = Append(p, e)
      BY <3>3, <3>4, AppendIsConcat
    <3>6. p \in Seq(S) /\ e \in S /\ Reported(s \o p) = Reported(s) \o Reported(p) /\ s \o p \in Seq(S)
          /\ Reported(p) \in Seq(S)
      BY <3>2, <3>3, ReportedTyped, ConcatProperties, Zenon
    <3> HIDE DEF p, e
    <3>7. Reported(s \o P(n)) = Keep(Reported(s \o p), e)
      <4>1. s \o P(n) = Append(s \o p, e)
        BY <3>5, <3>6, AppendConcat
      <4> QED BY <3>6, <4>1, ReportedAppend, Zenon
    <3>8. Reported(P(n)) = Keep(Reported(p), e)
      BY <3>5, <3>6, ReportedAppend, Zenon
    <3>9. Keep(Reported(s) \o Reported(p), e) = Reported(s) \o Keep(Reported(p), e)
      <4>1. Reported(s) \o Append(Reported(p), e) = Append(Reported(s) \o Reported(p), e)
        <5>1. ASSUME NEW x \in Seq(S), NEW y \in Seq(S) PROVE x \o Append(y, e) = Append(x \o y, e)
          BY <3>6, AppendConcat
        <5> QED BY <1>0, <3>6, <5>1, Zenon
      <4> QED BY <4>1, Zenon DEF Keep
    <3> QED BY <2>3, <3>6, <3>7, <3>8, <3>9, Zenon DEF Splits
  <2> QED BY <2>4, <2>5, Zenon
<1>2. Len(t) \notin T /\ Len(t) \in 0 .. Len(t)
  BY <1>0, <1>1
<1>3. P(Len(t)) = t
  BY SubSeqFull, Zenon
<1>4. Reported(s \o P(Len(t))) = Reported(s) \o Reported(P(Len(t)))
  <2>1. Splits(Len(t))
    BY <1>2, Zenon
  <2> QED BY <2>1, Zenon DEF Splits
<1> HIDE DEF P, T
<1> QED BY <1>3, <1>4, Zenon

\* The first event of a queue, reported or left out.
LEMMA ReportedHead ==
  ASSUME NEW S, NEW s \in Seq(S), s # <<>>
  PROVE  /\ Head(s) \in S /\ Tail(s) \in Seq(S)
         /\ s = <<Head(s)>> \o Tail(s)
         /\ Head(s) = Overflow => Reported(s) = Reported(Tail(s))
         /\ Head(s) # Overflow => Reported(s) = <<Head(s)>> \o Reported(Tail(s))
<1> DEFINE h == Head(s)
<1> DEFINE t == Tail(s)
<1>1. h \in S /\ t \in Seq(S) /\ s = <<h>> \o t /\ <<h>> \in Seq(S)
  BY HeadTailProperties
<1> HIDE DEF h, t
<1>2. Reported(s) = Reported(<<h>>) \o Reported(t) /\ Reported(t) \in Seq(S)
  BY <1>1, ReportedConcat, ReportedTyped, Zenon
<1>3. Reported(<<h>>) = Keep(<<>>, h)
  <2>1. <<>> \in Seq(S) /\ <<h>> = Append(<<>>, h)
    BY <1>1
  <2>2. Reported(Append(<<>>, h)) = Keep(Reported(<<>>), h)
    BY <1>1, <2>1, ReportedAppend, Zenon
  <2> QED BY <2>1, <2>2, ReportedEmpty, Zenon
<1>4. CASE h = Overflow
  <2>1. <<>> \o Reported(t) = Reported(t)
    BY <1>2, ConcatEmptySeq, Zenon
  <2> QED BY <1>1, <1>2, <1>3, <1>4, <2>1, Zenon DEF Keep, h, t
<1>5. CASE h # Overflow
  <2>1. Append(<<>>, h) = <<h>>
    BY <1>1
  <2> QED BY <1>1, <1>2, <1>3, <1>5, <2>1, Zenon DEF Keep, h, t
<1> QED BY <1>4, <1>5, Zenon

\* A queue without its event i, and without the event in its middle.
Dropped(s, i) == SubSeq(s, 1, i - 1) \o SubSeq(s, i + 1, Len(s))

Middle(a, h, b) ==
  /\ Len(a) + 1 \in DOMAIN (a \o (<<h>> \o b))
  /\ Dropped(a \o (<<h>> \o b), Len(a) + 1) = a \o b

LEMMA RemoveMiddle ==
  ASSUME NEW S, NEW a \in Seq(S), NEW h \in S, NEW b \in Seq(S)
  PROVE  Middle(a, h, b)
<1> DEFINE c == <<h>> \o b
<1> DEFINE x == a \o c
<1>1. /\ Len(a) \in Nat /\ Len(b) \in Nat
      /\ c \in Seq(S) /\ Len(c) = Len(b) + 1 /\ \A i \in 1 .. Len(b) : c[i + 1] = b[i]
  <2>1. <<h>> \in Seq(S) /\ Len(<<h>>) = 1 /\ Len(a) \in Nat /\ Len(b) \in Nat
    OBVIOUS
  <2>2. /\ c \in Seq(S) /\ Len(c) = 1 + Len(b)
        /\ \A i \in 1 .. 1 + Len(b) : c[i] = IF i <= 1 THEN <<h>>[i] ELSE b[i - 1]
    BY <2>1, ConcatProperties
  <2> HIDE DEF c
  <2>3. ASSUME NEW i \in 1 .. Len(b) PROVE c[i + 1] = b[i]
    <3>1. i + 1 \in 1 .. 1 + Len(b) /\ ~(i + 1 <= 1) /\ (i + 1) - 1 = i
      BY <2>1
    <3> QED BY <2>2, <3>1, Zenon
  <2> QED BY <2>1, <2>2, <2>3
<1> HIDE DEF c
<1>2. /\ x \in Seq(S) /\ Len(x) = Len(a) + 1 + Len(b)
      /\ \A i \in 1 .. Len(a) : x[i] = a[i]
      /\ \A i \in 1 .. Len(b) : x[Len(a) + 1 + i] = b[i]
  <2>1. /\ x \in Seq(S) /\ Len(x) = Len(a) + Len(c)
        /\ \A i \in 1 .. Len(a) + Len(c) : x[i] = IF i <= Len(a) THEN a[i] ELSE c[i - Len(a)]
    BY <1>1, ConcatProperties, Zenon
  <2> HIDE DEF x
  <2>2. ASSUME NEW i \in 1 .. Len(a) PROVE x[i] = a[i]
    BY <1>1, <2>1
  <2>3. ASSUME NEW i \in 1 .. Len(b) PROVE x[Len(a) + 1 + i] = b[i]
    <3>1. /\ Len(a) + 1 + i \in 1 .. Len(a) + Len(c) /\ ~(Len(a) + 1 + i <= Len(a))
          /\ (Len(a) + 1 + i) - Len(a) = i + 1
      BY <1>1
    <3>2. x[Len(a) + 1 + i] = c[i + 1]
      BY <2>1, <3>1, Zenon
    <3> QED BY <1>1, <3>2, Zenon
  <2> QED BY <1>1, <2>1, <2>2, <2>3
<1> HIDE DEF x
<1>3. SubSeq(x, 1, Len(a)) = a
  <2>1. \A i \in 1 .. Len(a) : x[i] \in S
    BY <1>2
  <2>2. /\ SubSeq(x, 1, Len(a)) \in Seq(S)
        /\ Len(SubSeq(x, 1, Len(a))) = IF 1 <= Len(a) THEN Len(a) - 1 + 1 ELSE 0
        /\ \A i \in 1 .. Len(a) - 1 + 1 : SubSeq(x, 1, Len(a))[i] = x[1 + i - 1]
    BY <1>1, <2>1, SubSeqProperties
  <2> DEFINE y == SubSeq(x, 1, Len(a))
  <2> HIDE DEF y
  <2>3. Len(y) = Len(a) /\ \A i \in 1 .. Len(y) : y[i] = a[i]
    BY <1>1, <1>2, <2>2 DEF y
  <2> QED BY <2>2, <2>3, SeqEqual, Zenon DEF y
<1>4. SubSeq(x, Len(a) + 2, Len(x)) = b
  <2> DEFINE m == Len(a) + 2
  <2> DEFINE n == Len(x)
  <2>1. m \in Int /\ n \in Int /\ n - m + 1 = Len(b) /\ (m <= n <=> Len(b) # 0)
    BY <1>1, <1>2
  <2>2. \A i \in m .. n : x[i] \in S
    BY <1>1, <1>2
  <2> HIDE DEF m, n
  <2> DEFINE y == SubSeq(x, m, n)
  <2>3. /\ y \in Seq(S) /\ Len(y) = IF m <= n THEN n - m + 1 ELSE 0
        /\ \A i \in 1 .. n - m + 1 : y[i] = x[m + i - 1]
    BY <2>1, <2>2, SubSeqProperties
  <2> HIDE DEF y
  <2>4. Len(y) = Len(b)
    BY <1>1, <2>1, <2>3, Zenon
  <2>5. ASSUME NEW i \in 1 .. Len(y) PROVE y[i] = b[i]
    <3>1. m + i - 1 = Len(a) + 1 + i /\ i \in 1 .. Len(b)
      BY <1>1, <2>4 DEF m
    <3> QED BY <1>2, <2>1, <2>3, <3>1, Zenon
  <2> QED BY <2>3, <2>4, <2>5, SeqEqual, Zenon DEF y, m, n
<1>5. Len(a) + 1 \in DOMAIN x
  BY <1>1, <1>2
<1>6. Dropped(x, Len(a) + 1) = SubSeq(x, 1, (Len(a) + 1) - 1) \o SubSeq(x, (Len(a) + 1) + 1, Len(x))
  BY Zenon DEF Dropped
<1>7. (Len(a) + 1) - 1 = Len(a) /\ (Len(a) + 1) + 1 = Len(a) + 2
  BY <1>1
<1> QED BY <1>3, <1>4, <1>5, <1>6, <1>7, Zenon DEF Middle, x, c

(***************************************************************************)
(* Losses are for ever.                                                    *)
(***************************************************************************)
\* Lossy, without a descriptor that AddWatch will not record.
Firm ==
  \/ lost \/ paths \ watched # {}
  \/ cpc = "record" /\ wd \notin watched /\ \A w \in paths : w[1] # cur

\* The strengthening that the refinement needs: nothing was lost before the
\* state stopped being intact, a descriptor without a watch is not one that the
\* kernel would give out again, and generations count the changes of the tree.
StreamInv ==
  /\ Firm \/ Intact
  /\ \A w \in Recorded \ watched : ~(w[1] \in exists /\ w = Current(w[1]))
  /\ \A w \in Recorded : w[2] <= gen[w[1]]
  /\ \A d \in Dir \cup {Root} : gen[d] <= changes

\* A change of the tree does not undo a loss.
LEMMA TreeFirm ==
  ASSUME WInv, Environment, Firm
  PROVE  Firm'
<1>1. TreeStep /\ UNCHANGED <<paths, cpc, cur, wd>>
  BY EnvironmentEffect, TreeFlow, Zenon
<1>2. watched' \subseteq watched
  BY <1>1, Zenon DEF TreeStep
<1>3. lost => lost'
  BY <1>1, Zenon DEF TreeStep, Emit
<1> QED BY <1>1, <1>2, <1>3, Zenon DEF Firm

\* A directory with a watch that goes is a loss.
LEMMA TreeLoses ==
  ASSUME WInv, BasicInv, Environment, Intact
  PROVE  Firm' \/ Intact'
<1>1. UNCHANGED <<paths, cpc, cur, wd>>
  BY TreeFlow, Zenon
<1>2. CASE WatchedVanishes
  <2>1. PICK d \in Dir : Vanish(d) /\ Current(d) \in watched
    BY <1>2, Zenon DEF WatchedVanishes
  <2>2. watched' = watched \ {Current(d)}
    BY <2>1, Zenon DEF Vanish
  <2>3. CASE Current(d) \in paths
    BY <1>1, <2>2, <2>3, Zenon DEF Firm
  <2>4. CASE Current(d) \notin paths
    <3>1. cpc = "record" /\ wd = Current(d) /\ wd[1] = cur
      BY <2>1, <2>4, Zenon DEF Intact, Recorded
    <3>2. \A w \in paths : w[1] # cur
      BY <2>4, <3>1, Zenon DEF Intact
    <3> QED BY <1>1, <2>2, <3>1, <3>2, Zenon DEF Firm
  <2> QED BY <2>3, <2>4, Zenon
<1> QED BY <1>2, TreeIntact, Zenon DEF Firm

\* Generations under a change of the tree.
LEMMA TreeGenerations ==
  ASSUME WInv, BasicInv, StreamInv, Environment
  PROVE  /\ \A w \in Recorded' \ watched' : ~(w[1] \in exists' /\ w = Current(w[1])')
         /\ \A w \in Recorded' : w[2] <= gen'[w[1]]
         /\ \A d \in Dir \cup {Root} : gen'[d] <= changes'
<1>0. /\ Recorded' = Recorded /\ gen \in [Dir \cup {Root} -> Nat] /\ changes \in Nat
      /\ \A w \in Recorded : w[1] \in Dir \cup {Root} /\ w[2] \in Nat
      /\ exists \subseteq Dir \cup {Root}
  BY TreeFlow DEF WInv, TypeOK, Recorded, WD
<1>1. ASSUME NEW d \in Dir, Appear(d)
      PROVE  /\ \A w \in Recorded' \ watched' : ~(w[1] \in exists' /\ w = Current(w[1])')
             /\ \A w \in Recorded' : w[2] <= gen'[w[1]]
             /\ \A x \in Dir \cup {Root} : gen'[x] <= changes'
  <2>1. PICK sub \in SUBSET {c \in Dir : Parent[c] = d} :
           /\ exists' = exists \cup {d} \cup sub
           /\ gen' = [x \in DOMAIN gen |-> IF x \in {d} \cup sub THEN gen[x] + 1 ELSE gen[x]]
    BY <1>1, Zenon DEF Appear
  <2>2. watched' = watched /\ changes' = changes + 1
    BY <1>1, Zenon DEF Appear, Change
  <2>3. \A x \in Dir \cup {Root} : gen'[x] = IF x \in {d} \cup sub THEN gen[x] + 1 ELSE gen[x]
    BY <1>0, <2>1, Zenon
  <2>4. \A x \in Dir \cup {Root} : gen[x] \in Nat /\ gen[x] <= changes
    BY <1>0, Zenon DEF StreamInv
  <2>5. ASSUME NEW w \in Recorded' \ watched', w[1] \in exists', w = Current(w[1])' PROVE FALSE
    <3>1. w \in Recorded \ watched /\ w[1] \in Dir \cup {Root} /\ w[2] \in Nat /\ w[2] <= gen[w[1]]
      BY <1>0, <2>2, <2>5, Zenon DEF StreamInv
    <3>2. w = <<w[1], gen'[w[1]]>>
      BY <2>5, Zenon DEF Current
    <3>3. CASE w[1] \in {d} \cup sub
      <4>1. gen'[w[1]] = gen[w[1]] + 1 /\ w[2] = gen'[w[1]] /\ gen[w[1]] \in Nat
        BY <2>3, <2>4, <3>1, <3>2, <3>3
      <4> QED BY <3>1, <4>1
    <3>4. CASE w[1] \notin {d} \cup sub
      <4>1. w[1] \in exists /\ w = Current(w[1])
        BY <2>1, <2>3, <2>5, <3>1, <3>2, <3>4, Zenon DEF Current
      <4> QED BY <3>1, <4>1, Zenon DEF StreamInv
    <3> QED BY <3>3, <3>4, Zenon
  <2>6. ASSUME NEW w \in Recorded PROVE w[2] <= gen'[w[1]]
    <3>1. w[1] \in Dir \cup {Root} /\ w[2] \in Nat /\ w[2] <= gen[w[1]]
      BY <1>0, Zenon DEF StreamInv
    <3>2. gen[w[1]] \in Nat /\ (gen'[w[1]] = gen[w[1]] \/ gen'[w[1]] = gen[w[1]] + 1)
      BY <2>3, <2>4, <3>1, Zenon
    <3> QED BY <3>1, <3>2
  <2>7. ASSUME NEW x \in Dir \cup {Root} PROVE gen'[x] <= changes'
    <3>1. gen[x] \in Nat /\ gen[x] <= changes /\ (gen'[x] = gen[x] \/ gen'[x] = gen[x] + 1)
      BY <2>3, <2>4, Zenon
    <3> QED BY <1>0, <2>2, <3>1
  <2> QED BY <1>0, <2>5, <2>6, <2>7, Zenon
<1>2. ASSUME gen' = gen, exists' \subseteq exists, Change,
             \A w \in watched \ watched' : w[1] \notin exists'
      PROVE  /\ \A w \in Recorded' \ watched' : ~(w[1] \in exists' /\ w = Current(w[1])')
             /\ \A w \in Recorded' : w[2] <= gen'[w[1]]
             /\ \A x \in Dir \cup {Root} : gen'[x] <= changes'
  <2>1. changes' = changes + 1
    BY <1>2, Zenon DEF Change
  <2>2. ASSUME NEW w \in Recorded' \ watched', w[1] \in exists', w = Current(w[1])' PROVE FALSE
    <3>1. w \in Recorded \ watched
      BY <1>0, <1>2, <2>2, Zenon
    <3>2. w[1] \in exists /\ w = Current(w[1])
      BY <1>2, <2>2, Zenon DEF Current
    <3> QED BY <3>1, <3>2, Zenon DEF StreamInv
  <2>3. \A w \in Recorded : w[2] <= gen'[w[1]]
    BY <1>2, Zenon DEF StreamInv
  <2>4. ASSUME NEW x \in Dir \cup {Root} PROVE gen'[x] <= changes'
    <3>1. gen[x] \in Nat /\ gen[x] <= changes
      BY <1>0, Zenon DEF StreamInv
    <3> QED BY <1>0, <1>2, <2>1, <3>1
  <2> QED BY <1>0, <2>2, <2>3, <2>4, Zenon
<1>3. ASSUME NEW d \in Dir, Vanish(d)
      PROVE  gen' = gen /\ exists' \subseteq exists /\ Change /\ \A w \in watched \ watched' : w[1] \notin exists'
  <2>1. /\ gen' = gen /\ exists' = exists \ ({d} \cup Below(d)) /\ Change
        /\ watched' = watched \ {Current(d)}
    BY <1>3, Zenon DEF Vanish
  <2> QED BY <2>1 DEF Current
<1>4. ASSUME NEW d \in Dir \cup {Root}, FileActivity(d)
      PROVE  gen' = gen /\ exists' \subseteq exists /\ Change /\ watched' = watched
  BY <1>4, Zenon DEF FileActivity
<1> QED BY <1>1, <1>2, <1>3, <1>4, Zenon DEF Environment

LEMMA TreeStream ==
  ASSUME WInv, BasicInv, StreamInv, Environment
  PROVE  StreamInv'
<1>1. Firm' \/ Intact'
  BY TreeFirm, TreeLoses, Zenon DEF StreamInv
<1>2. /\ \A w \in Recorded' \ watched' : ~(w[1] \in exists' /\ w = Current(w[1])')
      /\ \A w \in Recorded' : w[2] <= gen'[w[1]]
      /\ \A d \in Dir \cup {Root} : gen'[d] <= changes'
  BY TreeGenerations, Zenon
<1>3. \A w : Current(w[1])' = <<w[1], gen'[w[1]]>>
  BY Zenon DEF Current
<1> QED BY <1>1, <1>2, <1>3, Zenon DEF StreamInv, Current

\* A step that changes neither the tree nor the watches nor the maps.
LEMMA PlainStream ==
  ASSUME UNCHANGED <<gen, exists, changes, watched, lost, paths>>,
         \/ cpc # "record" /\ cpc' # "record"
         \/ UNCHANGED <<cpc, cur, wd>>,
         Intact => Intact', StreamInv
  PROVE  StreamInv' /\ (Lossy' <=> Lossy)
<1>1. Recorded' = Recorded
  BY Zenon DEF Recorded
<1>2. Firm' <=> Firm
  BY Zenon DEF Firm
<1>3. \A d : Current(d)' = Current(d)
  BY Zenon DEF Current
<1>4. Lossy' <=> Lossy
  BY Zenon DEF Lossy
<1> QED BY <1>1, <1>2, <1>3, <1>4, Zenon DEF StreamInv

\* The system call of AddWatch watches no directory twice.
LEMMA AddStream ==
  ASSUME WInv, BasicInv, StreamInv, InotifyAddWatch
  PROVE  StreamInv' /\ (Lossy' <=> Lossy)
<1>0. /\ UNCHANGED <<gen, exists, changes, lost, paths, cur>> /\ cpc = "add" /\ (Intact => Intact')
      /\ cur \in Dir \cup {Root} /\ gen \in [Dir \cup {Root} -> Nat]
  BY WalkIntact, Zenon DEF InotifyAddWatch, AddWatch, dirVars, WInv, TypeOK
<1>1. CASE cur \notin exists
  <2>1. cpc' = "closing" /\ watched' = watched
    BY <1>1, Zenon DEF InotifyAddWatch
  <2> QED BY <1>0, <2>1, PlainStream, Zenon
<1>2. CASE cur \in exists
  <2> DEFINE c == Current(cur)
  <2>1. cpc' = "record" /\ wd' = c /\ watched' = watched \cup {c}
    BY <1>2, Zenon DEF InotifyAddWatch
  <2>2. c = <<cur, gen[cur]>> /\ c[1] = cur /\ c[2] = gen[cur]
    BY Zenon DEF Current
  <2>3. Recorded = paths /\ Recorded' = paths \cup {c}
    BY <1>0, <2>1, Zenon DEF Recorded
  <2>4. c \notin paths \ watched
    BY <1>2, <2>2, <2>3, Zenon DEF StreamInv
  <2>5. paths' \ watched' = paths \ watched /\ Recorded' \ watched' = Recorded \ watched /\ wd' \in watched'
    BY <1>0, <2>1, <2>3, <2>4, Zenon
  <2>6. Firm => Firm'
    BY <1>0, <2>5, Zenon DEF Firm
  <2>7. Lossy' <=> Lossy
    BY <1>0, <2>5, Zenon DEF Lossy
  <2>8. \A d : Current(d)' = Current(d)
    BY <1>0, Zenon DEF Current
  <2>9. \A w \in Recorded' : w[2] <= gen'[w[1]]
    <3>1. gen[cur] \in Nat
      BY <1>0, Zenon
    <3>2. c[2] <= gen[c[1]]
      BY <2>2, <3>1
    <3> HIDE DEF c
    <3> QED BY <1>0, <2>3, <3>2, Zenon DEF StreamInv
  <2> HIDE DEF c
  <2> QED BY <1>0, <2>5, <2>6, <2>7, <2>8, <2>9 DEF StreamInv
<1> QED BY <1>1, <1>2, Zenon

\* What AddWatch records is watched, or a loss already.
LEMMA RecordStream ==
  ASSUME WInv, BasicInv, StreamInv, AddWatchRecord
  PROVE  StreamInv' /\ (Lossy' <=> Lossy)
<1>0. /\ UNCHANGED <<gen, exists, changes, lost, watched, cur, wd>> /\ cpc = "record" /\ cpc' = "list"
      /\ (Intact => Intact')
      /\ paths' = IF \E w \in paths : w[1] = cur THEN paths ELSE paths \cup {wd}
  BY WalkIntact, Zenon DEF AddWatchRecord, AddWatch, quiet, dirVars, kernelVars
<1>1. Recorded = paths \cup {wd} /\ Recorded' = paths' /\ paths \subseteq paths' /\ paths' \subseteq Recorded
  BY <1>0, Zenon DEF Recorded
<1>2. Firm => Firm'
  BY <1>0, <1>1, Zenon DEF Firm
<1>3. \A d : Current(d)' = Current(d)
  BY <1>0, Zenon DEF Current
<1>4. StreamInv'
  BY <1>0, <1>1, <1>2, <1>3 DEF StreamInv
<1>5. Firm => Lossy
  BY Zenon DEF Firm, Lossy
<1>6. Firm' => Lossy'
  BY Zenon DEF Firm, Lossy
<1>7. CASE Intact
  <2>1. wd \in watched /\ paths \subseteq watched
    BY <1>0, <1>7, Zenon DEF Intact
  <2>2. paths' \ watched' = {} /\ paths \ watched = {}
    BY <1>0, <1>1, <2>1, Zenon
  <2> QED BY <1>0, <1>4, <2>1, <2>2, Zenon DEF Lossy
<1> QED BY <1>2, <1>4, <1>5, <1>6, <1>7, Zenon DEF StreamInv

\* addDirectoryWatches does not change what is lost.
LEMMA WalkStream ==
  ASSUME WInv, BasicInv, StreamInv, AddWatch
  PROVE  StreamInv' /\ (Lossy' <=> Lossy)
<1>1. CASE WalkNext \/ AddWatchLock \/ ReadDir
  <2>1. UNCHANGED <<gen, exists, changes, watched, lost, paths>> /\ cpc # "record" /\ cpc' # "record"
    <3>1. CASE WalkNext
      BY <3>1, Zenon DEF WalkNext, quiet, dirVars, kernelVars
    <3>2. CASE AddWatchLock
      BY <3>2, Zenon DEF AddWatchLock, quiet, dirVars, kernelVars
    <3>3. CASE ReadDir
      BY <3>3, Zenon DEF ReadDir, quiet, dirVars, kernelVars
    <3> QED BY <1>1, <3>1, <3>2, <3>3
  <2> QED BY <2>1, PlainStream, WalkIntact, Zenon
<1> QED BY <1>1, AddStream, RecordStream, Zenon DEF AddWatch

(***************************************************************************)
(* Every step is one of EventStream.                                       *)
(***************************************************************************)
Events == [kind : {"create", "self", "file"}, wd : (Dir \cup {Root}) \X (0 .. MaxChanges),
           dir : Dir \cup {Root}]

StreamStep == [Stream!Next]_<<InOrder, Lossy>>

\* The forms that a step can have.
LEMMA StepLoses ==
  ASSUME InOrder' = InOrder, Lossy => Lossy'
  PROVE  StreamStep
<1>1. CASE Lossy'
  <2>1. Lossy' = TRUE
    BY <1>1, Zenon DEF Lossy
  <2>2. Stream!Lose
    BY <2>1, Zenon DEF Stream!Lose
  <2> QED BY <2>2, Zenon DEF StreamStep, Stream!Next
<1>2. CASE ~Lossy' /\ ~Lossy
  <2>1. Lossy' = Lossy
    BY <1>2, Zenon DEF Lossy
  <2> QED BY <2>1, Zenon DEF StreamStep
<1> QED BY <1>1, <1>2, Zenon

LEMMA StepSends ==
  ASSUME NEW e \in Events, InOrder' = Append(InOrder, e), Lossy => Lossy'
  PROVE  StreamStep
<1>1. Lossy' = Lossy \/ Lossy' = TRUE
  <2>1. CASE Lossy'
    BY <2>1, Zenon DEF Lossy
  <2>2. CASE ~Lossy' /\ ~Lossy
    BY <2>2, Zenon DEF Lossy
  <2> QED BY <2>1, <2>2, Zenon
<1>2. Lossy' \in {Lossy, TRUE}
  BY <1>1, Zenon
<1>3. Stream!Send(e)
  BY <1>2, Zenon DEF Stream!Send
<1>4. CASE InOrder' = InOrder
  BY <1>4, StepLoses, Zenon
<1>5. CASE InOrder' # InOrder
  BY <1>3, <1>5, Zenon DEF StreamStep, Stream!Next, Events
<1> QED BY <1>4, <1>5, Zenon

LEMMA StepDrops ==
  ASSUME Lossy, Lossy', NEW i \in DOMAIN InOrder, InOrder' = Dropped(InOrder, i)
  PROVE  StreamStep
<1>1. InOrder' = SubSeq(InOrder, 1, i - 1) \o SubSeq(InOrder, i + 1, Len(InOrder))
  BY Zenon DEF Dropped
<1>2. Lossy' = Lossy
  BY Zenon DEF Lossy
<1>3. Stream!Gap
  BY <1>1, <1>2, Zenon DEF Stream!Gap
<1> QED BY <1>3, Zenon DEF StreamStep, Stream!Next

LEMMA StepReceives ==
  ASSUME InOrder # <<>>, InOrder' = Tail(InOrder), Lossy' <=> Lossy
  PROVE  StreamStep
<1>1. Lossy' = Lossy
  BY Zenon DEF Lossy
<1>2. Stream!Receive
  BY <1>1, Zenon DEF Stream!Receive
<1> QED BY <1>2, Zenon DEF StreamStep, Stream!Next

\* The stream in its parts.
Parts(a, b, c) ==
  /\ a \o b \o c = a \o (b \o c)
  /\ Reported(a \o b \o c) = Reported(a) \o (Reported(b) \o Reported(c))

LEMMA ThreeParts ==
  ASSUME NEW S, NEW a \in Seq(S), NEW b \in Seq(S), NEW c \in Seq(S)
  PROVE  Parts(a, b, c)
<1>1. (a \o b) \o c = a \o (b \o c) /\ b \o c \in Seq(S)
  BY ConcatAssociative, ConcatProperties
<1>2. Reported(a \o (b \o c)) = Reported(a) \o Reported(b \o c)
  BY <1>1, ReportedConcat, Zenon
<1>3. Reported(b \o c) = Reported(b) \o Reported(c)
  BY ReportedConcat, Zenon
<1> QED BY <1>1, <1>2, <1>3, Zenon DEF Parts

\* An event that the kernel queues is sent, one that it drops is lost.
LEMMA EmitStep ==
  ASSUME WInv, NEW kind \in {"create", "self", "file"}, NEW x \in Dir \cup {Root}, NEW d \in Dir \cup {Root},
         gen[x] \in 0 .. MaxChanges,
         Emit(kind, Current(x), d), UNCHANGED <<buf, Event>>, Lossy => Lossy'
  PROVE  StreamStep
<1> DEFINE e == [kind |-> kind, wd |-> Current(x), dir |-> d]
<1> DEFINE a == Event \o buf
<1>0. kernelQ \in Seq(EventType) /\ a \in Seq(EventType) /\ Overflow \in EventType
  BY ConcatProperties, Zenon DEF WInv, TypeOK, EventType, Overflow
<1>1. e \in Events /\ e \in EventType /\ e # Overflow
  BY DEF Events, Current, EventType, WD, Overflow
<1>2. InOrder = Reported(a \o kernelQ) /\ InOrder' = Reported(a \o kernelQ')
  BY Zenon DEF InOrder
<1> HIDE DEF e, a
<1>3. ASSUME NEW y \in EventType, kernelQ' = Append(kernelQ, y) PROVE InOrder' = Keep(InOrder, y)
  <2>1. a \o kernelQ' = Append(a \o kernelQ, y) /\ a \o kernelQ \in Seq(EventType)
    BY <1>0, <1>3, AppendConcat, ConcatProperties
  <2>2. Reported(Append(a \o kernelQ, y)) = Keep(Reported(a \o kernelQ), y)
    BY <2>1, ReportedAppend, Zenon
  <2> QED BY <1>2, <2>1, <2>2, Zenon
<1>4. CASE kernelQ' = kernelQ
  BY <1>2, <1>4, StepLoses, Zenon
<1>5. CASE kernelQ' = Append(kernelQ, Overflow)
  <2>1. InOrder' = Keep(InOrder, Overflow)
    BY <1>0, <1>3, <1>5, Zenon
  <2>2. InOrder' = InOrder
    BY <2>1, Zenon DEF Keep
  <2> QED BY <2>2, StepLoses, Zenon
<1>6. CASE kernelQ' = Append(kernelQ, e)
  <2>1. InOrder' = Keep(InOrder, e)
    BY <1>1, <1>3, <1>6, Zenon
  <2>2. InOrder' = Append(InOrder, e)
    BY <1>1, <2>1, Zenon DEF Keep
  <2> QED BY <1>1, <2>2, StepSends, Zenon
<1>7. kernelQ' = kernelQ \/ kernelQ' = Append(kernelQ, Overflow) \/ kernelQ' = Append(kernelQ, e)
  BY Zenon DEF Emit, e
<1> QED BY <1>4, <1>5, <1>6, <1>7, Zenon

\* A change of the tree.
LEMMA TreeMoves ==
  ASSUME WInv, StreamInv, Environment
  PROVE  StreamStep
<1>0. TreeStep /\ UNCHANGED <<buf, Event, paths, cpc, wd>>
  BY EnvironmentEffect, TreeFlow, Zenon
<1>1. watched' \subseteq watched /\ (lost => lost')
  BY <1>0, Zenon DEF TreeStep, Emit
<1>2. Lossy => Lossy'
  BY <1>0, <1>1, Zenon DEF Lossy
<1>3. ASSUME NEW x \in Dir \cup {Root} PROVE gen[x] \in 0 .. MaxChanges
  <2>1. gen[x] \in Nat /\ changes \in 0 .. MaxChanges /\ MaxChanges \in Nat
    BY WatcherAssumption, Zenon DEF WInv, TypeOK
  <2>2. gen[x] <= changes
    BY Zenon DEF StreamInv
  <2> QED BY <2>1, <2>2
<1>4. ASSUME NEW d \in Dir, Appear(d) PROVE StreamStep
  <2>1. Emit("create", Current(Parent[d]), d) /\ Parent[d] \in Dir \cup {Root}
    BY <1>4, Zenon DEF Appear, WInv, TypeOK
  <2> QED BY <1>0, <1>2, <1>3, <2>1, EmitStep
<1>5. ASSUME NEW d \in Dir, Vanish(d) PROVE StreamStep
  <2>1. Emit("self", Current(d), d)
    BY <1>5, Zenon DEF Vanish
  <2> QED BY <1>0, <1>2, <1>3, <2>1, EmitStep
<1>6. ASSUME NEW d \in Dir \cup {Root}, FileActivity(d) PROVE StreamStep
  <2>1. Emit("file", Current(d), d)
    BY <1>6, Zenon DEF FileActivity
  <2> QED BY <1>0, <1>2, <1>3, <2>1, EmitStep
<1> QED BY <1>4, <1>5, <1>6, Zenon DEF Environment

\* An event that the reader drops: something was lost before.
LEMMA DropMoves ==
  ASSUME WInv, BasicInv, StreamInv, Lookup, Head(buf).wd \notin paths, Lossy' <=> Lossy
  PROVE  StreamStep
<1> DEFINE h == Head(buf)
<1>0. /\ buf \in Seq(EventType) /\ kernelQ \in Seq(EventType) /\ Event \in Seq(EventType) /\ buf # <<>>
      /\ h # Overflow /\ mu = "free" /\ buf' = Tail(buf) /\ UNCHANGED <<kernelQ, Event>>
  BY Zenon DEF WInv, TypeOK, QueueInv, Lookup, NextBuffered, kernelVars
<1>1. /\ h \in EventType /\ Tail(buf) \in Seq(EventType) /\ buf = <<h>> \o Tail(buf)
      /\ Reported(buf) = <<h>> \o Reported(Tail(buf))
  BY <1>0, ReportedHead, Zenon
<1>2. h \in InFlight
  <2>1. Range(buf) = {h} \cup Range(Tail(buf))
    BY <1>0, RangeTail, Zenon
  <2> QED BY <2>1, Zenon DEF InFlight
<1>3. Lossy
  <2>1. cpc # "record"
    BY <1>0, Zenon DEF BasicInv
  <2>2. CASE Intact
    <3>1. h.wd \in paths
      BY <1>0, <1>2, <2>1, <2>2 DEF Intact, Recorded
    <3> QED BY <3>1, Zenon
  <2>3. CASE Firm
    BY <2>3, Zenon DEF Firm, Lossy
  <2> QED BY <2>2, <2>3, Zenon DEF StreamInv
<1> DEFINE a == Reported(Event)
<1> DEFINE r == Reported(Tail(buf))
<1> DEFINE k == Reported(kernelQ)
<1> HIDE DEF h
<1>4. /\ a \in Seq(EventType) /\ r \in Seq(EventType) /\ k \in Seq(EventType) /\ <<h>> \in Seq(EventType)
      /\ InOrder = a \o ((<<h>> \o r) \o k)
      /\ InOrder' = a \o (r \o k)
  <2>1. Reported(Event \o buf \o kernelQ) = Reported(Event) \o (Reported(buf) \o Reported(kernelQ))
    <3>1. Parts(Event, buf, kernelQ)
      BY <1>0, ThreeParts, Zenon
    <3> QED BY <3>1, Zenon DEF Parts
  <2>2. Reported(Event \o Tail(buf) \o kernelQ) = a \o (r \o k)
    <3>1. Parts(Event, Tail(buf), kernelQ)
      BY <1>0, <1>1, ThreeParts, Zenon
    <3> QED BY <3>1, Zenon DEF Parts
  <2>5. a \in Seq(EventType) /\ r \in Seq(EventType) /\ k \in Seq(EventType)
    BY <1>0, <1>1, ReportedTyped, Zenon
  <2>3. InOrder' = Reported(Event \o Tail(buf) \o kernelQ)
    BY <1>0, Zenon DEF InOrder
  <2>4. <<h>> \in Seq(EventType)
    BY <1>1
  <2> QED BY <1>1, <2>1, <2>2, <2>3, <2>4, <2>5, Zenon DEF InOrder
<1> HIDE DEF a, r, k
<1>5. (<<h>> \o r) \o k = <<h>> \o (r \o k) /\ r \o k \in Seq(EventType)
  BY <1>4, ConcatAssociative, ConcatProperties
<1>6. /\ Len(a) + 1 \in DOMAIN (a \o (<<h>> \o (r \o k)))
      /\ Dropped(a \o (<<h>> \o (r \o k)), Len(a) + 1) = a \o (r \o k)
  <2>1. Middle(a, h, r \o k)
    BY <1>1, <1>4, <1>5, RemoveMiddle, Zenon
  <2> QED BY <2>1, Zenon DEF Middle
<1>7. Len(a) + 1 \in DOMAIN InOrder /\ InOrder' = Dropped(InOrder, Len(a) + 1)
  BY <1>4, <1>5, <1>6, Zenon
<1> QED BY <1>3, <1>7, StepDrops, Zenon

\* The reader passes the events on in their order.
LEMMA ReaderMoves ==
  ASSUME WInv, BasicInv, StreamInv, Reader \/ ReadFails \/ PollFails, Lossy' <=> Lossy
  PROVE  StreamStep
<1>0. buf \in Seq(EventType) /\ kernelQ \in Seq(EventType) /\ Event \in Seq(EventType)
  BY Zenon DEF WInv, TypeOK
<1>s. ASSUME InOrder' = InOrder PROVE StreamStep
  BY <1>s, StepLoses, Zenon
<1>1. ASSUME UNCHANGED exitVars PROVE StreamStep
  <2>1. UNCHANGED <<buf, kernelQ, Event>>
    BY <1>1, Zenon DEF exitVars, kernelVars
  <2>2. InOrder' = InOrder
    BY <2>1, Zenon DEF InOrder
  <2> QED BY <1>s, <2>2, Zenon
<1>2. CASE ReaderStops \/ ReadFails \/ PollFails
  <2>1. UNCHANGED exitVars
    BY <1>2, Zenon DEF ReaderStops, ReadFails, PollFails
  <2> QED BY <1>1, <2>1, Zenon
<1>3. CASE Read
  <2>1. PICK n \in 1 .. Len(kernelQ) :
           buf' = SubSeq(kernelQ, 1, n) /\ kernelQ' = SubSeq(kernelQ, n + 1, Len(kernelQ))
    BY <1>3, Zenon DEF Read
  <2>2. buf = <<>> /\ Event' = Event
    BY <1>3, Zenon DEF Read, WInv, QueueInv
  <2>3. buf' \in Seq(EventType) /\ kernelQ' \in Seq(EventType)
    BY <1>0, <2>1, SplitKeeps, Zenon
  <2>4. buf' \o kernelQ' = kernelQ
    <3>1. Len(kernelQ) \in Nat
      BY <1>0
    <3>2. /\ 1 \in 1 .. Len(kernelQ) + 1 /\ n \in 1 - 1 .. Len(kernelQ)
          /\ Len(kernelQ) \in n .. Len(kernelQ)
      BY <3>1
    <3>3. SubSeq(kernelQ, 1, n) \o SubSeq(kernelQ, n + 1, Len(kernelQ)) = SubSeq(kernelQ, 1, Len(kernelQ))
      BY <1>0, <3>2, ConcatAdjacentSubSeq, Zenon
    <3>4. SubSeq(kernelQ, 1, Len(kernelQ)) = kernelQ
      BY <1>0, SubSeqFull, Zenon
    <3> QED BY <2>1, <3>3, <3>4, Zenon
  <2>5. Event \o buf = Event
    BY <1>0, <2>2, ConcatEmptySeq, Zenon
  <2>6. Event \o buf' \o kernelQ' = Event \o (buf' \o kernelQ')
    <3>1. Parts(Event, buf', kernelQ')
      BY <1>0, <2>3, ThreeParts, Zenon
    <3> QED BY <3>1, Zenon DEF Parts
  <2>7. InOrder' = Reported(Event \o buf' \o kernelQ')
    BY <2>2, Zenon DEF InOrder
  <2>8. InOrder' = InOrder
    BY <2>4, <2>5, <2>6, <2>7, Zenon DEF InOrder
  <2> QED BY <1>s, <2>8, Zenon
<1>4. CASE ParseOverflow
  <2>1. /\ buf # <<>> /\ Head(buf) = Overflow /\ buf' = Tail(buf) /\ UNCHANGED <<kernelQ, Event>>
    BY <1>4, Zenon DEF ParseOverflow, NextBuffered, WInv, QueueInv
  <2>2. Tail(buf) \in Seq(EventType) /\ Reported(buf) = Reported(Tail(buf))
    BY <1>0, <2>1, ReportedHead, Zenon
  <2>3. InOrder = Reported(Event) \o (Reported(buf) \o Reported(kernelQ))
    <3>1. Parts(Event, buf, kernelQ)
      BY <1>0, ThreeParts, Zenon
    <3> QED BY <3>1, Zenon DEF Parts, InOrder
  <2>4. Reported(Event \o Tail(buf) \o kernelQ) = Reported(Event) \o (Reported(Tail(buf)) \o Reported(kernelQ))
    <3>1. Parts(Event, Tail(buf), kernelQ)
      BY <1>0, <2>2, ThreeParts, Zenon
    <3> QED BY <3>1, Zenon DEF Parts
  <2>5. InOrder' = Reported(Event \o Tail(buf) \o kernelQ)
    BY <2>1, Zenon DEF InOrder
  <2>6. InOrder' = InOrder
    BY <2>2, <2>3, <2>4, <2>5, Zenon
  <2> QED BY <1>s, <2>6, Zenon
<1>5. CASE Lookup /\ Head(buf).wd \in paths
  <2>1. UNCHANGED <<buf, kernelQ, Event>>
    BY <1>5, Zenon DEF Lookup, kernelVars
  <2>2. InOrder' = InOrder
    BY <2>1, Zenon DEF InOrder
  <2> QED BY <1>s, <2>2, Zenon
<1>6. CASE Lookup /\ Head(buf).wd \notin paths
  BY <1>6, DropMoves
<1>7. CASE Send
  <2> DEFINE h == Head(buf)
  <2>1. /\ buf # <<>> /\ event = <<h>> /\ Event' = Event \o event /\ buf' = Tail(buf) /\ kernelQ' = kernelQ
    BY <1>7, Zenon DEF Send, NextBuffered, kernelVars, WInv, QueueInv, BasicInv
  <2>2. h \in EventType /\ Tail(buf) \in Seq(EventType) /\ buf = <<h>> \o Tail(buf) /\ <<h>> \in Seq(EventType)
    BY <1>0, <2>1, ReportedHead
  <2> HIDE DEF h
  <2>3. (Event \o <<h>>) \o Tail(buf) = Event \o (<<h>> \o Tail(buf))
    BY <1>0, <2>2, ConcatAssociative
  <2>4. Event' \o buf' = Event \o buf
    BY <2>1, <2>2, <2>3, Zenon
  <2>5. InOrder' = InOrder
    BY <2>1, <2>4 DEF InOrder
  <2> QED BY <1>s, <2>5, Zenon
<1>8. CASE sendEvent /\ ~Send
  <2>1. UNCHANGED exitVars
    BY <1>8, Zenon DEF sendEvent
  <2> QED BY <1>1, <2>1, Zenon
<1> QED BY <1>2, <1>3, <1>4, <1>5, <1>6, <1>7, <1>8, Zenon DEF Reader

\* The receiver takes the first event.
LEMMA ReceiveMoves ==
  ASSUME WInv, BasicInv, ReceiveEvent, Lossy' <=> Lossy
  PROVE  StreamStep
<1> DEFINE h == Head(Event)
<1> DEFINE t == Tail(Event)
<1>0. /\ buf \in Seq(EventType) /\ kernelQ \in Seq(EventType) /\ Event \in Seq(EventType)
      /\ Event # <<>> /\ Event' = t /\ UNCHANGED <<buf, kernelQ>>
  BY Zenon DEF WInv, TypeOK, ReceiveEvent, quiet, kernelVars, readerVars
<1>1. h # Overflow
  <2>1. Range(Event) = {h} \cup Range(Tail(Event))
    BY <1>0, RangeTail, Zenon
  <2> QED BY <2>1, Zenon DEF BasicInv
<1>2. /\ h \in EventType /\ t \in Seq(EventType)
      /\ Reported(Event) = <<h>> \o Reported(t)
  BY <1>0, <1>1, ReportedHead, Zenon
<1> HIDE DEF h, t
<1> DEFINE b == Reported(buf) \o Reported(kernelQ)
<1>3. /\ Reported(t) \in Seq(EventType) /\ b \in Seq(EventType) /\ <<h>> \in Seq(EventType)
      /\ Reported(buf) \in Seq(EventType) /\ Reported(kernelQ) \in Seq(EventType)
  BY <1>0, <1>2, ReportedTyped, ConcatProperties
<1>4. InOrder = (<<h>> \o Reported(t)) \o b
  <2>1. Parts(Event, buf, kernelQ)
    BY <1>0, ThreeParts, Zenon
  <2> QED BY <1>2, <2>1, Zenon DEF InOrder, Parts
<1>5. InOrder' = Reported(t) \o b
  <2>1. Parts(t, buf, kernelQ)
    BY <1>0, <1>2, ThreeParts, Zenon
  <2>2. InOrder' = Reported(t \o buf \o kernelQ)
    BY <1>0, Zenon DEF InOrder
  <2> QED BY <2>1, <2>2, Zenon DEF Parts
<1> HIDE DEF b
<1> DEFINE x == Reported(t) \o b
<1>6. x \in Seq(EventType) /\ (<<h>> \o Reported(t)) \o b = <<h>> \o x
  BY <1>3, ConcatAssociative, ConcatProperties
<1> HIDE DEF x
<1>7. InOrder = <<h>> \o x /\ InOrder' = x
  BY <1>4, <1>5, <1>6, Zenon DEF x
<1>8. <<h>> \o x # <<>> /\ Tail(<<h>> \o x) = x
  <2> DEFINE y == <<h>> \o x
  <2>1. /\ y \in Seq(EventType) /\ Len(y) = 1 + Len(x) /\ Len(x) \in Nat
        /\ \A i \in 1 .. 1 + Len(x) : y[i] = IF i <= 1 THEN <<h>>[i] ELSE x[i - 1]
    <3>1. Len(<<h>>) = 1
      BY Zenon
    <3> QED BY <1>3, <1>6, <3>1, ConcatProperties
  <2> HIDE DEF y
  <2>2. y # <<>>
    BY <2>1
  <2>3. Tail(y) \in Seq(EventType) /\ Len(Tail(y)) = Len(y) - 1 /\ \A i \in 1 .. Len(Tail(y)) : Tail(y)[i] = y[i + 1]
    BY <2>1, <2>2, HeadTailProperties, Zenon
  <2>4. ASSUME NEW i \in 1 .. Len(Tail(y)) PROVE Tail(y)[i] = x[i]
    <3>1. i + 1 \in 1 .. 1 + Len(x) /\ ~(i + 1 <= 1) /\ (i + 1) - 1 = i
      BY <2>1, <2>3
    <3> QED BY <2>1, <2>3, <3>1, Zenon
  <2>5. Len(Tail(y)) = Len(x)
    BY <2>1, <2>3
  <2>6. Tail(y) = x
    BY <1>6, <2>3, <2>4, <2>5, SeqEqual, Zenon
  <2> QED BY <2>2, <2>6, Zenon DEF y
<1>9. InOrder # <<>> /\ InOrder' = Tail(InOrder)
  BY <1>7, <1>8, Zenon
<1> QED BY <1>9, StepReceives, Zenon

\* Every step, with the invariants.
LEMMA StreamKept ==
  ASSUME WInv, CoverInv, StreamInv, [Next]_vars
  PROVE  StreamInv' /\ StreamStep
<1>0. BasicInv
  BY Zenon DEF CoverInv
<1>s. ASSUME InOrder' = InOrder, Lossy' <=> Lossy PROVE StreamStep
  BY <1>s, StepLoses, Zenon
<1>1. CASE Environment
  BY <1>0, <1>1, TreeStream, TreeMoves
<1>2. CASE Reader \/ ReadFails \/ PollFails
  <2>1. ReaderEffect
    BY <1>0, <1>2, ReaderFlow, Zenon
  <2>2. UNCHANGED <<gen, exists, changes, watched, lost, paths, cpc, cur, wd>> /\ (Intact => Intact')
    BY <1>0, <2>1, ReaderIntact, Zenon DEF ReaderEffect
  <2>3. StreamInv' /\ (Lossy' <=> Lossy)
    BY <2>2, PlainStream, Zenon
  <2> QED BY <1>0, <1>2, <2>3, ReaderMoves
<1>3. CASE ReceiveError \/ ReceiveClosed \/ Stop \/ Close
  <2>1. IdleEffect
    BY <1>3, IdleFlow, Zenon
  <2>2. /\ UNCHANGED <<gen, exists, changes, watched, lost, paths>> /\ (Intact => Intact')
        /\ cpc # "record" /\ cpc' # "record"
    BY <1>0, <2>1, IdleKeeps, Zenon DEF IdleEffect
  <2>3. StreamInv' /\ (Lossy' <=> Lossy)
    BY <2>2, PlainStream, Zenon
  <2>4. UNCHANGED <<buf, kernelQ, Event>>
    BY <1>3, Zenon DEF ReceiveError, ReceiveClosed, Stop, Close, quiet, kernelVars, readerVars
  <2>5. InOrder' = InOrder
    BY <2>4, Zenon DEF InOrder
  <2> QED BY <1>s, <2>3, <2>5, Zenon
<1>4. CASE ReceiveEvent
  <2>1. /\ UNCHANGED <<gen, exists, changes, watched, lost, paths>> /\ (Intact => Intact') /\ cpc = "idle"
    BY <1>0, <1>4, ReceiveKeeps, Zenon DEF ReceiveEvent, quiet, dirVars, kernelVars
  <2>2. cpc' # "record"
    BY <1>4, Zenon DEF ReceiveEvent
  <2>3. StreamInv' /\ (Lossy' <=> Lossy)
    BY <2>1, <2>2, PlainStream
  <2> QED BY <1>0, <1>4, <2>3, ReceiveMoves
<1>5. CASE AddWatch
  <2>1. StreamInv' /\ (Lossy' <=> Lossy)
    BY <1>0, <1>5, WalkStream, Zenon
  <2>2. UNCHANGED <<buf, kernelQ, Event>>
    BY <1>5, WalkFlow, Zenon
  <2>3. InOrder' = InOrder
    BY <2>2, Zenon DEF InOrder
  <2> QED BY <1>s, <2>1, <2>3, Zenon
<1>6. CASE UNCHANGED vars
  <2>1. /\ UNCHANGED <<gen, exists, changes, watched, lost, paths, cpc, cur, wd, walk, buf, kernelQ, Event>>
    BY <1>6, Zenon DEF vars, dirVars, kernelVars, readerVars, receiverVars
  <2>2. InOrder' = InOrder /\ InFlight' = InFlight
    BY <2>1, Zenon DEF InOrder, InFlight
  <2>3. (\A d : WalkPending(d) => WalkPending(d)') /\ (\A d : Current(d)' = Current(d)) /\ Recorded' = Recorded
    BY <2>1, <2>2, PendingKept, Zenon DEF Current, Recorded
  <2>4. Intact => Intact'
    BY <2>1, <2>2, <2>3, Zenon DEF Intact
  <2>5. StreamInv' /\ (Lossy' <=> Lossy)
    BY <2>1, <2>4, PlainStream, Zenon
  <2> QED BY <1>s, <2>2, <2>5, Zenon
<1> QED BY <1>1, <1>2, <1>3, <1>4, <1>5, <1>6 DEF Next, Receiver

\* For every tree of two levels and all bounds, the watcher implements the
\* stream of EventStream: through the kernel's queue, the reader's buffer and the
\* channel no event is reordered or repeated, and the reader drops an event
\* with an unknown descriptor only when something was lost.
THEOREM StreamImplemented == Spec => ImplementsStream
<1>1. ASSUME Init PROVE StreamInv /\ Stream!Init
  <2>1. InFlight = {} /\ Intact
    <3>1. \A d : WalkPending(d)
      BY <1>1, Zenon DEF Init, WalkPending
    <3>2. InFlight = {}
      BY <1>1, RangeEmpty, Zenon DEF Init, InFlight
    <3> QED BY <1>1, <3>1, <3>2, Zenon DEF Init, Intact
  <2>2. StreamInv
    BY <1>1, <2>1 DEF Init, StreamInv, Recorded
  <2>3. InOrder = <<>>
    <3>1. Event = <<>> /\ buf = <<>> /\ kernelQ = <<>>
      BY <1>1, Zenon DEF Init
    <3>2. <<>> \in Seq(EventType) /\ <<>> \o <<>> = <<>>
      BY ConcatEmptySeq
    <3> QED BY <3>1, <3>2, ReportedEmpty, Zenon DEF InOrder
  <2>4. Lossy = FALSE
    BY <1>1, Zenon DEF Init, Lossy
  <2> QED BY <2>2, <2>3, <2>4, Zenon DEF Stream!Init
<1>2. Init => StreamInv /\ Stream!Init
  BY <1>1, Zenon
<1>3. WInv /\ CoverInv /\ StreamInv /\ [Next]_vars => StreamInv' /\ [Stream!Next]_<<InOrder, Lossy>>
  BY StreamKept, Zenon DEF StreamStep
<1>4. WInv /\ CoverInv /\ [Next]_vars => CoverInv'
  BY CoverStep, Zenon
<1> QED BY <1>2, <1>3, <1>4, WAlways, CoverStart, PTL DEF Spec, ImplementsStream, Stream!Spec
=============================================================================
