--------------------------- MODULE WatcherProofs ----------------------------
(***************************************************************************)
(* The watcher's state stays well-typed, and an overflow of the kernel's   *)
(* queue goes unreported only when the Error channel is full of others:    *)
(* for every directory tree, every bound of the queue and of the channels. *)
(***************************************************************************)
EXTENDS Watcher, SequenceTheorems, TLAPS

USE WatcherAssumption

(***************************************************************************)
(* What the operations on a queue do to its elements.                      *)
(***************************************************************************)
LEMMA InRange ==
  ASSUME NEW S, NEW s \in Seq(S)
  PROVE  \A x : x \in Range(s) <=> \E i \in 1 .. Len(s) : s[i] = x
<1>1. DOMAIN s = 1 .. Len(s)
  OBVIOUS
<1> QED BY <1>1, Zenon DEF Range

LEMMA RangeEmpty == Range(<<>>) = {}
<1>1. DOMAIN <<>> = {}
  OBVIOUS
<1> QED BY <1>1, Zenon DEF Range

\* Receiving the head of a queue forgets only the head.
LEMMA RangeTail ==
  ASSUME NEW S, NEW s \in Seq(S), s # <<>>
  PROVE  Range(s) = {Head(s)} \cup Range(Tail(s))
<1>1. Tail(s) \in Seq(S) /\ Len(Tail(s)) = Len(s) - 1 /\ Len(s) \in Nat /\ Len(s) >= 1 /\ Head(s) = s[1]
  BY HeadTailProperties, EmptySeq
<1>2. /\ \A x : x \in Range(s) <=> \E i \in 1 .. Len(s) : s[i] = x
      /\ \A x : x \in Range(Tail(s)) <=> \E i \in 1 .. Len(s) - 1 : Tail(s)[i] = x
  <2>1. \A x : x \in Range(s) <=> \E i \in 1 .. Len(s) : s[i] = x
    BY InRange, Zenon
  <2>2. \A x : x \in Range(Tail(s)) <=> \E i \in 1 .. Len(Tail(s)) : Tail(s)[i] = x
    BY <1>1, InRange, Zenon
  <2> QED BY <1>1, <2>1, <2>2, Zenon
<1>3. \A i \in 1 .. Len(s) - 1 : Tail(s)[i] = s[i + 1]
  BY <1>1
<1>4. ASSUME NEW x \in Range(s) PROVE x = Head(s) \/ x \in Range(Tail(s))
  <2>1. PICK i \in 1 .. Len(s) : s[i] = x
    BY <1>2, Zenon
  <2>2. CASE i = 1
    BY <1>1, <2>1, <2>2, Zenon
  <2>3. CASE i # 1
    <3>1. i - 1 \in 1 .. Len(s) - 1 /\ (i - 1) + 1 = i
      BY <1>1, <2>3
    <3>2. Tail(s)[i - 1] = x
      BY <1>3, <2>1, <3>1, Zenon
    <3> QED BY <1>2, <3>1, <3>2, Zenon
  <2> QED BY <2>2, <2>3, Zenon
<1>5. ASSUME NEW x \in Range(Tail(s)) PROVE x \in Range(s)
  <2>1. PICK i \in 1 .. Len(s) - 1 : Tail(s)[i] = x
    BY <1>2, Zenon
  <2>2. i + 1 \in 1 .. Len(s) /\ s[i + 1] = x
    BY <1>1, <1>3, <2>1
  <2> QED BY <1>2, <2>2, Zenon
<1>6. Head(s) \in Range(s)
  BY <1>1, <1>2
<1> QED BY <1>4, <1>5, <1>6, Zenon

\* Sending to a queue adds what is sent and forgets nothing.
LEMMA RangeAppend ==
  ASSUME NEW S, NEW s \in Seq(S), NEW y \in S
  PROVE  Range(Append(s, y)) = Range(s) \cup {y}
<1>1. /\ Append(s, y) \in Seq(S) /\ Len(s) \in Nat /\ Len(Append(s, y)) = Len(s) + 1
      /\ \A i \in 1 .. Len(s) : Append(s, y)[i] = s[i]
      /\ Append(s, y)[Len(s) + 1] = y
  OBVIOUS
<1>2. /\ \A x : x \in Range(s) <=> \E i \in 1 .. Len(s) : s[i] = x
      /\ \A x : x \in Range(Append(s, y)) <=> \E i \in 1 .. Len(s) + 1 : Append(s, y)[i] = x
  <2>1. \A x : x \in Range(s) <=> \E i \in 1 .. Len(s) : s[i] = x
    BY InRange, Zenon
  <2>2. \A x : x \in Range(Append(s, y)) <=> \E i \in 1 .. Len(Append(s, y)) : Append(s, y)[i] = x
    BY <1>1, InRange, Zenon
  <2> QED BY <1>1, <2>1, <2>2, Zenon
<1>3. ASSUME NEW x \in Range(Append(s, y)) PROVE x \in Range(s) \/ x = y
  <2>1. PICK i \in 1 .. Len(s) + 1 : Append(s, y)[i] = x
    BY <1>2, Zenon
  <2>2. i = Len(s) + 1 \/ i \in 1 .. Len(s)
    BY <1>1
  <2> QED BY <1>1, <1>2, <2>1, <2>2, Zenon
<1>4. ASSUME NEW x \in Range(s) PROVE x \in Range(Append(s, y))
  <2>1. PICK i \in 1 .. Len(s) : s[i] = x
    BY <1>2, Zenon
  <2>2. i \in 1 .. Len(s) + 1 /\ Append(s, y)[i] = x
    BY <1>1, <2>1
  <2> QED BY <1>2, <2>2, Zenon
<1>5. y \in Range(Append(s, y))
  <2>1. Len(s) + 1 \in 1 .. Len(s) + 1
    BY <1>1
  <2> QED BY <1>1, <1>2, <2>1, Zenon
<1> QED BY <1>3, <1>4, <1>5, Zenon

\* A read that takes the first n events leaves the others queued.
LEMMA RangeSplit ==
  ASSUME NEW S, NEW s \in Seq(S), NEW n \in 1 .. Len(s)
  PROVE  Range(s) = Range(SubSeq(s, 1, n)) \cup Range(SubSeq(s, n + 1, Len(s)))
<1> DEFINE a == SubSeq(s, 1, n)
           b == SubSeq(s, n + 1, Len(s))
<1>0. Len(s) \in Nat /\ \A i \in 1 .. Len(s) : s[i] \in S
  OBVIOUS
<1>1. a \in Seq(S) /\ Len(a) = n /\ \A i \in 1 .. n : a[i] = s[i]
  BY <1>0, SubSeqProperties
<1>2. b \in Seq(S) /\ Len(b) = Len(s) - n /\ \A i \in 1 .. Len(s) - n : b[i] = s[n + i]
  BY <1>0, SubSeqProperties
<1> HIDE DEF a, b
<1>3. /\ \A x : x \in Range(s) <=> \E i \in 1 .. Len(s) : s[i] = x
      /\ \A x : x \in Range(a) <=> \E i \in 1 .. n : a[i] = x
      /\ \A x : x \in Range(b) <=> \E i \in 1 .. Len(s) - n : b[i] = x
  <2>1. \A x : x \in Range(s) <=> \E i \in 1 .. Len(s) : s[i] = x
    BY InRange, Zenon
  <2>2. \A x : x \in Range(a) <=> \E i \in 1 .. Len(a) : a[i] = x
    BY <1>1, InRange, Zenon
  <2>3. \A x : x \in Range(b) <=> \E i \in 1 .. Len(b) : b[i] = x
    BY <1>2, InRange, Zenon
  <2> QED BY <1>1, <1>2, <2>1, <2>2, <2>3, Zenon
<1>4. ASSUME NEW x \in Range(s) PROVE x \in Range(a) \/ x \in Range(b)
  <2>1. PICK i \in 1 .. Len(s) : s[i] = x
    BY <1>3, Zenon
  <2>2. CASE i <= n
    BY <1>0, <1>1, <1>3, <2>1, <2>2
  <2>3. CASE i > n
    <3>1. i - n \in 1 .. Len(s) - n /\ n + (i - n) = i
      BY <1>0, <2>1, <2>3
    <3> QED BY <1>2, <1>3, <2>1, <3>1, Zenon
  <2> QED BY <1>0, <2>2, <2>3
<1>5. ASSUME NEW x \in Range(a) PROVE x \in Range(s)
  BY <1>0, <1>1, <1>3
<1>6. ASSUME NEW x \in Range(b) PROVE x \in Range(s)
  <2>1. PICK i \in 1 .. Len(s) - n : b[i] = x
    BY <1>3, Zenon
  <2>2. n + i \in 1 .. Len(s) /\ s[n + i] = x
    BY <1>0, <1>2, <2>1
  <2> QED BY <1>3, <2>2, Zenon
<1>7. Range(s) = Range(a) \cup Range(b)
  BY <1>4, <1>5, <1>6, Zenon
<1> QED BY <1>7, Zenon DEF a, b

\* The same, for one event.
LEMMA TailKeeps ==
  ASSUME NEW S, NEW s \in Seq(S), s # <<>>, NEW x, x \in Range(s), Head(s) # x
  PROVE  x \in Range(Tail(s))
BY RangeTail, Zenon

LEMMA AppendKeeps ==
  ASSUME NEW S, NEW s \in Seq(S), NEW y \in S
  PROVE  /\ y \in Range(Append(s, y))
         /\ \A x : x \in Range(s) => x \in Range(Append(s, y))
BY RangeAppend

LEMMA SplitKeeps ==
  ASSUME NEW S, NEW s \in Seq(S), NEW n \in 1 .. Len(s)
  PROVE  /\ SubSeq(s, 1, n) \in Seq(S) /\ Len(SubSeq(s, 1, n)) = n
         /\ SubSeq(s, n + 1, Len(s)) \in Seq(S) /\ Len(SubSeq(s, n + 1, Len(s))) = Len(s) - n
         /\ \A x : x \in Range(s) =>
              x \in Range(SubSeq(s, 1, n)) \/ x \in Range(SubSeq(s, n + 1, Len(s)))
<1>0. Len(s) \in Nat /\ \A i \in 1 .. Len(s) : s[i] \in S
  OBVIOUS
<1>1. SubSeq(s, 1, n) \in Seq(S) /\ Len(SubSeq(s, 1, n)) = n
  BY <1>0, SubSeqProperties
<1>2. SubSeq(s, n + 1, Len(s)) \in Seq(S) /\ Len(SubSeq(s, n + 1, Len(s))) = Len(s) - n
  BY <1>0, SubSeqProperties
<1>3. Range(s) = Range(SubSeq(s, 1, n)) \cup Range(SubSeq(s, n + 1, Len(s)))
  BY RangeSplit, Zenon
<1> QED BY <1>1, <1>2, <1>3, Zenon

(***************************************************************************)
(* Types.                                                                  *)
(***************************************************************************)
\* The strengthening of TypeOK: the kernel's queue is over its bound only by
\* the overflow event, and the reader polls when it has sent all it had read.
QueueInv ==
  /\ Len(kernelQ) > MaxQueuedEvents => Overflow \in Range(kernelQ)
  /\ rpc = "poll" => buf = <<>>
  /\ rpc \in {"parse", "send"} => buf # <<>>
  /\ rpc = "send" => Head(buf) # Overflow

WInv == TypeOK /\ QueueInv

\* What the kernel queues is an event; the queue forgets nothing, and an event
\* it has no room for leaves an overflow event behind.
LEMMA EmitEffect ==
  ASSUME WInv, NEW kind \in {"create", "self", "file"}, NEW w \in WD, NEW d \in Dir \cup {Root},
         Emit(kind, w, d)
  PROVE  /\ kernelQ' \in Seq(EventType) /\ Len(kernelQ') <= MaxQueuedEvents + 1
         /\ Len(kernelQ') > MaxQueuedEvents => Overflow \in Range(kernelQ')
         /\ lost' \in BOOLEAN
         /\ Overflow \in Range(kernelQ) => Overflow \in Range(kernelQ')
         /\ lost' => lost \/ Overflow \in Range(kernelQ')
<1> DEFINE e == [kind |-> kind, wd |-> w, dir |-> d]
<1>0. /\ kernelQ \in Seq(EventType) /\ Len(kernelQ) <= MaxQueuedEvents + 1 /\ lost \in BOOLEAN
      /\ Len(kernelQ) > MaxQueuedEvents => Overflow \in Range(kernelQ)
      /\ Len(kernelQ) \in Nat /\ MaxQueuedEvents \in Nat
  BY DEF WInv, TypeOK, QueueInv
<1>1. e \in EventType /\ Overflow \in EventType
  BY Zenon DEF EventType, Overflow
<1>2. CASE w \notin watched
  BY <1>0, <1>2, Zenon DEF Emit
<1>3. CASE w \in watched /\ Len(kernelQ) < MaxQueuedEvents
  <2>1. kernelQ' = Append(kernelQ, e) /\ lost' = lost
    BY <1>3, Zenon DEF Emit
  <2> HIDE DEF e
  <2> QED BY <1>0, <1>1, <1>3, <2>1, AppendKeeps, AppendProperties
<1>4. CASE w \in watched /\ ~(Len(kernelQ) < MaxQueuedEvents)
  <2>1. /\ kernelQ' = IF Overflow \in Range(kernelQ) THEN kernelQ ELSE Append(kernelQ, Overflow)
        /\ lost' = TRUE
    BY <1>4, Zenon DEF Emit
  <2>2. CASE Overflow \in Range(kernelQ)
    BY <1>0, <2>1, <2>2, Zenon
  <2>3. CASE Overflow \notin Range(kernelQ)
    BY <1>0, <1>1, <1>4, <2>1, <2>3, AppendKeeps, AppendProperties
  <2> QED BY <2>2, <2>3, Zenon
<1> QED BY <1>2, <1>3, <1>4, Zenon

\* What every change of the tree does to the state.
TreeStep ==
  /\ gen' \in [Dir \cup {Root} -> Nat] /\ exists' \subseteq Dir \cup {Root}
  /\ changes' \in 0 .. MaxChanges /\ watched' \subseteq watched
  /\ UNCHANGED others
  /\ \E kind \in {"create", "self", "file"}, w \in WD, d \in Dir \cup {Root} : Emit(kind, w, d)

\* Every change of the tree is such a step.
LEMMA EnvironmentEffect ==
  ASSUME WInv, Environment
  PROVE  TreeStep
<1>0. /\ gen \in [Dir \cup {Root} -> Nat] /\ exists \subseteq Dir \cup {Root}
      /\ changes \in 0 .. MaxChanges /\ MaxChanges \in Nat
      /\ \A d \in Dir \cup {Root} : Current(d) \in WD
  BY Zenon DEF WInv, TypeOK, Current, WD
<1>1. ASSUME Change PROVE changes' \in 0 .. MaxChanges
  BY <1>0, <1>1 DEF Change
<1>2. ASSUME NEW d \in Dir, Appear(d) PROVE TreeStep
  <2>1. Change /\ watched' = watched /\ UNCHANGED others /\ Emit("create", Current(Parent[d]), d)
    BY <1>2, Zenon DEF Appear
  <2>2. PICK sub \in SUBSET {c \in Dir : Parent[c] = d} :
           /\ exists' = exists \cup {d} \cup sub
           /\ gen' = [x \in DOMAIN gen |-> IF x \in {d} \cup sub THEN gen[x] + 1 ELSE gen[x]]
    BY <1>2, Zenon DEF Appear
  <2>3. exists' \subseteq Dir \cup {Root}
    BY <1>0, <2>2, Zenon
  <2>4. gen' \in [Dir \cup {Root} -> Nat]
    BY <1>0, <2>2
  <2>5. Current(Parent[d]) \in WD
    BY <1>0, Zenon
  <2> QED BY <1>1, <2>1, <2>3, <2>4, <2>5, Zenon DEF TreeStep
<1>3. ASSUME NEW d \in Dir, Vanish(d) PROVE TreeStep
  <2>1. /\ Change /\ watched' \subseteq watched /\ UNCHANGED others /\ Emit("self", Current(d), d)
        /\ exists' \subseteq exists /\ gen' = gen
    BY <1>3, Zenon DEF Vanish
  <2> QED BY <1>0, <1>1, <2>1, Zenon DEF TreeStep
<1>4. ASSUME NEW d \in Dir \cup {Root}, FileActivity(d) PROVE TreeStep
  <2>1. /\ Change /\ watched' = watched /\ UNCHANGED others /\ Emit("file", Current(d), d)
        /\ exists' = exists /\ gen' = gen
    BY <1>4, Zenon DEF FileActivity
  <2> QED BY <1>0, <1>1, <2>1, Zenon DEF TreeStep
<1> QED BY <1>2, <1>3, <1>4, Zenon DEF Environment

\* The tail of a queue is a shorter queue of the same elements.
LEMMA TailTyped ==
  ASSUME NEW S, NEW s \in Seq(S), s # <<>>
  PROVE  /\ Head(s) \in S /\ Tail(s) \in Seq(S) /\ Len(Tail(s)) = Len(s) - 1
         /\ Len(s) \in Nat /\ (Len(s) = 1 <=> Tail(s) = <<>>)
<1>1. Head(s) \in S /\ Tail(s) \in Seq(S) /\ Len(Tail(s)) = Len(s) - 1 /\ Len(s) \in Nat
  BY HeadTailProperties
<1>2. Tail(s) = <<>> <=> Len(Tail(s)) = 0
  BY <1>1, EmptySeq, Zenon
<1> QED BY <1>1, <1>2

\* The reader's control follows what is left in its buffer.
LEMMA NextBufferedEffect ==
  ASSUME WInv, rpc \in {"parse", "send"}, NextBuffered
  PROVE  /\ buf' \in Seq(EventType) /\ rpc' \in {"poll", "parse"}
         /\ rpc' = "poll" => buf' = <<>>
         /\ rpc' = "parse" => buf' # <<>>
         /\ Head(buf) # Overflow => (Overflow \in Range(buf) => Overflow \in Range(buf'))
<1>1. buf \in Seq(EventType) /\ buf # <<>>
  BY Zenon DEF WInv, TypeOK, QueueInv
<1>2. buf' = Tail(buf) /\ rpc' = IF Len(buf) = 1 THEN "poll" ELSE "parse"
  BY Zenon DEF NextBuffered
<1> QED BY <1>1, <1>2, TailTyped, TailKeeps, Zenon

\* reportError keeps the Error channel within its bound and forgets nothing
\* that is in it.
LEMMA ReportEffect ==
  ASSUME WInv, NEW e \in {"overflow", "read"}, reportError(e)
  PROVE  /\ Error' \in Seq({"overflow", "read"}) /\ Len(Error') <= ErrorBufferSize
         /\ Len(Error) < ErrorBufferSize => Error' = Append(Error, e)
         /\ ~(Len(Error) < ErrorBufferSize) => Error' = Error
<1>1. /\ Error \in Seq({"overflow", "read"}) /\ Len(Error) <= ErrorBufferSize
      /\ Len(Error) \in Nat /\ ErrorBufferSize \in Nat
  BY DEF WInv, TypeOK
<1> QED BY <1>1, AppendProperties DEF reportError

\* The reader's steps.
LEMMA ReaderStep ==
  ASSUME WInv, Reader \/ ReadFails \/ PollFails
  PROVE  WInv'
<1> USE DEF WInv, TypeOK, QueueInv
<1>0. ASSUME UNCHANGED exitVars, rpc' = "exited", event' = <<>>, UNCHANGED Error \/ reportError("read")
      PROVE  WInv'
  <2>1. Error' \in Seq({"overflow", "read"}) /\ Len(Error') <= ErrorBufferSize
    BY <1>0, ReportEffect, Zenon
  <2>2. event' \in Seq(EventType) /\ Len(event') <= 1
    BY <1>0
  <2> QED BY <1>0, <2>1, <2>2 DEF exitVars, dirVars, kernelVars, receiverVars
<1>1. CASE ReaderStops
  BY <1>0, <1>1, Zenon DEF ReaderStops
<1>2. CASE Read
  <2>1. PICK n \in 1 .. Len(kernelQ) :
           buf' = SubSeq(kernelQ, 1, n) /\ kernelQ' = SubSeq(kernelQ, n + 1, Len(kernelQ))
    BY <1>2, Zenon DEF Read
  <2>2. /\ buf' \in Seq(EventType) /\ Len(buf') = n
        /\ kernelQ' \in Seq(EventType) /\ Len(kernelQ') = Len(kernelQ) - n
    <3>1. kernelQ \in Seq(EventType)
      BY Zenon
    <3> HIDE DEF WInv, TypeOK, QueueInv
    <3> QED BY <2>1, <3>1, SplitKeeps
  <2>3. n > 0 /\ Len(kernelQ) \in Nat /\ MaxQueuedEvents \in Nat /\ n \in Nat
    OBVIOUS
  <2>4. buf' # <<>> /\ Len(kernelQ') <= MaxQueuedEvents
    BY <2>2, <2>3
  <2>5. rpc' = "parse" /\ UNCHANGED <<dirVars, watched, lost, muted, event, Event, Error, mu, isClosed, paths, receiverVars>>
    BY <1>2, Zenon DEF Read
  <2>6. UNCHANGED <<gen, exists, changes, cpc, walk, cur, wd>>
    BY <2>5, Zenon DEF dirVars, receiverVars
  <2>7. Len(kernelQ') <= MaxQueuedEvents + 1 /\ ~(Len(kernelQ') > MaxQueuedEvents)
    BY <2>2, <2>3, <2>4
  <2> QED BY <2>2, <2>4, <2>5, <2>6, <2>7
<1>3. CASE ParseOverflow
  <2>1. /\ reportError("overflow") /\ NextBuffered /\ rpc = "parse" /\ muted' \in BOOLEAN
        /\ UNCHANGED <<dirVars, watched, kernelQ, lost, event, Event, mu, isClosed, paths, receiverVars>>
    BY <1>3, Zenon DEF ParseOverflow
  <2>2. Error' \in Seq({"overflow", "read"}) /\ Len(Error') <= ErrorBufferSize
    BY <2>1, ReportEffect, Zenon
  <2>3. /\ buf' \in Seq(EventType) /\ rpc' \in {"poll", "parse"}
        /\ rpc' = "poll" => buf' = <<>>
        /\ rpc' = "parse" => buf' # <<>>
    BY <2>1, NextBufferedEffect, Zenon
  <2> QED BY <2>1, <2>2, <2>3 DEF dirVars, receiverVars
<1>4. CASE Lookup
  <2>1. /\ rpc = "parse" /\ Head(buf) # Overflow
        /\ UNCHANGED <<dirVars, kernelVars, Event, Error, mu, isClosed, paths, receiverVars>>
    BY <1>4, Zenon DEF Lookup
  <2>2. CASE event' = <<Head(buf)>> /\ rpc' = "send" /\ UNCHANGED buf
    <3>1. Head(buf) \in EventType
      BY <2>1, TailTyped, Zenon
    <3>2. event' \in Seq(EventType) /\ Len(event') <= 1
      BY <2>2, <3>1
    <3> QED BY <2>1, <2>2, <3>2 DEF dirVars, kernelVars, receiverVars
  <2>3. CASE NextBuffered /\ UNCHANGED event
    <3>1. /\ buf' \in Seq(EventType) /\ rpc' \in {"poll", "parse"}
          /\ rpc' = "poll" => buf' = <<>>
          /\ rpc' = "parse" => buf' # <<>>
      BY <2>1, <2>3, NextBufferedEffect, Zenon
    <3> QED BY <2>1, <2>3, <3>1 DEF dirVars, kernelVars, receiverVars
  <2> QED BY <1>4, <2>2, <2>3, Zenon DEF Lookup
<1>5. CASE Send
  <2>1. /\ rpc = "send" /\ Len(Event) < EventBufferSize /\ Event' = Event \o event /\ event' = <<>>
        /\ NextBuffered
        /\ UNCHANGED <<dirVars, kernelVars, Error, mu, isClosed, paths, receiverVars>>
    BY <1>5, Zenon DEF Send
  <2>2. /\ buf' \in Seq(EventType) /\ rpc' \in {"poll", "parse"}
        /\ rpc' = "poll" => buf' = <<>>
        /\ rpc' = "parse" => buf' # <<>>
    BY <2>1, NextBufferedEffect, Zenon
  <2>3. Event' \in Seq(EventType) /\ Len(Event') = Len(Event) + Len(event)
    BY <2>1, ConcatProperties
  <2>4. Len(Event') <= EventBufferSize
    BY <2>1, <2>3
  <2>5. event' \in Seq(EventType) /\ Len(event') <= 1
    BY <2>1
  <2>6. UNCHANGED <<gen, exists, changes, watched, kernelQ, lost, muted, Error, mu, isClosed, paths,
                    cpc, walk, cur, wd>>
    BY <2>1, Zenon DEF dirVars, kernelVars, receiverVars
  <2>7. TypeOK'
    BY <2>2, <2>3, <2>4, <2>5, <2>6
  <2>8. QueueInv'
    BY <2>2, <2>6, Zenon
  <2> QED BY <2>7, <2>8, Zenon
<1>6. CASE rpc = "send" /\ isClosed /\ rpc' = "exited" /\ event' = <<>> /\ UNCHANGED <<exitVars, Error>>
  BY <1>0, <1>6, Zenon
<1>7. CASE ReadFails
  <2>1. reportError("read") /\ UNCHANGED <<exitVars, rpc, event>>
    BY <1>7, Zenon DEF ReadFails
  <2>2. Error' \in Seq({"overflow", "read"}) /\ Len(Error') <= ErrorBufferSize
    BY <2>1, ReportEffect, Zenon
  <2>3. UNCHANGED <<gen, exists, changes, watched, kernelQ, lost, muted, rpc, buf, event, Event, mu,
                    isClosed, paths, cpc, walk, cur, wd>>
    BY <2>1, Zenon DEF exitVars, dirVars, kernelVars, receiverVars
  <2> QED BY <2>2, <2>3
<1>8. CASE PollFails
  BY <1>0, <1>8, Zenon DEF PollFails
<1> QED BY <1>1, <1>2, <1>3, <1>4, <1>5, <1>6, <1>7, <1>8, Zenon DEF Reader, sendEvent

\* The receiver's steps.
LEMMA ReceiverStep ==
  ASSUME WInv, Receiver \/ Stop
  PROVE  WInv'
<1> USE DEF WInv, TypeOK, QueueInv, quiet, dirVars, kernelVars, readerVars
<1>1. CASE ReceiveEvent
  <2>1. Event # <<>> /\ Event' = Tail(Event)
    BY <1>1, Zenon DEF ReceiveEvent
  <2>2. Head(Event) \in EventType /\ Event' \in Seq(EventType) /\ Len(Event') = Len(Event) - 1
    BY <2>1, TailTyped, Zenon
  <2>3. Head(Event).kind = "create" => Head(Event).dir \in Dir \cup {Root}
    BY <2>2, Zenon DEF EventType
  <2>4. walk' \subseteq Dir \cup {Root}
    BY <1>1, <2>3, Zenon DEF ReceiveEvent
  <2>5. Len(Event') <= EventBufferSize
    BY <2>2
  <2> QED BY <1>1, <2>2, <2>4, <2>5 DEF ReceiveEvent
<1>2. CASE ReceiveError
  <2>1. Error # <<>> /\ Error' = Tail(Error)
    BY <1>2, Zenon DEF ReceiveError
  <2>2. Error' \in Seq({"overflow", "read"}) /\ Len(Error') = Len(Error) - 1
    BY <2>1, TailTyped, Zenon
  <2>3. Len(Error') <= ErrorBufferSize
    BY <2>2
  <2> QED BY <1>2, <2>2, <2>3 DEF ReceiveError
<1>3. CASE ReceiveClosed \/ Stop \/ Close \/ WalkNext \/ AddWatchLock
  <2>1. CASE ReceiveClosed \/ Stop
    <3>1. /\ cpc' \in {"idle", "closing", "closed"} /\ isClosed' \in BOOLEAN
          /\ UNCHANGED <<gen, exists, changes, watched, kernelQ, lost, muted, rpc, buf, event, Event,
                         Error, mu, paths, walk, cur, wd>>
      BY <2>1, Zenon DEF ReceiveClosed, Stop, receiverVars
    <3> QED BY <3>1
  <2>2. CASE Close
    BY <2>2 DEF Close
  <2>3. CASE WalkNext
    BY <2>3 DEF WalkNext
  <2>4. CASE AddWatchLock
    BY <2>4 DEF AddWatchLock
  <2> QED BY <1>3, <2>1, <2>2, <2>3, <2>4, Zenon
<1>4. CASE InotifyAddWatch
  <2>1. Current(cur) \in WD
    BY Zenon DEF Current, WD
  <2>2. watched' \subseteq WD /\ wd' \in WD
    BY <1>4, <2>1, Zenon DEF InotifyAddWatch
  <2> QED BY <1>4, <2>2 DEF InotifyAddWatch
<1>5. CASE AddWatchRecord
  BY <1>5 DEF AddWatchRecord
<1>6. CASE ReadDir
  <2>1. walk' \subseteq Dir \cup {Root}
    BY <1>6, Zenon DEF ReadDir, Children
  <2> QED BY <1>6, <2>1 DEF ReadDir
<1> QED BY <1>1, <1>2, <1>3, <1>4, <1>5, <1>6, Zenon DEF Receiver, AddWatch

\* No step of the tree, the reader or the receiver breaks WInv.
LEMMA WStep == WInv /\ [Next]_vars => WInv'
<1> SUFFICES ASSUME WInv, [Next]_vars PROVE WInv'
  BY Zenon
<1>1. CASE Environment
  <2>1. TreeStep
    BY <1>1, EnvironmentEffect, Zenon
  <2>2. /\ kernelQ' \in Seq(EventType) /\ Len(kernelQ') <= MaxQueuedEvents + 1
        /\ Len(kernelQ') > MaxQueuedEvents => Overflow \in Range(kernelQ')
        /\ lost' \in BOOLEAN
    BY <2>1, EmitEffect, Zenon DEF TreeStep
  <2>3. /\ UNCHANGED <<muted, rpc, buf, event, Event, Error, mu, isClosed, paths, cpc, walk, cur, wd>>
        /\ gen' \in [Dir \cup {Root} -> Nat] /\ exists' \subseteq Dir \cup {Root}
        /\ changes' \in 0 .. MaxChanges /\ watched' \subseteq watched
    BY <2>1, Zenon DEF TreeStep, others, readerVars, receiverVars
  <2>4. TypeOK'
    <3>1. /\ watched' \subseteq WD /\ paths' \subseteq WD /\ muted' \in BOOLEAN /\ isClosed' \in BOOLEAN
          /\ walk' \subseteq Dir \cup {Root} /\ cur' \in Dir \cup {Root} /\ wd' \in WD
      BY <2>3, Zenon DEF WInv, TypeOK
    <3>2. /\ buf' \in Seq(EventType) /\ event' \in Seq(EventType) /\ Len(event') <= 1
          /\ Event' \in Seq(EventType) /\ Len(Event') <= EventBufferSize
          /\ Error' \in Seq({"overflow", "read"}) /\ Len(Error') <= ErrorBufferSize
      BY <2>3, Zenon DEF WInv, TypeOK
    <3>3. /\ rpc' \in {"poll", "parse", "send", "exited"} /\ mu' \in {"free", "reader", "receiver"}
          /\ cpc' \in {"idle", "walk", "lock", "add", "record", "list", "closing", "closed"}
      BY <2>3, Zenon DEF WInv, TypeOK
    <3> QED BY <2>2, <2>3, <3>1, <3>2, <3>3, Zenon DEF TypeOK
  <2>5. QueueInv'
    BY <2>2, <2>3, Zenon DEF WInv, QueueInv
  <2> QED BY <2>4, <2>5, Zenon DEF WInv
<1>2. CASE UNCHANGED vars
  BY <1>2 DEF vars, dirVars, kernelVars, readerVars, receiverVars, WInv, TypeOK, QueueInv
<1> QED BY <1>1, <1>2, ReaderStep, ReceiverStep, Zenon DEF Next

\* WInv holds in every reachable state.
LEMMA WAlways == Spec => []WInv
<1>1. Init => WInv
  <2> SUFFICES ASSUME Init PROVE WInv
    BY Zenon
  <2>1. \A S : <<>> \in Seq(S) /\ Len(<<>>) = 0
    BY EmptySeq, Zenon
  <2>2. wd \in WD
    BY Zenon DEF Init, WD
  <2>3. gen \in [Dir \cup {Root} -> Nat] /\ exists \subseteq Dir \cup {Root} /\ changes \in 0 .. MaxChanges
    BY DEF Init
  <2>4. /\ kernelQ \in Seq(EventType) /\ Len(kernelQ) = 0 /\ buf \in Seq(EventType)
        /\ event \in Seq(EventType) /\ Len(event) = 0 /\ Event \in Seq(EventType) /\ Len(Event) = 0
        /\ Error \in Seq({"overflow", "read"}) /\ Len(Error) = 0
    BY <2>1, Zenon DEF Init
  <2>5. /\ watched = {} /\ lost = FALSE /\ muted = FALSE /\ rpc = "poll" /\ buf = <<>> /\ mu = "free" /\ isClosed = FALSE
        /\ paths = {} /\ cpc = "walk" /\ walk = {Root} /\ cur = Root
    BY Zenon DEF Init
  <2>6. QueueInv
    BY <2>4, <2>5 DEF QueueInv
  <2>7. 0 <= MaxQueuedEvents + 1 /\ 0 <= EventBufferSize /\ 0 <= ErrorBufferSize
    OBVIOUS
  <2>8. TypeOK
    <3>1. /\ watched \subseteq WD /\ paths \subseteq WD /\ lost \in BOOLEAN /\ muted \in BOOLEAN
          /\ isClosed \in BOOLEAN
          /\ walk \subseteq Dir \cup {Root} /\ cur \in Dir \cup {Root}
      BY <2>5, Zenon
    <3>2. /\ rpc \in {"poll", "parse", "send", "exited"} /\ mu \in {"free", "reader", "receiver"}
          /\ cpc \in {"idle", "walk", "lock", "add", "record", "list", "closing", "closed"}
      BY <2>5, Zenon
    <3>3. /\ Len(kernelQ) <= MaxQueuedEvents + 1 /\ Len(event) <= 1 /\ Len(Event) <= EventBufferSize
          /\ Len(Error) <= ErrorBufferSize
      BY <2>4, <2>7
    <3> QED BY <2>2, <2>3, <2>4, <3>1, <3>2, <3>3, Zenon DEF TypeOK
  <2> QED BY <2>6, <2>8, Zenon DEF WInv
<1> QED BY <1>1, WStep, PTL DEF Spec

\* The fields of Watcher keep their types, and neither the channels nor the
\* kernel's queue ever exceed their bounds.
THEOREM TypeCorrect == Spec => []TypeOK
<1>1. WInv => TypeOK
  BY Zenon DEF WInv
<1> QED BY <1>1, WAlways, PTL

(***************************************************************************)
(* Losses.                                                                 *)
(***************************************************************************)
\* The strengthening of LossReported: an overflow is passed on from the
\* kernel's queue to the reader's buffer to the Error channel to the receiver
\* that closes.
LossInv ==
  lost /\ ~muted =>
    \/ Overflow \in Range(kernelQ) \/ Overflow \in Range(buf)
    \/ "overflow" \in Range(Error) \/ cpc \in {"closing", "closed"}

\* No step breaks LossInv.
LEMMA LossStep == WInv /\ LossInv /\ [Next]_vars => LossInv'
<1> SUFFICES ASSUME WInv, LossInv, [Next]_vars PROVE LossInv'
  BY Zenon
<1> USE DEF LossInv
<1>0. ASSUME UNCHANGED <<kernelQ, lost, muted, buf>>, cpc \in {"closing", "closed"} => cpc' \in {"closing", "closed"},
             "overflow" \in Range(Error) => "overflow" \in Range(Error')
      PROVE  LossInv'
  BY <1>0, Zenon
<1>1. CASE Environment
  <2>1. TreeStep
    BY <1>1, EnvironmentEffect, Zenon
  <2>2. /\ Overflow \in Range(kernelQ) => Overflow \in Range(kernelQ')
        /\ lost' => lost \/ Overflow \in Range(kernelQ')
    BY <2>1, EmitEffect, Zenon DEF TreeStep
  <2>3. UNCHANGED <<muted, buf, Error, cpc>>
    BY <2>1, Zenon DEF TreeStep, others, readerVars, receiverVars
  <2> QED BY <2>2, <2>3, Zenon
<1>2. CASE Read
  <2>1. PICK n \in 1 .. Len(kernelQ) :
           buf' = SubSeq(kernelQ, 1, n) /\ kernelQ' = SubSeq(kernelQ, n + 1, Len(kernelQ))
    BY <1>2, Zenon DEF Read
  <2>2. Overflow \in Range(kernelQ) => Overflow \in Range(buf') \/ Overflow \in Range(kernelQ')
    BY <2>1, SplitKeeps, Zenon DEF WInv, TypeOK
  <2>3. buf = <<>> /\ UNCHANGED <<lost, muted, Error, cpc>>
    BY <1>2, Zenon DEF Read, WInv, QueueInv, receiverVars
  <2>4. Overflow \notin Range(buf)
    BY <2>3, RangeEmpty, Zenon
  <2> QED BY <2>2, <2>3, <2>4, Zenon
<1>3. CASE ParseOverflow
  BY <1>3, Zenon DEF ParseOverflow
<1>4. CASE Lookup
  <2>1. /\ rpc = "parse" /\ Head(buf) # Overflow /\ (UNCHANGED buf \/ NextBuffered)
        /\ UNCHANGED <<kernelQ, lost, muted, Error, cpc>>
    BY <1>4, Zenon DEF Lookup, kernelVars, receiverVars
  <2>2. Overflow \in Range(buf) => Overflow \in Range(buf')
    BY <2>1, NextBufferedEffect, Zenon
  <2> QED BY <2>1, <2>2, Zenon
<1>5. CASE Send
  <2>1. rpc = "send" /\ NextBuffered /\ UNCHANGED <<kernelQ, lost, muted, Error, cpc>>
    BY <1>5, Zenon DEF Send, kernelVars, receiverVars
  <2>2. Head(buf) # Overflow
    BY <2>1, Zenon DEF WInv, QueueInv
  <2>3. Overflow \in Range(buf) => Overflow \in Range(buf')
    BY <2>1, <2>2, NextBufferedEffect, Zenon
  <2> QED BY <2>1, <2>3, Zenon
<1>6. CASE UNCHANGED exitVars /\ (UNCHANGED Error \/ reportError("read"))
  <2>1. "overflow" \in Range(Error) => "overflow" \in Range(Error')
    <3>1. Error \in Seq({"overflow", "read"})
      BY Zenon DEF WInv, TypeOK
    <3>2. Error' = Error \/ Error' = Append(Error, "read")
      BY <1>6, ReportEffect, Zenon
    <3>3. "overflow" \in Range(Error) => "overflow" \in Range(Append(Error, "read"))
      <4>1. "read" \in {"overflow", "read"}
        BY Zenon
      <4> QED BY <3>1, <4>1, AppendKeeps, Zenon
    <3> QED BY <3>2, <3>3, Zenon
  <2> QED BY <1>0, <1>6, <2>1, Zenon DEF exitVars, kernelVars, receiverVars
<1>7. CASE ReceiveError
  <2>1. /\ Error # <<>> /\ Error' = Tail(Error) /\ UNCHANGED <<kernelQ, lost, muted, buf>>
        /\ cpc' = (IF Head(Error) = "overflow" THEN "closing" ELSE "idle") /\ cpc = "idle"
    BY <1>7, Zenon DEF ReceiveError, quiet, kernelVars, readerVars
  <2>2. Head(Error) # "overflow" /\ "overflow" \in Range(Error) => "overflow" \in Range(Error')
    BY <2>1, TailKeeps, Zenon DEF WInv, TypeOK
  <2> QED BY <2>1, <2>2, Zenon
<1>8. CASE ReceiveEvent \/ ReceiveClosed \/ Stop \/ AddWatch \/ Close
  <2>1. UNCHANGED <<kernelQ, lost, muted, buf, Error>>
    BY <1>8, Zenon DEF ReceiveEvent, ReceiveClosed, Stop, AddWatch, WalkNext, AddWatchLock, InotifyAddWatch,
       AddWatchRecord, ReadDir, Close, quiet, kernelVars, readerVars
  <2>2. cpc \in {"closing", "closed"} => cpc' \in {"closing", "closed"}
    BY <1>8, Zenon DEF ReceiveEvent, ReceiveClosed, Stop, AddWatch, WalkNext, AddWatchLock, InotifyAddWatch,
       AddWatchRecord, ReadDir, Close
  <2> QED BY <1>0, <2>1, <2>2, Zenon
<1>9. CASE UNCHANGED vars
  BY <1>0, <1>9, Zenon DEF vars, kernelVars, readerVars, receiverVars
<1> QED
  BY <1>1, <1>2, <1>3, <1>4, <1>5, <1>6, <1>7, <1>8, <1>9, Zenon
  DEF Next, Reader, ReaderStops, sendEvent, ReadFails, PollFails, Receiver

\* Every event the kernel drops is reported to the receiver, or the watcher is
\* being closed, unless the Error channel was full of read errors.
THEOREM NoSilentLoss == Spec => []LossReported
<1>1. Init => LossInv
  BY Zenon DEF Init, LossInv
<1>3. WInv /\ LossInv => LossReported
  BY Zenon DEF LossInv, LossReported, InFlight
<1> QED BY <1>1, <1>3, WAlways, LossStep, PTL DEF Spec

(***************************************************************************)
(* Coverage: what is in flight between the kernel and the receiver.        *)
(***************************************************************************)
\* What the kernel does to the events in flight.
LEMMA EmitFlight ==
  ASSUME WInv, NEW kind \in {"create", "self", "file"}, NEW w \in WD, NEW d \in Dir \cup {Root},
         Emit(kind, w, d), UNCHANGED <<buf, Event>>
  PROVE  /\ InFlight \subseteq InFlight'
         /\ w \notin watched => InFlight' = InFlight /\ lost' = lost
         /\ w \in watched => \/ /\ InFlight' = InFlight \cup {[kind |-> kind, wd |-> w, dir |-> d]}
                                /\ lost' = lost
                             \/ lost' /\ Overflow \in InFlight'
<1> DEFINE e == [kind |-> kind, wd |-> w, dir |-> d]
<1>0. kernelQ \in Seq(EventType) /\ e \in EventType /\ Overflow \in EventType
  BY Zenon DEF WInv, TypeOK, EventType, Overflow
<1>1. CASE w \notin watched
  BY <1>1, Zenon DEF Emit, InFlight
<1>2. CASE w \in watched /\ Len(kernelQ) < MaxQueuedEvents
  <2>1. kernelQ' = Append(kernelQ, e) /\ lost' = lost
    BY <1>2, Zenon DEF Emit
  <2> HIDE DEF e
  <2>2. Range(kernelQ') = Range(kernelQ) \cup {e}
    BY <1>0, <2>1, RangeAppend
  <2>3. InFlight' = InFlight \cup {e}
    BY <2>2, Zenon DEF InFlight
  <2> QED BY <1>2, <2>1, <2>3, Zenon DEF e
<1>3. CASE w \in watched /\ ~(Len(kernelQ) < MaxQueuedEvents)
  <2>1. /\ kernelQ' = IF Overflow \in Range(kernelQ) THEN kernelQ ELSE Append(kernelQ, Overflow)
        /\ lost'
    BY <1>3, Zenon DEF Emit
  <2>2. Range(kernelQ) \subseteq Range(kernelQ') /\ Overflow \in Range(kernelQ')
    BY <1>0, <2>1, RangeAppend
  <2> QED BY <1>3, <2>1, <2>2, Zenon DEF InFlight
<1> QED BY <1>1, <1>2, <1>3, Zenon

\* Facts about the tree, the mutex, the walk and the events that always hold:
\* a directory's parent exists, the mutex is held from the system call to the
\* record, WalkDir has finished when the receiver is idle, the event that is
\* being sent is still counted in the buffer, a create event comes from the watch
\* on the parent, and overflows go to the Error channel.
BasicInv ==
  /\ Root \in exists /\ \A d \in exists \ {Root} : Parent[d] \in exists
  /\ cpc \in {"add", "record"} <=> mu = "receiver"
  /\ mu # "reader"
  /\ cpc = "idle" => walk = {}
  /\ cpc \in {"lock", "add", "record", "list"} => cur \in walk
  /\ rpc = "send" => event = <<Head(buf)>>
  /\ \A e \in InFlight : e # Overflow /\ e.kind = "create" => e.dir \in Dir /\ e.wd[1] = Parent[e.dir]
  /\ Overflow \notin Range(Event)

\* The descriptors that are in the maps, or about to be.
Recorded == paths \cup (IF cpc = "record" THEN {wd} ELSE {})

\* The state while nothing was lost: every watch is on a directory that is
\* still there, a directory is watched or walked only after its parent was,
\* every event can be looked up, and every directory is watched or on its way.
Intact ==
  /\ \A w \in watched \cup paths : w[1] \in exists /\ w = Current(w[1])
  /\ paths \subseteq watched /\ watched \subseteq Recorded
  /\ cpc = "record" => wd \in watched /\ wd[1] = cur
  /\ cpc = "list" => Current(cur) \in paths
  /\ \A w \in watched : w[1] # Root => Current(Parent[w[1]]) \in paths
  /\ \A d \in walk \ {Root} : Current(Parent[d]) \in paths
  /\ \A e \in InFlight : e # Overflow => e.wd \in Recorded
  /\ \A d \in exists : Current(d) \in paths \/ WalkPending(d)

\* The end of a directory whose descriptor the reader will find.
SelfPending(e) ==
  /\ e # Overflow /\ e.kind = "self"
  /\ e.wd \in paths \/ (cpc = "record" /\ e.wd = wd /\ \A w \in paths : w[1] # cur)

\* LossPending, without the events that the reader may still drop.
LossSure ==
  \/ Overflow \in InFlight \/ "overflow" \in Range(Error)
  \/ \E e \in InFlight : SelfPending(e)
  \/ cpc \in {"closing", "closed"} \/ rpc = "exited" \/ muted

\* The strengthening of CoverageKept.
CoverInv == BasicInv /\ (LossSure \/ Intact)

\* What a step of the reader does to the rest of the state: an event leaves
\* only because it is an overflow that is reported, or because its descriptor is
\* unknown.
ReaderEffect ==
  /\ InFlight' \subseteq InFlight
  /\ \A e \in InFlight \ InFlight' :
       \/ e = Overflow /\ ("overflow" \in Range(Error') \/ muted')
       \/ e # Overflow /\ e.wd \notin paths /\ mu = "free"
  /\ "overflow" \in Range(Error) => "overflow" \in Range(Error')
  /\ muted => muted'
  /\ rpc # "exited"
  /\ rpc' = "send" => event' = <<Head(buf')>>
  /\ Overflow \notin Range(Event')
  /\ UNCHANGED <<gen, exists, changes, watched, lost, mu, paths, cpc, walk, cur, wd>>

\* Reporting an error forgets none that was reported.
LEMMA ReportKeeps ==
  ASSUME WInv, NEW e \in {"overflow", "read"}, reportError(e), "overflow" \in Range(Error)
  PROVE  "overflow" \in Range(Error')
<1>1. Error \in Seq({"overflow", "read"})
  BY Zenon DEF WInv, TypeOK
<1>2. Error' = Error \/ Error' = Append(Error, e)
  BY ReportEffect, Zenon
<1>3. "overflow" \in Range(Append(Error, e))
  BY <1>1, AppendKeeps, Zenon
<1> QED BY <1>2, <1>3, Zenon

\* Every step of the reader is such a step.
LEMMA ReaderFlow ==
  ASSUME WInv, BasicInv, Reader \/ ReadFails \/ PollFails
  PROVE  ReaderEffect
<1>0. /\ buf \in Seq(EventType) /\ kernelQ \in Seq(EventType) /\ Event \in Seq(EventType)
      /\ Overflow \notin Range(Event)
  BY Zenon DEF WInv, TypeOK, BasicInv
<1>1. ASSUME UNCHANGED exitVars, rpc = "poll" \/ rpc = "send", rpc' = "exited" \/ rpc' = "poll",
             UNCHANGED Error \/ reportError("read")
      PROVE  ReaderEffect
  <2>1. InFlight' = InFlight /\ Event' = Event
    BY <1>1, Zenon DEF exitVars, kernelVars, InFlight
  <2>2. "overflow" \in Range(Error) => "overflow" \in Range(Error')
    BY <1>1, ReportKeeps, Zenon
  <2>3. UNCHANGED <<gen, exists, changes, watched, lost, muted, mu, paths, cpc, walk, cur, wd>>
    BY <1>1, Zenon DEF exitVars, dirVars, kernelVars, receiverVars
  <2> QED BY <1>0, <1>1, <2>1, <2>2, <2>3, Zenon DEF ReaderEffect
<1>2. CASE ReaderStops
  BY <1>1, <1>2, Zenon DEF ReaderStops
<1>3. CASE Read
  <2>1. PICK n \in 1 .. Len(kernelQ) :
           buf' = SubSeq(kernelQ, 1, n) /\ kernelQ' = SubSeq(kernelQ, n + 1, Len(kernelQ))
    BY <1>3, Zenon DEF Read
  <2>2. Range(kernelQ) = Range(buf') \cup Range(kernelQ')
    BY <1>0, <2>1, RangeSplit, Zenon
  <2>3. /\ buf = <<>> /\ rpc = "poll" /\ rpc' = "parse"
        /\ UNCHANGED <<gen, exists, changes, watched, lost, muted, Error, Event, mu, paths, cpc, walk, cur, wd>>
    BY <1>3, Zenon DEF Read, WInv, QueueInv, dirVars, receiverVars
  <2>4. Range(buf) = {}
    BY <2>3, RangeEmpty, Zenon
  <2>5. InFlight' = InFlight
    BY <2>2, <2>3, <2>4, Zenon DEF InFlight
  <2> QED BY <1>0, <2>3, <2>5, Zenon DEF ReaderEffect
<1>4. ASSUME rpc \in {"parse", "send"}, NextBuffered, UNCHANGED <<kernelQ, Event>>
      PROVE  /\ InFlight' \subseteq InFlight /\ InFlight \ InFlight' \subseteq {Head(buf)}
             /\ rpc' \in {"poll", "parse"}
             /\ Range(buf) = {Head(buf)} \cup Range(buf')
  <2>1. buf # <<>> /\ buf' = Tail(buf) /\ rpc' \in {"poll", "parse"}
    BY <1>4, Zenon DEF NextBuffered, WInv, QueueInv
  <2>2. Range(buf) = {Head(buf)} \cup Range(buf')
    BY <1>0, <2>1, RangeTail, Zenon
  <2> QED BY <1>4, <2>1, <2>2, Zenon DEF InFlight
<1>5. CASE ParseOverflow
  <2>1. /\ rpc = "parse" /\ Head(buf) = Overflow /\ reportError("overflow") /\ NextBuffered
        /\ muted' = (muted \/ "overflow" \notin Range(Error'))
        /\ UNCHANGED <<gen, exists, changes, watched, kernelQ, lost, Event, mu, paths, cpc, walk, cur, wd>>
    BY <1>5, Zenon DEF ParseOverflow, dirVars, receiverVars
  <2>2. /\ InFlight' \subseteq InFlight /\ InFlight \ InFlight' \subseteq {Head(buf)}
        /\ rpc' \in {"poll", "parse"}
    BY <1>4, <2>1, Zenon
  <2>3. "overflow" \in Range(Error) => "overflow" \in Range(Error')
    BY <2>1, ReportKeeps, Zenon
  <2> QED BY <1>0, <2>1, <2>2, <2>3, Zenon DEF ReaderEffect
<1>6. CASE Lookup
  <2>1. /\ rpc = "parse" /\ Head(buf) # Overflow /\ mu = "free"
        /\ UNCHANGED <<gen, exists, changes, watched, kernelQ, lost, muted, Event, Error, mu, paths,
                       cpc, walk, cur, wd>>
    BY <1>6, Zenon DEF Lookup, dirVars, kernelVars, receiverVars
  <2>2. CASE Head(buf).wd \in paths
    <3>1. event' = <<Head(buf)>> /\ rpc' = "send" /\ buf' = buf
      BY <1>6, <2>2, Zenon DEF Lookup
    <3>2. InFlight' = InFlight
      BY <2>1, <3>1, Zenon DEF InFlight
    <3> QED BY <1>0, <2>1, <3>1, <3>2, Zenon DEF ReaderEffect
  <2>3. CASE Head(buf).wd \notin paths
    <3>1. NextBuffered
      BY <1>6, <2>3, Zenon DEF Lookup
    <3>2. /\ InFlight' \subseteq InFlight /\ InFlight \ InFlight' \subseteq {Head(buf)}
          /\ rpc' \in {"poll", "parse"}
      BY <1>4, <2>1, <3>1, Zenon
    <3> QED BY <1>0, <2>1, <2>3, <3>2, Zenon DEF ReaderEffect
  <2> QED BY <2>2, <2>3, Zenon
<1>7. CASE Send
  <2>1. /\ rpc = "send" /\ NextBuffered /\ Event' = Event \o event
        /\ UNCHANGED <<gen, exists, changes, watched, kernelQ, lost, muted, Error, mu, paths,
                       cpc, walk, cur, wd>>
    BY <1>7, Zenon DEF Send, dirVars, kernelVars, receiverVars
  <2>2. buf # <<>> /\ buf' = Tail(buf) /\ rpc' \in {"poll", "parse"}
    BY <2>1, Zenon DEF NextBuffered, WInv, QueueInv
  <2>3. Range(buf) = {Head(buf)} \cup Range(buf')
    BY <1>0, <2>2, RangeTail, Zenon
  <2>4. event = <<Head(buf)>> /\ Head(buf) \in EventType
    BY <1>0, <2>1, <2>2, TailTyped, Zenon DEF BasicInv
  <2>5. Event' = Append(Event, Head(buf))
    BY <1>0, <2>1, <2>4
  <2>6. Range(Event') = Range(Event) \cup {Head(buf)}
    BY <1>0, <2>4, <2>5, RangeAppend
  <2>7. InFlight' = InFlight
    BY <2>1, <2>3, <2>6, Zenon DEF InFlight
  <2>8. Head(buf) # Overflow
    BY <2>1, Zenon DEF WInv, QueueInv
  <2> QED BY <1>0, <2>1, <2>2, <2>6, <2>7, <2>8, Zenon DEF ReaderEffect
<1>8. CASE rpc = "send" /\ isClosed /\ rpc' = "exited" /\ event' = <<>> /\ UNCHANGED <<exitVars, Error>>
  BY <1>1, <1>8, Zenon
<1>9. CASE ReadFails \/ PollFails
  BY <1>1, <1>9, Zenon DEF ReadFails, PollFails
<1> QED BY <1>2, <1>3, <1>5, <1>6, <1>7, <1>8, <1>9, Zenon DEF Reader, sendEvent

\* A walk stays pending while neither it nor the event that asks for it is taken.
LEMMA PendingKept ==
  ASSUME walk \subseteq walk',
         \A e \in InFlight : e # Overflow /\ e.kind = "create" => e \in InFlight',
         NEW d, WalkPending(d)
  PROVE  WalkPending(d)'
<1>1. PICK a \in {d} \cup (IF d = Root THEN {} ELSE {Parent[d], Root}) : a \in walk \/ Creates(a) # {}
  BY Zenon DEF WalkPending
<1>2. CASE a \in walk
  BY <1>1, <1>2, Zenon DEF WalkPending
<1>3. CASE Creates(a) # {}
  <2>1. PICK e \in InFlight : e # Overflow /\ e.kind = "create" /\ e.dir = a
    BY <1>3, Zenon DEF Creates
  <2>2. e \in Creates(a)'
    BY <2>1, Zenon DEF Creates
  <2> QED BY <1>1, <2>2, Zenon DEF WalkPending
<1> QED BY <1>1, <1>2, <1>3, Zenon

\* The reader keeps the state intact: it drops no event but overflows.
LEMMA ReaderIntact ==
  ASSUME BasicInv, Intact, ReaderEffect
  PROVE  Intact'
<1>1. UNCHANGED <<gen, exists, watched, paths, cpc, walk, cur, wd>> /\ InFlight' \subseteq InFlight
  BY Zenon DEF ReaderEffect
<1>2. ASSUME NEW e \in InFlight, e # Overflow PROVE e \in InFlight'
  <2>1. e.wd \in paths \/ cpc = "record"
    BY <1>2, Zenon DEF Intact, Recorded
  <2>2. cpc = "record" => mu # "free"
    BY Zenon DEF BasicInv
  <2> QED BY <1>2, <2>1, <2>2, Zenon DEF ReaderEffect
<1>3. \A d : WalkPending(d) => WalkPending(d)'
  BY <1>1, <1>2, PendingKept, Zenon
<1>4. \A d : Current(d)' = Current(d)
  BY <1>1, Zenon DEF Current
<1>5. Recorded' = Recorded
  BY <1>1, Zenon DEF Recorded
<1> QED BY <1>1, <1>3, <1>4, <1>5, Zenon DEF Intact

\* The reader passes a loss on.
LEMMA ReaderSure ==
  ASSUME BasicInv, LossSure, ReaderEffect
  PROVE  LossSure'
<1>1. UNCHANGED <<paths, cpc, cur, wd>>
  BY Zenon DEF ReaderEffect
<1>2. CASE Overflow \in InFlight
  BY <1>2, Zenon DEF ReaderEffect, LossSure
<1>3. ASSUME NEW e \in InFlight, SelfPending(e) PROVE LossSure'
  <2>1. e # Overflow /\ (e.wd \in paths \/ cpc = "record")
    BY <1>3, Zenon DEF SelfPending
  <2>2. cpc = "record" => mu # "free"
    BY Zenon DEF BasicInv
  <2>3. e \in InFlight'
    BY <2>1, <2>2, Zenon DEF ReaderEffect
  <2>4. SelfPending(e)'
    BY <1>1, <1>3, Zenon DEF SelfPending
  <2> QED BY <2>3, <2>4, Zenon DEF LossSure
<1>4. CASE "overflow" \in Range(Error) \/ cpc \in {"closing", "closed"} \/ rpc = "exited" \/ muted
  BY <1>1, <1>4, Zenon DEF ReaderEffect, LossSure
<1> QED BY <1>2, <1>3, <1>4, Zenon DEF LossSure

LEMMA ReaderBasic ==
  ASSUME BasicInv, ReaderEffect
  PROVE  BasicInv'
BY Zenon DEF BasicInv, ReaderEffect

\* What the steps between two walks do: the receiver takes an error, or is on
\* its way to Close.
IdleEffect ==
  /\ InFlight' = InFlight /\ Event' = Event
  /\ cpc \in {"idle", "closing"} /\ cpc' \in {"idle", "closing", "closed"}
  /\ cpc = "closing" => cpc' = "closed"
  /\ "overflow" \in Range(Error) /\ cpc' = "idle" => "overflow" \in Range(Error')
  /\ UNCHANGED <<gen, exists, changes, watched, lost, muted, rpc, buf, event, mu, paths, walk, cur, wd>>

LEMMA IdleFlow ==
  ASSUME WInv, ReceiveError \/ ReceiveClosed \/ Stop \/ Close
  PROVE  IdleEffect
<1> USE DEF quiet, dirVars, kernelVars, readerVars, receiverVars
<1>1. CASE ReceiveError
  <2>1. /\ Error # <<>> /\ Error' = Tail(Error) /\ cpc = "idle"
        /\ cpc' = (IF Head(Error) = "overflow" THEN "closing" ELSE "idle")
        /\ UNCHANGED <<gen, exists, changes, watched, kernelQ, lost, muted, rpc, buf, event, Event, mu, paths, walk, cur, wd>>
    BY <1>1, Zenon DEF ReceiveError
  <2>2. Head(Error) # "overflow" /\ "overflow" \in Range(Error) => "overflow" \in Range(Error')
    BY <2>1, TailKeeps, Zenon DEF WInv, TypeOK
  <2>3. InFlight' = InFlight
    BY <2>1, Zenon DEF InFlight
  <2> QED BY <2>1, <2>2, <2>3, Zenon DEF IdleEffect
<1>2. CASE ReceiveClosed \/ Stop \/ Close
  <2>1. /\ cpc \in {"idle", "closing"} /\ cpc' \in {"closing", "closed"} /\ (cpc = "closing" => cpc' = "closed")
        /\ UNCHANGED <<gen, exists, changes, watched, kernelQ, lost, muted, rpc, buf, event, Event, Error,
                       mu, paths, walk, cur, wd>>
    BY <1>2, Zenon DEF ReceiveClosed, Stop, Close
  <2>2. InFlight' = InFlight
    BY <2>1, Zenon DEF InFlight
  <2> QED BY <2>1, <2>2, Zenon DEF IdleEffect
<1> QED BY <1>1, <1>2, Zenon

LEMMA IdleKeeps ==
  ASSUME BasicInv, IdleEffect
  PROVE  BasicInv' /\ (LossSure => LossSure') /\ (Intact => Intact')
<1>1. BasicInv'
  BY Zenon DEF BasicInv, IdleEffect
<1>2. ASSUME LossSure PROVE LossSure'
  <2>1. ASSUME NEW e \in InFlight, SelfPending(e) PROVE SelfPending(e)'
    BY <2>1, Zenon DEF SelfPending, IdleEffect
  <2> QED BY <1>2, <2>1, Zenon DEF LossSure, IdleEffect
<1>3. ASSUME Intact PROVE Intact'
  <2>1. UNCHANGED <<gen, exists, watched, paths, walk, cur, wd>> /\ InFlight' = InFlight
    BY Zenon DEF IdleEffect
  <2>2. \A d : WalkPending(d) => WalkPending(d)'
    BY <2>1, PendingKept, Zenon
  <2>3. \A d : Current(d)' = Current(d)
    BY <2>1, Zenon DEF Current
  <2>4. Recorded = paths /\ Recorded' = paths /\ cpc' \notin {"record", "list"}
    BY <2>1, Zenon DEF Recorded, IdleEffect
  <2> QED BY <1>3, <2>1, <2>2, <2>3, <2>4, Zenon DEF Intact
<1> QED BY <1>1, <1>2, <1>3, Zenon

\* Receiving an event: a create event becomes a walk, the end of a directory
\* the end of the watcher.
LEMMA ReceiveKeeps ==
  ASSUME WInv, BasicInv, ReceiveEvent
  PROVE  BasicInv' /\ (LossSure => LossSure') /\ (Intact => Intact')
<1> DEFINE h == Head(Event)
<1>0. Event \in Seq(EventType) /\ Event # <<>>
  BY Zenon DEF WInv, TypeOK, ReceiveEvent
<1>1. /\ cpc = "idle" /\ walk = {} /\ Event' = Tail(Event)
      /\ cpc' = (CASE h.kind = "create" -> "walk" [] h.kind = "self" -> "closing" [] OTHER -> "idle")
      /\ walk' = (IF h.kind = "create" THEN {h.dir} ELSE {})
      /\ UNCHANGED <<gen, exists, changes, watched, kernelQ, lost, muted, rpc, buf, event, Error, mu, paths, cur, wd>>
  BY Zenon DEF ReceiveEvent, BasicInv, quiet, dirVars, kernelVars, readerVars
<1>2. Range(Event) = {h} \cup Range(Event')
  BY <1>0, <1>1, RangeTail, Zenon
<1>3. h \in InFlight /\ h # Overflow /\ InFlight' \subseteq InFlight /\ InFlight \ InFlight' \subseteq {h}
  BY <1>1, <1>2, Zenon DEF InFlight, BasicInv
<1> HIDE DEF h
<1>4. cpc' \in {"walk", "closing", "idle"} /\ (cpc' = "idle" => h.kind # "create" /\ h.kind # "self")
  <2>1. CASE h.kind = "create"
    BY <1>1, <2>1, Zenon
  <2>2. CASE h.kind = "self"
    BY <1>1, <2>2, Zenon
  <2>3. CASE h.kind # "create" /\ h.kind # "self"
    BY <1>1, <2>3, Zenon
  <2> QED BY <2>1, <2>2, <2>3, Zenon
<1>5. h.kind = "self" => cpc' = "closing"
  BY <1>1, Zenon
<1>6. BasicInv'
  <2>1. cpc' = "idle" => walk' = {}
    BY <1>1, <1>4, Zenon
  <2>2. Overflow \notin Range(Event')
    BY <1>2, Zenon DEF BasicInv
  <2> QED BY <1>1, <1>3, <1>4, <2>1, <2>2, Zenon DEF BasicInv
<1>7. ASSUME LossSure PROVE LossSure'
  <2>1. CASE \E e \in InFlight : SelfPending(e)
    <3>1. PICK e \in InFlight : SelfPending(e)
      BY <2>1, Zenon
    <3>2. e.kind = "self" /\ e.wd \in paths /\ e # Overflow
      BY <1>1, <3>1, Zenon DEF SelfPending
    <3>3. CASE e = h
      BY <1>5, <3>2, <3>3, Zenon DEF LossSure
    <3>4. CASE e # h
      <4>1. e \in InFlight' /\ SelfPending(e)'
        BY <1>1, <1>3, <3>2, <3>4, Zenon DEF SelfPending
      <4> QED BY <4>1, Zenon DEF LossSure
    <3> QED BY <3>3, <3>4, Zenon
  <2>2. CASE Overflow \in InFlight
    BY <1>3, <2>2, Zenon DEF LossSure
  <2>3. CASE "overflow" \in Range(Error) \/ rpc = "exited" \/ muted
    BY <1>1, <2>3, Zenon DEF LossSure
  <2> QED BY <1>1, <1>7, <2>1, <2>2, <2>3, Zenon DEF LossSure
<1>8. ASSUME Intact PROVE Intact'
  <2>1. \A d : Current(d)' = Current(d)
    BY <1>1, Zenon DEF Current
  <2>2. Recorded = paths /\ Recorded' = paths /\ cpc' \notin {"record", "list"}
    BY <1>1, <1>4, Zenon DEF Recorded
  <2>3. ASSUME NEW d \in walk' \ {Root} PROVE Current(Parent[d]) \in paths
    <3>1. h.kind = "create" /\ d = h.dir
      BY <1>1, <2>3, Zenon
    <3>2. h.wd \in paths /\ h.wd[1] = Parent[d]
      BY <1>3, <1>8, <2>2, <3>1, Zenon DEF BasicInv, Intact
    <3> QED BY <1>8, <3>2, Zenon DEF Intact
  <2>4. ASSUME NEW d, WalkPending(d) PROVE WalkPending(d)'
    <3>1. PICK a \in {d} \cup (IF d = Root THEN {} ELSE {Parent[d], Root}) : Creates(a) # {}
      BY <1>1, <2>4, Zenon DEF WalkPending
    <3>2. PICK e \in InFlight : e # Overflow /\ e.kind = "create" /\ e.dir = a
      BY <3>1, Zenon DEF Creates
    <3>3. CASE e = h
      <4>1. a \in walk'
        BY <1>1, <3>2, <3>3, Zenon
      <4> QED BY <3>1, <4>1, Zenon DEF WalkPending
    <3>4. CASE e # h
      <4>1. e \in Creates(a)'
        BY <1>3, <3>2, <3>4, Zenon DEF Creates
      <4> QED BY <3>1, <4>1, Zenon DEF WalkPending
    <3> QED BY <3>3, <3>4, Zenon
  <2>5. \A e \in InFlight' : e # Overflow => e.wd \in paths
    BY <1>3, <1>8, <2>2, Zenon DEF Intact
  <2>6. /\ \A w \in watched \cup paths : w[1] \in exists /\ w = Current(w[1])
        /\ paths \subseteq watched /\ watched \subseteq paths
        /\ \A w \in watched : w[1] # Root => Current(Parent[w[1]]) \in paths
        /\ \A d \in exists : Current(d) \in paths \/ WalkPending(d)'
    BY <1>8, <2>2, <2>4, Zenon DEF Intact
  <2> QED BY <1>1, <2>1, <2>2, <2>3, <2>5, <2>6, Zenon DEF Intact
<1> QED BY <1>6, <1>7, <1>8, Zenon

\* The steps of addDirectoryWatches leave what is in flight alone.
LEMMA WalkFlow ==
  ASSUME AddWatch
  PROVE  /\ InFlight' = InFlight
         /\ UNCHANGED <<gen, exists, changes, kernelQ, lost, muted, rpc, buf, event, Event, Error>>
<1> USE DEF quiet, dirVars, kernelVars, readerVars
<1>1. UNCHANGED <<gen, exists, changes, kernelQ, lost, muted, rpc, buf, event, Event, Error>>
  <2>1. CASE WalkNext
    BY <2>1, Zenon DEF WalkNext
  <2>2. CASE AddWatchLock
    BY <2>2, Zenon DEF AddWatchLock
  <2>3. CASE InotifyAddWatch
    BY <2>3, Zenon DEF InotifyAddWatch
  <2>4. CASE AddWatchRecord
    BY <2>4, Zenon DEF AddWatchRecord
  <2>5. CASE ReadDir
    BY <2>5, Zenon DEF ReadDir
  <2> QED BY <2>1, <2>2, <2>3, <2>4, <2>5, Zenon DEF AddWatch
<1> QED BY <1>1, Zenon DEF InFlight

LEMMA WalkBasic ==
  ASSUME WInv, BasicInv, AddWatch
  PROVE  BasicInv'
<1>0. /\ InFlight' = InFlight
      /\ UNCHANGED <<gen, exists, changes, kernelQ, lost, muted, rpc, buf, event, Event, Error>>
  BY WalkFlow, Zenon
<1>1. CASE WalkNext
  <2>1. /\ cpc = "walk" /\ cpc' \in {"idle", "lock"} /\ UNCHANGED <<mu, walk>>
        /\ cpc' = "idle" => walk = {}
        /\ cpc' = "lock" => cur' \in walk
    BY <1>1, Zenon DEF WalkNext
  <2> QED BY <1>0, <2>1, Zenon DEF BasicInv
<1>2. CASE AddWatchLock
  <2>1. cpc = "lock" /\ mu' = "receiver" /\ cpc' = "add" /\ UNCHANGED <<walk, cur>>
    BY <1>2, Zenon DEF AddWatchLock
  <2> QED BY <1>0, <2>1, Zenon DEF BasicInv
<1>3. CASE InotifyAddWatch
  <2>1. /\ cpc = "add" /\ UNCHANGED <<walk, cur>>
        /\ \/ cpc' = "record" /\ mu' = mu
           \/ cpc' = "closing" /\ mu' = "free"
    BY <1>3, Zenon DEF InotifyAddWatch
  <2> QED BY <1>0, <2>1, Zenon DEF BasicInv
<1>4. CASE AddWatchRecord
  <2>1. cpc = "record" /\ mu' = "free" /\ cpc' = "list" /\ UNCHANGED <<walk, cur>>
    BY <1>4, Zenon DEF AddWatchRecord
  <2> QED BY <1>0, <2>1, Zenon DEF BasicInv
<1>5. CASE ReadDir
  <2>1. cpc = "list" /\ cpc' \in {"walk", "closing"} /\ mu' = mu
    BY <1>5, Zenon DEF ReadDir
  <2> QED BY <1>0, <2>1, Zenon DEF BasicInv
<1> QED BY <1>1, <1>2, <1>3, <1>4, <1>5, Zenon DEF AddWatch

LEMMA WalkSure ==
  ASSUME WInv, BasicInv, AddWatch, LossSure
  PROVE  LossSure'
<1>0. /\ InFlight' = InFlight
      /\ UNCHANGED <<gen, exists, changes, kernelQ, lost, muted, rpc, buf, event, Event, Error>>
  BY WalkFlow, Zenon
<1>1. cpc \in {"walk", "lock", "add", "record", "list"}
  BY Zenon DEF AddWatch, WalkNext, AddWatchLock, InotifyAddWatch, AddWatchRecord, ReadDir
<1>2. paths \subseteq paths' /\ (cpc = "record" /\ (\A w \in paths : w[1] # cur) => wd \in paths')
  <2>1. CASE AddWatchRecord
    BY <2>1, Zenon DEF AddWatchRecord
  <2>2. CASE ~AddWatchRecord
    <3>1. paths' = paths /\ cpc # "record"
      BY <2>2, Zenon DEF AddWatch, WalkNext, AddWatchLock, InotifyAddWatch, ReadDir
    <3> QED BY <3>1, Zenon
  <2> QED BY <2>1, <2>2, Zenon
<1>3. ASSUME NEW e \in InFlight, SelfPending(e) PROVE SelfPending(e)'
  BY <1>2, <1>3, Zenon DEF SelfPending
<1> QED BY <1>0, <1>1, <1>3, Zenon DEF LossSure

\* addDirectoryWatches keeps the state intact: the directory at hand stays to be
\* walked until it is watched and its children are to be walked.
LEMMA WalkIntact ==
  ASSUME WInv, BasicInv, AddWatch, Intact
  PROVE  Intact'
<1>0. /\ InFlight' = InFlight
      /\ UNCHANGED <<gen, exists, changes, kernelQ, lost, muted, rpc, buf, event, Event, Error>>
  BY WalkFlow, Zenon
<1>c. \A d : Current(d)' = Current(d)
  BY <1>0, Zenon DEF Current
<1>p. ASSUME walk' = walk PROVE \A d : WalkPending(d) => WalkPending(d)'
  BY <1>0, <1>p, PendingKept, Zenon
<1>1. CASE WalkNext \/ AddWatchLock
  <2>1. cpc \in {"walk", "lock"} /\ cpc' \in {"idle", "lock", "add"} /\ UNCHANGED <<watched, paths, walk, wd>>
    BY <1>1, Zenon DEF WalkNext, AddWatchLock, quiet, kernelVars
  <2>2. Recorded = paths /\ Recorded' = paths
    BY <2>1, Zenon DEF Recorded
  <2> QED BY <1>0, <1>c, <1>p, <2>1, <2>2, Zenon DEF Intact
<1>2. CASE InotifyAddWatch
  <2>1. cpc = "add" /\ UNCHANGED <<paths, walk, cur>>
    BY <1>2, Zenon DEF InotifyAddWatch
  <2>2. Recorded = paths /\ cur \in walk
    BY <2>1, Zenon DEF Recorded, BasicInv
  <2>3. CASE cur \notin exists
    <3>1. cpc' = "closing" /\ UNCHANGED <<wd, watched>>
      BY <1>2, <2>3, Zenon DEF InotifyAddWatch
    <3>2. Recorded' = paths
      BY <2>1, <3>1, Zenon DEF Recorded
    <3> QED BY <1>0, <1>c, <1>p, <2>1, <2>2, <3>1, <3>2, Zenon DEF Intact
  <2>4. CASE cur \in exists
    <3>1. cpc' = "record" /\ wd' = Current(cur) /\ watched' = watched \cup {Current(cur)}
      BY <1>2, <2>4, Zenon DEF InotifyAddWatch
    <3>2. Recorded' = paths \cup {Current(cur)}
      BY <2>1, <3>1, Zenon DEF Recorded
    <3>3. Current(cur)[1] = cur
      BY Zenon DEF Current
    <3>4. cur # Root => Current(Parent[cur]) \in paths
      BY <2>2, Zenon DEF Intact
    <3>5. /\ \A w \in watched' \cup paths : w[1] \in exists /\ w = Current(w[1])
          /\ paths \subseteq watched' /\ watched' \subseteq Recorded'
          /\ \A w \in watched' : w[1] # Root => Current(Parent[w[1]]) \in paths
          /\ \A e \in InFlight : e # Overflow => e.wd \in Recorded'
      BY <2>2, <2>4, <3>1, <3>2, <3>3, <3>4, Zenon DEF Intact
    <3>6. /\ \A d \in walk \ {Root} : Current(Parent[d]) \in paths
          /\ \A d \in exists : Current(d) \in paths \/ WalkPending(d)'
      BY <1>p, <2>1, Zenon DEF Intact
    <3>7. wd' \in watched' /\ wd'[1] = cur
      BY <3>1, <3>3, Zenon
    <3> QED BY <1>0, <1>c, <2>1, <3>1, <3>5, <3>6, <3>7, Zenon DEF Intact
  <2> QED BY <2>3, <2>4, Zenon
<1>3. CASE AddWatchRecord
  <2>1. /\ cpc = "record" /\ cpc' = "list" /\ UNCHANGED <<watched, walk, cur, wd>>
        /\ paths' = IF \E w \in paths : w[1] = cur THEN paths ELSE paths \cup {wd}
    BY <1>3, Zenon DEF AddWatchRecord, quiet, kernelVars
  <2>2. wd \in watched /\ wd[1] = cur /\ wd = Current(cur)
    BY <2>1, Zenon DEF Intact
  <2>3. paths' = paths \cup {wd}
    BY <2>1, <2>2, Zenon DEF Intact
  <2>4. Recorded = paths \cup {wd} /\ Recorded' = paths'
    BY <2>1, <2>3, Zenon DEF Recorded
  <2>5. /\ \A w \in watched \cup paths' : w[1] \in exists /\ w = Current(w[1])
        /\ paths' \subseteq watched /\ watched \subseteq paths'
        /\ \A e \in InFlight : e # Overflow => e.wd \in paths'
    BY <2>2, <2>3, <2>4, Zenon DEF Intact
  <2>6. /\ \A w \in watched : w[1] # Root => Current(Parent[w[1]]) \in paths'
        /\ \A d \in walk \ {Root} : Current(Parent[d]) \in paths'
        /\ \A d \in exists : Current(d) \in paths' \/ WalkPending(d)'
    BY <1>p, <2>1, <2>3, Zenon DEF Intact
  <2>7. Current(cur) \in paths'
    BY <2>2, <2>3, Zenon
  <2> QED BY <1>0, <1>c, <2>1, <2>4, <2>5, <2>6, <2>7, Zenon DEF Intact
<1>4. CASE ReadDir
  <2>1. cpc = "list" /\ UNCHANGED <<watched, paths, cur, wd>> /\ cpc' \in {"walk", "closing"}
    BY <1>4, Zenon DEF ReadDir, quiet, kernelVars
  <2>2. Recorded = paths /\ Recorded' = paths /\ Current(cur) \in paths
    BY <2>1, Zenon DEF Recorded, Intact
  <2>3. CASE cur \notin exists
    <3>1. walk' = walk
      BY <1>4, <2>3, Zenon DEF ReadDir
    <3> QED BY <1>0, <1>c, <1>p, <2>1, <2>2, <3>1, Zenon DEF Intact
  <2>4. CASE cur \in exists
    <3>1. walk' = (walk \ {cur}) \cup Children(cur)
      BY <1>4, <2>4, Zenon DEF ReadDir
    <3>2. Children(cur) = {c \in exists \ {Root} : Parent[c] = cur}
      BY Zenon DEF Children
    <3>3. \A d \in walk' \ {Root} : Current(Parent[d]) \in paths
      BY <2>2, <3>1, <3>2, Zenon DEF Intact
    <3>4. ASSUME NEW d \in exists, Current(d) \notin paths PROVE WalkPending(d)'
      <4>1. PICK a \in {d} \cup (IF d = Root THEN {} ELSE {Parent[d], Root}) : a \in walk \/ Creates(a) # {}
        BY <3>4, Zenon DEF Intact, WalkPending
      <4>2. CASE Creates(a) # {}
        <5>1. Creates(a)' # {}
          BY <1>0, <4>2, Zenon DEF Creates
        <5> QED BY <4>1, <5>1, Zenon DEF WalkPending
      <4>3. CASE a \in walk /\ a # cur
        <5>1. a \in walk'
          BY <3>1, <4>3, Zenon
        <5> QED BY <4>1, <5>1, Zenon DEF WalkPending
      <4>4. CASE a = cur
        <5>1. d # cur
          BY <2>2, <3>4, Zenon
        <5>2. d # Root /\ (cur = Parent[d] \/ cur = Root)
          BY <4>1, <4>4, <5>1, Zenon
        <5>3. CASE cur = Parent[d]
          <6>1. d \in walk'
            BY <3>1, <3>2, <5>2, <5>3, Zenon
          <6> QED BY <6>1, Zenon DEF WalkPending
        <5>4. CASE cur # Parent[d] /\ cur = Root
          <6>1. Parent[d] \in exists \ {Root} /\ d \in Dir
            BY <5>2, <5>4, Zenon DEF BasicInv, WInv, TypeOK
          <6>2. Parent[Parent[d]] = Root
            BY <6>1, TwoLevels, Zenon
          <6>3. Parent[d] \in walk'
            BY <3>1, <3>2, <5>4, <6>1, <6>2, Zenon
          <6> QED BY <5>2, <6>3, Zenon DEF WalkPending
        <5> QED BY <5>2, <5>3, <5>4, Zenon
      <4> QED BY <4>1, <4>2, <4>3, <4>4, Zenon
    <3>5. /\ \A w \in watched \cup paths : w[1] \in exists /\ w = Current(w[1])
          /\ paths \subseteq watched /\ watched \subseteq paths
          /\ \A w \in watched : w[1] # Root => Current(Parent[w[1]]) \in paths
          /\ \A e \in InFlight : e # Overflow => e.wd \in paths
      BY <2>2, Zenon DEF Intact
    <3> QED BY <1>0, <1>c, <2>1, <2>2, <3>3, <3>4, <3>5, Zenon DEF Intact
  <2> QED BY <2>3, <2>4, Zenon
<1> QED BY <1>1, <1>2, <1>3, <1>4, Zenon DEF AddWatch

\* What each change of the tree does, the event it causes included.
LEMMA TreeFlow ==
  ASSUME WInv, Environment
  PROVE  /\ InFlight \subseteq InFlight'
         /\ UNCHANGED <<muted, rpc, buf, event, Event, Error, mu, isClosed, paths, cpc, walk, cur, wd>>
<1>1. TreeStep
  BY EnvironmentEffect, Zenon
<1>2. UNCHANGED <<muted, rpc, buf, event, Event, Error, mu, isClosed, paths, cpc, walk, cur, wd>>
  BY <1>1, Zenon DEF TreeStep, others, readerVars, receiverVars
<1>3. PICK kind \in {"create", "self", "file"}, w \in WD, d \in Dir \cup {Root} : Emit(kind, w, d)
  BY <1>1, Zenon DEF TreeStep
<1>4. InFlight \subseteq InFlight'
  BY <1>2, <1>3, EmitFlight, Zenon
<1> QED BY <1>2, <1>4, Zenon

LEMMA TreeSure ==
  ASSUME WInv, Environment, LossSure
  PROVE  LossSure'
<1>1. /\ InFlight \subseteq InFlight'
      /\ UNCHANGED <<muted, rpc, Error, paths, cpc, cur, wd>>
  BY TreeFlow, Zenon
<1>2. \A e : SelfPending(e) => SelfPending(e)'
  BY <1>1, Zenon DEF SelfPending
<1> QED BY <1>1, <1>2, Zenon DEF LossSure

\* The events that a change of the tree can add.
LEMMA TreeEvents ==
  ASSUME WInv, Environment
  PROVE  \A e \in InFlight' \ InFlight :
           e # Overflow /\ e.kind = "create" => e.dir \in Dir /\ e.wd[1] = Parent[e.dir]
<1>0. /\ UNCHANGED <<buf, Event>>
      /\ \A d \in Dir \cup {Root} : Current(d) \in WD /\ Current(d)[1] = d
      /\ \A d \in Dir : Parent[d] \in Dir \cup {Root}
  BY TreeFlow, Zenon DEF WInv, TypeOK, Current, WD
<1>1. ASSUME NEW kind \in {"create", "self", "file"}, NEW w \in WD, NEW d \in Dir \cup {Root},
             Emit(kind, w, d), NEW e \in InFlight' \ InFlight, e # Overflow
      PROVE  e = [kind |-> kind, wd |-> w, dir |-> d]
  <2>1. kernelQ \in Seq(EventType) /\ Overflow \in EventType /\ [kind |-> kind, wd |-> w, dir |-> d] \in EventType
    BY Zenon DEF WInv, TypeOK, EventType, Overflow
  <2>2. e \in Range(kernelQ') \ Range(kernelQ)
    BY <1>0, <1>1, Zenon DEF InFlight
  <2>3. \/ kernelQ' = kernelQ
        \/ kernelQ' = Append(kernelQ, [kind |-> kind, wd |-> w, dir |-> d])
        \/ kernelQ' = Append(kernelQ, Overflow)
    BY <1>1, Zenon DEF Emit
  <2>4. Range(Append(kernelQ, [kind |-> kind, wd |-> w, dir |-> d]))
          = Range(kernelQ) \cup {[kind |-> kind, wd |-> w, dir |-> d]}
    BY <2>1, RangeAppend
  <2>5. Range(Append(kernelQ, Overflow)) = Range(kernelQ) \cup {Overflow}
    BY <2>1, RangeAppend, Zenon
  <2> QED BY <1>1, <2>2, <2>3, <2>4, <2>5, Zenon
<1>2. ASSUME NEW e \in InFlight' \ InFlight, e # Overflow, e.kind = "create"
      PROVE  e.dir \in Dir /\ e.wd[1] = Parent[e.dir]
  <2>1. ASSUME NEW d \in Dir, Appear(d) PROVE e.dir \in Dir /\ e.wd[1] = Parent[e.dir]
    <3>1. Emit("create", Current(Parent[d]), d) /\ Current(Parent[d]) \in WD
      BY <1>0, <2>1, Zenon DEF Appear
    <3>2. e = [kind |-> "create", wd |-> Current(Parent[d]), dir |-> d]
      BY <1>1, <1>2, <3>1, Zenon
    <3> QED BY <1>0, <3>2, Zenon
  <2>2. ASSUME NEW d \in Dir, Vanish(d) PROVE FALSE
    <3>1. Emit("self", Current(d), d) /\ Current(d) \in WD
      BY <1>0, <2>2, Zenon DEF Vanish
    <3>2. e = [kind |-> "self", wd |-> Current(d), dir |-> d]
      BY <1>1, <1>2, <3>1, Zenon
    <3> QED BY <1>2, <3>2, Zenon
  <2>3. ASSUME NEW d \in Dir \cup {Root}, FileActivity(d) PROVE FALSE
    <3>1. Emit("file", Current(d), d) /\ Current(d) \in WD
      BY <1>0, <2>3, Zenon DEF FileActivity
    <3>2. e = [kind |-> "file", wd |-> Current(d), dir |-> d]
      BY <1>1, <1>2, <3>1, Zenon
    <3> QED BY <1>2, <3>2, Zenon
  <2> QED BY <2>1, <2>2, <2>3, Zenon DEF Environment
<1> QED BY <1>2, Zenon

\* The tree stays a tree.
LEMMA TreeStays ==
  ASSUME WInv, BasicInv, Environment
  PROVE  Root \in exists' /\ \A d \in exists' \ {Root} : Parent[d] \in exists'
<1>0. Root \in exists /\ (\A d \in exists \ {Root} : Parent[d] \in exists) /\ exists \subseteq Dir \cup {Root}
  BY Zenon DEF BasicInv, WInv, TypeOK
<1>1. ASSUME NEW d \in Dir, Appear(d) PROVE Root \in exists' /\ \A x \in exists' \ {Root} : Parent[x] \in exists'
  <2>1. PICK sub \in SUBSET {c \in Dir : Parent[c] = d} : exists' = exists \cup {d} \cup sub
    BY <1>1, Zenon DEF Appear
  <2>2. Parent[d] \in exists
    BY <1>1, Zenon DEF Appear
  <2> QED BY <1>0, <2>1, <2>2, Zenon
<1>2. ASSUME NEW d \in Dir, Vanish(d) PROVE Root \in exists' /\ \A x \in exists' \ {Root} : Parent[x] \in exists'
  <2>1. exists' = exists \ ({d} \cup {c \in Dir : Parent[c] = d}) /\ d \in exists \ {Root}
    BY <1>2, Zenon DEF Vanish, Below
  <2>2. ASSUME NEW x \in exists' \ {Root} PROVE Parent[x] \in exists'
    <3>1. x \in exists \ {Root} /\ x \in Dir /\ Parent[x] # d /\ Parent[x] \in exists
      BY <1>0, <2>1, Zenon
    <3>2. Parent[x] # Root => Parent[Parent[x]] = Root
      BY <3>1, TwoLevels, Zenon
    <3> QED BY <2>1, <3>1, <3>2, Zenon
  <2> QED BY <1>0, <2>1, <2>2, Zenon
<1>3. ASSUME NEW d \in Dir \cup {Root}, FileActivity(d) PROVE exists' = exists
  BY <1>3, Zenon DEF FileActivity
<1> QED BY <1>0, <1>1, <1>2, <1>3, Zenon DEF Environment

LEMMA TreeBasic ==
  ASSUME WInv, BasicInv, Environment
  PROVE  BasicInv'
<1>1. UNCHANGED <<rpc, buf, event, Event, mu, cpc, walk, cur>>
  BY TreeFlow, Zenon
<1>2. Root \in exists' /\ \A d \in exists' \ {Root} : Parent[d] \in exists'
  BY TreeStays, Zenon
<1>3. \A e \in InFlight' : e # Overflow /\ e.kind = "create" => e.dir \in Dir /\ e.wd[1] = Parent[e.dir]
  BY TreeEvents, Zenon DEF BasicInv
<1> QED BY <1>1, <1>2, <1>3, Zenon DEF BasicInv

\* The two ways to lose something: the kernel's queue is full, or a directory
\* with a watch goes.
WatchedVanishes ==
  \E d \in Dir : /\ Vanish(d) /\ Current(d) \in watched
                 /\ [kind |-> "self", wd |-> Current(d), dir |-> d] \in InFlight'

\* Any other change of the tree keeps the state intact.
LEMMA TreeIntact ==
  ASSUME WInv, BasicInv, Environment, Intact
  PROVE  Intact' \/ (lost' /\ Overflow \in InFlight') \/ WatchedVanishes
<1> SUFFICES ASSUME ~(lost' /\ Overflow \in InFlight'), ~WatchedVanishes PROVE Intact'
  BY Zenon
<1>0. /\ UNCHANGED <<buf, Event, paths, cpc, walk, cur, wd>> /\ InFlight \subseteq InFlight'
      /\ \A d \in Dir \cup {Root} : Current(d) \in WD /\ Current(d)[1] = d
      /\ exists \subseteq Dir \cup {Root} /\ gen \in [Dir \cup {Root} -> Nat]
      /\ Recorded' = Recorded
  BY TreeFlow, Zenon DEF WInv, TypeOK, Current, WD, Recorded
<1>p. \A d : WalkPending(d) => WalkPending(d)'
  BY <1>0, PendingKept, Zenon
<1>1. ASSUME NEW d \in Dir, Appear(d) PROVE Intact'
  <2> DEFINE e == [kind |-> "create", wd |-> Current(Parent[d]), dir |-> d]
  <2>1. PICK sub \in SUBSET {c \in Dir : Parent[c] = d} :
           /\ exists' = exists \cup {d} \cup sub
           /\ gen' = [x \in DOMAIN gen |-> IF x \in {d} \cup sub THEN gen[x] + 1 ELSE gen[x]]
    BY <1>1, Zenon DEF Appear
  <2>2. d \notin exists /\ Parent[d] \in exists /\ watched' = watched
    BY <1>1, Zenon DEF Appear
  <2>3. \A c \in sub : c \notin exists /\ c # Root /\ Parent[c] = d
    BY <2>1, <2>2 DEF BasicInv
  <2>4. ASSUME NEW x \in exists PROVE Current(x)' = Current(x)
    BY <1>0, <2>1, <2>2, <2>3, Zenon DEF Current
  <2>5. Emit("create", Current(Parent[d]), d) /\ Current(Parent[d]) \in WD
    BY <1>0, <1>1, <2>2, Zenon DEF Appear
  <2>6. /\ Current(Parent[d]) \notin watched => InFlight' = InFlight
        /\ Current(Parent[d]) \in watched => InFlight' = InFlight \cup {e}
    BY <1>0, <2>5, EmitFlight, Zenon
  <2>7. e # Overflow /\ e.kind = "create" /\ e.dir = d /\ e.wd = Current(Parent[d])
    BY Zenon DEF Overflow
  <2> HIDE DEF e
  <2>8. WalkPending(d)' /\ \A c \in sub : WalkPending(c)'
    <3>1. CASE Current(Parent[d]) \in watched
      <4>1. e \in Creates(d)'
        BY <2>6, <2>7, <3>1, Zenon DEF Creates
      <4> QED BY <2>3, <4>1, Zenon DEF WalkPending
    <3>2. CASE Current(Parent[d]) \notin watched
      <4>1. WalkPending(Parent[d])'
        BY <1>p, <2>2, <3>2, Zenon DEF Intact
      <4>2. PICK a \in {Parent[d]} \cup (IF Parent[d] = Root THEN {} ELSE {Parent[Parent[d]], Root}) :
               (a \in walk \/ Creates(a) # {})'
        BY <4>1, Zenon DEF WalkPending
      <4>3. a = Parent[d] \/ a = Root
        BY <4>2, TwoLevels, Zenon
      <4>4. d # Root
        BY Zenon
      <4>5. WalkPending(d)'
        BY <4>2, <4>3, <4>4, Zenon DEF WalkPending
      <4>6. ASSUME NEW c \in sub PROVE WalkPending(c)'
        <5>1. c \in Dir /\ Parent[c] = d /\ c # Root
          BY <2>1, <2>3, Zenon
        <5>2. Parent[d] = Root
          BY <4>4, <5>1, TwoLevels, Zenon
        <5> QED BY <4>2, <4>3, <5>1, <5>2, Zenon DEF WalkPending
      <4> QED BY <4>5, <4>6, Zenon
    <3> QED BY <3>1, <3>2, Zenon
  <2>9. \A x \in exists' : Current(x)' \in paths \/ WalkPending(x)'
    BY <1>p, <2>1, <2>4, <2>8, Zenon DEF Intact
  <2>10. \A w \in watched \cup paths : w[1] \in exists' /\ w = Current(w[1])'
    BY <2>1, <2>4 DEF Intact
  <2>11. ASSUME NEW w \in watched, w[1] # Root PROVE Current(Parent[w[1]])' \in paths
    <3>1. w[1] \in exists /\ Parent[w[1]] \in exists /\ Current(Parent[w[1]]) \in paths
      BY <2>11, Zenon DEF Intact, BasicInv
    <3> QED BY <2>4, <3>1, Zenon
  <2>12. ASSUME NEW x \in walk \ {Root} PROVE Current(Parent[x])' \in paths
    <3>1. Current(Parent[x]) \in paths /\ x \in Dir /\ Parent[x] \in Dir \cup {Root}
      BY <2>12, Zenon DEF Intact, WInv, TypeOK
    <3>2. Parent[x] \in exists
      BY <1>0, <3>1, Zenon DEF Intact
    <3> QED BY <2>4, <3>1, <3>2, Zenon
  <2>13. \A f \in InFlight' : f # Overflow => f.wd \in Recorded
    BY <2>6, <2>7, Zenon DEF Intact
  <2>14. cpc = "list" => Current(cur)' \in paths
    <3> SUFFICES ASSUME cpc = "list" PROVE Current(cur)' \in paths
      BY Zenon
    <3>1. Current(cur) \in paths /\ cur \in Dir \cup {Root}
      BY Zenon DEF Intact, WInv, TypeOK
    <3>2. cur \in exists
      BY <1>0, <3>1 DEF Intact
    <3>3. gen'[cur] = gen[cur] /\ cur' = cur
      BY <1>0, <2>1, <2>2, <2>3, <3>2, Zenon
    <3>4. Current(cur)' = Current(cur)
      BY <3>3, Zenon DEF Current
    <3> QED BY <3>1, <3>4, Zenon
  <2>15. /\ paths' = paths /\ watched' = watched /\ cpc' = cpc /\ walk' = walk /\ cur' = cur /\ wd' = wd
         /\ paths \subseteq watched /\ watched \subseteq Recorded
         /\ cpc = "record" => wd \in watched /\ wd[1] = cur
    BY <1>0, <2>2, Zenon DEF Intact
  <2>16. cpc' = "list" => Current(cur)' \in paths'
    BY <2>14, <2>15, Zenon
  <2> QED BY <1>0, <2>9, <2>10, <2>11, <2>12, <2>13, <2>15, <2>16, Zenon DEF Intact
<1>2. ASSUME NEW d \in Dir, Vanish(d) PROVE Intact'
  <2>1. /\ exists' = exists \ ({d} \cup {c \in Dir : Parent[c] = d}) /\ d \in exists \ {Root}
        /\ gen' = gen /\ watched' = watched \ {Current(d)} /\ Emit("self", Current(d), d)
    BY <1>2, Zenon DEF Vanish, Below
  <2>2. \A x : Current(x)' = Current(x)
    BY <2>1, Zenon DEF Current
  <2>3. Current(d) \notin watched /\ InFlight' = InFlight
    BY <1>0, <1>2, <2>1, EmitFlight DEF WatchedVanishes
  <2>4. watched' = watched
    BY <2>1, <2>3, Zenon
  <2>5. ASSUME NEW w \in watched \cup paths PROVE w[1] \in exists'
    <3>1. w \in watched /\ w[1] \in exists /\ w = Current(w[1])
      BY Zenon DEF Intact
    <3>2. w[1] # d
      BY <2>3, <3>1, Zenon
    <3>3. w[1] # Root => Current(Parent[w[1]]) \in watched
      BY <3>1, Zenon DEF Intact
    <3> QED BY <2>1, <2>3, <3>1, <3>2, <3>3, Zenon
  <2>6. \A x \in exists' : Current(x)' \in paths \/ WalkPending(x)'
    BY <1>p, <2>1, <2>2, Zenon DEF Intact
  <2> QED BY <1>0, <2>2, <2>3, <2>4, <2>5, <2>6, Zenon DEF Intact
<1>3. ASSUME NEW d \in Dir \cup {Root}, FileActivity(d) PROVE Intact'
  <2>1. UNCHANGED <<gen, exists, watched>> /\ Emit("file", Current(d), d)
    BY <1>3, Zenon DEF FileActivity
  <2>2. \A x : Current(x)' = Current(x)
    BY <2>1, Zenon DEF Current
  <2>3. \/ InFlight' = InFlight
        \/ Current(d) \in watched /\ InFlight' = InFlight \cup {[kind |-> "file", wd |-> Current(d), dir |-> d]}
    BY <1>0, <2>1, EmitFlight, Zenon
  <2>4. \A f \in InFlight' : f # Overflow => f.wd \in Recorded
    BY <2>3 DEF Intact
  <2>5. \A x \in exists : Current(x) \in paths \/ WalkPending(x)'
    BY <1>p, Zenon DEF Intact
  <2> QED BY <1>0, <2>1, <2>2, <2>4, <2>5, Zenon DEF Intact
<1> QED BY <1>1, <1>2, <1>3, Zenon DEF Environment

\* No step of the tree, the reader or the receiver breaks CoverInv.
LEMMA CoverStep ==
  ASSUME WInv, CoverInv, [Next]_vars
  PROVE  CoverInv'
<1>0. BasicInv /\ (LossSure \/ Intact)
  BY Zenon DEF CoverInv
<1>1. CASE Environment
  <2>1. BasicInv' /\ (LossSure => LossSure')
    BY <1>0, <1>1, TreeBasic, TreeSure, Zenon
  <2>2. CASE Intact
    <3>1. CASE Overflow \in InFlight'
      BY <2>1, <3>1, Zenon DEF CoverInv, LossSure
    <3>2. CASE WatchedVanishes
      <4>1. PICK d \in Dir : /\ Current(d) \in watched
                             /\ [kind |-> "self", wd |-> Current(d), dir |-> d] \in InFlight'
        BY <3>2, Zenon DEF WatchedVanishes
      <4>2. PICK e \in InFlight' : e # Overflow /\ e.kind = "self" /\ e.wd = Current(d)
        BY <4>1, Zenon DEF Overflow
      <4>3. UNCHANGED <<paths, cpc, cur, wd>>
        BY <1>1, TreeFlow, Zenon
      <4>4. e.wd \in paths \/ (cpc = "record" /\ e.wd = wd /\ wd \notin paths)
        BY <2>2, <4>1, <4>2, Zenon DEF Intact, Recorded
      <4>5. wd \notin paths /\ cpc = "record" => \A w \in paths : w[1] # cur
        BY <2>2, Zenon DEF Intact
      <4>6. SelfPending(e)'
        BY <4>2, <4>3, <4>4, <4>5, Zenon DEF SelfPending
      <4> QED BY <2>1, <4>6, Zenon DEF CoverInv, LossSure
    <3> QED BY <1>0, <1>1, <2>1, <2>2, <3>1, <3>2, TreeIntact, Zenon DEF CoverInv
  <2> QED BY <1>0, <2>1, <2>2, Zenon DEF CoverInv
<1>2. CASE Reader \/ ReadFails \/ PollFails
  BY <1>0, <1>2, ReaderFlow, ReaderBasic, ReaderSure, ReaderIntact, Zenon DEF CoverInv
<1>3. CASE ReceiveError \/ ReceiveClosed \/ Stop \/ Close
  BY <1>0, <1>3, IdleFlow, IdleKeeps, Zenon DEF CoverInv
<1>4. CASE ReceiveEvent
  BY <1>0, <1>4, ReceiveKeeps, Zenon DEF CoverInv
<1>5. CASE AddWatch
  BY <1>0, <1>5, WalkBasic, WalkSure, WalkIntact, Zenon DEF CoverInv
<1>6. CASE UNCHANGED vars
  <2>1. /\ UNCHANGED <<gen, exists, watched, muted, rpc, buf, event, Event, Error, mu, paths, cpc, walk, cur, wd>>
        /\ InFlight' = InFlight
    BY <1>6, Zenon DEF vars, dirVars, kernelVars, readerVars, receiverVars, InFlight
  <2>2. BasicInv'
    BY <1>0, <2>1, Zenon DEF BasicInv
  <2>3. \A e : SelfPending(e)' <=> SelfPending(e)
    BY <2>1, Zenon DEF SelfPending
  <2>4. LossSure => LossSure'
    BY <2>1, <2>3, Zenon DEF LossSure
  <2>5. (\A d : WalkPending(d) => WalkPending(d)') /\ (\A d : Current(d)' = Current(d)) /\ Recorded' = Recorded
    BY <2>1, PendingKept, Zenon DEF Current, Recorded
  <2>6. Intact => Intact'
    BY <2>1, <2>5, Zenon DEF Intact
  <2> QED BY <1>0, <2>2, <2>4, <2>6, Zenon DEF CoverInv
<1> QED BY <1>1, <1>2, <1>3, <1>4, <1>5, <1>6, Zenon DEF Next, Receiver

\* The watcher starts intact: the root is to be walked.
LEMMA CoverStart == Init => CoverInv
<1> SUFFICES ASSUME Init PROVE CoverInv
  BY Zenon
<1>1. InFlight = {} /\ Range(Event) = {}
  BY RangeEmpty, Zenon DEF Init, InFlight
<1>2. BasicInv
  BY <1>1, Zenon DEF Init, BasicInv
<1>3. \A d : WalkPending(d)
  <2>1. walk = {Root}
    BY Zenon DEF Init
  <2> QED BY <2>1, Zenon DEF WalkPending
<1>4. Intact
  BY <1>1, <1>3, Zenon DEF Init, Intact
<1> QED BY <1>2, <1>4, Zenon DEF CoverInv

\* For every tree of two levels and all bounds: every directory is watched, is
\* still to be walked, or the receiver is about to learn of a loss.
THEOREM NothingUncovered == Spec => []CoverageKept
<1>1. ASSUME WInv, CoverInv PROVE CoverageKept
  <2>1. LossSure => LossPending
    BY Zenon DEF LossSure, SelfPending, LossPending
  <2>2. CASE Intact
    BY <2>2, Zenon DEF Intact, CoverageKept
  <2> QED BY <1>1, <2>1, <2>2, Zenon DEF CoverInv, CoverageKept
<1>2. WInv /\ CoverInv /\ [Next]_vars => CoverInv'
  BY CoverStep, Zenon
<1>3. WInv /\ CoverInv => CoverageKept
  BY <1>1, Zenon
<1> QED BY <1>2, <1>3, WAlways, CoverStart, PTL DEF Spec
=============================================================================
