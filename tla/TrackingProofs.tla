--------------------------- MODULE TrackingProofs ---------------------------
(***************************************************************************)
(* The heat model and the disk agree up to what is on its way, for every   *)
(* cache and every size of the watcher's queue.                            *)
(***************************************************************************)
EXTENDS Tracking, SequenceTheorems, TLAPS

USE TrackingAssumption

(***************************************************************************)
(* The inductive invariant.                                                *)
(***************************************************************************)
\* Entries lie in directories, watches are on directories, and a key is only
\* counted as placed while it is there and Run is in its loop.
DiskInv ==
  /\ \A k \in disk : DirOf[k] \in dirs
  /\ watched \subseteq dirs /\ placed \subseteq disk
  /\ ~Looping => placed = {}

\* What the control of Run says of its locals and of the drain goroutine.
ControlInv ==
  /\ drain = "on" => pc = "scan"
  /\ root => pc \notin {"start", "restore"}
  /\ pc \in {"start", "restore"} => ~resetHeat
  /\ pc = "scan" \/ Looping => root
  /\ pc = "restore" => todo \subseteq Key
  /\ pc = "cover" => todo \subseteq Dir
  /\ pc \in {"watch", "list", "seed"} => cur \in Dir
  /\ pc \in {"list", "seed"} => cur \in watched \/ loss
  /\ pc = "seed" => todo \subseteq KeysIn(cur)
  /\ pc = "unlinked" =>
       /\ cur \in Key
       /\ loss \/ Pending(<<"delete", cur>>) \/ Pending(<<"mkdir", DirOf[cur]>>)

\* The last event about an entry tells whether it is there now.
QueueTrue ==
  \A k \in Key : Pending(<<"count", k>>) \/ Pending(<<"delete", k>>) =>
    \/ loss
    \/ /\ DirOf[k] \in watched
       /\ k \in disk => LatestIs("count", k)
       /\ k \notin disk => LatestIs("delete", k)

\* Every directory is watched, or about to be.
Covered(d) ==
  \/ d \in watched \/ loss \/ Pending(<<"mkdir", d>>)
  \/ pc = "cover" /\ d \in todo
  \/ pc = "watch" /\ cur = d

CoverInv == root => \A d \in dirs : Covered(d)

\* Until the loop begins nothing but missed keys is known and gone, unless the
\* heat is about to be reset; what is known is watched from the walk on.
HeatInv ==
  /\ ~Looping /\ ~resetHeat => heat \ missed \subseteq disk
  /\ root /\ (Looping \/ ~resetHeat) =>
       \A k \in heat \ missed :
         DirOf[k] \in watched \/ loss \/ (pc = "cover" /\ DirOf[k] \in todo)

TInv ==
  /\ TypeOK /\ DiskInv /\ ControlInv /\ QueueTrue /\ CoverInv /\ HeatInv
  /\ NoGhosts /\ PlacedCounted

(***************************************************************************)
(* The queue.                                                              *)
(***************************************************************************)
\* What is on its way stays so while the queue is left alone.
LEMMA QueueSame ==
  ASSUME UNCHANGED queue
  PROVE  /\ \A e : Pending(e)' <=> Pending(e)
         /\ \A kind, k : LatestIs(kind, k)' <=> LatestIs(kind, k)
BY Zenon DEF Pending, LatestIs

\* Nothing is on its way in an empty queue.
LEMMA QueueEmpty ==
  ASSUME queue = <<>>
  PROVE  \A e : ~Pending(e)
BY DEF Pending

\* An event that is sent becomes the last about its subject.
LEMMA AppendEffect ==
  ASSUME queue \in Seq(EventType), NEW e \in EventType, queue' = Append(queue, e)
  PROVE  /\ queue' \in Seq(EventType) /\ Len(queue') = Len(queue) + 1
         /\ \A x : Pending(x)' <=> Pending(x) \/ x = e
         /\ \A kind, k : LatestIs(kind, k) /\ e[2] # k => LatestIs(kind, k)'
         /\ \A kind, k : e = <<kind, k>> => LatestIs(kind, k)'
<1>1. /\ queue' \in Seq(EventType) /\ Len(queue') = Len(queue) + 1 /\ Len(queue) \in Nat
      /\ \A i \in 1 .. Len(queue) : queue'[i] = queue[i]
      /\ queue'[Len(queue) + 1] = e
  BY AppendProperties
<1>2. DOMAIN queue = 1 .. Len(queue) /\ DOMAIN queue' = 1 .. Len(queue) + 1
  BY <1>1
<1>3. \A x : Pending(x)' <=> Pending(x) \/ x = e
  <2> TAKE x
  <2>1. ASSUME Pending(x) PROVE Pending(x)'
    BY <1>1, <1>2, <2>1 DEF Pending
  <2>2. Len(queue) + 1 \in DOMAIN queue'
    BY <1>1, <1>2
  <2>3. ASSUME x = e PROVE Pending(x)'
    BY <1>1, <2>2, <2>3, Zenon DEF Pending
  <2>4. ASSUME Pending(x)' PROVE Pending(x) \/ x = e
    <3>1. PICK i \in 1 .. Len(queue) + 1 : queue'[i] = x
      BY <1>2, <2>4, Zenon DEF Pending
    <3>2. i \in 1 .. Len(queue) \/ i = Len(queue) + 1
      BY <1>1, <3>1
    <3> QED BY <1>1, <1>2, <3>1, <3>2, Zenon DEF Pending
  <2> QED BY <2>1, <2>3, <2>4, Zenon
<1>4. ASSUME NEW kind, NEW k, LatestIs(kind, k), e[2] # k PROVE LatestIs(kind, k)'
  <2>1. PICK i \in 1 .. Len(queue) :
           queue[i] = <<kind, k>> /\ \A j \in 1 .. Len(queue) : j > i => queue[j][2] # k
    BY <1>2, <1>4, Zenon DEF LatestIs
  <2>2. i \in 1 .. Len(queue) + 1 /\ queue'[i] = <<kind, k>>
    BY <1>1, <2>1
  <2>3. ASSUME NEW j \in 1 .. Len(queue) + 1, j > i PROVE queue'[j][2] # k
    <3>1. j \in 1 .. Len(queue) \/ j = Len(queue) + 1
      BY <1>1, <2>3
    <3> QED BY <1>1, <1>4, <2>1, <2>3, <3>1, Zenon
  <2> QED BY <1>2, <2>2, <2>3, Zenon DEF LatestIs
<1>5. ASSUME NEW kind, NEW k, e = <<kind, k>> PROVE LatestIs(kind, k)'
  <2>1. Len(queue) + 1 \in DOMAIN queue' /\ \A j \in DOMAIN queue' : ~(j > Len(queue) + 1)
    BY <1>1, <1>2
  <2> QED BY <1>1, <1>5, <2>1, Zenon DEF LatestIs
<1> QED BY <1>1, <1>3, <1>4, <1>5, Zenon

\* An event that is received was the only one about its subject, or the last
\* about it is still to come.
LEMMA TailEffect ==
  ASSUME queue \in Seq(EventType), queue # <<>>, queue' = Tail(queue)
  PROVE  /\ Head(queue) \in EventType
         /\ queue' \in Seq(EventType) /\ Len(queue') = Len(queue) - 1 /\ Len(queue) \in Nat \ {0}
         /\ Pending(Head(queue))
         /\ \A x : Pending(x) /\ x # Head(queue) => Pending(x)'
         /\ \A x : Pending(x)' => Pending(x)
         /\ \A kind, k : LatestIs(kind, k) /\ <<kind, k>> # Head(queue) => LatestIs(kind, k)'
         /\ \A x, kind, k : LatestIs(kind, k) /\ x[2] = k /\ Pending(x)' => LatestIs(kind, k)'
<1>1. /\ Head(queue) \in EventType /\ Head(queue) = queue[1]
      /\ queue' \in Seq(EventType) /\ Len(queue') = Len(queue) - 1 /\ Len(queue) \in Nat \ {0}
      /\ \A i \in 1 .. Len(queue) - 1 : queue'[i] = queue[i + 1]
  BY HeadTailProperties, EmptySeq
<1>2. DOMAIN queue = 1 .. Len(queue) /\ DOMAIN queue' = 1 .. Len(queue) - 1
  BY <1>1
<1>3. Pending(Head(queue))
  <2>1. 1 \in DOMAIN queue
    BY <1>1, <1>2
  <2> QED BY <1>1, <2>1, Zenon DEF Pending
<1>4. ASSUME NEW x, Pending(x), x # Head(queue) PROVE Pending(x)'
  <2>1. PICK i \in 1 .. Len(queue) : queue[i] = x
    BY <1>2, <1>4, Zenon DEF Pending
  <2>2. i - 1 \in 1 .. Len(queue) - 1 /\ (i - 1) + 1 = i
    BY <1>1, <1>4, <2>1
  <2>3. queue'[i - 1] = x
    BY <1>1, <2>1, <2>2, Zenon
  <2> QED BY <1>2, <2>2, <2>3, Zenon DEF Pending
<1>5. ASSUME NEW x, Pending(x)' PROVE Pending(x)
  <2>1. PICK i \in 1 .. Len(queue) - 1 : queue'[i] = x
    BY <1>2, <1>5, Zenon DEF Pending
  <2>2. i + 1 \in 1 .. Len(queue) /\ queue[i + 1] = x
    BY <1>1, <2>1
  <2> QED BY <1>2, <2>2, Zenon DEF Pending
<1>6. ASSUME NEW kind, NEW k, NEW i \in 1 .. Len(queue), i # 1, queue[i] = <<kind, k>>,
             \A j \in 1 .. Len(queue) : j > i => queue[j][2] # k
      PROVE  LatestIs(kind, k)'
  <2>1. i - 1 \in 1 .. Len(queue) - 1 /\ (i - 1) + 1 = i
    BY <1>1, <1>6
  <2>2. queue'[i - 1] = <<kind, k>>
    BY <1>1, <1>6, <2>1, Zenon
  <2>3. ASSUME NEW j \in 1 .. Len(queue) - 1, j > i - 1 PROVE queue'[j][2] # k
    <3>1. j + 1 \in 1 .. Len(queue) /\ j + 1 > i
      BY <1>1, <2>3
    <3> QED BY <1>1, <1>6, <3>1, Zenon
  <2> QED BY <1>2, <2>1, <2>2, <2>3, Zenon DEF LatestIs
<1>7. ASSUME NEW kind, NEW k, LatestIs(kind, k), <<kind, k>> # Head(queue) PROVE LatestIs(kind, k)'
  <2>0. PICK i \in DOMAIN queue :
           queue[i] = <<kind, k>> /\ \A j \in DOMAIN queue : j > i => queue[j][2] # k
    BY <1>7, Zenon DEF LatestIs
  <2>1. /\ i \in 1 .. Len(queue) /\ queue[i] = <<kind, k>>
        /\ \A j \in 1 .. Len(queue) : j > i => queue[j][2] # k
    BY <1>2, <2>0, Zenon
  <2>2. i # 1
    BY <1>1, <1>7, <2>1, Zenon
  <2> QED BY <1>6, <2>1, <2>2, Zenon
<1>8. ASSUME NEW x, NEW kind, NEW k, LatestIs(kind, k), x[2] = k, Pending(x)' PROVE LatestIs(kind, k)'
  <2>0. PICK i \in DOMAIN queue :
           queue[i] = <<kind, k>> /\ \A j \in DOMAIN queue : j > i => queue[j][2] # k
    BY <1>8, Zenon DEF LatestIs
  <2>1. /\ i \in 1 .. Len(queue) /\ queue[i] = <<kind, k>>
        /\ \A j \in 1 .. Len(queue) : j > i => queue[j][2] # k
    BY <1>2, <2>0, Zenon
  <2>2. PICK j \in 1 .. Len(queue) - 1 : queue'[j] = x
    BY <1>2, <1>8, Zenon DEF Pending
  <2>3. j + 1 \in 1 .. Len(queue) /\ queue[j + 1][2] = k /\ j + 1 > 1
    BY <1>1, <1>8, <2>2
  <2>4. i # 1
    BY <2>1, <2>3, Zenon
  <2> QED BY <1>6, <2>1, <2>4, Zenon
<1> QED BY <1>1, <1>3, <1>4, <1>5, <1>7, <1>8, Zenon

\* An event the watcher is told of is queued or lost, and a loss is noted.
LEMMA EmitEffect ==
  ASSUME queue \in Seq(EventType), Len(queue) <= QueueSize, loss \in BOOLEAN,
         NEW e \in EventType, NEW w \in BOOLEAN, Emit(e, w)
  PROVE  /\ queue' \in Seq(EventType) /\ Len(queue') <= QueueSize /\ loss' \in BOOLEAN
         /\ loss => loss'
         /\ w => loss' \/ Pending(e)'
         /\ \A x : Pending(x) => Pending(x)'
         /\ \A x : Pending(x)' => Pending(x) \/ (x = e /\ w)
         /\ \A kind, k : LatestIs(kind, k) /\ (~w \/ e[2] # k) => LatestIs(kind, k)'
         /\ \A kind, k : w /\ e = <<kind, k>> => loss' \/ LatestIs(kind, k)'
<1>0. Len(queue) \in Nat /\ QueueSize \in Nat
  OBVIOUS
<1>1. /\ queue' = IF w /\ Len(queue) < QueueSize THEN Append(queue, e) ELSE queue
      /\ loss' = (loss \/ (w /\ Len(queue) >= QueueSize))
  BY Zenon DEF Emit
<1>2. loss' \in BOOLEAN /\ (loss => loss')
  BY <1>1, Zenon
<1>3. CASE w /\ Len(queue) < QueueSize
  <2>1. queue' = Append(queue, e)
    BY <1>1, <1>3, Zenon
  <2>2. /\ queue' \in Seq(EventType) /\ Len(queue') = Len(queue) + 1
        /\ \A x : Pending(x)' <=> Pending(x) \/ x = e
        /\ \A kind, k : LatestIs(kind, k) /\ e[2] # k => LatestIs(kind, k)'
        /\ \A kind, k : e = <<kind, k>> => LatestIs(kind, k)'
    BY <2>1, AppendEffect, Zenon
  <2>3. Len(queue') <= QueueSize
    BY <1>0, <1>3, <2>2
  <2> QED BY <1>2, <1>3, <2>2, <2>3, Zenon
<1>4. CASE ~(w /\ Len(queue) < QueueSize)
  <2>1. queue' = queue
    BY <1>1, <1>4, Zenon
  <2>2. /\ \A x : Pending(x)' <=> Pending(x)
        /\ \A kind, k : LatestIs(kind, k)' <=> LatestIs(kind, k)
    BY <2>1, QueueSame, Zenon
  <2>3. w => loss'
    <3>1. w => Len(queue) >= QueueSize
      BY <1>0, <1>4
    <3> QED BY <1>1, <3>1, Zenon
  <2> QED BY <1>2, <2>1, <2>2, <2>3, Zenon
<1> QED BY <1>3, <1>4, Zenon

(***************************************************************************)
(* The cache changes.                                                      *)
(***************************************************************************)
\* A change of the cache leaves Run alone, loses no event, and takes a watch
\* away only with a loss.
Onward ==
  /\ UNCHANGED <<root, heat, pc, resetHeat, todo, cur, stop, drain>>
  /\ loss' \in BOOLEAN /\ (loss => loss')
  /\ queue' \in Seq(EventType) /\ Len(queue') <= QueueSize
  /\ changes' \in 0 .. MaxChanges
  /\ watched' \subseteq watched /\ (watched \subseteq watched' \/ loss')
  /\ \A x : Pending(x) => Pending(x)'

\* Such a change cannot disturb what Run's control says of its locals.
LEMMA OnwardControl ==
  ASSUME TInv, Onward
  PROVE  ControlInv' /\ (Looping' <=> Looping)
BY Zenon DEF TInv, TypeOK, Onward, ControlInv, Looping, KeysIn

\* The bound on changes is kept.
LEMMA ChangeBound ==
  ASSUME changes \in 0 .. MaxChanges, Change
  PROVE  changes' \in 0 .. MaxChanges
BY DEF Change

\* A directory appears, possibly with entries.
LEMMA AddDirStep ==
  ASSUME TInv, NEW d \in Dir, AddDir(d)
  PROVE  TInv'
<1> DEFINE e == <<"mkdir", d>>
<1>1. PICK keys \in SUBSET KeysIn(d) :
         disk' = disk \cup keys /\ placed' = IF Looping THEN placed \cup keys ELSE placed
  BY Zenon DEF AddDir
<1>2. /\ Change /\ d \notin dirs /\ dirs' = dirs \cup {d} /\ Emit(e, root)
      /\ UNCHANGED <<root, watched, heat, pc, resetHeat, todo, cur, stop, drain, missed>>
  BY Zenon DEF AddDir, runVars, drainVars
<1>3. e \in EventType /\ e[2] = d
  BY Zenon DEF EventType
<1> HIDE DEF e
<1>4. /\ queue' \in Seq(EventType) /\ Len(queue') <= QueueSize /\ loss' \in BOOLEAN
      /\ loss => loss'
      /\ root => loss' \/ Pending(e)'
      /\ \A x : Pending(x) => Pending(x)'
      /\ \A x : Pending(x)' => Pending(x) \/ (x = e /\ root)
      /\ \A kind, k : LatestIs(kind, k) /\ (~root \/ e[2] # k) => LatestIs(kind, k)'
  BY <1>2, <1>3, EmitEffect DEF TInv, TypeOK
<1>5. Onward
  BY <1>2, <1>4, ChangeBound, Zenon DEF Onward, TInv, TypeOK
<1>6. ControlInv' /\ (Looping' <=> Looping)
  BY <1>5, OnwardControl, Zenon
<1>7. \A k \in keys : k \in Key /\ DirOf[k] = d
  BY Zenon DEF KeysIn
<1>8. TypeOK'
  BY <1>1, <1>2, <1>4, <1>5, <1>6, <1>7, Zenon DEF TInv, TypeOK, Onward
<1>9. DiskInv'
  BY <1>1, <1>2, <1>6, <1>7, Zenon DEF TInv, DiskInv
<1>10. QueueTrue'
  <2> SUFFICES ASSUME NEW k \in Key, Pending(<<"count", k>>)' \/ Pending(<<"delete", k>>)', ~loss'
               PROVE  /\ DirOf[k] \in watched'
                      /\ k \in disk' => LatestIs("count", k)'
                      /\ k \notin disk' => LatestIs("delete", k)'
    BY Zenon DEF QueueTrue
  <2>1. <<"count", k>> # e /\ <<"delete", k>> # e /\ d # k
    BY Zenon DEF e
  <2>2. /\ DirOf[k] \in watched
        /\ k \in disk => LatestIs("count", k)
        /\ k \notin disk => LatestIs("delete", k)
    BY <1>4, <2>1, Zenon DEF TInv, QueueTrue
  <2>3. k \notin keys
    BY <1>2, <1>7, <2>2, Zenon DEF TInv, DiskInv
  <2> QED BY <1>1, <1>2, <1>3, <1>4, <2>1, <2>2, <2>3, Zenon
<1>11. CoverInv'
  BY <1>2, <1>4, Zenon DEF TInv, CoverInv, Covered, e
<1>12. HeatInv'
  BY <1>1, <1>2, <1>4, <1>6, Zenon DEF TInv, HeatInv
<1>13. NoGhosts'
  BY <1>1, <1>2, <1>3, <1>4, <1>6, Zenon DEF TInv, TypeOK, NoGhosts
<1>14. PlacedCounted'
  <2> SUFFICES ASSUME Looping, NEW k \in placed', ~loss', k \notin heat,
                      ~Pending(<<"mkdir", DirOf[k]>>)', ~(pc \in {"watch", "list"} /\ cur = DirOf[k]),
                      ~(pc = "seed" /\ k \in todo)
               PROVE  LatestIs("count", k)'
    BY <1>2, <1>6, Zenon DEF PlacedCounted
  <2>1. root
    BY Zenon DEF TInv, ControlInv
  <2>2. k \notin keys
    BY <1>4, <1>7, <2>1, Zenon DEF e
  <2>3. k \in placed /\ k \in Key
    BY <1>1, <2>2, Zenon DEF TInv, TypeOK
  <2>4. LatestIs("count", k)
    BY <1>4, <2>3, Zenon DEF TInv, PlacedCounted
  <2> QED BY <1>3, <1>4, <2>3, <2>4, Zenon
<1> QED BY <1>6, <1>8, <1>9, <1>10, <1>11, <1>12, <1>13, <1>14, Zenon DEF TInv

\* A directory goes with its entries, and its watch with it.
LEMMA DropDirStep ==
  ASSUME TInv, NEW d \in Dir, DropDir(d)
  PROVE  TInv'
<1>1. /\ Change /\ dirs' = dirs \ {d} /\ Gone(KeysIn(d)) /\ watched' = watched \ {d}
      /\ loss' = (loss \/ d \in watched)
      /\ UNCHANGED <<root, queue, heat, pc, resetHeat, todo, cur, stop, drain>>
  BY Zenon DEF DropDir, runVars, drainVars
<1>2. /\ disk' = disk \ KeysIn(d) /\ placed' = placed \ KeysIn(d)
      /\ missed' = IF Looping THEN missed ELSE missed \cup (KeysIn(d) \cap heat)
  BY <1>1, Zenon DEF Gone
<1>3. /\ \A x : Pending(x)' <=> Pending(x)
      /\ \A kind, k : LatestIs(kind, k)' <=> LatestIs(kind, k)
  BY <1>1, QueueSame, Zenon
<1>4. loss' \in BOOLEAN /\ (loss => loss') /\ (d \in watched => loss') /\ (~loss' => watched' = watched)
  BY <1>1, Zenon DEF TInv, TypeOK
<1>5. Onward
  BY <1>1, <1>3, <1>4, ChangeBound, Zenon DEF Onward, TInv, TypeOK
<1>6. ControlInv' /\ (Looping' <=> Looping)
  BY <1>5, OnwardControl, Zenon
<1>7. TypeOK'
  BY <1>1, <1>2, <1>4, <1>5, <1>6, Zenon DEF TInv, TypeOK, Onward
<1>8. DiskInv'
  BY <1>1, <1>2, <1>6, Zenon DEF TInv, TypeOK, DiskInv, KeysIn
<1>9. QueueTrue'
  <2> SUFFICES ASSUME NEW k \in Key, Pending(<<"count", k>>)' \/ Pending(<<"delete", k>>)', ~loss'
               PROVE  /\ DirOf[k] \in watched'
                      /\ k \in disk' => LatestIs("count", k)'
                      /\ k \notin disk' => LatestIs("delete", k)'
    BY Zenon DEF QueueTrue
  <2>1. /\ DirOf[k] \in watched
        /\ k \in disk => LatestIs("count", k)
        /\ k \notin disk => LatestIs("delete", k)
    BY <1>3, <1>4, Zenon DEF TInv, QueueTrue
  <2>2. DirOf[k] # d
    BY <1>4, <2>1, Zenon
  <2> QED BY <1>1, <1>2, <1>3, <2>1, <2>2, Zenon DEF KeysIn
<1>10. CoverInv'
  BY <1>1, <1>3, <1>4, Zenon DEF TInv, CoverInv, Covered
<1>11. HeatInv'
  BY <1>1, <1>2, <1>4, <1>6, Zenon DEF TInv, HeatInv
<1>12. NoGhosts'
  <2> SUFFICES ASSUME Looping, NEW k \in heat \ (disk' \cup missed'), ~loss' PROVE LatestIs("delete", k)'
    BY <1>1, <1>6, Zenon DEF NoGhosts
  <2>1. k \notin missed /\ k \in Key /\ root /\ pc # "cover"
    BY <1>2, Zenon DEF TInv, TypeOK, ControlInv, Looping
  <2>2. DirOf[k] \in watched
    BY <1>4, <2>1, Zenon DEF TInv, HeatInv
  <2>3. k \notin KeysIn(d)
    BY <1>4, <2>2, Zenon DEF KeysIn
  <2>4. k \notin disk
    BY <1>2, <2>3, Zenon
  <2> QED BY <1>3, <1>4, <2>1, <2>4, Zenon DEF TInv, NoGhosts
<1>13. PlacedCounted'
  BY <1>1, <1>2, <1>3, <1>4, <1>6, Zenon DEF TInv, PlacedCounted
<1> QED BY <1>6, <1>7, <1>8, <1>9, <1>10, <1>11, <1>12, <1>13, Zenon DEF TInv

\* An entry is placed or opened: its event is then the last about it.
LEMMA UseStep ==
  ASSUME TInv, NEW k \in Key, Use(k)
  PROVE  TInv'
<1> DEFINE e == <<"count", k>>
           w == DirOf[k] \in watched
<1>1. /\ Change /\ DirOf[k] \in dirs /\ disk' = disk \cup {k} /\ Emit(e, w)
      /\ placed' = IF Looping THEN placed \cup {k} ELSE placed
      /\ UNCHANGED <<dirs, root, watched, heat, pc, resetHeat, todo, cur, stop, drain, missed>>
  BY Zenon DEF Use, runVars, drainVars
<1>2. e \in EventType /\ e[2] = k /\ w \in BOOLEAN
  BY DEF EventType
<1> HIDE DEF e, w
<1>3. /\ queue' \in Seq(EventType) /\ Len(queue') <= QueueSize /\ loss' \in BOOLEAN
      /\ loss => loss'
      /\ \A x : Pending(x) => Pending(x)'
      /\ \A x : Pending(x)' => Pending(x) \/ (x = e /\ w)
      /\ \A kind, j : LatestIs(kind, j) /\ (~w \/ e[2] # j) => LatestIs(kind, j)'
      /\ \A kind, j : w /\ e = <<kind, j>> => loss' \/ LatestIs(kind, j)'
  <2>1. queue \in Seq(EventType) /\ Len(queue) <= QueueSize /\ loss \in BOOLEAN
    BY Zenon DEF TInv, TypeOK
  <2>2. PICK b \in BOOLEAN : b = w
    BY <1>2, Zenon
  <2>3. Emit(e, b)
    BY <1>1, <2>2, Zenon
  <2>4. /\ queue' \in Seq(EventType) /\ Len(queue') <= QueueSize /\ loss' \in BOOLEAN
        /\ loss => loss'
        /\ \A x : Pending(x) => Pending(x)'
        /\ \A x : Pending(x)' => Pending(x) \/ (x = e /\ b)
        /\ \A kind, j : LatestIs(kind, j) /\ (~b \/ e[2] # j) => LatestIs(kind, j)'
        /\ \A kind, j : b /\ e = <<kind, j>> => loss' \/ LatestIs(kind, j)'
    BY <1>2, <2>1, <2>3, EmitEffect
  <2> QED BY <2>2, <2>4, Zenon
<1>4. w => loss' \/ LatestIs("count", k)'
  BY <1>3, Zenon DEF e
<1>5. Onward
  BY <1>1, <1>3, ChangeBound, Zenon DEF Onward, TInv, TypeOK
<1>6. ControlInv' /\ (Looping' <=> Looping)
  BY <1>5, OnwardControl, Zenon
<1>7. TypeOK'
  BY <1>1, <1>3, <1>5, <1>6, Zenon DEF TInv, TypeOK, Onward
<1>8. DiskInv'
  BY <1>1, <1>6, Zenon DEF TInv, DiskInv
<1>9. QueueTrue'
  <2> SUFFICES ASSUME NEW j \in Key, Pending(<<"count", j>>)' \/ Pending(<<"delete", j>>)', ~loss'
               PROVE  /\ DirOf[j] \in watched'
                      /\ j \in disk' => LatestIs("count", j)'
                      /\ j \notin disk' => LatestIs("delete", j)'
    BY Zenon DEF QueueTrue
  <2>1. Pending(<<"count", j>>) \/ Pending(<<"delete", j>>) \/ (j = k /\ w)
    BY <1>3 DEF e
  <2>2. DirOf[j] \in watched
    BY <1>3, <2>1, Zenon DEF TInv, QueueTrue, w
  <2>3. CASE j = k
    BY <1>1, <1>4, <2>2, <2>3, Zenon DEF w
  <2>4. CASE j # k
    BY <1>1, <1>2, <1>3, <2>1, <2>2, <2>4, Zenon DEF TInv, QueueTrue
  <2> QED BY <2>3, <2>4, Zenon
<1>10. CoverInv'
  BY <1>1, <1>3, Zenon DEF TInv, CoverInv, Covered
<1>11. HeatInv'
  BY <1>1, <1>3, <1>6, Zenon DEF TInv, HeatInv
<1>12. NoGhosts'
  BY <1>1, <1>2, <1>3, <1>6, Zenon DEF TInv, NoGhosts
<1>13. PlacedCounted'
  <2> SUFFICES ASSUME Looping, NEW j \in placed', ~loss', j \notin heat,
                      ~Pending(<<"mkdir", DirOf[j]>>)', ~(pc \in {"watch", "list"} /\ cur = DirOf[j]),
                      ~(pc = "seed" /\ j \in todo)
               PROVE  LatestIs("count", j)'
    BY <1>1, <1>6, Zenon DEF PlacedCounted
  <2>1. CASE j = k
    <3>1. root /\ pc # "cover"
      BY Zenon DEF TInv, ControlInv, Looping
    <3>2. Covered(DirOf[k])
      BY <1>1, <3>1, Zenon DEF TInv, CoverInv
    <3>3. w
      BY <1>3, <2>1, <3>1, <3>2, Zenon DEF Covered, w
    <3> QED BY <1>4, <2>1, <3>3, Zenon
  <2>2. CASE j # k
    <3>1. j \in placed
      BY <1>1, <2>2, Zenon
    <3>2. LatestIs("count", j)
      BY <1>3, <3>1, Zenon DEF TInv, PlacedCounted
    <3> QED BY <1>2, <1>3, <2>2, <3>2, Zenon
  <2> QED BY <2>1, <2>2, Zenon
<1> QED BY <1>6, <1>7, <1>8, <1>9, <1>10, <1>11, <1>12, <1>13, Zenon DEF TInv

\* An entry goes, by Bazel's hand or by an unlink of a cycle.
LEMMA LoseEntry ==
  ASSUME TInv, NEW k \in disk, Gone({k}), Emit(<<"delete", k>>, DirOf[k] \in watched),
         changes' \in 0 .. MaxChanges,
         UNCHANGED <<dirs, root, watched, heat, resetHeat, todo, stop, drain>>,
         \/ UNCHANGED <<pc, cur>>
         \/ pc = "loop" /\ pc' = "unlinked" /\ cur' = k
  PROVE  TInv'
<1> DEFINE e == <<"delete", k>>
           w == DirOf[k] \in watched
<1>0. k \in Key /\ DirOf[k] \in dirs
  BY Zenon DEF TInv, TypeOK, DiskInv
<1>1. /\ disk' = disk \ {k} /\ placed' = placed \ {k}
      /\ missed' = IF Looping THEN missed ELSE missed \cup ({k} \cap heat)
  BY Zenon DEF Gone
<1>2. e \in EventType /\ e[2] = k /\ w \in BOOLEAN /\ Emit(e, w)
  BY <1>0 DEF EventType
<1> HIDE DEF e, w
<1>3. /\ queue' \in Seq(EventType) /\ Len(queue') <= QueueSize /\ loss' \in BOOLEAN
      /\ loss => loss'
      /\ w => loss' \/ Pending(e)'
      /\ \A x : Pending(x) => Pending(x)'
      /\ \A x : Pending(x)' => Pending(x) \/ (x = e /\ w)
      /\ \A kind, j : LatestIs(kind, j) /\ (~w \/ e[2] # j) => LatestIs(kind, j)'
      /\ \A kind, j : w /\ e = <<kind, j>> => loss' \/ LatestIs(kind, j)'
  BY <1>2, EmitEffect, Zenon DEF TInv, TypeOK
<1>4. w => loss' \/ LatestIs("delete", k)'
  BY <1>3, Zenon DEF e
<1>5. Looping' <=> Looping
  BY Zenon DEF Looping
<1>6. ControlInv'
  <2>1. CASE UNCHANGED <<pc, cur>>
    <3>1. Onward
      BY <1>3, <2>1, Zenon DEF Onward
    <3> QED BY <3>1, OnwardControl, Zenon
  <2>2. CASE pc = "loop" /\ pc' = "unlinked" /\ cur' = k
    <3>1. root /\ pc # "cover" /\ pc # "watch"
      BY <2>2, Zenon DEF TInv, ControlInv, Looping
    <3>2. w \/ loss \/ Pending(<<"mkdir", DirOf[k]>>)
      BY <1>0, <3>1, Zenon DEF TInv, CoverInv, Covered, w
    <3>3. loss' \/ Pending(<<"delete", k>>)' \/ Pending(<<"mkdir", DirOf[k]>>)'
      BY <1>3, <3>2, Zenon DEF e
    <3>4. (loss \/ Pending(<<"delete", cur>>) \/ Pending(<<"mkdir", DirOf[cur]>>))'
      BY <2>2, <3>3, Zenon DEF Pending
    <3> QED BY <1>0, <2>2, <3>1, <3>4, Zenon DEF TInv, ControlInv, Looping
  <2> QED BY <2>1, <2>2, Zenon
<1>7. TypeOK'
  BY <1>0, <1>1, <1>3, <1>5, Zenon DEF TInv, TypeOK, Looping
<1>8. DiskInv'
  BY <1>1, <1>5, Zenon DEF TInv, DiskInv
<1>9. QueueTrue'
  <2> SUFFICES ASSUME NEW j \in Key, Pending(<<"count", j>>)' \/ Pending(<<"delete", j>>)', ~loss'
               PROVE  /\ DirOf[j] \in watched'
                      /\ j \in disk' => LatestIs("count", j)'
                      /\ j \notin disk' => LatestIs("delete", j)'
    BY Zenon DEF QueueTrue
  <2>1. Pending(<<"count", j>>) \/ Pending(<<"delete", j>>) \/ (j = k /\ w)
    BY <1>3 DEF e
  <2>2. DirOf[j] \in watched
    BY <1>3, <2>1, Zenon DEF TInv, QueueTrue, w
  <2>3. CASE j = k
    BY <1>1, <1>4, <2>2, <2>3, Zenon DEF w
  <2>4. CASE j # k
    BY <1>1, <1>2, <1>3, <2>1, <2>2, <2>4, Zenon DEF TInv, QueueTrue
  <2> QED BY <2>3, <2>4, Zenon
<1>10. CoverInv'
  BY <1>3, Zenon DEF TInv, CoverInv, Covered
<1>11. HeatInv'
  <2>1. pc' = "cover" <=> pc = "cover"
    BY Zenon
  <2> QED BY <1>1, <1>3, <1>5, <2>1, Zenon DEF TInv, HeatInv
<1>12. NoGhosts'
  <2> SUFFICES ASSUME Looping, NEW j \in heat \ (disk' \cup missed'), ~loss' PROVE LatestIs("delete", j)'
    BY <1>5, Zenon DEF NoGhosts
  <2>1. j \notin missed /\ j \in Key /\ root /\ pc # "cover"
    BY <1>1, Zenon DEF TInv, TypeOK, ControlInv, Looping
  <2>2. CASE j = k
    <3>1. w
      BY <1>3, <2>1, <2>2, Zenon DEF TInv, HeatInv, w
    <3> QED BY <1>4, <2>2, <3>1, Zenon
  <2>3. CASE j # k
    BY <1>1, <1>2, <1>3, <2>1, <2>3, Zenon DEF TInv, NoGhosts
  <2> QED BY <2>2, <2>3, Zenon
<1>13. PlacedCounted'
  <2> SUFFICES ASSUME Looping, NEW j \in placed', ~loss', j \notin heat,
                      ~Pending(<<"mkdir", DirOf[j]>>)', ~(pc' \in {"watch", "list"} /\ cur' = DirOf[j]),
                      ~(pc' = "seed" /\ j \in todo)
               PROVE  LatestIs("count", j)'
    BY <1>5, Zenon DEF PlacedCounted
  <2>1. j \in placed /\ j # k
    BY <1>1, Zenon
  <2>2. LatestIs("count", j)
    BY <1>3, <2>1, Zenon DEF TInv, PlacedCounted
  <2> QED BY <1>2, <1>3, <2>1, <2>2, Zenon
<1> QED BY <1>6, <1>7, <1>8, <1>9, <1>10, <1>11, <1>12, <1>13, Zenon DEF TInv

\* Every change of the cache preserves the invariant.
LEMMA EnvironmentStep ==
  ASSUME TInv, Environment
  PROVE  TInv'
<1>1. ASSUME NEW k \in Key, DropEntry(k) PROVE TInv'
  <2>1. /\ k \in disk /\ Gone({k}) /\ Emit(<<"delete", k>>, DirOf[k] \in watched) /\ Change
        /\ UNCHANGED <<dirs, root, watched, heat, pc, resetHeat, todo, cur, stop, drain>>
    BY <1>1, Zenon DEF DropEntry, runVars, drainVars
  <2>2. changes' \in 0 .. MaxChanges
    BY <2>1, ChangeBound, Zenon DEF TInv, TypeOK
  <2> QED BY <2>1, <2>2, LoseEntry, Zenon
<1> QED BY <1>1, AddDirStep, DropDirStep, UseStep, Zenon DEF Environment

(***************************************************************************)
(* Run takes a step.                                                       *)
(***************************************************************************)
\* A watcher that has just been made knows of nothing and has lost nothing.
LEMMA FreshWatcher ==
  ASSUME queue' = <<>>
  PROVE  queue' \in Seq(EventType) /\ Len(queue') = 0 /\ \A x : ~Pending(x)'
BY DEF Pending

\* reconcile and a restart throw the watcher away.
LEMMA ResetStep ==
  ASSUME TInv, Reconcile \/ Recover \/ Restart
  PROVE  TInv'
<1>1. /\ root' = FALSE /\ watched' = {} /\ queue' = <<>> /\ loss' = FALSE /\ todo' = {}
      /\ UNCHANGED <<dirs, disk, changes, cur>>
  BY Zenon DEF Reconcile, Recover, recoverWatcher, reconcile, Restart, cacheVars
<1>2. queue' \in Seq(EventType) /\ Len(queue') <= QueueSize /\ \A x : ~Pending(x)'
  BY <1>1, FreshWatcher
<1>3. /\ pc' \in {"start", "cover"} /\ (pc' = "start" => ~resetHeat') /\ resetHeat' \in BOOLEAN
      /\ stop' \in BOOLEAN /\ drain' \in {"on", "stopped", "failed"} /\ drain' # "on"
  BY Zenon DEF Reconcile, Recover, recoverWatcher, reconcile, Restart, drainVars, TInv, TypeOK, ControlInv
<1>4. heat' \subseteq heat /\ missed' \subseteq missed /\ placed' = {}
  BY Zenon DEF Reconcile, Recover, recoverWatcher, Restart, history, TInv, DiskInv, Looping
<1>5. ~resetHeat' => heat' \ missed' \subseteq disk
  <2>1. CASE Reconcile
    BY <2>1, Zenon DEF Reconcile, reconcile, history, TInv, HeatInv, Looping, ControlInv
  <2>2. CASE Recover
    BY <2>2, Zenon DEF Recover, recoverWatcher, reconcile
  <2>3. CASE Restart
    BY <2>3, Zenon DEF Restart
  <2> QED BY <2>1, <2>2, <2>3, Zenon
<1>6. ~Looping'
  BY <1>3, Zenon DEF Looping
<1>7. TypeOK'
  BY <1>1, <1>2, <1>3, <1>4, Zenon DEF TInv, TypeOK
<1>8. DiskInv' /\ ControlInv' /\ QueueTrue' /\ CoverInv'
  BY <1>1, <1>2, <1>3, <1>4, <1>6, Zenon DEF TInv, DiskInv, ControlInv, QueueTrue, CoverInv
<1>9. HeatInv' /\ NoGhosts' /\ PlacedCounted'
  BY <1>1, <1>5, <1>6, Zenon DEF HeatInv, NoGhosts, PlacedCounted
<1> QED BY <1>7, <1>8, <1>9, Zenon DEF TInv

\* Steps before the loop that receive no event.
LEMMA StartStep ==
  ASSUME TInv, \/ Start \/ CoverRoot \/ BeginScan \/ ScanEnds \/ DrainLoss \/ DrainStop
               \/ (\E k \in Key : RestoreItem(k)) \/ (\E d \in Dir : CoverNext(d))
  PROVE  TInv'
<1> USE DEF cacheVars, watcherVars, drainVars, history
<1>1. /\ UNCHANGED <<dirs, disk, changes, queue, loss, resetHeat, cur, missed, placed>>
      /\ watched \subseteq watched'
  BY Zenon DEF Start, CoverRoot, BeginScan, ScanEnds, DrainLoss, DrainStop, RestoreItem, CoverNext
<1>2. /\ \A x : Pending(x)' <=> Pending(x)
      /\ \A kind, k : LatestIs(kind, k)' <=> LatestIs(kind, k)
  BY <1>1, QueueSame, Zenon
<1>3. pc \in {"start", "restore", "cover", "scan"} /\ pc' \in {"restore", "cover", "scan"}
  BY Zenon DEF Start, CoverRoot, BeginScan, ScanEnds, DrainLoss, DrainStop, RestoreItem, CoverNext, TInv, ControlInv
<1>4. ~Looping /\ ~Looping'
  BY <1>3, Zenon DEF Looping
<1>5. TypeOK'
  <2> USE DEF TInv, TypeOK
  <2>1. CASE Start \/ CoverRoot \/ BeginScan
    BY <1>1, <1>3, <2>1 DEF Start, CoverRoot, BeginScan
  <2>2. CASE ScanEnds \/ DrainLoss \/ DrainStop
    BY <1>1, <1>3, <2>2 DEF ScanEnds, DrainLoss, DrainStop
  <2>3. CASE \E k \in Key : RestoreItem(k)
    BY <1>1, <1>3, <2>3, Zenon DEF RestoreItem
  <2>4. CASE \E d \in Dir : CoverNext(d)
    BY <1>1, <1>3, <2>4, Zenon DEF CoverNext
  <2> QED BY <2>1, <2>2, <2>3, <2>4, Zenon
<1>6. DiskInv'
  <2> USE <1>1, <1>4 DEF TInv, TypeOK, DiskInv
  <2>1. CASE Start \/ CoverRoot \/ BeginScan
    BY <2>1, Zenon DEF Start, CoverRoot, BeginScan
  <2>2. CASE ScanEnds \/ DrainLoss \/ DrainStop
    BY <2>2, Zenon DEF ScanEnds, DrainLoss, DrainStop
  <2>3. CASE \E k \in Key : RestoreItem(k)
    BY <2>3, Zenon DEF RestoreItem
  <2>4. CASE \E d \in Dir : CoverNext(d)
    BY <2>4 DEF CoverNext
  <2> QED BY <2>1, <2>2, <2>3, <2>4, Zenon
<1>7. ControlInv'
  <2> USE DEF TInv, TypeOK, ControlInv
  <2>0. CASE Start
    BY <1>1, <1>3, <1>4, <2>0 DEF Start
  <2>1. CASE CoverRoot \/ BeginScan
    BY <1>1, <1>3, <1>4, <2>1, Zenon DEF CoverRoot, BeginScan
  <2>2. CASE ScanEnds \/ DrainLoss \/ DrainStop
    BY <1>1, <1>3, <1>4, <2>2, Zenon DEF ScanEnds, DrainLoss, DrainStop
  <2>3. CASE \E k \in Key : RestoreItem(k)
    BY <1>1, <1>3, <1>4, <2>3 DEF RestoreItem
  <2>4. CASE \E d \in Dir : CoverNext(d)
    BY <1>1, <1>3, <1>4, <2>4, Zenon DEF CoverNext
  <2> QED BY <2>0, <2>1, <2>2, <2>3, <2>4, Zenon
<1>8. QueueTrue'
  BY <1>1, <1>2, Zenon DEF TInv, QueueTrue
<1>9. CoverInv'
  <2>1. CASE CoverRoot
    BY <2>1, Zenon DEF CoverRoot, CoverInv, Covered
  <2>2. ASSUME NEW d \in Dir, CoverNext(d) PROVE CoverInv'
    <3>1. UNCHANGED <<root, pc>> /\ pc = "cover" /\ watched' = watched \cup {d} /\ todo' = todo \ {d}
      BY <2>2, Zenon DEF CoverNext
    <3>2. ASSUME NEW x \in dirs, Covered(x) PROVE Covered(x)'
      BY <1>1, <1>2, <3>1, <3>2, Zenon DEF Covered
    <3> QED BY <1>1, <3>1, <3>2, Zenon DEF TInv, CoverInv
  <2>3. CASE BeginScan
    <3>1. UNCHANGED <<root, watched, todo>> /\ pc = "cover" /\ todo = {}
      BY <2>3, Zenon DEF BeginScan
    <3>2. ASSUME NEW x \in dirs, Covered(x) PROVE Covered(x)'
      BY <1>1, <1>2, <3>1, <3>2, Zenon DEF Covered
    <3> QED BY <1>1, <3>1, <3>2, Zenon DEF TInv, CoverInv
  <2>4. CASE Start \/ \E k \in Key : RestoreItem(k)
    BY <2>4, Zenon DEF Start, RestoreItem, TInv, ControlInv, CoverInv
  <2>5. CASE ScanEnds \/ DrainLoss \/ DrainStop
    BY <1>1, <1>2, <2>5, Zenon DEF ScanEnds, DrainLoss, DrainStop, TInv, CoverInv, Covered
  <2> QED BY <2>1, <2>2, <2>3, <2>4, <2>5, Zenon
<1>10. HeatInv'
  <2>1. CASE CoverRoot
    <3>1. UNCHANGED <<heat, pc>> /\ pc = "cover" /\ todo' = dirs
      BY <2>1, Zenon DEF CoverRoot
    <3> QED BY <1>1, <1>4, <3>1, Zenon DEF TInv, HeatInv, DiskInv
  <2>2. ASSUME NEW d \in Dir, CoverNext(d) PROVE HeatInv'
    <3>1. UNCHANGED <<heat, root, pc>> /\ pc = "cover" /\ watched' = watched \cup {d} /\ todo' = todo \ {d}
      BY <2>2, Zenon DEF CoverNext
    <3> QED BY <1>1, <1>4, <3>1, Zenon DEF TInv, HeatInv
  <2>3. CASE BeginScan
    <3>1. UNCHANGED <<heat, root, watched, todo>> /\ pc = "cover" /\ todo = {}
      BY <2>3, Zenon DEF BeginScan
    <3> QED BY <1>1, <1>4, <3>1, Zenon DEF TInv, HeatInv
  <2>4. CASE Start \/ \E k \in Key : RestoreItem(k)
    <3>1. ~root' /\ heat' \ heat \subseteq disk
      BY <2>4 DEF Start, RestoreItem, TInv, ControlInv
    <3>2. ~resetHeat /\ UNCHANGED <<resetHeat, missed, disk>> /\ heat \ missed \subseteq disk
      BY <1>1, <1>4, <2>4, Zenon DEF Start, RestoreItem, TInv, ControlInv, HeatInv
    <3>3. heat' \ missed' \subseteq disk'
      BY <3>1, <3>2, Zenon
    <3> QED BY <3>1, <3>3, Zenon DEF HeatInv
  <2>5. CASE ScanEnds \/ DrainLoss \/ DrainStop
    <3>1. UNCHANGED <<heat, root, watched, todo, pc>>
      BY <2>5, Zenon DEF ScanEnds, DrainLoss, DrainStop
    <3> QED BY <1>1, <1>4, <3>1, Zenon DEF TInv, HeatInv
  <2> QED BY <2>1, <2>2, <2>3, <2>4, <2>5, Zenon
<1>11. NoGhosts' /\ PlacedCounted'
  BY <1>4, Zenon DEF NoGhosts, PlacedCounted
<1> QED BY <1>5, <1>6, <1>7, <1>8, <1>9, <1>10, <1>11, Zenon DEF TInv

\* The rebuilt watcher goes into service.
LEMMA JoinStep ==
  ASSUME TInv, Join
  PROVE  TInv'
<1>1. /\ pc = "scan" /\ pc' = "loop" /\ drain = "stopped"
      /\ UNCHANGED <<dirs, disk, changes, root, watched, queue, loss, resetHeat, todo, cur, stop, drain, placed>>
      /\ resetHeat => heat' = {} /\ missed' = {}
      /\ ~resetHeat => heat' = heat /\ missed' = missed
  BY Zenon DEF Join, cacheVars, watcherVars, drainVars
<1>2. /\ \A x : Pending(x)' <=> Pending(x)
      /\ \A kind, k : LatestIs(kind, k)' <=> LatestIs(kind, k)
  BY <1>1, QueueSame, Zenon
<1>3. ~Looping /\ Looping' /\ root /\ placed = {} /\ placed' = {}
  BY <1>1, Zenon DEF Looping, TInv, DiskInv, ControlInv
<1>4. TypeOK'
  BY <1>1, <1>3, Zenon DEF TInv, TypeOK
<1>5. DiskInv' /\ ControlInv' /\ QueueTrue'
  BY <1>1, <1>2, <1>3, Zenon DEF TInv, DiskInv, ControlInv, QueueTrue
<1>6. CoverInv'
  BY <1>1, <1>2, Zenon DEF TInv, CoverInv, Covered
<1>7. resetHeat \/ heat \ missed \subseteq disk
  BY <1>3, Zenon DEF TInv, HeatInv
<1>8. HeatInv' /\ NoGhosts' /\ PlacedCounted'
  <2>1. HeatInv'
    BY <1>1, <1>3, Zenon DEF TInv, HeatInv
  <2>2. NoGhosts'
    BY <1>1, <1>7, Zenon DEF NoGhosts
  <2>3. PlacedCounted'
    BY <1>3, Zenon DEF PlacedCounted
  <2> QED BY <2>1, <2>2, <2>3, Zenon
<1> QED BY <1>4, <1>5, <1>6, <1>8, Zenon DEF TInv

\* A new directory is watched, then listed, then its entries are counted.
LEMMA SeedStep ==
  ASSUME TInv, WatchNew \/ ListNew \/ SeedDone \/ (\E k \in Key : SeedNext(k))
  PROVE  TInv'
<1> USE DEF cacheVars, watcherVars, drainVars, history
<1>1. /\ UNCHANGED <<dirs, disk, changes, root, queue, loss, resetHeat, cur, stop, drain, placed>>
      /\ watched \subseteq watched' /\ watched' \subseteq watched \cup {cur}
  BY Zenon DEF WatchNew, ListNew, SeedDone, SeedNext
<1>2. /\ \A x : Pending(x)' <=> Pending(x)
      /\ \A kind, k : LatestIs(kind, k)' <=> LatestIs(kind, k)
  BY <1>1, QueueSame, Zenon
<1>3. pc \in {"watch", "list", "seed"} /\ pc' \in {"list", "seed", "loop"}
  BY Zenon DEF WatchNew, ListNew, SeedDone, SeedNext
<1>4. Looping /\ Looping' /\ root /\ cur \in Dir
  BY <1>3, Zenon DEF Looping, TInv, ControlInv
<1>5. CASE WatchNew
  <2>1. /\ pc = "watch" /\ pc' = "list" /\ cur \in dirs /\ watched' = watched \cup {cur}
        /\ UNCHANGED <<heat, todo, missed>>
    BY <1>5, Zenon DEF WatchNew
  <2>2. TypeOK' /\ DiskInv'
    BY <1>1, <1>4, <2>1, Zenon DEF TInv, TypeOK, DiskInv
  <2>3. ControlInv' /\ QueueTrue'
    BY <1>1, <1>2, <1>4, <2>1, Zenon DEF TInv, ControlInv, QueueTrue
  <2>4. CoverInv'
    BY <1>1, <1>2, <2>1, Zenon DEF TInv, CoverInv, Covered
  <2>5. HeatInv' /\ NoGhosts'
    BY <1>1, <1>2, <1>4, <2>1, Zenon DEF TInv, HeatInv, NoGhosts
  <2>6. PlacedCounted'
    BY <1>1, <1>2, <1>4, <2>1, Zenon DEF TInv, PlacedCounted
  <2> QED BY <2>2, <2>3, <2>4, <2>5, <2>6, Zenon DEF TInv
<1>6. CASE ListNew
  <2>1. /\ pc = "list" /\ pc' = "seed" /\ todo' = KeysIn(cur) \cap disk
        /\ UNCHANGED <<heat, watched, missed>>
    BY <1>6, Zenon DEF ListNew
  <2>2. TypeOK' /\ DiskInv'
    BY <1>1, <1>4, <2>1, Zenon DEF TInv, TypeOK, DiskInv, KeysIn
  <2>3. ControlInv' /\ QueueTrue'
    BY <1>1, <1>2, <1>4, <2>1, Zenon DEF TInv, ControlInv, QueueTrue
  <2>4. CoverInv'
    BY <1>1, <1>2, <2>1, Zenon DEF TInv, CoverInv, Covered
  <2>5. HeatInv' /\ NoGhosts'
    BY <1>1, <1>2, <1>4, <2>1, Zenon DEF TInv, HeatInv, NoGhosts
  <2>6. PlacedCounted'
    <3>1. \A k \in placed : cur = DirOf[k] => k \in todo'
      BY <2>1, Zenon DEF TInv, TypeOK, DiskInv, KeysIn
    <3> QED BY <1>1, <1>2, <1>4, <2>1, <3>1, Zenon DEF TInv, PlacedCounted
  <2> QED BY <2>2, <2>3, <2>4, <2>5, <2>6, Zenon DEF TInv
<1>7. ASSUME NEW k \in Key, SeedNext(k) PROVE TInv'
  <2>1. /\ pc = "seed" /\ pc' = "seed" /\ k \in todo /\ todo' = todo \ {k} /\ UNCHANGED watched
        /\ k \in disk => heat' = heat \cup {k} /\ missed' = missed \ {k}
        /\ k \notin disk => heat' = heat /\ missed' = missed
    BY <1>7, Zenon DEF SeedNext, Add
  <2>2. TypeOK' /\ DiskInv'
    <3>1. heat' \subseteq Key /\ missed' \subseteq Key
      BY <2>1, Zenon DEF TInv, TypeOK
    <3> QED BY <1>1, <1>4, <2>1, <3>1, Zenon DEF TInv, TypeOK, DiskInv
  <2>3. ControlInv' /\ QueueTrue'
    BY <1>1, <1>2, <1>4, <2>1, Zenon DEF TInv, ControlInv, QueueTrue, KeysIn
  <2>4. CoverInv'
    BY <1>1, <1>2, <2>1, Zenon DEF TInv, CoverInv, Covered
  <2>5. DirOf[k] \in watched \/ loss
    BY <2>1, Zenon DEF TInv, ControlInv, KeysIn
  <2>6. HeatInv'
    BY <1>1, <1>4, <2>1, <2>5, Zenon DEF TInv, HeatInv
  <2>7. NoGhosts'
    BY <1>1, <1>2, <1>4, <2>1, Zenon DEF TInv, NoGhosts
  <2>8. PlacedCounted'
    BY <1>1, <1>2, <1>4, <2>1, Zenon DEF TInv, DiskInv, PlacedCounted
  <2> QED BY <2>2, <2>3, <2>4, <2>6, <2>7, <2>8, Zenon DEF TInv
<1>8. CASE SeedDone
  <2>1. pc = "seed" /\ pc' = "loop" /\ todo = {} /\ UNCHANGED <<heat, watched, missed, todo>>
    BY <1>8, Zenon DEF SeedDone
  <2>2. TypeOK' /\ DiskInv'
    BY <1>1, <1>4, <2>1, Zenon DEF TInv, TypeOK, DiskInv
  <2>3. ControlInv' /\ QueueTrue'
    BY <1>1, <1>2, <1>4, <2>1, Zenon DEF TInv, ControlInv, QueueTrue
  <2>4. CoverInv'
    BY <1>1, <1>2, <2>1, Zenon DEF TInv, CoverInv, Covered
  <2>5. HeatInv' /\ NoGhosts'
    BY <1>1, <1>2, <1>4, <2>1, Zenon DEF TInv, HeatInv, NoGhosts
  <2>6. PlacedCounted'
    BY <1>1, <1>2, <1>4, <2>1, Zenon DEF TInv, PlacedCounted
  <2> QED BY <2>2, <2>3, <2>4, <2>5, <2>6, Zenon DEF TInv
<1> QED BY <1>5, <1>6, <1>7, <1>8, Zenon

\* A cycle tells the heavy keeper of the entry it unlinked.
LEMMA RemoveStep ==
  ASSUME TInv, RemoveHeat
  PROVE  TInv'
<1>1. /\ pc = "unlinked" /\ pc' = "loop" /\ heat' = heat \ {cur} /\ missed' = missed \ {cur}
      /\ UNCHANGED <<dirs, disk, changes, root, watched, queue, loss, resetHeat, todo, cur, stop, drain, placed>>
  BY Zenon DEF RemoveHeat, Remove, cacheVars, watcherVars, drainVars
<1>2. /\ \A x : Pending(x)' <=> Pending(x)
      /\ \A kind, k : LatestIs(kind, k)' <=> LatestIs(kind, k)
  BY <1>1, QueueSame, Zenon
<1>3. Looping /\ Looping' /\ root /\ cur \in Key
  BY <1>1, Zenon DEF Looping, TInv, ControlInv
<1>4. TypeOK' /\ DiskInv'
  BY <1>1, <1>3, Zenon DEF TInv, TypeOK, DiskInv
<1>5. ControlInv' /\ QueueTrue'
  BY <1>1, <1>2, <1>3, Zenon DEF TInv, ControlInv, QueueTrue
<1>6. CoverInv'
  BY <1>1, <1>2, Zenon DEF TInv, CoverInv, Covered
<1>7. HeatInv' /\ NoGhosts'
  BY <1>1, <1>2, <1>3, Zenon DEF TInv, HeatInv, NoGhosts
<1>8. cur \in placed => loss \/ LatestIs("count", cur) \/ Pending(<<"mkdir", DirOf[cur]>>)
  BY <1>1, <1>3, Zenon DEF TInv, ControlInv, DiskInv, QueueTrue
<1>9. PlacedCounted'
  BY <1>1, <1>2, <1>3, <1>8, Zenon DEF TInv, PlacedCounted
<1> QED BY <1>4, <1>5, <1>6, <1>7, <1>9, Zenon DEF TInv

\* What TailEffect says of the invariant's parts about the queue alone.
LEMMA QueueStep ==
  ASSUME TInv, queue # <<>>, queue' = Tail(queue), watched \subseteq watched',
         UNCHANGED <<disk, loss>>
  PROVE  QueueTrue'
<1>1. /\ \A x : Pending(x)' => Pending(x)
      /\ \A x, kind, k : LatestIs(kind, k) /\ x[2] = k /\ Pending(x)' => LatestIs(kind, k)'
  BY TailEffect, Zenon DEF TInv, TypeOK
<1> SUFFICES ASSUME NEW k \in Key, Pending(<<"count", k>>)' \/ Pending(<<"delete", k>>)', ~loss
             PROVE  /\ DirOf[k] \in watched'
                    /\ k \in disk => LatestIs("count", k)'
                    /\ k \notin disk => LatestIs("delete", k)'
  BY Zenon DEF QueueTrue
<1>2. PICK x : x[2] = k /\ Pending(x)' /\ (x = <<"count", k>> \/ x = <<"delete", k>>)
  BY Zenon
<1>3. /\ DirOf[k] \in watched
      /\ k \in disk => LatestIs("count", k)
      /\ k \notin disk => LatestIs("delete", k)
  BY <1>1, <1>2, Zenon DEF TInv, QueueTrue
<1> QED BY <1>1, <1>2, <1>3, Zenon

\* handleReconciliationEvent throws events away, but none of a new directory.
LEMMA DrainEventStep ==
  ASSUME TInv, DrainEvent
  PROVE  TInv'
<1> DEFINE h == Head(queue)
<1>1. /\ drain = "on" /\ queue # <<>> /\ queue' = Tail(queue)
      /\ UNCHANGED <<dirs, disk, changes, root, loss, heat, pc, resetHeat, todo, cur, stop, missed, placed>>
      /\ drain' \in {"on", "failed"} /\ watched \subseteq watched' /\ watched' \subseteq watched \cup dirs
      /\ h[1] = "mkdir" /\ h[2] \in dirs => h[2] \in watched'
  BY Zenon DEF DrainEvent, cacheVars, history
<1>2. pc = "scan" /\ pc' = "scan" /\ ~Looping /\ ~Looping'
  BY <1>1, Zenon DEF TInv, ControlInv, Looping
<1>3. /\ queue' \in Seq(EventType) /\ Len(queue') = Len(queue) - 1 /\ Len(queue) \in Nat
      /\ \A x : Pending(x) /\ x # h => Pending(x)'
  BY <1>1, TailEffect, Zenon DEF TInv, TypeOK
<1>4. TypeOK'
  <2>1. Len(queue') <= QueueSize
    BY <1>3 DEF TInv, TypeOK
  <2> QED BY <1>1, <1>2, <1>3, <2>1, Zenon DEF TInv, TypeOK
<1>5. DiskInv'
  BY <1>1, <1>2, Zenon DEF TInv, DiskInv
<1>6. ControlInv'
  BY <1>1, <1>2, Zenon DEF TInv, ControlInv, Looping
<1>7. QueueTrue'
  BY <1>1, QueueStep, Zenon
<1>8. CoverInv'
  <2> SUFFICES ASSUME root, NEW d \in dirs PROVE Covered(d)'
    BY <1>1, Zenon DEF CoverInv
  <2>1. d \in watched \/ loss \/ Pending(<<"mkdir", d>>)
    BY <1>2, Zenon DEF TInv, CoverInv, Covered
  <2>2. CASE h = <<"mkdir", d>>
    BY <1>1, <2>2 DEF Covered
  <2>3. CASE h # <<"mkdir", d>>
    BY <1>1, <1>3, <2>1, <2>3, Zenon DEF Covered
  <2> QED BY <2>2, <2>3, Zenon
<1>9. HeatInv'
  BY <1>1, <1>2, Zenon DEF TInv, HeatInv
<1>10. NoGhosts' /\ PlacedCounted'
  BY <1>2, Zenon DEF NoGhosts, PlacedCounted
<1> QED BY <1>4, <1>5, <1>6, <1>7, <1>8, <1>9, <1>10, Zenon DEF TInv

\* handleEvent counts, forgets, or turns to a new directory.
LEMMA HandleStep ==
  ASSUME TInv, HandleEvent
  PROVE  TInv'
<1> DEFINE h == Head(queue)
<1>1. /\ pc = "loop" /\ queue # <<>> /\ queue' = Tail(queue) /\ cur' = h[2]
      /\ UNCHANGED <<dirs, disk, changes, root, watched, loss, resetHeat, todo, stop, drain, placed>>
  BY Zenon DEF HandleEvent, cacheVars, drainVars
<1>2. /\ h \in EventType
      /\ queue' \in Seq(EventType) /\ Len(queue') = Len(queue) - 1 /\ Len(queue) \in Nat
      /\ Pending(h)
      /\ \A x : Pending(x) /\ x # h => Pending(x)'
      /\ \A kind, k : LatestIs(kind, k) /\ <<kind, k>> # h => LatestIs(kind, k)'
  BY <1>1, TailEffect, Zenon DEF TInv, TypeOK
<1>3. /\ h[1] = "count" => h[2] \in Key /\ h = <<"count", h[2]>>
      /\ h[1] = "delete" => h[2] \in Key /\ h = <<"delete", h[2]>>
      /\ h[1] = "mkdir" => h[2] \in Dir /\ h = <<"mkdir", h[2]>>
      /\ h[1] \in {"count", "delete", "mkdir"} /\ h[2] \in Dir \cup Key
  BY <1>2 DEF EventType
<1>4. /\ h[1] = "count" => heat' = heat \cup {h[2]} /\ missed' = missed \ {h[2]} /\ pc' = "loop"
      /\ h[1] = "delete" => heat' = heat \ {h[2]} /\ missed' = missed \ {h[2]} /\ pc' = "loop"
      /\ h[1] = "mkdir" => heat' = heat /\ missed' = missed /\ pc' = "watch"
  BY <1>1, Zenon DEF HandleEvent, Add, Remove
<1> HIDE DEF h
<1>5. pc' \in {"loop", "watch"} /\ Looping /\ Looping' /\ root
  BY <1>1, <1>3, <1>4, Zenon DEF Looping, TInv, ControlInv
<1>6. TypeOK'
  <2>1. Len(queue') <= QueueSize
    BY <1>2 DEF TInv, TypeOK
  <2>2. heat' \subseteq Key /\ missed' \subseteq Key
    BY <1>3, <1>4, Zenon DEF TInv, TypeOK
  <2> QED BY <1>1, <1>2, <1>3, <1>5, <2>1, <2>2, Zenon DEF TInv, TypeOK
<1>7. DiskInv'
  BY <1>1, <1>5, Zenon DEF TInv, DiskInv
<1>8. ControlInv'
  BY <1>1, <1>3, <1>4, <1>5, Zenon DEF TInv, ControlInv
<1>9. QueueTrue'
  BY <1>1, QueueStep, Zenon
<1>10. CoverInv'
  <2> SUFFICES ASSUME NEW d \in dirs PROVE Covered(d)'
    BY <1>1, Zenon DEF CoverInv
  <2>1. d \in watched \/ loss \/ Pending(<<"mkdir", d>>)
    BY <1>1, <1>5, Zenon DEF TInv, CoverInv, Covered
  <2>2. CASE h = <<"mkdir", d>>
    <3>1. h[1] = "mkdir" /\ h[2] = d
      BY <2>2, Zenon
    <3> QED BY <1>1, <1>4, <3>1, Zenon DEF Covered
  <2>3. CASE h # <<"mkdir", d>>
    BY <1>1, <1>2, <2>1, <2>3, Zenon DEF Covered
  <2> QED BY <2>2, <2>3, Zenon
<1>11. HeatInv'
  <2>1. \A k \in heat \ missed : DirOf[k] \in watched \/ loss
    BY <1>1, <1>5, Zenon DEF TInv, HeatInv
  <2>2. h[1] = "count" => DirOf[h[2]] \in watched \/ loss
    BY <1>2, <1>3, Zenon DEF TInv, QueueTrue
  <2>3. \A k \in heat' \ missed' : DirOf[k] \in watched \/ loss
    BY <1>3, <1>4, <2>1, <2>2, Zenon
  <2> QED BY <1>1, <1>5, <2>3, Zenon DEF HeatInv
<1>12. NoGhosts'
  <2> SUFFICES ASSUME NEW k \in heat' \ (disk \cup missed'), ~loss
               PROVE  LatestIs("delete", k)'
    BY <1>1, Zenon DEF NoGhosts
  <2>1. CASE h[1] = "count" /\ k = h[2]
    <3>1. k \in Key /\ k \notin disk /\ h = <<"count", k>>
      BY <1>3, <2>1, Zenon
    <3>2. Pending(<<"count", k>>) /\ <<"delete", k>> # h
      BY <1>2, <3>1, Zenon
    <3>3. LatestIs("delete", k)
      BY <3>1, <3>2, Zenon DEF TInv, QueueTrue
    <3> QED BY <1>2, <3>2, <3>3, Zenon
  <2>2. CASE ~(h[1] = "count" /\ k = h[2])
    <3>1. k \in heat \ (disk \cup missed) /\ ~(h[1] = "delete" /\ k = h[2])
      BY <1>3, <1>4, <2>2, Zenon
    <3>2. LatestIs("delete", k) /\ <<"delete", k>> # h
      BY <1>5, <3>1 DEF TInv, NoGhosts
    <3> QED BY <1>2, <3>2, Zenon
  <2> QED BY <2>1, <2>2, Zenon
<1>13. PlacedCounted'
  <2> SUFFICES ASSUME NEW k \in placed, ~loss
               PROVE  \/ k \in heat' \/ LatestIs("count", k)'
                      \/ Pending(<<"mkdir", DirOf[k]>>)'
                      \/ pc' = "watch" /\ cur' = DirOf[k]
    BY <1>1, Zenon DEF PlacedCounted
  <2>1. k \in Key /\ k \in disk
    BY Zenon DEF TInv, TypeOK, DiskInv
  <2>2. CASE h[1] = "delete" /\ k = h[2]
    <3>1. h = <<"delete", k>>
      BY <1>3, <2>2, Zenon
    <3>2. Pending(<<"delete", k>>) /\ <<"count", k>> # h
      BY <1>2, <3>1, Zenon
    <3>3. LatestIs("count", k)
      BY <2>1, <3>2, Zenon DEF TInv, QueueTrue
    <3> QED BY <1>2, <3>2, <3>3, Zenon
  <2>3. CASE ~(h[1] = "delete" /\ k = h[2])
    <3>1. k \in heat \/ LatestIs("count", k) \/ Pending(<<"mkdir", DirOf[k]>>)
      BY <1>1, <1>5, Zenon DEF TInv, PlacedCounted
    <3>2. CASE k \in heat
      BY <1>3, <1>4, <2>3, <3>2, Zenon
    <3>3. CASE LatestIs("count", k)
      <4>1. CASE h = <<"count", k>>
        <5>1. h[1] = "count" /\ h[2] = k
          BY <4>1, Zenon
        <5> QED BY <1>4, <5>1, Zenon
      <4> QED BY <1>2, <3>3, <4>1, Zenon
    <3>4. CASE Pending(<<"mkdir", DirOf[k]>>)
      <4>1. CASE h = <<"mkdir", DirOf[k]>>
        <5>1. h[1] = "mkdir" /\ h[2] = DirOf[k]
          BY <4>1, Zenon
        <5> QED BY <1>1, <1>4, <5>1, Zenon
      <4> QED BY <1>2, <3>4, <4>1, Zenon
    <3> QED BY <3>1, <3>2, <3>3, <3>4, Zenon
  <2> QED BY <2>2, <2>3, Zenon
<1> QED BY <1>6, <1>7, <1>8, <1>9, <1>10, <1>11, <1>12, <1>13, Zenon DEF TInv

(***************************************************************************)
(* Every step, and the theorems.                                           *)
(***************************************************************************)
\* Every step of the cache, of Run, of the drain goroutine and every restart
\* preserves the invariant.
LEMMA TStep ==
  ASSUME TInv, [Next]_vars
  PROVE  TInv'
<1>1. CASE Environment
  BY <1>1, EnvironmentStep, Zenon
<1>2. CASE Reconcile \/ Recover \/ Restart
  BY <1>2, ResetStep, Zenon
<1>3. CASE \/ Start \/ CoverRoot \/ BeginScan \/ ScanEnds \/ DrainLoss \/ DrainStop
           \/ (\E k \in Key : RestoreItem(k)) \/ (\E d \in Dir : CoverNext(d))
  BY <1>3, StartStep, Zenon
<1>4. CASE Join
  BY <1>4, JoinStep, Zenon
<1>5. CASE WatchNew \/ ListNew \/ SeedDone \/ (\E k \in Key : SeedNext(k))
  BY <1>5, SeedStep, Zenon
<1>6. CASE RemoveHeat
  BY <1>6, RemoveStep, Zenon
<1>7. CASE DrainEvent
  BY <1>7, DrainEventStep, Zenon
<1>8. CASE HandleEvent
  BY <1>8, HandleStep, Zenon
<1>9. ASSUME NEW k \in Key, Unlink(k) PROVE TInv'
  <2>1. /\ k \in disk /\ Gone({k}) /\ Emit(<<"delete", k>>, DirOf[k] \in watched)
        /\ pc = "loop" /\ pc' = "unlinked" /\ cur' = k
        /\ UNCHANGED <<dirs, changes, root, watched, heat, resetHeat, todo, stop, drain>>
    BY <1>9, Zenon DEF Unlink, drainVars
  <2>2. changes' \in 0 .. MaxChanges
    BY <2>1, Zenon DEF TInv, TypeOK
  <2> QED BY <2>1, <2>2, LoseEntry, Zenon
<1>10. CASE UNCHANGED vars
  <2>1. UNCHANGED <<dirs, disk, changes, root, watched, queue, loss, heat, pc, resetHeat, todo, cur,
                    stop, drain, missed, placed>>
    BY <1>10, Zenon DEF vars, cacheVars, watcherVars, runVars, drainVars, history
  <2>2. /\ \A x : Pending(x)' <=> Pending(x)
        /\ \A kind, k : LatestIs(kind, k)' <=> LatestIs(kind, k)
    BY <2>1, QueueSame, Zenon
  <2>7. DiskInv' /\ (Looping' <=> Looping)
    BY <2>1, Zenon DEF TInv, DiskInv, Looping
  <2>3. TypeOK' /\ DiskInv' /\ (Looping' <=> Looping)
    BY <2>1, <2>7, Zenon DEF TInv, TypeOK
  <2>4. ControlInv'
    BY <2>1, <2>2, <2>3, Zenon DEF TInv, ControlInv
  <2>5. QueueTrue' /\ CoverInv'
    BY <2>1, <2>2, Zenon DEF TInv, QueueTrue, CoverInv, Covered
  <2>6. HeatInv' /\ NoGhosts' /\ PlacedCounted'
    BY <2>1, <2>2, <2>3, Zenon DEF TInv, HeatInv, NoGhosts, PlacedCounted
  <2> QED BY <2>3, <2>4, <2>5, <2>6, Zenon DEF TInv
<1> QED
  BY <1>1, <1>2, <1>3, <1>4, <1>5, <1>6, <1>7, <1>8, <1>9, <1>10, Zenon DEF Next, Run, Drain

\* The invariant holds when a daemon is started on any cache, and from then on.
LEMMA TAlways == Spec => []TInv
<1>1. ASSUME Init PROVE TInv
  <2>1. /\ pc = "start" /\ root = FALSE /\ watched = {} /\ queue = <<>> /\ loss = FALSE
        /\ heat = {} /\ resetHeat = FALSE /\ todo = {} /\ cur \in Dir /\ stop = FALSE
        /\ drain = "stopped" /\ missed = {} /\ placed = {}
        /\ dirs \subseteq Dir /\ disk \subseteq Key /\ changes = 0
        /\ \A k \in disk : DirOf[k] \in dirs
    BY <1>1, Zenon DEF Init
  <2>2. ~Looping
    BY <2>1, Zenon DEF Looping
  <2>3. queue \in Seq(EventType) /\ Len(queue) <= QueueSize /\ changes \in 0 .. MaxChanges
    BY <2>1
  <2>4. TypeOK
    BY <2>1, <2>3, Zenon DEF TypeOK
  <2>5. DiskInv /\ ControlInv
    BY <2>1, <2>2, Zenon DEF DiskInv, ControlInv
  <2>6. QueueTrue
    BY <2>1, QueueEmpty, Zenon DEF QueueTrue
  <2>7. CoverInv /\ HeatInv /\ NoGhosts /\ PlacedCounted
    BY <2>1, <2>2, Zenon DEF CoverInv, HeatInv, NoGhosts, PlacedCounted
  <2> QED BY <2>4, <2>5, <2>6, <2>7, Zenon DEF TInv
<1> QED BY <1>1, TStep, PTL DEF Spec

\* Type correctness: the watcher's queue stays within its bound, and the locals
\* of Run and of the drain goroutine have their types.
THEOREM TypeCorrect == Spec => []TypeOK
<1>1. TInv => TypeOK
  BY Zenon DEF TInv
<1> QED BY <1>1, TAlways, PTL

\* Once Run is in its loop, every key of the heat model is on disk, about to be
\* removed, or lost with a watcher: for any number of directories and entries,
\* any queue, and any number of restarts and recoveries.
THEOREM NoGhostsKept == Spec => []NoGhosts
<1>1. TInv => NoGhosts
  BY Zenon DEF TInv
<1> QED BY <1>1, TAlways, PTL

\* Once Run is in its loop, no entry that Bazel places or opens goes uncounted
\* but through a reported loss.
THEOREM PlacedKept == Spec => []PlacedCounted
<1>1. TInv => PlacedCounted
  BY Zenon DEF TInv
<1> QED BY <1>1, TAlways, PTL
=============================================================================
