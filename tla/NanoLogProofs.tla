---------------------------- MODULE NanoLogProofs ----------------------------
(***************************************************************************)
(* Theorems about NanoLog for any number of threads that log, any sizes of *)
(* the Buffers and of the ring, and any number of lines: the slots come    *)
(* back, and the lines are read once each, in the order of their slots.    *)
(*                                                                         *)
(* Lines is for any arguments: what LogLine encodes it decodes, up to the   *)
(* first NUL that is inside a string.                                      *)
(***************************************************************************)
EXTENDS NanoLog, Lines, DataLemmas

\* The producers that owe the current Buffer a line or its count, and those that set up
\* the next one.
Pending   == {p \in Producers : at[p] \in {"load", "store", "count"}}
SettingUp == {p \in Producers : at[p] \in {"setup", "enqueue"}}
Enqueuing == \E p \in Producers : at[p] = "enqueue"

\* The Buffer whose slots are claimed, the slots that were, and the lines before it.
Epoch     == IF Enqueuing THEN Len(buffers) - 1 ELSE Len(buffers)
Handed    == IF writeIndex < Size THEN writeIndex ELSE Size
Offset(b) == (b - 1) * Size

\* The Buffer to be read: the oldest in the queue, or the next to come.
First == Epoch - Len(queue) + 1

MaybeLine   == Line \cup {NoLine}
Contents    == [lines : [Slots -> MaybeLine], count : 0 .. Size]
QueuePlaces == {"idle", "spin", "again", "load", "store", "count", "setup", "enqueue"}

QueueTypes ==
    /\ at \in [Producers -> QueuePlaces]
    /\ index \in [Producers -> Nat] /\ target \in [Producers -> Nat]
    /\ line \in [Producers -> MaybeLine]
    /\ \A p \in Producers : at[p] # "idle" => line[p] \in Line
    /\ writeIndex \in Nat /\ current = Len(buffers) /\ Epoch >= 1
    /\ buffers \in Seq(Contents)
    /\ IsFiniteSet(Pending)

\* Each slot that was claimed is counted or still owed, and who counts the last one, and
\* nobody else, sets up the next Buffer.
Counted ==
    /\ Len(claims) = Offset(Epoch) + Handed
    /\ buffers[Epoch].count + Cardinality(Pending) = Handed
    /\ SettingUp # {} <=> buffers[Epoch].count = Size
    /\ \A p, q \in SettingUp : p = q
    /\ Enqueuing => buffers[Len(buffers)] = NewBuffer

\* Whoever owes a line has a slot of the current Buffer, and that is the one loaded.
Claimed ==
    \A p \in Pending :
        /\ index[p] \in Slots /\ index[p] < Handed
        /\ line[p] = claims[Offset(Epoch) + index[p] + 1]
        /\ at[p] \in {"store", "count"} => target[p] = Epoch

\* A slot is empty or holds the line that claimed it.
SlotsHold ==
    \A b \in DOMAIN buffers, i \in Slots :
        buffers[b].lines[i] # NoLine =>
            /\ Offset(b) + i + 1 <= Len(claims)
            /\ buffers[b].lines[i] = claims[Offset(b) + i + 1]

\* The Buffers are queued one after the other, and the lines before the place of the
\* reader are those that were read.
ReadingPlace ==
    /\ queue \in Seq(Nat) /\ Len(queue) <= Epoch
    /\ \A i \in DOMAIN queue : queue[i] = First - 1 + i
    /\ readIndex \in Slots
    /\ readBuffer \notin {NullPtr, Garbage} => queue # <<>> /\ readBuffer = First
    /\ popper = "delete" => readIndex = 0 /\ queue # <<>> /\ readBuffer = NullPtr
    /\ reads = Offset(First) + readIndex + (IF popper = "delete" THEN Size ELSE 0)

QueueInv == QueueTypes /\ Counted /\ Claimed /\ SlotsHold /\ ReadingPlace

\* The items between the reader and the last claim are distinct ones.
RingTypes ==
    /\ at \in [Producers -> {"idle", "item"}]
    /\ index \in [Producers -> Nat] /\ line \in [Producers -> MaybeLine]
    /\ ring \in [0 .. RingSize - 1 -> Line \cup {Unwritten}]
    /\ ringWriteIndex = Len(claims) /\ Len(claims) - reads <= RingSize
    /\ ringReadIndex \in 0 .. IndexModulus - 1
    /\ ringReadIndex % RingSize = reads % RingSize
    /\ popper # "delete"

ItemsHold ==
    \A c \in reads .. reads + RingSize - 1 :
        ring[c % RingSize] # Unwritten =>
            c < Len(claims) /\ ring[c % RingSize] = claims[c + 1]

ItemsOwed ==
    \A p \in Producers : at[p] = "item" =>
        /\ index[p] \in reads .. Len(claims) - 1
        /\ line[p] = claims[index[p] + 1]
        /\ ring[index[p] % RingSize] = Unwritten
        /\ \A q \in Producers : at[q] = "item" /\ q # p => index[p] # index[q]

RingInv == RingTypes /\ ItemsHold /\ ItemsOwed

\* Before initialize.
Fresh ==
    /\ calls \in Nat
    /\ logger = "none" <=> popper = "none"
    /\ logger = "none" =>
         /\ ~guaranteed /\ ~overrun /\ claims = <<>> /\ reads = 0 /\ files = <<>>
         /\ \A p \in Producers : at[p] = "idle"

\* The files hold the lines that were read, but the one that is still to be written.
WrittenLines ==
    /\ claims \in Seq(Line) /\ reads \in 0 .. Len(claims)
    /\ files \in Seq(Seq(Line)) /\ (popper # "none" => files # <<>>)
    /\ IF popper \in {"write", "delete"}
       THEN /\ reads > 0 /\ popped = claims[reads]
            /\ Written = SubSeq(claims, 1, reads - 1)
       ELSE popped = NoLine /\ Written = SubSeq(claims, 1, reads)

\* The reader of a ring finds its items as long as the modulus of its index is a multiple
\* of the size; a queue has no such index.
Indexed == guaranteed \/ logger = "none" \/ IndexModulus % RingSize = 0

NanoInv ==
    /\ Fresh
    /\ guaranteed \/ logger = "none" => QueueInv
    /\ ~guaranteed => writeIndex = 0
    /\ ~guaranteed /\ Indexed /\ ~overrun => RingInv
    /\ guaranteed => ~overrun
    /\ Indexed /\ ~overrun => WrittenLines

-----------------------------------------------------------------------------
(* Places and offsets *)

LEMMA Places ==
    ASSUME QueueTypes, NEW p \in Producers, NEW x \in QueuePlaces, Goto(p, x)
    PROVE  /\ at' \in [Producers -> QueuePlaces] /\ at'[p] = x
           /\ \A q \in Producers : q # p => at'[q] = at[q]
BY DEF QueueTypes, Goto

\* A producer that moves between other places leaves those sets as they are.
LEMMA OtherPlaces ==
    ASSUME NEW p \in Producers, \A q \in Producers : q # p => at'[q] = at[q]
    PROVE  /\ at[p] # "enqueue" /\ at'[p] # "enqueue" => Enqueuing' = Enqueuing
           /\ at[p] \notin {"setup", "enqueue"} /\ at'[p] \notin {"setup", "enqueue"} =>
                SettingUp' = SettingUp
           /\ (at[p] \in {"load", "store", "count"} <=> at'[p] \in {"load", "store", "count"}) =>
                Pending' = Pending
           /\ at[p] \notin {"load", "store", "count"} /\ at'[p] \in {"load", "store", "count"} =>
                Pending' = Pending \cup {p} /\ p \notin Pending
           /\ at[p] \in {"load", "store", "count"} /\ at'[p] \notin {"load", "store", "count"} =>
                Pending' = Pending \ {p} /\ p \in Pending
BY DEF Enqueuing, SettingUp, Pending

LEMMA Offsets ==
    ASSUME NEW b \in Int
    PROVE  Offset(b) \in Int /\ Offset(b + 1) = Offset(b) + Size /\ Offset(1) = 0
BY SizeAssumption DEF Offset

LEMMA EpochType ==
    ASSUME QueueTypes
    PROVE  /\ Len(buffers) \in Nat /\ Epoch \in Nat \ {0} /\ Epoch \in DOMAIN buffers
           /\ DOMAIN buffers = 1 .. Len(buffers)
           /\ buffers[Epoch] \in Contents
           /\ Handed \in Nat /\ Handed <= Size /\ Offset(Epoch) \in Nat
           /\ (Enqueuing => Len(buffers) = Epoch + 1) /\ (~Enqueuing => Len(buffers) = Epoch)
<1>1. /\ Len(buffers) \in Nat /\ DOMAIN buffers = 1 .. Len(buffers)
      /\ \A b \in 1 .. Len(buffers) : buffers[b] \in Contents
  BY LenProperties, ElementOfSeq DEF QueueTypes
<1>2. Epoch \in Nat \ {0} /\ Epoch \in 1 .. Len(buffers)
  BY <1>1 DEF QueueTypes, Epoch
<1>3. Handed \in Nat /\ Handed <= Size
  BY SizeAssumption DEF QueueTypes, Handed
<1>4. Offset(Epoch) \in Nat
  <2>1. Epoch - 1 \in Nat
    BY <1>2
  <2>2. QED BY <2>1, SizeAssumption DEF Offset
<1>5. (Enqueuing => Len(buffers) = Epoch + 1) /\ (~Enqueuing => Len(buffers) = Epoch)
  <2>1. CASE Enqueuing
    <3>1. Epoch = Len(buffers) - 1
      BY <2>1 DEF Epoch
    <3>2. QED BY <1>1, <2>1, <3>1
  <2>2. CASE ~Enqueuing
    <3>1. Epoch = Len(buffers)
      BY <2>2 DEF Epoch
    <3>2. QED BY <1>1, <2>2, <3>1
  <2>3. QED BY <2>1, <2>2
<1>6. QED BY <1>1, <1>2, <1>3, <1>4, <1>5

\* The slots are used up exactly when somebody sets up the next Buffer or owes a line.
LEMMA Filled ==
    ASSUME QueueTypes, Counted
    PROVE  /\ Cardinality(Pending) \in Nat
           /\ SettingUp # {} => Pending = {} /\ Handed = Size
           /\ writeIndex < Size => SettingUp = {}
           /\ writeIndex >= Size => SettingUp # {} \/ Pending # {}
<1>1. Cardinality(Pending) \in Nat
  BY FS_CardinalityType DEF QueueTypes
<1>2. buffers[Epoch].count \in 0 .. Size /\ Handed \in Nat /\ Handed <= Size
  BY EpochType DEF Contents
<1>3. ASSUME SettingUp # {} PROVE Pending = {} /\ Handed = Size
  <2>1. buffers[Epoch].count = Size
    BY <1>3 DEF Counted
  <2>2. Cardinality(Pending) = 0 /\ Handed = Size
    BY <1>1, <1>2, <2>1, SizeAssumption DEF Counted
  <2>3. QED BY <2>2, FS_EmptySet DEF QueueTypes
<1>4. ASSUME writeIndex < Size PROVE SettingUp = {}
  BY <1>3, <1>4, SizeAssumption DEF Handed, QueueTypes
<1>5. ASSUME writeIndex >= Size, Pending = {} PROVE SettingUp # {}
  <2>1. Handed = Size /\ Cardinality(Pending) = 0
    BY <1>5, FS_EmptySet, SizeAssumption DEF Handed, QueueTypes
  <2>2. QED BY <1>2, <2>1, SizeAssumption DEF Counted
<1>6. QED BY <1>1, <1>3, <1>4, <1>5

\* The next claim is not one that a slot or a producer has already.
LEMMA MoreClaims ==
    ASSUME claims \in Seq(Line), NEW l \in Line
    PROVE  /\ Append(claims, l) \in Seq(Line) /\ Len(claims) \in Nat
           /\ Len(Append(claims, l)) = Len(claims) + 1
           /\ \A c \in 1 .. Len(claims) : Append(claims, l)[c] = claims[c]
           /\ Append(claims, l)[Len(claims) + 1] = l
BY AppendProperties, LenProperties

-----------------------------------------------------------------------------
(* push of a QueueBuffer *)

\* What a claim does besides claimSlot: the line becomes the one pushed.
Pushed(p, l) ==
    /\ claimSlot(p)
    /\ IF writeIndex < Size THEN claimed(l) ELSE UNCHANGED claims
    /\ line' \in [Producers -> MaybeLine] /\ line'[p] = l
    /\ \A q \in Producers : q # p => line'[q] = line[q]
    /\ UNCHANGED <<popper, reads>>

LEMMA ClaimKeeps ==
    ASSUME QueueInv, claims \in Seq(Line), NEW p \in Producers, NEW l \in Line,
           at[p] \in {"idle", "again"}, Pushed(p, l)
    PROVE  QueueInv' /\ claims' \in Seq(Line) /\ Len(claims) <= Len(claims')
<1>1. QueueTypes /\ Counted /\ Claimed /\ SlotsHold /\ ReadingPlace
  BY DEF QueueInv
<1>2. /\ writeIndex' = writeIndex + 1 /\ writeIndex \in Nat
      /\ index' = [index EXCEPT ![p] = writeIndex]
      /\ UNCHANGED <<buffers, queue, current, readBuffer, readIndex, target, popper, reads>>
  BY <1>1 DEF Pushed, claimSlot, readVars, QueueTypes
<1>3. /\ at' \in [Producers -> QueuePlaces]
      /\ at'[p] = (IF writeIndex < Size THEN "load" ELSE "spin")
      /\ \A q \in Producers : q # p => at'[q] = at[q]
  BY <1>1, Places DEF Pushed, claimSlot, QueuePlaces
<1>4. /\ Enqueuing' = Enqueuing /\ SettingUp' = SettingUp
      /\ Pending' = IF writeIndex < Size THEN Pending \cup {p} ELSE Pending
      /\ p \notin Pending
  BY <1>3, OtherPlaces DEF Pending
<1>5. Epoch' = Epoch /\ First' = First
  BY <1>2, <1>4 DEF Epoch, First
<1>6. IsFiniteSet(Pending') /\ Cardinality(Pending') =
          IF writeIndex < Size THEN Cardinality(Pending) + 1 ELSE Cardinality(Pending)
  BY <1>1, <1>4, FS_AddElement DEF QueueTypes
<1>7. Handed' = IF writeIndex < Size THEN Handed + 1 ELSE Handed
  BY <1>2, SizeAssumption DEF Handed
<1>8. /\ claims' \in Seq(Line) /\ Len(claims) \in Nat
      /\ Len(claims') = IF writeIndex < Size THEN Len(claims) + 1 ELSE Len(claims)
      /\ \A c \in 1 .. Len(claims) : claims'[c] = claims[c]
      /\ writeIndex < Size => claims'[Len(claims) + 1] = l
  BY MoreClaims, LenProperties DEF Pushed, claimed
<1>9. QueueTypes'
  <2>1. index' \in [Producers -> Nat] /\ target' \in [Producers -> Nat]
    BY <1>1, <1>2 DEF QueueTypes
  <2>2. \A q \in Producers : at'[q] # "idle" => line'[q] \in Line
    BY <1>1, <1>3 DEF QueueTypes, Pushed
  <2>3. QED BY <1>1, <1>2, <1>3, <1>5, <1>6, <2>1, <2>2 DEF QueueTypes, Pushed
<1>10. Counted'
  <2>1. Cardinality(Pending) \in Nat /\ buffers[Epoch].count \in Nat /\ Handed \in Nat
        /\ Offset(Epoch) \in Nat
    BY <1>1, Filled, EpochType, SizeAssumption DEF Contents
  <2>2. buffers'[Epoch'].count = buffers[Epoch].count
    BY <1>2, <1>5
  <2>3. Len(claims') = Offset(Epoch') + Handed'
    BY <1>1, <1>5, <1>7, <1>8, <2>1 DEF Counted
  <2>4. buffers'[Epoch'].count + Cardinality(Pending') = Handed'
    <3>1. buffers[Epoch].count + Cardinality(Pending) = Handed
      BY <1>1 DEF Counted
    <3>2. QED BY <1>6, <1>7, <2>1, <2>2, <3>1
  <2>5. QED BY <1>1, <1>2, <1>4, <1>5, <2>3, <2>4 DEF Counted
<1>11. Claimed'
  <2>1. Offset(Epoch) \in Nat /\ Handed \in Nat /\ Len(claims) = Offset(Epoch) + Handed
    BY <1>1, EpochType DEF Counted
  <2>2. ASSUME NEW q \in Pending', q # p
        PROVE  /\ index'[q] \in Slots /\ index'[q] < Handed'
               /\ line'[q] = claims'[Offset(Epoch') + index'[q] + 1]
               /\ at'[q] \in {"store", "count"} => target'[q] = Epoch'
    <3>1. q \in Pending /\ q \in Producers
      BY <1>4, <2>2 DEF Pending
    <3>2. /\ index[q] \in Slots /\ index[q] < Handed
          /\ line[q] = claims[Offset(Epoch) + index[q] + 1]
          /\ at[q] \in {"store", "count"} => target[q] = Epoch
      BY <1>1, <3>1 DEF Claimed
    <3>3. index'[q] = index[q] /\ line'[q] = line[q] /\ target'[q] = target[q] /\ at'[q] = at[q]
      BY <1>1, <1>2, <1>3, <2>2, <3>1 DEF QueueTypes, Pushed
    <3>4. Offset(Epoch) + index[q] + 1 \in 1 .. Len(claims)
      BY <2>1, <3>2, SizeAssumption DEF Slots
    <3>5. QED BY <1>5, <1>7, <1>8, <2>1, <3>2, <3>3, <3>4, SizeAssumption DEF Slots
  <2>3. ASSUME p \in Pending'
        PROVE  /\ index'[p] \in Slots /\ index'[p] < Handed'
               /\ line'[p] = claims'[Offset(Epoch') + index'[p] + 1]
               /\ at'[p] \in {"store", "count"} => target'[p] = Epoch'
    <3>1. writeIndex < Size /\ at'[p] = "load"
      BY <1>3, <1>4, <2>3
    <3>2. index'[p] = writeIndex /\ Handed = writeIndex
      BY <1>1, <1>2, <3>1 DEF QueueTypes, Handed
    <3>3. writeIndex \in Slots
      BY <1>2, <3>1, SizeAssumption DEF Slots
    <3>4. line'[p] = claims'[Offset(Epoch) + Handed + 1]
      BY <1>8, <2>1, <3>1 DEF Pushed
    <3>5. QED BY <1>2, <1>5, <1>7, <3>1, <3>2, <3>3, <3>4
  <2>4. QED BY <2>2, <2>3 DEF Claimed
<1>12. SlotsHold'
  <2>1. ASSUME NEW b \in DOMAIN buffers, NEW i \in Slots, buffers[b].lines[i] # NoLine
        PROVE  /\ Offset(b) + i + 1 <= Len(claims')
               /\ buffers[b].lines[i] = claims'[Offset(b) + i + 1]
    <3>1. Offset(b) + i + 1 <= Len(claims) /\ buffers[b].lines[i] = claims[Offset(b) + i + 1]
      BY <1>1, <2>1 DEF SlotsHold
    <3>2. b \in Nat \ {0} /\ i \in Nat
      BY <1>1, EpochType, SizeAssumption DEF Slots
    <3>3. Offset(b) \in Nat
      <4>1. b - 1 \in Nat
        BY <3>2
      <4>2. QED BY <4>1, SizeAssumption DEF Offset
    <3>4. Offset(b) + i + 1 \in 1 .. Len(claims)
      BY <1>8, <3>1, <3>2, <3>3
    <3>5. QED BY <1>8, <3>1, <3>4
  <2>2. QED BY <1>2, <2>1 DEF SlotsHold, Offset, Slots
<1>13. ReadingPlace'
  BY <1>1, <1>2, <1>5 DEF ReadingPlace, Offset, Slots
<1>14. QED BY <1>8, <1>9, <1>10, <1>11, <1>12, <1>13 DEF QueueInv

\* The claims of the producers other than p stay good.
LEMMA OthersClaim ==
    ASSUME Claimed, NEW p \in Producers,
           \A q \in Producers : q # p => /\ at'[q] = at[q] /\ index'[q] = index[q]
                                         /\ line'[q] = line[q] /\ target'[q] = target[q],
           Epoch' = Epoch, Handed' = Handed, claims' = claims,
           p \in Pending' => /\ p \in Pending /\ index'[p] = index[p] /\ line'[p] = line[p]
                             /\ at'[p] \in {"store", "count"} => target'[p] = Epoch
    PROVE  Claimed'
<1>1. ASSUME NEW q \in Pending'
      PROVE  /\ index'[q] \in Slots /\ index'[q] < Handed'
             /\ line'[q] = claims'[Offset(Epoch') + index'[q] + 1]
             /\ at'[q] \in {"store", "count"} => target'[q] = Epoch'
  <2>1. q \in Pending /\ index'[q] = index[q] /\ line'[q] = line[q]
    BY <1>1 DEF Pending
  <2>2. at'[q] \in {"store", "count"} => target'[q] = Epoch
    BY <1>1, <2>1 DEF Claimed, Pending
  <2>3. /\ index[q] \in Slots /\ index[q] < Handed
        /\ line[q] = claims[Offset(Epoch) + index[q] + 1]
    BY <2>1 DEF Claimed
  <2>4. QED BY <2>1, <2>2, <2>3
<1>2. QED BY <1>1 DEF Claimed

LEMMA SameReading ==
    ASSUME ReadingPlace, Epoch' = Epoch, UNCHANGED <<queue, readVars, popper, reads>>
    PROVE  ReadingPlace'
BY DEF ReadingPlace, First, Offset, Slots, readVars

LEMMA SameSlots ==
    ASSUME SlotsHold, UNCHANGED <<buffers, claims>>
    PROVE  SlotsHold'
BY DEF SlotsHold, Offset, Slots

LEMMA SpinEndsKeeps ==
    ASSUME QueueInv, NEW p \in Producers, spinEnds(p), UNCHANGED <<claims, popper, reads>>
    PROVE  QueueInv'
<1>1. QueueTypes /\ Counted /\ Claimed /\ SlotsHold /\ ReadingPlace
  BY DEF QueueInv
<1>2. /\ at[p] = "spin"
      /\ UNCHANGED <<buffers, queue, current, writeIndex, readVars, line, index, target>>
  BY DEF spinEnds, bufferVars
<1>3. /\ at' \in [Producers -> QueuePlaces] /\ at'[p] = "again"
      /\ \A q \in Producers : q # p => at'[q] = at[q]
  BY <1>1, Places DEF spinEnds, QueuePlaces
<1>4. Enqueuing' = Enqueuing /\ SettingUp' = SettingUp /\ Pending' = Pending
  BY <1>2, <1>3, OtherPlaces
<1>5. Epoch' = Epoch /\ Handed' = Handed
  BY <1>2, <1>4 DEF Epoch, Handed
<1>6. QueueTypes'
  <2>1. \A q \in Producers : at'[q] # "idle" => line'[q] \in Line
    BY <1>1, <1>2, <1>3 DEF QueueTypes
  <2>2. QED BY <1>1, <1>2, <1>3, <1>4, <1>5, <2>1 DEF QueueTypes
<1>7. Counted'
  BY <1>1, <1>2, <1>4, <1>5 DEF Counted, Offset, NewBuffer, Slots
<1>8. Claimed'
  BY <1>1, <1>2, <1>3, <1>4, <1>5, OthersClaim DEF Pending
<1>9. QED BY <1>1, <1>2, <1>5, <1>6, <1>7, <1>8, SameReading, SameSlots DEF QueueInv

LEMMA LoadKeeps ==
    ASSUME QueueInv, NEW p \in Producers, loadCurrent(p), UNCHANGED <<claims, popper, reads>>
    PROVE  QueueInv'
<1>1. QueueTypes /\ Counted /\ Claimed /\ SlotsHold /\ ReadingPlace
  BY DEF QueueInv
<1>2. /\ at[p] = "load" /\ target' = [target EXCEPT ![p] = current]
      /\ UNCHANGED <<buffers, queue, current, writeIndex, readVars, line, index>>
  BY DEF loadCurrent, bufferVars
<1>3. /\ at' \in [Producers -> QueuePlaces] /\ at'[p] = "store"
      /\ \A q \in Producers : q # p => at'[q] = at[q]
  BY <1>1, Places DEF loadCurrent, QueuePlaces
<1>4. Enqueuing' = Enqueuing /\ SettingUp' = SettingUp /\ Pending' = Pending /\ p \in Pending
  BY <1>2, <1>3, OtherPlaces DEF Pending
<1>5. Epoch' = Epoch /\ Handed' = Handed
  BY <1>2, <1>4 DEF Epoch, Handed
<1>6. current = Epoch /\ current \in Nat
  <2>1. SettingUp = {}
    BY <1>1, <1>4, Filled
  <2>2. ~Enqueuing
    BY <2>1 DEF SettingUp, Enqueuing
  <2>3. QED BY <1>1, <2>2, EpochType DEF QueueTypes
<1>7. QueueTypes'
  <2>1. \A q \in Producers : at'[q] # "idle" => line'[q] \in Line
    BY <1>1, <1>2, <1>3 DEF QueueTypes
  <2>2. target' \in [Producers -> Nat]
    BY <1>1, <1>2, <1>6 DEF QueueTypes
  <2>3. QED BY <1>1, <1>2, <1>3, <1>4, <1>5, <2>1, <2>2 DEF QueueTypes
<1>8. Counted'
  BY <1>1, <1>2, <1>4, <1>5 DEF Counted, Offset, NewBuffer, Slots
<1>9. Claimed'
  <2>1. target'[p] = Epoch /\ \A q \in Producers : q # p => target'[q] = target[q]
    BY <1>1, <1>2, <1>6 DEF QueueTypes
  <2>2. QED BY <1>1, <1>2, <1>3, <1>4, <1>5, <2>1, OthersClaim
<1>10. QED BY <1>1, <1>2, <1>5, <1>7, <1>8, <1>9, SameReading, SameSlots DEF QueueInv

LEMMA StoreKeeps ==
    ASSUME QueueInv, claims \in Seq(Line), NEW p \in Producers, storeLine(p),
           UNCHANGED <<claims, popper, reads>>
    PROVE  QueueInv'
<1>1. QueueTypes /\ Counted /\ Claimed /\ SlotsHold /\ ReadingPlace
  BY DEF QueueInv
<1>2. at[p] = "store" /\ UNCHANGED <<queue, current, writeIndex, readVars, line, index, target>>
  BY DEF storeLine
<1>3. p \in Pending /\ target[p] = Epoch /\ index[p] \in Slots /\ index[p] < Handed
      /\ line[p] = claims[Offset(Epoch) + index[p] + 1]
  BY <1>1, <1>2 DEF Claimed, Pending
<1>4. CASE target[p] \in freed
  <2>1. UNCHANGED <<at, buffers>>
    BY <1>4 DEF storeLine
  <2>2. Enqueuing' = Enqueuing /\ SettingUp' = SettingUp /\ Pending' = Pending
    BY <2>1 DEF Enqueuing, SettingUp, Pending
  <2>3. Epoch' = Epoch /\ Handed' = Handed
    BY <1>2, <2>1, <2>2 DEF Epoch, Handed
  <2>4. QueueTypes' /\ Counted'
    BY <1>1, <1>2, <2>1, <2>2, <2>3 DEF QueueTypes, Counted, Offset, NewBuffer, Slots
  <2>5. Claimed'
    BY <1>1, <1>2, <1>3, <2>1, <2>2, <2>3, OthersClaim
  <2>6. QED BY <1>1, <1>2, <2>1, <2>3, <2>4, <2>5, SameReading, SameSlots DEF QueueInv
<1>5. CASE target[p] \notin freed
  <2>1. Goto(p, "count") /\ buffers' = [buffers EXCEPT ![Epoch].lines[index[p]] = line[p]]
    BY <1>3, <1>5 DEF storeLine
  <2>2. /\ at' \in [Producers -> QueuePlaces] /\ at'[p] = "count"
        /\ \A q \in Producers : q # p => at'[q] = at[q]
    BY <1>1, <2>1, Places DEF QueuePlaces
  <2>3. Enqueuing' = Enqueuing /\ SettingUp' = SettingUp /\ Pending' = Pending
    BY <1>2, <2>2, OtherPlaces
  <2>4. line[p] \in Line
    BY <1>1, <1>2 DEF QueueTypes
  <2>5. /\ buffers' \in Seq(Contents) /\ Len(buffers') = Len(buffers)
        /\ DOMAIN buffers' = DOMAIN buffers
        /\ \A b \in DOMAIN buffers : b # Epoch => buffers'[b] = buffers[b]
        /\ buffers'[Epoch].count = buffers[Epoch].count
        /\ buffers'[Epoch].lines = [buffers[Epoch].lines EXCEPT ![index[p]] = line[p]]
    <3> DEFINE new == [buffers[Epoch] EXCEPT !.lines[index[p]] = line[p]]
    <3>1. buffers[Epoch] \in Contents /\ Epoch \in 1 .. Len(buffers)
      BY <1>1, EpochType
    <3>2. /\ new \in Contents /\ new.count = buffers[Epoch].count
          /\ new.lines = [buffers[Epoch].lines EXCEPT ![index[p]] = line[p]]
      BY <1>3, <2>4, <3>1 DEF Contents, MaybeLine
    <3>3. buffers' = [buffers EXCEPT ![Epoch] = new]
      BY <2>1
    <3> HIDE DEF new
    <3>4. /\ buffers' \in Seq(Contents) /\ Len(buffers') = Len(buffers)
          /\ \A b \in 1 .. Len(buffers) : buffers'[b] = IF b = Epoch THEN new ELSE buffers[b]
      BY <1>1, <3>1, <3>2, <3>3, ExceptSeq DEF QueueTypes
    <3>5. QED BY <1>1, <3>1, <3>2, <3>4, EpochType, LenProperties
  <2>6. Epoch' = Epoch /\ Handed' = Handed
    BY <1>2, <2>3, <2>5 DEF Epoch, Handed
  <2>7. QueueTypes'
    <3>1. \A q \in Producers : at'[q] # "idle" => line'[q] \in Line
      BY <1>1, <1>2, <2>2 DEF QueueTypes
    <3>2. QED BY <1>1, <1>2, <2>2, <2>3, <2>5, <2>6, <3>1 DEF QueueTypes
  <2>8. Counted'
    <3>1. SettingUp = {}
      BY <1>1, <1>3, Filled
    <3>2. ~Enqueuing
      BY <3>1 DEF SettingUp, Enqueuing
    <3>3. QED BY <1>1, <2>3, <2>5, <2>6, <3>2 DEF Counted, Offset
  <2>9. Claimed'
    BY <1>1, <1>2, <1>3, <2>2, <2>3, <2>6, OthersClaim
  <2>10. SlotsHold'
    <3>1. ASSUME NEW b \in DOMAIN buffers', NEW i \in Slots, buffers'[b].lines[i] # NoLine
          PROVE  /\ Offset(b) + i + 1 <= Len(claims)
                 /\ buffers'[b].lines[i] = claims[Offset(b) + i + 1]
      <4>1. CASE b = Epoch /\ i = index[p]
        <5>1. buffers[Epoch].lines \in [Slots -> MaybeLine]
          BY <1>1, EpochType DEF Contents
        <5>2. buffers'[b].lines[i] = line[p]
          BY <1>3, <2>5, <4>1, <5>1
        <5>3. Offset(b) + i + 1 <= Len(claims)
          <6>1. Len(claims) = Offset(Epoch) + Handed /\ Handed \in Nat /\ Offset(Epoch) \in Nat
            BY <1>1, EpochType DEF Counted
          <6>2. i \in Int
            BY <1>3, <4>1, SizeAssumption DEF Slots
          <6>3. QED BY <1>3, <4>1, <6>1, <6>2
        <5>4. QED BY <1>3, <4>1, <5>2, <5>3
      <4>2. CASE b # Epoch \/ i # index[p]
        <5>1. buffers[Epoch].lines \in [Slots -> MaybeLine]
          BY <1>1, EpochType DEF Contents
        <5>2. b \in DOMAIN buffers /\ buffers'[b].lines[i] = buffers[b].lines[i]
          BY <1>3, <2>5, <4>2, <5>1
        <5>3. QED BY <1>1, <3>1, <5>2 DEF SlotsHold
      <4>3. QED BY <4>1, <4>2
    <3>2. QED BY <3>1 DEF SlotsHold, Offset, Slots
  <2>11. QED BY <1>1, <1>2, <2>6, <2>7, <2>8, <2>9, <2>10, SameReading DEF QueueInv
<1>6. QED BY <1>4, <1>5

LEMMA CountKeeps ==
    ASSUME QueueInv, claims \in Seq(Line), NEW p \in Producers, countLine(p),
           UNCHANGED <<claims, popper, reads>>
    PROVE  QueueInv'
<1>1. QueueTypes /\ Counted /\ Claimed /\ SlotsHold /\ ReadingPlace
  BY DEF QueueInv
<1>2. at[p] = "count" /\ UNCHANGED <<queue, current, writeIndex, readVars>>
  BY DEF countLine
<1>3. p \in Pending /\ target[p] = Epoch
  BY <1>1, <1>2 DEF Claimed, Pending
<1>4. CASE target[p] \in freed
  <2>1. UNCHANGED <<at, buffers, line, index, target>>
    BY <1>4 DEF countLine, producerVars
  <2>2. Enqueuing' = Enqueuing /\ SettingUp' = SettingUp /\ Pending' = Pending
    BY <2>1 DEF Enqueuing, SettingUp, Pending
  <2>3. Epoch' = Epoch /\ Handed' = Handed
    BY <1>2, <2>1, <2>2 DEF Epoch, Handed
  <2>4. QueueTypes' /\ Counted'
    BY <1>1, <1>2, <2>1, <2>2, <2>3 DEF QueueTypes, Counted, Offset, NewBuffer, Slots
  <2>5. Claimed'
    BY <1>1, <1>2, <1>3, <2>1, <2>2, <2>3, OthersClaim
  <2>6. QED BY <1>1, <1>2, <2>1, <2>3, <2>4, <2>5, SameReading, SameSlots DEF QueueInv
<1>5. CASE target[p] \notin freed
  <2> DEFINE count == buffers[Epoch].count + 1
  <2>1. SettingUp = {} /\ ~Enqueuing /\ Cardinality(Pending) \in Nat \ {0}
        /\ buffers[Epoch].count + Cardinality(Pending) = Handed /\ buffers[Epoch].count # Size
    <3>1. SettingUp = {} /\ Cardinality(Pending) \in Nat
      BY <1>1, <1>3, Filled
    <3>2. Cardinality(Pending) # 0
      BY <1>1, <1>3, FS_EmptySet DEF QueueTypes
    <3>3. QED BY <1>1, <3>1, <3>2 DEF Counted, SettingUp, Enqueuing
  <2>2. buffers[Epoch] \in Contents /\ buffers[Epoch].count \in Nat /\ Epoch \in 1 .. Len(buffers)
        /\ count \in 0 .. Size /\ Handed \in Nat /\ Handed <= Size
    BY <1>1, <2>1, EpochType, SizeAssumption DEF Contents
  <2> HIDE DEF count
  <2>3. /\ buffers' \in Seq(Contents) /\ Len(buffers') = Len(buffers)
        /\ DOMAIN buffers' = DOMAIN buffers
        /\ \A b \in DOMAIN buffers : buffers'[b].lines = buffers[b].lines
        /\ \A b \in DOMAIN buffers : b # Epoch => buffers'[b] = buffers[b]
        /\ buffers'[Epoch].count = count
    <3> DEFINE new == [buffers[Epoch] EXCEPT !.count = @ + 1]
    <3>1. new \in Contents /\ new.count = count /\ new.lines = buffers[Epoch].lines
      BY <2>2 DEF Contents, count
    <3>2. buffers' = [buffers EXCEPT ![Epoch] = new]
      BY <1>3, <1>5 DEF countLine
    <3> HIDE DEF new
    <3>3. /\ buffers' \in Seq(Contents) /\ Len(buffers') = Len(buffers)
          /\ \A b \in 1 .. Len(buffers) : buffers'[b] = IF b = Epoch THEN new ELSE buffers[b]
      BY <1>1, <2>2, <3>1, <3>2, ExceptSeq DEF QueueTypes
    <3>4. QED BY <1>1, <2>2, <3>1, <3>3, EpochType, LenProperties
  <2>4. /\ at' \in [Producers -> QueuePlaces]
        /\ at'[p] = IF count = Size THEN "setup" ELSE "idle"
        /\ \A q \in Producers : q # p => at'[q] = at[q]
    <3>1. Goto(p, IF count = Size THEN "setup" ELSE "idle")
      BY <1>3, <1>5, <2>3 DEF countLine, isLast, Return
    <3>2. QED BY <1>1, <3>1, Places DEF QueuePlaces
  <2>5. /\ \A q \in Producers : q # p => /\ line'[q] = line[q] /\ index'[q] = index[q]
                                         /\ target'[q] = target[q]
        /\ at'[p] # "idle" => line'[p] = line[p]
        /\ line' \in [Producers -> MaybeLine] /\ index' \in [Producers -> Nat]
        /\ target' \in [Producers -> Nat]
    <3>1. CASE count = Size
      <4>1. UNCHANGED <<line, index, target>>
        BY <1>3, <1>5, <2>3, <3>1 DEF countLine, isLast
      <4>2. QED BY <1>1, <4>1 DEF QueueTypes
    <3>2. CASE count # Size
      <4>1. Return(p)
        BY <1>3, <1>5, <2>3, <3>2 DEF countLine, isLast
      <4>2. at'[p] = "idle"
        BY <2>4, <3>2
      <4>3. QED BY <1>1, <4>1, <4>2 DEF Return, QueueTypes, MaybeLine, NullPtr
    <3>3. QED BY <3>1, <3>2
  <2>6. /\ Enqueuing' = Enqueuing /\ Pending' = Pending \ {p}
        /\ SettingUp' = IF count = Size THEN {p} ELSE {}
    <3>1. Enqueuing' = Enqueuing
      BY <1>2, <2>4, OtherPlaces
    <3>2. Pending' = Pending \ {p}
      BY <1>2, <2>4, OtherPlaces
    <3>3. SettingUp' = IF count = Size THEN {p} ELSE {}
      BY <2>1, <2>4 DEF SettingUp
    <3>4. QED BY <3>1, <3>2, <3>3
  <2>7. Epoch' = Epoch /\ Handed' = Handed
    BY <1>2, <2>3, <2>6 DEF Epoch, Handed
  <2>8. IsFiniteSet(Pending') /\ Cardinality(Pending') = Cardinality(Pending) - 1
    BY <1>1, <1>3, <2>6, FS_RemoveElement DEF QueueTypes
  <2>9. QueueTypes'
    <3>1. \A q \in Producers : at'[q] # "idle" => line'[q] \in Line
      BY <1>1, <1>2, <2>4, <2>5 DEF QueueTypes
    <3>2. QED BY <1>1, <1>2, <2>3, <2>4, <2>5, <2>7, <2>8, <3>1 DEF QueueTypes
  <2>10. Counted'
    <3>1. count + Cardinality(Pending') = Handed
      BY <2>1, <2>2, <2>8, SMTT(30) DEF count
    <3>2. Len(claims') = Offset(Epoch') + Handed'
      BY <1>1, <2>7 DEF Counted
    <3>3. \A q, r \in SettingUp' : q = r
      BY <2>6
    <3>4. (SettingUp' # {}) <=> (count = Size)
      BY <2>6
    <3>5. ~Enqueuing'
      BY <2>1, <2>6
    <3>6. QED BY <2>3, <2>7, <3>1, <3>2, <3>3, <3>4, <3>5 DEF Counted
  <2>11. Claimed'
    BY <1>1, <2>4, <2>5, <2>6, <2>7, OthersClaim
  <2>12. SlotsHold'
    BY <1>1, <2>3 DEF SlotsHold, Offset, Slots
  <2>13. QED BY <1>1, <1>2, <2>7, <2>9, <2>10, <2>11, <2>12, SameReading DEF QueueInv
<1>6. QED BY <1>4, <1>5

LEMMA StoreCurrentKeeps ==
    ASSUME QueueInv, NEW p \in Producers, storeCurrent(p), UNCHANGED <<claims, popper, reads>>
    PROVE  QueueInv'
<1>1. QueueTypes /\ Counted /\ Claimed /\ SlotsHold /\ ReadingPlace
  BY DEF QueueInv
<1>2. /\ at[p] = "setup" /\ buffers' = Append(buffers, NewBuffer) /\ current' = Len(buffers')
      /\ UNCHANGED <<queue, writeIndex, readVars, line, index, target>>
  BY DEF storeCurrent
<1>3. /\ at' \in [Producers -> QueuePlaces] /\ at'[p] = "enqueue"
      /\ \A q \in Producers : q # p => at'[q] = at[q]
  BY <1>1, Places DEF storeCurrent, QueuePlaces
<1>4. SettingUp = {p} /\ ~Enqueuing
  BY <1>1, <1>2 DEF Counted, SettingUp, Enqueuing
<1>5. Enqueuing' /\ SettingUp' = SettingUp /\ Pending' = Pending
  <2>1. Pending' = Pending
    BY <1>2, <1>3, OtherPlaces
  <2>2. SettingUp' = SettingUp
    BY <1>2, <1>3, <1>4 DEF SettingUp
  <2>3. QED BY <1>3, <2>1, <2>2 DEF Enqueuing
<1>6. NewBuffer \in Contents /\ \A i \in Slots : NewBuffer.lines[i] = NoLine
  BY SizeAssumption DEF NewBuffer, Contents, MaybeLine
<1>7. /\ buffers' \in Seq(Contents) /\ Len(buffers) \in Nat /\ Len(buffers') = Len(buffers) + 1
      /\ \A b \in 1 .. Len(buffers) : buffers'[b] = buffers[b]
      /\ buffers'[Len(buffers) + 1] = NewBuffer
  BY <1>1, <1>2, <1>6, AppendProperties, LenProperties DEF QueueTypes
<1>8. Epoch' = Epoch /\ Epoch = Len(buffers) /\ Handed' = Handed /\ Epoch \in Nat \ {0}
  <2>1. Epoch' = Len(buffers') - 1
    BY <1>5 DEF Epoch
  <2>2. Epoch = Len(buffers)
    BY <1>4 DEF Epoch
  <2>3. QED BY <1>1, <1>2, <1>7, <2>1, <2>2, EpochType DEF Handed
<1>9. QueueTypes'
  <2>1. \A q \in Producers : at'[q] # "idle" => line'[q] \in Line
    BY <1>1, <1>2, <1>3 DEF QueueTypes
  <2>2. QED BY <1>1, <1>2, <1>3, <1>5, <1>7, <1>8, <2>1 DEF QueueTypes
<1>10. Counted'
  <2>1. buffers'[Epoch'].count = buffers[Epoch].count
    BY <1>7, <1>8
  <2>2. buffers'[Len(buffers')] = NewBuffer'
    BY <1>7 DEF NewBuffer, Slots
  <2>3. QED BY <1>1, <1>5, <1>8, <2>1, <2>2 DEF Counted, Offset
<1>11. Claimed'
  BY <1>1, <1>2, <1>3, <1>5, <1>8, OthersClaim DEF Pending
<1>12. SlotsHold'
  <2>1. ASSUME NEW b \in 1 .. Len(buffers'), NEW i \in Slots, buffers'[b].lines[i] # NoLine
        PROVE  b \in 1 .. Len(buffers) /\ buffers'[b] = buffers[b]
    BY <1>6, <1>7, <2>1
  <2>2. DOMAIN buffers' = 1 .. Len(buffers') /\ DOMAIN buffers = 1 .. Len(buffers)
    BY <1>1, <1>7, LenProperties DEF QueueTypes
  <2>3. QED BY <1>1, <1>2, <2>1, <2>2 DEF SlotsHold, Offset, Slots
<1>13. QED BY <1>1, <1>2, <1>8, <1>9, <1>10, <1>11, <1>12, SameReading DEF QueueInv

LEMMA PushBufferKeeps ==
    ASSUME QueueInv, NEW p \in Producers, pushBuffer(p), UNCHANGED <<claims, popper, reads>>
    PROVE  QueueInv'
<1>1. QueueTypes /\ Counted /\ Claimed /\ SlotsHold /\ ReadingPlace
  BY DEF QueueInv
<1>2. /\ at[p] = "enqueue" /\ queue' = Append(queue, current) /\ writeIndex' = 0
      /\ Return(p) /\ UNCHANGED <<buffers, current, readVars>>
  BY DEF pushBuffer
<1>3. /\ at' \in [Producers -> QueuePlaces] /\ at'[p] = "idle"
      /\ \A q \in Producers : q # p => at'[q] = at[q]
  BY <1>1, <1>2, Places DEF Return, QueuePlaces
<1>4. SettingUp = {p} /\ Enqueuing /\ Pending = {} /\ Handed = Size
  BY <1>1, <1>2, Filled DEF Counted, SettingUp, Enqueuing
<1>5. ~Enqueuing' /\ SettingUp' = {} /\ Pending' = {}
  <2>1. Pending' = Pending
    BY <1>2, <1>3, OtherPlaces
  <2>2. SettingUp' = {}
    BY <1>3, <1>4 DEF SettingUp
  <2>3. ~Enqueuing'
    BY <2>2 DEF SettingUp, Enqueuing
  <2>4. QED BY <1>4, <2>1, <2>2, <2>3
<1>6. /\ Epoch \in Nat \ {0} /\ Epoch' = Epoch + 1 /\ Epoch' = Len(buffers) /\ Handed' = 0
      /\ Offset(Epoch') = Offset(Epoch) + Size
  <2>1. Epoch \in Nat \ {0} /\ Len(buffers) = Epoch + 1
    BY <1>1, <1>4, EpochType
  <2>2. Epoch' = Len(buffers)
    BY <1>2, <1>5 DEF Epoch
  <2>3. Handed' = 0
    BY <1>2, SizeAssumption DEF Handed
  <2>4. QED BY <2>1, <2>2, <2>3, Offsets
<1>7. /\ \A q \in Producers : q # p => line'[q] = line[q]
      /\ line' \in [Producers -> MaybeLine] /\ index' \in [Producers -> Nat]
      /\ target' \in [Producers -> Nat]
  BY <1>1, <1>2 DEF Return, QueueTypes, MaybeLine, NullPtr
<1>8. QueueTypes'
  <2>1. \A q \in Producers : at'[q] # "idle" => line'[q] \in Line
    BY <1>1, <1>3, <1>7 DEF QueueTypes
  <2>2. IsFiniteSet(Pending')
    BY <1>5, FS_EmptySet
  <2>3. Epoch' >= 1 /\ writeIndex' \in Nat
    BY <1>2, <1>6
  <2>4. QED BY <1>1, <1>2, <1>3, <1>7, <2>1, <2>2, <2>3 DEF QueueTypes
<1>9. Counted'
  <2>1. Len(claims') = Offset(Epoch') + Handed'
    <3>1. Len(claims) = Offset(Epoch) + Size
      BY <1>1, <1>4 DEF Counted
    <3>2. Offset(Epoch) + Size \in Int
      BY <1>1, EpochType, SizeAssumption
    <3>3. QED BY <1>6, <3>1, <3>2
  <2>2. buffers'[Epoch'].count = 0
    <3>1. buffers[Len(buffers)] = NewBuffer
      BY <1>1, <1>4 DEF Counted
    <3>2. QED BY <1>2, <1>6, <3>1 DEF NewBuffer
  <2>3. Cardinality(Pending') = 0
    BY <1>5, FS_EmptySet
  <2>4. SettingUp' # {} <=> buffers'[Epoch'].count = Size
    BY <1>5, <2>2, SizeAssumption
  <2>5. buffers'[Epoch'].count + Cardinality(Pending') = Handed'
    BY <1>6, <2>2, <2>3
  <2>6. QED BY <1>5, <2>1, <2>4, <2>5 DEF Counted
<1>10. Claimed'
  BY <1>5 DEF Claimed
<1>11. SlotsHold'
  BY <1>1, <1>2, SameSlots
<1>12. ReadingPlace'
  <2>1. current \in Nat /\ current = Epoch + 1 /\ queue \in Seq(Nat) /\ Len(queue) <= Epoch
    BY <1>1, <1>2, <1>6 DEF QueueTypes, ReadingPlace
  <2>2. /\ queue' \in Seq(Nat) /\ Len(queue) \in Nat /\ Len(queue') = Len(queue) + 1
        /\ DOMAIN queue' = 1 .. Len(queue) + 1 /\ DOMAIN queue = 1 .. Len(queue)
        /\ queue' # <<>>
        /\ \A i \in 1 .. Len(queue) : queue'[i] = queue[i]
        /\ queue'[Len(queue) + 1] = current
    BY <1>2, <2>1, AppendProperties, LenProperties, EmptySeq
  <2>3. First' = First /\ First \in Int
    BY <1>6, <2>1, <2>2 DEF First
  <2>4. \A i \in DOMAIN queue' : queue'[i] = First' - 1 + i
    <3>1. ASSUME NEW i \in 1 .. Len(queue) + 1 PROVE queue'[i] = First - 1 + i
      <4>1. CASE i \in 1 .. Len(queue)
        BY <1>1, <2>2, <4>1 DEF ReadingPlace
      <4>2. CASE i = Len(queue) + 1
        BY <1>6, <2>1, <2>2, <4>2 DEF First
      <4>3. QED BY <2>2, <3>1, <4>1, <4>2
    <3>2. QED BY <2>2, <2>3, <3>1
  <2>5. Len(queue') <= Epoch'
    BY <1>6, <2>1, <2>2
  <2>6. QED BY <1>1, <1>2, <2>2, <2>3, <2>4, <2>5 DEF ReadingPlace, Offset, Slots, readVars
<1>13. QED BY <1>8, <1>9, <1>10, <1>11, <1>12 DEF QueueInv

-----------------------------------------------------------------------------
(* try_pop of a QueueBuffer *)

\* The popping thread does not touch what the producers rely on.
LEMMA PopperLeaves ==
    ASSUME QueueTypes, Counted, Claimed, SlotsHold,
           UNCHANGED <<bufferVars, producerVars, claims>>
    PROVE  QueueTypes' /\ Counted' /\ Claimed' /\ SlotsHold' /\ Epoch' = Epoch
<1>1. UNCHANGED <<buffers, current, writeIndex, at, line, index, target, claims>>
  BY DEF bufferVars, producerVars
<1>2. Enqueuing' = Enqueuing /\ SettingUp' = SettingUp /\ Pending' = Pending
  BY <1>1 DEF Enqueuing, SettingUp, Pending
<1>3. Epoch' = Epoch /\ Handed' = Handed
  BY <1>1, <1>2 DEF Epoch, Handed
<1>4. QED
  BY <1>1, <1>2, <1>3
  DEF QueueTypes, Counted, Claimed, SlotsHold, Offset, NewBuffer, Slots

\* The queue starts with the Buffer that is read.
LEMMA QueueStarts ==
    ASSUME QueueTypes, ReadingPlace
    PROVE  /\ Len(queue) \in Nat /\ Epoch \in Nat \ {0} /\ First \in Nat \ {0} /\ readIndex \in Nat
           /\ queue # <<>> => Head(queue) = First /\ First \in DOMAIN buffers
           /\ readBuffer # Garbage =>
                Reading = IF queue = <<>> THEN NullPtr ELSE First
<1>1. Len(queue) \in Nat /\ DOMAIN queue = 1 .. Len(queue) /\ (queue # <<>> => Len(queue) > 0)
  BY LenProperties, EmptySeq DEF ReadingPlace
<1>2. Epoch \in Nat \ {0} /\ DOMAIN buffers = 1 .. Len(buffers) /\ Epoch \in DOMAIN buffers
      /\ Len(buffers) \in Nat
  BY EpochType
<1>3. First \in Nat \ {0} /\ readIndex \in Nat
  <2>1. Len(queue) <= Epoch /\ readIndex \in Slots
    BY DEF ReadingPlace
  <2>2. First \in Nat \ {0}
    <3>1. Len(queue) \in Nat /\ Epoch \in Nat
      BY <1>1, <1>2
    <3>2. QED BY <2>1, <3>1 DEF First
  <2>3. readIndex \in Nat
    BY <2>1, SizeAssumption DEF Slots
  <2>4. QED BY <2>2, <2>3
<1>4. ASSUME queue # <<>> PROVE Head(queue) = First /\ First \in DOMAIN buffers
  <2>1. Head(queue) = queue[1]
    BY <1>4, HeadTailProperties DEF ReadingPlace
  <2>2. queue[1] = First - 1 + 1
    BY <1>1, <1>4 DEF ReadingPlace
  <2>3. First <= Epoch
    BY <1>1, <1>2, <1>4 DEF First
  <2>4. QED BY <1>2, <1>3, <2>1, <2>2, <2>3
<1>5. readBuffer # Garbage => Reading = IF queue = <<>> THEN NullPtr ELSE First
  BY <1>4 DEF ReadingPlace, Reading, get_next_read_buffer
<1>6. QED BY <1>1, <1>2, <1>3, <1>4, <1>5

LEMMA PopLineKeeps ==
    ASSUME QueueInv, popper = "pop", claims \in Seq(Line), popLine,
           popper' = (IF IsLastSlot THEN "delete" ELSE "write"), reads' = reads + 1,
           UNCHANGED claims
    PROVE  QueueInv' /\ reads + 1 <= Len(claims) /\ NextLine = claims[reads + 1]
<1>1. QueueTypes /\ Counted /\ Claimed /\ SlotsHold /\ ReadingPlace
  BY DEF QueueInv
<1>2. /\ Reading # Garbage /\ NextLine # NoLine /\ UNCHANGED <<bufferVars, producerVars, queue>>
      /\ IF IsLastSlot THEN readIndex' = 0 /\ readBuffer' = NullPtr
                       ELSE readIndex' = readIndex + 1 /\ readBuffer' = Reading
  BY DEF popLine, bufferVars, afterLast
<1>3. readBuffer # Garbage
  BY <1>2 DEF Reading, Garbage, NullPtr
<1>4. /\ queue # <<>> /\ Reading = First /\ First \in DOMAIN buffers /\ First \in Nat \ {0}
      /\ readIndex \in Nat /\ Epoch \in Nat
  BY <1>1, <1>2, <1>3, QueueStarts DEF NextLine, NullPtr
<1>5. QueueTypes' /\ Counted' /\ Claimed' /\ SlotsHold' /\ Epoch' = Epoch
  BY <1>1, <1>2, PopperLeaves
<1>6. reads = Offset(First) + readIndex /\ Offset(First) \in Int
  <2>1. Offset(First) \in Int
    BY <1>4, Offsets
  <2>2. reads = Offset(First) + readIndex + 0
    BY <1>1 DEF ReadingPlace
  <2>3. QED BY <1>4, <2>1, <2>2
<1>7. Offset(First) + readIndex + 1 <= Len(claims) /\ NextLine = claims[Offset(First) + readIndex + 1]
  <2>1. readIndex \in Slots /\ NextLine = buffers[First].lines[readIndex]
    BY <1>1, <1>4 DEF ReadingPlace, NextLine, NullPtr
  <2>2. QED BY <1>1, <1>2, <1>4, <2>1 DEF SlotsHold
<1>8. ReadingPlace'
  <2>1. First' = First /\ Offset(First') = Offset(First)
    BY <1>2, <1>5 DEF First
  <2>2. CASE IsLastSlot
    <3>1. readIndex + 1 = Size /\ readIndex' = 0 /\ readBuffer' = NullPtr /\ popper' = "delete"
      BY <1>2, <2>2 DEF IsLastSlot
    <3>2. readIndex' \in Slots'
      BY <3>1, SizeAssumption DEF Slots
    <3>3. reads' = Offset(First') + readIndex' + Size
      BY <1>4, <1>6, <2>1, <3>1, SizeAssumption
    <3>4. QED BY <1>1, <1>2, <1>4, <1>5, <2>1, <3>1, <3>2, <3>3 DEF ReadingPlace, Offset, NullPtr
  <2>3. CASE ~IsLastSlot
    <3>1. readIndex + 1 # Size /\ readIndex' = readIndex + 1 /\ readBuffer' = First /\ popper' = "write"
      BY <1>2, <1>4, <2>3 DEF IsLastSlot
    <3>2. readIndex' \in Slots'
      BY <1>1, <3>1, SizeAssumption DEF Slots, ReadingPlace
    <3>3. reads' = Offset(First') + readIndex' + 0
      BY <1>4, <1>6, <2>1, <3>1
    <3>4. QED BY <1>1, <1>2, <1>4, <1>5, <2>1, <3>1, <3>2, <3>3 DEF ReadingPlace, Offset, NullPtr
  <2>4. QED BY <2>2, <2>3
<1>9. QED BY <1>5, <1>6, <1>7, <1>8 DEF QueueInv

LEMMA PopNothingKeeps ==
    ASSUME QueueInv, popper = "pop", popNothing, popper' # "delete", UNCHANGED <<claims, reads>>
    PROVE  QueueInv'
<1>1. QueueTypes /\ Counted /\ Claimed /\ SlotsHold /\ ReadingPlace
  BY DEF QueueInv
<1>2. /\ Reading # Garbage /\ readBuffer' = Reading
      /\ UNCHANGED <<bufferVars, producerVars, queue, readIndex>>
  BY DEF popNothing, bufferVars
<1>3. QueueTypes' /\ Counted' /\ Claimed' /\ SlotsHold' /\ Epoch' = Epoch
  BY <1>1, <1>2, PopperLeaves
<1>4. readBuffer # Garbage
  BY <1>2 DEF Reading, Garbage, NullPtr
<1>5. readBuffer' \notin {NullPtr, Garbage} => queue' # <<>> /\ readBuffer' = First'
  <2>1. First' = First
    BY <1>2, <1>3 DEF First
  <2>2. QED BY <1>1, <1>2, <1>4, <2>1, QueueStarts
<1>6. ReadingPlace'
  BY <1>1, <1>2, <1>3, <1>5 DEF ReadingPlace, First, Offset, Slots, NullPtr, Garbage
<1>7. QED BY <1>3, <1>6 DEF QueueInv

LEMMA DeleteKeeps ==
    ASSUME QueueInv, popper = "delete", popBuffer, popper' = "write", UNCHANGED <<claims, reads>>
    PROVE  QueueInv'
<1>1. QueueTypes /\ Counted /\ Claimed /\ SlotsHold /\ ReadingPlace
  BY DEF QueueInv
<1>2. queue' = Tail(queue) /\ UNCHANGED <<buffers, current, writeIndex, readVars, producerVars>>
  BY DEF popBuffer
<1>3. Enqueuing' = Enqueuing /\ SettingUp' = SettingUp /\ Pending' = Pending
  BY <1>2 DEF Enqueuing, SettingUp, Pending, producerVars
<1>4. Epoch' = Epoch /\ Handed' = Handed
  BY <1>2, <1>3 DEF Epoch, Handed
<1>5. QueueTypes' /\ Counted' /\ Claimed' /\ SlotsHold'
  BY <1>1, <1>2, <1>3, <1>4
  DEF QueueTypes, Counted, Claimed, SlotsHold, Offset, NewBuffer, Slots, producerVars
<1>6. queue # <<>> /\ readIndex = 0 /\ readBuffer = NullPtr /\ reads = Offset(First) + 0 + Size
  BY <1>1 DEF ReadingPlace
<1>7. /\ Len(queue) \in Nat \ {0} /\ queue' \in Seq(Nat) /\ Len(queue') = Len(queue) - 1
      /\ DOMAIN queue' = 1 .. Len(queue) - 1 /\ DOMAIN queue = 1 .. Len(queue)
      /\ \A i \in 1 .. Len(queue) - 1 : queue'[i] = queue[i + 1]
  BY <1>1, <1>2, <1>6, HeadTailProperties, LenProperties, EmptySeq DEF ReadingPlace
<1>8. First' = First + 1 /\ First \in Nat /\ Epoch \in Nat
  BY <1>1, <1>4, <1>7, QueueStarts DEF First
<1>9. Offset(First') = Offset(First) + Size /\ Offset(First) \in Int
  BY <1>8, Offsets
<1>10. \A i \in DOMAIN queue' : queue'[i] = First' - 1 + i
  <2>1. ASSUME NEW i \in 1 .. Len(queue) - 1 PROVE queue[i + 1] = First - 1 + (i + 1)
    <3>1. i + 1 \in DOMAIN queue
      BY <1>7
    <3>2. QED BY <1>1, <3>1 DEF ReadingPlace
  <2>2. ASSUME NEW i \in 1 .. Len(queue) - 1 PROVE queue'[i] = First' - 1 + i
    <3>1. queue'[i] = queue[i + 1]
      BY <1>7
    <3>2. First' = First + 1 /\ First \in Nat
      BY <1>8
    <3>3. QED BY <2>1, <3>1, <3>2
  <2>3. DOMAIN queue' = 1 .. Len(queue) - 1
    BY <1>7
  <2>4. QED BY <2>2, <2>3
<1>11. ReadingPlace'
  <2>1. reads' = Offset(First') + readIndex' + 0
    BY <1>2, <1>6, <1>9, SizeAssumption DEF readVars
  <2>2. Len(queue') <= Epoch'
    BY <1>1, <1>4, <1>7, <1>8 DEF ReadingPlace
  <2>3. readIndex' \in Slots' /\ readBuffer' = NullPtr
    BY <1>1, <1>2, <1>6 DEF ReadingPlace, Slots, readVars
  <2>4. QED BY <1>7, <1>10, <2>1, <2>2, <2>3 DEF ReadingPlace, Offset, NullPtr
<1>12. QED BY <1>5, <1>11 DEF QueueInv

-----------------------------------------------------------------------------
(* push and try_pop of a RingBuffer *)

LEMMA Items ==
    ASSUME NEW c \in Nat
    PROVE  c % RingSize \in 0 .. RingSize - 1
BY RingAssumption, Division

\* Items of which the numbers are less than a turn apart are not the same.
LEMMA OtherItem ==
    ASSUME NEW c \in Nat, NEW d \in Nat, reads \in Nat, c # d,
           c \in reads .. reads + RingSize - 1, d \in reads .. reads + RingSize - 1
    PROVE  c % RingSize # d % RingSize
<1>1. c - d < RingSize /\ d - c < RingSize
  BY RingAssumption
<1>2. QED BY <1>1, RingAssumption, OtherRemainder

LEMMA RingClaimKeeps ==
    ASSUME RingInv, claims \in Seq(Line), reads \in 0 .. Len(claims), NEW p \in Producers, NEW l \in Line,
           at[p] = "idle", ~Full, claimItem, Goto(p, "item"), claimed(l),
           index' = [index EXCEPT ![p] = ringWriteIndex], line' = [line EXCEPT ![p] = l],
           UNCHANGED <<popper, reads>>
    PROVE  RingInv'
<1>1. RingTypes /\ ItemsHold /\ ItemsOwed
  BY DEF RingInv
<1>2. /\ claims' \in Seq(Line) /\ Len(claims) \in Nat /\ Len(claims') = Len(claims) + 1
      /\ \A c \in 1 .. Len(claims) : claims'[c] = claims[c]
      /\ claims'[Len(claims) + 1] = l
  BY MoreClaims DEF claimed
<1>3. Len(claims) - reads < RingSize
  BY <1>2, RingAssumption DEF Full
<1>4. RingTypes'
  <2>1. ringWriteIndex' = Len(claims') /\ UNCHANGED <<ring, ringReadIndex>>
    BY <1>1, <1>2 DEF RingTypes, claimItem
  <2>2. at' \in [Producers -> {"idle", "item"}]
    BY <1>1 DEF RingTypes, Goto
  <2>3. index' \in [Producers -> Nat] /\ line' \in [Producers -> MaybeLine]
    BY <1>1, <1>2 DEF RingTypes, MaybeLine
  <2>4. Len(claims') - reads' <= RingSize
    BY <1>2, <1>3, RingAssumption
  <2>5. QED BY <1>1, <2>1, <2>2, <2>3, <2>4 DEF RingTypes, MaybeLine, Line
<1>5. ItemsHold'
  <2>1. ASSUME NEW c \in reads .. reads + RingSize - 1, ring[c % RingSize] # Unwritten
        PROVE  c < Len(claims') /\ ring[c % RingSize] = claims'[c + 1]
    <3>1. c < Len(claims) /\ ring[c % RingSize] = claims[c + 1]
      BY <1>1, <2>1 DEF ItemsHold
    <3>2. QED BY <1>2, <3>1
  <2>2. ring' = ring
    BY DEF claimItem
  <2>3. QED BY <2>1, <2>2 DEF ItemsHold
<1>6. ItemsOwed'
  <2>1. /\ at'[p] = "item" /\ index'[p] = Len(claims) /\ line'[p] = l /\ ring' = ring
        /\ \A q \in Producers : q # p => at'[q] = at[q] /\ index'[q] = index[q] /\ line'[q] = line[q]
    BY <1>1 DEF RingTypes, Goto, claimItem
  <2>2. ring[Len(claims) % RingSize] = Unwritten
    <3>1. Len(claims) \in reads .. reads + RingSize - 1
      BY <1>1, <1>2, <1>3, RingAssumption DEF RingTypes, ItemsHold
    <3>2. ~(Len(claims) < Len(claims))
      BY <1>2
    <3>3. QED BY <1>1, <3>1, <3>2 DEF ItemsHold
  <2>3. ASSUME NEW q \in Producers, at'[q] = "item"
        PROVE  /\ index'[q] \in reads .. Len(claims') - 1
               /\ line'[q] = claims'[index'[q] + 1]
               /\ ring'[index'[q] % RingSize] = Unwritten
               /\ \A r \in Producers : at'[r] = "item" /\ r # q => index'[q] # index'[r]
    <3>1. ASSUME NEW r \in Producers, r # p, at'[r] = "item"
          PROVE  /\ index'[r] = index[r] /\ index[r] \in reads .. Len(claims) - 1
                 /\ line'[r] = claims[index[r] + 1] /\ ring[index[r] % RingSize] = Unwritten
                 /\ \A o \in Producers : at[o] = "item" /\ o # r => index[r] # index[o]
      <4>1. at[r] = "item" /\ index'[r] = index[r] /\ line'[r] = line[r]
        BY <2>1, <3>1
      <4>2. QED BY <1>1, <4>1 DEF ItemsOwed
    <3>2. CASE q = p
      <4>1. \A r \in Producers : at'[r] = "item" /\ r # q => index'[q] # index'[r]
        BY <1>2, <2>1, <3>1, <3>2
      <4>2. QED BY <1>2, <2>1, <2>2, <3>2, <4>1
    <3>3. CASE q # p
      <4>1. index'[q] = index[q] /\ index[q] \in reads .. Len(claims) - 1
            /\ line'[q] = claims[index[q] + 1] /\ ring[index[q] % RingSize] = Unwritten
        BY <2>3, <3>1, <3>3
      <4>2. claims'[index[q] + 1] = claims[index[q] + 1]
        BY <1>2, <4>1, SMTT(30)
      <4>3. \A r \in Producers : at'[r] = "item" /\ r # q => index'[q] # index'[r]
        <5>1. ASSUME NEW r \in Producers, at'[r] = "item", r # q PROVE index'[q] # index'[r]
          <6>1. CASE r = p
            BY <1>2, <2>1, <4>1, <6>1
          <6>2. CASE r # p
            BY <2>1, <2>3, <3>1, <3>3, <5>1, <6>2
          <6>3. QED BY <6>1, <6>2
        <5>2. QED BY <5>1
      <4>4. index[q] \in reads .. Len(claims') - 1
        BY <1>2, <4>1
      <4>5. QED BY <2>1, <4>1, <4>2, <4>3, <4>4
    <3>4. QED BY <3>2, <3>3
  <2>4. QED BY <2>3 DEF ItemsOwed
<1>7. QED BY <1>4, <1>5, <1>6 DEF RingInv

LEMMA RingStepKeeps ==
    ASSUME RingInv, claims \in Seq(Line), reads \in 0 .. Len(claims), NEW p \in Producers,
           at[p] = "item", writeItem(index[p], line[p]), Return(p),
           UNCHANGED <<claims, popper, reads>>
    PROVE  RingInv'
<1>1. RingTypes /\ ItemsHold /\ ItemsOwed /\ Len(claims) \in Nat
  BY LenProperties DEF RingInv
<1>2. /\ index[p] \in reads .. Len(claims) - 1 /\ line[p] = claims[index[p] + 1]
      /\ index[p] \in reads .. reads + RingSize - 1 /\ index[p] \in Nat /\ reads \in Nat
      /\ index[p] % RingSize \in 0 .. RingSize - 1
      /\ \A q \in Producers : at[q] = "item" /\ q # p => index[p] # index[q]
  <2>1. /\ index[p] \in reads .. Len(claims) - 1 /\ line[p] = claims[index[p] + 1]
        /\ \A q \in Producers : at[q] = "item" /\ q # p => index[p] # index[q]
    BY <1>1 DEF ItemsOwed
  <2>2. Len(claims) - reads <= RingSize
    BY <1>1 DEF RingTypes
  <2>3. reads \in Nat /\ index[p] \in Nat /\ index[p] \in reads .. reads + RingSize - 1
    BY <1>1, <2>1, <2>2, RingAssumption
  <2>4. index[p] % RingSize \in 0 .. RingSize - 1
    BY <2>3, Items
  <2>5. QED BY <2>1, <2>3, <2>4
<1>3. /\ line[p] \in Line
      /\ ring' = [ring EXCEPT ![index[p] % RingSize] = line[p]]
      /\ UNCHANGED <<ringWriteIndex, ringReadIndex>>
  <2>1. line[p] \in Line
    BY <1>1, <1>2, ElementOfSeq
  <2>2. QED BY <2>1 DEF writeItem
<1>4. /\ \A i \in 0 .. RingSize - 1 :
            ring'[i] = IF i = index[p] % RingSize THEN line[p] ELSE ring[i]
      /\ ring' \in [0 .. RingSize - 1 -> Line \cup {Unwritten}]
  BY <1>1, <1>2, <1>3 DEF RingTypes
<1>5. /\ at' \in [Producers -> {"idle", "item"}] /\ at'[p] = "idle"
      /\ index' \in [Producers -> Nat] /\ line' \in [Producers -> MaybeLine]
      /\ \A q \in Producers : q # p => at'[q] = at[q] /\ index'[q] = index[q] /\ line'[q] = line[q]
  BY <1>1 DEF RingTypes, Return, Goto, MaybeLine
<1>6. RingTypes'
  BY <1>1, <1>3, <1>4, <1>5 DEF RingTypes, MaybeLine, Line
<1>7. ItemsHold'
  <2>1. ASSUME NEW c \in reads .. reads + RingSize - 1, ring'[c % RingSize] # Unwritten
        PROVE  c < Len(claims) /\ ring'[c % RingSize] = claims[c + 1]
    <3>1. c \in Nat /\ c % RingSize \in 0 .. RingSize - 1
      <4>1. c \in Nat
        BY <1>2, RingAssumption
      <4>2. QED BY <4>1, Items
    <3>2. CASE c = index[p]
      BY <1>1, <1>2, <1>4, <3>1, <3>2
    <3>3. CASE c # index[p]
      <4>1. c % RingSize # index[p] % RingSize
        BY <1>2, <3>1, <3>3, OtherItem
      <4>2. ring'[c % RingSize] = ring[c % RingSize]
        BY <1>4, <3>1, <4>1
      <4>3. QED BY <1>1, <2>1, <4>2 DEF ItemsHold
    <3>4. QED BY <3>2, <3>3
  <2>2. QED BY <2>1 DEF ItemsHold
<1>8. ItemsOwed'
  <2>1. ASSUME NEW q \in Producers, at'[q] = "item"
        PROVE  /\ index'[q] \in reads .. Len(claims) - 1
               /\ line'[q] = claims[index'[q] + 1]
               /\ ring'[index'[q] % RingSize] = Unwritten
               /\ \A r \in Producers : at'[r] = "item" /\ r # q => index'[q] # index'[r]
    <3>1. q # p /\ at[q] = "item" /\ index'[q] = index[q] /\ line'[q] = line[q]
      BY <1>5, <2>1
    <3>2. /\ index[q] \in reads .. Len(claims) - 1 /\ line[q] = claims[index[q] + 1]
          /\ ring[index[q] % RingSize] = Unwritten /\ index[q] # index[p]
          /\ \A r \in Producers : at[r] = "item" /\ r # q => index[q] # index[r]
      BY <1>1, <1>2, <3>1 DEF ItemsOwed
    <3>3. index[q] \in Nat /\ index[q] \in reads .. reads + RingSize - 1
          /\ index[q] % RingSize \in 0 .. RingSize - 1
      <4>1. Len(claims) - reads <= RingSize
        BY <1>1 DEF RingTypes
      <4>2. QED BY <1>1, <1>2, <3>2, <4>1, Items, RingAssumption, SMTT(30)
    <3>4. index[q] % RingSize # index[p] % RingSize
      BY <1>2, <3>2, <3>3, OtherItem
    <3>5. ring'[index[q] % RingSize] = Unwritten
      BY <1>4, <3>2, <3>3, <3>4
    <3>6. \A r \in Producers : at'[r] = "item" /\ r # q => index'[q] # index'[r]
      BY <1>5, <3>1, <3>2
    <3>7. QED BY <3>1, <3>2, <3>5, <3>6
  <2>2. QED BY <2>1 DEF ItemsOwed
<1>9. QED BY <1>6, <1>7, <1>8 DEF RingInv

\* The reader finds the line that claimed the item whose turn it is.
LEMMA RingReadKeeps ==
    ASSUME RingInv, claims \in Seq(Line), reads \in 0 .. Len(claims),
           IndexModulus % RingSize = 0, readItem, reads' = reads + 1, popper' # "delete",
           UNCHANGED <<at, index, line, claims>>
    PROVE  RingInv' /\ reads + 1 <= Len(claims) /\ NextItem = claims[reads + 1]
<1>1. RingTypes /\ ItemsHold /\ ItemsOwed /\ Len(claims) \in Nat /\ reads \in Nat
  BY LenProperties DEF RingInv
<1>2. /\ ringReadIndex \in Nat /\ ringReadIndex % RingSize = reads % RingSize
      /\ reads % RingSize \in 0 .. RingSize - 1
  BY <1>1, Items, RingAssumption DEF RingTypes
<1>3. /\ NextItem = ring[reads % RingSize] /\ NextItem # Unwritten
      /\ ring' = [ring EXCEPT ![reads % RingSize] = Unwritten]
      /\ ringReadIndex' = (ringReadIndex + 1) % IndexModulus /\ UNCHANGED ringWriteIndex
  BY <1>2 DEF readItem, NextItem
<1>4. reads < Len(claims) /\ NextItem = claims[reads + 1]
  <2>1. reads \in reads .. reads + RingSize - 1
    BY <1>1, RingAssumption
  <2>2. QED BY <1>1, <1>3, <2>1 DEF ItemsHold
<1>5. /\ \A i \in 0 .. RingSize - 1 :
            ring'[i] = IF i = reads % RingSize THEN Unwritten ELSE ring[i]
      /\ ring' \in [0 .. RingSize - 1 -> Line \cup {Unwritten}]
  BY <1>1, <1>2, <1>3 DEF RingTypes
<1>6. RingTypes'
  <2>1. ringReadIndex' \in 0 .. IndexModulus - 1
    <3>1. ringReadIndex + 1 \in Nat
      BY <1>2
    <3>2. QED BY <1>3, <3>1, RingAssumption, Division
  <2>2. ringReadIndex' % RingSize = reads' % RingSize
    <3>1. (ringReadIndex + 1) % RingSize = (reads + 1) % RingSize
      BY <1>1, <1>2, RingAssumption, NextRemainder
    <3>2. ((ringReadIndex + 1) % IndexModulus) % RingSize = (ringReadIndex + 1) % RingSize
      <4>1. ringReadIndex + 1 \in Nat
        BY <1>2
      <4>2. QED BY <4>1, RingAssumption, WrappedRemainder
    <3>3. QED BY <1>3, <3>1, <3>2
  <2>3. Len(claims') - reads' <= RingSize
    <3>1. Len(claims) - reads <= RingSize
      BY <1>1 DEF RingTypes
    <3>2. QED BY <1>1, <3>1, RingAssumption
  <2>4. QED BY <1>1, <1>3, <1>5, <2>1, <2>2, <2>3 DEF RingTypes, MaybeLine, Line
<1>7. ItemsHold'
  <2>1. ASSUME NEW c \in reads + 1 .. reads + 1 + RingSize - 1, ring'[c % RingSize] # Unwritten
        PROVE  c < Len(claims) /\ ring'[c % RingSize] = claims[c + 1]
    <3>1. c \in Nat /\ c % RingSize \in 0 .. RingSize - 1
      <4>1. c \in Nat
        BY <1>1, RingAssumption
      <4>2. QED BY <4>1, Items
    <3>2. c % RingSize # reads % RingSize
      BY <1>5, <2>1, <3>1
    <3>3. c # reads + RingSize
      BY <1>1, <3>2, RingAssumption, NextTurn
    <3>4. c \in reads .. reads + RingSize - 1
      BY <1>1, <3>3, RingAssumption
    <3>5. ring'[c % RingSize] = ring[c % RingSize]
      BY <1>5, <3>1, <3>2
    <3>6. QED BY <1>1, <2>1, <3>4, <3>5 DEF ItemsHold
  <2>2. QED BY <2>1 DEF ItemsHold
<1>8. ItemsOwed'
  <2>1. ASSUME NEW q \in Producers, at[q] = "item"
        PROVE  /\ index[q] \in reads + 1 .. Len(claims) - 1 /\ line[q] = claims[index[q] + 1]
               /\ ring'[index[q] % RingSize] = Unwritten
               /\ \A r \in Producers : at[r] = "item" /\ r # q => index[q] # index[r]
    <3>1. /\ index[q] \in reads .. Len(claims) - 1 /\ line[q] = claims[index[q] + 1]
          /\ ring[index[q] % RingSize] = Unwritten
          /\ \A r \in Producers : at[r] = "item" /\ r # q => index[q] # index[r]
      BY <1>1, <2>1 DEF ItemsOwed
    <3>2. index[q] # reads
      BY <1>3, <3>1
    <3>3. index[q] \in Nat /\ index[q] % RingSize \in 0 .. RingSize - 1
      <4>1. index[q] \in Nat
        BY <1>1, <3>1
      <4>2. QED BY <4>1, Items
    <3>4. ring'[index[q] % RingSize] = Unwritten
      BY <1>5, <3>1, <3>3
    <3>5. index[q] \in reads + 1 .. Len(claims) - 1
      BY <1>1, <3>1, <3>2
    <3>6. QED BY <3>1, <3>4, <3>5
  <2>2. QED BY <2>1 DEF ItemsOwed
<1>9. QED BY <1>1, <1>4, <1>6, <1>7, <1>8 DEF RingInv

-----------------------------------------------------------------------------
(* The files *)

LEMMA SameQueue ==
    ASSUME QueueInv, UNCHANGED <<bufferVars, readVars, producerVars, claims, reads>>,
           popper' = "delete" <=> popper = "delete"
    PROVE  QueueInv'
<1>1. QueueTypes' /\ Counted' /\ Claimed' /\ SlotsHold' /\ Epoch' = Epoch
  BY PopperLeaves DEF QueueInv
<1>2. ReadingPlace'
  BY <1>1 DEF QueueInv, ReadingPlace, First, Offset, Slots, readVars, bufferVars
<1>3. QED BY <1>1, <1>2 DEF QueueInv

LEMMA SameRing ==
    ASSUME RingInv, UNCHANGED <<ringVars, at, index, line, claims, reads>>, popper' # "delete"
    PROVE  RingInv'
BY DEF RingInv, RingTypes, ItemsHold, ItemsOwed, ringVars, MaybeLine, Line

LEMMA SameWritten ==
    ASSUME WrittenLines, UNCHANGED <<claims, reads, files, popped>>,
           popper' \in {"write", "delete"} <=> popper \in {"write", "delete"},
           popper' # "none" => files # <<>>
    PROVE  WrittenLines'
BY DEF WrittenLines, Written, Line

LEMMA MoreWritten ==
    ASSUME WrittenLines, NEW l \in Line, claimed(l), UNCHANGED <<reads, files, popper, popped>>
    PROVE  WrittenLines'
<1>1. /\ claims' \in Seq(Line) /\ Len(claims) \in Nat /\ Len(claims') = Len(claims) + 1
      /\ \A c \in 1 .. Len(claims) : claims'[c] = claims[c]
  BY MoreClaims DEF WrittenLines, claimed
<1>2. ASSUME NEW n \in 0 .. Len(claims) PROVE SubSeq(claims', 1, n) = SubSeq(claims, 1, n)
  BY FirstOnesStay DEF WrittenLines, claimed
<1>3. reads \in 0 .. Len(claims) /\ reads' \in 0 .. Len(claims')
  BY <1>1 DEF WrittenLines
<1>4. CASE popper \in {"write", "delete"}
  <2>1. reads > 0 /\ popped = claims[reads] /\ Written = SubSeq(claims, 1, reads - 1)
    BY <1>4 DEF WrittenLines
  <2>2. claims'[reads] = claims[reads] /\ SubSeq(claims', 1, reads - 1) = SubSeq(claims, 1, reads - 1)
    BY <1>1, <1>2, <1>3, <2>1
  <2>3. QED BY <1>1, <1>3, <1>4, <2>1, <2>2 DEF WrittenLines, Written, Line
<1>5. CASE popper \notin {"write", "delete"}
  <2>1. popped = NoLine /\ Written = SubSeq(claims, 1, reads)
    BY <1>5 DEF WrittenLines
  <2>2. SubSeq(claims', 1, reads) = SubSeq(claims, 1, reads)
    BY <1>2, <1>3
  <2>3. QED BY <1>1, <1>3, <1>5, <2>1, <2>2 DEF WrittenLines, Written, Line
<1>6. QED BY <1>4, <1>5

LEMMA ReadNext ==
    ASSUME WrittenLines, popper = "pop", popper' \in {"write", "delete"},
           reads + 1 <= Len(claims), popped' = claims[reads + 1], reads' = reads + 1,
           UNCHANGED <<claims, files>>
    PROVE  WrittenLines'
<1>1. reads \in Nat /\ Len(claims) \in Nat /\ reads' - 1 = reads
  BY LenProperties DEF WrittenLines
<1>2. Written' = Written
  BY DEF Written
<1>3. reads' \in 0 .. Len(claims') /\ reads' > 0
  BY <1>1
<1>4. QED BY <1>1, <1>2, <1>3 DEF WrittenLines, Line

\* writeLine appends to the last file and opens another when that one is long.
LEMMA WriteKeeps ==
    ASSUME WrittenLines, popper = "write", writeLine(popped), popped' = NoLine,
           popper' \in {"pop", "test"}, UNCHANGED <<claims, reads>>
    PROVE  WrittenLines'
<1>1. /\ files \in Seq(Seq(Line)) /\ files # <<>> /\ claims \in Seq(Line)
      /\ reads \in 1 .. Len(claims) /\ popped = claims[reads]
      /\ Written = SubSeq(claims, 1, reads - 1)
  BY DEF WrittenLines
<1>2. popped \in Line
  BY <1>1, ElementOfSeq
<1> DEFINE written == [files EXCEPT ![Len(files)] = Append(@, popped)]
<1>3. /\ written \in Seq(Seq(Line)) /\ written # <<>>
      /\ FlattenSeq(written) = Append(FlattenSeq(files), popped)
  <2>1. Len(files) \in 1 .. Len(files) /\ files[Len(files)] \in Seq(Line)
    BY <1>1, EmptySeq, LenProperties, ElementOfSeq
  <2>2. Append(files[Len(files)], popped) \in Seq(Line)
    BY <1>2, <2>1, AppendProperties
  <2>3. written \in Seq(Seq(Line)) /\ LastGrows(files, popped, written)
    BY <1>1, <2>1, <2>2, ExceptSeq DEF LastGrows
  <2> HIDE DEF written
  <2>4. QED BY <1>1, <1>2, <2>3, FlattenGrows
<1>4. files' \in {written, Append(written, <<>>)}
  BY DEF writeLine
<1> HIDE DEF written
<1>5. FlattenSeq(written) = SubSeq(claims, 1, reads)
  BY <1>1, <1>3, NextOne DEF Written
<1>6. <<>> \in Seq(Line) /\ FlattenSeq(written) \in Seq(Line)
  BY <1>3, EmptySeq, FlattenType
<1>7. /\ Append(written, <<>>) \in Seq(Seq(Line)) /\ Append(written, <<>>) # <<>>
      /\ FlattenSeq(Append(written, <<>>)) = FlattenSeq(written)
  <2>1. Append(written, <<>>) \in Seq(Seq(Line)) /\ Append(written, <<>>) # <<>>
    <3>1. \A s \in Seq(Line) : Append(written, s) \in Seq(Seq(Line)) /\ Append(written, s) # <<>>
      BY <1>3, AppendProperties
    <3>2. QED BY <1>6, <3>1
  <2>2. FlattenSeq(Append(written, <<>>)) = FlattenSeq(written) \o <<>>
    BY <1>3, <1>6, FlattenAppend
  <2>3. QED BY <1>6, <2>1, <2>2, ConcatEmptySeq
<1>8. files' \in Seq(Seq(Line)) /\ files' # <<>> /\ Written' = SubSeq(claims, 1, reads)
  BY <1>3, <1>4, <1>5, <1>7 DEF Written
<1>9. QED BY <1>1, <1>8 DEF WrittenLines, Line

-----------------------------------------------------------------------------
(* The steps of the specification *)

\* What a step that leaves _buffer_base alone has to show.
LEMMA KeepsNanoInv ==
    ASSUME NanoInv, Fresh', UNCHANGED <<guaranteed, logger>>,
           guaranteed \/ logger = "none" => QueueInv',
           ~guaranteed => writeIndex' = 0 /\ (Indexed /\ ~overrun' => RingInv'),
           guaranteed => ~overrun', Indexed /\ ~overrun' => WrittenLines'
    PROVE  NanoInv'
BY DEF NanoInv, Indexed

LEMMA InitInv == Init => NanoInv
<1> SUFFICES ASSUME Init PROVE NanoInv
  OBVIOUS
<1>1. /\ buffers = <<NewBuffer>> /\ queue = <<1>> /\ current = 1 /\ writeIndex = 0
      /\ readBuffer \in {NullPtr, Garbage} /\ readIndex = 0
      /\ at = [p \in Producers |-> "idle"] /\ line = [p \in Producers |-> NoLine]
      /\ index = [p \in Producers |-> 0] /\ target = [p \in Producers |-> NullPtr]
      /\ claims = <<>> /\ reads = 0 /\ popper = "none"
  BY DEF Init, InitQueue
<1>2. ~Enqueuing /\ SettingUp = {} /\ Pending = {} /\ Handed = 0
  BY <1>1, SizeAssumption DEF Enqueuing, SettingUp, Pending, Handed
<1>3. Len(buffers) = 1 /\ Epoch = 1 /\ Len(queue) = 1 /\ First = 1 /\ Len(claims) = 0
  BY <1>1, <1>2 DEF Epoch, First
<1>4. IsFiniteSet(Pending) /\ Cardinality(Pending) = 0
  BY <1>2, FS_EmptySet
<1>5. NewBuffer \in Contents /\ NewBuffer.count = 0 /\ \A i \in Slots : NewBuffer.lines[i] = NoLine
  BY SizeAssumption DEF NewBuffer, Contents, MaybeLine
<1>6. QueueTypes
  BY <1>1, <1>3, <1>4, <1>5 DEF QueueTypes, QueuePlaces, MaybeLine, NullPtr
<1>7. Counted
  <2>1. Offset(1) = 0
    BY Offsets
  <2>2. QED BY <1>1, <1>2, <1>3, <1>4, <1>5, <2>1, SizeAssumption DEF Counted
<1>8. Claimed /\ SlotsHold
  BY <1>1, <1>2, <1>5 DEF Claimed, SlotsHold
<1>9. ReadingPlace
  <2>1. Offset(1) = 0
    BY Offsets
  <2>2. queue \in Seq(Nat) /\ queue # <<>> /\ \A i \in DOMAIN queue : queue[i] = 1 - 1 + i
    BY <1>1
  <2>3. readIndex \in Slots
    BY <1>1, SizeAssumption DEF Slots
  <2>4. QED BY <1>1, <1>3, <2>1, <2>2, <2>3 DEF ReadingPlace, NullPtr, Garbage
<1>10. RingInv
  <2>1. /\ ring = [i \in 0 .. RingSize - 1 |-> Unwritten] /\ ringWriteIndex = 0 /\ ringReadIndex = 0
    BY DEF Init, InitRing
  <2>2. \A c \in reads .. reads + RingSize - 1 : ring[c % RingSize] = Unwritten
    BY <1>1, <2>1, Items
  <2>3. RingTypes
    BY <1>1, <1>3, <2>1, RingAssumption DEF RingTypes, MaybeLine
  <2>4. QED BY <1>1, <2>2, <2>3 DEF RingInv, ItemsHold, ItemsOwed
<1>11. WrittenLines
  <2>1. files = <<>> /\ popped = NoLine
    BY DEF Init
  <2>2. Written = <<>> /\ SubSeq(claims, 1, reads) = <<>>
    BY <1>1, <2>1, FlattenEmpty, SubSeqEmpty DEF Written
  <2>3. QED BY <1>1, <1>3, <2>1, <2>2 DEF WrittenLines
<1>12. Fresh /\ ~guaranteed /\ ~overrun
  BY <1>1 DEF Init, Fresh
<1>13. QED BY <1>1, <1>6, <1>7, <1>8, <1>9, <1>10, <1>11, <1>12 DEF NanoInv, QueueInv

LEMMA InitializeKeeps == NanoInv /\ initialize => NanoInv'
<1> SUFFICES ASSUME NanoInv, initialize PROVE NanoInv'
  OBVIOUS
<1>1. /\ logger = "none" /\ logger' = "ready" /\ popper' = "test" /\ files' = <<<<>>>>
      /\ UNCHANGED <<queueVars, ringVars, popped, reads, claims, calls, overrun>>
  BY DEF initialize, newLogger, logVars
<1>2. /\ popper = "none" /\ ~overrun /\ QueueInv /\ RingInv /\ writeIndex = 0 /\ WrittenLines
      /\ claims = <<>> /\ reads = 0
  BY <1>1 DEF NanoInv, Fresh, Indexed
<1>3. Fresh'
  BY <1>1 DEF NanoInv, Fresh
<1>4. QueueInv'
  BY <1>1, <1>2, SameQueue DEF queueVars
<1>5. RingInv'
  BY <1>1, <1>2, SameRing DEF queueVars, producerVars
<1>6. WrittenLines'
  <2>1. files' = Append(<<>>, <<>>) /\ <<>> \in Seq(Line) /\ <<>> \in Seq(Seq(Line))
    BY <1>1
  <2>2. files' \in Seq(Seq(Line)) /\ files' # <<>>
    BY <1>1
  <2>3. FlattenSeq(Append(<<>>, <<>>)) = FlattenSeq(<<>>) \o <<>>
    BY <2>1, FlattenAppend
  <2>4. Written' = <<>> /\ SubSeq(claims', 1, reads') = <<>>
    BY <1>1, <1>2, <2>1, <2>3, FlattenEmpty, SubSeqEmpty DEF Written
  <2>5. popped' = NoLine
    BY <1>1, <1>2 DEF WrittenLines
  <2>6. QED BY <1>1, <1>2, <2>2, <2>4, <2>5 DEF WrittenLines, Line
<1>7. writeIndex' = 0 /\ ~overrun'
  BY <1>1, <1>2 DEF queueVars, bufferVars
<1>8. QED BY <1>3, <1>4, <1>5, <1>6, <1>7 DEF NanoInv

\* The level and the end of the program touch no line.
LEMMA LoggerKeeps ==
    ASSUME NanoInv, logger # "none", logger' # "none",
           UNCHANGED <<queueVars, ringVars, guaranteed, popVars, fileVars, logVars>>
    PROVE  NanoInv'
<1>1. UNCHANGED <<at, index, line, writeIndex, popper, popped, reads, claims, calls, overrun,
                  files>>
  BY DEF queueVars, bufferVars, producerVars, popVars, fileVars, logVars
<1>2. Indexed' = Indexed
  BY DEF Indexed
<1>3. guaranteed => QueueInv'
  <2>1. UNCHANGED <<bufferVars, readVars, producerVars>>
    BY DEF queueVars
  <2>2. ASSUME QueueInv PROVE QueueInv'
    <3>1. UNCHANGED <<bufferVars, readVars, producerVars, claims, reads>>
      BY <1>1, <2>1
    <3>2. popper' = "delete" <=> popper = "delete"
      BY <1>1
    <3>3. QED BY <2>2, <3>1, <3>2, SameQueue
  <2>3. QED BY <2>2 DEF NanoInv
<1>4. ~guaranteed /\ Indexed /\ ~overrun => RingInv'
  <2>1. ASSUME RingInv PROVE popper # "delete"
    BY <2>1 DEF RingInv, RingTypes
  <2>2. QED BY <1>1, <2>1, SameRing DEF NanoInv
<1>5. Indexed /\ ~overrun => WrittenLines'
  <2>1. ASSUME WrittenLines PROVE WrittenLines'
    BY <1>1, <2>1 DEF WrittenLines, Written, Line
  <2>2. QED BY <2>1 DEF NanoInv
<1>6. Fresh'
  BY <1>1 DEF NanoInv, Fresh
<1>7. QED BY <1>1, <1>2, <1>3, <1>4, <1>5, <1>6 DEF NanoInv

LEMMA AddKeeps ==
    ASSUME NanoInv, NEW p \in Producers, add(p)
    PROVE  NanoInv'
<1>1. PICK l \in Line : line' = [line EXCEPT ![p] = l] /\ (pushToQueue(p, l) \/ pushToRing(p, l))
                        /\ l.by = p
  <2>1. PICK len \in Lengths :
            LET l == [by |-> p, number |-> calls', length |-> len]
            IN  /\ line' = [line EXCEPT ![p] = l]
                /\ pushToQueue(p, l) \/ pushToRing(p, l)
    BY DEF add
  <2>2. calls' \in 1 .. MaxLines
    BY LoggerAssumption DEF add, NanoInv, Fresh
  <2>3. [by |-> p, number |-> calls', length |-> len] \in Line
    BY <2>2 DEF Line
  <2>4. QED BY <2>1, <2>3
<1>2. /\ at[p] = "idle" /\ logger = "ready"
      /\ UNCHANGED <<logger, guaranteed, popper, popped, reads, files>> /\ calls' = calls + 1
  BY DEF add, loggerVars, popVars, fileVars
<1>3. Fresh'
  BY <1>2 DEF NanoInv, Fresh
<1>4. CASE pushToQueue(p, l)
  <2>1. guaranteed /\ UNCHANGED overrun
    BY <1>4 DEF pushToQueue
  <2>2. QueueInv /\ ~overrun /\ WrittenLines
    BY <2>1 DEF NanoInv, Indexed
  <2>3. claims \in Seq(Line)
    BY <2>2 DEF WrittenLines
  <2>4. Pushed(p, l)
    <3>1. line \in [Producers -> MaybeLine]
      BY <2>2 DEF QueueInv, QueueTypes
    <3>2. line' \in [Producers -> MaybeLine] /\ line'[p] = l /\ \A q \in Producers : q # p => line'[q] = line[q]
      BY <1>1, <3>1 DEF MaybeLine
    <3>3. QED BY <1>2, <1>4, <3>2 DEF Pushed, pushToQueue
  <2>5. QueueInv'
    BY <1>2, <2>2, <2>3, <2>4, ClaimKeeps
  <2>6. WrittenLines'
    <3>1. CASE writeIndex < Size
      <4>1. claimed(l)
        BY <1>4, <3>1 DEF pushToQueue
      <4>2. QED BY <1>2, <2>2, <4>1, MoreWritten
    <3>2. CASE ~(writeIndex < Size)
      <4>1. UNCHANGED claims
        BY <1>4, <3>2 DEF pushToQueue
      <4>2. popper' # "none" => files # <<>>
        BY <1>2, <2>2 DEF WrittenLines
      <4>3. QED BY <1>2, <2>2, <4>1, <4>2, SameWritten
    <3>3. QED BY <3>1, <3>2
  <2>7. QED BY <1>2, <1>3, <2>1, <2>2, <2>5, <2>6, KeepsNanoInv
<1>5. CASE pushToRing(p, l)
  <2>1. /\ ~guaranteed /\ claimItem /\ index' = [index EXCEPT ![p] = ringWriteIndex]
        /\ Goto(p, "item") /\ claimed(l) /\ overrun' = (overrun \/ Full) /\ UNCHANGED bufferVars
    BY <1>5 DEF pushToRing
  <2>2. writeIndex' = 0
    BY <2>1 DEF NanoInv, bufferVars
  <2>3. ASSUME Indexed, ~overrun' PROVE RingInv' /\ WrittenLines'
    <3>1. ~overrun /\ ~Full
      BY <2>1, <2>3
    <3>2. RingInv /\ WrittenLines
      BY <2>1, <2>3, <3>1 DEF NanoInv
    <3>3. claims \in Seq(Line) /\ reads \in 0 .. Len(claims)
      BY <3>2 DEF WrittenLines
    <3>4. RingInv'
      BY <1>1, <1>2, <2>1, <3>1, <3>2, <3>3, RingClaimKeeps
    <3>5. WrittenLines'
      BY <1>2, <2>1, <3>2, MoreWritten
    <3>6. QED BY <3>4, <3>5
  <2>4. QED BY <1>2, <1>3, <2>1, <2>2, <2>3, KeepsNanoInv
<1>6. QED BY <1>1, <1>4, <1>5

LEMMA AgainKeeps ==
    ASSUME NanoInv, NEW p \in Producers, pushAgain(p)
    PROVE  NanoInv'
<1>1. /\ at[p] = "again" /\ guaranteed /\ pushToQueue(p, line[p]) /\ UNCHANGED line
      /\ UNCHANGED <<logger, guaranteed, popper, popped, reads, files, calls, overrun>>
  BY DEF pushAgain, pushToQueue, loggerVars, popVars, fileVars
<1>2. QueueInv /\ ~overrun /\ WrittenLines
  BY <1>1 DEF NanoInv, Indexed
<1>3. Fresh'
  <2>1. logger # "none"
    BY <1>1 DEF NanoInv, Fresh
  <2>2. QED BY <1>1, <2>1 DEF NanoInv, Fresh
<1>4. line[p] \in Line /\ line \in [Producers -> MaybeLine]
  BY <1>1, <1>2 DEF QueueInv, QueueTypes
<1>5. claims \in Seq(Line)
  BY <1>2 DEF WrittenLines
<1>6. QueueInv'
  <2>1. Pushed(p, line[p])
    BY <1>1, <1>4 DEF Pushed, pushToQueue
  <2>2. QED BY <1>1, <1>2, <1>4, <1>5, <2>1, ClaimKeeps
<1>7. WrittenLines'
  <2>1. CASE writeIndex < Size
    <3>1. claimed(line[p])
      BY <1>1, <2>1 DEF pushToQueue
    <3>2. QED BY <1>1, <1>2, <1>4, <3>1, MoreWritten
  <2>2. CASE ~(writeIndex < Size)
    <3>1. UNCHANGED claims
      BY <1>1, <2>2 DEF pushToQueue
    <3>2. popper' # "none" => files # <<>>
      BY <1>1, <1>2 DEF WrittenLines
    <3>3. QED BY <1>1, <1>2, <3>1, <3>2, SameWritten
  <2>3. QED BY <2>1, <2>2
<1>8. QED BY <1>1, <1>2, <1>3, <1>6, <1>7, KeepsNanoInv

LEMMA QueueStepKeeps ==
    ASSUME NanoInv, NEW p \in Producers, queueStep(p)
    PROVE  NanoInv'
<1>1. /\ pushGoesOn(p) /\ UNCHANGED ringVars
      /\ UNCHANGED <<claims, calls, overrun, logger, guaranteed, popper, popped, reads, files>>
  BY DEF queueStep, logVars, loggerVars, popVars, fileVars
<1>2. at[p] \in {"spin", "load", "store", "count", "setup", "enqueue"}
  BY <1>1
  DEF pushGoesOn, spinEnds, loadCurrent, storeLine, countLine, storeCurrent, pushBuffer
<1>3. logger # "none"
  BY <1>2 DEF NanoInv, Fresh
<1>4. Fresh'
  BY <1>1, <1>3 DEF NanoInv, Fresh
<1>5. Indexed /\ ~overrun => WrittenLines'
  <2>1. ASSUME WrittenLines PROVE WrittenLines'
    <3>1. popper' # "none" => files # <<>>
      BY <1>1, <2>1 DEF WrittenLines
    <3>2. QED BY <1>1, <2>1, <3>1, SameWritten
  <2>2. QED BY <2>1 DEF NanoInv
<1>6. CASE guaranteed
  <2>1. QueueInv /\ ~overrun /\ WrittenLines
    BY <1>6 DEF NanoInv, Indexed
  <2>2. claims \in Seq(Line)
    BY <2>1 DEF WrittenLines
  <2>3. QueueInv'
    BY <1>1, <2>1, <2>2, SpinEndsKeeps, LoadKeeps, StoreKeeps, CountKeeps, StoreCurrentKeeps,
       PushBufferKeeps DEF pushGoesOn
  <2>4. QED BY <1>1, <1>4, <1>5, <1>6, <2>1, <2>3, KeepsNanoInv
<1>7. CASE ~guaranteed
  <2>1. writeIndex' = 0
    <3>1. writeIndex' \in {0, writeIndex}
      BY <1>1
      DEF pushGoesOn, spinEnds, loadCurrent, storeLine, countLine, storeCurrent, pushBuffer,
          bufferVars
    <3>2. QED BY <1>7, <3>1 DEF NanoInv
  <2>2. ~(Indexed /\ ~overrun)
    <3>1. ASSUME RingInv PROVE FALSE
      BY <1>2, <3>1 DEF RingInv, RingTypes
    <3>2. QED BY <1>7, <3>1 DEF NanoInv
  <2>3. QED BY <1>1, <1>3, <1>4, <1>5, <1>7, <2>1, <2>2, KeepsNanoInv
<1>8. QED BY <1>6, <1>7

LEMMA ItemStepKeeps ==
    ASSUME NanoInv, NEW p \in Producers, ringStep(p)
    PROVE  NanoInv'
<1>1. /\ at[p] = "item" /\ writeItem(index[p], line[p]) /\ Return(p) /\ UNCHANGED bufferVars
      /\ UNCHANGED <<claims, calls, overrun, logger, guaranteed, popper, popped, reads, files>>
  BY DEF ringStep, logVars, loggerVars, popVars, fileVars
<1>2. logger # "none"
  BY <1>1 DEF NanoInv, Fresh
<1>3. Fresh'
  BY <1>1, <1>2 DEF NanoInv, Fresh
<1>4. ~guaranteed
  <2>1. ASSUME QueueInv PROVE FALSE
    BY <1>1, <2>1 DEF QueueInv, QueueTypes, QueuePlaces
  <2>2. QED BY <2>1 DEF NanoInv
<1>5. writeIndex' = 0
  BY <1>1, <1>4 DEF NanoInv, bufferVars
<1>6. ASSUME Indexed, ~overrun PROVE RingInv' /\ WrittenLines'
  <2>1. RingInv /\ WrittenLines
    BY <1>4, <1>6 DEF NanoInv
  <2>2. claims \in Seq(Line) /\ reads \in 0 .. Len(claims) /\ (popper' # "none" => files # <<>>)
    BY <1>1, <2>1 DEF WrittenLines
  <2>3. RingInv'
    BY <1>1, <2>1, <2>2, RingStepKeeps
  <2>4. WrittenLines'
    BY <1>1, <2>1, <2>2, SameWritten
  <2>5. QED BY <2>3, <2>4
<1>7. QED BY <1>1, <1>2, <1>3, <1>4, <1>5, <1>6, KeepsNanoInv

LEMMA TestKeeps ==
    ASSUME NanoInv, testState, popper # "none", UNCHANGED <<logVars, loggerVars>>
    PROVE  NanoInv'
<1>1. /\ popper = "test" /\ popper' = "pop" /\ UNCHANGED <<queueVars, ringVars, popped, reads, files>>
      /\ UNCHANGED <<logger, guaranteed, claims, calls, overrun>>
  BY DEF testState, fileVars, logVars, loggerVars
<1>2. UNCHANGED <<bufferVars, readVars, producerVars>> /\ UNCHANGED <<at, index, line, writeIndex>>
  BY <1>1 DEF queueVars, producerVars, bufferVars
<1>3. Fresh' /\ logger # "none"
  BY <1>1 DEF NanoInv, Fresh
<1>4. ASSUME QueueInv PROVE QueueInv'
  BY <1>1, <1>2, <1>4, SameQueue
<1>5. ASSUME RingInv PROVE RingInv'
  BY <1>1, <1>2, <1>5, SameRing
<1>6. ASSUME WrittenLines PROVE WrittenLines'
  <2>1. files # <<>>
    BY <1>1, <1>6 DEF WrittenLines
  <2>2. QED BY <1>1, <1>6, <2>1, SameWritten
<1>7. QED BY <1>1, <1>2, <1>3, <1>4, <1>5, <1>6, KeepsNanoInv DEF NanoInv

LEMMA PopSucceedsKeeps ==
    ASSUME NanoInv, popSucceeds, UNCHANGED <<logVars, loggerVars>>
    PROVE  NanoInv'
<1>1. /\ popper = "pop" /\ reads' = reads + 1
      /\ UNCHANGED <<files, logger, guaranteed, claims, calls, overrun>>
  BY DEF popSucceeds, fileVars, logVars, loggerVars
<1>2. popper' \in {"write", "delete"}
  BY DEF popSucceeds
<1>3. Fresh' /\ logger # "none"
  BY <1>1, <1>2 DEF NanoInv, Fresh
<1>4. CASE guaranteed
  <2>1. /\ popLine /\ popped' = NextLine
        /\ popper' = IF IsLastSlot THEN "delete" ELSE "write"
    BY <1>4 DEF popSucceeds
  <2>2. QueueInv /\ ~overrun /\ WrittenLines
    BY <1>4 DEF NanoInv, Indexed
  <2>3. claims \in Seq(Line)
    BY <2>2 DEF WrittenLines
  <2>4. QueueInv' /\ reads + 1 <= Len(claims) /\ NextLine = claims[reads + 1]
    BY <1>1, <2>1, <2>2, <2>3, PopLineKeeps
  <2>5. WrittenLines'
    BY <1>1, <1>2, <2>1, <2>2, <2>4, ReadNext
  <2>6. QED BY <1>1, <1>3, <1>4, <2>2, <2>4, <2>5, KeepsNanoInv
<1>5. CASE ~guaranteed
  <2>1. readItem /\ popped' = NextItem /\ popper' = "write" /\ UNCHANGED queueVars
    BY <1>5 DEF popSucceeds
  <2>2. writeIndex' = 0 /\ UNCHANGED <<at, index, line>>
    BY <1>5, <2>1 DEF NanoInv, queueVars, bufferVars, producerVars
  <2>3. ASSUME Indexed, ~overrun PROVE RingInv' /\ WrittenLines'
    <3>1. RingInv /\ WrittenLines /\ IndexModulus % RingSize = 0
      BY <1>3, <1>5, <2>3 DEF NanoInv, Indexed
    <3>2. claims \in Seq(Line) /\ reads \in 0 .. Len(claims)
      BY <3>1 DEF WrittenLines
    <3>3. RingInv' /\ reads + 1 <= Len(claims) /\ NextItem = claims[reads + 1]
      BY <1>1, <2>1, <2>2, <3>1, <3>2, RingReadKeeps
    <3>4. WrittenLines'
      BY <1>1, <1>2, <2>1, <3>1, <3>3, ReadNext
    <3>5. QED BY <3>3, <3>4
  <2>4. QED BY <1>1, <1>3, <1>5, <2>2, <2>3, KeepsNanoInv
<1>6. QED BY <1>4, <1>5

LEMMA DeleteStepKeeps ==
    ASSUME NanoInv, deleteBuffer, UNCHANGED <<logVars, loggerVars>>
    PROVE  NanoInv'
<1>1. /\ popper = "delete" /\ popper' = "write" /\ popBuffer
      /\ UNCHANGED <<files, reads, popped, ringVars, logger, guaranteed, claims, calls, overrun>>
      /\ UNCHANGED <<writeIndex, at, index, line>>
  BY DEF deleteBuffer, fileVars, logVars, loggerVars, popBuffer, producerVars
<1>2. Fresh' /\ logger # "none"
  BY <1>1 DEF NanoInv, Fresh
<1>3. ASSUME QueueInv PROVE QueueInv'
  BY <1>1, <1>3, DeleteKeeps
<1>4. ~RingInv
  BY <1>1 DEF RingInv, RingTypes
<1>5. ASSUME WrittenLines PROVE WrittenLines'
  <2>1. files # <<>>
    BY <1>1, <1>5 DEF WrittenLines
  <2>2. QED BY <1>1, <1>5, <2>1, SameWritten
<1>6. QED BY <1>1, <1>2, <1>3, <1>4, <1>5, KeepsNanoInv DEF NanoInv

LEMMA PopFailsKeeps ==
    ASSUME NanoInv, popFails, UNCHANGED <<logVars, loggerVars>>
    PROVE  NanoInv'
<1>1. /\ popper = "pop" /\ popper' \in {"done", "test"}
      /\ guaranteed => popNothing
      /\ ~guaranteed => UNCHANGED queueVars
      /\ UNCHANGED <<files, reads, popped, ringVars, logger, guaranteed, claims, calls, overrun>>
  BY DEF popFails, fileVars, logVars, loggerVars
<1>2. Fresh' /\ logger # "none"
  BY <1>1 DEF NanoInv, Fresh
<1>3. ASSUME guaranteed, QueueInv PROVE QueueInv'
  BY <1>1, <1>3, PopNothingKeeps
<1>4. ASSUME ~guaranteed PROVE UNCHANGED <<at, index, line, writeIndex>>
  BY <1>1, <1>4 DEF queueVars, producerVars, bufferVars
<1>5. ASSUME ~guaranteed, RingInv PROVE RingInv'
  BY <1>1, <1>4, <1>5, SameRing
<1>6. ASSUME WrittenLines PROVE WrittenLines'
  <2>1. files # <<>>
    BY <1>1, <1>6 DEF WrittenLines
  <2>2. QED BY <1>1, <1>6, <2>1, SameWritten
<1>7. QED BY <1>1, <1>2, <1>3, <1>4, <1>5, <1>6, KeepsNanoInv DEF NanoInv

\* Nothing that the invariant speaks of changes when the behaviour becomes undefined, or
\* when the level does.
LEMMA BreaksKeeps ==
    ASSUME NanoInv, UNCHANGED <<bufferVars, readVars, producerVars, ringVars, popVars, fileVars>>,
           UNCHANGED <<logVars, logger, guaranteed>>
    PROVE  NanoInv'
<1>1. UNCHANGED <<files, reads, popped, popper, logger, guaranteed, claims, calls, overrun,
                  at, index, line, writeIndex>>
  BY DEF popVars, fileVars, logVars, producerVars, bufferVars
<1>2. Fresh'
  BY <1>1 DEF NanoInv, Fresh
<1>3. ASSUME QueueInv PROVE QueueInv'
  BY <1>1, <1>3, SameQueue
<1>4. ASSUME RingInv PROVE RingInv'
  <2>1. popper' # "delete"
    BY <1>1, <1>4 DEF RingInv, RingTypes
  <2>2. QED BY <1>1, <1>4, <2>1, SameRing
<1>5. ASSUME WrittenLines PROVE WrittenLines'
  <2>1. popper' # "none" => files # <<>>
    BY <1>1, <1>5 DEF WrittenLines
  <2>2. QED BY <1>1, <1>5, <2>1, SameWritten
<1>6. QED BY <1>1, <1>2, <1>3, <1>4, <1>5, KeepsNanoInv DEF NanoInv

LEMMA WriteStepKeeps ==
    ASSUME NanoInv, writePopped, UNCHANGED <<logVars, loggerVars>>
    PROVE  NanoInv'
<1>1. /\ popper = "write" /\ popper' \in {"pop", "test"} /\ writeLine(popped) /\ popped' = NoLine
      /\ UNCHANGED <<queueVars, reads, ringVars, logger, guaranteed, claims, calls, overrun>>
  BY DEF writePopped, logVars, loggerVars
<1>2. UNCHANGED <<bufferVars, readVars, producerVars>> /\ UNCHANGED <<at, index, line, writeIndex>>
  BY <1>1 DEF queueVars, producerVars, bufferVars
<1>3. Fresh' /\ logger # "none"
  BY <1>1 DEF NanoInv, Fresh
<1>4. ASSUME QueueInv PROVE QueueInv'
  BY <1>1, <1>2, <1>4, SameQueue
<1>5. ASSUME RingInv PROVE RingInv'
  BY <1>1, <1>2, <1>5, SameRing
<1>6. ASSUME WrittenLines PROVE WrittenLines'
  BY <1>1, <1>6, WriteKeeps
<1>7. QED BY <1>1, <1>2, <1>3, <1>4, <1>5, <1>6, KeepsNanoInv DEF NanoInv

LEMMA PopKeeps == NanoInv /\ pop => NanoInv'
<1> SUFFICES ASSUME NanoInv, pop PROVE NanoInv'
  OBVIOUS
<1>1. popper # "none" /\ UNCHANGED <<logVars, loggerVars>>
  BY DEF pop, popperVarsFixed
<1>2. CASE popAfterEnd \/ popBreaks
  <2>1. UNCHANGED <<bufferVars, readVars, producerVars, ringVars, popVars, fileVars>>
    BY <1>2 DEF popAfterEnd, popBreaks, popGarbage
  <2>2. UNCHANGED <<logVars, logger, guaranteed>>
    BY <1>1 DEF loggerVars
  <2>3. QED BY <2>1, <2>2, BreaksKeeps
<1>3. CASE testState
  BY <1>1, <1>3, TestKeeps
<1>4. CASE popSucceeds
  BY <1>1, <1>4, PopSucceedsKeeps
<1>5. CASE deleteBuffer
  BY <1>1, <1>5, DeleteStepKeeps
<1>6. CASE popFails
  BY <1>1, <1>6, PopFailsKeeps
<1>7. CASE writePopped
  BY <1>1, <1>7, WriteStepKeeps
<1>8. QED BY <1>2, <1>3, <1>4, <1>5, <1>6, <1>7 DEF pop

LEMMA NextKeeps == NanoInv /\ [Next]_vars => NanoInv'
<1> SUFFICES ASSUME NanoInv, [Next]_vars PROVE NanoInv'
  OBVIOUS
<1>1. CASE initialize
  BY <1>1, InitializeKeeps
<1>2. CASE shutdown \/ destroyMembers \/ \E level \in Levels : set_log_level(level)
  <2>1. UNCHANGED <<queueVars, ringVars, guaranteed, popVars, fileVars, logVars>>
    BY <1>2 DEF shutdown, destroyMembers, set_log_level
  <2>2. CASE shutdown \/ destroyMembers
    BY <2>1, <2>2, LoggerKeeps DEF shutdown, destroyMembers
  <2>3. CASE \E level \in Levels : set_log_level(level)
    <3>1. UNCHANGED logger
      BY <2>3 DEF set_log_level
    <3>2. UNCHANGED <<bufferVars, readVars, producerVars, ringVars, popVars, fileVars>>
      BY <2>1 DEF queueVars
    <3>3. UNCHANGED <<logVars, logger, guaranteed>>
      BY <2>1, <3>1
    <3>4. QED BY <3>2, <3>3, BreaksKeeps
  <2>4. QED BY <1>2, <2>2, <2>3
<1>3. CASE pop
  BY <1>3, PopKeeps
<1>4. ASSUME NEW p \in Producers, pushStep(p) PROVE NanoInv'
  BY <1>4, QueueStepKeeps, AgainKeeps, ItemStepKeeps DEF pushStep
<1>5. ASSUME NEW p \in Producers, NEW level \in Levels, LOG(p, level) PROVE NanoInv'
  BY <1>5, AddKeeps DEF LOG
<1>6. CASE UNCHANGED vars
  <2>1. UNCHANGED <<bufferVars, readVars, producerVars, ringVars, popVars, fileVars>>
        /\ UNCHANGED <<logVars, logger, guaranteed>>
    BY <1>6 DEF vars, queueVars, loggerVars
  <2>2. QED BY <2>1, BreaksKeeps
<1>7. QED BY <1>1, <1>2, <1>3, <1>4, <1>5, <1>6 DEF Next

THEOREM Invariance == Spec => []NanoInv
BY InitInv, NextKeeps, PTL DEF Spec

-----------------------------------------------------------------------------
(* What the project's runs check *)

\* Whoever waits for a slot (Log.cpp:514) waits for a producer that has one, or that sets
\* up the next Buffer: the slots of the Buffers come back.
THEOREM SlotsAlwaysComeBack == Spec => []SlotsComeBack
<1>1. NanoInv => SlotsComeBack
  <2>1. SUFFICES ASSUME NanoInv, writeIndex >= Size PROVE Pushing # {}
    BY DEF SlotsComeBack
  <2>2. QueueInv
    <3>1. guaranteed
      BY <2>1, SizeAssumption DEF NanoInv
    <3>2. QED BY <2>1, <3>1 DEF NanoInv
  <2>3. SettingUp # {} \/ Pending # {}
    BY <2>1, <2>2, Filled DEF QueueInv
  <2>4. QED BY <2>3 DEF SettingUp, Pending, Pushing
<1>2. QED BY <1>1, Invariance, PTL

\* The lines are read and written once each, in the order in which they claimed their
\* slots: always, of a QueueBuffer; of a RingBuffer, while no slot is claimed that is not
\* free, and only if its size divides the range of the reader's unsigned int (Log.cpp:676).
THEOREM AlwaysReadAsClaimed ==
    Spec => [](guaranteed \/ IndexModulus % RingSize = 0 => ReadAsClaimed)
<1>1. NanoInv => (guaranteed \/ IndexModulus % RingSize = 0 => ReadAsClaimed)
  <2>1. SUFFICES ASSUME NanoInv, guaranteed \/ IndexModulus % RingSize = 0, ~overrun
                 PROVE  IsPrefix(Read, claims)
    BY DEF ReadAsClaimed
  <2>2. /\ claims \in Seq(Line) /\ reads \in 0 .. Len(claims) /\ files \in Seq(Seq(Line))
        /\ IF popper \in {"write", "delete"}
           THEN /\ reads > 0 /\ popped = claims[reads]
                /\ Written = SubSeq(claims, 1, reads - 1)
           ELSE popped = NoLine /\ Written = SubSeq(claims, 1, reads)
    BY <2>1 DEF NanoInv, Indexed, WrittenLines
  <2>3. \A n \in 0 .. Len(claims) : IsPrefix(SubSeq(claims, 1, n), claims)
    BY <2>2, FirstOnesPrefix
  <2>4. CASE popper \in {"write", "delete"}
    <3>1. reads \in 1 .. Len(claims) /\ reads - 1 \in 0 .. Len(claims)
      BY <2>2, <2>4
    <3>2. Append(SubSeq(claims, 1, reads - 1), claims[reads]) = SubSeq(claims, 1, reads)
      BY <2>2, <3>1, NextOne
    <3>3. Read \in {SubSeq(claims, 1, reads - 1), SubSeq(claims, 1, reads)}
      BY <2>2, <2>4, <3>2 DEF Read
    <3>4. QED BY <2>2, <2>3, <3>1, <3>3
  <2>5. CASE popper \notin {"write", "delete"}
    <3>1. Read = SubSeq(claims, 1, reads)
      BY <2>2, <2>5 DEF Read
    <3>2. QED BY <2>2, <2>3, <3>1
  <2>6. QED BY <2>4, <2>5
<1>2. QED BY <1>1, Invariance, PTL

-----------------------------------------------------------------------------
(* The text of a line *)

\* Three sequences, to be joined.
Sequences3(T, r, s, t) == r \in Seq(T) /\ s \in Seq(T) /\ t \in Seq(T)

LEMMA Regrouped ==
    ASSUME NEW T, NEW r, NEW s, NEW t, Sequences3(T, r, s, t)
    PROVE  (r \o s) \o t = r \o (s \o t)
BY ConcatAssociative DEF Sequences3

\* What a buffer consists of.
Codes == Int

\* Log.cpp:216-275: what is read at a byte ends after it, at a NUL if it is a string.
LEMMA DecodeIs ==
    ASSUME NEW data \in Seq(Codes), NEW type \in 0 .. 7, NEW b \in Nat \ {0}, b <= Len(data) + 1
    PROVE  /\ decode(data, type, b).next \in Nat \ {0} /\ decode(data, type, b).next > b
           /\ decode(data, type, b).text \in Seq(Codes)
<1> DEFINE n == Len(data)
           At(e) == /\ e > n \/ data[e] = NUL
                    /\ \A i \in b .. e - 1 : data[i] # NUL
           end == CHOOSE e \in b .. n + 1 : At(e)
<1>1. n \in Nat /\ \A i \in 1 .. n : data[i] \in Codes
  BY LenProperties, ElementOfSeq
<1>2. \E e \in b .. n + 1 : At(e)
  <2> DEFINE C == {e \in Nat : e \in b .. n + 1 /\ (e > n \/ data[e] = NUL)}
  <2>1. C \in SUBSET Nat /\ n + 1 \in C
    BY <1>1
  <2>2. PICK e \in C : \A m \in C : e <= m
    <3>1. C # {}
      BY <2>1
    <3> HIDE DEF C
    <3>2. QED BY <2>1, <3>1, LeastElement
  <2>3. \A i \in b .. e - 1 : data[i] # NUL
    BY <1>1, <2>2
  <2>4. QED BY <2>2, <2>3
<1>3. end \in b .. n + 1
  <2> HIDE DEF At
  <2>1. QED BY <1>2
<1>4. CASE type = 7
  <2>1. decode(data, type, b) = [text |-> SubSeq(data, b, end - 1), next |-> end + 1]
    BY <1>4 DEF decode, TypeId
  <2> HIDE DEF end
  <2>2. SubSeq(data, b, end - 1) \in Seq(Codes)
    <3>1. \A i \in b .. end - 1 : data[i] \in Codes
      BY <1>1, <1>3
    <3>2. b \in Int /\ end - 1 \in Int
      BY <1>1, <1>3
    <3>3. QED BY <3>1, <3>2, SubSeqProperties
  <2>3. QED BY <1>1, <1>3, <2>1, <2>2
<1>5. CASE type # 7
  <2>1. decode(data, type, b) = [text |-> IF b > n THEN <<>> ELSE <<data[b]>>,
                                 next |-> b + Sizeof[type + 1]]
    BY <1>5 DEF decode, TypeId
  <2>2. Sizeof[type + 1] \in 1 .. 8
    <3>1. /\ Sizeof[0 + 1] = 1 /\ Sizeof[1 + 1] = 4 /\ Sizeof[2 + 1] = 8 /\ Sizeof[3 + 1] = 4
          /\ Sizeof[4 + 1] = 8 /\ Sizeof[5 + 1] = 8 /\ Sizeof[6 + 1] = 8
      BY DEF Sizeof
    <3>2. type \in {0, 1, 2, 3, 4, 5, 6}
      BY <1>5
    <3>3. QED BY <3>1, <3>2
  <2>3. b <= n => <<data[b]>> \in Seq(Codes)
    BY <1>1
  <2>4. (IF b > n THEN <<>> ELSE <<data[b]>>) \in Seq(Codes)
    BY <1>1, <2>3
  <2> DEFINE text == IF b > n THEN <<>> ELSE <<data[b]>>
             next == b + Sizeof[type + 1]
             value == decode(data, type, b)
  <2>5. next \in Nat \ {0} /\ next > b
    <3> DEFINE size == Sizeof[type + 1]
    <3>1. size \in 1 .. 8
      BY <2>2
    <3> HIDE DEF size
    <3>2. b + size \in Nat \ {0} /\ b + size > b
      BY <3>1
    <3>3. QED BY <3>2 DEF size
  <2> HIDE DEF text, next, value
  <2>6. value.text = text /\ value.next = next
    BY <2>1 DEF text, next, value
  <2>7. QED BY <2>4, <2>5, <2>6 DEF text, value
<1>6. QED BY <1>4, <1>5

Ends(data) == {b \in Nat \ {0} : b > Len(data) \/ data[b] \notin 0 .. 7}

\* Log.cpp:328-355: the message from a byte on.
LEMMA MessageFrom ==
    ASSUME NEW data \in Seq(Codes), NEW b \in Nat \ {0}
    PROVE  /\ Message(data)[b] \in Seq(Codes)
           /\ Message(data)[b] =
                  IF b \in Ends(data) THEN <<>>
                  ELSE decode(data, data[b], b + 1).text
                           \o Message(data)[decode(data, data[b], b + 1).next]
<1> DEFINE S == Nat \ {0}
           T == Codes
           stops == Ends(data)
           value(x) == decode(data, data[x], x + 1)
           head == [x \in S |-> IF x \in stops THEN <<>> ELSE value(x).text]
           next == [x \in S |-> value(x).next]
           size == [x \in S |-> IF x > Len(data) THEN 0 ELSE (Len(data) + 1) - x]
           Is(f) == f = [x \in S |-> IF x \in stops THEN <<>>
                                     ELSE value(x).text \o f[value(x).next]]
<1>1. Len(data) \in Nat
  BY LenProperties
<1>2. ASSUME NEW x \in S, x \notin stops
      PROVE  /\ x <= Len(data) /\ value(x).next \in S /\ value(x).next > x
             /\ value(x).text \in Seq(T)
  <2>1. x <= Len(data) /\ data[x] \in 0 .. 7
    BY <1>1, <1>2 DEF Ends
  <2>2. x + 1 \in Nat \ {0} /\ x + 1 <= Len(data) + 1
    BY <1>1, <2>1
  <2>3. /\ value(x).next \in S /\ value(x).next > x + 1
        /\ value(x).text \in Seq(T)
    BY <2>1, <2>2, DecodeIs
  <2> HIDE DEF value
  <2>4. QED BY <2>1, <2>3
<1> HIDE DEF stops, value, T
<1>3. Shrinks(S, next, stops, size) /\ \A x \in S : head[x] \in Seq(T)
  <2>1. ASSUME NEW x \in S
        PROVE  /\ size[x] \in Nat
               /\ x \notin stops => next[x] \in S /\ size[next[x]] < size[x]
               /\ head[x] \in Seq(T)
    <3>1. size[x] \in Nat
      BY <1>1
    <3>2. CASE x \in stops
      BY <3>1, <3>2
    <3>3. CASE x \notin stops
      <4>1. next[x] = value(x).next /\ next[x] \in S /\ next[x] > x /\ x <= Len(data)
        BY <1>2, <3>3
      <4> HIDE DEF next
      <4>2. size[next[x]] < size[x]
        BY <1>1, <4>1
      <4>3. QED BY <1>2, <3>1, <3>3, <4>1, <4>2
    <3>4. QED BY <3>2, <3>3
  <2> HIDE DEF size, next, head
  <2>2. QED BY <2>1 DEF Shrinks
<1>4. ASSUME NEW f, IsUnrolled(f, S, head, next, stops) PROVE Is(f)
  <2>1. \A x \in S : head[x] \o (IF x \in stops THEN <<>> ELSE f[next[x]]) =
                         IF x \in stops THEN <<>> ELSE value(x).text \o f[value(x).next]
    <3>1. <<>> \o <<>> = <<>>
      OBVIOUS
    <3>2. QED BY <3>1
  <2>2. f = [x \in S |-> head[x] \o (IF x \in stops THEN <<>> ELSE f[next[x]])]
    BY <1>4 DEF IsUnrolled
  <2> HIDE DEF head, next
  <2>3. QED BY <2>1, <2>2
<1>5. ASSUME NEW f, Is(f) PROVE IsUnrolled(f, S, head, next, stops)
  <2>1. \A x \in S : head[x] \o (IF x \in stops THEN <<>> ELSE f[next[x]]) =
                         IF x \in stops THEN <<>> ELSE value(x).text \o f[value(x).next]
    <3>1. <<>> \o <<>> = <<>>
      OBVIOUS
    <3>2. QED BY <3>1
  <2>2. f = [x \in S |-> IF x \in stops THEN <<>> ELSE value(x).text \o f[value(x).next]]
    BY <1>5
  <2> HIDE DEF head, next
  <2>3. QED BY <2>1, <2>2 DEF IsUnrolled
<1>6. \E f : Is(f)
  <2>1. PICK f : IsUnrolled(f, S, head, next, stops)
    <3> HIDE DEF head, next, size, S
    <3>1. QED BY <1>3, UnrollingExists
  <2> HIDE DEF Is, head, next
  <2>2. QED BY <1>4, <2>1
<1>7. Message(data) = CHOOSE f : Is(f)
  <2>1. \A x \in S : (x > Len(data) \/ data[x] \notin 0 .. 7) <=> x \in stops
    BY DEF stops, Ends
  <2>2. \A f : f = [x \in S |-> IF x > Len(data) \/ data[x] \notin 0 .. 7 THEN <<>>
                                ELSE value(x).text \o f[value(x).next]] <=> Is(f)
    BY <2>1
  <2>3. Message(data) = CHOOSE f : f = [x \in S |->
                             IF x > Len(data) \/ data[x] \notin 0 .. 7 THEN <<>>
                             ELSE value(x).text \o f[value(x).next]]
    BY DEF Message, value
  <2> HIDE DEF Is
  <2>4. QED BY <2>2, <2>3
<1>8. Is(Message(data))
  <2> HIDE DEF Is
  <2>1. QED BY <1>6, <1>7
<1> DEFINE m == Message(data)
<1> HIDE DEF m
<1>9. IsUnrolled(m, S, head, next, stops)
  BY <1>5, <1>8 DEF m
<1>10. \A x \in S : m[x] \in Seq(T)
  <2> HIDE DEF head, next, size, S
  <2>1. QED BY <1>3, <1>9, UnrollingType
<1>11. m[b] = IF b \in stops THEN <<>> ELSE value(b).text \o m[value(b).next]
  BY <1>8 DEF m
<1>12. QED BY <1>10, <1>11 DEF m, T, stops, value

-----------------------------------------------------------------------------
(* What is put in a line *)

LogLines == [bytes : Seq(Codes), size : Nat]

\* The line has these bytes, and room for them.
Holds(l, data) == l \in LogLines /\ l.bytes = data /\ Len(data) <= l.size

\* The bytes of a value, and those of an argument with its type_id.
Encoded(value, size) == <<value>> \o [i \in 1 .. size - 1 |-> Rest]

ValueBytes(type, value) == <<TypeId[type]>> \o Encoded(value, Sizeof[TypeId[type] + 1])
StringBytes(chars)      == <<TypeId.c_string>> \o chars \o <<NUL>>

Logged(a) ==
    IF a.type # "c_string" THEN ValueBytes(a.type, a.value)
    ELSE IF a.value = <<>> THEN <<>> ELSE StringBytes(a.value)

LEMMA EncodedIs ==
    ASSUME NEW value \in Codes, NEW size \in Nat \ {0}
    PROVE  /\ Encoded(value, size) \in Seq(Codes) /\ Len(Encoded(value, size)) = size
           /\ Encoded(value, size)[1] = value
<1> DEFINE rest == [i \in 1 .. size - 1 |-> Rest]
<1>1. rest \in Seq(Codes) /\ Len(rest) = size - 1
  BY DEF Rest, Codes
<1> HIDE DEF rest
<1>2. <<value>> \in Seq(Codes) /\ Len(<<value>>) = 1 /\ <<value>>[1] = value
  OBVIOUS
<1>3. QED BY <1>1, <1>2 DEF Encoded, rest

LEMMA EncodeAdds ==
    ASSUME NEW l \in LogLines, NEW value \in Codes, NEW size \in Nat \ {0}
    PROVE  /\ encode(l, value, size) \in LogLines
           /\ encode(l, value, size).size = l.size
           /\ encode(l, value, size).bytes = l.bytes \o Encoded(value, size)
<1> DEFINE v == <<value>>
           rest == [i \in 1 .. size - 1 |-> Rest]
<1>1. v \in Seq(Codes) /\ rest \in Seq(Codes) /\ l.bytes \in Seq(Codes)
  BY DEF Rest, LogLines, Codes
<1>2. encode(l, value, size) = [l EXCEPT !.bytes = l.bytes \o v \o rest]
  BY DEF encode
<1> HIDE DEF v, rest
<1>3. l.bytes \o v \o rest = l.bytes \o (v \o rest) /\ l.bytes \o v \o rest \in Seq(Codes)
  <2> DEFINE was == l.bytes
  <2>1. was \in Seq(Codes)
    BY <1>1
  <2> HIDE DEF was
  <2>2. Sequences3(Codes, was, v, rest)
    BY <1>1, <2>1 DEF Sequences3
  <2>3. (was \o v) \o rest = was \o (v \o rest)
    BY <2>2, Regrouped
  <2>4. v \o rest \in Seq(Codes)
    BY <1>1, ConcatProperties
  <2>5. was \o (v \o rest) \in Seq(Codes)
    BY <2>1, <2>4, ConcatProperties
  <2>6. QED BY <2>3, <2>5 DEF was
<1>4. QED BY <1>2, <1>3 DEF LogLines, Encoded, v, rest

\* Log.cpp:122-150: the new buffer is large enough, and has what the old one had.
LEMMA RoomIsMade ==
    ASSUME NEW l \in LogLines, NEW additional \in Nat, Len(l.bytes) <= l.size
    PROVE  LET room == resize_buffer_if_needed(l, additional)
           IN  /\ room \in LogLines /\ room.bytes = l.bytes
               /\ Len(l.bytes) + additional <= room.size
<1>1. Len(l.bytes) \in Nat
  BY LenProperties DEF LogLines
<1>2. QED BY <1>1 DEF LogLines, resize_buffer_if_needed, LeastHeap

LEMMA TypesOf ==
    ASSUME NEW type \in DOMAIN TypeId, type # "c_string"
    PROVE  TypeId[type] \in 0 .. 6 /\ Sizeof[TypeId[type] + 1] \in Nat \ {0}
<1>1. /\ TypeId["char"] = 0 /\ TypeId["uint32_t"] = 1 /\ TypeId["uint64_t"] = 2
      /\ TypeId["int32_t"] = 3 /\ TypeId["int64_t"] = 4 /\ TypeId["double"] = 5
      /\ TypeId["string_literal_t"] = 6
  BY DEF TypeId
<1>2. /\ Sizeof[0 + 1] = 1 /\ Sizeof[1 + 1] = 4 /\ Sizeof[2 + 1] = 8 /\ Sizeof[3 + 1] = 4
      /\ Sizeof[4 + 1] = 8 /\ Sizeof[5 + 1] = 8 /\ Sizeof[6 + 1] = 8
  BY DEF Sizeof
<1>3. type \in {"char", "uint32_t", "uint64_t", "int32_t", "int64_t", "double",
                "string_literal_t"}
  BY DEF TypeId
<1>4. TypeId[type] \in {0, 1, 2, 3, 4, 5, 6}
  BY <1>1, <1>3
<1>5. QED BY <1>2, <1>4

LEMMA StringLogged ==
    ASSUME NEW chars \in Seq(Codes)
    PROVE  LET data == StringBytes(chars)
           IN  /\ data \in Seq(Codes) /\ Len(data) = Len(chars) + 2 /\ Len(chars) \in Nat
               /\ data[1] = 7 /\ data[Len(chars) + 2] = NUL
               /\ \A i \in 1 .. Len(chars) : data[i + 1] = chars[i]
<1>1. TypeId.c_string = 7 /\ NUL = 0
  BY DEF TypeId, NUL
<1> DEFINE first == <<7>>
           both == first \o chars
           last == <<0>>
<1>2. /\ first \in Seq(Codes) /\ Len(first) = 1 /\ first[1] = 7
      /\ last \in Seq(Codes) /\ Len(last) = 1 /\ last[1] = 0
  BY DEF Codes
<1> HIDE DEF first, last
<1>3. /\ Len(chars) \in Nat /\ chars \in Seq(Codes)
  BY LenProperties
<1>4. /\ both \in Seq(Codes) /\ Len(both) = 1 + Len(chars) /\ both[1] = 7
      /\ \A i \in 1 .. Len(chars) : both[i + 1] = chars[i]
  <2>1. \A i \in 1 .. Len(first) + Len(chars) :
            both[i] = IF i <= Len(first) THEN first[i] ELSE chars[i - Len(first)]
    BY <1>2, ConcatProperties
  <2>2. both \in Seq(Codes) /\ Len(both) = 1 + Len(chars)
    BY <1>2, <1>3, ConcatProperties
  <2> HIDE DEF both
  <2>3. QED BY <1>2, <1>3, <2>1, <2>2
<1> HIDE DEF both
<1> DEFINE all == both \o last
<1>5. /\ all \in Seq(Codes) /\ Len(all) = Len(both) + Len(last)
      /\ \A i \in 1 .. Len(both) + Len(last) :
            all[i] = IF i <= Len(both) THEN both[i] ELSE last[i - Len(both)]
  BY <1>2, <1>4, ConcatProperties
<1> HIDE DEF all
<1>6. /\ all[1] = 7 /\ all[Len(chars) + 2] = 0 /\ Len(all) = Len(chars) + 2
      /\ \A i \in 1 .. Len(chars) : all[i + 1] = chars[i]
  BY <1>2, <1>3, <1>4, <1>5
<1>7. QED BY <1>1, <1>3, <1>5, <1>6 DEF all, both, first, last, StringBytes

\* Log.cpp:175-188: a value with its type_id.
LEMMA ValueAdded ==
    ASSUME NEW l, NEW was \in Seq(Codes), Holds(l, was),
           NEW type \in DOMAIN TypeId, type # "c_string", NEW value \in Codes
    PROVE  /\ Holds(encodeTyped(l, type, value), was \o ValueBytes(type, value))
           /\ ValueBytes(type, value) \in Seq(Codes)
<1> DEFINE id == TypeId[type]
           size == Sizeof[id + 1]
           room == resize_buffer_if_needed(l, size + 1)
           one == encode(room, id, 1)
           after == encode(one, value, size)
           e == Encoded(value, size)
           t == <<id>>
<1>1. after = encodeTyped(l, type, value) /\ ValueBytes(type, value) = t \o e
  BY DEF encodeTyped, ValueBytes
<1>2. id \in Codes /\ size \in Nat \ {0}
  <2>1. id \in 0 .. 6 /\ size \in Nat \ {0}
    BY TypesOf
  <2>2. QED BY <2>1 DEF Codes
<1> HIDE DEF id, size
<1>3. Len(was) \in Nat /\ size + 1 \in Nat
  BY <1>2, LenProperties
<1>4. /\ room \in LogLines /\ room.bytes = was
      /\ Len(was) + (size + 1) <= room.size /\ room.size \in Nat
  BY <1>3, RoomIsMade DEF LogLines, Holds
<1> HIDE DEF room
<1>5. /\ one \in LogLines /\ one.size = room.size /\ one.bytes = was \o Encoded(id, 1)
  <2>1. 1 \in Nat \ {0}
    OBVIOUS
  <2> HIDE DEF one
  <2>2. QED BY <1>2, <1>4, <2>1, EncodeAdds DEF one
<1> HIDE DEF one
<1>6. Encoded(id, 1) = t
  BY <1>2 DEF Encoded
<1>7. /\ after \in LogLines /\ after.size = one.size /\ after.bytes = one.bytes \o e
  BY <1>2, <1>5, EncodeAdds
<1>8. e \in Seq(Codes) /\ Len(e) = size
  BY <1>2, EncodedIs
<1>9. t \in Seq(Codes) /\ Len(t) = 1
  BY <1>2
<1> HIDE DEF e, t, after
<1>10. after.bytes = (was \o t) \o e /\ after.size = room.size
  BY <1>5, <1>6, <1>7
<1>11. /\ (was \o t) \o e = was \o (t \o e) /\ t \o e \in Seq(Codes)
       /\ Len(t \o e) = Len(t) + Len(e)
  <2>1. (was \o t) \o e = was \o (t \o e)
    <3>1. Sequences3(Codes, was, t, e)
      BY <1>8, <1>9 DEF Sequences3
    <3>2. QED BY <3>1, Regrouped
  <2>2. t \o e \in Seq(Codes) /\ Len(t \o e) = Len(t) + Len(e)
    BY <1>8, <1>9, ConcatProperties
  <2>3. QED BY <2>1, <2>2
<1> DEFINE more == t \o e
<1>12. more \in Seq(Codes) /\ Len(more) = size + 1
  BY <1>2, <1>8, <1>9, <1>11
<1>13. after.bytes = was \o more
  BY <1>10, <1>11
<1>14. ValueBytes(type, value) = more
  BY <1>1 DEF t, e
<1> HIDE DEF more
<1>15. Len(was \o more) = Len(was) + Len(more)
  BY <1>12, ConcatProperties
<1>16. Len(after.bytes) <= after.size
  BY <1>2, <1>3, <1>4, <1>10, <1>12, <1>13, <1>15
<1>17. Holds(after, was \o more)
  BY <1>7, <1>13, <1>16 DEF Holds
<1>18. QED BY <1>1, <1>12, <1>14, <1>17 DEF after, e, t

\* Log.cpp:190-210: a string with its type_id and its NUL.
LEMMA StringAdded ==
    ASSUME NEW l, NEW was \in Seq(Codes), Holds(l, was),
           NEW chars \in Seq(Codes), chars # <<>>
    PROVE  /\ Holds(encode_c_string(l, chars), was \o StringBytes(chars))
           /\ StringBytes(chars) \in Seq(Codes)
<1> DEFINE room == resize_buffer_if_needed(l, roomFor(chars))
           after == encode_c_string(l, chars)
           t == <<TypeId.c_string>>
           z == <<NUL>>
           more == StringBytes(chars)
<1>1. /\ roomFor(chars) = Len(chars) + 2 /\ roomFor(chars) \in Nat /\ Len(was) \in Nat
      /\ more \in Seq(Codes) /\ Len(more) = Len(chars) + 2
  BY StringLogged, LenProperties DEF roomFor
<1>2. /\ room \in LogLines /\ room.bytes = was
      /\ Len(was) + roomFor(chars) <= room.size /\ room.size \in Nat
  BY <1>1, RoomIsMade DEF LogLines, Holds
<1>3. after = [room EXCEPT !.bytes = ((room.bytes \o t) \o chars) \o z]
  BY DEF encode_c_string
<1>4. t \in Seq(Codes) /\ z \in Seq(Codes)
  BY DEF TypeId, NUL, Codes
<1>5. more = (t \o chars) \o z
  BY DEF StringBytes
<1> HIDE DEF room, after, t, z, more
<1>6. (was \o t) \o chars = was \o (t \o chars) /\ t \o chars \in Seq(Codes)
  <2>1. Sequences3(Codes, was, t, chars)
    BY <1>4 DEF Sequences3
  <2>2. (was \o t) \o chars = was \o (t \o chars)
    BY <2>1, Regrouped
  <2>3. t \o chars \in Seq(Codes)
    BY <1>4, ConcatProperties
  <2>4. QED BY <2>2, <2>3
<1>7. (was \o (t \o chars)) \o z = was \o ((t \o chars) \o z)
  <2> DEFINE middle == t \o chars
  <2>1. Sequences3(Codes, was, middle, z)
    BY <1>4, <1>6 DEF Sequences3
  <2> HIDE DEF middle
  <2>2. (was \o middle) \o z = was \o (middle \o z)
    BY <2>1, Regrouped
  <2>3. QED BY <2>2 DEF middle
<1>8. /\ was \o more \in Seq(Codes) /\ Len(was \o more) = Len(was) + Len(more)
  BY <1>1, ConcatProperties
<1>9. after.bytes = was \o more /\ after.size = room.size /\ after \in LogLines
  BY <1>2, <1>3, <1>5, <1>6, <1>7, <1>8 DEF LogLines
<1>10. Holds(after, was \o more)
  BY <1>1, <1>2, <1>8, <1>9 DEF Holds
<1>11. QED BY <1>1, <1>10 DEF after, more

\* Log.cpp:175-222, 360-420: an argument is added to the line, and there is room for it.
LEMMA PutAdds ==
    ASSUME NEW l, NEW was \in Seq(Codes), Holds(l, was), NEW a \in Arguments
    PROVE  Holds(put(l, a.type, a.value), was \o Logged(a)) /\ Logged(a) \in Seq(Codes)
<1> DEFINE type == a.type
           value == a.value
           more == Logged(a)
           after == put(l, type, value)
<1>1. /\ type \in DOMAIN TypeId
      /\ type # "c_string" => value \in Codes
      /\ type = "c_string" => value \in Seq(Codes)
  BY LinesAssumption DEF Codes
<1>2. /\ after = IF type = "c_string" THEN encode_c_string(l, value)
                 ELSE encodeTyped(l, type, value)
      /\ more = IF type # "c_string" THEN ValueBytes(type, value)
                ELSE IF value = <<>> THEN <<>> ELSE StringBytes(value)
  BY DEF put, Logged
<1> HIDE DEF type, value, more, after
<1>3. CASE type # "c_string"
  <2>1. after = encodeTyped(l, type, value)
    BY <1>2, <1>3
  <2>2. more = ValueBytes(type, value)
    BY <1>2, <1>3
  <2>3. Holds(encodeTyped(l, type, value), was \o more) /\ more \in Seq(Codes)
    BY <1>1, <1>3, <2>2, ValueAdded
  <2>4. QED BY <2>1, <2>3 DEF after, more, type, value
<1>4. CASE type = "c_string" /\ value = <<>>
  <2>1. after = l /\ more = <<>>
    BY <1>2, <1>4 DEF encode_c_string
  <2>2. was \o <<>> = was /\ <<>> \in Seq(Codes)
    BY ConcatEmptySeq
  <2>3. QED BY <2>1, <2>2 DEF after, more, type, value
<1>5. CASE type = "c_string" /\ value # <<>>
  <2>1. after = encode_c_string(l, value)
    BY <1>2, <1>5
  <2>2. more = StringBytes(value)
    BY <1>2, <1>5
  <2>3. Holds(encode_c_string(l, value), was \o more) /\ more \in Seq(Codes)
    BY <1>1, <1>5, <2>2, StringAdded
  <2>4. QED BY <2>1, <2>3 DEF after, more, type, value
<1>6. QED BY <1>3, <1>4, <1>5

LEMMA ValueBytesAre ==
    ASSUME NEW type \in DOMAIN TypeId, type # "c_string", NEW value \in Codes
    PROVE  /\ Len(ValueBytes(type, value)) = Sizeof[TypeId[type] + 1] + 1
           /\ Sizeof[TypeId[type] + 1] \in Nat \ {0}
           /\ ValueBytes(type, value)[1] = TypeId[type] /\ ValueBytes(type, value)[2] = value
<1> DEFINE id == TypeId[type]
           size == Sizeof[id + 1]
           e == Encoded(value, size)
           t == <<id>>
<1>1. id \in 0 .. 6 /\ id \in Codes /\ size \in Nat \ {0}
  <2>1. id \in 0 .. 6 /\ size \in Nat \ {0}
    BY TypesOf
  <2>2. QED BY <2>1 DEF Codes
<1> HIDE DEF size, id
<1>2. e \in Seq(Codes) /\ Len(e) = size /\ e[1] = value
  BY <1>1, EncodedIs
<1>3. t \in Seq(Codes) /\ Len(t) = 1 /\ t[1] = id
  BY <1>1
<1> HIDE DEF e, t
<1>4. /\ Len(t \o e) = Len(t) + Len(e)
      /\ \A i \in 1 .. Len(t) + Len(e) : (t \o e)[i] = IF i <= Len(t) THEN t[i] ELSE e[i - Len(t)]
  BY <1>2, <1>3, ConcatProperties
<1> DEFINE both == t \o e
<1> HIDE DEF both
<1>5. /\ Len(both) = size + 1 /\ both[1] = id /\ both[2] = value
  BY <1>1, <1>2, <1>3, <1>4 DEF both
<1>6. ValueBytes(type, value) = both
  BY DEF ValueBytes, both, t, e, id, size
<1>7. QED BY <1>1, <1>5, <1>6 DEF id, size

\* Log.cpp:266-275: a string is read up to its first NUL, and whole if it has none.
LEMMA CutString ==
    ASSUME NEW a \in Arguments, a.type = "c_string"
    PROVE  LET chars == a.value
               text  == TextOf(a)
           IN  /\ chars \in Seq(Codes) /\ Len(chars) \in Nat
               /\ text \in Seq(Codes) /\ Len(text) \in Nat /\ Len(text) <= Len(chars)
               /\ \A i \in 1 .. Len(text) : text[i] = chars[i] /\ chars[i] # NUL
               /\ IF HasNul(a) THEN Len(text) < Len(chars) /\ chars[Len(text) + 1] = NUL
                  ELSE text = chars
<1> DEFINE chars == a.value
           text == TextOf(a)
           nuls == {i \in DOMAIN chars : chars[i] = NUL}
<1>1. /\ chars \in Seq(Codes) /\ Len(chars) \in Nat /\ DOMAIN chars = 1 .. Len(chars)
      /\ \A i \in 1 .. Len(chars) : chars[i] \in Codes
  <2>1. chars \in Seq(Codes)
    BY LinesAssumption DEF Codes
  <2> HIDE DEF chars
  <2>2. QED BY <2>1, LenProperties, ElementOfSeq
<1>2. CASE ~HasNul(a)
  <2>1. text = chars /\ \A i \in DOMAIN chars : chars[i] # NUL
    BY <1>2 DEF TextOf, HasNul
  <2>2. QED BY <1>1, <1>2, <2>1
<1>3. CASE HasNul(a)
  <2>1. nuls \in SUBSET Nat /\ nuls # {}
    BY <1>1, <1>3 DEF HasNul
  <2>2. Min(nuls) \in nuls /\ \A i \in nuls : Min(nuls) <= i
    <3> HIDE DEF nuls
    <3>1. \E n \in nuls : \A i \in nuls : n <= i
      BY <2>1, LeastElement
    <3>2. QED BY <3>1 DEF Min
  <2> DEFINE m == Min(nuls)
  <2>3. text = SubSeq(chars, 1, m - 1)
    BY <1>3 DEF TextOf, HasNul
  <2>4. /\ m \in 1 .. Len(chars) /\ chars[m] = NUL
        /\ \A i \in 1 .. m - 1 : chars[i] # NUL /\ i \in 1 .. Len(chars)
    <3> HIDE DEF m
    <3>1. m \in nuls /\ \A i \in nuls : m <= i
      BY <2>2 DEF m
    <3>2. QED BY <1>1, <3>1
  <2> HIDE DEF m, text, chars, nuls
  <2>5. /\ text \in Seq(Codes) /\ Len(text) = m - 1
        /\ \A i \in 1 .. m - 1 : text[i] = chars[i]
    <3> DEFINE z == m - 1
    <3>1. z \in 0 .. Len(chars) /\ text = SubSeq(chars, 1, z)
      BY <1>1, <2>3, <2>4
    <3> HIDE DEF z
    <3>2. QED BY <1>1, <3>1, FirstOnes DEF z
  <2>6. /\ Len(text) \in Nat /\ Len(text) < Len(chars) /\ chars[Len(text) + 1] = NUL
        /\ \A i \in 1 .. Len(text) : text[i] = chars[i] /\ chars[i] # NUL
    <3>1. Len(text) = m - 1 /\ m - 1 \in Nat /\ m - 1 < Len(chars) /\ (m - 1) + 1 = m
      BY <1>1, <2>4, <2>5
    <3>2. QED BY <2>4, <2>5, <3>1
  <2>7. QED BY <1>1, <1>3, <2>5, <2>6 DEF text, chars
<1>4. QED BY <1>2, <1>3

\* Log.cpp:216-275, 328-355: what an argument added is read back, and, if it is whole,
\* nothing else.
LEMMA LoggedReads ==
    ASSUME NEW a \in Arguments, Logged(a) # <<>>, NEW data \in Seq(Codes), NEW n \in Nat,
           n + Len(Logged(a)) <= Len(data),
           \A i \in 1 .. Len(Logged(a)) : data[n + i] = Logged(a)[i]
    PROVE  /\ n + 1 \notin Ends(data)
           /\ decode(data, data[n + 1], n + 2).text = TextOf(a)
           /\ ~HasNul(a) => decode(data, data[n + 1], n + 2).next = n + Len(Logged(a)) + 1
<1>1. Len(data) \in Nat
  BY LenProperties
<1>2. CASE a.type # "c_string"
  <2> DEFINE id == TypeId[a.type]
             size == Sizeof[id + 1]
             value == a.value
             more == Logged(a)
  <2>1. a.type \in DOMAIN TypeId /\ value \in Codes
    BY <1>2, LinesAssumption DEF Codes
  <2>2. more = ValueBytes(a.type, value)
    BY <1>2 DEF Logged
  <2>3. id \in 0 .. 6
    BY <1>2, <2>1, TypesOf
  <2> HIDE DEF value, more
  <2>4. Len(more) = size + 1 /\ size \in Nat \ {0} /\ more[1] = id /\ more[2] = value
    BY <1>2, <2>1, <2>2, ValueBytesAre
  <2>5. \A i \in 1 .. Len(more) : data[n + i] = more[i]
    BY DEF more
  <2> HIDE DEF id, size
  <2>6. /\ data[n + 1] = id /\ data[n + 2] = value /\ n + Len(more) <= Len(data)
        /\ n + 1 <= Len(data)
    <3>1. 1 \in 1 .. Len(more) /\ 2 \in 1 .. Len(more)
      BY <2>4
    <3>2. n + Len(more) <= Len(data)
      BY DEF more
    <3>3. data[n + 1] = more[1] /\ data[n + 2] = more[2]
      BY <2>5, <3>1
    <3>4. n + 1 <= Len(data)
      BY <1>1, <2>4, <3>2
    <3>5. QED BY <2>4, <3>2, <3>3, <3>4
  <2>7. n + 1 \notin Ends(data)
    BY <1>1, <2>3, <2>6 DEF Ends
  <2>8. decode(data, id, n + 2) = [text |-> <<data[n + 2]>>, next |-> n + 2 + size]
    <3>1. decode(data, id, n + 2) = [text |-> IF n + 2 > Len(data) THEN <<>> ELSE <<data[n + 2]>>,
                                     next |-> n + 2 + size]
      BY <2>3 DEF decode, TypeId, size
    <3>2. ~(n + 2 > Len(data))
      BY <1>1, <2>4, <2>6
    <3>3. QED BY <3>1, <3>2
  <2>9. TextOf(a) = <<value>>
    BY <1>2 DEF TextOf, value
  <2>10. n + 2 + size = n + Len(more) + 1
    BY <2>4
  <2>11. QED BY <2>6, <2>7, <2>8, <2>9, <2>10 DEF more
<1>3. CASE a.type = "c_string"
  <2> DEFINE chars == a.value
             more == Logged(a)
             text == TextOf(a)
             e == n + Len(text) + 2
             At(x) == /\ x > Len(data) \/ data[x] = NUL
                      /\ \A i \in n + 2 .. x - 1 : data[i] # NUL
  <2>1. /\ chars \in Seq(Codes) /\ Len(chars) \in Nat
        /\ text \in Seq(Codes) /\ Len(text) \in Nat /\ Len(text) <= Len(chars)
        /\ \A i \in 1 .. Len(text) : text[i] = chars[i] /\ chars[i] # NUL
        /\ IF HasNul(a) THEN Len(text) < Len(chars) /\ chars[Len(text) + 1] = NUL
           ELSE text = chars
    BY <1>3, CutString
  <2>2. chars \in Seq(Codes) /\ Len(chars) \in Nat /\ Len(text) \in Nat
    BY <2>1
  <2>3. more = StringBytes(chars)
    BY <1>3 DEF Logged
  <2> HIDE DEF more, chars, text
  <2>4. /\ Len(more) = Len(chars) + 2 /\ more[1] = 7 /\ more[Len(chars) + 2] = NUL
        /\ \A i \in 1 .. Len(chars) : more[i + 1] = chars[i]
    BY <2>2, <2>3, StringLogged
  <2>5. /\ \A i \in 1 .. Len(more) : data[n + i] = more[i]
        /\ n + Len(more) <= Len(data)
    BY DEF more
  <2>6. /\ data[n + 1] = 7 /\ data[e] = NUL /\ e <= Len(data) /\ e \in n + 2 .. Len(data) + 1
        /\ \A i \in 1 .. Len(text) : data[n + 1 + i] = text[i]
    <3>1. 1 \in 1 .. Len(more) /\ Len(text) + 2 \in 1 .. Len(more)
      BY <2>1, <2>4
    <3>2. data[n + 1] = 7
      BY <2>4, <2>5, <3>1
    <3>3. data[n + (Len(text) + 2)] = NUL /\ n + (Len(text) + 2) = e
      <4>1. more[Len(text) + 2] = NUL
        <5>1. CASE HasNul(a)
          <6>1. Len(text) + 1 \in 1 .. Len(chars) /\ (Len(text) + 1) + 1 = Len(text) + 2
            BY <2>1, <5>1
          <6>2. chars[Len(text) + 1] = NUL
            BY <2>1, <5>1
          <6>3. more[(Len(text) + 1) + 1] = chars[Len(text) + 1]
            BY <2>4, <6>1
          <6>4. QED BY <6>1, <6>2, <6>3
        <5>2. CASE ~HasNul(a)
          BY <2>1, <2>4, <5>2
        <5>3. QED BY <5>1, <5>2
      <4>2. n + (Len(text) + 2) = e
        BY <2>2
      <4>3. QED BY <2>5, <3>1, <4>1, <4>2
    <3>4. e <= Len(data) /\ e \in n + 2 .. Len(data) + 1
      BY <1>1, <2>1, <2>4, <2>5
    <3>5. ASSUME NEW i \in 1 .. Len(text) PROVE data[n + 1 + i] = text[i]
      <4>1. i \in 1 .. Len(chars) /\ i + 1 \in 1 .. Len(more) /\ n + (i + 1) = n + 1 + i
        BY <2>1, <2>4
      <4>2. data[n + (i + 1)] = more[i + 1]
        BY <2>5, <4>1
      <4>3. more[i + 1] = chars[i] /\ text[i] = chars[i]
        BY <2>1, <2>4, <4>1
      <4>4. QED BY <4>1, <4>2, <4>3
    <3>6. QED BY <3>2, <3>3, <3>4, <3>5
  <2>7. \A i \in n + 2 .. e - 1 : data[i] # NUL
    <3>1. SUFFICES ASSUME NEW i \in n + 2 .. e - 1 PROVE data[i] # NUL
      OBVIOUS
    <3>2. i - (n + 1) \in 1 .. Len(text) /\ n + 1 + (i - (n + 1)) = i
      BY <2>2
    <3>3. data[i] = text[i - (n + 1)]
      BY <2>6, <3>2
    <3>4. text[i - (n + 1)] # NUL
      BY <2>1, <3>2
    <3>5. QED BY <3>3, <3>4
  <2>8. At(e)
    BY <2>6, <2>7
  <2>9. ASSUME NEW x \in n + 2 .. Len(data) + 1, At(x) PROVE x = e
    <3>1. CASE x < e
      <4>1. x \in n + 2 .. e - 1 /\ x <= Len(data)
        BY <1>1, <2>2, <2>6, <3>1
      <4>2. QED BY <1>1, <2>7, <2>9, <4>1
    <3>2. CASE x > e
      <4>1. e \in n + 2 .. x - 1
        BY <1>1, <2>2, <2>6, <3>2
      <4>2. QED BY <2>6, <2>9, <4>1
    <3>3. x \in Int /\ e \in Int
      BY <1>1, <2>2
    <3>4. QED BY <3>1, <3>2, <3>3
  <2>10. e = CHOOSE x \in n + 2 .. Len(data) + 1 : At(x)
    <3> HIDE DEF At, e
    <3>1. QED BY <2>6, <2>8, <2>9
  <2>11. decode(data, 7, n + 2) = [text |-> SubSeq(data, n + 2, e - 1), next |-> e + 1]
    <3>1. 7 = TypeId.c_string
      BY DEF TypeId
    <3>2. decode(data, 7, n + 2) =
              LET end == CHOOSE x \in n + 2 .. Len(data) + 1 : At(x)
              IN  [text |-> SubSeq(data, n + 2, end - 1), next |-> end + 1]
      BY <3>1 DEF decode
    <3> HIDE DEF At, e
    <3>3. QED BY <2>10, <3>2
  <2>12. SubSeq(data, n + 2, e - 1) = text
    <3>1. \A i \in n + 2 .. e - 1 : data[i] \in Codes
      <4>1. \A i \in n + 2 .. e - 1 : i \in 1 .. Len(data)
        BY <1>1, <2>2, <2>6
      <4>2. QED BY <4>1, ElementOfSeq
    <3>2. n + 2 \in Int /\ e - 1 \in Int
      BY <2>2
    <3> DEFINE sub == SubSeq(data, n + 2, e - 1)
               m == n + 2
               z == e - 1
    <3>3. /\ SubSeq(data, m, z) \in Seq(Codes)
          /\ Len(SubSeq(data, m, z)) = IF m <= z THEN z - m + 1 ELSE 0
          /\ \A i \in 1 .. z - m + 1 : SubSeq(data, m, z)[i] = data[m + i - 1]
      <4> HIDE DEF m, z
      <4>1. m \in Int /\ z \in Int /\ \A i \in m .. z : data[i] \in Codes
        BY <3>1, <3>2 DEF m, z
      <4>2. QED BY <4>1, SubSeqProperties
    <3>4. z - m + 1 = Len(text) /\ Len(text) = IF m <= z THEN z - m + 1 ELSE 0
      BY <2>2
    <3> HIDE DEF sub
    <3>5. /\ sub \in Seq(Codes) /\ Len(sub) = Len(text)
          /\ \A i \in 1 .. Len(text) : sub[i] = data[(n + 2) + i - 1]
      BY <3>3, <3>4 DEF sub
    <3>6. \A i \in 1 .. Len(text) : (n + 2) + i - 1 = n + 1 + i
      BY <2>2
    <3>7. \A i \in 1 .. Len(text) : sub[i] = text[i]
      BY <2>6, <3>5, <3>6
    <3>8. QED BY <2>1, <2>2, <3>5, <3>7, SeqEqual DEF sub
  <2>13. n + 1 \notin Ends(data)
    BY <1>1, <2>2, <2>6 DEF Ends
  <2>14. ~HasNul(a) => e + 1 = n + Len(more) + 1
    BY <2>1, <2>2, <2>4
  <2>15. decode(data, data[n + 1], n + 2) = [text |-> text, next |-> e + 1]
    <3> HIDE DEF e
    <3>1. QED BY <2>6, <2>11, <2>12
  <2> HIDE DEF e
  <2>16. QED BY <2>13, <2>14, <2>15 DEF more, text
<1>4. QED BY <1>2, <1>3

\* Whatever comes after these bytes, the arguments are read from them first.
Readable(data, args) ==
    \A tail \in Seq(Codes) :
        Message(data \o tail)[HeaderSize + 1] =
            FlattenSeq(Texts(args)) \o Message(data \o tail)[Len(data) + 1]

LEMMA TextIs ==
    ASSUME NEW a \in Arguments
    PROVE  TextOf(a) \in Seq(Codes) /\ (Logged(a) = <<>> => TextOf(a) = <<>>)
<1>1. CASE a.type # "c_string"
  <2>1. a.type \in DOMAIN TypeId /\ a.value \in Codes
    BY <1>1, LinesAssumption DEF Codes
  <2>2. TextOf(a) = <<a.value>> /\ Logged(a) = ValueBytes(a.type, a.value)
    BY <1>1 DEF TextOf, Logged
  <2>3. Len(Logged(a)) # 0
    <3>1. Len(Logged(a)) = Sizeof[TypeId[a.type] + 1] + 1 /\ Sizeof[TypeId[a.type] + 1] \in Nat
      BY <1>1, <2>1, <2>2, ValueBytesAre
    <3>2. QED BY <3>1
  <2>4. Len(<<>>) = 0
    OBVIOUS
  <2>5. <<a.value>> \in Seq(Codes)
    BY <2>1
  <2>6. QED BY <2>2, <2>3, <2>4, <2>5
<1>2. CASE a.type = "c_string"
  <2> DEFINE chars == a.value
             text == TextOf(a)
  <2>1. /\ chars \in Seq(Codes) /\ Len(chars) \in Nat
        /\ text \in Seq(Codes) /\ Len(text) \in Nat /\ Len(text) <= Len(chars)
    BY <1>2, CutString
  <2>2. Logged(a) = IF chars = <<>> THEN <<>> ELSE StringBytes(chars)
    BY <1>2 DEF Logged
  <2> HIDE DEF chars, text
  <2>3. StringBytes(chars) # <<>>
    <3>1. Len(StringBytes(chars)) = Len(chars) + 2 /\ Len(chars) \in Nat
      BY <2>1, StringLogged
    <3>2. Len(<<>>) = 0 /\ Len(StringBytes(chars)) # 0
      BY <3>1
    <3>3. QED BY <3>2
  <2>4. chars = <<>> => text = <<>>
    <3>1. chars = <<>> => Len(text) = 0
      BY <2>1
    <3>2. QED BY <2>1, <3>1, EmptySeq
  <2>5. QED BY <2>1, <2>2, <2>3, <2>4 DEF text
<1>3. QED BY <1>1, <1>2

LEMMA TextsAppended ==
    ASSUME NEW args \in Seq(Arguments), NEW a \in Arguments
    PROVE  /\ FlattenSeq(Texts(Append(args, a))) = FlattenSeq(Texts(args)) \o TextOf(a)
           /\ FlattenSeq(Texts(args)) \in Seq(Codes)
<1> DEFINE n == Len(args)
           more == Append(args, a)
           t == Texts(args)
           u == Texts(more)
           T == Seq(Codes)
<1>1. /\ n \in Nat /\ DOMAIN args = 1 .. n /\ \A i \in 1 .. n : args[i] \in Arguments
      /\ DOMAIN more = 1 .. n + 1 /\ more[n + 1] = a /\ \A i \in 1 .. n : more[i] = args[i]
  OBVIOUS
<1>2. \A x \in Arguments : TextOf(x) \in T
  BY TextIs
<1> HIDE DEF n, more, T
<1>3. t \in [1 .. n -> T] /\ u \in [1 .. n + 1 -> T]
  <2>1. \A i \in 1 .. n + 1 : more[i] \in Arguments
    <3>1. \A i \in 1 .. n + 1 : i = n + 1 \/ i \in 1 .. n
      BY <1>1
    <3>2. QED BY <1>1, <3>1
  <2>2. QED BY <1>1, <1>2, <2>1 DEF Texts
<1>4. /\ u[n + 1] = TextOf(a) /\ \A i \in 1 .. n : u[i] = t[i]
  BY <1>1 DEF Texts
<1> HIDE DEF t, u
<1>5. t \in Seq(T) /\ Len(t) = n /\ u \in Seq(T) /\ Len(u) = n + 1
  BY <1>1, <1>3
<1>6. TextOf(a) \in T
  BY <1>2
<1>7. u = Append(t, TextOf(a))
  <2> DEFINE text == TextOf(a)
             v == Append(t, text)
  <2> HIDE DEF text
  <2>1. v \in Seq(T) /\ Len(v) = n + 1 /\ v[n + 1] = text /\ \A i \in 1 .. n : v[i] = t[i]
    BY <1>1, <1>5, <1>6, AppendProperties DEF text
  <2> HIDE DEF v
  <2>2. \A i \in 1 .. n + 1 : u[i] = v[i]
    <3>1. \A i \in 1 .. n + 1 : i = n + 1 \/ i \in 1 .. n
      BY <1>1
    <3>2. QED BY <1>4, <2>1, <3>1 DEF text
  <2>3. u = v
    BY <1>5, <2>1, <2>2, SeqEqual
  <2>4. QED BY <2>3 DEF v, text
<1>8. FlattenSeq(u) = FlattenSeq(t) \o TextOf(a) /\ FlattenSeq(t) \in Seq(Codes)
  BY <1>5, <1>6, <1>7, FlattenAppend, FlattenType DEF T
<1>9. QED BY <1>8 DEF t, u, more

\* What is read of a line that goes on with an argument: those before it, it, and, if it is
\* whole, what comes after it.
GoesOn(data, args, a, tail) ==
    LET all  == (data \o Logged(a)) \o tail
        text == FlattenSeq(Texts(Append(args, a)))
    IN  /\ all \in Seq(Codes) /\ text \in Seq(Codes)
        /\ \E b \in Nat \ {0} :
              /\ Message(all)[HeaderSize + 1] = text \o Message(all)[b]
              /\ ~HasNul(a) => b = Len(data \o Logged(a)) + 1

LEMMA ReadsOn ==
    ASSUME NEW data \in Seq(Codes), HeaderSize <= Len(data), NEW args \in Seq(Arguments),
           Readable(data, args), NEW a \in Arguments, Logged(a) \in Seq(Codes),
           NEW tail \in Seq(Codes)
    PROVE  GoesOn(data, args, a, tail)
<1> DEFINE more == Logged(a)
           n == Len(data)
           so == FlattenSeq(Texts(args))
           text == TextOf(a)
<1>1. /\ n \in Nat /\ more \in Seq(Codes) /\ Len(more) \in Nat /\ so \in Seq(Codes) /\ text \in Seq(Codes)
      /\ FlattenSeq(Texts(Append(args, a))) = so \o text
  BY TextIs, TextsAppended, LenProperties
<1>2. \A rear \in Seq(Codes) : Message(data \o rear)[HeaderSize + 1] =
                                   so \o Message(data \o rear)[n + 1]
  BY DEF Readable
<1> HIDE DEF more, n, so, text
<1>3. Len(data \o more) = n + Len(more)
  BY <1>1, ConcatProperties DEF n
<1> DEFINE all == (data \o more) \o tail
           rest == more \o tail
<1>4. all = data \o rest
  <2>1. Sequences3(Codes, data, more, tail)
    BY <1>1 DEF Sequences3
  <2>2. QED BY <2>1, Regrouped
<1>5. rest \in Seq(Codes) /\ Len(rest) = Len(more) + Len(tail) /\ Len(tail) \in Nat
      /\ \A i \in 1 .. Len(more) + Len(tail) :
             rest[i] = IF i <= Len(more) THEN more[i] ELSE tail[i - Len(more)]
  BY <1>1, ConcatProperties, LenProperties
<1> HIDE DEF rest, all
<1>6. /\ all \in Seq(Codes) /\ Len(all) = n + Len(rest)
      /\ \A i \in 1 .. n + Len(rest) : all[i] = IF i <= n THEN data[i] ELSE rest[i - n]
  <2> DEFINE both == data \o rest
  <2>1. rest \in Seq(Codes) /\ data \in Seq(Codes)
    BY <1>5
  <2>2. /\ both \in Seq(Codes) /\ Len(both) = Len(data) + Len(rest)
        /\ \A i \in 1 .. Len(data) + Len(rest) :
               both[i] = IF i <= Len(data) THEN data[i] ELSE rest[i - Len(data)]
    BY <2>1, ConcatProperties
  <2>3. both = all
    BY <1>4
  <2> HIDE DEF both
  <2>4. QED BY <2>2, <2>3 DEF n
<1> DEFINE msg == Message(all)
<1>7. msg[HeaderSize + 1] = so \o msg[n + 1]
  BY <1>2, <1>4, <1>5
<1>8. \E b \in Nat \ {0} : msg[n + 1] = text \o msg[b] /\ (~HasNul(a) => b = n + Len(more) + 1)
  <2>1. CASE more = <<>>
    <3>1. text = <<>>
      BY <2>1, TextIs DEF more, text
    <3>2. n + Len(more) + 1 = n + 1 /\ n + 1 \in Nat \ {0}
      BY <1>1, <2>1
    <3>3. msg[n + 1] \in Seq(Codes)
      BY <1>6, <3>2, MessageFrom
    <3>4. <<>> \o msg[n + 1] = msg[n + 1]
      BY <3>3, ConcatEmptySeq
    <3> HIDE DEF msg
    <3>5. QED BY <3>1, <3>2, <3>4
  <2>2. CASE more # <<>>
    <3>1. \A i \in 1 .. Len(more) : all[n + i] = more[i]
      <4>1. SUFFICES ASSUME NEW i \in 1 .. Len(more) PROVE all[n + i] = more[i]
        OBVIOUS
      <4>2. n + i \in 1 .. n + Len(rest) /\ ~(n + i <= n) /\ (n + i) - n = i
            /\ i \in 1 .. Len(more) + Len(tail) /\ i <= Len(more)
        BY <1>1, <1>5
      <4>3. all[n + i] = rest[i]
        BY <1>6, <4>2
      <4>4. QED BY <1>5, <4>2, <4>3
    <3>2. n + Len(more) <= Len(all) /\ Len(more) # 0
      BY <1>1, <1>5, <1>6, <2>2, EmptySeq
    <3>3. /\ n + 1 \notin Ends(all)
          /\ decode(all, all[n + 1], n + 2).text = text
          /\ ~HasNul(a) => decode(all, all[n + 1], n + 2).next = n + Len(more) + 1
      BY <1>1, <1>6, <2>2, <3>1, <3>2, LoggedReads DEF more, text
    <3> DEFINE x == n + 1
               value == decode(all, all[x], x + 1)
    <3>4. x \in Nat \ {0} /\ x + 1 = n + 2 /\ all \in Seq(Codes) /\ all[x] \in 0 .. 7
          /\ x <= Len(all)
      BY <1>1, <1>6, <3>2, <3>3 DEF Ends
    <3> HIDE DEF x
    <3>5. value.next \in Nat \ {0}
      <4>1. x + 1 \in Nat \ {0} /\ x + 1 <= Len(all) + 1
        BY <1>1, <1>5, <1>6, <3>4
      <4>2. QED BY <3>4, <4>1, DecodeIs
    <3>6. msg[x] = IF x \in Ends(all) THEN <<>> ELSE value.text \o msg[value.next]
      BY <3>4, MessageFrom
    <3>7. value.text = text /\ x \notin Ends(all) /\ (~HasNul(a) => value.next = n + Len(more) + 1)
      BY <3>3, <3>4 DEF x
    <3> HIDE DEF value, msg
    <3>8. msg[x] = text \o msg[value.next]
      BY <3>6, <3>7
    <3>9. QED BY <3>5, <3>7, <3>8 DEF x
  <2>3. QED BY <2>1, <2>2
<1>9. PICK b \in Nat \ {0} : msg[n + 1] = text \o msg[b] /\ (~HasNul(a) => b = n + Len(more) + 1)
  BY <1>8
<1>10. so \o (text \o msg[b]) = (so \o text) \o msg[b] /\ so \o text \in Seq(Codes)
  <2> DEFINE z == msg[b]
  <2>1. z \in Seq(Codes)
    BY <1>6, MessageFrom
  <2> HIDE DEF z
  <2>2. Sequences3(Codes, so, text, z)
    BY <1>1, <2>1 DEF Sequences3
  <2>3. (so \o text) \o z = so \o (text \o z)
    BY <2>2, Regrouped
  <2>4. so \o text \in Seq(Codes)
    BY <1>1, ConcatProperties
  <2>5. QED BY <2>3, <2>4 DEF z
<1> HIDE DEF msg
<1>11. msg[HeaderSize + 1] = (so \o text) \o msg[b]
  BY <1>7, <1>9, <1>10
<1> DEFINE flat == FlattenSeq(Texts(Append(args, a)))
<1>12. flat = so \o text
  BY <1>1
<1> HIDE DEF flat
<1>13. /\ flat \in Seq(Codes) /\ msg[HeaderSize + 1] = flat \o msg[b]
       /\ ~HasNul(a) => b = Len(data \o more) + 1
  BY <1>3, <1>9, <1>10, <1>11, <1>12
<1>14. QED BY <1>6, <1>13 DEF GoesOn, flat, msg, all, more

\* What is put in the line stays readable, up to a string that is cut.
LEMMA ReadableStays ==
    ASSUME NEW data \in Seq(Codes), HeaderSize <= Len(data), NEW args \in Seq(Arguments),
           Readable(data, args), NEW a \in Arguments, Logged(a) \in Seq(Codes), ~HasNul(a)
    PROVE  Readable(data \o Logged(a), Append(args, a))
<1> DEFINE now == data \o Logged(a)
           more == Append(args, a)
<1>1. SUFFICES ASSUME NEW tail \in Seq(Codes)
               PROVE  Message(now \o tail)[HeaderSize + 1] =
                          FlattenSeq(Texts(more)) \o Message(now \o tail)[Len(now) + 1]
  <2> HIDE DEF now, more
  <2>1. QED BY DEF Readable, now, more
<1>2. GoesOn(data, args, a, tail)
  BY ReadsOn
<1> DEFINE all == now \o tail
           text == FlattenSeq(Texts(more))
<1>3. \E b \in Nat \ {0} : /\ Message(all)[HeaderSize + 1] = text \o Message(all)[b]
                           /\ b = Len(now) + 1
  BY <1>2 DEF GoesOn
<1> HIDE DEF all, text, now
<1>4. Message(all)[HeaderSize + 1] = text \o Message(all)[Len(now) + 1]
  BY <1>3
<1>5. QED BY <1>4 DEF all, text

\* Whatever comes after these bytes, the message begins with the arguments up to the first
\* string with a NUL, and with that up to its NUL.
CutReadable(data, args) ==
    \A k \in DOMAIN args : FirstCut(args, k) =>
        \A tail \in Seq(Codes) :
            IsPrefix(FlattenSeq(Texts(SubSeq(args, 1, k))), Message(data \o tail)[HeaderSize + 1])

Whole(args) == \A i \in DOMAIN args : ~HasNul(args[i])

LEMMA CutStays ==
    ASSUME NEW data \in Seq(Codes), HeaderSize <= Len(data), NEW args \in Seq(Arguments),
           Whole(args) => Readable(data, args), CutReadable(data, args),
           NEW a \in Arguments, Logged(a) \in Seq(Codes)
    PROVE  CutReadable(data \o Logged(a), Append(args, a))
<1> DEFINE more == Append(args, a)
           now == data \o Logged(a)
           n == Len(args)
<1>1. /\ n \in Nat /\ DOMAIN args = 1 .. n /\ DOMAIN more = 1 .. n + 1
      /\ more[n + 1] = a /\ \A i \in 1 .. n : more[i] = args[i]
  OBVIOUS
<1>2. SUFFICES ASSUME NEW k \in 1 .. n + 1, FirstCut(more, k), NEW tail \in Seq(Codes)
               PROVE  IsPrefix(FlattenSeq(Texts(SubSeq(more, 1, k))),
                               Message(now \o tail)[HeaderSize + 1])
  <2> HIDE DEF more, now, n
  <2>1. QED BY <1>1 DEF CutReadable, more, now
<1>3. HasNul(more[k]) /\ \A i \in 1 .. k - 1 : ~HasNul(more[i])
  BY <1>2 DEF FirstCut
<1>4. CASE k \in 1 .. n
  <2>1. FirstCut(args, k)
    <3>1. more[k] = args[k] /\ \A i \in 1 .. k - 1 : i \in 1 .. n /\ more[i] = args[i]
      BY <1>1, <1>4
    <3> HIDE DEF more, n
    <3>2. QED BY <1>1, <1>3, <1>4, <3>1 DEF FirstCut
  <2>2. SubSeq(more, 1, k) = SubSeq(args, 1, k)
    BY <1>1, <1>4, FirstOnesStay
  <2>3. now \o tail = data \o (Logged(a) \o tail) /\ Logged(a) \o tail \in Seq(Codes)
    <3> DEFINE logged == Logged(a)
    <3>1. logged \in Seq(Codes)
      OBVIOUS
    <3> HIDE DEF logged
    <3>2. Sequences3(Codes, data, logged, tail)
      BY <3>1 DEF Sequences3
    <3>3. (data \o logged) \o tail = data \o (logged \o tail) /\ logged \o tail \in Seq(Codes)
      BY <3>1, <3>2, Regrouped, ConcatProperties
    <3>4. QED BY <3>3 DEF logged
  <2> HIDE DEF more, now
  <2>4. QED BY <1>1, <1>4, <2>1, <2>2, <2>3 DEF CutReadable
<1>5. CASE k = n + 1
  <2>1. Whole(args)
    <3>1. \A i \in 1 .. n : i \in 1 .. k - 1 /\ more[i] = args[i]
      BY <1>1, <1>5
    <3> HIDE DEF more, n
    <3>2. QED BY <1>1, <1>3, <3>1 DEF Whole
  <2>2. SubSeq(more, 1, k) = more
    BY <1>1, <1>5, SubSeqFull
  <2> DEFINE text == FlattenSeq(Texts(more))
             msg == Message(now \o tail)
  <2>3. /\ text \in Seq(Codes) /\ now \o tail \in Seq(Codes)
        /\ \E b \in Nat \ {0} : msg[HeaderSize + 1] = text \o msg[b]
    <3>1. Readable(data, args)
      BY <2>1
    <3> DEFINE all == (data \o Logged(a)) \o tail
               whole == FlattenSeq(Texts(Append(args, a)))
    <3>a. GoesOn(data, args, a, tail)
      BY <3>1, ReadsOn
    <3>2. /\ all \in Seq(Codes) /\ whole \in Seq(Codes)
          /\ \E b \in Nat \ {0} :
                /\ Message(all)[HeaderSize + 1] = whole \o Message(all)[b]
                /\ ~HasNul(a) => b = Len(data \o Logged(a)) + 1
      BY <3>a DEF GoesOn
    <3>3. all = now \o tail /\ whole = text
      OBVIOUS
    <3> HIDE DEF all, whole, text, now
    <3>4. QED BY <3>2, <3>3
  <2>4. PICK b \in Nat \ {0} : msg[HeaderSize + 1] = text \o msg[b]
    BY <2>3
  <2> DEFINE z == msg[b]
  <2>5. z \in Seq(Codes)
    <3> DEFINE all == now \o tail
    <3> HIDE DEF all, now
    <3>1. QED BY <2>3, MessageFrom DEF all
  <2> HIDE DEF z, msg, text
  <2>6. IsPrefix(text, text \o z)
    <3>1. /\ Len(text \o z) = Len(text) + Len(z) /\ Len(text) \in Nat /\ Len(z) \in Nat
          /\ SubSeq(text \o z, 1, Len(text)) = text
      BY <2>3, <2>5, ConcatParts
    <3>2. SubSeq(text, 1, Len(text)) = text
      BY <2>3, SubSeqFull
    <3>3. QED BY <3>1, <3>2 DEF IsPrefix
  <2>7. msg[HeaderSize + 1] = text \o z
    BY <2>4 DEF z
  <2> HIDE DEF more, now
  <2>8. QED BY <2>2, <2>6, <2>7 DEF text, msg
<1>6. QED BY <1>1, <1>4, <1>5

-----------------------------------------------------------------------------
(* The header *)

\* A line whose first bytes were written before.
Extends(l, was, value, n, size) ==
    /\ l \in LogLines /\ l.size = was.size /\ Len(l.bytes) = n + size
    /\ l.bytes[n + 1] = value /\ \A i \in 1 .. n : l.bytes[i] = was.bytes[i]

LEMMA EncodeExtends ==
    ASSUME NEW l \in LogLines, NEW value \in Int, NEW size \in Nat \ {0}, NEW n \in Nat,
           Len(l.bytes) = n
    PROVE  Extends(encode(l, value, size), l, value, n, size)
<1> DEFINE was == l.bytes
           e == Encoded(value, size)
           after == encode(l, value, size)
<1>1. value \in Codes
  BY DEF Codes
<1>2. /\ after \in LogLines /\ after.size = l.size /\ after.bytes = was \o e
  BY <1>1, EncodeAdds
<1>3. e \in Seq(Codes) /\ Len(e) = size /\ e[1] = value
  BY <1>1, EncodedIs
<1>4. was \in Seq(Codes) /\ Len(was) = n
  BY DEF LogLines
<1> HIDE DEF was, e, after
<1> DEFINE both == was \o e
<1>5. /\ Len(both) = Len(was) + Len(e)
      /\ \A i \in 1 .. Len(was) + Len(e) : both[i] = IF i <= Len(was) THEN was[i] ELSE e[i - Len(was)]
  BY <1>3, <1>4, ConcatProperties
<1> HIDE DEF both
<1>6. Len(both) = n + size /\ both[n + 1] = value /\ \A i \in 1 .. n : both[i] = was[i]
  <2>1. n + 1 \in 1 .. n + size /\ ~(n + 1 <= n) /\ (n + 1) - n = 1
        /\ \A i \in 1 .. n : i \in 1 .. n + size /\ i <= n
    OBVIOUS
  <2>2. QED BY <1>3, <1>4, <1>5, <2>1
<1>7. QED BY <1>2, <1>6 DEF Extends, was, after, both

HasHeader(data) ==
    /\ data[1] = Fields.time /\ data[9] = Fields.tid /\ data[13] = Fields.file
    /\ data[21] = Fields.function /\ data[29] = Fields.number /\ data[33] = Fields.level

\* Log.cpp:98-108: where the six fields are.
LEMMA HeaderIs ==
    /\ Header(Fields) \in LogLines /\ Header(Fields).size = StackBuffer
    /\ Len(Header(Fields).bytes) = HeaderSize /\ HasHeader(Header(Fields).bytes)
<1> DEFINE l0 == [bytes |-> <<>>, size |-> StackBuffer]
           l1 == encode(l0, Fields.time, 8)
           l2 == encode(l1, Fields.tid, 4)
           l3 == encode(l2, Fields.file, 8)
           l4 == encode(l3, Fields.function, 8)
           l5 == encode(l4, Fields.number, 4)
           l6 == encode(l5, Fields.level, 1)
<1>1. l6 = Header(Fields)
  BY DEF Header
<1>2. /\ Fields.time \in Int /\ Fields.tid \in Int /\ Fields.file \in Int
      /\ Fields.function \in Int /\ Fields.number \in Int /\ Fields.level \in Int
  BY LinesAssumption
<1>3. l0 \in LogLines /\ l0.size = StackBuffer /\ Len(l0.bytes) = 0
  BY DEF LogLines, StackBuffer
<1> HIDE DEF l0
<1>4. Extends(l1, l0, Fields.time, 0, 8)
  <2>1. 0 \in Nat /\ 8 \in Nat \ {0}
    OBVIOUS
  <2>2. QED BY <1>2, <1>3, <2>1, EncodeExtends
<1> HIDE DEF l1
<1>5. Extends(l2, l1, Fields.tid, 8, 4)
  <2>1. 8 \in Nat /\ 4 \in Nat \ {0} /\ 0 + 8 = 8
    OBVIOUS
  <2>2. l1 \in LogLines /\ Len(l1.bytes) = 8
    BY <1>4, <2>1 DEF Extends
  <2>3. QED BY <1>2, <2>1, <2>2, EncodeExtends
<1> HIDE DEF l2
<1>6. Extends(l3, l2, Fields.file, 12, 8)
  <2>1. 12 \in Nat /\ 8 \in Nat \ {0} /\ 8 + 4 = 12
    OBVIOUS
  <2>2. l2 \in LogLines /\ Len(l2.bytes) = 12
    BY <1>5, <2>1 DEF Extends
  <2>3. QED BY <1>2, <2>1, <2>2, EncodeExtends
<1> HIDE DEF l3
<1>7. Extends(l4, l3, Fields.function, 20, 8)
  <2>1. 20 \in Nat /\ 8 \in Nat \ {0} /\ 12 + 8 = 20
    OBVIOUS
  <2>2. l3 \in LogLines /\ Len(l3.bytes) = 20
    BY <1>6, <2>1 DEF Extends
  <2>3. QED BY <1>2, <2>1, <2>2, EncodeExtends
<1> HIDE DEF l4
<1>8. Extends(l5, l4, Fields.number, 28, 4)
  <2>1. 28 \in Nat /\ 4 \in Nat \ {0} /\ 20 + 8 = 28
    OBVIOUS
  <2>2. l4 \in LogLines /\ Len(l4.bytes) = 28
    BY <1>7, <2>1 DEF Extends
  <2>3. QED BY <1>2, <2>1, <2>2, EncodeExtends
<1> HIDE DEF l5
<1>9. Extends(l6, l5, Fields.level, 32, 1)
  <2>1. 32 \in Nat /\ 1 \in Nat \ {0} /\ 28 + 4 = 32
    OBVIOUS
  <2>2. l5 \in LogLines /\ Len(l5.bytes) = 32
    BY <1>8, <2>1 DEF Extends
  <2>3. QED BY <1>2, <2>1, <2>2, EncodeExtends
<1> HIDE DEF l6
<1>10. /\ l6 \in LogLines /\ l6.size = StackBuffer /\ Len(l6.bytes) = 33
  BY <1>3, <1>4, <1>5, <1>6, <1>7, <1>8, <1>9 DEF Extends
<1>11. /\ l1.bytes[1] = Fields.time /\ l2.bytes[9] = Fields.tid /\ l3.bytes[13] = Fields.file
       /\ l4.bytes[21] = Fields.function /\ l5.bytes[29] = Fields.number
       /\ l6.bytes[33] = Fields.level
  BY <1>4, <1>5, <1>6, <1>7, <1>8, <1>9 DEF Extends
<1>12. /\ \A i \in 1 .. 8 : l2.bytes[i] = l1.bytes[i]
       /\ \A i \in 1 .. 12 : l3.bytes[i] = l2.bytes[i]
       /\ \A i \in 1 .. 20 : l4.bytes[i] = l3.bytes[i]
       /\ \A i \in 1 .. 28 : l5.bytes[i] = l4.bytes[i]
       /\ \A i \in 1 .. 32 : l6.bytes[i] = l5.bytes[i]
  BY <1>5, <1>6, <1>7, <1>8, <1>9 DEF Extends
<1>13. HasHeader(l6.bytes)
  BY <1>11, <1>12 DEF HasHeader
<1>14. HeaderSize = 33
  BY DEF HeaderSize
<1>15. QED BY <1>1, <1>10, <1>13, <1>14

-----------------------------------------------------------------------------
(* The walk *)

LineInv ==
    /\ walk = "line" /\ input \in Seq(Arguments)
    /\ Holds(original, original.bytes) /\ original.bytes \in Seq(Codes)
    /\ HeaderSize <= Len(original.bytes) /\ HasHeader(original.bytes)
    /\ Whole(input) => Readable(original.bytes, input)
    /\ CutReadable(original.bytes, input)

\* Log.cpp:92-222, 216-355: whatever the arguments, however many, of whatever length, the
\* line has room for them, and what is written of it is each of them once and in order; if
\* a string has a NUL, those before it and it up to its first NUL come first.
THEOREM LinesReadBack == LineSpec => []LineReadsBack
<1>1. LineInit => LineInv
  <2>1. SUFFICES ASSUME LineInit PROVE LineInv
    OBVIOUS
  <2> DEFINE data == original.bytes
  <2>2. /\ walk = "line" /\ input = <<>> /\ original \in LogLines /\ original.size = StackBuffer
        /\ Len(data) = HeaderSize /\ HasHeader(data)
    BY <2>1, HeaderIs DEF LineInit
  <2>3. data \in Seq(Codes) /\ HeaderSize = 33 /\ StackBuffer = 224
    BY <2>2 DEF LogLines, HeaderSize, StackBuffer
  <2>4. Holds(original, data)
    BY <2>2, <2>3 DEF Holds
  <2>5. Readable(data, input)
    <3> HIDE DEF data
    <3>1. SUFFICES ASSUME NEW tail \in Seq(Codes)
                   PROVE  Message(data \o tail)[HeaderSize + 1] =
                              FlattenSeq(Texts(input)) \o Message(data \o tail)[Len(data) + 1]
      BY DEF Readable
    <3>2. FlattenSeq(Texts(input)) = <<>>
      <4>1. Texts(<<>>) = <<>>
        BY DEF Texts
      <4>2. QED BY <2>2, <4>1, FlattenEmpty
    <3> DEFINE all == data \o tail
               z == Message(all)[HeaderSize + 1]
    <3>3. z \in Seq(Codes)
      <4>1. all \in Seq(Codes) /\ HeaderSize + 1 \in Nat \ {0}
        BY <2>3, ConcatProperties
      <4> HIDE DEF all
      <4>2. QED BY <4>1, MessageFrom
    <3> HIDE DEF z
    <3>4. <<>> \o z = z
      BY <3>3, ConcatEmptySeq
    <3>5. QED BY <2>2, <3>2, <3>4 DEF z
  <2>6. input \in Seq(Arguments) /\ HeaderSize <= Len(data)
    BY <2>2, <2>3
  <2>7. CutReadable(data, input)
    <3>1. DOMAIN input = {}
      BY <2>2
    <3>2. QED BY <3>1 DEF CutReadable
  <2>8. QED BY <2>2, <2>3, <2>4, <2>5, <2>6, <2>7 DEF LineInv
<1>2. LineInv /\ [NextArgument]_walkVars => LineInv'
  <2>1. SUFFICES ASSUME LineInv, [NextArgument]_walkVars PROVE LineInv'
    OBVIOUS
  <2>2. CASE NextArgument
    <3>1. PICK a \in Arguments : /\ input' = Append(input, a)
                                 /\ original' = put(original, a.type, a.value)
      BY <2>2 DEF NextArgument
    <3>2. walk' = walk
      BY <2>2 DEF NextArgument
    <3> DEFINE was == original.bytes
               more == Logged(a)
               now == was \o more
    <3>3. /\ was \in Seq(Codes) /\ Holds(original, was) /\ HeaderSize <= Len(was) /\ HasHeader(was)
          /\ Whole(input) => Readable(was, input)
          /\ CutReadable(was, input) /\ input \in Seq(Arguments) /\ walk = "line"
      BY <2>1 DEF LineInv
    <3> HIDE DEF was
    <3>4. Holds(original', now) /\ more \in Seq(Codes)
      BY <3>1, <3>3, PutAdds
    <3>5. Whole(Append(input, a)) => Readable(now, Append(input, a))
      <4>1. SUFFICES ASSUME Whole(Append(input, a)) PROVE Readable(now, Append(input, a))
        OBVIOUS
      <4> DEFINE m == Len(input)
                 inputs == Append(input, a)
      <4>2. /\ m \in Nat /\ DOMAIN input = 1 .. m /\ DOMAIN inputs = 1 .. m + 1
            /\ inputs[m + 1] = a /\ \A i \in 1 .. m : inputs[i] = input[i]
        BY <3>3
      <4>3. Whole(input) /\ ~HasNul(a)
        <5>1. \A i \in 1 .. m + 1 : ~HasNul(inputs[i])
          BY <4>1, <4>2 DEF Whole
        <5>2. m + 1 \in 1 .. m + 1 /\ \A i \in 1 .. m : i \in 1 .. m + 1
          BY <4>2
        <5> HIDE DEF m, inputs
        <5>3. QED BY <4>2, <5>1, <5>2 DEF Whole
      <4>4. QED BY <3>3, <3>4, <4>3, ReadableStays
    <3>cut. CutReadable(now, Append(input, a))
      BY <3>3, <3>4, CutStays
    <3> HIDE DEF more
    <3>6. /\ now \in Seq(Codes) /\ Len(now) = Len(was) + Len(more)
          /\ \A i \in 1 .. Len(was) + Len(more) :
                 now[i] = IF i <= Len(was) THEN was[i] ELSE more[i - Len(was)]
          /\ Len(was) \in Nat /\ Len(more) \in Nat
      BY <3>3, <3>4, ConcatProperties, LenProperties
    <3> HIDE DEF now
    <3>7. HeaderSize <= Len(now) /\ HasHeader(now)
      <4>1. HeaderSize = 33 /\ Len(was) >= 33 /\ Len(was) + Len(more) >= 33
        BY <3>3, <3>6 DEF HeaderSize
      <4>2. ASSUME NEW i \in 1 .. 33 PROVE now[i] = was[i]
        <5>1. i \in 1 .. Len(was) + Len(more) /\ i <= Len(was)
          BY <3>6, <4>1
        <5>2. QED BY <3>6, <5>1
      <4>3. /\ now[1] = was[1] /\ now[9] = was[9] /\ now[13] = was[13]
            /\ now[21] = was[21] /\ now[29] = was[29] /\ now[33] = was[33]
        BY <4>2
      <4>4. HasHeader(now)
        BY <3>3, <4>3 DEF HasHeader
      <4>5. HeaderSize <= Len(now)
        BY <3>6, <4>1
      <4>6. QED BY <4>4, <4>5
    <3>8. original'.bytes = now
      BY <3>4 DEF Holds
    <3>9. Append(input, a) \in Seq(Arguments)
      BY <3>3
    <3>10. /\ walk' = "line" /\ input' \in Seq(Arguments)
           /\ Holds(original', original'.bytes) /\ original'.bytes \in Seq(Codes)
           /\ HeaderSize <= Len(original'.bytes) /\ HasHeader(original'.bytes)
           /\ Whole(input') => Readable(original'.bytes, input')
           /\ CutReadable(original'.bytes, input')
      BY <3>1, <3>2, <3>3, <3>4, <3>5, <3>6, <3>7, <3>8, <3>9, <3>cut
    <3>11. QED BY <3>10 DEF LineInv, Holds, HasHeader, Readable, Texts, CutReadable, FirstCut,
                            Whole
  <2>3. CASE UNCHANGED walkVars
    BY <2>1, <2>3 DEF LineInv, walkVars, Holds, HasHeader, Readable, Texts, CutReadable,
                      FirstCut, Whole
  <2>4. QED BY <2>1, <2>2, <2>3
<1>3. LineInv => LineReadsBack
  <2>1. SUFFICES ASSUME LineInv PROVE LineReadsBack
    OBVIOUS
  <2> DEFINE data == original.bytes
             n == Len(data)
             so == FlattenSeq(Texts(input))
             message == Message(data)[HeaderSize + 1]
  <2>2. /\ data \in Seq(Codes) /\ HeaderSize <= n /\ HasHeader(data)
        /\ Whole(input) => Readable(data, input)
        /\ CutReadable(data, input) /\ input \in Seq(Arguments) /\ n <= original.size
    BY <2>1 DEF LineInv, Holds
  <2> HIDE DEF data
  <2>3. n \in Nat /\ <<>> \in Seq(Codes) /\ data \o <<>> = data
    BY <2>2, LenProperties, ConcatEmptySeq
  <2>4. Message(data)[n + 1] = <<>>
    <3>1. n + 1 \in Nat \ {0} /\ n + 1 > n
      BY <2>3
    <3>2. n + 1 \in Ends(data)
      BY <3>1 DEF Ends
    <3>3. QED BY <2>2, <3>1, <3>2, MessageFrom
  <2>5. so \in Seq(Codes)
    <3>1. CASE Arguments = {}
      <4>1. input = <<>>
        BY <2>2, <3>1
      <4>2. Texts(<<>>) = <<>>
        BY DEF Texts
      <4>3. so = <<>>
        BY <4>1, <4>2, FlattenEmpty
      <4> HIDE DEF so
      <4>4. <<>> \in Seq(Codes)
        OBVIOUS
      <4>5. QED BY <4>3, <4>4
    <3>2. CASE Arguments # {}
      BY <2>2, <3>2, TextsAppended
    <3>3. QED BY <3>1, <3>2
  <2> HIDE DEF so, n
  <2>6. Whole(input) => message = so
    <3>1. SUFFICES ASSUME Whole(input) PROVE message = so
      OBVIOUS
    <3>2. Message(data)[HeaderSize + 1] = so \o Message(data)[n + 1]
      BY <2>2, <2>3, <3>1 DEF Readable, so, n
    <3>3. QED BY <2>4, <2>5, <3>2, ConcatEmptySeq
  <2>7. \A k \in DOMAIN input : FirstCut(input, k) =>
            IsPrefix(FlattenSeq(Texts(SubSeq(input, 1, k))), message)
    BY <2>2, <2>3 DEF CutReadable
  <2>8. stringify(original) =
            <<Fields.time, Fields.tid, Fields.level>> \o message
                \o <<Fields.file, Fields.function, Fields.number>>
    <3>1. HeaderSize = 33
      BY DEF HeaderSize
    <3>2. /\ data[1] = Fields.time /\ data[9] = Fields.tid /\ data[HeaderSize] = Fields.level
          /\ data[13] = Fields.file /\ data[21] = Fields.function /\ data[29] = Fields.number
      BY <2>2, <3>1 DEF HasHeader
    <3>3. QED BY <3>2 DEF stringify, data
  <2> HIDE DEF message
  <2>9. QED BY <2>2, <2>6, <2>7, <2>8 DEF LineReadsBack, so, data, n, message, Whole
<1>4. QED BY <1>1, <1>2, <1>3, PTL DEF LineSpec
==============================================================================
