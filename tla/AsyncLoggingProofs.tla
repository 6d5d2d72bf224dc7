------------------------- MODULE AsyncLoggingProofs -------------------------
(***************************************************************************)
(* Theorems about AsyncLogging for every buffer size, line length, backlog *)
(* limit and number of appends.                                            *)
(***************************************************************************)
EXTENDS AsyncLogging, DataLemmas

\* Which values the owner, running_, the latch and the logging thread can have together.
Control ==
    /\ running <=> owner \in {"starting", "started"}
    /\ owner = "fresh" <=> pc = "none"
    /\ latch = 1 <=> pc \in {"none", "begin"}
    /\ pc = "begin" => owner = "starting"

\* Where the four spare buffers are.  The last conjunct of each part is the one
\* that keeps the refill from finding the batch too short.
Spares ==
    /\ nextBuffer \in {EmptyBuffer, NoBuffer}
    /\ nextBuffer = NoBuffer => buffers # <<>>
    /\ pc \in {"none", "begin", "test", "lock", "waiting", "final", "done"} =>
          buffersToWrite = <<>> /\ next = 1
    /\ pc \in {"test", "lock", "waiting"} =>
          newBuffer1 = EmptyBuffer /\ newBuffer2 = EmptyBuffer
    /\ pc \in {"cut", "write"} =>
          /\ newBuffer1 = NoBuffer /\ newBuffer2 \in {EmptyBuffer, NoBuffer}
          /\ Len(buffersToWrite) >= 1
          /\ newBuffer2 = NoBuffer => Len(buffersToWrite) >= 2
    /\ pc = "cut" => next = 1

BufferInv == TypeOK /\ NoAssertFails /\ Control /\ Spares

-----------------------------------------------------------------------------
(* The buffer operations *)

\* FixedBuffer::append keeps cur_ short of the end of the buffer.
LEMMA StoreType ==
    ASSUME NEW b \in Buffer, NEW m \in Line, NEW len \in Lengths
    PROVE  store(b, m, len) \in Buffer
BY ConstantsAssumption DEF store, fits, avail, Buffer

LEMMA EmptyBufferType == EmptyBuffer \in Buffer /\ EmptyBuffer # NoBuffer
<1>1. <<>> \in Seq(Line) /\ 0 \in 0 .. BufferSize - 1
  BY ConstantsAssumption
<1>2. EmptyBuffer \in Buffer
  BY <1>1 DEF EmptyBuffer, Buffer
<1>3. QED BY <1>2, NoBufferAssumption

LEMMA BufferLines == ASSUME NEW b \in Buffer PROVE LinesOf(b) \subseteq Line
BY DEF LinesOf, Buffer

-----------------------------------------------------------------------------
(* Every step keeps BufferInv *)

LEMMA InitBufferInv == Init => BufferInv
<1> SUFFICES ASSUME Init PROVE BufferInv
  OBVIOUS
<1>1. buffers \in Seq(Buffer) /\ buffersToWrite \in Seq(Buffer) /\ file \in Seq(Nat)
  BY DEF Init
<1>2. /\ currentBuffer \in Buffer /\ nextBuffer \in Buffer \cup {NoBuffer}
      /\ newBuffer1 \in Buffer \cup {NoBuffer} /\ newBuffer2 \in Buffer \cup {NoBuffer}
  BY EmptyBufferType DEF Init
<1>3. oversized = {} /\ dropped = {}
  BY DEF Init
<1>4. /\ latch \in {0, 1} /\ next \in Nat \ {0} /\ flushed \in Nat /\ appended \in Nat
      /\ owner = "fresh" /\ pc = "none" /\ running = FALSE /\ signalled = FALSE
  BY DEF Init
<1>5. TypeOK
  BY <1>1, <1>2, <1>3, <1>4 DEF TypeOK
<1>6. QED BY <1>5, EmptyBufferType DEF Init, BufferInv, NoAssertFails, Control, Spares

LEMMA AppendKeeps ==
    ASSUME BufferInv, NEW len \in Lengths, append(len)
    PROVE  BufferInv'
<1> USE DEF BufferInv, NoAssertFails
<1> DEFINE line == appended + 1
           room == fits(currentBuffer, len)
           target == IF room THEN currentBuffer
                     ELSE IF nextBuffer # NoBuffer THEN nextBuffer ELSE EmptyBuffer
<1>1. line \in Line /\ target \in Buffer
  BY EmptyBufferType DEF TypeOK, Line
<1>2. store(target, line, len) \in Buffer
  BY <1>1, StoreType
<1>a. currentBuffer' \in Buffer /\ nextBuffer' \in Buffer \cup {NoBuffer}
  BY <1>2 DEF append, TypeOK
<1>b. /\ buffers' \in Seq(Buffer)
      /\ IF room THEN buffers' = buffers /\ nextBuffer' = nextBuffer ELSE buffers' # <<>>
  <2>1. buffers \in Seq(Buffer) /\ currentBuffer \in Buffer
    BY DEF TypeOK
  <2>2. Append(buffers, currentBuffer) \in Seq(Buffer) /\ Append(buffers, currentBuffer) # <<>>
    BY <2>1, AppendProperties
  <2>3. QED BY <2>1, <2>2 DEF append
<1>c. signalled' \in BOOLEAN
  BY DEF append, TypeOK
<1>d. appended' \in Nat /\ oversized' \subseteq Line
  BY <1>1 DEF append, TypeOK
<1>3. TypeOK'
  BY <1>a, <1>b, <1>c, <1>d DEF append, TypeOK, locals, output
<1>4. Control'
  BY DEF append, Control
<1>5. Spares'
  BY <1>b, EmptyBufferType DEF append, Spares, locals, TypeOK
<1>6. QED BY <1>3, <1>4, <1>5 DEF append

LEMMA TakeBuffersKeeps ==
    ASSUME BufferInv, pc \in {"lock", "waiting"}, takeBuffers,
           pc = "lock" => buffers # <<>>,
           UNCHANGED <<owner, running, latch, output, history>>, signalled' \in BOOLEAN
    PROVE  BufferInv'
<1> USE DEF BufferInv, NoAssertFails
<1>1. TypeOK'
  BY EmptyBufferType DEF takeBuffers, Goto, TypeOK, Spares, output, history
<1>2. Control'
  BY DEF takeBuffers, Goto, Control
<1>3. Spares'
  BY EmptyBufferType DEF takeBuffers, Goto, Spares, TypeOK
<1>4. QED BY <1>1, <1>2, <1>3 DEF takeBuffers, Goto

LEMMA CutBacklogKeeps ==
    ASSUME BufferInv, cutBacklog
    PROVE  BufferInv'
<1> USE DEF BufferInv, NoAssertFails
<1>1. buffersToWrite # <<>> /\ pc' = "write"
  BY DEF cutBacklog, Asserted, Goto, Spares
<1>2. buffersToWrite' \in Seq(Buffer) /\ dropped' \subseteq Line /\ file' \in Seq(Nat)
  <2>1. CASE Len(buffersToWrite) > MaxBacklog
    <3>1. \A i \in Kept + 1 .. Len(buffersToWrite) : LinesOf(buffersToWrite[i]) \subseteq Line
      BY BufferLines DEF TypeOK, Kept
    <3>2. UNION {LinesOf(buffersToWrite[i]) : i \in Kept + 1 .. Len(buffersToWrite)}
              \subseteq Line
      BY <3>1
    <3>3. SubSeq(buffersToWrite, 1, Kept) \in Seq(Buffer)
      <4>1. \A i \in 1 .. 2 : buffersToWrite[i] \in Buffer
        BY <2>1, ConstantsAssumption DEF TypeOK
      <4>2. QED BY <4>1, SubSeqProperties DEF Kept
    <3>4. file' \in Seq(Nat)
      BY <2>1, Append(file, 0) \in Seq(Nat) DEF cutBacklog, TypeOK, Notice
    <3>5. dropped' \subseteq Line
      BY <2>1, <3>2 DEF cutBacklog, TypeOK
    <3>6. QED BY <2>1, <3>3, <3>4, <3>5 DEF cutBacklog
  <2>2. CASE ~(Len(buffersToWrite) > MaxBacklog)
    BY <2>2 DEF cutBacklog, TypeOK
  <2>3. QED BY <2>1, <2>2
<1>3. buffersToWrite' = buffersToWrite \/ Len(buffersToWrite') = 2
  <2>1. \A i \in 1 .. 2 : Len(buffersToWrite) > MaxBacklog => buffersToWrite[i] \in Buffer
    BY ConstantsAssumption DEF TypeOK
  <2>2. Len(buffersToWrite) > MaxBacklog => Len(SubSeq(buffersToWrite, 1, Kept)) = 2
    BY <2>1, SubSeqProperties DEF Kept
  <2>3. QED BY <2>2 DEF cutBacklog
<1>4. TypeOK'
  BY <1>1, <1>2 DEF cutBacklog, TypeOK, shared
<1>5. Control'
  BY <1>1 DEF cutBacklog, Control
<1>6. Spares'
  <2>1. UNCHANGED <<currentBuffer, nextBuffer, buffers, newBuffer1, newBuffer2, next>>
    BY DEF cutBacklog, shared
  <2>2. pc = "cut"
    BY DEF cutBacklog
  <2>3. Len(buffersToWrite') >= 1 /\ (Len(buffersToWrite) >= 2 => Len(buffersToWrite') >= 2)
    BY <1>3, <2>2 DEF Spares
  <2>4. QED BY <1>1, <2>1, <2>2, <2>3 DEF Spares
<1>7. QED BY <1>1, <1>4, <1>5, <1>6

LEMMA WriteBufferKeeps ==
    ASSUME BufferInv, writeBuffer
    PROVE  BufferInv'
<1> USE DEF BufferInv, NoAssertFails
<1>1. file' \in Seq(Nat)
  <2>1. buffersToWrite[next] \in Buffer
    BY DEF writeBuffer, TypeOK
  <2>. buffersToWrite[next].data \in Seq(Line) /\ Line \subseteq Nat
    BY <2>1 DEF Buffer, Line
  <2>2. buffersToWrite[next].data \in Seq(Nat)
    BY SeqMonotonic
  <2>3. QED BY <2>2, ConcatProperties DEF writeBuffer, TypeOK
<1>2. TypeOK'
  BY <1>1 DEF writeBuffer, TypeOK, shared, history
<1>3. Control'
  BY DEF writeBuffer, Control
<1>4. Spares'
  BY DEF writeBuffer, Spares, shared
<1>5. QED BY <1>2, <1>3, <1>4 DEF writeBuffer

\* The refill finds the buffers it wants: the inequality is the assertion's.
LEMMA RecycleBuffersKeeps ==
    ASSUME BufferInv, recycleBuffers
    PROVE  BufferInv'
<1> USE DEF BufferInv, NoAssertFails
<1>1. pc' = "test"
  BY EmptyBufferType DEF recycleBuffers, recyclable, Asserted, Goto, Spares
<1>2. newBuffer1' = EmptyBuffer /\ newBuffer2' = EmptyBuffer
  BY EmptyBufferType DEF recycleBuffers, Spares
<1>3. buffersToWrite' = <<>> /\ next' = 1 /\ buffersToWrite' \in Seq(Buffer)
  BY DEF recycleBuffers
<1>4. TypeOK'
  BY <1>1, <1>2, <1>3, EmptyBufferType DEF recycleBuffers, TypeOK, shared, history
<1>5. Control'
  BY <1>1 DEF recycleBuffers, Control
<1>6. Spares'
  BY <1>1, <1>2, <1>3 DEF recycleBuffers, Spares, shared
<1>7. QED BY <1>1, <1>4, <1>5, <1>6

\* The steps that move no buffer.
LEMMA HandshakeKeeps ==
    ASSUME BufferInv,
           OwnerNext \/ threadBegins \/ testRunning \/ finalFlush
    PROVE  BufferInv'
<1> USE DEF BufferInv, NoAssertFails
<1>1. CASE start
  BY <1>1 DEF start, TypeOK, Control, Spares, shared, locals, output, history
<1>2. CASE startReturns
  BY <1>2 DEF startReturns, TypeOK, Control, Spares, shared, locals, output, history
<1>3. CASE stop
  BY <1>3 DEF stop, TypeOK, Control, Spares, shared, locals, output, history
<1>4. CASE stopNotifies
  BY <1>4 DEF stopNotifies, TypeOK, Control, Spares, shared, locals, output, history
<1>5. CASE stopReturns
  BY <1>5 DEF stopReturns, TypeOK, Control, Spares, shared, locals, output, history
<1>6. CASE threadBegins
  BY <1>6, EmptyBufferType
     DEF threadBegins, Asserted, Goto, TypeOK, Control, Spares, shared, output, history
<1>7. CASE testRunning
  <2>1. IsEmpty(EmptyBuffer)
    BY EmptyBufferType DEF IsEmpty, EmptyBuffer
  <2>2. pc' \in {"lock", "final"}
    BY <1>7, <2>1 DEF testRunning, Asserted, Goto, Spares
  <2>3. QED
    BY <1>7, <2>2
       DEF testRunning, TypeOK, Control, Spares, shared, locals, output, history
<1>8. CASE finalFlush
  BY <1>8, LenProperties DEF finalFlush, Goto, TypeOK, Control, Spares, shared, locals, history
<1>9. QED
  BY <1>1, <1>2, <1>3, <1>4, <1>5, <1>6, <1>7, <1>8 DEF OwnerNext

LEMMA NextKeepsBufferInv == BufferInv /\ [Next]_vars => BufferInv'
<1> SUFFICES ASSUME BufferInv, [Next]_vars PROVE BufferInv'
  OBVIOUS
<1>1. CASE OwnerNext \/ threadBegins \/ testRunning \/ finalFlush
  BY <1>1, HandshakeKeeps
<1>2. CASE \E len \in Lengths : append(len)
  BY <1>2, AppendKeeps
<1>3. CASE lockBuffers
  <2>1. CASE buffers = <<>>
    BY <1>3, <2>1
       DEF lockBuffers, Goto, BufferInv, NoAssertFails, TypeOK, Control, Spares,
           shared, locals, output, history
  <2>2. CASE buffers # <<>>
    <3>1. takeBuffers /\ pc = "lock"
      BY <1>3, <2>2 DEF lockBuffers
    <3>2. UNCHANGED <<owner, running, latch, output, history>> /\ signalled' \in BOOLEAN
      BY <1>3 DEF lockBuffers, BufferInv, TypeOK
    <3>3. QED BY <2>2, <3>1, <3>2, TakeBuffersKeeps
  <2>3. QED BY <2>1, <2>2
<1>4. CASE waitReturns
  <2>1. takeBuffers /\ pc = "waiting"
    BY <1>4 DEF waitReturns
  <2>2. UNCHANGED <<owner, running, latch, output, history>> /\ signalled' \in BOOLEAN
    BY <1>4 DEF waitReturns
  <2>3. QED BY <2>1, <2>2, TakeBuffersKeeps
<1>5. CASE cutBacklog
  BY <1>5, CutBacklogKeeps
<1>6. CASE writeBuffer
  BY <1>6, WriteBufferKeeps
<1>7. CASE recycleBuffers
  BY <1>7, RecycleBuffersKeeps
<1>8. CASE UNCHANGED vars
  BY <1>8 DEF vars, BufferInv, NoAssertFails, TypeOK, Control, Spares,
              shared, locals, output, history
<1>9. QED
  BY <1>1, <1>2, <1>3, <1>4, <1>5, <1>6, <1>7, <1>8 DEF Next, threadFunc

-----------------------------------------------------------------------------
(* Where the lines are *)

LEMMA EmptyBufferLines == LinesOf(EmptyBuffer) = {} /\ Increasing(EmptyBuffer.data)
BY DEF EmptyBuffer, LinesOf, Increasing

\* Storing a line adds it, or nothing when it does not fit, and keeps the order.
LEMMA StoreLines ==
    ASSUME NEW b \in Buffer, NEW m \in Line, NEW len \in Lengths
    PROVE  /\ LinesOf(store(b, m, len)) = LinesOf(b) \cup (IF fits(b, len) THEN {m} ELSE {})
           /\ Increasing(b.data) /\ (\A n \in LinesOf(b) : n < m) =>
                 Increasing(store(b, m, len).data)
<1>1. CASE ~fits(b, len)
  BY <1>1 DEF store
<1>2. CASE fits(b, len)
  <2> DEFINE s == Append(b.data, m)
  <2>1. b.data \in Seq(Line)
    BY DEF Buffer
  <2>2. /\ Len(s) = Len(b.data) + 1 /\ DOMAIN s = 1 .. Len(s) /\ Len(b.data) \in Nat
        /\ DOMAIN b.data = 1 .. Len(b.data)
        /\ \A i \in 1 .. Len(b.data) : s[i] = b.data[i]
        /\ s[Len(b.data) + 1] = m
    BY <2>1, AppendProperties, LenProperties
  <2>3. store(b, m, len).data = s
    BY <1>2 DEF store
  <2>4. {s[i] : i \in DOMAIN s} = {b.data[i] : i \in DOMAIN b.data} \cup {m}
    BY <2>2
  <2>5. LinesOf(store(b, m, len)) = LinesOf(b) \cup {m}
    BY <2>3, <2>4 DEF LinesOf
  <2>6. ASSUME Increasing(b.data), \A n \in LinesOf(b) : n < m
        PROVE  Increasing(s)
    BY <2>2, <2>6 DEF Increasing, LinesOf
  <2>7. QED BY <1>2, <2>3, <2>5, <2>6
<1>3. QED BY <1>1, <1>2

\* Appending a buffer to a sequence of buffers adds its lines.
LEMMA AppendBufferLines ==
    ASSUME NEW bs \in Seq(Buffer), NEW b \in Buffer
    PROVE  LinesIn(Append(bs, b)) = LinesIn(bs) \cup LinesOf(b)
<1> DEFINE t == Append(bs, b)
<1>1. /\ DOMAIN t = 1 .. Len(bs) + 1 /\ DOMAIN bs = 1 .. Len(bs) /\ Len(bs) \in Nat
      /\ \A i \in 1 .. Len(bs) : t[i] = bs[i]
      /\ t[Len(bs) + 1] = b
  BY AppendProperties, LenProperties
<1> HIDE DEF t
<1>2. ASSUME NEW m \in LinesIn(t)
      PROVE  m \in LinesIn(bs) \cup LinesOf(b)
  <2>1. PICK i \in 1 .. Len(bs) + 1 : m \in LinesOf(t[i])
    BY <1>1 DEF LinesIn
  <2>2. CASE i = Len(bs) + 1
    BY <2>1, <2>2, <1>1
  <2>3. CASE i # Len(bs) + 1
    BY <2>1, <2>3, <1>1 DEF LinesIn
  <2>4. QED BY <2>2, <2>3
<1>3. ASSUME NEW m \in LinesIn(bs)
      PROVE  m \in LinesIn(t)
  <2>1. PICK i \in 1 .. Len(bs) : m \in LinesOf(bs[i])
    BY <1>1 DEF LinesIn
  <2>2. i \in DOMAIN t /\ m \in LinesOf(t[i])
    BY <2>1, <1>1
  <2>3. QED BY <2>2 DEF LinesIn
<1>4. ASSUME NEW m \in LinesOf(b)
      PROVE  m \in LinesIn(t)
  <2>1. Len(bs) + 1 \in DOMAIN t /\ m \in LinesOf(t[Len(bs) + 1])
    BY <1>1
  <2>2. QED BY <2>1 DEF LinesIn
<1>5. QED BY <1>2, <1>3, <1>4 DEF t

LEMMA HeldLines == ASSUME BufferInv, EachLineOnce PROVE Held \subseteq 1 .. appended
BY DEF EachLineOnce

LEMMA AppendAccounting ==
    ASSUME BufferInv, Accounting, NEW len \in Lengths, append(len)
    PROVE  Accounting'
<1> USE DEF BufferInv
<1> DEFINE line == appended + 1
           kept == IF fits(EmptyBuffer, len) THEN {line} ELSE {}
           full == Append(buffers, currentBuffer)
<1>1. /\ line \in Line /\ appended' = line /\ appended \in Nat
      /\ 1 .. line = (1 .. appended) \cup {line} /\ line \notin 1 .. appended
      /\ \A n \in 1 .. appended : n < line
  BY DEF append, TypeOK, Line
<1>2. InFile \cup InBatch \cup InBuffers \cup InCurrent \cup oversized \cup dropped = 1 .. appended
  BY DEF Accounting, EachLineOnce, Held
<1>3. UNCHANGED <<InFile, InBatch, file, buffersToWrite, next, dropped>>
  BY DEF append, InFile, InBatch, locals, output
<1>4. CASE fits(currentBuffer, len)
  <2>1. currentBuffer' = store(currentBuffer, line, len) /\ UNCHANGED <<buffers, oversized>>
    BY <1>4 DEF append
  <2>2. InCurrent' = InCurrent \cup {line} /\ InBuffers' = InBuffers
    BY <1>1, <1>4, <2>1, StoreLines DEF InCurrent, InBuffers, TypeOK
  <2>3. Increasing(currentBuffer'.data)
    BY <1>1, <1>2, <2>1, StoreLines DEF InCurrent, TypeOK, Accounting, BuffersInOrder
  <2>4. EachLineOnce'
    BY <1>1, <1>2, <1>3, <2>1, <2>2 DEF Accounting, EachLineOnce, Held
  <2>5. BuffersInOrder'
    BY <1>3, <2>1, <2>3 DEF Accounting, BuffersInOrder
  <2>6. PlacesInOrder'
    BY <1>1, <1>2, <1>3, <2>2 DEF Accounting, PlacesInOrder, Before
  <2>7. QED BY <1>3, <2>4, <2>5, <2>6 DEF Accounting, FileInOrder
<1>5. CASE ~fits(currentBuffer, len)
  <2>1. /\ currentBuffer' = store(EmptyBuffer, line, len) /\ buffers' = full
        /\ oversized' = IF fits(EmptyBuffer, len) THEN oversized ELSE oversized \cup {line}
    BY <1>5 DEF append, Spares
  <2>2. InCurrent' = kept
    BY <1>1, <2>1, StoreLines, EmptyBufferType, EmptyBufferLines DEF InCurrent
  <2>3. InBuffers' = InBuffers \cup InCurrent
    BY <2>1, AppendBufferLines DEF InBuffers, InCurrent, TypeOK
  <2>4. Increasing(currentBuffer'.data)
    BY <1>1, <2>1, StoreLines, EmptyBufferType, EmptyBufferLines
  <2>5. EachLineOnce'
    BY <1>1, <1>2, <1>3, <2>1, <2>2, <2>3 DEF Accounting, EachLineOnce, Held
  <2>6. BuffersInOrder'
    <3>1. /\ DOMAIN full = 1 .. Len(buffers) + 1 /\ DOMAIN buffers = 1 .. Len(buffers)
          /\ Len(buffers) \in Nat
          /\ \A i \in 1 .. Len(buffers) : full[i] = buffers[i]
          /\ full[Len(buffers) + 1] = currentBuffer
      BY AppendProperties, LenProperties DEF TypeOK
    <3>2. \A i \in DOMAIN full : Increasing(full[i].data)
      BY <3>1 DEF Accounting, BuffersInOrder
    <3>3. \A i \in DOMAIN buffers : Before(LinesOf(buffers[i]), LinesOf(currentBuffer))
      BY DEF Accounting, PlacesInOrder, Before, InBuffers, LinesIn, InCurrent
    <3>4. ASSUME NEW i \in DOMAIN full, NEW j \in DOMAIN full, i < j
          PROVE  Before(LinesOf(full[i]), LinesOf(full[j]))
      <4>1. CASE j = Len(buffers) + 1
        BY <3>1, <3>3, <3>4, <4>1
      <4>2. CASE j # Len(buffers) + 1
        BY <3>1, <3>4, <4>2 DEF Accounting, BuffersInOrder
      <4>3. QED BY <4>1, <4>2
    <3>5. QED BY <1>3, <2>1, <2>4, <3>2, <3>4 DEF Accounting, BuffersInOrder
  <2>7. PlacesInOrder'
    BY <1>1, <1>2, <1>3, <2>2, <2>3 DEF Accounting, PlacesInOrder, Before
  <2>8. QED BY <1>3, <2>5, <2>6, <2>7 DEF Accounting, FileInOrder
<1>6. QED BY <1>4, <1>5

LEMMA TakeBuffersAccounting ==
    ASSUME BufferInv, Accounting, pc \in {"lock", "waiting"}, takeBuffers,
           UNCHANGED <<output, history>>
    PROVE  Accounting'
<1> USE DEF BufferInv
<1> DEFINE batch == Append(buffers, currentBuffer)
<1>1. /\ buffersToWrite' = batch /\ next' = 1 /\ buffers' = <<>> /\ currentBuffer' = EmptyBuffer
      /\ buffersToWrite = <<>>
      /\ UNCHANGED <<file, appended, oversized, dropped>>
  BY DEF takeBuffers, Spares, output, history
<1>2. /\ DOMAIN batch = 1 .. Len(batch) /\ Len(batch) = Len(buffers) + 1
      /\ DOMAIN buffers = 1 .. Len(buffers) /\ Len(buffers) \in Nat
      /\ \A i \in 1 .. Len(buffers) : batch[i] = buffers[i]
      /\ batch[Len(buffers) + 1] = currentBuffer
  BY AppendProperties, LenProperties DEF TypeOK
<1>3. InFile' = InFile /\ InBatch = {} /\ InBuffers' = {} /\ InCurrent' = {}
  BY <1>1, EmptyBufferLines DEF InFile, InBatch, InBuffers, LinesIn, InCurrent, TypeOK
<1>4. InBatch' = InBuffers \cup InCurrent
  <2>1. LinesIn(batch) = InBuffers \cup InCurrent
    BY AppendBufferLines DEF InBuffers, InCurrent, TypeOK
  <2>2. QED BY <1>1, <1>2, <2>1 DEF InBatch, LinesIn
<1>5. EachLineOnce'
  BY <1>1, <1>3, <1>4 DEF Accounting, EachLineOnce, Held
<1>6. PlacesInOrder'
  BY <1>3, <1>4 DEF Accounting, PlacesInOrder, Before
<1>7. BuffersInOrder'
  <2>1. \A i \in 1 .. Len(batch) : Increasing(batch[i].data)
    BY <1>2 DEF Accounting, BuffersInOrder
  <2>2. \A i \in DOMAIN buffers : Before(LinesOf(buffers[i]), LinesOf(currentBuffer))
    BY DEF Accounting, PlacesInOrder, Before, InBuffers, LinesIn, InCurrent
  <2>3. ASSUME NEW i \in 1 .. Len(batch), NEW j \in 1 .. Len(batch), i < j
        PROVE  Before(LinesOf(batch[i]), LinesOf(batch[j]))
    <3>1. CASE j = Len(buffers) + 1
      BY <1>2, <2>2, <2>3, <3>1
    <3>2. CASE j # Len(buffers) + 1
      BY <1>2, <2>3, <3>2 DEF Accounting, BuffersInOrder
    <3>3. QED BY <3>1, <3>2
  <2>4. \A i \in 1 .. Len(batch) : \A j \in 1 .. Len(batch) :
           i < j => Before(LinesOf(batch[i]), LinesOf(batch[j]))
    BY <2>3
  <2>5. DOMAIN buffers' = {}
    BY <1>1
  <2>6. QED BY <1>1, <2>1, <2>4, <2>5, EmptyBufferLines DEF BuffersInOrder
<1>8. QED BY <1>1, <1>5, <1>6, <1>7 DEF Accounting, FileInOrder

\* What a cut removes from the batch, and that the rest comes before it.
LEMMA CutAccounting ==
    ASSUME BufferInv, Accounting, cutBacklog
    PROVE  Accounting'
<1> USE DEF BufferInv
<1> DEFINE n == Len(buffersToWrite)
           cut == UNION {LinesOf(buffersToWrite[i]) : i \in Kept + 1 .. n}
<1>1. /\ next = 1 /\ next' = 1 /\ n \in Nat
      /\ UNCHANGED <<currentBuffer, buffers, appended, oversized>>
  BY DEF cutBacklog, Spares, shared, TypeOK
<1>2. InBuffers' = InBuffers /\ InCurrent' = InCurrent
  BY <1>1 DEF InBuffers, InCurrent
<1>3. CASE n > MaxBacklog
  <2>1. /\ file' = Append(file, Notice) /\ dropped' = dropped \cup cut
        /\ buffersToWrite' = SubSeq(buffersToWrite, 1, 2) /\ n > 2
    BY <1>3, ConstantsAssumption DEF cutBacklog, Kept
  <2>2. \A i \in 1 .. 2 : buffersToWrite[i] \in Buffer
    BY <2>1 DEF TypeOK
  <2>3. /\ Len(buffersToWrite') = 2 /\ buffersToWrite'[1] = buffersToWrite[1]
        /\ buffersToWrite'[2] = buffersToWrite[2]
    BY <2>1, <2>2, SubSeqProperties
  <2>4. InBatch' = LinesOf(buffersToWrite[1]) \cup LinesOf(buffersToWrite[2])
    BY <1>1, <2>3 DEF InBatch
  <2>5. InBatch = InBatch' \cup cut
    <3>1. 1 .. n = {1, 2} \cup (Kept + 1 .. n)
      BY <1>1, <2>1 DEF Kept
    <3>2. InBatch = UNION {LinesOf(buffersToWrite[i]) : i \in {1, 2} \cup (Kept + 1 .. n)}
      BY <1>1, <3>1 DEF InBatch
    <3>3. QED BY <2>4, <3>2
  <2>6. InBatch' \cap cut = {} /\ Before(InBatch', cut)
    <3>1. ASSUME NEW m \in InBatch', NEW k \in cut
          PROVE  m < k
      <4>1. PICK j \in Kept + 1 .. n : k \in LinesOf(buffersToWrite[j])
        OBVIOUS
      <4>2. PICK i \in {1, 2} : m \in LinesOf(buffersToWrite[i])
        BY <2>4
      <4>3. i \in next .. n /\ j \in next .. n /\ i < j
        BY <1>1, <2>1, <4>1, <4>2 DEF Kept
      <4>4. QED BY <4>1, <4>2, <4>3 DEF Accounting, BuffersInOrder, Before
    <3>2. InBatch' \subseteq Nat
      BY <2>5 DEF Accounting, EachLineOnce, Held
    <3>. HIDE DEF cut
    <3>3. \A m \in InBatch' : m \notin cut
      <4>1. \A m \in InBatch' : ~(m < m)
        BY <3>2
      <4>2. QED BY <3>1, <4>1
    <3>4. QED BY <3>1, <3>3 DEF Before
  <2>7. InFile' = InFile
    <3>1. /\ DOMAIN file' = 1 .. Len(file) + 1 /\ DOMAIN file = 1 .. Len(file)
          /\ Len(file) \in Nat
          /\ \A i \in 1 .. Len(file) : file'[i] = file[i]
          /\ file'[Len(file) + 1] = Notice
      BY <2>1, Append(file, 0) \in Seq(Nat), AppendProperties, LenProperties DEF TypeOK, Notice
    <3>2. QED BY <3>1 DEF InFile
  <2>8. FileInOrder'
    BY <2>1 DEF Accounting, FileInOrder, Notice, TypeOK
  <2>9. EachLineOnce'
    <3>. HIDE DEF cut
    <3>1. cut \cap (InFile \cup InBuffers \cup InCurrent) = {}
      <4>1. \A m \in cut : m \in InBatch /\ m \in Nat
        BY <2>5 DEF Accounting, EachLineOnce, Held
      <4>2. \A m \in InBatch : \A k \in InFile : k < m
        BY DEF Accounting, PlacesInOrder, Before
      <4>3. \A m \in InBatch : \A k \in InBuffers \cup InCurrent : m < k
        BY DEF Accounting, PlacesInOrder, Before
      <4>4. \A m \in cut : ~(m < m)
        BY <4>1
      <4>5. QED BY <4>1, <4>2, <4>3, <4>4
    <3>2. UNCHANGED <<appended, oversized>> /\ dropped' = dropped \cup cut
      BY <1>1, <2>1
    <3>3. cut \subseteq Held
      BY <2>5 DEF Held
    <3>4. Held' = Held \ cut
      BY <1>2, <2>5, <2>6, <2>7, <3>1 DEF Held
    <3>5. QED BY <3>2, <3>3, <3>4 DEF Accounting, EachLineOnce
  <2>10. PlacesInOrder'
    BY <1>2, <2>5, <2>7 DEF Accounting, PlacesInOrder, Before
  <2>11. BuffersInOrder'
    <3>1. \A i, j \in 1 .. 2 : i \in next .. n /\ j \in next .. n
      BY <1>1, <2>1
    <3>2. QED BY <1>1, <2>3, <3>1 DEF Accounting, BuffersInOrder
  <2>12. QED BY <2>8, <2>9, <2>10, <2>11 DEF Accounting
<1>4. CASE ~(n > MaxBacklog)
  <2>1. UNCHANGED <<file, dropped, buffersToWrite, next>>
    BY <1>1, <1>4 DEF cutBacklog
  <2>2. QED
    BY <1>1, <2>1 DEF Accounting, EachLineOnce, FileInOrder, BuffersInOrder, PlacesInOrder,
                      Held, InFile, InBatch, InBuffers, InCurrent
<1>5. QED BY <1>3, <1>4

LEMMA WriteAccounting ==
    ASSUME BufferInv, Accounting, writeBuffer
    PROVE  Accounting'
<1> USE DEF BufferInv
<1> DEFINE n == Len(buffersToWrite)
           b == buffersToWrite[next]
<1>1. /\ next \in 1 .. n /\ n \in Nat /\ next' = next + 1 /\ b \in Buffer
      /\ file' = file \o b.data
      /\ UNCHANGED <<currentBuffer, buffers, buffersToWrite, appended, oversized, dropped>>
  BY DEF writeBuffer, TypeOK, shared, history
<1>2. b.data \in Seq(Line) /\ Line \subseteq Nat /\ file \in Seq(Nat)
  BY <1>1 DEF Buffer, Line, TypeOK
<1>3. /\ DOMAIN file' = 1 .. Len(file) + Len(b.data) /\ DOMAIN file = 1 .. Len(file)
      /\ Len(file) \in Nat /\ Len(b.data) \in Nat /\ DOMAIN b.data = 1 .. Len(b.data)
      /\ \A i \in 1 .. Len(file) : file'[i] = file[i]
      /\ \A i \in 1 .. Len(b.data) : file'[Len(file) + i] = b.data[i]
  <2>1. b.data \in Seq(Nat)
    BY <1>2, SeqMonotonic
  <2>2. QED BY <1>1, <1>2, <2>1, ConcatProperties, LenProperties
<1>4. \A i \in DOMAIN b.data : b.data[i] \in Line
  BY <1>2
<1>5. InFile' = InFile \cup LinesOf(b)
  <2>1. ASSUME NEW m \in InFile' PROVE m \in InFile \cup LinesOf(b)
    <3>1. PICK i \in DOMAIN file' : m = file'[i] /\ m # Notice
      BY DEF InFile
    <3>2. CASE i <= Len(file)
      BY <1>3, <3>1, <3>2 DEF InFile
    <3>3. CASE i > Len(file)
      <4>1. i - Len(file) \in DOMAIN b.data /\ b.data[i - Len(file)] = m
        BY <1>3, <3>1, <3>3
      <4>2. QED BY <4>1 DEF LinesOf
    <3>4. QED BY <1>3, <3>2, <3>3
  <2>2. ASSUME NEW m \in InFile PROVE m \in InFile'
    BY <1>3 DEF InFile
  <2>3. ASSUME NEW m \in LinesOf(b) PROVE m \in InFile'
    <3>1. PICK i \in DOMAIN b.data : b.data[i] = m
      BY DEF LinesOf
    <3>2. Len(file) + i \in DOMAIN file' /\ file'[Len(file) + i] = m /\ m # Notice
      BY <1>3, <1>4, <3>1 DEF Line, Notice
    <3>3. QED BY <3>2 DEF InFile
  <2>4. QED BY <2>1, <2>2, <2>3
<1>6. InBatch = InBatch' \cup LinesOf(b)
  <2>1. next .. n = {next} \cup (next + 1 .. n)
    BY <1>1
  <2>2. InBatch = UNION {LinesOf(buffersToWrite[i]) : i \in {next} \cup (next + 1 .. n)}
    BY <2>1 DEF InBatch
  <2>3. InBatch' = UNION {LinesOf(buffersToWrite[i]) : i \in next + 1 .. n}
    BY <1>1 DEF InBatch
  <2>4. QED BY <2>2, <2>3
<1>7. Before(LinesOf(b), InBatch') /\ LinesOf(b) \cap InBatch' = {}
  <2>1. ASSUME NEW m \in LinesOf(b), NEW k \in InBatch'
        PROVE  m < k
    <3>1. PICK j \in next + 1 .. n : k \in LinesOf(buffersToWrite[j])
      BY <1>1 DEF InBatch
    <3>2. next \in next .. n /\ j \in next .. n /\ next < j
      BY <1>1, <3>1
    <3>3. QED BY <3>1, <3>2 DEF Accounting, BuffersInOrder, Before
  <2>2. LinesOf(b) \subseteq Nat
    BY <1>6 DEF Accounting, EachLineOnce, Held
  <2>3. QED BY <2>1, <2>2 DEF Before
<1>8. InBuffers' = InBuffers /\ InCurrent' = InCurrent
  BY <1>1 DEF InBuffers, InCurrent
<1>9. EachLineOnce'
  BY <1>1, <1>5, <1>6, <1>7, <1>8 DEF Accounting, EachLineOnce, Held
<1>10. PlacesInOrder'
  BY <1>5, <1>6, <1>7, <1>8 DEF Accounting, PlacesInOrder, Before
<1>11. BuffersInOrder'
  <2>1. \A i \in next + 1 .. n : i \in next .. n
    BY <1>1
  <2>2. QED BY <1>1, <2>1 DEF Accounting, BuffersInOrder
<1>12. FileInOrder'
  <2>1. Increasing(b.data)
    BY <1>1 DEF Accounting, BuffersInOrder
  <2>2. \A i \in DOMAIN b.data : b.data[i] \in InBatch
    BY <1>6 DEF LinesOf
  <2>3. ASSUME NEW i \in DOMAIN file', NEW j \in DOMAIN file', i < j,
               file'[i] # Notice, file'[j] # Notice
        PROVE  file'[i] < file'[j]
    <3>1. CASE j <= Len(file)
      BY <1>3, <2>3, <3>1 DEF Accounting, FileInOrder
    <3>2. CASE i > Len(file)
      <4> DEFINE x == i - Len(file)
                 y == j - Len(file)
      <4>1. x \in DOMAIN b.data /\ y \in DOMAIN b.data /\ x < y
        BY <1>3, <2>3, <3>2
      <4>2. file'[i] = b.data[x] /\ file'[j] = b.data[y]
        <5>1. i = Len(file) + x /\ j = Len(file) + y
          BY <1>3
        <5>2. QED BY <1>3, <4>1, <5>1
      <4>3. QED BY <2>1, <4>1, <4>2 DEF Increasing
    <3>3. CASE i <= Len(file) /\ j > Len(file)
      <4> DEFINE y == j - Len(file)
      <4>1. y \in DOMAIN b.data /\ j = Len(file) + y
        BY <1>3, <3>3
      <4>2. file'[j] = b.data[y] /\ file'[j] \in InBatch
        BY <1>3, <2>2, <4>1
      <4>3. file'[i] = file[i] /\ file'[i] \in InFile
        BY <1>3, <2>3, <3>3 DEF InFile
      <4>4. QED BY <4>2, <4>3 DEF Accounting, PlacesInOrder, Before
    <3>4. QED BY <1>3, <3>1, <3>2, <3>3
  <2>4. QED BY <2>3 DEF FileInOrder
<1>13. QED BY <1>9, <1>10, <1>11, <1>12 DEF Accounting

LEMMA RecycleAccounting ==
    ASSUME BufferInv, Accounting, recycleBuffers
    PROVE  Accounting'
<1> USE DEF BufferInv
<1>1. /\ buffersToWrite' = <<>> /\ next' = 1 /\ next > Len(buffersToWrite)
      /\ UNCHANGED <<file, currentBuffer, buffers, appended, oversized, dropped>>
  BY DEF recycleBuffers, shared, history
<1>2. next .. Len(buffersToWrite) = {} /\ 1 .. Len(<<>>) = {}
  BY <1>1 DEF TypeOK
<1>3. InBatch = {} /\ InBatch' = {}
  BY <1>1, <1>2 DEF InBatch
<1>4. InFile' = InFile /\ InBuffers' = InBuffers /\ InCurrent' = InCurrent
  BY <1>1 DEF InFile, InBuffers, InCurrent
<1>5. EachLineOnce' /\ PlacesInOrder'
  BY <1>1, <1>3, <1>4 DEF Accounting, EachLineOnce, PlacesInOrder, Held
<1>6. BuffersInOrder' /\ FileInOrder'
  BY <1>1, <1>2 DEF Accounting, BuffersInOrder, FileInOrder
<1>7. QED BY <1>5, <1>6 DEF Accounting

\* A step that touches no line moves none.
LEMMA QuietAccounting ==
    ASSUME Accounting, UNCHANGED <<currentBuffer, buffers, buffersToWrite, next, file, history>>
    PROVE  Accounting'
BY DEF Accounting, EachLineOnce, FileInOrder, BuffersInOrder, PlacesInOrder,
       Held, InFile, InBatch, InBuffers, LinesIn, InCurrent, history

LEMMA InitAccounting == Init => Accounting
<1> SUFFICES ASSUME Init PROVE Accounting
  OBVIOUS
<1>1. /\ file = <<>> /\ buffers = <<>> /\ buffersToWrite = <<>> /\ next = 1
      /\ currentBuffer = EmptyBuffer /\ appended = 0 /\ oversized = {} /\ dropped = {}
  BY DEF Init
<1>2. InFile = {} /\ InBatch = {} /\ InBuffers = {} /\ InCurrent = {} /\ 1 .. appended = {}
  BY <1>1, EmptyBufferLines DEF InFile, InBatch, InBuffers, LinesIn, InCurrent
<1>3. EachLineOnce /\ PlacesInOrder
  BY <1>1, <1>2 DEF EachLineOnce, PlacesInOrder, Held, Before
<1>4. FileInOrder /\ BuffersInOrder
  BY <1>1, EmptyBufferLines DEF FileInOrder, BuffersInOrder
<1>5. QED BY <1>3, <1>4 DEF Accounting

LEMMA NextAccounting == BufferInv /\ Accounting /\ [Next]_vars => Accounting'
<1> SUFFICES ASSUME BufferInv, Accounting, [Next]_vars PROVE Accounting'
  OBVIOUS
<1>1. CASE OwnerNext
  BY <1>1, QuietAccounting
     DEF OwnerNext, start, startReturns, stop, stopNotifies, stopReturns,
         shared, locals, output
<1>2. CASE threadBegins \/ testRunning \/ finalFlush
  BY <1>2, QuietAccounting DEF threadBegins, testRunning, finalFlush, shared, locals, output
<1>3. CASE \E len \in Lengths : append(len)
  BY <1>3, AppendAccounting
<1>4. CASE lockBuffers
  <2>1. CASE buffers = <<>>
    BY <1>4, <2>1, QuietAccounting DEF lockBuffers, shared, locals, output
  <2>2. CASE buffers # <<>>
    BY <1>4, <2>2, TakeBuffersAccounting DEF lockBuffers
  <2>3. QED BY <2>1, <2>2
<1>5. CASE waitReturns
  BY <1>5, TakeBuffersAccounting DEF waitReturns
<1>6. CASE cutBacklog
  BY <1>6, CutAccounting
<1>7. CASE writeBuffer
  BY <1>7, WriteAccounting
<1>8. CASE recycleBuffers
  BY <1>8, RecycleAccounting
<1>9. CASE UNCHANGED vars
  BY <1>9, QuietAccounting DEF vars, shared, locals, output
<1>10. QED
  BY <1>1, <1>2, <1>3, <1>4, <1>5, <1>6, <1>7, <1>8, <1>9 DEF Next, threadFunc

\* Longer files keep their notices, and what comes later comes later still.
LEMMA AnnouncementsStay ==
    ASSUME CutsAreAnnounced, dropped' = dropped, NEW more \in Seq(Nat), file \in Seq(Nat),
           file' = file \o more
    PROVE  CutsAreAnnounced'
<1>1. /\ DOMAIN file' = 1 .. Len(file) + Len(more) /\ DOMAIN file = 1 .. Len(file)
      /\ Len(file) \in Nat /\ Len(more) \in Nat
      /\ \A i \in 1 .. Len(file) : file'[i] = file[i]
  BY ConcatProperties, LenProperties
<1>2. ASSUME NEW m \in dropped
      PROVE  \E i \in DOMAIN file' : /\ file'[i] = Notice
                                     /\ \A j \in DOMAIN file' : file'[j] > m => i < j
  <2>1. PICK i \in DOMAIN file : /\ file[i] = Notice
                                 /\ \A j \in DOMAIN file : file[j] > m => i < j
    BY DEF CutsAreAnnounced
  <2>2. \A j \in DOMAIN file' : file'[j] > m => i < j
    BY <1>1, <2>1
  <2>3. QED BY <1>1, <2>1, <2>2
<1>3. QED BY <1>2 DEF CutsAreAnnounced

LEMMA CutAnnounces ==
    ASSUME BufferInv, Accounting, CutsAreAnnounced, cutBacklog
    PROVE  CutsAreAnnounced'
<1> USE DEF BufferInv
<1>1. CASE Len(buffersToWrite) > MaxBacklog
  <2> DEFINE n == Len(buffersToWrite)
             cut == UNION {LinesOf(buffersToWrite[i]) : i \in Kept + 1 .. n}
             end == Len(file) + 1
  <2>1. file' = Append(file, Notice) /\ dropped' = dropped \cup cut /\ next = 1
    BY <1>1 DEF cutBacklog, Spares
  <2>2. /\ DOMAIN file' = 1 .. end /\ DOMAIN file = 1 .. Len(file) /\ Len(file) \in Nat
        /\ \A i \in 1 .. Len(file) : file'[i] = file[i]
        /\ file'[end] = 0 /\ \A i \in 1 .. Len(file) : file[i] \in Nat
    BY <2>1, Append(file, 0) \in Seq(Nat), AppendProperties, LenProperties DEF TypeOK, Notice
  <2>3. ASSUME NEW m \in dropped
        PROVE  \E i \in DOMAIN file' : /\ file'[i] = Notice
                                       /\ \A j \in DOMAIN file' : file'[j] > m => i < j
    <3>1. PICK i \in DOMAIN file : /\ file[i] = Notice
                                   /\ \A j \in DOMAIN file : file[j] > m => i < j
      BY DEF CutsAreAnnounced
    <3>2. \A j \in DOMAIN file' : file'[j] > m => i < j
      BY <2>2, <3>1
    <3>3. QED BY <2>2, <3>1, <3>2
  <2>4. ASSUME NEW m \in cut
        PROVE  \E i \in DOMAIN file' : /\ file'[i] = Notice
                                       /\ \A j \in DOMAIN file' : file'[j] > m => i < j
    <3>1. PICK k \in Kept + 1 .. n : m \in LinesOf(buffersToWrite[k])
      OBVIOUS
    <3>2. m \in InBatch /\ m \in Nat
      <4>1. k \in next .. n
        BY <2>1, <3>1 DEF Kept, TypeOK
      <4>2. m \in InBatch
        BY <3>1, <4>1 DEF InBatch
      <4>3. QED BY <4>2 DEF Accounting, EachLineOnce, Held
    <3>3. \A j \in 1 .. Len(file) : ~(file[j] > m)
      <4>1. ASSUME NEW j \in 1 .. Len(file) PROVE ~(file[j] > m)
        <5>1. CASE file[j] = Notice
          BY <3>2, <5>1 DEF Notice
        <5>2. CASE file[j] # Notice
          <6>1. file[j] \in InFile
            BY <2>2, <5>2 DEF InFile
          <6>2. file[j] < m
            BY <3>2, <6>1 DEF Accounting, PlacesInOrder, Before
          <6>3. QED BY <2>2, <3>2, <6>2
        <5>3. QED BY <5>1, <5>2
      <4>2. QED BY <4>1
    <3>4. \A j \in DOMAIN file' : ~(file'[j] > m)
      BY <2>2, <3>2, <3>3
    <3>5. end \in DOMAIN file' /\ file'[end] = Notice
      BY <2>2 DEF Notice
    <3>6. QED BY <3>4, <3>5
  <2>5. QED BY <2>1, <2>3, <2>4 DEF CutsAreAnnounced
<1>2. CASE ~(Len(buffersToWrite) > MaxBacklog)
  BY <1>2 DEF cutBacklog, CutsAreAnnounced
<1>3. QED BY <1>1, <1>2

LEMMA NextAnnounces ==
    BufferInv /\ Accounting /\ CutsAreAnnounced /\ [Next]_vars => CutsAreAnnounced'
<1> SUFFICES ASSUME BufferInv, Accounting, CutsAreAnnounced, [Next]_vars
             PROVE  CutsAreAnnounced'
  OBVIOUS
<1>1. CASE cutBacklog
  BY <1>1, CutAnnounces
<1>2. CASE writeBuffer
  <2>1. /\ buffersToWrite[next] \in Buffer /\ file \in Seq(Nat) /\ dropped' = dropped
        /\ file' = file \o buffersToWrite[next].data
    BY <1>2 DEF writeBuffer, BufferInv, TypeOK, history
  <2>2. buffersToWrite[next].data \in Seq(Line) /\ Line \subseteq Nat
    BY <2>1 DEF Buffer, Line
  <2>3. buffersToWrite[next].data \in Seq(Nat)
    BY <2>2, SeqMonotonic
  <2>4. QED BY <2>1, <2>3, AnnouncementsStay
<1>3. CASE UNCHANGED <<file, dropped>>
  BY <1>3 DEF CutsAreAnnounced
<1>4. ASSUME Next, ~cutBacklog, ~writeBuffer PROVE UNCHANGED <<file, dropped>>
  BY <1>4 DEF Next, OwnerNext, threadFunc, start, startReturns, stop, stopNotifies, stopReturns,
              threadBegins, testRunning, lockBuffers, waitReturns, recycleBuffers, finalFlush,
              append, output, history
<1>5. QED BY <1>1, <1>2, <1>3, <1>4 DEF vars, output, history

-----------------------------------------------------------------------------
\* BufferInv is inductive.
THEOREM BufferInvariant == Spec => []BufferInv
BY InitBufferInv, NextKeepsBufferInv, PTL DEF Spec

\* Types, and the bound of FixedBuffer.
THEOREM TypeCorrect == Spec => []TypeOK
<1>1. BufferInv => TypeOK
  BY DEF BufferInv
<1>2. QED BY <1>1, BufferInvariant, PTL

\* No assertion of threadFunc can fail, whatever the appending threads do.
THEOREM AssertionsHold == Spec => []NoAssertFails
<1>1. BufferInv => NoAssertFails
  BY DEF BufferInv
<1>2. QED BY <1>1, BufferInvariant, PTL

\* No line is lost without trace, written twice or written out of order.
THEOREM LinesAccountedFor == Spec => []Accounting
<1>1. BufferInv /\ Accounting /\ [Next]_vars => Accounting'
  BY NextAccounting
<1>2. QED BY <1>1, InitAccounting, BufferInvariant, PTL DEF Spec

\* Every gap a cut leaves in the file is announced in front of what follows it.
THEOREM CutsAnnounced == Spec => []CutsAreAnnounced
<1>1. Init => CutsAreAnnounced
  BY DEF Init, CutsAreAnnounced
<1>2. BufferInv /\ Accounting /\ CutsAreAnnounced /\ [Next]_vars => CutsAreAnnounced'
  BY NextAnnounces
<1>3. QED BY <1>1, <1>2, BufferInvariant, LinesAccountedFor, PTL DEF Spec

-----------------------------------------------------------------------------
(* The channel *)

LEMMA JoinedEmpty == Joined(<<>>) = <<>>
<1>1. [i \in DOMAIN <<>> |-> <<>>[i].data] = <<>>
  OBVIOUS
<1>2. QED BY <1>1, FlattenEmpty DEF Joined

LEMMA DataOfBuffers ==
    ASSUME NEW bs \in Seq(Buffer)
    PROVE  /\ [i \in DOMAIN bs |-> bs[i].data] \in Seq(Seq(Line))
           /\ Len([i \in DOMAIN bs |-> bs[i].data]) = Len(bs)
<1>1. /\ Len(bs) \in Nat /\ DOMAIN bs = 1 .. Len(bs)
      /\ \A i \in 1 .. Len(bs) : bs[i].data \in Seq(Line)
  <2>1. \A i \in 1 .. Len(bs) : bs[i] \in Buffer
    BY ElementOfSeq
  <2>2. \A b \in Buffer : b.data \in Seq(Line)
    BY DEF Buffer
  <2>3. QED BY <2>1, <2>2, LenProperties
<1>2. [i \in DOMAIN bs |-> bs[i].data] \in [1 .. Len(bs) -> Seq(Line)]
  BY <1>1
<1>3. QED BY <1>1, <1>2

LEMMA JoinedType == ASSUME NEW bs \in Seq(Buffer) PROVE Joined(bs) \in Seq(Line)
BY DataOfBuffers, FlattenType DEF Joined

LEMMA JoinedConcat ==
    ASSUME NEW r \in Seq(Buffer), NEW s \in Seq(Buffer)
    PROVE  Joined(r \o s) = Joined(r) \o Joined(s)
<1> DEFINE data(bs) == [i \in DOMAIN bs |-> bs[i].data]
<1>1. /\ r \o s \in Seq(Buffer) /\ Len(r \o s) = Len(r) + Len(s)
      /\ Len(r) \in Nat /\ Len(s) \in Nat
      /\ \A i \in 1 .. Len(r) + Len(s) :
             (r \o s)[i] = IF i <= Len(r) THEN r[i] ELSE s[i - Len(r)]
  BY ConcatProperties, LenProperties
<1>2. /\ data(r) \in Seq(Seq(Line)) /\ Len(data(r)) = Len(r)
      /\ data(s) \in Seq(Seq(Line)) /\ Len(data(s)) = Len(s)
      /\ data(r \o s) \in Seq(Seq(Line)) /\ Len(data(r \o s)) = Len(r) + Len(s)
  BY <1>1, DataOfBuffers
<1>3. \A bs \in Seq(Buffer) : \A i \in 1 .. Len(bs) : data(bs)[i] = bs[i].data
  BY LenProperties
<1>4. /\ data(r) \o data(s) \in Seq(Seq(Line)) /\ Len(data(r) \o data(s)) = Len(r) + Len(s)
      /\ \A i \in 1 .. Len(r) + Len(s) :
             (data(r) \o data(s))[i] = IF i <= Len(r) THEN data(r)[i] ELSE data(s)[i - Len(r)]
  <2> DEFINE T == Seq(Line)  a == data(r)  b == data(s)
  <2>1. a \in Seq(T) /\ b \in Seq(T) /\ Len(a) = Len(r) /\ Len(b) = Len(s)
    BY <1>2
  <2> HIDE DEF a, b, T
  <2>2. /\ a \o b \in Seq(T) /\ Len(a \o b) = Len(a) + Len(b)
        /\ \A i \in 1 .. Len(a) + Len(b) :
               (a \o b)[i] = IF i <= Len(a) THEN a[i] ELSE b[i - Len(a)]
    BY <2>1, ConcatProperties
  <2>3. /\ a \o b \in Seq(T) /\ Len(a \o b) = Len(r) + Len(s)
        /\ \A i \in 1 .. Len(r) + Len(s) :
               (a \o b)[i] = IF i <= Len(r) THEN a[i] ELSE b[i - Len(r)]
    BY <2>1, <2>2
  <2>4. QED BY <2>3 DEF a, b, T
<1>5. data(r \o s) = data(r) \o data(s)
  <2>1. ASSUME NEW i \in 1 .. Len(r) + Len(s)
        PROVE  data(r \o s)[i] = (data(r) \o data(s))[i]
    <3> HIDE DEF data
    <3>1. data(r \o s)[i] = (r \o s)[i].data
      BY <1>1, <1>3
    <3>2. CASE i <= Len(r)
      <4>1. i \in 1 .. Len(r)
        BY <1>1, <3>2
      <4>2. data(r)[i] = r[i].data
        BY <1>3, <4>1
      <4>3. QED BY <1>1, <1>4, <3>1, <3>2, <4>2
    <3>3. CASE ~(i <= Len(r))
      <4>1. i - Len(r) \in 1 .. Len(s)
        BY <1>1, <3>3
      <4>2. data(s)[i - Len(r)] = s[i - Len(r)].data
        BY <1>3, <4>1
      <4>3. QED BY <1>1, <1>4, <3>1, <3>3, <4>2
    <3>4. QED BY <3>2, <3>3
  <2> HIDE DEF data
  <2>2. QED BY <1>2, <1>4, <2>1, SeqEqual
<1>6. FlattenSeq(data(r) \o data(s)) = FlattenSeq(data(r)) \o FlattenSeq(data(s))
  <2> HIDE DEF data
  <2>1. QED BY <1>2, FlattenConcat
<1>7. /\ Joined(r) = FlattenSeq(data(r)) /\ Joined(s) = FlattenSeq(data(s))
      /\ Joined(r \o s) = FlattenSeq(data(r \o s))
  BY DEF Joined
<1> HIDE DEF data
<1>8. QED BY <1>5, <1>6, <1>7

LEMMA JoinedOne == ASSUME NEW b \in Buffer PROVE Joined(<<b>>) = b.data
<1>1. [i \in DOMAIN <<b>> |-> <<b>>[i].data] = <<b.data>> /\ b.data \in Seq(Line)
  BY DEF Buffer
<1>2. QED BY <1>1, FlattenOne DEF Joined

LEMMA JoinedAppend ==
    ASSUME NEW bs \in Seq(Buffer), NEW b \in Buffer
    PROVE  Joined(Append(bs, b)) = Joined(bs) \o b.data
<1>1. Append(bs, b) = bs \o <<b>> /\ <<b>> \in Seq(Buffer)
  BY AppendIsConcat
<1>2. QED BY <1>1, JoinedConcat, JoinedOne

\* Written, of any file.
WithoutNotices(f) == FlattenSeq([i \in DOMAIN f |-> IF f[i] = Notice THEN <<>> ELSE <<f[i]>>])

LEMMA WrittenLines == Written = WithoutNotices(file) /\ Written' = WithoutNotices(file')
BY DEF Written, WithoutNotices

LEMMA LinesAndNotices ==
    ASSUME NEW f \in Seq(Nat)
    PROVE  /\ [i \in DOMAIN f |-> IF f[i] = Notice THEN <<>> ELSE <<f[i]>>] \in Seq(Seq(Nat))
           /\ Len([i \in DOMAIN f |-> IF f[i] = Notice THEN <<>> ELSE <<f[i]>>]) = Len(f)
<1> DEFINE g == [i \in DOMAIN f |-> IF f[i] = Notice THEN <<>> ELSE <<f[i]>>]
<1>1. /\ Len(f) \in Nat /\ DOMAIN f = 1 .. Len(f) /\ \A i \in 1 .. Len(f) : f[i] \in Nat
  BY LenProperties, ElementOfSeq
<1>2. \A i \in 1 .. Len(f) : g[i] \in Seq(Nat)
  BY <1>1
<1>3. g \in [1 .. Len(f) -> Seq(Nat)]
  BY <1>1, <1>2
<1>4. QED BY <1>1, <1>3

LEMMA NoticesAreNoLines ==
    ASSUME NEW f \in Seq(Nat)
    PROVE  WithoutNotices(Append(f, Notice)) = WithoutNotices(f)
<1> DEFINE g(h) == [i \in DOMAIN h |-> IF h[i] = Notice THEN <<>> ELSE <<h[i]>>]
           T == Seq(Nat)
<1>1. /\ Append(f, Notice) \in Seq(Nat) /\ Len(Append(f, Notice)) = Len(f) + 1 /\ Len(f) \in Nat
      /\ \A i \in 1 .. Len(f) : Append(f, Notice)[i] = f[i]
      /\ Append(f, Notice)[Len(f) + 1] = Notice
  BY Notice \in Nat, AppendProperties, LenProperties DEF Notice
<1>2. \A h \in Seq(Nat) : \A i \in 1 .. Len(h) :
          g(h)[i] = IF h[i] = Notice THEN <<>> ELSE <<h[i]>>
  BY LenProperties
<1>3. /\ g(f) \in Seq(T) /\ Len(g(f)) = Len(f) /\ <<>> \in T
      /\ g(Append(f, Notice)) \in Seq(T) /\ Len(g(Append(f, Notice))) = Len(f) + 1
  BY <1>1, LinesAndNotices
<1>4. g(Append(f, Notice)) = Append(g(f), <<>>)
  <2> DEFINE a == g(f)  b == g(Append(f, Notice))
  <2>1. \A i \in 1 .. Len(f) : b[i] = a[i]
    <3> HIDE DEF g
    <3>1. ASSUME NEW i \in 1 .. Len(f) PROVE b[i] = a[i]
      <4>1. i \in 1 .. Len(Append(f, Notice)) /\ Append(f, Notice)[i] = f[i]
        BY <1>1
      <4>2. a[i] = IF f[i] = Notice THEN <<>> ELSE <<f[i]>>
        BY <1>2
      <4>3. b[i] = IF Append(f, Notice)[i] = Notice THEN <<>> ELSE <<Append(f, Notice)[i]>>
        BY <1>1, <1>2, <4>1
      <4>4. QED BY <4>1, <4>2, <4>3
    <3>2. QED BY <3>1
  <2>2. b[Len(f) + 1] = <<>>
    <3> HIDE DEF g
    <3>1. Len(f) + 1 \in 1 .. Len(Append(f, Notice))
      BY <1>1
    <3>2. QED BY <1>1, <1>2, <3>1
  <2>3. a \in Seq(T) /\ b \in Seq(T) /\ Len(a) = Len(f) /\ Len(b) = Len(f) + 1
    BY <1>3
  <2> HIDE DEF a, b, g, T
  <2>4. /\ Append(a, <<>>) \in Seq(T) /\ Len(Append(a, <<>>)) = Len(a) + 1
        /\ \A i \in 1 .. Len(a) : Append(a, <<>>)[i] = a[i]
        /\ Append(a, <<>>)[Len(a) + 1] = <<>>
    BY <1>3, <2>3, AppendProperties
  <2>5. \A i \in 1 .. Len(b) : b[i] = Append(a, <<>>)[i]
    BY <1>1, <2>1, <2>2, <2>3, <2>4
  <2>6. b = Append(a, <<>>)
    BY <2>3, <2>4, <2>5, SeqEqual
  <2>7. QED BY <2>6 DEF a, b
<1>5. FlattenSeq(g(Append(f, Notice))) = FlattenSeq(g(f)) \o <<>>
  <2> HIDE DEF g
  <2>1. QED BY <1>3, <1>4, FlattenAppend
<1>6. FlattenSeq(g(f)) \o <<>> = FlattenSeq(g(f))
  <2> HIDE DEF g
  <2>1. FlattenSeq(g(f)) \in Seq(Nat)
    BY <1>3, FlattenType
  <2>2. QED BY <2>1, ConcatEmptySeq
<1>7. QED BY <1>5, <1>6 DEF WithoutNotices

LEMMA LinesAreKept ==
    ASSUME NEW f \in Seq(Nat), NEW more \in Seq(Line)
    PROVE  WithoutNotices(f \o more) = WithoutNotices(f) \o more
<1> DEFINE g(h) == [i \in DOMAIN h |-> IF h[i] = Notice THEN <<>> ELSE <<h[i]>>]
           T == Seq(Nat)
           a == g(f)  b == g(more)  c == g(f \o more)
<1>1. more \in Seq(Nat)
  BY SeqMonotonic DEF Line
<1>2. /\ f \o more \in Seq(Nat) /\ Len(f \o more) = Len(f) + Len(more)
      /\ Len(f) \in Nat /\ Len(more) \in Nat
      /\ \A i \in 1 .. Len(f) + Len(more) :
             (f \o more)[i] = IF i <= Len(f) THEN f[i] ELSE more[i - Len(f)]
  BY <1>1, ConcatProperties, LenProperties
<1>3. \A h \in Seq(Nat) : \A i \in 1 .. Len(h) :
          g(h)[i] = IF h[i] = Notice THEN <<>> ELSE <<h[i]>>
  BY LenProperties
<1>4. /\ a \in Seq(T) /\ Len(a) = Len(f) /\ b \in Seq(T) /\ Len(b) = Len(more)
      /\ c \in Seq(T) /\ Len(c) = Len(f) + Len(more)
  BY <1>1, <1>2, LinesAndNotices
<1>5. c = a \o b
  <2>1. /\ \A i \in 1 .. Len(f) : a[i] = IF f[i] = Notice THEN <<>> ELSE <<f[i]>>
        /\ \A i \in 1 .. Len(more) : b[i] = IF more[i] = Notice THEN <<>> ELSE <<more[i]>>
        /\ \A i \in 1 .. Len(f) + Len(more) :
               c[i] = IF (f \o more)[i] = Notice THEN <<>> ELSE <<(f \o more)[i]>>
    BY <1>1, <1>2, <1>3
  <2> HIDE DEF a, b, c, g, T
  <2>2. /\ a \o b \in Seq(T) /\ Len(a \o b) = Len(a) + Len(b)
        /\ \A i \in 1 .. Len(a) + Len(b) :
               (a \o b)[i] = IF i <= Len(a) THEN a[i] ELSE b[i - Len(a)]
    <3>1. a \in Seq(T) /\ b \in Seq(T)
      BY <1>4
    <3>2. QED BY <3>1, ConcatProperties
  <2>3. ASSUME NEW i \in 1 .. Len(f) + Len(more) PROVE c[i] = (a \o b)[i]
    <3>1. CASE i <= Len(f)
      <4>1. i \in 1 .. Len(f) /\ (f \o more)[i] = f[i] /\ (a \o b)[i] = a[i]
        BY <1>2, <1>4, <2>2, <3>1
      <4>2. QED BY <2>1, <4>1
    <3>2. CASE ~(i <= Len(f))
      <4>1. /\ i - Len(f) \in 1 .. Len(more) /\ (f \o more)[i] = more[i - Len(f)]
            /\ (a \o b)[i] = b[i - Len(f)]
        BY <1>2, <1>4, <2>2, <3>2
      <4>2. QED BY <2>1, <4>1
    <3>3. QED BY <3>1, <3>2
  <2>4. QED BY <1>4, <2>2, <2>3, SeqEqual
<1>6. b = [i \in DOMAIN more |-> <<more[i]>>]
  <2>1. \A i \in DOMAIN more : more[i] # Notice
    BY ElementOfSeq, LenProperties DEF Line, Notice
  <2>2. QED BY <2>1
<1>7. FlattenSeq(b) = more
  <2> HIDE DEF b
  <2>1. QED BY <1>6, FlattenSingletons
<1>8. FlattenSeq(a \o b) = FlattenSeq(a) \o FlattenSeq(b)
  <2> HIDE DEF a, b
  <2>1. QED BY <1>4, FlattenConcat
<1>9. WithoutNotices(f \o more) = FlattenSeq(c) /\ WithoutNotices(f) = FlattenSeq(a)
  BY DEF WithoutNotices
<1> HIDE DEF a, b, c
<1>10. QED BY <1>5, <1>7, <1>8, <1>9

\* The first buffers of a batch and the others.
LEMMA JoinedSplit ==
    ASSUME NEW bs \in Seq(Buffer), NEW k \in 0 .. Len(bs)
    PROVE  /\ SubSeq(bs, 1, k) \in Seq(Buffer) /\ Len(SubSeq(bs, 1, k)) = k
           /\ SubSeq(bs, k + 1, Len(bs)) \in Seq(Buffer)
           /\ Joined(bs) = Joined(SubSeq(bs, 1, k)) \o Joined(SubSeq(bs, k + 1, Len(bs)))
<1>1. Len(bs) \in Nat /\ \A i \in 1 .. Len(bs) : bs[i] \in Buffer
  BY LenProperties, ElementOfSeq
<1>2. SubSeq(bs, 1, k) \in Seq(Buffer) /\ Len(SubSeq(bs, 1, k)) = k
  BY FirstOnes
<1>3. SubSeq(bs, k + 1, Len(bs)) \in Seq(Buffer)
  <2>1. k + 1 \in Int /\ Len(bs) \in Int /\ \A i \in k + 1 .. Len(bs) : bs[i] \in Buffer
    BY <1>1
  <2>2. QED BY <2>1, SubSeqProperties
<1>4. SubSeq(bs, 1, k) \o SubSeq(bs, k + 1, Len(bs)) = SubSeq(bs, 1, Len(bs))
  <2>1. 1 \in 1 .. Len(bs) + 1 /\ k \in 1 - 1 .. Len(bs) /\ Len(bs) \in k .. Len(bs)
    BY <1>1
  <2>2. QED BY <2>1, ConcatAdjacentSubSeq
<1>5. SubSeq(bs, 1, Len(bs)) = bs
  BY SubSeqFull
<1>6. QED BY <1>2, <1>3, <1>4, <1>5, JoinedConcat, ZenonT(30)

LEMMA JoinedRest ==
    ASSUME NEW bs \in Seq(Buffer), NEW n \in 1 .. Len(bs)
    PROVE  /\ SubSeq(bs, n + 1, Len(bs)) \in Seq(Buffer)
           /\ Joined(SubSeq(bs, n, Len(bs)))
                  = bs[n].data \o Joined(SubSeq(bs, n + 1, Len(bs)))
<1>1. /\ Len(bs) \in Nat /\ n \in 0 .. Len(bs) /\ n \in Int /\ Len(bs) \in 1 .. Len(bs)
      /\ bs[n] \in Buffer /\ <<bs[n]>> \in Seq(Buffer)
      /\ \A i \in n .. Len(bs) : bs[i] \in Buffer
  BY LenProperties, ElementOfSeq
<1>2. SubSeq(bs, n + 1, Len(bs)) \in Seq(Buffer)
  BY <1>1, JoinedSplit
<1>3. SubSeq(bs, n, Len(bs)) = <<bs[n]>> \o SubSeq(bs, n + 1, Len(bs))
  BY <1>1, SubSeqRecursiveFirst
<1>4. QED BY <1>1, <1>2, <1>3, JoinedConcat, JoinedOne

\* The three parts of the queue.
LEMMA QueueParts ==
    ASSUME BufferInv
    PROVE  /\ Joined(SubSeq(buffersToWrite, next, Len(buffersToWrite))) \in Seq(Line)
           /\ Joined(buffers) \in Seq(Line) /\ currentBuffer.data \in Seq(Line)
           /\ file \in Seq(Nat)
<1>1. currentBuffer \in Buffer /\ buffers \in Seq(Buffer) /\ buffersToWrite \in Seq(Buffer)
      /\ file \in Seq(Nat) /\ next \in Nat \ {0}
  BY DEF BufferInv, TypeOK
<1>2. currentBuffer.data \in Seq(Line)
  BY <1>1 DEF Buffer
<1>3. SubSeq(buffersToWrite, next, Len(buffersToWrite)) \in Seq(Buffer)
  <2>1. /\ next \in Int /\ Len(buffersToWrite) \in Int
        /\ \A i \in next .. Len(buffersToWrite) : buffersToWrite[i] \in Buffer
    BY <1>1, LenProperties, ElementOfSeq
  <2>2. QED BY <2>1, SubSeqProperties
<1>4. QED BY <1>1, <1>2, <1>3, JoinedType

\* An append puts its line into the queue, unless no buffer can hold the line.
LEMMA AppendPuts ==
    ASSUME BufferInv, NEW len \in Lengths, append(len)
    PROVE  Channel!Put \/ UNCHANGED Channel!vars
<1> DEFINE line == appended + 1
           room == fits(currentBuffer, len)
           target == IF room THEN currentBuffer
                     ELSE IF nextBuffer # NoBuffer THEN nextBuffer ELSE EmptyBuffer
           p == Joined(SubSeq(buffersToWrite, next, Len(buffersToWrite)))
           q == Joined(buffers)
           d == currentBuffer.data
           before == IF room THEN p \o q ELSE p \o (q \o d)
<1>1. line \in Line /\ line \in 1 .. MaxAppends
  BY ConstantsAssumption DEF append, BufferInv, TypeOK, Line
<1>2. p \in Seq(Line) /\ q \in Seq(Line) /\ d \in Seq(Line) /\ p \o q \in Seq(Line)
      /\ q \o d \in Seq(Line) /\ before \in Seq(Line)
  <2>1. p \in Seq(Line) /\ q \in Seq(Line) /\ d \in Seq(Line)
    BY QueueParts
  <2> HIDE DEF p, q, d, room
  <2>2. p \o q \in Seq(Line) /\ q \o d \in Seq(Line) /\ p \o (q \o d) \in Seq(Line)
    BY <2>1, ConcatProperties
  <2>3. QED BY <2>1, <2>2
<1>3. UNCHANGED <<buffersToWrite, next, file, running>>
  BY DEF append, locals, output
<1>4. currentBuffer' = IF fits(target, len)
                       THEN [data |-> Append(target.data, line), used |-> target.used + len]
                       ELSE target
  BY DEF append, store
<1>5. Queued = before \o target.data /\ target.data \in Seq(Line)
  <2>1. CASE room
    <3> HIDE DEF room
    <3>1. QED BY <2>1, <1>2 DEF Queued
  <2>2. CASE ~room
    <3>1. target.data = <<>>
      BY <2>2 DEF BufferInv, Spares, EmptyBuffer
    <3>2. (p \o q) \o d = p \o (q \o d)
      <4> HIDE DEF p, q, d
      <4>1. QED BY <1>2, ConcatAssociative
    <3>3. before \o <<>> = before
      <4> HIDE DEF before
      <4>1. QED BY <1>2, ConcatEmptySeq
    <3>4. before = p \o (q \o d) /\ Queued = (p \o q) \o d
      BY <2>2 DEF Queued
    <3> HIDE DEF before, p, q, d, target
    <3>5. QED BY <3>1, <3>2, <3>3, <3>4
  <2>3. QED BY <2>1, <2>2
<1>6. Queued' = before \o currentBuffer'.data
  <2>1. CASE room
    <3>1. buffers' = buffers
      BY <2>1 DEF append
    <3>2. QED BY <2>1, <3>1, <1>3 DEF Queued
  <2>2. CASE ~room
    <3>1. buffers' = Append(buffers, currentBuffer)
      BY <2>2 DEF append
    <3>2. Joined(buffers') = q \o d
      BY <3>1, JoinedAppend DEF BufferInv, TypeOK
    <3>3. Queued' = (p \o (q \o d)) \o currentBuffer'.data
      BY <1>3, <3>2 DEF Queued
    <3>4. QED BY <2>2, <3>3
  <2>3. QED BY <2>1, <2>2
<1> HIDE DEF before, target, line
<1>7. CASE fits(target, len)
  <2>1. currentBuffer'.data = Append(target.data, line)
    BY <1>4, <1>7
  <2>2. Queued' = Append(Queued, line)
    BY <1>1, <1>2, <1>5, <1>6, <2>1, ConcatAppend, SMTT(30)
  <2>3. QED BY <1>1, <1>3, <2>2, WrittenLines DEF Channel!Put
<1>8. CASE ~fits(target, len)
  <2>1. currentBuffer' = target
    BY <1>4, <1>8
  <2>2. Queued' = Queued
    BY <1>5, <1>6, <2>1
  <2>3. QED BY <1>3, <2>2, WrittenLines DEF Channel!vars
<1>9. QED BY <1>7, <1>8

\* The full buffers and the current one become the batch, in the same order.
LEMMA TakeBuffersStutters ==
    ASSUME BufferInv, pc \in {"lock", "waiting"}, takeBuffers, UNCHANGED <<running, output>>
    PROVE  UNCHANGED Channel!vars
<1> DEFINE q == Joined(buffers)  d == currentBuffer.data
<1>1. buffersToWrite = <<>> /\ next = 1 /\ newBuffer1 = EmptyBuffer
  BY DEF BufferInv, Spares
<1>2. /\ buffersToWrite' = Append(buffers, currentBuffer) /\ next' = 1 /\ buffers' = <<>>
      /\ currentBuffer' = EmptyBuffer
  BY <1>1 DEF takeBuffers
<1>3. q \in Seq(Line) /\ d \in Seq(Line) /\ q \o d \in Seq(Line)
  <2>1. q \in Seq(Line) /\ d \in Seq(Line)
    BY QueueParts
  <2> HIDE DEF q, d
  <2>2. QED BY <2>1, ConcatProperties
<1>4. Queued = q \o d
  <2>1. SubSeq(buffersToWrite, next, Len(buffersToWrite)) = <<>>
    BY <1>1, SubSeqEmpty, EmptySeq
  <2>2. Queued = (<<>> \o q) \o d
    BY <2>1, JoinedEmpty DEF Queued
  <2> HIDE DEF q, d
  <2>3. QED BY <1>3, <2>2, ConcatEmptySeq
<1>5. Queued' = q \o d
  <2>1. Append(buffers, currentBuffer) \in Seq(Buffer)
    BY AppendProperties DEF BufferInv, TypeOK
  <2>2. SubSeq(buffersToWrite', next', Len(buffersToWrite')) = Append(buffers, currentBuffer)
    BY <1>2, <2>1, SubSeqFull
  <2>3. Joined(Append(buffers, currentBuffer)) = q \o d
    BY JoinedAppend DEF BufferInv, TypeOK
  <2>4. Joined(buffers') = <<>> /\ currentBuffer'.data = <<>>
    BY <1>2, JoinedEmpty DEF EmptyBuffer
  <2>5. Queued' = ((q \o d) \o <<>>) \o <<>>
    BY <2>2, <2>3, <2>4 DEF Queued
  <2> HIDE DEF q, d
  <2>6. QED BY <1>3, <2>5, ConcatEmptySeq
<1>6. QED BY <1>4, <1>5, WrittenLines DEF Channel!vars, output

\* Cutting the backlog takes the lines of the later buffers out of the queue.
LEMMA CutBacklogCuts ==
    ASSUME BufferInv, cutBacklog
    PROVE  Channel!Cut \/ UNCHANGED Channel!vars
<1> DEFINE b == buffersToWrite
           q == Joined(buffers)
           d == currentBuffer.data
<1>1. UNCHANGED <<currentBuffer, buffers, next, running>> /\ next = 1 /\ b \in Seq(Buffer)
      /\ file \in Seq(Nat)
  BY DEF cutBacklog, shared, BufferInv, Spares, TypeOK
<1>2. Queued = (Joined(b) \o q) \o d
  <2>1. SubSeq(b, next, Len(b)) = b
    BY <1>1, SubSeqFull
  <2>2. QED BY <2>1 DEF Queued
<1>3. CASE ~(Len(b) > MaxBacklog)
  <2>1. UNCHANGED <<file, buffersToWrite>>
    BY <1>3 DEF cutBacklog
  <2>2. QED BY <1>1, <2>1, WrittenLines DEF Channel!vars, Queued
<1>4. CASE Len(b) > MaxBacklog
  <2> DEFINE kept == SubSeq(b, 1, 2)  others == SubSeq(b, 3, Len(b))
             k == Joined(kept)  o == Joined(others)  r == q \o d
  <2>1. buffersToWrite' = kept /\ file' = Append(file, Notice)
    BY <1>4 DEF cutBacklog, Kept
  <2>2. WithoutNotices(file') = WithoutNotices(file)
    BY <1>1, <2>1, NoticesAreNoLines
  <2>3. /\ kept \in Seq(Buffer) /\ Len(kept) = 2 /\ others \in Seq(Buffer)
        /\ Joined(b) = k \o o
    <3>1. 2 \in 0 .. Len(b) /\ 2 + 1 = 3
      BY <1>1, <1>4, ConstantsAssumption, LenProperties
    <3> HIDE DEF b
    <3>2. /\ SubSeq(b, 1, 2) \in Seq(Buffer) /\ Len(SubSeq(b, 1, 2)) = 2
          /\ SubSeq(b, 2 + 1, Len(b)) \in Seq(Buffer)
          /\ Joined(b) = Joined(SubSeq(b, 1, 2)) \o Joined(SubSeq(b, 2 + 1, Len(b)))
      BY <1>1, <3>1, JoinedSplit
    <3>3. QED BY <3>1, <3>2
  <2>4. k \in Seq(Line) /\ o \in Seq(Line) /\ q \in Seq(Line) /\ d \in Seq(Line)
    BY <2>3, JoinedType, QueueParts
  <2>5. Queued' = (k \o q) \o d
    <3>1. SubSeq(kept, 1, Len(kept)) = kept
      BY <2>3, SubSeqFull
    <3>2. QED BY <1>1, <2>1, <3>1 DEF Queued
  <2> HIDE DEF kept, others, k, o, q, d
  <2>6. /\ r \in Seq(Line) /\ o \o r \in Seq(Line)
        /\ ((k \o o) \o q) \o d = k \o (o \o r) /\ (k \o q) \o d = k \o r
    <3>1. r \in Seq(Line) /\ o \o r \in Seq(Line) /\ k \o o \in Seq(Line)
      BY <2>4, ConcatProperties
    <3> DEFINE a == k \o o
    <3>2. (a \o q) \o d = a \o r /\ (k \o q) \o d = k \o r
      <4> HIDE DEF a
      <4>1. a \in Seq(Line) /\ k \in Seq(Line) /\ q \in Seq(Line) /\ d \in Seq(Line)
        BY <2>4, <3>1 DEF a
      <4> HIDE DEF r
      <4>2. (a \o q) \o d = a \o (q \o d)
        BY <4>1, ConcatAssociative
      <4>3. (k \o q) \o d = k \o (q \o d)
        BY <4>1, ConcatAssociative
      <4>4. QED BY <4>2, <4>3 DEF r
    <3> HIDE DEF r
    <3>3. (k \o o) \o r = k \o (o \o r)
      BY <2>4, <3>1, ConcatAssociative, SMTT(30)
    <3>4. QED BY <3>1, <3>2, <3>3
  <2>7. Queued = k \o (o \o r) /\ Queued' = k \o r
    BY <1>2, <2>3, <2>5, <2>6
  <2> HIDE DEF r
  <2>8. CASE o = <<>>
    <3>1. o \o r = r
      BY <2>6, <2>8, ConcatEmptySeq
    <3>2. QED BY <1>1, <2>2, <2>7, <3>1, WrittenLines DEF Channel!vars
  <2>9. CASE o # <<>>
    <3> DEFINE s == o \o r  i == Len(k)  j == Len(k) + Len(o)
    <3>1. /\ Len(k \o s) = Len(k) + Len(s) /\ Len(s) = Len(o) + Len(r)
          /\ Len(k) \in Nat /\ Len(o) \in Nat /\ Len(r) \in Nat
          /\ SubSeq(k \o s, 1, Len(k)) = k
      BY <2>4, <2>6, ConcatParts
    <3>2. Len(o) # 0
      BY <2>4, <2>9, EmptySeq
    <3>3. SubSeq(k \o s, j + 1, Len(k \o s)) = r
      <4>1. k \o o \in Seq(Line) /\ Len(k \o o) = j
        BY <2>4, ConcatParts
      <4>2. k \o s = (k \o o) \o r
        <5>1. (k \o o) \o r = k \o (o \o r)
          BY <2>4, <2>6, ConcatAssociative, SMTT(30)
        <5>2. QED BY <5>1
      <4> DEFINE a == k \o o
      <4>3. a \in Seq(Line) /\ Len(a) = j /\ k \o s = a \o r
        BY <4>1, <4>2
      <4> HIDE DEF a, j, s
      <4>4. SubSeq(a \o r, Len(a) + 1, Len(a \o r)) = r
        BY <2>6, <4>3, ConcatParts
      <4>5. QED BY <4>3, <4>4
    <3>4. /\ i \in 0 .. Len(Queued) /\ j \in 0 .. Len(Queued) /\ i < j
          /\ Queued' = SubSeq(Queued, 1, i) \o SubSeq(Queued, j + 1, Len(Queued))
      <4>1. Queued = k \o s
        BY <2>7
      <4>2. i \in 0 .. Len(k \o s) /\ j \in 0 .. Len(k \o s) /\ i < j
        BY <3>1, <3>2
      <4> HIDE DEF s, j
      <4>3. QED BY <2>7, <3>1, <3>3, <4>1, <4>2
    <3> HIDE DEF i, j, s
    <3>5. QED BY <1>1, <2>2, <3>4, WrittenLines DEF Channel!Cut
  <2>10. QED BY <2>8, <2>9
<1>5. QED BY <1>3, <1>4

\* One turn of the loop moves the lines of one buffer from the queue to the file.
LEMMA WriteBufferWrites ==
    ASSUME BufferInv, writeBuffer
    PROVE  Channel!Write \/ UNCHANGED Channel!vars
<1> DEFINE b == buffersToWrite
           x == b[next].data
           p == Joined(SubSeq(b, next + 1, Len(b)))
           q == Joined(buffers)
           d == currentBuffer.data
           r == (p \o q) \o d
<1>1. /\ file' = file \o x /\ next' = next + 1
      /\ UNCHANGED <<buffersToWrite, buffers, currentBuffer, running>>
      /\ b \in Seq(Buffer) /\ file \in Seq(Nat) /\ next \in 1 .. Len(b)
  BY LenProperties DEF writeBuffer, shared, BufferInv, TypeOK
<1>2. x \in Seq(Line)
  <2>1. b[next] \in Buffer
    BY <1>1, ElementOfSeq
  <2>2. QED BY <2>1 DEF Buffer
<1>3. WithoutNotices(file') = WithoutNotices(file) \o x
  <2> HIDE DEF x
  <2>1. QED BY <1>1, <1>2, LinesAreKept
<1>4. /\ Joined(SubSeq(b, next, Len(b))) = x \o p /\ p \in Seq(Line)
      /\ q \in Seq(Line) /\ d \in Seq(Line)
  <2>1. SubSeq(b, next + 1, Len(b)) \in Seq(Buffer)
        /\ Joined(SubSeq(b, next, Len(b))) = x \o p
    <3> HIDE DEF b
    <3>1. QED BY <1>1, JoinedRest
  <2>2. QED BY <2>1, JoinedType, QueueParts
<1>5. Queued = ((x \o p) \o q) \o d /\ Queued' = r
  BY <1>1, <1>4 DEF Queued
<1>6. r \in Seq(Line) /\ ((x \o p) \o q) \o d = x \o r
  <2> HIDE DEF x, p, q, d
  <2>1. x \o p \in Seq(Line) /\ p \o q \in Seq(Line)
    BY <1>2, <1>4, ConcatProperties
  <2>2. r \in Seq(Line) /\ (x \o p) \o q = x \o (p \o q)
    BY <1>2, <1>4, <2>1, ConcatProperties, ConcatAssociative
  <2> DEFINE y == p \o q
  <2>3. y \in Seq(Line)
    BY <2>1
  <2> HIDE DEF y
  <2>4. (x \o y) \o d = x \o (y \o d)
    BY <1>2, <1>4, <2>3, ConcatAssociative, SMTT(30)
  <2>5. QED BY <2>2, <2>4 DEF y
<1> HIDE DEF x, p, q, d, r
<1>7. Queued = x \o r
  BY <1>5, <1>6
<1>8. CASE x = <<>>
  <2>1. WithoutNotices(file') = WithoutNotices(file)
    <3>1. file \o <<>> = file
      BY <1>1, ConcatEmptySeq
    <3>2. QED BY <1>1, <1>8, <3>1
  <2>2. x \o r = r
    BY <1>6, <1>8, ConcatEmptySeq
  <2>3. QED BY <1>1, <1>5, <1>7, <2>1, <2>2, WrittenLines DEF Channel!vars
<1>9. CASE x # <<>>
  <2>1. /\ Len(x \o r) = Len(x) + Len(r) /\ Len(x) \in Nat /\ Len(r) \in Nat
        /\ SubSeq(x \o r, 1, Len(x)) = x /\ SubSeq(x \o r, Len(x) + 1, Len(x \o r)) = r
    BY <1>2, <1>6, ConcatParts
  <2>2. Len(x) # 0
    BY <1>2, <1>9, EmptySeq
  <2>3. /\ Len(x) \in 1 .. Len(Queued)
        /\ SubSeq(Queued, 1, Len(x)) = x /\ SubSeq(Queued, Len(x) + 1, Len(Queued)) = Queued'
    BY <1>5, <1>7, <2>1, <2>2
  <2>4. WithoutNotices(file') = WithoutNotices(file) \o SubSeq(Queued, 1, Len(x))
    BY <1>3, <2>3
  <2>5. QED BY <1>1, <2>3, <2>4, WrittenLines DEF Channel!Write
<1>10. QED BY <1>8, <1>9

LEMMA RecycleStutters ==
    ASSUME BufferInv, recycleBuffers
    PROVE  UNCHANGED Channel!vars
<1>1. /\ UNCHANGED <<file, running, buffers, currentBuffer>>
      /\ buffersToWrite' = <<>> /\ next' = 1 /\ next > Len(buffersToWrite)
      /\ next \in Int /\ Len(buffersToWrite) \in Int
  BY LenProperties DEF recycleBuffers, shared, BufferInv, TypeOK
<1>2. SubSeq(buffersToWrite, next, Len(buffersToWrite)) = <<>>
  BY <1>1, SubSeqEmpty
<1>3. SubSeq(buffersToWrite', next', Len(buffersToWrite')) = <<>>
  BY <1>1, SubSeqEmpty, EmptySeq
<1>4. Queued' = Queued
  BY <1>1, <1>2, <1>3 DEF Queued
<1>5. QED BY <1>1, <1>4, WrittenLines DEF Channel!vars

LEMMA OtherStepsStutter ==
    ASSUME UNCHANGED <<currentBuffer, buffers, buffersToWrite, next, file, running>>
    PROVE  UNCHANGED Channel!vars
BY WrittenLines DEF Channel!vars, Queued

LEMMA InitIsChannelInit == Init => Channel!Init
<1> SUFFICES ASSUME Init PROVE Channel!Init
  OBVIOUS
<1>1. /\ buffersToWrite = <<>> /\ buffers = <<>> /\ currentBuffer.data = <<>>
      /\ next = 1 /\ file = <<>> /\ running = FALSE
  BY DEF Init, EmptyBuffer
<1>2. Queued = <<>>
  <2>1. SubSeq(buffersToWrite, next, Len(buffersToWrite)) = <<>>
    BY <1>1, SubSeqEmpty, EmptySeq
  <2>2. Queued = (<<>> \o <<>>) \o <<>>
    BY <1>1, <2>1, JoinedEmpty DEF Queued
  <2>3. QED BY <2>2
<1>3. WithoutNotices(file) = <<>>
  <2>1. [i \in DOMAIN <<>> |-> IF <<>>[i] = Notice THEN <<>> ELSE <<(<<>>[i])>>] = <<>>
    OBVIOUS
  <2>2. QED BY <1>1, <2>1, FlattenEmpty DEF WithoutNotices
<1>4. QED BY <1>1, <1>2, <1>3, WrittenLines DEF Channel!Init

LEMMA NextIsChannelNext == BufferInv /\ [Next]_vars => [Channel!Next]_(Channel!vars)
<1> SUFFICES ASSUME BufferInv, [Next]_vars PROVE [Channel!Next]_(Channel!vars)
  OBVIOUS
<1>1. CASE \E len \in Lengths : append(len)
  BY <1>1, AppendPuts DEF Channel!Next
<1>2. CASE lockBuffers
  <2>1. CASE buffers = <<>>
    BY <1>2, <2>1, OtherStepsStutter DEF lockBuffers, shared, locals, output
  <2>2. CASE buffers # <<>>
    <3>1. takeBuffers /\ pc \in {"lock", "waiting"} /\ UNCHANGED <<running, output>>
      BY <1>2, <2>2 DEF lockBuffers
    <3>2. QED BY <3>1, TakeBuffersStutters
  <2>3. QED BY <2>1, <2>2
<1>3. CASE waitReturns
  <2>1. takeBuffers /\ pc \in {"lock", "waiting"} /\ UNCHANGED <<running, output>>
    BY <1>3 DEF waitReturns
  <2>2. QED BY <2>1, TakeBuffersStutters
<1>4. CASE cutBacklog
  BY <1>4, CutBacklogCuts DEF Channel!Next
<1>5. CASE writeBuffer
  BY <1>5, WriteBufferWrites DEF Channel!Next
<1>6. CASE recycleBuffers
  BY <1>6, RecycleStutters
<1>7. CASE start
  <2>1. running = FALSE
    BY <1>7 DEF start, BufferInv, TypeOK, Control
  <2>2. UNCHANGED <<Queued, Written>> /\ running' = TRUE
    BY <1>7 DEF start, shared, locals, output, Queued, Written
  <2>3. QED BY <2>1, <2>2 DEF Channel!Next, Channel!Open
<1>8. CASE stop
  <2>1. running = TRUE
    BY <1>8 DEF stop, BufferInv, TypeOK, Control
  <2>2. UNCHANGED <<Queued, Written>> /\ running' = FALSE
    BY <1>8 DEF stop, shared, locals, output, Queued, Written
  <2>3. QED BY <2>1, <2>2 DEF Channel!Next, Channel!Close
<1>9. CASE startReturns \/ stopNotifies \/ stopReturns
  BY <1>9, OtherStepsStutter
     DEF startReturns, stopNotifies, stopReturns, shared, locals, output
<1>10. CASE threadBegins \/ testRunning \/ finalFlush
  BY <1>10, OtherStepsStutter
     DEF threadBegins, testRunning, finalFlush, shared, locals, output
<1>11. CASE UNCHANGED vars
  BY <1>11, OtherStepsStutter DEF vars, shared, locals, output
<1>12. QED
  BY <1>1, <1>2, <1>3, <1>4, <1>5, <1>6, <1>7, <1>8, <1>9, <1>10, <1>11
     DEF Next, OwnerNext, threadFunc

\* The double buffering is a first-in first-out channel: what threadFunc writes is
\* what append was given, in order, without what a cut took out of the queue.
THEOREM IsLogChannel == Spec => ImplementsLogChannel
BY InitIsChannelInit, NextIsChannelNext, BufferInvariant, PTL DEF Spec, ImplementsLogChannel
=============================================================================
