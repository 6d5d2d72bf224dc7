------------------------------ MODULE NetProofs ------------------------------
(***************************************************************************)
(* Theorems about mengSen/net: the loop and the buffer.                    *)
(*                                                                         *)
(* EventLoop is for any set of other threads and any number of calls of its *)
(* operations and of loop().                                               *)
(*                                                                         *)
(* Buffer is for any sizes, any bytes and any number of calls: its indices *)
(* stay in order, room is found, and what it holds is the stream of        *)
(* ByteStream.                                                             *)
(***************************************************************************)
EXTENDS EventLoop, Buffer, SequenceTheorems, TLAPS

Quiet == \A i \in DOMAIN pending : pending[i] \in quiet

\* Between the end of handleRead and the swap, a functor may be pending with the
\* counter at zero: the swap is still to come.  Everywhere else a wakeup is.
Control ==
    /\ calling <=> place \in {"swap", "run"}
    /\ place # "run" => functors = <<>>
    /\ place \notin {"handle", "swap"} => WakeupComing \/ Quiet

LoopInv == TypeOK /\ Control

-----------------------------------------------------------------------------
\* The critical section of queueInLoop.
LEMMA Push_effect ==
    ASSUME TypeOK, NEW t, push(t)
    PROVE  /\ calls' \in Nat /\ pushed' \in Nat /\ pushed' = pushed + 1
           /\ pending' = Append(pending, pushed') /\ pending' \in Seq(Nat)
           /\ DOMAIN pending' = 1 .. Len(pending) + 1 /\ DOMAIN pending = 1 .. Len(pending)
           /\ \A i \in 1 .. Len(pending) : pending'[i] = pending[i]
           /\ pending'[Len(pending) + 1] = pushed' /\ Len(pending) \in Nat
<1>1. calls' \in Nat /\ pushed' \in Nat /\ pushed' = pushed + 1
  BY DEF TypeOK, push
<1>2. pending' = Append(pending, pushed') /\ pending \in Seq(Nat)
  BY DEF TypeOK, push
<1>3. QED BY <1>1, <1>2, AppendProperties, LenProperties

LEMMA Next_effect ==
    ASSUME TypeOK, functors # <<>>
    PROVE  next[1] \in Nat /\ next[2] \in Seq(Nat) /\ functors = <<next[1]>> \o next[2]
<1>1. functors \in Seq(Nat)
  BY DEF TypeOK
<1>2. /\ Head(functors) \in Nat /\ Tail(functors) \in Seq(Nat)
      /\ Len(Tail(functors)) = Len(functors) - 1
      /\ \A i \in 1 .. Len(Tail(functors)) : Tail(functors)[i] = functors[i + 1]
      /\ Len(functors) \in Nat /\ Len(functors) > 0
  BY <1>1, HeadTailProperties, EmptySeq
<1>3. Head(functors) = functors[1]
  BY <1>1
<1>4. <<Head(functors)>> \in Seq(Nat) /\ Len(<<Head(functors)>>) = 1
  BY <1>2
<1>5. functors = <<Head(functors)>> \o Tail(functors)
  <2> DEFINE joined == <<Head(functors)>> \o Tail(functors)
  <2>1. /\ joined \in Seq(Nat) /\ Len(joined) = Len(functors)
        /\ \A i \in 1 .. Len(functors) :
              joined[i] = IF i <= 1 THEN Head(functors) ELSE Tail(functors)[i - 1]
    BY <1>2, <1>4, ConcatProperties
  <2>2. \A i \in 1 .. Len(functors) : joined[i] = functors[i]
    BY <1>2, <1>3, <2>1
  <2>3. QED BY <1>1, <2>1, <2>2, SeqEqual
<1>6. QED BY <1>2, <1>5 DEF next

LEMMA InitLoopInv == Init => LoopInv
<1> SUFFICES ASSUME Init PROVE LoopInv
  OBVIOUS
<1>1. /\ <<>> \in Seq(Nat) /\ {} \subseteq Nat /\ 0 \in Nat /\ DOMAIN <<>> = {}
      /\ [t \in Others |-> "idle"] \in [Others -> {"idle", "wakeup"}]
  BY EmptySeq
<1>2. TypeOK
  BY <1>1 DEF Init, TypeOK
<1>3. Control
  BY <1>1 DEF Init, Control, Quiet
<1>4. QED BY <1>2, <1>3 DEF LoopInv

LEMMA QueueKeeps ==
    ASSUME LoopInv, NEW t \in Others, queueInLoop(t)
    PROVE  LoopInv'
<1>1. TypeOK /\ Control
  BY DEF LoopInv
<1>2. /\ UNCHANGED <<place, calling, functors, active, loops, ran, quit_, eventfd, quiet>>
      /\ pc' = [pc EXCEPT ![t] = "wakeup"]
  BY DEF queueInLoop, loopVars, mustWake
<1>3. /\ calls' \in Nat /\ pushed' \in Nat /\ pending' \in Seq(Nat)
  BY <1>1, Push_effect DEF queueInLoop
<1>4. TypeOK'
  BY <1>1, <1>2, <1>3 DEF TypeOK
<1>5. pc'[t] = "wakeup"
  BY <1>1, <1>2 DEF TypeOK
<1>6. Control'
  BY <1>1, <1>2, <1>5 DEF Control, WakeupComing
<1>7. QED BY <1>4, <1>6 DEF LoopInv

LEMMA QueueOwnKeeps ==
    ASSUME LoopInv, queueInOwnLoop
    PROVE  LoopInv'
<1>1. TypeOK /\ Control
  BY DEF LoopInv
<1>2. /\ UNCHANGED <<place, calling, functors, active, loops, ran, quit_, pc>>
      /\ eventfd' = IF mustWake(LoopThread) THEN eventfd + 1 ELSE eventfd
      /\ quiet' = IF place = "outside" THEN quiet \cup {pushed'} ELSE quiet
      /\ push(LoopThread) /\ InUserCode
  BY DEF queueInOwnLoop, loopVars
<1>3. /\ calls' \in Nat /\ pushed' \in Nat /\ pending' \in Seq(Nat)
      /\ DOMAIN pending' = 1 .. Len(pending) + 1 /\ DOMAIN pending = 1 .. Len(pending)
      /\ \A i \in 1 .. Len(pending) : pending'[i] = pending[i]
      /\ pending'[Len(pending) + 1] = pushed' /\ Len(pending) \in Nat
  BY <1>1, <1>2, Push_effect
<1>4. eventfd' \in Nat /\ (eventfd > 0 => eventfd' > 0) /\ (calling => eventfd' > 0)
  BY <1>1, <1>2 DEF TypeOK, mustWake
<1>5. TypeOK'
  <2>1. quiet' \subseteq Nat
    BY <1>1, <1>2, <1>3 DEF TypeOK
  <2>2. QED BY <1>1, <1>2, <1>3, <1>4, <2>1 DEF TypeOK
<1>6. Control'
  <2>1. CASE place = "outside"
    <3>1. Quiet => Quiet'
      BY <1>2, <1>3, <2>1 DEF Quiet
    <3>2. WakeupComing => WakeupComing'
      BY <1>2, <1>4 DEF WakeupComing
    <3>3. QED BY <1>1, <1>2, <2>1, <3>1, <3>2 DEF Control
  <2>2. CASE place = "handle"
    BY <1>1, <1>2, <2>2 DEF Control
  <2>3. CASE place = "run"
    BY <1>1, <1>2, <1>4, <2>3 DEF Control, WakeupComing
  <2>4. QED BY <1>2, <2>1, <2>2, <2>3 DEF InUserCode
<1>7. QED BY <1>5, <1>6 DEF LoopInv

LEMMA OthersKeep ==
    ASSUME LoopInv, NEW t \in Others, quit(t) \/ wakeup(t)
    PROVE  LoopInv'
<1>1. TypeOK /\ Control
  BY DEF LoopInv
<1>2. CASE quit(t)
  <2>1. /\ UNCHANGED <<place, calling, functors, active, loops, ran, pending, pushed, quiet,
                       eventfd>>
        /\ calls' = calls + 1 /\ quit_' = TRUE /\ pc' = [pc EXCEPT ![t] = "wakeup"]
    BY <1>2 DEF quit, loopVars, queueVars, afterQuit
  <2>2. TypeOK' /\ pc'[t] = "wakeup"
    BY <1>1, <2>1 DEF TypeOK
  <2>3. Control'
    BY <1>1, <2>1, <2>2 DEF Control, WakeupComing
  <2>4. QED BY <2>2, <2>3 DEF LoopInv
<1>3. CASE wakeup(t)
  <2>1. /\ UNCHANGED <<place, calling, functors, active, loops, ran, pending, pushed, quiet,
                       quit_, calls>>
        /\ eventfd' = eventfd + 1 /\ pc' = [pc EXCEPT ![t] = "idle"]
    BY <1>3 DEF wakeup, loopVars, queueVars
  <2>2. TypeOK' /\ eventfd' > 0
    BY <1>1, <2>1 DEF TypeOK
  <2>3. Control'
    BY <1>1, <2>1, <2>2 DEF Control, WakeupComing
  <2>4. QED BY <2>2, <2>3 DEF LoopInv
<1>4. QED BY <1>2, <1>3

\* The steps of the loop thread that neither push, swap nor call a functor.
LEMMA LoopKeeps ==
    ASSUME LoopInv,
           \/ loop \/ resetQuit \/ testQuit \/ pollReturns \/ pollReturnsOtherwise
           \/ handleRead \/ handlersReturn \/ batchEnds \/ quitOwnLoop
    PROVE  LoopInv'
<1>1. TypeOK /\ Control
  BY DEF LoopInv
<1>2. UNCHANGED <<pending, functors, pc, pushed, ran, quiet>>
  BY DEF loop, resetQuit, testQuit, pollReturns, pollReturnsOtherwise, handleRead,
         handlersReturn, batchEnds, quitOwnLoop, queueVars, loopVars
<1>3. TypeOK'
  <2>1. CASE loop
    BY <1>1, <1>2, <2>1 DEF TypeOK, loop
  <2>2. CASE resetQuit
    BY <1>1, <1>2, <2>2 DEF TypeOK, resetQuit
  <2>3. CASE testQuit
    BY <1>1, <1>2, <2>3 DEF TypeOK, testQuit
  <2>4. CASE pollReturns
    BY <1>1, <1>2, <2>4 DEF TypeOK, pollReturns
  <2>5. CASE pollReturnsOtherwise
    BY <1>1, <1>2, <2>5 DEF TypeOK, pollReturnsOtherwise
  <2>6. CASE handleRead
    BY <1>1, <1>2, <2>6 DEF TypeOK, handleRead
  <2>7. CASE handlersReturn
    BY <1>1, <1>2, <2>7 DEF TypeOK, handlersReturn, handled
  <2>8. CASE batchEnds
    BY <1>1, <1>2, <2>8 DEF TypeOK, batchEnds
  <2>9. CASE quitOwnLoop
    BY <1>1, <1>2, <2>9 DEF TypeOK, quitOwnLoop, loopVars
  <2>10. QED BY <2>1, <2>2, <2>3, <2>4, <2>5, <2>6, <2>7, <2>8, <2>9
<1>4. Quiet' <=> Quiet
  BY <1>2 DEF Quiet
<1>5. CASE handleRead
  <2>1. place' = "handle" /\ UNCHANGED <<calling, functors, place>>
    BY <1>2, <1>5 DEF handleRead
  <2>2. Control'
    BY <1>1, <2>1 DEF Control
  <2>3. QED BY <1>3, <2>2 DEF LoopInv
<1>6. CASE ~handleRead
  <2>1. WakeupComing' <=> WakeupComing
    BY <1>2, <1>6 DEF WakeupComing, loop, resetQuit, testQuit, pollReturns, handlersReturn,
           pollReturnsOtherwise, batchEnds, quitOwnLoop
  <2>2. Control'
    BY <1>1, <1>2, <1>4, <1>6, <2>1 DEF Control, loop, resetQuit, testQuit, pollReturns,
           pollReturnsOtherwise, handlersReturn, handled, batchEnds, quitOwnLoop, loopVars
  <2>3. QED BY <1>3, <2>2 DEF LoopInv
<1>7. QED BY <1>5, <1>6

LEMMA SwapKeeps ==
    ASSUME LoopInv, swap
    PROVE  LoopInv'
<1>1. TypeOK /\ Control
  BY DEF LoopInv
<1>2. /\ place = "swap" /\ place' = "run" /\ functors' = pending /\ pending' = <<>>
      /\ UNCHANGED <<quit_, calling, eventfd, active, pc, calls, loops, pushed, ran, quiet>>
  BY DEF swap
<1>3. <<>> \in Seq(Nat) /\ DOMAIN <<>> = {}
  BY EmptySeq
<1>4. TypeOK'
  BY <1>1, <1>2, <1>3 DEF TypeOK
<1>5. Control'
  BY <1>1, <1>2, <1>3 DEF Control, Quiet
<1>6. QED BY <1>4, <1>5 DEF LoopInv

LEMMA FunctorReturnsKeeps ==
    ASSUME LoopInv, functorReturns
    PROVE  LoopInv'
<1>1. TypeOK /\ Control
  BY DEF LoopInv
<1>2. /\ place = "run" /\ functors # <<>>
      /\ ran' = Append(ran, next[1]) /\ functors' = next[2]
      /\ UNCHANGED <<pending, pushed, quiet, place, quit_, calling, eventfd, active, pc,
                     calls, loops>>
  BY DEF functorReturns, queueVars
<1>3. functors' \in Seq(Nat) /\ ran' \in Seq(Nat)
  BY <1>1, <1>2, Next_effect, AppendProperties DEF TypeOK
<1>4. TypeOK'
  BY <1>1, <1>2, <1>3 DEF TypeOK
<1>5. Control'
  BY <1>1, <1>2 DEF Control, Quiet, WakeupComing
<1>6. QED BY <1>4, <1>5 DEF LoopInv

LEMMA NextKeepsLoopInv == LoopInv /\ [Next]_vars => LoopInv'
<1> SUFFICES ASSUME LoopInv, [Next]_vars PROVE LoopInv'
  OBVIOUS
<1>1. CASE Next
  BY <1>1, QueueKeeps, QueueOwnKeeps, OthersKeep, LoopKeeps, SwapKeeps, FunctorReturnsKeeps
     DEF Next, loopStep
<1>2. CASE UNCHANGED vars
  BY <1>2 DEF LoopInv, TypeOK, Control, Quiet, WakeupComing, vars
<1>3. QED BY <1>1, <1>2

\* The inductive invariant: types, and where a wakeup must be coming.
THEOREM LoopInvariant == Spec => []LoopInv
<1>1. QED BY InitLoopInv, NextKeepsLoopInv, PTL DEF Spec

\* Types, and that handleRead never finds the counter of the eventfd at zero.
THEOREM TypeCorrect == Spec => []TypeOK
<1>1. LoopInv => TypeOK
  BY DEF LoopInv
<1>2. QED BY LoopInvariant, <1>1, PTL

\* The loop never sleeps in poll over a functor queued by another thread, or by
\* a callback: the counter is raised or about to be.
THEOREM NoLostWakeup == Spec => []NoSleepOverWork
<1>1. LoopInv => NoSleepOverWork
  BY DEF LoopInv, Control, Quiet, NoSleepOverWork
<1>2. QED BY LoopInvariant, <1>1, PTL

-----------------------------------------------------------------------------
All == (ran \o functors) \o pending

LEMMA All_type ==
    ASSUME TypeOK
    PROVE  All \in Seq(Nat) /\ ran \o functors \in Seq(Nat)
BY ConcatProperties DEF TypeOK, All

LEMMA AppendToConcat ==
    ASSUME NEW a \in Seq(Nat), NEW b \in Seq(Nat), NEW x \in Nat
    PROVE  a \o Append(b, x) = Append(a \o b, x)
<1>1. <<x>> \in Seq(Nat) /\ a \o b \in Seq(Nat)
  BY ConcatProperties
<1>2. Append(b, x) = b \o <<x>> /\ Append(a \o b, x) = (a \o b) \o <<x>>
  BY <1>1, AppendIsConcat
<1>3. (a \o b) \o <<x>> = a \o (b \o <<x>>)
  BY <1>1, ConcatAssociative
<1>4. QED BY <1>2, <1>3

\* A push puts the new functor behind all the others.
LEMMA PushKeepsOrder ==
    ASSUME TypeOK, FunctorsInOrder, NEW t, push(t), UNCHANGED <<ran, functors>>
    PROVE  FunctorsInOrder'
<1>1. /\ ran \o functors \in Seq(Nat) /\ pending \in Seq(Nat) /\ pushed \in Nat
      /\ pushed + 1 \in Nat /\ pushed' = pushed + 1 /\ pending' = Append(pending, pushed + 1)
  BY All_type DEF TypeOK, push
<1>2. All' = Append(All, pushed + 1)
  BY <1>1, AppendToConcat DEF All
<1>3. All \in Seq(Nat)
  BY All_type
<1>4. Len(All) = pushed /\ \A n \in 1 .. pushed : All[n] = n
  BY DEF FunctorsInOrder, All
<1>5. /\ Len(All') = pushed + 1
      /\ \A n \in 1 .. pushed : All'[n] = All[n]
      /\ All'[pushed + 1] = pushed + 1
  BY <1>1, <1>2, <1>3, <1>4, AppendProperties
<1>6. ASSUME NEW n \in 1 .. pushed + 1 PROVE All'[n] = n
  <2>1. n \in 1 .. pushed \/ n = pushed + 1
    BY <1>1
  <2>2. QED BY <1>4, <1>5, <2>1
<1>7. QED BY <1>1, <1>5, <1>6 DEF FunctorsInOrder, All

LEMMA NextKeepsOrder ==
    ASSUME LoopInv, FunctorsInOrder, [Next]_vars
    PROVE  FunctorsInOrder'
<1>1. TypeOK /\ Control
  BY DEF LoopInv
<1>2. CASE queueInOwnLoop \/ \E t \in Others : queueInLoop(t)
  BY <1>1, <1>2, PushKeepsOrder DEF queueInOwnLoop, queueInLoop, loopVars
<1>3. CASE swap
  <2>1. /\ functors = <<>> /\ functors' = pending /\ pending' = <<>>
        /\ ran' = ran /\ pushed' = pushed
    BY <1>1, <1>3 DEF swap, Control
  <2>2. ran \in Seq(Nat) /\ pending \in Seq(Nat)
    BY <1>1 DEF TypeOK
  <2>3. ran \o pending \in Seq(Nat)
    BY <2>2, ConcatProperties
  <2>4. (ran \o <<>>) \o pending = ran \o pending
    BY <2>2, ConcatEmptySeq
  <2>5. (ran \o pending) \o <<>> = ran \o pending
    BY <2>3, ConcatEmptySeq
  <2>6. All' = All
    BY <2>1, <2>4, <2>5 DEF All
  <2>7. QED BY <2>1, <2>6 DEF FunctorsInOrder, All
<1>4. CASE functorReturns
  <2>1. /\ functors # <<>> /\ ran' = Append(ran, next[1]) /\ functors' = next[2]
        /\ pending' = pending /\ pushed' = pushed
    BY <1>4 DEF functorReturns, queueVars
  <2>2. ran \in Seq(Nat) /\ pending \in Seq(Nat)
    BY <1>1 DEF TypeOK
  <2>3. next[1] \in Nat /\ next[2] \in Seq(Nat) /\ functors = <<next[1]>> \o next[2]
    BY <1>1, <2>1, Next_effect
  <2>4. <<next[1]>> \in Seq(Nat)
    BY <2>3
  <2>5. Append(ran, next[1]) = ran \o <<next[1]>>
    BY <2>2, <2>3, AppendIsConcat
  <2>6. ran' \o functors' = ran \o functors
    <3>1. (ran \o <<next[1]>>) \o next[2] = ran \o (<<next[1]>> \o next[2])
      <4> DEFINE first == <<next[1]>>
                 rest == next[2]
      <4>1. first \in Seq(Nat) /\ rest \in Seq(Nat)
        BY <2>3, <2>4
      <4> HIDE DEF first, rest
      <4>2. (ran \o first) \o rest = ran \o (first \o rest)
        BY <2>2, <4>1, ConcatAssociative, SMTT(30)
      <4>3. QED BY <4>2 DEF first, rest
    <3>2. QED BY <2>1, <2>3, <2>5, <3>1
  <2>7. QED BY <2>1, <2>6 DEF FunctorsInOrder
<1>5. CASE UNCHANGED <<ran, functors, pending, pushed>>
  BY <1>5 DEF FunctorsInOrder
<1>6. QED
  BY <1>2, <1>3, <1>4, <1>5 DEF Next, loopStep, loop, resetQuit, testQuit, pollReturns,
     pollReturnsOtherwise, handleRead, handlersReturn, batchEnds, quitOwnLoop, quit, wakeup,
     queueVars, loopVars, vars

\* Functors are called once each, in the order in which they were queued.
THEOREM FunctorsCalledInOrder == Spec => []FunctorsInOrder
<1>1. Init => FunctorsInOrder
  <2>1. <<>> \in Seq(Nat) /\ Len(<<>>) = 0
    BY EmptySeq
  <2>2. (<<>> \o <<>>) \o <<>> = <<>>
    BY <2>1, ConcatEmptySeq
  <2>3. QED BY <2>1, <2>2 DEF Init, FunctorsInOrder
<1>2. LoopInv /\ FunctorsInOrder /\ [Next]_vars => FunctorsInOrder'
  BY NextKeepsOrder
<1>3. QED BY LoopInvariant, <1>1, <1>2, PTL DEF Spec

-----------------------------------------------------------------------------
(* Buffer *)

\* The indices are in order and in the vector, and the room for a header too: the indices
\* go back to its end when all is read.
Ordered(b) ==
    /\ b \in Buffers
    /\ b.readerIndex_ <= b.writerIndex_ /\ b.writerIndex_ <= Len(b.buffer_)
    /\ kCheapPrepend <= Len(b.buffer_)

LEMMA FunctionIsSeq ==
    ASSUME NEW n \in Nat, NEW f \in [1 .. n -> Nat]
    PROVE  f \in Seq(Nat) /\ Len(f) = n
<1>1. f \in Seq(Nat)
  BY SeqDef
<1>2. DOMAIN f = 1 .. Len(f) /\ Len(f) \in Nat /\ DOMAIN f = 1 .. n
  BY <1>1, LenProperties
<1>3. QED BY <1>1, <1>2

-----------------------------------------------------------------------------
(* The readable bytes *)

LEMMA Piece ==
    ASSUME NEW b, Ordered(b)
    PROVE  /\ toStringPiece(b) \in Seq(Nat)
           /\ readableBytes(b) \in Nat /\ Len(toStringPiece(b)) = readableBytes(b)
           /\ \A i \in 1 .. readableBytes(b) : toStringPiece(b)[i] = b.buffer_[b.readerIndex_ + i]
<1> DEFINE r == b.readerIndex_  w == b.writerIndex_  v == b.buffer_
<1>1. r \in Nat /\ w \in Nat /\ v \in Seq(Nat) /\ Len(v) \in Nat /\ r <= w /\ w <= Len(v)
  BY LenProperties DEF Ordered, Buffers
<1>2. \A i \in r + 1 .. w : v[i] \in Nat
  BY <1>1, ElementOfSeq
<1>3. r + 1 \in Int /\ w \in Int
  BY <1>1
<1>4. /\ SubSeq(v, r + 1, w) \in Seq(Nat)
      /\ Len(SubSeq(v, r + 1, w)) = IF r + 1 <= w THEN w - (r + 1) + 1 ELSE 0
      /\ \A i \in 1 .. w - (r + 1) + 1 : SubSeq(v, r + 1, w)[i] = v[(r + 1) + i - 1]
  BY <1>2, <1>3, SubSeqProperties
<1>5. /\ w - (r + 1) + 1 = w - r /\ w - r \in Nat
      /\ (IF r + 1 <= w THEN w - (r + 1) + 1 ELSE 0) = w - r
  BY <1>1, SMTT(30)
<1>6. ASSUME NEW i \in 1 .. w - r PROVE SubSeq(v, r + 1, w)[i] = v[r + i]
  <2>1. (r + 1) + i - 1 = r + i
    BY <1>1, <1>6
  <2>2. QED BY <1>4, <1>5, <1>6, <2>1
<1>7. toStringPiece(b) = SubSeq(v, r + 1, w) /\ readableBytes(b) = w - r
  BY DEF toStringPiece, readableBytes
<1>8. QED BY <1>4, <1>5, <1>6, <1>7

\* What the bytes of two sequences one after the other are.
LEMMA Joined ==
    ASSUME NEW s \in Seq(Nat), NEW t \in Seq(Nat), NEW n, n = Len(s)
    PROVE  /\ s \o t \in Seq(Nat) /\ Len(s \o t) = n + Len(t)
           /\ \A i \in 1 .. n + Len(t) : (s \o t)[i] = IF i <= n THEN s[i] ELSE t[i - n]
BY ConcatProperties

\* A sequence of the same bytes is the piece.
LEMMA PieceIs ==
    ASSUME NEW b, Ordered(b), NEW s \in Seq(Nat), Len(s) = readableBytes(b),
           \A i \in 1 .. readableBytes(b) : b.buffer_[b.readerIndex_ + i] = s[i]
    PROVE  toStringPiece(b) = s
BY Piece, SeqEqual

\* Bytes are copied where there is room for them, and the others stay.
LEMMA Copied ==
    ASSUME NEW v \in Seq(Nat), NEW at \in Nat, NEW s \in Seq(Nat), at + Len(s) <= Len(v)
    PROVE  /\ copied(v, at, s) \in Seq(Nat) /\ Len(copied(v, at, s)) = Len(v)
           /\ \A i \in 1 .. Len(s) : copied(v, at, s)[at + i] = s[i]
           /\ \A i \in 1 .. Len(v) : i <= at \/ i > at + Len(s) => copied(v, at, s)[i] = v[i]
<1>1. Len(v) \in Nat /\ DOMAIN v = 1 .. Len(v) /\ Len(s) \in Nat
  BY LenProperties
<1>2. \A i \in 1 .. Len(v) :
        copied(v, at, s)[i] = IF i \in at + 1 .. at + Len(s) THEN s[i - at] ELSE v[i]
  BY <1>1 DEF copied
<1>3. \A i \in at + 1 .. at + Len(s) : i - at \in 1 .. Len(s)
  BY <1>1
<1>4. \A i \in 1 .. Len(v) : copied(v, at, s)[i] \in Nat
  BY <1>2, <1>3, ElementOfSeq
<1>5. DOMAIN copied(v, at, s) = 1 .. Len(v)
  BY <1>1 DEF copied
<1>6. copied(v, at, s) \in [1 .. Len(v) -> Nat]
  BY <1>4, <1>5, <1>1 DEF copied
<1>7. copied(v, at, s) \in Seq(Nat) /\ Len(copied(v, at, s)) = Len(v)
  BY <1>1, <1>6, FunctionIsSeq
<1>8. \A i \in 1 .. Len(s) : at + i \in at + 1 .. at + Len(s) /\ at + i \in 1 .. Len(v)
                                /\ at + i - at = i
  BY <1>1
<1>9. ASSUME NEW i \in 1 .. Len(s) PROVE copied(v, at, s)[at + i] = s[i]
  <2>1. copied(v, at, s)[at + i] =
          IF at + i \in at + 1 .. at + Len(s) THEN s[at + i - at] ELSE v[at + i]
    BY <1>2, <1>8
  <2>2. QED BY <1>8, <2>1
<1>10. \A i \in 1 .. Len(v) : i <= at \/ i > at + Len(s) => copied(v, at, s)[i] = v[i]
  BY <1>1, <1>2
<1>11. QED BY <1>7, <1>9, <1>10

-----------------------------------------------------------------------------
(* Room *)

LEMMA NewIsOrdered == Ordered(newBuffer) /\ readableBytes(newBuffer) = 0
<1> DEFINE n == kCheapPrepend + kInitialSize
<1>1. n \in Nat /\ kCheapPrepend \in Nat /\ kCheapPrepend <= n
  BY SizesAssumption
<1>2. [i \in 1 .. n |-> Junk] \in [1 .. n -> Nat]
  BY DEF Junk
<1>3. [i \in 1 .. n |-> Junk] \in Seq(Nat) /\ Len([i \in 1 .. n |-> Junk]) = n
  BY <1>1, <1>2, FunctionIsSeq
<1>4. QED BY <1>1, <1>3 DEF newBuffer, Ordered, Buffers, readableBytes

\* makeSpace keeps the readable bytes and finds the room; bytes move to the front only.
LEMMA SpaceMade ==
    ASSUME NEW b, Ordered(b), NEW len \in Nat, writableBytes(b) < len
    PROVE  /\ Ordered(makeSpace(b, len)) /\ len <= writableBytes(makeSpace(b, len))
           /\ toStringPiece(makeSpace(b, len)) = toStringPiece(b)
           /\ makeSpace(b, len).readerIndex_ # b.readerIndex_ =>
                /\ makeSpace(b, len).readerIndex_ = kCheapPrepend
                /\ kCheapPrepend < b.readerIndex_
<1> DEFINE r == b.readerIndex_  w == b.writerIndex_  v == b.buffer_  c == makeSpace(b, len)
<1>1. r \in Nat /\ w \in Nat /\ v \in Seq(Nat) /\ Len(v) \in Nat /\ r <= w /\ w <= Len(v)
      /\ kCheapPrepend \in Nat /\ kCheapPrepend <= Len(v) /\ DOMAIN v = 1 .. Len(v)
      /\ b = [buffer_ |-> v, readerIndex_ |-> r, writerIndex_ |-> w]
  BY LenProperties, SizesAssumption DEF Ordered, Buffers
<1>2. CASE mustGrow(b, len)
  <2> DEFINE grown == [i \in 1 .. w + len |-> IF i \in DOMAIN v THEN v[i] ELSE Junk]
  <2>1. w + len \in Nat
    BY <1>1
  <2>2. \A i \in DOMAIN v : v[i] \in Nat
    BY <1>1, ElementOfSeq
  <2>3. grown \in [1 .. w + len -> Nat]
    BY <2>2 DEF Junk
  <2>4. grown \in Seq(Nat) /\ Len(grown) = w + len
    BY <2>1, <2>3, FunctionIsSeq
  <2>5. c = [buffer_ |-> grown, readerIndex_ |-> r, writerIndex_ |-> w]
    BY <1>1, <1>2 DEF makeSpace
  <2>6. Ordered(c) /\ readableBytes(c) = readableBytes(b) /\ len <= writableBytes(c)
    <3>1. kCheapPrepend <= w + len /\ w <= w + len /\ len <= w + len - w
      BY <1>1 DEF writableBytes
    <3>2. c.buffer_ = grown /\ c.readerIndex_ = r /\ c.writerIndex_ = w
      BY <2>5
    <3>3. c \in Buffers
      BY <1>1, <2>4, <2>5 DEF Buffers
    <3> HIDE DEF c, grown
    <3>4. Ordered(c)
      BY <1>1, <2>4, <3>1, <3>2, <3>3 DEF Ordered
    <3>5. readableBytes(c) = readableBytes(b) /\ len <= writableBytes(c)
      BY <1>1, <2>4, <3>1, <3>2 DEF readableBytes, writableBytes
    <3>6. QED BY <3>4, <3>5
  <2>7. \A i \in 1 .. readableBytes(b) : r + i \in DOMAIN v /\ r + i \in 1 .. w + len
    BY <1>1 DEF readableBytes
  <2>8. \A i \in 1 .. readableBytes(b) : grown[r + i] = toStringPiece(b)[i]
    BY <2>7, Piece
  <2> HIDE DEF grown
  <2>9. toStringPiece(c) = toStringPiece(b)
    <3>1. PICK d, g : d = c /\ g = grown /\ d = [buffer_ |-> g, readerIndex_ |-> r, writerIndex_ |-> w]
      BY <2>5
    <3>2. Ordered(d) /\ readableBytes(d) = readableBytes(b)
      BY <2>6, <3>1
    <3>3. PICK s \in Seq(Nat) : s = toStringPiece(b) /\ Len(s) = readableBytes(b)
      BY Piece
    <3>4. d.buffer_ = g /\ d.readerIndex_ = r
      BY <3>1
    <3>5. \A i \in 1 .. readableBytes(d) : g[r + i] = s[i]
      BY <2>8, <3>1, <3>2, <3>3
    <3>6. \A i \in 1 .. readableBytes(d) : d.buffer_[d.readerIndex_ + i] = s[i]
      BY <3>4, <3>5
    <3>7. Len(s) = readableBytes(d)
      BY <3>2, <3>3
    <3>8. toStringPiece(d) = s
      BY <3>2, <3>6, <3>7, PieceIs
    <3>9. QED BY <3>1, <3>3, <3>8
  <2>10. QED BY <2>5, <2>6, <2>9
<1>3. CASE ~mustGrow(b, len)
  <2> DEFINE s == toStringPiece(b)  moved == copied(v, kCheapPrepend, s)
  <2>1. s \in Seq(Nat) /\ Len(s) = w - r /\ w - r \in Nat
    BY Piece DEF readableBytes
  <2>2. kCheapPrepend < r
    BY <1>1, <1>3 DEF mustGrow, writableBytes, prependableBytes
  <2>3. kCheapPrepend + (w - r) + len <= Len(v)
    BY <1>1, <1>3 DEF mustGrow, writableBytes, prependableBytes
  <2>4. kCheapPrepend + Len(s) <= Len(v)
    BY <1>1, <2>1, <2>3
  <2>5. moved \in Seq(Nat) /\ Len(moved) = Len(v)
        /\ \A i \in 1 .. Len(s) : moved[kCheapPrepend + i] = s[i]
    BY <1>1, <2>1, <2>4, Copied, ZenonT(30)
  <2> HIDE DEF moved
  <2>6. c = [buffer_ |-> moved, readerIndex_ |-> kCheapPrepend,
             writerIndex_ |-> kCheapPrepend + (w - r)]
    BY <1>1, <1>3 DEF makeSpace, readableBytes, moved
  <2>7. Ordered(c) /\ readableBytes(c) = w - r /\ len <= writableBytes(c)
    <3>1. /\ kCheapPrepend + (w - r) \in Nat /\ kCheapPrepend <= kCheapPrepend + (w - r)
          /\ kCheapPrepend + (w - r) <= Len(moved)
          /\ kCheapPrepend + (w - r) - kCheapPrepend = w - r
          /\ len <= Len(moved) - (kCheapPrepend + (w - r))
      BY <1>1, <2>1, <2>3, <2>5, SMTT(30)
    <3>2. QED BY <1>1, <2>5, <2>6, <3>1 DEF Ordered, Buffers, readableBytes, writableBytes
  <2>8. toStringPiece(c) = s
    BY <2>1, <2>5, <2>6, <2>7, PieceIs
  <2>9. QED BY <2>2, <2>6, <2>7, <2>8
<1>4. QED BY <1>2, <1>3

LEMMA RoomEnsured ==
    ASSUME NEW b, Ordered(b), NEW len \in Nat
    PROVE  /\ Ordered(ensureWritableBytes(b, len))
           /\ len <= writableBytes(ensureWritableBytes(b, len))
           /\ toStringPiece(ensureWritableBytes(b, len)) = toStringPiece(b)
           /\ ensureWritableBytes(b, len).readerIndex_ # b.readerIndex_ =>
                /\ ensureWritableBytes(b, len).readerIndex_ = kCheapPrepend
                /\ kCheapPrepend < b.readerIndex_
<1>1. CASE writableBytes(b) < len
  BY <1>1, SpaceMade DEF ensureWritableBytes
<1>2. CASE ~(writableBytes(b) < len)
  <2>1. writableBytes(b) \in Int
    BY LenProperties DEF writableBytes, Ordered, Buffers
  <2>2. QED BY <1>2, <2>1 DEF ensureWritableBytes
<1>3. QED BY <1>1, <1>2

-----------------------------------------------------------------------------
(* What each function does to the readable bytes *)

\* Bytes for which there is room are put behind the readable ones.
Extended(c, s) == [c EXCEPT !.buffer_ = copied(@, c.writerIndex_, s),
                            !.writerIndex_ = @ + Len(s)]

LEMMA Filled ==
    ASSUME NEW c, Ordered(c), NEW s \in Seq(Nat), Len(s) <= writableBytes(c)
    PROVE  Ordered(Extended(c, s)) /\ toStringPiece(Extended(c, s)) = toStringPiece(c) \o s
<1> DEFINE d == Extended(c, s)
           r == c.readerIndex_  w == c.writerIndex_  v == c.buffer_
           filled == copied(v, w, s)
<1>1. Len(s) \in Nat
  BY LenProperties
<1>2. r \in Nat /\ w \in Nat /\ v \in Seq(Nat) /\ Len(v) \in Nat /\ r <= w
      /\ w + Len(s) <= Len(v) /\ kCheapPrepend <= Len(v)
      /\ c = [buffer_ |-> v, readerIndex_ |-> r, writerIndex_ |-> w]
  BY <1>1, LenProperties DEF Ordered, Buffers, writableBytes
<1>3. /\ filled \in Seq(Nat) /\ Len(filled) = Len(v)
      /\ \A i \in 1 .. Len(s) : filled[w + i] = s[i]
      /\ \A i \in 1 .. Len(v) : i <= w \/ i > w + Len(s) => filled[i] = v[i]
  BY <1>2, Copied
<1> HIDE DEF filled
<1>4. d = [buffer_ |-> filled, readerIndex_ |-> r, writerIndex_ |-> w + Len(s)]
  <2>1. d = [c EXCEPT !.buffer_ = copied(@, c.writerIndex_, s), !.writerIndex_ = @ + Len(s)]
    BY DEF Extended
  <2>2. d = [c EXCEPT !.buffer_ = filled, !.writerIndex_ = w + Len(s)]
    BY <2>1 DEF filled
  <2> HIDE DEF d
  <2>3. QED BY <1>2, <2>2
<1> HIDE DEF d
<1>5. Ordered(d) /\ readableBytes(d) = (w - r) + Len(s)
  BY <1>1, <1>2, <1>3, <1>4 DEF Ordered, Buffers, readableBytes
<1>6. /\ toStringPiece(c) \in Seq(Nat) /\ Len(toStringPiece(c)) = w - r
      /\ \A i \in 1 .. w - r : toStringPiece(c)[i] = v[r + i]
  BY Piece DEF readableBytes
<1> DEFINE joined == toStringPiece(c) \o s
<1>7. /\ joined \in Seq(Nat) /\ Len(joined) = (w - r) + Len(s)
      /\ \A i \in 1 .. (w - r) + Len(s) :
            joined[i] = IF i <= w - r THEN toStringPiece(c)[i] ELSE s[i - (w - r)]
  BY <1>6, Joined
<1> HIDE DEF joined, d
<1>8. ASSUME NEW i \in 1 .. (w - r) + Len(s) PROVE filled[r + i] = joined[i]
  <2>1. CASE i <= w - r
    <3>1. i \in 1 .. w - r /\ r + i \in 1 .. Len(v) /\ r + i <= w
      BY <1>1, <1>2, <2>1, SMTT(30)
    <3>2. filled[r + i] = v[r + i] /\ joined[i] = v[r + i]
      BY <1>3, <1>6, <1>7, <2>1, <3>1
    <3>3. QED BY <3>2
  <2>2. CASE ~(i <= w - r)
    <3>1. i - (w - r) \in 1 .. Len(s) /\ w + (i - (w - r)) = r + i
      BY <1>1, <1>2, <2>2
    <3>2. filled[w + (i - (w - r))] = s[i - (w - r)]
      BY <1>3, <3>1
    <3>3. QED BY <1>7, <2>2, <3>1, <3>2
  <2>3. QED BY <2>1, <2>2
<1>9. toStringPiece(d) = joined
  <2>1. d.buffer_ = filled /\ d.readerIndex_ = r
    BY <1>4
  <2>2. QED BY <1>5, <1>7, <1>8, <2>1, PieceIs
<1>10. QED BY <1>5, <1>9 DEF joined, d

LEMMA Appended ==
    ASSUME NEW b, Ordered(b), NEW s \in Seq(Nat)
    PROVE  Ordered(append(b, s)) /\ toStringPiece(append(b, s)) = toStringPiece(b) \o s
<1> DEFINE c == ensureWritableBytes(b, Len(s))
<1>1. Len(s) \in Nat
  BY LenProperties
<1>2. Ordered(c) /\ Len(s) <= writableBytes(c) /\ toStringPiece(c) = toStringPiece(b)
  BY <1>1, RoomEnsured
<1>3. append(b, s) = Extended(c, s)
  BY DEF append, Extended
<1> HIDE DEF c
<1>4. QED BY <1>2, <1>3, Filled

LEMMA Prepended ==
    ASSUME NEW b, Ordered(b), NEW s \in Seq(Nat), Len(s) <= prependableBytes(b)
    PROVE  Ordered(prepend(b, s)) /\ toStringPiece(prepend(b, s)) = s \o toStringPiece(b)
<1> DEFINE r == b.readerIndex_  w == b.writerIndex_  v == b.buffer_
           at == r - Len(s)
           filled == copied(v, at, s)
<1>1. Len(s) \in Nat /\ Len(s) <= r
  BY LenProperties DEF prependableBytes
<1>2. r \in Nat /\ w \in Nat /\ v \in Seq(Nat) /\ Len(v) \in Nat /\ r <= w /\ w <= Len(v)
      /\ b = [buffer_ |-> v, readerIndex_ |-> r, writerIndex_ |-> w] /\ kCheapPrepend <= Len(v)
  BY LenProperties DEF Ordered, Buffers
<1>3. at \in Nat /\ at + Len(s) = r /\ r <= Len(v)
  BY <1>1, <1>2
<1>4. /\ filled \in Seq(Nat) /\ Len(filled) = Len(v)
      /\ \A i \in 1 .. Len(s) : filled[at + i] = s[i]
      /\ \A i \in 1 .. Len(v) : i <= at \/ i > r => filled[i] = v[i]
  <2>1. at + Len(s) <= Len(v)
    BY <1>3
  <2>2. /\ copied(v, at, s) \in Seq(Nat) /\ Len(copied(v, at, s)) = Len(v)
        /\ \A i \in 1 .. Len(s) : copied(v, at, s)[at + i] = s[i]
        /\ \A i \in 1 .. Len(v) : i <= at \/ i > at + Len(s) => copied(v, at, s)[i] = v[i]
    <3> HIDE DEF at
    <3>1. QED BY <1>2, <1>3, <2>1, Copied
  <2> HIDE DEF at
  <2>3. QED BY <1>3, <2>2
<1>5. prepend(b, s) = [buffer_ |-> filled, readerIndex_ |-> at, writerIndex_ |-> w]
  <2>1. prepend(b, s) = [b EXCEPT !.readerIndex_ = at, !.buffer_ = copied(@, at, s)]
    BY DEF prepend
  <2> HIDE DEF at
  <2>2. QED BY <1>2, <2>1
<1> HIDE DEF filled
<1>6. Ordered(prepend(b, s)) /\ readableBytes(prepend(b, s)) = Len(s) + (w - r)
  <2>1. at <= w /\ w - at = Len(s) + (w - r)
    BY <1>1, <1>2
  <2>2. QED BY <1>2, <1>3, <1>4, <1>5, <2>1 DEF Ordered, Buffers, readableBytes
<1>7. /\ toStringPiece(b) \in Seq(Nat) /\ Len(toStringPiece(b)) = w - r
      /\ \A i \in 1 .. w - r : toStringPiece(b)[i] = v[r + i]
  BY Piece DEF readableBytes
<1> DEFINE joined == s \o toStringPiece(b)
<1>8. /\ joined \in Seq(Nat) /\ Len(joined) = Len(s) + (w - r)
      /\ \A i \in 1 .. Len(s) + (w - r) :
            joined[i] = IF i <= Len(s) THEN s[i] ELSE toStringPiece(b)[i - Len(s)]
  <2> HIDE DEF r, w
  <2>1. QED BY <1>7, Joined
<1> HIDE DEF joined
<1>9. ASSUME NEW i \in 1 .. Len(s) + (w - r) PROVE filled[at + i] = joined[i]
  <2>1. CASE i <= Len(s)
    <3>1. i \in 1 .. Len(s)
      BY <1>1, <1>2, <2>1
    <3>2. QED BY <1>4, <1>8, <2>1, <3>1
  <2>2. CASE ~(i <= Len(s))
    <3>1. /\ i - Len(s) \in 1 .. w - r /\ r + (i - Len(s)) = at + i
          /\ at + i \in 1 .. Len(v) /\ at + i > r
      <4>1. i \in Nat /\ Len(s) < i /\ i <= Len(s) + (w - r)
        BY <1>1, <1>2, <2>2
      <4> HIDE DEF r, w, v
      <4>2. QED BY <1>1, <1>2, <4>1 DEF at
    <3>2. toStringPiece(b)[i - Len(s)] = v[r + (i - Len(s))] /\ filled[at + i] = v[at + i]
      BY <1>4, <1>7, <3>1
    <3>3. QED BY <1>8, <2>2, <3>1, <3>2
  <2>3. QED BY <2>1, <2>2
<1>10. toStringPiece(prepend(b, s)) = joined
  <2>1. prepend(b, s).buffer_ = filled /\ prepend(b, s).readerIndex_ = at
    BY <1>5
  <2>2. QED BY <1>6, <1>8, <1>9, <2>1, PieceIs
<1>11. QED BY <1>6, <1>10 DEF joined

\* What is left when n bytes are cut off, at the front or at the end.
LEMMA Rest ==
    ASSUME NEW s \in Seq(Nat), NEW n \in Nat, n <= Len(s)
    PROVE  /\ SubSeq(s, n + 1, Len(s)) \in Seq(Nat) /\ Len(SubSeq(s, n + 1, Len(s))) = Len(s) - n
           /\ \A i \in 1 .. Len(s) - n : SubSeq(s, n + 1, Len(s))[i] = s[n + i]
           /\ SubSeq(s, 1, n) \in Seq(Nat) /\ Len(SubSeq(s, 1, n)) = n
           /\ \A i \in 1 .. n : SubSeq(s, 1, n)[i] = s[i]
<1>1. Len(s) \in Nat /\ \A i \in 1 .. Len(s) : s[i] \in Nat
  BY LenProperties, ElementOfSeq
<1>2. /\ n + 1 \in Int /\ n \in Int /\ Len(s) \in Int
      /\ \A i \in n + 1 .. Len(s) : s[i] \in Nat
      /\ \A i \in 1 .. n : s[i] \in Nat
  BY <1>1
<1>3. /\ SubSeq(s, n + 1, Len(s)) \in Seq(Nat)
      /\ Len(SubSeq(s, n + 1, Len(s))) = IF n + 1 <= Len(s) THEN Len(s) - (n + 1) + 1 ELSE 0
      /\ \A i \in 1 .. Len(s) - (n + 1) + 1 : SubSeq(s, n + 1, Len(s))[i] = s[(n + 1) + i - 1]
  BY <1>2, SubSeqProperties
<1>4. /\ SubSeq(s, 1, n) \in Seq(Nat)
      /\ Len(SubSeq(s, 1, n)) = IF 1 <= n THEN n - 1 + 1 ELSE 0
      /\ \A i \in 1 .. n - 1 + 1 : SubSeq(s, 1, n)[i] = s[1 + i - 1]
  BY <1>2, SubSeqProperties
<1>5. /\ Len(s) - (n + 1) + 1 = Len(s) - n
      /\ (IF n + 1 <= Len(s) THEN Len(s) - (n + 1) + 1 ELSE 0) = Len(s) - n
      /\ (IF 1 <= n THEN n - 1 + 1 ELSE 0) = n /\ n - 1 + 1 = n
  BY <1>1
<1>6. ASSUME NEW i \in 1 .. Len(s) - n PROVE SubSeq(s, n + 1, Len(s))[i] = s[n + i]
  <2>1. (n + 1) + i - 1 = n + i
    BY <1>1
  <2>2. QED BY <1>3, <1>5, <1>6, <2>1
<1>7. ASSUME NEW i \in 1 .. n PROVE SubSeq(s, 1, n)[i] = s[i]
  <2>1. 1 + i - 1 = i
    OBVIOUS
  <2>2. QED BY <1>4, <1>5, <1>7, <2>1
<1>8. QED BY <1>3, <1>4, <1>5, <1>6, <1>7

\* All the bytes that are left are dropped by putting both indices back.
LEMMA Retrieved ==
    ASSUME NEW b, Ordered(b), NEW n \in Nat, n <= readableBytes(b)
    PROVE  /\ Ordered(retrieve(b, n))
           /\ toStringPiece(retrieve(b, n)) =
                 SubSeq(toStringPiece(b), n + 1, Len(toStringPiece(b)))
<1> DEFINE r == b.readerIndex_  w == b.writerIndex_  v == b.buffer_
           rest == SubSeq(toStringPiece(b), n + 1, Len(toStringPiece(b)))
<1>1. r \in Nat /\ w \in Nat /\ v \in Seq(Nat) /\ Len(v) \in Nat /\ r <= w /\ w <= Len(v)
      /\ kCheapPrepend \in Nat /\ kCheapPrepend <= Len(v)
      /\ b = [buffer_ |-> v, readerIndex_ |-> r, writerIndex_ |-> w] /\ n <= w - r
  BY LenProperties, SizesAssumption DEF Ordered, Buffers, readableBytes
<1>2. /\ toStringPiece(b) \in Seq(Nat) /\ Len(toStringPiece(b)) = w - r
      /\ \A i \in 1 .. w - r : toStringPiece(b)[i] = v[r + i]
  BY Piece DEF readableBytes
<1>3. rest \in Seq(Nat) /\ Len(rest) = (w - r) - n
      /\ \A i \in 1 .. (w - r) - n : rest[i] = toStringPiece(b)[n + i]
  <2>1. n <= Len(toStringPiece(b))
    BY <1>1, <1>2
  <2>2. /\ rest \in Seq(Nat) /\ Len(rest) = Len(toStringPiece(b)) - n
        /\ \A i \in 1 .. Len(toStringPiece(b)) - n : rest[i] = toStringPiece(b)[n + i]
    BY <1>2, <2>1, Rest
  <2> HIDE DEF rest, r, w
  <2>3. QED BY <1>2, <2>2
<1> HIDE DEF rest
<1>4. CASE n < w - r
  <2>1. retrieve(b, n) = [buffer_ |-> v, readerIndex_ |-> r + n, writerIndex_ |-> w]
    BY <1>1, <1>4 DEF retrieve, readableBytes
  <2>2. Ordered(retrieve(b, n)) /\ readableBytes(retrieve(b, n)) = (w - r) - n
    BY <1>1, <1>4, <2>1 DEF Ordered, Buffers, readableBytes
  <2>3. ASSUME NEW i \in 1 .. (w - r) - n PROVE v[(r + n) + i] = rest[i]
    <3>1. n + i \in 1 .. w - r /\ r + (n + i) = (r + n) + i
      BY <1>1, SMTT(30)
    <3>2. QED BY <1>2, <1>3, <3>1
  <2>4. toStringPiece(retrieve(b, n)) = rest
    <3>1. retrieve(b, n).buffer_ = v /\ retrieve(b, n).readerIndex_ = r + n
      BY <2>1
    <3>2. QED BY <1>3, <2>2, <2>3, <3>1, PieceIs
  <2>5. QED BY <2>2, <2>4 DEF rest
<1>5. CASE ~(n < w - r)
  <2>1. (w - r) - n = 0
    BY <1>1, <1>5
  <2>2. retrieve(b, n) =
          [buffer_ |-> v, readerIndex_ |-> kCheapPrepend, writerIndex_ |-> kCheapPrepend]
    BY <1>1, <1>5 DEF retrieve, retrieveAll, readableBytes
  <2>3. Ordered(retrieve(b, n)) /\ readableBytes(retrieve(b, n)) = 0
    BY <1>1, <2>2 DEF Ordered, Buffers, readableBytes
  <2>4. toStringPiece(retrieve(b, n)) = rest
    BY <1>3, <2>1, <2>3, PieceIs
  <2>5. QED BY <2>3, <2>4 DEF rest
<1>6. QED BY <1>4, <1>5

LEMMA Unwritten ==
    ASSUME NEW b, Ordered(b), NEW n \in Nat, n <= readableBytes(b)
    PROVE  /\ Ordered(unwrite(b, n))
           /\ toStringPiece(unwrite(b, n)) =
                 SubSeq(toStringPiece(b), 1, Len(toStringPiece(b)) - n)
<1> DEFINE r == b.readerIndex_  w == b.writerIndex_  v == b.buffer_
           rest == SubSeq(toStringPiece(b), 1, (w - r) - n)
<1>1. r \in Nat /\ w \in Nat /\ v \in Seq(Nat) /\ Len(v) \in Nat /\ r <= w /\ w <= Len(v)
      /\ kCheapPrepend <= Len(v)
      /\ b = [buffer_ |-> v, readerIndex_ |-> r, writerIndex_ |-> w] /\ n <= w - r
  BY LenProperties DEF Ordered, Buffers, readableBytes
<1>2. /\ toStringPiece(b) \in Seq(Nat) /\ Len(toStringPiece(b)) = w - r
      /\ \A i \in 1 .. w - r : toStringPiece(b)[i] = v[r + i]
  BY Piece DEF readableBytes
<1>3. (w - r) - n \in Nat /\ (w - r) - n <= w - r
  BY <1>1
<1>4. rest \in Seq(Nat) /\ Len(rest) = (w - r) - n
      /\ \A i \in 1 .. (w - r) - n : rest[i] = toStringPiece(b)[i]
  BY <1>2, <1>3, Rest
<1> HIDE DEF rest
<1>5. unwrite(b, n) = [buffer_ |-> v, readerIndex_ |-> r, writerIndex_ |-> w - n]
  BY <1>1 DEF unwrite
<1>6. Ordered(unwrite(b, n)) /\ readableBytes(unwrite(b, n)) = (w - r) - n
  BY <1>1, <1>5 DEF Ordered, Buffers, readableBytes
<1>7. \A i \in 1 .. (w - r) - n : v[r + i] = rest[i]
  <2> SUFFICES ASSUME NEW i \in 1 .. (w - r) - n PROVE v[r + i] = rest[i]
    OBVIOUS
  <2>1. i \in 1 .. w - r
    BY <1>1
  <2>2. QED BY <1>2, <1>4, <2>1
<1>8. toStringPiece(unwrite(b, n)) = rest
  <2>1. unwrite(b, n).buffer_ = v /\ unwrite(b, n).readerIndex_ = r
    BY <1>5
  <2>2. QED BY <1>4, <1>6, <1>7, <2>1, PieceIs
<1>9. QED BY <1>2, <1>6, <1>8 DEF rest

\* The bytes go to a new vector.
LEMMA Shrunk ==
    ASSUME NEW b, Ordered(b), NEW reserve \in Nat
    PROVE  Ordered(shrink(b, reserve)) /\ toStringPiece(shrink(b, reserve)) = toStringPiece(b)
<1> DEFINE c == ensureWritableBytes(newBuffer, readableBytes(b) + reserve)
           s == toStringPiece(b)
<1>1. s \in Seq(Nat) /\ readableBytes(b) + reserve \in Nat
  BY Piece
<1>2. Ordered(c) /\ toStringPiece(c) = toStringPiece(newBuffer)
  BY <1>1, NewIsOrdered, RoomEnsured
<1>3. toStringPiece(newBuffer) = <<>>
  BY NewIsOrdered, Piece, EmptySeq
<1>4. shrink(b, reserve) = append(c, s)
  BY DEF shrink
<1> HIDE DEF c, s
<1>5. Ordered(append(c, s)) /\ toStringPiece(append(c, s)) = toStringPiece(c) \o s
  BY <1>1, <1>2, Appended
<1>6. <<>> \o s = s
  BY <1>1, ConcatEmptySeq
<1>7. QED BY <1>2, <1>3, <1>4, <1>5, <1>6 DEF s

\* What does not fit behind the readable bytes goes there through extrabuf.
LEMMA FdRead ==
    ASSUME NEW b, Ordered(b), NEW s \in Seq(Nat)
    PROVE  Ordered(readFd(b, s)) /\ toStringPiece(readFd(b, s)) = toStringPiece(b) \o s
<1> DEFINE m == writableBytes(b)
           first == [i \in 1 .. IF Len(s) <= m THEN Len(s) ELSE m |-> s[i]]
           filled == Extended(b, first)
           rest == SubSeq(s, m + 1, Len(s))
<1>1. Len(s) \in Nat /\ m \in Nat /\ (\A i \in 1 .. Len(s) : s[i] \in Nat)
  BY LenProperties, ElementOfSeq DEF Ordered, Buffers, writableBytes
<1>2. readFd(b, s) = IF Len(s) <= m THEN filled ELSE append(filled, rest)
  BY DEF readFd, Extended
<1> HIDE DEF m
<1>3. CASE Len(s) <= m
  <2>1. first = [i \in 1 .. Len(s) |-> s[i]]
    BY <1>3
  <2>2. first \in [1 .. Len(s) -> Nat] /\ \A i \in 1 .. Len(s) : first[i] = s[i]
    BY <1>1, <2>1
  <2>3. first \in Seq(Nat) /\ Len(first) = Len(s)
    BY <1>1, <2>2, FunctionIsSeq
  <2> HIDE DEF first
  <2>4. first = s
    BY <2>2, <2>3, SeqEqual
  <2>5. Len(first) <= writableBytes(b)
    BY <1>3, <2>3 DEF m
  <2>6. Ordered(filled) /\ toStringPiece(filled) = toStringPiece(b) \o first
    BY <2>3, <2>5, Filled
  <2> HIDE DEF filled
  <2>7. QED BY <1>2, <1>3, <2>4, <2>6
<1>4. CASE ~(Len(s) <= m)
  <2>1. first = [i \in 1 .. m |-> s[i]] /\ \A i \in 1 .. m : i \in 1 .. Len(s)
    BY <1>1, <1>4
  <2>2. first \in [1 .. m -> Nat] /\ \A i \in 1 .. m : first[i] = s[i]
    BY <1>1, <2>1
  <2>3. first \in Seq(Nat) /\ Len(first) = m
    BY <1>1, <2>2, FunctionIsSeq
  <2> HIDE DEF first
  <2>4. m <= Len(s)
    BY <1>1, <1>4
  <2>5. /\ SubSeq(s, 1, m) \in Seq(Nat) /\ Len(SubSeq(s, 1, m)) = m
        /\ \A i \in 1 .. m : SubSeq(s, 1, m)[i] = s[i]
        /\ rest \in Seq(Nat)
    BY <1>1, <2>4, Rest
  <2>6. first = SubSeq(s, 1, m)
    BY <2>2, <2>3, <2>5, SeqEqual
  <2>7. SubSeq(s, 1, m) \o rest = SubSeq(s, 1, Len(s))
    <3>1. m \in 1 - 1 .. Len(s) /\ Len(s) \in m .. Len(s) /\ 1 \in 1 .. Len(s) + 1
      BY <1>1, <2>4
    <3>2. QED BY <3>1, ConcatAdjacentSubSeq
  <2>8. SubSeq(s, 1, Len(s)) = s
    BY SubSeqFull
  <2>9. Len(first) <= writableBytes(b)
    BY <1>1, <2>3 DEF m
  <2>10. Ordered(filled) /\ toStringPiece(filled) = toStringPiece(b) \o first
    BY <2>3, <2>9, Filled
  <2> HIDE DEF filled, rest
  <2>11. Ordered(append(filled, rest))
         /\ toStringPiece(append(filled, rest)) = (toStringPiece(b) \o first) \o rest
    BY <2>5, <2>10, Appended
  <2>12. (toStringPiece(b) \o first) \o rest = toStringPiece(b) \o (first \o rest)
    <3> DEFINE x == toStringPiece(b)
    <3>1. x \in Seq(Nat) /\ first \in Seq(Nat) /\ rest \in Seq(Nat)
      BY <2>3, <2>5, Piece
    <3> HIDE DEF x
    <3>2. (x \o first) \o rest = x \o (first \o rest)
      BY <3>1, ConcatAssociative, SMTT(30)
    <3>3. QED BY <3>2 DEF x
  <2>13. QED BY <1>2, <1>4, <2>6, <2>7, <2>8, <2>11, <2>12
<1>5. QED BY <1>3, <1>4

-----------------------------------------------------------------------------
(* The calls *)

Sound == Ordered(buf) /\ given \in Nat /\ result \in Seq(Nat)

LEMMA DataIs ==
    ASSUME given \in Nat, NEW n \in Nat
    PROVE  data(n) \in Seq(Nat) /\ Len(data(n)) = n /\ data(n) = Stream!Fresh(n)
<1>1. data(n) \in [1 .. n -> Nat]
  BY DEF data
<1>2. data(n) = Stream!Fresh(n)
  BY DEF data, Stream!Fresh
<1>3. QED BY <1>1, <1>2, FunctionIsSeq

\* What each call does to the stream; all keep the indices in order.
LEMMA Given ==
    ASSUME Sound, NEW n \in 0 .. MaxLength, callAppend(n) \/ callReadFd(n)
    PROVE  Sound' /\ n \in 0 .. MaxBytes /\ Stream!Append_(n)
<1>1. n \in Nat /\ given \in Nat /\ given' = given + n /\ given' <= MaxBytes /\ result' = result
  BY SizesAssumption DEF Sound, callAppend, callReadFd, give
<1>2. n \in 0 .. MaxBytes /\ given' \in Nat
  BY <1>1, SizesAssumption
<1>3. data(n) \in Seq(Nat) /\ Len(data(n)) = n /\ data(n) = Stream!Fresh(n)
  BY <1>1, DataIs
<1>4. Ordered(buf') /\ toStringPiece(buf') = toStringPiece(buf) \o data(n)
  <2>1. CASE callAppend(n)
    BY <1>3, <2>1, Appended DEF Sound, callAppend
  <2>2. CASE callReadFd(n)
    BY <1>3, <2>2, FdRead DEF Sound, callReadFd
  <2>3. QED BY <2>1, <2>2
<1>5. QED BY <1>1, <1>2, <1>3, <1>4 DEF Sound, Stream!Append_

LEMMA GivenBefore ==
    ASSUME Sound, NEW n \in 0 .. MaxLength, callPrepend(n)
    PROVE  Sound' /\ n \in 0 .. MaxBytes /\ Stream!Prepend_(n)
<1>1. n \in Nat /\ given \in Nat /\ given' = given + n /\ given' <= MaxBytes /\ result' = result
  BY SizesAssumption DEF Sound, callPrepend, give
<1>2. n \in 0 .. MaxBytes /\ given' \in Nat
  BY <1>1, SizesAssumption
<1>3. data(n) \in Seq(Nat) /\ Len(data(n)) = n /\ data(n) = Stream!Fresh(n)
  BY <1>1, DataIs
<1>4. Ordered(buf') /\ toStringPiece(buf') = data(n) \o toStringPiece(buf)
  BY <1>3, Prepended DEF Sound, callPrepend
<1>5. QED BY <1>1, <1>2, <1>3, <1>4 DEF Sound, Stream!Prepend_

LEMMA Taken ==
    ASSUME Sound, NEW n \in 0 .. MaxBytes, callRetrieve(n)
    PROVE  Sound' /\ Stream!Read(n)
<1>1. n \in Nat /\ Ordered(buf) /\ n <= readableBytes(buf) /\ given' = given
      /\ result' = SubSeq(toStringPiece(buf), 1, n)
  BY SizesAssumption DEF Sound, callRetrieve
<1>2. toStringPiece(buf) \in Seq(Nat) /\ n <= Len(toStringPiece(buf))
  BY <1>1, Piece
<1>3. result' \in Seq(Nat)
  BY <1>1, <1>2, Rest
<1>4. /\ Ordered(buf')
      /\ toStringPiece(buf') = SubSeq(toStringPiece(buf), n + 1, Len(toStringPiece(buf)))
  BY <1>1, Retrieved DEF callRetrieve
<1>5. QED BY <1>1, <1>2, <1>3, <1>4 DEF Sound, Stream!Read

LEMMA TakenBack ==
    ASSUME Sound, NEW n \in 0 .. MaxBytes, callUnwrite(n)
    PROVE  Sound' /\ Stream!Drop(n)
<1>1. n \in Nat /\ Ordered(buf) /\ n <= readableBytes(buf) /\ given' = given /\ result' = result
  BY SizesAssumption DEF Sound, callUnwrite
<1>2. n <= Len(toStringPiece(buf))
  BY <1>1, Piece
<1>3. /\ Ordered(buf')
      /\ toStringPiece(buf') = SubSeq(toStringPiece(buf), 1, Len(toStringPiece(buf)) - n)
  BY <1>1, Unwritten DEF callUnwrite
<1>4. QED BY <1>1, <1>2, <1>3 DEF Sound, Stream!Drop

LEMMA Moved ==
    ASSUME Sound, callShrink
    PROVE  Sound' /\ UNCHANGED Stream!vars
<1>1. PICK reserve \in Reserves : buf' = shrink(buf, reserve) /\ UNCHANGED <<given, result>>
  BY DEF callShrink
<1>2. reserve \in Nat /\ Ordered(buf)
  BY SizesAssumption DEF Sound
<1>3. Ordered(buf') /\ toStringPiece(buf') = toStringPiece(buf)
  BY <1>1, <1>2, Shrunk
<1>4. QED BY <1>1, <1>3 DEF Sound, Stream!vars

LEMMA Starts == BufferInit => Sound /\ Stream!Init
<1> SUFFICES ASSUME BufferInit PROVE Sound /\ Stream!Init
  OBVIOUS
<1>1. toStringPiece(newBuffer) = <<>>
  BY NewIsOrdered, Piece, EmptySeq
<1>2. <<>> \in Seq(Nat) /\ 0 \in Nat
  BY EmptySeq
<1>3. QED BY <1>1, <1>2, NewIsOrdered DEF BufferInit, Sound, Stream!Init

LEMMA StepsAre == Sound /\ [BufferNext]_bufferVars => Sound' /\ [Stream!Next]_(Stream!vars)
<1> SUFFICES ASSUME Sound, [BufferNext]_bufferVars PROVE Sound' /\ [Stream!Next]_(Stream!vars)
  OBVIOUS
<1>1. CASE \E n \in 0 .. MaxLength : callAppend(n) \/ callReadFd(n)
  BY <1>1, Given DEF Stream!Next
<1>2. CASE \E n \in 0 .. MaxLength : callPrepend(n)
  BY <1>2, GivenBefore DEF Stream!Next
<1>3. CASE \E n \in 0 .. MaxBytes : callRetrieve(n)
  BY <1>3, Taken DEF Stream!Next
<1>4. CASE \E n \in 0 .. MaxBytes : callUnwrite(n)
  BY <1>4, TakenBack DEF Stream!Next
<1>5. CASE callShrink
  BY <1>5, Moved
<1>6. CASE UNCHANGED bufferVars
  BY <1>6 DEF Sound, bufferVars, Stream!vars
<1>7. QED BY <1>1, <1>2, <1>3, <1>4, <1>5, <1>6 DEF BufferNext

-----------------------------------------------------------------------------
(* The theorems *)

LEMMA AlwaysSound == BufferSpec => []Sound
<1>1. BufferInit => Sound
  BY Starts
<1>2. Sound /\ [BufferNext]_bufferVars => Sound'
  BY StepsAre
<1>3. QED BY <1>1, <1>2, PTL DEF BufferSpec

\* The indices of a Buffer stay in order and inside the vector, whatever is called.
THEOREM BufferTypeCorrect == BufferSpec => []BufferTypeOK
<1>1. Sound => BufferTypeOK
  BY DEF Sound, BufferTypeOK, Ordered
<1>2. QED BY <1>1, AlwaysSound, PTL

\* Room is found for any number of bytes, and moving bytes to the front leaves room for
\* a header.
THEOREM RoomIsFound == BufferSpec => []RoomFound
<1>1. Sound => RoomFound
  <2> SUFFICES ASSUME Sound, NEW len \in 1 .. MaxBytes
               PROVE  LET b == ensureWritableBytes(buf, len)
                      IN  /\ len <= writableBytes(b)
                          /\ b.readerIndex_ # buf.readerIndex_ =>
                                /\ kCheapPrepend <= b.readerIndex_
                                /\ b.readerIndex_ < buf.readerIndex_
    BY DEF RoomFound
  <2>1. len \in Nat /\ Ordered(buf) /\ kCheapPrepend \in Nat
    BY SizesAssumption DEF Sound
  <2>2. /\ len <= writableBytes(ensureWritableBytes(buf, len))
        /\ ensureWritableBytes(buf, len).readerIndex_ # buf.readerIndex_ =>
                /\ ensureWritableBytes(buf, len).readerIndex_ = kCheapPrepend
                /\ kCheapPrepend < buf.readerIndex_
    BY <2>1, RoomEnsured
  <2>3. QED BY <2>1, <2>2
<1>2. QED BY <1>1, AlwaysSound, PTL

\* The readable bytes are the stream of the bytes that were given, wherever they lie in
\* the vector: every call is one step of ByteStream or none.
THEOREM IsByteStream == BufferSpec => ImplementsByteStream
<1>1. BufferInit => Stream!Init
  BY Starts
<1>2. Sound /\ [BufferNext]_bufferVars => [Stream!Next]_(Stream!vars)
  BY StepsAre
<1>3. QED BY <1>1, <1>2, AlwaysSound, PTL DEF BufferSpec, ImplementsByteStream, Stream!Spec
=============================================================================
