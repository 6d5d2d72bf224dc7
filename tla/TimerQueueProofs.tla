--------------------------- MODULE TimerQueueProofs ---------------------------
(***************************************************************************)
(* Theorems about TimerQueue for any times, intervals, widths and units    *)
(* and any number of timers: no pointer dangles, the two sets agree,       *)
(* cancelled timers stop, and the timerfd is armed while timers wait.      *)
(***************************************************************************)
EXTENDS TimerQueue, SequenceTheorems, WellFoundedInduction, TLAPS

\* Only while callbacks are called is there a batch.
Resting == ~calling => expired = {} /\ todo = {}

\* A timer that another thread asked to be added was not seen by the loop yet, and was
\* asked for once.
Adds == {i \in DOMAIN requests : requests[i].op = "add"}
AddsAreNew ==
    /\ \A i \in Adds : requests[i].timer \notin activeTimers_ \cup Batch \cup cancelled
    /\ \A i, j \in Adds : requests[i].timer = requests[j].timer => i = j

\* A cancelled timer that is not deleted yet is in the batch, and reset will delete it.
CancelledLeave == cancelled \cap alive \subseteq Batch \cap cancelingTimers_

QueueInv == TypeOK /\ Resting /\ SetsAgree /\ AddsAreNew /\ CancelledLeave

-----------------------------------------------------------------------------
(* Times *)

LEMMA Remainder ==
    ASSUME NEW a \in Int, NEW n \in Nat \ {0}
    PROVE  a % n \in Nat /\ (a \in Nat => a % n <= a)
OBVIOUS

LEMMA Products ==
    ASSUME NEW a \in Nat, NEW b \in Nat, NEW c \in Nat
    PROVE  /\ a * b \in Nat
           /\ b <= c => a * b <= a * c
           /\ a # 0 => b <= a * b
           /\ a # 0 /\ b # 0 => a * b # 0
           /\ a * (b + c) = a * b + a * c
OBVIOUS

LEMMA LeastNumber ==
    ASSUME NEW T, T \subseteq Nat, T # {}
    PROVE  \E x \in T : \A y \in T : x <= y
<1> DEFINE R == OpToRel(<, Nat)
<1>1. \E x \in T : \A y \in T : ~ (<<y, x>> \in R)
  BY NatLessThanWellFounded, WFMin
<1>2. \A x, y \in Nat : <<y, x>> \in R <=> y < x
  BY DEF OpToRel
<1> HIDE DEF R
<1>3. PICK x \in T : \A y \in T : ~ (<<y, x>> \in R)
  BY <1>1
<1>4. ASSUME NEW y \in T PROVE x <= y
  <2>1. x \in Nat /\ y \in Nat /\ ~ (<<y, x>> \in R)
    BY <1>3
  <2>2. ~ (y < x)
    BY <1>2, <2>1
  <2>3. QED BY <2>1, <2>2
<1>5. QED BY <1>4

-----------------------------------------------------------------------------
(* What the steps do to the timers *)

LEMMA Typed ==
    ASSUME TypeOK
    PROVE  /\ expiration \in Seq(Nat) /\ interval \in Seq(Nat)
           /\ Len(expiration) \in Nat /\ Len(interval) = Len(expiration)
           /\ Created = 1 .. Len(expiration) /\ Created = DOMAIN interval
           /\ \A t \in Created : expiration[t] \in Nat /\ interval[t] \in Nat
BY LenProperties, ElementOfSeq DEF TypeOK, Created

LEMMA NewTimer ==
    ASSUME TypeOK, NEW when \in Whens, NEW ivl \in Intervals, newTimer(when, ivl),
           NEW n, n = Len(expiration) + 1
    PROVE  /\ n \in Nat /\ n \notin Created /\ Created' = Created \cup {n}
           /\ alive' = alive \cup {n}
           /\ expiration' \in Seq(Nat) /\ interval' \in Seq(Nat)
           /\ Len(interval') = Len(expiration')
           /\ \A t \in Created : expiration'[t] = expiration[t]
           /\ expiration'[n] = when % ShortRange /\ when % ShortRange \in Nat
<1>1. when \in Nat /\ ivl \in Nat /\ when % ShortRange \in Nat
  BY Remainder, UnitsAssumption, InputsAssumption
<1>2. /\ expiration' = Append(expiration, when % ShortRange)
      /\ interval' = Append(interval, ivl)
      /\ alive' = alive \cup {Len(expiration) + 1}
  BY DEF newTimer
<1>3. QED BY <1>1, <1>2, Typed, AppendProperties, LenProperties DEF Created

LEMMA Arming ==
    ASSUME TypeOK, NEW when \in Nat, resetTimerfd(when)
    PROVE  alarm' \in Nat /\ armedAt' \in Nat /\ armedFor' \in Nat
<1> DEFINE m == (when - clock) % WideRange
           d == IF m < MinDelay THEN MinDelay ELSE m
<1>1. clock \in Nat /\ NanosPerMicro \in Nat /\ MinDelay \in Nat
  BY UnitsAssumption DEF TypeOK
<1>2. m \in Nat
  BY <1>1, Remainder, UnitsAssumption
<1>3. alarm' = clock + NanosPerMicro * d /\ armedAt' = clock /\ armedFor' = when
  BY DEF resetTimerfd, howMuchTimeFromNow
<1> HIDE DEF m
<1>4. d \in Nat
  BY <1>1, <1>2
<1> HIDE DEF d
<1>5. NanosPerMicro * d \in Nat
  BY <1>1, <1>4, Products
<1>6. QED BY <1>1, <1>3, <1>5

\* The test of an add in the loop, with or without arming the timerfd.
LEMMA AlarmTyped ==
    ASSUME TypeOK, NEW timer, NEW when \in Nat, addTimerInLoop(timer, when)
    PROVE  alarm' \in Nat \cup {Never} /\ armedAt' \in Nat /\ armedFor' \in Nat
BY Arming DEF TypeOK, addTimerInLoop, alarmVars

\* The timers of a list with one more.
LEMMA OneMore ==
    ASSUME NEW S, NEW at, NEW timer
    PROVE  {e[2] : e \in S \cup {<<at, timer>>}} = {e[2] : e \in S} \cup {timer}
<1>1. <<at, timer>>[2] = timer
  OBVIOUS
<1>2. QED BY <1>1

\* A timer that another thread adds.
LEMMA AddKeeps ==
    ASSUME QueueInv, NEW when \in Whens, NEW ivl \in Intervals, addTimer(when, ivl)
    PROVE  QueueInv'
<1> DEFINE n == Len(expiration) + 1  r == [op |-> "add", timer |-> n]
<1>1. /\ n \in Nat /\ n \notin Created /\ Created' = Created \cup {n}
      /\ alive' = alive \cup {n}
      /\ expiration' \in Seq(Nat) /\ interval' \in Seq(Nat)
      /\ Len(interval') = Len(expiration')
      /\ \A t \in Created : expiration'[t] = expiration[t]
  BY NewTimer DEF QueueInv, addTimer
<1>2. requests' = Append(requests, r)
  BY DEF addTimer
<1> DEFINE Requests == [op : {"add", "cancel"}, timer : Created']
<1>3. requests \in Seq(Requests) /\ r \in Requests
  <2>1. requests \in Seq([op : {"add", "cancel"}, timer : Created])
    BY DEF QueueInv, TypeOK
  <2>2. [op : {"add", "cancel"}, timer : Created] \subseteq Requests
    BY <1>1
  <2> HIDE DEF n
  <2>3. r \in Requests
    BY <1>1
  <2> HIDE DEF Requests, r
  <2>4. QED BY <2>1, <2>2, <2>3, SeqMonotonic
<1>4. /\ requests' \in Seq(Requests) /\ Len(requests') = Len(requests) + 1
      /\ \A i \in 1 .. Len(requests) : requests'[i] = requests[i]
      /\ requests'[Len(requests) + 1] = r
      /\ Len(requests) \in Nat /\ DOMAIN requests = 1 .. Len(requests)
      /\ DOMAIN requests' = 1 .. Len(requests) + 1
  BY <1>2, <1>3, AppendProperties, LenProperties
<1>5. Adds' = Adds \cup {Len(requests) + 1}
  BY <1>4 DEF Adds
<1>6. \A i \in Adds : i \in 1 .. Len(requests) /\ requests[i].timer \in Created
  BY <1>4 DEF Adds, QueueInv, TypeOK
<1>11. returning' = returning \cup {n} /\ ids' = ids
  BY DEF addTimer
<1> HIDE DEF n
<1>7. TypeOK'
  <2>1. returning' \subseteq Created' /\ ids' \subseteq Created'
    BY <1>1, <1>11 DEF QueueInv, TypeOK
  <2>2. QED
    BY <1>1, <1>3, <1>4, <2>1 DEF QueueInv, TypeOK, addTimer, queueVars, batchVars, alarmVars
<1>8. SetsAgree' /\ Resting' /\ CancelledLeave'
  BY <1>1, ZenonT(30) DEF QueueInv, TypeOK, SetsAgree, Resting, CancelledLeave, Batch, calling,
              addTimer, queueVars, batchVars
<1>9. AddsAreNew'
  <2>1. activeTimers_' = activeTimers_ /\ Batch' = Batch /\ cancelled' = cancelled
    BY DEF addTimer, queueVars, batchVars, Batch
  <2>2. n \notin activeTimers_ \cup Batch \cup cancelled
    BY <1>1 DEF QueueInv, TypeOK, Batch
  <2>3. /\ \A i \in Adds : requests'[i].timer = requests[i].timer /\ requests'[i].timer # n
        /\ requests'[Len(requests) + 1].timer = n
    BY <1>1, <1>4, <1>6
  <2>4. /\ \A i \in Adds : requests[i].timer \notin activeTimers_ \cup Batch \cup cancelled
        /\ \A i, j \in Adds : requests[i].timer = requests[j].timer => i = j
    BY DEF QueueInv, AddsAreNew
  <2>5. QED BY <1>5, <2>1, <2>2, <2>3, <2>4 DEF AddsAreNew
<1>10. QED BY <1>7, <1>8, <1>9 DEF QueueInv

\* A timer added in the loop thread.
LEMMA AddInLoopKeeps ==
    ASSUME QueueInv, NEW when \in Whens, NEW ivl \in Intervals, addTimerFromLoop(when, ivl)
    PROVE  QueueInv'
<1> DEFINE n == Len(expiration) + 1  at == when % ShortRange
<1>1. /\ n \in Nat /\ n \notin Created /\ Created' = Created \cup {n}
      /\ alive' = alive \cup {n}
      /\ expiration' \in Seq(Nat) /\ interval' \in Seq(Nat)
      /\ Len(interval') = Len(expiration')
      /\ \A t \in Created : expiration'[t] = expiration[t]
      /\ expiration'[n] = at /\ at \in Nat
  BY NewTimer DEF QueueInv, addTimerFromLoop
<1>2. /\ timers_' = timers_ \cup {<<at, n>>} /\ activeTimers_' = activeTimers_ \cup {n}
      /\ place' = place /\ expired' = expired /\ todo' = todo /\ requests' = requests
      /\ cancelled' = cancelled /\ cancelingTimers_' = cancelingTimers_ /\ clock' = clock
      /\ now' = now /\ cancels' = cancels /\ ids' = ids \cup {n} /\ returning' = returning
  BY DEF addTimerFromLoop, addTimerInLoop, batchVars
<1>3. alarm' \in Nat \cup {Never} /\ armedAt' \in Nat /\ armedFor' \in Nat
  BY <1>1, AlarmTyped DEF QueueInv, addTimerFromLoop
<1>4. requests' \in Seq([op : {"add", "cancel"}, timer : Created'])
  <2>1. requests \in Seq([op : {"add", "cancel"}, timer : Created])
    BY DEF QueueInv, TypeOK
  <2>2. [op : {"add", "cancel"}, timer : Created] \subseteq
        [op : {"add", "cancel"}, timer : Created']
    BY <1>1
  <2>3. QED BY <1>2, <2>1, <2>2, SeqMonotonic
<1> HIDE DEF n, at
<1>5. TypeOK'
  <2>1. returning' \subseteq Created' /\ ids' \subseteq Created'
    BY <1>1, <1>2 DEF QueueInv, TypeOK
  <2>2. QED BY <1>1, <1>2, <1>3, <1>4, <2>1 DEF QueueInv, TypeOK
<1>6. SetsAgree' /\ Resting' /\ CancelledLeave'
  <2>1. Batch' = Batch /\ n \notin Batch /\ Batch \subseteq Created
    BY <1>1, <1>2 DEF Batch, QueueInv, TypeOK
  <2>2. activeTimers_' = {e[2] : e \in timers_'}
    BY <1>2, OneMore DEF QueueInv, SetsAgree
  <2>3. \A e \in timers_ \cup expired : e[1] = expiration'[e[2]]
    <3>1. \A e \in timers_ \cup expired : e[2] \in Created /\ e[1] = expiration[e[2]]
      BY DEF QueueInv, TypeOK, SetsAgree
    <3>2. QED BY <1>1, <3>1
  <2>4. SetsAgree'
    <3>1. \A e \in timers_' \cup expired' : e[1] = expiration'[e[2]]
      BY <1>1, <1>2, <2>3
    <3>2. activeTimers_' \cap Batch' = {}
      BY <1>2, <2>1 DEF QueueInv, SetsAgree
    <3>3. QED BY <2>2, <3>1, <3>2 DEF SetsAgree
  <2>5. Resting'
    BY <1>2 DEF QueueInv, Resting, calling
  <2>6. CancelledLeave'
    BY <1>1, <1>2, <2>1 DEF QueueInv, TypeOK, CancelledLeave
  <2>7. QED BY <2>4, <2>5, <2>6
<1>7. AddsAreNew'
  <2>1. Adds' = Adds /\ Batch' = Batch /\ \A i \in Adds : requests[i].timer \in Created
    BY <1>2, LenProperties, ElementOfSeq DEF Adds, Batch, QueueInv, TypeOK
  <2>2. QED BY <1>1, <1>2, <2>1 DEF QueueInv, AddsAreNew
<1>8. QED BY <1>5, <1>6, <1>7 DEF QueueInv

\* A request to cancel a timer.
LEMMA CancelRequestKeeps ==
    ASSUME QueueInv, NEW timer \in Created, cancel(timer)
    PROVE  QueueInv'
<1> DEFINE r == [op |-> "cancel", timer |-> timer]
           Requests == [op : {"add", "cancel"}, timer : Created]
<1>1. /\ requests \in Seq(Requests) /\ r \in Requests /\ requests' = Append(requests, r)
      /\ cancels' \in Nat
  BY DEF QueueInv, TypeOK, cancel
<1>2. UNCHANGED <<clock, place, timerVars, queueVars, batchVars, idVars, alarmVars, cancelled>>
  BY DEF cancel
<1> HIDE DEF Requests
<1>3. /\ requests' \in Seq(Requests) /\ Len(requests') = Len(requests) + 1
      /\ \A i \in 1 .. Len(requests) : requests'[i] = requests[i]
      /\ requests'[Len(requests) + 1] = r
      /\ Len(requests) \in Nat /\ DOMAIN requests = 1 .. Len(requests)
      /\ DOMAIN requests' = 1 .. Len(requests) + 1
  BY <1>1, AppendProperties, LenProperties
<1>4. Adds' = Adds /\ \A i \in Adds : requests'[i] = requests[i]
  BY <1>3 DEF Adds
<1>5. TypeOK'
  <2>1. \A i \in DOMAIN requests' : requests'[i].op = "add" => requests'[i].timer \in alive
    <3>1. \A i \in 1 .. Len(requests) : requests[i].op = "add" => requests[i].timer \in alive
      BY <1>3 DEF QueueInv, TypeOK
    <3>2. r.op # "add"
      OBVIOUS
    <3> HIDE DEF r
    <3>3. QED BY <1>3, <3>1, <3>2
  <2>2. QED
    BY <1>1, <1>2, <1>3, <2>1 DEF QueueInv, TypeOK, Created, timerVars, queueVars, batchVars,
                                 idVars, alarmVars, Requests
<1>6. SetsAgree' /\ Resting' /\ CancelledLeave'
  BY <1>2 DEF QueueInv, SetsAgree, Resting, CancelledLeave, Batch, calling, timerVars,
              queueVars, batchVars
<1>7. AddsAreNew'
  BY <1>2, <1>4 DEF QueueInv, AddsAreNew, Batch, queueVars, batchVars
<1>8. QED BY <1>5, <1>6, <1>7 DEF QueueInv

\* What cancelInLoop does to the sets: the timer leaves both, or is remembered if it is
\* in the batch.
LEMMA CancelInLoopKeeps ==
    ASSUME QueueInv, NEW timer \in Created, cancelInLoop(timer),
           UNCHANGED <<place, expiration, interval, now, expired, todo>>,
           \A i \in Adds : requests[i].timer \in alive
    PROVE  /\ SetsAgree' /\ Resting' /\ CancelledLeave'
           /\ alive' \subseteq Created /\ timers_' \subseteq Nat \X alive'
           /\ activeTimers_' \subseteq alive' /\ cancelingTimers_' \subseteq Created
           /\ expired' \subseteq Nat \X alive' /\ cancelled' \subseteq Created
           /\ \A i \in Adds : requests[i].timer \in alive'
           /\ \A i \in Adds : requests[i].timer \notin activeTimers_' \cup Batch' \cup cancelled'
<1>1. \A i \in Adds : requests[i].timer \notin activeTimers_ \cup Batch \cup cancelled
  BY DEF QueueInv, AddsAreNew
<1>2. Batch' = Batch /\ (~calling => Batch = {})
  BY DEF Batch, QueueInv, Resting
<1>3. CASE timer \in activeTimers_
  <2>1. /\ timers_' = timers_ \ {<<expiration[timer], timer>>}
        /\ activeTimers_' = activeTimers_ \ {timer}
        /\ alive' = alive \ {timer} /\ cancelingTimers_' = cancelingTimers_
        /\ cancelled' = cancelled \cup {timer}
    BY <1>3 DEF cancelInLoop, deleted
  <2>2. timer \notin Batch
    BY <1>3 DEF QueueInv, SetsAgree
  <2>3. \A e \in timers_' : e[2] # timer
    <3>1. \A e \in timers_ : e = <<e[1], e[2]>> /\ e[1] = expiration[e[2]]
      BY DEF QueueInv, TypeOK, SetsAgree
    <3>2. QED BY <2>1, <3>1
  <2>4. \A t \in activeTimers_' : \E e \in timers_' : t = e[2]
    <3>1. \A t \in activeTimers_ : \E e \in timers_ : t = e[2]
      BY DEF QueueInv, SetsAgree
    <3>2. \A e \in timers_ : e[2] # timer => e \in timers_'
      BY <2>1
    <3>3. QED BY <2>1, <3>1, <3>2
  <2>5. SetsAgree'
    <3>1. activeTimers_' = {e[2] : e \in timers_'}
      BY <2>1, <2>3, <2>4 DEF QueueInv, SetsAgree
    <3>2. QED BY <1>2, <2>1, <3>1 DEF QueueInv, SetsAgree
  <2>6. Resting' /\ CancelledLeave'
    BY <1>2, <2>1 DEF QueueInv, Resting, CancelledLeave, calling
  <2>7. /\ timers_' \subseteq Nat \X alive' /\ expired' \subseteq Nat \X alive'
    <3>1. \A e \in timers_' \cup expired : e \in Nat \X alive /\ e[2] # timer
      BY <2>1, <2>2, <2>3 DEF QueueInv, TypeOK, Batch
    <3>2. QED BY <2>1, <3>1
  <2>8. QED BY <1>1, <1>2, <1>3, <2>1, <2>5, <2>6, <2>7 DEF QueueInv, TypeOK
<1>4. CASE timer \notin activeTimers_
  <2>1. /\ timers_' = timers_ /\ activeTimers_' = activeTimers_ /\ alive' = alive
        /\ cancelingTimers_' = cancelingTimers_ \cup remembered(timer)
        /\ cancelled' = IF timer \in Batch THEN cancelled \cup {timer} ELSE cancelled
    BY <1>4 DEF cancelInLoop, deleted, Batch
  <2>2. remembered(timer) \subseteq {timer} /\ (timer \in Batch => timer \in remembered(timer))
    BY <1>2 DEF remembered
  <2>3. SetsAgree' /\ Resting' /\ CancelledLeave'
    BY <1>2, <2>1, <2>2 DEF QueueInv, SetsAgree, Resting, CancelledLeave, calling
  <2>4. \A i \in Adds : requests[i].timer \notin cancelled'
    BY <1>1, <2>1
  <2>5. QED BY <1>1, <1>2, <2>1, <2>2, <2>3, <2>4 DEF QueueInv, TypeOK
<1>5. QED BY <1>3, <1>4

\* A cancel in the loop thread.
LEMMA CancelKeeps ==
    ASSUME QueueInv, NEW timer \in Created, cancelFromLoop(timer)
    PROVE  QueueInv'
<1>1. /\ UNCHANGED <<clock, place, expiration, interval, now, expired, todo, requests, idVars,
                   alarmVars>>
      /\ cancelInLoop(timer) /\ cancels' \in Nat
  BY DEF cancelFromLoop, QueueInv, TypeOK
<1>2. \A i \in Adds : requests[i].timer \in alive
  BY DEF QueueInv, TypeOK, Adds
<1>3. /\ SetsAgree' /\ Resting' /\ CancelledLeave'
      /\ alive' \subseteq Created /\ timers_' \subseteq Nat \X alive'
      /\ activeTimers_' \subseteq alive' /\ cancelingTimers_' \subseteq Created
      /\ expired' \subseteq Nat \X alive' /\ cancelled' \subseteq Created
      /\ \A i \in Adds : requests[i].timer \in alive'
      /\ \A i \in Adds : requests[i].timer \notin activeTimers_' \cup Batch' \cup cancelled'
  BY <1>1, <1>2, CancelInLoopKeeps
<1>4. Adds' = Adds
  BY <1>1 DEF Adds
<1>5. TypeOK'
  BY <1>1, <1>3 DEF QueueInv, TypeOK, Created, idVars, alarmVars, Adds
<1>6. AddsAreNew'
  BY <1>1, <1>3, <1>4 DEF QueueInv, AddsAreNew
<1>7. QED BY <1>3, <1>5, <1>6 DEF QueueInv

\* The requests that are left when the loop has taken the oldest.
LEMMA RequestsLeft ==
    ASSUME QueueInv, requests # <<>>, requests' = Tail(requests)
    PROVE  /\ requests' \in Seq([op : {"add", "cancel"}, timer : Created])
           /\ Head(requests).op \in {"add", "cancel"} /\ Head(requests).timer \in Created
           /\ \A i \in Adds' : i + 1 \in Adds /\ requests'[i] = requests[i + 1]
           /\ Head(requests).op = "add" =>
                /\ Head(requests).timer \in alive
                /\ Head(requests).timer \notin activeTimers_ \cup Batch \cup cancelled
                /\ \A i \in Adds' : requests'[i].timer # Head(requests).timer
<1> DEFINE Requests == [op : {"add", "cancel"}, timer : Created]
<1>1. requests \in Seq(Requests)
  BY DEF QueueInv, TypeOK
<1>2. /\ requests' \in Seq(Requests) /\ Len(requests') = Len(requests) - 1
      /\ \A i \in 1 .. Len(requests') : requests'[i] = requests[i + 1]
      /\ Head(requests) \in Requests /\ Len(requests) \in Nat \ {0}
      /\ DOMAIN requests = 1 .. Len(requests) /\ DOMAIN requests' = 1 .. Len(requests')
      /\ Head(requests) = requests[1]
  <2>1. requests \in Seq(Requests) /\ requests # <<>> /\ requests' = Tail(requests)
    BY <1>1
  <2> HIDE DEF Requests
  <2>2. Head(requests) \in Requests /\ Tail(requests) \in Seq(Requests)
        /\ Len(Tail(requests)) = Len(requests) - 1
        /\ \A i \in 1 .. Len(Tail(requests)) : Tail(requests)[i] = requests[i + 1]
    BY <2>1, HeadTailProperties
  <2>3. Len(requests) \in Nat \ {0} /\ DOMAIN requests = 1 .. Len(requests)
    BY <2>1, EmptySeq, LenProperties
  <2>4. DOMAIN requests' = 1 .. Len(requests')
    BY <2>1, <2>2, LenProperties
  <2>5. Head(requests) = requests[1]
    BY <2>1, <2>3
  <2>6. QED BY <2>1, <2>2, <2>3, <2>4, <2>5
<1>3. \A i \in Adds' : i + 1 \in Adds /\ requests'[i] = requests[i + 1] /\ i + 1 # 1
  BY <1>2 DEF Adds
<1>4. ASSUME Head(requests).op = "add"
      PROVE  /\ Head(requests).timer \in alive
             /\ Head(requests).timer \notin activeTimers_ \cup Batch \cup cancelled
             /\ \A i \in Adds' : requests'[i].timer # Head(requests).timer
  <2>1. 1 \in Adds
    BY <1>2, <1>4 DEF Adds
  <2>2. Head(requests).timer \in alive
    BY <1>2, <2>1 DEF QueueInv, TypeOK, Adds
  <2>3. Head(requests).timer \notin activeTimers_ \cup Batch \cup cancelled
    BY <1>2, <2>1 DEF QueueInv, AddsAreNew
  <2>4. ASSUME NEW i \in Adds' PROVE requests'[i].timer # Head(requests).timer
    <3>1. i + 1 \in Adds /\ i + 1 # 1 /\ requests'[i] = requests[i + 1]
      BY <1>3
    <3>2. requests[i + 1].timer # requests[1].timer
      BY <2>1, <3>1 DEF QueueInv, AddsAreNew
    <3>3. QED BY <1>2, <3>1, <3>2
  <2>5. QED BY <2>2, <2>3, <2>4
<1>5. QED BY <1>2, <1>3, <1>4

\* The oldest request is called in the loop.
LEMMA RequestKeeps ==
    ASSUME QueueInv, callRequest
    PROVE  QueueInv'
<1> DEFINE timer == Head(requests).timer
<1>1. /\ requests' \in Seq([op : {"add", "cancel"}, timer : Created])
      /\ timer \in Created
      /\ \A i \in Adds' : i + 1 \in Adds /\ requests'[i] = requests[i + 1]
      /\ Head(requests).op = "add" =>
                /\ timer \in alive
                /\ timer \notin activeTimers_ \cup Batch \cup cancelled
                /\ \A i \in Adds' : requests'[i].timer # timer
  BY RequestsLeft DEF callRequest
<1>2. /\ UNCHANGED <<clock, place, expiration, interval, now, expired, todo, idVars, cancels>>
      /\ place = "loop"
  BY DEF callRequest
<1>3. /\ \A i \in Adds : requests[i].timer \in alive
      /\ \A i, j \in Adds : requests[i].timer = requests[j].timer => i = j
      /\ \A i \in Adds : requests[i].timer \notin activeTimers_ \cup Batch \cup cancelled
  BY DEF QueueInv, TypeOK, AddsAreNew, Adds
<1>4. \A i, j \in Adds' : requests'[i].timer = requests'[j].timer => i = j
  <2>1. \A i \in Adds' : i \in Nat
    BY <1>1, LenProperties DEF Adds
  <2>2. QED BY <1>1, <1>3, <2>1
<1>5. Batch' = Batch /\ Batch = {}
  BY <1>2 DEF Batch, QueueInv, Resting, calling
<1>6. CASE /\ Head(requests).op = "add"
           /\ addTimerInLoop(timer, expiration[timer])
           /\ UNCHANGED <<alive, cancelingTimers_, cancelled>>
  <2>1. /\ timers_' = timers_ \cup {<<expiration[timer], timer>>}
        /\ activeTimers_' = activeTimers_ \cup {timer}
    BY <1>6 DEF addTimerInLoop
  <2>2. expiration[timer] \in Nat
    BY <1>1, Typed DEF QueueInv
  <2>3. alarm' \in Nat \cup {Never} /\ armedAt' \in Nat /\ armedFor' \in Nat
    BY <1>6, <2>2, AlarmTyped DEF QueueInv
  <2>4. \A i \in DOMAIN requests' : requests'[i].op = "add" => requests'[i].timer \in alive'
    BY <1>1, <1>3, <1>6 DEF Adds
  <2> HIDE DEF timer
  <2>5. TypeOK'
    <3>1. timers_' \subseteq Nat \X alive' /\ activeTimers_' \subseteq alive'
      BY <1>1, <1>6, <2>1, <2>2 DEF QueueInv, TypeOK
    <3>2. QED BY <1>1, <1>2, <1>6, <2>3, <2>4, <3>1 DEF QueueInv, TypeOK, Created, idVars
  <2>6. SetsAgree'
    <3>1. activeTimers_' = {e[2] : e \in timers_'}
      BY <2>1, OneMore DEF QueueInv, SetsAgree
    <3>2. \A e \in timers_' \cup expired' : e[1] = expiration'[e[2]]
      BY <1>2, <2>1 DEF QueueInv, SetsAgree
    <3>3. QED BY <1>5, <3>1, <3>2 DEF SetsAgree
  <2>7. Resting' /\ CancelledLeave'
    BY <1>2, <1>5, <1>6 DEF QueueInv, Resting, CancelledLeave, calling
  <2>8. AddsAreNew'
    BY <1>1, <1>3, <1>4, <1>5, <1>6, <2>1 DEF AddsAreNew
  <2>9. QED BY <2>5, <2>6, <2>7, <2>8 DEF QueueInv
<1>7. CASE cancelInLoop(timer) /\ UNCHANGED alarmVars
  <2>1. /\ SetsAgree' /\ Resting' /\ CancelledLeave'
        /\ alive' \subseteq Created /\ timers_' \subseteq Nat \X alive'
        /\ activeTimers_' \subseteq alive' /\ cancelingTimers_' \subseteq Created
        /\ expired' \subseteq Nat \X alive' /\ cancelled' \subseteq Created
        /\ \A i \in Adds : requests[i].timer \in alive'
        /\ \A i \in Adds : requests[i].timer \notin activeTimers_' \cup Batch' \cup cancelled'
    BY <1>1, <1>2, <1>3, <1>7, CancelInLoopKeeps
  <2>2. \A i \in DOMAIN requests' : requests'[i].op = "add" => requests'[i].timer \in alive'
    BY <1>1, <2>1 DEF Adds
  <2>3. TypeOK'
    BY <1>1, <1>2, <1>7, <2>1, <2>2 DEF QueueInv, TypeOK, Created, idVars, alarmVars
  <2>4. AddsAreNew'
    BY <1>1, <1>4, <2>1 DEF AddsAreNew
  <2>5. QED BY <2>1, <2>3, <2>4 DEF QueueInv
<1>8. QED BY <1>6, <1>7 DEF callRequest

\* The timers that are due leave both sets together.
LEMMA HandleReadKeeps ==
    ASSUME QueueInv, handleRead
    PROVE  QueueInv'
<1> DEFINE batch == {e \in timers_ : e[1] <= clock}
<1>1. /\ place = "polled" /\ place' = "calling" /\ now' = clock /\ expired' = batch
      /\ todo' = batch /\ timers_' = timers_ \ batch /\ cancelingTimers_' = {}
      /\ activeTimers_' = activeTimers_ \ {e[2] : e \in batch}
      /\ UNCHANGED <<clock, timerVars, requests, idVars, armedAt, armedFor, cancels, cancelled>>
      /\ alarm' \in {alarm, Never}
  BY DEF handleRead, activeAfter, readTimerfd
<1>2. Batch = {} /\ Batch' = {e[2] : e \in batch}
  BY <1>1 DEF QueueInv, Resting, Batch, calling
<1>3. \A e, f \in timers_ : e[2] = f[2] => e = f
  <2>1. \A e \in timers_ : e = <<expiration[e[2]], e[2]>>
    BY DEF QueueInv, TypeOK, SetsAgree
  <2>2. QED BY <2>1
<1>4. TypeOK'
  BY <1>1 DEF QueueInv, TypeOK, Created, timerVars, idVars
<1>5. SetsAgree'
  <2>1. activeTimers_' = {e[2] : e \in timers_'}
    BY <1>1, <1>3 DEF QueueInv, SetsAgree
  <2>2. QED BY <1>1, <1>2, <2>1 DEF QueueInv, SetsAgree, timerVars
<1>6. cancelled \cap alive = {}
  BY <1>2 DEF QueueInv, CancelledLeave
<1>7. Resting' /\ CancelledLeave'
  BY <1>1, <1>6 DEF Resting, CancelledLeave, calling, timerVars
<1>8. AddsAreNew'
  <2>1. Adds' = Adds /\ Batch' \subseteq activeTimers_ /\ activeTimers_' \subseteq activeTimers_
    BY <1>1, <1>2 DEF Adds, QueueInv, SetsAgree
  <2>2. QED BY <1>1, <2>1 DEF QueueInv, AddsAreNew
<1>9. QED BY <1>4, <1>5, <1>7, <1>8 DEF QueueInv

\* Steps that leave the timers alone.
LEMMA PlainKeeps ==
    ASSUME QueueInv, pollReturns \/ run \/ callbackReturns \/ tick \/ UNCHANGED vars
    PROVE  QueueInv'
<1>1. /\ UNCHANGED <<timerVars, queueVars, cancelingTimers_, now, expired, requests, alarmVars,
                     cancels, cancelled>>
      /\ UNCHANGED idVars
      /\ todo' \subseteq todo /\ clock' \in Nat
      /\ place' \in {"loop", "polled", "calling", "callback"} /\ (~calling' => ~calling)
  BY DEF QueueInv, TypeOK, pollReturns, run, callbackReturns, tick, vars, batchVars, calling
<1>2. TypeOK' /\ Resting' /\ SetsAgree' /\ CancelledLeave'
  BY <1>1 DEF QueueInv, TypeOK, Resting, SetsAgree, CancelledLeave, Batch, Created, timerVars,
              queueVars, idVars, alarmVars
<1>3. AddsAreNew'
  BY <1>1 DEF QueueInv, AddsAreNew, Adds, Batch, queueVars
<1>4. QED BY <1>2, <1>3 DEF QueueInv

\* An addTimer of another thread returns.
LEMMA ReturnKeeps ==
    ASSUME QueueInv, NEW timer \in returning, addReturns(timer)
    PROVE  QueueInv'
<1>1. /\ UNCHANGED <<clock, place, timerVars, queueVars, batchVars, requests, alarmVars, cancels,
                     cancelled>>
      /\ returning' \subseteq returning
  BY DEF addReturns
<1>2. ids' \subseteq ids \cup Created
  BY DEF addReturns, idsRead, QueueInv, TypeOK
<1>3. TypeOK' /\ Resting' /\ SetsAgree' /\ CancelledLeave'
  BY <1>1, <1>2 DEF QueueInv, TypeOK, Resting, SetsAgree, CancelledLeave, Batch, Created, calling,
              timerVars, queueVars, batchVars, alarmVars
<1>4. AddsAreNew'
  BY <1>1 DEF QueueInv, AddsAreNew, Adds, Batch, queueVars, batchVars
<1>5. QED BY <1>3, <1>4 DEF QueueInv

\* Repeating timers come back under their new time, the others are deleted.
LEMMA ResetKeeps ==
    ASSUME QueueInv, reset
    PROVE  QueueInv'
<1> DEFINE again == {timer \in Batch : interval[timer] > 0 /\ timer \notin cancelingTimers_}
           entries == {<<restart(timer), timer>> : timer \in again}
<1>1. /\ place' = "loop" /\ expired' = {} /\ now' = 0 /\ todo = {}
      /\ expiration' = [t \in Created |-> IF t \in again THEN restart(t) ELSE expiration[t]]
      /\ timers_' = timers_ \cup entries
      /\ activeTimers_' = activeTimers_ \cup again
      /\ alive' = alive \ (Batch \ again)
      /\ UNCHANGED <<clock, interval, cancelingTimers_, todo, requests, idVars, cancels, cancelled>>
  BY DEF reset, Batch
<1>2. Batch \subseteq alive /\ alive \subseteq Created /\ activeTimers_ \subseteq alive
      /\ activeTimers_ \cap Batch = {} /\ again \subseteq Batch
  BY DEF QueueInv, TypeOK, SetsAgree, Batch
<1>3. \A t \in Created : restart(t) \in Nat
  <2> SUFFICES ASSUME NEW t \in Created PROVE restart(t) \in Nat
    OBVIOUS
  <2>1. now \in Nat /\ interval[t] \in Nat /\ MicrosPerSecond \in Nat
    BY Typed, UnitsAssumption DEF QueueInv, TypeOK
  <2>2. interval[t] * MicrosPerSecond \in Nat
    BY <2>1, Products
  <2>3. QED BY <2>1, <2>2 DEF restart
<1>4. expiration' \in Seq(Nat) /\ Len(expiration') = Len(expiration) /\ Created' = Created
  <2>1. Created = 1 .. Len(expiration) /\ Len(expiration) \in Nat
        /\ \A t \in Created : expiration[t] \in Nat
    BY Typed DEF QueueInv
  <2> DEFINE f == [t \in 1 .. Len(expiration) |->
                      IF t \in again THEN restart(t) ELSE expiration[t]]
  <2>2. f \in [1 .. Len(expiration) -> Nat]
    BY <1>3, <2>1
  <2>3. f \in Seq(Nat)
    BY <2>1, <2>2, SeqDef
  <2>4. expiration' = f
    BY <1>1, <2>1
  <2>5. DOMAIN expiration' = 1 .. Len(expiration)
    BY <2>4
  <2>6. expiration' \in Seq(Nat)
    BY <2>3, <2>4
  <2> HIDE DEF f
  <2>7. Len(expiration') \in Nat /\ DOMAIN expiration' = 1 .. Len(expiration')
    BY <2>6, LenProperties
  <2>8. Len(expiration') = Len(expiration)
    BY <2>1, <2>5, <2>7
  <2>9. QED BY <2>1, <2>5, <2>6, <2>8 DEF Created
<1>5. \A t \in Created : expiration'[t] = IF t \in again THEN restart(t) ELSE expiration[t]
  BY <1>1
<1> HIDE DEF again
<1>6. Batch' = {} /\ again \subseteq alive' /\ activeTimers_' \subseteq alive'
  BY <1>1, <1>2 DEF Batch
<1>7. {e[2] : e \in entries} = again /\ \A e \in entries : e[2] \in again /\ e[1] = restart(e[2])
  <2>1. \A e \in entries : \E t \in again : e = <<restart(t), t>>
    BY DEF entries
  <2>2. \A t \in again : <<restart(t), t>> \in entries
    BY DEF entries
  <2> HIDE DEF entries
  <2>3. \A e \in entries : e[2] \in again /\ e[1] = restart(e[2])
    BY <2>1
  <2>4. \A t \in again : t \in {e[2] : e \in entries}
    <3> SUFFICES ASSUME NEW t \in again PROVE \E e \in entries : t = e[2]
      OBVIOUS
    <3>1. t = <<restart(t), t>>[2]
      OBVIOUS
    <3>2. QED BY <2>2, <3>1
  <2>5. QED BY <2>3, <2>4
<1>8. entries \subseteq Nat \X alive'
  BY <1>2, <1>3, <1>6 DEF entries
<1> HIDE DEF entries
<1>9. timers_' \subseteq Nat \X alive'
  <2>1. \A e \in timers_ : e \in Nat \X alive /\ e[2] \in activeTimers_
    BY DEF QueueInv, TypeOK, SetsAgree
  <2>2. \A e \in timers_ : e \in Nat \X alive'
    BY <1>1, <1>2, <2>1
  <2>3. QED BY <1>1, <1>8, <2>2
<1>10. alarm' \in Nat \cup {Never} /\ armedAt' \in Nat /\ armedFor' \in Nat
  <2> DEFINE batch == {e[2] : e \in expired}
             again2 == {timer \in batch : interval[timer] > 0 /\ timer \notin cancelingTimers_}
             list == timers_ \cup {<<restart(timer), timer>> : timer \in again2}
  <2>1. \/ UNCHANGED alarmVars
        \/ \E when \in nextExpire(list, again2) \ {0} : resetTimerfd(when)
    BY DEF reset
  <2>2. list = timers_'
    BY <1>1 DEF entries, again, Batch
  <2>3. nextExpire(list, again2) \subseteq Nat
    BY <1>9, <2>2, InputsAssumption DEF nextExpire
  <2> HIDE DEF list, again2
  <2>4. QED BY <2>1, <2>3, Arming DEF QueueInv, TypeOK, alarmVars
<1>11. \A i \in Adds : requests[i].timer \in alive'
  BY <1>1 DEF QueueInv, TypeOK, AddsAreNew, Adds
<1>12. TypeOK'
  <2>1. alive' \subseteq Created
    BY <1>1, <1>2
  <2>2. \A i \in DOMAIN requests' : requests'[i].op = "add" => requests'[i].timer \in alive'
    BY <1>1, <1>11 DEF Adds
  <2>3. QED
    BY <1>1, <1>4, <1>6, <1>9, <1>10, <2>1, <2>2 DEF QueueInv, TypeOK, idVars
<1>13. SetsAgree'
  <2>1. activeTimers_' = {e[2] : e \in timers_'}
    BY <1>1, <1>7 DEF QueueInv, SetsAgree
  <2>2. ASSUME NEW e \in timers_' PROVE e[1] = expiration'[e[2]]
    <3>1. CASE e \in timers_
      <4>1. e[2] \in activeTimers_ /\ e[1] = expiration[e[2]]
        BY <3>1 DEF QueueInv, SetsAgree
      <4>2. QED BY <1>2, <1>5, <4>1
    <3>2. CASE e \in entries
      BY <1>2, <1>5, <1>7, <3>2
    <3>3. QED BY <1>1, <3>1, <3>2
  <2>3. QED BY <1>1, <1>6, <2>1, <2>2 DEF SetsAgree
<1>14. Resting' /\ CancelledLeave'
  <2>1. cancelled \cap alive \subseteq Batch \ again
    BY DEF QueueInv, CancelledLeave, again
  <2>2. QED BY <1>1, <2>1 DEF Resting, CancelledLeave, calling
<1>15. AddsAreNew'
  <2>1. Adds' = Adds
    BY <1>1 DEF Adds
  <2>2. QED BY <1>1, <1>2, <1>6, <2>1 DEF QueueInv, AddsAreNew
<1>16. QED BY <1>12, <1>13, <1>14, <1>15 DEF QueueInv

LEMMA NextKeeps == QueueInv /\ [Next]_vars => QueueInv'
<1> SUFFICES ASSUME QueueInv, [Next]_vars PROVE QueueInv'
  OBVIOUS
<1>1. ASSUME NEW when \in Whens, NEW ivl \in Intervals,
             addTimer(when, ivl) \/ addTimerFromLoop(when, ivl)
      PROVE  QueueInv'
  BY <1>1, AddKeeps, AddInLoopKeeps
<1>2. ASSUME NEW timer \in ids, cancel(timer) \/ cancelFromLoop(timer)
      PROVE  QueueInv'
  <2>1. timer \in Created
    BY DEF QueueInv, TypeOK
  <2>2. QED BY <1>2, <2>1, CancelRequestKeeps, CancelKeeps
<1>3. QED
  BY <1>1, <1>2, ReturnKeeps, RequestKeeps, HandleReadKeeps, ResetKeeps, PlainKeeps DEF Next

LEMMA InitHolds == Init => QueueInv
<1> SUFFICES ASSUME Init PROVE QueueInv
  OBVIOUS
<1>1. \A S : <<>> \in Seq(S) /\ Len(<<>>) = 0 /\ DOMAIN <<>> = {}
  BY EmptySeq
<1>2. Created = {} /\ Batch = {} /\ Adds = {}
  BY <1>1 DEF Init, Created, Batch, Adds
<1>3. TypeOK
  BY <1>1, <1>2, InputsAssumption DEF Init, TypeOK
<1>4. Resting /\ SetsAgree /\ AddsAreNew /\ CancelledLeave
  BY <1>2 DEF Init, Resting, SetsAgree, AddsAreNew, CancelledLeave
<1>5. QED BY <1>3, <1>4 DEF QueueInv

LEMMA QueueInvariant == Spec => []QueueInv
BY InitHolds, NextKeeps, PTL DEF Spec

-----------------------------------------------------------------------------
(* The theorems about the timers *)

\* TimerQueue.cpp:96-225: no timer in the sets, in the batch or in a request to add it has
\* been deleted, whoever adds and cancels it, from wherever.
THEOREM TypeCorrect == Spec => []TypeOK
<1>1. QueueInv => TypeOK
  BY DEF QueueInv
<1>2. QED BY <1>1, QueueInvariant, PTL

\* TimerQueue.cpp:118-224: the asserts that the two sets have the same timers.
THEOREM SetsAlwaysAgree == Spec => []SetsAgree
<1>1. QueueInv => SetsAgree
  BY DEF QueueInv
<1>2. QED BY <1>1, QueueInvariant, PTL

\* TimerQueue.cpp:116-150, 178-192: a cancelled timer does not run again, be it cancelled
\* by its own callback.
THEOREM CancelledTimersStop == Spec => []CancelStops
<1>1. QueueInv => CancelStops
  <2> SUFFICES ASSUME QueueInv PROVE CancelStops
    OBVIOUS
  <2>1. cancelled \cap alive \subseteq Batch /\ activeTimers_ \subseteq alive
        /\ activeTimers_ \cap Batch = {}
    BY DEF QueueInv, CancelledLeave, TypeOK, SetsAgree
  <2>2. ~calling => Batch = {}
    BY DEF QueueInv, Resting, Batch
  <2>3. QED BY <2>1, <2>2 DEF CancelStops
<1>2. QED BY <1>1, QueueInvariant, PTL

-----------------------------------------------------------------------------
(* The timerfd *)

\* It was armed for no later than when.
InTimeFor(when) == armedFor <= when

Armed == alarm # Never /\ \A e \in timers_ : InTimeFor(e[1])

\* While callbacks are called it may not be armed, for reset will do it: unless a timer was
\* added that is due already, whose time may not be valid() in reset.
ArmedWhenNeeded ==
    /\ ~calling /\ timers_ # {} => Armed
    /\ calling /\ (\E e \in timers_ : e[1] <= now) => Armed

AlarmInv == QueueInv /\ ArmedWhenNeeded

LEMMA InTimeLater ==
    ASSUME QueueInv, NEW a \in Nat, NEW b \in Nat, a <= b, InTimeFor(a)
    PROVE  InTimeFor(b)
BY DEF InTimeFor, QueueInv, TypeOK

LEMMA ArmedInTime ==
    ASSUME QueueInv, NEW when \in Nat, resetTimerfd(when)
    PROVE  alarm' \in Nat /\ InTimeFor(when)'
<1>1. alarm' \in Nat
  BY Arming DEF QueueInv
<1>2. QED BY <1>1 DEF resetTimerfd, InTimeFor

LEMMA SameAlarm ==
    ASSUME UNCHANGED alarmVars, NEW when
    PROVE  alarm' = alarm /\ (InTimeFor(when) => InTimeFor(when)')
BY DEF alarmVars, InTimeFor

\* A timer that is added to the queue: it arms the timerfd if it is the earliest, and
\* otherwise the earliest one does for it.
LEMMA AddStaysArmed ==
    ASSUME AlarmInv, NEW timer, NEW when \in Nat, addTimerInLoop(timer, when),
           place' = place, now' = now
    PROVE  ArmedWhenNeeded'
<1>0. /\ timers_' = timers_ \cup {<<when, timer>>} /\ <<when, timer>>[1] = when
      /\ \A e \in timers_ : e[1] \in Nat
      /\ now \in Nat /\ (alarm \in Nat \/ alarm = Never) /\ (calling' = calling)
  BY DEF addTimerInLoop, AlarmInv, QueueInv, TypeOK, calling
<1>1. CASE earliestChanged(when)
  <2>1. resetTimerfd(when) /\ \A e \in timers_ : when < e[1]
    BY <1>1 DEF addTimerInLoop, earliestChanged
  <2>2. alarm' \in Nat /\ InTimeFor(when)'
    BY <2>1, ArmedInTime DEF AlarmInv
  <2>3. ASSUME NEW e \in timers_' PROVE InTimeFor(e[1])'
    <3>1. e[1] \in Nat /\ when <= e[1] /\ armedFor' \in Nat
      BY <1>0, <2>1, Arming DEF AlarmInv, QueueInv
    <3>2. QED BY <2>2, <3>1 DEF InTimeFor
  <2>4. alarm' # Never
    BY <2>2 DEF Never
  <2>5. QED BY <2>3, <2>4 DEF ArmedWhenNeeded, Armed
<1>2. CASE ~earliestChanged(when)
  <2>1. UNCHANGED alarmVars
    BY <1>2 DEF addTimerInLoop
  <2>2. PICK e \in timers_ : e[1] <= when
    BY <1>0, <1>2 DEF earliestChanged
  <2>3. ASSUME Armed PROVE Armed'
    <3>1. alarm \in Nat /\ InTimeFor(e[1]) /\ e[1] \in Nat
      BY <1>0, <2>3 DEF Armed
    <3>2. InTimeFor(when)
      BY <2>2, <3>1, InTimeLater DEF AlarmInv
    <3>3. QED BY <1>0, <2>1, <2>3, <3>2, SameAlarm DEF Armed
  <2>4. CASE ~calling
    BY <1>0, <2>2, <2>3, <2>4 DEF AlarmInv, ArmedWhenNeeded
  <2>5. CASE calling
    <3>1. (\E f \in timers_' : f[1] <= now') => \E f \in timers_ : f[1] <= now
      BY <1>0, <2>2
    <3>2. QED BY <1>0, <2>3, <2>5, <3>1 DEF AlarmInv, ArmedWhenNeeded
  <2>6. QED BY <2>4, <2>5
<1>3. QED BY <1>1, <1>2

\* Timers leave the queue, or all stays as it is.
LEMMA FewerStayArmed ==
    ASSUME AlarmInv, timers_' \subseteq timers_, UNCHANGED alarmVars, now' = now,
           calling' <=> calling
    PROVE  ArmedWhenNeeded'
<1>1. Armed => Armed'
  BY SameAlarm DEF Armed
<1>2. (timers_' # {} => timers_ # {}) /\
      ((\E e \in timers_' : e[1] <= now') => \E e \in timers_ : e[1] <= now)
  OBVIOUS
<1>3. QED BY <1>1, <1>2 DEF AlarmInv, ArmedWhenNeeded

\* What is not due yet is left when the batch has been taken.
LEMMA TakingLeavesArmed ==
    ASSUME AlarmInv, handleRead
    PROVE  ArmedWhenNeeded'
<1>1. calling' /\ now' = clock /\ timers_' = timers_ \ {e \in timers_ : e[1] <= clock}
  BY DEF handleRead, calling
<1>2. QED BY <1>1 DEF ArmedWhenNeeded

\* reset arms the timerfd for the earliest timer. Only a time of 0 is not valid() there,
\* and such a timer was added by a callback, and armed the timerfd then.
LEMMA ResetArms ==
    ASSUME AlarmInv, reset
    PROVE  ArmedWhenNeeded'
<1> DEFINE batch == {e[2] : e \in expired}
           again == {timer \in batch : interval[timer] > 0 /\ timer \notin cancelingTimers_}
           entries == {<<restart(timer), timer>> : timer \in again}
           list == timers_ \cup entries
           next == nextExpire(list, again)
           times == {e[1] : e \in list}
<1>1. /\ timers_' = list /\ place' = "loop" /\ calling
      /\ \/ 0 \in next /\ UNCHANGED alarmVars
         \/ next = {} /\ UNCHANGED alarmVars
         \/ \E when \in next \ {0} : resetTimerfd(when)
  BY DEF reset, calling
<1>2. ~calling'
  BY <1>1 DEF calling
<1>3. QueueInv' /\ now \in Nat /\ alarm \in Nat \cup {Never}
  BY ResetKeeps DEF AlarmInv, QueueInv, TypeOK
<1>4. \A e \in list : e[1] \in Nat
  BY <1>1, <1>3 DEF QueueInv, TypeOK
<1>5. \A e \in entries : e[1] \in Nat \ {0}
  <2> SUFFICES ASSUME NEW t \in again PROVE restart(t) \in Nat \ {0}
    OBVIOUS
  <2>1. t \in Created
    BY DEF AlarmInv, QueueInv, TypeOK
  <2>2. interval[t] \in Nat \ {0} /\ MicrosPerSecond \in Nat \ {0}
    BY <2>1, Typed, UnitsAssumption DEF AlarmInv, QueueInv
  <2>3. interval[t] * MicrosPerSecond \in Nat /\ interval[t] * MicrosPerSecond # 0
    BY <2>2, Products
  <2>4. QED BY <1>3, <2>3 DEF restart
<1> HIDE DEF entries, again
<1>6. SUFFICES ASSUME list # {} PROVE Armed'
  BY <1>1, <1>2 DEF ArmedWhenNeeded
<1>7. next = {when \in times : \A e \in list : when <= e[1]}
  BY <1>6 DEF nextExpire
<1>8. next \subseteq Nat
  BY <1>4, <1>7
<1>9. next # {}
  <2>1. times \subseteq Nat /\ times # {}
    BY <1>4, <1>6
  <2>2. PICK x \in times : \A y \in times : x <= y
    BY <2>1, LeastNumber
  <2>3. QED BY <1>7, <2>2
<1>10. CASE \E when \in next \ {0} : resetTimerfd(when)
  <2>1. PICK when \in next : resetTimerfd(when)
    BY <1>10
  <2>2. when \in Nat /\ \A e \in list : when <= e[1]
    BY <1>7, <1>8
  <2>3. alarm' \in Nat /\ InTimeFor(when)'
    BY <2>1, <2>2, ArmedInTime DEF AlarmInv
  <2> HIDE DEF list
  <2>4. ASSUME NEW e \in timers_' PROVE InTimeFor(e[1])'
    <3>1. e[1] \in Nat /\ when <= e[1] /\ armedFor' \in Nat
      BY <1>1, <1>4, <2>1, <2>2, Arming DEF AlarmInv, QueueInv
    <3>2. QED BY <2>2, <2>3, <3>1 DEF InTimeFor
  <2>5. QED BY <2>3, <2>4 DEF Armed, Never
<1>11. CASE 0 \in next /\ UNCHANGED alarmVars
  <2>1. PICK e \in list : e[1] = 0
    BY <1>7, <1>11
  <2>2. e \in timers_
    BY <1>5, <2>1
  <2>3. Armed
    BY <1>1, <1>3, <2>1, <2>2 DEF AlarmInv, ArmedWhenNeeded
  <2>4. alarm \in Nat /\ InTimeFor(0)
    BY <1>3, <2>1, <2>2, <2>3 DEF Armed
  <2> HIDE DEF list
  <2>5. ASSUME NEW f \in timers_' PROVE InTimeFor(f[1])'
    <3>1. f[1] \in Nat /\ 0 <= f[1]
      BY <1>1, <1>4
    <3>2. InTimeFor(f[1])
      BY <2>4, <3>1, InTimeLater DEF AlarmInv
    <3>3. QED BY <1>11, <3>2, SameAlarm
  <2>6. QED BY <1>11, <2>3, <2>5, SameAlarm DEF Armed
<1>12. QED BY <1>1, <1>9, <1>10, <1>11

LEMMA NextKeepsAlarm == AlarmInv /\ [Next]_vars => AlarmInv'
<1> SUFFICES ASSUME AlarmInv, [Next]_vars PROVE AlarmInv'
  OBVIOUS
<1>1. QueueInv'
  BY NextKeeps DEF AlarmInv
<1> SUFFICES ArmedWhenNeeded'
  BY <1>1 DEF AlarmInv
<1>2. ASSUME NEW when \in Whens, NEW ivl \in Intervals, addTimer(when, ivl)
      PROVE  ArmedWhenNeeded'
  BY <1>2, FewerStayArmed DEF addTimer, queueVars, batchVars, calling
<1>3. ASSUME NEW when \in Whens, NEW ivl \in Intervals, addTimerFromLoop(when, ivl)
      PROVE  ArmedWhenNeeded'
  <2>1. when % ShortRange \in Nat
    BY Remainder, UnitsAssumption, InputsAssumption
  <2>2. QED BY <1>3, <2>1, AddStaysArmed DEF addTimerFromLoop, batchVars
<1>4. ASSUME NEW timer \in ids, cancel(timer)
      PROVE  ArmedWhenNeeded'
  BY <1>4, FewerStayArmed DEF cancel, queueVars, batchVars, calling
<1>5. ASSUME NEW timer \in ids, cancelFromLoop(timer)
      PROVE  ArmedWhenNeeded'
  BY <1>5, FewerStayArmed DEF cancelFromLoop, cancelInLoop, calling
<1>6. CASE callRequest
  <2>1. PICK timer, when : timer = Head(requests).timer /\ when = expiration[timer]
    OBVIOUS
  <2>2. place' = place /\ now' = now /\ when \in Nat
    BY <1>6, <2>1, RequestsLeft, Typed DEF AlarmInv, QueueInv, callRequest
  <2>3. CASE addTimerInLoop(timer, when)
    BY <2>2, <2>3, AddStaysArmed
  <2>4. CASE cancelInLoop(timer) /\ UNCHANGED alarmVars
    <3>1. timers_' \subseteq timers_ /\ (calling' <=> calling)
      BY <2>2, <2>4 DEF cancelInLoop, calling
    <3>2. QED BY <2>2, <2>4, <3>1, FewerStayArmed
  <2>5. QED BY <1>6, <2>1, <2>3, <2>4 DEF callRequest
<1>7. CASE pollReturns \/ tick \/ UNCHANGED vars
  <2>1. /\ timers_' \subseteq timers_ /\ UNCHANGED alarmVars /\ now' = now
        /\ place' = place \/ (place = "loop" /\ place' = "polled")
    BY <1>7 DEF pollReturns, tick, vars, queueVars, batchVars
  <2>2. calling' <=> calling
    BY <2>1 DEF calling
  <2>3. QED BY <2>1, <2>2, FewerStayArmed
<1>8. CASE run \/ callbackReturns
  <2>1. /\ timers_' \subseteq timers_ /\ UNCHANGED alarmVars /\ now' = now
        /\ calling /\ calling'
    BY <1>8 DEF run, callbackReturns, queueVars, batchVars, calling
  <2>2. QED BY <2>1, FewerStayArmed
<1>9. ASSUME NEW timer \in returning, addReturns(timer)
      PROVE  ArmedWhenNeeded'
  BY <1>9, FewerStayArmed DEF addReturns, queueVars, batchVars, calling
<1>10. QED
  BY <1>2, <1>3, <1>4, <1>5, <1>6, <1>7, <1>8, <1>9, TakingLeavesArmed, ResetArms DEF Next

\* TimerQueue.cpp:107-114, 202-225: whenever the loop goes to poll while timers wait, the
\* timerfd is armed, for a time that is not after that of any of them.
THEOREM TimersAlwaysArmed == Spec => []TimersArmed
<1>1. Init => AlarmInv
  BY InitHolds DEF Init, AlarmInv, ArmedWhenNeeded, calling
<1>2. AlarmInv /\ [Next]_vars => AlarmInv'
  BY NextKeepsAlarm
<1>3. AlarmInv => TimersArmed
  <2> SUFFICES ASSUME AlarmInv, place = "loop", timers_ # {}
               PROVE  alarm # Never /\ \A e \in timers_ : armedFor <= e[1]
    BY DEF TimersArmed
  <2>1. Armed
    BY DEF AlarmInv, ArmedWhenNeeded, calling
  <2>2. QED BY <2>1 DEF Armed, InTimeFor
<1>4. QED BY <1>1, <1>2, <1>3, PTL DEF Spec

=============================================================================
