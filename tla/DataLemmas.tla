------------------------------ MODULE DataLemmas ------------------------------
(***************************************************************************)
(* Induction over the naturals, stated for sets; what follows from it for  *)
(* the recursive FlattenSeq, by which the properties join the lines of     *)
(* files and of buffers, and for functions that call themselves, as those  *)
(* that print and read do; and remainders, by which a ring is indexed.     *)
(***************************************************************************)
EXTENDS Integers, SequencesExt, FiniteSetTheorems, SequenceTheorems, WellFoundedInduction,
        TLAPS

-----------------------------------------------------------------------------
(* Induction *)

\* The intervals 0 .. n are finite sets, and so well founded by inclusion.
LEMMA LeastElement ==
    ASSUME NEW C \in SUBSET Nat, C # {}
    PROVE  \E n \in C : \A m \in C : n <= m
<1> DEFINE Upto == {0 .. n : n \in C}
           Inclusion == StrictSubsetOrdering(Nat)
<1>1. IsWellFoundedOn(Inclusion, FiniteSubsetsOf(Nat))
  BY FS_StrictSubsetOrderingWellFounded
<1>2. Upto \subseteq FiniteSubsetsOf(Nat) /\ Upto # {}
  <2>1. \A n \in C : IsFiniteSet(0 .. n) /\ 0 .. n \subseteq Nat
    BY FS_Interval
  <2>2. QED BY <2>1 DEF FiniteSubsetsOf
<1>3. PICK x \in Upto : \A y \in Upto : <<y, x>> \notin Inclusion
  <2> HIDE DEF Upto, Inclusion
  <2>1. QED BY <1>1, <1>2, WFMin
<1>4. PICK n \in C : x = 0 .. n
  OBVIOUS
<1>5. ASSUME NEW m \in C, m < n PROVE FALSE
  <2>1. 0 .. m \subseteq 0 .. n /\ 0 .. m # 0 .. n /\ 0 .. m \subseteq Nat /\ 0 .. n \subseteq Nat
    BY <1>5
  <2>2. <<0 .. m, 0 .. n>> \in Inclusion
    BY <2>1 DEF StrictSubsetOrdering
  <2>3. 0 .. m \in Upto
    OBVIOUS
  <2>4. QED BY <1>3, <1>4, <2>2, <2>3
<1>6. QED BY <1>5

\* A set that has 0 and the successor of each natural it has, has them all.
LEMMA SetInduction ==
    ASSUME NEW S, 0 \in S, \A n \in Nat : n \in S => n + 1 \in S
    PROVE  Nat \subseteq S
<1>1. SUFFICES ASSUME Nat \ S # {} PROVE FALSE
  OBVIOUS
<1>2. PICK n \in Nat \ S : \A m \in Nat \ S : n <= m
  BY <1>1, LeastElement
<1>3. n # 0 /\ n - 1 \in Nat /\ n - 1 \in S
  BY <1>2
<1>4. QED BY <1>2, <1>3

-----------------------------------------------------------------------------
(* FlattenSeq *)

\* What the definition computes on the way: the first i sequences, one after the other.
IsFlattening(f, seqs, n) ==
    f = [i \in 1 .. n |-> IF i = 1 THEN seqs[i] ELSE f[i - 1] \o seqs[i]]

LEMMA FlatteningExists ==
    ASSUME NEW seqs, NEW n \in Nat
    PROVE  \E f : IsFlattening(f, seqs, n)
<1> DEFINE S == {k \in Nat : \E f : IsFlattening(f, seqs, k)}
<1>1. 0 \in S
  <2>1. IsFlattening([i \in 1 .. 0 |-> i], seqs, 0)
    BY DEF IsFlattening
  <2>2. QED BY <2>1
<1>2. ASSUME NEW k \in Nat, k \in S PROVE k + 1 \in S
  <2>1. PICK f : IsFlattening(f, seqs, k)
    BY <1>2
  <2> DEFINE g == [i \in 1 .. k + 1 |-> IF i = 1 THEN seqs[i] ELSE f[i - 1] \o seqs[i]]
  <2>2. \A i \in 1 .. k + 1 : i # 1 => i - 1 \in 1 .. k /\ i - 1 \in 1 .. k + 1
    OBVIOUS
  <2>3. \A i \in 1 .. k : g[i] = f[i]
    <3>1. \A i \in 1 .. k : f[i] = IF i = 1 THEN seqs[i] ELSE f[i - 1] \o seqs[i]
      BY <2>1 DEF IsFlattening
    <3>2. QED BY <3>1
  <2>4. IsFlattening(g, seqs, k + 1)
    BY <2>2, <2>3 DEF IsFlattening
  <2> HIDE DEF g
  <2>5. k + 1 \in Nat
    OBVIOUS
  <2>6. QED BY <2>4, <2>5
<1>3. QED
  <2> HIDE DEF S
  <2>1. n \in S
    BY <1>1, <1>2, SetInduction
  <2>2. QED BY <2>1 DEF S

LEMMA FlattenByFlattening ==
    ASSUME NEW seqs, Len(seqs) \in Nat \ {0}
    PROVE  \E f : IsFlattening(f, seqs, Len(seqs)) /\ FlattenSeq(seqs) = f[Len(seqs)]
<1>1. PICK h : h = CHOOSE f : IsFlattening(f, seqs, Len(seqs))
  OBVIOUS
<1>2. IsFlattening(h, seqs, Len(seqs))
  BY <1>1, FlatteningExists
<1>3. FlattenSeq(seqs) = h[Len(seqs)]
  BY <1>1 DEF FlattenSeq, IsFlattening
<1>4. QED BY <1>2, <1>3

\* Two flattenings agree on the sequences that they have in common.
LEMMA FlatteningsAgree ==
    ASSUME NEW m \in Nat, NEW n \in Nat, m <= n, NEW f, NEW g, NEW s, NEW t,
           IsFlattening(f, s, m), IsFlattening(g, t, n),
           \A i \in 1 .. m : s[i] = t[i]
    PROVE  \A i \in 1 .. m : f[i] = g[i]
<1> DEFINE S == {k \in Nat : k + 1 \in 1 .. m => f[k + 1] = g[k + 1]}
<1>1. \A i \in 1 .. m : f[i] = IF i = 1 THEN s[i] ELSE f[i - 1] \o s[i]
  BY DEF IsFlattening
<1>2. \A i \in 1 .. n : g[i] = IF i = 1 THEN t[i] ELSE g[i - 1] \o t[i]
  BY DEF IsFlattening
<1>3. 0 \in S
  BY <1>1, <1>2
<1>4. ASSUME NEW k \in Nat, k \in S PROVE k + 1 \in S
  <2>1. SUFFICES ASSUME k + 2 \in 1 .. m PROVE f[k + 2] = g[k + 2]
    BY (k + 1) + 1 = k + 2
  <2>2. k + 1 \in 1 .. m /\ k + 2 \in 1 .. n /\ k + 2 # 1 /\ (k + 2) - 1 = k + 1
    BY <2>1
  <2>3. f[k + 1] = g[k + 1]
    BY <1>4, <2>2
  <2>4. QED BY <1>1, <1>2, <2>1, <2>2, <2>3
<1>5. \A k \in Nat : k \in S
  <2> HIDE DEF S
  <2>1. QED BY <1>3, <1>4, SetInduction
<1>6. ASSUME NEW i \in 1 .. m PROVE f[i] = g[i]
  <2>1. i - 1 \in Nat /\ (i - 1) + 1 = i
    OBVIOUS
  <2>2. QED BY <1>5, <2>1
<1>7. QED BY <1>6

LEMMA ConcatAppend ==
    ASSUME NEW T, NEW r \in Seq(T), NEW s \in Seq(T), NEW x \in T
    PROVE  r \o Append(s, x) = Append(r \o s, x)
<1>1. <<x>> \in Seq(T) /\ r \o s \in Seq(T)
  BY ConcatProperties
<1>2. Append(s, x) = s \o <<x>> /\ Append(r \o s, x) = (r \o s) \o <<x>>
  BY <1>1, AppendIsConcat
<1>3. (r \o s) \o <<x>> = r \o (s \o <<x>>)
  BY <1>1, ConcatAssociative
<1>4. QED BY <1>2, <1>3

LEMMA FlattenEmpty == FlattenSeq(<<>>) = <<>>
BY EmptySeq DEF FlattenSeq

\* One more sequence comes last.
LEMMA FlattenAppend ==
    ASSUME NEW T, NEW seqs \in Seq(Seq(T)), NEW s \in Seq(T)
    PROVE  FlattenSeq(Append(seqs, s)) = FlattenSeq(seqs) \o s
<1> DEFINE n == Len(seqs)  more == Append(seqs, s)
<1>1. /\ n \in Nat /\ Len(more) = n + 1
      /\ \A i \in 1 .. n : more[i] = seqs[i]
      /\ more[n + 1] = s
  BY AppendProperties, LenProperties
<1>2. PICK g : IsFlattening(g, more, n + 1) /\ FlattenSeq(more) = g[n + 1]
  <2>1. Len(more) \in Nat \ {0}
    BY <1>1
  <2>2. QED BY <1>1, <2>1, FlattenByFlattening
<1>3. g[n + 1] = IF n + 1 = 1 THEN s ELSE g[n] \o s
  <2>1. n + 1 \in 1 .. n + 1 /\ (n + 1) - 1 = n
    BY <1>1
  <2>2. QED BY <1>1, <1>2, <2>1 DEF IsFlattening
<1>4. CASE n = 0
  <2>1. FlattenSeq(seqs) = <<>>
    BY <1>4, FlattenEmpty, EmptySeq
  <2>2. <<>> \o s = s
    BY ConcatEmptySeq
  <2>3. QED BY <1>2, <1>3, <1>4, <2>1, <2>2
<1>5. CASE n # 0
  <2>1. PICK f : IsFlattening(f, seqs, n) /\ FlattenSeq(seqs) = f[n]
    <3>1. n \in Nat \ {0}
      BY <1>1, <1>5
    <3>2. QED BY <3>1, FlattenByFlattening
  <2>2. f[n] = g[n]
    <3>1. n \in 1 .. n /\ n <= n + 1 /\ n \in Nat /\ n + 1 \in Nat
      BY <1>1, <1>5
    <3>2. \A i \in 1 .. n : seqs[i] = more[i]
      BY <1>1
    <3> HIDE DEF n, more
    <3>3. IsFlattening(f, seqs, n) /\ IsFlattening(g, more, n + 1)
      BY <1>2, <2>1
    <3>4. \A i \in 1 .. n : f[i] = g[i]
      BY <3>1, <3>2, <3>3, FlatteningsAgree
    <3>5. QED BY <3>1, <3>4
  <2>3. QED BY <1>1, <1>2, <1>3, <1>5, <2>1, <2>2
<1>6. QED BY <1>4, <1>5

LEMMA FlattenType ==
    ASSUME NEW T, NEW seqs \in Seq(Seq(T))
    PROVE  FlattenSeq(seqs) \in Seq(T)
<1> DEFINE n == Len(seqs)
<1>1. n \in Nat /\ \A i \in 1 .. n : seqs[i] \in Seq(T)
  BY LenProperties, ElementOfSeq
<1>2. CASE n = 0
  <2>1. seqs = <<>> /\ <<>> \in Seq(T)
    BY <1>2, EmptySeq
  <2>2. QED BY <2>1, FlattenEmpty
<1>3. CASE n # 0
  <2>1. PICK f : IsFlattening(f, seqs, n) /\ FlattenSeq(seqs) = f[n]
    <3>1. n \in Nat \ {0}
      BY <1>1, <1>3
    <3>2. QED BY <3>1, FlattenByFlattening
  <2> DEFINE S == {k \in Nat : k + 1 \in 1 .. n => f[k + 1] \in Seq(T)}
  <2> HIDE DEF n
  <2>2. \A i \in 1 .. n : f[i] = IF i = 1 THEN seqs[i] ELSE f[i - 1] \o seqs[i]
    BY <2>1 DEF IsFlattening
  <2>3. 0 \in S
    BY <1>1, <2>2
  <2>4. ASSUME NEW k \in Nat, k \in S PROVE k + 1 \in S
    <3>1. SUFFICES ASSUME k + 2 \in 1 .. n PROVE f[k + 2] \in Seq(T)
      BY (k + 1) + 1 = k + 2
    <3>2. k + 1 \in 1 .. n /\ k + 2 # 1 /\ (k + 2) - 1 = k + 1
      BY <1>1, <3>1
    <3>3. f[k + 1] \in Seq(T) /\ seqs[k + 2] \in Seq(T)
      BY <1>1, <2>4, <3>1, <3>2
    <3>4. f[k + 2] = f[k + 1] \o seqs[k + 2]
      BY <2>2, <3>1, <3>2
    <3>5. QED BY <3>3, <3>4, ConcatProperties
  <2>5. n - 1 \in S
    <3> HIDE DEF S
    <3>1. n - 1 \in Nat
      BY <1>1, <1>3
    <3>2. QED BY <2>3, <2>4, <3>1, SetInduction
  <2>6. n - 1 \in Nat /\ (n - 1) + 1 = n /\ n \in 1 .. n
    BY <1>1, <1>3
  <2>7. QED BY <2>1, <2>5, <2>6
<1>4. QED BY <1>2, <1>3

\* The last sequence gets one more element, as writing to the last file does.
LastGrows(seqs, x, more) ==
    /\ Len(more) = Len(seqs)
    /\ \A i \in 1 .. Len(seqs) :
          more[i] = IF i = Len(seqs) THEN Append(seqs[i], x) ELSE seqs[i]

LEMMA FlattenGrows ==
    ASSUME NEW T, NEW seqs \in Seq(Seq(T)), NEW x \in T, NEW more \in Seq(Seq(T)),
           seqs # <<>>, LastGrows(seqs, x, more)
    PROVE  more # <<>> /\ FlattenSeq(more) = Append(FlattenSeq(seqs), x)
<1> DEFINE n == Len(seqs)
<1>1. PICK front \in Seq(Seq(T)), last \in Seq(T) : seqs = Append(front, last)
  BY SequenceEmptyOrAppend
<1>2. /\ n = Len(front) + 1 /\ Len(front) \in Nat /\ n \in 1 .. n /\ DOMAIN seqs = 1 .. n
      /\ seqs[n] = last /\ \A i \in 1 .. Len(front) : seqs[i] = front[i]
  BY <1>1, AppendProperties, LenProperties
<1>3. Append(last, x) \in Seq(T)
  BY AppendProperties
<1>4. more \in Seq(Seq(T)) /\ Len(more) = n /\ \A i \in 1 .. n : more[i] =
          IF i = n THEN Append(last, x) ELSE seqs[i]
  BY <1>2 DEF LastGrows
<1>5. more = Append(front, Append(last, x))
  <2> DEFINE other == Append(front, Append(last, x))
  <2>1. /\ other \in Seq(Seq(T)) /\ Len(other) = n
        /\ \A i \in 1 .. Len(front) : other[i] = front[i]
        /\ other[n] = Append(last, x)
    BY <1>2, <1>3, AppendProperties
  <2> HIDE DEF other, n
  <2>2. ASSUME NEW i \in 1 .. n PROVE more[i] = other[i]
    <3>1. i = n \/ i \in 1 .. Len(front)
      BY <1>2
    <3>2. QED BY <1>2, <1>4, <2>1, <3>1
  <2>3. more = other
    BY <1>4, <2>1, <2>2, SeqEqual
  <2>4. QED BY <2>3 DEF other
<1>6. /\ FlattenSeq(seqs) = FlattenSeq(front) \o last
      /\ FlattenSeq(more) = FlattenSeq(front) \o Append(last, x)
  BY <1>1, <1>3, <1>5, FlattenAppend
<1>7. FlattenSeq(front) \in Seq(T)
  BY FlattenType
<1>8. FlattenSeq(front) \o Append(last, x) = Append(FlattenSeq(front) \o last, x)
  BY <1>7, ConcatAppend
<1>9. more # <<>>
  BY <1>2, <1>4, EmptySeq
<1>10. QED BY <1>4, <1>6, <1>8, <1>9

-----------------------------------------------------------------------------
(* The first elements of a sequence *)

LEMMA FirstOnes ==
    ASSUME NEW T, NEW s \in Seq(T), NEW n \in 0 .. Len(s)
    PROVE  /\ SubSeq(s, 1, n) \in Seq(T) /\ Len(SubSeq(s, 1, n)) = n
           /\ \A i \in 1 .. n : SubSeq(s, 1, n)[i] = s[i]
<1>1. n \in Int /\ Len(s) \in Nat /\ \A i \in 1 .. n : s[i] \in T
  BY LenProperties, ElementOfSeq
<1>2. /\ SubSeq(s, 1, n) \in Seq(T) /\ Len(SubSeq(s, 1, n)) = IF 1 <= n THEN n - 1 + 1 ELSE 0
      /\ \A i \in 1 .. n - 1 + 1 : SubSeq(s, 1, n)[i] = s[1 + i - 1]
  BY <1>1, SubSeqProperties
<1>3. QED BY <1>1, <1>2

LEMMA NextOne ==
    ASSUME NEW T, NEW s \in Seq(T), NEW n \in 1 .. Len(s)
    PROVE  Append(SubSeq(s, 1, n - 1), s[n]) = SubSeq(s, 1, n)
<1>1. n - 1 \in 0 .. Len(s) /\ n \in 0 .. Len(s) /\ 1 \in 1 .. Len(s) /\ s[n] \in T
  BY LenProperties, ElementOfSeq
<1>2. SubSeq(s, 1, n) = SubSeq(s, 1, n - 1) \o <<s[n]>>
  BY <1>1, SubSeqRecursiveSecond
<1>3. SubSeq(s, 1, n - 1) \in Seq(T)
  BY <1>1, FirstOnes
<1>4. QED BY <1>1, <1>2, <1>3, AppendIsConcat

\* They are the same when the sequence grows.
LEMMA FirstOnesStay ==
    ASSUME NEW T, NEW s \in Seq(T), NEW x \in T, NEW n \in 0 .. Len(s)
    PROVE  SubSeq(Append(s, x), 1, n) = SubSeq(s, 1, n)
<1>1. /\ Append(s, x) \in Seq(T) /\ n \in 0 .. Len(Append(s, x)) /\ Len(s) \in Nat
      /\ \A i \in 1 .. Len(s) : Append(s, x)[i] = s[i]
  BY AppendProperties, LenProperties
<1>2. /\ SubSeq(s, 1, n) \in Seq(T) /\ Len(SubSeq(s, 1, n)) = n
      /\ \A i \in 1 .. n : SubSeq(s, 1, n)[i] = s[i]
  BY FirstOnes
<1>3. /\ SubSeq(Append(s, x), 1, n) \in Seq(T) /\ Len(SubSeq(Append(s, x), 1, n)) = n
      /\ \A i \in 1 .. n : SubSeq(Append(s, x), 1, n)[i] = Append(s, x)[i]
  BY <1>1, FirstOnes
<1>4. \A i \in 1 .. n : SubSeq(Append(s, x), 1, n)[i] = SubSeq(s, 1, n)[i]
  BY <1>1, <1>2, <1>3
<1> DEFINE a == SubSeq(Append(s, x), 1, n)  b == SubSeq(s, 1, n)
<1>5. a \in Seq(T) /\ b \in Seq(T) /\ Len(a) = Len(b) /\ \A i \in 1 .. Len(a) : a[i] = b[i]
  BY <1>2, <1>3, <1>4
<1> HIDE DEF a, b
<1>6. a = b
  BY <1>5, SeqEqual
<1>7. QED BY <1>6 DEF a, b

LEMMA FirstOnesPrefix ==
    ASSUME NEW T, NEW s \in Seq(T), NEW n \in 0 .. Len(s)
    PROVE  IsPrefix(SubSeq(s, 1, n), s)
<1>1. SubSeq(s, 1, n) \in Seq(T) /\ Len(SubSeq(s, 1, n)) = n /\ Len(s) \in Nat
  BY FirstOnes, LenProperties
<1>2. SubSeq(SubSeq(s, 1, n), 1, n) = SubSeq(s, 1, n)
  BY <1>1, SubSeqFull
<1>3. QED BY <1>1, <1>2 DEF IsPrefix

\* What is left of a sequence without its beginning.
LEMMA ConcatParts ==
    ASSUME NEW T, NEW a \in Seq(T), NEW b \in Seq(T)
    PROVE  /\ a \o b \in Seq(T) /\ Len(a \o b) = Len(a) + Len(b)
           /\ Len(a) \in Nat /\ Len(b) \in Nat
           /\ SubSeq(a \o b, 1, Len(a)) = a
           /\ SubSeq(a \o b, Len(a) + 1, Len(a \o b)) = b
<1>1. /\ a \o b \in Seq(T) /\ Len(a \o b) = Len(a) + Len(b) /\ Len(a) \in Nat /\ Len(b) \in Nat
  BY ConcatProperties, LenProperties
<1>2. \A i \in 1 .. Len(a) + Len(b) : (a \o b)[i] = IF i <= Len(a) THEN a[i] ELSE b[i - Len(a)]
  BY ConcatProperties
<1> DEFINE s == a \o b
<1> HIDE DEF s
<1>3. /\ s \in Seq(T) /\ Len(s) = Len(a) + Len(b)
      /\ \A i \in 1 .. Len(a) + Len(b) : s[i] = IF i <= Len(a) THEN a[i] ELSE b[i - Len(a)]
  BY <1>1, <1>2 DEF s
<1>4. SubSeq(s, 1, Len(a)) = a
  <2>1. Len(a) \in 0 .. Len(s)
    BY <1>1, <1>3
  <2>2. /\ SubSeq(s, 1, Len(a)) \in Seq(T) /\ Len(SubSeq(s, 1, Len(a))) = Len(a)
        /\ \A i \in 1 .. Len(a) : SubSeq(s, 1, Len(a))[i] = s[i]
    BY <1>3, <2>1, FirstOnes
  <2>3. \A i \in 1 .. Len(a) : SubSeq(s, 1, Len(a))[i] = a[i]
    BY <1>1, <1>3, <2>2
  <2> DEFINE t == SubSeq(s, 1, Len(a))
  <2>4. t \in Seq(T) /\ Len(t) = Len(a) /\ \A i \in 1 .. Len(a) : t[i] = a[i]
    BY <2>2, <2>3
  <2> HIDE DEF t
  <2>5. t = a
    BY <2>4, SeqEqual
  <2>6. QED BY <2>5 DEF t
<1>5. SubSeq(s, Len(a) + 1, Len(s)) = b
  <2> DEFINE m == Len(a) + 1  n == Len(s)  t == SubSeq(s, m, n)
  <2>1. /\ m \in Int /\ n \in Int /\ \A i \in m .. n : s[i] \in T
    BY <1>1, <1>3, ElementOfSeq
  <2>2. /\ t \in Seq(T) /\ Len(t) = IF m <= n THEN n - m + 1 ELSE 0
        /\ \A i \in 1 .. n - m + 1 : t[i] = s[m + i - 1]
    <3> HIDE DEF m, n
    <3>1. QED BY <2>1, SubSeqProperties
  <2> HIDE DEF t
  <2>3. Len(t) = Len(b) /\ n - m + 1 = Len(b)
    BY <1>1, <1>3, <2>2
  <2>4. ASSUME NEW i \in 1 .. Len(b) PROVE t[i] = b[i]
    <3>1. /\ m + i - 1 \in 1 .. Len(a) + Len(b) /\ ~(m + i - 1 <= Len(a))
          /\ (m + i - 1) - Len(a) = i
      BY <1>1
    <3>2. t[i] = s[m + i - 1]
      BY <2>2, <2>3
    <3> HIDE DEF m, n
    <3>3. QED BY <1>3, <3>1, <3>2
  <2>5. t = b
    BY <2>2, <2>3, <2>4, SeqEqual
  <2>6. QED BY <2>5 DEF t
<1>6. QED BY <1>1, <1>4, <1>5 DEF s

-----------------------------------------------------------------------------
(* What FlattenSeq makes of sequences of several *)

LEMMA FlattenOne ==
    ASSUME NEW T, NEW s \in Seq(T)
    PROVE  FlattenSeq(<<s>>) = s
<1>1. /\ <<>> \in Seq(Seq(T)) /\ Append(<<>>, s) = <<s>>
  OBVIOUS
<1>2. FlattenSeq(<<s>>) = FlattenSeq(<<>>) \o s
  BY <1>1, FlattenAppend
<1>3. QED BY <1>2, FlattenEmpty, ConcatEmptySeq

LEMMA FlattenConcat ==
    ASSUME NEW T, NEW r \in Seq(Seq(T)), NEW s \in Seq(Seq(T))
    PROVE  FlattenSeq(r \o s) = FlattenSeq(r) \o FlattenSeq(s)
<1> DEFINE U == Seq(T)
           first(k) == SubSeq(s, 1, k)
           S == {k \in Nat : k <= Len(s) =>
                     FlattenSeq(r \o first(k)) = FlattenSeq(r) \o FlattenSeq(first(k))}
<1>1. Len(s) \in Nat /\ FlattenSeq(r) \in Seq(T)
  BY LenProperties, FlattenType
<1>2. 0 \in S
  <2>1. first(0) = <<>>
    OBVIOUS
  <2>2. r \o <<>> = r /\ FlattenSeq(r) \o <<>> = FlattenSeq(r)
    BY <1>1, ConcatEmptySeq
  <2>3. QED BY <2>1, <2>2, FlattenEmpty
<1>3. ASSUME NEW k \in Nat, k \in S PROVE k + 1 \in S
  <2>1. SUFFICES ASSUME k + 1 <= Len(s)
        PROVE  FlattenSeq(r \o first(k + 1)) = FlattenSeq(r) \o FlattenSeq(first(k + 1))
    OBVIOUS
  <2>2. k + 1 \in 1 .. Len(s) /\ (k + 1) - 1 = k /\ k \in 0 .. Len(s)
    BY <1>1, <2>1
  <2>3. s[k + 1] \in Seq(T) /\ first(k) \in Seq(Seq(T))
    <3>1. s[k + 1] \in U
      BY <2>2, ElementOfSeq
    <3>2. first(k) \in Seq(U)
      BY <2>2, FirstOnes
    <3>3. QED BY <3>1, <3>2
  <2>4. first(k + 1) = Append(first(k), s[k + 1])
    <3> HIDE DEF U
    <3>1. s \in Seq(U)
      BY DEF U
    <3>2. Append(SubSeq(s, 1, (k + 1) - 1), s[k + 1]) = SubSeq(s, 1, k + 1)
      BY <2>2, <3>1, NextOne
    <3>3. QED BY <2>2, <3>2
  <2> HIDE DEF first
  <2>5. r \o Append(first(k), s[k + 1]) = Append(r \o first(k), s[k + 1])
    BY <2>3, ConcatAppend, SMTT(30)
  <2>6. r \o first(k) \in Seq(Seq(T))
    BY <2>3, ConcatProperties
  <2>7. /\ FlattenSeq(Append(r \o first(k), s[k + 1])) = FlattenSeq(r \o first(k)) \o s[k + 1]
        /\ FlattenSeq(Append(first(k), s[k + 1])) = FlattenSeq(first(k)) \o s[k + 1]
    BY <2>3, <2>6, FlattenAppend
  <2>8. FlattenSeq(r \o first(k)) = FlattenSeq(r) \o FlattenSeq(first(k))
    BY <1>3, <2>2
  <2>9. FlattenSeq(first(k)) \in Seq(T)
    BY <2>3, FlattenType
  <2>10. (FlattenSeq(r) \o FlattenSeq(first(k))) \o s[k + 1]
             = FlattenSeq(r) \o (FlattenSeq(first(k)) \o s[k + 1])
    <3> DEFINE a == FlattenSeq(r)  b == FlattenSeq(first(k))  c == s[k + 1]
    <3>1. a \in Seq(T) /\ b \in Seq(T) /\ c \in Seq(T)
      BY <1>1, <2>3, <2>9
    <3> HIDE DEF a, b, c
    <3>2. (a \o b) \o c = a \o (b \o c)
      BY <3>1, ConcatAssociative, SMTT(30)
    <3>3. QED BY <3>2 DEF a, b, c
  <2>11. QED BY <2>4, <2>5, <2>7, <2>8, <2>10
<1>4. Len(s) \in S
  <2> HIDE DEF S
  <2>1. QED BY <1>1, <1>2, <1>3, SetInduction
<1>5. SubSeq(s, 1, Len(s)) = s
  <2>1. s \in Seq(U)
    OBVIOUS
  <2> HIDE DEF U, S
  <2>2. QED BY <2>1, SubSeqFull
<1>6. FlattenSeq(r \o first(Len(s))) = FlattenSeq(r) \o FlattenSeq(first(Len(s)))
  <2> HIDE DEF first
  <2>1. QED BY <1>1, <1>4
<1>7. first(Len(s)) = s
  BY <1>5
<1> HIDE DEF first
<1>8. QED BY <1>6, <1>7

\* The elements of a sequence, each in a sequence of its own.
LEMMA FlattenSingletons ==
    ASSUME NEW T, NEW s \in Seq(T)
    PROVE  FlattenSeq([i \in DOMAIN s |-> <<s[i]>>]) = s
<1> DEFINE ones(t) == [i \in DOMAIN t |-> <<t[i]>>]
           first(k) == SubSeq(s, 1, k)
           S == {k \in Nat : k <= Len(s) => FlattenSeq(ones(first(k))) = first(k)}
<1>1. Len(s) \in Nat
  BY LenProperties
<1>2. 0 \in S
  <2>1. first(0) = <<>> /\ ones(<<>>) = <<>>
    OBVIOUS
  <2>2. QED BY <2>1, FlattenEmpty
<1>3. ASSUME NEW k \in Nat, k \in S PROVE k + 1 \in S
  <2>1. SUFFICES ASSUME k + 1 <= Len(s) PROVE FlattenSeq(ones(first(k + 1))) = first(k + 1)
    OBVIOUS
  <2>2. k + 1 \in 1 .. Len(s) /\ (k + 1) - 1 = k /\ k \in 0 .. Len(s)
    BY <1>1, <2>1
  <2>3. s[k + 1] \in T /\ first(k) \in Seq(T)
    BY <2>2, ElementOfSeq, FirstOnes
  <2>4. first(k + 1) = Append(first(k), s[k + 1])
    <3>1. Append(SubSeq(s, 1, (k + 1) - 1), s[k + 1]) = SubSeq(s, 1, k + 1)
      BY <2>2, NextOne
    <3>2. QED BY <2>2, <3>1
  <2> HIDE DEF first
  <2>5. /\ ones(first(k)) \in Seq(Seq(T))
        /\ ones(Append(first(k), s[k + 1])) = Append(ones(first(k)), <<s[k + 1]>>)
    <3> DEFINE t == first(k)  x == s[k + 1]
    <3>1. t \in Seq(T) /\ x \in T
      BY <2>3
    <3> HIDE DEF t, x
    <3>2. /\ Append(t, x) \in Seq(T) /\ Len(Append(t, x)) = Len(t) + 1 /\ Len(t) \in Nat
          /\ \A i \in 1 .. Len(t) : Append(t, x)[i] = t[i]
          /\ Append(t, x)[Len(t) + 1] = x
      BY <3>1, AppendProperties, LenProperties
    <3>3. ones(t) \in Seq(Seq(T)) /\ Len(ones(t)) = Len(t) /\ <<x>> \in Seq(T)
      <4>1. \A i \in 1 .. Len(t) : <<t[i]>> \in Seq(T)
        BY <3>1, ElementOfSeq
      <4>2. DOMAIN t = 1 .. Len(t) /\ ones(t) \in [1 .. Len(t) -> Seq(T)]
        BY <3>1, <4>1, LenProperties
      <4>3. QED BY <3>1, <3>2, <4>2
    <3>4. ones(Append(t, x)) \in Seq(Seq(T)) /\ Len(ones(Append(t, x))) = Len(t) + 1
      BY <3>2
    <3>5. ones(Append(t, x)) = Append(ones(t), <<x>>)
      BY <3>1, <3>2, <3>3, <3>4
    <3>6. QED BY <3>3, <3>5 DEF t, x
  <2> HIDE DEF ones
  <2>6. <<s[k + 1]>> \in Seq(T)
    BY <2>3
  <2>7. FlattenSeq(Append(ones(first(k)), <<s[k + 1]>>)) = FlattenSeq(ones(first(k))) \o <<s[k + 1]>>
    BY <2>5, <2>6, FlattenAppend
  <2>8. FlattenSeq(ones(first(k))) = first(k)
    BY <1>3, <2>2
  <2>9. first(k) \o <<s[k + 1]>> = Append(first(k), s[k + 1])
    BY <2>3, AppendIsConcat
  <2>10. QED BY <2>4, <2>5, <2>7, <2>8, <2>9
<1>4. Len(s) \in S
  <2> HIDE DEF S
  <2>1. QED BY <1>1, <1>2, <1>3, SetInduction
<1>5. first(Len(s)) = s
  BY <1>1, SubSeqFull
<1>6. QED BY <1>1, <1>4, <1>5

-----------------------------------------------------------------------------
(* Remainders *)

\* Quotient and remainder.
LEMMA Division ==
    ASSUME NEW R \in Nat \ {0}, NEW a \in Nat
    PROVE  a \div R \in Nat /\ a % R \in 0 .. R - 1 /\ a = R * (a \div R) + (a % R)
OBVIOUS

\* The only multiple of R between -R and R is 0.
LEMMA Multiples ==
    ASSUME NEW R \in Nat \ {0}, NEW k \in Int, NEW d \in Int, d = R * k, d < R, -R < d
    PROVE  k = 0
<1>1. CASE k >= 1
  <2>1. R * k >= R
    BY <1>1
  <2>2. QED BY <2>1
<1>2. CASE k <= -1
  <2>1. R * k <= -R
    BY <1>2
  <2>2. QED BY <2>1
<1>3. QED BY <1>1, <1>2

\* The remainder is the only one.
LEMMA OnlyRemainder ==
    ASSUME NEW R \in Nat \ {0}, NEW a \in Nat, NEW q \in Int, NEW r \in 0 .. R - 1, a = R * q + r
    PROVE  a % R = r
<1> DEFINE e == a \div R f == a % R
<1>1. e \in Nat /\ f \in 0 .. R - 1 /\ a = R * e + f
  BY Division
<1> HIDE DEF e, f
<1>2. f - r = R * (q - e)
  BY <1>1
<1>3. q - e = 0
  <2>1. f - r < R /\ -R < f - r /\ f - r \in Int /\ q - e \in Int
    BY <1>1
  <2>2. QED BY <1>2, <2>1, Multiples
<1>4. R * (q - e) = 0
  BY <1>3
<1>5. f = r
  BY <1>1, <1>2, <1>4
<1>6. QED BY <1>5 DEF f

\* Numbers with the same remainder go on having it.
LEMMA NextRemainder ==
    ASSUME NEW R \in Nat \ {0}, NEW a \in Nat, NEW b \in Nat, a % R = b % R
    PROVE  (a + 1) % R = (b + 1) % R
<1> DEFINE p == a \div R  q == b \div R  r == a % R
<1>1. p \in Nat /\ q \in Nat /\ r \in 0 .. R - 1 /\ a = R * p + r /\ b = R * q + r
  BY Division
<1> HIDE DEF p, q, r
<1>2. CASE r + 1 < R
  <2>1. a + 1 = R * p + (r + 1) /\ b + 1 = R * q + (r + 1) /\ r + 1 \in 0 .. R - 1
    BY <1>1, <1>2
  <2>2. QED BY <1>1, <2>1, OnlyRemainder
<1>3. CASE r + 1 >= R
  <2>1. a + 1 = R * (p + 1) + 0 /\ b + 1 = R * (q + 1) + 0 /\ 0 \in 0 .. R - 1
    BY <1>1, <1>3
  <2>2. p + 1 \in Int /\ q + 1 \in Int
    BY <1>1
  <2>3. QED BY <2>1, <2>2, OnlyRemainder, SMTT(30)
<1>4. QED BY <1>1, <1>2, <1>3

\* Numbers less than R apart have different remainders.
LEMMA OtherRemainder ==
    ASSUME NEW R \in Nat \ {0}, NEW a \in Nat, NEW b \in Nat, a % R = b % R,
           a - b < R, b - a < R
    PROVE  a = b
<1> DEFINE p == a \div R  q == b \div R  r == a % R
<1>1. p \in Nat /\ q \in Nat /\ r \in 0 .. R - 1 /\ a = R * p + r /\ b = R * q + r
  BY Division
<1> HIDE DEF p, q, r
<1>2. a - b = R * (p - q) /\ p - q \in Int /\ a - b \in Int
  BY <1>1
<1>3. p - q = 0
  BY <1>2, Multiples
<1>4. QED BY <1>1, <1>3

\* A counter that wraps around at a multiple of R keeps its remainder.
LEMMA WrappedRemainder ==
    ASSUME NEW R \in Nat \ {0}, NEW M \in Nat \ {0}, M % R = 0, NEW a \in Nat
    PROVE  (a % M) % R = a % R
<1> DEFINE k == M \div R  q == a \div M  r == a % M  p == r \div R  s == r % R
<1>1. k \in Nat /\ M = R * k
  BY Division
<1>2. q \in Nat /\ r \in 0 .. M - 1 /\ a = M * q + r
  BY Division
<1>3. r \in Nat => p \in Nat /\ s \in 0 .. R - 1 /\ r = R * p + s
  BY Division
<1> HIDE DEF k, q, r, p, s
<1>4. r \in Nat
  BY <1>2
<1>5. a = R * (k * q + p) + s /\ k * q + p \in Int
  <2>1. M * q = R * (k * q)
    BY <1>1, <1>2
  <2>2. R * (k * q + p) = R * (k * q) + R * p
    BY <1>1, <1>2, <1>3, <1>4
  <2>3. k * q \in Nat
    BY <1>1, <1>2
  <2>4. QED BY <1>2, <1>3, <1>4, <2>1, <2>2, <2>3
<1>6. a % R = s
  BY <1>3, <1>4, <1>5, OnlyRemainder
<1>7. QED BY <1>6 DEF s, r

\* One turn of the ring later it is the same item.
LEMMA NextTurn ==
    ASSUME NEW R \in Nat \ {0}, NEW a \in Nat
    PROVE  (a + R) % R = a % R
<1> DEFINE p == a \div R  r == a % R
<1>1. p \in Nat /\ r \in 0 .. R - 1 /\ a = R * p + r
  BY Division
<1> HIDE DEF p, r
<1>2. a + R = R * (p + 1) + r /\ p + 1 \in Int /\ a + R \in Nat
  BY <1>1
<1>3. (a + R) % R = r
  BY <1>1, <1>2, OnlyRemainder
<1>4. QED BY <1>3 DEF r

-----------------------------------------------------------------------------
(* Functions that call themselves, for what is left, after what they find *)

\* f answers with what it finds at x, followed by the answer for what comes next.
Unrolls(f, S, head, next, stops, x) ==
    f[x] = head[x] \o (IF x \in stops THEN <<>> ELSE f[next[x]])

\* The next argument is smaller, unless there is none.
Shrinks(S, next, stops, size) ==
    \A x \in S :
        /\ size[x] \in Nat
        /\ x \notin stops => next[x] \in S /\ size[next[x]] < size[x]

UnrollsTo(n, f, S, head, next, stops, size) ==
    \A x \in S : size[x] < n => Unrolls(f, S, head, next, stops, x)

LEMMA UnrolledSoFar ==
    ASSUME NEW S, NEW head, NEW next, NEW stops, NEW size, Shrinks(S, next, stops, size),
           NEW n \in Nat
    PROVE  \E f : \A x \in S : size[x] < n => Unrolls(f, S, head, next, stops, x)
<1> DEFINE Found(k) == \E f : \A x \in S : size[x] < k => Unrolls(f, S, head, next, stops, x)
           P == {k \in Nat : Found(k)}
<1>1. 0 \in P
  <2>1. \A x \in S : ~(size[x] < 0)
    BY DEF Shrinks
  <2>2. QED BY <2>1
<1>2. ASSUME NEW k \in Nat, k \in P PROVE k + 1 \in P
  <2>1. PICK f : \A x \in S : size[x] < k => Unrolls(f, S, head, next, stops, x)
    BY <1>2
  <2> DEFINE g == [x \in S |-> IF size[x] < k THEN f[x]
                               ELSE head[x] \o (IF x \in stops THEN <<>> ELSE f[next[x]])]
  <2>2. ASSUME NEW x \in S, size[x] < k + 1 PROVE Unrolls(g, S, head, next, stops, x)
    <3>1. size[x] \in Nat /\ (x \notin stops => next[x] \in S /\ size[next[x]] < k)
      BY <2>2 DEF Shrinks
    <3>2. x \notin stops => g[next[x]] = f[next[x]]
      BY <3>1
    <3>3. g[x] = head[x] \o (IF x \in stops THEN <<>> ELSE f[next[x]])
      <4>1. CASE size[x] < k
        BY <2>1, <4>1 DEF Unrolls
      <4>2. CASE ~(size[x] < k)
        BY <4>2
      <4>3. QED BY <4>1, <4>2
    <3> HIDE DEF g
    <3>4. QED BY <3>2, <3>3 DEF Unrolls
  <2> HIDE DEF g
  <2>3. QED BY <2>2
<1>3. QED
  <2> HIDE DEF P
  <2>1. n \in P
    BY <1>1, <1>2, SetInduction
  <2>2. QED BY <2>1 DEF P

LEMMA UnrollingsAgree ==
    ASSUME NEW S, NEW head, NEW next, NEW stops, NEW size, Shrinks(S, next, stops, size),
           NEW f, NEW g, NEW n \in Nat,
           UnrollsTo(n, f, S, head, next, stops, size), UnrollsTo(n, g, S, head, next, stops, size)
    PROVE  \A x \in S : size[x] < n => f[x] = g[x]
<1> DEFINE P == {k \in Nat : \A x \in S : size[x] < k /\ size[x] < n => f[x] = g[x]}
<1>1. 0 \in P
  BY DEF Shrinks
<1>2. ASSUME NEW k \in Nat, k \in P PROVE k + 1 \in P
  <2>1. SUFFICES ASSUME NEW x \in S, size[x] < k + 1, size[x] < n PROVE f[x] = g[x]
    OBVIOUS
  <2>2. size[x] \in Nat /\ (x \notin stops => next[x] \in S /\ size[next[x]] \in Nat
                                              /\ size[next[x]] < size[x])
    BY DEF Shrinks
  <2>3. x \notin stops => f[next[x]] = g[next[x]]
    BY <1>2, <2>1, <2>2
  <2>4. Unrolls(f, S, head, next, stops, x) /\ Unrolls(g, S, head, next, stops, x)
    BY <2>1 DEF UnrollsTo
  <2>5. QED BY <2>3, <2>4 DEF Unrolls
<1>3. n \in P
  <2> HIDE DEF P
  <2>1. QED BY <1>1, <1>2, SetInduction
<1>4. QED BY <1>3

IsUnrolled(f, S, head, next, stops) ==
    f = [x \in S |-> head[x] \o (IF x \in stops THEN <<>> ELSE f[next[x]])]

\* There is such a function.
LEMMA UnrollingExists ==
    ASSUME NEW S, NEW head, NEW next, NEW stops, NEW size, Shrinks(S, next, stops, size)
    PROVE  \E f : IsUnrolled(f, S, head, next, stops)
<1> DEFINE Below(h, n) == \A x \in S : size[x] < n => Unrolls(h, S, head, next, stops, x)
           upto(n) == CHOOSE h : Below(h, n)
           f == [x \in S |-> upto(size[x] + 1)[x]]
<1>1. ASSUME NEW n \in Nat PROVE Below(upto(n), n)
  <2>1. \E h : Below(h, n)
    BY UnrolledSoFar
  <2> HIDE DEF Below
  <2>2. QED BY <2>1
<1>2. ASSUME NEW m \in Nat, NEW n \in Nat, m <= n
      PROVE  \A x \in S : size[x] < m => upto(m)[x] = upto(n)[x]
  <2>1. \A x \in S : size[x] \in Nat
    BY DEF Shrinks
  <2> DEFINE g == upto(m)
             h == upto(n)
  <2>2. Below(g, m) /\ Below(h, n)
    BY <1>1
  <2> HIDE DEF g, h
  <2>3. \A x \in S : size[x] < m => size[x] < n
    BY <1>2, <2>1
  <2>4. UnrollsTo(m, g, S, head, next, stops, size) /\ UnrollsTo(m, h, S, head, next, stops, size)
    BY <2>2, <2>3 DEF UnrollsTo
  <2>5. \A x \in S : size[x] < m => g[x] = h[x]
    BY <2>4, UnrollingsAgree
  <2>6. QED BY <2>5 DEF g, h
<1>3. ASSUME NEW x \in S
      PROVE  f[x] = head[x] \o (IF x \in stops THEN <<>> ELSE f[next[x]])
  <2> DEFINE n == size[x] + 1
  <2>1. /\ size[x] \in Nat /\ n \in Nat /\ size[x] < n
        /\ x \notin stops => /\ next[x] \in S /\ size[next[x]] \in Nat
                             /\ size[next[x]] + 1 \in Nat /\ size[next[x]] + 1 <= n
                             /\ size[next[x]] < size[next[x]] + 1
    BY DEF Shrinks
  <2>2. upto(n)[x] = head[x] \o (IF x \in stops THEN <<>> ELSE upto(n)[next[x]])
    BY <1>1, <2>1 DEF Unrolls
  <2> HIDE DEF upto
  <2>3. x \notin stops => f[next[x]] = upto(n)[next[x]]
    BY <1>2, <2>1
  <2>4. QED BY <2>2, <2>3
<1> HIDE DEF f
<1>4. f = [x \in S |-> head[x] \o (IF x \in stops THEN <<>> ELSE f[next[x]])]
  <2>1. f = [x \in S |-> f[x]]
    BY DEF f
  <2>2. QED BY <1>3, <2>1
<1>5. QED BY <1>4 DEF IsUnrolled

\* It answers with sequences if it finds sequences.
LEMMA UnrollingType ==
    ASSUME NEW S, NEW head, NEW next, NEW stops, NEW size, Shrinks(S, next, stops, size), NEW T,
           \A x \in S : head[x] \in Seq(T), NEW f,
           IsUnrolled(f, S, head, next, stops)
    PROVE  \A x \in S : f[x] \in Seq(T)
<1> DEFINE P == {k \in Nat : \A x \in S : size[x] < k => f[x] \in Seq(T)}
<1>1. 0 \in P
  BY DEF Shrinks
<1>2. ASSUME NEW k \in Nat, k \in P PROVE k + 1 \in P
  <2>1. SUFFICES ASSUME NEW x \in S, size[x] < k + 1 PROVE f[x] \in Seq(T)
    OBVIOUS
  <2>2. size[x] \in Nat /\ (x \notin stops => next[x] \in S /\ size[next[x]] \in Nat
                                              /\ size[next[x]] < size[x])
    BY DEF Shrinks
  <2>3. x \notin stops => f[next[x]] \in Seq(T)
    BY <1>2, <2>1, <2>2
  <2>4. f[x] = head[x] \o (IF x \in stops THEN <<>> ELSE f[next[x]])
    BY DEF IsUnrolled
  <2> DEFINE rest == IF x \in stops THEN <<>> ELSE f[next[x]]
  <2>5. rest \in Seq(T)
    BY <2>3
  <2> HIDE DEF rest
  <2>6. head[x] \o rest \in Seq(T)
    BY <2>5, ConcatProperties
  <2>7. QED BY <2>4, <2>6 DEF rest
<1>3. ASSUME NEW x \in S PROVE f[x] \in Seq(T)
  <2> HIDE DEF P
  <2>1. size[x] \in Nat /\ size[x] + 1 \in Nat /\ size[x] < size[x] + 1
    BY DEF Shrinks
  <2>2. size[x] + 1 \in P
    BY <1>1, <1>2, <2>1, SetInduction
  <2>3. QED BY <2>1, <2>2 DEF P
<1>4. QED BY <1>3
=============================================================================
