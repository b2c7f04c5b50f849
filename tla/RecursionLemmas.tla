--------------------------- MODULE RecursionLemmas ---------------------------
(***************************************************************************)
(* Induction and recursion over a set that has a measure in Nat, in a form *)
(* whose every parameter is a set or a function: what is proved by         *)
(* induction is stated as the set of the values it holds of, and the value *)
(* of a recursive function at d is a function of d and of its value at     *)
(* next[d].  Proofs about the recursive functions of the models start here.*)
(***************************************************************************)
EXTENDS Integers, Sequences, SequencesExt, SequenceTheorems, NaturalsInduction, WellFoundedInduction, TLAPS

\* A set of natural numbers that is not empty has a least element.
LEMMA LeastNat ==
  ASSUME NEW T \in SUBSET Nat, T # {}
  PROVE  \E x \in T : \A y \in T : x <= y
<1> DEFINE less == OpToRel(<, Nat)
<1>1. IsWellFoundedOn(less, Nat)
  BY NatLessThanWellFounded, Zenon
<1>2. \A x, y \in Nat : <<y, x>> \in less <=> y < x
  BY DEF OpToRel
<1> HIDE DEF less
<1>3. PICK x \in T : \A y \in T : ~(<<y, x>> \in less)
  BY <1>1, WFMin
<1>4. \A y \in T : ~(y < x) /\ y \in Nat /\ x \in Nat
  BY <1>2, <1>3
<1>5. \A y \in T : x <= y
  BY <1>4
<1> QED
  BY <1>5

\* What holds of d whenever it holds of all that measures less holds of all.
LEMMA MeasureInduction ==
  ASSUME NEW D, NEW rank \in [D -> Nat], NEW S,
         \A d \in D : (\A e \in D : rank[e] < rank[d] => e \in S) => d \in S
  PROVE  D \subseteq S
<1> DEFINE T == {rank[d] : d \in D \ S}
<1> SUFFICES ASSUME NEW c \in D, c \notin S PROVE FALSE
  OBVIOUS
<1>1. T \in SUBSET Nat /\ T # {}
  OBVIOUS
<1>2. PICK x \in T : \A y \in T : x <= y
  <2> HIDE DEF T
  <2> QED
    BY <1>1, LeastNat
<1>3. PICK d \in D \ S : x = rank[d]
  OBVIOUS
<1>4. ASSUME NEW e \in D, rank[e] < rank[d] PROVE e \in S
  <2>1. e \notin S => rank[d] <= rank[e]
    BY <1>2, <1>3
  <2> QED
    BY <1>4, <2>1
<1> QED
  BY <1>3, <1>4

\* f obeys the recursion on the part E of its domain.
Obeys(f, E, stop, base, next, combine) ==
    \A d \in E : f[d] = IF d \in stop THEN base[d] ELSE combine[<<d, f[next[d]]>>]

\* A recursion whose measure decreases defines a function.
LEMMA MeasureRecursion ==
  ASSUME NEW D, NEW V, NEW rank \in [D -> Nat], NEW stop \in SUBSET D,
         NEW base \in [D -> V], NEW next, NEW combine \in [D \X V -> V],
         \A d \in D \ stop : next[d] \in D /\ rank[next[d]] < rank[d]
  PROVE  \E f \in [D -> V] : Obeys(f, D, stop, base, next, combine)
<1> DEFINE Upto(n) == {d \in D : rank[d] < n}
           Good(f, n) == f \in [Upto(n) -> V] /\ Obeys(f, Upto(n), stop, base, next, combine)
           Some == {n \in Nat : \E f : Good(f, n)}
\* Two functions that obey it agree where both are defined.
<1>1. ASSUME NEW m \in Nat, NEW n \in Nat, NEW f, NEW g, Good(f, m), Good(g, n)
      PROVE  \A d \in Upto(m) \cap Upto(n) : f[d] = g[d]
  <2> DEFINE E == Upto(m) \cap Upto(n)
             Same == {d \in E : f[d] = g[d]}
             rankE == [d \in E |-> rank[d]]
  <2>1. rankE \in [E -> Nat]
    OBVIOUS
  <2>2. ASSUME NEW d \in E, \A e \in E : rankE[e] < rankE[d] => e \in Same PROVE d \in Same
    <3>1. CASE d \in stop
      BY <1>1, <3>1 DEF Obeys
    <3>2. CASE d \notin stop
      <4>1. next[d] \in D /\ rank[next[d]] < rank[d]
        BY <3>2
      <4>2. next[d] \in E
        BY <4>1
      <4>3. f[next[d]] = g[next[d]]
        BY <2>2, <4>1, <4>2
      <4> QED
        BY <1>1, <3>2, <4>3 DEF Obeys
    <3> QED
      BY <3>1, <3>2
  <2> HIDE DEF E, Same, rankE
  <2>3. E \subseteq Same
    BY <2>1, <2>2, MeasureInduction
  <2> QED
    BY <2>3 DEF E, Same
<1>2. ASSUME NEW n \in Nat, NEW f, Good(f, n) PROVE \E g : Good(g, n + 1)
  <2> DEFINE g == [d \in Upto(n + 1) |-> IF d \in stop THEN base[d] ELSE combine[<<d, f[next[d]]>>]]
  <2>1. ASSUME NEW d \in Upto(n + 1) PROVE d \in D /\ rank[d] \in Nat /\ (d \notin stop => next[d] \in Upto(n))
    <3>1. CASE d \notin stop
      <4>1. next[d] \in D /\ rank[next[d]] < rank[d] /\ rank[next[d]] \in Nat /\ rank[d] \in Nat /\ rank[d] < n + 1
        BY <3>1
      <4> QED
        BY <4>1
    <3> QED
      BY <3>1
  <2>2. g \in [Upto(n + 1) -> V]
    <3>1. ASSUME NEW d \in Upto(n + 1) PROVE g[d] \in V
      <4>1. CASE d \in stop
        BY <4>1
      <4>2. CASE d \notin stop
        <5>1. f[next[d]] \in V
          BY <1>2, <2>1, <4>2
        <5> QED
          BY <2>1, <4>2, <5>1
      <4> QED
        BY <4>1, <4>2
    <3> QED
      BY <3>1
  <2>3. ASSUME NEW d \in Upto(n) PROVE d \in Upto(n + 1) /\ g[d] = f[d]
    <3>1. d \in Upto(n + 1)
      OBVIOUS
    <3> QED
      BY <1>2, <3>1 DEF Obeys
  <2>4. Obeys(g, Upto(n + 1), stop, base, next, combine)
    <3> SUFFICES ASSUME NEW d \in Upto(n + 1), d \notin stop PROVE g[next[d]] = f[next[d]]
      BY DEF Obeys
    <3> QED
      BY <2>1, <2>3
  <2> HIDE DEF Upto, g
  <2> QED
    BY <2>2, <2>4
<1>3. Good([d \in {} |-> 0], 0)
  <2>1. Upto(0) = {}
    OBVIOUS
  <2> QED
    BY <2>1 DEF Obeys
<1>4. Nat \subseteq Some
  <2> DEFINE id == [n \in Nat |-> n]
  <2>1. ASSUME NEW n \in Nat, \A m \in Nat : id[m] < id[n] => m \in Some PROVE n \in Some
    <3>1. CASE n = 0
      <4> HIDE DEF Good
      <4> QED
        BY <1>3, <3>1
    <3>2. CASE n # 0
      <4>1. n - 1 \in Nat /\ id[n - 1] < id[n] /\ (n - 1) + 1 = n
        BY <3>2
      <4>2. n - 1 \in Some
        BY <2>1, <4>1
      <4> HIDE DEF Good
      <4> QED
        BY <1>2, <4>1, <4>2
    <3> QED
      BY <3>1, <3>2
  <2>2. id \in [Nat -> Nat]
    OBVIOUS
  <2> HIDE DEF id, Some
  <2> QED
    BY <2>1, <2>2, MeasureInduction
<1> DEFINE part == [n \in Nat |-> CHOOSE f : Good(f, n)]
           whole == [d \in D |-> part[rank[d] + 1][d]]
<1>5. ASSUME NEW n \in Nat PROVE Good(part[n], n)
  <2>1. \E f : Good(f, n)
    <3> HIDE DEF Good
    <3> QED
      BY <1>4
  <2> HIDE DEF Good
  <2> QED
    BY <2>1
<1>6. ASSUME NEW d \in D, NEW n \in Nat, rank[d] < n PROVE whole[d] = part[n][d]
  <2>1. rank[d] + 1 \in Nat /\ d \in Upto(rank[d] + 1) \cap Upto(n)
    BY <1>6
  <2>2. Good(part[rank[d] + 1], rank[d] + 1) /\ Good(part[n], n)
    BY <1>5, <2>1
  <2> HIDE DEF Good, part, Upto
  <2>3. part[rank[d] + 1][d] = part[n][d]
    BY <1>1, <2>1, <2>2
  <2> QED
    BY <2>3
<1> HIDE DEF part
<1>7. ASSUME NEW d \in D
      PROVE  whole[d] \in V /\ whole[d] = IF d \in stop THEN base[d] ELSE combine[<<d, whole[next[d]]>>]
  <2> DEFINE n == rank[d] + 1
  <2>1. n \in Nat /\ rank[d] < n /\ d \in Upto(n)
    OBVIOUS
  <2>2. Good(part[n], n)
    BY <1>5, <2>1
  <2>3. whole[d] = part[n][d]
    OBVIOUS
  <2>4. d \notin stop => whole[next[d]] = part[n][next[d]]
    <3> SUFFICES ASSUME d \notin stop PROVE whole[next[d]] = part[n][next[d]]
      OBVIOUS
    <3>1. next[d] \in D /\ rank[next[d]] < n
      OBVIOUS
    <3> HIDE DEF whole, n
    <3> QED
      BY <1>6, <2>1, <3>1
  <2> HIDE DEF whole, n
  <2> QED
    BY <2>1, <2>2, <2>3, <2>4 DEF Obeys
<1>8. whole \in [D -> V]
  BY <1>7
<1> HIDE DEF whole
<1> QED
  BY <1>7, <1>8 DEF Obeys

-----------------------------------------------------------------------------
(* Sequences *)

\* A sequence that is not empty is one shorter sequence and its last element.
LEMMA FrontAndLast ==
  ASSUME NEW A, NEW s \in Seq(A), s # <<>>
  PROVE  Front(s) \in Seq(A) /\ Last(s) \in A /\ Len(Front(s)) < Len(s) /\ s = Append(Front(s), Last(s))
<1>1. Len(s) \in Nat /\ Len(s) > 0
  OBVIOUS
<1>2. Front(s) \in Seq(A) /\ Len(Front(s)) = Len(s) - 1 /\ \A i \in 1..Len(s) - 1 : Front(s)[i] = s[i]
  <2> DEFINE n == Len(s) - 1
  <2>1. n \in Int /\ \A i \in 1..n : s[i] \in A
    BY <1>1
  <2>2. /\ SubSeq(s, 1, n) \in Seq(A)
        /\ Len(SubSeq(s, 1, n)) = IF 1 <= n THEN n - 1 + 1 ELSE 0
        /\ \A i \in 1..n - 1 + 1 : SubSeq(s, 1, n)[i] = s[1 + i - 1]
    BY <2>1, SubSeqProperties
  <2>3. Front(s) = SubSeq(s, 1, n) /\ n >= 0
    BY <1>1 DEF Front
  <2> HIDE DEF n
  <2>4. Len(Front(s)) = n
    BY <2>1, <2>2, <2>3
  <2>5. \A i \in 1..n : Front(s)[i] = s[i]
    BY <2>1, <2>2, <2>3
  <2> QED
    BY <2>2, <2>3, <2>4, <2>5 DEF n
<1>3. Last(s) \in A /\ Last(s) = s[Len(s)]
  BY <1>1 DEF Last
<1> HIDE DEF Front, Last
<1>4. Append(Front(s), Last(s)) \in Seq(A) /\ Len(Append(Front(s), Last(s))) = Len(s)
  BY <1>1, <1>2, <1>3
<1>5. \A i \in 1..Len(s) : Append(Front(s), Last(s))[i] = s[i]
  BY <1>1, <1>2, <1>3
<1>6. s = Append(Front(s), Last(s))
  BY <1>4, <1>5
<1> QED
  BY <1>1, <1>2, <1>3, <1>6

\* Front and Last take an append apart.
LEMMA FrontOfAppend ==
  ASSUME NEW A, NEW s \in Seq(A), NEW x \in A
  PROVE  /\ Append(s, x) \in Seq(A) /\ Append(s, x) # <<>>
         /\ Front(Append(s, x)) = s /\ Last(Append(s, x)) = x
<1>1. Append(s, x) \in Seq(A) /\ Len(Append(s, x)) = Len(s) + 1 /\ Append(s, x)[Len(s) + 1] = x
  OBVIOUS
<1>2. Last(Append(s, x)) = x
  BY <1>1 DEF Last
<1>3. Front(Append(s, x)) = s
  BY <1>1 DEF Front
<1> QED
  BY <1>1, <1>2, <1>3

\* Joining with an append is an append.
LEMMA ConcatWithAppend ==
  ASSUME NEW A, NEW s \in Seq(A), NEW t \in Seq(A), NEW x \in A
  PROVE  s \o Append(t, x) = Append(s \o t, x) /\ s \o t \in Seq(A)
<1>1. <<x>> \in Seq(A)
  OBVIOUS
<1>2. Append(t, x) = t \o <<x>>
  BY AppendIsConcat
<1>3. (s \o t) \o <<x>> = s \o (t \o <<x>>)
  BY <1>1, ConcatAssociative
<1>4. s \o t \in Seq(A)
  OBVIOUS
<1>5. Append(s \o t, x) = (s \o t) \o <<x>>
  BY <1>4, AppendIsConcat
<1> QED
  BY <1>2, <1>3, <1>4, <1>5

\* Induction over the length of a sequence.
LEMMA LengthInduction ==
  ASSUME NEW A, NEW S,
         \A s \in Seq(A) : (\A t \in Seq(A) : Len(t) < Len(s) => t \in S) => s \in S
  PROVE  Seq(A) \subseteq S
<1> DEFINE D == Seq(A)
           rank == [s \in D |-> Len(s)]
<1>1. rank \in [D -> Nat]
  OBVIOUS
<1>2. ASSUME NEW s \in D, \A e \in D : rank[e] < rank[s] => e \in S PROVE s \in S
  <2>1. \A t \in Seq(A) : Len(t) < Len(s) => t \in S
    BY <1>2
  <2> QED
    BY <2>1
<1> HIDE DEF rank, D
<1>3. D \subseteq S
  BY <1>1, <1>2, MeasureInduction
<1> QED
  BY <1>3 DEF D

\* Induction over sequences, one more element at the end at a time.
LEMMA AppendInduction ==
  ASSUME NEW A, NEW S, <<>> \in S, \A s \in Seq(A), x \in A : s \in S => Append(s, x) \in S
  PROVE  Seq(A) \subseteq S
<1> DEFINE D == Seq(A)
           rank == [s \in D |-> Len(s)]
<1>1. rank \in [D -> Nat]
  OBVIOUS
<1>2. ASSUME NEW s \in D, \A e \in D : rank[e] < rank[s] => e \in S PROVE s \in S
  <2>1. CASE s = <<>>
    BY <2>1
  <2>2. CASE s # <<>>
    <3>1. /\ Front(s) \in Seq(A) /\ Last(s) \in A /\ Len(Front(s)) < Len(s)
          /\ s = Append(Front(s), Last(s))
      BY <2>2, FrontAndLast
    <3>2. Front(s) \in S
      BY <1>2, <3>1
    <3> QED
      BY <3>1, <3>2
  <2> QED
    BY <2>1, <2>2
<1> HIDE DEF rank, D
<1>3. D \subseteq S
  BY <1>1, <1>2, MeasureInduction
<1> QED
  BY <1>3 DEF D

\* f adds the elements of a sequence to start, one after the other.
Accumulates(f, A, start, step) ==
    \A s \in Seq(A) : f[s] = IF s = <<>> THEN start ELSE step[<<f[Front(s)], Last(s)>>]

\* Recursion over sequences from the end.
LEMMA AppendRecursion ==
  ASSUME NEW A, NEW V, NEW start \in V, NEW step \in [V \X A -> V]
  PROVE  \E f \in [Seq(A) -> V] : Accumulates(f, A, start, step)
<1> DEFINE rank == [s \in Seq(A) |-> Len(s)]
           base == [s \in Seq(A) |-> start]
           next == [s \in Seq(A) |-> Front(s)]
           combine == [sv \in Seq(A) \X V |-> IF sv[1] = <<>> THEN start ELSE step[<<sv[2], Last(sv[1])>>]]
<1>1. rank \in [Seq(A) -> Nat] /\ base \in [Seq(A) -> V] /\ {<<>>} \in SUBSET Seq(A)
  OBVIOUS
<1>2. combine \in [Seq(A) \X V -> V]
  <2> SUFFICES ASSUME NEW s \in Seq(A), NEW v \in V, s # <<>> PROVE step[<<v, Last(s)>>] \in V
    OBVIOUS
  <2> QED
    BY FrontAndLast
<1>3. \A s \in Seq(A) \ {<<>>} : next[s] \in Seq(A) /\ rank[next[s]] < rank[s]
  BY FrontAndLast
<1>4. PICK f \in [Seq(A) -> V] : Obeys(f, Seq(A), {<<>>}, base, next, combine)
  <2> HIDE DEF rank, base, next, combine
  <2> QED
    BY <1>1, <1>2, <1>3, MeasureRecursion
<1>5. ASSUME NEW s \in Seq(A)
      PROVE  f[s] = IF s = <<>> THEN start ELSE step[<<f[Front(s)], Last(s)>>]
  <2>1. CASE s = <<>>
    BY <1>4, <2>1 DEF Obeys
  <2>2. CASE s # <<>>
    <3>1. f[s] = combine[<<s, f[next[s]]>>]
      <4> HIDE DEF combine, next
      <4> QED
        BY <1>4, <2>2 DEF Obeys
    <3>2. next[s] = Front(s) /\ f[Front(s)] \in V
      BY <2>2, FrontAndLast
    <3> QED
      BY <2>2, <3>1, <3>2
  <2> QED
    BY <2>1, <2>2
<1> QED
  BY <1>5 DEF Accumulates

\* Two sequences and one element between them ...
LEMMA JoinAt ==
  ASSUME NEW A, NEW u \in Seq(A), NEW x \in A, NEW v \in Seq(A)
  PROVE  /\ Append(u, x) \o v \in Seq(A)
         /\ Len(Append(u, x) \o v) = Len(u) + 1 + Len(v)
         /\ \A i \in 1..Len(u) : (Append(u, x) \o v)[i] = u[i]
         /\ (Append(u, x) \o v)[Len(u) + 1] = x
         /\ \A i \in 1..Len(v) : (Append(u, x) \o v)[Len(u) + 1 + i] = v[i]
         /\ SubSeq(Append(u, x) \o v, 1, Len(u)) = u
         /\ SubSeq(Append(u, x) \o v, Len(u) + 2, Len(Append(u, x) \o v)) = v
<1> DEFINE c == Append(u, x) \o v
<1>1. Len(u) \in Nat /\ Len(v) \in Nat
  OBVIOUS
<1>2. Append(u, x) \in Seq(A) /\ Len(Append(u, x)) = Len(u) + 1
  OBVIOUS
<1>3. c \in Seq(A) /\ Len(c) = Len(u) + 1 + Len(v)
  BY <1>2
<1>4. \A i \in 1..Len(u) : c[i] = u[i]
  BY <1>1, <1>2
<1>5. c[Len(u) + 1] = x
  BY <1>1, <1>2
<1>6. \A i \in 1..Len(v) : c[Len(u) + 1 + i] = v[i]
  BY <1>1, <1>2
<1> HIDE DEF c
<1>7. SubSeq(c, 1, Len(u)) = u
  <2>1. \A i \in 1..Len(u) : c[i] \in A
    BY <1>4
  <2>2. /\ SubSeq(c, 1, Len(u)) \in Seq(A)
        /\ Len(SubSeq(c, 1, Len(u))) = IF 1 <= Len(u) THEN Len(u) - 1 + 1 ELSE 0
        /\ \A i \in 1..Len(u) - 1 + 1 : SubSeq(c, 1, Len(u))[i] = c[1 + i - 1]
    BY <1>1, <2>1, SubSeqProperties
  <2>3. Len(SubSeq(c, 1, Len(u))) = Len(u) /\ \A i \in 1..Len(u) : SubSeq(c, 1, Len(u))[i] = u[i]
    BY <1>1, <1>4, <2>2
  <2> QED
    BY <2>2, <2>3
<1>8. SubSeq(c, Len(u) + 2, Len(c)) = v
  <2> DEFINE t == SubSeq(c, Len(u) + 2, Len(c))
  <2>1. ASSUME NEW i \in Len(u) + 2..Len(c) PROVE c[i] \in A
    BY <1>1, <1>3
  <2>2. Len(u) + 2 \in Int /\ Len(c) \in Int
    BY <1>1, <1>3
  <2>3. /\ t \in Seq(A)
        /\ Len(t) = IF Len(u) + 2 <= Len(c) THEN Len(c) - (Len(u) + 2) + 1 ELSE 0
        /\ \A i \in 1..Len(c) - (Len(u) + 2) + 1 : t[i] = c[Len(u) + 2 + i - 1]
    BY <2>1, <2>2, SubSeqProperties
  <2> HIDE DEF t
  <2>4. Len(t) = Len(v)
    BY <1>1, <1>3, <2>3
  <2>5. ASSUME NEW i \in 1..Len(v) PROVE t[i] = v[i]
    <3>1. i \in 1..Len(c) - (Len(u) + 2) + 1 /\ Len(u) + 2 + i - 1 = Len(u) + 1 + i
      BY <1>1, <1>3
    <3> QED
      BY <1>6, <2>3, <3>1
  <2>6. t = v
    BY <2>3, <2>4, <2>5
  <2> QED
    BY <2>6 DEF t
<1> QED
  BY <1>3, <1>4, <1>5, <1>6, <1>7, <1>8 DEF c

\* ... and back: an element cuts a sequence in two.
LEMMA CutAt ==
  ASSUME NEW A, NEW s \in Seq(A), NEW i \in 1..Len(s)
  PROVE  /\ SubSeq(s, 1, i - 1) \in Seq(A) /\ Len(SubSeq(s, 1, i - 1)) = i - 1
         /\ SubSeq(s, i + 1, Len(s)) \in Seq(A) /\ Len(SubSeq(s, i + 1, Len(s))) = Len(s) - i
         /\ s = Append(SubSeq(s, 1, i - 1), s[i]) \o SubSeq(s, i + 1, Len(s))
<1>1. i \in Int /\ 1 <= i /\ i <= Len(s) /\ Len(s) \in Nat /\ \A j \in 1..Len(s) : s[j] \in A
  OBVIOUS
<1> DEFINE u == SubSeq(s, 1, i - 1)
           v == SubSeq(s, i + 1, Len(s))
<1>2. u \in Seq(A) /\ Len(u) = i - 1 /\ \A j \in 1..i - 1 : u[j] = s[j]
  <2>1. i - 1 \in Int /\ \A j \in 1..i - 1 : s[j] \in A
    BY <1>1
  <2>2. /\ u \in Seq(A)
        /\ Len(u) = IF 1 <= i - 1 THEN i - 1 - 1 + 1 ELSE 0
        /\ \A j \in 1..i - 1 - 1 + 1 : u[j] = s[1 + j - 1]
    BY <2>1, SubSeqProperties
  <2> HIDE DEF u
  <2> QED
    BY <1>1, <2>2
<1>3. v \in Seq(A) /\ Len(v) = Len(s) - i /\ \A j \in 1..Len(s) - i : v[j] = s[i + j]
  <2>1. i + 1 \in Int /\ Len(s) \in Int /\ \A j \in i + 1..Len(s) : s[j] \in A
    BY <1>1
  <2>2. /\ v \in Seq(A)
        /\ Len(v) = IF i + 1 <= Len(s) THEN Len(s) - (i + 1) + 1 ELSE 0
        /\ \A j \in 1..Len(s) - (i + 1) + 1 : v[j] = s[i + 1 + j - 1]
    BY <2>1, SubSeqProperties
  <2> HIDE DEF v
  <2>3. Len(v) = Len(s) - i
    BY <1>1, <2>2
  <2>4. ASSUME NEW j \in 1..Len(s) - i PROVE v[j] = s[i + j]
    <3>1. j \in 1..Len(s) - (i + 1) + 1 /\ i + 1 + j - 1 = i + j
      BY <1>1
    <3> QED
      BY <2>2, <3>1
  <2> QED
    BY <2>2, <2>3, <2>4
<1> HIDE DEF u, v
<1>4. s[i] \in A
  BY <1>1
<1>5. /\ Append(u, s[i]) \o v \in Seq(A)
      /\ Len(Append(u, s[i]) \o v) = Len(u) + 1 + Len(v)
      /\ \A j \in 1..Len(u) : (Append(u, s[i]) \o v)[j] = u[j]
      /\ (Append(u, s[i]) \o v)[Len(u) + 1] = s[i]
      /\ \A j \in 1..Len(v) : (Append(u, s[i]) \o v)[Len(u) + 1 + j] = v[j]
  <2>1. \A a, b \in Seq(A), x \in A :
            /\ Append(a, x) \o b \in Seq(A)
            /\ Len(Append(a, x) \o b) = Len(a) + 1 + Len(b)
            /\ \A j \in 1..Len(a) : (Append(a, x) \o b)[j] = a[j]
            /\ (Append(a, x) \o b)[Len(a) + 1] = x
            /\ \A j \in 1..Len(b) : (Append(a, x) \o b)[Len(a) + 1 + j] = b[j]
    BY JoinAt
  <2> QED
    BY <1>2, <1>3, <1>4, <2>1
<1>6. ASSUME NEW j \in 1..Len(s) PROVE (Append(u, s[i]) \o v)[j] = s[j]
  <2>0. j \in Nat /\ 1 <= j /\ j <= Len(s)
    BY <1>1
  <2>1. CASE j < i
    <3>1. j \in 1..Len(u) /\ j \in 1..i - 1
      BY <1>1, <1>2, <2>0, <2>1
    <3> QED
      BY <1>2, <1>5, <3>1
  <2>2. CASE j = i
    <3>1. j = Len(u) + 1
      BY <1>1, <1>2, <2>2
    <3> QED
      BY <1>5, <2>2, <3>1
  <2>3. CASE j > i
    <3>1. j - i \in 1..Len(s) - i /\ j - i \in 1..Len(v) /\ i + (j - i) = j /\ Len(u) + 1 + (j - i) = j
      BY <1>1, <1>2, <1>3, <2>0, <2>3
    <3> QED
      BY <1>3, <1>5, <3>1
  <2>4. j < i \/ j = i \/ j > i
    BY <1>1, <2>0
  <2> QED
    BY <2>1, <2>2, <2>3, <2>4
<1>7. s = Append(u, s[i]) \o v
  <2> DEFINE c == Append(u, s[i]) \o v
  <2>1. Len(c) = Len(s)
    BY <1>1, <1>2, <1>3, <1>5
  <2>2. c \in Seq(A) /\ \A j \in 1..Len(s) : c[j] = s[j]
    BY <1>5, <1>6
  <2> HIDE DEF c
  <2>3. c = s
    BY <2>1, <2>2, SeqEqual
  <2> QED
    BY <2>3 DEF c
<1> QED
  BY <1>2, <1>3, <1>7 DEF u, v

\* A sequence of other elements.
LEMMA SeqOfElements ==
  ASSUME NEW A, NEW B, NEW s \in Seq(A), \A i \in 1..Len(s) : s[i] \in B
  PROVE  s \in Seq(B)
<1>1. Len(s) \in Int /\ 1 \in Int
  OBVIOUS
<1>2. SubSeq(s, 1, Len(s)) \in Seq(B)
  BY <1>1, SubSeqProperties
<1>3. SubSeq(s, 1, Len(s)) = s
  BY SubSeqFull
<1> QED
  BY <1>2, <1>3

\* Where one sequence starts with another.
LEMMA StartsWith ==
  ASSUME NEW A, NEW s \in Seq(A), NEW c \in Seq(A), \A i \in 1..Len(s) : c[i] = s[i]
  PROVE  SubSeq(c, 1, Len(s)) = s
<1>1. Len(s) \in Nat /\ \A i \in 1..Len(s) : c[i] \in A
  OBVIOUS
<1> DEFINE t == SubSeq(c, 1, Len(s))
<1>2. /\ t \in Seq(A)
      /\ Len(t) = IF 1 <= Len(s) THEN Len(s) - 1 + 1 ELSE 0
      /\ \A i \in 1..Len(s) - 1 + 1 : t[i] = c[1 + i - 1]
  BY <1>1, SubSeqProperties
<1> HIDE DEF t
<1>3. Len(t) = Len(s)
  BY <1>1, <1>2
<1>4. ASSUME NEW i \in 1..Len(s) PROVE t[i] = s[i]
  <2>1. i \in 1..Len(s) - 1 + 1 /\ 1 + i - 1 = i
    BY <1>1
  <2> QED
    BY <1>2, <2>1
<1>5. t = s
  BY <1>2, <1>3, <1>4, SeqEqual
<1> QED
  BY <1>5 DEF t

\* The least of some numbers ...
LEMMA MinOfSome ==
  ASSUME NEW S \in SUBSET Nat, S # {}
  PROVE  Min(S) \in S /\ \A x \in S : Min(S) <= x
<1>1. \E x \in S : \A y \in S : x <= y
  BY LeastNat
<1> QED
  BY <1>1 DEF Min

\* ... and the greatest of some up to n.
LEMMA MaxOfSome ==
  ASSUME NEW n \in Nat, NEW S \in SUBSET 1..n, S # {}
  PROVE  Max(S) \in S /\ \A x \in S : x <= Max(S)
<1> DEFINE T == {n - x : x \in S}
<1>1. T \in SUBSET Nat /\ T # {}
  <2>1. ASSUME NEW x \in S PROVE n - x \in Nat
    <3>1. x \in 1..n
      OBVIOUS
    <3> QED
      BY <3>1
  <2> QED
    BY <2>1
<1>2. PICK t \in T : \A u \in T : t <= u
  <2> HIDE DEF T
  <2> QED
    BY <1>1, LeastNat
<1>3. PICK x \in S : t = n - x
  OBVIOUS
<1>4. ASSUME NEW y \in S PROVE x >= y
  <2>1. n - y \in T
    OBVIOUS
  <2>2. n - x <= n - y
    BY <1>2, <1>3, <2>1
  <2>3. x \in 1..n /\ y \in 1..n
    OBVIOUS
  <2> QED
    BY <2>2, <2>3
<1>5. Max(S) \in S /\ \A y \in S : Max(S) >= y
  BY <1>4 DEF Max
<1> QED
  BY <1>5
==============================================================================
