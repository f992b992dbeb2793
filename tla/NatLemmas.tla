------------------------------ MODULE NatLemmas -----------------------------
(***************************************************************************)
(* Facts that the proofs of the components share.  About natural numbers:  *)
(* induction, in the form of a set that is closed under the successor, and *)
(* the existence of recursive functions, in the form of a step function.   *)
(* About sequences: what FlattenSeq concatenates and where its parts are,  *)
(* and what a reader that takes a sequence piece by piece has and lacks.   *)
(***************************************************************************)
EXTENDS NaturalsInduction, WellFoundedInduction, SequenceTheorems, TLAPS

(* A nonempty set of natural numbers has a smallest element. *)
LEMMA SmallestOf ==
  ASSUME NEW S \in SUBSET Nat, S # {}
  PROVE  \E m \in S : \A k \in S : m <= k
<1> DEFINE R == OpToRel(<, Nat)
<1>1. \A x, y \in Nat : x < y => <<x, y>> \in R
  BY DEF OpToRel
<1>2. IsWellFoundedOn(R, Nat)
  BY NatLessThanWellFounded
<1> HIDE DEF R
<1>3. PICK m \in S : \A k \in S : ~(<<k, m>> \in R)
  BY <1>2, WFMin
<1>4. \A k \in S : ~(k < m)
  BY <1>1, <1>3
<1> QED
  BY <1>4

(* Induction from 0 up to n. *)
LEMMA UpTo ==
  ASSUME NEW n \in Nat, NEW S, 0 \in S, \A k \in 0..n : k \in S /\ k < n => k + 1 \in S
  PROVE  0..n \subseteq S
<1> DEFINE T == (0..n) \ S
<1> SUFFICES ASSUME T # {} PROVE FALSE
  OBVIOUS
<1>1. T \in SUBSET Nat
  OBVIOUS
<1>2. PICK m \in T : \A k \in T : m <= k
  BY <1>1, SmallestOf
<1>3. m \in 1..n /\ m - 1 \in 0..n
  BY <1>2
<1>4. m - 1 \in S
  BY <1>2, <1>3
<1>5. (m - 1) + 1 \in S
  BY <1>3, <1>4
<1> QED
  BY <1>2, <1>3, <1>5

(* A finite recursion: v at 0, and at every i the value of step for i and  *)
(* the value before.                                                       *)
IsRecursion(f, v, n, step) == f[0] = v /\ \A i \in 1..n : f[i] = step[<<i, f[i - 1]>>]

(* What it defines exists. *)
LEMMA RecursionExists ==
  ASSUME NEW V, NEW v \in V, NEW n \in Nat, NEW step \in [(1..n) \X V -> V]
  PROVE  \E f \in [0..n -> V] : IsRecursion(f, v, n, step)
<1> DEFINE Good(m, f) == f[0] = v /\ \A i \in 1..m : f[i] = step[<<i, f[i - 1]>>]
           S == {m \in 0..n : \E f \in [0..m -> V] : Good(m, f)}
<1>1. 0 \in S
  <2> DEFINE g == [i \in 0..0 |-> v]
  <2>1. g \in [0..0 -> V] /\ g[0] = v
    OBVIOUS
  <2>2. Good(0, g)
    BY <2>1
  <2> HIDE DEF g, Good
  <2> QED
    BY <2>1, <2>2
<1>2. ASSUME NEW k \in 0..n, k \in S, k < n PROVE k + 1 \in S
  <2>1. PICK f \in [0..k -> V] : Good(k, f)
    BY <1>2
  <2> DEFINE g == [i \in 0..(k + 1) |-> IF i = k + 1 THEN step[<<k + 1, f[k]>>] ELSE f[i]]
  <2>2. k + 1 \in 1..n /\ f[k] \in V
    BY <1>2
  <2>3. step[<<k + 1, f[k]>>] \in V
    BY <2>2
  <2>4. g \in [0..(k + 1) -> V]
    BY <2>3
  <2>5. g[0] = v /\ \A i \in 0..k : g[i] = f[i]
    BY <2>1
  <2>6. g[k + 1] = step[<<k + 1, g[k]>>]
    <3>1. k + 1 \in 0..(k + 1) /\ k \in 0..k
      OBVIOUS
    <3>2. g[k + 1] = step[<<k + 1, f[k]>>]
      BY <3>1
    <3> HIDE DEF g
    <3> QED
      BY <2>5, <3>1, <3>2
  <2> HIDE DEF g
  <2>7. Good(k + 1, g)
    <3>1. ASSUME NEW i \in 1..(k + 1) PROVE g[i] = step[<<i, g[i - 1]>>]
      <4>1. CASE i = k + 1
        BY <2>6, <4>1
      <4>2. CASE i # k + 1
        <5>1. i \in 1..k /\ i - 1 \in 0..k /\ i \in 0..k
          BY <4>2
        <5> QED
          BY <2>1, <2>5, <5>1
      <4> QED
        BY <4>1, <4>2
    <3> QED
      BY <2>5, <3>1
  <2> QED
    BY <2>2, <2>4, <2>7
<1>3. 0..n \subseteq S
  <2> HIDE DEF S
  <2> QED
    BY <1>1, <1>2, UpTo
<1>4. n \in S
  BY <1>3
<1> QED
  BY <1>4 DEF IsRecursion

-----------------------------------------------------------------------------
(* The concatenation of a sequence of sequences: FlattenSeq of the library *)
(* is the last of the values of this function.                             *)
Flattened(s) == CHOOSE f : f = [i \in 1..Len(s) |-> IF i = 1 THEN s[i] ELSE f[i - 1] \o s[i]]

Flat(s) == IF Len(s) = 0 THEN s ELSE Flattened(s)[Len(s)]

(* The concatenation of the first i of them. *)
FlatUpTo(s, i) == IF i = 0 THEN <<>> ELSE Flattened(s)[i]

LEMMA FlattenedExists ==
  ASSUME NEW X, NEW s \in Seq(Seq(X))
  PROVE  Flattened(s) = [i \in 1..Len(s) |-> IF i = 1 THEN s[i] ELSE Flattened(s)[i - 1] \o s[i]]
<1> DEFINE n == Len(s)
           V == Seq(X)
           nothing == <<>>
           step == [x \in (1..n) \X V |-> x[2] \o s[x[1]]]
           Is(f) == f = [i \in 1..n |-> IF i = 1 THEN s[i] ELSE f[i - 1] \o s[i]]
<1>1. n \in Nat /\ \A i \in 1..n : s[i] \in V
  BY LenProperties, ElementOfSeq
<1>2. step \in [(1..n) \X V -> V]
  <2>1. ASSUME NEW x \in (1..n) \X V PROVE x[2] \o s[x[1]] \in V
    BY <1>1, ConcatProperties
  <2> QED
    BY <2>1
<1>3. PICK g \in [0..n -> V] : g[0] = nothing /\ \A i \in 1..n : g[i] = step[<<i, g[i - 1]>>]
  <2>1. nothing \in V
    OBVIOUS
  <2>2. n \in Nat
    BY <1>1
  <2> HIDE DEF step, V, n, nothing
  <2>3. \E f \in [0..n -> V] : IsRecursion(f, nothing, n, step)
    BY <1>2, <2>1, <2>2, RecursionExists
  <2> QED
    BY <2>3 DEF IsRecursion
<1>4. ASSUME NEW i \in 1..n PROVE g[i] = g[i - 1] \o s[i]
  <2>1. i - 1 \in 0..n
    BY <1>1
  <2>2. <<i, g[i - 1]>> \in (1..n) \X V
    BY <2>1
  <2>3. step[<<i, g[i - 1]>>] = g[i - 1] \o s[i]
    BY <2>2
  <2> QED
    BY <1>3, <2>3
<1> DEFINE f == [i \in 1..n |-> g[i]]
<1>5. Is(f)
  <2> DEFINE h == [i \in 1..n |-> IF i = 1 THEN s[i] ELSE f[i - 1] \o s[i]]
  <2>1. ASSUME NEW i \in 1..n PROVE f[i] = h[i]
    <3>1. CASE i = 1
      <4>1. 1 \in 1..n /\ 1 - 1 = 0 /\ s[1] \in V
        BY <1>1, <3>1
      <4>2. g[1] = g[1 - 1] \o s[1]
        BY <1>4, <4>1, Zenon
      <4>3. g[1] = nothing \o s[1]
        BY <1>3, <4>1, <4>2, Zenon
      <4>4. nothing \o s[1] = s[1]
        BY <4>1, ConcatEmptySeq, Zenon
      <4>5. h[1] = s[1] /\ f[1] = g[1]
        BY <4>1
      <4> HIDE DEF h, f, nothing
      <4> QED
        BY <3>1, <4>3, <4>4, <4>5, Zenon
    <3>2. CASE i # 1
      <4>1. i - 1 \in 1..n /\ f[i - 1] = g[i - 1]
        BY <1>1, <3>2
      <4>2. h[i] = f[i - 1] \o s[i]
        BY <3>2
      <4>3. f[i] = g[i]
        OBVIOUS
      <4> HIDE DEF f, h
      <4> QED
        BY <1>4, <4>1, <4>2, <4>3
    <3> QED
      BY <3>1, <3>2
  <2> HIDE DEF h
  <2>2. h = [i \in 1..n |-> h[i]]
    BY DEF h
  <2>3. f = [i \in 1..n |-> f[i]]
    OBVIOUS
  <2> HIDE DEF f
  <2>4. f = h
    BY <2>1, <2>2, <2>3
  <2> QED
    BY <2>4 DEF h
<1> HIDE DEF f
<1>6. Is(CHOOSE x : Is(x))
  <2> HIDE DEF Is
  <2> QED
    BY <1>5
<1> QED
  BY <1>6 DEF Flattened

(* What the prefixes are. *)
LEMMA FlatUpToIs ==
  ASSUME NEW X, NEW s \in Seq(Seq(X))
  PROVE  /\ Len(s) \in Nat /\ Flat(s) = FlatUpTo(s, Len(s))
         /\ FlatUpTo(s, 0) = <<>>
         /\ \A i \in 1..Len(s) : FlatUpTo(s, i) = FlatUpTo(s, i - 1) \o s[i] /\ s[i] \in Seq(X)
         /\ \A i \in 0..Len(s) : FlatUpTo(s, i) \in Seq(X) /\ Len(FlatUpTo(s, i)) \in Nat
<1> DEFINE n == Len(s)
           F == Flattened(s)
<1>1. n \in Nat /\ \A i \in 1..n : s[i] \in Seq(X)
  BY LenProperties, ElementOfSeq
<1>2. FlatUpTo(s, 0) = <<>>
  BY DEF FlatUpTo
<1>3. ASSUME NEW i \in 1..n PROVE F[i] = IF i = 1 THEN s[i] ELSE F[i - 1] \o s[i]
  <2>1. F = [j \in 1..n |-> IF j = 1 THEN s[j] ELSE F[j - 1] \o s[j]]
    BY FlattenedExists, Zenon
  <2> HIDE DEF F, n
  <2> QED
    BY <2>1
<1> HIDE DEF F
<1>4. ASSUME NEW i \in 1..n PROVE FlatUpTo(s, i) = FlatUpTo(s, i - 1) \o s[i]
  <2>1. CASE i = 1
    <3>1. F[1] = s[1] /\ s[1] \in Seq(X) /\ <<>> \o s[1] = s[1]
      BY <1>1, <1>3, <2>1, ConcatEmptySeq
    <3> QED
      BY <1>2, <2>1, <3>1 DEF FlatUpTo, F
  <2>2. CASE i # 1
    <3>1. F[i] = F[i - 1] \o s[i]
      BY <1>3, <2>2, Zenon
    <3>2. i # 0 /\ i - 1 # 0
      BY <1>1, <2>2
    <3> QED
      BY <3>1, <3>2, Zenon DEF FlatUpTo, F
  <2> QED
    BY <2>1, <2>2
<1>5. \A i \in 0..n : FlatUpTo(s, i) \in Seq(X)
  <2> DEFINE S == {i \in 0..n : FlatUpTo(s, i) \in Seq(X)}
  <2>1. 0 \in S
    <3>1. 0 \in 0..n
      BY <1>1
    <3>2. <<>> \in Seq(X)
      BY EmptySeq
    <3> QED
      BY <1>2, <3>1, <3>2, Zenon
  <2>2. ASSUME NEW k \in 0..n, k \in S, k < n PROVE k + 1 \in S
    <3>1. k + 1 \in 1..n /\ (k + 1) - 1 = k /\ k + 1 \in 0..n
      BY <1>1, <2>2
    <3>2. FlatUpTo(s, k + 1) = FlatUpTo(s, (k + 1) - 1) \o s[k + 1]
      BY <1>4, <3>1, Zenon
    <3>3. FlatUpTo(s, k) \in Seq(X)
      BY <2>2, Zenon
    <3>4. FlatUpTo(s, k) \o s[k + 1] \in Seq(X)
      BY <1>1, <3>1, <3>3, ConcatProperties, Zenon
    <3> QED
      BY <3>1, <3>2, <3>4, Zenon
  <2>3. 0..n \subseteq S
    <3> HIDE DEF S
    <3> QED
      BY <1>1, <2>1, <2>2, UpTo
  <2> QED
    BY <2>3
<1>6. Flat(s) = FlatUpTo(s, n)
  <2>1. CASE n = 0
    <3>1. s = <<>>
      BY <2>1, EmptySeq
    <3> QED
      BY <1>2, <2>1, <3>1 DEF Flat
  <2>2. CASE n # 0
    BY <2>2 DEF Flat, FlatUpTo
  <2> QED
    BY <2>1, <2>2
<1> QED
  BY <1>1, <1>2, <1>4, <1>5, <1>6, LenProperties

(* The prefixes of two sequences agree as long as the sequences do. *)
LEMMA FlatAgrees ==
  ASSUME NEW X, NEW s \in Seq(Seq(X)), NEW t \in Seq(Seq(X)), NEW m \in Nat,
         m <= Len(s), m <= Len(t), \A i \in 1..m : s[i] = t[i]
  PROVE  \A i \in 0..m : FlatUpTo(s, i) = FlatUpTo(t, i)
<1> DEFINE S == {i \in 0..m : FlatUpTo(s, i) = FlatUpTo(t, i)}
<1>1. Len(s) \in Nat /\ Len(t) \in Nat
  BY LenProperties
<1>2. 0 \in S
  BY DEF FlatUpTo
<1>3. ASSUME NEW k \in 0..m, k \in S, k < m PROVE k + 1 \in S
  <2>1. k + 1 \in 1..m /\ k + 1 \in 1..Len(s) /\ k + 1 \in 1..Len(t) /\ (k + 1) - 1 = k
    BY <1>1, <1>3
  <2>2. FlatUpTo(s, k + 1) = FlatUpTo(s, (k + 1) - 1) \o s[k + 1]
    BY <2>1, FlatUpToIs, Zenon
  <2>3. FlatUpTo(t, k + 1) = FlatUpTo(t, (k + 1) - 1) \o t[k + 1]
    BY <2>1, FlatUpToIs, Zenon
  <2>4. FlatUpTo(s, k) = FlatUpTo(t, k) /\ s[k + 1] = t[k + 1]
    BY <1>3, <2>1, Zenon
  <2>5. k + 1 \in 0..m
    BY <2>1
  <2> QED
    BY <2>1, <2>2, <2>3, <2>4, <2>5, Zenon
<1>4. 0..m \subseteq S
  <2> HIDE DEF S
  <2> QED
    BY <1>2, <1>3, UpTo
<1> QED
  BY <1>4

(* A prefix is continued by those that follow. *)
LEMMA FlatContinues ==
  ASSUME NEW X, NEW s \in Seq(Seq(X)), NEW i \in 0..Len(s), NEW j \in 0..Len(s), i <= j
  PROVE  /\ Len(FlatUpTo(s, i)) <= Len(FlatUpTo(s, j))
         /\ \A k \in 1..Len(FlatUpTo(s, i)) : FlatUpTo(s, j)[k] = FlatUpTo(s, i)[k]
<1> DEFINE n == Len(s)
           OK(m) == /\ Len(FlatUpTo(s, i)) <= Len(FlatUpTo(s, m))
                    /\ \A k \in 1..Len(FlatUpTo(s, i)) : FlatUpTo(s, m)[k] = FlatUpTo(s, i)[k]
           S == {d \in 0..(n - i) : OK(i + d)}
<1>1. n \in Nat /\ i \in Nat /\ j \in Nat /\ n - i \in Nat
  BY LenProperties
<1>2. 0 \in S
  <2>1. OK(i)
    BY <1>1, FlatUpToIs
  <2>2. i + 0 = i
    BY <1>1
  <2> HIDE DEF OK
  <2> QED
    BY <1>1, <2>1, <2>2
<1>3. ASSUME NEW d \in 0..(n - i), d \in S, d < n - i PROVE d + 1 \in S
  <2> DEFINE m == i + d
             P == FlatUpTo(s, i)
             Q == FlatUpTo(s, m)
             R == FlatUpTo(s, m + 1)
  <2>1. m \in 0..n /\ m + 1 \in 1..n /\ (m + 1) - 1 = m /\ m + 1 = i + (d + 1) /\ m + 1 \in 0..n
    BY <1>1, <1>3
  <2>2. /\ R = Q \o s[m + 1] /\ s[m + 1] \in Seq(X) /\ Q \in Seq(X) /\ P \in Seq(X)
        /\ Len(P) \in Nat /\ Len(Q) \in Nat
    BY <1>1, <2>1, FlatUpToIs, Zenon
  <2>3. OK(m)
    BY <1>3
  <2> HIDE DEF m
  <2>4. Len(P) <= Len(Q) /\ \A k \in 1..Len(P) : Q[k] = P[k]
    BY <2>3
  <2> HIDE DEF P, Q, R
  <2>5. /\ Len(R) = Len(Q) + Len(s[m + 1]) /\ Len(s[m + 1]) \in Nat
        /\ \A k \in 1..Len(R) : k <= Len(Q) => R[k] = Q[k]
    BY <2>2, ConcatProperties, LenProperties
  <2>6. Len(P) <= Len(R) /\ \A k \in 1..Len(P) : R[k] = P[k]
    BY <2>2, <2>4, <2>5
  <2>7. OK(m + 1)
    BY <2>6 DEF P, R
  <2> HIDE DEF OK
  <2> QED
    BY <1>1, <1>3, <2>1, <2>7
<1>4. 0..(n - i) \subseteq S
  <2> HIDE DEF S
  <2> QED
    BY <1>1, <1>2, <1>3, UpTo
<1>5. j - i \in 0..(n - i) /\ i + (j - i) = j
  BY <1>1
<1>6. OK(j)
  <2> HIDE DEF OK
  <2> QED
    BY <1>4, <1>5
<1> QED
  BY <1>6

(* Where the k-th element of the i-th sequence is in the concatenation. *)
LEMMA FlatAt ==
  ASSUME NEW X, NEW s \in Seq(Seq(X)), NEW i \in 1..Len(s)
  PROVE  /\ Len(FlatUpTo(s, i)) = Len(FlatUpTo(s, i - 1)) + Len(s[i])
         /\ Len(FlatUpTo(s, i)) <= Len(Flat(s))
         /\ \A k \in 1..Len(s[i]) : Flat(s)[Len(FlatUpTo(s, i - 1)) + k] = s[i][k]
<1> DEFINE n == Len(s)
           P == FlatUpTo(s, i - 1)
           Q == FlatUpTo(s, i)
<1>1. n \in Nat /\ i \in 0..n /\ i - 1 \in 0..n /\ n \in 0..n /\ i <= n
  BY LenProperties
<1>2. /\ Q = P \o s[i] /\ s[i] \in Seq(X) /\ P \in Seq(X) /\ Len(P) \in Nat /\ Flat(s) = FlatUpTo(s, n)
  BY <1>1, FlatUpToIs
<1>3. /\ Len(Q) <= Len(Flat(s))
      /\ \A k \in 1..Len(Q) : Flat(s)[k] = Q[k]
  BY <1>1, <1>2, FlatContinues
<1> HIDE DEF P, Q
<1>4. /\ Len(Q) = Len(P) + Len(s[i]) /\ Len(s[i]) \in Nat
      /\ \A k \in 1..Len(Q) : k > Len(P) => Q[k] = s[i][k - Len(P)]
  BY <1>2, ConcatProperties, LenProperties
<1>5. ASSUME NEW k \in 1..Len(s[i]) PROVE Flat(s)[Len(P) + k] = s[i][k]
  <2>1. Len(P) + k \in 1..Len(Q) /\ Len(P) + k > Len(P) /\ (Len(P) + k) - Len(P) = k
    BY <1>2, <1>4
  <2> QED
    BY <1>3, <1>4, <2>1
<1> QED
  BY <1>3, <1>4, <1>5 DEF P, Q

-----------------------------------------------------------------------------
(* The first k elements of a sequence, and those that follow. *)
Take(s, k) == SubSeq(s, 1, k)

Drop(s, k) == SubSeq(s, k + 1, Len(s))

LEMMA TakeIs ==
  ASSUME NEW X, NEW s \in Seq(X), NEW k \in 0..Len(s)
  PROVE  Take(s, k) \in Seq(X) /\ Len(Take(s, k)) = k /\ \A i \in 1..k : Take(s, k)[i] = s[i]
<1>1. Len(s) \in Nat /\ \A i \in 1..Len(s) : s[i] \in X
  BY LenProperties, ElementOfSeq
<1>2. 1 \in Int /\ k \in Int /\ \A i \in 1..k : s[i] \in X
  BY <1>1
<1> DEFINE t == SubSeq(s, 1, k)
<1>3. /\ t \in Seq(X) /\ Len(t) = IF 1 <= k THEN k - 1 + 1 ELSE 0
      /\ \A i \in 1..(k - 1 + 1) : t[i] = s[1 + i - 1]
  BY <1>2, SubSeqProperties
<1> HIDE DEF t
<1>4. k - 1 + 1 = k /\ (IF 1 <= k THEN k - 1 + 1 ELSE 0) = k /\ \A i \in 1..k : 1 + i - 1 = i
  BY <1>1
<1>5. t \in Seq(X) /\ Len(t) = k /\ \A i \in 1..k : t[i] = s[i]
  BY <1>3, <1>4
<1> QED
  BY <1>5 DEF t, Take

LEMMA DropIs ==
  ASSUME NEW X, NEW s \in Seq(X), NEW k \in 0..Len(s)
  PROVE  /\ Drop(s, k) \in Seq(X) /\ Len(Drop(s, k)) = Len(s) - k
         /\ \A i \in 1..(Len(s) - k) : Drop(s, k)[i] = s[k + i]
<1>1. Len(s) \in Nat /\ \A i \in 1..Len(s) : s[i] \in X
  BY LenProperties, ElementOfSeq
<1> DEFINE a == k + 1
           b == Len(s)
<1>2. a \in Int /\ b \in Int /\ \A i \in a..b : s[i] \in X
  BY <1>1
<1>3. b - a + 1 = Len(s) - k /\ (IF a <= b THEN b - a + 1 ELSE 0) = Len(s) - k
      /\ \A i \in 1..(Len(s) - k) : a + i - 1 = k + i
  BY <1>1
<1> DEFINE t == SubSeq(s, a, b)
<1>4. t = Drop(s, k)
  BY DEF Drop
<1> HIDE DEF a, b
<1>5. /\ t \in Seq(X) /\ Len(t) = IF a <= b THEN b - a + 1 ELSE 0
      /\ \A i \in 1..(b - a + 1) : t[i] = s[a + i - 1]
  BY <1>2, SubSeqProperties
<1> HIDE DEF t
<1> QED
  BY <1>3, <1>4, <1>5, Zenon

LEMMA TakeDropEnds ==
  ASSUME NEW X, NEW s \in Seq(X)
  PROVE  /\ Take(s, 0) = <<>> /\ Take(s, Len(s)) = s /\ Drop(s, 0) = s /\ Drop(s, Len(s)) = <<>>
<1>1. Len(s) \in Nat /\ 0 \in 0..Len(s) /\ Len(s) \in 0..Len(s)
  BY LenProperties
<1>2. Take(s, 0) = <<>>
  BY <1>1, TakeIs, EmptySeq
<1>3. Take(s, Len(s)) = s
  <2>1. /\ Take(s, Len(s)) \in Seq(X) /\ Len(Take(s, Len(s))) = Len(s)
        /\ \A i \in 1..Len(s) : Take(s, Len(s))[i] = s[i]
    BY <1>1, TakeIs, Zenon
  <2> QED
    BY <2>1, SeqEqual, Zenon
<1>4. Drop(s, 0) = s
  <2>1. /\ Drop(s, 0) \in Seq(X) /\ Len(Drop(s, 0)) = Len(s) - 0
        /\ \A i \in 1..(Len(s) - 0) : Drop(s, 0)[i] = s[0 + i]
    BY <1>1, DropIs, Zenon
  <2>2. Len(s) - 0 = Len(s) /\ \A i \in 1..Len(s) : 0 + i = i
    BY <1>1
  <2>3. Len(Drop(s, 0)) = Len(s) /\ \A i \in 1..Len(s) : Drop(s, 0)[i] = s[i]
    BY <2>1, <2>2, Zenon
  <2> QED
    BY <2>1, <2>3, SeqEqual, Zenon
<1>5. Drop(s, Len(s)) = <<>>
  <2>1. Drop(s, Len(s)) \in Seq(X) /\ Len(Drop(s, Len(s))) = Len(s) - Len(s)
    BY <1>1, DropIs, Zenon
  <2>2. Len(s) - Len(s) = 0
    BY <1>1
  <2> QED
    BY <2>1, <2>2, EmptySeq, Zenon
<1> QED
  BY <1>2, <1>3, <1>4, <1>5

(* Taking and dropping from the first of two sequences. *)
LEMMA TakeOfConcat ==
  ASSUME NEW X, NEW a \in Seq(X), NEW b \in Seq(X), NEW m \in 0..Len(a)
  PROVE  Take(a \o b, m) = Take(a, m) /\ Drop(a \o b, m) = Drop(a, m) \o b
<1> DEFINE c == a \o b
<1>1. /\ c \in Seq(X) /\ Len(c) = Len(a) + Len(b) /\ Len(a) \in Nat /\ Len(b) \in Nat
      /\ \A i \in 1..(Len(a) + Len(b)) : c[i] = IF i <= Len(a) THEN a[i] ELSE b[i - Len(a)]
  BY ConcatProperties, LenProperties
<1> HIDE DEF c
<1>2. m \in 0..Len(c) /\ m \in Nat
  BY <1>1
<1>3. Take(c, m) = Take(a, m)
  <2>1. Take(c, m) \in Seq(X) /\ Len(Take(c, m)) = m /\ \A i \in 1..m : Take(c, m)[i] = c[i]
    BY <1>1, <1>2, TakeIs, Zenon
  <2>2. Take(a, m) \in Seq(X) /\ Len(Take(a, m)) = m /\ \A i \in 1..m : Take(a, m)[i] = a[i]
    BY TakeIs, Zenon
  <2>3. \A i \in 1..m : c[i] = a[i]
    BY <1>1, <1>2
  <2>4. \A i \in 1..Len(Take(c, m)) : Take(c, m)[i] = Take(a, m)[i]
    BY <2>1, <2>2, <2>3, Zenon
  <2> QED
    BY <2>1, <2>2, <2>4, SeqEqual, Zenon
<1>4. Drop(c, m) = Drop(a, m) \o b
  <2> DEFINE d == Drop(a, m)
             l == Drop(c, m)
             r == d \o b
  <2>1. l \in Seq(X) /\ Len(l) = Len(c) - m /\ \A i \in 1..(Len(c) - m) : l[i] = c[m + i]
    BY <1>1, <1>2, DropIs, Zenon
  <2>2. d \in Seq(X) /\ Len(d) = Len(a) - m /\ \A i \in 1..(Len(a) - m) : d[i] = a[m + i]
    BY DropIs, Zenon
  <2>3. /\ r \in Seq(X) /\ Len(r) = Len(d) + Len(b)
        /\ \A i \in 1..(Len(d) + Len(b)) : r[i] = IF i <= Len(d) THEN d[i] ELSE b[i - Len(d)]
    BY <2>2, ConcatProperties, Zenon
  <2> HIDE DEF d, l, r
  <2>4. Len(l) = Len(r)
    BY <1>1, <1>2, <2>1, <2>2, <2>3
  <2>5. ASSUME NEW i \in 1..Len(l) PROVE l[i] = r[i]
    <3>1. i \in 1..(Len(c) - m) /\ m + i \in 1..(Len(a) + Len(b)) /\ i \in 1..(Len(d) + Len(b))
      BY <1>1, <1>2, <2>1, <2>2
    <3>2. CASE i <= Len(d)
      <4>1. i \in 1..(Len(a) - m) /\ m + i <= Len(a)
        BY <1>1, <1>2, <2>2, <3>1, <3>2
      <4> QED
        BY <1>1, <2>1, <2>2, <2>3, <3>1, <3>2, <4>1, Zenon
    <3>3. CASE ~(i <= Len(d))
      <4>1. ~(m + i <= Len(a)) /\ (m + i) - Len(a) = i - Len(d)
        BY <1>1, <1>2, <2>2, <3>1, <3>3
      <4> QED
        BY <1>1, <2>1, <2>3, <3>1, <3>3, <4>1, Zenon
    <3> QED
      BY <3>2, <3>3
  <2>6. l = r
    BY <2>1, <2>3, <2>4, <2>5, SeqEqual, Zenon
  <2> QED
    BY <2>6 DEF l, r, d
<1> QED
  BY <1>3, <1>4 DEF c

(* The two parts of a sequence. *)
LEMMA TakeThenDrop ==
  ASSUME NEW X, NEW s \in Seq(X), NEW m \in 0..Len(s)
  PROVE  s = Take(s, m) \o Drop(s, m)
<1> DEFINE p == Take(s, m)
           q == Drop(s, m)
           r == p \o q
<1>1. Len(s) \in Nat /\ m \in Nat
  BY LenProperties
<1>2. p \in Seq(X) /\ Len(p) = m /\ \A i \in 1..m : p[i] = s[i]
  BY TakeIs, Zenon
<1>3. q \in Seq(X) /\ Len(q) = Len(s) - m /\ \A i \in 1..(Len(s) - m) : q[i] = s[m + i]
  BY DropIs, Zenon
<1>4. /\ r \in Seq(X) /\ Len(r) = Len(p) + Len(q)
      /\ \A i \in 1..(Len(p) + Len(q)) : r[i] = IF i <= Len(p) THEN p[i] ELSE q[i - Len(p)]
  BY <1>2, <1>3, ConcatProperties, Zenon
<1> HIDE DEF p, q, r
<1>5. Len(r) = Len(s)
  BY <1>1, <1>2, <1>3, <1>4
<1>6. ASSUME NEW i \in 1..Len(s) PROVE s[i] = r[i]
  <2>1. i \in 1..(Len(p) + Len(q))
    BY <1>1, <1>2, <1>3
  <2>2. CASE i <= m
    <3>1. i \in 1..m
      BY <1>1, <2>2
    <3> QED
      BY <1>2, <1>4, <2>1, <2>2, <3>1, Zenon
  <2>3. CASE ~(i <= m)
    <3>1. i - m \in 1..(Len(s) - m) /\ m + (i - m) = i
      BY <1>1, <2>3
    <3> QED
      BY <1>2, <1>3, <1>4, <2>1, <2>3, <3>1, Zenon
  <2> QED
    BY <2>2, <2>3
<1>7. s = r
  BY <1>4, <1>5, <1>6, SeqEqual, Zenon
<1> QED
  BY <1>7 DEF r, p, q

(* Taking and dropping in two steps. *)
LEMMA TakeMore ==
  ASSUME NEW X, NEW f \in Seq(X), NEW g \in 0..Len(f), NEW m \in 0..(Len(f) - g)
  PROVE  /\ Take(f, g) \o Take(Drop(f, g), m) = Take(f, g + m)
         /\ Drop(Drop(f, g), m) = Drop(f, g + m)
<1> DEFINE d == Drop(f, g)
           n == Len(f)
<1>1. n \in Nat /\ g \in Nat /\ m \in Nat /\ g + m \in 0..n
  BY LenProperties
<1>2. d \in Seq(X) /\ Len(d) = n - g /\ \A i \in 1..(n - g) : d[i] = f[g + i]
  BY DropIs, Zenon
<1>3. Take(f, g) \in Seq(X) /\ Len(Take(f, g)) = g /\ \A i \in 1..g : Take(f, g)[i] = f[i]
  BY TakeIs, Zenon
<1>4. /\ Take(f, g + m) \in Seq(X) /\ Len(Take(f, g + m)) = g + m
      /\ \A i \in 1..(g + m) : Take(f, g + m)[i] = f[i]
  BY <1>1, TakeIs, Zenon
<1>5. /\ Drop(f, g + m) \in Seq(X) /\ Len(Drop(f, g + m)) = n - (g + m)
      /\ \A i \in 1..(n - (g + m)) : Drop(f, g + m)[i] = f[g + m + i]
  BY <1>1, DropIs, Zenon
<1> HIDE DEF d, n
<1>6. m \in 0..Len(d)
  BY <1>1, <1>2 DEF n
<1>7. Take(d, m) \in Seq(X) /\ Len(Take(d, m)) = m /\ \A i \in 1..m : Take(d, m)[i] = d[i]
  BY <1>2, <1>6, TakeIs, Zenon
<1>8. Drop(d, m) \in Seq(X) /\ Len(Drop(d, m)) = Len(d) - m /\ \A i \in 1..(Len(d) - m) : Drop(d, m)[i] = d[m + i]
  BY <1>2, <1>6, DropIs, Zenon
<1>9. Take(f, g) \o Take(d, m) = Take(f, g + m)
  <2> DEFINE p == Take(f, g)
             q == Take(d, m)
             t == Take(f, g + m)
             r == p \o q
  <2>1. /\ r \in Seq(X) /\ Len(r) = Len(p) + Len(q)
        /\ \A i \in 1..(Len(p) + Len(q)) : r[i] = IF i <= Len(p) THEN p[i] ELSE q[i - Len(p)]
    BY <1>3, <1>7, ConcatProperties, Zenon
  <2> HIDE DEF p, q, t, r
  <2>2. Len(p) = g /\ Len(q) = m /\ Len(t) = g + m /\ t \in Seq(X)
    BY <1>3, <1>4, <1>7, Zenon DEF p, q, t
  <2>3. ASSUME NEW i \in 1..Len(r) PROVE r[i] = t[i]
    <3>1. i \in 1..(g + m) /\ i \in 1..(Len(p) + Len(q))
      BY <2>1, <2>2, Zenon
    <3>2. t[i] = f[i]
      BY <1>4, <3>1, Zenon DEF t
    <3>3. CASE i <= g
      <4>1. i \in 1..g
        BY <1>1, <3>1, <3>3
      <4>2. p[i] = f[i]
        BY <1>3, <4>1, Zenon DEF p
      <4> QED
        BY <2>1, <2>2, <3>1, <3>2, <3>3, <4>2, Zenon
    <3>4. CASE ~(i <= g)
      <4>1. i - g \in 1..m /\ i - g \in 1..(n - g) /\ g + (i - g) = i
        BY <1>1, <3>1, <3>4 DEF n
      <4>2. q[i - g] = f[i]
        BY <1>2, <1>7, <4>1, Zenon DEF q
      <4> QED
        BY <2>1, <2>2, <3>1, <3>2, <3>4, <4>2, Zenon
    <3> QED
      BY <3>3, <3>4
  <2>4. Len(r) = Len(t)
    BY <2>1, <2>2, Zenon
  <2>5. r = t
    BY <2>1, <2>2, <2>3, <2>4, SeqEqual, Zenon
  <2> QED
    BY <2>5 DEF r, p, q, t
<1>10. Drop(d, m) = Drop(f, g + m)
  <2>1. Len(d) - m = n - (g + m)
    BY <1>1, <1>2
  <2>2. ASSUME NEW i \in 1..(n - (g + m)) PROVE Drop(d, m)[i] = Drop(f, g + m)[i]
    <3>1. m + i \in 1..(n - g) /\ g + (m + i) = g + m + i
      BY <1>1
    <3> QED
      BY <1>2, <1>5, <1>8, <2>1, <3>1, Zenon
  <2>3. Len(Drop(d, m)) = Len(Drop(f, g + m)) /\ Len(Drop(d, m)) = n - (g + m)
    BY <1>5, <1>8, <2>1, Zenon
  <2> QED
    BY <1>5, <1>8, <2>2, <2>3, SeqEqual, Zenon
<1> QED
  BY <1>9, <1>10 DEF d

(* What is taken from the stream a \o b belongs to f, of which g elements  *)
(* were taken before, and the rest of the stream goes on behind it.        *)
MovedOn(f, t, a, b, g, m) ==
  /\ Take(f, g) \o Take(a, m) = Take(f, g + m)
  /\ Drop(a, m) \o b = Drop(f, g + m) \o t

LEMMA MoveOn ==
  ASSUME NEW X, NEW f \in Seq(X), NEW t \in Seq(X), NEW a \in Seq(X), NEW b \in Seq(X),
         NEW g \in 0..Len(f), NEW m \in 0..(Len(f) - g), m <= Len(a),
         a \o b = Drop(f, g) \o t
  PROVE  MovedOn(f, t, a, b, g, m)
<1> DEFINE d == Drop(f, g)
<1>1. Len(a) \in Nat /\ Len(f) \in Nat /\ d \in Seq(X) /\ Len(d) = Len(f) - g
  BY LenProperties, DropIs
<1>2. m \in 0..Len(a) /\ m \in 0..Len(d)
  BY <1>1
<1>3. Take(a \o b, m) = Take(a, m) /\ Drop(a \o b, m) = Drop(a, m) \o b
  BY <1>2, TakeOfConcat, Zenon
<1>4. Take(d \o t, m) = Take(d, m) /\ Drop(d \o t, m) = Drop(d, m) \o t
  BY <1>1, <1>2, TakeOfConcat, Zenon
<1>5. Take(f, g) \o Take(d, m) = Take(f, g + m) /\ Drop(d, m) = Drop(f, g + m)
  BY TakeMore, Zenon
<1> QED
  BY <1>3, <1>4, <1>5, Zenon DEF MovedOn

-----------------------------------------------------------------------------
(* What follows the first i of the concatenated sequences. *)
Behind(s, i) == Drop(Flat(s), Len(FlatUpTo(s, i)))

LEMMA BehindIs ==
  ASSUME NEW X, NEW s \in Seq(Seq(X))
  PROVE  /\ Behind(s, 0) = Flat(s) /\ Behind(s, Len(s)) = <<>>
         /\ \A i \in 1..Len(s) : Behind(s, i - 1) = s[i] \o Behind(s, i)
         /\ \A i \in 0..Len(s) : Behind(s, i) \in Seq(X)
<1> DEFINE F == Flat(s)
<1>1. /\ Len(s) \in Nat /\ F = FlatUpTo(s, Len(s)) /\ FlatUpTo(s, 0) = <<>>
      /\ \A i \in 1..Len(s) : FlatUpTo(s, i) = FlatUpTo(s, i - 1) \o s[i] /\ s[i] \in Seq(X)
      /\ \A i \in 0..Len(s) : FlatUpTo(s, i) \in Seq(X) /\ Len(FlatUpTo(s, i)) \in Nat
  BY FlatUpToIs, Zenon
<1>2. Len(s) \in 0..Len(s) /\ 0 \in 0..Len(s)
  BY <1>1
<1>3. F \in Seq(X) /\ Len(F) \in Nat
  BY <1>1, <1>2, Zenon
<1> HIDE DEF F
<1>4. \A i \in 0..Len(s) : Len(FlatUpTo(s, i)) \in 0..Len(F)
  <2> SUFFICES ASSUME NEW i \in 0..Len(s) PROVE Len(FlatUpTo(s, i)) \in 0..Len(F)
    OBVIOUS
  <2>1. i <= Len(s)
    BY <1>1
  <2>2. Len(FlatUpTo(s, i)) <= Len(FlatUpTo(s, Len(s)))
    BY <1>2, <2>1, FlatContinues, Zenon
  <2>3. Len(FlatUpTo(s, i)) <= Len(F) /\ Len(FlatUpTo(s, i)) \in Nat
    BY <1>1, <2>2, Zenon
  <2> QED
    BY <1>3, <2>3
<1>5. \A i \in 0..Len(s) : Behind(s, i) \in Seq(X)
  BY <1>3, <1>4, DropIs, Zenon DEF Behind, F
<1>6. Behind(s, 0) = F
  <2>1. Len(FlatUpTo(s, 0)) = 0
    BY <1>1
  <2> QED
    BY <1>3, <2>1, TakeDropEnds, Zenon DEF Behind, F
<1>7. Behind(s, Len(s)) = <<>>
  BY <1>1, <1>3, TakeDropEnds, Zenon DEF Behind, F
<1>8. ASSUME NEW i \in 1..Len(s) PROVE Behind(s, i - 1) = s[i] \o Behind(s, i)
  <2> DEFINE g == Len(FlatUpTo(s, i - 1))
             m == Len(s[i])
             d == Drop(F, g)
  <2>1. i - 1 \in 0..Len(s) /\ i \in 0..Len(s)
    BY <1>1
  <2>2. /\ Len(FlatUpTo(s, i)) = g + m /\ Len(FlatUpTo(s, i)) <= Len(F)
        /\ \A k \in 1..m : F[g + k] = s[i][k]
    BY FlatAt, Zenon DEF F
  <2>3. g \in 0..Len(F) /\ s[i] \in Seq(X) /\ m \in Nat
    BY <1>1, <1>4, <2>1, LenProperties, Zenon
  <2> HIDE DEF g, m, d
  <2>4. m \in 0..(Len(F) - g) /\ g \in Nat
    BY <1>3, <2>2, <2>3
  <2>5. d \in Seq(X) /\ Len(d) = Len(F) - g /\ \A k \in 1..(Len(F) - g) : d[k] = F[g + k]
    BY <1>3, <2>3, DropIs, Zenon DEF d
  <2>6. m \in 0..Len(d) /\ \A k \in 1..m : k \in 1..(Len(F) - g)
    BY <1>3, <2>4, <2>5
  <2>7. Take(d, m) = s[i]
    <3>1. Take(d, m) \in Seq(X) /\ Len(Take(d, m)) = m /\ \A k \in 1..m : Take(d, m)[k] = d[k]
      BY <2>5, <2>6, TakeIs, Zenon
    <3>2. \A k \in 1..m : Take(d, m)[k] = s[i][k]
      BY <2>2, <2>5, <2>6, <3>1, Zenon
    <3>3. Len(s[i]) = m
      BY DEF m
    <3> QED
      BY <2>3, <3>1, <3>2, <3>3, SeqEqual, Zenon
  <2>8. Drop(d, m) = Drop(F, g + m)
    BY <1>3, <2>3, <2>4, TakeMore, Zenon DEF d
  <2>9. d = Take(d, m) \o Drop(d, m)
    BY <2>5, <2>6, TakeThenDrop, Zenon
  <2> QED
    BY <2>2, <2>7, <2>8, <2>9, Zenon DEF Behind, F, d, g
<1> QED
  BY <1>5, <1>6, <1>7, <1>8, Zenon DEF F

(* One sequence more at the end. *)
LEMMA BehindAppend ==
  ASSUME NEW X, NEW s \in Seq(Seq(X)), NEW t \in Seq(Seq(X)), Len(t) = Len(s) + 1,
         \A i \in 1..Len(s) : t[i] = s[i], NEW i \in 0..Len(s)
  PROVE  Behind(t, i) = Behind(s, i) \o t[Len(t)]
<1> DEFINE n == Len(s)
           x == t[Len(t)]
<1>1. n \in Nat /\ Len(t) \in Nat /\ n <= Len(s) /\ n <= Len(t) /\ Len(t) \in 1..Len(t) /\ Len(t) - 1 = n
  BY LenProperties
<1>2. \A j \in 0..n : FlatUpTo(s, j) = FlatUpTo(t, j)
  BY <1>1, FlatAgrees, Zenon
<1>3. /\ Flat(s) = FlatUpTo(s, n) /\ \A j \in 0..n : FlatUpTo(s, j) \in Seq(X) /\ Len(FlatUpTo(s, j)) \in Nat
  BY FlatUpToIs, Zenon
<1>4. Flat(t) = FlatUpTo(t, Len(t)) /\ FlatUpTo(t, Len(t)) = FlatUpTo(t, Len(t) - 1) \o x /\ x \in Seq(X)
  BY <1>1, FlatUpToIs, Zenon
<1>5. n \in 0..n
  BY <1>1
<1>6. Flat(t) = Flat(s) \o x /\ Flat(s) \in Seq(X)
  BY <1>1, <1>2, <1>3, <1>4, <1>5, Zenon
<1> DEFINE g == Len(FlatUpTo(s, i))
<1>7. g \in 0..Len(Flat(s))
  <2>1. i <= n /\ Len(Flat(s)) \in Nat
    BY <1>1, <1>6, LenProperties
  <2>2. Len(FlatUpTo(s, i)) <= Len(FlatUpTo(s, n))
    BY <1>5, <2>1, FlatContinues, Zenon
  <2>3. g <= Len(Flat(s)) /\ g \in Nat
    BY <1>3, <2>2, Zenon
  <2> HIDE DEF g
  <2> QED
    BY <2>1, <2>3
<1>8. Drop(Flat(s) \o x, g) = Drop(Flat(s), g) \o x
  BY <1>4, <1>6, <1>7, TakeOfConcat, Zenon
<1> QED
  BY <1>2, <1>6, <1>8, Zenon DEF Behind
=============================================================================
