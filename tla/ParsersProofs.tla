---------------------------- MODULE ParsersProofs ----------------------------
(***************************************************************************)
(* Proofs about Parsers, for every file, every size of the arrays and      *)
(* whatever follows a number in its buffer.                                *)
(***************************************************************************)
EXTENDS Parsers, NaturalsInduction, WellFoundedInduction, SequenceTheorems, TLAPS

\* The reader is at the start of a line, or at the end of the file.
Aligned(p) == p = 1 \/ p > Len(file) \/ Char(p - 1) = "\n"

Positions == 1 .. Len(file) + 1

-----------------------------------------------------------------------------
(* Sets of numbers.                                                        *)

\* A set of natural numbers that is not empty has a least member.
LEMMA LeastMember ==
  ASSUME NEW P \in SUBSET Nat, P # {}
  PROVE  Min(P) \in P /\ \A j \in P : Min(P) <= j
<1>1. PICK i \in P : \A j \in P : ~ (<<j, i>> \in OpToRel(<, Nat))
  BY NatLessThanWellFounded, WFMin
<1>2. ASSUME NEW j \in P
      PROVE  i <= j
  <2>1. <<j, i>> \in Nat \X Nat /\ ~ (<<j, i>> \in {p \in Nat \X Nat : p[1] < p[2]})
    BY <1>1 DEF OpToRel
  <2>2. ~ (j < i)
    BY <2>1
  <2> QED
    BY <2>2
<1> QED
  BY <1>2 DEF Min

\* A set of natural numbers below a bound that is not empty has a greatest member.
LEMMA GreatestMember ==
  ASSUME NEW N \in Nat, NEW P \in SUBSET (0 .. N), P # {}
  PROVE  Max(P) \in P
<1> DEFINE Q == {N - i : i \in P}
<1>1. Q \in SUBSET Nat /\ Q # {}
  <2>1. \A i \in P : N - i \in Nat
    OBVIOUS
  <2>2. Q \in SUBSET Nat
    BY <2>1
  <2>3. Q # {}
    BY Zenon
  <2> QED
    BY <2>2, <2>3
<1>2. Min(Q) \in Q /\ \A j \in Q : Min(Q) <= j
  <2> HIDE DEF Q
  <2> QED
    BY <1>1, LeastMember
<1>3. PICK i \in P : Min(Q) = N - i
  BY <1>2
<1>4. \A j \in P : N - i <= N - j
  BY <1>2, <1>3
<1>5. \A j \in P : i >= j
  BY <1>4
<1> QED
  BY <1>5 DEF Max

-----------------------------------------------------------------------------
(* Sequences of sequences, one behind the other.                           *)

\* Induction over a set of natural numbers.
LEMMA SetInduction ==
  ASSUME NEW P \in SUBSET Nat, 0 \in P, \A n \in P : n + 1 \in P
  PROVE  \A n \in Nat : n \in P
<1> DEFINE Q == Nat \ P
<1> SUFFICES ASSUME Q # {}
             PROVE  FALSE
  OBVIOUS
<1> DEFINE n == Min(Q)
<1>1. n \in Q /\ \A j \in Q : n <= j
  <2>1. Q \in SUBSET Nat
    OBVIOUS
  <2> HIDE DEF Q
  <2> QED
    BY <2>1, LeastMember
<1> HIDE DEF n
<1>2. n \in Nat /\ n # 0
  BY <1>1
<1>3. n - 1 \in Nat /\ ~ (n <= n - 1)
  BY <1>2
<1>4. n - 1 \in P
  BY <1>1, <1>3
<1>5. (n - 1) + 1 = n
  BY <1>2
<1> QED
  BY <1>1, <1>4, <1>5

\* The recursive function of FlattenSeq exists, so that its equations can be used.
LEMMA FlattenEquations ==
  ASSUME NEW seqs, Len(seqs) \in Nat \ {0}
  PROVE  \E f : /\ FlattenSeq(seqs) = f[Len(seqs)]
               /\ f[1] = seqs[1]
               /\ \A i \in 2 .. Len(seqs) : f[i] = f[i - 1] \o seqs[i]
<1> DEFINE Solves(f, n) == f = [i \in 1 .. n |-> IF i = 1 THEN seqs[i] ELSE f[i - 1] \o seqs[i]]
           P == {n \in Nat : \E f : Solves(f, n + 1)}
<1>1. 0 \in P
  <2> DEFINE f == [i \in 1 .. 0 + 1 |-> seqs[1]]
  <2>1. Solves(f, 0 + 1)
    OBVIOUS
  <2> QED
    BY <2>1
<1>2. ASSUME NEW n \in P
      PROVE  n + 1 \in P
  <2>1. PICK g : Solves(g, n + 1)
    OBVIOUS
  <2> DEFINE f == [i \in 1 .. (n + 1) + 1 |-> IF i = n + 2 THEN g[n + 1] \o seqs[n + 2] ELSE g[i]]
  <2>2. n \in Nat
    OBVIOUS
  <2>3. \A i \in 1 .. n + 1 : g[i] = IF i = 1 THEN seqs[i] ELSE g[i - 1] \o seqs[i]
    BY <2>1, Zenon
  <2>4. ASSUME NEW i \in 1 .. (n + 1) + 1
        PROVE  f[i] = IF i = 1 THEN seqs[i] ELSE f[i - 1] \o seqs[i]
    <3>1. CASE i = n + 2
      <4>1. i # 1 /\ i - 1 = n + 1 /\ i - 1 \in 1 .. (n + 1) + 1 /\ i - 1 # n + 2
        BY <2>2, <3>1
      <4>2. f[i] = g[n + 1] \o seqs[n + 2] /\ f[i - 1] = g[n + 1]
        BY <3>1, <4>1
      <4> QED
        BY <3>1, <4>1, <4>2
    <3>2. CASE i # n + 2
      <4>1. i \in 1 .. n + 1 /\ f[i] = g[i]
        BY <2>2, <3>2
      <4>2. i # 1 => i - 1 \in 1 .. (n + 1) + 1 /\ i - 1 # n + 2
        BY <2>2, <3>2
      <4>3. i # 1 => f[i - 1] = g[i - 1]
        BY <4>2
      <4> QED
        BY <2>3, <4>1, <4>3
    <3> QED
      BY <3>1, <3>2
  <2>5. Solves(f, (n + 1) + 1)
    <3>1. f = [i \in 1 .. (n + 1) + 1 |-> f[i]]
      OBVIOUS
    <3> HIDE DEF f
    <3> QED
      BY <2>4, <3>1
  <2> HIDE DEF f, Solves
  <2>6. n + 1 \in Nat /\ \E h : Solves(h, (n + 1) + 1)
    BY <2>2, <2>5
  <2> QED
    BY <2>6
<1>3. Len(seqs) - 1 \in P
  <2> HIDE DEF Solves
  <2>1. P \in SUBSET Nat
    OBVIOUS
  <2>2. Len(seqs) - 1 \in Nat
    OBVIOUS
  <2> HIDE DEF P
  <2> QED
    BY <1>1, <1>2, <2>1, <2>2, SetInduction
<1>4. \E f : Solves(f, Len(seqs))
  <2>1. (Len(seqs) - 1) + 1 = Len(seqs)
    OBVIOUS
  <2> QED
    BY <1>3, <2>1
<1> DEFINE F == CHOOSE f : Solves(f, Len(seqs))
<1>5. FlattenSeq(seqs) = F[Len(seqs)]
  BY DEF FlattenSeq
<1>6. Solves(F, Len(seqs))
  BY <1>4
<1>7. \A i \in 1 .. Len(seqs) : F[i] = IF i = 1 THEN seqs[i] ELSE F[i - 1] \o seqs[i]
  <2> HIDE DEF F
  <2> QED
    BY <1>6, Zenon
<1> HIDE DEF F
<1>8. 1 \in 1 .. Len(seqs) /\ \A i \in 2 .. Len(seqs) : i \in 1 .. Len(seqs) /\ i # 1
  OBVIOUS
<1> QED
  BY <1>5, <1>7, <1>8

\* What the parts of a sequence of sequences are: its beginnings.
LEMMA Parts ==
  ASSUME NEW S, NEW seqs \in Seq(Seq(S))
  PROVE  /\ Part(seqs, 0) = <<>> /\ Part(seqs, Len(seqs)) = FlattenSeq(seqs)
         /\ \A m \in 0 .. Len(seqs) - 1 : Part(seqs, m + 1) = Part(seqs, m) \o seqs[m + 1]
         /\ \A m \in 0 .. Len(seqs) : Part(seqs, m) \in Seq(S)
<1> DEFINE N == Len(seqs)
<1>1. N \in Nat /\ \A i \in 1 .. N : seqs[i] \in Seq(S)
  OBVIOUS
<1>2. Part(seqs, 0) = <<>>
  <2>1. SubSeq(seqs, 1, 0) = <<>>
    OBVIOUS
  <2>2. FlattenSeq(<<>>) = <<>>
    BY DEF FlattenSeq
  <2> QED
    BY <2>1, <2>2 DEF Part
<1>3. Part(seqs, N) = FlattenSeq(seqs)
  <2>1. SubSeq(seqs, 1, N) = seqs
    BY SubSeqFull
  <2> QED
    BY <2>1 DEF Part
<1>4. ASSUME NEW m \in 1 .. N
      PROVE  \E f : /\ Part(seqs, m) = f[m] /\ f[1] = seqs[1]
                    /\ \A i \in 2 .. m : f[i] = f[i - 1] \o seqs[i]
  <2> DEFINE some == SubSeq(seqs, 1, m)
  <2>1. Len(some) = m /\ Len(some) \in Nat \ {0} /\ \A i \in 1 .. m : some[i] = seqs[i]
    BY <1>1, SubSeqProperties
  <2> HIDE DEF some
  <2>2. PICK f : /\ FlattenSeq(some) = f[m] /\ f[1] = some[1]
                 /\ \A i \in 2 .. m : f[i] = f[i - 1] \o some[i]
    <3>1. \E f : /\ FlattenSeq(some) = f[Len(some)] /\ f[1] = some[1]
                 /\ \A i \in 2 .. Len(some) : f[i] = f[i - 1] \o some[i]
      BY <2>1, FlattenEquations, Zenon
    <3> QED
      BY <2>1, <3>1
  <2>3. 1 \in 1 .. m /\ \A i \in 2 .. m : i \in 1 .. m
    BY <1>1
  <2>4. f[1] = seqs[1] /\ \A i \in 2 .. m : f[i] = f[i - 1] \o seqs[i]
    BY <2>1, <2>2, <2>3
  <2> QED
    BY <2>2, <2>4 DEF Part, some
<1>5. ASSUME NEW m \in 0 .. N - 1
      PROVE  Part(seqs, m + 1) = Part(seqs, m) \o seqs[m + 1]
  <2>1. m \in Nat /\ m + 1 \in 1 .. N
    BY <1>1
  <2>2. PICK f : /\ Part(seqs, m + 1) = f[m + 1] /\ f[1] = seqs[1]
                 /\ \A i \in 2 .. m + 1 : f[i] = f[i - 1] \o seqs[i]
    BY <1>4, <2>1
  <2>3. CASE m = 0
    <3>1. <<>> \o seqs[1] = seqs[1]
      BY <1>1, <2>1, <2>3, ConcatEmptySeq
    <3>2. Part(seqs, 1) = seqs[1]
      BY <2>2, <2>3
    <3> QED
      BY <1>2, <2>3, <3>1, <3>2
  <2>4. CASE m # 0
    <3>1. m \in 1 .. N
      BY <2>1, <2>4
    <3>2. PICK g : /\ Part(seqs, m) = g[m] /\ g[1] = seqs[1]
                   /\ \A i \in 2 .. m : g[i] = g[i - 1] \o seqs[i]
      BY <1>4, <3>1
    <3> DEFINE P == {i \in Nat : i + 1 <= m => f[i + 1] = g[i + 1]}
    <3>3. 0 \in P
      BY <2>2, <3>2
    <3>4. ASSUME NEW i \in P
          PROVE  i + 1 \in P
      <4>1. i \in Nat /\ (i + 1 <= m => f[i + 1] = g[i + 1])
        OBVIOUS
      <4>2. ASSUME (i + 1) + 1 <= m
            PROVE  f[(i + 1) + 1] = g[(i + 1) + 1]
        <5> DEFINE j == (i + 1) + 1
        <5>1. j \in 2 .. m /\ j \in 2 .. m + 1 /\ j - 1 = i + 1 /\ i + 1 <= m
          BY <2>1, <4>1, <4>2
        <5> HIDE DEF j
        <5>2. f[j] = f[j - 1] \o seqs[j] /\ g[j] = g[j - 1] \o seqs[j]
          BY <2>2, <3>2, <5>1
        <5> QED
          BY <4>1, <5>1, <5>2 DEF j
      <4> QED
        BY <4>1, <4>2
    <3>5. m - 1 \in Nat /\ (m - 1) + 1 = m
      BY <2>1, <2>4
    <3> HIDE DEF P
    <3>6. P \in SUBSET Nat
      BY DEF P
    <3>7. m - 1 \in P
      BY <3>3, <3>4, <3>5, <3>6, SetInduction
    <3>8. f[m] = g[m]
      BY <2>1, <3>5, <3>7 DEF P
    <3>9. f[m + 1] = f[m] \o seqs[m + 1]
      <4>1. m + 1 \in 2 .. m + 1 /\ (m + 1) - 1 = m
        BY <2>1, <2>4
      <4> QED
        BY <2>2, <4>1
    <3> QED
      BY <2>2, <3>2, <3>8, <3>9
  <2> QED
    BY <2>3, <2>4
<1>6. \A m \in 0 .. N : Part(seqs, m) \in Seq(S)
  <2> DEFINE P == {m \in Nat : m <= N => Part(seqs, m) \in Seq(S)}
  <2>1. 0 \in P
    <3>1. <<>> \in Seq(S)
      OBVIOUS
    <3> QED
      BY <1>2, <3>1, Zenon
  <2>2. ASSUME NEW m \in P
        PROVE  m + 1 \in P
    <3>1. m \in Nat /\ (m <= N => Part(seqs, m) \in Seq(S))
      OBVIOUS
    <3>2. ASSUME m + 1 <= N
          PROVE  Part(seqs, m + 1) \in Seq(S)
      <4>1. m \in 0 .. N - 1 /\ m + 1 \in 1 .. N
        BY <1>1, <3>1, <3>2
      <4>2. Part(seqs, m) \in Seq(S) /\ seqs[m + 1] \in Seq(S)
        BY <1>1, <3>1, <4>1
      <4> QED
        BY <1>5, <4>1, <4>2, ConcatProperties
    <3> QED
      BY <3>1, <3>2
  <2>3. \A m \in Nat : m \in P
    <3>1. P \in SUBSET Nat
      OBVIOUS
    <3> HIDE DEF P
    <3> QED
      BY <2>1, <2>2, <3>1, SetInduction
  <2> QED
    BY <1>1, <2>3
<1> QED
  BY <1>2, <1>3, <1>5, <1>6

\* Where each of the sequences is in all of them.
LEMMA PartAt ==
  ASSUME NEW S, NEW seqs \in Seq(Seq(S)), NEW k \in 1 .. Len(seqs)
  PROVE  /\ Len(Part(seqs, k - 1)) \in Nat /\ Len(seqs[k]) \in Nat /\ Len(FlattenSeq(seqs)) \in Nat
         /\ Len(Part(seqs, k)) = Len(Part(seqs, k - 1)) + Len(seqs[k])
         /\ Len(Part(seqs, k)) <= Len(FlattenSeq(seqs))
         /\ \A j \in 1 .. Len(Part(seqs, k)) : FlattenSeq(seqs)[j] = Part(seqs, k)[j]
         /\ \A j \in 1 .. Len(seqs[k]) : FlattenSeq(seqs)[Len(Part(seqs, k - 1)) + j] = seqs[k][j]
<1> DEFINE N == Len(seqs)
           F(m) == Part(seqs, m)
           P == {d \in Nat : k + d <= N => /\ Len(F(k)) <= Len(F(k + d))
                                           /\ \A j \in 1 .. Len(F(k)) : F(k + d)[j] = F(k)[j]}
<1>1. /\ N \in Nat /\ k \in Nat /\ k - 1 \in Nat /\ (k - 1) + 1 = k /\ k - 1 \in 0 .. N - 1 /\ k <= N
      /\ \A i \in 1 .. N : seqs[i] \in Seq(S)
  OBVIOUS
<1>2. /\ F(N) = FlattenSeq(seqs)
      /\ \A m \in 0 .. N - 1 : F(m + 1) = F(m) \o seqs[m + 1]
      /\ \A m \in 0 .. N : F(m) \in Seq(S)
  BY Parts
<1> HIDE DEF F
<1>3. \A m \in 0 .. N - 1 :
         /\ Len(F(m)) \in Nat /\ Len(seqs[m + 1]) \in Nat /\ Len(F(m + 1)) = Len(F(m)) + Len(seqs[m + 1])
         /\ \A j \in 1 .. Len(F(m)) : F(m + 1)[j] = F(m)[j]
         /\ \A j \in 1 .. Len(seqs[m + 1]) : F(m + 1)[Len(F(m)) + j] = seqs[m + 1][j]
  <2> TAKE m \in 0 .. N - 1
  <2>1. m \in 0 .. N /\ m + 1 \in 1 .. N
    BY <1>1
  <2> DEFINE s == F(m)
             t == seqs[m + 1]
  <2>2. s \in Seq(S) /\ t \in Seq(S) /\ F(m + 1) = s \o t
    BY <1>1, <1>2, <2>1
  <2> HIDE DEF s, t
  <2>3. /\ Len(s) \in Nat /\ Len(t) \in Nat /\ Len(s \o t) = Len(s) + Len(t)
        /\ \A j \in 1 .. Len(s) + Len(t) : (s \o t)[j] = IF j <= Len(s) THEN s[j] ELSE t[j - Len(s)]
    BY <2>2, ConcatProperties, LenProperties
  <2>4. \A j \in 1 .. Len(s) : (s \o t)[j] = s[j]
    BY <2>3
  <2>5. ASSUME NEW j \in 1 .. Len(t)
        PROVE  (s \o t)[Len(s) + j] = t[j]
    <3>1. Len(s) + j \in 1 .. Len(s) + Len(t) /\ ~ (Len(s) + j <= Len(s)) /\ (Len(s) + j) - Len(s) = j
      BY <2>3
    <3> QED
      BY <2>3, <3>1
  <2> QED
    BY <2>2, <2>3, <2>4, <2>5 DEF s, t
<1>4. 0 \in P
  <2>1. k + 0 = k /\ Len(F(k)) \in Nat
    BY <1>1, <1>3
  <2> QED
    BY <2>1
<1>5. ASSUME NEW d \in P
      PROVE  d + 1 \in P
  <2>1. d \in Nat /\ (k + d <= N => /\ Len(F(k)) <= Len(F(k + d))
                                    /\ \A j \in 1 .. Len(F(k)) : F(k + d)[j] = F(k)[j])
    OBVIOUS
  <2>2. ASSUME k + (d + 1) <= N
        PROVE  /\ Len(F(k)) <= Len(F(k + (d + 1)))
               /\ \A j \in 1 .. Len(F(k)) : F(k + (d + 1))[j] = F(k)[j]
    <3> DEFINE m == k + d
    <3>1. m \in 0 .. N - 1 /\ k + (d + 1) = m + 1 /\ k + d <= N
      BY <1>1, <2>1, <2>2
    <3> HIDE DEF m
    <3>2. /\ Len(F(m)) \in Nat /\ Len(F(m)) <= Len(F(m + 1)) /\ Len(F(m + 1)) \in Nat
          /\ \A j \in 1 .. Len(F(m)) : F(m + 1)[j] = F(m)[j]
      <4>1. /\ Len(F(m)) \in Nat /\ Len(seqs[m + 1]) \in Nat
            /\ Len(F(m + 1)) = Len(F(m)) + Len(seqs[m + 1])
            /\ \A j \in 1 .. Len(F(m)) : F(m + 1)[j] = F(m)[j]
        BY <1>3, <3>1, Zenon
      <4> QED
        BY <4>1
    <3>3. Len(F(k)) <= Len(F(m)) /\ \A j \in 1 .. Len(F(k)) : F(m)[j] = F(k)[j]
      BY <2>1, <3>1 DEF m
    <3>4. Len(F(k)) \in Nat
      BY <1>1, <1>3
    <3>5. \A j \in 1 .. Len(F(k)) : j \in 1 .. Len(F(m))
      BY <3>2, <3>3, <3>4
    <3>6. /\ Len(F(k)) <= Len(F(m + 1))
          /\ \A j \in 1 .. Len(F(k)) : F(m + 1)[j] = F(k)[j]
      BY <3>2, <3>3, <3>4, <3>5
    <3> QED
      BY <3>1, <3>6
  <2> QED
    BY <2>1, <2>2
<1>6. /\ Len(F(k)) <= Len(F(N)) /\ \A j \in 1 .. Len(F(k)) : F(N)[j] = F(k)[j]
  <2>1. P \in SUBSET Nat
    OBVIOUS
  <2> HIDE DEF P
  <2>2. N - k \in Nat /\ k + (N - k) = N
    BY <1>1
  <2>3. N - k \in P
    BY <1>4, <1>5, <2>1, <2>2, SetInduction
  <2> QED
    BY <1>1, <2>2, <2>3 DEF P
<1>7. /\ Len(F(k - 1)) \in Nat /\ Len(seqs[k]) \in Nat /\ Len(F(k)) = Len(F(k - 1)) + Len(seqs[k])
      /\ \A j \in 1 .. Len(seqs[k]) : F(k)[Len(F(k - 1)) + j] = seqs[k][j]
  BY <1>1, <1>3
<1>8. \A j \in 1 .. Len(seqs[k]) : Len(F(k - 1)) + j \in 1 .. Len(F(k))
  BY <1>7
<1>9. Len(F(N)) \in Nat
  <2>1. N \in 0 .. N
    BY <1>1
  <2> QED
    BY <1>2, <2>1
<1> QED
  BY <1>2, <1>6, <1>7, <1>8, <1>9 DEF F

-----------------------------------------------------------------------------
(* Reading.                                                                *)

\* Reading n characters moves the reader forward, by n if there are as many.
LEMMA AfterReads ==
  ASSUME file \in Seq(Characters), NEW p \in Positions, NEW n \in Nat
  PROVE  /\ After(p, n) \in p .. Len(file) + 1 /\ After(p, n) <= p + n
         /\ p + n <= Len(file) + 1 => After(p, n) = p + n
         /\ p + n > Len(file) => After(p, n) = Len(file) + 1
<1> DEFINE S == {p + n, Len(file) + 1}
<1>1. Len(file) \in Nat
  OBVIOUS
<1>2. S \in SUBSET Nat /\ S # {}
  BY <1>1 DEF Positions
<1>3. Min(S) \in S /\ \A j \in S : Min(S) <= j
  <2> HIDE DEF S
  <2> QED
    BY <1>2, LeastMember
<1> QED
  BY <1>1, <1>3 DEF After, Positions

\* A read of one character.
LEMMA OneRead ==
  ASSUME file \in Seq(Characters), NEW p \in Positions
  PROVE  /\ After(p, 1) \in Positions /\ After(p, 1) >= p
         /\ p <= Len(file) => After(p, 1) = p + 1
         /\ p > Len(file) => After(p, 1) = Len(file) + 1
<1>1. 1 \in Nat /\ Len(file) \in Nat
  OBVIOUS
<1>2. /\ After(p, 1) \in p .. Len(file) + 1 /\ After(p, 1) <= p + 1
      /\ p + 1 <= Len(file) + 1 => After(p, 1) = p + 1
      /\ p + 1 > Len(file) => After(p, 1) = Len(file) + 1
  BY <1>1, AfterReads
<1> QED
  BY <1>1, <1>2 DEF Positions

\* cleanup leaves the reader behind the end of a line.
LEMMA CleanupAligns ==
  ASSUME file \in Seq(Characters), NEW p \in Positions
  PROVE  cleanup(p) \in Positions /\ cleanup(p) >= p /\ Aligned(cleanup(p))
<1> DEFINE ends == {i \in p .. Len(file) : Char(i) = "\n"}
<1>1. Len(file) \in Nat
  OBVIOUS
<1>2. CASE ends = {}
  BY <1>1, <1>2 DEF cleanup, Positions, Aligned
<1>3. CASE ends # {}
  <2>1. Min(ends) \in ends
    <3>1. ends \in SUBSET Nat
      BY <1>1 DEF Positions
    <3> HIDE DEF ends
    <3> QED
      BY <1>3, <3>1, LeastMember
  <2>2. cleanup(p) = Min(ends) + 1
    BY <1>3 DEF cleanup
  <2> QED
    BY <1>1, <2>1, <2>2 DEF Positions, Aligned
<1> QED
  BY <1>2, <1>3

\* A string is shorter than its buffer, and read_string passes what it has read.
LEMMA StringFits ==
  ASSUME file \in Seq(Characters), NEW p \in Positions
  PROVE  /\ read_string(p).pos \in Positions /\ read_string(p).pos >= p
         /\ Len(read_string(p).str) \in Nat /\ Len(read_string(p).str) < MAX_STRING_SIZE
         /\ read_string(p).stop \in {Nothing, Blank, Comma, ")", "]"}
<1> DEFINE stops == {i \in p .. After(p, MAX_STRING_SIZE) - 1 : Char(i) \in {Blank, Comma, ")", "]"}}
           stop  == Min(stops)
<1>1. MAX_STRING_SIZE \in Nat /\ MAX_STRING_SIZE > 0 /\ Len(file) \in Nat
  BY SizeAssumption
<1>2. After(p, MAX_STRING_SIZE) \in p .. Len(file) + 1 /\ After(p, MAX_STRING_SIZE) <= p + MAX_STRING_SIZE
  BY <1>1, AfterReads
<1>3. CASE stops = {}
  <2>1. read_string(p) = [stop |-> Nothing, str |-> <<>>, pos |-> After(p, MAX_STRING_SIZE)]
    BY <1>3 DEF read_string
  <2> QED
    BY <1>1, <1>2, <2>1 DEF Positions
<1>4. CASE stops # {}
  <2>1. stop \in stops
    <3>1. stops \in SUBSET Nat
      BY <1>1, <1>2 DEF Positions
    <3> HIDE DEF stops
    <3> QED
      BY <1>4, <3>1, LeastMember
  <2>2. read_string(p) = [stop |-> Char(stop), str |-> SubSeq(file, p, stop - 1), pos |-> stop + 1]
    BY <1>4 DEF read_string
  <2> HIDE DEF stop
  <2>3. stop \in p .. Len(file) /\ stop - p < MAX_STRING_SIZE /\ Char(stop) \in {Blank, Comma, ")", "]"}
    BY <1>1, <1>2, <2>1 DEF Positions
  <2>4. Len(SubSeq(file, p, stop - 1)) = stop - p
    BY <1>1, <2>3, SubSeqProperties DEF Positions
  <2> QED
    BY <1>1, <2>2, <2>3, <2>4 DEF Positions
<1> QED
  BY <1>3, <1>4

\* read_uint passes the digits and the character after them.
LEMMA NumberRead ==
  ASSUME file \in Seq(Characters), NEW p \in Positions, NEW junk
  PROVE  /\ read_uint(p, junk).pos \in Positions /\ read_uint(p, junk).pos >= p
         /\ read_uint(p, junk).next \in {"\n", Nothing} => Aligned(read_uint(p, junk).pos)
<1> DEFINE stops == {i \in p .. Len(file) + 1 : Char(i) \notin ToSet(Digits)}
           stop  == Min(stops)
<1>1. Len(file) \in Nat
  OBVIOUS
<1>2. stop \in stops
  <2>1. Nothing \notin ToSet(Digits)
    <3>1. \A i \in DOMAIN Digits : Digits[i] \in {"0", "1", "2", "3", "4", "5", "6", "7", "8", "9"}
      BY DEF Digits
    <3>2. Nothing \notin {"0", "1", "2", "3", "4", "5", "6", "7", "8", "9"}
      BY Zenon DEF Nothing
    <3> QED
      BY <3>1, <3>2 DEF ToSet
  <2>2. Len(file) + 1 \in stops /\ stops \in SUBSET Nat
    BY <1>1, <2>1 DEF Char, Positions
  <2> HIDE DEF stops
  <2> QED
    BY <2>2, LeastMember
<1>3. read_uint(p, junk).next = Char(stop) /\ read_uint(p, junk).pos = After(stop, 1)
  BY DEF read_uint
<1> HIDE DEF stop
<1>4. stop \in Positions /\ stop >= p
  BY <1>1, <1>2 DEF Positions
<1>5. /\ After(stop, 1) \in Positions /\ After(stop, 1) >= stop
      /\ stop <= Len(file) => After(stop, 1) = stop + 1
      /\ stop > Len(file) => After(stop, 1) = Len(file) + 1
  BY <1>4, OneRead
<1>6. CASE stop <= Len(file)
  <2>1. Char(stop) # Nothing
    BY <1>1, <1>4, <1>6 DEF Char, Positions, Characters
  <2> QED
    BY <1>1, <1>3, <1>4, <1>5, <1>6, <2>1 DEF Positions, Aligned
<1>7. CASE stop > Len(file)
  BY <1>1, <1>3, <1>4, <1>5, <1>7 DEF Positions, Aligned
<1> QED
  BY <1>1, <1>4, <1>6, <1>7 DEF Positions

\* The words that are compared with have at most twelve characters, and at least one.
LEMMA WordLengths ==
  ASSUME NEW w \in Words
  PROVE  Length(w) \in 1 .. 12
<1>1. w \in {"WAIT", "WRITE", "READ", "DELETE", "SHOW", "BACKUP", "HELP",
             "SUBSCRIBE", "UNSUBSCRIBE", "DELAY", "DISCONNECT"}
  BY DEF Words, WordsOf
<1> QED
  BY <1>1 DEF Length, Spelled

\* get_next leaves the reader behind what it has read; at the start of a line, if
\* the command is not followed by arguments.
LEMMA NextRead ==
  ASSUME file \in Seq(Characters), NEW p \in Positions
  PROVE  /\ get_next(p).pos \in Positions /\ get_next(p).pos >= p
         /\ get_next(p).cmd \in Words \cup {"EOC", "EMPTY", "INVALID"}
         /\ get_next(p).cmd \in Single \cup {"EMPTY", "INVALID"} => Aligned(get_next(p).pos)
<1> DEFINE words == {w \in Words : Spelled[w][1] = Char(p)}
           found == {w \in words : Stands(p, w)}
           word  == CHOOSE w \in found : TRUE
           end   == p + Length(word)
           most  == Max({1} \cup {Length(w) : w \in words})
<1>1. Len(file) \in Nat /\ p \in Nat \ {0} /\ p <= Len(file) + 1
  BY DEF Positions
<1>2. CASE p > Len(file)
  <2>1. get_next(p) = [cmd |-> "EOC", pos |-> p]
    <3>1. Char(p) = Nothing
      BY <1>1, <1>2 DEF Char
    <3>2. Nothing \notin {"\n", "#"}
      BY Zenon DEF Nothing
    <3> QED
      BY <1>1, <1>2, <3>1, <3>2 DEF get_next
  <2> QED
    BY <2>1 DEF Single, Positions
<1>3. CASE p <= Len(file) /\ Char(p) = "\n"
  <2>1. get_next(p) = [cmd |-> "EMPTY", pos |-> p + 1]
    BY <1>1, <1>3 DEF get_next
  <2> QED
    BY <1>1, <1>3, <2>1 DEF Single, Positions, Aligned
<1>4. CASE p <= Len(file) /\ Char(p) = "#"
  <2>1. get_next(p) = [cmd |-> "EMPTY", pos |-> cleanup(p + 1)]
    BY <1>1, <1>4 DEF get_next
  <2>2. p + 1 \in Positions
    BY <1>1, <1>4 DEF Positions
  <2> QED
    BY <1>1, <2>1, <2>2, CleanupAligns DEF Positions
<1>5. CASE p <= Len(file) /\ Char(p) \notin {"\n", "#"}
  <2>1. get_next(p) =
          IF found = {} THEN [cmd |-> "INVALID", pos |-> cleanup(After(p, most))]
          ELSE IF word \notin Single THEN [cmd |-> word, pos |-> end]
          ELSE IF Char(end) \in {"\n", Nothing} THEN [cmd |-> word, pos |-> After(end, 1)]
          ELSE [cmd |-> "INVALID", pos |-> cleanup(end + 1)]
    BY <1>1, <1>5 DEF get_next
  <2>2. CASE found = {}
    <3>1. most \in Nat
      <4> DEFINE P == {1} \cup {Length(w) : w \in words}
      <4>1. P \in SUBSET (0 .. 12) /\ P # {}
        BY WordLengths
      <4> HIDE DEF P
      <4>2. Max(P) \in P
        BY <4>1, GreatestMember
      <4>3. P \in SUBSET Nat
        BY <4>1
      <4>4. Max(P) \in Nat
        BY <4>2, <4>3
      <4> QED
        BY <4>4 DEF P
    <3> HIDE DEF most
    <3>2. After(p, most) \in Positions /\ After(p, most) >= p
      <4>1. After(p, most) \in p .. Len(file) + 1
        BY <3>1, AfterReads
      <4> QED
        BY <1>1, <4>1 DEF Positions
    <3>3. cleanup(After(p, most)) \in Positions /\ cleanup(After(p, most)) >= After(p, most)
          /\ Aligned(cleanup(After(p, most)))
      BY <3>2, CleanupAligns
    <3> QED
      BY <1>1, <2>1, <2>2, <3>2, <3>3 DEF Positions
  <2>3. CASE found # {}
    <3>1. word \in found
      BY <2>3
    <3> HIDE DEF word
    <3>2. word \in Words /\ Length(word) \in 1 .. 12 /\ end <= Len(file) + 1
      BY <3>1, WordLengths DEF Stands
    <3>3. end \in Positions /\ end >= p
      BY <1>1, <3>2 DEF Positions
    <3>4. CASE word \notin Single
      BY <2>1, <2>3, <3>2, <3>3, <3>4 DEF Words, WordsOf
    <3>5. CASE word \in Single /\ Char(end) \in {"\n", Nothing}
      <4>1. get_next(p) = [cmd |-> word, pos |-> After(end, 1)]
        BY <2>1, <2>3, <3>5
      <4>2. /\ After(end, 1) \in Positions /\ After(end, 1) >= end
            /\ end <= Len(file) => After(end, 1) = end + 1
            /\ end > Len(file) => After(end, 1) = Len(file) + 1
        BY <3>3, OneRead
      <4>3. end <= Len(file) => Char(end) # Nothing
        BY <1>1, <3>3 DEF Char, Positions, Characters
      <4>4. Aligned(After(end, 1))
        BY <1>1, <3>3, <3>5, <4>2, <4>3 DEF Positions, Aligned
      <4> QED
        BY <1>1, <3>2, <3>3, <4>1, <4>2, <4>4 DEF Positions
    <3>6. CASE word \in Single /\ Char(end) \notin {"\n", Nothing}
      <4>1. get_next(p) = [cmd |-> "INVALID", pos |-> cleanup(end + 1)]
        BY <2>1, <2>3, <3>6
      <4>2. end + 1 \in Positions
        BY <1>1, <3>3, <3>6 DEF Char, Positions
      <4> QED
        BY <1>1, <3>3, <4>1, <4>2, CleanupAligns DEF Positions
    <3> QED
      BY <3>4, <3>5, <3>6
  <2> QED
    BY <2>2, <2>3
<1> QED
  BY <1>1, <1>2, <1>3, <1>4, <1>5

-----------------------------------------------------------------------------
(* What becomes of a command.                                              *)

\* A refused command leaves the reader at the start of a line.
LEMMA RefusalAligns ==
  ASSUME file \in Seq(Characters), NEW p \in Positions
  PROVE  /\ Refused(p).pos \in Positions /\ Aligned(Refused(p).pos) /\ ~Refused(p).ok
         /\ RefusedTwice(p).pos \in Positions /\ Aligned(RefusedTwice(p).pos) /\ ~RefusedTwice(p).ok
<1>1. After(p, 1) \in Positions
  BY OneRead
<1>2. cleanup(After(p, 1)) \in Positions /\ Aligned(cleanup(After(p, 1)))
  BY <1>1, CleanupAligns
<1>3. cleanup(p) \in Positions
  BY CleanupAligns
<1>4. cleanup(cleanup(p)) \in Positions /\ Aligned(cleanup(cleanup(p)))
  BY <1>3, CleanupAligns
<1> QED
  BY <1>2, <1>4 DEF Refused, RefusedTwice

\* A list is taken at the end of its line, and otherwise refused.
LEMMA EndOfLineAligns ==
  ASSUME file \in Seq(Characters), NEW p \in Positions, NEW some
  PROVE  /\ EndOfLine(p, some).pos \in Positions /\ Aligned(EndOfLine(p, some).pos)
         /\ EndOfLine(p, some).ok => EndOfLine(p, some).batch = some
<1>1. CASE Char(p) = "\n"
  <2>1. "\n" # Nothing
    BY Zenon DEF Nothing
  <2>2. p <= Len(file)
    BY <1>1, <2>1 DEF Char, Positions
  <2> QED
    BY <1>1, <2>2 DEF EndOfLine, Positions, Aligned
<1>2. CASE Char(p) # "\n"
  <2>1. EndOfLine(p, some) = Refused(p)
    BY <1>2 DEF EndOfLine
  <2> QED
    BY <2>1, RefusalAligns
<1> QED
  BY <1>1, <1>2

\* A character that was read is followed by a position of the reader.
LEMMA Reads ==
  ASSUME file \in Seq(Characters), NEW p \in Positions, Char(p) # Nothing
  PROVE  p <= Len(file) /\ p + 1 \in Positions
BY DEF Char, Positions

\* One element more is appended to a sequence of whatever it holds.
LEMMA AppendKeeps ==
  ASSUME NEW s, s \in Seq(ToSet(s)), NEW e
  PROVE  /\ Append(s, e) \in Seq(ToSet(Append(s, e)))
         /\ Len(s) \in Nat /\ Len(Append(s, e)) = Len(s) + 1
         /\ \A i \in 1 .. Len(s) : Append(s, e)[i] = s[i]
         /\ Append(s, e)[Len(s) + 1] = e
<1> DEFINE S == ToSet(s) \cup {e}
<1>1. S = S /\ ToSet(s) \subseteq S
  OBVIOUS
<1>2. s \in Seq(S) /\ e \in S
  BY <1>1
<1> HIDE DEF S
<1>3. /\ Append(s, e) \in Seq(S) /\ Len(s) \in Nat /\ Len(Append(s, e)) = Len(s) + 1
      /\ \A i \in 1 .. Len(s) : Append(s, e)[i] = s[i]
      /\ Append(s, e)[Len(s) + 1] = e
  BY <1>2, AppendProperties
<1> DEFINE t == Append(s, e)
<1>4. t \in Seq(ToSet(t))
  <2>1. t \in Seq(S)
    BY <1>3
  <2> HIDE DEF t
  <2>2. t \in [1 .. Len(t) -> S] /\ Len(t) \in Nat
    BY <2>1
  <2>3. \A i \in 1 .. Len(t) : t[i] \in ToSet(t)
    BY <2>2 DEF ToSet
  <2>4. t \in [1 .. Len(t) -> ToSet(t)]
    BY <2>2, <2>3
  <2> QED
    BY <2>2, <2>4
<1> QED
  BY <1>3, <1>4

\* The types are kept when a command is executed with arguments that fit.
LEMMA ExecuteTyped ==
  ASSUME TypeOK, NEW command \in Words, NEW result, Execute(command, result),
         result.pos \in Positions, result.ok => Fits(command, result.batch)
  PROVE  TypeOK'
<1>1. UNCHANGED <<program, file, over>> /\ pos' = result.pos /\ cmd' = None /\ batch' = <<>>
  BY DEF Execute
<1>2. Words' = Words
  BY <1>1 DEF Words, WordsOf
<1>3. batch' \in Seq(ToSet(batch'))
  BY <1>1
<1>4. Fits(cmd', batch')
  BY <1>1 DEF Fits, None
<1>5. done \in Seq(ToSet(done)) /\ \A i \in 1 .. Len(done) : done[i][1] \in Words /\ Fits(done[i][1], done[i][2])
  BY DEF TypeOK
<1>6. done' \in Seq(ToSet(done')) /\ \A i \in 1 .. Len(done') : done'[i][1] \in Words /\ Fits(done'[i][1], done'[i][2])
  <2>1. CASE ~result.ok
    BY <1>5, <2>1 DEF Execute
  <2>2. CASE result.ok
    <3> DEFINE e == <<command, result.batch>>
    <3>1. done' = Append(done, e)
      BY <2>2 DEF Execute
    <3>2. e[1] \in Words /\ Fits(e[1], e[2])
      BY <2>2
    <3> HIDE DEF e
    <3>3. /\ Append(done, e) \in Seq(ToSet(Append(done, e)))
          /\ Len(done) \in Nat /\ Len(Append(done, e)) = Len(done) + 1
          /\ \A i \in 1 .. Len(done) : Append(done, e)[i] = done[i]
          /\ Append(done, e)[Len(done) + 1] = e
      BY <1>5, AppendKeeps
    <3>4. ASSUME NEW i \in 1 .. Len(done')
          PROVE  done'[i][1] \in Words /\ Fits(done'[i][1], done'[i][2])
      <4>1. i \in 1 .. Len(done) \/ i = Len(done) + 1
        BY <3>1, <3>3
      <4> QED
        BY <1>5, <3>1, <3>2, <3>3, <4>1
    <3> QED
      BY <3>1, <3>3, <3>4
  <2> QED
    BY <2>1, <2>2
<1> QED
  BY <1>1, <1>2, <1>3, <1>4, <1>6 DEF TypeOK, Positions

\* The types are kept when a list goes on, with names that fit and room for one more.
LEMMA ContinueTyped ==
  ASSUME TypeOK, NEW command \in Words \ Single, NEW some, NEW p \in Positions,
         Continue(command, some, p), some \in Seq(ToSet(some)), Fits(command, some),
         Len(some) < IF program = "server" THEN MAX_WRITE_SIZE ELSE 1
  PROVE  TypeOK'
<1>1. /\ UNCHANGED <<program, file, done, over>> /\ pos' = p /\ cmd' = command /\ batch' = some
  BY DEF Continue
<1>2. Words' = Words
  BY <1>1 DEF Words, WordsOf
<1> QED
  BY <1>1, <1>2 DEF TypeOK, Positions

\* A command that is executed leaves the reader at the start of a line, if its parser did.
LEMMA ExecuteAligns ==
  ASSUME TypeOK, NEW command, NEW result, Execute(command, result),
         Aligned(result.pos) \/ (result.ok /\ command = "DELAY")
  PROVE  LineAligned'
<1>1. CASE Aligned(result.pos)
  BY <1>1 DEF Execute, LineAligned, Aligned, Char
<1>2. CASE result.ok /\ command = "DELAY"
  <2> DEFINE e == <<command, result.batch>>
  <2>1. done' = Append(done, e) /\ e[1] = "DELAY"
    BY <1>2 DEF Execute
  <2> HIDE DEF e
  <2>2. done \in Seq(ToSet(done))
    BY DEF TypeOK
  <2>3. /\ Append(done, e) \in Seq(ToSet(Append(done, e)))
        /\ Len(done) \in Nat /\ Len(Append(done, e)) = Len(done) + 1
        /\ Append(done, e)[Len(done) + 1] = e
    BY <2>2, AppendKeeps
  <2>4. done' # <<>> /\ Last(done') = e
    BY <2>1, <2>3 DEF Last
  <2> QED
    BY <2>1, <2>4 DEF LineAligned
<1> QED
  BY <1>1, <1>2

-----------------------------------------------------------------------------
(* The loops over a list.                                                  *)

\* One pair more fits the list of a WRITE.
LEMMA PairFits ==
  ASSUME Fits("WRITE", batch), batch \in Seq(ToSet(batch)), NEW k, NEW v,
         Len(k) < MAX_STRING_SIZE, Len(v) < MAX_STRING_SIZE,
         Len(batch) + 1 < MAX_WRITE_SIZE
  PROVE  Fits("WRITE", Append(batch, <<k, v>>))
<1> DEFINE e == <<k, v>>
<1>1. e[1] = k /\ e[2] = v
  OBVIOUS
<1> HIDE DEF e
<1>2. /\ Len(batch) \in Nat /\ Len(Append(batch, e)) = Len(batch) + 1
      /\ \A i \in 1 .. Len(batch) : Append(batch, e)[i] = batch[i]
      /\ Append(batch, e)[Len(batch) + 1] = e
  BY AppendKeeps
<1>3. \A j \in 1 .. Len(batch) : Len(batch[j][1]) < MAX_STRING_SIZE /\ Len(batch[j][2]) < MAX_STRING_SIZE
  BY DEF Fits
<1>4. \A j \in 1 .. Len(batch) + 1 :
         Len(Append(batch, e)[j][1]) < MAX_STRING_SIZE /\ Len(Append(batch, e)[j][2]) < MAX_STRING_SIZE
  <2> TAKE j \in 1 .. Len(batch) + 1
  <2>1. j \in 1 .. Len(batch) \/ j = Len(batch) + 1
    BY <1>2
  <2> QED
    BY <1>1, <1>2, <1>3, <2>1
<1>5. Fits("WRITE", Append(batch, e))
  BY <1>2, <1>4 DEF Fits
<1> QED
  BY <1>5 DEF e

\* One key more fits the list of any other command.
LEMMA KeyFits ==
  ASSUME NEW command \in {"READ", "DELETE", "SUBSCRIBE", "UNSUBSCRIBE"},
         Fits(command, batch), batch \in Seq(ToSet(batch)), NEW k, Len(k) < MAX_STRING_SIZE,
         command \in {"READ", "DELETE"} => Len(batch) + 1 < MAX_WRITE_SIZE,
         command \in {"SUBSCRIBE", "UNSUBSCRIBE"} => Len(batch) + 1 <= 1
  PROVE  Fits(command, Append(batch, k))
<1>1. /\ Len(batch) \in Nat /\ Len(Append(batch, k)) = Len(batch) + 1
      /\ \A i \in 1 .. Len(batch) : Append(batch, k)[i] = batch[i]
      /\ Append(batch, k)[Len(batch) + 1] = k
  BY AppendKeeps
<1>2. \A j \in 1 .. Len(batch) : Len(batch[j]) < MAX_STRING_SIZE
  BY DEF Fits
<1>3. \A j \in 1 .. Len(batch) + 1 : Len(Append(batch, k)[j]) < MAX_STRING_SIZE
  <2> TAKE j \in 1 .. Len(batch) + 1
  <2>1. j \in 1 .. Len(batch) \/ j = Len(batch) + 1
    BY <1>1
  <2> QED
    BY <1>1, <1>2, <2>1
<1> QED
  BY <1>1, <1>3 DEF Fits

\* What a refused command leaves in the arrays is never looked at.
LEMMA RefusedKeeps ==
  ASSUME TypeOK, NEW command \in Words, NEW result, Execute(command, result),
         result.pos \in Positions, Aligned(result.pos), ~result.ok
  PROVE  TypeOK' /\ LineAligned'
BY ExecuteTyped, ExecuteAligns

\* parse_write keeps the types, and leaves off at the start of a line.
LEMMA PairKeeps ==
  ASSUME TypeOK, Pair
  PROVE  TypeOK' /\ LineAligned'
<1> DEFINE key   == read_string(pos)
           value == read_string(key.pos)
           pairs == Append(batch, <<key.str, value.str>>)
           next  == Char(value.pos)
<1>1. /\ file \in Seq(Characters) /\ pos \in Positions /\ cmd = "WRITE" /\ cmd \in Words \ Single
      /\ batch \in Seq(ToSet(batch)) /\ Fits(cmd, batch) /\ program = "server"
      /\ Len(batch) < MAX_WRITE_SIZE /\ MAX_WRITE_SIZE \in Nat
  BY SizeAssumption DEF TypeOK, Positions, Pair, Words, WordsOf, Single, None
<1>2. key.pos \in Positions /\ Len(key.str) < MAX_STRING_SIZE
  BY <1>1, StringFits
<1>3. value.pos \in Positions /\ Len(value.str) < MAX_STRING_SIZE
  BY <1>1, <1>2, StringFits
<1>4. pairs \in Seq(ToSet(pairs)) /\ Len(pairs) = Len(batch) + 1 /\ Len(batch) \in Nat
  <2> DEFINE e == <<key.str, value.str>>
  <2> HIDE DEF e
  <2>1. Append(batch, e) \in Seq(ToSet(Append(batch, e))) /\ Len(Append(batch, e)) = Len(batch) + 1
        /\ Len(batch) \in Nat
    BY <1>1, AppendKeeps
  <2> QED
    BY <2>1 DEF e
<1>5. Len(pairs) # MAX_WRITE_SIZE => Len(pairs) < MAX_WRITE_SIZE /\ Fits(cmd, pairs)
  <2> SUFFICES ASSUME Len(pairs) # MAX_WRITE_SIZE PROVE Len(pairs) < MAX_WRITE_SIZE /\ Fits(cmd, pairs)
    OBVIOUS
  <2>1. Len(batch) + 1 < MAX_WRITE_SIZE
    BY <1>1, <1>4
  <2> QED
    BY <1>1, <1>2, <1>3, <1>4, <2>1, PairFits
<1>6. \/ Execute(cmd, RefusedTwice(key.pos))
      \/ Execute(cmd, RefusedTwice(value.pos))
      \/ Execute(cmd, Refused(value.pos))
      \/ next = "]" /\ Len(pairs) # MAX_WRITE_SIZE /\ Execute(cmd, EndOfLine(value.pos + 1, pairs))
      \/ next = "(" /\ Len(pairs) # MAX_WRITE_SIZE /\ Continue(cmd, pairs, value.pos + 1)
  BY DEF Pair
<1> HIDE DEF key, value, pairs, next
<1>7. CASE Execute(cmd, RefusedTwice(key.pos))
  BY <1>1, <1>2, <1>7, RefusalAligns, RefusedKeeps
<1>8. CASE Execute(cmd, RefusedTwice(value.pos))
  BY <1>1, <1>3, <1>8, RefusalAligns, RefusedKeeps
<1>9. CASE Execute(cmd, Refused(value.pos))
  BY <1>1, <1>3, <1>9, RefusalAligns, RefusedKeeps
<1>10. CASE next = "]" /\ Len(pairs) # MAX_WRITE_SIZE /\ Execute(cmd, EndOfLine(value.pos + 1, pairs))
  <2>1. "]" # Nothing
    BY Zenon DEF Nothing
  <2>2. value.pos + 1 \in Positions
    BY <1>1, <1>3, <1>10, <2>1, Reads DEF next
  <2> DEFINE result == EndOfLine(value.pos + 1, pairs)
  <2>3. result.pos \in Positions /\ Aligned(result.pos) /\ (result.ok => result.batch = pairs)
    BY <1>1, <2>2, EndOfLineAligns
  <2>4. Execute(cmd, result)
    BY <1>10
  <2> HIDE DEF result
  <2> QED
    BY <1>1, <1>5, <1>10, <2>3, <2>4, ExecuteTyped, ExecuteAligns
<1>11. CASE next = "(" /\ Len(pairs) # MAX_WRITE_SIZE /\ Continue(cmd, pairs, value.pos + 1)
  <2>1. "(" # Nothing
    BY Zenon DEF Nothing
  <2>2. value.pos + 1 \in Positions
    BY <1>1, <1>3, <1>11, <2>1, Reads DEF next
  <2>3. TypeOK'
    BY <1>1, <1>4, <1>5, <1>11, <2>2, ContinueTyped
  <2>4. cmd' # None
    BY <1>1, <1>11 DEF Continue, None
  <2> QED
    BY <2>3, <2>4 DEF LineAligned
<1> QED
  BY <1>6, <1>7, <1>8, <1>9, <1>10, <1>11

\* parse_read_delete and the client's parse_list keep the types, and leave off at
\* the start of a line.
LEMMA KeyKeeps ==
  ASSUME TypeOK, Key
  PROVE  TypeOK' /\ LineAligned'
<1> DEFINE key   == read_string(pos)
           keys  == Append(batch, key.str)
           bad   == key.stop \notin {Comma, "]"} \/ IsFull(keys, key.stop)
           worse == [ok |-> FALSE, batch |-> <<>>, pos |-> cleanup(key.pos)]
<1>1. /\ file \in Seq(Characters) /\ pos \in Positions /\ cmd \in Words \ Single /\ cmd # None
      /\ cmd \in {"READ", "DELETE", "SUBSCRIBE", "UNSUBSCRIBE"}
      /\ cmd \in {"READ", "DELETE"} <=> program = "server"
      /\ batch \in Seq(ToSet(batch)) /\ Fits(cmd, batch) /\ MAX_WRITE_SIZE \in Nat
      /\ Len(batch) < IF program = "server" THEN MAX_WRITE_SIZE ELSE 1
  BY SizeAssumption DEF TypeOK, Positions, Key, Words, WordsOf, Single, None
<1>2. key.pos \in Positions /\ Len(key.str) < MAX_STRING_SIZE
  BY <1>1, StringFits
<1>3. keys \in Seq(ToSet(keys)) /\ Len(keys) = Len(batch) + 1 /\ Len(batch) \in Nat
  <2> HIDE DEF key
  <2> QED
    BY <1>1, AppendKeeps
<1>4. "]" # Comma
  BY Zenon DEF Comma
<1>5. ~bad => /\ Fits(cmd, keys)
              /\ key.stop # "]" => Len(keys) < IF program = "server" THEN MAX_WRITE_SIZE ELSE 1
  <2> SUFFICES ASSUME ~bad
               PROVE  /\ Fits(cmd, keys)
                      /\ key.stop # "]" => Len(keys) < IF program = "server" THEN MAX_WRITE_SIZE ELSE 1
    OBVIOUS
  <2> HIDE DEF key
  <2>1. CASE program = "server"
    <3>1. Len(batch) + 1 < MAX_WRITE_SIZE
      BY <1>1, <1>3, <2>1 DEF IsFull
    <3> QED
      BY <1>1, <1>2, <1>3, <2>1, <3>1, KeyFits
  <2>2. CASE program # "server"
    <3>1. Len(batch) + 1 = 1 /\ key.stop = "]"
      BY <1>1, <1>3, <2>2 DEF IsFull
    <3> QED
      BY <1>1, <1>2, <1>3, <2>2, <3>1, KeyFits
  <2> QED
    BY <2>1, <2>2
<1>6. \/ Execute(cmd, worse)
      \/ ~bad /\ key.stop = "]" /\ Execute(cmd, EndOfLine(key.pos, keys))
      \/ ~bad /\ key.stop = Comma /\ Continue(cmd, keys, key.pos)
  BY DEF Key
<1>7. worse.pos \in Positions /\ Aligned(worse.pos) /\ ~worse.ok
  BY <1>1, <1>2, CleanupAligns
<1> HIDE DEF key, keys, bad, worse
<1>8. CASE Execute(cmd, worse)
  BY <1>1, <1>7, <1>8, RefusedKeeps
<1>9. CASE ~bad /\ key.stop = "]" /\ Execute(cmd, EndOfLine(key.pos, keys))
  <2> DEFINE result == EndOfLine(key.pos, keys)
  <2>1. result.pos \in Positions /\ Aligned(result.pos) /\ (result.ok => result.batch = keys)
    BY <1>1, <1>2, EndOfLineAligns
  <2>2. Execute(cmd, result)
    BY <1>9
  <2> HIDE DEF result
  <2> QED
    BY <1>1, <1>5, <1>9, <2>1, <2>2, ExecuteTyped, ExecuteAligns
<1>10. CASE ~bad /\ key.stop = Comma /\ Continue(cmd, keys, key.pos)
  <2>1. TypeOK'
    BY <1>1, <1>2, <1>3, <1>4, <1>5, <1>10, ContinueTyped
  <2>2. cmd' # None
    BY <1>1, <1>10 DEF Continue
  <2> QED
    BY <2>1, <2>2 DEF LineAligned
<1> QED
  BY <1>6, <1>8, <1>9, <1>10

-----------------------------------------------------------------------------
(* The loops of the two programs.                                          *)

\* What get_next has found, as the actions use it.
LEMMA Got ==
  ASSUME TypeOK, NEW commands, Gets(commands)
  PROVE  /\ file \in Seq(Characters) /\ pos \in Positions /\ Arguments \in Positions
         /\ get_next(pos).cmd \in commands /\ get_next(pos).cmd \in Words \cup {"EOC", "EMPTY", "INVALID"}
         /\ get_next(pos).cmd \in Single \cup {"EMPTY", "INVALID"} => Aligned(Arguments)
         /\ cmd = None
<1>1. file \in Seq(Characters) /\ pos \in Positions
  BY DEF TypeOK, Positions
<1> QED
  BY <1>1, NextRead DEF Gets, Arguments

\* An empty or invalid line is skipped to its end.
LEMMA SkipKeeps ==
  ASSUME TypeOK, Skip
  PROVE  TypeOK' /\ LineAligned'
<1>1. Arguments \in Positions /\ Aligned(Arguments)
  BY Got DEF Skip
<1>2. pos' = Arguments /\ UNCHANGED <<program, file, cmd, batch, done, over>>
  BY DEF Skip
<1>3. Words' = Words
  BY <1>2 DEF Words, WordsOf
<1> QED
  BY <1>1, <1>2, <1>3 DEF TypeOK, LineAligned, Aligned, Positions, Char

\* A command that stands alone on its line is executed.
LEMMA AloneKeeps ==
  ASSUME TypeOK, Alone
  PROVE  TypeOK' /\ LineAligned'
<1> DEFINE command == get_next(pos).cmd
           result  == [ok |-> TRUE, batch |-> <<>>, pos |-> Arguments]
<1>1. Gets({"SHOW", "BACKUP", "HELP"}) /\ Execute(command, result)
  BY DEF Alone
<1>2. /\ Arguments \in Positions /\ command \in {"SHOW", "BACKUP", "HELP"}
      /\ command \in Words \cup {"EOC", "EMPTY", "INVALID"}
      /\ command \in Single \cup {"EMPTY", "INVALID"} => Aligned(Arguments)
  BY <1>1, Got
<1>3. result.pos \in Positions /\ Aligned(result.pos)
  BY <1>2 DEF Single
<1>4. Fits(command, result.batch) /\ command \in Words
  BY <1>2 DEF Fits
<1> HIDE DEF command, result
<1> QED
  BY <1>1, <1>3, <1>4, ExecuteTyped, ExecuteAligns

\* WRITE begins its list behind two brackets.
LEMMA WriteKeeps ==
  ASSUME TypeOK, Write
  PROVE  TypeOK' /\ LineAligned'
<1>1. Gets({"WRITE"})
  BY DEF Write
<1>2. /\ file \in Seq(Characters) /\ Arguments \in Positions /\ get_next(pos).cmd = "WRITE"
      /\ get_next(pos).cmd \in Words \cup {"EOC", "EMPTY", "INVALID"}
  BY <1>1, Got
<1>3. "WRITE" \in Words \ Single
  BY <1>2 DEF Single
<1>4. CASE Execute("WRITE", Refused(Arguments))
  BY <1>2, <1>3, <1>4, RefusalAligns, RefusedKeeps
<1>5. CASE Char(Arguments) = "[" /\ Execute("WRITE", Refused(Arguments + 1))
  <2>1. "[" # Nothing
    BY Zenon DEF Nothing
  <2>2. Arguments + 1 \in Positions
    BY <1>2, <1>5, <2>1, Reads
  <2> QED
    BY <1>2, <1>3, <1>5, <2>2, RefusalAligns, RefusedKeeps
<1>6. CASE Char(Arguments) = "[" /\ Char(Arguments + 1) = "(" /\ Continue("WRITE", <<>>, Arguments + 2)
  <2>1. "[" # Nothing /\ "(" # Nothing
    BY Zenon DEF Nothing
  <2>2. Arguments + 1 \in Positions
    BY <1>2, <1>6, <2>1, Reads
  <2>3. Arguments + 1 + 1 \in Positions
    BY <1>2, <1>6, <2>1, <2>2, Reads
  <2>4. Arguments + 2 \in Positions
    BY <1>2, <2>3 DEF Positions
  <2>5. /\ <<>> \in Seq(ToSet(<<>>)) /\ Fits("WRITE", <<>>)
        /\ Len(<<>>) < IF program = "server" THEN MAX_WRITE_SIZE ELSE 1
    <3>1. Len(<<>>) = 0 /\ 0 < MAX_WRITE_SIZE
      BY SizeAssumption
    <3> QED
      BY <3>1 DEF Fits
  <2>6. TypeOK'
    BY <1>3, <1>6, <2>4, <2>5, ContinueTyped
  <2>7. cmd' # None
    BY <1>6 DEF Continue, None
  <2> QED
    BY <2>6, <2>7 DEF LineAligned
<1> QED
  BY <1>4, <1>5, <1>6 DEF Write

\* The other lists begin behind one bracket.
LEMMA OpenListKeeps ==
  ASSUME TypeOK, NEW commands \in SUBSET {"READ", "DELETE", "SUBSCRIBE", "UNSUBSCRIBE"},
         OpenList(commands)
  PROVE  TypeOK' /\ LineAligned'
<1> DEFINE command == get_next(pos).cmd
<1>1. Gets(commands)
  BY DEF OpenList
<1>2. /\ file \in Seq(Characters) /\ Arguments \in Positions /\ command \in commands
      /\ command \in Words \cup {"EOC", "EMPTY", "INVALID"}
  BY <1>1, Got
<1>3. \/ Execute(command, Refused(Arguments))
      \/ Char(Arguments) = "[" /\ Continue(command, <<>>, Arguments + 1)
  BY DEF OpenList
<1> HIDE DEF command
<1>4. command \in Words \ Single /\ command \in {"READ", "DELETE", "SUBSCRIBE", "UNSUBSCRIBE"}
  BY <1>2 DEF Single
<1>5. CASE Execute(command, Refused(Arguments))
  BY <1>2, <1>4, <1>5, RefusalAligns, RefusedKeeps
<1>6. CASE Char(Arguments) = "[" /\ Continue(command, <<>>, Arguments + 1)
  <2>1. "[" # Nothing
    BY Zenon DEF Nothing
  <2>2. Arguments + 1 \in Positions
    BY <1>2, <1>6, <2>1, Reads
  <2>3. /\ <<>> \in Seq(ToSet(<<>>)) /\ Fits(command, <<>>)
        /\ Len(<<>>) < IF program = "server" THEN MAX_WRITE_SIZE ELSE 1
    <3>1. Len(<<>>) = 0 /\ 0 < MAX_WRITE_SIZE
      BY SizeAssumption
    <3> QED
      BY <1>4, <3>1 DEF Fits
  <2>4. TypeOK'
    BY <1>4, <1>6, <2>2, <2>3, ContinueTyped
  <2>5. cmd' # None
    BY <1>4, <1>6 DEF Continue, None
  <2> QED
    BY <2>4, <2>5 DEF LineAligned
<1> QED
  BY <1>3, <1>5, <1>6

\* parse_wait leaves off at the start of a line, whatever the number is.
LEMMA WaitKeeps ==
  ASSUME TypeOK, Wait
  PROVE  TypeOK' /\ LineAligned'
<1>1. PICK junk \in Junk : Execute("WAIT", parse_wait(Arguments, junk))
  BY DEF Wait
<1>2. /\ file \in Seq(Characters) /\ Arguments \in Positions /\ "WAIT" \in Words
  BY Got DEF Wait
<1> DEFINE result == parse_wait(Arguments, junk)
           n      == read_uint(Arguments, junk)
<1>3. n.pos \in Positions /\ (n.next \in {"\n", Nothing} => Aligned(n.pos))
  BY <1>2, NumberRead
<1>4. result.pos = IF n.value <= UINT_MAX /\ n.next \in {"\n", Nothing} THEN n.pos ELSE cleanup(n.pos)
  BY DEF parse_wait
<1> HIDE DEF n
<1>5. result.pos \in Positions /\ Aligned(result.pos)
  BY <1>2, <1>3, <1>4, CleanupAligns
<1>6. Fits("WAIT", result.batch)
  BY DEF Fits
<1> HIDE DEF result
<1>7. Execute("WAIT", result)
  BY <1>1 DEF result
<1> QED
  BY <1>2, <1>5, <1>6, <1>7, ExecuteTyped, ExecuteAligns

\* parse_delay leaves off at the start of a line when it refuses the number.
LEMMA DelayKeeps ==
  ASSUME TypeOK, Delay
  PROVE  TypeOK' /\ LineAligned'
<1>1. PICK junk \in Junk : Execute("DELAY", parse_delay(Arguments, junk))
  BY DEF Delay
<1>2. /\ file \in Seq(Characters) /\ Arguments \in Positions /\ "DELAY" \in Words
  BY Got DEF Delay
<1> DEFINE result == parse_delay(Arguments, junk)
           n      == read_uint(Arguments, junk)
<1>3. n.pos \in Positions
  BY <1>2, NumberRead
<1>4. /\ result.pos = IF n.value <= UINT_MAX THEN n.pos ELSE cleanup(n.pos)
      /\ result.ok <=> n.value <= UINT_MAX
  BY DEF parse_delay
<1> HIDE DEF n
<1>5. result.pos \in Positions /\ (result.ok \/ Aligned(result.pos))
  BY <1>2, <1>3, <1>4, CleanupAligns
<1>6. Fits("DELAY", result.batch)
  BY DEF Fits
<1> HIDE DEF result
<1>7. Execute("DELAY", result)
  BY <1>1 DEF result
<1> QED
  BY <1>2, <1>5, <1>6, <1>7, ExecuteTyped, ExecuteAligns

\* The end of the file, and DISCONNECT, leave everything as it is.
LEMMA EndKeeps ==
  ASSUME TypeOK, LineAligned, End
  PROVE  TypeOK' /\ LineAligned'
<1>1. over' = TRUE /\ UNCHANGED <<program, lines, file, pos, cmd, batch, done>>
  BY DEF End
<1>2. Words' = Words
  BY <1>1 DEF Words, WordsOf
<1> QED
  BY <1>1, <1>2 DEF TypeOK, LineAligned, Char

-----------------------------------------------------------------------------
(* What is written is read back.                                           *)

\* cleanup stops behind the first end of a line.
LEMMA CleanupReads ==
  ASSUME file \in Seq(Characters), NEW p \in Positions, NEW e \in p .. Len(file),
         Char(e) = "\n", \A i \in p .. e - 1 : Char(i) # "\n"
  PROVE  cleanup(p) = e + 1
<1> DEFINE ends == {i \in p .. Len(file) : Char(i) = "\n"}
<1>1. Len(file) \in Nat /\ p \in Nat /\ e \in Nat
  BY DEF Positions
<1>2. e \in ends /\ ends \in SUBSET Nat
  BY <1>1
<1>3. cleanup(p) = Min(ends) + 1
  BY <1>2 DEF cleanup
<1>4. Min(ends) \in ends /\ Min(ends) <= e
  <2> HIDE DEF ends
  <2> QED
    BY <1>2, LeastMember
<1>5. Min(ends) \in p .. Len(file) /\ Char(Min(ends)) = "\n"
  BY <1>4
<1> HIDE DEF ends
<1>6. Min(ends) = e
  BY <1>1, <1>4, <1>5
<1> QED
  BY <1>3, <1>6

\* A sequence that stands at p of the file is what is cut out there.
LEMMA Extract ==
  ASSUME file \in Seq(Characters), NEW p \in Positions, NEW s \in Seq(Characters),
         p + Len(s) <= Len(file) + 1, \A i \in 1 .. Len(s) : file[p + i - 1] = s[i]
  PROVE  SubSeq(file, p, p + Len(s) - 1) = s
<1> DEFINE z == Len(s)
           b == p + z - 1
<1>1. /\ p \in Nat \ {0} /\ z \in Nat /\ Len(file) \in Nat /\ b \in Int /\ p \in Int
      /\ b - p + 1 = z /\ b <= Len(file) /\ (p <= b <=> z # 0)
  BY DEF Positions
<1> HIDE DEF z, b
<1>2. \A i \in p .. b : file[i] \in Characters
  BY <1>1
<1>3. /\ SubSeq(file, p, b) \in Seq(Characters)
      /\ Len(SubSeq(file, p, b)) = IF p <= b THEN b - p + 1 ELSE 0
      /\ \A i \in 1 .. b - p + 1 : SubSeq(file, p, b)[i] = file[p + i - 1]
  BY <1>1, <1>2, SubSeqProperties
<1>4. /\ SubSeq(file, p, b) \in Seq(Characters) /\ Len(SubSeq(file, p, b)) = Len(s)
      /\ \A i \in 1 .. Len(s) : SubSeq(file, p, b)[i] = s[i]
  BY <1>1, <1>3 DEF z
<1>5. SubSeq(file, p, b) = s
  BY <1>4, SeqEqual
<1> QED
  BY <1>5 DEF b, z

\* read_string reads a name and what delimits it.
LEMMA NameReads ==
  ASSUME file \in Seq(Characters), NEW p \in Positions, NEW name \in Seq(Characters), Name(name),
         NEW d \in {Comma, ")", "]"}, p + Len(name) <= Len(file), Char(p + Len(name)) = d,
         \A i \in 1 .. Len(name) : Char(p + i - 1) = name[i]
  PROVE  /\ read_string(p).stop = d /\ read_string(p).str = name
         /\ read_string(p).pos = p + Len(name) + 1
<1> DEFINE stops == {i \in p .. After(p, MAX_STRING_SIZE) - 1 : Char(i) \in {Blank, Comma, ")", "]"}}
           e     == p + Len(name)
<1>1. /\ Len(file) \in Nat /\ p \in Nat \ {0} /\ Len(name) \in Nat /\ MAX_STRING_SIZE \in Nat
      /\ e \in Nat /\ Len(name) < MAX_STRING_SIZE
  BY SizeAssumption DEF Positions, Name
<1>2. After(p, MAX_STRING_SIZE) \in Nat /\ e < After(p, MAX_STRING_SIZE)
  <2>1. /\ After(p, MAX_STRING_SIZE) \in p .. Len(file) + 1
        /\ p + MAX_STRING_SIZE <= Len(file) + 1 => After(p, MAX_STRING_SIZE) = p + MAX_STRING_SIZE
        /\ p + MAX_STRING_SIZE > Len(file) => After(p, MAX_STRING_SIZE) = Len(file) + 1
    BY <1>1, AfterReads
  <2> QED
    BY <1>1, <2>1
<1>3. e \in stops
  BY <1>1, <1>2
<1>4. \A i \in p .. e - 1 : Char(i) \notin {Blank, Comma, ")", "]"}
  <2> TAKE i \in p .. e - 1
  <2>1. i - p + 1 \in 1 .. Len(name) /\ p + (i - p + 1) - 1 = i
    BY <1>1
  <2>2. Char(i) = name[i - p + 1]
    BY <2>1
  <2>3. name[i - p + 1] \in ToSet(name)
    BY <1>1, <2>1 DEF ToSet
  <2> QED
    BY <2>2, <2>3 DEF Name
<1>5. Min(stops) \in stops /\ Min(stops) <= e
  <2>1. stops \in SUBSET Nat
    BY <1>1, <1>2
  <2> HIDE DEF stops
  <2> QED
    BY <1>3, <2>1, LeastMember
<1>6. Min(stops) = e
  <2>1. Min(stops) \in p .. After(p, MAX_STRING_SIZE) - 1 /\ Char(Min(stops)) \in {Blank, Comma, ")", "]"}
    BY <1>5
  <2> HIDE DEF stops
  <2> QED
    BY <1>1, <1>2, <1>4, <1>5, <2>1
<1>7. read_string(p) = [stop |-> Char(e), str |-> SubSeq(file, p, e - 1), pos |-> e + 1]
  <2>1. stops # {}
    BY <1>3
  <2> QED
    BY <1>6, <2>1 DEF read_string
<1>8. SubSeq(file, p, e - 1) = name
  <2>1. \A i \in 1 .. Len(name) : file[p + i - 1] = name[i]
    BY <1>1 DEF Char
  <2>2. p + Len(name) <= Len(file) + 1
    BY <1>1
  <2>3. SubSeq(file, p, p + Len(name) - 1) = name
    BY <2>1, <2>2, Extract
  <2>4. e = p + Len(name)
    OBVIOUS
  <2> HIDE DEF e
  <2>5. e - 1 = p + Len(name) - 1
    BY <1>1, <2>4
  <2> QED
    BY <2>3, <2>5, Zenon
<1> QED
  BY <1>7, <1>8

\* read_uint reads the digits of a number and the character behind them.
LEMMA DigitsRead ==
  ASSUME file \in Seq(Characters), NEW p \in Positions, NEW digits \in Seq(Characters), NEW junk,
         ToSet(digits) \subseteq ToSet(Digits), p + Len(digits) <= Len(file),
         Char(p + Len(digits)) \notin ToSet(Digits),
         \A i \in 1 .. Len(digits) : Char(p + i - 1) = digits[i]
  PROVE  /\ read_uint(p, junk).value = Number(digits)
         /\ read_uint(p, junk).next = Char(p + Len(digits))
         /\ read_uint(p, junk).pos = p + Len(digits) + 1
<1> DEFINE stops == {i \in p .. Len(file) + 1 : Char(i) \notin ToSet(Digits)}
           e     == p + Len(digits)
<1>1. Len(file) \in Nat /\ p \in Nat \ {0} /\ Len(digits) \in Nat /\ e \in Nat
  BY DEF Positions
<1>2. e \in stops /\ stops \in SUBSET Nat
  BY <1>1
<1>3. \A i \in p .. e - 1 : Char(i) \in ToSet(Digits)
  <2> TAKE i \in p .. e - 1
  <2>1. i - p + 1 \in 1 .. Len(digits) /\ p + (i - p + 1) - 1 = i
    BY <1>1
  <2>2. Char(i) = digits[i - p + 1]
    BY <2>1
  <2>3. digits[i - p + 1] \in ToSet(digits)
    BY <1>1, <2>1 DEF ToSet
  <2> QED
    BY <2>2, <2>3
<1>4. Min(stops) \in stops /\ Min(stops) <= e
  <2> HIDE DEF stops
  <2> QED
    BY <1>2, LeastMember
<1>5. Min(stops) = e
  <2>1. Min(stops) \in p .. Len(file) + 1 /\ Char(Min(stops)) \notin ToSet(Digits)
    BY <1>4
  <2> DEFINE m == Min(stops)
  <2>2. m \in Nat /\ p <= m /\ m <= e /\ Char(m) \notin ToSet(Digits)
    BY <1>1, <1>4, <2>1
  <2> HIDE DEF stops, m
  <2>3. m # e => m \in p .. e - 1
    BY <1>1, <2>2
  <2>4. m = e
    BY <1>3, <2>2, <2>3, Zenon
  <2> QED
    BY <2>4 DEF m
<1>6. read_uint(p, junk) =
        [value |-> Number(IF e > Len(file) THEN SubSeq(file, p, e - 1) \o junk ELSE SubSeq(file, p, e - 1)),
         next |-> Char(e), pos |-> After(e, 1)]
  BY <1>5 DEF read_uint
<1>7. SubSeq(file, p, e - 1) = digits
  <2>1. \A i \in 1 .. Len(digits) : file[p + i - 1] = digits[i]
    BY <1>1 DEF Char
  <2>2. p + Len(digits) <= Len(file) + 1
    BY <1>1
  <2>3. SubSeq(file, p, p + Len(digits) - 1) = digits
    BY <2>1, <2>2, Extract
  <2>4. e = p + Len(digits)
    OBVIOUS
  <2> HIDE DEF e
  <2>5. e - 1 = p + Len(digits) - 1
    BY <1>1, <2>4
  <2> QED
    BY <2>3, <2>5, Zenon
<1>8. After(e, 1) = e + 1
  <2>1. e \in Positions
    BY <1>1 DEF Positions
  <2> QED
    BY <1>1, <2>1, OneRead
<1>9. ~ (e > Len(file))
  BY <1>1
<1>10. read_uint(p, junk) = [value |-> Number(digits), next |-> Char(e), pos |-> e + 1]
  BY <1>6, <1>7, <1>8, <1>9
<1> QED
  BY <1>10

\* No two words of a program begin with the same two letters, which are no end of a
\* line and begin no comment.
LEMMA WordsApart ==
  ASSUME NEW v \in Words, NEW w \in Words
  PROVE  /\ Spelled[v][1] = Spelled[w][1] /\ Spelled[v][2] = Spelled[w][2] => v = w
         /\ Spelled[w][1] \notin {"\n", "#"} /\ Length(w) \in 2 .. 12
<1>1. CASE program = "server"
  <2>1. /\ v \in {"WAIT", "WRITE", "READ", "DELETE", "SHOW", "BACKUP", "HELP"}
        /\ w \in {"WAIT", "WRITE", "READ", "DELETE", "SHOW", "BACKUP", "HELP"}
    BY <1>1 DEF Words, WordsOf
  <2> QED
    BY <2>1 DEF Spelled, Length
<1>2. CASE program # "server"
  <2>1. /\ v \in {"SUBSCRIBE", "UNSUBSCRIBE", "DELAY", "DISCONNECT"}
        /\ w \in {"SUBSCRIBE", "UNSUBSCRIBE", "DELAY", "DISCONNECT"}
    BY <1>2 DEF Words, WordsOf
  <2> QED
    BY <2>1 DEF Spelled, Length
<1> QED
  BY <1>1, <1>2

\* get_next finds a word that stands at its place.
LEMMA WordReads ==
  ASSUME file \in Seq(Characters), NEW p \in Positions, NEW w \in Words, Stands(p, w)
  PROVE  /\ p + Length(w) \in Positions /\ Length(w) \in Nat
         /\ w \notin Single => get_next(p) = [cmd |-> w, pos |-> p + Length(w)]
         /\ w \in Single /\ Char(p + Length(w)) \in {"\n", Nothing} =>
              get_next(p) = [cmd |-> w, pos |-> After(p + Length(w), 1)]
<1> DEFINE words == {v \in Words : Spelled[v][1] = Char(p)}
           found == {v \in words : Stands(p, v)}
           word  == CHOOSE v \in found : TRUE
<1>1. Len(file) \in Nat /\ p \in Nat \ {0} /\ Length(w) \in 2 .. 12 /\ Spelled[w][1] \notin {"\n", "#"}
  BY WordsApart DEF Positions
<1>2. p + Length(w) <= Len(file) + 1 /\ p <= Len(file) /\ p + Length(w) \in Positions
  BY <1>1 DEF Stands, Positions
<1>3. ASSUME NEW v \in Words, Stands(p, v)
      PROVE  file[p] = Spelled[v][1] /\ file[p + 1] = Spelled[v][2]
  <2>1. Length(v) \in 2 .. 12
    BY WordsApart
  <2>2. 1 \in 1 .. Length(v) /\ 2 \in 1 .. Length(v) /\ p + 1 - 1 = p /\ p + 2 - 1 = p + 1
    BY <1>1, <2>1
  <2> QED
    BY <1>3, <2>2 DEF Stands
<1>4. Char(p) = Spelled[w][1]
  BY <1>1, <1>2, <1>3 DEF Char
<1>5. w \in found
  BY <1>4
<1>6. \A v \in found : v = w
  <2> TAKE v \in found
  <2>1. v \in Words /\ Stands(p, v)
    OBVIOUS
  <2> QED
    BY <1>3, <2>1, WordsApart
<1>7. word = w
  BY <1>5, <1>6
<1>8. get_next(p) =
        IF found = {} THEN [cmd |-> "INVALID", pos |-> cleanup(After(p, Max({1} \cup {Length(v) : v \in words})))]
        ELSE IF word \notin Single THEN [cmd |-> word, pos |-> p + Length(word)]
        ELSE IF Char(p + Length(word)) \in {"\n", Nothing} THEN [cmd |-> word, pos |-> After(p + Length(word), 1)]
        ELSE [cmd |-> "INVALID", pos |-> cleanup(p + Length(word) + 1)]
  BY <1>1, <1>2, <1>4 DEF get_next
<1> HIDE DEF found, word, words
<1>9. get_next(p) =
        IF w \notin Single THEN [cmd |-> w, pos |-> p + Length(w)]
        ELSE IF Char(p + Length(w)) \in {"\n", Nothing} THEN [cmd |-> w, pos |-> After(p + Length(w), 1)]
        ELSE [cmd |-> "INVALID", pos |-> cleanup(p + Length(w) + 1)]
  BY <1>5, <1>7, <1>8
<1> QED
  BY <1>1, <1>2, <1>9

-----------------------------------------------------------------------------
(* The lines of the file.                                                  *)

AllValid == Sort("valid") = DOMAIN lines

\* The texts of the lines are in the file, one behind the other.
LEMMA LineAt ==
  ASSUME TypeOK, FileRead, NEW k \in 1 .. Len(lines)
  PROVE  /\ lines[k].text \in Seq(Characters) /\ Len(lines[k].text) \in Nat
         /\ Start(k) \in Nat \ {0} /\ Start(k + 1) = Start(k) + Len(lines[k].text)
         /\ Start(k + 1) <= Len(file) + 1 /\ Len(file) \in Nat
         /\ \A j \in 1 .. Len(lines[k].text) :
              Start(k) + j - 1 <= Len(file) /\ file[Start(k) + j - 1] = lines[k].text[j]
<1> DEFINE seqs == Texts(lines)
           t    == lines[k].text
<1>1. /\ lines \in Seq(ToSet(lines)) /\ \A i \in DOMAIN lines : lines[i].text \in Seq(Characters)
      /\ Len(lines) \in Nat /\ k \in DOMAIN lines
  BY FileAssumption DEF TypeOK, FileRead
<1>2. seqs \in Seq(Seq(Characters)) /\ Len(seqs) = Len(lines) /\ seqs[k] = t
  BY <1>1 DEF Texts
<1> HIDE DEF seqs
<1>3. /\ Len(Part(seqs, k - 1)) \in Nat /\ Len(seqs[k]) \in Nat /\ Len(FlattenSeq(seqs)) \in Nat
      /\ Len(Part(seqs, k)) = Len(Part(seqs, k - 1)) + Len(seqs[k])
      /\ Len(Part(seqs, k)) <= Len(FlattenSeq(seqs))
      /\ \A j \in 1 .. Len(seqs[k]) : FlattenSeq(seqs)[Len(Part(seqs, k - 1)) + j] = seqs[k][j]
  <2>1. k \in 1 .. Len(seqs)
    BY <1>2
  <2> QED
    BY <1>2, <2>1, PartAt
<1>4. file = FlattenSeq(seqs)
  BY DEF FileRead, Text, seqs
<1>5. Start(k) = Len(Part(seqs, k - 1)) + 1 /\ Start(k + 1) = Len(Part(seqs, k)) + 1
  <2>1. (k + 1) - 1 = k
    BY <1>1
  <2> QED
    BY <2>1 DEF Start, seqs
<1>6. t \in Seq(Characters) /\ Len(t) \in Nat
  BY <1>1
<1> HIDE DEF t
<1>7. ASSUME NEW j \in 1 .. Len(t)
      PROVE  Start(k) + j - 1 <= Len(file) /\ file[Start(k) + j - 1] = t[j]
  <2>1. Start(k) + j - 1 = Len(Part(seqs, k - 1)) + j /\ Start(k) + j - 1 <= Len(Part(seqs, k))
    BY <1>2, <1>3, <1>5, <1>6
  <2> QED
    BY <1>2, <1>3, <1>4, <1>5, <1>6, <2>1
<1>8. Start(k) \in Nat \ {0} /\ Start(k + 1) = Start(k) + Len(t) /\ Start(k + 1) <= Len(file) + 1
      /\ Len(file) \in Nat
  BY <1>2, <1>3, <1>4, <1>5, <1>6
<1> QED
  BY <1>6, <1>7, <1>8 DEF t

\* The first line begins where the file does, and the last ends there.
LEMMA LinesEnd ==
  ASSUME TypeOK, FileRead
  PROVE  /\ Len(lines) \in Nat /\ DOMAIN lines = 1 .. Len(lines)
         /\ Start(1) = 1 /\ Start(Len(lines) + 1) = Len(file) + 1
<1> DEFINE seqs == Texts(lines)
<1>1. /\ lines \in Seq(ToSet(lines)) /\ \A i \in DOMAIN lines : lines[i].text \in Seq(Characters)
      /\ Len(lines) \in Nat /\ DOMAIN lines = 1 .. Len(lines)
  BY FileAssumption DEF TypeOK, FileRead
<1>2. seqs \in Seq(Seq(Characters)) /\ Len(seqs) = Len(lines)
  BY <1>1 DEF Texts
<1> HIDE DEF seqs
<1>3. Part(seqs, 0) = <<>> /\ Part(seqs, Len(seqs)) = FlattenSeq(seqs)
  BY <1>2, Parts
<1>4. Start(1) = Len(Part(seqs, 0)) + 1 /\ Start(Len(lines) + 1) = Len(Part(seqs, Len(seqs))) + 1
  <2>1. 1 - 1 = 0 /\ (Len(lines) + 1) - 1 = Len(seqs)
    BY <1>1, <1>2
  <2> QED
    BY <2>1 DEF Start, seqs
<1>5. Len(<<>>) = 0 /\ file = FlattenSeq(seqs)
  BY DEF FileRead, Text, seqs
<1> QED
  BY <1>1, <1>3, <1>4, <1>5

\* What a line may be, when all are valid: at most one command.
LEMMA LineKinds ==
  ASSUME TypeOK, FileRead, AllValid, NEW k \in 1 .. Len(lines)
  PROVE  /\ InnerLine(lines[k], Words) \/ (k = Len(lines) /\ LastLine(lines[k], Words))
         /\ lines[k].means = <<>> \/ lines[k].means = <<lines[k].means[1]>>
<1>1. program \in {"server", "client"} /\ lines \in Files[program] /\ k \in DOMAIN lines
  BY LinesEnd DEF TypeOK, FileRead
<1>2. lines[k].sort = "valid"
  BY <1>1 DEF AllValid, Sort
<1>3. InnerLine(lines[k], Words) \/ (k = Len(lines) /\ LastLine(lines[k], Words))
  BY <1>1, <1>2, LineAssumption DEF Words
<1>4. ASSUME NEW e, lines[k].means = <<e>>
      PROVE  lines[k].means = <<lines[k].means[1]>>
  <2>1. <<e>>[1] = e
    OBVIOUS
  <2> QED
    BY <1>4, <2>1, Zenon
<1>5. CASE InnerLine(lines[k], Words)
  <2>1. lines[k].means = <<>> \/ lines[k].means = <<<<lines[k].means[1][1], lines[k].means[1][2]>>>>
    BY <1>5, Zenon DEF InnerLine
  <2>2. lines[k].means # <<>> => lines[k].means = <<lines[k].means[1]>>
    <3> DEFINE e == <<lines[k].means[1][1], lines[k].means[1][2]>>
    <3>1. lines[k].means # <<>> => lines[k].means = <<e>>
      BY <2>1
    <3> HIDE DEF e
    <3> QED
      BY <1>4, <3>1
  <2> QED
    BY <1>3, <2>2
<1>6. CASE LastLine(lines[k], Words)
  <2>1. PICK word : lines[k].means = IF word = "DISCONNECT" THEN <<>> ELSE <<<<word, <<>>>>>>
    BY <1>6 DEF LastLine
  <2>2. lines[k].means = <<>> \/ lines[k].means = <<<<word, <<>>>>>>
    BY <2>1
  <2>3. lines[k].means # <<>> => lines[k].means = <<lines[k].means[1]>>
    <3> DEFINE e == <<word, <<>>>>
    <3>1. lines[k].means # <<>> => lines[k].means = <<e>>
      BY <2>2
    <3> HIDE DEF e
    <3> QED
      BY <1>4, <3>1
  <2> QED
    BY <1>3, <2>3
<1> QED
  BY <1>3, <1>5, <1>6

\* What the lines up to one ask for.
LEMMA Meanings ==
  ASSUME TypeOK, FileRead, AllValid
  PROVE  /\ Meant(0) = <<>> /\ Meant(Len(lines)) = Meaning(lines) /\ Len(Meaning(lines)) \in Nat
         /\ \A k \in 1 .. Len(lines) :
              /\ lines[k].means = <<>> => Meant(k) = Meant(k - 1)
              /\ \A e : lines[k].means = <<e>> => Meant(k) = Append(Meant(k - 1), e)
              /\ IsPrefix(Meant(k), Meaning(lines))
<1> DEFINE seqs == Means(lines)
           S    == {lines[i].means[1] : i \in DOMAIN lines}
<1>1. Len(lines) \in Nat /\ DOMAIN lines = 1 .. Len(lines)
  BY LinesEnd
<1>2. seqs \in Seq(Seq(S)) /\ Len(seqs) = Len(lines) /\ \A k \in 1 .. Len(lines) : seqs[k] = lines[k].means
  <2>1. ASSUME NEW k \in 1 .. Len(lines)
        PROVE  lines[k].means \in Seq(S)
    <3>1. lines[k].means[1] \in S
      BY <1>1
    <3>2. lines[k].means = <<>> \/ lines[k].means = <<lines[k].means[1]>>
      BY LineKinds
    <3> HIDE DEF S
    <3>3. <<>> \in Seq(S) /\ <<lines[k].means[1]>> \in Seq(S)
      BY <3>1
    <3> QED
      BY <3>2, <3>3, Zenon
  <2> HIDE DEF S
  <2> QED
    BY <1>1, <2>1 DEF Means
<1> HIDE DEF S, seqs
<1>3. /\ Part(seqs, 0) = <<>> /\ Part(seqs, Len(seqs)) = FlattenSeq(seqs)
      /\ \A m \in 0 .. Len(seqs) - 1 : Part(seqs, m + 1) = Part(seqs, m) \o seqs[m + 1]
      /\ \A m \in 0 .. Len(seqs) : Part(seqs, m) \in Seq(S)
  BY <1>2, Parts
<1>4. \A k : Meant(k) = Part(seqs, k)
  BY DEF Meant, seqs
<1>5. Meaning(lines) = FlattenSeq(seqs)
  BY DEF Meaning, seqs
<1>6. ASSUME NEW k \in 1 .. Len(lines)
      PROVE  /\ lines[k].means = <<>> => Meant(k) = Meant(k - 1)
             /\ \A e : lines[k].means = <<e>> => Meant(k) = Append(Meant(k - 1), e)
             /\ IsPrefix(Meant(k), Meaning(lines))
  <2>1. k - 1 \in 0 .. Len(seqs) - 1 /\ (k - 1) + 1 = k /\ k - 1 \in 0 .. Len(seqs) /\ k \in 0 .. Len(seqs)
        /\ k \in 1 .. Len(seqs) /\ Len(seqs) \in 0 .. Len(seqs)
    BY <1>1, <1>2
  <2>2. Part(seqs, k) = Part(seqs, k - 1) \o seqs[k] /\ Part(seqs, k - 1) \in Seq(S)
    BY <1>3, <2>1
  <2>3. lines[k].means = <<>> => Meant(k) = Meant(k - 1)
    <3>1. Part(seqs, k - 1) \o <<>> = Part(seqs, k - 1)
      BY <2>2, ConcatEmptySeq
    <3> QED
      BY <1>2, <1>4, <2>2, <3>1
  <2>4. ASSUME NEW e, lines[k].means = <<e>>
        PROVE  Meant(k) = Append(Meant(k - 1), e)
    <3>1. seqs[k] = <<e>>
      BY <1>2, <2>4
    <3>2. e \in S
      <4>1. seqs[k] \in Seq(S)
        BY <1>2, <2>1
      <4> DEFINE s == seqs[k]
      <4>2. s \in Seq(S) /\ Len(s) = 1 /\ s[1] = e
        BY <3>1, <4>1
      <4> HIDE DEF s
      <4> QED
        BY <4>2
    <3>3. Append(Part(seqs, k - 1), e) = Part(seqs, k - 1) \o <<e>>
      BY <2>2, <3>2, AppendIsConcat
    <3> QED
      BY <1>4, <2>2, <3>1, <3>3
  <2>5. IsPrefix(Part(seqs, k), FlattenSeq(seqs))
    <3> DEFINE s == Part(seqs, k)
               t == FlattenSeq(seqs)
    <3>1. s \in Seq(S) /\ t \in Seq(S)
      BY <1>3, <2>1
    <3>2. Len(s) <= Len(t) /\ \A j \in 1 .. Len(s) : t[j] = s[j]
      BY <1>2, <2>1, PartAt
    <3> HIDE DEF s, t
    <3>3. Len(s) \in Nat /\ Len(t) \in Nat
      BY <3>1
    <3>4. SubSeq(s, 1, Len(s)) = SubSeq(t, 1, Len(s))
      <4>1. \A i \in 1 .. Len(s) : s[i] \in S /\ t[i] \in S
        BY <3>1, <3>2, <3>3
      <4>2. /\ SubSeq(s, 1, Len(s)) \in Seq(S) /\ SubSeq(t, 1, Len(s)) \in Seq(S)
            /\ Len(SubSeq(s, 1, Len(s))) = Len(SubSeq(t, 1, Len(s)))
            /\ \A i \in 1 .. Len(SubSeq(s, 1, Len(s))) : SubSeq(s, 1, Len(s))[i] = SubSeq(t, 1, Len(s))[i]
        BY <3>1, <3>2, <3>3, <4>1
      <4> QED
        BY <4>2, SeqEqual
    <3>5. IsPrefix(s, t)
      BY <3>2, <3>4 DEF IsPrefix
    <3> QED
      BY <3>5 DEF s, t
  <2> QED
    BY <1>4, <1>5, <2>3, <2>4, <2>5
<1>7. Len(Meaning(lines)) \in Nat
  <2>1. Len(seqs) \in 0 .. Len(seqs)
    BY <1>2
  <2>2. Meaning(lines) \in Seq(S)
    BY <1>3, <1>5, <2>1
  <2> QED
    BY <2>2
<1> QED
  BY <1>2, <1>3, <1>4, <1>5, <1>6, <1>7

-----------------------------------------------------------------------------
(* The text of a line.                                                     *)

\* The characters, with those the grammar writes out: no prover knows of a string
\* constant that it is in STRING.
Alphabet ==
  Characters \cup
    {"A", "B", "C", "D", "E", "H", "I", "K", "L", "N", "O", "P", "R", "S", "T", "U", "W", "Y",
     "[", "]", "(", ")", "\n", Blank, Comma}

\* Words are written in the alphabet, and so is every text.
LEMMA Spells ==
  /\ \A w \in Words : Spelled[w] \in Seq(Alphabet) /\ Length(w) = Len(Spelled[w]) /\ Length(w) \in 2 .. 12
  /\ Seq(Characters) \subseteq Seq(Alphabet) /\ <<>> \in Seq(Alphabet)
  /\ \A c \in {"[", "]", "(", ")", "\n", Blank, Comma} : c \in Alphabet /\ <<c>> \in Seq(Alphabet)
<1>1. Spelled.WAIT \in Seq(Alphabet) /\ Spelled.WRITE \in Seq(Alphabet)
      /\ Spelled.READ \in Seq(Alphabet) /\ Spelled.DELETE \in Seq(Alphabet)
      /\ Spelled.SHOW \in Seq(Alphabet) /\ Spelled.BACKUP \in Seq(Alphabet)
      /\ Spelled.HELP \in Seq(Alphabet)
  BY DEF Spelled, Alphabet
<1>2. Spelled.SUBSCRIBE \in Seq(Alphabet) /\ Spelled.UNSUBSCRIBE \in Seq(Alphabet)
      /\ Spelled.DELAY \in Seq(Alphabet) /\ Spelled.DISCONNECT \in Seq(Alphabet)
  BY DEF Spelled, Alphabet
<1>3. ASSUME NEW w \in Words
      PROVE  Spelled[w] \in Seq(Alphabet)
  <2>1. w \in {"WAIT", "WRITE", "READ", "DELETE", "SHOW", "BACKUP", "HELP",
               "SUBSCRIBE", "UNSUBSCRIBE", "DELAY", "DISCONNECT"}
    BY DEF Words, WordsOf
  <2> QED
    BY <1>1, <1>2, <2>1
<1>4. Characters \subseteq Alphabet
  BY DEF Alphabet
<1>5. \A c \in {"[", "]", "(", ")", "\n", Blank, Comma} : c \in Alphabet
  BY DEF Alphabet
<1> QED
  BY <1>3, <1>4, <1>5, WordsApart DEF Length

\* Behind two sequences, one after the other.
LEMMA Halves ==
  ASSUME NEW S, NEW s \in Seq(S), NEW t \in Seq(S)
  PROVE  /\ s \o t \in Seq(S) /\ Len(s) \in Nat /\ Len(t) \in Nat /\ Len(s \o t) = Len(s) + Len(t)
         /\ \A i \in 1 .. Len(s) : (s \o t)[i] = s[i]
         /\ \A i \in 1 .. Len(t) : (s \o t)[Len(s) + i] = t[i]
<1>1. Len(s) \in Nat /\ Len(t) \in Nat
  OBVIOUS
<1>2. /\ s \o t \in Seq(S) /\ Len(s \o t) = Len(s) + Len(t)
      /\ \A i \in 1 .. Len(s) + Len(t) : (s \o t)[i] = IF i <= Len(s) THEN s[i] ELSE t[i - Len(s)]
  BY ConcatProperties
<1>3. ASSUME NEW i \in 1 .. Len(t)
      PROVE  (s \o t)[Len(s) + i] = t[i]
  <2>1. Len(s) + i \in 1 .. Len(s) + Len(t) /\ ~ (Len(s) + i <= Len(s)) /\ (Len(s) + i) - Len(s) = i
    BY <1>1
  <2> QED
    BY <1>2, <2>1
<1>4. ASSUME NEW i \in 1 .. Len(s)
      PROVE  (s \o t)[i] = s[i]
  BY <1>1, <1>2
<1> QED
  BY <1>1, <1>2, <1>3, <1>4

\* A line that begins with a word: the word stands where the line begins, and the rest
\* of the line is behind it.
LEMMA WordLine ==
  ASSUME TypeOK, FileRead, NEW k \in 1 .. Len(lines), NEW w \in Words, NEW rest \in Seq(Alphabet),
         lines[k].text = Spelled[w] \o rest
  PROVE  /\ file \in Seq(Characters) /\ Start(k) \in Positions /\ Stands(Start(k), w)
         /\ Start(k) + Length(w) \in Positions /\ Len(rest) \in Nat /\ Length(w) \in Nat
         /\ Start(k + 1) = Start(k) + Length(w) + Len(rest) /\ Start(k + 1) \in Positions
         /\ \A j \in 1 .. Len(rest) :
              /\ Start(k) + Length(w) + j - 1 \in Positions /\ Start(k) + Length(w) + j - 1 <= Len(file)
              /\ Char(Start(k) + Length(w) + j - 1) = rest[j]
<1> DEFINE t == lines[k].text
           b == Start(k)
           n == Length(w)
<1>1. /\ Len(t) \in Nat /\ b \in Nat \ {0} /\ Start(k + 1) = b + Len(t)
      /\ Start(k + 1) <= Len(file) + 1 /\ Len(file) \in Nat
      /\ \A j \in 1 .. Len(t) : b + j - 1 <= Len(file) /\ file[b + j - 1] = t[j]
  BY LineAt
<1>2. Spelled[w] \in Seq(Alphabet) /\ n = Len(Spelled[w]) /\ n \in 2 .. 12
  BY Spells
<1>3. /\ Len(t) = n + Len(rest) /\ Len(rest) \in Nat
      /\ \A i \in 1 .. n : t[i] = Spelled[w][i]
      /\ \A i \in 1 .. Len(rest) : t[n + i] = rest[i]
  BY <1>2, Halves
<1> HIDE DEF b, n, t
<1>4. ASSUME NEW j \in 1 .. Len(rest)
      PROVE  /\ b + n + j - 1 \in Positions /\ b + n + j - 1 <= Len(file)
             /\ Char(b + n + j - 1) = rest[j]
  <2>1. n + j \in 1 .. Len(t) /\ b + (n + j) - 1 = b + n + j - 1
    BY <1>1, <1>2, <1>3
  <2>2. b + n + j - 1 <= Len(file) /\ file[b + n + j - 1] = rest[j]
    BY <1>1, <1>3, <2>1
  <2> QED
    <3> DEFINE v == b + n + j - 1
    <3>1. v \in Nat \ {0}
      <4>1. b \in Nat \ {0} /\ n \in Nat /\ j \in Nat \ {0}
        BY <1>1, <1>2, <1>3
      <4> QED
        BY <4>1
    <3>2. v <= Len(file) /\ file[v] = rest[j] /\ Len(file) \in Nat
      BY <1>1, <2>2
    <3> HIDE DEF v
    <3>3. v \in Positions /\ v <= Len(file) /\ Char(v) = rest[j]
      BY <3>1, <3>2 DEF Positions, Char
    <3> QED
      BY <3>3 DEF v
<1>5. Stands(Start(k), w)
  <2>1. \A i \in 1 .. n : i \in 1 .. Len(t)
    BY <1>1, <1>2, <1>3
  <2>2. \A i \in 1 .. n : file[b + i - 1] = Spelled[w][i]
    BY <1>1, <1>3, <2>1
  <2>3. b + n <= Len(file) + 1
    BY <1>1, <1>2, <1>3
  <2> QED
    BY <2>2, <2>3 DEF Stands, b, n
<1>6. /\ b \in Positions /\ b + n \in Positions /\ n \in Nat
      /\ Start(k + 1) = b + n + Len(rest) /\ Start(k + 1) \in Positions
  BY <1>1, <1>2, <1>3, SMTT(60) DEF Positions
<1>7. file \in Seq(Characters)
  BY DEF TypeOK
<1> QED
  BY <1>3, <1>4, <1>5, <1>6, <1>7 DEF b, n

-----------------------------------------------------------------------------
(* What is written is executed: the steps.                                 *)

\* What is said of the lines keeps while the file is the same.
LEMMA Frame ==
  ASSUME UNCHANGED <<program, lines, file>>
  PROVE  /\ FileRead' = FileRead /\ AllValid' = AllValid /\ Words' = Words
         /\ \A k : Start(k)' = Start(k) /\ Meant(k)' = Meant(k) /\ Char(k)' = Char(k)
<1>1. FileRead' = FileRead /\ AllValid' = AllValid /\ Words' = Words
  BY DEF FileRead, AllValid, Sort, Words, WordsOf, Text, Texts
<1>2. \A k : Start(k)' = Start(k) /\ Meant(k)' = Meant(k) /\ Char(k)' = Char(k)
  BY DEF Start, Meant, Char, Texts, Means, Part
<1> QED
  BY <1>1, <1>2

\* What the next action is, by what get_next finds.
LEMMA NextIs ==
  ASSUME Next
  PROVE  /\ cmd = None => ~over
         /\ cmd = None /\ get_next(pos).cmd \in {"EMPTY", "INVALID"} => Skip
         /\ cmd = None /\ get_next(pos).cmd \in {"SHOW", "BACKUP", "HELP"} => Alone
         /\ cmd = None /\ get_next(pos).cmd = "WRITE" => Write
         /\ cmd = None /\ get_next(pos).cmd \in {"READ", "DELETE"} => OpenList({"READ", "DELETE"})
         /\ cmd = None /\ get_next(pos).cmd \in {"SUBSCRIBE", "UNSUBSCRIBE"} =>
              OpenList({"SUBSCRIBE", "UNSUBSCRIBE"})
         /\ cmd = None /\ get_next(pos).cmd = "WAIT" => Wait
         /\ cmd = None /\ get_next(pos).cmd = "DELAY" => Delay
         /\ cmd = None /\ get_next(pos).cmd \in {"EOC", "DISCONNECT"} => End
         /\ cmd = "WRITE" => Pair
         /\ cmd \in {"READ", "DELETE", "SUBSCRIBE", "UNSUBSCRIBE"} => Key
<1> DEFINE c == get_next(pos).cmd
<1>1. Skip => ~over /\ cmd = None /\ c \in {"EMPTY", "INVALID"}
  BY DEF Skip, Gets
<1>2. Alone => ~over /\ cmd = None /\ c \in {"SHOW", "BACKUP", "HELP"}
  BY DEF Alone, Gets
<1>3. Write => ~over /\ cmd = None /\ c \in {"WRITE"}
  BY DEF Write, Gets
<1>4. /\ ReadOrDelete => ~over /\ cmd = None /\ c \in {"READ", "DELETE"} /\ OpenList({"READ", "DELETE"})
      /\ Subscription => /\ ~over /\ cmd = None /\ c \in {"SUBSCRIBE", "UNSUBSCRIBE"}
                         /\ OpenList({"SUBSCRIBE", "UNSUBSCRIBE"})
  BY DEF ReadOrDelete, Subscription, OpenList, Gets
<1>5. Wait => ~over /\ cmd = None /\ c \in {"WAIT"}
  BY DEF Wait, Gets
<1>6. Delay => ~over /\ cmd = None /\ c \in {"DELAY"}
  BY DEF Delay, Gets
<1>7. End => ~over /\ cmd = None /\ c \in {"EOC", "DISCONNECT"}
  BY DEF End, Gets
<1>8. (Pair => cmd = "WRITE") /\ (Key => cmd \in {"READ", "DELETE", "SUBSCRIBE", "UNSUBSCRIBE"})
  BY DEF Pair, Key
<1>9. None \notin {"WRITE", "READ", "DELETE", "SUBSCRIBE", "UNSUBSCRIBE"}
  BY DEF None
<1> HIDE DEF c
<1>10. \/ Skip \/ Alone \/ Write \/ ReadOrDelete \/ Subscription \/ Wait \/ Delay \/ End
       \/ Pair \/ Key
  BY DEF Next
<1>11. CASE cmd = None
  BY <1>1, <1>2, <1>3, <1>4, <1>5, <1>6, <1>7, <1>8, <1>9, <1>10, <1>11 DEF c
<1>12. CASE cmd # None
  BY <1>1, <1>2, <1>3, <1>4, <1>5, <1>6, <1>7, <1>8, <1>9, <1>10, <1>12 DEF c
<1> QED
  BY <1>11, <1>12

\* The reader goes on to the next line.
LEMMA MovesOn ==
  ASSUME TypeOK, FileRead, AllValid, ~over, NEW k \in 1 .. Len(lines),
         UNCHANGED <<program, lines, file, over>>,
         cmd' = None, pos' = Start(k + 1), done' = Meant(k)
  PROVE  InStep'
<1>1. Len(lines) \in Nat
  BY LinesEnd
<1>2. k + 1 \in 1 .. Len(lines) + 1 /\ (k + 1) - 1 = k
  BY <1>1
<1>3. Start(k + 1)' = Start(k + 1) /\ Meant(k)' = Meant(k)
  BY Frame
<1>4. Between(k + 1)'
  BY <1>2, <1>3 DEF Between
<1>5. over' = FALSE /\ lines' = lines
  BY DEF TypeOK
<1> QED
  BY <1>2, <1>4, <1>5 DEF InStep

\* The command of a line is executed as the line says, and the reader goes on.
LEMMA Executed ==
  ASSUME TypeOK, FileRead, AllValid, ~over, NEW k \in 1 .. Len(lines), done = Meant(k - 1),
         NEW word, NEW args, lines[k].means = <<<<word, args>>>>,
         NEW result, Execute(word, result), result.ok, result.batch = args, result.pos = Start(k + 1)
  PROVE  InStep'
<1>1. /\ UNCHANGED <<program, lines, file, over>> /\ cmd' = None /\ pos' = Start(k + 1)
      /\ done' = Append(done, <<word, args>>)
  BY DEF Execute
<1>2. Meant(k) = Append(Meant(k - 1), <<word, args>>)
  BY Meanings
<1> QED
  BY <1>1, <1>2, MovesOn

\* An empty line and a comment are skipped.
LEMMA EmptySteps ==
  ASSUME TypeOK, FileRead, AllValid, Next, NEW k \in 1 .. Len(lines), Between(k),
         lines[k].means = <<>>, EmptyLine(lines[k].text)
  PROVE  InStep'
<1> DEFINE t == lines[k].text
           b == Start(k)
<1>1. /\ t \in Seq(Characters) /\ Len(t) \in Nat /\ b \in Nat \ {0} /\ Start(k + 1) = b + Len(t)
      /\ Start(k + 1) <= Len(file) + 1 /\ Len(file) \in Nat
      /\ \A j \in 1 .. Len(t) : b + j - 1 <= Len(file) /\ file[b + j - 1] = t[j]
  BY LineAt
<1>2. /\ t # <<>> /\ t[1] \in {"\n", "#"}
      /\ \A i \in 1 .. Len(t) : t[i] = "\n" <=> i = Len(t)
  BY DEF EmptyLine, OneLine
<1>3. pos = b /\ cmd = None /\ done = Meant(k - 1)
  BY DEF Between
<1> HIDE DEF t, b
<1>4. Len(t) # 0 /\ 1 \in 1 .. Len(t) /\ (t[1] = "\n" <=> 1 = Len(t))
  <2>1. Len(t) # 0
    BY <1>1, <1>2
  <2>2. 1 \in 1 .. Len(t)
    BY <1>1, <2>1
  <2> QED
    BY <1>2, <2>1, <2>2
<1>5. ASSUME NEW i \in b .. b + Len(t) - 1
      PROVE  i <= Len(file) /\ Char(i) = t[i - b + 1] /\ i - b + 1 \in 1 .. Len(t)
  <2>1. i - b + 1 \in 1 .. Len(t) /\ b + (i - b + 1) - 1 = i
    BY <1>1
  <2>2. i <= Len(file) /\ file[i] = t[i - b + 1]
    BY <1>1, <2>1
  <2> QED
    BY <1>1, <2>1, <2>2 DEF Char
<1>6. b <= Len(file) /\ Char(b) = t[1]
  <2>1. b \in b .. b + Len(t) - 1 /\ b - b + 1 = 1
    BY <1>1, <1>4
  <2> QED
    BY <1>5, <2>1
<1>7. get_next(b) = [cmd |-> "EMPTY", pos |-> b + Len(t)]
  <2>1. CASE t[1] = "\n"
    <3>1. 1 = Len(t)
      BY <1>1, <1>2, <1>4, <2>1
    <3>2. get_next(b) = [cmd |-> "EMPTY", pos |-> b + 1]
      <4>1. b \in Nat /\ Len(file) \in Nat /\ b <= Len(file) /\ Char(b) = "\n"
        BY <1>1, <1>6, <2>1
      <4> QED
        BY <4>1 DEF get_next
    <3> QED
      BY <3>1, <3>2
  <2>2. CASE t[1] # "\n"
    <3> DEFINE e == b + Len(t) - 1
    <3>1. 1 # Len(t)
      BY <1>1, <1>2, <1>4, <2>2
    <3>2. e \in b + 1 .. Len(file) /\ e \in b .. b + Len(t) - 1 /\ e - b + 1 = Len(t)
          /\ b + 1 \in 1 .. Len(file) + 1
      <4>1. Len(t) >= 2 /\ Len(t) \in Nat /\ b \in Nat \ {0} /\ Len(file) \in Nat
        <5>1. Len(t) \in Nat /\ b \in Nat \ {0} /\ Len(file) \in Nat
          BY <1>1
        <5>2. Len(t) # 0 /\ Len(t) # 1
          BY <1>4, <3>1
        <5>3. \A n \in Nat : n # 0 /\ n # 1 => n >= 2
          OBVIOUS
        <5> QED
          BY <5>1, <5>2, <5>3, Zenon
      <4>2. b + Len(t) <= Len(file) + 1
        BY <1>1
      <4> QED
        BY <4>1, <4>2
    <3>3. Char(e) = "\n"
      BY <1>2, <1>5, <3>2
    <3>4. ASSUME NEW i \in b + 1 .. e - 1
          PROVE  Char(i) # "\n"
      <4>1. i \in b .. b + Len(t) - 1 /\ i - b + 1 # Len(t)
        BY <1>1
      <4> QED
        BY <1>2, <1>5, <4>1
    <3> HIDE DEF e
    <3>5. cleanup(b + 1) = e + 1
      <4>1. file \in Seq(Characters) /\ b + 1 \in Positions
        BY <3>2 DEF TypeOK, Positions
      <4> QED
        BY <3>2, <3>3, <3>4, <4>1, CleanupReads
    <3>6. e + 1 = b + Len(t)
      BY <1>1 DEF e
    <3> QED
      BY <1>1, <1>2, <1>6, <2>2, <3>5, <3>6 DEF get_next
  <2> QED
    BY <2>1, <2>2
<1>8. Skip /\ ~over
  BY <1>3, <1>7, NextIs
<1>9. /\ pos' = Start(k + 1) /\ cmd' = None /\ done' = done /\ UNCHANGED <<program, lines, file, over>>
  BY <1>1, <1>3, <1>7, <1>8 DEF Skip, Arguments
<1>10. Meant(k) = Meant(k - 1)
  BY Meanings
<1> QED
  BY <1>3, <1>8, <1>9, <1>10, MovesOn

\* The end of the file ends the program, and everything has been executed.
LEMMA EndSteps ==
  ASSUME TypeOK, FileRead, AllValid, Next, Between(Len(lines) + 1)
  PROVE  InStep'
<1>1. Len(lines) \in Nat /\ Start(Len(lines) + 1) = Len(file) + 1 /\ Len(file) \in Nat
  <2>1. file \in Seq(Characters)
    BY DEF TypeOK
  <2> QED
    BY <2>1, LinesEnd
<1>2. (Len(lines) + 1) - 1 = Len(lines)
  BY <1>1
<1>3. pos = Len(file) + 1 /\ cmd = None /\ done = Meant(Len(lines))
  BY <1>1, <1>2 DEF Between
<1>4. get_next(pos).cmd = "EOC"
  <2>1. Char(pos) = Nothing /\ pos > Len(file)
    BY <1>1, <1>3 DEF Char
  <2>2. Nothing \notin {"\n", "#"}
    BY Zenon DEF Nothing
  <2>3. pos \in Nat /\ Len(file) \in Nat
    BY <1>1, <1>3
  <2>4. get_next(pos) = [cmd |-> "EOC", pos |-> pos]
    BY <2>1, <2>2, <2>3 DEF get_next
  <2> QED
    BY <2>4
<1>5. End
  BY <1>3, <1>4, NextIs
<1>6. over' = TRUE /\ cmd' = None /\ done' = done /\ lines' = lines
  BY <1>3, <1>5 DEF End
<1>7. done' = Meaning(lines)'
  <2>1. Meaning(lines)' = Meaning(lines)
    BY <1>6 DEF Meaning, Means
  <2> QED
    BY <1>3, <1>6, <2>1, Meanings
<1> QED
  BY <1>6, <1>7 DEF InStep

\* get_next reads a word that stands alone on its line; the end of the file may end it.
LEMMA AloneReads ==
  ASSUME TypeOK, FileRead, NEW k \in 1 .. Len(lines), NEW w \in Words, w \in Single,
         lines[k].text = Append(Spelled[w], "\n") \/ (k = Len(lines) /\ lines[k].text = Spelled[w])
  PROVE  get_next(Start(k)) = [cmd |-> w, pos |-> Start(k + 1)]
<1> DEFINE p == Start(k) + Length(w)
<1>1. Spelled[w] \in Seq(Alphabet) /\ "\n" \in Alphabet /\ <<"\n">> \in Seq(Alphabet) /\ <<>> \in Seq(Alphabet)
  BY Spells
<1>2. CASE lines[k].text = Append(Spelled[w], "\n")
  <2> DEFINE rest == <<"\n">>
  <2>1. lines[k].text = Spelled[w] \o rest
    BY <1>1, <1>2, AppendIsConcat
  <2>2. Len(rest) = 1 /\ rest[1] = "\n" /\ 1 \in 1 .. Len(rest) /\ rest \in Seq(Alphabet)
    BY <1>1
  <2> HIDE DEF rest
  <2>3. /\ file \in Seq(Characters) /\ Start(k) \in Positions /\ Stands(Start(k), w) /\ p \in Positions
        /\ Start(k + 1) = p + 1
        /\ p + 1 - 1 <= Len(file) /\ Char(p + 1 - 1) = "\n"
    BY <2>1, <2>2, WordLine
  <2>4. p \in Nat /\ p + 1 - 1 = p
    BY <2>3 DEF Positions
  <2> HIDE DEF p
  <2>5. After(p, 1) = p + 1
    BY <2>3, <2>4, OneRead
  <2>6. Char(p) \in {"\n", Nothing}
    BY <2>3, <2>4
  <2> QED
    BY <2>3, <2>5, <2>6, WordReads DEF p
<1>3. CASE k = Len(lines) /\ lines[k].text = Spelled[w]
  <2>1. lines[k].text = Spelled[w] \o <<>>
    BY <1>1, <1>3, ConcatEmptySeq
  <2>2. Len(<<>>) = 0
    OBVIOUS
  <2>3. /\ file \in Seq(Characters) /\ Start(k) \in Positions /\ Stands(Start(k), w) /\ p \in Positions
        /\ Start(k + 1) = p + 0
    BY <1>1, <2>1, <2>2, WordLine
  <2>4. p \in Nat /\ Start(k + 1) = p /\ Len(file) \in Nat
    BY <2>3 DEF Positions
  <2>5. p = Len(file) + 1
    BY <1>3, <2>4, LinesEnd
  <2> HIDE DEF p
  <2>6. p > Len(file)
    BY <2>4, <2>5
  <2>7. After(p, 1) = p
    BY <2>3, <2>5, <2>6, OneRead
  <2>8. Char(p) \in {"\n", Nothing}
    BY <2>6 DEF Char
  <2> QED
    BY <2>3, <2>4, <2>7, <2>8, WordReads DEF p
<1> QED
  BY <1>2, <1>3

\* A command without arguments is executed.
LEMMA AloneSteps ==
  ASSUME TypeOK, FileRead, AllValid, Next, NEW k \in 1 .. Len(lines), Between(k),
         NEW w \in Words, w \in Single \ {"DISCONNECT"}, lines[k].means = <<<<w, <<>>>>>>,
         lines[k].text = Append(Spelled[w], "\n") \/ (k = Len(lines) /\ lines[k].text = Spelled[w])
  PROVE  InStep'
<1>1. pos = Start(k) /\ cmd = None /\ done = Meant(k - 1)
  BY DEF Between
<1>2. get_next(pos) = [cmd |-> w, pos |-> Start(k + 1)]
  BY <1>1, AloneReads
<1>3. Alone /\ ~over
  BY <1>1, <1>2, NextIs DEF Single
<1> DEFINE result == [ok |-> TRUE, batch |-> <<>>, pos |-> Start(k + 1)]
<1>4. Execute(w, result)
  BY <1>2, <1>3 DEF Alone, Arguments
<1>5. result.ok /\ result.batch = <<>> /\ result.pos = Start(k + 1)
  OBVIOUS
<1> HIDE DEF result
<1> QED
  BY <1>1, <1>3, <1>4, <1>5, Executed

\* DISCONNECT ends the client when everything before it has been executed.
LEMMA DisconnectSteps ==
  ASSUME TypeOK, FileRead, AllValid, Next, NEW k \in 1 .. Len(lines), Between(k), k = Len(lines),
         NEW w \in Words, w = "DISCONNECT", lines[k].means = <<>>,
         lines[k].text = Append(Spelled[w], "\n") \/ lines[k].text = Spelled[w]
  PROVE  InStep'
<1>1. pos = Start(k) /\ cmd = None /\ done = Meant(k - 1)
  BY DEF Between
<1>2. get_next(pos).cmd = "DISCONNECT"
  BY <1>1, AloneReads DEF Single
<1>3. End
  BY <1>1, <1>2, NextIs
<1>4. over' = TRUE /\ cmd' = None /\ done' = done /\ lines' = lines
  BY <1>1, <1>3 DEF End
<1>5. Meant(k) = Meant(k - 1) /\ Meant(Len(lines)) = Meaning(lines)
  BY Meanings
<1>6. Meaning(lines)' = Meaning(lines)
  BY <1>4 DEF Meaning, Means
<1>7. done' = Meaning(lines)'
  BY <1>1, <1>4, <1>5, <1>6
<1> QED
  BY <1>4, <1>7 DEF InStep

\* What is read of the line of a WAIT or a DELAY: the number, and where that leaves
\* the reader.
LEMMA NumberReads ==
  ASSUME TypeOK, FileRead, NEW k \in 1 .. Len(lines), NEW w \in Words, NEW args, NEW junk,
         NumberLine(lines[k].text, w, args)
  PROVE  LET p == Start(k) + Length(w)
             r == read_uint(p, junk)
         IN /\ get_next(Start(k)) = [cmd |-> w, pos |-> p]
            /\ args = <<r.value>> /\ r.value <= UINT_MAX
            /\ r.pos \in Start(k) + 1 .. Start(k + 1) /\ r.pos \in Positions /\ Start(k + 1) \in Positions
            /\ \A i \in r.pos .. Start(k + 1) - 1 : Char(i) = "\n" <=> i = Start(k + 1) - 1
            /\ \/ r.next = "\n" /\ r.pos = Start(k + 1)
               \/ w = "WAIT" /\ r.next = Blank /\ r.pos <= Start(k + 1) - 1
               \/ w = "DELAY" /\ r.pos <= Start(k + 1) - 1 /\ Char(r.pos) \notin {"S", "U", "D"}
<1> DEFINE t == lines[k].text
           n == Length(w)
           b == Start(k)
           p == b + n
           r == read_uint(p, junk)
<1>1. t \in Seq(Characters) /\ Len(t) \in Nat /\ n \in 2 .. 12 /\ w \in {"WAIT", "DELAY"}
  BY LineAt, WordsApart DEF NumberLine
<1>2. PICK m \in 1 .. Len(t) - n - 1 :
        LET digits == SubSeq(t, n + 1, n + m)
            remark == SubSeq(t, n + m + 1, Len(t))
        IN /\ t = Spelled[w] \o digits \o remark
           /\ ToSet(digits) \subseteq ToSet(Digits) /\ Number(digits) <= UINT_MAX
           /\ args = <<Number(digits)>>
           /\ OneLine(remark)
           /\ \/ remark[1] = "\n"
              \/ w = "WAIT" /\ remark[1] = Blank
              \/ /\ w = "DELAY" /\ remark[1] \notin ToSet(Digits)
                 /\ remark[2] \notin {"S", "U", "D"}
  BY DEF NumberLine
<1> DEFINE digits == SubSeq(t, n + 1, n + m)
           remark == SubSeq(t, n + m + 1, Len(t))
           rest   == digits \o remark
<1>3. /\ digits \in Seq(Characters) /\ Len(digits) = m /\ m \in Nat \ {0}
      /\ remark \in Seq(Characters) /\ Len(remark) = Len(t) - n - m /\ Len(remark) \in Nat \ {0}
  <2> DEFINE l == Len(t)
  <2>0. \A i \in 1 .. l : t[i] \in Characters
    BY <1>1
  <2> HIDE DEF t, n
  <2>1. l \in Nat /\ n \in Nat /\ m \in Nat \ {0} /\ n + m + 1 <= l
    BY <1>1
  <2> HIDE DEF l
  <2>2. n + 1 \in Int /\ n + m \in Int /\ n + 1 <= n + m /\ (n + m) - (n + 1) + 1 = m
    BY <2>1
  <2>3. n + m + 1 \in Int /\ l \in Int /\ n + m + 1 <= l /\ l - (n + m + 1) + 1 = l - n - m
        /\ l - n - m \in Nat \ {0}
    BY <2>1
  <2>4. \A i \in n + 1 .. n + m : t[i] \in Characters
    BY <2>0, <2>1
  <2>5. \A i \in n + m + 1 .. l : t[i] \in Characters
    BY <2>0, <2>1
  <2>6. digits \in Seq(Characters) /\ Len(digits) = m
    BY <2>2, <2>4, SubSeqProperties
  <2>7. remark \in Seq(Characters) /\ Len(remark) = l - n - m
    BY <2>3, <2>5, SubSeqProperties DEF l
  <2> QED
    BY <2>1, <2>3, <2>6, <2>7 DEF l
<1>4. /\ t = Spelled[w] \o digits \o remark
      /\ ToSet(digits) \subseteq ToSet(Digits) /\ Number(digits) <= UINT_MAX /\ args = <<Number(digits)>>
      /\ remark # <<>> /\ \A i \in 1 .. Len(remark) : remark[i] = "\n" <=> i = Len(remark)
      /\ \/ remark[1] = "\n"
         \/ w = "WAIT" /\ remark[1] = Blank
         \/ w = "DELAY" /\ remark[1] \notin ToSet(Digits) /\ remark[2] \notin {"S", "U", "D"}
  BY <1>2 DEF OneLine
<1> HIDE DEF digits, remark, t, n
<1>5. digits \in Seq(Alphabet) /\ remark \in Seq(Alphabet) /\ Spelled[w] \in Seq(Alphabet)
  BY <1>3, Spells
<1>6. t = Spelled[w] \o rest
  <2>1. (Spelled[w] \o digits) \o remark = Spelled[w] \o (digits \o remark)
    <3> DEFINE word == Spelled[w]
    <3>1. word \in Seq(Alphabet) /\ digits \in Seq(Alphabet) /\ remark \in Seq(Alphabet)
      BY <1>5
    <3> HIDE DEF word, rest
    <3>2. (word \o digits) \o remark = word \o (digits \o remark)
      BY <3>1, ConcatAssociative, SMTT(30)
    <3> QED
      BY <3>2 DEF word
  <2> QED
    BY <1>4, <2>1
<1>7. /\ rest \in Seq(Alphabet) /\ Len(rest) = m + Len(remark)
      /\ \A i \in 1 .. m : rest[i] = digits[i]
      /\ \A i \in 1 .. Len(remark) : rest[m + i] = remark[i]
  <2>1. /\ rest \in Seq(Alphabet) /\ Len(rest) = Len(digits) + Len(remark)
        /\ \A i \in 1 .. Len(digits) : rest[i] = digits[i]
        /\ \A i \in 1 .. Len(remark) : rest[Len(digits) + i] = remark[i]
    BY <1>5, Halves
  <2>2. Len(digits) = m
    BY <1>3
  <2> HIDE DEF rest
  <2> QED
    BY <2>1, <2>2
<1> HIDE DEF rest
<1>8. /\ file \in Seq(Characters) /\ b \in Positions /\ Stands(b, w) /\ p \in Positions
      /\ Start(k + 1) = p + Len(rest) /\ Start(k + 1) \in Positions
      /\ \A j \in 1 .. Len(rest) :
           /\ p + j - 1 \in Positions /\ p + j - 1 <= Len(file) /\ Char(p + j - 1) = rest[j]
  BY <1>6, <1>7, WordLine DEF t, n
<1>9. get_next(b) = [cmd |-> w, pos |-> p]
  <2>1. w \notin Single
    BY <1>1 DEF Single
  <2> QED
    BY <1>8, <2>1, WordReads DEF n
<1> HIDE DEF b, p
<1> DEFINE l == Len(remark)
<1>10. /\ p \in Nat /\ b \in Nat /\ Len(file) \in Nat /\ p = b + n /\ n \in Nat
       /\ m \in Nat \ {0} /\ l \in Nat \ {0} /\ Len(rest) = m + l
  <2>1. p \in Nat /\ b \in Nat /\ Len(file) \in Nat
    BY <1>8 DEF Positions
  <2>2. n \in Nat /\ m \in Nat \ {0} /\ l \in Nat \ {0} /\ Len(rest) = m + l
    BY <1>1, <1>3, <1>7
  <2> QED
    BY <2>1, <2>2 DEF p
<1> HIDE DEF l
<1>11. ASSUME NEW i \in 1 .. m
       PROVE  p + i - 1 <= Len(file) /\ Char(p + i - 1) = digits[i]
  <2>1. i \in 1 .. Len(rest)
    BY <1>3, <1>7
  <2> QED
    BY <1>7, <1>8, <2>1
<1>12. ASSUME NEW i \in 1 .. Len(remark)
       PROVE  p + m + i - 1 <= Len(file) /\ Char(p + m + i - 1) = remark[i]
  <2>1. m + i \in 1 .. Len(rest) /\ p + (m + i) - 1 = p + m + i - 1
    BY <1>10 DEF l
  <2> QED
    BY <1>7, <1>8, <2>1
<1>13. 1 \in 1 .. Len(remark) /\ Char(p + m) = remark[1] /\ p + m <= Len(file)
  <2>1. 1 \in 1 .. Len(remark) /\ p + m + 1 - 1 = p + m
    BY <1>3, <1>10
  <2> QED
    BY <1>12, <2>1
<1>14. remark[1] \notin ToSet(Digits)
  <2>1. ToSet(Digits) = {"0", "1", "2", "3", "4", "5", "6", "7", "8", "9"}
    BY DEF ToSet, Digits
  <2>2. "\n" \notin ToSet(Digits) /\ Blank \notin ToSet(Digits)
    <3> HIDE DEF Digits
    <3> QED
      BY <2>1, Zenon DEF Blank
  <2> QED
    BY <1>4, <2>2
<1>15. r.value = Number(digits) /\ r.next = remark[1] /\ r.pos = p + m + 1
  <2>1. /\ digits \in Seq(Characters) /\ Len(digits) = m /\ ToSet(digits) \subseteq ToSet(Digits)
        /\ file \in Seq(Characters) /\ p \in Positions
    BY <1>3, <1>4, <1>8
  <2>2. p + Len(digits) <= Len(file) /\ Char(p + Len(digits)) \notin ToSet(Digits)
        /\ \A i \in 1 .. Len(digits) : Char(p + i - 1) = digits[i]
    BY <1>11, <1>13, <1>14, <2>1
  <2>3. r.value = Number(digits) /\ r.next = Char(p + Len(digits)) /\ r.pos = p + Len(digits) + 1
    BY <2>1, <2>2, DigitsRead
  <2> HIDE DEF r
  <2> QED
    BY <1>13, <2>1, <2>3
<1> HIDE DEF r
<1>16. Start(k + 1) = p + m + Len(remark) /\ Start(k + 1) = p + m + l
  <2>1. Start(k + 1) = p + (m + l)
    BY <1>8, <1>10
  <2> QED
    BY <1>10, <2>1 DEF l
<1>17. ASSUME NEW i \in r.pos .. Start(k + 1) - 1
       PROVE  Char(i) = "\n" <=> i = Start(k + 1) - 1
  <2> DEFINE j == i - p - m + 1
  <2>1. j \in 1 .. Len(remark) /\ p + m + j - 1 = i /\ (j = Len(remark) <=> i = Start(k + 1) - 1)
    <3>1. r.pos = p + m + 1 /\ Start(k + 1) = p + m + l
      BY <1>15, <1>16
    <3>2. j \in 1 .. l /\ p + m + j - 1 = i /\ (j = l <=> i = Start(k + 1) - 1)
      BY <1>10, <3>1
    <3> QED
      BY <3>2 DEF l
  <2> HIDE DEF j
  <2> QED
    BY <1>4, <1>12, <2>1
<1>18. r.pos \in b + 1 .. Start(k + 1) /\ r.pos \in Positions
  <2> DEFINE v == r.pos
             f == Len(file)
  <2>1. /\ p \in Nat /\ b \in Nat /\ n \in Nat /\ m \in Nat \ {0} /\ l \in Nat \ {0} /\ f \in Nat
        /\ p = b + n /\ p + m <= f
    BY <1>10, <1>13
  <2>2. v = p + m + 1 /\ Start(k + 1) = p + m + l
    BY <1>15, <1>16
  <2> HIDE DEF v, f
  <2>3. v \in b + 1 .. Start(k + 1) /\ v \in 1 .. f + 1
    BY <2>1, <2>2
  <2> QED
    BY <2>3 DEF v, f, Positions
<1>19. remark[1] = "\n" <=> r.pos = Start(k + 1)
  <2>1. remark[1] = "\n" <=> 1 = l
    BY <1>4, <1>13 DEF l
  <2>2. r.pos = p + m + 1 /\ Start(k + 1) = p + m + l
    BY <1>15, <1>16
  <2>3. p \in Nat /\ m \in Nat /\ l \in Nat
    BY <1>10
  <2>4. p + m + 1 = p + m + l <=> 1 = l
    BY <2>3
  <2> QED
    BY <2>1, <2>2, <2>4
<1>20. r.pos # Start(k + 1) => r.pos <= Start(k + 1) - 1 /\ Char(r.pos) = remark[2]
  <2>1. SUFFICES ASSUME r.pos # Start(k + 1)
                 PROVE  r.pos <= Start(k + 1) - 1 /\ Char(r.pos) = remark[2]
    OBVIOUS
  <2>2. p \in Nat /\ m \in Nat /\ l \in Nat \ {0} /\ l # 1
    BY <1>10, <1>15, <1>16, <2>1
  <2>3. 2 \in 1 .. l /\ p + m + 2 - 1 = p + m + 1 /\ p + m + 1 <= p + m + l - 1
    BY <2>2
  <2>4. Char(p + m + 2 - 1) = remark[2]
    BY <1>12, <2>3 DEF l
  <2>5. r.pos = p + m + 1 /\ Start(k + 1) = p + m + l
    BY <1>15, <1>16
  <2>6. r.pos <= Start(k + 1) - 1
    <3>1. p + m + 1 <= (p + m + l) - 1
      BY <2>2, <2>3
    <3> QED
      BY <2>5, <3>1
  <2>7. Char(r.pos) = remark[2]
    BY <2>3, <2>4, <2>5
  <2> QED
    BY <2>6, <2>7
<1>21. \/ r.next = "\n" /\ r.pos = Start(k + 1)
       \/ w = "WAIT" /\ r.next = Blank /\ r.pos <= Start(k + 1) - 1
       \/ w = "DELAY" /\ r.pos <= Start(k + 1) - 1 /\ Char(r.pos) \notin {"S", "U", "D"}
  BY <1>4, <1>15, <1>19, <1>20
<1> QED
  BY <1>4, <1>8, <1>9, <1>15, <1>17, <1>18, <1>21 DEF r, p, b, n

\* WAIT is executed with its number, and what is behind it on the line is skipped.
LEMMA WaitSteps ==
  ASSUME TypeOK, FileRead, AllValid, Next, NEW k \in 1 .. Len(lines), Between(k),
         "WAIT" \in Words, NEW args, lines[k].means = <<<<"WAIT", args>>>>,
         NumberLine(lines[k].text, "WAIT", args)
  PROVE  InStep'
<1> DEFINE p == Start(k) + Length("WAIT")
           r(junk) == read_uint(p, junk)
<1>1. pos = Start(k) /\ cmd = None /\ done = Meant(k - 1)
  BY DEF Between
<1>2. ASSUME NEW junk
      PROVE  /\ get_next(pos) = [cmd |-> "WAIT", pos |-> p]
             /\ args = <<r(junk).value>> /\ r(junk).value <= UINT_MAX
             /\ r(junk).pos \in Start(k) + 1 .. Start(k + 1) /\ r(junk).pos \in Positions
             /\ Start(k + 1) \in Positions
             /\ \A i \in r(junk).pos .. Start(k + 1) - 1 : Char(i) = "\n" <=> i = Start(k + 1) - 1
             /\ \/ r(junk).next = "\n" /\ r(junk).pos = Start(k + 1)
                \/ r(junk).next = Blank /\ r(junk).pos <= Start(k + 1) - 1
  <2> DEFINE w == "WAIT"
             q == Start(k) + Length(w)
             n == read_uint(q, junk)
  <2>1. w \in Words /\ NumberLine(lines[k].text, w, args)
    OBVIOUS
  <2> HIDE DEF w
  <2>2. /\ get_next(Start(k)) = [cmd |-> w, pos |-> q]
        /\ args = <<n.value>> /\ n.value <= UINT_MAX
        /\ n.pos \in Start(k) + 1 .. Start(k + 1) /\ n.pos \in Positions /\ Start(k + 1) \in Positions
        /\ \A i \in n.pos .. Start(k + 1) - 1 : Char(i) = "\n" <=> i = Start(k + 1) - 1
        /\ \/ n.next = "\n" /\ n.pos = Start(k + 1)
           \/ w = "WAIT" /\ n.next = Blank /\ n.pos <= Start(k + 1) - 1
           \/ w = "DELAY" /\ n.pos <= Start(k + 1) - 1 /\ Char(n.pos) \notin {"S", "U", "D"}
    BY <2>1, NumberReads
  <2>3. w = "WAIT" /\ w # "DELAY" /\ p = q /\ r(junk) = n
    BY DEF w
  <2> HIDE DEF p, q, n, r
  <2> QED
    BY <1>1, <2>2, <2>3
<1>3. Wait /\ ~over /\ Arguments = p
  BY <1>1, <1>2, NextIs DEF Arguments
<1>4. PICK junk \in Junk : Execute("WAIT", parse_wait(p, junk))
  BY <1>3 DEF Wait
<1> DEFINE n == r(junk)
           result == parse_wait(p, junk)
<1>5. /\ args = <<n.value>> /\ n.value <= UINT_MAX
      /\ n.pos \in Start(k) + 1 .. Start(k + 1) /\ n.pos \in Positions /\ Start(k + 1) \in Positions
      /\ \A i \in n.pos .. Start(k + 1) - 1 : Char(i) = "\n" <=> i = Start(k + 1) - 1
      /\ \/ n.next = "\n" /\ n.pos = Start(k + 1)
         \/ n.next = Blank /\ n.pos <= Start(k + 1) - 1
  BY <1>2
<1>6. result = [ok    |-> n.value <= UINT_MAX /\ n.next \in {Blank, "\n", Nothing},
                batch |-> <<n.value>>,
                pos   |-> IF n.value <= UINT_MAX /\ n.next \in {"\n", Nothing}
                          THEN n.pos ELSE cleanup(n.pos)]
  BY DEF parse_wait
<1> HIDE DEF n, result
<1>7. result.ok /\ result.batch = args
  BY <1>5, <1>6
<1>8. result.pos = Start(k + 1)
  <2>1. CASE n.next = "\n" /\ n.pos = Start(k + 1)
    BY <1>5, <1>6, <2>1
  <2>2. CASE n.next = Blank /\ n.pos <= Start(k + 1) - 1
    <3>1. Blank \notin {"\n", Nothing}
      BY Zenon DEF Blank, Nothing
    <3>2. result.pos = cleanup(n.pos)
      BY <1>6, <2>2, <3>1
    <3> DEFINE e == Start(k + 1) - 1
    <3>3. /\ file \in Seq(Characters) /\ n.pos \in Positions /\ e \in n.pos .. Len(file)
          /\ e + 1 = Start(k + 1) /\ n.pos \in Nat
      BY <1>5, <2>2 DEF TypeOK, Positions
    <3>4. \A i \in n.pos .. e : Char(i) = "\n" <=> i = e
      BY <1>5
    <3> HIDE DEF e
    <3>6. Char(e) = "\n" /\ \A i \in n.pos .. e - 1 : Char(i) # "\n"
      <4>1. e \in Nat /\ n.pos \in Nat /\ n.pos <= e
        BY <3>3
      <4> QED
        BY <3>4, <4>1
    <3>5. cleanup(n.pos) = e + 1
      BY <3>3, <3>6, CleanupReads
    <3> QED
      BY <3>2, <3>3, <3>5
  <2> QED
    BY <1>5, <2>1, <2>2
<1>9. Execute("WAIT", result)
  BY <1>4 DEF result
<1> QED
  BY <1>1, <1>3, <1>7, <1>8, <1>9, Executed

\* DELAY is executed with its number.  What is behind it is read as a line of its own.
LEMMA DelaySteps ==
  ASSUME TypeOK, FileRead, AllValid, Next, NEW k \in 1 .. Len(lines), Between(k),
         "DELAY" \in Words, NEW args, lines[k].means = <<<<"DELAY", args>>>>,
         NumberLine(lines[k].text, "DELAY", args)
  PROVE  InStep'
<1> DEFINE p == Start(k) + Length("DELAY")
           r(junk) == read_uint(p, junk)
<1>1. pos = Start(k) /\ cmd = None /\ done = Meant(k - 1)
  BY DEF Between
<1>2. ASSUME NEW junk
      PROVE  /\ get_next(pos) = [cmd |-> "DELAY", pos |-> p]
             /\ args = <<r(junk).value>> /\ r(junk).value <= UINT_MAX
             /\ r(junk).pos \in Start(k) + 1 .. Start(k + 1) /\ r(junk).pos \in Positions
             /\ Start(k + 1) \in Positions
             /\ \A i \in r(junk).pos .. Start(k + 1) - 1 : Char(i) = "\n" <=> i = Start(k + 1) - 1
             /\ \/ r(junk).pos = Start(k + 1)
                \/ r(junk).pos <= Start(k + 1) - 1 /\ Char(r(junk).pos) \notin {"S", "U", "D"}
  <2> DEFINE w == "DELAY"
             q == Start(k) + Length(w)
             n == read_uint(q, junk)
  <2>1. w \in Words /\ NumberLine(lines[k].text, w, args)
    OBVIOUS
  <2> HIDE DEF w
  <2>2. /\ get_next(Start(k)) = [cmd |-> w, pos |-> q]
        /\ args = <<n.value>> /\ n.value <= UINT_MAX
        /\ n.pos \in Start(k) + 1 .. Start(k + 1) /\ n.pos \in Positions /\ Start(k + 1) \in Positions
        /\ \A i \in n.pos .. Start(k + 1) - 1 : Char(i) = "\n" <=> i = Start(k + 1) - 1
        /\ \/ n.next = "\n" /\ n.pos = Start(k + 1)
           \/ w = "WAIT" /\ n.next = Blank /\ n.pos <= Start(k + 1) - 1
           \/ w = "DELAY" /\ n.pos <= Start(k + 1) - 1 /\ Char(n.pos) \notin {"S", "U", "D"}
    BY <2>1, NumberReads
  <2>3. w = "DELAY" /\ w # "WAIT" /\ p = q /\ r(junk) = n
    BY DEF w
  <2> HIDE DEF p, q, n, r
  <2> QED
    BY <1>1, <2>2, <2>3
<1>3. Delay /\ ~over /\ Arguments = p
  BY <1>1, <1>2, NextIs DEF Arguments
<1>4. PICK junk \in Junk : Execute("DELAY", parse_delay(p, junk))
  BY <1>3 DEF Delay
<1> DEFINE n == r(junk)
           result == parse_delay(p, junk)
<1>5. /\ args = <<n.value>> /\ n.value <= UINT_MAX
      /\ n.pos \in Start(k) + 1 .. Start(k + 1) /\ n.pos \in Positions /\ Start(k + 1) \in Positions
      /\ \A i \in n.pos .. Start(k + 1) - 1 : Char(i) = "\n" <=> i = Start(k + 1) - 1
      /\ \/ n.pos = Start(k + 1)
         \/ n.pos <= Start(k + 1) - 1 /\ Char(n.pos) \notin {"S", "U", "D"}
  BY <1>2
<1>6. result = [ok    |-> n.value <= UINT_MAX, batch |-> <<n.value>>,
                pos   |-> IF n.value <= UINT_MAX THEN n.pos ELSE cleanup(n.pos)]
  BY DEF parse_delay
<1> HIDE DEF n, result
<1>7. result.ok /\ result.batch = args /\ result.pos = n.pos
  BY <1>5, <1>6
<1>8. Execute("DELAY", result)
  BY <1>4 DEF result
<1>9. CASE n.pos = Start(k + 1)
  <2>1. result.pos = Start(k + 1)
    BY <1>7, <1>9
  <2> QED
    BY <1>1, <1>3, <1>7, <1>8, <2>1, Executed
<1>10. CASE n.pos <= Start(k + 1) - 1 /\ Char(n.pos) \notin {"S", "U", "D"}
  <2>1. /\ UNCHANGED <<program, lines, file, over>> /\ cmd' = None /\ pos' = n.pos
        /\ done' = Append(done, <<"DELAY", args>>)
    BY <1>7, <1>8 DEF Execute
  <2>2. done' = Meant(k)
    BY <1>1, <2>1, Meanings
  <2>3. /\ Start(k)' = Start(k) /\ Start(k + 1)' = Start(k + 1) /\ Meant(k)' = Meant(k)
        /\ \A i : Char(i)' = Char(i)
    BY <2>1, Frame
  <2>4. program = "client"
    BY DEF TypeOK, Words, WordsOf
  <2>5. k \in 1 .. Len(lines) + 1 /\ k <= Len(lines)
    BY LinesEnd
  <2>6. n.pos \in Start(k) .. Start(k + 1) - 1
    <3>1. Start(k) \in Nat /\ Start(k + 1) \in Nat
      BY <1>5, LineAt DEF Positions
    <3> QED
      BY <1>5, <1>10, <3>1
  <2>7. Char(pos)' = Char(n.pos)
    BY <2>1 DEF Char
  <2>8. InRemark(k)'
    BY <1>5, <1>10, <2>1, <2>2, <2>3, <2>4, <2>5, <2>6, <2>7 DEF InRemark
  <2>9. over' = FALSE /\ lines' = lines
    BY <1>3, <2>1 DEF TypeOK
  <2> QED
    BY <2>5, <2>8, <2>9 DEF InStep
<1> QED
  BY <1>5, <1>9, <1>10

\* A remark behind a DELAY is skipped: it begins like no word of the client.
LEMMA RemarkSteps ==
  ASSUME TypeOK, FileRead, AllValid, Next, NEW k \in 1 .. Len(lines), InRemark(k)
  PROVE  InStep'
<1> DEFINE e == Start(k + 1) - 1
<1>1. /\ program = "client" /\ cmd = None /\ done = Meant(k)
      /\ pos \in Start(k) .. e /\ Char(pos) \notin {"S", "U", "D"}
      /\ \A i \in pos .. e : Char(i) = "\n" <=> i = e
  BY DEF InRemark
<1>2. /\ Start(k) \in Nat \ {0} /\ Start(k + 1) \in Nat /\ e + 1 = Start(k + 1) /\ e <= Len(file)
      /\ Len(file) \in Nat /\ file \in Seq(Characters) /\ e \in Int
  <2>1. /\ Start(k) \in Nat \ {0} /\ Len(lines[k].text) \in Nat /\ Start(k + 1) = Start(k) + Len(lines[k].text)
        /\ Start(k + 1) <= Len(file) + 1 /\ Len(file) \in Nat
    BY LineAt
  <2>2. file \in Seq(Characters)
    BY DEF TypeOK
  <2> DEFINE f == Len(file)
             z == Len(lines[k].text)
             s == Start(k)
             t == Start(k + 1)
  <2>3. s \in Nat \ {0} /\ z \in Nat /\ t = s + z /\ t <= f + 1 /\ f \in Nat
    BY <2>1
  <2>4. t \in Nat /\ (t - 1) + 1 = t /\ t - 1 <= f /\ t - 1 \in Int
    <3> HIDE DEF f, z, s, t
    <3> QED
      BY <2>3
  <2> QED
    BY <2>1, <2>2, <2>4
<1> HIDE DEF e
<1>3. pos \in Nat \ {0} /\ pos <= e /\ pos <= Len(file) /\ pos \in Positions /\ e \in pos .. e
  BY <1>1, <1>2 DEF Positions
<1>4. pos # e => pos + 1 \in Positions /\ cleanup(pos + 1) = e + 1
  <2>1. SUFFICES ASSUME pos # e
                 PROVE  pos + 1 \in Positions /\ cleanup(pos + 1) = e + 1
    OBVIOUS
  <2>2. pos + 1 \in Positions /\ e \in pos + 1 .. Len(file)
    BY <1>2, <1>3, <2>1 DEF Positions
  <2>3. Char(e) = "\n" /\ \A i \in pos + 1 .. e - 1 : Char(i) # "\n"
    BY <1>1, <1>2, <1>3
  <2> QED
    BY <1>2, <2>2, <2>3, CleanupReads
<1>5. get_next(pos).cmd \in {"EMPTY", "INVALID"} /\ get_next(pos).pos = Start(k + 1)
  <2>1. CASE Char(pos) = "\n"
    <3>1. get_next(pos) = [cmd |-> "EMPTY", pos |-> pos + 1]
      BY <1>2, <1>3, <2>1 DEF get_next
    <3>2. pos = e
      BY <1>1, <1>3, <2>1
    <3> QED
      BY <1>2, <3>1, <3>2
  <2>2. CASE Char(pos) = "#"
    <3>1. get_next(pos) = [cmd |-> "EMPTY", pos |-> cleanup(pos + 1)]
      BY <1>2, <1>3, <2>2 DEF get_next
    <3>2. pos # e
      BY <1>1, <1>3, <2>2
    <3> QED
      BY <1>2, <1>4, <3>1, <3>2
  <2>3. CASE Char(pos) \notin {"\n", "#"}
    <3> DEFINE words == {w \in Words : Spelled[w][1] = Char(pos)}
               found == {w \in words : Stands(pos, w)}
               most  == Max({1} \cup {Length(w) : w \in words})
    <3>1. words = {}
      <4>1. \A w \in Words : Spelled[w][1] \in {"S", "U", "D"}
        BY <1>1 DEF Words, WordsOf, Spelled
      <4> QED
        BY <1>1, <4>1
    <3>2. most = 1
      <4>1. {1} \cup {Length(w) : w \in words} = {1}
        BY <3>1
      <4>2. Max({1}) = 1
        BY DEF Max
      <4> QED
        BY <4>1, <4>2
    <3>3. get_next(pos) =
            IF found = {} THEN [cmd |-> "INVALID", pos |-> cleanup(After(pos, most))]
            ELSE LET word == CHOOSE w \in found : TRUE
                     end  == pos + Length(word)
                 IN IF word \notin Single THEN [cmd |-> word, pos |-> end]
                    ELSE IF Char(end) \in {"\n", Nothing} THEN [cmd |-> word, pos |-> After(end, 1)]
                    ELSE [cmd |-> "INVALID", pos |-> cleanup(end + 1)]
      BY <1>2, <1>3, <2>3 DEF get_next
    <3>4. found = {}
      BY <3>1
    <3> HIDE DEF most, found
    <3>5. get_next(pos) = [cmd |-> "INVALID", pos |-> cleanup(After(pos, 1))]
      BY <3>2, <3>3, <3>4
    <3>6. After(pos, 1) = pos + 1
      BY <1>2, <1>3, OneRead
    <3>7. pos # e
      BY <1>1, <1>3, <2>3
    <3> QED
      BY <1>2, <1>4, <3>5, <3>6, <3>7
  <2> QED
    BY <2>1, <2>2, <2>3
<1>6. Skip /\ ~over
  BY <1>1, <1>5, NextIs
<1>7. UNCHANGED <<program, lines, file, over>> /\ cmd' = None /\ pos' = Start(k + 1) /\ done' = Meant(k)
  BY <1>1, <1>5, <1>6 DEF Skip, Arguments
<1> QED
  BY <1>6, <1>7, MovesOn

-----------------------------------------------------------------------------
(* Lists.                                                                  *)

\* In line k, w is followed by a bracket, the elements of a list, and tail.
InBrackets(k, w, seqs, tail) ==
  LET p == Start(k) + Length(w)
      L(i) == Len(Part(seqs, i))
  IN /\ file \in Seq(Characters) /\ p \in Positions /\ get_next(Start(k)) = [cmd |-> w, pos |-> p]
     /\ Char(p) = "[" /\ Len(seqs) \in Nat /\ Len(tail) \in Nat /\ L(0) = 0
     /\ Start(k + 1) = p + 1 + L(Len(seqs)) + Len(tail) /\ Start(k + 1) \in Positions
     /\ \A i \in 1 .. Len(seqs) :
          /\ L(i - 1) \in Nat /\ Len(seqs[i]) \in Nat /\ L(i) = L(i - 1) + Len(seqs[i])
          /\ \A j \in 1 .. Len(seqs[i]) :
               p + L(i - 1) + j <= Len(file) /\ Char(p + L(i - 1) + j) = seqs[i][j]
     /\ \A j \in 1 .. Len(tail) :
          p + L(Len(seqs)) + j <= Len(file) /\ Char(p + L(Len(seqs)) + j) = tail[j]

\* A line with a word and a list in brackets: where the bracket is, where each element
\* of the list is, and what is behind them.
LEMMA BracketLine ==
  ASSUME TypeOK, FileRead, NEW k \in 1 .. Len(lines), NEW w \in Words \ Single,
         NEW seqs \in Seq(Seq(Alphabet)), NEW tail \in Seq(Alphabet),
         lines[k].text = Spelled[w] \o <<"[">> \o FlattenSeq(seqs) \o tail
  PROVE  InBrackets(k, w, seqs, tail)
<1> DEFINE p == Start(k) + Length(w)
           L(i) == Len(Part(seqs, i))
           F == FlattenSeq(seqs)
           bracket == <<"[">>
           word == Spelled[w]
           rest == bracket \o (F \o tail)
<1>1. /\ L(0) = 0 /\ L(Len(seqs)) = Len(F) /\ F \in Seq(Alphabet) /\ Len(seqs) \in Nat
  <2>1. Len(seqs) \in Nat /\ Len(seqs) \in 0 .. Len(seqs)
    OBVIOUS
  <2>2. Part(seqs, 0) = <<>> /\ Part(seqs, Len(seqs)) = F /\ Part(seqs, Len(seqs)) \in Seq(Alphabet)
    BY <2>1, Parts
  <2>3. Len(<<>>) = 0
    OBVIOUS
  <2> QED
    BY <2>1, <2>2, <2>3
<1>2. bracket \in Seq(Alphabet) /\ word \in Seq(Alphabet) /\ Len(bracket) = 1 /\ bracket[1] = "["
  BY Spells
<1>3. lines[k].text = ((word \o bracket) \o F) \o tail
  OBVIOUS
<1> HIDE DEF F, bracket, word
<1>4. ((word \o bracket) \o F) \o tail = word \o (bracket \o (F \o tail))
  <2> DEFINE wb == word \o bracket
             Ft == F \o tail
  <2>1. wb \in Seq(Alphabet) /\ Ft \in Seq(Alphabet)
    BY <1>1, <1>2, Halves
  <2>2. (wb \o F) \o tail = wb \o Ft
    <3> HIDE DEF wb
    <3> QED
      BY <1>1, <2>1, ConcatAssociative, SMTT(30)
  <2>3. (word \o bracket) \o Ft = word \o (bracket \o Ft)
    <3> HIDE DEF Ft, wb
    <3>1. word \in Seq(Alphabet) /\ bracket \in Seq(Alphabet) /\ Ft \in Seq(Alphabet)
      BY <1>2, <2>1
    <3> QED
      BY <3>1, ConcatAssociative, SMTT(30)
  <2> QED
    BY <2>2, <2>3
<1>5. /\ rest \in Seq(Alphabet) /\ Len(rest) = 1 + Len(F) + Len(tail) /\ Len(F) \in Nat /\ Len(tail) \in Nat
      /\ rest[1] = "["
      /\ \A j \in 1 .. Len(F) : rest[1 + j] = F[j]
      /\ \A j \in 1 .. Len(tail) : rest[1 + Len(F) + j] = tail[j]
  <2> DEFINE Ft == F \o tail
  <2>1. /\ Ft \in Seq(Alphabet) /\ Len(Ft) = Len(F) + Len(tail) /\ Len(F) \in Nat /\ Len(tail) \in Nat
        /\ \A j \in 1 .. Len(F) : Ft[j] = F[j]
        /\ \A j \in 1 .. Len(tail) : Ft[Len(F) + j] = tail[j]
    BY <1>1, Halves
  <2> HIDE DEF Ft
  <2>2. /\ bracket \o Ft \in Seq(Alphabet) /\ Len(bracket \o Ft) = Len(bracket) + Len(Ft)
        /\ \A j \in 1 .. Len(bracket) : (bracket \o Ft)[j] = bracket[j]
        /\ \A j \in 1 .. Len(Ft) : (bracket \o Ft)[Len(bracket) + j] = Ft[j]
    <3>1. bracket \in Seq(Alphabet) /\ Ft \in Seq(Alphabet)
      BY <1>2, <2>1
    <3> HIDE DEF rest
    <3> QED
      BY <3>1, Halves
  <2>3. rest = bracket \o Ft
    BY DEF Ft
  <2> HIDE DEF rest
  <2>4. /\ rest \in Seq(Alphabet) /\ Len(rest) = 1 + Len(Ft) /\ rest[1] = "["
        /\ \A j \in 1 .. Len(Ft) : rest[1 + j] = Ft[j]
    BY <1>2, <2>2, <2>3
  <2>5. ASSUME NEW j \in 1 .. Len(F)
        PROVE  rest[1 + j] = F[j]
    <3>1. j \in 1 .. Len(Ft)
      BY <2>1
    <3> QED
      BY <2>1, <2>4, <3>1
  <2>6. ASSUME NEW j \in 1 .. Len(tail)
        PROVE  rest[1 + Len(F) + j] = tail[j]
    <3>1. Len(F) + j \in 1 .. Len(Ft) /\ 1 + (Len(F) + j) = 1 + Len(F) + j
      BY <2>1
    <3> QED
      BY <2>1, <2>4, <3>1
  <2>7. Len(rest) = 1 + Len(F) + Len(tail)
    BY <2>1, <2>4
  <2> QED
    BY <2>1, <2>4, <2>5, <2>6, <2>7
<1>6. lines[k].text = Spelled[w] \o rest
  BY <1>3, <1>4 DEF word
<1> HIDE DEF rest
<1>7. /\ file \in Seq(Characters) /\ Start(k) \in Positions /\ Stands(Start(k), w) /\ p \in Positions
      /\ Start(k + 1) = p + Len(rest) /\ Start(k + 1) \in Positions
      /\ \A j \in 1 .. Len(rest) : p + j - 1 <= Len(file) /\ Char(p + j - 1) = rest[j]
  BY <1>5, <1>6, WordLine
<1>8. get_next(Start(k)) = [cmd |-> w, pos |-> p]
  BY <1>7, WordReads
<1> HIDE DEF p
<1>9. p \in Nat /\ Len(F) \in Nat /\ Len(tail) \in Nat /\ Len(rest) = 1 + Len(F) + Len(tail)
  BY <1>5, <1>7 DEF Positions
<1>10. Char(p) = "["
  <2>1. 1 \in 1 .. Len(rest) /\ p + 1 - 1 = p
    BY <1>9
  <2>2. Char(p + 1 - 1) = rest[1]
    BY <1>7, <2>1
  <2> QED
    BY <1>5, <2>1, <2>2
<1>11. ASSUME NEW j \in 1 .. Len(F)
       PROVE  p + j <= Len(file) /\ Char(p + j) = F[j]
  <2>1. 1 + j \in 1 .. Len(rest) /\ p + (1 + j) - 1 = p + j
    BY <1>9
  <2> QED
    BY <1>5, <1>7, <2>1
<1>12. ASSUME NEW j \in 1 .. Len(tail)
       PROVE  p + Len(F) + j <= Len(file) /\ Char(p + Len(F) + j) = tail[j]
  <2>1. 1 + Len(F) + j \in 1 .. Len(rest) /\ p + (1 + Len(F) + j) - 1 = p + Len(F) + j
    BY <1>9
  <2> QED
    BY <1>5, <1>7, <2>1
<1>13. ASSUME NEW i \in 1 .. Len(seqs)
       PROVE  /\ L(i - 1) \in Nat /\ Len(seqs[i]) \in Nat /\ L(i) = L(i - 1) + Len(seqs[i])
              /\ \A j \in 1 .. Len(seqs[i]) :
                   p + L(i - 1) + j <= Len(file) /\ Char(p + L(i - 1) + j) = seqs[i][j]
  <2>1. /\ L(i - 1) \in Nat /\ Len(seqs[i]) \in Nat /\ L(i) = L(i - 1) + Len(seqs[i]) /\ L(i) <= Len(F)
        /\ \A j \in 1 .. Len(seqs[i]) : F[L(i - 1) + j] = seqs[i][j]
    BY PartAt DEF F
  <2> HIDE DEF L
  <2>2. ASSUME NEW j \in 1 .. Len(seqs[i])
        PROVE  p + L(i - 1) + j <= Len(file) /\ Char(p + L(i - 1) + j) = seqs[i][j]
    <3> DEFINE a == L(i - 1)
               f == Len(F)
               n == Len(seqs[i])
    <3>2. a \in Nat /\ n \in Nat /\ f \in Nat /\ a + n <= f /\ j \in 1 .. n /\ p \in Nat
      BY <1>9, <2>1
    <3>3. a + j \in 1 .. f /\ p + (a + j) = p + a + j
      <4> HIDE DEF a, f, n
      <4> QED
        BY <3>2
    <3>1. L(i - 1) + j \in 1 .. Len(F) /\ p + (L(i - 1) + j) = p + L(i - 1) + j
      BY <3>3
    <3> QED
      BY <1>11, <2>1, <3>1
  <2> QED
    BY <2>1, <2>2
<1>14. Start(k + 1) = p + 1 + Len(F) + Len(tail)
  BY <1>7, <1>9
<1> QED
  BY <1>1, <1>7, <1>8, <1>9, <1>10, <1>12, <1>13, <1>14 DEF p, InBrackets

\* The elements of a list of keys, each with what delimits it.
LEMMA ListedKeys ==
  ASSUME NEW keys \in Seq(Seq(Characters))
  PROVE  /\ Listed(keys) \in Seq(Seq(Alphabet)) /\ Len(Listed(keys)) = Len(keys) /\ Len(keys) \in Nat
         /\ \A i \in 1 .. Len(keys) :
              LET d == IF i = Len(keys) THEN "]" ELSE Comma
                  key == keys[i]
                  s == Listed(keys)[i]
              IN /\ key \in Seq(Characters) /\ Len(key) \in Nat /\ Len(s) = Len(key) + 1
                 /\ s[Len(key) + 1] = d /\ \A j \in 1 .. Len(key) : s[j] = key[j]
<1> DEFINE N == Len(keys)
<1>1. N \in Nat /\ DOMAIN keys = 1 .. N /\ \A i \in 1 .. N : keys[i] \in Seq(Characters)
  OBVIOUS
<1>2. ASSUME NEW i \in 1 .. N
      PROVE  LET d == IF i = N THEN "]" ELSE Comma
                 key == keys[i]
                 s == Listed(keys)[i]
             IN /\ key \in Seq(Characters) /\ Len(key) \in Nat /\ Len(s) = Len(key) + 1
                /\ s[Len(key) + 1] = d /\ \A j \in 1 .. Len(key) : s[j] = key[j]
                /\ s \in Seq(Alphabet)
  <2> DEFINE d == IF i = N THEN "]" ELSE Comma
             key == keys[i]
             s == Listed(keys)[i]
  <2>1. key \in Seq(Characters) /\ key \in Seq(Alphabet) /\ d \in Alphabet
    BY <1>1, Spells
  <2>2. s = Append(key, d)
    BY <1>1 DEF Listed
  <2> HIDE DEF d, key, s
  <2>3. /\ s \in Seq(Alphabet) /\ Len(s) = Len(key) + 1 /\ Len(key) \in Nat
        /\ s[Len(key) + 1] = d /\ \A j \in 1 .. Len(key) : s[j] = key[j]
    BY <2>1, <2>2, AppendProperties
  <2> QED
    BY <2>1, <2>3 DEF d, key, s
<1>3. Listed(keys) \in Seq(Seq(Alphabet)) /\ Len(Listed(keys)) = N
  <2>1. \A i \in 1 .. N : Listed(keys)[i] \in Seq(Alphabet)
    BY <1>2
  <2>2. Listed(keys) = [i \in 1 .. N |-> Listed(keys)[i]]
    BY <1>1 DEF Listed
  <2> DEFINE s == Listed(keys)
  <2>3. s \in [1 .. N -> Seq(Alphabet)]
    <3> HIDE DEF s
    <3> QED
      BY <2>1, <2>2 DEF s
  <2> HIDE DEF s
  <2>4. s \in Seq(Seq(Alphabet)) /\ Len(s) = N
    <3>1. N \in Nat
      BY <1>1
    <3> HIDE DEF N
    <3> QED
      BY <2>3, <3>1
  <2> QED
    BY <2>4 DEF s
<1> QED
  BY <1>1, <1>2, <1>3

\* What is read of a list grows by the element that comes next.
LEMMA OneMore ==
  ASSUME NEW S, NEW s \in Seq(S), NEW n \in 0 .. Len(s) - 1
  PROVE  /\ Append(SubSeq(s, 1, n), s[n + 1]) = SubSeq(s, 1, n + 1)
         /\ Len(SubSeq(s, 1, n)) = n /\ Len(SubSeq(s, 1, n + 1)) = n + 1
         /\ n + 1 = Len(s) => SubSeq(s, 1, n + 1) = s
<1>1. Len(s) \in Nat /\ n \in Nat /\ n + 1 \in 1 .. Len(s) /\ 1 \in 1 .. Len(s) /\ (n + 1) - 1 = n
      /\ \A i \in 1 .. Len(s) : s[i] \in S
  OBVIOUS
<1>2. /\ SubSeq(s, 1, n) \in Seq(S) /\ Len(SubSeq(s, 1, n)) = n
      /\ Len(SubSeq(s, 1, n + 1)) = n + 1
  <2>1. \A i \in 1 .. n : s[i] \in S
    BY <1>1
  <2>2. \A i \in 1 .. n + 1 : s[i] \in S
    BY <1>1
  <2>3. SubSeq(s, 1, n) \in Seq(S) /\ Len(SubSeq(s, 1, n)) = IF 1 <= n THEN n - 1 + 1 ELSE 0
    BY <1>1, <2>1, SubSeqProperties
  <2>4. Len(SubSeq(s, 1, n + 1)) = IF 1 <= n + 1 THEN (n + 1) - 1 + 1 ELSE 0
    BY <1>1, <2>2, SubSeqProperties
  <2> QED
    BY <1>1, <2>3, <2>4
<1>3. SubSeq(s, 1, n + 1) = SubSeq(s, 1, n) \o <<s[n + 1]>>
  <2>1. n + 1 \in 1 .. Len(s)
    BY <1>1
  <2>2. SubSeq(s, 1, n + 1) = SubSeq(s, 1, (n + 1) - 1) \o <<s[n + 1]>>
    BY <1>1, <2>1, SubSeqRecursiveSecond
  <2> QED
    BY <1>1, <2>2
<1>4. Append(SubSeq(s, 1, n), s[n + 1]) = SubSeq(s, 1, n) \o <<s[n + 1]>>
  <2>1. s[n + 1] \in S
    BY <1>1
  <2> QED
    BY <1>2, <2>1, AppendIsConcat
<1> QED
  BY <1>2, <1>3, <1>4, SubSeqFull

\* The reader is in the list of a line.
LEMMA Listing ==
  ASSUME TypeOK, ~over, NEW k \in 1 .. Len(lines), Len(lines) \in Nat,
         NEW w \in Words, NEW args, lines[k].means = <<<<w, args>>>>,
         UNCHANGED <<program, lines, file, over>>, done' = Meant(k - 1), cmd' = w,
         NEW n \in Nat, n < Len(args), batch' = SubSeq(args, 1, n), Len(batch') = n,
         \/ /\ ListLine(lines[k].text, w, args)
            /\ pos' = Start(k) + Length(w) + 1 + Len(Part(Listed(args), n))
         \/ /\ WriteLine(lines[k].text, w, args)
            /\ pos' = Start(k) + Length(w) + 2 + Len(Part(Paired(args), n))
  PROVE  InStep'
<1>1. lines[k].means # <<>> /\ lines[k].means[1] = <<w, args>>
  OBVIOUS
<1>2. lines[k].means[1][1] = w /\ lines[k].means[1][2] = args
  BY <1>1
<1>3. Start(k)' = Start(k) /\ Meant(k - 1)' = Meant(k - 1) /\ Words' = Words
  BY Frame
<1>4. over' = FALSE /\ lines' = lines
  BY DEF TypeOK
<1>5. k <= Len(lines) /\ k \in 1 .. Len(lines) + 1
  OBVIOUS
<1>6. InList(k)'
  BY <1>1, <1>2, <1>3, <1>4, <1>5 DEF InList
<1> QED
  BY <1>4, <1>5, <1>6 DEF InStep

\* What read_string reads of the list of line k, when it has n keys.
ReadsKey(k, w, keys, n) ==
  LET at(i) == Start(k) + Length(w) + 1 + Len(Part(Listed(keys), i))
      key   == read_string(at(n))
  IN /\ key.stop = (IF n + 1 = Len(keys) THEN "]" ELSE Comma)
     /\ key.str = keys[n + 1] /\ key.pos = at(n + 1)
     /\ n + 1 = Len(keys) => Char(at(n + 1)) = "\n" /\ at(n + 1) + 1 = Start(k + 1)

\* read_string reads the keys of a list, and the end of its line is where the last one ends.
LEMMA KeyReads ==
  ASSUME TypeOK, FileRead, NEW k \in 1 .. Len(lines), NEW w \in Words, NEW keys,
         ListLine(lines[k].text, w, keys), NEW n \in 0 .. Len(keys) - 1
  PROVE  ReadsKey(k, w, keys, n)
<1> DEFINE p == Start(k) + Length(w)
           seqs == Listed(keys)
           tail == <<"\n">>
           L(i) == Len(Part(seqs, i))
           d == IF n + 1 = Len(keys) THEN "]" ELSE Comma
           name == keys[n + 1]
<1>1. /\ w \in {"READ", "DELETE", "SUBSCRIBE", "UNSUBSCRIBE"} /\ keys \in Seq(Seq(Characters))
      /\ \A i \in 1 .. Len(keys) : Name(keys[i])
      /\ lines[k].text = Spelled[w] \o <<"[">> \o FlattenSeq(Listed(keys)) \o <<"\n">>
  BY DEF ListLine
<1>2. w \in Words \ Single
  BY <1>1 DEF Single
<1>3. /\ seqs \in Seq(Seq(Alphabet)) /\ Len(seqs) = Len(keys) /\ Len(keys) \in Nat
      /\ n + 1 \in 1 .. Len(keys) /\ n \in Nat /\ (n + 1) - 1 = n
  <2>1. seqs \in Seq(Seq(Alphabet)) /\ Len(seqs) = Len(keys) /\ Len(keys) \in Nat
    BY <1>1, ListedKeys
  <2> HIDE DEF seqs
  <2> QED
    BY <2>1
<1>4. /\ name \in Seq(Characters) /\ Len(name) \in Nat /\ Len(seqs[n + 1]) = Len(name) + 1
      /\ seqs[n + 1][Len(name) + 1] = d /\ \A j \in 1 .. Len(name) : seqs[n + 1][j] = name[j]
  BY <1>1, <1>3, ListedKeys
<1>5. tail \in Seq(Alphabet) /\ Len(tail) = 1 /\ tail[1] = "\n" /\ 1 \in 1 .. Len(tail)
  BY Spells
<1>6. Name(name) /\ d \in {Comma, ")", "]"}
  BY <1>1, <1>3
<1> HIDE DEF seqs, tail, name, d
<1>7. lines[k].text = Spelled[w] \o <<"[">> \o FlattenSeq(seqs) \o tail
  BY <1>1 DEF seqs, tail
<1>8. /\ file \in Seq(Characters) /\ p \in Positions
      /\ Start(k + 1) = p + 1 + L(Len(seqs)) + Len(tail)
      /\ L((n + 1) - 1) \in Nat /\ L(n + 1) = L((n + 1) - 1) + Len(seqs[n + 1])
      /\ \A j \in 1 .. Len(seqs[n + 1]) :
           p + L((n + 1) - 1) + j <= Len(file) /\ Char(p + L((n + 1) - 1) + j) = seqs[n + 1][j]
      /\ Char(p + L(Len(seqs)) + 1) = tail[1]
  <2>1. n + 1 \in 1 .. Len(seqs)
    BY <1>3
  <2> QED
    <3>1. /\ file \in Seq(Characters) /\ p \in Positions
          /\ Start(k + 1) = p + 1 + L(Len(seqs)) + Len(tail)
          /\ \A i \in 1 .. Len(seqs) :
               /\ L(i - 1) \in Nat /\ L(i) = L(i - 1) + Len(seqs[i])
               /\ \A j \in 1 .. Len(seqs[i]) :
                    p + L(i - 1) + j <= Len(file) /\ Char(p + L(i - 1) + j) = seqs[i][j]
          /\ \A j \in 1 .. Len(tail) : Char(p + L(Len(seqs)) + j) = tail[j]
      <4>1. seqs \in Seq(Seq(Alphabet)) /\ tail \in Seq(Alphabet)
        BY <1>3, <1>5
      <4>2. InBrackets(k, w, seqs, tail)
        BY <1>2, <1>7, <4>1, BracketLine
      <4> QED
        BY <4>2 DEF InBrackets
    <3> HIDE DEF p, L
    <3> QED
      BY <1>5, <2>1, <3>1
<1> HIDE DEF p, L
<1> DEFINE q == p + 1 + L(n)
           z == Len(name)
<1>9. p \in Nat \ {0} /\ L(n) \in Nat /\ z \in Nat /\ L(n + 1) = L(n) + (z + 1) /\ Len(file) \in Nat
  <2>1. L(n) \in Nat /\ L(n + 1) = L(n) + (z + 1) /\ z \in Nat
    <3>1. (n + 1) - 1 = n
      BY <1>3
    <3>2. L((n + 1) - 1) \in Nat /\ L(n + 1) = L((n + 1) - 1) + Len(seqs[n + 1])
      BY <1>8
    <3>3. Len(seqs[n + 1]) = z + 1 /\ z \in Nat
      BY <1>4
    <3> HIDE DEF z
    <3> QED
      BY <3>1, <3>2, <3>3
  <2>2. p \in Nat \ {0} /\ Len(file) \in Nat
    BY <1>8, SMTT(60) DEF Positions
  <2> QED
    BY <2>1, <2>2
<1>10. ASSUME NEW j \in 1 .. z + 1
       PROVE  q + j - 1 <= Len(file) /\ Char(q + j - 1) = seqs[n + 1][j]
  <2>1. p + L(n) + j <= Len(file) /\ Char(p + L(n) + j) = seqs[n + 1][j]
    BY <1>3, <1>4, <1>8
  <2>2. p + L(n) + j = q + j - 1
    <3> HIDE DEF z
    <3> QED
      BY <1>9
  <2> QED
    BY <2>1, <2>2
<1>11. q + z <= Len(file) /\ Char(q + z) = d
  <2>1. z + 1 \in 1 .. z + 1 /\ q + (z + 1) - 1 = q + z
    <3> HIDE DEF z
    <3> QED
      BY <1>9
  <2>2. q + (z + 1) - 1 <= Len(file) /\ Char(q + (z + 1) - 1) = seqs[n + 1][z + 1]
    BY <1>10, <2>1
  <2> QED
    BY <1>4, <2>1, <2>2
<1>12. \A j \in 1 .. z : Char(q + j - 1) = name[j]
  <2> TAKE j \in 1 .. z
  <2>1. j \in 1 .. z + 1
    BY <1>9
  <2> QED
    BY <1>4, <1>10, <2>1
<1>13. q \in Positions
  <2> HIDE DEF z
  <2>1. q + z <= Len(file)
    BY <1>11
  <2> QED
    BY <1>9, <2>1 DEF Positions
<1> HIDE DEF q
<1>14. read_string(q).stop = d /\ read_string(q).str = name /\ read_string(q).pos = q + z + 1
  BY <1>4, <1>6, <1>8, <1>11, <1>12, <1>13, NameReads
<1>15. q + z + 1 = p + 1 + L(n + 1)
  <2> HIDE DEF z
  <2> QED
    BY <1>9 DEF q
<1>16. n + 1 = Len(keys) => Char(p + 1 + L(n + 1)) = "\n" /\ p + 1 + L(n + 1) + 1 = Start(k + 1)
  <2> SUFFICES ASSUME n + 1 = Len(keys)
               PROVE  Char(p + 1 + L(n + 1)) = "\n" /\ p + 1 + L(n + 1) + 1 = Start(k + 1)
    OBVIOUS
  <2>1. n + 1 = Len(seqs)
    BY <1>3
  <2>2. L(n + 1) \in Nat
    <3> HIDE DEF z
    <3> QED
      BY <1>9
  <2>3. p + L(n + 1) + 1 = p + 1 + L(n + 1)
    BY <1>9, <2>2
  <2> QED
    BY <1>5, <1>8, <2>1, <2>3
<1> QED
  BY <1>14, <1>15, <1>16 DEF ReadsKey, q, d, name, p, L, seqs

\* The elements of a list of pairs.
LEMMA PairedNames ==
  ASSUME NEW pairs \in Seq(Seq(Characters) \X Seq(Characters))
  PROVE  /\ Paired(pairs) \in Seq(Seq(Alphabet)) /\ Len(Paired(pairs)) = Len(pairs) /\ Len(pairs) \in Nat
         /\ \A i \in 1 .. Len(pairs) :
              LET key   == pairs[i][1]
                  value == pairs[i][2]
                  s     == Paired(pairs)[i]
              IN /\ key \in Seq(Characters) /\ value \in Seq(Characters)
                 /\ Len(key) \in Nat /\ Len(value) \in Nat /\ Len(s) = Len(key) + Len(value) + 3
                 /\ s[1] = "(" /\ \A j \in 1 .. Len(key) : s[1 + j] = key[j]
                 /\ s[1 + Len(key) + 1] = Comma
                 /\ \A j \in 1 .. Len(value) : s[Len(key) + 2 + j] = value[j]
                 /\ s[Len(key) + 2 + Len(value) + 1] = ")"
<1> DEFINE N == Len(pairs)
<1>1. /\ N \in Nat /\ DOMAIN pairs = 1 .. N
      /\ \A i \in 1 .. N : pairs[i][1] \in Seq(Characters) /\ pairs[i][2] \in Seq(Characters)
  OBVIOUS
<1>2. ASSUME NEW i \in 1 .. N
      PROVE  LET key   == pairs[i][1]
                 value == pairs[i][2]
                 s     == Paired(pairs)[i]
             IN /\ key \in Seq(Characters) /\ value \in Seq(Characters)
                /\ Len(key) \in Nat /\ Len(value) \in Nat /\ Len(s) = Len(key) + Len(value) + 3
                /\ s[1] = "(" /\ \A j \in 1 .. Len(key) : s[1 + j] = key[j]
                /\ s[1 + Len(key) + 1] = Comma
                /\ \A j \in 1 .. Len(value) : s[Len(key) + 2 + j] = value[j]
                /\ s[Len(key) + 2 + Len(value) + 1] = ")"
                /\ s \in Seq(Alphabet)
  <2> DEFINE key   == pairs[i][1]
             value == pairs[i][2]
             s     == Paired(pairs)[i]
             open  == <<"(">>
             comma == <<Comma>>
             close == <<")">>
             s1    == open \o key
             s2    == s1 \o comma
             s3    == s2 \o value
             y     == Len(key)
             z     == Len(value)
  <2>1. /\ key \in Seq(Characters) /\ key \in Seq(Alphabet) /\ value \in Seq(Characters)
        /\ value \in Seq(Alphabet)
    BY <1>1, Spells
  <2>2. /\ open \in Seq(Alphabet) /\ comma \in Seq(Alphabet) /\ close \in Seq(Alphabet)
        /\ Len(open) = 1 /\ Len(comma) = 1 /\ Len(close) = 1
        /\ open[1] = "(" /\ comma[1] = Comma /\ close[1] = ")" /\ 1 \in 1 .. 1
    BY Spells
  <2>3. s = s3 \o close
    BY <1>1 DEF Paired
  <2> HIDE DEF key, value, s, open, comma, close
  <2>4. /\ s1 \in Seq(Alphabet) /\ Len(s1) = 1 + y /\ y \in Nat
        /\ s1[1] = "(" /\ \A j \in 1 .. y : s1[1 + j] = key[j]
    <3>1. /\ s1 \in Seq(Alphabet) /\ Len(key) \in Nat /\ Len(s1) = Len(open) + Len(key)
          /\ \A j \in 1 .. Len(open) : s1[j] = open[j]
          /\ \A j \in 1 .. Len(key) : s1[Len(open) + j] = key[j]
      <4>1. open \in Seq(Alphabet) /\ key \in Seq(Alphabet)
        BY <2>1, <2>2
      <4> QED
        BY <4>1, Halves
    <3> HIDE DEF s1
    <3> QED
      BY <2>2, <3>1
  <2> HIDE DEF s1
  <2>5. /\ s2 \in Seq(Alphabet) /\ Len(s2) = y + 2
        /\ \A j \in 1 .. y + 1 : s2[j] = s1[j]
        /\ s2[1 + y + 1] = Comma
    <3>1. /\ s2 \in Seq(Alphabet) /\ Len(s2) = Len(s1) + Len(comma)
          /\ \A j \in 1 .. Len(s1) : s2[j] = s1[j]
          /\ \A j \in 1 .. Len(comma) : s2[Len(s1) + j] = comma[j]
      <4>1. s1 \in Seq(Alphabet) /\ comma \in Seq(Alphabet)
        BY <2>2, <2>4
      <4> QED
        BY <4>1, Halves
    <3> HIDE DEF s2, y
    <3> QED
      BY <2>2, <2>4, <3>1
  <2> HIDE DEF s2
  <2>6. /\ s3 \in Seq(Alphabet) /\ Len(s3) = y + 2 + z /\ z \in Nat
        /\ \A j \in 1 .. y + 2 : s3[j] = s2[j]
        /\ \A j \in 1 .. z : s3[y + 2 + j] = value[j]
    <3>1. /\ s3 \in Seq(Alphabet) /\ Len(value) \in Nat /\ Len(s3) = Len(s2) + Len(value)
          /\ \A j \in 1 .. Len(s2) : s3[j] = s2[j]
          /\ \A j \in 1 .. Len(value) : s3[Len(s2) + j] = value[j]
      <4>1. s2 \in Seq(Alphabet) /\ value \in Seq(Alphabet)
        BY <2>1, <2>5
      <4> QED
        BY <4>1, Halves
    <3> HIDE DEF s3
    <3> QED
      BY <2>5, <3>1
  <2> HIDE DEF s3
  <2>7. /\ s \in Seq(Alphabet) /\ Len(s) = y + 2 + z + 1
        /\ \A j \in 1 .. y + 2 + z : s[j] = s3[j]
        /\ s[y + 2 + z + 1] = ")"
    <3>1. /\ s \in Seq(Alphabet) /\ Len(s) = Len(s3) + Len(close)
          /\ \A j \in 1 .. Len(s3) : s[j] = s3[j]
          /\ \A j \in 1 .. Len(close) : s[Len(s3) + j] = close[j]
      <4>1. s3 \in Seq(Alphabet) /\ close \in Seq(Alphabet)
        BY <2>2, <2>6
      <4> QED
        BY <2>3, <4>1, Halves
    <3> HIDE DEF y, z
    <3> QED
      BY <2>2, <2>6, <3>1
  <2> HIDE DEF y, z
  <2>8. y \in Nat /\ z \in Nat
    BY <2>4, <2>6
  <2>9. \A j \in 1 .. y + 1 : s[j] = s1[j]
    <3> TAKE j \in 1 .. y + 1
    <3>1. j \in 1 .. y + 2 /\ j \in 1 .. y + 2 + z
      BY <2>8
    <3> QED
      BY <2>5, <2>6, <2>7, <3>1
  <2>10. s[1] = "(" /\ \A j \in 1 .. y : s[1 + j] = key[j]
    <3>1. 1 \in 1 .. y + 1 /\ \A j \in 1 .. y : 1 + j \in 1 .. y + 1
      BY <2>8
    <3> QED
      BY <2>4, <2>9, <3>1
  <2>11. s[1 + y + 1] = Comma
    <3>1. 1 + y + 1 \in 1 .. y + 2 /\ 1 + y + 1 \in 1 .. y + 2 + z
      BY <2>8
    <3> QED
      BY <2>5, <2>6, <2>7, <3>1
  <2>12. \A j \in 1 .. z : s[y + 2 + j] = value[j]
    <3> TAKE j \in 1 .. z
    <3>1. y + 2 + j \in 1 .. y + 2 + z
      BY <2>8
    <3> QED
      BY <2>6, <2>7, <3>1
  <2>13. Len(s) = y + z + 3
    BY <2>7, <2>8
  <2> QED
    BY <2>1, <2>7, <2>8, <2>10, <2>11, <2>12, <2>13 DEF y, z, key, value, s
<1>3. Paired(pairs) \in Seq(Seq(Alphabet)) /\ Len(Paired(pairs)) = N
  <2>1. \A i \in 1 .. N : Paired(pairs)[i] \in Seq(Alphabet)
    BY <1>2
  <2>2. Paired(pairs) = [i \in 1 .. N |-> Paired(pairs)[i]]
    BY <1>1 DEF Paired
  <2> DEFINE s == Paired(pairs)
  <2>3. s \in [1 .. N -> Seq(Alphabet)]
    <3> HIDE DEF s
    <3> QED
      BY <2>1, <2>2 DEF s
  <2> HIDE DEF s
  <2>4. s \in Seq(Seq(Alphabet)) /\ Len(s) = N
    <3>1. N \in Nat
      BY <1>1
    <3> HIDE DEF N
    <3> QED
      BY <2>3, <3>1
  <2> QED
    BY <2>4 DEF s
<1> QED
  BY <1>1, <1>2, <1>3

\* The first m characters of s stand behind o.
Behind(o, m, s) == \A j \in 1 .. m : o + j <= Len(file) /\ Char(o + j) = s[j]

\* In s, name follows the first a characters.
Holds(s, a, name) == \A j \in 1 .. Len(name) : s[a + j] = name[j]

\* read_string reads a name inside of an element that stands behind o.
LEMMA NameInside ==
  ASSUME file \in Seq(Characters), NEW o \in Nat, NEW m \in Nat, NEW s,
         Behind(o, m, s), NEW a \in Nat, NEW name \in Seq(Characters), Name(name), NEW d \in {Comma, ")", "]"},
         a + Len(name) + 1 <= m, Holds(s, a, name), s[a + Len(name) + 1] = d
  PROVE  /\ read_string(o + a + 1).stop = d /\ read_string(o + a + 1).str = name
         /\ read_string(o + a + 1).pos = o + a + 1 + Len(name) + 1
<1> DEFINE q == o + a + 1
           z == Len(name)
<1>1. z \in Nat /\ Len(file) \in Nat
  OBVIOUS
<1> HIDE DEF z
<1>2. ASSUME NEW j \in 1 .. z
      PROVE  Char(q + j - 1) = name[j]
  <2>1. a + j \in 1 .. m /\ o + (a + j) = q + j - 1
    BY <1>1 DEF z
  <2>2. Char(o + (a + j)) = s[a + j]
    BY <2>1 DEF Behind
  <2>3. s[a + j] = name[j]
    BY DEF z, Holds
  <2> QED
    BY <2>1, <2>2, <2>3
<1>3. q + z <= Len(file) /\ Char(q + z) = d
  <2>1. a + z + 1 \in 1 .. m /\ o + (a + z + 1) = q + z
    BY <1>1 DEF z
  <2>2. o + (a + z + 1) <= Len(file) /\ Char(o + (a + z + 1)) = s[a + z + 1] /\ s[a + z + 1] = d
    BY <2>1 DEF z, Behind
  <2> QED
    BY <2>1, <2>2
<1>4. q \in Positions
  BY <1>1, <1>3 DEF Positions
<1> HIDE DEF q
<1>5. /\ q + Len(name) <= Len(file) /\ Char(q + Len(name)) = d
      /\ \A j \in 1 .. Len(name) : Char(q + j - 1) = name[j]
  BY <1>2, <1>3 DEF z
<1>6. read_string(q).stop = d /\ read_string(q).str = name /\ read_string(q).pos = q + Len(name) + 1
  BY <1>4, <1>5, NameReads
<1> QED
  BY <1>6 DEF q

\* What read_string reads of the list of line k, when it has n pairs.
ReadsPair(k, w, pairs, n) ==
  LET at(i) == Start(k) + Length(w) + 2 + Len(Part(Paired(pairs), i))
      key   == read_string(at(n))
      value == read_string(key.pos)
  IN /\ key.stop = Comma /\ key.str = pairs[n + 1][1]
     /\ value.stop = ")" /\ value.str = pairs[n + 1][2] /\ value.pos + 1 = at(n + 1)
     /\ n + 1 # Len(pairs) => Char(value.pos) = "("
     /\ n + 1 = Len(pairs) => /\ Char(value.pos) = "]" /\ Char(value.pos + 1) = "\n"
                              /\ value.pos + 1 + 1 = Start(k + 1)

\* read_string reads the key and the value of a pair, and behind the pair is the next one
\* or the end of the list and of its line.
LEMMA PairReads ==
  ASSUME TypeOK, FileRead, NEW k \in 1 .. Len(lines), NEW w \in Words, NEW pairs,
         WriteLine(lines[k].text, w, pairs), NEW n \in 0 .. Len(pairs) - 1
  PROVE  ReadsPair(k, w, pairs, n)
<1> DEFINE p == Start(k) + Length(w)
           seqs == Paired(pairs)
           tail == <<"]", "\n">>
           L(i) == Len(Part(seqs, i))
           name == pairs[n + 1][1]
           val  == pairs[n + 1][2]
           s    == seqs[n + 1]
<1>1. /\ w = "WRITE" /\ pairs \in Seq(Seq(Characters) \X Seq(Characters))
      /\ \A i \in 1 .. Len(pairs) : Name(pairs[i][1]) /\ Name(pairs[i][2])
      /\ lines[k].text = Spelled[w] \o <<"[">> \o FlattenSeq(Paired(pairs)) \o <<"]", "\n">>
  BY DEF WriteLine
<1>2. w \in Words \ Single
  BY <1>1 DEF Single
<1>3. /\ seqs \in Seq(Seq(Alphabet)) /\ Len(seqs) = Len(pairs) /\ Len(pairs) \in Nat
      /\ n + 1 \in 1 .. Len(pairs) /\ n \in Nat /\ (n + 1) - 1 = n
  <2>1. seqs \in Seq(Seq(Alphabet)) /\ Len(seqs) = Len(pairs) /\ Len(pairs) \in Nat
    BY <1>1, PairedNames
  <2> HIDE DEF seqs
  <2> QED
    BY <2>1
<1>4. /\ name \in Seq(Characters) /\ val \in Seq(Characters)
      /\ Len(name) \in Nat /\ Len(val) \in Nat /\ Len(s) = Len(name) + Len(val) + 3
      /\ s[1] = "(" /\ \A j \in 1 .. Len(name) : s[1 + j] = name[j]
      /\ s[1 + Len(name) + 1] = Comma
      /\ \A j \in 1 .. Len(val) : s[Len(name) + 2 + j] = val[j]
      /\ s[Len(name) + 2 + Len(val) + 1] = ")"
  BY <1>1, <1>3, PairedNames
<1>5. /\ tail \in Seq(Alphabet) /\ Len(tail) = 2 /\ tail[1] = "]" /\ tail[2] = "\n"
      /\ 1 \in 1 .. Len(tail) /\ 2 \in 1 .. Len(tail)
  <2>1. "]" \in Alphabet /\ "\n" \in Alphabet
    BY Spells
  <2> QED
    BY <2>1
<1>6. Name(name) /\ Name(val) /\ Comma \in {Comma, ")", "]"} /\ ")" \in {Comma, ")", "]"}
  BY <1>1, <1>3
<1>7. n + 1 # Len(pairs) => n + 2 \in 1 .. Len(pairs) /\ seqs[n + 2][1] = "(" /\ Len(seqs[n + 2]) \in Nat \ {0}
  <2> SUFFICES ASSUME n + 1 # Len(pairs)
               PROVE  n + 2 \in 1 .. Len(pairs) /\ seqs[n + 2][1] = "(" /\ Len(seqs[n + 2]) \in Nat \ {0}
    OBVIOUS
  <2>1. n + 2 \in 1 .. Len(pairs)
    BY <1>3
  <2>2. /\ seqs[n + 2][1] = "(" /\ Len(pairs[n + 2][1]) \in Nat /\ Len(pairs[n + 2][2]) \in Nat
        /\ Len(seqs[n + 2]) = Len(pairs[n + 2][1]) + Len(pairs[n + 2][2]) + 3
    BY <1>1, <2>1, PairedNames
  <2>3. \A a, b \in Nat : a + b + 3 \in Nat \ {0}
    OBVIOUS
  <2> HIDE DEF seqs
  <2> QED
    BY <2>1, <2>2, <2>3
<1> HIDE DEF s, seqs, tail, name, val
<1>8. InBrackets(k, w, seqs, tail)
  <2>1. lines[k].text = Spelled[w] \o <<"[">> \o FlattenSeq(seqs) \o tail
    BY <1>1 DEF seqs, tail
  <2>2. seqs \in Seq(Seq(Alphabet)) /\ tail \in Seq(Alphabet)
    BY <1>3, <1>5
  <2> QED
    BY <1>2, <2>1, <2>2, BracketLine
<1>9. /\ file \in Seq(Characters) /\ p \in Positions
      /\ Start(k + 1) = p + 1 + L(Len(seqs)) + Len(tail)
      /\ \A i \in 1 .. Len(seqs) :
           /\ L(i - 1) \in Nat /\ L(i) = L(i - 1) + Len(seqs[i])
           /\ \A j \in 1 .. Len(seqs[i]) :
                p + L(i - 1) + j <= Len(file) /\ Char(p + L(i - 1) + j) = seqs[i][j]
      /\ \A j \in 1 .. Len(tail) : Char(p + L(Len(seqs)) + j) = tail[j]
  BY <1>8 DEF InBrackets
<1> HIDE DEF p, L
<1> DEFINE o == p + L(n)
           m == Len(s)
           y == Len(name)
           z == Len(val)
<1>10. /\ L(n) \in Nat /\ L(n + 1) = L(n) + Len(s)
       /\ \A j \in 1 .. Len(s) : o + j <= Len(file) /\ Char(o + j) = s[j]
  <2>1. n + 1 \in 1 .. Len(seqs)
    BY <1>3
  <2>2. /\ L((n + 1) - 1) \in Nat /\ L(n + 1) = L((n + 1) - 1) + Len(seqs[n + 1])
        /\ \A j \in 1 .. Len(seqs[n + 1]) :
             p + L((n + 1) - 1) + j <= Len(file) /\ Char(p + L((n + 1) - 1) + j) = seqs[n + 1][j]
    BY <1>9, <2>1
  <2> QED
    BY <1>3, <2>2 DEF s
<1>11. /\ p \in Nat /\ o \in Nat /\ m \in Nat /\ y \in Nat /\ z \in Nat /\ m = y + z + 3 /\ o = p + L(n)
       /\ L(n + 1) = L(n) + m /\ L(n) \in Nat
  <2>1. p \in Nat
    BY <1>9 DEF Positions
  <2>2. L(n) \in Nat /\ L(n + 1) = L(n) + m /\ y \in Nat /\ z \in Nat /\ m = y + z + 3
    BY <1>4, <1>10
  <2> HIDE DEF m, y, z
  <2> QED
    BY <2>1, <2>2
<1> HIDE DEF o, m, y, z
<1> DEFINE key   == read_string(o + 1 + 1)
           value == read_string(key.pos)
<1>12. key.stop = Comma /\ key.str = name /\ key.pos = o + 1 + 1 + y + 1
  <2>1. 1 \in Nat /\ 1 + y + 1 <= m
    BY <1>11
  <2>2. Behind(o, m, s)
    BY <1>10 DEF m, Behind
  <2>3. 1 + Len(name) + 1 <= m /\ s[1 + Len(name) + 1] = Comma /\ Holds(s, 1, name)
    BY <1>4, <2>1 DEF y, Holds
  <2>4. /\ file \in Seq(Characters) /\ o \in Nat /\ m \in Nat /\ name \in Seq(Characters) /\ Name(name)
        /\ Comma \in {Comma, ")", "]"}
    BY <1>4, <1>6, <1>9, <1>11
  <2>5. key.stop = Comma /\ key.str = name /\ key.pos = o + 1 + 1 + Len(name) + 1
    BY <2>1, <2>2, <2>3, <2>4, NameInside
  <2> HIDE DEF key
  <2> QED
    BY <2>5 DEF y
<1> HIDE DEF key
<1>13. value.stop = ")" /\ value.str = val /\ value.pos = o + (y + 2) + 1 + z + 1
  <2>1. y + 2 \in Nat /\ y + 2 + z + 1 <= m /\ key.pos = o + (y + 2) + 1
    BY <1>11, <1>12
  <2>2. Behind(o, m, s)
    BY <1>10 DEF m, Behind
  <2>3. /\ (y + 2) + Len(val) + 1 <= m /\ s[(y + 2) + Len(val) + 1] = ")"
        /\ Holds(s, y + 2, val)
    BY <1>4, <2>1 DEF y, z, Holds
  <2>4. /\ file \in Seq(Characters) /\ o \in Nat /\ m \in Nat /\ val \in Seq(Characters) /\ Name(val)
        /\ ")" \in {Comma, ")", "]"}
    BY <1>4, <1>6, <1>9, <1>11
  <2> DEFINE a == y + 2
  <2> HIDE DEF a
  <2>5. /\ a \in Nat /\ a + Len(val) + 1 <= m /\ s[a + Len(val) + 1] = ")"
        /\ Holds(s, a, val)
        /\ key.pos = o + a + 1
    BY <2>1, <2>3 DEF a
  <2>6. /\ read_string(o + a + 1).stop = ")" /\ read_string(o + a + 1).str = val
        /\ read_string(o + a + 1).pos = o + a + 1 + Len(val) + 1
    BY <2>2, <2>4, <2>5, NameInside
  <2> QED
    BY <2>5, <2>6 DEF a, z
<1> HIDE DEF value
<1>14. value.pos = p + L(n + 1) + 1 /\ L(n + 1) \in Nat
  <2> DEFINE l0 == L(n)
             l1 == L(n + 1)
             v  == value.pos
  <2>1. /\ p \in Nat /\ m \in Nat /\ y \in Nat /\ z \in Nat /\ m = y + z + 3 /\ o = p + l0
        /\ l1 = l0 + m /\ l0 \in Nat /\ v = o + (y + 2) + 1 + z + 1
    BY <1>11, <1>13
  <2>2. v = p + l1 + 1 /\ l1 \in Nat
    <3> HIDE DEF l0, l1, v
    <3> QED
      BY <2>1
  <2> QED
    BY <2>2
<1>15. n + 1 # Len(pairs) => Char(value.pos) = "("
  <2> SUFFICES ASSUME n + 1 # Len(pairs)
               PROVE  Char(value.pos) = "("
    OBVIOUS
  <2>1. n + 2 \in 1 .. Len(seqs) /\ seqs[n + 2][1] = "(" /\ Len(seqs[n + 2]) \in Nat \ {0} /\ (n + 2) - 1 = n + 1
    BY <1>3, <1>7
  <2>2. 1 \in 1 .. Len(seqs[n + 2])
    BY <2>1
  <2>3. Char(p + L((n + 2) - 1) + 1) = seqs[n + 2][1]
    BY <1>9, <2>1, <2>2
  <2> QED
    BY <1>14, <2>1, <2>3
<1>16. n + 1 = Len(pairs) =>
         /\ Char(value.pos) = "]" /\ Char(value.pos + 1) = "\n" /\ value.pos + 1 + 1 = Start(k + 1)
  <2> SUFFICES ASSUME n + 1 = Len(pairs)
               PROVE  Char(value.pos) = "]" /\ Char(value.pos + 1) = "\n" /\ value.pos + 1 + 1 = Start(k + 1)
    OBVIOUS
  <2>1. L(Len(seqs)) = L(n + 1)
    BY <1>3
  <2>2. Char(p + L(n + 1) + 1) = tail[1] /\ Char(p + L(n + 1) + 2) = tail[2]
        /\ Start(k + 1) = p + 1 + L(n + 1) + 2
    BY <1>5, <1>9, <2>1
  <2>3. value.pos + 1 = p + L(n + 1) + 2 /\ value.pos + 1 + 1 = p + 1 + L(n + 1) + 2
    BY <1>11, <1>14, SMTT(60)
  <2> QED
    BY <1>5, <1>14, <2>2, <2>3
<1>17. value.pos + 1 = p + 2 + L(n + 1) /\ o + 1 + 1 = p + 2 + L(n)
  <2> DEFINE l0 == L(n)
             l1 == L(n + 1)
             v  == value.pos
  <2>1. p \in Nat /\ o = p + l0 /\ l0 \in Nat /\ l1 \in Nat /\ v = p + l1 + 1
    BY <1>11, <1>14
  <2>2. v + 1 = p + 2 + l1 /\ o + 1 + 1 = p + 2 + l0
    <3> HIDE DEF l0, l1, v
    <3> QED
      BY <2>1
  <2> QED
    BY <2>2
<1>18. /\ key = read_string(p + 2 + L(n)) /\ key.stop = Comma /\ key.str = name
       /\ value = read_string(key.pos) /\ value.stop = ")" /\ value.str = val
  BY <1>12, <1>13, <1>17 DEF key, value
<1> QED
  BY <1>15, <1>16, <1>17, <1>18 DEF ReadsPair, name, val, p, L, seqs

\* A list is opened behind its bracket.
LEMMA ListOpens ==
  ASSUME TypeOK, FileRead, AllValid, Next, NEW k \in 1 .. Len(lines), Between(k),
         NEW w \in Words, NEW args, lines[k].means = <<<<w, args>>>>, ListLine(lines[k].text, w, args)
  PROVE  InStep'
<1> DEFINE p == Start(k) + Length(w)
<1>1. /\ w \in {"READ", "DELETE", "SUBSCRIBE", "UNSUBSCRIBE"} /\ args \in Seq(Seq(Characters))
      /\ Len(args) > 0
      /\ lines[k].text = Spelled[w] \o <<"[">> \o FlattenSeq(Listed(args)) \o <<"\n">>
  BY DEF ListLine
<1>2. pos = Start(k) /\ cmd = None /\ done = Meant(k - 1)
  BY DEF Between
<1>3. InBrackets(k, w, Listed(args), <<"\n">>)
  <2>1. Listed(args) \in Seq(Seq(Alphabet)) /\ <<"\n">> \in Seq(Alphabet) /\ w \in Words \ Single
    BY <1>1, ListedKeys, Spells DEF Single
  <2> QED
    BY <1>1, <2>1, BracketLine
<1>4. /\ get_next(pos) = [cmd |-> w, pos |-> p] /\ Char(p) = "[" /\ p \in Positions
      /\ Len(Part(Listed(args), 0)) = 0
  BY <1>2, <1>3 DEF InBrackets
<1>5. /\ ~over
      /\ \/ OpenList({"READ", "DELETE"}) \/ OpenList({"SUBSCRIBE", "UNSUBSCRIBE"})
  BY <1>1, <1>2, <1>4, NextIs
<1>6. Arguments = p /\ get_next(pos).cmd = w
  BY <1>4 DEF Arguments
<1> HIDE DEF p
<1>7. Continue(w, <<>>, p + 1)
  BY <1>4, <1>5, <1>6 DEF OpenList
<1>8. /\ UNCHANGED <<program, lines, file, over>> /\ done' = Meant(k - 1) /\ cmd' = w
      /\ batch' = <<>> /\ pos' = p + 1
  BY <1>2, <1>7 DEF Continue
<1>9. SubSeq(args, 1, 0) = <<>> /\ Len(<<>>) = 0 /\ 0 \in Nat /\ 0 < Len(args)
  BY <1>1
<1>10. pos' = Start(k) + Length(w) + 1 + Len(Part(Listed(args), 0))
  <2>1. p \in Nat
    BY <1>4 DEF Positions
  <2>2. p + 1 + 0 = p + 1
    BY <2>1
  <2> QED
    BY <1>4, <1>8, <2>2 DEF p
<1>11. batch' = SubSeq(args, 1, 0) /\ Len(batch') = 0 /\ Len(lines) \in Nat
  BY <1>8, <1>9, LinesEnd
<1> QED
  BY <1>5, <1>8, <1>9, <1>10, <1>11, Listing

\* So is the list of a WRITE, behind its two brackets.
LEMMA WriteOpens ==
  ASSUME TypeOK, FileRead, AllValid, Next, NEW k \in 1 .. Len(lines), Between(k),
         NEW w \in Words, NEW args, lines[k].means = <<<<w, args>>>>, WriteLine(lines[k].text, w, args)
  PROVE  InStep'
<1> DEFINE p == Start(k) + Length(w)
           seqs == Paired(args)
           tail == <<"]", "\n">>
<1>1. /\ w = "WRITE" /\ args \in Seq(Seq(Characters) \X Seq(Characters)) /\ Len(args) \in Nat \ {0}
      /\ lines[k].text = Spelled[w] \o <<"[">> \o FlattenSeq(Paired(args)) \o <<"]", "\n">>
  <2>1. w = "WRITE" /\ Len(args) \in 1 .. MAX_WRITE_SIZE - 1
    BY DEF WriteLine
  <2>2. MAX_WRITE_SIZE \in Nat
    BY SizeAssumption
  <2>3. args \in Seq(Seq(Characters) \X Seq(Characters))
    BY DEF WriteLine
  <2>4. lines[k].text = Spelled[w] \o <<"[">> \o FlattenSeq(Paired(args)) \o <<"]", "\n">>
    BY DEF WriteLine
  <2> QED
    BY <2>1, <2>2, <2>3, <2>4
<1>2. pos = Start(k) /\ cmd = None /\ done = Meant(k - 1)
  BY DEF Between
<1>3. InBrackets(k, w, seqs, tail)
  <2>1. "]" \in Alphabet /\ "\n" \in Alphabet
    BY Spells
  <2>2. seqs \in Seq(Seq(Alphabet)) /\ tail \in Seq(Alphabet) /\ w \in Words \ Single
    <3>1. seqs \in Seq(Seq(Alphabet))
      BY <1>1, PairedNames
    <3>2. w \notin Single
      BY <1>1 DEF Single
    <3> HIDE DEF seqs
    <3> QED
      BY <2>1, <3>1, <3>2
  <2> QED
    BY <1>1, <2>2, BracketLine
<1>4. /\ 1 \in 1 .. Len(seqs) /\ seqs[1][1] = "(" /\ Len(seqs[1]) \in Nat \ {0}
  <2>1. 1 \in 1 .. Len(args)
    BY <1>1
  <2>2. /\ seqs[1][1] = "(" /\ Len(args[1][1]) \in Nat /\ Len(args[1][2]) \in Nat
        /\ Len(seqs[1]) = Len(args[1][1]) + Len(args[1][2]) + 3 /\ Len(seqs) = Len(args)
    <3>1. args \in Seq(Seq(Characters) \X Seq(Characters))
      BY <1>1
    <3>2. /\ Len(seqs) = Len(args)
          /\ \A i \in 1 .. Len(args) :
               /\ seqs[i][1] = "(" /\ Len(args[i][1]) \in Nat /\ Len(args[i][2]) \in Nat
               /\ Len(seqs[i]) = Len(args[i][1]) + Len(args[i][2]) + 3
      BY <3>1, PairedNames
    <3> HIDE DEF seqs
    <3> QED
      BY <2>1, <3>2
  <2>3. \A a, b \in Nat : a + b + 3 \in Nat \ {0}
    OBVIOUS
  <2> HIDE DEF seqs
  <2> QED
    BY <2>1, <2>2, <2>3
<1>5. /\ get_next(pos) = [cmd |-> w, pos |-> p] /\ Char(p) = "[" /\ p \in Positions
      /\ Len(Part(Paired(args), 0)) = 0 /\ Char(p + 1) = "("
  <2> DEFINE L(i) == Len(Part(seqs, i))
  <2>1. /\ get_next(Start(k)) = [cmd |-> w, pos |-> p] /\ Char(p) = "[" /\ p \in Positions /\ L(0) = 0
        /\ \A i \in 1 .. Len(seqs) : \A j \in 1 .. Len(seqs[i]) : Char(p + L(i - 1) + j) = seqs[i][j]
    BY <1>3 DEF InBrackets
  <2>2. p \in Nat
    BY <2>1 DEF Positions
  <2> HIDE DEF p, L, seqs
  <2>3. 1 \in 1 .. Len(seqs[1]) /\ 1 - 1 = 0 /\ p + 0 + 1 = p + 1
    BY <1>4, <2>2
  <2>4. Char(p + L(1 - 1) + 1) = seqs[1][1]
    BY <1>4, <2>1, <2>3
  <2>5. Char(p + 1) = "("
    BY <1>4, <2>1, <2>3, <2>4
  <2> QED
    BY <1>2, <2>1, <2>5 DEF L, seqs
<1>6. /\ ~over /\ Write
  BY <1>1, <1>2, <1>5, NextIs
<1>7. Arguments = p
  BY <1>5 DEF Arguments
<1> HIDE DEF p
<1>8. Continue(w, <<>>, p + 2)
  BY <1>1, <1>5, <1>6, <1>7 DEF Write
<1>9. /\ UNCHANGED <<program, lines, file, over>> /\ done' = Meant(k - 1) /\ cmd' = w
      /\ batch' = <<>> /\ pos' = p + 2
  BY <1>2, <1>8 DEF Continue
<1>10. SubSeq(args, 1, 0) = <<>> /\ Len(<<>>) = 0 /\ 0 \in Nat /\ 0 < Len(args)
  BY <1>1
<1>11. pos' = Start(k) + Length(w) + 2 + Len(Part(Paired(args), 0))
  <2>1. p \in Nat
    BY <1>5 DEF Positions
  <2>2. p + 2 + 0 = p + 2
    BY <2>1
  <2> QED
    BY <1>5, <1>9, <2>2 DEF p
<1>12. batch' = SubSeq(args, 1, 0) /\ Len(batch') = 0 /\ Len(lines) \in Nat
  BY <1>9, <1>10, LinesEnd
<1> QED
  BY <1>6, <1>9, <1>10, <1>11, <1>12, Listing

\* One key more is read, or the last one, with which the command is executed.
LEMMA KeySteps ==
  ASSUME TypeOK, FileRead, AllValid, Next, ~over, NEW k \in 1 .. Len(lines), done = Meant(k - 1),
         NEW w \in Words, cmd = w, NEW keys, lines[k].means = <<<<w, keys>>>>,
         ListLine(lines[k].text, w, keys),
         NEW n \in Nat, n < Len(keys), Len(batch) = n, batch = SubSeq(keys, 1, n),
         pos = Start(k) + Length(w) + 1 + Len(Part(Listed(keys), n))
  PROVE  InStep'
<1> DEFINE at(i) == Start(k) + Length(w) + 1 + Len(Part(Listed(keys), i))
           key   == read_string(pos)
           some  == Append(batch, key.str)
           bad   == key.stop \notin {Comma, "]"} \/ IsFull(some, key.stop)
<1>1. /\ w \in {"READ", "DELETE", "SUBSCRIBE", "UNSUBSCRIBE"} /\ keys \in Seq(Seq(Characters))
      /\ IF w \in {"READ", "DELETE"} THEN Len(keys) < MAX_WRITE_SIZE ELSE Len(keys) = 1
  BY DEF ListLine
<1>2. Len(keys) \in Nat /\ n \in 0 .. Len(keys) - 1
  BY <1>1
<1>3. /\ key.stop = (IF n + 1 = Len(keys) THEN "]" ELSE Comma)
      /\ key.str = keys[n + 1] /\ key.pos = at(n + 1)
      /\ n + 1 = Len(keys) => Char(at(n + 1)) = "\n" /\ at(n + 1) + 1 = Start(k + 1)
  <2>1. ReadsKey(k, w, keys, n)
    BY <1>2, KeyReads
  <2> QED
    BY <2>1 DEF ReadsKey
<1> HIDE DEF key, at
<1>4. /\ some = SubSeq(keys, 1, n + 1) /\ Len(some) = n + 1 /\ (n + 1 = Len(keys) => some = keys)
  <2> DEFINE S == Seq(Characters)
  <2>1. keys \in Seq(S)
    BY <1>1
  <2> HIDE DEF S
  <2>2. /\ Append(SubSeq(keys, 1, n), keys[n + 1]) = SubSeq(keys, 1, n + 1)
        /\ Len(SubSeq(keys, 1, n + 1)) = n + 1
        /\ n + 1 = Len(keys) => SubSeq(keys, 1, n + 1) = keys
    BY <1>2, <2>1, OneMore
  <2> QED
    BY <1>3, <2>2
<1> HIDE DEF some
<1>5. Comma # "]"
  BY Zenon DEF Comma
<1>6. ~bad
  <2>1. key.stop \in {Comma, "]"}
    BY <1>3
  <2>2. CASE w \in {"READ", "DELETE"}
    <3>1. program = "server"
      BY <2>2 DEF TypeOK, Words, WordsOf
    <3>2. n + 1 # MAX_WRITE_SIZE
      BY <1>1, <1>2, <2>2, SizeAssumption
    <3> QED
      BY <1>4, <2>1, <3>1, <3>2 DEF IsFull
  <2>3. CASE w \notin {"READ", "DELETE"}
    <3>1. program # "server"
      BY <1>1, <2>3 DEF TypeOK, Words, WordsOf
    <3>2. n + 1 = Len(keys)
      <4>1. Len(keys) = 1
        BY <1>1, <2>3
      <4> QED
        BY <1>2, <4>1
    <3>3. key.stop = "]"
      BY <1>3, <3>2
    <3> QED
      BY <2>1, <3>1, <3>3 DEF IsFull
  <2> QED
    BY <2>2, <2>3
<1>7. Key
  BY <1>1, NextIs
<1>8. \/ key.stop = "]" /\ Execute(w, EndOfLine(key.pos, some))
      \/ key.stop = Comma /\ Continue(w, some, key.pos)
  BY <1>6, <1>7 DEF Key, key, some
<1>9. CASE n + 1 = Len(keys)
  <2> DEFINE result == EndOfLine(key.pos, some)
  <2>1. key.stop = "]" /\ Char(key.pos) = "\n" /\ key.pos + 1 = Start(k + 1) /\ some = keys
    BY <1>3, <1>4, <1>9
  <2>2. result = [ok |-> TRUE, batch |-> some, pos |-> key.pos + 1]
    BY <2>1 DEF EndOfLine
  <2>3. Execute(w, result)
    BY <1>5, <1>8, <2>1
  <2> HIDE DEF result
  <2>4. result.ok /\ result.batch = keys /\ result.pos = Start(k + 1)
    BY <2>1, <2>2
  <2> QED
    BY <2>3, <2>4, Executed
<1>10. CASE n + 1 # Len(keys)
  <2>1. key.stop = Comma /\ n + 1 \in Nat /\ n + 1 < Len(keys)
    BY <1>2, <1>3, <1>10
  <2>2. Continue(w, some, key.pos)
    BY <1>5, <1>8, <2>1
  <2>3. /\ UNCHANGED <<program, lines, file, over>> /\ done' = Meant(k - 1) /\ cmd' = w
        /\ batch' = some /\ pos' = at(n + 1)
    BY <1>3, <2>2 DEF Continue
  <2>4. /\ batch' = SubSeq(keys, 1, n + 1) /\ Len(batch') = n + 1 /\ Len(lines) \in Nat
        /\ pos' = Start(k) + Length(w) + 1 + Len(Part(Listed(keys), n + 1))
    BY <1>4, <2>3, LinesEnd DEF at
  <2> QED
    BY <2>1, <2>3, <2>4, Listing
<1> QED
  BY <1>9, <1>10

\* One pair more is read, or the last one.
LEMMA PairSteps ==
  ASSUME TypeOK, FileRead, AllValid, Next, ~over, NEW k \in 1 .. Len(lines), done = Meant(k - 1),
         NEW w \in Words, cmd = w, NEW pairs, lines[k].means = <<<<w, pairs>>>>,
         WriteLine(lines[k].text, w, pairs),
         NEW n \in Nat, n < Len(pairs), Len(batch) = n, batch = SubSeq(pairs, 1, n),
         pos = Start(k) + Length(w) + 2 + Len(Part(Paired(pairs), n))
  PROVE  InStep'
<1> DEFINE at(i) == Start(k) + Length(w) + 2 + Len(Part(Paired(pairs), i))
           key   == read_string(pos)
           value == read_string(key.pos)
           some  == Append(batch, <<key.str, value.str>>)
           next  == Char(value.pos)
<1>1. /\ w = "WRITE" /\ pairs \in Seq(Seq(Characters) \X Seq(Characters)) /\ Len(pairs) < MAX_WRITE_SIZE
      /\ Len(pairs) \in Nat /\ MAX_WRITE_SIZE \in Nat
  <2>1. w = "WRITE" /\ Len(pairs) \in 1 .. MAX_WRITE_SIZE - 1
    BY DEF WriteLine
  <2>2. MAX_WRITE_SIZE \in Nat
    BY SizeAssumption
  <2>3. pairs \in Seq(Seq(Characters) \X Seq(Characters))
    BY DEF WriteLine
  <2> DEFINE z == Len(pairs)
  <2>4. z \in 1 .. MAX_WRITE_SIZE - 1
    BY <2>1
  <2>5. z < MAX_WRITE_SIZE /\ z \in Nat
    <3> HIDE DEF z
    <3> QED
      BY <2>2, <2>4
  <2> QED
    BY <2>1, <2>2, <2>3, <2>5
<1>2. n \in 0 .. Len(pairs) - 1 /\ n + 1 \in 1 .. Len(pairs) /\ n + 1 # MAX_WRITE_SIZE
  <2> DEFINE z == Len(pairs)
  <2>1. z < MAX_WRITE_SIZE /\ z \in Nat /\ MAX_WRITE_SIZE \in Nat /\ n < z /\ n \in Nat
    BY <1>1
  <2>2. n \in 0 .. z - 1 /\ n + 1 \in 1 .. z /\ n + 1 # MAX_WRITE_SIZE
    <3> HIDE DEF z
    <3> QED
      BY <2>1
  <2> QED
    BY <2>2
<1>3. /\ key.stop = Comma /\ key.str = pairs[n + 1][1]
      /\ value.stop = ")" /\ value.str = pairs[n + 1][2] /\ value.pos + 1 = at(n + 1)
      /\ n + 1 # Len(pairs) => next = "("
      /\ n + 1 = Len(pairs) => /\ next = "]" /\ Char(value.pos + 1) = "\n"
                               /\ value.pos + 1 + 1 = Start(k + 1)
  <2>1. ReadsPair(k, w, pairs, n)
    BY <1>2, PairReads
  <2> QED
    BY <2>1 DEF ReadsPair
<1> HIDE DEF key, value, at, next
<1>4. /\ some = SubSeq(pairs, 1, n + 1) /\ Len(some) = n + 1 /\ (n + 1 = Len(pairs) => some = pairs)
  <2>1. <<key.str, value.str>> = pairs[n + 1]
    <3>1. pairs[n + 1] \in Seq(Characters) \X Seq(Characters)
      BY <1>1, <1>2
    <3>2. pairs[n + 1] = <<pairs[n + 1][1], pairs[n + 1][2]>>
      BY <3>1
    <3> QED
      BY <1>3, <3>2
  <2> DEFINE S == Seq(Characters) \X Seq(Characters)
  <2>2. pairs \in Seq(S)
    BY <1>1
  <2> HIDE DEF S
  <2>3. /\ Append(SubSeq(pairs, 1, n), pairs[n + 1]) = SubSeq(pairs, 1, n + 1)
        /\ Len(SubSeq(pairs, 1, n + 1)) = n + 1
        /\ n + 1 = Len(pairs) => SubSeq(pairs, 1, n + 1) = pairs
    BY <1>2, <2>2, OneMore
  <2> QED
    BY <2>1, <2>3
<1> HIDE DEF some
<1>5. Pair
  BY <1>1, NextIs
<1>6. \/ next = "]" /\ Execute(w, EndOfLine(value.pos + 1, some))
      \/ next = "(" /\ Continue(w, some, value.pos + 1)
  <2>1. next \in {"(", "]"} /\ Len(some) # MAX_WRITE_SIZE /\ cmd = w
    BY <1>2, <1>3, <1>4
  <2> QED
    BY <1>3, <1>5, <2>1 DEF Pair, key, value, some, next
<1>7. CASE n + 1 = Len(pairs)
  <2> DEFINE result == EndOfLine(value.pos + 1, some)
  <2>1. next = "]" /\ Char(value.pos + 1) = "\n" /\ value.pos + 1 + 1 = Start(k + 1) /\ some = pairs
    BY <1>3, <1>4, <1>7
  <2>2. result = [ok |-> TRUE, batch |-> some, pos |-> value.pos + 1 + 1]
    BY <2>1 DEF EndOfLine
  <2>3. Execute(w, result)
    BY <1>6, <2>1
  <2> HIDE DEF result
  <2>4. result.ok /\ result.batch = pairs /\ result.pos = Start(k + 1)
    BY <2>1, <2>2
  <2> QED
    BY <2>3, <2>4, Executed
<1>8. CASE n + 1 # Len(pairs)
  <2>1. next = "(" /\ n + 1 \in Nat /\ n + 1 < Len(pairs)
    BY <1>1, <1>2, <1>3, <1>8
  <2>2. Continue(w, some, value.pos + 1)
    BY <1>6, <2>1
  <2>3. /\ UNCHANGED <<program, lines, file, over>> /\ done' = Meant(k - 1) /\ cmd' = w
        /\ batch' = some /\ pos' = at(n + 1)
    BY <1>3, <2>2 DEF Continue
  <2>4. /\ batch' = SubSeq(pairs, 1, n + 1) /\ Len(batch') = n + 1 /\ Len(lines) \in Nat
        /\ pos' = Start(k) + Length(w) + 2 + Len(Part(Paired(pairs), n + 1))
    BY <1>4, <2>3, LinesEnd DEF at
  <2> QED
    BY <2>1, <2>3, <2>4, Listing
<1> QED
  BY <1>7, <1>8

-----------------------------------------------------------------------------
(* What is written is executed: every step.                                *)

\* No action changes the program, its file or what is known of it.
LEMMA NextKeepsFile ==
  ASSUME Next
  PROVE  UNCHANGED <<program, lines, file>>
BY DEF Next, Skip, Alone, Write, ReadOrDelete, Subscription, OpenList, Wait, Delay, End, Pair, Key,
       Execute, Continue

\* A valid line is read from its beginning.
LEMMA LineSteps ==
  ASSUME TypeOK, FileRead, AllValid, Next, NEW k \in 1 .. Len(lines), Between(k)
  PROVE  InStep'
<1> DEFINE line == lines[k]
<1>1. CASE InnerLine(line, Words)
  <2> DEFINE word == line.means[1][1]
             args == line.means[1][2]
  <2>1. CASE line.means = <<>> /\ EmptyLine(line.text)
    BY <2>1, EmptySteps
  <2>2. CASE /\ line.means = <<<<word, args>>>> /\ word \in Words
             /\ \/ AloneLine(line.text, word, args) \/ NumberLine(line.text, word, args)
                \/ ListLine(line.text, word, args) \/ WriteLine(line.text, word, args)
    <3> HIDE DEF word, args
    <3>1. CASE AloneLine(line.text, word, args)
      <4>1. /\ word \in Single \ {"DISCONNECT"} /\ line.means = <<<<word, <<>>>>>>
            /\ line.text = Append(Spelled[word], "\n")
        BY <2>2, <3>1 DEF AloneLine
      <4> QED
        BY <2>2, <4>1, AloneSteps
    <3>2. CASE NumberLine(line.text, word, args)
      <4>1. word = "WAIT" \/ word = "DELAY"
        BY <3>2 DEF NumberLine
      <4>2. CASE word = "WAIT"
        <5>1. /\ "WAIT" \in Words /\ line.means = <<<<"WAIT", args>>>>
              /\ NumberLine(line.text, "WAIT", args)
          BY <2>2, <3>2, <4>2
        <5> QED
          BY <5>1, WaitSteps
      <4>3. CASE word = "DELAY"
        <5>1. /\ "DELAY" \in Words /\ line.means = <<<<"DELAY", args>>>>
              /\ NumberLine(line.text, "DELAY", args)
          BY <2>2, <3>2, <4>3
        <5> QED
          BY <5>1, DelaySteps
      <4> QED
        BY <4>1, <4>2, <4>3
    <3>3. CASE ListLine(line.text, word, args)
      BY <2>2, <3>3, ListOpens
    <3>4. CASE WriteLine(line.text, word, args)
      BY <2>2, <3>4, WriteOpens
    <3> QED
      BY <2>2, <3>1, <3>2, <3>3, <3>4
  <2> QED
    BY <1>1, <2>1, <2>2 DEF InnerLine
<1>2. CASE k = Len(lines) /\ LastLine(line, Words)
  <2>1. PICK word \in Words \cap Single :
          /\ line.means = IF word = "DISCONNECT" THEN <<>> ELSE <<<<word, <<>>>>>>
          /\ line.text = Spelled[word] \/ line.text = Append(Spelled[word], "\n")
    BY <1>2 DEF LastLine
  <2>2. CASE word = "DISCONNECT"
    <3>1. word \in Words /\ line.means = <<>>
      BY <2>1, <2>2
    <3> QED
      BY <1>2, <2>1, <2>2, <3>1, DisconnectSteps
  <2>3. CASE word # "DISCONNECT"
    <3>1. word \in Words /\ word \in Single \ {"DISCONNECT"} /\ line.means = <<<<word, <<>>>>>>
      BY <2>1, <2>3
    <3> QED
      BY <1>2, <2>1, <3>1, AloneSteps
  <2> QED
    BY <2>2, <2>3
<1> QED
  BY <1>1, <1>2, LineKinds

\* A list is read on.
LEMMA ListSteps ==
  ASSUME TypeOK, FileRead, AllValid, Next, ~over, NEW k \in 1 .. Len(lines) + 1, InList(k)
  PROVE  InStep'
<1> DEFINE args == lines[k].means[1][2]
           n    == Len(batch)
<1>1. /\ k <= Len(lines) /\ done = Meant(k - 1) /\ cmd \in Words
      /\ lines[k].means = <<<<cmd, args>>>> /\ n < Len(args) /\ batch = SubSeq(args, 1, n)
      /\ \/ /\ ListLine(lines[k].text, cmd, args)
            /\ pos = Start(k) + Length(cmd) + 1 + Len(Part(Listed(args), n))
         \/ /\ WriteLine(lines[k].text, cmd, args)
            /\ pos = Start(k) + Length(cmd) + 2 + Len(Part(Paired(args), n))
  BY DEF InList
<1>2. k \in 1 .. Len(lines)
  BY <1>1, LinesEnd
<1>3. n \in Nat
  BY DEF TypeOK
<1> DEFINE w == cmd
<1>4. w \in Words /\ cmd = w
  BY <1>1
<1>5. lines[k].means = <<<<w, args>>>>
  BY <1>1
<1> HIDE DEF args
<1>6. CASE /\ ListLine(lines[k].text, w, args)
           /\ pos = Start(k) + Length(w) + 1 + Len(Part(Listed(args), n))
  BY <1>1, <1>2, <1>3, <1>4, <1>5, <1>6, KeySteps
<1>7. CASE /\ WriteLine(lines[k].text, w, args)
           /\ pos = Start(k) + Length(w) + 2 + Len(Part(Paired(args), n))
  BY <1>1, <1>2, <1>3, <1>4, <1>5, <1>7, PairSteps
<1> QED
  BY <1>1, <1>6, <1>7

\* Every action keeps the reader in step with the lines.
LEMMA InStepKeeps ==
  ASSUME TypeOK, FileRead, InStep, [Next]_vars
  PROVE  FileRead' /\ InStep'
<1>1. CASE UNCHANGED vars
  <2>1. UNCHANGED <<program, lines, file>> /\ UNCHANGED <<pos, cmd, batch, done, over>>
    BY <1>1 DEF vars
  <2>2. /\ FileRead' = FileRead /\ AllValid' = AllValid /\ Words' = Words
        /\ \A k : Start(k)' = Start(k) /\ Meant(k)' = Meant(k) /\ Char(k)' = Char(k)
    BY <2>1, Frame
  <2>3. Meaning(lines)' = Meaning(lines)
    BY <2>1 DEF Meaning, Means
  <2>4. ASSUME NEW k
        PROVE  Between(k)' = Between(k) /\ InRemark(k)' = InRemark(k) /\ InList(k)' = InList(k)
    <3>1. Between(k)' = Between(k)
      BY <2>1, <2>2 DEF Between
    <3>2. InRemark(k)' = InRemark(k)
      BY <2>1 DEF InRemark, Meant, Start, Char, Means, Texts, Part
    <3>3. InList(k)' = InList(k)
      BY <2>1 DEF InList, Meant, Start, Means, Texts, Part, Words, WordsOf
    <3> QED
      BY <3>1, <3>2, <3>3
  <2>5. lines' = lines /\ over' = over /\ cmd' = cmd /\ done' = done /\ Sort("valid")' = Sort("valid")
    BY <2>1 DEF Sort
  <2> QED
    BY <2>2, <2>3, <2>4, <2>5 DEF InStep
<1>2. CASE Next
  <2>1. UNCHANGED <<program, lines, file>>
    BY <1>2, NextKeepsFile
  <2>2. FileRead' /\ AllValid' = AllValid
    BY <2>1, Frame
  <2>3. CASE ~AllValid
    <3>1. ~AllValid'
      BY <2>2, <2>3
    <3> QED
      BY <2>2, <3>1 DEF InStep, AllValid
  <2>4. CASE AllValid /\ over
    <3>1. cmd = None
      BY <2>4 DEF InStep, AllValid
    <3>2. ~over
      BY <1>2, <3>1, NextIs
    <3> QED
      BY <2>4, <3>2
  <2>5. CASE AllValid /\ ~over
    <3>1. PICK k \in 1 .. Len(lines) + 1 : Between(k) \/ InRemark(k) \/ InList(k)
      BY <2>5 DEF InStep, AllValid
    <3>2. CASE Between(k)
      <4>1. k \in 1 .. Len(lines) \/ k = Len(lines) + 1
        BY LinesEnd
      <4> QED
        BY <1>2, <2>2, <2>5, <3>2, <4>1, LineSteps, EndSteps
    <3>3. CASE InRemark(k)
      <4>1. k \in 1 .. Len(lines)
        BY <3>3, LinesEnd DEF InRemark
      <4> QED
        BY <1>2, <2>2, <2>5, <3>3, <4>1, RemarkSteps
    <3>4. CASE InList(k)
      BY <1>2, <2>2, <2>5, <3>4, ListSteps
    <3> QED
      BY <3>1, <3>2, <3>3, <3>4
  <2> QED
    BY <2>3, <2>4, <2>5
<1> QED
  BY <1>1, <1>2

\* A program that has opened its file is at the start of its first line.
LEMMA InStepInit ==
  ASSUME Init, TypeOK
  PROVE  FileRead /\ InStep
<1>1. FileRead
  BY DEF Init, FileRead, TypeOK
<1>2. ASSUME AllValid
      PROVE  1 \in 1 .. Len(lines) + 1 /\ Between(1)
  <2>1. Meant(0) = <<>> /\ Start(1) = 1 /\ 1 - 1 = 0 /\ Len(lines) \in Nat
    BY <1>1, <1>2, Meanings, LinesEnd
  <2> QED
    BY <2>1 DEF Between, Init
<1>3. over = FALSE
  BY DEF Init
<1> QED
  BY <1>1, <1>2, <1>3 DEF InStep, AllValid

\* In step with the lines, the program has executed what some of them ask for.
LEMMA InStepRoundTrip ==
  ASSUME TypeOK, FileRead, InStep
  PROVE  RoundTrip
<1> SUFFICES ASSUME AllValid
             PROVE  IsPrefix(done, Meaning(lines)) /\ (over => done = Meaning(lines))
  BY DEF RoundTrip, AllValid
<1>1. Len(lines) \in Nat
  BY LinesEnd
<1>2. /\ Meant(0) = <<>> /\ Meant(Len(lines)) = Meaning(lines) /\ Len(Meaning(lines)) \in Nat
      /\ \A k \in 1 .. Len(lines) : IsPrefix(Meant(k), Meaning(lines))
  BY Meanings
<1>3. \A k \in 0 .. Len(lines) : IsPrefix(Meant(k), Meaning(lines))
  <2>1. IsPrefix(<<>>, Meaning(lines))
    <3> DEFINE t == Meaning(lines)
    <3> HIDE DEF t
    <3>1. SubSeq(<<>>, 1, 0) = <<>> /\ SubSeq(t, 1, 0) = <<>> /\ Len(<<>>) = 0
      BY SubSeqEmpty
    <3>2. 0 <= Len(t)
      BY <1>2 DEF t
    <3> QED
      BY <3>1, <3>2 DEF IsPrefix, t
  <2> TAKE k \in 0 .. Len(lines)
  <2>2. k = 0 \/ k \in 1 .. Len(lines)
    BY <1>1
  <2> QED
    BY <1>2, <2>1, <2>2
<1>4. CASE over
  <2>1. done = Meaning(lines)
    BY <1>4 DEF InStep, AllValid
  <2>2. Len(lines) \in 0 .. Len(lines)
    BY <1>1
  <2> QED
    BY <1>2, <1>3, <2>1, <2>2
<1>5. CASE ~over
  <2>1. PICK k \in 1 .. Len(lines) + 1 : Between(k) \/ InRemark(k) \/ InList(k)
    BY <1>5 DEF InStep, AllValid
  <2>2. k - 1 \in 0 .. Len(lines) /\ (k <= Len(lines) => k \in 0 .. Len(lines))
    BY <1>1
  <2>3. done = Meant(k - 1) \/ (k <= Len(lines) /\ done = Meant(k))
    BY <2>1 DEF Between, InRemark, InList
  <2> QED
    BY <1>3, <1>5, <2>2, <2>3
<1> QED
  BY <1>4, <1>5

-----------------------------------------------------------------------------
(* Theorems.                                                               *)

\* Every action keeps both invariants.
LEMMA StepKeeps ==
  ASSUME TypeOK, LineAligned, [Next]_vars
  PROVE  TypeOK' /\ LineAligned'
<1>1. CASE UNCHANGED vars
  <2>1. Words' = Words
    BY <1>1 DEF vars, Words, WordsOf
  <2> QED
    BY <1>1, <2>1 DEF vars, TypeOK, LineAligned, Char
<1>2. CASE ReadOrDelete
  BY <1>2, OpenListKeeps DEF ReadOrDelete
<1>3. CASE Subscription
  BY <1>3, OpenListKeeps DEF Subscription
<1> QED
  BY <1>1, <1>2, <1>3, SkipKeeps, AloneKeeps, WriteKeeps, WaitKeeps, DelayKeeps, EndKeeps,
     PairKeeps, KeyKeeps DEF Next

\* Both hold of a program that has opened its file.
LEMMA InitHolds == Init => TypeOK /\ LineAligned
<1> SUFFICES ASSUME Init PROVE TypeOK /\ LineAligned
  OBVIOUS
<1>1. file \in Seq(Characters)
  <2>1. lines \in Seq(ToSet(lines)) /\ \A i \in DOMAIN lines : lines[i].text \in Seq(Characters)
    BY FileAssumption DEF Init
  <2> DEFINE seqs == Texts(lines)
  <2>2. seqs \in Seq(Seq(Characters))
    BY <2>1 DEF Texts
  <2>3. Len(seqs) \in 0 .. Len(seqs)
    BY <2>2
  <2> HIDE DEF seqs
  <2> QED
    BY <2>2, <2>3, Parts DEF Init, Text, seqs
<1>2. pos \in 1 .. Len(file) + 1
  BY <1>1 DEF Init
<1>3. <<>> \in Seq(ToSet(<<>>)) /\ Len(<<>>) = 0
  OBVIOUS
<1>4. Fits(cmd, batch)
  BY DEF Init, Fits, None
<1>5. program \in {"server", "client"} /\ cmd = None /\ over \in BOOLEAN /\ batch = <<>> /\ done = <<>> /\ pos = 1
  BY DEF Init
<1>6. \A i \in 1 .. Len(done) : done[i][1] \in Words /\ Fits(done[i][1], done[i][2])
  BY <1>3, <1>5
<1>7. batch \in Seq(ToSet(batch)) /\ done \in Seq(ToSet(done))
  BY <1>3, <1>5
<1> QED
  BY <1>1, <1>2, <1>4, <1>5, <1>6, <1>7 DEF TypeOK, LineAligned

\* The reader never passes the end of its file, and what is executed fits the arrays
\* of run_job and of the client's main: names with the NUL that ends them, lists of
\* fewer than MAX_WRITE_SIZE keys or pairs, whatever the file holds.
THEOREM TypeCorrect == Spec => []TypeOK
<1>1. TypeOK /\ LineAligned /\ [Next]_vars => (TypeOK /\ LineAligned)'
  BY StepKeeps
<1> QED
  BY <1>1, InitHolds, PTL DEF Spec

\* get_next is only ever called at the start of a line, whatever was refused before,
\* except behind the number of a DELAY.
THEOREM LinesTheorem == Spec => []LineAligned
<1>1. TypeOK /\ LineAligned /\ [Next]_vars => (TypeOK /\ LineAligned)'
  BY StepKeeps
<1> QED
  BY <1>1, InitHolds, PTL DEF Spec

\* A file of lines from the grammar is executed: each command once, in the order of the
\* lines, with the keys and values that its line lists, whatever the files, the sizes and
\* what follows a number in its buffer.
THEOREM RoundTripTheorem == Spec => []RoundTrip
<1> DEFINE Inv == TypeOK /\ LineAligned /\ FileRead /\ InStep
<1>1. Init => Inv
  BY InitHolds, InStepInit
<1>2. Inv /\ [Next]_vars => Inv'
  BY StepKeeps, InStepKeeps
<1>3. Inv => RoundTrip
  BY InStepRoundTrip
<1> QED
  BY <1>1, <1>2, <1>3, PTL DEF Spec
=============================================================================
