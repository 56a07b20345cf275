----------------------------- MODULE JobsProofs -----------------------------
(***************************************************************************)
(* Proofs about Jobs: types, the chains of the store, and what a batch of  *)
(* keys has done at each of its steps.                                     *)
(***************************************************************************)
EXTENDS Jobs, KvsTableProofs, FiniteSetTheorems

-----------------------------------------------------------------------------
(* One key more of a batch, for each kind of batch: the map that a change  *)
(* makes of another, and the line that is written.                         *)

\* A pair more of a WRITE.
LEMMA WriteOneMore ==
  ASSUME NEW from, NEW to, DOMAIN to = Keys, NEW pairs, NEW n \in Nat,
         pairs[n + 1] \in Keys \X Values, Written(from, to, pairs, n)
  PROVE  Written(from, [to EXCEPT ![pairs[n + 1][1]] = pairs[n + 1][2]], pairs, n + 1)
<1> DEFINE l == pairs[n + 1][1]
           v == pairs[n + 1][2]
           now == [to EXCEPT ![l] = v]
<1>1. l \in Keys /\ n + 1 \in 1 .. n + 1 /\ (n + 1) + 1 .. n + 1 = {}
  OBVIOUS
<1>2. now[l] = v /\ \A k \in Keys \ {l} : now[k] = to[k]
  BY <1>1
<1>3. 1 .. n + 1 = (1 .. n) \cup {n + 1} /\ \A i \in 1 .. n : i + 1 .. n + 1 = (i + 1 .. n) \cup {n + 1}
  OBVIOUS
<1> HIDE DEF now
<1> SUFFICES ASSUME NEW k \in Keys
             PROVE  \/ \E i \in 1 .. n + 1 : /\ pairs[i][1] = k /\ now[k] = pairs[i][2]
                                             /\ \A j \in i + 1 .. n + 1 : pairs[j][1] # k
                    \/ (\A i \in 1 .. n + 1 : pairs[i][1] # k) /\ now[k] = from[k]
  BY DEF Written, now
<1>4. CASE k = l
  BY <1>1, <1>2, <1>4
<1>5. CASE k # l
  <2>1. now[k] = to[k] /\ pairs[n + 1][1] # k
    BY <1>2, <1>5
  <2>2. CASE \E i \in 1 .. n : /\ pairs[i][1] = k /\ to[k] = pairs[i][2]
                               /\ \A j \in i + 1 .. n : pairs[j][1] # k
    <3>1. PICK i \in 1 .. n : /\ pairs[i][1] = k /\ to[k] = pairs[i][2]
                              /\ \A j \in i + 1 .. n : pairs[j][1] # k
      BY <2>2
    <3>2. i \in 1 .. n + 1 /\ \A j \in i + 1 .. n + 1 : pairs[j][1] # k
      BY <1>3, <2>1, <3>1
    <3> QED
      BY <2>1, <3>1, <3>2
  <2>3. CASE (\A i \in 1 .. n : pairs[i][1] # k) /\ to[k] = from[k]
    BY <1>3, <2>1, <2>3
  <2> QED
    BY <2>2, <2>3 DEF Written
<1> QED
  BY <1>4, <1>5

\* A key more of a DELETE.
LEMMA DeleteOneMore ==
  ASSUME NEW from, NEW to, DOMAIN to = Keys, NEW ks, NEW n \in Nat,
         ks[n + 1] \in Keys, Deleted(from, to, ks, n)
  PROVE  Deleted(from, [to EXCEPT ![ks[n + 1]] = Missing], ks, n + 1)
<1>1. 1 .. n + 1 = (1 .. n) \cup {n + 1}
  OBVIOUS
<1> QED
  BY <1>1 DEF Deleted

\* Its place is lost if the key is missing by now, and goes into the line then.
LEMMA LineOneMore ==
  ASSUME NEW from, NEW to, NEW ks, NEW n \in Nat, ks[n + 1] \in Keys,
         Deleted(from, to, ks, n),
         NEW l \in Lines, LostInLine(from, ks, n, l)
  PROVE  LostInLine(from, ks, n + 1,
                    IF to[ks[n + 1]] = Missing THEN Append(l, <<ks[n + 1], Missing>>) ELSE l)
<1> DEFINE k == ks[n + 1]
           S == Lost(from, ks, n)
           U == Lost(from, ks, n + 1)
           L == Len(l)
<1>1. L \in Nat /\ DOMAIN l = 1 .. L
  BY DEF Lines
<1>2. PICK lost \in [1 .. L -> S] :
        /\ \A i, j \in DOMAIN lost : i < j => lost[i] < lost[j]
        /\ \A i \in S : \E j \in DOMAIN lost : lost[j] = i
        /\ \A i \in DOMAIN lost : l[i] = <<ks[lost[i]], Missing>>
  BY DEF LostInLine
<1>3. S \subseteq 1 .. n
  BY DEF Lost
<1>4. n + 1 \in U <=> to[k] = Missing
  <2>1. (n + 1) - 1 = n /\ n + 1 \in 1 .. n + 1
    OBVIOUS
  <2>2. n + 1 \in U <=> from[k] = Missing \/ \E j \in 1 .. n : ks[j] = k
    BY <2>1 DEF Lost
  <2> QED
    BY <2>2 DEF Deleted
<1>5. U = IF n + 1 \in U THEN S \cup {n + 1} ELSE S
  <2>1. 1 .. n + 1 = (1 .. n) \cup {n + 1} /\ n + 1 \notin 1 .. n
    OBVIOUS
  <2> QED
    BY <2>1 DEF Lost
<1> HIDE DEF S, U, L
<1>6. CASE to[k] = Missing
  <2> DEFINE m == Append(l, <<k, Missing>>)
             found == [i \in 1 .. L + 1 |-> IF i = L + 1 THEN n + 1 ELSE lost[i]]
  <2>1. /\ Len(m) = L + 1 /\ m[L + 1] = <<k, Missing>>
        /\ \A i \in 1 .. L : m[i] = l[i]
    BY <1>1 DEF Lines, L
  <2>2. U = S \cup {n + 1}
    BY <1>4, <1>5, <1>6
  <2>3. 1 .. L + 1 = (1 .. L) \cup {L + 1} /\ L + 1 \notin 1 .. L
    BY <1>1
  <2>4. /\ found[L + 1] = n + 1 /\ DOMAIN found = 1 .. L + 1
        /\ \A i \in 1 .. L : found[i] = lost[i] /\ lost[i] \in S /\ lost[i] \in 1 .. n
    BY <1>2, <1>3, <2>3
  <2>5. found \in [1 .. L + 1 -> U]
    BY <2>2, <2>3, <2>4
  <2> HIDE DEF found, m
  <2>6. \A i, j \in 1 .. L + 1 : i < j => found[i] < found[j]
    <3> SUFFICES ASSUME NEW i \in 1 .. L + 1, NEW j \in 1 .. L + 1, i < j
                 PROVE  found[i] < found[j]
      OBVIOUS
    <3>1. i \in 1 .. L
      BY <1>1
    <3>2. CASE j = L + 1
      BY <2>4, <3>1, <3>2
    <3>3. CASE j \in 1 .. L
      BY <1>2, <2>4, <3>1, <3>3
    <3> QED
      BY <2>3, <3>2, <3>3
  <2>7. \A i \in U : \E j \in 1 .. L + 1 : found[j] = i
    BY <1>2, <2>2, <2>3, <2>4
  <2>8. \A i \in 1 .. L + 1 : m[i] = <<ks[found[i]], Missing>>
    BY <1>2, <2>1, <2>3, <2>4
  <2>9. LostInLine(from, ks, n + 1, m)
    BY <2>1, <2>4, <2>5, <2>6, <2>7, <2>8 DEF LostInLine, U
  <2> QED
    BY <1>6, <2>9 DEF m
<1>7. CASE to[k] # Missing
  <2>1. U = S
    BY <1>4, <1>5, <1>7
  <2>2. LostInLine(from, ks, n + 1, l)
    BY <1>2, <2>1 DEF LostInLine, U, L
  <2> QED
    BY <1>7, <2>2
<1> QED
  BY <1>6, <1>7

\* A key more of a READ.
LEMMA ReadOneMore ==
  ASSUME NEW from, NEW ks, NEW n \in Nat, NEW l \in Lines, ReadInLine(from, ks, n, l),
         <<ks[n + 1], from[ks[n + 1]]>> \in Keys \X (Values \cup {Missing})
  PROVE  ReadInLine(from, ks, n + 1, Append(l, <<ks[n + 1], from[ks[n + 1]]>>))
<1> DEFINE x == <<ks[n + 1], from[ks[n + 1]]>>
           m == Append(l, x)
<1>1. Len(l) = n /\ \A i \in 1 .. n : l[i] = <<ks[i], from[ks[i]]>>
  BY DEF ReadInLine
<1>2. Len(m) = n + 1 /\ m[n + 1] = x /\ \A i \in 1 .. n : m[i] = l[i]
  BY <1>1 DEF Lines
<1>3. 1 .. n + 1 = (1 .. n) \cup {n + 1}
  OBVIOUS
<1> QED
  BY <1>1, <1>2, <1>3 DEF ReadInLine

\* A chain more of a SHOW.
LEMMA ShowOneMore ==
  ASSUME NEW T \in Table, Sound(T), NEW n \in Nat, n \in Buckets,
         NEW l \in Lines, ShownInLine(T, n, l)
  PROVE  ShownInLine(T, n + 1, l \o T[n])
<1> DEFINE c == T[n]
           L == Len(l)
           M == Len(c)
           m == l \o c
<1>1. c \in Seq(Node) /\ n <= TABLE_SIZE - 1 /\ 0 .. n - 1 \subseteq Buckets /\ n \notin 0 .. n - 1
  BY TableAssumption DEF Table, Buckets
<1>2. L \in Nat /\ M \in Nat
  BY <1>1 DEF Lines
<1>3. /\ Len(m) = L + M
      /\ \A i \in 1 .. L + M : m[i] = IF i <= L THEN l[i] ELSE c[i - L]
  BY <1>1, ConcatProperties DEF Lines
<1>4. (n + 1) - 1 = n /\ 0 .. n = (0 .. n - 1) \cup {n}
  OBVIOUS
<1>5. /\ \A i, j \in 1 .. L : l[i][1] = l[j][1] => i = j
      /\ \A i \in 1 .. L : \E b \in 0 .. n - 1 : \E j \in 1 .. Len(T[b]) : l[i] = T[b][j]
      /\ \A b \in 0 .. n - 1 : \A j \in 1 .. Len(T[b]) : \E i \in 1 .. L : l[i] = T[b][j]
  BY DEF ShownInLine
<1>6. /\ \A b \in Buckets : \A j \in 1 .. Len(T[b]) : Hash[T[b][j][1]] = b
      /\ \A i, j \in 1 .. M : c[i][1] = c[j][1] => i = j
  BY DEF Sound, Table
<1> HIDE DEF c, L, M, m
<1>7. /\ \A i \in 1 .. L : i \in 1 .. L + M /\ m[i] = l[i]
      /\ \A i \in 1 .. M : L + i \in 1 .. L + M /\ m[L + i] = c[i]
      /\ \A i \in 1 .. L + M : i \in 1 .. L \/ (i - L \in 1 .. M /\ m[i] = c[i - L])
  BY <1>2, <1>3
<1>8. \A i \in 1 .. L : \A j \in 1 .. M : l[i][1] # c[j][1]
  <2> SUFFICES ASSUME NEW i \in 1 .. L, NEW j \in 1 .. M, l[i][1] = c[j][1]
               PROVE  FALSE
    OBVIOUS
  <2>1. PICK b \in 0 .. n - 1 : \E h \in 1 .. Len(T[b]) : l[i] = T[b][h]
    BY <1>5
  <2>2. Hash[l[i][1]] = b
    BY <1>1, <1>6, <2>1
  <2>3. Hash[c[j][1]] = n
    BY <1>6 DEF c, M
  <2> QED
    BY <1>1, <2>2, <2>3
<1>9. \A i, j \in 1 .. L + M : m[i][1] = m[j][1] => i = j
  <2> SUFFICES ASSUME NEW i \in 1 .. L + M, NEW j \in 1 .. L + M, m[i][1] = m[j][1]
               PROVE  i = j
    OBVIOUS
  <2>1. CASE i \in 1 .. L /\ j \in 1 .. L
    BY <1>5, <1>7, <2>1
  <2>2. CASE i \in 1 .. L /\ j - L \in 1 .. M /\ m[j] = c[j - L]
    BY <1>7, <1>8, <2>2
  <2>3. CASE j \in 1 .. L /\ i - L \in 1 .. M /\ m[i] = c[i - L]
    BY <1>7, <1>8, <2>3
  <2>4. CASE i - L \in 1 .. M /\ m[i] = c[i - L] /\ j - L \in 1 .. M /\ m[j] = c[j - L]
    <3>1. i - L = j - L
      BY <1>6, <2>4
    <3> QED
      BY <1>2, <3>1
  <2> QED
    BY <1>7, <2>1, <2>2, <2>3, <2>4
<1>10. \A i \in 1 .. L + M : \E b \in 0 .. n : \E j \in 1 .. Len(T[b]) : m[i] = T[b][j]
  <2> SUFFICES ASSUME NEW i \in 1 .. L + M
               PROVE  \E b \in 0 .. n : \E j \in 1 .. Len(T[b]) : m[i] = T[b][j]
    OBVIOUS
  <2>1. CASE i \in 1 .. L
    BY <1>4, <1>5, <1>7, <2>1
  <2>2. CASE i - L \in 1 .. M /\ m[i] = c[i - L]
    BY <1>4, <2>2 DEF c, M
  <2> QED
    BY <1>7, <2>1, <2>2
<1>11. \A b \in 0 .. n : \A j \in 1 .. Len(T[b]) : \E i \in 1 .. L + M : m[i] = T[b][j]
  <2> SUFFICES ASSUME NEW b \in 0 .. n, NEW j \in 1 .. Len(T[b])
               PROVE  \E i \in 1 .. L + M : m[i] = T[b][j]
    OBVIOUS
  <2>1. CASE b = n
    BY <1>7, <2>1 DEF c, M
  <2>2. CASE b \in 0 .. n - 1
    BY <1>5, <1>7, <2>2
  <2> QED
    BY <1>4, <2>1, <2>2
<1>12. Len(m) = L + M
  BY <1>3
<1>13. ShownInLine(T, n + 1, m)
  BY <1>4, <1>9, <1>10, <1>11, <1>12 DEF ShownInLine
<1> QED
  BY <1>13 DEF m, c

-----------------------------------------------------------------------------
(* What a batch has done at its end.                                       *)

\* The greatest of a set of places.
Latest(I) == CHOOSE i \in I : \A j \in I : i >= j

\* All of a WRITE: each key has the value of its last pair.
LEMMA WriteEnds ==
  ASSUME NEW from, NEW to, NEW pairs, Len(pairs) \in Nat,
         Written(from, to, pairs, Len(pairs)), NEW k \in Keys,
         NEW I, \A i : i \in I <=> i \in 1 .. Len(pairs) /\ pairs[i][1] = k
  PROVE  /\ I # {} => /\ Latest(I) \in 1 .. Len(pairs)
                      /\ to[k] = pairs[Latest(I)][2]
         /\ I = {} => to[k] = from[k]
<1> DEFINE n == Len(pairs)
           last == Latest(I)
<1>1. CASE \E i \in 1 .. n : /\ pairs[i][1] = k /\ to[k] = pairs[i][2]
                             /\ \A j \in i + 1 .. n : pairs[j][1] # k
  <2>1. PICK i \in 1 .. n : /\ pairs[i][1] = k /\ to[k] = pairs[i][2]
                            /\ \A j \in i + 1 .. n : pairs[j][1] # k
    BY <1>1
  <2>2. i \in I /\ \A j \in I : i >= j
    BY <2>1
  <2>3. \A j \in I : j >= i => j = i
    BY <2>2
  <2>4. last \in I /\ last >= i
    BY <2>2 DEF Latest
  <2> HIDE DEF last
  <2>5. last = i
    BY <2>3, <2>4
  <2> QED
    BY <2>1, <2>2, <2>5 DEF last
<1>2. CASE (\A i \in 1 .. n : pairs[i][1] # k) /\ to[k] = from[k]
  BY <1>2
<1> QED
  BY <1>1, <1>2 DEF Written

\* A sequence that has each member of a set, once each, is one of its sequences.
LEMMA Enumerates ==
  ASSUME NEW S, NEW n \in Nat, NEW s \in [1 .. n -> S],
         \A i, j \in 1 .. n : s[i] = s[j] => i = j,
         \A x \in S : \E i \in 1 .. n : s[i] = x
  PROVE  IsFiniteSet(S) /\ Cardinality(S) = n
<1>1. IsFiniteSet(1 .. n) /\ Cardinality(1 .. n) = n
  BY FS_Interval
<1>2. s \in Bijection(1 .. n, S)
  BY DEF Bijection, Injection, Surjection, IsInjective
<1>3. ExistsBijection(1 .. n, S)
  BY <1>2 DEF ExistsBijection
<1> QED
  BY <1>1, <1>3, FS_Bijection

\* All of a DELETE: its keys are gone, and its line has those it did not find.
LEMMA DeleteEnds ==
  ASSUME NEW from, NEW to, NEW ks \in Seq(Keys),
         Deleted(from, to, ks, Len(ks)),
         NEW l \in Lines, LostInLine(from, ks, Len(ks), l)
  PROVE  /\ \A k \in Keys : to[k] = IF \E i \in 1 .. Len(ks) : ks[i] = k THEN Missing ELSE from[k]
         /\ IsFiniteSet(Lost(from, ks, Len(ks))) /\ Cardinality(Lost(from, ks, Len(ks))) = Len(l)
         /\ \E lost \in [1 .. Len(l) -> Lost(from, ks, Len(ks))] :
              /\ \A i, j \in 1 .. Len(l) : i # j => lost[i] # lost[j]
              /\ \A i, j \in DOMAIN lost : i < j => lost[i] < lost[j]
              /\ \A i \in 1 .. Len(l) : l[i] = <<ks[lost[i]], Missing>>
<1> DEFINE S == Lost(from, ks, Len(ks))
           n == Len(l)
<1>2. n \in Nat /\ l = [i \in 1 .. n |-> l[i]]
  BY DEF Lines
<1>3. PICK lost \in [1 .. n -> S] :
        /\ \A i, j \in DOMAIN lost : i < j => lost[i] < lost[j]
        /\ \A i \in S : \E j \in DOMAIN lost : lost[j] = i
        /\ \A i \in DOMAIN lost : l[i] = <<ks[lost[i]], Missing>>
  BY DEF LostInLine
<1>4. S \subseteq 1 .. Len(ks)
  BY DEF Lost
<1>6. \A k \in Keys : to[k] = IF \E i \in 1 .. Len(ks) : ks[i] = k THEN Missing ELSE from[k]
  BY DEF Deleted
<1> HIDE DEF S, n
<1>7. \A i, j \in 1 .. n : lost[i] = lost[j] => i = j
  <2> SUFFICES ASSUME NEW i \in 1 .. n, NEW j \in 1 .. n, lost[i] = lost[j], i # j
               PROVE  FALSE
    OBVIOUS
  <2>1. lost[i] \in 1 .. Len(ks)
    BY <1>3, <1>4
  <2>2. i < j \/ j < i
    BY <1>2
  <2> QED
    BY <1>3, <2>1, <2>2
<1>8. IsFiniteSet(S) /\ Cardinality(S) = n
  <2>1. \A x \in S : \E i \in 1 .. n : lost[i] = x
    BY <1>3
  <2>2. n \in Nat /\ lost \in [1 .. n -> S]
    BY <1>2
  <2> QED
    BY ONLY <1>7, <2>1, <2>2, Enumerates
<1>9. \E m \in [1 .. n -> S] :
         /\ \A i, j \in 1 .. n : i # j => m[i] # m[j]
         /\ \A i, j \in DOMAIN m : i < j => m[i] < m[j]
         /\ \A i \in 1 .. n : l[i] = <<ks[m[i]], Missing>>
  BY <1>3, <1>7
<1> QED
  BY <1>6, <1>8, <1>9 DEF n, S

\* All of a READ.
LEMMA ReadEnds ==
  ASSUME NEW from, NEW ks \in Seq(Keys), NEW l \in Lines, ReadInLine(from, ks, Len(ks), l)
  PROVE  l = [i \in DOMAIN ks |-> <<ks[i], from[ks[i]]>>]
<1>1. DOMAIN ks = 1 .. Len(ks) /\ Len(l) = Len(ks) /\ l = [i \in 1 .. Len(l) |-> l[i]]
  BY DEF ReadInLine, Lines
<1> QED
  BY <1>1 DEF ReadInLine

\* All of a SHOW: each pair of the store, once.
LEMMA ShowEnds ==
  ASSUME NEW T \in Table, Sound(T), NEW l \in Lines, ShownInLine(T, TABLE_SIZE, l)
  PROVE  LET C == Contents(T)
             S == {<<k, C[k]>> : k \in {x \in Keys : C[x] # Missing}}
         IN /\ IsFiniteSet(S) /\ Cardinality(S) = Len(l) /\ l \in [1 .. Len(l) -> S]
            /\ \A i, j \in 1 .. Len(l) : i # j => l[i] # l[j]
<1> DEFINE C == Contents(T)
           S == {<<k, C[k]>> : k \in {x \in Keys : C[x] # Missing}}
           n == Len(l)
<1>1. n \in Nat /\ l = [i \in 1 .. n |-> l[i]]
  BY DEF Lines
<1>2. /\ \A i, j \in 1 .. n : l[i][1] = l[j][1] => i = j
      /\ \A i \in 1 .. n : \E b \in Buckets : \E j \in 1 .. Len(T[b]) : l[i] = T[b][j]
      /\ \A b \in Buckets : \A j \in 1 .. Len(T[b]) : \E i \in 1 .. n : l[i] = T[b][j]
  BY DEF ShownInLine, Buckets
<1>3. ASSUME NEW b \in Buckets, NEW j \in 1 .. Len(T[b])
      PROVE  T[b][j] \in S
  <2> DEFINE x == T[b][j]
  <2>1. x \in Node
    BY DEF Table
  <2>2. x = <<x[1], x[2]>> /\ x[1] \in Keys /\ x[2] \in Values
    BY <2>1 DEF Node
  <2>3. Hash[x[1]] = b
    BY DEF Sound, Table
  <2>4. read_pair(T, x[1]) = x[2]
    BY <2>2, <2>3, ReadFinds
  <2>5. C[x[1]] = x[2] /\ x[2] # Missing
    BY <2>2, <2>4, ValueAssumption DEF Contents
  <2> HIDE DEF x, C
  <2>6. x \in S
    BY <2>2, <2>5
  <2> QED
    BY <2>6 DEF x, C
<1>4. ASSUME NEW x \in S
      PROVE  \E i \in 1 .. n : l[i] = x
  <2>1. PICK k \in Keys : C[k] # Missing /\ x = <<k, C[k]>>
    OBVIOUS
  <2>2. C[k] = read_pair(T, k) /\ Hash[k] \in Buckets
    BY HashAssumption DEF Contents
  <2>3. PICK j \in 1 .. Len(T[Hash[k]]) : T[Hash[k]][j][1] = k
    BY <2>1, <2>2, ReadFinds
  <2>4. C[k] = T[Hash[k]][j][2]
    BY <2>2, <2>3, ReadFinds
  <2>5. T[Hash[k]][j] \in Node
    BY <2>2 DEF Table
  <2>6. T[Hash[k]][j] = x
    BY <2>1, <2>3, <2>4, <2>5 DEF Node
  <2> QED
    BY <1>2, <2>2, <2>6
<1> HIDE DEF S, n, C
<1>5. \A i \in 1 .. n : l[i] \in S
  BY <1>2, <1>3
<1>6. l \in [1 .. n -> S]
  BY <1>1, <1>5
<1>7. \A i, j \in 1 .. n : l[i] = l[j] => i = j
  BY <1>2
<1>8. IsFiniteSet(S) /\ Cardinality(S) = n
  BY <1>1, <1>4, <1>6, <1>7, Enumerates
<1> QED
  BY <1>6, <1>7, <1>8 DEF S, n, C

-----------------------------------------------------------------------------
(* Commands and batches.                                                   *)

\* The commands a thread finds have the batches that their kinds ask for.
LEMMA CommandKinds ==
  ASSUME NEW c \in Commands
  PROVE  /\ c.op \in {"write", "read", "delete", "show", "backup", "other"}
         /\ c.op = "write" => c.batch \in Seq(Keys \X Values)
         /\ c.op \in {"read", "delete"} => c.batch \in Seq(Keys)
         /\ c.op \in {"show", "backup", "other"} => c.batch = <<>>
  BY DEF Commands

\* A thread that has an entry has a job file, with its commands.
LEMMA AtCommand ==
  ASSUME TypeOK, EntriesHeld, NEW t \in Threads, entry[t] # 0
  PROVE  /\ File(t) \in JobFiles /\ Program[File(t)] \in Seq(Commands)
         /\ Len(Program[File(t)]) \in Nat /\ ip[t] \in Nat \ {0}
         /\ DOMAIN Program[File(t)] = 1 .. Len(Program[File(t)])
         /\ ip[t] <= Len(Program[File(t)]) => Command(t) \in Commands
<1>1. File(t) \in JobFiles /\ Program[File(t)] \in Seq(Commands) /\ ip[t] \in Nat \ {0}
  BY ProgramAssumption DEF EntriesHeld, TypeOK
<1> DEFINE p == Program[File(t)]
<1>2. Len(p) \in Nat /\ DOMAIN p = 1 .. Len(p)
  BY <1>1
<1>3. ip[t] <= Len(p) => p[ip[t]] \in Commands
  BY <1>1, <1>2
<1> QED
  BY <1>1, <1>2, <1>3 DEF Command

\* What is left of a batch has the type of the batch.
LEMMA BatchType ==
  ASSUME TypeOK, EntriesHeld, CommandsCounted, NEW t \in Threads, pc[t] \in Working
  PROVE  Batch(t) \in Left(t) /\ Len(Batch(t)) \in Nat
<1>1. entry[t] # 0 /\ ip[t] <= Len(Program[File(t)]) /\ Command(t).op = pc[t]
  BY DEF EntriesHeld, CommandsCounted, Working
<1>2. Command(t) \in Commands
  BY <1>1, AtCommand
<1>3. CASE pc[t] = "show"
  <2>1. [b \in 1 .. TABLE_SIZE |-> b - 1] \in Seq(Buckets) /\ Len([b \in 1 .. TABLE_SIZE |-> b - 1]) = TABLE_SIZE
    BY TableAssumption DEF Buckets
  <2> QED
    BY <1>3, <2>1, TableAssumption DEF Batch, Left
<1>4. CASE pc[t] = "write"
  BY <1>1, <1>2, <1>4, CommandKinds DEF Batch, Left
<1>5. CASE pc[t] \in {"read", "delete"}
  BY <1>1, <1>2, <1>5, CommandKinds DEF Batch, Left
<1> QED
  BY <1>3, <1>4, <1>5 DEF Working

\* The backups of a file are counted one by one, and none is left out.
LEMMA BackupsGrow ==
  ASSUME NEW f \in JobFiles, NEW n \in Nat, n + 1 <= Len(Program[f])
  PROVE  /\ BackupsBefore(f, n) \in Nat
         /\ BackupsBefore(f, n + 1) =
              BackupsBefore(f, n) + (IF Program[f][n + 1].op = "backup" THEN 1 ELSE 0)
         /\ BackupsBefore(f, n + 1)
              <= Cardinality({i \in DOMAIN Program[f] : Program[f][i].op = "backup"})
         /\ Cardinality({i \in DOMAIN Program[f] : Program[f][i].op = "backup"}) \in Nat
<1> DEFINE B(m) == {i \in 1 .. m : Program[f][i].op = "backup"}
           L == Len(Program[f])
<1>1. Program[f] \in Seq(Commands) /\ L \in Nat /\ DOMAIN Program[f] = 1 .. L
  BY ProgramAssumption
<1>2. ASSUME NEW m \in Nat
      PROVE  IsFiniteSet(B(m)) /\ Cardinality(B(m)) \in Nat
  <2>1. IsFiniteSet(1 .. m)
    BY FS_Interval
  <2>2. B(m) \in SUBSET (1 .. m)
    OBVIOUS
  <2> HIDE DEF B
  <2> QED
    BY <2>1, <2>2, FS_Subset, FS_CardinalityType
<1>3. B(n + 1) = IF Program[f][n + 1].op = "backup" THEN B(n) \cup {n + 1} ELSE B(n)
  <2>1. 1 .. n + 1 = (1 .. n) \cup {n + 1}
    OBVIOUS
  <2> QED
    BY <2>1
<1>4. n + 1 \notin B(n)
  OBVIOUS
<1>5. B(n + 1) \in SUBSET B(L)
  BY <1>1
<1>6. IsFiniteSet(B(n)) /\ Cardinality(B(n)) \in Nat /\ IsFiniteSet(B(L)) /\ Cardinality(B(L)) \in Nat
  BY <1>1, <1>2
<1>7. Cardinality(B(L)) = Cardinality({i \in DOMAIN Program[f] : Program[f][i].op = "backup"})
  BY <1>1
<1>8. /\ BackupsBefore(f, n) = Cardinality(B(n))
      /\ BackupsBefore(f, n + 1) = Cardinality(B(n + 1))
  BY DEF BackupsBefore
<1> HIDE DEF B
<1>9. Cardinality(B(n + 1)) <= Cardinality(B(L))
  BY <1>5, <1>6, FS_Subset
<1>10. Cardinality(B(n) \cup {n + 1}) = Cardinality(B(n)) + 1
  BY <1>4, <1>6, FS_AddElement
<1> QED
  BY <1>3, <1>6, <1>7, <1>8, <1>9, <1>10

\* A BACKUP makes a file that has a name.
LEMMA NameMade ==
  ASSUME NEW e \in ToSet(Directory), NEW f \in JobFiles, NEW n \in Nat,
         n + 1 <= Len(Program[f]), Program[f][n + 1].op = "backup"
  PROVE  <<Stem[e], BackupsBefore(f, n) + 1>> \in Names
<1> DEFINE count(g) == Cardinality({i \in DOMAIN Program[g] : Program[g][i].op = "backup"})
<1>1. /\ BackupsBefore(f, n) \in Nat /\ count(f) \in Nat
      /\ BackupsBefore(f, n) + 1 <= count(f)
  BY BackupsGrow
<1>2. BackupsBefore(f, n) + 1 \in 1 .. count(f)
  <2> HIDE DEF count
  <2> QED
    BY <1>1
<1> QED
  BY <1>2 DEF Names, BackupNames

-----------------------------------------------------------------------------
(* Types.                                                                  *)

\* The entries that a BACKUP may take for its own are entries.
LEMMA EntriesOfStream ==
  ASSUME TypeOK, EntriesHeld, NEW t \in Threads, entry[t] # 0
  PROVE  EntryNames(t) \subseteq ToSet(Directory)
<1>1. File(t) \in JobFiles
  BY AtCommand
<1>2. \A i \in DOMAIN Directory : Directory[i] \in ToSet(Directory)
  BY DEF ToSet
<1> QED
  BY <1>1, <1>2, FileAssumption DEF EntryNames

\* Every variable begins in its type.
LEMMA InitTypes == Init => TypeOK
<1> SUFFICES ASSUME Init
             PROVE  TypeOK
  OBVIOUS
<1>1. Len(Directory) \in Nat
  BY DirectoryAssumption
<1>2. EmptyTable \in Table /\ Contents(EmptyTable) \in [Keys -> Values \cup {Missing}]
  BY ContentsEmpty, ContentsType
<1>3. \A t \in Threads : left[t] \in Left(t)
  BY DEF Init, Left
<1>4. <<>> \in Lines /\ \A f \in JobFiles : <<>> \in Seq(Lines)
  BY DEF Lines
<1> QED
  BY <1>1, <1>2, <1>3, <1>4 DEF Init, TypeOK

\* The steps that leave the batches alone keep the types.
LEMMA FileTypes ==
  ASSUME TypeOK, EntriesHeld, NEW t \in Threads,
         LockDirectory(t) \/ ReadDirectory(t) \/ Open(t) \/ Close(t)
  PROVE  TypeOK'
<1>1. Len(Directory) \in Nat
  BY DirectoryAssumption
<1>2. \A u \in Threads : pc[u] \in {"write", "show"} => u # t
  BY DEF LockDirectory, ReadDirectory, Open, Close
<1>3. /\ left' = left
      /\ \A u \in Threads : pc'[u] \in {"write", "show"} <=> pc[u] \in {"write", "show"}
      /\ \A u \in Threads : pc[u] \in {"write", "show"} => pc'[u] = pc[u]
  <2>1. CASE LockDirectory(t)
    BY <2>1 DEF LockDirectory, TypeOK
  <2>2. CASE ReadDirectory(t)
    BY <2>2 DEF ReadDirectory, TypeOK
  <2>3. CASE Open(t)
    BY <2>3 DEF Open, TypeOK
  <2>4. CASE Close(t)
    BY <2>4 DEF Close, TypeOK
  <2> QED
    BY <2>1, <2>2, <2>3, <2>4
<1>4. \A u \in Threads : left'[u] \in Left(u)'
  BY <1>3 DEF Left, TypeOK
<1>5. CASE LockDirectory(t)
  BY <1>1, <1>4, <1>5 DEF LockDirectory, TypeOK, kvsVars, bckVars
<1>6. CASE ReadDirectory(t)
  <2>1. /\ entry' \in [Threads -> 0 .. Len(Directory)]
        /\ next' \in 1 .. Len(Directory) + 1
        /\ dirLock' \in Threads \cup {NoThread}
    <3>1. CASE next > Len(Directory)
      BY <1>1, <1>6, <3>1 DEF ReadDirectory, TypeOK
    <3>2. CASE next <= Len(Directory) /\ Directory[next] \in JobFiles
      <4>1. entry' = [entry EXCEPT ![t] = next] /\ next' = next + 1 /\ dirLock' = NoThread
        BY <1>1, <1>6, <3>2 DEF ReadDirectory, TypeOK
      <4>2. next \in 0 .. Len(Directory) /\ entry \in [Threads -> 0 .. Len(Directory)]
        BY <1>1, <3>2 DEF TypeOK
      <4>3. entry' \in [Threads -> 0 .. Len(Directory)]
        BY <4>1, <4>2
      <4> QED
        BY <1>1, <4>1, <4>2, <4>3
    <3>3. CASE next <= Len(Directory) /\ Directory[next] \notin JobFiles
      BY <1>1, <1>6, <3>3 DEF ReadDirectory, TypeOK
    <3> QED
      BY <1>1, <3>1, <3>2, <3>3 DEF TypeOK
  <2>2. pc' = pc \/ pc' = [pc EXCEPT ![t] = "exit"] \/ pc' = [pc EXCEPT ![t] = "open"]
    BY <1>6 DEF ReadDirectory
  <2>3. pc' \in [Threads -> {"lock", "readdir", "open", "get", "write", "delete", "read", "show", "exit"}]
    BY <2>2 DEF TypeOK
  <2>4. UNCHANGED <<ip, nback, left, line, kvsVars, out, bckVars>>
    BY <1>6 DEF ReadDirectory
  <2> QED
    BY <1>4, <2>1, <2>3, <2>4 DEF TypeOK, kvsVars, bckVars
<1>7. CASE Open(t)
  <2>1. /\ entry' \in [Threads -> 0 .. Len(Directory)]
        /\ pc' \in [Threads -> {"lock", "readdir", "open", "get", "write", "delete", "read", "show", "exit"}]
    <3>1. CASE File(t) \in Unreadable
      <4>1. entry' = [entry EXCEPT ![t] = 0] /\ pc' = [pc EXCEPT ![t] = "exit"]
        BY <1>7, <3>1 DEF Open
      <4>2. 0 \in 0 .. Len(Directory) /\ entry \in [Threads -> 0 .. Len(Directory)]
        BY <1>1 DEF TypeOK
      <4>3. entry' \in [Threads -> 0 .. Len(Directory)]
        BY <4>1, <4>2
      <4>4. pc' \in [Threads -> {"lock", "readdir", "open", "get", "write", "delete", "read", "show", "exit"}]
        BY <4>1 DEF TypeOK
      <4> QED
        BY <4>3, <4>4
    <3>2. CASE File(t) \notin Unreadable
      BY <1>7, <3>2 DEF Open, TypeOK
    <3> QED
      BY <3>1, <3>2
  <2>2. UNCHANGED <<dirVars, ip, nback, left, line, kvsVars, out, bckVars>>
    BY <1>7 DEF Open
  <2> QED
    BY <1>4, <2>1, <2>2 DEF TypeOK, dirVars, kvsVars, bckVars
<1>8. CASE Close(t)
  <2>1. /\ pc' = [pc EXCEPT ![t] = "lock"] /\ entry' = [entry EXCEPT ![t] = 0]
        /\ ip' = [ip EXCEPT ![t] = 1] /\ nback' = [nback EXCEPT ![t] = 0]
        /\ UNCHANGED <<dirVars, left, line, kvsVars, out, bckVars>>
    BY <1>8 DEF Close
  <2>2. 0 \in 0 .. Len(Directory)
    BY DirectoryAssumption
  <2>3. /\ pc' \in [Threads -> {"lock", "readdir", "open", "get", "write", "delete", "read", "show", "exit"}]
        /\ entry' \in [Threads -> 0 .. Len(Directory)]
        /\ ip' \in [Threads -> Nat \ {0}] /\ nback' \in [Threads -> Nat]
    BY <2>1, <2>2 DEF TypeOK
  <2> QED
    BY <1>4, <2>1, <2>3 DEF TypeOK, dirVars, kvsVars, bckVars
<1> QED
  BY <1>5, <1>6, <1>7, <1>8

\* Where a step leaves a thread with a command, its batch and its line have types.
LEMMA CommandLeft ==
  ASSUME TypeOK, NEW t \in Threads,
         \A u \in Threads \ {t} : pc'[u] = pc[u],
         \E left_t, line_t : /\ left' = [left EXCEPT ![t] = left_t] /\ left_t \in Left(t)'
                             /\ line' = [line EXCEPT ![t] = line_t] /\ line_t \in Lines
  PROVE  /\ DOMAIN left' = Threads /\ \A u \in Threads : left'[u] \in Left(u)'
         /\ line' \in [Threads -> Lines]
<1>1. PICK left_t, line_t : /\ left' = [left EXCEPT ![t] = left_t] /\ left_t \in Left(t)'
                            /\ line' = [line EXCEPT ![t] = line_t] /\ line_t \in Lines
  OBVIOUS
<1>2. \A u \in Threads \ {t} : left'[u] \in Left(u)'
  BY <1>1 DEF Left, TypeOK
<1>3. DOMAIN left' = Threads /\ left'[t] \in Left(t)'
  BY <1>1 DEF TypeOK
<1>4. line' \in [Threads -> Lines]
  BY <1>1 DEF TypeOK
<1> QED
  BY <1>2, <1>3, <1>4

\* The end of a command keeps the types of what belongs to its thread.
LEMMA FinishTypes ==
  ASSUME TypeOK, NEW t \in Threads, Finish(t)
  PROVE  /\ pc' \in [Threads -> {"lock", "readdir", "open", "get", "write", "delete", "read", "show", "exit"}]
         /\ ip' \in [Threads -> Nat \ {0}]
         /\ DOMAIN left' = Threads /\ \A u \in Threads : left'[u] \in Left(u)'
         /\ line' \in [Threads -> Lines]
<1>1. /\ pc' = [pc EXCEPT ![t] = "get"]
      /\ ip' = [ip EXCEPT ![t] = ip[t] + 1]
      /\ line' = [line EXCEPT ![t] = <<>>]
      /\ left' = [left EXCEPT ![t] = <<>>]
  BY DEF Finish, TypeOK
<1>2. /\ pc' \in [Threads -> {"lock", "readdir", "open", "get", "write", "delete", "read", "show", "exit"}]
      /\ ip' \in [Threads -> Nat \ {0}]
  BY <1>1 DEF TypeOK
<1>3. <<>> \in Left(t)' /\ <<>> \in Lines /\ \A u \in Threads \ {t} : pc'[u] = pc[u]
  BY <1>1 DEF Left, Lines, TypeOK
<1> QED
  BY <1>1, <1>2, <1>3, CommandLeft

\* The start of a batch, which takes tablelock, keeps the types.
LEMMA LockTypes ==
  ASSUME TypeOK, EntriesHeld, CommandsCounted, NEW t \in Threads, WriteLock(t) \/ ReadLock(t)
  PROVE  TypeOK'
<1> DEFINE left_t == IF Command(t).op = "show" THEN [b \in 1 .. TABLE_SIZE |-> b - 1]
                                              ELSE Command(t).batch
<1>1. /\ pc[t] = "get" /\ ip[t] <= Len(Program[File(t)])
      /\ Command(t).op \in Working
      /\ pc' = [pc EXCEPT ![t] = Command(t).op]
      /\ left' = [left EXCEPT ![t] = left_t]
      /\ writer' \in {writer, t} /\ readers' \in {readers, readers \cup {t}}
      /\ UNCHANGED <<dirVars, entry, ip, nback, line, table, committed, out, bckVars>>
  <2>1. CASE WriteLock(t)
    BY <2>1 DEF WriteLock, At, Working
  <2>2. CASE ReadLock(t)
    BY <2>2 DEF ReadLock, At, Working
  <2> QED
    BY <2>1, <2>2
<1>2. entry[t] # 0
  BY <1>1 DEF EntriesHeld
<1>3. Command(t) \in Commands
  BY <1>1, <1>2, AtCommand
<1>4. pc'[t] = Command(t).op /\ \A u \in Threads \ {t} : pc'[u] = pc[u]
  BY <1>1 DEF TypeOK
<1>5. left_t \in Left(t)'
  <2>1. CASE Command(t).op = "show"
    <3>1. [b \in 1 .. TABLE_SIZE |-> b - 1] \in Seq(Buckets)
      BY TableAssumption DEF Buckets
    <3> QED
      BY <1>4, <2>1, <3>1 DEF Left
  <2>2. CASE Command(t).op # "show"
    BY <1>1, <1>3, <1>4, <2>2, CommandKinds DEF Left, Working
  <2> QED
    BY <2>1, <2>2
<1> HIDE DEF left_t
<1>6. line' = [line EXCEPT ![t] = line[t]] /\ line[t] \in Lines
  BY <1>1 DEF TypeOK
<1>7. /\ DOMAIN left' = Threads /\ \A u \in Threads : left'[u] \in Left(u)'
      /\ line' \in [Threads -> Lines]
  BY <1>1, <1>4, <1>5, <1>6, CommandLeft
<1>8. pc' \in [Threads -> {"lock", "readdir", "open", "get", "write", "delete", "read", "show", "exit"}]
  BY <1>1 DEF TypeOK, Working
<1>9. writer' \in Threads \cup {NoThread} /\ readers' \in SUBSET Threads
  BY <1>1 DEF TypeOK
<1> QED
  BY <1>1, <1>7, <1>8, <1>9 DEF TypeOK, dirVars, bckVars

\* One key or pair of a change keeps the types, and the chains sound.
LEMMA ChangeTypes ==
  ASSUME TypeOK, ChainsSound, NEW t \in Threads, WritePair(t) \/ DeleteKey(t)
  PROVE  TypeOK' /\ ChainsSound'
<1>1. /\ left' = [left EXCEPT ![t] = Tail(left[t])] /\ left[t] # <<>>
      /\ pc' = pc
      /\ UNCHANGED <<dirVars, entry, ip, nback, writer, readers, committed, out, bckVars>>
  BY DEF WritePair, DeleteKey, TypeOK
<1>2. Tail(left[t]) \in Left(t)' /\ \A u \in Threads \ {t} : pc'[u] = pc[u]
  BY <1>1 DEF Left, TypeOK
<1>3. /\ table' \in Table /\ Sound(table')
      /\ \E line_t \in Lines : line' = [line EXCEPT ![t] = line_t]
  <2>1. CASE WritePair(t)
    <3>1. Head(left[t]) \in Keys \X Values
      BY <2>1 DEF WritePair, TypeOK, Left
    <3>2. line' = [line EXCEPT ![t] = line[t]] /\ line[t] \in Lines
      BY <2>1 DEF WritePair, TypeOK
    <3>3. table' \in {table, write_pair(table, Head(left[t])[1], Head(left[t])[2])}
      BY <2>1 DEF WritePair
    <3>4. Head(left[t])[1] \in Keys /\ Head(left[t])[2] \in Values
      BY <3>1
    <3> DEFINE k == Head(left[t])[1]
               v == Head(left[t])[2]
    <3> HIDE DEF k, v
    <3>5. write_pair(table, k, v) \in Table /\ Sound(write_pair(table, k, v))
      BY <3>4, WriteWrites DEF TypeOK, ChainsSound, k, v
    <3> QED
      BY <3>2, <3>3, <3>5 DEF TypeOK, ChainsSound, k, v
  <2>2. CASE DeleteKey(t)
    <3>0. left[t] \in Seq(Keys)
      BY <2>2 DEF DeleteKey, TypeOK, Left
    <3>1. Head(left[t]) \in Keys
      BY <1>1, <3>0
    <3>2. line' = line \/ line' = [line EXCEPT ![t] = Append(line[t], <<Head(left[t]), Missing>>)]
      BY <2>2 DEF DeleteKey
    <3>3. line[t] \in Lines /\ Append(line[t], <<Head(left[t]), Missing>>) \in Lines
      BY <3>1 DEF TypeOK, Lines
    <3>4. line = [line EXCEPT ![t] = line[t]]
      BY DEF TypeOK
    <3>5. \E line_t \in Lines : line' = [line EXCEPT ![t] = line_t]
      BY <3>2, <3>3, <3>4
    <3>6. table' = delete_pair(table, Head(left[t]))
      BY <2>2 DEF DeleteKey
    <3> QED
      BY <3>1, <3>5, <3>6, DeleteDeletes DEF TypeOK, ChainsSound
  <2> QED
    BY <2>1, <2>2
<1>4. /\ DOMAIN left' = Threads /\ \A u \in Threads : left'[u] \in Left(u)'
      /\ line' \in [Threads -> Lines]
  BY <1>1, <1>2, <1>3, CommandLeft
<1> QED
  BY <1>1, <1>3, <1>4 DEF TypeOK, ChainsSound, dirVars, bckVars

\* One key of a READ and one chain of a SHOW keep the types.
LEMMA LookTypes ==
  ASSUME TypeOK, ChainsSound, NEW t \in Threads, ReadKey(t) \/ ShowChain(t)
  PROVE  TypeOK'
<1>1. /\ left' = [left EXCEPT ![t] = Tail(left[t])] /\ left[t] # <<>>
      /\ pc' = pc
      /\ UNCHANGED <<dirVars, entry, ip, nback, kvsVars, out, bckVars>>
  BY DEF ReadKey, ShowChain, TypeOK
<1>2. Tail(left[t]) \in Left(t)' /\ \A u \in Threads \ {t} : pc'[u] = pc[u]
  BY <1>1 DEF Left, TypeOK
<1>3. \E line_t \in Lines : line' = [line EXCEPT ![t] = line_t]
  <2>1. CASE ReadKey(t)
    <3> DEFINE k == Head(left[t])
    <3>0. left[t] \in Seq(Keys)
      BY <2>1 DEF ReadKey, TypeOK, Left
    <3>1. k \in Keys
      BY <1>1, <3>0
    <3>2. read_pair(table, k) \in Values \cup {Missing}
      BY <3>1, ReadFinds DEF TypeOK, ChainsSound
    <3>3. line' = [line EXCEPT ![t] = Append(line[t], <<k, read_pair(table, k)>>)]
      BY <2>1 DEF ReadKey, TypeOK
    <3>4. Append(line[t], <<k, read_pair(table, k)>>) \in Lines
      BY <3>1, <3>2 DEF TypeOK, Lines
    <3> QED
      BY <3>3, <3>4
  <2>2. CASE ShowChain(t)
    <3>0. left[t] \in Seq(Buckets)
      BY <2>2 DEF ShowChain, TypeOK, Left
    <3>1. Head(left[t]) \in Buckets
      BY <1>1, <3>0
    <3>2. table[Head(left[t])] \in Seq(Node) /\ line[t] \in Lines
      BY <3>1 DEF TypeOK, Table
    <3>3. line[t] \o table[Head(left[t])] \in Lines
      <4>1. Node \subseteq Keys \X (Values \cup {Missing})
        BY DEF Node
      <4>2. table[Head(left[t])] \in Lines
        BY <3>2, <4>1 DEF Lines
      <4> QED
        BY <3>2, <4>2, ConcatProperties DEF Lines
    <3>4. line' = [line EXCEPT ![t] = line[t] \o table[Head(left[t])]]
      BY <2>2 DEF ShowChain, TypeOK
    <3> QED
      BY <3>3, <3>4
  <2> QED
    BY <2>1, <2>2
<1>4. /\ DOMAIN left' = Threads /\ \A u \in Threads : left'[u] \in Left(u)'
      /\ line' \in [Threads -> Lines]
  BY <1>1, <1>2, <1>3, CommandLeft
<1> QED
  BY <1>1, <1>4 DEF TypeOK, dirVars, bckVars, kvsVars

\* The end of a batch keeps the types.
LEMMA UnlockTypes ==
  ASSUME TypeOK, ChainsSound, EntriesHeld, NEW t \in Threads,
         WriteUnlock(t) \/ ReadUnlock(t) \/ Other(t)
  PROVE  TypeOK'
<1>1. pc[t] \in {"get"} \cup Working
  BY DEF WriteUnlock, ReadUnlock, Other, At, Working
<1>2. entry[t] # 0
  BY <1>1 DEF EntriesHeld, Working
<1>3. File(t) \in JobFiles
  BY <1>2, AtCommand
<1>4. Finish(t) /\ UNCHANGED <<dirVars, entry, nback, table, bckVars>>
  BY DEF WriteUnlock, ReadUnlock, Other, kvsVars
<1>5. Contents(table) \in [Keys -> Values \cup {Missing}]
  BY ContentsType DEF TypeOK, ChainsSound
<1>6. /\ writer' \in {writer, NoThread} /\ readers' \in {readers, readers \ {t}}
      /\ committed' \in {committed, Contents(table)}
      /\ out' \in {out, [out EXCEPT ![File(t)] = Append(out[File(t)], line[t])]}
  <2>1. CASE WriteUnlock(t)
    BY <1>3, <2>1 DEF WriteUnlock, TypeOK
  <2>2. CASE ReadUnlock(t)
    BY <1>3, <2>2 DEF ReadUnlock, TypeOK
  <2>3. CASE Other(t)
    BY <2>3 DEF Other, kvsVars
  <2> QED
    BY <2>1, <2>2, <2>3
<1>7. out' \in [JobFiles -> Seq(Lines)]
  <2>1. Append(out[File(t)], line[t]) \in Seq(Lines)
    BY <1>3 DEF TypeOK
  <2> QED
    BY <1>3, <1>6, <2>1 DEF TypeOK
<1>8. /\ writer' \in Threads \cup {NoThread} /\ readers' \in SUBSET Threads
      /\ committed' \in [Keys -> Values \cup {Missing}]
  BY <1>5, <1>6 DEF TypeOK
<1>9. /\ pc' \in [Threads -> {"lock", "readdir", "open", "get", "write", "delete", "read", "show", "exit"}]
      /\ ip' \in [Threads -> Nat \ {0}]
      /\ DOMAIN left' = Threads /\ \A u \in Threads : left'[u] \in Left(u)'
      /\ line' \in [Threads -> Lines]
  BY <1>4, FinishTypes
<1> QED
  BY <1>4, <1>7, <1>8, <1>9 DEF TypeOK, dirVars, bckVars

\* BACKUP keeps the types: its file has a name.
LEMMA BackupTypes ==
  ASSUME TypeOK, EntriesHeld, CommandsCounted, NEW t \in Threads, Backup(t)
  PROVE  TypeOK'
<1> DEFINE n == ip[t] - 1
<1>1. pc[t] = "get" /\ ip[t] <= Len(Program[File(t)]) /\ Command(t).op = "backup"
  BY DEF Backup, At
<1>2. entry[t] # 0 /\ nback[t] = BackupsBefore(File(t), n)
  BY <1>1 DEF EntriesHeld, CommandsCounted
<1>3. /\ File(t) \in JobFiles /\ n \in Nat /\ n + 1 = ip[t]
      /\ n + 1 <= Len(Program[File(t)]) /\ Program[File(t)][n + 1].op = "backup"
  BY <1>1, <1>2, AtCommand DEF Command
<1>4. \A e \in EntryNames(t) : <<Stem[e], nback[t] + 1>> \in Names
  <2> HIDE DEF n
  <2> QED
    BY <1>2, <1>3, EntriesOfStream, NameMade
<1>5. children' \in SUBSET [name : Names, image : Table]
  <2>1. CASE children' = children
    BY <2>1 DEF TypeOK
  <2>2. CASE \E e \in EntryNames(t) :
               children' = children \cup {[name |-> <<Stem[e], nback[t] + 1>>, image |-> table]}
    BY <1>4, <2>2 DEF TypeOK
  <2> QED
    BY <2>1, <2>2 DEF Backup
<1>6. Finish(t) /\ nback' = [nback EXCEPT ![t] = nback[t] + 1]
      /\ UNCHANGED <<dirVars, entry, kvsVars, out, bck>>
  BY DEF Backup, TypeOK
<1>7. nback' \in [Threads -> Nat]
  BY <1>6 DEF TypeOK
<1>8. /\ pc' \in [Threads -> {"lock", "readdir", "open", "get", "write", "delete", "read", "show", "exit"}]
      /\ ip' \in [Threads -> Nat \ {0}]
      /\ DOMAIN left' = Threads /\ \A u \in Threads : left'[u] \in Left(u)'
      /\ line' \in [Threads -> Lines]
  BY <1>6, FinishTypes
<1> QED
  BY <1>5, <1>6, <1>7, <1>8 DEF TypeOK, dirVars, kvsVars

\* A child writes nodes.
LEMMA ChildTypes ==
  ASSUME TypeOK, NEW c \in children, ChildWrite(c)
  PROVE  TypeOK'
<1>1. c.name \in Names /\ c.image \in Table
  BY DEF TypeOK
<1>2. Listing(c.image) \in Seq(Node)
  BY <1>1, ListingHolds
<1>3. /\ bck' = [bck EXCEPT ![c.name] = Listing(c.image)]
      /\ children' = children \ {c}
      /\ UNCHANGED <<dirVars, jobVars, kvsVars, out>>
  BY DEF ChildWrite
<1>4. bck' \in [Names -> Seq(Node) \cup {NoBackup}]
  BY <1>1, <1>2, <1>3 DEF TypeOK
<1>5. \A u \in Threads : left'[u] \in Left(u)'
  BY <1>3 DEF TypeOK, Left, jobVars
<1> QED
  BY <1>3, <1>4, <1>5 DEF TypeOK, dirVars, jobVars, kvsVars

-----------------------------------------------------------------------------
(* The entries of the directory and the commands of a file.                *)

\* The steps of run_job.
CommandStep(t) ==
  \/ Other(t) \/ WriteLock(t) \/ WritePair(t) \/ DeleteKey(t) \/ WriteUnlock(t)
  \/ ReadLock(t) \/ ReadKey(t) \/ ShowChain(t) \/ ReadUnlock(t) \/ Backup(t)

\* They leave the directory and the other threads alone.
LEMMA CommandFrame ==
  ASSUME TypeOK, NEW t \in Threads, CommandStep(t)
  PROVE  /\ pc[t] \in {"get"} \cup Working /\ pc'[t] \in {"get"} \cup Working
         /\ UNCHANGED <<dirVars, entry>>
         /\ \A u \in Threads \ {t} : /\ pc'[u] = pc[u] /\ ip'[u] = ip[u] /\ nback'[u] = nback[u]
                                     /\ left'[u] = left[u] /\ line'[u] = line[u]
<1>1. CASE Other(t)
  BY <1>1 DEF Other, Finish, At, TypeOK, Working
<1>2. CASE WriteLock(t)
  BY <1>2 DEF WriteLock, At, TypeOK, Working
<1>3. CASE WritePair(t)
  BY <1>3 DEF WritePair, TypeOK, Working
<1>4. CASE DeleteKey(t)
  <2>1. line' = line \/ line' = [line EXCEPT ![t] = Append(line[t], <<Head(left[t]), Missing>>)]
    BY <1>4 DEF DeleteKey, TypeOK
  <2> QED
    BY <1>4, <2>1 DEF DeleteKey, TypeOK, Working
<1>5. CASE WriteUnlock(t)
  BY <1>5 DEF WriteUnlock, Finish, TypeOK, Working
<1>6. CASE ReadLock(t)
  BY <1>6 DEF ReadLock, At, TypeOK, Working
<1>7. CASE ReadKey(t)
  BY <1>7 DEF ReadKey, TypeOK, Working
<1>8. CASE ShowChain(t)
  BY <1>8 DEF ShowChain, TypeOK, Working
<1>9. CASE ReadUnlock(t)
  BY <1>9 DEF ReadUnlock, Finish, TypeOK, Working
<1>10. CASE Backup(t)
  BY <1>10 DEF Backup, Finish, At, TypeOK, Working
<1> QED
  BY <1>1, <1>2, <1>3, <1>4, <1>5, <1>6, <1>7, <1>8, <1>9, <1>10 DEF CommandStep

\* Which thread has which entry.
LEMMA EntriesStep ==
  ASSUME TypeOK, TypeOK', EntriesHeld, [Next]_vars
  PROVE  EntriesHeld'
<1>1. ASSUME NEW t \in Threads, CommandStep(t)
      PROVE  EntriesHeld'
  <2>1. /\ pc[t] \in {"get"} \cup Working /\ pc'[t] \in {"get"} \cup Working
        /\ UNCHANGED <<dirLock, next, entry>>
        /\ \A u \in Threads \ {t} : pc'[u] = pc[u]
    BY <1>1, CommandFrame DEF dirVars
  <2> SUFFICES ASSUME NEW u \in Threads
               PROVE  /\ pc'[u] = "readdir" <=> dirLock = u
                      /\ entry[u] = 0 <=> pc'[u] \in {"lock", "readdir", "exit"}
                      /\ entry[u] # 0 => entry[u] < next /\ File(u) \in JobFiles
                      /\ pc'[u] \in {"get"} \cup Working => File(u) \notin Unreadable
                      /\ \A v \in Threads : entry[u] # 0 /\ entry[v] = entry[u] => u = v
    BY <2>1 DEF EntriesHeld, File
  <2>2. CASE u = t
    BY <2>1, <2>2 DEF EntriesHeld, Working
  <2>3. CASE u # t
    BY <2>1, <2>3 DEF EntriesHeld
  <2> QED
    BY <2>2, <2>3
<1>2. ASSUME NEW t \in Threads, LockDirectory(t)
      PROVE  EntriesHeld'
  <2>1. /\ pc[t] = "lock" /\ dirLock = NoThread /\ dirLock' = t /\ pc' = [pc EXCEPT ![t] = "readdir"]
        /\ UNCHANGED <<next, entry>>
    BY <1>2 DEF LockDirectory
  <2> SUFFICES ASSUME NEW u \in Threads
               PROVE  /\ pc'[u] = "readdir" <=> t = u
                      /\ entry[u] = 0 <=> pc'[u] \in {"lock", "readdir", "exit"}
                      /\ entry[u] # 0 => entry[u] < next /\ File(u) \in JobFiles
                      /\ pc'[u] \in {"get"} \cup Working => File(u) \notin Unreadable
                      /\ \A v \in Threads : entry[u] # 0 /\ entry[v] = entry[u] => u = v
    BY <2>1 DEF EntriesHeld, File
  <2>2. CASE u = t
    BY <2>1, <2>2 DEF EntriesHeld, Working, TypeOK
  <2>3. CASE u # t
    BY <2>1, <2>3, ThreadAssumption DEF EntriesHeld, TypeOK
  <2> QED
    BY <2>2, <2>3
<1>3. ASSUME NEW t \in Threads, ReadDirectory(t)
      PROVE  EntriesHeld'
  <2>0. Len(Directory) \in Nat /\ next \in Nat \ {0} /\ \A u \in Threads : entry[u] \in Nat
    <3>1. Len(Directory) \in Nat
      BY DirectoryAssumption
    <3>2. next \in 1 .. Len(Directory) + 1 /\ \A u \in Threads : entry[u] \in 0 .. Len(Directory)
      BY DEF TypeOK
    <3> QED
      BY <3>1, <3>2
  <2>1. pc[t] = "readdir" /\ dirLock = t /\ entry[t] = 0
    BY <1>3 DEF ReadDirectory, EntriesHeld
  <2>2. CASE next > Len(Directory) /\ pc' = [pc EXCEPT ![t] = "exit"] /\ dirLock' = NoThread
             /\ UNCHANGED <<next, entry>>
    <3> SUFFICES ASSUME NEW u \in Threads
                 PROVE  /\ pc'[u] = "readdir" <=> NoThread = u
                        /\ entry[u] = 0 <=> pc'[u] \in {"lock", "readdir", "exit"}
                        /\ entry[u] # 0 => entry[u] < next /\ File(u) \in JobFiles
                        /\ pc'[u] \in {"get"} \cup Working => File(u) \notin Unreadable
                        /\ \A v \in Threads : entry[u] # 0 /\ entry[v] = entry[u] => u = v
      BY <2>2 DEF EntriesHeld, File
    <3>1. CASE u = t
      BY <2>1, <2>2, <3>1, ThreadAssumption DEF EntriesHeld, Working, TypeOK
    <3>2. CASE u # t
      BY <2>1, <2>2, <3>2, ThreadAssumption DEF EntriesHeld, TypeOK
    <3> QED
      BY <3>1, <3>2
  <2>3. CASE /\ next <= Len(Directory) /\ Directory[next] \in JobFiles
             /\ entry' = [entry EXCEPT ![t] = next]
             /\ next' = next + 1
             /\ pc' = [pc EXCEPT ![t] = "open"]
             /\ dirLock' = NoThread
    <3>1. entry'[t] = next /\ pc'[t] = "open"
          /\ \A u \in Threads \ {t} : entry'[u] = entry[u] /\ pc'[u] = pc[u] /\ entry[u] < next
      BY <2>0, <2>3 DEF TypeOK, EntriesHeld
    <3> SUFFICES ASSUME NEW u \in Threads
                 PROVE  /\ pc'[u] = "readdir" <=> NoThread = u
                        /\ entry'[u] = 0 <=> pc'[u] \in {"lock", "readdir", "exit"}
                        /\ entry'[u] # 0 => entry'[u] < next + 1 /\ Directory[entry'[u]] \in JobFiles
                        /\ pc'[u] \in {"get"} \cup Working => Directory[entry'[u]] \notin Unreadable
                        /\ \A v \in Threads : entry'[u] # 0 /\ entry'[v] = entry'[u] => u = v
      BY <2>3 DEF EntriesHeld, File
    <3>2. CASE u = t
      BY <2>0, <2>3, <3>1, <3>2, ThreadAssumption DEF Working
    <3>3. CASE u # t
      <4>1. Directory[entry'[u]] = File(u)
        BY <3>1, <3>3 DEF File
      <4>2. u # NoThread /\ pc'[u] # "readdir"
        BY <2>1, <3>1, <3>3, ThreadAssumption DEF EntriesHeld
      <4>3. entry[u] < next + 1 /\ entry[u] # next
        BY <2>0, <3>1, <3>3
      <4> QED
        BY <3>1, <3>3, <4>1, <4>2, <4>3 DEF EntriesHeld
    <3> QED
      BY <3>2, <3>3
  <2>4. CASE next' = next + 1 /\ UNCHANGED <<dirLock, entry, pc>>
    <3>1. \A u \in Threads : entry[u] < next => entry[u] < next + 1
      BY <2>0
    <3> QED
      BY <2>4, <3>1 DEF EntriesHeld, File
  <2> QED
    BY <1>3, <2>2, <2>3, <2>4 DEF ReadDirectory
<1>4. ASSUME NEW t \in Threads, Open(t) \/ Close(t)
      PROVE  EntriesHeld'
  <2>1. /\ pc[t] \in {"open", "get"} /\ UNCHANGED <<dirLock, next>>
        /\ \/ pc' = [pc EXCEPT ![t] = "exit"] /\ entry' = [entry EXCEPT ![t] = 0]
           \/ pc' = [pc EXCEPT ![t] = "lock"] /\ entry' = [entry EXCEPT ![t] = 0]
           \/ pc' = [pc EXCEPT ![t] = "get"] /\ entry' = entry /\ File(t) \notin Unreadable
    BY <1>4 DEF Open, Close, dirVars
  <2>2. /\ \/ pc'[t] \in {"exit", "lock"} /\ entry'[t] = 0
           \/ pc'[t] = "get" /\ entry'[t] = entry[t] /\ File(t) \notin Unreadable
        /\ \A u \in Threads \ {t} : entry'[u] = entry[u] /\ pc'[u] = pc[u]
    BY <2>1 DEF TypeOK
  <2>3. dirLock # t /\ entry[t] # 0
    BY <2>1 DEF EntriesHeld
  <2> SUFFICES ASSUME NEW u \in Threads
               PROVE  /\ pc'[u] = "readdir" <=> dirLock = u
                      /\ entry'[u] = 0 <=> pc'[u] \in {"lock", "readdir", "exit"}
                      /\ entry'[u] # 0 => entry'[u] < next /\ Directory[entry'[u]] \in JobFiles
                      /\ pc'[u] \in {"get"} \cup Working => Directory[entry'[u]] \notin Unreadable
                      /\ \A v \in Threads : entry'[u] # 0 /\ entry'[v] = entry'[u] => u = v
    BY <2>1 DEF EntriesHeld, File
  <2>4. entry'[u] # 0 => entry'[u] = entry[u] /\ Directory[entry'[u]] = File(u)
    BY <2>2 DEF File
  <2>5. \A v \in Threads : entry'[v] # 0 => entry'[v] = entry[v]
    BY <2>2
  <2>6. \A v \in Threads : entry'[u] # 0 /\ entry'[v] = entry'[u] => u = v
    BY <2>5 DEF EntriesHeld
  <2>7. CASE u = t
    BY <2>2, <2>3, <2>4, <2>6, <2>7 DEF EntriesHeld, Working
  <2>8. CASE u # t
    <3>1. pc'[u] = pc[u] /\ entry'[u] = entry[u] /\ Directory[entry'[u]] = File(u)
      BY <2>2, <2>8 DEF File
    <3> QED
      BY <2>6, <3>1 DEF EntriesHeld
  <2> QED
    BY <2>7, <2>8
<1>5. ASSUME UNCHANGED <<dirLock, next, pc, entry>>
      PROVE  EntriesHeld'
  BY <1>5 DEF EntriesHeld, File
<1> QED
  BY <1>1, <1>2, <1>3, <1>4, <1>5
     DEF Next, ThreadStep, CommandStep, ChildWrite, vars, dirVars, jobVars

\* Where each thread is in its file.
LEMMA CountedStep ==
  ASSUME TypeOK, EntriesHeld, CommandsCounted, [Next]_vars
  PROVE  CommandsCounted'
<1> DEFINE Counted(p, e, i, n, l, o) ==
             /\ IF p \in {"get"} \cup Working
                THEN i <= Len(Program[Directory[e]]) + 1 /\ n = BackupsBefore(Directory[e], i - 1)
                ELSE i = 1 /\ n = 0
             /\ IF p \in Working
                THEN i <= Len(Program[Directory[e]]) /\ Program[Directory[e]][i].op = p
                ELSE l = <<>> /\ o = <<>>
<1>1. \A t \in Threads : Counted(pc[t], entry[t], ip[t], nback[t], left[t], line[t])
  BY DEF CommandsCounted, File, Command
<1>2. CommandsCounted' <=>
        \A t \in Threads : Counted(pc'[t], entry'[t], ip'[t], nback'[t], left'[t], line'[t])
  BY DEF CommandsCounted, File, Command
<1>3. ASSUME NEW t \in Threads, CommandStep(t)
      PROVE  CommandsCounted'
  <2>1. /\ pc[t] \in {"get"} \cup Working /\ pc'[t] \in {"get"} \cup Working /\ entry' = entry
        /\ \A u \in Threads \ {t} : /\ pc'[u] = pc[u] /\ ip'[u] = ip[u] /\ nback'[u] = nback[u]
                                    /\ left'[u] = left[u] /\ line'[u] = line[u]
    BY <1>3, CommandFrame
  <2>2. /\ entry[t] # 0 /\ File(t) \in JobFiles /\ Len(Program[File(t)]) \in Nat
        /\ ip[t] \in Nat \ {0} /\ ip[t] - 1 \in Nat /\ (ip[t] - 1) + 1 = ip[t]
        /\ nback[t] = BackupsBefore(File(t), ip[t] - 1)
    BY <2>1, AtCommand DEF EntriesHeld, CommandsCounted, Working
  <2>3. CASE Other(t) \/ WriteUnlock(t) \/ ReadUnlock(t)
    <3>1. ip[t] <= Len(Program[File(t)]) /\ Command(t).op # "backup"
      BY <2>3 DEF Other, At, WriteUnlock, ReadUnlock, CommandsCounted, Working
    <3>2. Finish(t) /\ nback' = nback
      BY <2>3 DEF Other, WriteUnlock, ReadUnlock
    <3>3. pc'[t] = "get" /\ ip'[t] = ip[t] + 1 /\ left'[t] = <<>> /\ line'[t] = <<>> /\ nback'[t] = nback[t]
      BY <3>2 DEF Finish, TypeOK
    <3>4. BackupsBefore(File(t), ip[t]) = BackupsBefore(File(t), ip[t] - 1)
      <4> DEFINE m == ip[t] - 1
      <4>1. m \in Nat /\ m + 1 = ip[t] /\ m + 1 <= Len(Program[File(t)])
        BY <2>2, <3>1
      <4> HIDE DEF m
      <4>2. BackupsBefore(File(t), m + 1) =
              BackupsBefore(File(t), m) + (IF Program[File(t)][m + 1].op = "backup" THEN 1 ELSE 0)
            /\ BackupsBefore(File(t), m) \in Nat
        BY <2>2, <4>1, BackupsGrow
      <4>3. Program[File(t)][m + 1] = Command(t)
        BY <4>1 DEF Command
      <4> QED
        BY <3>1, <4>1, <4>2, <4>3 DEF m
    <3>5. Counted(pc'[t], entry[t], ip'[t], nback'[t], left'[t], line'[t])
      BY <2>2, <3>1, <3>3, <3>4 DEF File, Working
    <3> HIDE DEF Counted
    <3> QED
      BY <1>1, <1>2, <2>1, <3>5
  <2>4. CASE Backup(t)
    <3>1. ip[t] <= Len(Program[File(t)]) /\ Command(t).op = "backup"
      BY <2>4 DEF Backup, At
    <3>2. Finish(t) /\ nback' = [nback EXCEPT ![t] = @ + 1]
      BY <2>4 DEF Backup
    <3>3. pc'[t] = "get" /\ ip'[t] = ip[t] + 1 /\ left'[t] = <<>> /\ line'[t] = <<>> /\ nback'[t] = nback[t] + 1
      BY <3>2 DEF Finish, TypeOK
    <3>4. BackupsBefore(File(t), ip[t]) = BackupsBefore(File(t), ip[t] - 1) + 1
      <4> DEFINE m == ip[t] - 1
      <4>1. m \in Nat /\ m + 1 = ip[t] /\ m + 1 <= Len(Program[File(t)])
        BY <2>2, <3>1
      <4> HIDE DEF m
      <4>2. BackupsBefore(File(t), m + 1) =
              BackupsBefore(File(t), m) + (IF Program[File(t)][m + 1].op = "backup" THEN 1 ELSE 0)
            /\ BackupsBefore(File(t), m) \in Nat
        BY <2>2, <4>1, BackupsGrow
      <4>3. Program[File(t)][m + 1] = Command(t)
        BY <4>1 DEF Command
      <4> QED
        BY <3>1, <4>1, <4>2, <4>3 DEF m
    <3>5. Counted(pc'[t], entry[t], ip'[t], nback'[t], left'[t], line'[t])
      BY <2>2, <3>1, <3>3, <3>4 DEF File, Working
    <3> HIDE DEF Counted
    <3> QED
      BY <1>1, <1>2, <2>1, <3>5
  <2>5. CASE WriteLock(t) \/ ReadLock(t)
    <3>1. /\ ip[t] <= Len(Program[File(t)]) /\ Command(t).op \in Working
          /\ pc' = [pc EXCEPT ![t] = Command(t).op] /\ UNCHANGED <<ip, nback>>
      BY <2>5 DEF WriteLock, ReadLock, At, Working
    <3>2. pc'[t] = Program[Directory[entry[t]]][ip[t]].op /\ ip'[t] = ip[t] /\ nback'[t] = nback[t]
      BY <3>1 DEF TypeOK, Command, File
    <3>3. Counted(pc'[t], entry[t], ip'[t], nback'[t], left'[t], line'[t])
      BY <2>1, <2>2, <3>1, <3>2 DEF File, Command
    <3> HIDE DEF Counted
    <3> QED
      BY <1>1, <1>2, <2>1, <3>3
  <2>6. CASE WritePair(t) \/ DeleteKey(t) \/ ReadKey(t) \/ ShowChain(t)
    <3>1. pc[t] \in Working /\ UNCHANGED <<pc, ip, nback>>
      BY <2>6 DEF WritePair, DeleteKey, ReadKey, ShowChain, Working
    <3>2. Counted(pc'[t], entry[t], ip'[t], nback'[t], left'[t], line'[t])
      BY <1>1, <2>1, <3>1
    <3> HIDE DEF Counted
    <3> QED
      BY <1>1, <1>2, <2>1, <3>2
  <2> QED
    BY <1>3, <2>3, <2>4, <2>5, <2>6 DEF CommandStep
<1>4. ASSUME NEW t \in Threads, LockDirectory(t) \/ ReadDirectory(t) \/ Open(t) \/ Close(t)
      PROVE  CommandsCounted'
  <2>1. /\ UNCHANGED <<left, line>>
        /\ \/ /\ pc[t] \notin {"get"} \cup Working
              /\ \/ pc' = pc
                 \/ \E p \in {"readdir", "exit", "open", "get"} : pc' = [pc EXCEPT ![t] = p]
              /\ UNCHANGED <<ip, nback>>
           \/ /\ pc[t] = "get" /\ pc' = [pc EXCEPT ![t] = "lock"]
              /\ ip' = [ip EXCEPT ![t] = 1] /\ nback' = [nback EXCEPT ![t] = 0]
    <3>1. CASE LockDirectory(t)
      BY <3>1 DEF LockDirectory, Working
    <3>2. CASE ReadDirectory(t)
      BY <3>2 DEF ReadDirectory, Working
    <3>3. CASE Open(t)
      BY <3>3 DEF Open, Working
    <3>4. CASE Close(t)
      BY <3>4 DEF Close
    <3> QED
      BY <1>4, <3>1, <3>2, <3>3, <3>4
  <2>2. /\ \A u \in Threads \ {t} : /\ pc'[u] = pc[u] /\ ip'[u] = ip[u] /\ nback'[u] = nback[u]
                                    /\ entry'[u] = entry[u]
        /\ pc'[t] \notin Working /\ ip'[t] = 1 /\ nback'[t] = 0
        /\ left'[t] = <<>> /\ line'[t] = <<>>
    <3>1. \A u \in Threads \ {t} : entry'[u] = entry[u]
      BY <1>4 DEF LockDirectory, ReadDirectory, Open, Close, TypeOK
    <3>2. pc[t] \notin Working
      BY <2>1 DEF Working
    <3>3. left[t] = <<>> /\ line[t] = <<>>
      BY <3>2 DEF CommandsCounted
    <3>4. pc'[t] \notin Working /\ \A u \in Threads \ {t} : pc'[u] = pc[u]
      BY <2>1, <3>2 DEF TypeOK, Working
    <3>5. ip'[t] = 1 /\ nback'[t] = 0 /\ \A u \in Threads \ {t} : ip'[u] = ip[u] /\ nback'[u] = nback[u]
      BY <2>1 DEF TypeOK, CommandsCounted
    <3> QED
      BY <2>1, <3>1, <3>3, <3>4, <3>5
  <2>3. pc'[t] = "get" => entry'[t] # 0 /\ entry'[t] = entry[t]
    <3>1. CASE pc[t] # "get"
      BY <1>4, <2>1, <3>1 DEF LockDirectory, ReadDirectory, Open, Close, TypeOK, EntriesHeld
    <3>2. CASE pc[t] = "get"
      BY <2>1, <3>2 DEF TypeOK
    <3> QED
      BY <3>1, <3>2
  <2>4. CASE pc'[t] = "get"
    <3>1. Directory[entry'[t]] = File(t) /\ File(t) \in JobFiles /\ Program[File(t)] \in Seq(Commands)
      BY <2>3, <2>4, AtCommand DEF File
    <3>2. BackupsBefore(File(t), 0) = 0
      <4>1. {i \in 1 .. 0 : Program[File(t)][i].op = "backup"} = {}
        OBVIOUS
      <4> QED
        BY <4>1, FS_EmptySet DEF BackupsBefore
    <3>3. 1 <= Len(Program[File(t)]) + 1
      BY <3>1
    <3>4. Counted(pc'[t], entry'[t], ip'[t], nback'[t], left'[t], line'[t])
      BY <2>2, <2>4, <3>1, <3>2, <3>3
    <3> HIDE DEF Counted
    <3> QED
      BY <1>1, <1>2, <2>1, <2>2, <3>4
  <2>5. CASE pc'[t] # "get"
    <3>1. Counted(pc'[t], entry'[t], ip'[t], nback'[t], left'[t], line'[t])
      BY <2>2, <2>5
    <3> HIDE DEF Counted
    <3> QED
      BY <1>1, <1>2, <2>1, <2>2, <3>1
  <2> QED
    BY <2>4, <2>5
<1>5. ASSUME UNCHANGED jobVars
      PROVE  CommandsCounted'
  <2> HIDE DEF Counted
  <2> QED
    BY <1>1, <1>2, <1>5 DEF jobVars
<1> QED
  BY <1>3, <1>4, <1>5 DEF Next, ThreadStep, CommandStep, ChildWrite, vars

-----------------------------------------------------------------------------
(* tablelock.                                                              *)

\* A step of a thread leaves the other threads where they are, in their batches too.
LEMMA ThreadFrame ==
  ASSUME TypeOK, NEW t \in Threads, ThreadStep(t), NEW u \in Threads \ {t}
  PROVE  /\ pc'[u] = pc[u] /\ entry'[u] = entry[u] /\ ip'[u] = ip[u]
         /\ left'[u] = left[u] /\ line'[u] = line[u]
         /\ Batch(u)' = Batch(u) /\ Through(u)' = Through(u)
<1>1. /\ pc'[u] = pc[u] /\ entry'[u] = entry[u] /\ ip'[u] = ip[u]
      /\ left'[u] = left[u] /\ line'[u] = line[u]
  <2>1. CASE CommandStep(t)
    BY <2>1, CommandFrame
  <2>2. CASE LockDirectory(t)
    BY <2>2 DEF LockDirectory, TypeOK
  <2>3. CASE ReadDirectory(t)
    BY <2>3 DEF ReadDirectory, TypeOK
  <2>4. CASE Open(t)
    BY <2>4 DEF Open, TypeOK
  <2>5. CASE Close(t)
    BY <2>5 DEF Close, TypeOK
  <2> QED
    BY <2>1, <2>2, <2>3, <2>4, <2>5 DEF ThreadStep, CommandStep
<1>2. Batch(u)' = Batch(u)
  BY <1>1 DEF Batch, Command, File
<1> QED
  BY <1>1, <1>2 DEF Through

\* A thread that is about to take an entry or a file has no batch before or after.
LEMMA FileFrame ==
  ASSUME TypeOK, NEW t \in Threads, LockDirectory(t) \/ ReadDirectory(t) \/ Open(t) \/ Close(t)
  PROVE  /\ pc[t] \notin Working /\ pc'[t] \notin Working
         /\ UNCHANGED <<kvsVars, out, bckVars>>
<1>1. CASE LockDirectory(t)
  BY <1>1 DEF LockDirectory, TypeOK, Working
<1>2. CASE ReadDirectory(t)
  BY <1>2 DEF ReadDirectory, TypeOK, Working
<1>3. CASE Open(t)
  BY <1>3 DEF Open, TypeOK, Working
<1>4. CASE Close(t)
  BY <1>4 DEF Close, TypeOK, Working
<1> QED
  BY <1>1, <1>2, <1>3, <1>4

\* The lock is with the threads at a batch, and without a writer the table is as
\* the last change left it.
LEMMA LockStep ==
  ASSUME TypeOK, LockHeld, [Next]_vars
  PROVE  LockHeld'
<1> DEFINE Ours(u, p, w, r) == /\ w = u <=> p \in {"write", "delete"}
                               /\ u \in r <=> p \in {"read", "show"}
<1>1. /\ \A u \in Threads : Ours(u, pc[u], writer, readers)
      /\ readers # {} => writer = NoThread
      /\ writer = NoThread => committed = Contents(table)
  BY DEF LockHeld
<1>2. LockHeld' <=> /\ \A u \in Threads : Ours(u, pc'[u], writer', readers')
                    /\ readers' # {} => writer' = NoThread
                    /\ writer' = NoThread => committed' = Contents(table')
  BY DEF LockHeld
<1>3. ASSUME UNCHANGED kvsVars, NEW t \in Threads,
             \A u \in Threads \ {t} : pc'[u] = pc[u],
             (pc'[t] \notin Working /\ pc[t] \notin Working) \/ pc'[t] = pc[t]
      PROVE  LockHeld'
  <2>1. Ours(t, pc'[t], writer, readers)
    BY <1>1, <1>3 DEF Working
  <2> QED
    BY <1>1, <1>2, <1>3, <2>1 DEF kvsVars
<1>4. ASSUME NEW t \in Threads, ThreadStep(t)
      PROVE  LockHeld'
  <2>1. \A u \in Threads \ {t} : pc'[u] = pc[u]
    BY <1>4, ThreadFrame
  <2>2. CASE LockDirectory(t) \/ ReadDirectory(t) \/ Open(t) \/ Close(t)
    BY <1>3, <2>1, <2>2, FileFrame
  <2>3. CASE Other(t) \/ Backup(t)
    <3>1. pc[t] = "get" /\ pc' = [pc EXCEPT ![t] = "get"] /\ UNCHANGED kvsVars
      BY <2>3 DEF Other, Backup, At, Finish
    <3> QED
      BY <1>3, <2>1, <3>1 DEF TypeOK, Working
  <2>4. CASE ReadKey(t) \/ ShowChain(t)
    BY <1>3, <2>1, <2>4 DEF ReadKey, ShowChain
  <2>5. CASE WriteLock(t)
    <3>1. /\ writer = NoThread /\ readers = {} /\ writer' = t /\ readers' = readers
          /\ pc'[t] \in {"write", "delete"}
      BY <2>5 DEF WriteLock, At, TypeOK
    <3>2. \A u \in Threads \ {t} : pc[u] \notin {"write", "delete"}
      BY <1>1, <3>1, ThreadAssumption
    <3>3. \A u \in Threads \ {t} : pc[u] \notin {"read", "show"}
      BY <1>1, <3>1
    <3> QED
      BY <1>2, <2>1, <3>1, <3>2, <3>3, ThreadAssumption
  <2>6. CASE WritePair(t) \/ DeleteKey(t)
    <3>1. /\ pc[t] \in {"write", "delete"} /\ UNCHANGED <<pc, writer, readers, committed>>
      BY <2>6 DEF WritePair, DeleteKey
    <3>2. writer = t /\ t # NoThread
      BY <1>1, <3>1, ThreadAssumption
    <3> QED
      BY <1>1, <1>2, <3>1, <3>2
  <2>7. CASE WriteUnlock(t)
    <3>1. /\ pc[t] \in {"write", "delete"} /\ writer' = NoThread /\ committed' = Contents(table)
          /\ UNCHANGED <<table, readers>> /\ pc'[t] = "get"
      BY <2>7 DEF WriteUnlock, Finish, TypeOK
    <3>2. writer = t /\ t # NoThread /\ readers = {}
      BY <1>1, <3>1, ThreadAssumption
    <3>3. \A u \in Threads : Ours(u, pc'[u], writer', readers')
      BY <1>1, <2>1, <3>1, <3>2, ThreadAssumption
    <3> QED
      BY <1>2, <3>1, <3>2, <3>3
  <2>8. CASE ReadLock(t)
    <3>1. /\ pc[t] = "get" /\ writer = NoThread /\ readers' = readers \cup {t}
          /\ pc'[t] \in {"read", "show"} /\ UNCHANGED <<table, writer, committed>>
      BY <2>8 DEF ReadLock, At, TypeOK
    <3>2. \A u \in Threads : Ours(u, pc'[u], writer', readers')
      BY <1>1, <2>1, <3>1, ThreadAssumption
    <3> QED
      BY <1>1, <1>2, <3>1, <3>2
  <2>9. CASE ReadUnlock(t)
    <3>1. /\ pc[t] \in {"read", "show"} /\ readers' = readers \ {t}
          /\ pc'[t] = "get" /\ UNCHANGED <<table, writer, committed>>
      BY <2>9 DEF ReadUnlock, Finish, TypeOK
    <3>2. \A u \in Threads : Ours(u, pc'[u], writer', readers')
      BY <1>1, <2>1, <3>1
    <3> QED
      BY <1>1, <1>2, <3>1, <3>2
  <2> QED
    BY <1>4, <2>2, <2>3, <2>4, <2>5, <2>6, <2>7, <2>8, <2>9 DEF ThreadStep
<1>5. ASSUME UNCHANGED <<jobVars, kvsVars>>
      PROVE  LockHeld'
  BY <1>1, <1>2, <1>5 DEF jobVars, kvsVars
<1> QED
  BY <1>4, <1>5 DEF Next, ChildWrite, vars

\* The copies of the table that children have.
LEMMA ImagesStep ==
  ASSUME TypeOK, ChainsSound, ImagesSound, [Next]_vars
  PROVE  ImagesSound'
<1>1. ASSUME NEW t \in Threads, Backup(t)
      PROVE  ImagesSound'
  <2>1. \A c \in children' : c \in children \/ c.image = table
    BY <1>1 DEF Backup
  <2> QED
    BY <2>1 DEF ImagesSound, ChainsSound
<1>2. ASSUME NEW c \in children, ChildWrite(c)
      PROVE  ImagesSound'
  BY <1>2 DEF ChildWrite, ImagesSound
<1>3. ASSUME UNCHANGED children
      PROVE  ImagesSound'
  BY <1>3 DEF ImagesSound
<1>4. ASSUME NEW t \in Threads, CommandStep(t), ~ Backup(t)
      PROVE  UNCHANGED children
  BY <1>4 DEF CommandStep, Other, WriteLock, WritePair, DeleteKey, WriteUnlock, ReadLock,
              ReadKey, ShowChain, ReadUnlock, bckVars
<1>5. ASSUME NEW t \in Threads, LockDirectory(t) \/ ReadDirectory(t) \/ Open(t) \/ Close(t)
      PROVE  UNCHANGED children
  BY <1>5, FileFrame DEF bckVars
<1> QED
  BY <1>1, <1>2, <1>3, <1>4, <1>5 DEF Next, ThreadStep, CommandStep, vars, bckVars

-----------------------------------------------------------------------------
(* Batches.                                                                *)

\* What is left of the batch under way is its end; a step takes its next key.
LEMMA OneKey ==
  ASSUME TypeOK, EntriesHeld, CommandsCounted, LeftInStep, NEW t \in Threads, pc[t] \in Working
  PROVE  /\ Batch(t) \in Left(t) /\ Len(Batch(t)) \in Nat /\ Len(left[t]) \in Nat
         /\ Through(t) \in 0 .. Len(Batch(t))
         /\ left[t] = <<>> => Through(t) = Len(Batch(t))
         /\ left[t] # <<>> =>
              /\ Through(t) + 1 \in 1 .. Len(Batch(t)) /\ Head(left[t]) = Batch(t)[Through(t) + 1]
              /\ Len(Tail(left[t])) \in Nat /\ Len(Batch(t)) - Len(Tail(left[t])) = Through(t) + 1
              /\ Len(Tail(left[t])) <= Len(Batch(t))
              /\ \A i \in 1 .. Len(Tail(left[t])) : Tail(left[t])[i] = Batch(t)[Through(t) + 1 + i]
<1>1. Batch(t) \in Left(t) /\ Len(Batch(t)) \in Nat
  BY BatchType
<1>2. PICK S : Left(t) = Seq(S)
  BY DEF Left
<1>3. left[t] \in Seq(S)
  BY <1>2 DEF TypeOK
<1>4. /\ Len(left[t]) <= Len(Batch(t))
      /\ \A i \in 1 .. Len(left[t]) : left[t][i] = Batch(t)[Through(t) + i]
  BY DEF LeftInStep
<1> DEFINE l == left[t]
           L == Len(left[t])
<1>5. L \in Nat /\ Through(t) \in 0 .. Len(Batch(t)) /\ Through(t) = Len(Batch(t)) - L
  BY <1>1, <1>3, <1>4 DEF Through
<1>6. l = <<>> => L = 0
  OBVIOUS
<1>7. ASSUME l # <<>>
      PROVE  /\ Through(t) + 1 \in 1 .. Len(Batch(t)) /\ Head(l) = Batch(t)[Through(t) + 1]
             /\ Len(Tail(l)) \in Nat /\ Len(Batch(t)) - Len(Tail(l)) = Through(t) + 1
             /\ Len(Tail(l)) <= Len(Batch(t))
             /\ \A i \in 1 .. Len(Tail(l)) : Tail(l)[i] = Batch(t)[Through(t) + 1 + i]
  <2>1. /\ L \in Nat \ {0} /\ Head(l) = l[1] /\ Len(Tail(l)) = L - 1
        /\ \A i \in 1 .. L - 1 : Tail(l)[i] = l[i + 1]
    BY <1>3, <1>7
  <2>2. 1 \in 1 .. L /\ \A i \in 1 .. L - 1 : i + 1 \in 1 .. L /\ Through(t) + 1 + i = Through(t) + (i + 1)
    BY <1>1, <1>5, <2>1
  <2>3. l[1] = Batch(t)[Through(t) + 1] /\ \A i \in 1 .. L - 1 : l[i + 1] = Batch(t)[Through(t) + (i + 1)]
    BY <1>4, <2>2
  <2>4. /\ Through(t) + 1 \in 1 .. Len(Batch(t)) /\ Len(Tail(l)) \in Nat
        /\ Len(Batch(t)) - Len(Tail(l)) = Through(t) + 1 /\ Len(Tail(l)) <= Len(Batch(t))
    <3> DEFINE B == Len(Batch(t))
               T == Len(Tail(l))
               n == Through(t)
    <3>1. B \in Nat /\ L \in Nat \ {0} /\ L <= B /\ n = B - L /\ T = L - 1
      BY <1>1, <1>4, <1>5, <2>1
    <3> HIDE DEF B, T, n, L, l
    <3>2. n + 1 \in 1 .. B /\ T \in Nat /\ B - T = n + 1 /\ T <= B
      BY <3>1
    <3> QED
      BY <3>2 DEF B, T, n, l
  <2> HIDE DEF l, L
  <2> QED
    BY <2>1, <2>2, <2>3, <2>4
<1>8. l = <<>> => Through(t) = Len(Batch(t))
  BY <1>1, <1>5, <1>6
<1> QED
  BY <1>1, <1>5, <1>7, <1>8

\* The steps of a batch that take a key.
KeyStep(t) == WritePair(t) \/ DeleteKey(t) \/ ReadKey(t) \/ ShowChain(t)

\* The step for a key, a pair or a chain takes it off the batch.
LEMMA KeyTaken ==
  ASSUME TypeOK, EntriesHeld, CommandsCounted, LeftInStep, NEW t \in Threads, KeyStep(t)
  PROVE  /\ pc[t] \in Working /\ pc'[t] = pc[t] /\ left[t] # <<>> /\ left'[t] = Tail(left[t])
         /\ Batch(t)' = Batch(t) /\ Through(t)' = Through(t) + 1
<1>1. /\ pc[t] \in Working /\ left[t] # <<>> /\ left' = [left EXCEPT ![t] = Tail(left[t])]
      /\ UNCHANGED <<pc, entry, ip>>
  BY DEF KeyStep, WritePair, DeleteKey, ReadKey, ShowChain, TypeOK, Working
<1>2. Batch(t)' = Batch(t)
  BY <1>1 DEF Batch, Command, File
<1>3. left'[t] = Tail(left[t])
  BY <1>1 DEF TypeOK
<1>4. Through(t)' = Len(Batch(t)) - Len(Tail(left[t]))
  BY <1>2, <1>3 DEF Through
<1> QED
  BY <1>1, <1>2, <1>3, <1>4, OneKey

\* A batch starts with everything left.
LEMMA BatchStarts ==
  ASSUME TypeOK, TypeOK', EntriesHeld', CommandsCounted', NEW t \in Threads,
         WriteLock(t) \/ ReadLock(t)
  PROVE  /\ pc[t] = "get" /\ pc'[t] \in Working /\ left'[t] = Batch(t)' /\ Through(t)' = 0
         /\ line' = line
<1> DEFINE left_t == IF Command(t).op = "show" THEN [b \in 1 .. TABLE_SIZE |-> b - 1]
                                              ELSE Command(t).batch
<1>1. /\ pc[t] = "get" /\ Command(t).op \in Working
      /\ pc' = [pc EXCEPT ![t] = Command(t).op]
      /\ left' = [left EXCEPT ![t] = left_t]
      /\ UNCHANGED <<entry, ip, line>>
  <2>1. CASE WriteLock(t)
    BY <2>1 DEF WriteLock, At, Working
  <2>2. CASE ReadLock(t)
    BY <2>2 DEF ReadLock, At, Working
  <2> QED
    BY <2>1, <2>2
<1>2. pc'[t] = Command(t).op /\ left'[t] = left_t
  BY <1>1 DEF TypeOK
<1>3. Command(t)' = Command(t)
  BY <1>1 DEF Command, File
<1>4. left'[t] = Batch(t)'
  BY <1>2, <1>3 DEF Batch
<1>5. Len(Batch(t)) ' \in Nat
  <2>1. (pc[t] \in Working)'
    BY <1>1, <1>2
  <2>2. \A u \in Threads : left'[u] \in Left(u)'
    BY DEF TypeOK
  <2>3. left'[t] \in Left(t)'
    BY <2>2
  <2> QED
    BY <1>4, <2>3 DEF Left
<1>6. Through(t)' = Len(Batch(t))' - Len(Batch(t))'
  BY <1>4 DEF Through
<1> QED
  BY <1>1, <1>2, <1>4, <1>5, <1>6

\* Every step keeps what is left of a batch a part of it.
LEMMA LeftStep ==
  ASSUME TypeOK, TypeOK', EntriesHeld, EntriesHeld', CommandsCounted, CommandsCounted',
         LeftInStep, [Next]_vars
  PROVE  LeftInStep'
<1> DEFINE Good(p, l, b, n) == p \in Working => /\ Len(l) <= Len(b)
                                               /\ \A i \in 1 .. Len(l) : l[i] = b[n + i]
<1>1. \A u \in Threads : Good(pc[u], left[u], Batch(u), Through(u))
  BY DEF LeftInStep
<1>2. LeftInStep' <=> \A u \in Threads : Good(pc'[u], left'[u], Batch(u)', Through(u)')
  BY DEF LeftInStep
<1>3. ASSUME NEW t \in Threads, ThreadStep(t)
      PROVE  LeftInStep'
  <2>1. \A u \in Threads \ {t} : Good(pc'[u], left'[u], Batch(u)', Through(u)')
    <3> HIDE DEF Good
    <3> QED
      BY <1>1, <1>3, ThreadFrame
  <2>2. Good(pc'[t], left'[t], Batch(t)', Through(t)')
    <3>1. CASE LockDirectory(t) \/ ReadDirectory(t) \/ Open(t) \/ Close(t)
      BY <3>1, FileFrame
    <3>2. CASE Other(t) \/ WriteUnlock(t) \/ ReadUnlock(t) \/ Backup(t)
      <4>1. pc'[t] = "get"
        BY <3>2 DEF Other, WriteUnlock, ReadUnlock, Backup, Finish, TypeOK
      <4> QED
        BY <4>1 DEF Working
    <3>3. CASE WriteLock(t) \/ ReadLock(t)
      <4>1. left'[t] = Batch(t)' /\ Through(t)' = 0
        BY <3>3, BatchStarts
      <4>2. \A u \in Threads : left'[u] \in Left(u)'
        BY DEF TypeOK
      <4>3. Len(left'[t]) \in Nat
        BY <4>2 DEF Left
      <4> QED
        BY <4>1, <4>3
    <3>4. CASE KeyStep(t)
      <4>1. /\ pc[t] \in Working /\ left[t] # <<>> /\ left'[t] = Tail(left[t])
            /\ Batch(t)' = Batch(t) /\ Through(t)' = Through(t) + 1
        BY <3>4, KeyTaken
      <4> QED
        BY <4>1, OneKey
    <3> QED
      BY <1>3, <3>1, <3>2, <3>3, <3>4 DEF ThreadStep, KeyStep
  <2> HIDE DEF Good
  <2> QED
    BY <1>2, <2>1, <2>2
<1>4. ASSUME UNCHANGED jobVars
      PROVE  LeftInStep'
  <2>1. UNCHANGED <<pc, left>>
    BY <1>4 DEF jobVars
  <2>2. \A t \in Threads : Batch(t)' = Batch(t) /\ Through(t)' = Through(t)
    BY <1>4 DEF Through, Batch, Command, File, jobVars
  <2> QED
    BY <2>1, <2>2 DEF LeftInStep
<1> QED
  BY <1>3, <1>4 DEF Next, ChildWrite, vars

\* Nobody changes the store while another thread is at a batch.
LEMMA StoreStill ==
  ASSUME TypeOK, LockHeld, NEW t \in Threads, ThreadStep(t), NEW u \in Threads \ {t},
         pc[u] \in Working
  PROVE  UNCHANGED <<table, committed>>
<1>1. pc[t] \notin {"write", "delete"}
  <2>1. CASE pc[u] \in {"write", "delete"}
    BY <2>1, ThreadAssumption DEF LockHeld
  <2>2. CASE pc[u] \in {"read", "show"}
    BY <2>2, ThreadAssumption DEF LockHeld
  <2> QED
    BY <2>1, <2>2 DEF Working
<1>2. CASE LockDirectory(t) \/ ReadDirectory(t) \/ Open(t) \/ Close(t)
  BY <1>2, FileFrame DEF kvsVars
<1>3. CASE Other(t) \/ WriteLock(t) \/ ReadLock(t) \/ ReadKey(t) \/ ShowChain(t) \/ ReadUnlock(t) \/ Backup(t)
  BY <1>3 DEF Other, WriteLock, ReadLock, ReadKey, ShowChain, ReadUnlock, Backup, kvsVars
<1>4. CASE WritePair(t) \/ DeleteKey(t) \/ WriteUnlock(t)
  BY <1>1, <1>4 DEF WritePair, DeleteKey, WriteUnlock
<1> QED
  BY <1>2, <1>3, <1>4 DEF ThreadStep

\* What a thread at a batch has done.
Half(p, C, T, b, n, l) ==
  /\ p = "write" => Written(C, Contents(T), b, n) /\ l = <<>>
  /\ p = "delete" => Deleted(C, Contents(T), b, n) /\ LostInLine(C, b, n, l)
  /\ p = "read" => ReadInLine(C, b, n, l)
  /\ p = "show" => ShownInLine(T, n, l)

\* At its start a batch has done nothing.
LEMMA NothingDone ==
  ASSUME NEW p, NEW T \in Table, Sound(T), NEW b
  PROVE  Half(p, Contents(T), T, b, 0, <<>>)
<1> DEFINE C == Contents(T)
<1> HIDE DEF C
<1>1. 1 .. 0 = {} /\ Len(<<>>) = 0 /\ 0 .. 0 - 1 = {}
  OBVIOUS
<1>2. Written(C, C, b, 0) /\ Deleted(C, C, b, 0)
  BY <1>1 DEF Written, Deleted
<1>3. LostInLine(C, b, 0, <<>>)
  <2>1. Lost(C, b, 0) = {}
    BY <1>1 DEF Lost
  <2> DEFINE lost == [i \in 1 .. 0 |-> 0]
  <2>2. lost \in [1 .. Len(<<>>) -> Lost(C, b, 0)] /\ DOMAIN lost = {}
    BY <1>1, <2>1
  <2> HIDE DEF lost
  <2> QED
    BY <2>1, <2>2 DEF LostInLine
<1>4. ReadInLine(C, b, 0, <<>>) /\ ShownInLine(T, 0, <<>>)
  BY <1>1 DEF ReadInLine, ShownInLine
<1> QED
  BY <1>2, <1>3, <1>4 DEF Half, C

\* Each key or pair of a batch does its part.
LEMMA OneMoreDone ==
  ASSUME TypeOK, ChainsSound, EntriesHeld, CommandsCounted, LockHeld, LeftInStep, HalfDone,
         NEW t \in Threads, KeyStep(t)
  PROVE  Half(pc[t], committed, table', Batch(t), Through(t) + 1, line'[t]) /\ committed' = committed
<1> DEFINE b == Batch(t)
           n == Through(t)
<1>1. /\ pc[t] \in Working /\ b \in Left(t) /\ n \in Nat
      /\ n + 1 \in 1 .. Len(b) /\ Head(left[t]) = b[n + 1]
  BY KeyTaken, OneKey
<1>2. Half(pc[t], committed, table, b, n, line[t])
  BY DEF HalfDone, Half
<1>3. /\ table \in Table /\ Sound(table) /\ line[t] \in Lines
      /\ Contents(table) \in [Keys -> Values \cup {Missing}] /\ DOMAIN Contents(table) = Keys
  BY ContentsType DEF TypeOK, ChainsSound
<1>4. \A k \in Keys : Contents(table)[k] = read_pair(table, k)
  BY DEF Contents
<1> HIDE DEF b, n
<1>5. CASE WritePair(t)
  <2>1. pc[t] = "write" /\ line' = line /\ committed' = committed
    BY <1>5 DEF WritePair
  <2>2. b \in Seq(Keys \X Values)
    BY <1>1, <2>1 DEF Left
  <2>3. b[n + 1] \in Keys \X Values
    BY <1>1, <2>2
  <2> DEFINE k == b[n + 1][1]
             v == b[n + 1][2]
  <2>4. k \in Keys /\ v \in Values
    BY <2>3
  <2>5. table' = IF read_pair(table, k) = v THEN table ELSE write_pair(table, k, v)
    BY <1>1, <1>5 DEF WritePair
  <2>6. Contents(table') = [Contents(table) EXCEPT ![k] = v]
    <3> HIDE DEF k, v
    <3>1. CASE read_pair(table, k) = v
      BY <1>3, <1>4, <2>4, <2>5, <3>1
    <3>2. CASE read_pair(table, k) # v
      BY <1>3, <2>4, <2>5, <3>2, WriteWrites
    <3> QED
      BY <3>1, <3>2
  <2>7. Written(committed, Contents(table'), b, n + 1)
    <3>1. Written(committed, Contents(table), b, n)
      BY <1>2, <2>1 DEF Half
    <3> DEFINE to == Contents(table)
    <3>2. DOMAIN to = Keys /\ Written(committed, to, b, n)
      BY <1>3, <3>1
    <3> HIDE DEF to
    <3>3. Written(committed, [to EXCEPT ![b[n + 1][1]] = b[n + 1][2]], b, n + 1)
      BY <1>1, <2>3, <3>2, WriteOneMore
    <3> QED
      BY <2>6, <3>3 DEF to
  <2>8. line'[t] = <<>>
    BY <1>2, <2>1 DEF Half
  <2> QED
    BY <2>1, <2>7, <2>8 DEF Half, b, n
<1>6. CASE DeleteKey(t)
  <2> DEFINE k == b[n + 1]
  <2>1. pc[t] = "delete" /\ committed' = committed /\ table' = delete_pair(table, k)
    BY <1>1, <1>6 DEF DeleteKey
  <2>2. b \in Seq(Keys)
    BY <1>1, <2>1 DEF Left
  <2>3. k \in Keys
    BY <1>1, <2>2
  <2>4. line'[t] = IF read_pair(table, k) = Missing THEN Append(line[t], <<k, Missing>>) ELSE line[t]
    BY <1>1, <1>6 DEF DeleteKey, TypeOK
  <2>5. Contents(table') = [Contents(table) EXCEPT ![k] = Missing]
    BY <1>3, <2>1, <2>3, DeleteDeletes
  <2>6. Deleted(committed, Contents(table), b, n) /\ LostInLine(committed, b, n, line[t])
    BY <1>2, <2>1 DEF Half
  <2>7. Deleted(committed, Contents(table'), b, n + 1)
    <3> DEFINE to == Contents(table)
    <3>1. DOMAIN to = Keys /\ Deleted(committed, to, b, n)
      BY <1>3, <2>6
    <3> HIDE DEF to
    <3>2. Deleted(committed, [to EXCEPT ![b[n + 1]] = Missing], b, n + 1)
      BY <1>1, <2>3, <3>1, DeleteOneMore
    <3> QED
      BY <2>5, <3>2 DEF to
  <2>8. LostInLine(committed, b, n + 1, line'[t])
    BY <1>1, <1>3, <1>4, <2>3, <2>4, <2>6, LineOneMore
  <2> QED
    BY <2>1, <2>7, <2>8 DEF Half, b, n
<1>7. CASE ReadKey(t)
  <2> DEFINE k == b[n + 1]
  <2>1. pc[t] = "read" /\ UNCHANGED <<table, committed>>
    BY <1>7 DEF ReadKey, kvsVars
  <2>2. b \in Seq(Keys)
    BY <1>1, <2>1 DEF Left
  <2>3. k \in Keys
    BY <1>1, <2>2
  <2>4. line'[t] = Append(line[t], <<k, read_pair(table, k)>>)
    BY <1>1, <1>7 DEF ReadKey, TypeOK
  <2>5. committed = Contents(table)
    BY <2>1 DEF LockHeld
  <2>6. ReadInLine(committed, b, n + 1, line'[t])
    <3>1. read_pair(table, k) = committed[k] /\ committed[k] \in Values \cup {Missing}
      BY <1>3, <1>4, <2>3, <2>5
    <3>2. ReadInLine(committed, b, n, line[t])
      BY <1>2, <2>1 DEF Half
    <3> QED
      BY <1>1, <1>3, <2>3, <2>4, <3>1, <3>2, ReadOneMore
  <2> QED
    BY <2>1, <2>6 DEF Half, b, n
<1>8. CASE ShowChain(t)
  <2>1. pc[t] = "show" /\ UNCHANGED <<table, committed>>
    BY <1>8 DEF ShowChain, kvsVars
  <2>2. b[n + 1] = n /\ n \in Buckets
    <3>1. b = [c \in 1 .. TABLE_SIZE |-> c - 1]
      BY <2>1 DEF Batch, b
    <3>2. n + 1 \in 1 .. TABLE_SIZE
      BY <1>1, <3>1, TableAssumption
    <3> QED
      BY <1>1, <3>1, <3>2, TableAssumption DEF Buckets
  <2>3. line'[t] = line[t] \o table[n]
    BY <1>1, <1>8, <2>2 DEF ShowChain, TypeOK
  <2>4. ShownInLine(table, n, line[t])
    BY <1>2, <2>1 DEF Half
  <2>5. ShownInLine(table, n + 1, line'[t])
    BY <1>1, <1>3, <2>2, <2>3, <2>4, ShowOneMore
  <2> QED
    BY <2>1, <2>5 DEF Half, b, n
<1> QED
  BY <1>5, <1>6, <1>7, <1>8 DEF KeyStep, b, n

\* Every step keeps what the batches under way have done.
LEMMA HalfStep ==
  ASSUME IInv, TypeOK', EntriesHeld', CommandsCounted', [Next]_vars
  PROVE  HalfDone'
<1>0. /\ TypeOK /\ ChainsSound /\ EntriesHeld /\ CommandsCounted
      /\ LockHeld /\ LeftInStep /\ HalfDone
  BY DEF IInv
<1>1. \A u \in Threads : Half(pc[u], committed, table, Batch(u), Through(u), line[u])
  BY <1>0 DEF HalfDone, Half
<1>2. HalfDone' <=> \A u \in Threads : Half(pc'[u], committed', table', Batch(u)', Through(u)', line'[u])
  BY DEF HalfDone, Half
<1>3. \A p, C, T, b, n, l : p \notin Working => Half(p, C, T, b, n, l)
  BY DEF Half, Working
<1>4. ASSUME NEW t \in Threads, ThreadStep(t)
      PROVE  HalfDone'
  <2>1. \A u \in Threads \ {t} : Half(pc'[u], committed', table', Batch(u)', Through(u)', line'[u])
    <3> SUFFICES ASSUME NEW u \in Threads \ {t}
                 PROVE  Half(pc'[u], committed', table', Batch(u)', Through(u)', line'[u])
      OBVIOUS
    <3>1. /\ pc'[u] = pc[u] /\ line'[u] = line[u]
          /\ Batch(u)' = Batch(u) /\ Through(u)' = Through(u)
      BY <1>0, <1>4, ThreadFrame
    <3>2. CASE pc[u] \in Working
      <4>1. UNCHANGED <<table, committed>>
        BY <1>0, <1>4, <3>2, StoreStill
      <4> QED
        BY <1>1, <3>1, <4>1
    <3>3. CASE pc[u] \notin Working
      BY <1>3, <3>1, <3>3
    <3> QED
      BY <3>2, <3>3
  <2>2. Half(pc'[t], committed', table', Batch(t)', Through(t)', line'[t])
    <3>1. CASE LockDirectory(t) \/ ReadDirectory(t) \/ Open(t) \/ Close(t)
      BY <1>0, <1>3, <3>1, FileFrame
    <3>2. CASE Other(t) \/ WriteUnlock(t) \/ ReadUnlock(t) \/ Backup(t)
      <4>1. pc'[t] = "get"
        BY <1>0, <3>2 DEF Other, WriteUnlock, ReadUnlock, Backup, Finish, TypeOK
      <4> QED
        BY <1>3, <4>1 DEF Working
    <3>3. CASE WriteLock(t) \/ ReadLock(t)
      <4>1. pc[t] = "get" /\ Through(t)' = 0 /\ line' = line
        BY <1>0, <3>3, BatchStarts
      <4>2. writer = NoThread /\ UNCHANGED <<table, committed>>
        BY <3>3 DEF WriteLock, ReadLock
      <4>3. committed = Contents(table) /\ line[t] = <<>>
        BY <1>0, <4>1, <4>2 DEF LockHeld, CommandsCounted, Working
      <4> QED
        BY <1>0, <4>1, <4>2, <4>3, NothingDone DEF TypeOK, ChainsSound
    <3>4. CASE KeyStep(t)
      BY <1>0, <3>4, KeyTaken, OneMoreDone
    <3> QED
      BY <1>4, <3>1, <3>2, <3>3, <3>4 DEF ThreadStep, KeyStep
  <2> QED
    BY <1>2, <2>1, <2>2
<1>5. ASSUME UNCHANGED <<jobVars, kvsVars>>
      PROVE  HalfDone'
  <2>1. \A u \in Threads : Batch(u)' = Batch(u) /\ Through(u)' = Through(u)
    BY <1>5 DEF Batch, Through, Command, File, jobVars
  <2> QED
    BY <1>1, <1>2, <1>5, <2>1 DEF jobVars, kvsVars
<1> QED
  BY <1>4, <1>5 DEF Next, ChildWrite, vars

-----------------------------------------------------------------------------
(* The invariant.                                                          *)

\* The invariant holds at first.
LEMMA Initially == Init => IInv
<1> SUFFICES ASSUME Init
             PROVE  IInv
  OBVIOUS
<1>1. TypeOK
  BY InitTypes
<1>2. ChainsSound
  BY ContentsEmpty DEF Init, ChainsSound
<1>3. \A t \in Threads : pc[t] = "lock" /\ left[t] = <<>> /\ line[t] = <<>>
                         /\ entry[t] = 0 /\ ip[t] = 1 /\ nback[t] = 0
  BY DEF Init
<1>4. EntriesHeld
  BY <1>3, ThreadAssumption DEF Init, EntriesHeld, Working
<1>5. CommandsCounted
  BY <1>3 DEF CommandsCounted, Working
<1>6. LockHeld
  BY <1>3, ThreadAssumption DEF Init, LockHeld
<1>7. LeftInStep
  BY <1>3 DEF LeftInStep, Working
<1>8. HalfDone
  BY <1>3 DEF HalfDone
<1>9. ImagesSound
  BY DEF Init, ImagesSound
<1> QED
  BY <1>1, <1>2, <1>4, <1>5, <1>6, <1>7, <1>8, <1>9 DEF IInv

\* A step keeps the types and the chains.
LEMMA TypeStep ==
  ASSUME IInv, [Next]_vars
  PROVE  TypeOK' /\ ChainsSound'
<1>0. TypeOK /\ ChainsSound /\ EntriesHeld /\ CommandsCounted
  BY DEF IInv
<1>1. ASSUME NEW t \in Threads, WritePair(t) \/ DeleteKey(t)
      PROVE  TypeOK' /\ ChainsSound'
  BY <1>0, <1>1, ChangeTypes
<1>2. ASSUME UNCHANGED table
      PROVE  ChainsSound'
  BY <1>0, <1>2 DEF ChainsSound
<1>3. ASSUME NEW t \in Threads, LockDirectory(t) \/ ReadDirectory(t) \/ Open(t) \/ Close(t)
      PROVE  TypeOK' /\ ChainsSound'
  BY <1>0, <1>2, <1>3, FileTypes, FileFrame DEF kvsVars
<1>4. ASSUME NEW t \in Threads, WriteLock(t) \/ ReadLock(t)
      PROVE  TypeOK' /\ ChainsSound'
  <2>1. UNCHANGED table
    BY <1>4 DEF WriteLock, ReadLock
  <2> QED
    BY <1>0, <1>2, <1>4, <2>1, LockTypes
<1>5. ASSUME NEW t \in Threads, ReadKey(t) \/ ShowChain(t)
      PROVE  TypeOK' /\ ChainsSound'
  <2>1. UNCHANGED table
    BY <1>5 DEF ReadKey, ShowChain, kvsVars
  <2> QED
    BY <1>0, <1>2, <1>5, <2>1, LookTypes
<1>6. ASSUME NEW t \in Threads, WriteUnlock(t) \/ ReadUnlock(t) \/ Other(t)
      PROVE  TypeOK' /\ ChainsSound'
  <2>1. UNCHANGED table
    BY <1>6 DEF WriteUnlock, ReadUnlock, Other, kvsVars
  <2> QED
    BY <1>0, <1>2, <1>6, <2>1, UnlockTypes
<1>7. ASSUME NEW t \in Threads, Backup(t)
      PROVE  TypeOK' /\ ChainsSound'
  <2>1. UNCHANGED table
    BY <1>7 DEF Backup, kvsVars
  <2> QED
    BY <1>0, <1>2, <1>7, <2>1, BackupTypes
<1>8. ASSUME NEW c \in children, ChildWrite(c)
      PROVE  TypeOK' /\ ChainsSound'
  <2>1. UNCHANGED table
    BY <1>8 DEF ChildWrite, kvsVars
  <2> QED
    BY <1>0, <1>2, <1>8, <2>1, ChildTypes
<1>9. ASSUME UNCHANGED vars
      PROVE  TypeOK' /\ ChainsSound'
  <2>1. UNCHANGED <<dirVars, jobVars, kvsVars, out, bckVars>>
    BY <1>9 DEF vars
  <2>2. \A u \in Threads : left'[u] \in Left(u)'
    BY <1>0, <2>1 DEF TypeOK, Left, jobVars
  <2>3. TypeOK'
    BY <1>0, <2>1, <2>2 DEF TypeOK, dirVars, jobVars, kvsVars, bckVars
  <2> QED
    BY <1>2, <2>1, <2>3 DEF kvsVars
<1> QED
  BY <1>1, <1>3, <1>4, <1>5, <1>6, <1>7, <1>8, <1>9 DEF Next, ThreadStep

\* Every step keeps the invariant.
LEMMA Inductive ==
  ASSUME IInv, [Next]_vars
  PROVE  IInv'
<1>1. /\ TypeOK /\ ChainsSound /\ EntriesHeld /\ CommandsCounted
      /\ LockHeld /\ LeftInStep /\ HalfDone /\ ImagesSound
  BY DEF IInv
<1>2. TypeOK' /\ ChainsSound'
  BY TypeStep
<1>3. EntriesHeld'
  BY <1>1, <1>2, EntriesStep
<1>4. CommandsCounted'
  BY <1>1, CountedStep
<1>5. LockHeld'
  BY <1>1, LockStep
<1>6. LeftInStep'
  BY <1>1, <1>2, <1>3, <1>4, LeftStep
<1>7. HalfDone'
  BY <1>2, <1>3, <1>4, HalfStep
<1>8. ImagesSound'
  BY <1>1, ImagesStep
<1> QED
  BY <1>2, <1>3, <1>4, <1>5, <1>6, <1>7, <1>8 DEF IInv

\* IInv always holds: who has which entry and which lock, and what each batch under
\* way has made of the store that it found.
THEOREM Invariance == Spec => []IInv
<1>1. Init => IInv
  BY Initially
<1>2. IInv /\ [Next]_vars => IInv'
  BY Inductive
<1> QED
  BY <1>1, <1>2, PTL DEF Spec

\* Every variable of the job threads and the store keeps its type, for any number
\* of threads, any directory, any programs and any hash (main.c, operations.c, kvs.c).
THEOREM TypeCorrect == Spec => []TypeOK
<1>1. IInv => TypeOK
  BY DEF IInv
<1> QED
  BY <1>1, Invariance, PTL

\* A chain of the table holds each of its keys once, and only keys with its hash:
\* write_pair updates a key that exists, and delete_pair leaves none behind.
THEOREM ChainsTheorem == Spec => []ChainsSound
<1>1. IInv => ChainsSound
  BY DEF IInv
<1> QED
  BY <1>1, Invariance, PTL
=============================================================================
