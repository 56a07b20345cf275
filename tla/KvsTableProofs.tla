---------------------------- MODULE KvsTableProofs ----------------------------
(***************************************************************************)
(* What the operators of KvsTable do to the map that a table stands for,   *)
(* for any number of chains, any keys and any table with sound chains.     *)
(***************************************************************************)
EXTENDS KvsTable, NaturalsInduction, WellFoundedInduction, SequenceTheorems, TLAPS

-----------------------------------------------------------------------------
(* Searching a chain.                                                      *)

\* A set of natural numbers that is not empty has a least member.
LEMMA LeastMember ==
  ASSUME NEW P \in SUBSET Nat, P # {}
  PROVE  Min(P) \in P /\ \A j \in P : Min(P) <= j
<1>1. PICK i \in P : \A j \in P : ~ (<<j, i>> \in OpToRel(<, Nat))
  BY NatLessThanWellFounded, WFMin
<1>2. ASSUME NEW j \in P
      PROVE  i <= j
  <2>1. <<j, i>> \in Nat \X Nat /\ ~ (<<j, i>> \in {p \in Nat \X Nat : p[1] < p[2]})
    BY <1>1 DEF OpToRel
  <2>2. ~ (j < i)
    BY <2>1
  <2> QED
    BY <2>2
<1> QED
  BY <1>2 DEF Min

\* The search stops at a node of the key if there is one, and gives 0 if there is none.
LEMMA PlaceFinds ==
  ASSUME NEW chain, Len(chain) \in Nat, NEW k
  PROVE  /\ Place(chain, k) \in 0 .. Len(chain)
         /\ Place(chain, k) = 0 <=> \A i \in 1 .. Len(chain) : chain[i][1] # k
         /\ Place(chain, k) # 0 => chain[Place(chain, k)][1] = k
<1> DEFINE P == {i \in 1 .. Len(chain) : chain[i][1] = k}
<1>1. Place(chain, k) = IF P # {} THEN Min(P) ELSE 0
  BY DEF Place, SelectInSeq
<1>2. CASE P = {}
  BY <1>1, <1>2
<1>3. CASE P # {}
  <2>1. Min(P) \in P
    <3>1. P \in SUBSET Nat
      OBVIOUS
    <3> HIDE DEF P
    <3> QED
      BY <1>3, <3>1, LeastMember
  <2> QED
    BY <1>1, <1>3, <2>1
<1> QED
  BY <1>2, <1>3

\* When all nodes of a key have the same value, the search finds that value.
LEMMA AsMapFinds ==
  ASSUME NEW chain \in Seq(Node), NEW k \in Keys,
         \A i, j \in 1 .. Len(chain) : chain[i][1] = k /\ chain[j][1] = k => chain[i] = chain[j]
  PROVE  /\ \A i \in 1 .. Len(chain) : chain[i][1] = k => AsMap(chain)[k] = chain[i][2]
         /\ (\A i \in 1 .. Len(chain) : chain[i][1] # k) => AsMap(chain)[k] = Missing
<1> DEFINE p == Place(chain, k)
<1>1. Len(chain) \in Nat
  OBVIOUS
<1>2. AsMap(chain)[k] = IF p = 0 THEN Missing ELSE chain[p][2]
  BY DEF AsMap
<1>3. /\ p \in 0 .. Len(chain)
      /\ p = 0 <=> \A i \in 1 .. Len(chain) : chain[i][1] # k
      /\ p # 0 => chain[p][1] = k
  BY <1>1, PlaceFinds
<1> HIDE DEF p
<1>4. ASSUME NEW i \in 1 .. Len(chain), chain[i][1] = k
      PROVE  AsMap(chain)[k] = chain[i][2]
  <2>1. p \in 1 .. Len(chain) /\ chain[p][1] = k
    BY <1>1, <1>3, <1>4
  <2>2. chain[p] = chain[i]
    BY <1>4, <2>1
  <2> QED
    BY <1>2, <2>1, <2>2
<1> QED
  BY <1>2, <1>3, <1>4

\* read_pair in a sound table: the value of the key's node, or Missing.
LEMMA ReadFinds ==
  ASSUME NEW T \in Table, Sound(T), NEW k \in Keys
  PROVE  /\ \A i \in 1 .. Len(T[Hash[k]]) :
              T[Hash[k]][i][1] = k => read_pair(T, k) = T[Hash[k]][i][2]
         /\ (\A i \in 1 .. Len(T[Hash[k]]) : T[Hash[k]][i][1] # k) => read_pair(T, k) = Missing
         /\ read_pair(T, k) \in Values \cup {Missing}
<1> DEFINE c == T[Hash[k]]
<1>1. Hash[k] \in Buckets /\ c \in Seq(Node)
  BY HashAssumption DEF Table
<1>2. read_pair(T, k) = AsMap(c)[k]
  BY DEF read_pair, AsMap
<1>3. \A i, j \in 1 .. Len(c) : c[i][1] = k /\ c[j][1] = k => c[i] = c[j]
  BY <1>1 DEF Sound
<1>4. \A i \in 1 .. Len(c) : c[i][2] \in Values
  BY <1>1 DEF Node
<1> HIDE DEF c
<1>5. /\ \A i \in 1 .. Len(c) : c[i][1] = k => read_pair(T, k) = c[i][2]
      /\ (\A i \in 1 .. Len(c) : c[i][1] # k) => read_pair(T, k) = Missing
  BY <1>1, <1>2, <1>3, AsMapFinds
<1>6. read_pair(T, k) \in Values \cup {Missing}
  BY <1>4, <1>5
<1> QED
  BY <1>5, <1>6 DEF c

\* The map of a sound table gives every key a value or Missing.
LEMMA ContentsType ==
  ASSUME NEW T \in Table, Sound(T)
  PROVE  Contents(T) \in [Keys -> Values \cup {Missing}]
  BY ReadFinds DEF Contents

\* The map of the empty table has no key.
LEMMA ContentsEmpty ==
  /\ EmptyTable \in Table /\ Sound(EmptyTable)
  /\ Contents(EmptyTable) = [k \in Keys |-> Missing]
<1>1. EmptyTable \in Table /\ Sound(EmptyTable)
  BY DEF EmptyTable, Table, Sound
<1>2. \A k \in Keys : Hash[k] \in Buckets /\ EmptyTable[Hash[k]] = <<>>
  BY HashAssumption DEF EmptyTable
<1>3. \A k \in Keys : read_pair(EmptyTable, k) = Missing
  BY <1>1, <1>2, ReadFinds
<1> QED
  BY <1>1, <1>3 DEF Contents

-----------------------------------------------------------------------------
(* Changes.                                                                *)

\* A change of one chain changes the map at the keys of that chain only.
LEMMA OtherChains ==
  ASSUME NEW T \in Table, Sound(T), NEW b \in Buckets, NEW U \in Table,
         \A d \in Buckets \ {b} : U[d] = T[d],
         \A i \in 1 .. Len(U[b]) : Hash[U[b][i][1]] = b,
         \A i, j \in 1 .. Len(U[b]) : U[b][i][1] = U[b][j][1] => i = j
  PROVE  /\ Sound(U)
         /\ \A l \in Keys : Hash[l] # b => read_pair(U, l) = read_pair(T, l)
<1>1. Sound(U)
  <2> SUFFICES ASSUME NEW d \in Buckets
               PROVE  /\ \A i \in DOMAIN U[d] : Hash[U[d][i][1]] = d
                      /\ \A i, j \in DOMAIN U[d] : U[d][i][1] = U[d][j][1] => i = j
    BY DEF Sound
  <2>1. CASE d = b
    <3>1. DOMAIN U[b] = 1 .. Len(U[b])
      BY DEF Table
    <3> QED
      BY <2>1, <3>1
  <2>2. CASE d # b
    BY <2>2 DEF Sound
  <2> QED
    BY <2>1, <2>2
<1>2. ASSUME NEW l \in Keys, Hash[l] # b
      PROVE  read_pair(U, l) = read_pair(T, l)
  <2>1. U[Hash[l]] = T[Hash[l]]
    BY <1>2, HashAssumption
  <2> QED
    BY <2>1 DEF read_pair
<1> QED
  BY <1>1, <1>2

\* write_pair keeps a table sound and changes the map at one key.
LEMMA WriteWrites ==
  ASSUME NEW T \in Table, Sound(T), NEW k \in Keys, NEW v \in Values
  PROVE  /\ write_pair(T, k, v) \in Table /\ Sound(write_pair(T, k, v))
         /\ Contents(write_pair(T, k, v)) = [Contents(T) EXCEPT ![k] = v]
<1> DEFINE b == Hash[k]
           c == T[b]
           p == Place(c, k)
           d == IF p = 0 THEN <<<<k, v>>>> \o c ELSE [c EXCEPT ![p] = <<k, v>>]
           U == write_pair(T, k, v)
<1>1. b \in Buckets /\ c \in Seq(Node) /\ Len(c) \in Nat
  BY HashAssumption DEF Table
<1>2. /\ p \in 0 .. Len(c)
      /\ p = 0 <=> \A i \in 1 .. Len(c) : c[i][1] # k
      /\ p # 0 => c[p][1] = k
  <2> HIDE DEF c
  <2> QED
    BY <1>1, PlaceFinds
<1>3. U = [T EXCEPT ![b] = d]
  BY <1>1 DEF write_pair, Table
<1>4. /\ \A i \in 1 .. Len(c) : Hash[c[i][1]] = b
      /\ \A i, j \in 1 .. Len(c) : c[i][1] = c[j][1] => i = j
  BY <1>1 DEF Sound
<1>5. /\ d \in Seq(Node)
      /\ \A i \in 1 .. Len(d) : Hash[d[i][1]] = b
      /\ \A i, j \in 1 .. Len(d) : d[i][1] = d[j][1] => i = j
      /\ \E i \in 1 .. Len(d) : d[i] = <<k, v>>
      /\ \A i \in 1 .. Len(d) : d[i][1] # k => \E j \in 1 .. Len(c) : c[j] = d[i]
      /\ \A j \in 1 .. Len(c) : c[j][1] # k => \E i \in 1 .. Len(d) : c[j] = d[i]
  <2>1. <<k, v>> \in Node
    BY DEF Node
  <2>2. CASE p = 0
    <3>1. d = <<<<k, v>>>> \o c
      BY <2>2
    <3>2. <<<<k, v>>>> \in Seq(Node) /\ Len(<<<<k, v>>>>) = 1 /\ <<<<k, v>>>>[1] = <<k, v>>
      BY <2>1
    <3> HIDE DEF c, p, d
    <3>3. /\ d \in Seq(Node) /\ Len(d) = Len(c) + 1 /\ d[1] = <<k, v>>
          /\ \A i \in 2 .. Len(d) : d[i] = c[i - 1]
      BY <1>1, <3>1, <3>2, ConcatProperties
    <3>4. \A j \in 1 .. Len(c) : c[j] = d[j + 1] /\ j + 1 \in 1 .. Len(d)
      BY <1>1, <3>3
    <3>5. \A i \in 2 .. Len(d) : i - 1 \in 1 .. Len(c) /\ d[i][1] # k
      <4>1. \A i \in 1 .. Len(c) : c[i][1] # k
        BY <1>2, <2>2
      <4>2. \A i \in 2 .. Len(d) : i - 1 \in 1 .. Len(c) /\ d[i] = c[i - 1]
        BY <1>1, <3>3
      <4> QED
        BY <4>1, <4>2
    <3>6. \A i \in 1 .. Len(d) : Hash[d[i][1]] = b
      <4>1. Hash[d[1][1]] = b
        BY <3>3
      <4>2. \A i \in 2 .. Len(d) : Hash[d[i][1]] = b
        BY <1>4, <3>3, <3>5
      <4>3. \A i \in 1 .. Len(d) : i = 1 \/ i \in 2 .. Len(d)
        BY <1>1, <3>3
      <4> QED
        BY <4>1, <4>2, <4>3
    <3>7. ASSUME NEW i \in 1 .. Len(d), NEW j \in 1 .. Len(d), d[i][1] = d[j][1]
          PROVE  i = j
      <4>1. d[1][1] = k
        BY <3>3
      <4>2. CASE i = 1 \/ j = 1
        BY <1>1, <3>3, <3>5, <3>7, <4>1, <4>2
      <4>3. CASE i \in 2 .. Len(d) /\ j \in 2 .. Len(d)
        <5>1. c[i - 1][1] = c[j - 1][1] /\ i - 1 \in 1 .. Len(c) /\ j - 1 \in 1 .. Len(c)
          BY <3>3, <3>5, <3>7, <4>3
        <5>2. i - 1 = j - 1
          BY <1>4, <5>1
        <5> QED
          BY <5>2
      <4> QED
        BY <1>1, <3>3, <4>2, <4>3
    <3>8. \A i \in 1 .. Len(d) : d[i][1] # k => \E j \in 1 .. Len(c) : c[j] = d[i]
      BY <1>1, <3>3, <3>5
    <3>9. 1 \in 1 .. Len(d)
      BY <1>1, <3>3
    <3> QED
      BY <3>3, <3>4, <3>6, <3>7, <3>8, <3>9
  <2>3. CASE p # 0
    <3>1. d = [c EXCEPT ![p] = <<k, v>>]
      BY <2>3
    <3> HIDE DEF c, p, d
    <3>2. p \in 1 .. Len(c)
      BY <1>1, <1>2, <2>3
    <3>3. /\ d \in Seq(Node) /\ Len(d) = Len(c) /\ d[p] = <<k, v>>
          /\ \A i \in 1 .. Len(c) : i # p => d[i] = c[i]
      BY <1>1, <2>1, <3>1, <3>2, ExceptSeq
    <3>4. \A i \in 1 .. Len(c) : d[i][1] = c[i][1]
      BY <1>2, <2>3, <3>3
    <3> QED
      BY <1>1, <1>2, <1>4, <2>3, <3>2, <3>3, <3>4
  <2> QED
    BY <2>2, <2>3
<1> HIDE DEF c, p, d, U
<1>6. /\ U \in Table /\ Sound(U) /\ U[b] = d
      /\ \A l \in Keys : Hash[l] # b => read_pair(U, l) = read_pair(T, l)
  <2> HIDE DEF b
  <2>1. U \in Table /\ U[b] = d /\ \A e \in Buckets \ {b} : U[e] = T[e]
    BY <1>1, <1>3, <1>5 DEF Table
  <2>2. /\ \A i \in 1 .. Len(d) : Hash[d[i][1]] = b
        /\ \A i, j \in 1 .. Len(d) : d[i][1] = d[j][1] => i = j
    BY <1>5
  <2> QED
    BY <1>1, <2>1, <2>2, OtherChains
<1>7. read_pair(U, k) = v
  BY <1>5, <1>6, ReadFinds
<1>8. ASSUME NEW l \in Keys, l # k
      PROVE  read_pair(U, l) = read_pair(T, l)
  <2>1. CASE Hash[l] = b
    <3>1. /\ \A i \in 1 .. Len(c) : c[i][1] = l => read_pair(T, l) = c[i][2]
          /\ (\A i \in 1 .. Len(c) : c[i][1] # l) => read_pair(T, l) = Missing
      BY <2>1, ReadFinds DEF c
    <3>2. /\ \A i \in 1 .. Len(d) : d[i][1] = l => read_pair(U, l) = d[i][2]
          /\ (\A i \in 1 .. Len(d) : d[i][1] # l) => read_pair(U, l) = Missing
      BY <1>6, <2>1, ReadFinds
    <3>3. CASE \E i \in 1 .. Len(d) : d[i][1] = l
      BY <1>5, <1>8, <3>1, <3>2, <3>3
    <3>4. CASE ~ \E i \in 1 .. Len(d) : d[i][1] = l
      BY <1>5, <1>8, <3>1, <3>2, <3>4
    <3> QED
      BY <3>3, <3>4
  <2>2. CASE Hash[l] # b
    BY <1>6, <2>2
  <2> QED
    BY <2>1, <2>2
<1>9. Contents(U) = [Contents(T) EXCEPT ![k] = v]
  BY <1>7, <1>8 DEF Contents
<1> QED
  BY <1>6, <1>9 DEF U

\* RemoveAt moves what is behind a node one place forward.
LEMMA RemoveAtShifts ==
  ASSUME NEW S, NEW c \in Seq(S), NEW p \in 1 .. Len(c)
  PROVE  /\ RemoveAt(c, p) \in Seq(S) /\ Len(RemoveAt(c, p)) = Len(c) - 1
         /\ \A i \in 1 .. Len(c) - 1 : RemoveAt(c, p)[i] = IF i < p THEN c[i] ELSE c[i + 1]
<1> DEFINE s == SubSeq(c, 1, p - 1)
           t == SubSeq(c, p + 1, Len(c))
<1>1. Len(c) \in Nat /\ p \in Nat /\ p <= Len(c) /\ 1 <= p
  OBVIOUS
<1>2. /\ s \in Seq(S) /\ Len(s) = p - 1
      /\ \A i \in 1 .. p - 1 : s[i] = c[i]
  <2>1. \A i \in 1 .. p - 1 : c[i] \in S
    OBVIOUS
  <2> QED
    BY <1>1, <2>1, SubSeqProperties
<1>3. /\ t \in Seq(S) /\ Len(t) = Len(c) - p
      /\ \A i \in 1 .. Len(c) - p : t[i] = c[p + i]
  <2>1. \A i \in p + 1 .. Len(c) : c[i] \in S
    OBVIOUS
  <2> QED
    BY <1>1, <2>1, SubSeqProperties
<1> HIDE DEF s, t
<1>4. /\ s \o t \in Seq(S) /\ Len(s \o t) = Len(c) - 1
      /\ \A i \in 1 .. Len(c) - 1 : (s \o t)[i] = IF i <= p - 1 THEN s[i] ELSE t[i - (p - 1)]
  <2>1. Len(s) + Len(t) = Len(c) - 1
    BY <1>1, <1>2, <1>3
  <2>2. /\ s \o t \in Seq(S) /\ Len(s \o t) = Len(s) + Len(t)
        /\ \A i \in 1 .. Len(s) + Len(t) : (s \o t)[i] = IF i <= Len(s) THEN s[i] ELSE t[i - Len(s)]
    BY <1>2, <1>3, ConcatProperties
  <2> QED
    BY <1>2, <2>1, <2>2
<1>5. ASSUME NEW i \in 1 .. Len(c) - 1
      PROVE  (s \o t)[i] = IF i < p THEN c[i] ELSE c[i + 1]
  <2>1. CASE i < p
    BY <1>1, <1>2, <1>4, <2>1
  <2>2. CASE ~ (i < p)
    <3>1. i - (p - 1) \in 1 .. Len(c) - p
      BY <1>1, <2>2
    <3>2. t[i - (p - 1)] = c[p + (i - (p - 1))]
      BY <1>3, <3>1
    <3>3. p + (i - (p - 1)) = i + 1
      BY <1>1
    <3> QED
      BY <1>1, <1>4, <2>2, <3>2, <3>3
  <2> QED
    BY <2>1, <2>2
<1> QED
  BY <1>4, <1>5 DEF RemoveAt, s, t

\* delete_pair keeps a table sound and takes one key out of the map.
LEMMA DeleteDeletes ==
  ASSUME NEW T \in Table, Sound(T), NEW k \in Keys
  PROVE  /\ delete_pair(T, k) \in Table /\ Sound(delete_pair(T, k))
         /\ Contents(delete_pair(T, k)) = [Contents(T) EXCEPT ![k] = Missing]
<1> DEFINE b == Hash[k]
           c == T[b]
           p == Place(c, k)
           d == IF p = 0 THEN c ELSE RemoveAt(c, p)
           U == delete_pair(T, k)
<1>1. b \in Buckets /\ c \in Seq(Node) /\ Len(c) \in Nat
  BY HashAssumption DEF Table
<1>2. /\ p \in 0 .. Len(c)
      /\ p = 0 <=> \A i \in 1 .. Len(c) : c[i][1] # k
      /\ p # 0 => c[p][1] = k
  <2> HIDE DEF c
  <2> QED
    BY <1>1, PlaceFinds
<1>3. U = [T EXCEPT ![b] = d]
  BY <1>1 DEF delete_pair, Table
<1>4. /\ \A i \in 1 .. Len(c) : Hash[c[i][1]] = b
      /\ \A i, j \in 1 .. Len(c) : c[i][1] = c[j][1] => i = j
  BY <1>1 DEF Sound
<1>5. /\ d \in Seq(Node)
      /\ \A i \in 1 .. Len(d) : Hash[d[i][1]] = b
      /\ \A i, j \in 1 .. Len(d) : d[i][1] = d[j][1] => i = j
      /\ \A i \in 1 .. Len(d) : d[i][1] # k /\ \E j \in 1 .. Len(c) : c[j] = d[i]
      /\ \A j \in 1 .. Len(c) : c[j][1] # k => \E i \in 1 .. Len(d) : c[j] = d[i]
  <2>1. CASE p = 0
    <3>1. d = c
      BY <2>1
    <3> HIDE DEF c, p, d
    <3> QED
      BY <1>1, <1>2, <1>4, <2>1, <3>1
  <2>2. CASE p # 0
    <3>1. d = RemoveAt(c, p)
      BY <2>2
    <3> HIDE DEF c, p, d, b
    <3>2. p \in 1 .. Len(c)
      BY <1>1, <1>2, <2>2
    <3>3. /\ d \in Seq(Node) /\ Len(d) = Len(c) - 1
          /\ \A i \in 1 .. Len(c) - 1 : d[i] = IF i < p THEN c[i] ELSE c[i + 1]
      BY <1>1, <3>1, <3>2, RemoveAtShifts
    <3> DEFINE m(i) == IF i < p THEN i ELSE i + 1
    <3>4. \A i \in 1 .. Len(d) : m(i) \in 1 .. Len(c) /\ m(i) # p /\ d[i] = c[m(i)]
      BY <1>1, <3>2, <3>3
    <3>5. \A i, j \in 1 .. Len(d) : m(i) = m(j) => i = j
      BY <1>1, <3>2, <3>3
    <3>6. ASSUME NEW j \in 1 .. Len(c), j # p
          PROVE  \E i \in 1 .. Len(d) : c[j] = d[i]
      <4>1. CASE j < p
        BY <1>1, <3>2, <3>3, <4>1
      <4>2. CASE ~ (j < p)
        <5>1. j - 1 \in 1 .. Len(d) /\ m(j - 1) = j
          BY <1>1, <3>2, <3>3, <3>6, <4>2
        <5>2. c[j] = d[j - 1]
          BY <3>4, <5>1
        <5> QED
          BY <5>1, <5>2
      <4> QED
        BY <4>1, <4>2
    <3> HIDE DEF m
    <3>7. \A i \in 1 .. Len(d) : Hash[d[i][1]] = b
      BY <1>4, <3>4
    <3>8. \A i, j \in 1 .. Len(d) : d[i][1] = d[j][1] => i = j
      BY <1>4, <3>4, <3>5
    <3>9. \A i \in 1 .. Len(d) : d[i][1] # k
      BY <1>2, <1>4, <2>2, <3>2, <3>4
    <3>10. \A i \in 1 .. Len(d) : \E j \in 1 .. Len(c) : c[j] = d[i]
      BY <3>4
    <3>11. \A j \in 1 .. Len(c) : c[j][1] # k => \E i \in 1 .. Len(d) : c[j] = d[i]
      BY <1>2, <2>2, <3>6
    <3> QED
      BY <3>3, <3>7, <3>8, <3>9, <3>10, <3>11
  <2> QED
    BY <2>1, <2>2
<1> HIDE DEF c, p, d, U
<1>6. /\ U \in Table /\ Sound(U) /\ U[b] = d
      /\ \A l \in Keys : Hash[l] # b => read_pair(U, l) = read_pair(T, l)
  <2> HIDE DEF b
  <2>1. U \in Table /\ U[b] = d /\ \A e \in Buckets \ {b} : U[e] = T[e]
    BY <1>1, <1>3, <1>5 DEF Table
  <2>2. /\ \A i \in 1 .. Len(d) : Hash[d[i][1]] = b
        /\ \A i, j \in 1 .. Len(d) : d[i][1] = d[j][1] => i = j
    BY <1>5
  <2> QED
    BY <1>1, <2>1, <2>2, OtherChains
<1>7. read_pair(U, k) = Missing
  BY <1>5, <1>6, ReadFinds
<1>8. ASSUME NEW l \in Keys, l # k
      PROVE  read_pair(U, l) = read_pair(T, l)
  <2>1. CASE Hash[l] = b
    <3>1. /\ \A i \in 1 .. Len(c) : c[i][1] = l => read_pair(T, l) = c[i][2]
          /\ (\A i \in 1 .. Len(c) : c[i][1] # l) => read_pair(T, l) = Missing
      BY <2>1, ReadFinds DEF c
    <3>2. /\ \A i \in 1 .. Len(d) : d[i][1] = l => read_pair(U, l) = d[i][2]
          /\ (\A i \in 1 .. Len(d) : d[i][1] # l) => read_pair(U, l) = Missing
      BY <1>6, <2>1, ReadFinds
    <3>3. CASE \E i \in 1 .. Len(d) : d[i][1] = l
      BY <1>5, <1>8, <3>1, <3>2, <3>3
    <3>4. CASE ~ \E i \in 1 .. Len(d) : d[i][1] = l
      BY <1>5, <1>8, <3>1, <3>2, <3>4
    <3> QED
      BY <3>3, <3>4
  <2>2. CASE Hash[l] # b
    BY <1>6, <2>2
  <2> QED
    BY <2>1, <2>2
<1>9. Contents(U) = [Contents(T) EXCEPT ![k] = Missing]
  BY <1>7, <1>8 DEF Contents
<1> QED
  BY <1>6, <1>9 DEF U

-----------------------------------------------------------------------------
(* Listings.                                                               *)

\* Induction over a set of natural numbers.
LEMMA SetInduction ==
  ASSUME NEW P \in SUBSET Nat, 0 \in P, \A n \in P : n + 1 \in P
  PROVE  \A n \in Nat : n \in P
<1> DEFINE Q == Nat \ P
<1> SUFFICES ASSUME Q # {}
             PROVE  FALSE
  OBVIOUS
<1> DEFINE n == Min(Q)
<1>1. n \in Q /\ \A j \in Q : n <= j
  <2>1. Q \in SUBSET Nat
    OBVIOUS
  <2> HIDE DEF Q
  <2> QED
    BY <2>1, LeastMember
<1> HIDE DEF n
<1>2. n \in Nat /\ n # 0
  BY <1>1
<1>3. n - 1 \in Nat /\ ~ (n <= n - 1)
  BY <1>2
<1>4. n - 1 \in P
  BY <1>1, <1>3
<1>5. (n - 1) + 1 = n
  BY <1>2
<1> QED
  BY <1>1, <1>4, <1>5

\* The recursive function of FlattenSeq exists, so that its equations can be used.
LEMMA FlattenEquations ==
  ASSUME NEW seqs, Len(seqs) \in Nat \ {0}
  PROVE  \E f : /\ FlattenSeq(seqs) = f[Len(seqs)]
               /\ f[1] = seqs[1]
               /\ \A i \in 2 .. Len(seqs) : f[i] = f[i - 1] \o seqs[i]
<1> DEFINE Solves(f, n) == f = [i \in 1 .. n |-> IF i = 1 THEN seqs[i] ELSE f[i - 1] \o seqs[i]]
           P == {n \in Nat : \E f : Solves(f, n + 1)}
<1>1. 0 \in P
  <2> DEFINE f == [i \in 1 .. 0 + 1 |-> seqs[1]]
  <2>1. Solves(f, 0 + 1)
    OBVIOUS
  <2> QED
    BY <2>1
<1>2. ASSUME NEW n \in P
      PROVE  n + 1 \in P
  <2>1. PICK g : Solves(g, n + 1)
    OBVIOUS
  <2> DEFINE f == [i \in 1 .. (n + 1) + 1 |-> IF i = n + 2 THEN g[n + 1] \o seqs[n + 2] ELSE g[i]]
  <2>2. n \in Nat
    OBVIOUS
  <2>3. \A i \in 1 .. n + 1 : g[i] = IF i = 1 THEN seqs[i] ELSE g[i - 1] \o seqs[i]
    BY <2>1, Zenon
  <2>4. ASSUME NEW i \in 1 .. (n + 1) + 1
        PROVE  f[i] = IF i = 1 THEN seqs[i] ELSE f[i - 1] \o seqs[i]
    <3>1. CASE i = n + 2
      <4>1. i # 1 /\ i - 1 = n + 1 /\ i - 1 \in 1 .. (n + 1) + 1 /\ i - 1 # n + 2
        BY <2>2, <3>1
      <4>2. f[i] = g[n + 1] \o seqs[n + 2] /\ f[i - 1] = g[n + 1]
        BY <3>1, <4>1
      <4> QED
        BY <3>1, <4>1, <4>2
    <3>2. CASE i # n + 2
      <4>1. i \in 1 .. n + 1 /\ f[i] = g[i]
        BY <2>2, <3>2
      <4>2. i # 1 => i - 1 \in 1 .. (n + 1) + 1 /\ i - 1 # n + 2
        BY <2>2, <3>2
      <4>3. i # 1 => f[i - 1] = g[i - 1]
        BY <4>2
      <4> QED
        BY <2>3, <4>1, <4>3
    <3> QED
      BY <3>1, <3>2
  <2>5. Solves(f, (n + 1) + 1)
    <3>1. f = [i \in 1 .. (n + 1) + 1 |-> f[i]]
      OBVIOUS
    <3> HIDE DEF f
    <3> QED
      BY <2>4, <3>1
  <2> HIDE DEF f, Solves
  <2>6. n + 1 \in Nat /\ \E h : Solves(h, (n + 1) + 1)
    BY <2>2, <2>5
  <2> QED
    BY <2>6
<1>3. Len(seqs) - 1 \in P
  <2> HIDE DEF Solves
  <2>1. P \in SUBSET Nat
    OBVIOUS
  <2>2. Len(seqs) - 1 \in Nat
    OBVIOUS
  <2> HIDE DEF P
  <2> QED
    BY <1>1, <1>2, <2>1, <2>2, SetInduction
<1>4. \E f : Solves(f, Len(seqs))
  <2>1. (Len(seqs) - 1) + 1 = Len(seqs)
    OBVIOUS
  <2> QED
    BY <1>3, <2>1
<1> DEFINE F == CHOOSE f : Solves(f, Len(seqs))
<1>5. FlattenSeq(seqs) = F[Len(seqs)]
  BY DEF FlattenSeq
<1>6. Solves(F, Len(seqs))
  BY <1>4
<1>7. \A i \in 1 .. Len(seqs) : F[i] = IF i = 1 THEN seqs[i] ELSE F[i - 1] \o seqs[i]
  <2> HIDE DEF F
  <2> QED
    BY <1>6, Zenon
<1> HIDE DEF F
<1>8. 1 \in 1 .. Len(seqs) /\ \A i \in 2 .. Len(seqs) : i \in 1 .. Len(seqs) /\ i # 1
  OBVIOUS
<1> QED
  BY <1>5, <1>7, <1>8

\* A listing is a sequence of the nodes of all chains, and of nothing else.
LEMMA ListingHolds ==
  ASSUME NEW T \in Table
  PROVE  /\ Listing(T) \in Seq(Node)
         /\ \A b \in Buckets : \A j \in 1 .. Len(T[b]) :
              \E i \in 1 .. Len(Listing(T)) : Listing(T)[i] = T[b][j]
         /\ \A i \in 1 .. Len(Listing(T)) :
              \E b \in Buckets : \E j \in 1 .. Len(T[b]) : Listing(T)[i] = T[b][j]
<1> DEFINE seqs == [b \in 1 .. TABLE_SIZE |-> T[b - 1]]
           N == TABLE_SIZE
           Has(s, x) == \E i \in 1 .. Len(s) : s[i] = x
<1>1. N \in Nat \ {0} /\ Len(seqs) = N /\ \A b \in 1 .. N : b - 1 \in Buckets /\ seqs[b] = T[b - 1]
  BY TableAssumption DEF Buckets
<1>2. \A b \in 1 .. N : seqs[b] \in Seq(Node)
  BY <1>1 DEF Table
<1>3. PICK f : /\ FlattenSeq(seqs) = f[N]
               /\ f[1] = seqs[1]
               /\ \A i \in 2 .. N : f[i] = f[i - 1] \o seqs[i]
  <2>1. Len(seqs) = N /\ Len(seqs) \in Nat \ {0}
    BY <1>1
  <2> HIDE DEF seqs, N
  <2>2. \E f : /\ FlattenSeq(seqs) = f[Len(seqs)]
               /\ f[1] = seqs[1]
               /\ \A i \in 2 .. Len(seqs) : f[i] = f[i - 1] \o seqs[i]
    BY ONLY <2>1, FlattenEquations
  <2> QED
    BY <2>1, <2>2
<1> DEFINE Good(n) == /\ f[n] \in Seq(Node)
                      /\ \A x : Has(f[n], x) <=> \E b \in 1 .. n : Has(seqs[b], x)
           P == {n \in Nat : n + 1 <= N => Good(n + 1)}
<1> HIDE DEF seqs, N
<1>4. 0 \in P
  <2>1. Good(1)
    <3>1. 1 \in 1 .. N /\ \A b \in 1 .. 1 : b = 1
      BY <1>1
    <3> HIDE DEF Has
    <3> QED
      BY <1>2, <1>3, <3>1
  <2> HIDE DEF Good
  <2> QED
    BY <2>1
<1>5. ASSUME NEW n \in P
      PROVE  n + 1 \in P
  <2>1. n \in Nat /\ (n + 1 <= N => Good(n + 1))
    <3> HIDE DEF Good
    <3> QED
      OBVIOUS
  <2>2. ASSUME (n + 1) + 1 <= N
        PROVE  Good(n + 2)
    <3>1. /\ n + 2 \in 2 .. N /\ n + 2 \in 1 .. N /\ (n + 2) - 1 = n + 1 /\ n + 1 <= N
          /\ 1 .. n + 2 = (1 .. n + 1) \cup {n + 2}
      BY <1>1, <2>1, <2>2
    <3>2. f[n + 2] = f[n + 1] \o seqs[n + 2]
      BY <1>3, <3>1
    <3>3. f[n + 1] \in Seq(Node) /\ seqs[n + 2] \in Seq(Node)
      BY <1>2, <2>1, <3>1
    <3> DEFINE s == f[n + 1]
               t == seqs[n + 2]
    <3>4. /\ s \o t \in Seq(Node)
          /\ \A x : Has(s \o t, x) <=> Has(s, x) \/ Has(t, x)
      <4> HIDE DEF s, t
      <4>1. s \in Seq(Node) /\ t \in Seq(Node)
        BY <3>3 DEF s, t
      <4>2. /\ s \o t \in Seq(Node) /\ Len(s \o t) = Len(s) + Len(t)
            /\ \A i \in 1 .. Len(s) + Len(t) : (s \o t)[i] = IF i <= Len(s) THEN s[i] ELSE t[i - Len(s)]
        BY <4>1, ConcatProperties
      <4>3. Len(s) \in Nat /\ Len(t) \in Nat
        BY <4>1
      <4>4. \A i \in 1 .. Len(s) : (s \o t)[i] = s[i] /\ i \in 1 .. Len(s \o t)
        BY <4>2, <4>3
      <4>5. \A i \in 1 .. Len(t) : (s \o t)[Len(s) + i] = t[i] /\ Len(s) + i \in 1 .. Len(s \o t)
        BY <4>2, <4>3
      <4>6. \A i \in 1 .. Len(s \o t) : \/ i \in 1 .. Len(s)
                                        \/ i - Len(s) \in 1 .. Len(t) /\ Len(s) + (i - Len(s)) = i
        BY <4>2, <4>3
      <4> SUFFICES ASSUME NEW x
                   PROVE  Has(s \o t, x) <=> Has(s, x) \/ Has(t, x)
        BY <4>2
      <4>7. Has(s, x) => Has(s \o t, x)
        BY <4>4
      <4>8. Has(t, x) => Has(s \o t, x)
        BY <4>5
      <4>9. ASSUME NEW i \in 1 .. Len(s \o t), (s \o t)[i] = x
            PROVE  Has(s, x) \/ Has(t, x)
        <5>1. CASE i \in 1 .. Len(s)
          BY <4>4, <4>9, <5>1
        <5>2. CASE i - Len(s) \in 1 .. Len(t) /\ Len(s) + (i - Len(s)) = i
          BY <4>5, <4>9, <5>2
        <5> QED
          BY <4>6, <5>1, <5>2
      <4> QED
        BY <4>7, <4>8, <4>9
    <3>5. \A x : Has(f[n + 1], x) <=> \E b \in 1 .. n + 1 : Has(seqs[b], x)
      <4> HIDE DEF Has
      <4> QED
        BY <2>1, <3>1
    <3> HIDE DEF Has
    <3> QED
      BY <3>1, <3>2, <3>4, <3>5
  <2>3. n + 1 \in Nat /\ (n + 1) + 1 = n + 2
    BY <2>1
  <2> HIDE DEF Good
  <2> QED
    BY <2>2, <2>3
<1>6. Good(N)
  <2> HIDE DEF Good
  <2>1. P \in SUBSET Nat
    OBVIOUS
  <2>2. N - 1 \in Nat /\ (N - 1) + 1 = N
    BY <1>1
  <2>3. N - 1 \in P
    <3> HIDE DEF P
    <3> QED
      BY <1>4, <1>5, <2>1, <2>2, SetInduction
  <2> QED
    BY <2>2, <2>3
<1>7. Listing(T) = f[N]
  BY <1>3 DEF Listing, seqs
<1>8. ASSUME NEW b \in Buckets, NEW j \in 1 .. Len(T[b])
      PROVE  Has(f[N], T[b][j])
  <2>1. b + 1 \in 1 .. N /\ (b + 1) - 1 = b
    BY TableAssumption DEF Buckets, N
  <2>2. seqs[b + 1] = T[b]
    BY <1>1, <2>1
  <2>3. Has(seqs[b + 1], T[b][j])
    BY <2>2
  <2> HIDE DEF Has
  <2> QED
    BY <1>6, <2>1, <2>3
<1>9. ASSUME NEW i \in 1 .. Len(f[N])
      PROVE  \E b \in Buckets : \E j \in 1 .. Len(T[b]) : f[N][i] = T[b][j]
  <2>1. Has(f[N], f[N][i])
    OBVIOUS
  <2>2. PICK c \in 1 .. N : Has(seqs[c], f[N][i])
    <3> HIDE DEF Has
    <3> QED
      BY <1>6, <2>1
  <2> QED
    BY <1>1, <2>2
<1> QED
  BY <1>6, <1>7, <1>8, <1>9

\* The content of a backup file, as a map, is the map of the table that was listed.
LEMMA ListingShows ==
  ASSUME NEW T \in Table, Sound(T)
  PROVE  AsMap(Listing(T)) = Contents(T)
<1> DEFINE L == Listing(T)
<1>1. /\ L \in Seq(Node)
      /\ \A b \in Buckets : \A j \in 1 .. Len(T[b]) : \E i \in 1 .. Len(L) : L[i] = T[b][j]
      /\ \A i \in 1 .. Len(L) : \E b \in Buckets : \E j \in 1 .. Len(T[b]) : L[i] = T[b][j]
  BY ListingHolds
<1> HIDE DEF L
<1> SUFFICES ASSUME NEW k \in Keys
             PROVE  AsMap(L)[k] = read_pair(T, k)
  BY DEF AsMap, Contents, L
<1> DEFINE c == T[Hash[k]]
<1>2. Hash[k] \in Buckets
  BY HashAssumption
<1>3. ASSUME NEW i \in 1 .. Len(L), L[i][1] = k
      PROVE  \E j \in 1 .. Len(c) : L[i] = c[j]
  <2>0. PICK b \in Buckets : \E j \in 1 .. Len(T[b]) : L[i] = T[b][j]
    BY <1>1
  <2>1. PICK j \in 1 .. Len(T[b]) : L[i] = T[b][j]
    BY <2>0
  <2>2. Hash[T[b][j][1]] = b
    BY DEF Sound, Table
  <2> QED
    BY <1>3, <2>1, <2>2
<1>4. /\ \A j \in 1 .. Len(c) : c[j][1] = k => read_pair(T, k) = c[j][2]
      /\ (\A j \in 1 .. Len(c) : c[j][1] # k) => read_pair(T, k) = Missing
  BY ReadFinds
<1>5. \A j \in 1 .. Len(c) : \E i \in 1 .. Len(L) : L[i] = c[j]
  BY <1>1, <1>2
<1>6. \A i, j \in 1 .. Len(c) : c[i][1] = c[j][1] => i = j
  BY <1>2 DEF Sound, Table
<1> HIDE DEF c
<1>7. \A i, j \in 1 .. Len(L) : L[i][1] = k /\ L[j][1] = k => L[i] = L[j]
  BY <1>3, <1>6
<1>8. /\ \A i \in 1 .. Len(L) : L[i][1] = k => AsMap(L)[k] = L[i][2]
      /\ (\A i \in 1 .. Len(L) : L[i][1] # k) => AsMap(L)[k] = Missing
  BY <1>1, <1>7, AsMapFinds
<1>9. CASE \E i \in 1 .. Len(L) : L[i][1] = k
  BY <1>3, <1>4, <1>8, <1>9
<1>10. CASE ~ \E i \in 1 .. Len(L) : L[i][1] = k
  BY <1>4, <1>5, <1>8, <1>10
<1> QED
  BY <1>9, <1>10
=============================================================================
