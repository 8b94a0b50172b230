------------------------------ MODULE QueueLemmas ------------------------------
(***************************************************************************)
(* What Keep and Without return, what the sequence operations used by the  *)
(* engine do to the elements of a queue, and what FlattenSeq computes.     *)
(***************************************************************************)
EXTENDS Queue, SequencesExt, WellFoundedInduction, FiniteSetTheorems, SequenceTheorems, TLAPS

(* A nonempty set of natural numbers has a least element.                  *)
LEMMA LeastNatural ==
  ASSUME NEW T, T \subseteq Nat, T # {}
  PROVE  \E m \in T : \A k \in T : m <= k
<1> DEFINE F == {0..m : m \in T}
<1>1. F \subseteq FiniteSubsetsOf(Nat)
  <2> SUFFICES ASSUME NEW m \in T PROVE 0..m \in FiniteSubsetsOf(Nat)
    OBVIOUS
  <2>1. IsFiniteSet(0..m)
    BY FS_Interval
  <2>2. 0..m \in SUBSET Nat
    OBVIOUS
  <2> QED BY <2>1, <2>2 DEF FiniteSubsetsOf
<1>2. F # {}
  OBVIOUS
<1>3. PICK X \in F : \A Y \in F : <<Y, X>> \notin StrictSubsetOrdering(Nat)
  BY <1>1, <1>2, FS_StrictSubsetOrderingWellFounded, WFMin, Zenon
<1>4. PICK m \in T : X = 0..m
  OBVIOUS
<1>5. ASSUME NEW k \in T, ~(m <= k) PROVE FALSE
  <2>1. 0..k \in F
    OBVIOUS
  <2>2. /\ 0..k \in SUBSET Nat /\ 0..m \in SUBSET Nat
        /\ 0..k \subseteq 0..m /\ m \in 0..m /\ m \notin 0..k
    BY <1>5
  <2>3. <<0..k, X>> \in StrictSubsetOrdering(Nat)
    BY <2>2, <1>4 DEF StrictSubsetOrdering
  <2> QED BY <2>1, <2>3, <1>3
<1> QED BY <1>5

(* Among finitely many positions, each n up to their number is the rank of *)
(* exactly one.                                                            *)
LEMMA RankType ==
  ASSUME NEW L \in Nat, NEW K, K \subseteq 1..L
  PROVE  /\ IsFiniteSet(K)
         /\ Cardinality(K) \in Nat
         /\ \A i \in Nat : IsFiniteSet({j \in K : j <= i})
         /\ \A i \in Nat : Rank(K, i) \in Nat /\ Rank(K, i) <= Cardinality(K)
         /\ \A i \in K : Rank(K, i) >= 1
<1>1. IsFiniteSet(K) /\ Cardinality(K) \in Nat
  <2>1. IsFiniteSet(1..L)
    BY FS_Interval
  <2>2. K \in SUBSET (1..L)
    OBVIOUS
  <2>3. IsFiniteSet(K)
    BY <2>1, <2>2, FS_Subset
  <2> QED BY <2>3, FS_CardinalityType
<1>2. ASSUME NEW i \in Nat
      PROVE  /\ IsFiniteSet({j \in K : j <= i})
             /\ Rank(K, i) \in Nat
             /\ Rank(K, i) <= Cardinality(K)
  <2> DEFINE S == {j \in K : j <= i}
  <2>1. IsFiniteSet(S) /\ Cardinality(S) <= Cardinality(K)
    BY <1>1, FS_Subset
  <2>2. Cardinality(S) \in Nat
    BY <2>1, FS_CardinalityType
  <2> QED BY <1>1, <2>1, <2>2 DEF Rank
<1>3. ASSUME NEW i \in K PROVE Rank(K, i) >= 1
  <2> DEFINE S == {j \in K : j <= i}
  <2>1. IsFiniteSet(S) /\ Cardinality(S) \in Nat
    BY <1>2, FS_CardinalityType
  <2>2. S # {}
    OBVIOUS
  <2>3. Cardinality(S) # 0
    BY <2>1, <2>2, FS_EmptySet
  <2> QED BY <2>1, <2>3 DEF Rank
<1> QED BY <1>1, <1>2, <1>3

LEMMA RankStrict ==
  ASSUME NEW L \in Nat, NEW K, K \subseteq 1..L, NEW i \in K, NEW k \in K, i < k
  PROVE  Rank(K, i) < Rank(K, k)
<1> DEFINE S == {j \in K : j <= i}
           T == {j \in K : j <= k}
<1>1. IsFiniteSet(S) /\ IsFiniteSet(T)
  BY RankType
<1>2. S \in SUBSET T /\ S # T
  <2>1. \A j \in K : j \in Int
    OBVIOUS
  <2>2. k \in T /\ k \notin S
    BY <2>1
  <2>3. \A j \in K : j <= i => j <= k
    BY <2>1
  <2>4. S \subseteq T
    BY <2>3
  <2> QED BY <2>2, <2>4
<1>3. Cardinality(S) <= Cardinality(T) /\ Cardinality(S) # Cardinality(T)
  BY <1>1, <1>2, FS_Subset
<1>4. Cardinality(S) \in Nat /\ Cardinality(T) \in Nat
  BY <1>1, FS_CardinalityType
<1> QED BY <1>3, <1>4 DEF Rank

LEMMA RankOnto ==
  ASSUME NEW L \in Nat, NEW K, K \subseteq 1..L, NEW n \in 1..Cardinality(K)
  PROVE  \E i \in K : Rank(K, i) = n
<1>0. \A j \in K : j \in Int /\ 1 <= j /\ j <= L
  OBVIOUS
<1>a. /\ Cardinality(K) \in Nat
      /\ \A i \in Nat : IsFiniteSet({j \in K : j <= i})
      /\ \A i \in Nat : Rank(K, i) \in Nat
  BY RankType
<1> DEFINE T == {m \in Nat : Rank(K, m) >= n}
<1>1. Rank(K, L) = Cardinality(K)
  <2>1. {j \in K : j <= L} = K
    BY <1>0
  <2> QED BY <2>1 DEF Rank
<1>2. L \in T
  BY <1>1, <1>a
<1>3. PICK m \in T : \A k \in T : m <= k
  <2>1. T \subseteq Nat
    OBVIOUS
  <2> HIDE DEF T
  <2> QED BY <1>2, <2>1, LeastNatural
<1>4. m # 0
  <2>1. {j \in K : j <= 0} = {}
    <3> SUFFICES ASSUME NEW j \in K, j <= 0 PROVE FALSE
      OBVIOUS
    <3> QED BY <1>0
  <2>2. Rank(K, 0) = 0
    BY <2>1, FS_EmptySet DEF Rank
  <2> QED BY <2>2
<1>5. Rank(K, m - 1) < n /\ m - 1 \in Nat
  <2>1. m - 1 \in Nat
    BY <1>4
  <2>2. m - 1 \notin T
    BY <1>3, <2>1
  <2>3. Rank(K, m - 1) \in Nat /\ ~(Rank(K, m - 1) >= n)
    BY <2>1, <2>2, <1>a
  <2> QED BY <2>1, <2>3
<1> DEFINE S == {j \in K : j <= m - 1}
<1>6. {j \in K : j <= m} = IF m \in K THEN S \cup {m} ELSE S
  <2>1. \A j \in K : j <= m <=> j <= m - 1 \/ j = m
    BY <1>0
  <2>2. CASE m \in K
    <3>1. {j \in K : j <= m} = S \cup {m}
      BY <2>1, <2>2
    <3> QED BY <3>1, <2>2
  <2>3. CASE m \notin K
    <3>1. {j \in K : j <= m} = S
      BY <2>1, <2>3
    <3> QED BY <3>1, <2>3
  <2> QED BY <2>2, <2>3
<1>7. IsFiniteSet(S)
  BY <1>5, <1>a
<1>8. Cardinality(S \cup {m}) = Cardinality(S) + 1
  <2>1. m \notin S
    OBVIOUS
  <2> QED BY <1>7, <2>1, FS_AddElement
<1>9. Rank(K, m) = IF m \in K THEN Rank(K, m - 1) + 1 ELSE Rank(K, m - 1)
  BY <1>6, <1>8 DEF Rank
<1>10. Rank(K, m) \in Nat /\ Rank(K, m - 1) \in Nat /\ Rank(K, m) >= n
  BY <1>3, <1>5, <1>a
<1> QED BY <1>5, <1>9, <1>10

-----------------------------------------------------------------------------
(* The filter of a queue picks one position per rank, in increasing order. *)
LEMMA KeepPositions ==
  ASSUME NEW R, NEW q \in Seq(R), NEW S
  PROVE  /\ Cardinality(Positions(q, S)) \in Nat
         /\ \E pos \in [1..Cardinality(Positions(q, S)) -> Positions(q, S)] :
              /\ Keep(q, S) = [n \in 1..Cardinality(Positions(q, S)) |-> q[pos[n]]]
              /\ \A i \in Positions(q, S) : \E n \in 1..Cardinality(Positions(q, S)) : pos[n] = i
              /\ \A m, n \in 1..Cardinality(Positions(q, S)) : m < n => pos[m] < pos[n]
<1> DEFINE K == Positions(q, S)
           L == Len(q)
           c == Cardinality(K)
           at(n) == CHOOSE i \in K : Rank(K, i) = n
           pos == [n \in 1..c |-> at(n)]
<1>1. L \in Nat /\ K \subseteq 1..L
  BY DEF Positions
<1>2. c \in Nat
  BY <1>1, RankType
<1>3. ASSUME NEW n \in 1..c PROVE at(n) \in K /\ Rank(K, at(n)) = n
  <2>1. \E i \in K : Rank(K, i) = n
    BY <1>1, RankOnto
  <2> QED BY <2>1
<1>4. pos \in [1..c -> K]
  BY <1>3
<1>5. Keep(q, S) = [n \in 1..c |-> q[pos[n]]]
  BY DEF Keep
<1>6. ASSUME NEW i \in K, NEW k \in K, Rank(K, i) = Rank(K, k) PROVE i = k
  <2>1. i \in 1..L /\ k \in 1..L
    BY <1>1
  <2> HIDE DEF L
  <2>a. Rank(K, i) \in Nat /\ Rank(K, k) \in Nat
    <3>1. i \in Nat /\ k \in Nat
      BY <1>1, <2>1
    <3> QED BY <1>1, <3>1, RankType
  <2>2. ASSUME i < k PROVE FALSE
    <3>1. Rank(K, i) < Rank(K, k)
      BY <1>1, <2>2, RankStrict
    <3> QED BY <3>1, <1>6, <2>a
  <2>3. ASSUME k < i PROVE FALSE
    <3>1. Rank(K, k) < Rank(K, i)
      BY <1>1, <2>3, RankStrict
    <3> QED BY <3>1, <1>6, <2>a
  <2> QED BY <2>1, <2>2, <2>3
<1>7. ASSUME NEW i \in K PROVE \E n \in 1..c : pos[n] = i
  <2>1. Rank(K, i) \in 1..c
    BY <1>1, <1>2, RankType
  <2>2. at(Rank(K, i)) = i
    BY <2>1, <1>3, <1>6
  <2> QED BY <2>1, <2>2
<1>8. ASSUME NEW m \in 1..c, NEW n \in 1..c, m < n PROVE pos[m] < pos[n]
  <2>1. /\ pos[m] \in K /\ Rank(K, pos[m]) = m
        /\ pos[n] \in K /\ Rank(K, pos[n]) = n
    BY <1>3
  <2>2. pos[m] \in 1..L /\ pos[n] \in 1..L
    BY <2>1, <1>1
  <2>3. ASSUME pos[n] < pos[m] PROVE FALSE
    <3>1. Rank(K, pos[n]) < Rank(K, pos[m])
      BY <1>1, <2>1, <2>3, RankStrict
    <3> QED BY <3>1, <2>1, <1>8, <1>2
  <2>4. pos[m] # pos[n]
    <3> HIDE DEF pos, at
    <3>1. ASSUME pos[m] = pos[n] PROVE FALSE
      <4>1. m = n
        BY <2>1, <3>1
      <4> QED BY <4>1, <1>8, <1>2
    <3> QED BY <3>1
  <2> QED BY <2>2, <2>3, <2>4
<1> HIDE DEF c, pos
<1>9. c \in Nat /\ pos \in [1..c -> K]
  BY <1>2, <1>4
<1>10. \A i \in K : \E n \in 1..c : pos[n] = i
  BY <1>7
<1>11. \A m, n \in 1..c : m < n => pos[m] < pos[n]
  BY <1>8
<1> QED BY <1>5, <1>9, <1>10, <1>11 DEF c

(* Keep returns a queue of exactly the elements asked for; it repeats none *)
(* that q does not repeat.                                                 *)
THEOREM KeepProperties ==
  ASSUME NEW R, NEW q \in Seq(R), NEW S
  PROVE  /\ Keep(q, S) \in Seq(R)
         /\ Elements(Keep(q, S)) = Elements(q) \cap S
         /\ NoRepeats(q) => NoRepeats(Keep(q, S))
<1> DEFINE K == Positions(q, S)
           c == Cardinality(K)
<1>1. c \in Nat
  BY KeepPositions
<1>2. PICK pos \in [1..c -> K] :
         /\ Keep(q, S) = [n \in 1..c |-> q[pos[n]]]
         /\ \A i \in K : \E n \in 1..c : pos[n] = i
         /\ \A m, n \in 1..c : m < n => pos[m] < pos[n]
  BY KeepPositions
<1> DEFINE s == [n \in 1..c |-> q[pos[n]]]
<1>3. K \subseteq DOMAIN q /\ DOMAIN q = 1..Len(q) /\ Len(q) \in Nat
  BY DEF Positions
<1> HIDE DEF c
<1>4. s \in Seq(R) /\ DOMAIN s = 1..c
  <2>1. \A n \in 1..c : q[pos[n]] \in R
    BY <1>2, <1>3
  <2> QED BY <1>1, <2>1
<1>5. Elements(s) = Elements(q) \cap S
  <2>1. ASSUME NEW x \in Elements(s) PROVE x \in Elements(q) \cap S
    <3>1. PICK n \in 1..c : x = q[pos[n]]
      BY <2>1 DEF Elements
    <3>2. pos[n] \in K
      BY <1>2
    <3> QED BY <3>1, <3>2 DEF Elements, Positions
  <2>2. ASSUME NEW x \in Elements(q) \cap S PROVE x \in Elements(s)
    <3>1. PICK i \in K : x = q[i]
      BY <2>2 DEF Elements, Positions
    <3>2. PICK n \in 1..c : pos[n] = i
      BY <1>2, <3>1
    <3> QED BY <3>1, <3>2 DEF Elements
  <2> QED BY <2>1, <2>2
<1>6. ASSUME NoRepeats(q) PROVE NoRepeats(s)
  <2> SUFFICES ASSUME NEW m \in 1..c, NEW n \in 1..c, s[m] = s[n] PROVE m = n
    BY DEF NoRepeats
  <2>1. pos[m] \in DOMAIN q /\ pos[n] \in DOMAIN q /\ q[pos[m]] = q[pos[n]]
    BY <1>2, <1>3
  <2>2. pos[m] = pos[n]
    BY <2>1, <1>6 DEF NoRepeats
  <2>3. ~(m < n) /\ ~(n < m)
    BY <2>1, <2>2, <1>2, <1>3
  <2> QED BY <2>3, <1>1
<1> QED BY <1>2, <1>4, <1>5, <1>6

THEOREM WithoutProperties ==
  ASSUME NEW R, NEW q \in Seq(R), NEW S
  PROVE  /\ Without(q, S) \in Seq(R)
         /\ Elements(Without(q, S)) = Elements(q) \ S
         /\ NoRepeats(q) => NoRepeats(Without(q, S))
<1> DEFINE T == Elements(q) \ S
<1>1. /\ Keep(q, T) \in Seq(R)
      /\ Elements(Keep(q, T)) = Elements(q) \cap T
      /\ NoRepeats(q) => NoRepeats(Keep(q, T))
  BY KeepProperties
<1>2. Elements(q) \cap T = Elements(q) \ S
  OBVIOUS
<1> QED BY <1>1, <1>2 DEF Without

-----------------------------------------------------------------------------
(* Appending, taking a prefix or a suffix, and joining queues.             *)
LEMMA QueueAppend ==
  ASSUME NEW R, NEW q \in Seq(R), NEW r \in R
  PROVE  /\ Append(q, r) \in Seq(R)
         /\ Elements(Append(q, r)) = Elements(q) \cup {r}
         /\ NoRepeats(q) /\ r \notin Elements(q) => NoRepeats(Append(q, r))
<1> DEFINE s == Append(q, r)
<1>1. /\ s \in Seq(R) /\ Len(s) = Len(q) + 1 /\ Len(q) \in Nat
      /\ DOMAIN s = 1..(Len(q) + 1) /\ DOMAIN q = 1..Len(q)
      /\ \A i \in 1..Len(q) : s[i] = q[i]
      /\ s[Len(q) + 1] = r
  OBVIOUS
<1> HIDE DEF s
<1>2. Elements(s) = Elements(q) \cup {r}
  BY <1>1 DEF Elements
<1>3. ASSUME NoRepeats(q), r \notin Elements(q) PROVE NoRepeats(s)
  BY <1>1, <1>3 DEF NoRepeats, Elements
<1> QED BY <1>1, <1>2, <1>3 DEF s

LEMMA QueueConcat ==
  ASSUME NEW R, NEW p \in Seq(R), NEW q \in Seq(R)
  PROVE  /\ p \o q \in Seq(R)
         /\ Elements(p \o q) = Elements(p) \cup Elements(q)
         /\ NoRepeats(p) /\ NoRepeats(q) /\ Elements(p) \cap Elements(q) = {} => NoRepeats(p \o q)
<1> DEFINE s == p \o q
           m == Len(p)
           n == Len(q)
<1>1. /\ s \in Seq(R) /\ m \in Nat /\ n \in Nat
      /\ DOMAIN s = 1..(m + n) /\ DOMAIN p = 1..m /\ DOMAIN q = 1..n
      /\ \A i \in 1..m : s[i] = p[i]
      /\ \A i \in (m + 1)..(m + n) : s[i] = q[i - m]
  OBVIOUS
<1>a. \A j \in 1..n : s[m + j] = q[j] /\ m + j \in 1..(m + n)
  BY <1>1
<1> HIDE DEF s, m, n
<1>2. Elements(s) = Elements(p) \cup Elements(q)
  <2>1. ASSUME NEW i \in 1..(m + n) PROVE s[i] \in Elements(p) \cup Elements(q)
    <3>1. CASE i \in 1..m
      BY <3>1, <1>1 DEF Elements
    <3>2. CASE i \in (m + 1)..(m + n)
      <4>1. i - m \in 1..n
        BY <3>2, <1>1
      <4> QED BY <3>2, <4>1, <1>1 DEF Elements
    <3> QED BY <3>1, <3>2, <1>1
  <2>2. ASSUME NEW i \in 1..m PROVE p[i] \in Elements(s)
    <3>1. i \in 1..(m + n)
      BY <1>1
    <3> QED BY <3>1, <1>1 DEF Elements
  <2>3. ASSUME NEW i \in 1..n PROVE q[i] \in Elements(s)
    BY <1>1, <1>a DEF Elements
  <2>4. \A x \in Elements(s) : x \in Elements(p) \cup Elements(q)
    BY <2>1, <1>1 DEF Elements
  <2>5. \A x \in Elements(p) \cup Elements(q) : x \in Elements(s)
    <3>1. \A x \in Elements(p) : x \in Elements(s)
      BY <2>2, <1>1 DEF Elements
    <3>2. \A x \in Elements(q) : x \in Elements(s)
      BY <2>3, <1>1 DEF Elements
    <3> QED BY <3>1, <3>2
  <2> QED BY <2>4, <2>5
<1>3. ASSUME NoRepeats(p), NoRepeats(q), Elements(p) \cap Elements(q) = {} PROVE NoRepeats(s)
  <2> SUFFICES ASSUME NEW i \in 1..(m + n), NEW j \in 1..(m + n), s[i] = s[j] PROVE i = j
    BY <1>1 DEF NoRepeats
  <2>0. \A k \in 1..(m + n) : k \in 1..m \/ (k - m \in 1..n /\ k \in (m + 1)..(m + n))
    BY <1>1
  <2>1. CASE i \in 1..m /\ j \in 1..m
    BY <2>1, <1>1, <1>3 DEF NoRepeats
  <2>2. CASE i \notin 1..m /\ j \notin 1..m
    <3>1. q[i - m] = q[j - m] /\ i - m \in 1..n /\ j - m \in 1..n
      BY <2>2, <2>0, <1>1
    <3>2. i - m = j - m
      BY <3>1, <1>1, <1>3 DEF NoRepeats
    <3> QED BY <3>2, <1>1
  <2>3. CASE i \in 1..m /\ j \notin 1..m
    <3>1. s[i] \in Elements(p) /\ s[j] \in Elements(q)
      BY <2>3, <2>0, <1>1 DEF Elements
    <3> QED BY <3>1, <1>3
  <2>4. CASE i \notin 1..m /\ j \in 1..m
    <3>1. s[j] \in Elements(p) /\ s[i] \in Elements(q)
      BY <2>4, <2>0, <1>1 DEF Elements
    <3> QED BY <3>1, <1>3
  <2> QED BY <2>1, <2>2, <2>3, <2>4
<1> QED BY <1>1, <1>2, <1>3 DEF s

LEMMA SplitProperties ==
  ASSUME NEW R, NEW q \in Seq(R), NEW n \in 0..Len(q)
  PROVE  LET p == SubSeq(q, 1, n)
             s == SubSeq(q, n + 1, Len(q))
         IN  /\ p \in Seq(R) /\ s \in Seq(R)
             /\ Elements(q) = Elements(p) \cup Elements(s)
             /\ NoRepeats(q) => /\ NoRepeats(p) /\ NoRepeats(s)
                                /\ Elements(p) \cap Elements(s) = {}
<1> DEFINE p == SubSeq(q, 1, n)
           s == SubSeq(q, n + 1, Len(q))
           l == Len(q)
<1>1. /\ p \in Seq(R) /\ s \in Seq(R) /\ l \in Nat /\ n \in Nat /\ n <= l
      /\ DOMAIN q = 1..l /\ DOMAIN p = 1..n /\ DOMAIN s = 1..(l - n)
      /\ \A i \in 1..n : p[i] = q[i]
      /\ \A i \in 1..(l - n) : s[i] = q[n + i]
  OBVIOUS
<1> HIDE DEF p, s, l
<1>2. /\ \A i \in 1..n : i \in 1..l
      /\ \A i \in 1..(l - n) : n + i \in 1..l
      /\ \A i \in 1..l : i \in 1..n \/ (i - n \in 1..(l - n) /\ n + (i - n) = i)
  BY <1>1
<1>3. Elements(q) = Elements(p) \cup Elements(s)
  <2>1. \A x \in Elements(q) : x \in Elements(p) \cup Elements(s)
    <3> SUFFICES ASSUME NEW i \in 1..l PROVE q[i] \in Elements(p) \cup Elements(s)
      BY <1>1 DEF Elements
    <3>1. CASE i \in 1..n
      BY <3>1, <1>1 DEF Elements
    <3>2. CASE i - n \in 1..(l - n) /\ n + (i - n) = i
      <4>1. s[i - n] = q[i]
        BY <3>2, <1>1
      <4> QED BY <3>2, <4>1, <1>1 DEF Elements
    <3> QED BY <3>1, <3>2, <1>2
  <2>2. \A x \in Elements(p) : x \in Elements(q)
    BY <1>1, <1>2 DEF Elements
  <2>3. \A x \in Elements(s) : x \in Elements(q)
    <3> SUFFICES ASSUME NEW i \in 1..(l - n) PROVE s[i] \in Elements(q)
      BY <1>1 DEF Elements
    <3>1. s[i] = q[n + i] /\ n + i \in 1..l
      BY <1>1, <1>2
    <3> QED BY <3>1, <1>1 DEF Elements
  <2> QED BY <2>1, <2>2, <2>3
<1>4. ASSUME NoRepeats(q)
      PROVE  NoRepeats(p) /\ NoRepeats(s) /\ Elements(p) \cap Elements(s) = {}
  <2>1. NoRepeats(p)
    BY <1>1, <1>2, <1>4 DEF NoRepeats
  <2>2. NoRepeats(s)
    <3> SUFFICES ASSUME NEW i \in 1..(l - n), NEW j \in 1..(l - n), s[i] = s[j] PROVE i = j
      BY <1>1 DEF NoRepeats
    <3>1. n + i = n + j
      BY <1>1, <1>2, <1>4 DEF NoRepeats
    <3> QED BY <3>1, <1>1
  <2>3. ASSUME NEW i \in 1..n, NEW j \in 1..(l - n), p[i] = s[j] PROVE FALSE
    <3>1. i = n + j
      BY <2>3, <1>1, <1>2, <1>4 DEF NoRepeats
    <3> QED BY <3>1, <1>1
  <2>4. Elements(p) \cap Elements(s) = {}
    BY <2>3, <1>1 DEF Elements
  <2> QED BY <2>1, <2>2, <2>4
<1> QED BY <1>1, <1>3, <1>4 DEF p, s, l

(* Joining a sequence of one element is appending it.                      *)
LEMMA ConcatOne ==
  ASSUME NEW R, NEW s \in Seq(R), NEW t \in Seq(R), Len(t) = 1
  PROVE  /\ s \o t \in Seq(R)
         /\ Len(s) \in Nat
         /\ Len(s \o t) = Len(s) + 1
         /\ DOMAIN s = 1..Len(s)
         /\ DOMAIN (s \o t) = 1..(Len(s) + 1)
         /\ \A i \in 1..Len(s) : (s \o t)[i] = s[i]
         /\ (s \o t)[Len(s) + 1] = t[1]
<1>1. Len(s) \in Nat /\ DOMAIN s = 1..Len(s)
  BY LenProperties
<1>2. s \o t \in Seq(R) /\ Len(s \o t) = Len(s) + 1
  BY ConcatProperties
<1>3. DOMAIN (s \o t) = 1..(Len(s) + 1)
  BY <1>2, LenProperties
<1>4. \A i \in 1..(Len(s) + 1) : (s \o t)[i] = IF i <= Len(s) THEN s[i] ELSE t[i - Len(s)]
  BY ConcatProperties, <1>2
<1> DEFINE u == s \o t
           m == Len(s)
<1> HIDE DEF u, m
<1>5. m \in Nat /\ \A i \in 1..(m + 1) : u[i] = IF i <= m THEN s[i] ELSE t[i - m]
  BY <1>1, <1>4 DEF u, m
<1>6. (\A i \in 1..m : u[i] = s[i]) /\ u[m + 1] = t[1]
  <2>1. (m + 1) - m = 1 /\ m + 1 \in 1..(m + 1) /\ ~(m + 1 <= m)
    BY <1>5
  <2>2. \A i \in 1..m : i \in 1..(m + 1) /\ i <= m
    BY <1>5
  <2> QED BY <1>5, <2>1, <2>2
<1> QED BY <1>1, <1>2, <1>3, <1>6 DEF u, m

-----------------------------------------------------------------------------
(* Queues in the order of a numbering of their elements: what is erased,   *)
(* split off, appended or joined in order leaves them in order.            *)
LEMMA IncreasingKeep ==
  ASSUME NEW R, NEW q \in Seq(R), NEW S, NEW f, Increasing(f, q)
  PROVE  Increasing(f, Keep(q, S)) /\ Increasing(f, Without(q, S))
<1>1. ASSUME NEW T PROVE Increasing(f, Keep(q, T))
  <2> DEFINE K == Positions(q, T)
             c == Cardinality(K)
  <2>1. PICK pos \in [1..c -> K] :
           /\ Keep(q, T) = [n \in 1..c |-> q[pos[n]]]
           /\ \A m, n \in 1..c : m < n => pos[m] < pos[n]
    BY KeepPositions
  <2>2. K \subseteq DOMAIN q
    BY DEF Positions
  <2> HIDE DEF K, c
  <2>3. ASSUME NEW m \in 1..c, NEW n \in 1..c, m < n PROVE f[q[pos[m]]] < f[q[pos[n]]]
    <3>1. pos[m] \in DOMAIN q /\ pos[n] \in DOMAIN q /\ pos[m] < pos[n]
      BY <2>1, <2>2, <2>3
    <3> QED BY <3>1 DEF Increasing
  <2> QED BY <2>1, <2>3 DEF Increasing
<1> QED BY <1>1 DEF Without

LEMMA IncreasingSplit ==
  ASSUME NEW R, NEW q \in Seq(R), NEW n \in 0..Len(q), NEW f, Increasing(f, q)
  PROVE  LET p == SubSeq(q, 1, n)
             s == SubSeq(q, n + 1, Len(q))
         IN  /\ Increasing(f, p) /\ Increasing(f, s)
             /\ \A x \in Elements(p), y \in Elements(s) : f[x] < f[y]
<1> DEFINE p == SubSeq(q, 1, n)
           s == SubSeq(q, n + 1, Len(q))
           l == Len(q)
<1>1. /\ l \in Nat /\ n \in Nat /\ n <= l
      /\ DOMAIN q = 1..l /\ DOMAIN p = 1..n /\ DOMAIN s = 1..(l - n)
      /\ \A i \in 1..n : p[i] = q[i]
      /\ \A i \in 1..(l - n) : s[i] = q[n + i]
  OBVIOUS
<1> HIDE DEF p, s, l
<1>2. /\ \A i \in 1..n : i \in 1..l
      /\ \A i \in 1..(l - n) : n + i \in 1..l
      /\ \A i, j \in 1..(l - n) : i < j => n + i < n + j
      /\ \A i \in 1..n, j \in 1..(l - n) : i < n + j
  BY <1>1
<1>3. \A i, j \in 1..l : i < j => f[q[i]] < f[q[j]]
  BY <1>1 DEF Increasing
<1>4. Increasing(f, p)
  BY <1>1, <1>2, <1>3 DEF Increasing
<1>5. Increasing(f, s)
  <2> SUFFICES ASSUME NEW i \in 1..(l - n), NEW j \in 1..(l - n), i < j
               PROVE  f[s[i]] < f[s[j]]
    BY <1>1 DEF Increasing
  <2>1. f[q[n + i]] < f[q[n + j]]
    BY <1>2, <1>3
  <2> QED BY <2>1, <1>1
<1>6. \A x \in Elements(p), y \in Elements(s) : f[x] < f[y]
  <2> SUFFICES ASSUME NEW i \in 1..n, NEW j \in 1..(l - n) PROVE f[p[i]] < f[s[j]]
    BY <1>1 DEF Elements
  <2>1. f[q[i]] < f[q[n + j]]
    BY <1>2, <1>3
  <2> QED BY <2>1, <1>1
<1> QED BY <1>4, <1>5, <1>6 DEF p, s

LEMMA IncreasingConcat ==
  ASSUME NEW R, NEW p \in Seq(R), NEW q \in Seq(R), NEW f,
         Increasing(f, p), Increasing(f, q),
         \A x \in Elements(p), y \in Elements(q) : f[x] < f[y]
  PROVE  Increasing(f, p \o q)
<1> DEFINE s == p \o q
           m == Len(p)
           n == Len(q)
<1>1. /\ m \in Nat /\ n \in Nat
      /\ DOMAIN s = 1..(m + n) /\ DOMAIN p = 1..m /\ DOMAIN q = 1..n
      /\ \A i \in 1..m : s[i] = p[i]
      /\ \A i \in (m + 1)..(m + n) : s[i] = q[i - m]
  OBVIOUS
<1> HIDE DEF s, m, n
<1>2. \A k \in 1..(m + n) : k \in 1..m \/ (k - m \in 1..n /\ k \in (m + 1)..(m + n))
  BY <1>1
<1> SUFFICES ASSUME NEW i \in 1..(m + n), NEW j \in 1..(m + n), i < j PROVE f[s[i]] < f[s[j]]
  BY <1>1 DEF Increasing, s
<1>3. CASE i \in 1..m /\ j \in 1..m
  BY <1>1, <1>3 DEF Increasing
<1>4. CASE i \in 1..m /\ j - m \in 1..n /\ j \in (m + 1)..(m + n)
  <2>1. s[i] \in Elements(p) /\ s[j] \in Elements(q)
    BY <1>1, <1>4 DEF Elements
  <2> QED BY <2>1
<1>5. CASE i - m \in 1..n /\ i \in (m + 1)..(m + n) /\ j - m \in 1..n /\ j \in (m + 1)..(m + n)
  <2>1. i - m < j - m
    BY <1>1
  <2>2. f[q[i - m]] < f[q[j - m]]
    BY <1>1, <1>5, <2>1 DEF Increasing
  <2> QED BY <2>2, <1>1, <1>5
<1>6. ~(j \in 1..m /\ i \in (m + 1)..(m + n))
  BY <1>1
<1> QED BY <1>2, <1>3, <1>4, <1>5, <1>6

LEMMA IncreasingAppend ==
  ASSUME NEW R, NEW q \in Seq(R), NEW r \in R, NEW f,
         Increasing(f, q), \A x \in Elements(q) : f[x] < f[r]
  PROVE  Increasing(f, Append(q, r))
<1> DEFINE s == Append(q, r)
           l == Len(q)
<1>1. /\ l \in Nat /\ DOMAIN q = 1..l /\ DOMAIN s = 1..(l + 1)
      /\ \A i \in 1..l : s[i] = q[i]
      /\ s[l + 1] = r
  OBVIOUS
<1> HIDE DEF s, l
<1> SUFFICES ASSUME NEW i \in 1..(l + 1), NEW j \in 1..(l + 1), i < j PROVE f[s[i]] < f[s[j]]
  BY <1>1 DEF Increasing, s
<1>2. i \in 1..l
  BY <1>1
<1>3. CASE j \in 1..l
  BY <1>1, <1>2, <1>3 DEF Increasing
<1>4. CASE j = l + 1
  <2>1. s[i] \in Elements(q)
    BY <1>1, <1>2 DEF Elements
  <2> QED BY <2>1, <1>1, <1>4
<1> QED BY <1>1, <1>3, <1>4

(* Only the numbers of its elements matter.                                *)
LEMMA IncreasingSame ==
  ASSUME NEW q, NEW f, NEW g, Increasing(f, q), \A x \in Elements(q) : g[x] = f[x]
  PROVE  Increasing(g, q)
<1>1. \A i \in DOMAIN q : g[q[i]] = f[q[i]]
  BY DEF Elements
<1> QED BY <1>1 DEF Increasing

(* A numbering that orders a queue tells its elements apart.               *)
LEMMA IncreasingDistinct ==
  ASSUME NEW R, NEW q \in Seq(R), NEW f \in [R -> Nat], Increasing(f, q),
         NEW x \in Elements(q), NEW y \in Elements(q), f[x] = f[y]
  PROVE  x = y
<1>1. PICK i \in DOMAIN q : x = q[i]
  BY DEF Elements
<1>2. PICK j \in DOMAIN q : y = q[j]
  BY DEF Elements
<1>3. DOMAIN q = 1..Len(q) /\ Len(q) \in Nat
  OBVIOUS
<1>4. f[x] \in Nat /\ f[y] \in Nat
  <2>1. x \in R /\ y \in R
    BY DEF Elements
  <2> QED BY <2>1
<1>5. ~(i < j) /\ ~(j < i)
  BY <1>1, <1>2, <1>4 DEF Increasing
<1> QED BY <1>1, <1>2, <1>3, <1>5

(* A queue is no longer than any finite set of what it holds without       *)
(* repeating.                                                              *)
LEMMA LengthBound ==
  ASSUME NEW R, NEW q \in Seq(R), NoRepeats(q), NEW T, IsFiniteSet(T), Elements(q) \subseteq T
  PROVE  Len(q) <= Cardinality(T)
<1> DEFINE l == Len(q)
<1>1. l \in Nat /\ DOMAIN q = 1..l /\ q = [i \in 1..l |-> q[i]]
  OBVIOUS
<1>2. \A i \in 1..l : q[i] \in T
  BY <1>1 DEF Elements
<1>3. q \in Injection(1..l, T)
  <2>1. q \in [1..l -> T]
    BY <1>1, <1>2
  <2>2. \A i, j \in 1..l : q[i] = q[j] => i = j
    BY <1>1 DEF NoRepeats
  <2> QED BY <2>1, <2>2 DEF Injection, IsInjective
<1> HIDE DEF l
<1>4. Cardinality(1..l) <= Cardinality(T)
  BY <1>3, FS_Injection DEF ExistsInjection
<1>5. Cardinality(1..l) = l
  <2>1. l \in Nat
    BY <1>1
  <2> QED BY <2>1, FS_Interval
<1> QED BY <1>4, <1>5 DEF l

(* Erasing makes no queue longer.                                          *)
LEMMA WithoutShorter ==
  ASSUME NEW R, NEW q \in Seq(R), NEW S
  PROVE  Len(Without(q, S)) <= Len(q)
<1> DEFINE T == Elements(q) \ S
           K == Positions(q, T)
<1>1. Len(q) \in Nat /\ K \subseteq 1..Len(q)
  BY DEF Positions
<1>2. IsFiniteSet(1..Len(q)) /\ Cardinality(1..Len(q)) = Len(q)
  <2>1. Len(q) \in Nat
    BY <1>1
  <2> QED BY <2>1, FS_Interval
<1>3. Cardinality(K) <= Len(q)
  BY <1>1, <1>2, FS_Subset
<1>4. Len(Without(q, S)) = Cardinality(K)
  <2>1. Cardinality(K) \in Nat
    BY KeepPositions
  <2>2. PICK pos \in [1..Cardinality(K) -> K] :
           /\ Keep(q, T) = [n \in 1..Cardinality(K) |-> q[pos[n]]]
           /\ \A i \in K : \E n \in 1..Cardinality(K) : pos[n] = i
           /\ \A m, n \in 1..Cardinality(K) : m < n => pos[m] < pos[n]
    BY KeepPositions
  <2> HIDE DEF K
  <2> QED BY <2>1, <2>2 DEF Without
<1> QED BY <1>3, <1>4

(* The first n elements of a queue are at most n.                          *)
LEMMA PrefixCardinality ==
  ASSUME NEW q, NEW n \in Nat
  PROVE  /\ IsFiniteSet({q[i] : i \in 1..n})
         /\ Cardinality({q[i] : i \in 1..n}) \in Nat
         /\ Cardinality({q[i] : i \in 1..n}) <= n
<1> DEFINE f == [i \in 1..n |-> q[i]]
           S == {f[i] : i \in 1..n}
<1>1. IsFiniteSet(1..n) /\ Cardinality(1..n) = n
  BY FS_Interval
<1>2. S = {q[i] : i \in 1..n}
  OBVIOUS
<1>3. f \in Surjection(1..n, S)
  BY DEF Surjection
<1> HIDE DEF f
<1>4. IsFiniteSet(S) /\ Cardinality(S) <= Cardinality(1..n)
  BY <1>1, <1>3, FS_Surjection DEF ExistsSurjection
<1> QED BY <1>1, <1>2, <1>4, FS_CardinalityType

-----------------------------------------------------------------------------
(* FlattenSeq of the community modules is recursive; what it computes      *)
(* follows by induction on the length, from the least-number principle     *)
(* (LeastNatural).                                                         *)

Flattening(s, f) ==
  f = [i \in 1..Len(s) |-> IF i = 1 THEN s[i] ELSE f[i - 1] \o s[i]]

(* The recursion has a solution.                                           *)
LEMMA FlatteningExists ==
  ASSUME NEW X, NEW s \in Seq(X)
  PROVE  \E f : Flattening(s, f)
<1> DEFINE Sol(m, f) == f = [i \in 1..m |-> IF i = 1 THEN s[i] ELSE f[i - 1] \o s[i]]
           T == {m \in Nat : ~ \E f : Sol(m, f)}
<1>1. T = {}
  <2> SUFFICES ASSUME T # {} PROVE FALSE
    OBVIOUS
  <2>1. PICK m \in T : \A k \in T : m <= k
    BY LeastNatural
  <2>2. m \in Nat /\ ~ \E f : Sol(m, f)
    OBVIOUS
  <2>3. m # 0
    <3>1. Sol(0, [i \in {} |-> <<>>])
      OBVIOUS
    <3> QED BY <2>2, <3>1
  <2>4. m - 1 \in Nat /\ ~ (m <= m - 1)
    BY <2>2, <2>3
  <2>5. PICK g : Sol(m - 1, g)
    BY <2>1, <2>4
  <2> DEFINE h == [i \in 1..m |-> IF i < m THEN g[i] ELSE IF i = 1 THEN s[i] ELSE g[i - 1] \o s[i]]
  <2>6. Sol(m, h)
    <3>1. ASSUME NEW i \in 1..m
          PROVE  h[i] = IF i = 1 THEN s[i] ELSE h[i - 1] \o s[i]
      <4>1. CASE i < m
        <5>1. i \in 1..(m - 1)
          BY <2>2, <4>1
        <5>2. g[i] = IF i = 1 THEN s[i] ELSE g[i - 1] \o s[i]
          BY <2>5, <5>1
        <5>3. h[i] = g[i] /\ (i # 1 => h[i - 1] = g[i - 1])
          BY <2>2, <4>1
        <5> QED BY <5>2, <5>3
      <4>2. CASE i = m
        <5>1. i # 1 => h[i - 1] = g[i - 1]
          BY <2>2, <4>2
        <5> QED BY <2>2, <4>2, <5>1
      <4> QED BY <2>2, <4>1, <4>2
    <3>2. h = [i \in 1..m |-> h[i]]
      OBVIOUS
    <3> HIDE DEF h
    <3> QED BY <3>1, <3>2
  <2> QED BY <2>2, <2>6
<1>2. Len(s) \in Nat
  OBVIOUS
<1> QED BY <1>1, <1>2 DEF Flattening

(* The solution that FlattenSeq takes.                                     *)
LEMMA FlattenSolution ==
  ASSUME NEW X, NEW s \in Seq(X)
  PROVE  \E f : /\ Flattening(s, f)
                /\ FlattenSeq(s) = IF Len(s) = 0 THEN s ELSE f[Len(s)]
<1> DEFINE f == CHOOSE g : g = [i \in 1..Len(s) |-> IF i = 1 THEN s[i] ELSE g[i - 1] \o s[i]]
<1>1. Flattening(s, f)
  BY FlatteningExists DEF Flattening
<1>2. FlattenSeq(s) = IF Len(s) = 0 THEN s ELSE f[Len(s)]
  BY DEF FlattenSeq
<1> QED BY <1>1, <1>2

(* The solution on a prefix depends on the prefix only, and its values are *)
(* sequences.                                                              *)
LEMMA FlatteningUnique ==
  ASSUME NEW X, NEW s \in Seq(Seq(X)), NEW t \in Seq(Seq(X)), NEW f, NEW g,
         Flattening(s, f), Flattening(t, g), NEW n \in Nat, n <= Len(s), n <= Len(t),
         \A i \in 1..n : s[i] = t[i]
  PROVE  \A i \in 1..n : f[i] = g[i] /\ f[i] \in Seq(X)
<1> DEFINE T == {i \in 1..n : ~(f[i] = g[i] /\ f[i] \in Seq(X))}
<1> SUFFICES ASSUME T # {} PROVE FALSE
  OBVIOUS
<1>1. PICK m \in T : \A k \in T : m <= k
  <2>1. T \subseteq Nat
    OBVIOUS
  <2> HIDE DEF T
  <2> QED BY <2>1, LeastNatural
<1>2. m \in 1..n /\ ~(f[m] = g[m] /\ f[m] \in Seq(X))
  OBVIOUS
<1>3. /\ f[m] = IF m = 1 THEN s[m] ELSE f[m - 1] \o s[m]
      /\ g[m] = IF m = 1 THEN t[m] ELSE g[m - 1] \o t[m]
  <2>1. m \in 1..Len(s) /\ m \in 1..Len(t)
    BY <1>2
  <2> QED BY <2>1 DEF Flattening
<1>4. s[m] = t[m] /\ s[m] \in Seq(X)
  BY <1>2
<1>5. m = 1
  <2> SUFFICES ASSUME m # 1 PROVE FALSE
    OBVIOUS
  <2>1. m - 1 \in 1..n /\ ~ (m <= m - 1)
    BY <1>2
  <2>2. f[m - 1] = g[m - 1] /\ f[m - 1] \in Seq(X)
    BY <1>1, <2>1
  <2> QED BY <1>2, <1>3, <1>4, <2>2
<1> QED BY <1>2, <1>3, <1>4, <1>5

LEMMA FlattenAppend ==
  ASSUME NEW X, NEW s \in Seq(Seq(X)), NEW x \in Seq(X)
  PROVE  /\ FlattenSeq(s) \in Seq(X)
         /\ FlattenSeq(Append(s, x)) = FlattenSeq(s) \o x
<1> DEFINE t == Append(s, x)
           n == Len(s)
<1>1. /\ t \in Seq(Seq(X)) /\ Len(t) = n + 1 /\ n \in Nat
      /\ t[n + 1] = x /\ \A i \in 1..n : s[i] = t[i]
  OBVIOUS
<1>2. PICK f : /\ Flattening(s, f)
               /\ FlattenSeq(s) = IF Len(s) = 0 THEN s ELSE f[Len(s)]
  BY FlattenSolution
<1>3. PICK g : /\ Flattening(t, g)
               /\ FlattenSeq(t) = IF Len(t) = 0 THEN t ELSE g[Len(t)]
  BY <1>1, FlattenSolution
<1> HIDE DEF t
<1>4. \A i \in 1..n : f[i] = g[i] /\ f[i] \in Seq(X)
  <2>1. n <= Len(s) /\ n <= Len(t)
    BY <1>1
  <2> QED BY <1>1, <1>2, <1>3, <2>1, FlatteningUnique
<1>5. g[n + 1] = IF n + 1 = 1 THEN x ELSE g[n] \o x
  <2>1. n + 1 \in 1..Len(t) /\ (n + 1) - 1 = n
    BY <1>1
  <2>2. g[n + 1] = IF n + 1 = 1 THEN t[n + 1] ELSE g[(n + 1) - 1] \o t[n + 1]
    BY <1>3, <2>1 DEF Flattening
  <2> QED BY <1>1, <2>1, <2>2
<1>6. FlattenSeq(t) = g[n + 1]
  BY <1>1, <1>3
<1>7. CASE n = 0
  <2>1. s = <<>> /\ FlattenSeq(s) = <<>>
    BY <1>2, <1>7
  <2>2. FlattenSeq(t) = x
    BY <1>5, <1>6, <1>7
  <2>3. <<>> \o x = x
    OBVIOUS
  <2>4. FlattenSeq(s) \in Seq(X)
    <3>1. <<>> \in Seq(X)
      OBVIOUS
    <3> QED BY <2>1, <3>1, Zenon
  <2>5. FlattenSeq(t) = FlattenSeq(s) \o x
    BY <2>1, <2>2, <2>3
  <2> QED BY <2>4, <2>5 DEF t
<1>8. CASE n # 0
  <2>1. n \in 1..n /\ n + 1 # 1
    BY <1>1, <1>8
  <2>2. FlattenSeq(s) = f[n] /\ f[n] \in Seq(X) /\ f[n] = g[n]
    BY <1>2, <1>4, <1>8, <2>1
  <2> QED BY <1>5, <1>6, <2>1, <2>2 DEF t
<1> QED BY <1>7, <1>8

(* Concatenation is associative.                                           *)
LEMMA Regroup ==
  ASSUME NEW X, NEW x \in Seq(X), NEW y \in Seq(X), NEW z \in Seq(X)
  PROVE  (x \o y) \o z = x \o (y \o z)
<1>1. /\ (x \o y) \o z \in Seq(X) /\ x \o (y \o z) \in Seq(X)
      /\ Len((x \o y) \o z) = Len(x \o (y \o z))
  OBVIOUS
<1>2. ASSUME NEW i \in 1..Len((x \o y) \o z)
      PROVE  ((x \o y) \o z)[i] = (x \o (y \o z))[i]
  OBVIOUS
<1> QED BY <1>1, <1>2, SeqEqual

(* The same, of an operator the provers do not look into.                  *)
Cat(x, y) == x \o y

LEMMA CatRegroup ==
  ASSUME NEW X, NEW x \in Seq(X), NEW y \in Seq(X), NEW z \in Seq(X)
  PROVE  Cat(x, y) \in Seq(X) /\ Cat(Cat(x, y), z) = Cat(x, Cat(y, z))
<1>1. x \o y \in Seq(X)
  OBVIOUS
<1> QED BY <1>1, Regroup DEF Cat

LEMMA FlattenConcat ==
  ASSUME NEW X, NEW a \in Seq(Seq(X)), NEW b \in Seq(Seq(X))
  PROVE  FlattenSeq(a \o b) = FlattenSeq(a) \o FlattenSeq(b)
<1> DEFINE p(m) == SubSeq(b, 1, m)
           T == {m \in 0..Len(b) : FlattenSeq(a \o p(m)) # FlattenSeq(a) \o FlattenSeq(p(m))}
<1>1. T = {}
  <2> SUFFICES ASSUME T # {} PROVE FALSE
    OBVIOUS
  <2>1. PICK m \in T : \A k \in T : m <= k
    <3>1. T \subseteq Nat
      OBVIOUS
    <3> HIDE DEF T
    <3> QED BY <3>1, LeastNatural
  <2>2. m \in 0..Len(b) /\ FlattenSeq(a \o p(m)) # FlattenSeq(a) \o FlattenSeq(p(m))
    OBVIOUS
  <2>3. Len(b) \in Nat
    OBVIOUS
  <2>4. m # 0
    <3> SUFFICES ASSUME m = 0 PROVE FALSE
      OBVIOUS
    <3>1. p(0) = <<>> /\ a \o <<>> = a
      OBVIOUS
    <3>2. FlattenSeq(<<>>) = <<>>
      BY DEF FlattenSeq
    <3>3. FlattenSeq(a) \in Seq(X)
      <4>1. <<>> \in Seq(X)
        OBVIOUS
      <4> QED BY <4>1, FlattenAppend
    <3>4. FlattenSeq(a) \o <<>> = FlattenSeq(a)
      BY <3>3
    <3> QED BY <2>2, <3>1, <3>2, <3>4
  <2>5. m - 1 \in 0..Len(b) /\ ~ (m <= m - 1)
    BY <2>2, <2>3, <2>4
  <2>6. FlattenSeq(a \o p(m - 1)) = FlattenSeq(a) \o FlattenSeq(p(m - 1))
    BY <2>1, <2>5
  <2> DEFINE c == p(m - 1)
  <2>7. /\ c \in Seq(Seq(X)) /\ b[m] \in Seq(X)
        /\ p(m) = Append(c, b[m])
        /\ a \o Append(c, b[m]) = Append(a \o c, b[m])
        /\ a \o c \in Seq(Seq(X))
    <3>1. m \in 1..Len(b)
      BY <2>2, <2>4
    <3>2. c \in Seq(Seq(X)) /\ b[m] \in Seq(X)
      BY <3>1
    <3>3. p(m) = Append(c, b[m])
      BY <3>1
    <3> HIDE DEF c
    <3> QED BY <3>2, <3>3
  <2> HIDE DEF p, c
  <2>8. /\ FlattenSeq(p(m)) = FlattenSeq(c) \o b[m]
        /\ FlattenSeq(a \o p(m)) = FlattenSeq(a \o c) \o b[m]
        /\ FlattenSeq(a) \in Seq(X) /\ FlattenSeq(c) \in Seq(X)
    <3>1. FlattenSeq(Append(c, b[m])) = FlattenSeq(c) \o b[m] /\ FlattenSeq(c) \in Seq(X)
      BY <2>7, FlattenAppend
    <3>2. FlattenSeq(Append(a \o c, b[m])) = FlattenSeq(a \o c) \o b[m]
      BY <2>7, FlattenAppend
    <3>3. FlattenSeq(a) \in Seq(X)
      BY <2>7, FlattenAppend
    <3> QED BY <2>7, <3>1, <3>2, <3>3
  <2>9. (FlattenSeq(a) \o FlattenSeq(c)) \o b[m] = FlattenSeq(a) \o (FlattenSeq(c) \o b[m])
    <3>1. FlattenSeq(a) \in Seq(X) /\ FlattenSeq(c) \in Seq(X) /\ b[m] \in Seq(X)
      BY <2>7, <2>8
    <3> DEFINE A == FlattenSeq(a)
               C == FlattenSeq(c)
               d == b[m]
    <3> HIDE DEF T, A, C, d
    <3>2. A \in Seq(X) /\ C \in Seq(X) /\ d \in Seq(X)
      BY <3>1 DEF A, C, d
    <3>3. Cat(Cat(A, C), d) = Cat(A, Cat(C, d))
      BY <3>2, CatRegroup
    <3>4. (A \o C) \o d = A \o (C \o d)
      BY <3>3 DEF Cat
    <3> QED BY <3>4 DEF A, C, d
  <2>10. FlattenSeq(a \o c) = FlattenSeq(a) \o FlattenSeq(c)
    BY <2>6 DEF c
  <2> QED BY <2>2, <2>8, <2>9, <2>10
<1>2. Len(b) \in 0..Len(b) /\ p(Len(b)) = b
  OBVIOUS
<1> QED BY <1>1, <1>2
=============================================================================
