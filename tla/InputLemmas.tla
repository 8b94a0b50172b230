------------------------------ MODULE InputLemmas -------------------------------
(***************************************************************************)
(* Facts about the inputs of a request: their tokens when they are joined, *)
(* split, cut into chunks or popped.                                       *)
(***************************************************************************)
EXTENDS RequestInputs, QueueLemmas

-----------------------------------------------------------------------------
(* The tokens of inputs.                                                   *)

(* No inputs have no tokens.                                               *)
LEMMA IdsEmpty == IdsOf(<<>>) = <<>> /\ LengthOf(<<>>) = 0
<1>1. [i \in DOMAIN <<>> |-> <<>>[i].ids] = <<>>
  OBVIOUS
<1>2. FlattenSeq(<<>>) = <<>>
  BY DEF FlattenSeq
<1> QED BY <1>1, <1>2 DEF IdsOf, LengthOf

LEMMA IdsSequence ==
  ASSUME NEW a \in Seq(Data)
  PROVE  /\ [i \in DOMAIN a |-> a[i].ids] \in Seq(Seq(Nat))
         /\ Len([i \in DOMAIN a |-> a[i].ids]) = Len(a)
<1> DEFINE s == [i \in DOMAIN a |-> a[i].ids]
           n == Len(a)
<1>1. n \in Nat /\ DOMAIN a = 1..n
  OBVIOUS
<1>2. ASSUME NEW i \in 1..n PROVE a[i].ids \in Seq(Nat)
  <2>1. a[i] \in Data
    BY <1>1
  <2> HIDE DEF n
  <2> QED BY <2>1 DEF Data
<1> HIDE DEF n
<1>3. s \in [1..n -> Seq(Nat)]
  BY <1>1, <1>2
<1>4. s \in Seq(Seq(Nat)) /\ Len(s) = n
  BY <1>1, <1>3
<1> QED BY <1>4 DEF n

LEMMA IdsType ==
  ASSUME NEW a \in Seq(Data)
  PROVE  IdsOf(a) \in Seq(Nat) /\ LengthOf(a) \in Nat /\ LengthOf(a) = Len(IdsOf(a))
<1> DEFINE s == [i \in DOMAIN a |-> a[i].ids]
<1>1. s \in Seq(Seq(Nat))
  BY IdsSequence
<1>2. <<>> \in Seq(Nat)
  OBVIOUS
<1>3. FlattenSeq(s) \in Seq(Nat)
  BY <1>1, <1>2, FlattenAppend
<1> HIDE DEF s
<1>4. IdsOf(a) \in Seq(Nat)
  BY <1>3 DEF IdsOf, s
<1> QED BY <1>4 DEF LengthOf

LEMMA IdsConcat ==
  ASSUME NEW a \in Seq(Data), NEW b \in Seq(Data)
  PROVE  /\ IdsOf(a \o b) = IdsOf(a) \o IdsOf(b)
         /\ LengthOf(a \o b) = LengthOf(a) + LengthOf(b)
<1> DEFINE s == [i \in DOMAIN a |-> a[i].ids]
           t == [i \in DOMAIN b |-> b[i].ids]
           u == [i \in DOMAIN (a \o b) |-> (a \o b)[i].ids]
<1>1. s \in Seq(Seq(Nat)) /\ t \in Seq(Seq(Nat)) /\ u \in Seq(Seq(Nat))
  <2>1. a \o b \in Seq(Data)
    OBVIOUS
  <2> QED BY <2>1, IdsSequence
<1>2. u = s \o t
  <2>1. Len(u) = Len(a) + Len(b) /\ Len(s) = Len(a) /\ Len(t) = Len(b)
    OBVIOUS
  <2>2. ASSUME NEW i \in 1..Len(u) PROVE u[i] = (s \o t)[i]
    <3>1. /\ u[i] = (a \o b)[i].ids
          /\ (s \o t)[i] = IF i <= Len(a) THEN s[i] ELSE t[i - Len(a)]
      BY <1>1, <2>1
    <3>2. (a \o b)[i] = IF i <= Len(a) THEN a[i] ELSE b[i - Len(a)]
      BY <2>1
    <3>3. i <= Len(a) => s[i] = a[i].ids
      BY <2>1
    <3>4. ~(i <= Len(a)) => t[i - Len(a)] = b[i - Len(a)].ids
      BY <2>1
    <3> QED BY <3>1, <3>2, <3>3, <3>4
  <2>3. s \o t \in Seq(Seq(Nat)) /\ Len(s \o t) = Len(u)
    <3> HIDE DEF s, t, u
    <3> QED BY <1>1, <2>1
  <2> QED BY <1>1, <2>2, <2>3, SeqEqual
<1>3. FlattenSeq(u) = FlattenSeq(s) \o FlattenSeq(t)
  BY <1>1, <1>2, FlattenConcat
<1> HIDE DEF s, t, u
<1>4. IdsOf(a \o b) = IdsOf(a) \o IdsOf(b)
  BY <1>3 DEF IdsOf, s, t, u
<1>5. Len(IdsOf(a) \o IdsOf(b)) = Len(IdsOf(a)) + Len(IdsOf(b))
  BY IdsType
<1> QED BY <1>4, <1>5 DEF LengthOf

LEMMA IdsOne ==
  ASSUME NEW d \in Data
  PROVE  IdsOf(<<d>>) = d.ids /\ LengthOf(<<d>>) = Len(d.ids)
<1> DEFINE s == [i \in DOMAIN <<d>> |-> <<d>>[i].ids]
<1>1. s = <<d.ids>> /\ d.ids \in Seq(Nat)
  BY DEF Data
<1>2. FlattenSeq(Append(<<>>, d.ids)) = FlattenSeq(<<>>) \o d.ids
  <2>1. <<>> \in Seq(Seq(Nat))
    OBVIOUS
  <2> QED BY <1>1, <2>1, FlattenAppend
<1>3. FlattenSeq(<<>>) = <<>> /\ Append(<<>>, d.ids) = <<d.ids>> /\ <<>> \o d.ids = d.ids
  BY <1>1 DEF FlattenSeq
<1>4. FlattenSeq(s) = d.ids
  BY <1>1, <1>2, <1>3
<1> HIDE DEF s
<1> QED BY <1>4 DEF IdsOf, LengthOf, s

(* Request::FromUntokenized changes the kind of a datum, not its tokens.   *)
LEMMA IdsTokenized ==
  ASSUME NEW a \in Seq(Data)
  PROVE  /\ FromUntokenized(a) \in Seq(Data) /\ Len(FromUntokenized(a)) = Len(a)
         /\ IdsOf(FromUntokenized(a)) = IdsOf(a)
<1> DEFINE b == FromUntokenized(a)
<1>1. \A i \in 1..Len(a) : b[i] \in Data /\ b[i].ids = a[i].ids
  <2> SUFFICES ASSUME NEW i \in 1..Len(a) PROVE b[i] \in Data /\ b[i].ids = a[i].ids
    OBVIOUS
  <2>1. a[i] \in Data
    OBVIOUS
  <2>2. b[i] = IF a[i].kind = "text" THEN [kind |-> "token", ids |-> a[i].ids] ELSE a[i]
    BY DEF FromUntokenized, Token
  <2> HIDE DEF b
  <2> QED BY <2>1, <2>2 DEF Data
<1>2. b = [i \in 1..Len(a) |-> b[i]]
  BY DEF FromUntokenized
<1>3. Len(a) \in Nat
  OBVIOUS
<1> HIDE DEF b
<1>4. b \in Seq(Data) /\ Len(b) = Len(a) /\ DOMAIN b = DOMAIN a
  BY <1>1, <1>2, <1>3
<1>5. [i \in DOMAIN b |-> b[i].ids] = [i \in DOMAIN a |-> a[i].ids]
  BY <1>1, <1>4
<1>6. IdsOf(b) = IdsOf(a)
  BY <1>5 DEF IdsOf
<1> QED BY <1>4, <1>6 DEF b

-----------------------------------------------------------------------------
(* Taking inputs apart between data and inside one.                        *)

LEMMA Parted ==
  ASSUME NEW a \in Seq(Data), NEW k \in 0..Len(a)
  PROVE  /\ UpTo(a, k) \in Seq(Data) /\ Len(UpTo(a, k)) = k
         /\ Behind(a, k) \in Seq(Data) /\ Len(Behind(a, k)) = Len(a) - k
         /\ IdsOf(UpTo(a, k)) \o IdsOf(Behind(a, k)) = IdsOf(a)
         /\ Reach(a, k) \in Nat
         /\ LengthOf(a) = Reach(a, k) + LengthOf(Behind(a, k))
<1>1. /\ UpTo(a, k) \in Seq(Data) /\ Len(UpTo(a, k)) = k
      /\ Behind(a, k) \in Seq(Data) /\ Len(Behind(a, k)) = Len(a) - k
  BY DEF UpTo, Behind
<1>2. UpTo(a, k) \o Behind(a, k) = a
  <2>1. 1 \in 1..(Len(a) + 1) /\ k \in (1 - 1)..Len(a) /\ Len(a) \in k..Len(a)
    OBVIOUS
  <2>2. SubSeq(a, 1, k) \o SubSeq(a, k + 1, Len(a)) = SubSeq(a, 1, Len(a))
    BY <2>1, ConcatAdjacentSubSeq
  <2>3. SubSeq(a, 1, Len(a)) = a
    OBVIOUS
  <2> QED BY <2>2, <2>3 DEF UpTo, Behind
<1>3. /\ IdsOf(UpTo(a, k) \o Behind(a, k)) = IdsOf(UpTo(a, k)) \o IdsOf(Behind(a, k))
      /\ LengthOf(UpTo(a, k) \o Behind(a, k)) = LengthOf(UpTo(a, k)) + LengthOf(Behind(a, k))
  BY <1>1, IdsConcat
<1>4. LengthOf(UpTo(a, k)) \in Nat
  BY <1>1, IdsType
<1> QED BY <1>1, <1>2, <1>3, <1>4 DEF Reach

LEMMA ReachEnds ==
  ASSUME NEW a \in Seq(Data)
  PROVE  Reach(a, 0) = 0 /\ Reach(a, Len(a)) = LengthOf(a)
<1>1. UpTo(a, 0) = <<>> /\ UpTo(a, Len(a)) = a
  BY DEF UpTo
<1> QED BY <1>1, IdsEmpty DEF Reach

LEMMA OneMore ==
  ASSUME NEW a \in Seq(Data), NEW k \in 1..Len(a)
  PROVE  /\ a[k] \in Data
         /\ IdsOf(UpTo(a, k)) = IdsOf(UpTo(a, k - 1)) \o a[k].ids
         /\ Reach(a, k) = Reach(a, k - 1) + Len(a[k].ids)
<1>1. k - 1 \in 0..Len(a) /\ a[k] \in Data
  OBVIOUS
<1>2. UpTo(a, k) = UpTo(a, k - 1) \o <<a[k]>>
  <2>1. 1 \in 1..Len(a) /\ k \in 1..Len(a)
    OBVIOUS
  <2> QED BY <2>1, SubSeqRecursiveSecond DEF UpTo
<1>3. UpTo(a, k - 1) \in Seq(Data) /\ <<a[k]>> \in Seq(Data)
  BY <1>1, Parted
<1>4. /\ IdsOf(UpTo(a, k)) = IdsOf(UpTo(a, k - 1)) \o IdsOf(<<a[k]>>)
      /\ LengthOf(UpTo(a, k)) = LengthOf(UpTo(a, k - 1)) + LengthOf(<<a[k]>>)
  BY <1>2, <1>3, IdsConcat
<1>5. IdsOf(<<a[k]>>) = a[k].ids /\ LengthOf(<<a[k]>>) = Len(a[k].ids)
  BY <1>1, IdsOne
<1> QED BY <1>1, <1>4, <1>5 DEF Reach

(* The two sides of a position inside a datum, as SplitData and            *)
(* ChunkPrefillInputData make them.                                        *)
LEMMA Cut ==
  ASSUME NEW a \in Seq(Data), NEW k \in 1..Len(a), NEW p \in Nat,
         Reach(a, k - 1) <= p, p <= Reach(a, k)
  PROVE  LET lhs == Append(UpTo(a, k - 1), Before(a, k, p))
             rhs == <<After(a, k, p)>> \o Behind(a, k) IN
         /\ lhs \in Seq(Data) /\ rhs \in Seq(Data)
         /\ Len(lhs) = k /\ Len(rhs) = Len(a) - k + 1
         /\ IdsOf(lhs) \o IdsOf(rhs) = IdsOf(a)
         /\ LengthOf(lhs) = p
<1> DEFINE lhs == Append(UpTo(a, k - 1), Before(a, k, p))
           rhs == <<After(a, k, p)>> \o Behind(a, k)
           m == p - Reach(a, k - 1)
           x == SubSeq(a[k].ids, 1, m)
           y == SubSeq(a[k].ids, m + 1, Len(a[k].ids))
           U == IdsOf(UpTo(a, k - 1))
           B == IdsOf(Behind(a, k))
<1>1. k - 1 \in 0..Len(a) /\ k \in 0..Len(a)
  OBVIOUS
<1>2. /\ a[k] \in Data
      /\ IdsOf(UpTo(a, k)) = U \o a[k].ids
      /\ Reach(a, k) = Reach(a, k - 1) + Len(a[k].ids)
  BY OneMore
<1>3. UpTo(a, k - 1) \in Seq(Data) /\ Reach(a, k - 1) \in Nat /\ Len(UpTo(a, k - 1)) = k - 1
  BY <1>1, Parted
<1>4. /\ Behind(a, k) \in Seq(Data) /\ Len(Behind(a, k)) = Len(a) - k
      /\ IdsOf(UpTo(a, k)) \o B = IdsOf(a)
  BY <1>1, Parted
<1>5. a[k].ids \in Seq(Nat) /\ Len(a[k].ids) \in Nat
  BY <1>2 DEF Data
<1>6. m \in 0..Len(a[k].ids)
  BY <1>2, <1>3, <1>5
<1>7. x \in Seq(Nat) /\ y \in Seq(Nat) /\ Len(x) = m /\ x \o y = a[k].ids
  <2> HIDE DEF m
  <2>1. x \in Seq(Nat) /\ y \in Seq(Nat) /\ Len(x) = m
    BY <1>5, <1>6
  <2>2. 1 \in 1..(Len(a[k].ids) + 1) /\ m \in (1 - 1)..Len(a[k].ids)
        /\ Len(a[k].ids) \in m..Len(a[k].ids)
    BY <1>5, <1>6
  <2>3. x \o y = SubSeq(a[k].ids, 1, Len(a[k].ids))
    BY <1>5, <2>2, ConcatAdjacentSubSeq
  <2>4. SubSeq(a[k].ids, 1, Len(a[k].ids)) = a[k].ids
    BY <1>5
  <2> QED BY <2>1, <2>3, <2>4
<1>8. /\ Before(a, k, p) = [kind |-> "token", ids |-> x]
      /\ After(a, k, p) = [kind |-> "token", ids |-> y]
  BY DEF Before, After, Token, GetLength
<1> HIDE DEF m, x, y
<1>9. /\ Before(a, k, p) \in Data /\ Before(a, k, p).ids = x
      /\ After(a, k, p) \in Data /\ After(a, k, p).ids = y
  BY <1>7, <1>8 DEF Data
<1>10. /\ <<Before(a, k, p)>> \in Seq(Data) /\ <<After(a, k, p)>> \in Seq(Data)
       /\ lhs = UpTo(a, k - 1) \o <<Before(a, k, p)>>
  BY <1>3, <1>9
<1>11. /\ lhs \in Seq(Data) /\ rhs \in Seq(Data)
       /\ Len(lhs) = k /\ Len(rhs) = Len(a) - k + 1
  BY <1>3, <1>4, <1>10
<1>12. IdsOf(lhs) = U \o x /\ LengthOf(lhs) = Reach(a, k - 1) + m
  <2>1. IdsOf(<<Before(a, k, p)>>) = x /\ LengthOf(<<Before(a, k, p)>>) = m
    BY <1>7, <1>9, IdsOne
  <2>2. /\ IdsOf(lhs) = U \o IdsOf(<<Before(a, k, p)>>)
        /\ LengthOf(lhs) = LengthOf(UpTo(a, k - 1)) + LengthOf(<<Before(a, k, p)>>)
    BY <1>3, <1>10, IdsConcat
  <2> QED BY <2>1, <2>2 DEF Reach
<1>13. IdsOf(rhs) = y \o B
  <2>1. IdsOf(<<After(a, k, p)>>) = y
    BY <1>9, IdsOne
  <2>2. IdsOf(rhs) = IdsOf(<<After(a, k, p)>>) \o B
    BY <1>4, <1>10, IdsConcat
  <2> QED BY <2>1, <2>2
<1>14. U \in Seq(Nat) /\ B \in Seq(Nat)
  BY <1>3, <1>4, IdsType
<1> HIDE DEF U, B, lhs, rhs
<1>15. (U \o x) \o (y \o B) = (U \o (x \o y)) \o B
  <2>1. x \in Seq(Nat)
    BY <1>7
  <2>2. y \in Seq(Nat)
    BY <1>7
  <2>3. U \in Seq(Nat)
    BY <1>14
  <2>4. B \in Seq(Nat)
    BY <1>14
  <2>5. Cat(x, y) \in Seq(Nat) /\ Cat(y, B) \in Seq(Nat)
    BY <2>1, <2>2, <2>4, CatRegroup
  <2>6. Cat(Cat(U, x), Cat(y, B)) = Cat(U, Cat(x, Cat(y, B)))
    BY <2>1, <2>3, <2>5, CatRegroup
  <2>7. Cat(Cat(x, y), B) = Cat(x, Cat(y, B))
    BY <2>1, <2>2, <2>4, CatRegroup
  <2>8. Cat(Cat(U, Cat(x, y)), B) = Cat(U, Cat(Cat(x, y), B))
    BY <2>3, <2>4, <2>5, CatRegroup
  <2> QED BY <2>6, <2>7, <2>8 DEF Cat
<1>16. IdsOf(lhs) \o IdsOf(rhs) = IdsOf(a)
  BY <1>2, <1>4, <1>7, <1>12, <1>13, <1>15
<1>17. LengthOf(lhs) = p
  BY <1>3, <1>12 DEF m
<1> QED BY <1>11, <1>16, <1>17 DEF lhs, rhs

-----------------------------------------------------------------------------
(* The data taken off the end come out backwards: as many tokens.          *)

LEMMA ReverseLength ==
  ASSUME NEW a \in Seq(Data)
  PROVE  Reverse(a) \in Seq(Data) /\ Len(Reverse(a)) = Len(a) /\ LengthOf(Reverse(a)) = LengthOf(a)
<1> DEFINE T == {m \in 0..Len(a) : LengthOf(Reverse(UpTo(a, m))) # Reach(a, m)}
<1>1. Len(a) \in Nat
  OBVIOUS
<1>2. ASSUME NEW b \in Seq(Data)
      PROVE  Reverse(b) \in Seq(Data) /\ Len(Reverse(b)) = Len(b)
  <2>1. \A i \in 1..Len(b) : (Len(b) - i) + 1 \in 1..Len(b)
    OBVIOUS
  <2> QED BY <2>1 DEF Reverse
<1>3. T = {}
  <2> SUFFICES ASSUME T # {} PROVE FALSE
    OBVIOUS
  <2>1. PICK m \in T : \A k \in T : m <= k
    <3>1. T \subseteq Nat
      OBVIOUS
    <3> HIDE DEF T
    <3> QED BY <3>1, LeastNatural
  <2>2. m \in 0..Len(a) /\ LengthOf(Reverse(UpTo(a, m))) # Reach(a, m)
    OBVIOUS
  <2>3. m # 0
    <3>1. UpTo(a, 0) = <<>> /\ Reverse(<<>>) = <<>>
      BY DEF UpTo, Reverse
    <3> QED BY <2>2, <3>1, IdsEmpty, ReachEnds
  <2>4. m \in 1..Len(a) /\ m - 1 \in 0..Len(a) /\ ~(m <= m - 1)
    BY <1>1, <2>2, <2>3
  <2>5. LengthOf(Reverse(UpTo(a, m - 1))) = Reach(a, m - 1)
    BY <2>1, <2>4
  <2> DEFINE c == UpTo(a, m - 1)
  <2>6. a[m] \in Data /\ Reach(a, m) = Reach(a, m - 1) + Len(a[m].ids)
    BY <2>4, OneMore
  <2>7. c \in Seq(Data) /\ Len(c) = m - 1 /\ Reach(a, m - 1) \in Nat
    BY <2>4, Parted
  <2>8. UpTo(a, m) = Append(c, a[m])
    BY <2>4 DEF UpTo
  <2> HIDE DEF c, T
  <2>9. Reverse(Append(c, a[m])) = <<a[m]>> \o Reverse(c)
    <3> DEFINE d == a[m]
               u == Append(c, d)
               v == <<d>> \o Reverse(c)
    <3>1. d \in Data
      BY <2>6
    <3> HIDE DEF d
    <3>2. u \in Seq(Data) /\ Len(u) = Len(c) + 1 /\ Len(c) \in Nat
      BY <2>7, <3>1
    <3>3. Reverse(u) \in Seq(Data) /\ Len(Reverse(u)) = Len(u)
      BY <1>2, <3>2
    <3>4. Reverse(c) \in Seq(Data) /\ Len(Reverse(c)) = Len(c)
      BY <1>2, <2>7
    <3>5. v \in Seq(Data) /\ Len(v) = Len(c) + 1
      BY <3>1, <3>4
    <3>6. ASSUME NEW i \in 1..Len(Reverse(u)) PROVE Reverse(u)[i] = v[i]
      <4>1. i \in 1..(Len(c) + 1)
        BY <3>2, <3>3
      <4>2. Reverse(u)[i] = u[(Len(u) - i) + 1]
        BY <3>2, <4>1 DEF Reverse
      <4>3. CASE i = 1
        <5>1. u[Len(c) + 1] = d /\ v[1] = d
          BY <2>7, <3>1, <3>4
        <5>2. (Len(u) - i) + 1 = Len(c) + 1
          BY <3>2, <4>3
        <5> QED BY <4>2, <4>3, <5>1, <5>2
      <4>4. CASE i # 1
        <5>1. i - 1 \in 1..Len(c) /\ (Len(u) - i) + 1 \in 1..Len(c)
              /\ (Len(u) - i) + 1 = (Len(c) - (i - 1)) + 1
          BY <3>2, <4>1, <4>4
        <5>2. u[(Len(u) - i) + 1] = c[(Len(u) - i) + 1]
          BY <2>7, <3>1, <5>1
        <5>3. Reverse(c)[i - 1] = c[(Len(c) - (i - 1)) + 1]
          BY <5>1 DEF Reverse
        <5>4. v[i] = Reverse(c)[i - 1]
          BY <3>1, <3>4, <4>1, <4>4
        <5> QED BY <4>2, <5>1, <5>2, <5>3, <5>4
      <4> QED BY <4>3, <4>4
    <3> HIDE DEF u, v
    <3>7. Reverse(u) = v
      BY <3>2, <3>3, <3>5, <3>6, SeqEqual
    <3> QED BY <3>7 DEF u, v, d
  <2>10. LengthOf(<<a[m]>> \o Reverse(c)) = LengthOf(<<a[m]>>) + LengthOf(Reverse(c))
    <3>1. Reverse(c) \in Seq(Data) /\ <<a[m]>> \in Seq(Data)
      BY <1>2, <2>6, <2>7
    <3> QED BY <3>1, IdsConcat
  <2>11. LengthOf(<<a[m]>>) = Len(a[m].ids) /\ Len(a[m].ids) \in Nat
    <3>1. a[m].ids \in Seq(Nat)
      BY <2>6 DEF Data
    <3> QED BY <2>6, <3>1, IdsOne
  <2>12. LengthOf(Reverse(c)) = Reach(a, m - 1)
    BY <2>5 DEF c
  <2>13. LengthOf(Reverse(UpTo(a, m))) = Len(a[m].ids) + Reach(a, m - 1)
    BY <2>8, <2>9, <2>10, <2>11, <2>12
  <2> QED BY <2>2, <2>6, <2>7, <2>11, <2>13
<1>4. UpTo(a, Len(a)) = a
  BY DEF UpTo
<1>5. LengthOf(Reverse(UpTo(a, Len(a)))) = Reach(a, Len(a))
  BY <1>1, <1>3
<1> QED BY <1>2, <1>4, <1>5, ReachEnds

-----------------------------------------------------------------------------
(* The extreme positions that SplitData, ChunkPrefillInputData and         *)
(* PopPrefillInputData look for.                                           *)

LEMMA MinOf ==
  ASSUME NEW T, T \subseteq Nat, T # {}
  PROVE  Min(T) \in T /\ \A k \in T : Min(T) <= k
BY LeastNatural DEF Min

LEMMA MaxOf ==
  ASSUME NEW n \in Nat, NEW T, T \subseteq 0..n, T # {}
  PROVE  Max(T) \in T /\ \A k \in T : k <= Max(T)
<1> DEFINE D == {n - k : k \in T}
<1>1. D \subseteq Nat /\ D # {}
  <2>1. \A k \in T : n - k \in Nat
    OBVIOUS
  <2>2. PICK k \in T : TRUE
    OBVIOUS
  <2>3. n - k \in D
    OBVIOUS
  <2> QED BY <2>1, <2>3
<1>2. PICK d \in D : \A k \in D : d <= k
  <2> HIDE DEF D
  <2> QED BY <1>1, LeastNatural
<1>3. PICK m \in T : d = n - m
  OBVIOUS
<1>4. \A k \in T : m >= k
  <2> SUFFICES ASSUME NEW k \in T PROVE m >= k
    OBVIOUS
  <2>1. n - k \in D
    OBVIOUS
  <2>2. d <= n - k
    BY <1>2, <2>1
  <2>3. m \in 0..n /\ k \in 0..n
    OBVIOUS
  <2> HIDE DEF D
  <2> QED BY <1>3, <2>2, <2>3
<1> HIDE DEF D
<1>5. Max(T) \in T /\ \A k \in T : Max(T) >= k
  BY <1>4, Zenon DEF Max
<1>6. \A k \in T : k \in Int
  OBVIOUS
<1> QED BY <1>5, <1>6

(* What is joined begins with its first part.                              *)
LEMMA JoinedPrefix ==
  ASSUME NEW a \in Seq(Data), NEW b \in Seq(Data), NEW c \in Seq(Data),
         IdsOf(a) \o IdsOf(b) = IdsOf(c)
  PROVE  /\ IdsOf(a) = SubSeq(IdsOf(c), 1, LengthOf(a))
         /\ LengthOf(c) = LengthOf(a) + LengthOf(b)
<1> DEFINE x == IdsOf(a)
           y == IdsOf(b)
<1>1. x \in Seq(Nat) /\ y \in Seq(Nat) /\ LengthOf(a) = Len(x) /\ LengthOf(b) = Len(y)
  BY IdsType
<1> HIDE DEF x, y
<1>2. Len(x \o y) = Len(x) + Len(y)
  BY <1>1
<1>3. x = SubSeq(x \o y, 1, Len(x))
  <2> DEFINE z == SubSeq(x \o y, 1, Len(x))
  <2>1. z \in Seq(Nat) /\ Len(z) = Len(x) /\ \A i \in 1..Len(x) : x[i] = z[i]
    BY <1>1
  <2> HIDE DEF z
  <2>2. x = z
    BY <1>1, <2>1, SeqEqual
  <2> QED BY <2>2 DEF z
<1>4. LengthOf(c) = Len(x \o y) /\ IdsOf(c) = x \o y
  BY DEF LengthOf, x, y
<1> QED BY <1>1, <1>2, <1>3, <1>4 DEF x

-----------------------------------------------------------------------------
(* A cut at the edge of a datum with at most one datum behind it: there is *)
(* nothing to turn round.                                                  *)
Unturned(a, p) == \A k \in 0..Len(a) : Reach(a, k) = p => k + 1 >= Len(a)

LEMMA ReverseShort ==
  ASSUME NEW a \in Seq(Data), Len(a) <= 1
  PROVE  Reverse(a) = a
<1>1. Reverse(a) \in Seq(Data) /\ Len(Reverse(a)) = Len(a) /\ Len(a) \in Nat
  BY ReverseLength
<1>2. ASSUME NEW i \in 1..Len(a) PROVE Reverse(a)[i] = a[i]
  <2>1. i = (Len(a) - i) + 1
    BY <1>1
  <2> QED BY <2>1 DEF Reverse
<1> DEFINE b == Reverse(a)
<1> HIDE DEF b
<1> QED BY <1>1, <1>2, SeqEqual DEF b

LEMMA ReachTokenized ==
  ASSUME NEW a \in Seq(Data), NEW k \in 0..Len(a)
  PROVE  Reach(FromUntokenized(a), k) = Reach(a, k)
<1> DEFINE b == FromUntokenized(a)
<1>1. b \in Seq(Data) /\ Len(b) = Len(a) /\ Len(a) \in Nat
  BY IdsTokenized
<1>2. UpTo(a, k) \in Seq(Data) /\ Len(UpTo(a, k)) = k /\ DOMAIN UpTo(a, k) = 1..k
  BY Parted
<1>3. UpTo(b, k) = [i \in 1..k |-> b[i]] /\ UpTo(a, k) = [i \in 1..k |-> a[i]]
  <2> HIDE DEF b
  <2> QED BY <1>1 DEF UpTo
<1>4. \A i \in 1..k : b[i] = IF a[i].kind = "text" THEN Token(a[i].ids) ELSE a[i]
  BY <1>1 DEF FromUntokenized
<1>5. UpTo(b, k) = FromUntokenized(UpTo(a, k))
  <2> HIDE DEF b
  <2> QED BY <1>2, <1>3, <1>4 DEF FromUntokenized
<1>6. IdsOf(FromUntokenized(UpTo(a, k))) = IdsOf(UpTo(a, k))
  BY <1>2, IdsTokenized
<1> QED BY <1>5, <1>6 DEF Reach, LengthOf

(* SplitData: the left side has the tokens up to the position, the right   *)
(* side as many as follow it, and in their order unless it is turned       *)
(* round.                                                                  *)
LEMMA SplitFacts ==
  ASSUME NEW a \in Seq(Data), NEW p \in 0..LengthOf(a)
  PROVE  LET s == SplitData(a, p) IN
         /\ s.lhs \in Seq(Data) /\ s.rhs \in Seq(Data)
         /\ LengthOf(s.lhs) = p /\ LengthOf(s.rhs) = LengthOf(a) - p
         /\ IdsOf(s.lhs) = SubSeq(IdsOf(a), 1, p)
         /\ Unturned(a, p) \/ Len(s.rhs) = 1 => IdsOf(s.lhs) \o IdsOf(s.rhs) = IdsOf(a)
<1> DEFINE s == SplitData(a, p)
           ends == {k \in 0..Len(a) : Reach(a, k) = p}
           over == {k \in 1..Len(a) : Reach(a, k) > p}
           n == Max(ends)
           c == Min(over)
<1>1. s = IF ends # {} THEN [lhs |-> UpTo(a, n), rhs |-> Reverse(Behind(a, n))]
          ELSE [lhs |-> Append(UpTo(a, c - 1), Before(a, c, p)),
                rhs |-> <<After(a, c, p)>> \o Behind(a, c)]
  BY DEF SplitData
<1>2. Len(a) \in Nat /\ LengthOf(a) \in Nat /\ p \in Nat /\ p <= LengthOf(a)
  BY IdsType
<1>3. CASE ends # {}
  <2>1. n \in ends
    <3>1. ends \subseteq 0..Len(a)
      OBVIOUS
    <3> HIDE DEF ends
    <3> QED BY <1>2, <1>3, <3>1, MaxOf
  <2>2. n \in 0..Len(a) /\ Reach(a, n) = p
    BY <2>1
  <2> HIDE DEF n, s, ends
  <2>3. /\ UpTo(a, n) \in Seq(Data) /\ Behind(a, n) \in Seq(Data)
        /\ IdsOf(UpTo(a, n)) \o IdsOf(Behind(a, n)) = IdsOf(a)
        /\ LengthOf(a) = Reach(a, n) + LengthOf(Behind(a, n))
    BY <2>2, Parted
  <2>4. /\ s.lhs = UpTo(a, n) /\ s.rhs = Reverse(Behind(a, n))
    BY <1>1, <1>3
  <2>5. /\ Reverse(Behind(a, n)) \in Seq(Data)
        /\ LengthOf(Reverse(Behind(a, n))) = LengthOf(Behind(a, n))
    BY <2>3, ReverseLength
  <2>6. LengthOf(Behind(a, n)) \in Nat
    BY <2>3, IdsType
  <2>7. LengthOf(UpTo(a, n)) = p
    BY <2>2 DEF Reach
  <2>8. LengthOf(Behind(a, n)) = LengthOf(a) - p
    BY <1>2, <2>2, <2>3, <2>6
  <2>9. IdsOf(UpTo(a, n)) = SubSeq(IdsOf(a), 1, p)
    BY <2>3, <2>7, JoinedPrefix
  <2>10. ASSUME Unturned(a, p) \/ Len(s.rhs) = 1
         PROVE  IdsOf(s.lhs) \o IdsOf(s.rhs) = IdsOf(a)
    <3>1. Len(Behind(a, n)) = Len(a) - n /\ Len(Reverse(Behind(a, n))) = Len(Behind(a, n))
      BY <2>2, <2>3, Parted, ReverseLength
    <3>2. Len(Behind(a, n)) <= 1
      <4>1. CASE Unturned(a, p)
        <5>1. n + 1 >= Len(a)
          BY <2>2, <4>1 DEF Unturned
        <5> QED BY <1>2, <2>2, <3>1, <5>1
      <4>2. CASE Len(s.rhs) = 1
        <5>1. Len(s.rhs) = Len(Behind(a, n))
          BY <2>4, <3>1, Zenon
        <5>2. Len(Behind(a, n)) = 1
          BY <4>2, <5>1, Zenon
        <5> QED BY <5>2
      <4> QED BY <2>10, <4>1, <4>2
    <3>3. s.rhs = Behind(a, n)
      BY <2>3, <2>4, <3>2, ReverseShort
    <3> QED BY <2>3, <2>4, <3>3
  <2> QED BY <2>3, <2>4, <2>5, <2>7, <2>8, <2>9, <2>10 DEF s
<1>4. CASE ends = {}
  <2>1. Reach(a, Len(a)) = LengthOf(a) /\ Reach(a, 0) = 0
    BY ReachEnds
  <2>2. 0 \notin ends /\ Len(a) \notin ends
    BY <1>4
  <2>3. p # 0 /\ p # LengthOf(a)
    BY <1>2, <2>1, <2>2
  <2>4. Len(a) # 0
    BY <1>2, <2>1, <2>3
  <2>5. Len(a) \in over
    BY <1>2, <2>1, <2>3, <2>4
  <2>6. c \in over /\ \A k \in over : c <= k
    <3>1. over \subseteq Nat
      OBVIOUS
    <3> HIDE DEF over
    <3> QED BY <2>5, <3>1, MinOf
  <2>7. c \in 1..Len(a) /\ Reach(a, c) > p
    BY <2>6
  <2>8. Reach(a, c - 1) <= p
    <3>1. CASE c = 1
      BY <1>2, <2>1, <3>1
    <3>2. CASE c # 1
      <4>1. c - 1 \in 1..Len(a) /\ ~(c <= c - 1)
        BY <1>2, <2>7, <3>2
      <4>2. ~(Reach(a, c - 1) > p)
        BY <2>6, <4>1
      <4>3. Reach(a, c - 1) \in Nat
        BY <4>1, Parted
      <4> QED BY <1>2, <4>2, <4>3
    <3> QED BY <3>1, <3>2
  <2> HIDE DEF c, s, ends, over
  <2> DEFINE lhs == Append(UpTo(a, c - 1), Before(a, c, p))
             rhs == <<After(a, c, p)>> \o Behind(a, c)
  <2>9. Reach(a, c) \in Nat
    <3>1. c \in 0..Len(a)
      BY <2>7
    <3> QED BY <3>1, Parted
  <2>10. p <= Reach(a, c)
    BY <1>2, <2>7, <2>9
  <2>11. /\ lhs \in Seq(Data) /\ rhs \in Seq(Data)
         /\ IdsOf(lhs) \o IdsOf(rhs) = IdsOf(a)
         /\ LengthOf(lhs) = p
    BY <1>2, <2>7, <2>8, <2>10, Cut
  <2>12. s.lhs = lhs /\ s.rhs = rhs
    BY <1>1, <1>4
  <2> HIDE DEF lhs, rhs
  <2>13. LengthOf(rhs) = LengthOf(a) - p
    <3>1. Len(IdsOf(lhs) \o IdsOf(rhs)) = Len(IdsOf(lhs)) + Len(IdsOf(rhs))
      BY <2>11, IdsType
    <3>2. LengthOf(lhs) = Len(IdsOf(lhs)) /\ LengthOf(rhs) = Len(IdsOf(rhs)) /\ LengthOf(rhs) \in Nat
      BY <2>11, IdsType
    <3>3. LengthOf(a) = Len(IdsOf(a))
      BY DEF LengthOf
    <3> QED BY <1>2, <2>11, <3>1, <3>2, <3>3
  <2>14. IdsOf(lhs) = SubSeq(IdsOf(a), 1, p)
    BY <2>11, JoinedPrefix
  <2> QED BY <2>11, <2>12, <2>13, <2>14 DEF s
<1> QED BY <1>3, <1>4

(* ChunkPrefillInputData loses and reorders no token.                      *)
LEMMA ChunkFacts ==
  ASSUME NEW a \in Seq(Data), a # <<>>, NEW m \in 0..LengthOf(a)
  PROVE  LET s == ChunkPrefillInputData(a, m) IN
         /\ s.chunk \in Seq(Data) /\ s.left \in Seq(Data)
         /\ IdsOf(s.chunk) \o IdsOf(s.left) = IdsOf(a)
<1> DEFINE s == ChunkPrefillInputData(a, m)
           far == {k \in 1..Len(a) : Reach(a, k) >= m}
           n == Min(far)
           lhs == Append(UpTo(a, n - 1), Before(a, n, m))
           rhs == <<After(a, n, m)>> \o Behind(a, n)
<1>1. \/ s = [chunk |-> UpTo(a, n), left |-> Behind(a, n)]
      \/ s = [chunk |-> UpTo(a, n - 1), left |-> Behind(a, n - 1)]
      \/ s = [chunk |-> lhs, left |-> rhs]
  <2>1. s = IF Reach(a, n) = m THEN [chunk |-> UpTo(a, n), left |-> Behind(a, n)]
            ELSE IF a[n].kind # "token"
            THEN [chunk |-> UpTo(a, n - 1), left |-> Behind(a, n - 1)]
            ELSE [chunk |-> lhs, left |-> rhs]
    BY DEF ChunkPrefillInputData
  <2> HIDE DEF s, n, lhs, rhs
  <2> QED BY <2>1, Zenon
<1>2. Len(a) \in Nat /\ LengthOf(a) \in Nat /\ m \in Nat /\ m <= LengthOf(a) /\ Len(a) # 0
  BY IdsType
<1>3. Reach(a, Len(a)) = LengthOf(a) /\ Reach(a, 0) = 0
  BY ReachEnds
<1>4. Len(a) \in far
  BY <1>2, <1>3
<1>5. n \in far /\ \A k \in far : n <= k
  <2>1. far \subseteq Nat
    OBVIOUS
  <2> HIDE DEF far
  <2> QED BY <1>4, <2>1, MinOf
<1>6. n \in 1..Len(a) /\ Reach(a, n) >= m
  BY <1>5
<1>7. n \in 0..Len(a) /\ n - 1 \in 0..Len(a)
  BY <1>2, <1>6
<1>8. Reach(a, n) \in Nat /\ Reach(a, n - 1) \in Nat
  BY <1>7, Parted
<1>9. Reach(a, n - 1) <= m
  <2>1. CASE n = 1
    BY <1>2, <1>3, <2>1
  <2>2. CASE n # 1
    <3>1. n - 1 \in 1..Len(a) /\ ~(n <= n - 1)
      BY <1>2, <1>6, <2>2
    <3>2. ~(Reach(a, n - 1) >= m)
      BY <1>5, <3>1
    <3> QED BY <1>2, <1>8, <3>2
  <2> QED BY <2>1, <2>2
<1> HIDE DEF n, s, far
<1>10. /\ UpTo(a, n) \in Seq(Data) /\ Behind(a, n) \in Seq(Data)
       /\ IdsOf(UpTo(a, n)) \o IdsOf(Behind(a, n)) = IdsOf(a)
  BY <1>7, Parted
<1>11. /\ UpTo(a, n - 1) \in Seq(Data) /\ Behind(a, n - 1) \in Seq(Data)
       /\ IdsOf(UpTo(a, n - 1)) \o IdsOf(Behind(a, n - 1)) = IdsOf(a)
  BY <1>7, Parted
<1>12. m <= Reach(a, n)
  BY <1>2, <1>6, <1>8
<1>13. /\ lhs \in Seq(Data) /\ rhs \in Seq(Data)
       /\ IdsOf(lhs) \o IdsOf(rhs) = IdsOf(a)
  BY <1>2, <1>6, <1>9, <1>12, Cut
<1> HIDE DEF lhs, rhs
<1>14. CASE s = [chunk |-> UpTo(a, n), left |-> Behind(a, n)]
  BY <1>10, <1>14 DEF s
<1>15. CASE s = [chunk |-> UpTo(a, n - 1), left |-> Behind(a, n - 1)]
  BY <1>11, <1>15 DEF s
<1>16. CASE s = [chunk |-> lhs, left |-> rhs]
  BY <1>13, <1>16 DEF s
<1> QED BY <1>1, <1>14, <1>15, <1>16

(* PopPrefillInputData leaves the inputs behind a proper prefix.           *)
LEMMA PopFacts ==
  ASSUME NEW a \in Seq(Data), NEW m \in 0..(LengthOf(a) - 1)
  PROVE  LET b == PopPrefillInputData(a, m) IN
         /\ b \in Seq(Data) /\ b # <<>>
         /\ SubSeq(IdsOf(a), 1, m) \o IdsOf(b) = IdsOf(a)
<1> DEFINE b == PopPrefillInputData(a, m)
           near == {k \in 0..Len(a) : Reach(a, k) <= m}
           n == Max(near)
           lhs == Append(UpTo(a, n), Before(a, n + 1, m))
           rhs == <<After(a, n + 1, m)>> \o Behind(a, n + 1)
<1>1. b = IF Reach(a, n) = m THEN Behind(a, n) ELSE rhs
  BY DEF PopPrefillInputData
<1>2. Len(a) \in Nat /\ LengthOf(a) \in Nat /\ m \in Nat /\ m < LengthOf(a)
  <2>1. LengthOf(a) \in Nat
    BY IdsType
  <2> QED BY <2>1
<1>3. Reach(a, Len(a)) = LengthOf(a) /\ Reach(a, 0) = 0
  BY ReachEnds
<1>4. 0 \in near
  BY <1>2, <1>3
<1>5. n \in near /\ \A k \in near : k <= n
  <2>1. near \subseteq 0..Len(a)
    OBVIOUS
  <2> HIDE DEF near
  <2> QED BY <1>2, <1>4, <2>1, MaxOf
<1>6. n \in 0..Len(a) /\ Reach(a, n) <= m
  BY <1>5
<1>7. n # Len(a)
  BY <1>2, <1>3, <1>6
<1>8. n + 1 \in 1..Len(a) /\ n + 1 \in 0..Len(a) /\ (n + 1) - 1 = n /\ ~(n + 1 <= n)
  BY <1>2, <1>6, <1>7
<1>9. Reach(a, n) \in Nat /\ Reach(a, n + 1) \in Nat
  <2>1. Reach(a, n) \in Nat
    BY <1>6, Parted
  <2>2. Reach(a, n + 1) \in Nat
    BY <1>8, Parted
  <2> QED BY <2>1, <2>2
<1>10. ~(Reach(a, n + 1) <= m)
  BY <1>5, <1>8
<1> HIDE DEF n, b, near
<1>11. CASE Reach(a, n) = m
  <2>1. /\ UpTo(a, n) \in Seq(Data)
        /\ Behind(a, n) \in Seq(Data) /\ Len(Behind(a, n)) = Len(a) - n
        /\ IdsOf(UpTo(a, n)) \o IdsOf(Behind(a, n)) = IdsOf(a)
    BY <1>6, Parted
  <2>2. LengthOf(UpTo(a, n)) = m
    BY <1>11 DEF Reach
  <2>3. IdsOf(UpTo(a, n)) = SubSeq(IdsOf(a), 1, m)
    BY <2>1, <2>2, JoinedPrefix
  <2>4. Behind(a, n) # <<>>
    BY <1>2, <1>6, <1>7, <2>1
  <2> QED BY <1>1, <1>11, <2>1, <2>3, <2>4 DEF b
<1>12. CASE Reach(a, n) # m
  <2>1. Reach(a, (n + 1) - 1) <= m /\ m <= Reach(a, n + 1)
    BY <1>2, <1>6, <1>8, <1>9, <1>10
  <2>2. /\ Append(UpTo(a, (n + 1) - 1), Before(a, n + 1, m)) \in Seq(Data)
        /\ rhs \in Seq(Data) /\ Len(rhs) = Len(a) - (n + 1) + 1
        /\ IdsOf(Append(UpTo(a, (n + 1) - 1), Before(a, n + 1, m))) \o IdsOf(rhs) = IdsOf(a)
        /\ LengthOf(Append(UpTo(a, (n + 1) - 1), Before(a, n + 1, m))) = m
    BY <1>2, <1>8, <2>1, Cut
  <2>3. lhs \in Seq(Data) /\ IdsOf(lhs) \o IdsOf(rhs) = IdsOf(a) /\ LengthOf(lhs) = m
    BY <1>8, <2>2
  <2> HIDE DEF lhs, rhs
  <2>4. IdsOf(lhs) = SubSeq(IdsOf(a), 1, m)
    BY <2>2, <2>3, JoinedPrefix
  <2>5. rhs # <<>>
    BY <1>2, <1>8, <2>2
  <2> QED BY <1>1, <1>12, <2>2, <2>3, <2>4, <2>5 DEF b
<1> QED BY <1>11, <1>12
=============================================================================
