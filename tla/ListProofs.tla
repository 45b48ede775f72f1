----------------------------- MODULE ListProofs -----------------------------
(***************************************************************************)
(* Facts about lists, for lists of any length: what leaving out elements,  *)
(* sorting (Lists) and putting lists behind one another (FlattenSeq) does  *)
(* to their elements and to the order of these.  Induction is over sets of *)
(* numbers.                                                                *)
(***************************************************************************)
EXTENDS Lists, SequencesExt, FiniteSetTheorems, SequenceTheorems, WellFoundedInduction, TLAPS

-----------------------------------------------------------------------------
(* Induction.                                                              *)

Below == {p \in Nat \X Nat : p[1] < p[2]}

LEMMA LeastElement ==
  ASSUME NEW S, S # {}, \A n \in S : n \in Nat
  PROVE  \E n \in S : \A m \in S : n <= m
<1>1. IsWellFoundedOn(Below, Nat)
  BY NatLessThanWellFounded, Zenon DEF OpToRel, Below
<1>2. \E n \in S : \A m \in S : <<m, n>> \notin Below
  <2>1. S \subseteq Nat
    OBVIOUS
  <2> QED BY <1>1, <2>1, WFMin
<1>3. ASSUME NEW m \in S, NEW n \in S, <<m, n>> \notin Below
      PROVE  n <= m
  <2>1. m \in Nat /\ n \in Nat
    OBVIOUS
  <2>2. ~ (m < n)
    BY <1>3, <2>1, Zenon DEF Below
  <2> QED BY <2>1, <2>2
<1> QED BY <1>2, <1>3

LEMMA SetInduction ==
  ASSUME NEW S, 0 \in S, \A n \in Nat : n \in S => n + 1 \in S
  PROVE  Nat \subseteq S
<1> SUFFICES ASSUME Nat \ S # {} PROVE FALSE
  OBVIOUS
<1>1. PICK n \in Nat \ S : \A m \in Nat \ S : n <= m
  BY LeastElement
<1>2. n # 0 /\ n - 1 \in Nat
  OBVIOUS
<1> QED BY <1>1, <1>2

-----------------------------------------------------------------------------
(* Indexes in their order.                                                 *)

LEMMA RankIsNat ==
  ASSUME NEW I, \A j \in I : j \in Nat, NEW i \in Nat
  PROVE  IsFiniteSet({j \in I : j < i}) /\ Rank(I, i) \in Nat
<1>1. {j \in I : j < i} \subseteq 0 .. i
  OBVIOUS
<1>2. IsFiniteSet({j \in I : j < i})
  <2>1. IsFiniteSet(0 .. i)
    BY FS_Interval
  <2> QED BY <1>1, <2>1, FS_Subset
<1> QED BY <1>2, FS_CardinalityType DEF Rank

LEMMA RankGrows ==
  ASSUME NEW I, \A j \in I : j \in Nat, NEW i \in I, NEW j \in I, i < j
  PROVE  Rank(I, i) < Rank(I, j)
<1> DEFINE A == {k \in I : k < i}
           B == {k \in I : k < j}
<1>1. IsFiniteSet(A) /\ IsFiniteSet(B) /\ Cardinality(A) \in Nat /\ Cardinality(B) \in Nat
  BY RankIsNat DEF Rank
<1>2. A \cup {i} \subseteq B /\ i \notin A
  OBVIOUS
<1>3. Cardinality(A \cup {i}) = Cardinality(A) + 1
  BY <1>1, <1>2, FS_AddElement
<1>4. Cardinality(A \cup {i}) <= Cardinality(B)
  BY <1>1, <1>2, FS_Subset
<1>5. Rank(I, i) = Cardinality(A) /\ Rank(I, j) = Cardinality(B)
  BY DEF Rank
<1> HIDE DEF A, B
<1> QED BY <1>1, <1>3, <1>4, <1>5

LEMMA RankIsInjective ==
  ASSUME NEW I, \A j \in I : j \in Nat, NEW i \in I, NEW j \in I, Rank(I, i) = Rank(I, j)
  PROVE  i = j
<1>1. Rank(I, i) \in Nat /\ i \in Nat /\ j \in Nat
  BY RankIsNat
<1>2. ASSUME i < j PROVE FALSE
  <2>1. Rank(I, i) < Rank(I, j)
    BY <1>2, RankGrows
  <2> QED BY <1>1, <2>1
<1>3. ASSUME j < i PROVE FALSE
  <2>1. Rank(I, j) < Rank(I, i)
    BY <1>3, RankGrows
  <2> QED BY <1>1, <2>1
<1> QED BY <1>1, <1>2, <1>3

\* Each number up to the cardinality is that of one of the indexes.
LEMMA RankIsOnto ==
  ASSUME NEW I, NEW n \in Nat, \A j \in I : j \in 1 .. n, NEW k \in 1 .. Cardinality(I)
  PROVE  \E i \in I : Rank(I, i) = k - 1
<1> DEFINE UpTo(m) == {j \in I : j <= m}
           S == {m \in Nat : \A q \in 1 .. Cardinality(UpTo(m)) : \E i \in UpTo(m) : Rank(I, i) = q - 1}
<1>0. \A m \in Nat : IsFiniteSet(UpTo(m)) /\ Cardinality(UpTo(m)) \in Nat
  <2> TAKE m \in Nat
  <2>1. UpTo(m) \subseteq 0 .. m
    OBVIOUS
  <2>2. IsFiniteSet(UpTo(m))
    <3>1. IsFiniteSet(0 .. m)
      BY FS_Interval
    <3> QED BY <2>1, <3>1, FS_Subset
  <2> QED BY <2>2, FS_CardinalityType
<1>1. 0 \in S
  <2>1. UpTo(0) = {}
    OBVIOUS
  <2>2. Cardinality(UpTo(0)) = 0
    BY <2>1, FS_EmptySet
  <2> HIDE DEF UpTo
  <2>3. \A q \in 1 .. Cardinality(UpTo(0)) : FALSE
    BY <2>2
  <2> QED BY <2>3
<1>2. ASSUME NEW m \in Nat, m \in S PROVE m + 1 \in S
  <2>1. CASE m + 1 \notin I
    <3>1. UpTo(m + 1) = UpTo(m)
      BY <2>1
    <3> QED BY <1>2, <3>1
  <2>2. CASE m + 1 \in I
    <3>1. UpTo(m + 1) = UpTo(m) \cup {m + 1} /\ m + 1 \notin UpTo(m)
      BY <2>2
    <3>2. Cardinality(UpTo(m + 1)) = Cardinality(UpTo(m)) + 1
      BY <1>0, <3>1, FS_AddElement
    <3>3. Rank(I, m + 1) = Cardinality(UpTo(m))
      <4>1. {j \in I : j < m + 1} = UpTo(m)
        OBVIOUS
      <4> QED BY <4>1 DEF Rank
    <3> QED BY <1>0, <1>2, <3>1, <3>2, <3>3
  <2> QED BY <2>1, <2>2
<1>3. n \in S
  BY <1>1, <1>2, SetInduction
<1>4. UpTo(n) = I
  OBVIOUS
<1> QED BY <1>3, <1>4

LEMMA NthProperties ==
  ASSUME NEW I, NEW n \in Nat, \A j \in I : j \in 1 .. n
  PROVE  /\ IsFiniteSet(I) /\ Cardinality(I) \in Nat
         /\ \A k \in 1 .. Cardinality(I) : Nth(I, k) \in I /\ Rank(I, Nth(I, k)) = k - 1
         /\ \A k, q \in 1 .. Cardinality(I) : k < q => Nth(I, k) < Nth(I, q)
         /\ \A i \in I : Rank(I, i) + 1 \in 1 .. Cardinality(I) /\ Nth(I, Rank(I, i) + 1) = i
<1>1. IsFiniteSet(I) /\ Cardinality(I) \in Nat /\ \A j \in I : j \in Nat
  <2>1. I \in SUBSET (1 .. n) /\ IsFiniteSet(1 .. n)
    BY FS_Interval
  <2>2. IsFiniteSet(I)
    BY <2>1, FS_Subset
  <2> QED BY <2>2, FS_CardinalityType
<1>2. \A k \in 1 .. Cardinality(I) : Nth(I, k) \in I /\ Rank(I, Nth(I, k)) = k - 1
  BY RankIsOnto DEF Nth
<1>3. ASSUME NEW k \in 1 .. Cardinality(I), NEW q \in 1 .. Cardinality(I), k < q
      PROVE  Nth(I, k) < Nth(I, q)
  <2>1. Nth(I, k) \in I /\ Nth(I, q) \in I /\ Rank(I, Nth(I, k)) = k - 1 /\ Rank(I, Nth(I, q)) = q - 1
    BY <1>2
  <2>2. Nth(I, k) \in Nat /\ Nth(I, q) \in Nat
    BY <1>1, <2>1
  <2>3. Nth(I, k) # Nth(I, q)
    BY <1>1, <1>3, <2>1
  <2>4. ~ (Nth(I, q) < Nth(I, k))
    <3> SUFFICES ASSUME Nth(I, q) < Nth(I, k) PROVE FALSE
      OBVIOUS
    <3>1. Rank(I, Nth(I, q)) < Rank(I, Nth(I, k))
      BY <1>1, <2>1, RankGrows
    <3> QED BY <1>1, <1>3, <2>1, <3>1
  <2> QED BY <2>2, <2>3, <2>4
<1>4. ASSUME NEW i \in I
      PROVE  Rank(I, i) + 1 \in 1 .. Cardinality(I) /\ Nth(I, Rank(I, i) + 1) = i
  <2>1. Rank(I, i) \in Nat /\ IsFiniteSet({j \in I : j < i}) /\ i \in Nat
    BY <1>1, RankIsNat
  <2>2. Cardinality({j \in I : j < i}) < Cardinality(I)
    <3>1. {j \in I : j < i} \cup {i} \subseteq I /\ i \notin {j \in I : j < i}
      BY <2>1
    <3>2. Cardinality({j \in I : j < i} \cup {i}) = Cardinality({j \in I : j < i}) + 1
      BY <2>1, <3>1, FS_AddElement
    <3>3. Cardinality({j \in I : j < i} \cup {i}) <= Cardinality(I)
      BY <1>1, <3>1, FS_Subset
    <3> QED BY <1>1, <2>1, <3>2, <3>3 DEF Rank
  <2>3. Rank(I, i) + 1 \in 1 .. Cardinality(I)
    BY <1>1, <2>1, <2>2 DEF Rank
  <2>4. Rank(I, Nth(I, Rank(I, i) + 1)) = Rank(I, i) /\ Nth(I, Rank(I, i) + 1) \in I
    BY <1>2, <2>1, <2>3
  <2> QED BY <1>1, <2>3, <2>4, RankIsInjective
<1> QED BY <1>1, <1>2, <1>3, <1>4

-----------------------------------------------------------------------------
(* What is left of a list.                                                 *)

LEMMA SubListProperties ==
  ASSUME NEW T, NEW list \in Seq(T), NEW I, \A i \in I : i \in DOMAIN list
  PROVE  /\ Cardinality(I) \in Nat
         /\ SubList(list, I) \in Seq(T)
         /\ Len(SubList(list, I)) = Cardinality(I)
         /\ \A k \in 1 .. Cardinality(I) : /\ Nth(I, k) \in I
                                           /\ SubList(list, I)[k] = list[Nth(I, k)]
         /\ \A k, q \in 1 .. Cardinality(I) : k < q => Nth(I, k) < Nth(I, q)
         /\ \A i \in I : \E k \in 1 .. Cardinality(I) : Nth(I, k) = i
<1>1. Len(list) \in Nat /\ \A i \in I : i \in 1 .. Len(list)
  OBVIOUS
<1>2. /\ Cardinality(I) \in Nat
      /\ \A k \in 1 .. Cardinality(I) : Nth(I, k) \in I
      /\ \A k, q \in 1 .. Cardinality(I) : k < q => Nth(I, k) < Nth(I, q)
      /\ \A i \in I : Rank(I, i) + 1 \in 1 .. Cardinality(I) /\ Nth(I, Rank(I, i) + 1) = i
  BY <1>1, NthProperties
<1>3. \A k \in 1 .. Cardinality(I) : list[Nth(I, k)] \in T
  BY <1>1, <1>2
<1>4. SubList(list, I) \in Seq(T) /\ Len(SubList(list, I)) = Cardinality(I)
  BY <1>2, <1>3 DEF SubList
<1>5. \A k \in 1 .. Cardinality(I) : SubList(list, I)[k] = list[Nth(I, k)]
  BY DEF SubList
<1> QED BY <1>2, <1>4, <1>5

LEMMA SubListElements ==
  ASSUME NEW T, NEW list \in Seq(T), NEW I, \A i \in I : i \in DOMAIN list
  PROVE  ToSet(SubList(list, I)) = {list[i] : i \in I}
<1> DEFINE s == SubList(list, I)
           n == Cardinality(I)
<1>1. /\ n \in Nat /\ s \in Seq(T) /\ Len(s) = n
      /\ \A k \in 1 .. n : Nth(I, k) \in I /\ s[k] = list[Nth(I, k)]
      /\ \A i \in I : \E k \in 1 .. n : Nth(I, k) = i
  BY SubListProperties
<1>2. ToSet(s) = {s[k] : k \in 1 .. n}
  BY <1>1 DEF ToSet
<1> HIDE DEF s, n
<1>3. ToSet(s) = {list[i] : i \in I}
  BY <1>1, <1>2
<1> QED BY <1>3 DEF s

LEMMA ThoseElements ==
  ASSUME NEW T, NEW list \in Seq(T), NEW S
  PROVE  Those(list, S) \in Seq(T) /\ ToSet(Those(list, S)) = ToSet(list) \cap S
<1> DEFINE I == {i \in DOMAIN list : list[i] \in S}
<1>1. SubList(list, I) \in Seq(T)
  BY SubListProperties
<1>2. ToSet(SubList(list, I)) = {list[i] : i \in I}
  BY SubListElements
<1>3. {list[i] : i \in I} = ToSet(list) \cap S
  BY DEF ToSet
<1> QED BY <1>1, <1>2, <1>3 DEF Those

-----------------------------------------------------------------------------
(* Lists behind one another.                                               *)

\* The k-th element of out is the ix[k]-th of the ch[k]-th list of ss, up to
\* the n-th of these; it has each of theirs, in their order.
Spread(out, ss, n, ch, ix) ==
  /\ \A k \in 1 .. Len(out) : /\ ch[k] \in 1 .. n
                              /\ ix[k] \in 1 .. Len(ss[ch[k]])
                              /\ out[k] = ss[ch[k]][ix[k]]
  /\ \A k, q \in 1 .. Len(out) : k < q => ch[k] < ch[q] \/ (ch[k] = ch[q] /\ ix[k] < ix[q])
  /\ \A c \in 1 .. n : \A j \in 1 .. Len(ss[c]) : \E k \in 1 .. Len(out) : ch[k] = c /\ ix[k] = j

LEMMA SpreadGrows ==
  ASSUME NEW T, NEW ss \in Seq(Seq(T)), NEW n \in Nat, n + 1 <= Len(ss),
         NEW out \in Seq(T), NEW ch, NEW ix, Spread(out, ss, n, ch, ix)
  PROVE  \E ch2, ix2 : Spread(out \o ss[n + 1], ss, n + 1, ch2, ix2)
<1> DEFINE a == Len(out)
           more == ss[n + 1]
           new == out \o more
           ch2 == [k \in 1 .. Len(new) |-> IF k <= a THEN ch[k] ELSE n + 1]
           ix2 == [k \in 1 .. Len(new) |-> IF k <= a THEN ix[k] ELSE k - a]
<1>1. a \in Nat /\ more \in Seq(T) /\ Len(more) \in Nat /\ Len(new) = a + Len(more)
  OBVIOUS
<1>2. /\ \A k \in 1 .. a : new[k] = out[k] /\ ch2[k] = ch[k] /\ ix2[k] = ix[k]
      /\ \A k \in (a + 1) .. Len(new) : new[k] = more[k - a] /\ ch2[k] = n + 1 /\ ix2[k] = k - a
  BY <1>1, SMTT(40)
<1> HIDE DEF ch2, ix2, new, a, more
<1>3. ASSUME NEW k \in 1 .. Len(new)
      PROVE  /\ ch2[k] \in 1 .. (n + 1)
             /\ ix2[k] \in 1 .. Len(ss[ch2[k]])
             /\ new[k] = ss[ch2[k]][ix2[k]]
  <2>1. CASE k <= a
    <3>1. k \in 1 .. a
      BY <1>1, <2>1
    <3>2. ch[k] \in 1 .. n /\ ix[k] \in 1 .. Len(ss[ch[k]]) /\ out[k] = ss[ch[k]][ix[k]]
      BY <3>1 DEF Spread, a
    <3>3. ch2[k] = ch[k] /\ ix2[k] = ix[k] /\ new[k] = out[k]
      BY <1>2, <3>1
    <3>4. ch[k] \in 1 .. (n + 1)
      BY <3>2
    <3> QED BY <3>2, <3>3, <3>4
  <2>2. CASE ~ (k <= a)
    <3>1. k \in (a + 1) .. Len(new) /\ k - a \in 1 .. Len(more)
      BY <1>1, <2>2
    <3>2. new[k] = more[k - a] /\ ch2[k] = n + 1 /\ ix2[k] = k - a
      BY <1>2, <3>1
    <3>3. n + 1 \in 1 .. (n + 1) /\ more = ss[n + 1]
      BY DEF more
    <3> QED BY <3>1, <3>2, <3>3
  <2> QED BY <2>1, <2>2
<1>4. ASSUME NEW k \in 1 .. Len(new), NEW q \in 1 .. Len(new), k < q
      PROVE  ch2[k] < ch2[q] \/ (ch2[k] = ch2[q] /\ ix2[k] < ix2[q])
  <2>1. CASE q <= a
    <3>1. k \in 1 .. a /\ q \in 1 .. a
      BY <1>1, <1>4, <2>1
    <3>2. ch[k] < ch[q] \/ (ch[k] = ch[q] /\ ix[k] < ix[q])
      BY <1>4, <3>1 DEF Spread, a
    <3> QED BY <1>2, <3>1, <3>2
  <2>2. CASE k <= a /\ ~ (q <= a)
    <3>1. k \in 1 .. a /\ q \in (a + 1) .. Len(new)
      BY <1>1, <1>4, <2>2
    <3>2. ch[k] \in 1 .. n
      BY <3>1 DEF Spread, a
    <3> QED BY <1>2, <3>1, <3>2
  <2>3. CASE ~ (k <= a)
    <3>1. k \in (a + 1) .. Len(new) /\ q \in (a + 1) .. Len(new)
      BY <1>1, <1>4, <2>3
    <3> QED BY <1>1, <1>2, <1>4, <3>1
  <2> QED BY <1>1, <2>1, <2>2, <2>3
<1>5. ASSUME NEW c \in 1 .. (n + 1), NEW j \in 1 .. Len(ss[c])
      PROVE  \E k \in 1 .. Len(new) : ch2[k] = c /\ ix2[k] = j
  <2>1. CASE c \in 1 .. n
    <3>1. PICK k \in 1 .. a : ch[k] = c /\ ix[k] = j
      BY <2>1 DEF Spread, a
    <3>2. k \in 1 .. Len(new)
      BY <1>1
    <3> QED BY <1>2, <3>1, <3>2
  <2>2. CASE c = n + 1
    <3>1. j \in 1 .. Len(more)
      BY <2>2 DEF more
    <3>2. a + j \in (a + 1) .. Len(new) /\ a + j \in 1 .. Len(new) /\ (a + j) - a = j
      BY <1>1, <3>1
    <3> QED BY <1>2, <2>2, <3>2
  <2> QED BY <2>1, <2>2
<1>6. Spread(new, ss, n + 1, ch2, ix2)
  BY <1>3, <1>4, <1>5 DEF Spread
<1> QED BY <1>6 DEF new, more

\* FlattenSeq takes the lists in turn.
LEMMA FlattenUnfolds ==
  ASSUME NEW T, NEW ss \in Seq(Seq(T)), Len(ss) > 0
  PROVE  \E f : /\ FlattenSeq(ss) = f[Len(ss)]
                /\ f[1] = ss[1]
                /\ \A i \in 2 .. Len(ss) : f[i] = f[i - 1] \o ss[i]
<1> DEFINE Def(f, n) == f = [i \in 1 .. n |-> IF i = 1 THEN ss[i] ELSE f[i - 1] \o ss[i]]
           S == {n \in Nat : \E f : Def(f, n)}
<1>1. 0 \in S
  <2>1. Def([i \in 1 .. 0 |-> ss[1]], 0)
    OBVIOUS
  <2> QED BY <2>1
<1>2. ASSUME NEW n \in Nat, n \in S PROVE n + 1 \in S
  <2>1. PICK f : Def(f, n)
    BY <1>2
  <2> DEFINE g == [i \in 1 .. (n + 1) |-> IF i <= n THEN f[i]
                                          ELSE IF i = 1 THEN ss[i] ELSE f[i - 1] \o ss[i]]
  <2>2. ASSUME NEW i \in 1 .. (n + 1)
        PROVE  g[i] = IF i = 1 THEN ss[i] ELSE g[i - 1] \o ss[i]
    <3>1. CASE i <= n
      <4>1. i \in 1 .. n /\ (i # 1 => i - 1 \in 1 .. n)
        BY <3>1
      <4>2. f[i] = IF i = 1 THEN ss[i] ELSE f[i - 1] \o ss[i]
        BY <2>1, <4>1
      <4> QED BY <3>1, <4>1, <4>2
    <3>2. CASE ~ (i <= n)
      <4>1. i = n + 1 /\ (i # 1 => i - 1 \in 1 .. n)
        BY <3>2
      <4> QED BY <3>2, <4>1
    <3> QED BY <3>1, <3>2
  <2>3. Def(g, n + 1)
    <3>1. g = [i \in 1 .. (n + 1) |-> g[i]]
      OBVIOUS
    <3> HIDE DEF g
    <3> QED BY <2>2, <3>1
  <2> HIDE DEF g, Def
  <2> QED BY <2>3
<1>3. \E f : Def(f, Len(ss))
  <2>1. Len(ss) \in Nat
    OBVIOUS
  <2> HIDE DEF Def
  <2> QED BY <1>1, <1>2, <2>1, SetInduction
<1> DEFINE F == CHOOSE f : Def(f, Len(ss))
<1>4. Def(F, Len(ss))
  BY <1>3
<1>5. FlattenSeq(ss) = F[Len(ss)]
  BY DEF FlattenSeq
<1> HIDE DEF F
<1>6. F[1] = ss[1] /\ \A i \in 2 .. Len(ss) : F[i] = F[i - 1] \o ss[i]
  <2>1. F = [i \in 1 .. Len(ss) |-> IF i = 1 THEN ss[i] ELSE F[i - 1] \o ss[i]]
    BY <1>4
  <2>2. \A i \in 1 .. Len(ss) : F[i] = IF i = 1 THEN ss[i] ELSE F[i - 1] \o ss[i]
    BY <2>1, Zenon
  <2>3. Len(ss) \in Nat /\ 1 \in 1 .. Len(ss)
    OBVIOUS
  <2>4. F[1] = ss[1]
    BY <2>2, <2>3
  <2>5. ASSUME NEW i \in 2 .. Len(ss) PROVE F[i] = F[i - 1] \o ss[i]
    <3>1. i \in 1 .. Len(ss) /\ i # 1
      BY <2>3
    <3> QED BY <2>2, <3>1
  <2> QED BY <2>4, <2>5
<1> QED BY <1>5, <1>6

LEMMA FlattenSpreads ==
  ASSUME NEW T, NEW ss \in Seq(Seq(T)), Len(ss) > 0
  PROVE  /\ FlattenSeq(ss) \in Seq(T)
         /\ \E ch, ix : Spread(FlattenSeq(ss), ss, Len(ss), ch, ix)
<1>1. PICK f : /\ FlattenSeq(ss) = f[Len(ss)]
               /\ f[1] = ss[1]
               /\ \A i \in 2 .. Len(ss) : f[i] = f[i - 1] \o ss[i]
  BY FlattenUnfolds
<1>2. Len(ss) \in Nat /\ \A c \in 1 .. Len(ss) : ss[c] \in Seq(T)
  OBVIOUS
<1> DEFINE Good(n) == f[n] \in Seq(T) /\ \E ch, ix : Spread(f[n], ss, n, ch, ix)
           S == {n \in Nat : n + 1 <= Len(ss) => Good(n + 1)}
<1>3. 0 \in S
  <2>1. Spread(<<>>, ss, 0, <<>>, <<>>)
    BY DEF Spread
  <2>2. \E ch, ix : Spread(<<>> \o ss[1], ss, 1, ch, ix)
    <3>1. 0 \in Nat /\ 0 + 1 <= Len(ss) /\ <<>> \in Seq(T) /\ 0 + 1 = 1
      BY <1>2
    <3>2. \E ch, ix : Spread(<<>> \o ss[0 + 1], ss, 0 + 1, ch, ix)
      BY <2>1, <3>1, SpreadGrows
    <3> QED BY <3>1, <3>2
  <2>3. <<>> \o ss[1] = ss[1] /\ ss[1] \in Seq(T)
    BY <1>2
  <2>4. Good(1)
    BY <1>1, <2>2, <2>3
  <2> HIDE DEF Good
  <2> QED BY <2>4
<1>4. ASSUME NEW n \in Nat, n \in S PROVE n + 1 \in S
  <2> SUFFICES ASSUME n + 1 + 1 <= Len(ss) PROVE Good(n + 1 + 1)
    OBVIOUS
  <2>1. Good(n + 1)
    <3> HIDE DEF Good
    <3> QED BY <1>2, <1>4
  <2>2. n + 1 + 1 \in 2 .. Len(ss) /\ n + 1 + 1 - 1 = n + 1 /\ n + 1 \in Nat
    BY <1>2
  <2>3. f[n + 1 + 1] = f[n + 1] \o ss[n + 1 + 1]
    <3>1. PICK i \in 2 .. Len(ss) : i = n + 1 + 1
      BY <2>2
    <3>2. f[i] = f[i - 1] \o ss[i]
      BY <1>1
    <3>3. i - 1 = n + 1
      BY <2>2, <3>1
    <3> QED BY <3>1, <3>2, <3>3
  <2>4. f[n + 1 + 1] \in Seq(T)
    BY <1>2, <2>1, <2>2, <2>3
  <2>5. \E ch, ix : Spread(f[n + 1] \o ss[n + 1 + 1], ss, n + 1 + 1, ch, ix)
    BY <2>1, <2>2, SpreadGrows
  <2> QED BY <2>3, <2>4, <2>5
<1>5. Len(ss) - 1 \in S
  <2> HIDE DEF S
  <2>1. Len(ss) - 1 \in Nat
    BY <1>2
  <2> QED BY <1>3, <1>4, <2>1, SetInduction
<1>6. Good(Len(ss))
  <2>1. Len(ss) - 1 + 1 = Len(ss) /\ Len(ss) - 1 \in Nat
    BY <1>2
  <2> HIDE DEF Good
  <2> QED BY <1>2, <1>5, <2>1
<1> QED BY <1>1, <1>6

-----------------------------------------------------------------------------
(* One element more, one less.                                             *)

LEMMA InsertAtProperties ==
  ASSUME NEW T, NEW list \in Seq(T), NEW i \in 1 .. (Len(list) + 1), NEW e \in T
  PROVE  /\ InsertAt(list, i, e) \in Seq(T)
         /\ Len(InsertAt(list, i, e)) = Len(list) + 1
         /\ \A k \in 1 .. (Len(list) + 1) :
              InsertAt(list, i, e)[k] = IF k < i THEN list[k] ELSE IF k = i THEN e ELSE list[k - 1]
<1> DEFINE a == SubSeq(list, 1, i - 1)
           c == SubSeq(list, i, Len(list))
<1>1. Len(list) \in Nat /\ i \in Nat
  OBVIOUS
<1>2. a \in Seq(T) /\ Len(a) = i - 1 /\ \A k \in 1 .. (i - 1) : a[k] = list[k]
  BY <1>1
<1>3. c \in Seq(T) /\ Len(c) = Len(list) + 1 - i /\ \A k \in 1 .. Len(c) : c[k] = list[i + k - 1]
  BY <1>1
<1>4. InsertAt(list, i, e) = (a \o <<e>>) \o c
  BY DEF InsertAt
<1> HIDE DEF a, c
<1> DEFINE b == a \o <<e>>
<1>5. b \in Seq(T) /\ Len(b) = i /\ b[i] = e /\ \A k \in 1 .. (i - 1) : b[k] = list[k]
  BY <1>1, <1>2
<1> HIDE DEF b
<1>6. b \o c \in Seq(T) /\ Len(b \o c) = Len(list) + 1
  <2>1. b \in Seq(T) /\ c \in Seq(T)
    BY <1>3, <1>5
  <2>2. b \o c \in Seq(T) /\ Len(b \o c) = Len(b) + Len(c)
    BY <2>1, ConcatProperties
  <2> QED BY <1>1, <1>3, <1>5, <2>2
<1>7. ASSUME NEW k \in 1 .. (Len(list) + 1)
      PROVE  (b \o c)[k] = IF k < i THEN list[k] ELSE IF k = i THEN e ELSE list[k - 1]
  <2>1. CASE k < i
    BY <1>1, <1>3, <1>5, <2>1
  <2>2. CASE k = i
    BY <1>1, <1>3, <1>5, <2>2
  <2>3. CASE i < k
    <3>1. (b \o c)[k] = c[k - i]
      BY <1>1, <1>3, <1>5, <2>3, SMTT(40)
    <3>2. k - i \in 1 .. Len(c) /\ i + (k - i) - 1 = k - 1
      BY <1>1, <1>3, <2>3
    <3>3. c[k - i] = list[i + (k - i) - 1]
      BY <1>3, <3>2
    <3> QED BY <1>1, <2>3, <3>1, <3>2, <3>3, SMTT(40)
  <2>4. k < i \/ k = i \/ (i < k /\ ~ (k < i) /\ k # i)
    BY <1>1
  <2> QED BY <2>1, <2>2, <2>3, <2>4
<1> QED BY <1>4, <1>6, <1>7 DEF b

LEMMA RemoveAtProperties ==
  ASSUME NEW T, NEW list \in Seq(T), NEW i \in 1 .. Len(list)
  PROVE  /\ RemoveAt(list, i) \in Seq(T)
         /\ Len(RemoveAt(list, i)) = Len(list) - 1
         /\ \A k \in 1 .. (Len(list) - 1) :
              RemoveAt(list, i)[k] = IF k < i THEN list[k] ELSE list[k + 1]
<1> DEFINE a == SubSeq(list, 1, i - 1)
           c == SubSeq(list, i + 1, Len(list))
<1>1. Len(list) \in Nat /\ i \in Nat
  OBVIOUS
<1>2. a \in Seq(T) /\ Len(a) = i - 1 /\ \A k \in 1 .. (i - 1) : a[k] = list[k]
  BY <1>1
<1>3. c \in Seq(T) /\ Len(c) = Len(list) - i /\ \A k \in 1 .. Len(c) : c[k] = list[i + 1 + k - 1]
  BY <1>1
<1>4. RemoveAt(list, i) = a \o c
  BY DEF RemoveAt
<1> HIDE DEF a, c
<1>5. a \o c \in Seq(T) /\ Len(a \o c) = Len(list) - 1
  <2>1. a \in Seq(T) /\ c \in Seq(T)
    BY <1>2, <1>3
  <2>2. a \o c \in Seq(T) /\ Len(a \o c) = Len(a) + Len(c)
    BY <2>1, ConcatProperties
  <2> QED BY <1>1, <1>2, <1>3, <2>2
<1>6. ASSUME NEW k \in 1 .. (Len(list) - 1)
      PROVE  (a \o c)[k] = IF k < i THEN list[k] ELSE list[k + 1]
  <2>1. CASE k < i
    BY <1>1, <1>2, <1>3, <2>1
  <2>2. CASE ~ (k < i)
    <3>1. (a \o c)[k] = c[k - (i - 1)]
      BY <1>1, <1>2, <1>3, <2>2
    <3>2. k - (i - 1) \in 1 .. Len(c) /\ i + 1 + (k - (i - 1)) - 1 = k + 1
      BY <1>1, <1>3, <2>2
    <3>3. c[k - (i - 1)] = list[i + 1 + (k - (i - 1)) - 1]
      BY <1>3, <3>2
    <3> QED BY <2>2, <3>1, <3>2, <3>3
  <2> QED BY <2>1, <2>2
<1> QED BY <1>4, <1>5, <1>6

\* A set of numbers up to some number has a greatest element.
LEMMA MaxProperties ==
  ASSUME NEW S, NEW n \in Nat, \A x \in S : x \in 1 .. n, S # {}
  PROVE  Max(S) \in S /\ \A y \in S : y <= Max(S)
<1> DEFINE D == {n - x : x \in S}
<1>1. D # {} /\ \A d \in D : d \in Nat
  OBVIOUS
<1>2. PICK d \in D : \A e \in D : d <= e
  BY <1>1, LeastElement
<1>3. PICK x \in S : d = n - x
  OBVIOUS
<1>4. ASSUME NEW y \in S PROVE x >= y
  <2>1. n - y \in D
    OBVIOUS
  <2>2. n - x <= n - y
    BY <1>2, <1>3, <2>1
  <2> QED BY <2>2
<1>5. \E z \in S : \A y \in S : z >= y
  BY <1>4
<1>6. Max(S) \in S /\ \A y \in S : Max(S) >= y
  BY <1>5, Zenon DEF Max
<1> QED BY <1>6

LEMMA MinProperties ==
  ASSUME NEW S, \A x \in S : x \in Nat, S # {}
  PROVE  Min(S) \in S /\ \A y \in S : Min(S) <= y
<1>1. \E z \in S : \A y \in S : z <= y
  BY LeastElement
<1> QED BY <1>1, Zenon DEF Min

-----------------------------------------------------------------------------
(* Leaving out nothing, not the last, and twice.                           *)

LEMMA ImageCardinality ==
  ASSUME NEW S, IsFiniteSet(S), NEW T, NEW f, \A x \in S : f[x] \in T,
         \A t \in T : \E x \in S : f[x] = t
  PROVE  /\ IsFiniteSet(T) /\ Cardinality(T) <= Cardinality(S)
         /\ (\A x, y \in S : f[x] = f[y] => x = y) => Cardinality(T) = Cardinality(S)
<1> DEFINE g == [x \in S |-> f[x]]
<1>1. g \in Surjection(S, T)
  BY DEF Surjection
<1>2. (\A x, y \in S : f[x] = f[y] => x = y) => g \in Injection(S, T)
  BY DEF Injection, IsInjective
<1> HIDE DEF g
<1> QED BY <1>1, <1>2, FS_Surjection

LEMMA SubListAll ==
  ASSUME NEW T, NEW list \in Seq(T)
  PROVE  SubList(list, DOMAIN list) = list
<1> DEFINE I == DOMAIN list
           n == Len(list)
<1>1. n \in Nat /\ I = 1 .. n /\ Cardinality(I) = n
  <2>1. Cardinality(1 .. n) = n
    <3>1. Cardinality(1 .. n) = IF 1 > n THEN 0 ELSE n - 1 + 1
      BY FS_Interval
    <3> QED BY <3>1
  <2> QED BY <2>1
<1>2. ASSUME NEW k \in 1 .. n PROVE Nth(I, k) = k
  <2>1. Rank(I, k) = k - 1
    <3>1. {j \in 1 .. n : j < k} = 1 .. (k - 1)
      OBVIOUS
    <3>2. Cardinality(1 .. (k - 1)) = IF 1 > k - 1 THEN 0 ELSE k - 1 - 1 + 1
      BY FS_Interval
    <3>3. Cardinality(1 .. (k - 1)) = k - 1
      BY <3>2
    <3>4. Rank(I, k) = Cardinality({j \in 1 .. n : j < k})
      BY <1>1 DEF Rank
    <3> QED BY <3>1, <3>3, <3>4
  <2>2. Nth(I, Rank(I, k) + 1) = k
    BY <1>1, NthProperties
  <2> QED BY <2>1, <2>2
<1> HIDE DEF I
<1>3. SubList(list, I) = [k \in 1 .. n |-> list[k]]
  BY <1>1, <1>2 DEF SubList
<1>4. list = [k \in 1 .. n |-> list[k]]
  OBVIOUS
<1> QED BY <1>3, <1>4 DEF I

\* The last one stays last; what stays before it stood before it.
LEMMA SubListLast ==
  ASSUME NEW T, NEW list \in Seq(T), NEW I, \A i \in I : i \in DOMAIN list, Len(list) \in I
  PROVE  /\ Len(SubList(list, I)) > 0
         /\ SubList(list, I)[Len(SubList(list, I))] = list[Len(list)]
         /\ \A k \in 1 .. (Len(SubList(list, I)) - 1) :
              \E i \in I : i < Len(list) /\ SubList(list, I)[k] = list[i]
<1> DEFINE s == SubList(list, I)
           n == Cardinality(I)
<1>1. /\ n \in Nat /\ s \in Seq(T) /\ Len(s) = n
      /\ \A k \in 1 .. n : Nth(I, k) \in I /\ s[k] = list[Nth(I, k)]
      /\ \A k, q \in 1 .. n : k < q => Nth(I, k) < Nth(I, q)
      /\ \A i \in I : \E k \in 1 .. n : Nth(I, k) = i
  BY SubListProperties
<1>2. Len(list) \in Nat /\ \A i \in I : i \in 1 .. Len(list)
  OBVIOUS
<1> HIDE DEF s, n
<1>3. PICK k \in 1 .. n : Nth(I, k) = Len(list)
  BY <1>1
<1>4. k = n
  <2> SUFFICES ASSUME k < n PROVE FALSE
    BY <1>1
  <2>1. n \in 1 .. n /\ Nth(I, k) < Nth(I, n) /\ Nth(I, n) \in I
    BY <1>1
  <2> QED BY <1>2, <1>3, <2>1
<1>5. n > 0 /\ n \in 1 .. n
  BY <1>1
<1>6. s[n] = list[Len(list)]
  BY <1>1, <1>3, <1>4
<1>7. ASSUME NEW q \in 1 .. (n - 1) PROVE \E i \in I : i < Len(list) /\ s[q] = list[i]
  <2>1. q \in 1 .. n /\ q < n
    BY <1>1
  <2>2. Nth(I, q) < Nth(I, n) /\ Nth(I, q) \in I /\ s[q] = list[Nth(I, q)]
    BY <1>1, <1>5, <2>1
  <2> QED BY <1>3, <1>4, <2>2
<1> QED BY <1>1, <1>5, <1>6, <1>7 DEF s

LEMMA SubListTwice ==
  ASSUME NEW T, NEW list \in Seq(T), NEW I, \A i \in I : i \in DOMAIN list,
         NEW J, \A j \in J : j \in I,
         NEW K, K = {k \in 1 .. Cardinality(I) : Nth(I, k) \in J}
  PROVE  SubList(SubList(list, I), K) = SubList(list, J)
<1> DEFINE s == SubList(list, I)
           n == Cardinality(I)
           f == [k \in 1 .. n |-> Nth(I, k)]
<1>1. /\ n \in Nat /\ s \in Seq(T) /\ Len(s) = n
      /\ \A k \in 1 .. n : f[k] \in I /\ s[k] = list[f[k]] /\ f[k] = Nth(I, k)
      /\ \A k, q \in 1 .. n : k < q => f[k] < f[q]
      /\ \A i \in I : \E k \in 1 .. n : f[k] = i
  BY SubListProperties
<1>2. Len(list) \in Nat /\ \A i \in I : i \in 1 .. Len(list)
  OBVIOUS
<1>3. DOMAIN s = 1 .. n /\ (\A k \in K : k \in 1 .. n /\ f[k] \in J)
      /\ \A k \in 1 .. n : f[k] \in J => k \in K
  BY <1>1
<1>4. \A j \in J : j \in 1 .. Len(list)
  BY <1>2
<1> HIDE DEF s, n, f
<1>5. \A k \in 1 .. n : f[k] \in Nat
  BY <1>1, <1>2
<1>6. \A k, q \in 1 .. n : f[k] = f[q] => k = q
  BY <1>1, <1>5
<1>7. \A k, q \in 1 .. n : f[k] < f[q] => k < q
  BY <1>1, <1>5
<1>8. \A j \in J : \E k \in K : f[k] = j
  BY <1>1, <1>3
<1>9. IsFiniteSet(K) /\ Cardinality(J) = Cardinality(K)
  <2>1. IsFiniteSet(K)
    BY <1>1, <1>3, NthProperties
  <2>2. \A x \in K : f[x] \in J
    BY <1>3
  <2>3. \A x, y \in K : f[x] = f[y] => x = y
    BY <1>3, <1>6
  <2>4. \A j \in J : \E x \in K : f[x] = j
    BY <1>8
  <2> QED BY ONLY <2>1, <2>2, <2>3, <2>4, ImageCardinality
<1>10. ASSUME NEW k \in K PROVE Rank(J, f[k]) = Rank(K, k)
  <2> DEFINE A == {q \in K : q < k}
             B == {j \in J : j < f[k]}
  <2>1. IsFiniteSet(A)
    <3>1. k \in Nat /\ \A q \in K : q \in Nat
      BY <1>3
    <3> QED BY <3>1, RankIsNat
  <2>2. \A q \in A : f[q] \in B
    BY <1>1, <1>3
  <2>3. \A j \in B : \E q \in A : f[q] = j
    <3> TAKE j \in B
    <3>1. PICK q \in K : f[q] = j
      BY <1>8
    <3>2. q \in 1 .. n /\ k \in 1 .. n /\ f[q] < f[k]
      BY <1>3, <3>1
    <3> QED BY <1>7, <3>1, <3>2
  <2>4. \A q, r \in A : f[q] = f[r] => q = r
    BY <1>3, <1>6
  <2> HIDE DEF A, B
  <2>5. Cardinality(B) = Cardinality(A)
    BY <2>1, <2>2, <2>3, <2>4, ImageCardinality
  <2> HIDE DEF f
  <2> QED BY <2>5 DEF Rank, A, B
<1>11. ASSUME NEW k \in 1 .. Cardinality(K)
       PROVE  Nth(K, k) \in K /\ Nth(J, k) = f[Nth(K, k)]
  <2>1. Nth(K, k) \in K /\ Rank(K, Nth(K, k)) = k - 1
    BY <1>1, <1>3, NthProperties
  <2>2. Rank(J, f[Nth(K, k)]) = k - 1 /\ f[Nth(K, k)] \in J
    BY <1>3, <1>10, <2>1
  <2>3. Nth(J, Rank(J, f[Nth(K, k)]) + 1) = f[Nth(K, k)]
    <3> DEFINE j == f[Nth(K, k)]
    <3>1. j \in J
      BY <2>2
    <3> HIDE DEF j
    <3>2. Nth(J, Rank(J, j) + 1) = j
      BY <1>2, <1>4, <3>1, NthProperties
    <3> QED BY <3>2 DEF j
  <2>4. k - 1 + 1 = k
    OBVIOUS
  <2> QED BY <2>1, <2>2, <2>3, <2>4
<1>12. \A k \in 1 .. Cardinality(K) : s[Nth(K, k)] = list[Nth(J, k)]
  BY <1>1, <1>3, <1>11
<1> QED BY <1>9, <1>12 DEF SubList, s
-----------------------------------------------------------------------------
(* Sorted sets.                                                            *)

LEMMA AscendingProperties ==
  ASSUME NEW I, NEW n \in Nat, \A j \in I : j \in 1 .. n
  PROVE  /\ Cardinality(I) \in Nat
         /\ Ascending(I) \in Seq(I) /\ Len(Ascending(I)) = Cardinality(I)
         /\ DOMAIN Ascending(I) = 1 .. Cardinality(I)
         /\ \A k \in DOMAIN Ascending(I) : Ascending(I)[k] \in I
         /\ \A k, q \in DOMAIN Ascending(I) : Ascending(I)[k] = Ascending(I)[q] => k = q
         /\ \A i \in I : \E k \in DOMAIN Ascending(I) : Ascending(I)[k] = i
<1> DEFINE c == Cardinality(I)
<1>1. /\ c \in Nat
      /\ \A k \in 1 .. c : Nth(I, k) \in I
      /\ \A k, q \in 1 .. c : k < q => Nth(I, k) < Nth(I, q)
      /\ \A i \in I : Rank(I, i) + 1 \in 1 .. c /\ Nth(I, Rank(I, i) + 1) = i
  BY NthProperties
<1>2. Ascending(I) = [k \in 1 .. c |-> Nth(I, k)]
  BY DEF Ascending
<1>3. Ascending(I) \in Seq(I) /\ Len(Ascending(I)) = c /\ DOMAIN Ascending(I) = 1 .. c
  BY <1>1, <1>2
<1>4. \A k \in 1 .. c : Ascending(I)[k] = Nth(I, k)
  BY <1>2
<1> HIDE DEF c
<1>5. ASSUME NEW k \in 1 .. c, NEW q \in 1 .. c, Nth(I, k) = Nth(I, q) PROVE k = q
  <2>1. Nth(I, k) \in Nat /\ Nth(I, q) \in Nat
    BY <1>1
  <2>2. ~ (k < q) /\ ~ (q < k)
    BY <1>1, <1>5, <2>1
  <2> QED BY <1>1, <2>2
<1>6. \A i \in I : \E k \in 1 .. c : Ascending(I)[k] = i
  BY <1>1, <1>4
<1> QED BY <1>1, <1>3, <1>4, <1>5, <1>6 DEF c

\* The first n of ids can be given to rows: distinct, and none of T.
NewNumbers(ids, n, T) ==
  /\ ids \in Seq(Nat) /\ Len(ids) >= n
  /\ \A k \in 1 .. n : k \in DOMAIN ids /\ ids[k] \in Nat /\ ids[k] \notin T
  /\ \A k, q \in 1 .. n : ids[k] = ids[q] => k = q

\* The numbers T leaves free: as many as are asked for, none of T's.
LEMMA FreeNumbers ==
  ASSUME NEW T, IsFiniteSet(T), NEW c \in Nat, Cardinality(T) <= c, NEW n \in Nat,
         NEW ids, ids = Ascending((1 .. (c + n)) \ T)
  PROVE  NewNumbers(ids, n, T)
<1> DEFINE free == (1 .. (c + n)) \ T
<1>1. c + n \in Nat /\ Cardinality(T) \in Nat
  BY FS_CardinalityType
<1>2. \A j \in free : j \in 1 .. (c + n)
  OBVIOUS
<1>3. /\ Cardinality(free) \in Nat
      /\ ids \in Seq(free) /\ Len(ids) = Cardinality(free)
      /\ DOMAIN ids = 1 .. Cardinality(free)
      /\ \A k \in DOMAIN ids : ids[k] \in free
      /\ \A k, q \in DOMAIN ids : ids[k] = ids[q] => k = q
  <2>0. PICK m \in Nat : m = c + n
    BY <1>1
  <2>1. PICK F : F = free
    OBVIOUS
  <2>2. \A i \in F : i \in 1 .. m
    BY <1>2, <2>0, <2>1
  <2>3. /\ Cardinality(F) \in Nat
        /\ Ascending(F) \in Seq(F) /\ Len(Ascending(F)) = Cardinality(F)
        /\ DOMAIN Ascending(F) = 1 .. Cardinality(F)
        /\ \A k \in DOMAIN Ascending(F) : Ascending(F)[k] \in F
        /\ \A k, q \in DOMAIN Ascending(F) : Ascending(F)[k] = Ascending(F)[q] => k = q
    BY ONLY <2>2, m \in Nat, AscendingProperties
  <2>4. ids = Ascending(F)
    BY <2>1
  <2> HIDE DEF free
  <2> QED BY <2>1, <2>3, <2>4
<1>4. Cardinality(free) >= n
  <2>1. IsFiniteSet(free)
    <3>1. PICK m \in Nat : m = c + n
      BY <1>1
    <3>2. IsFiniteSet(1 .. m) /\ free \in SUBSET (1 .. m)
      BY <3>1, FS_Interval
    <3> HIDE DEF free
    <3> QED BY <3>2, FS_Subset
  <2>2. IsFiniteSet(free \cup T) /\ Cardinality(free \cup T) <= Cardinality(free) + Cardinality(T)
    <3>1. /\ IsFiniteSet(free \cup T)
          /\ Cardinality(free \cup T) = Cardinality(free) + Cardinality(T) - Cardinality(free \cap T)
      <4> HIDE DEF free
      <4> QED BY <2>1, FS_Union
    <3>2. free \cap T = {}
      OBVIOUS
    <3>3. Cardinality(free \cap T) = 0
      BY <3>2, FS_EmptySet
    <3> HIDE DEF free
    <3> QED BY <1>1, <1>3, <3>1, <3>3
  <2>3. Cardinality(1 .. (c + n)) = c + n
    <3>1. ASSUME NEW m \in Nat PROVE Cardinality(1 .. m) = m
      <4>1. Cardinality(1 .. m) = IF 1 > m THEN 0 ELSE m - 1 + 1
        BY FS_Interval
      <4> QED BY <4>1
    <3> QED BY <1>1, <3>1
  <2>4. 1 .. (c + n) \in SUBSET (free \cup T)
    OBVIOUS
  <2>5. c + n <= Cardinality(free \cup T)
    <3>1. Cardinality(1 .. (c + n)) <= Cardinality(free \cup T)
      <4> HIDE DEF free
      <4> QED BY <2>2, <2>4, FS_Subset
    <3> QED BY <2>3, <3>1
  <2> HIDE DEF free
  <2>6. Cardinality(free \cup T) \in Nat
    BY <2>2, FS_CardinalityType
  <2> QED BY <1>1, <1>3, <2>2, <2>5, <2>6
<1>5. \A j \in free : j \in Nat /\ j \notin T
  BY <1>2
<1> HIDE DEF free
<1>6. \A k \in 1 .. n : k \in DOMAIN ids
  BY <1>1, <1>3, <1>4
<1>7. ids \in Seq(Nat)
  <2>1. \A k \in DOMAIN ids : ids[k] \in Nat
    BY <1>3, <1>5
  <2>2. PICK m \in Nat : m = Cardinality(free)
    BY <1>3
  <2>3. ids \in [1 .. m -> Nat]
    BY ONLY <1>3, <2>1, <2>2
  <2> QED BY ONLY <2>2, <2>3
<1>8. Len(ids) >= n
  BY <1>3, <1>4
<1>9. \A k \in 1 .. n : ids[k] \in Nat /\ ids[k] \notin T
  BY <1>3, <1>5, <1>6
<1>10. \A k, q \in 1 .. n : ids[k] = ids[q] => k = q
  BY <1>3, <1>6
<1> QED BY <1>6, <1>7, <1>8, <1>9, <1>10 DEF NewNumbers

\* `before` puts the elements of S in an order, any two of them.
Orders(before, S) ==
  /\ \A r \in S : <<r, r>> \notin before
  /\ \A r, s \in S : r # s => <<r, s>> \in before \/ <<s, r>> \in before
  /\ \A r, s, q \in S : <<r, s>> \in before /\ <<s, q>> \in before => <<r, q>> \in before

LEMMA SortedProperties ==
  ASSUME NEW S, IsFiniteSet(S), NEW before, Orders(before, S)
  PROVE  /\ Cardinality(S) \in Nat
         /\ Sorted(S, before) \in Seq(S) /\ Len(Sorted(S, before)) = Cardinality(S)
         /\ DOMAIN Sorted(S, before) = 1 .. Cardinality(S)
         /\ \A k \in DOMAIN Sorted(S, before) : Sorted(S, before)[k] \in S
         /\ \A r \in S : \E k \in DOMAIN Sorted(S, before) : Sorted(S, before)[k] = r
         /\ \A k, q \in DOMAIN Sorted(S, before) : Sorted(S, before)[k] = Sorted(S, before)[q] => k = q
         /\ \A k, q \in DOMAIN Sorted(S, before) :
              k < q => <<Sorted(S, before)[k], Sorted(S, before)[q]>> \in before
<1> DEFINE n == Cardinality(S)
           Earlier(r) == {s \in S : <<s, r>> \in before}
           pos == [r \in S |-> Cardinality(Earlier(r))]
           out == Sorted(S, before)
<1>1. n \in Nat
  BY FS_CardinalityType
<1>2. \A r \in S : IsFiniteSet(Earlier(r)) /\ pos[r] = Cardinality(Earlier(r)) /\ pos[r] \in Nat
  <2> TAKE r \in S
  <2>1. Earlier(r) \in SUBSET S
    OBVIOUS
  <2>2. IsFiniteSet(Earlier(r))
    BY <2>1, FS_Subset
  <2>3. Cardinality(Earlier(r)) \in Nat
    BY <2>2, FS_CardinalityType
  <2> QED BY <2>2, <2>3
<1>3. ASSUME NEW r \in S, NEW s \in S, <<r, s>> \in before
      PROVE  pos[r] < pos[s]
  <2>1. Earlier(r) \cup {r} \in SUBSET Earlier(s) /\ r \notin Earlier(r)
    BY <1>3 DEF Orders
  <2>2. Cardinality(Earlier(r) \cup {r}) = Cardinality(Earlier(r)) + 1
    BY <1>2, <2>1, FS_AddElement
  <2>3. Cardinality(Earlier(r) \cup {r}) <= Cardinality(Earlier(s))
    BY <1>2, <2>1, FS_Subset
  <2> HIDE DEF Earlier, pos
  <2> QED BY <1>2, <2>2, <2>3
<1>4. ASSUME NEW r \in S PROVE pos[r] \in 0 .. (n - 1)
  <2>1. Earlier(r) \cup {r} \in SUBSET S /\ r \notin Earlier(r)
    BY DEF Orders
  <2>2. Cardinality(Earlier(r) \cup {r}) = Cardinality(Earlier(r)) + 1
    BY <1>2, <2>1, FS_AddElement
  <2>3. Cardinality(Earlier(r) \cup {r}) <= n
    BY <2>1, FS_Subset
  <2> HIDE DEF Earlier, pos, n
  <2> QED BY <1>1, <1>2, <2>2, <2>3
<1>5. ASSUME NEW r \in S, NEW s \in S, pos[r] = pos[s] PROVE r = s
  <2> HIDE DEF Earlier, pos
  <2>1. pos[r] \in Nat /\ ~ (pos[r] < pos[s]) /\ ~ (pos[s] < pos[r])
    BY <1>2, <1>5
  <2>2. <<r, s>> \notin before /\ <<s, r>> \notin before
    BY <1>3, <2>1
  <2> QED BY <2>2 DEF Orders
<1>6. \A i \in 0 .. (n - 1) : \E r \in S : pos[r] = i
  <2>1. pos \in [S -> 0 .. (n - 1)]
    BY <1>4
  <2>2. pos \in Injection(S, 0 .. (n - 1))
    <3>1. DOMAIN pos = S
      OBVIOUS
    <3> HIDE DEF pos
    <3> QED BY <1>5, <2>1, <3>1 DEF Injection, IsInjective
  <2>3. IsFiniteSet(0 .. (n - 1)) /\ Cardinality(0 .. (n - 1)) = n
    <3>1. 0 \in Int /\ n - 1 \in Int
      BY <1>1
    <3>2. /\ IsFiniteSet(0 .. (n - 1))
          /\ Cardinality(0 .. (n - 1)) = IF 0 > n - 1 THEN 0 ELSE n - 1 - 0 + 1
      BY ONLY <3>1, FS_Interval
    <3> QED BY <1>1, <3>2
  <2>4. pos \in Surjection(S, 0 .. (n - 1))
    <3> HIDE DEF pos
    <3> QED BY <2>2, <2>3, FS_Injection
  <2> HIDE DEF pos
  <2> QED BY <2>4 DEF Surjection
<1>7. out = [k \in 1 .. n |-> CHOOSE r \in S : Cardinality(Earlier(r)) = k - 1]
  BY DEF Sorted
<1>8. ASSUME NEW k \in 1 .. n PROVE out[k] \in S /\ pos[out[k]] = k - 1
  <2>1. k - 1 \in 0 .. (n - 1)
    BY <1>1
  <2>2. PICK r \in S : pos[r] = k - 1
    BY <1>6, <2>1
  <2>3. Cardinality(Earlier(r)) = k - 1
    BY <2>2
  <2>4. out[k] = CHOOSE q \in S : Cardinality(Earlier(q)) = k - 1
    BY <1>7
  <2> HIDE DEF out
  <2>5. out[k] \in S /\ Cardinality(Earlier(out[k])) = k - 1
    BY <2>3, <2>4
  <2> QED BY <2>5
<1>9. DOMAIN out = 1 .. n /\ out \in Seq(S) /\ Len(out) = n
  <2>1. out = [k \in 1 .. n |-> out[k]] /\ DOMAIN out = 1 .. n
    BY <1>7
  <2>2. \A k \in 1 .. n : out[k] \in S
    BY <1>8
  <2> HIDE DEF out, n, pos
  <2>3. out \in [1 .. n -> S]
    BY <2>1, <2>2
  <2>4. Len(out) = n
    BY <1>1, <2>1
  <2> QED BY <1>1, <2>1, <2>3, <2>4
<1> HIDE DEF out, pos, n
<1>10. \A r \in S : \E k \in 1 .. n : out[k] = r
  <2> TAKE r \in S
  <2>1. pos[r] + 1 \in 1 .. n /\ (pos[r] + 1) - 1 = pos[r]
    BY <1>1, <1>4
  <2>2. out[pos[r] + 1] \in S /\ pos[out[pos[r] + 1]] = pos[r]
    BY <1>8, <2>1
  <2> QED BY <1>5, <2>1, <2>2
<1>11. ASSUME NEW k \in 1 .. n, NEW q \in 1 .. n, out[k] = out[q] PROVE k = q
  BY <1>1, <1>8, <1>11
<1>12. ASSUME NEW k \in 1 .. n, NEW q \in 1 .. n, k < q PROVE <<out[k], out[q]>> \in before
  <2>1. out[k] \in S /\ out[q] \in S /\ pos[out[k]] < pos[out[q]]
    BY <1>1, <1>8, <1>12
  <2>2. out[k] # out[q] /\ ~ (pos[out[q]] < pos[out[k]])
    <3>1. pos[out[k]] \in Nat /\ pos[out[q]] \in Nat
      BY <1>2, <2>1
    <3> QED BY <2>1, <3>1
  <2>3. <<out[q], out[k]>> \notin before
    BY <1>3, <2>1, <2>2
  <2> QED BY <2>1, <2>2, <2>3 DEF Orders
<1> QED BY <1>1, <1>8, <1>9, <1>10, <1>11, <1>12 DEF out, n

\* A list of S that is in the order is the one that sorting makes.
LEMMA SortedIs ==
  ASSUME NEW S, NEW before, NEW n \in Nat, NEW f \in [1 .. n -> S],
         \A r \in S : \E k \in 1 .. n : f[k] = r,
         \A k, q \in 1 .. n : <<f[k], f[q]>> \in before <=> k < q
  PROVE  IsFiniteSet(S) /\ Cardinality(S) = n /\ Sorted(S, before) = f
<1> DEFINE Earlier(r) == {s \in S : <<s, r>> \in before}
<1>1. ASSUME NEW k \in 1 .. n, NEW q \in 1 .. n, f[k] = f[q] PROVE k = q
  <2>1. <<f[k], f[q]>> = <<f[q], f[q]>> /\ <<f[q], f[k]>> = <<f[q], f[q]>>
    BY <1>1
  <2>2. <<f[q], f[q]>> \notin before
    OBVIOUS
  <2>3. ~ (k < q) /\ ~ (q < k)
    BY <2>1, <2>2
  <2> QED BY <2>3
<1>2. /\ \A a \in Int, b \in Int : IsFiniteSet(a .. b)
      /\ \A m \in Nat : Cardinality(1 .. m) = m
  <2>1. ASSUME NEW m \in Nat PROVE Cardinality(1 .. m) = m
    <3>1. Cardinality(1 .. m) = IF 1 > m THEN 0 ELSE m - 1 + 1
      BY FS_Interval
    <3> QED BY <3>1
  <2> QED BY <2>1, FS_Interval
<1>3. IsFiniteSet(S) /\ Cardinality(S) = n
  <2>1. IsFiniteSet(1 .. n) /\ Cardinality(1 .. n) = n
    BY <1>2
  <2> QED BY <1>1, <2>1, ImageCardinality
<1>4. ASSUME NEW k \in 1 .. n PROVE Cardinality(Earlier(f[k])) = k - 1
  <2> DEFINE D == 1 .. (k - 1)
  <2>1. k - 1 \in Nat /\ \A q \in D : q \in 1 .. n /\ q < k
    OBVIOUS
  <2>2. IsFiniteSet(D) /\ Cardinality(D) = k - 1
    BY <1>2, <2>1
  <2>3. \A q \in D : f[q] \in Earlier(f[k])
    BY <2>1
  <2>4. \A s \in Earlier(f[k]) : \E q \in D : f[q] = s
    <3> TAKE s \in Earlier(f[k])
    <3>1. PICK q \in 1 .. n : f[q] = s
      OBVIOUS
    <3>2. q < k
      BY <3>1
    <3>3. q \in D
      BY <3>2
    <3> QED BY <3>1, <3>3
  <2>5. \A p, q \in D : f[p] = f[q] => p = q
    BY <1>1, <2>1
  <2> HIDE DEF D, Earlier
  <2> QED BY <2>2, <2>3, <2>4, <2>5, ImageCardinality
<1>5. ASSUME NEW k \in 1 .. n
      PROVE  (CHOOSE r \in S : Cardinality(Earlier(r)) = k - 1) = f[k]
  <2>1. ASSUME NEW r \in S, Cardinality(Earlier(r)) = k - 1 PROVE r = f[k]
    <3>1. PICK q \in 1 .. n : f[q] = r
      OBVIOUS
    <3>2. Cardinality(Earlier(f[q])) = q - 1
      BY <1>4
    <3> HIDE DEF Earlier
    <3>3. q = k
      BY <2>1, <3>1, <3>2
    <3> QED BY <3>1, <3>3
  <2>2. f[k] \in S /\ Cardinality(Earlier(f[k])) = k - 1
    BY <1>4
  <2> HIDE DEF Earlier
  <2> QED BY <2>1, <2>2
<1>6. Sorted(S, before) = [k \in 1 .. n |-> CHOOSE r \in S : Cardinality(Earlier(r)) = k - 1]
  BY <1>3 DEF Sorted
<1>7. f = [k \in 1 .. n |-> f[k]]
  OBVIOUS
<1> HIDE DEF Earlier
<1>8. Sorted(S, before) = [k \in 1 .. n |-> f[k]]
  BY <1>5, <1>6
<1> QED BY <1>3, <1>7, <1>8

\* list has each of S once, in the order of `before`.
Lines(list, S, before) ==
  /\ Cardinality(S) \in Nat
  /\ list \in Seq(S) /\ Len(list) = Cardinality(S) /\ DOMAIN list = 1 .. Cardinality(S)
  /\ \A k \in DOMAIN list : list[k] \in S
  /\ \A r \in S : \E k \in DOMAIN list : list[k] = r
  /\ \A k, q \in DOMAIN list : list[k] = list[q] => k = q
  /\ \A k, q \in DOMAIN list : k < q => <<list[k], list[q]>> \in before

\* Sorting gives such a list.
LEMMA SortedLines ==
  ASSUME NEW S, IsFiniteSet(S), NEW before, Orders(before, S)
  PROVE  Lines(Sorted(S, before), S, before)
BY SortedProperties DEF Lines

\* Sorting the image under a map that keeps the order maps the sorted list.
LEMMA SortedImage ==
  ASSUME NEW S, NEW before, NEW list, Lines(list, S, before), Orders(before, S),
         NEW M, NEW after, NEW g,
         \A r \in S : g[r] \in M,
         \A s \in M : \E r \in S : g[r] = s,
         \A r, q \in S : <<g[r], g[q]>> \in after <=> <<r, q>> \in before
  PROVE  Sorted(M, after) = [k \in 1 .. Cardinality(S) |-> g[list[k]]]
<1> DEFINE n == Cardinality(S)
           f == [k \in 1 .. n |-> g[list[k]]]
<1>1. n \in Nat /\ DOMAIN list = 1 .. n
  BY DEF Lines
<1> HIDE DEF n
<1>2. \A k \in 1 .. n : list[k] \in S
  BY <1>1 DEF Lines
<1>3. f \in [1 .. n -> M]
  BY <1>2
<1>4. \A k \in 1 .. n : f[k] = g[list[k]]
  OBVIOUS
<1> HIDE DEF f
<1>5. \A s \in M : \E k \in 1 .. n : f[k] = s
  <2> TAKE s \in M
  <2>1. PICK r \in S : g[r] = s
    OBVIOUS
  <2>2. PICK k \in 1 .. n : list[k] = r
    BY <1>1 DEF Lines
  <2> QED BY <1>4, <2>1, <2>2
<1>6. ASSUME NEW k \in 1 .. n, NEW q \in 1 .. n
      PROVE  <<f[k], f[q]>> \in after <=> k < q
  <2>1. <<f[k], f[q]>> \in after <=> <<list[k], list[q]>> \in before
    BY <1>2, <1>4
  <2>2. k < q => <<list[k], list[q]>> \in before
    BY <1>1 DEF Lines
  <2>3. k = q => <<list[k], list[q]>> \notin before
    BY <1>2 DEF Orders
  <2>4. ASSUME q < k PROVE <<list[k], list[q]>> \notin before
    <3>1. <<list[q], list[k]>> \in before
      BY <1>1, <2>4 DEF Lines
    <3>2. <<list[k], list[q]>> \in before => <<list[k], list[k]>> \in before
      BY <1>2, <3>1 DEF Orders
    <3> QED BY <1>2, <3>2 DEF Orders
  <2> QED BY <1>1, <2>1, <2>2, <2>3, <2>4
<1>7. Sorted(M, after) = f
  BY <1>1, <1>3, <1>5, <1>6, SortedIs
<1> QED BY <1>7 DEF f, n

\* The greatest of some numbers, -1 when there are none.
LEMMA MaxOrLess ==
  ASSUME NEW T, IsFiniteSet(T), \A x \in T : x \in Nat
  PROVE  Max(T \cup {-1}) \in Int /\ Max(T \cup {-1}) >= -1
<1> DEFINE all == T \cup {-1}
           list == Sorted(T, Below)
<1>1. Orders(Below, T)
  <2>1. \A x, y \in T : <<x, y>> \in Below <=> x < y
    BY DEF Below
  <2>2. \A x, y \in T : x # y => <<x, y>> \in Below \/ <<y, x>> \in Below
    BY <2>1
  <2>3. \A x \in T : <<x, x>> \notin Below
    BY <2>1
  <2>4. \A x, y, z \in T : <<x, y>> \in Below /\ <<y, z>> \in Below => <<x, z>> \in Below
    <3> SUFFICES ASSUME NEW x \in T, NEW y \in T, NEW z \in T, <<x, y>> \in Below, <<y, z>> \in Below
                 PROVE  <<x, z>> \in Below
      OBVIOUS
    <3>1. x < y /\ y < z
      BY <2>1
    <3> QED BY <2>1, <3>1
  <2> QED BY <2>2, <2>3, <2>4 DEF Orders
<1>2. Lines(list, T, Below)
  BY <1>1, SortedLines
<1>3. PICK c \in Nat : c = Cardinality(T)
  BY <1>2 DEF Lines
<1> HIDE DEF list
<1>4. /\ \A k \in 1 .. c : list[k] \in T
      /\ \A x \in T : \E k \in 1 .. c : list[k] = x
      /\ \A k, q \in 1 .. c : k < q => list[k] < list[q]
  BY <1>2, <1>3 DEF Lines, Below
<1>5. \E x \in all : \A y \in all : x >= y
  <2>1. CASE c = 0
    BY <1>4, <2>1
  <2>2. CASE c # 0
    <3>1. c \in 1 .. c
      BY <2>2
    <3>2. ASSUME NEW x \in T PROVE list[c] >= x
      <4>1. PICK k \in 1 .. c : list[k] = x
        BY <1>4
      <4>2. k = c \/ list[k] < list[c]
        BY <1>4, <3>1, <4>1
      <4>3. list[c] \in Nat /\ x \in Nat
        BY <1>4, <3>1
      <4> QED BY <4>1, <4>2, <4>3
    <3>3. list[c] \in all /\ \A y \in all : list[c] >= y
      BY <1>4, <3>1, <3>2
    <3> QED BY <3>3
  <2> QED BY <2>1, <2>2
<1>6. Max(all) \in all
  <2> HIDE DEF all
  <2> QED BY <1>5, Zenon DEF Max
<1> QED BY <1>6

=============================================================================
