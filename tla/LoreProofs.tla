----------------------------- MODULE LoreProofs -----------------------------
(***************************************************************************)
(* Proofs about Lore, for any entries and any number of uploads, edits and *)
(* restores: first how merge.match pairs two lists of entries in its       *)
(* tiers, then what a re-open and a restore make of the rows.              *)
(***************************************************************************)
EXTENDS Lore, ListProofs, TLAPS

-----------------------------------------------------------------------------
(* Pairing two lists of entries.                                           *)

\* Pairs of places of b and t, none of a place twice; what the tier says.
OneToOne(pairs, b, t) ==
  /\ \A p \in pairs : /\ p.at \in DOMAIN b /\ p.to \in DOMAIN t
                      /\ p = Pair(p.at, p.to, p.tier)
  /\ \A p, q \in pairs : p.at = q.at \/ p.to = q.to => p = q
Tiered(pairs, b, t) ==
  \A p \in pairs : /\ p.tier = "exact" => t[p.to] = b[p.at]
                   /\ p.tier = "keyed" => t[p.to].name = b[p.at].name \/ t[p.to].text = b[p.at].text
                   /\ p.tier \in {"exact", "keyed", "positional"}

LEMMA PairParts ==
  ASSUME NEW i, NEW j, NEW tier
  PROVE  Pair(i, j, tier).at = i /\ Pair(i, j, tier).to = j /\ Pair(i, j, tier).tier = tier
BY DEF Pair

LEMMA ExactUnfolds ==
  ASSUME NEW b \in Seq(Entries), NEW t \in Seq(Entries)
  PROVE  \E f : /\ Exact(b, t) = f[Len(b)].pairs
                /\ f[0] = [pairs |-> {}, last |-> 0]
                /\ \A i \in 1 .. Len(b) : f[i] = Claimed(f[i - 1], b, t, i)
<1> DEFINE zero == [pairs |-> {}, last |-> 0]
           Def(f, n) == f = [i \in 0 .. n |-> IF i = 0 THEN zero ELSE Claimed(f[i - 1], b, t, i)]
           S == {n \in Nat : \E f : Def(f, n)}
<1> HIDE DEF zero
<1>1. 0 \in S
  <2>1. Def([i \in 0 .. 0 |-> zero], 0)
    OBVIOUS
  <2> QED BY <2>1
<1>2. ASSUME NEW n \in Nat, n \in S PROVE n + 1 \in S
  <2>1. PICK f : Def(f, n)
    BY <1>2
  <2> DEFINE g == [i \in 0 .. (n + 1) |-> IF i <= n THEN f[i]
                                          ELSE IF i = 0 THEN zero ELSE Claimed(f[i - 1], b, t, i)]
  <2>2. ASSUME NEW i \in 0 .. (n + 1)
        PROVE  g[i] = IF i = 0 THEN zero ELSE Claimed(g[i - 1], b, t, i)
    <3>1. CASE i <= n
      <4>1. i \in 0 .. n /\ (i # 0 => i - 1 \in 0 .. n)
        BY <3>1
      <4>2. f[i] = IF i = 0 THEN zero ELSE Claimed(f[i - 1], b, t, i)
        BY <2>1, <4>1
      <4>3. g[i] = f[i] /\ (i # 0 => g[i - 1] = f[i - 1])
        BY <3>1, <4>1
      <4> QED BY <4>2, <4>3
    <3>2. CASE ~ (i <= n)
      <4>1. i = n + 1 /\ i # 0 /\ i - 1 \in 0 .. n /\ i - 1 \in 0 .. (n + 1)
        BY <3>2
      <4>2. g[i - 1] = f[i - 1]
        BY <4>1
      <4>3. g[i] = Claimed(f[i - 1], b, t, i)
        BY <3>2, <4>1
      <4> QED BY <4>1, <4>2, <4>3
    <3> QED BY <3>1, <3>2
  <2>3. Def(g, n + 1)
    <3>1. g = [i \in 0 .. (n + 1) |-> g[i]]
      OBVIOUS
    <3> HIDE DEF g
    <3> QED BY <2>2, <3>1
  <2> HIDE DEF g, Def
  <2> QED BY <2>3
<1>3. \E f : Def(f, Len(b))
  <2>1. Len(b) \in Nat
    OBVIOUS
  <2> HIDE DEF Def
  <2> QED BY <1>1, <1>2, <2>1, SetInduction
<1> DEFINE F == CHOOSE f : Def(f, Len(b))
<1>4. Def(F, Len(b))
  BY <1>3
<1>5. Exact(b, t) = F[Len(b)].pairs
  BY DEF Exact, zero
<1> HIDE DEF F
<1>6. F[0] = zero /\ \A i \in 1 .. Len(b) : F[i] = Claimed(F[i - 1], b, t, i)
  <2>1. \A i \in 0 .. Len(b) : F[i] = IF i = 0 THEN zero ELSE Claimed(F[i - 1], b, t, i)
    BY <1>4, Zenon
  <2>2. Len(b) \in Nat /\ 0 \in 0 .. Len(b) /\ \A i \in 1 .. Len(b) : i \in 0 .. Len(b) /\ i # 0
    OBVIOUS
  <2>3. F[0] = zero
    BY <2>1, <2>2
  <2>4. ASSUME NEW i \in 1 .. Len(b) PROVE F[i] = Claimed(F[i - 1], b, t, i)
    BY <2>1, <2>2
  <2> QED BY <2>3, <2>4
<1> QED BY <1>5, <1>6 DEF zero

\* One more entry of b claims a copy of itself in t, or there is none left.
LEMMA ClaimsOne ==
  ASSUME NEW b \in Seq(Entries), NEW t \in Seq(Entries), NEW found, NEW i \in DOMAIN b
  PROVE  \/ /\ Claimed(found, b, t, i).pairs = found.pairs
            /\ \A j \in RightOf(t, found.pairs) : t[j] # b[i]
         \/ \E j \in RightOf(t, found.pairs) :
              /\ Claimed(found, b, t, i).pairs = found.pairs \cup {Pair(i, j, "exact")}
              /\ t[j] = b[i]
<1> DEFINE pool == {j \in RightOf(t, found.pairs) : t[j] = b[i]}
           ahead == {j \in pool : j >= found.last}
           from == IF ahead # {} THEN ahead ELSE pool
<1>1. CASE pool = {}
  BY <1>1 DEF Claimed
<1>2. CASE pool # {}
  <2>1. Claimed(found, b, t, i) = [pairs |-> found.pairs \cup {Pair(i, Min(from), "exact")}, last |-> Min(from)]
    BY <1>2 DEF Claimed
  <2>2. from # {} /\ (\A j \in from : j \in Nat) /\ (\A j \in from : j \in RightOf(t, found.pairs) /\ t[j] = b[i])
    BY <1>2 DEF RightOf
  <2> HIDE DEF from, pool, ahead
  <2>3. Min(from) \in from
    BY <2>2, MinProperties
  <2> QED BY <2>1, <2>2, <2>3
<1> QED BY <1>1, <1>2

\* One pair more, of two places that are free.
LEMMA OneMore ==
  ASSUME NEW pairs, NEW B, NEW T, NEW i, NEW j, NEW tier,
         \A p, q \in pairs : p.at = q.at \/ p.to = q.to => p = q,
         \A p \in pairs : p.at # i /\ p.to # j
  PROVE  \A p, q \in pairs \cup {Pair(i, j, tier)} : p.at = q.at \/ p.to = q.to => p = q
<1>1. PICK e : e = Pair(i, j, tier) /\ e.at = i /\ e.to = j
  BY PairParts
<1>2. \A p, q \in pairs \cup {e} : p.at = q.at \/ p.to = q.to => p = q
  BY ONLY <1>1, \A p, q \in pairs : p.at = q.at \/ p.to = q.to => p = q,
          \A p \in pairs : p.at # i /\ p.to # j
<1> QED BY <1>1, <1>2

\* The exact tier pairs copies, none of them twice, and leaves none to pair.
LEMMA ExactForm ==
  ASSUME NEW b \in Seq(Entries), NEW t \in Seq(Entries)
  PROVE  /\ OneToOne(Exact(b, t), b, t)
         /\ \A p \in Exact(b, t) : p.tier = "exact" /\ t[p.to] = b[p.at]
         /\ \A i \in LeftOf(b, Exact(b, t)), j \in RightOf(t, Exact(b, t)) : t[j] # b[i]
<1>1. PICK f : /\ Exact(b, t) = f[Len(b)].pairs
               /\ f[0] = [pairs |-> {}, last |-> 0]
               /\ \A i \in 1 .. Len(b) : f[i] = Claimed(f[i - 1], b, t, i)
  BY ExactUnfolds
<1> DEFINE Formed(n) == \A p \in f[n].pairs :
                          /\ p = Pair(p.at, p.to, "exact") /\ p.tier = "exact"
                          /\ p.at \in 1 .. n /\ p.to \in DOMAIN t /\ t[p.to] = b[p.at]
           Single(n) == \A p, q \in f[n].pairs : p.at = q.at \/ p.to = q.to => p = q
           Spent(n) == \A i \in 1 .. n : \/ \E p \in f[n].pairs : p.at = i
                                         \/ \A j \in RightOf(t, f[n].pairs) : t[j] # b[i]
           Sound(n) == Formed(n) /\ Single(n) /\ Spent(n)
           S == {n \in Nat : n <= Len(b) => Sound(n)}
<1>2. 0 \in S
  BY <1>1
<1>3. ASSUME NEW n \in Nat, n \in S, n + 1 <= Len(b) PROVE Sound(n + 1)
  <2>1. n + 1 \in DOMAIN b /\ n + 1 \in 1 .. Len(b) /\ (n + 1) - 1 = n
    BY <1>3
  <2>2. f[n + 1] = Claimed(f[n], b, t, n + 1)
    BY <1>1, <2>1
  <2>3. Formed(n) /\ Single(n) /\ Spent(n)
    BY <1>3
  <2>4. \/ /\ f[n + 1].pairs = f[n].pairs
           /\ \A j \in RightOf(t, f[n].pairs) : t[j] # b[n + 1]
        \/ \E j \in RightOf(t, f[n].pairs) :
             f[n + 1].pairs = f[n].pairs \cup {Pair(n + 1, j, "exact")} /\ t[j] = b[n + 1]
    BY <2>1, <2>2, ClaimsOne
  <2>5. /\ \A k \in 1 .. n : k \in 1 .. (n + 1) /\ k # n + 1
        /\ \A k \in 1 .. (n + 1) : k \in 1 .. n \/ k = n + 1
    BY ONLY n \in Nat
  <2>6. CASE f[n + 1].pairs = f[n].pairs /\ \A j \in RightOf(t, f[n].pairs) : t[j] # b[n + 1]
    <3>1. Formed(n + 1) /\ Single(n + 1)
      BY <2>3, <2>5, <2>6
    <3>2. Spent(n + 1)
      BY <2>3, <2>5, <2>6
    <3> QED BY <3>1, <3>2
  <2>7. ASSUME NEW j \in RightOf(t, f[n].pairs), t[j] = b[n + 1],
               f[n + 1].pairs = f[n].pairs \cup {Pair(n + 1, j, "exact")}
        PROVE  Sound(n + 1)
    <3>1. j \in DOMAIN t /\ \A p \in f[n].pairs : p.to # j
      BY <2>7 DEF RightOf
    <3>2. PICK e : /\ e = Pair(n + 1, j, "exact") /\ e.at = n + 1 /\ e.to = j /\ e.tier = "exact"
                   /\ f[n + 1].pairs = f[n].pairs \cup {e}
      BY <2>7, PairParts
    <3>3. Formed(n + 1)
      <4> SUFFICES ASSUME NEW p \in f[n + 1].pairs
                   PROVE  /\ p = Pair(p.at, p.to, "exact") /\ p.tier = "exact"
                          /\ p.at \in 1 .. (n + 1) /\ p.to \in DOMAIN t /\ t[p.to] = b[p.at]
        OBVIOUS
      <4>1. CASE p \in f[n].pairs
        BY <2>3, <2>5, <4>1
      <4>2. CASE p = e
        BY <2>1, <2>7, <3>1, <3>2, <4>2
      <4> QED BY <3>2, <4>1, <4>2
    <3>4. \A p \in f[n].pairs : p.at # n + 1 /\ p.to # j
      BY <2>3, <2>5, <3>1
    <3>5. Single(n + 1)
      <4>1. \A p, q \in f[n].pairs \cup {Pair(n + 1, j, "exact")} : p.at = q.at \/ p.to = q.to => p = q
        BY <2>3, <3>4, OneMore
      <4> QED BY <2>7, <4>1
    <3>6. \A k \in RightOf(t, f[n + 1].pairs) : k \in RightOf(t, f[n].pairs)
      BY <3>2 DEF RightOf
    <3>7. Spent(n + 1)
      <4> SUFFICES ASSUME NEW i \in 1 .. (n + 1), \A p \in f[n + 1].pairs : p.at # i
                   PROVE  \A k \in RightOf(t, f[n + 1].pairs) : t[k] # b[i]
        OBVIOUS
      <4>1. i \in 1 .. n /\ \A p \in f[n].pairs : p.at # i
        BY <2>5, <3>2
      <4>2. \A k \in RightOf(t, f[n].pairs) : t[k] # b[i]
        BY <2>3, <4>1
      <4> QED BY <3>6, <4>2
    <3> QED BY <3>3, <3>5, <3>7
  <2> QED BY <2>4, <2>6, <2>7
<1>4. Len(b) \in S /\ Len(b) \in Nat
  <2>1. \A n \in Nat : n \in S => n + 1 \in S
    <3> HIDE DEF Formed, Single, Spent, Sound
    <3> SUFFICES ASSUME NEW n \in Nat, n \in S, n + 1 <= Len(b) PROVE Sound(n + 1)
      OBVIOUS
    <3> QED BY <1>3
  <2>2. Len(b) \in Nat
    OBVIOUS
  <2> HIDE DEF S
  <2> QED BY <1>2, <2>1, <2>2, SetInduction
<1>5. Formed(Len(b)) /\ Single(Len(b)) /\ Spent(Len(b)) /\ DOMAIN b = 1 .. Len(b)
  BY <1>4
<1>6. OneToOne(Exact(b, t), b, t) /\ \A p \in Exact(b, t) : p.tier = "exact" /\ t[p.to] = b[p.at]
  BY <1>1, <1>5 DEF OneToOne
<1>7. ASSUME NEW i \in LeftOf(b, Exact(b, t)), NEW j \in RightOf(t, Exact(b, t)) PROVE t[j] # b[i]
  <2>1. i \in 1 .. Len(b) /\ \A p \in f[Len(b)].pairs : p.at # i
    BY <1>1, <1>5 DEF LeftOf
  <2> QED BY <1>1, <1>5, <2>1
<1> QED BY <1>6, <1>7

\* A tier adds pairs of what is left over, none of a place twice.
LEMMA TierAdds ==
  ASSUME NEW b \in Seq(Entries), NEW t \in Seq(Entries), NEW pairs, OneToOne(pairs, b, t),
         NEW new, \A p \in new : /\ p = Pair(p.at, p.to, p.tier)
                                 /\ p.at \in LeftOf(b, pairs) /\ p.to \in RightOf(t, pairs),
         \A p, q \in new : /\ p.tier = q.tier
                           /\ p.at = q.at <=> p.to = q.to
  PROVE  OneToOne(pairs \cup new, b, t)
<1>1. /\ \A i \in LeftOf(b, pairs) : i \in DOMAIN b /\ \A p \in pairs : p.at # i
      /\ \A j \in RightOf(t, pairs) : j \in DOMAIN t /\ \A p \in pairs : p.to # j
  BY DEF LeftOf, RightOf
<1>2. \A p \in new : /\ p.at \in DOMAIN b /\ p.to \in DOMAIN t /\ p = Pair(p.at, p.to, p.tier)
                     /\ \A q \in pairs : q.at # p.at /\ q.to # p.to
  BY <1>1
<1>3. \A p, q \in new : p.at = q.at \/ p.to = q.to => p = q
  <2> SUFFICES ASSUME NEW p \in new, NEW q \in new, p.at = q.at \/ p.to = q.to PROVE p = q
    OBVIOUS
  <2>1. p.at = q.at /\ p.to = q.to /\ p.tier = q.tier
    OBVIOUS
  <2>2. p = Pair(p.at, p.to, p.tier) /\ q = Pair(q.at, q.to, q.tier)
    OBVIOUS
  <2> QED BY <2>1, <2>2
<1>4. \A p \in pairs \cup new : /\ p.at \in DOMAIN b /\ p.to \in DOMAIN t
                                /\ p = Pair(p.at, p.to, p.tier)
  BY <1>2 DEF OneToOne
<1>5. \A p, q \in pairs \cup new : p.at = q.at \/ p.to = q.to => p = q
  BY <1>2, <1>3 DEF OneToOne
<1> QED BY <1>4, <1>5, Zenon DEF OneToOne

LEMMA KeyedForm ==
  ASSUME NEW b \in Seq(Entries), NEW t \in Seq(Entries), NEW pairs, OneToOne(pairs, b, t),
         Tiered(pairs, b, t), NEW key \in {"name", "text"}
  PROVE  OneToOne(Keyed(b, t, pairs, key), b, t) /\ Tiered(Keyed(b, t, pairs, key), b, t)
         /\ \A p \in pairs : p \in Keyed(b, t, pairs, key)
<1> DEFINE left == LeftOf(b, pairs)
           right == RightOf(t, pairs)
           more == {ij \in left \X right : /\ b[ij[1]][key] = t[ij[2]][key]
                                           /\ OnlyOne(b, left, key, ij[1])
                                           /\ OnlyOne(t, right, key, ij[2])}
           new == {Pair(ij[1], ij[2], "keyed") : ij \in more}
<1>1. Keyed(b, t, pairs, key) = pairs \cup new
  BY DEF Keyed
<1>2. \A m \in more : m[1] \in left /\ m[2] \in right /\ b[m[1]][key] = t[m[2]][key]
                      /\ OnlyOne(b, left, key, m[1]) /\ OnlyOne(t, right, key, m[2])
  OBVIOUS
<1>3. \A p \in new : \E m \in more : /\ p.at = m[1] /\ p.to = m[2] /\ p.tier = "keyed"
                                     /\ p = Pair(p.at, p.to, p.tier)
  BY PairParts
<1> HIDE DEF more, new
<1>4. \A p \in new : /\ p = Pair(p.at, p.to, p.tier) /\ p.tier = "keyed"
                     /\ p.at \in left /\ p.to \in right /\ b[p.at][key] = t[p.to][key]
                     /\ OnlyOne(b, left, key, p.at) /\ OnlyOne(t, right, key, p.to)
  BY <1>2, <1>3
<1>5. \A p, q \in new : p.tier = q.tier /\ (p.at = q.at <=> p.to = q.to)
  BY <1>4 DEF OnlyOne
<1>6. OneToOne(pairs \cup new, b, t)
  BY <1>4, <1>5, TierAdds
<1>7. Tiered(pairs \cup new, b, t)
  BY <1>4 DEF Tiered
<1> QED BY <1>1, <1>6, <1>7

\* A key that one on each side has pairs them.
LEMMA KeyedPairs ==
  ASSUME NEW b \in Seq(Entries), NEW t \in Seq(Entries), NEW pairs, NEW key,
         NEW i \in LeftOf(b, pairs), NEW j \in RightOf(t, pairs), b[i][key] = t[j][key],
         OnlyOne(b, LeftOf(b, pairs), key, i), OnlyOne(t, RightOf(t, pairs), key, j)
  PROVE  \E p \in Keyed(b, t, pairs, key) : p.at = i /\ p.to = j
<1> DEFINE more == {ij \in LeftOf(b, pairs) \X RightOf(t, pairs) :
                      /\ b[ij[1]][key] = t[ij[2]][key]
                      /\ OnlyOne(b, LeftOf(b, pairs), key, ij[1])
                      /\ OnlyOne(t, RightOf(t, pairs), key, ij[2])}
<1>1. <<i, j>> \in more /\ <<i, j>>[1] = i /\ <<i, j>>[2] = j
  OBVIOUS
<1>2. Pair(i, j, "keyed") \in {Pair(ij[1], ij[2], "keyed") : ij \in more}
  BY <1>1
<1>3. Pair(i, j, "keyed") \in Keyed(b, t, pairs, key)
  BY <1>2 DEF Keyed
<1> QED BY <1>3, PairParts

LEMMA PositionalForm ==
  ASSUME NEW b \in Seq(Entries), NEW t \in Seq(Entries), NEW pairs, OneToOne(pairs, b, t),
         Tiered(pairs, b, t)
  PROVE  OneToOne(Positional(b, t, pairs), b, t) /\ Tiered(Positional(b, t, pairs), b, t)
         /\ \A p \in pairs : p \in Positional(b, t, pairs)
<1> DEFINE left == LeftOf(b, pairs)
           right == RightOf(t, pairs)
           more == {ij \in left \X right : /\ Rank(left, ij[1]) = Rank(right, ij[2])
                                           /\ <<b[ij[1]].text, t[ij[2]].text>> \in Alike}
           new == {Pair(ij[1], ij[2], "positional") : ij \in more}
<1>1. Positional(b, t, pairs) = pairs \cup new
  BY DEF Positional
<1>2. \A m \in more : m[1] \in left /\ m[2] \in right /\ Rank(left, m[1]) = Rank(right, m[2])
  OBVIOUS
<1>3. \A p \in new : \E m \in more : /\ p.at = m[1] /\ p.to = m[2] /\ p.tier = "positional"
                                     /\ p = Pair(p.at, p.to, p.tier)
  <2> TAKE p \in new
  <2>1. PICK m \in more : p = Pair(m[1], m[2], "positional")
    OBVIOUS
  <2> HIDE DEF more, new
  <2> QED BY <2>1, PairParts
<1>4. (\A i \in left : i \in Nat) /\ \A j \in right : j \in Nat
  BY DEF LeftOf, RightOf
<1> HIDE DEF more, new
<1>5. \A p \in new : /\ p = Pair(p.at, p.to, p.tier) /\ p.tier = "positional"
                     /\ p.at \in left /\ p.to \in right /\ Rank(left, p.at) = Rank(right, p.to)
  BY <1>2, <1>3
<1>6. \A p, q \in new : p.tier = q.tier /\ (p.at = q.at <=> p.to = q.to)
  <2> SUFFICES ASSUME NEW p \in new, NEW q \in new
               PROVE  p.tier = q.tier /\ (p.at = q.at <=> p.to = q.to)
    OBVIOUS
  <2> HIDE DEF left, right
  <2>1. /\ p.at \in left /\ p.to \in right /\ Rank(left, p.at) = Rank(right, p.to)
        /\ q.at \in left /\ q.to \in right /\ Rank(left, q.at) = Rank(right, q.to)
        /\ p.tier = q.tier
    BY <1>5
  <2>2. p.at = q.at => p.to = q.to
    BY <1>4, <2>1, RankIsInjective
  <2>3. p.to = q.to => p.at = q.at
    BY <1>4, <2>1, RankIsInjective
  <2> QED BY <2>1, <2>2, <2>3
<1>7. OneToOne(pairs \cup new, b, t)
  BY <1>5, <1>6, TierAdds
<1>8. Tiered(pairs \cup new, b, t)
  BY <1>5 DEF Tiered
<1> QED BY <1>1, <1>7, <1>8

\* merge.match pairs no place twice, and each tier what it compares.
LEMMA MatchForm ==
  ASSUME NEW b \in Seq(Entries), NEW t \in Seq(Entries)
  PROVE  /\ OneToOne(Match(b, t), b, t) /\ Tiered(Match(b, t), b, t)
         /\ \A p \in Keyed(b, t, Exact(b, t), "name") : p \in Match(b, t)
         /\ \A p \in Exact(b, t) : p \in Match(b, t)
<1> DEFINE exact == Exact(b, t)
           byname == Keyed(b, t, exact, "name")
           bytext == Keyed(b, t, byname, "text")
<1>1. Match(b, t) = Positional(b, t, bytext)
  BY DEF Match
<1>2. OneToOne(exact, b, t) /\ Tiered(exact, b, t)
  BY ExactForm DEF Tiered
<1> HIDE DEF exact
<1>3. OneToOne(byname, b, t) /\ Tiered(byname, b, t) /\ \A p \in exact : p \in byname
  BY <1>2, KeyedForm
<1> HIDE DEF byname
<1>4. OneToOne(bytext, b, t) /\ Tiered(bytext, b, t) /\ \A p \in byname : p \in bytext
  BY <1>3, KeyedForm
<1> HIDE DEF bytext
<1>5. /\ OneToOne(Positional(b, t, bytext), b, t) /\ Tiered(Positional(b, t, bytext), b, t)
      /\ \A p \in bytext : p \in Positional(b, t, bytext)
  BY <1>4, PositionalForm
<1> QED BY <1>1, <1>3, <1>4, <1>5 DEF byname, exact

\* When the exact tier leaves nothing of one side, the others add nothing.
LEMMA MatchExact ==
  ASSUME NEW b \in Seq(Entries), NEW t \in Seq(Entries),
         LeftOf(b, Exact(b, t)) = {}
  PROVE  Match(b, t) = Exact(b, t)
<1>1. \A key : Keyed(b, t, Exact(b, t), key) = Exact(b, t)
  BY DEF Keyed
<1>2. Positional(b, t, Exact(b, t)) = Exact(b, t)
  BY DEF Positional
<1> QED BY <1>1, <1>2 DEF Match

\* A list is paired with itself place by place.
LEMMA MatchSame ==
  ASSUME NEW b \in Seq(Entries)
  PROVE  Match(b, b) = {Pair(k, k, "exact") : k \in DOMAIN b}
<1>1. PICK f : /\ Exact(b, b) = f[Len(b)].pairs
               /\ f[0] = [pairs |-> {}, last |-> 0]
               /\ \A i \in 1 .. Len(b) : f[i] = Claimed(f[i - 1], b, b, i)
  BY ExactUnfolds
<1> DEFINE Same(n) == f[n].pairs = {Pair(k, k, "exact") : k \in 1 .. n} /\ f[n].last = n
           S == {n \in Nat : n <= Len(b) => Same(n)}
<1>2. 0 \in S
  BY <1>1
<1>3. ASSUME NEW n \in Nat, n \in S, n + 1 <= Len(b) PROVE Same(n + 1)
  <2>1. n + 1 \in DOMAIN b /\ n + 1 \in 1 .. Len(b) /\ (n + 1) - 1 = n
    BY <1>3
  <2>2. f[n + 1] = Claimed(f[n], b, b, n + 1)
    BY <1>1, <2>1
  <2>3. Same(n)
    BY <1>3
  <2> DEFINE pool == {j \in RightOf(b, f[n].pairs) : b[j] = b[n + 1]}
             ahead == {j \in pool : j >= f[n].last}
             from == IF ahead # {} THEN ahead ELSE pool
  <2>4. \A j \in RightOf(b, f[n].pairs) : j \in Nat /\ j >= n + 1
    <3> TAKE j \in RightOf(b, f[n].pairs)
    <3>1. j \in DOMAIN b /\ \A p \in f[n].pairs : p.to # j
      BY DEF RightOf
    <3>2. j \notin 1 .. n
      <4> SUFFICES ASSUME j \in 1 .. n PROVE FALSE
        OBVIOUS
      <4>1. Pair(j, j, "exact") \in f[n].pairs /\ Pair(j, j, "exact").to = j
        BY <2>3, PairParts
      <4> QED BY <3>1, <4>1
    <3> QED BY <3>1, <3>2
  <2>5. n + 1 \in RightOf(b, f[n].pairs)
    <3>1. \A p \in f[n].pairs : \E k \in 1 .. n : p.to = k
      BY <2>3, PairParts
    <3>2. \A p \in f[n].pairs : p.to # n + 1
      BY <3>1
    <3> QED BY <2>1, <3>2 DEF RightOf
  <2>6. n + 1 \in ahead
    BY <2>3, <2>5
  <2>7. /\ n + 1 \in from /\ from # {} /\ pool # {}
        /\ \A j \in from : j \in Nat /\ j >= n + 1
    BY <2>4, <2>6
  <2>8. Claimed(f[n], b, b, n + 1) =
          [pairs |-> f[n].pairs \cup {Pair(n + 1, Min(from), "exact")}, last |-> Min(from)]
    BY <2>7 DEF Claimed
  <2> HIDE DEF from, ahead, pool
  <2>9. Min(from) = n + 1
    <3>1. Min(from) \in from /\ \A j \in from : Min(from) <= j
      BY <2>7, MinProperties
    <3> QED BY <2>7, <3>1
  <2>10. f[n + 1].pairs = {Pair(k, k, "exact") : k \in 1 .. n} \cup {Pair(n + 1, n + 1, "exact")} /\ f[n + 1].last = n + 1
    BY <2>2, <2>3, <2>8, <2>9
  <2>11. 1 .. (n + 1) = (1 .. n) \cup {n + 1}
    OBVIOUS
  <2> QED BY <2>10, <2>11
<1>4. Len(b) \in S /\ Len(b) \in Nat
  <2>1. \A n \in Nat : n \in S => n + 1 \in S
    <3> HIDE DEF Same
    <3> SUFFICES ASSUME NEW n \in Nat, n \in S, n + 1 <= Len(b) PROVE Same(n + 1)
      OBVIOUS
    <3> QED BY <1>3
  <2> HIDE DEF S
  <2> QED BY <1>2, <2>1, SetInduction
<1>5. Exact(b, b) = {Pair(k, k, "exact") : k \in DOMAIN b}
  BY <1>1, <1>4
<1>6. LeftOf(b, Exact(b, b)) = {}
  <2>1. ASSUME NEW k \in DOMAIN b PROVE \E p \in Exact(b, b) : p.at = k
    <3>1. PICK p : p = Pair(k, k, "exact")
      OBVIOUS
    <3>2. p \in Exact(b, b)
      BY ONLY <1>5, <2>1, <3>1
    <3>3. p.at = k
      BY ONLY <3>1, PairParts
    <3> QED BY <3>2, <3>3
  <2> QED BY <2>1, Zenon DEF LeftOf
<1> QED BY <1>5, <1>6, MatchExact

-----------------------------------------------------------------------------
(* Rows in order.                                                          *)

\* A row of the table: it has an original unless it was added here, and a
\* conflict with what RisuAI has is one of a row RisuAI has.
RowSound(r) ==
  /\ r \in RowRecords
  /\ r.base = NoEntry <=> r.origin = "added"
  /\ r.mark.kind \in {"both-moved", "weak-match"} => r.base # NoEntry

Table(S) ==
  /\ IsFiniteSet(S)
  /\ \A r \in S : RowSound(r)
  /\ \A r, s \in S : r.id = s.id => r = s

BySeq(S) ==
  {p \in S \X S : p[1].seq < p[2].seq \/ (p[1].seq = p[2].seq /\ p[1].id < p[2].id)}
ByBase(S) ==
  {p \in S \X S : \/ BasePlace(p[1]) < BasePlace(p[2])
                  \/ BasePlace(p[1]) = BasePlace(p[2]) /\ p[1].id < p[2].id}

LEMMA RowParts ==
  ASSUME NEW r, RowSound(r)
  PROVE  /\ r.id \in Nat /\ r.seq \in Nat /\ BasePlace(r) \in Nat /\ r.entry \in Entries
         /\ r.base \in Entries \cup {NoEntry} /\ (r.base # NoEntry => r.base \in Entries)
         /\ r.bseq \in Nat \cup {NoPlace} /\ r.origin \in Origins /\ r.mark \in Marks
         /\ r.bseq # NoPlace => r.bseq \in Nat /\ BasePlace(r) = r.bseq
BY DEF RowSound, RowRecords, BasePlace, NoPlace

LEMMA PartOfTable ==
  ASSUME NEW S, Table(S), NEW M \in SUBSET S
  PROVE  Table(M)
<1>1. IsFiniteSet(M)
  BY FS_Subset DEF Table
<1> QED BY <1>1 DEF Table

LEMMA BasedOfTable ==
  ASSUME NEW S, Table(S)
  PROVE  /\ Based(S) = {r \in S : r.base # NoEntry}
         /\ Table(Based(S)) /\ Table(Live(S))
<1>1. Based(S) = {r \in S : r.base # NoEntry}
  BY DEF Table, RowSound, Based
<1>2. Based(S) \in SUBSET S /\ Live(S) \in SUBSET S
  BY DEF Based, Live
<1> QED BY <1>1, <1>2, PartOfTable

LEMMA BySeqOrders ==
  ASSUME NEW S, Table(S)
  PROVE  Orders(BySeq(S), S)
<1>1. \A r, s \in S : <<r, s>> \in BySeq(S) <=> r.seq < s.seq \/ (r.seq = s.seq /\ r.id < s.id)
  BY DEF BySeq
<1>2. \A r \in S : r.id \in Nat /\ r.seq \in Nat
  BY RowParts DEF Table
<1>3. ASSUME NEW r \in S, NEW s \in S, r # s
      PROVE  <<r, s>> \in BySeq(S) \/ <<s, r>> \in BySeq(S)
  <2>1. r.id # s.id
    BY <1>3 DEF Table
  <2> QED BY <1>1, <1>2, <2>1
<1>4. \A r \in S : <<r, r>> \notin BySeq(S)
  BY <1>1, <1>2
<1>5. ASSUME NEW r \in S, NEW s \in S, NEW q \in S, <<r, s>> \in BySeq(S), <<s, q>> \in BySeq(S)
      PROVE  <<r, q>> \in BySeq(S)
  BY <1>1, <1>2, <1>5
<1> QED BY <1>3, <1>4, <1>5 DEF Orders

LEMMA ByBaseOrders ==
  ASSUME NEW S, Table(S)
  PROVE  Orders(ByBase(S), S)
<1>1. \A r, s \in S : <<r, s>> \in ByBase(S) <=> BasePlace(r) < BasePlace(s) \/ (BasePlace(r) = BasePlace(s) /\ r.id < s.id)
  BY DEF ByBase
<1>2. \A r \in S : r.id \in Nat /\ BasePlace(r) \in Nat
  BY RowParts DEF Table
<1>3. ASSUME NEW r \in S, NEW s \in S, r # s
      PROVE  <<r, s>> \in ByBase(S) \/ <<s, r>> \in ByBase(S)
  <2>1. r.id # s.id
    BY <1>3 DEF Table
  <2> QED BY <1>1, <1>2, <2>1
<1>4. \A r \in S : <<r, r>> \notin ByBase(S)
  BY <1>1, <1>2
<1>5. ASSUME NEW r \in S, NEW s \in S, NEW q \in S, <<r, s>> \in ByBase(S), <<s, q>> \in ByBase(S)
      PROVE  <<r, q>> \in ByBase(S)
  BY <1>1, <1>2, <1>5
<1> QED BY <1>3, <1>4, <1>5 DEF Orders

LEMMA InOrderLines ==
  ASSUME NEW S, Table(S)
  PROVE  InOrder(S) = Sorted(S, BySeq(S)) /\ Lines(InOrder(S), S, BySeq(S))
<1>1. InOrder(S) = Sorted(S, BySeq(S))
  BY DEF InOrder, BySeq
<1>2. IsFiniteSet(S)
  BY DEF Table
<1> QED BY <1>1, <1>2, BySeqOrders, SortedLines

LEMMA InBaseOrderLines ==
  ASSUME NEW S, Table(S)
  PROVE  InBaseOrder(S) = Sorted(S, ByBase(S)) /\ Lines(InBaseOrder(S), S, ByBase(S))
<1>1. InBaseOrder(S) = Sorted(S, ByBase(S))
  BY DEF InBaseOrder, ByBase
<1>2. IsFiniteSet(S)
  BY DEF Table
<1> QED BY <1>1, <1>2, ByBaseOrders, SortedLines

\* What a list of rows shows.
LEMMA RowsListed ==
  ASSUME NEW S, Table(S), NEW before, NEW list, Lines(list, S, before)
  PROVE  /\ Entered(list) \in Seq(Entries) /\ DOMAIN Entered(list) = DOMAIN list
         /\ Len(Entered(list)) = Len(list)
         /\ \A k \in DOMAIN list : Entered(list)[k] = list[k].entry
         /\ DOMAIN Bases(list) = DOMAIN list
         /\ \A k \in DOMAIN list : Bases(list)[k] = list[k].base
         /\ (\A r \in S : r.base # NoEntry) => Bases(list) \in Seq(Entries) /\ Len(Bases(list)) = Len(list)
<1>1. PICK n \in Nat : n = Cardinality(S)
  BY DEF Lines
<1>2. DOMAIN list = 1 .. n /\ Len(list) = n /\ \A k \in 1 .. n : list[k] \in S
  BY <1>1 DEF Lines
<1>3. /\ Entered(list) = [k \in 1 .. n |-> list[k].entry]
      /\ Bases(list) = [k \in 1 .. n |-> list[k].base]
  BY <1>2 DEF Entered, Bases
<1>4. \A r \in S : r.entry \in Entries /\ (r.base # NoEntry => r.base \in Entries)
  BY RowParts DEF Table
<1>5. \A k \in 1 .. n : list[k].entry \in Entries
  BY <1>2, <1>4
<1>6. (\A r \in S : r.base # NoEntry) => \A k \in 1 .. n : list[k].base \in Entries
  BY <1>2, <1>4
<1>7. Entered(list) \in [1 .. n -> Entries] /\ ((\A r \in S : r.base # NoEntry) => Bases(list) \in [1 .. n -> Entries])
  BY <1>3, <1>5, <1>6
<1>8. \A T, f : f \in [1 .. n -> T] => f \in Seq(T) /\ Len(f) = n
  OBVIOUS
<1> QED BY <1>2, <1>3, <1>7, <1>8

\* M's rows have the originals of S's, at their places; the entries, at theirs.
SameBases(S, M) ==
  /\ \A r \in Based(S) : \E s \in Based(M) : s.id = r.id /\ s.base = r.base /\ BasePlace(s) = BasePlace(r)
  /\ \A s \in Based(M) : \E r \in Based(S) : s.id = r.id /\ s.base = r.base /\ BasePlace(s) = BasePlace(r)
SameLive(S, M) ==
  /\ \A r \in Live(S) : \E s \in Live(M) : s.id = r.id /\ s.entry = r.entry /\ s.seq = r.seq
  /\ \A s \in Live(M) : \E r \in Live(S) : s.id = r.id /\ s.entry = r.entry /\ s.seq = r.seq

LEMMA BasesKept ==
  ASSUME NEW S, Table(S), NEW M, Table(M), SameBases(S, M)
  PROVE  Baseline(M) = Baseline(S)
<1> DEFINE g == [r \in Based(S) |-> CHOOSE s \in Based(M) : s.id = r.id]
           A == Based(S)
           B == Based(M)
<1>1. Table(A) /\ Table(B)
  BY BasedOfTable
<1>2. \A r \in A : g[r] \in B /\ g[r].id = r.id /\ g[r].base = r.base /\ BasePlace(g[r]) = BasePlace(r)
  <2> TAKE r \in A
  <2>1. PICK s \in B : s.id = r.id /\ s.base = r.base /\ BasePlace(s) = BasePlace(r)
    BY DEF SameBases
  <2>2. g[r] \in B /\ g[r].id = r.id
    BY <2>1
  <2>3. g[r] = s
    BY <1>1, <2>1, <2>2 DEF Table
  <2> QED BY <2>1, <2>3
<1> HIDE DEF g
<1>3. \A s \in B : \E r \in A : g[r] = s
  <2> TAKE s \in B
  <2>1. PICK r \in A : s.id = r.id
    BY DEF SameBases
  <2>2. g[r] \in B /\ g[r].id = s.id
    BY <1>2, <2>1
  <2> QED BY <1>1, <2>1, <2>2 DEF Table
<1> HIDE DEF A, B
<1>4. \A r, q \in A : <<g[r], g[q]>> \in ByBase(B) <=> <<r, q>> \in ByBase(A)
  BY <1>2 DEF ByBase
<1>5. /\ Lines(InBaseOrder(A), A, ByBase(A)) /\ Orders(ByBase(A), A)
      /\ InBaseOrder(B) = Sorted(B, ByBase(B))
  BY <1>1, InBaseOrderLines, ByBaseOrders
<1>6. PICK list : list = InBaseOrder(A)
  OBVIOUS
<1>7. PICK n : n = Cardinality(A)
  OBVIOUS
<1>8. InBaseOrder(B) = [k \in 1 .. n |-> g[list[k]]]
  <2>1. \A r \in A : g[r] \in B
    BY <1>2
  <2>2. Sorted(B, ByBase(B)) = [k \in 1 .. Cardinality(A) |-> g[list[k]]]
    BY ONLY <1>3, <1>4, <1>5, <1>6, <2>1, SortedImage
  <2> QED BY <1>5, <1>7, <2>2
<1>9. DOMAIN list = 1 .. n /\ \A k \in 1 .. n : list[k] \in A
  BY <1>5, <1>6, <1>7 DEF Lines
<1>10. Bases(InBaseOrder(B)) = [k \in 1 .. n |-> list[k].base]
  BY <1>2, <1>8, <1>9 DEF Bases
<1>11. Bases(list) = [k \in 1 .. n |-> list[k].base]
  BY <1>9 DEF Bases
<1> QED BY <1>6, <1>10, <1>11 DEF Baseline, A, B

LEMMA LiveKept ==
  ASSUME NEW S, Table(S), NEW M, Table(M), SameLive(S, M)
  PROVE  LiveList(M) = LiveList(S)
<1> DEFINE g == [r \in Live(S) |-> CHOOSE s \in Live(M) : s.id = r.id]
           A == Live(S)
           B == Live(M)
<1>1. Table(A) /\ Table(B)
  BY BasedOfTable
<1>2. \A r \in A : g[r] \in B /\ g[r].id = r.id /\ g[r].entry = r.entry /\ g[r].seq = r.seq
  <2> TAKE r \in A
  <2>1. PICK s \in B : s.id = r.id /\ s.entry = r.entry /\ s.seq = r.seq
    BY DEF SameLive
  <2>2. g[r] \in B /\ g[r].id = r.id
    BY <2>1
  <2>3. g[r] = s
    BY <1>1, <2>1, <2>2 DEF Table
  <2> QED BY <2>1, <2>3
<1> HIDE DEF g
<1>3. \A s \in B : \E r \in A : g[r] = s
  <2> TAKE s \in B
  <2>1. PICK r \in A : s.id = r.id
    BY DEF SameLive
  <2>2. g[r] \in B /\ g[r].id = s.id
    BY <1>2, <2>1
  <2> QED BY <1>1, <2>1, <2>2 DEF Table
<1> HIDE DEF A, B
<1>4. \A r, q \in A : <<g[r], g[q]>> \in BySeq(B) <=> <<r, q>> \in BySeq(A)
  BY <1>2 DEF BySeq
<1>5. /\ Lines(InOrder(A), A, BySeq(A)) /\ Orders(BySeq(A), A)
      /\ InOrder(B) = Sorted(B, BySeq(B))
  BY <1>1, InOrderLines, BySeqOrders
<1>6. PICK list : list = InOrder(A)
  OBVIOUS
<1>7. PICK n : n = Cardinality(A)
  OBVIOUS
<1>8. InOrder(B) = [k \in 1 .. n |-> g[list[k]]]
  <2>1. \A r \in A : g[r] \in B
    BY <1>2
  <2>2. Sorted(B, BySeq(B)) = [k \in 1 .. Cardinality(A) |-> g[list[k]]]
    BY ONLY <1>3, <1>4, <1>5, <1>6, <2>1, SortedImage
  <2> QED BY <1>5, <1>7, <2>2
<1>9. DOMAIN list = 1 .. n /\ \A k \in 1 .. n : list[k] \in A
  BY <1>5, <1>6, <1>7 DEF Lines
<1>10. Entered(InOrder(B)) = [k \in 1 .. n |-> list[k].entry]
  BY <1>2, <1>8, <1>9 DEF Entered
<1>11. Entered(list) = [k \in 1 .. n |-> list[k].entry]
  BY <1>9 DEF Entered
<1> QED BY <1>6, <1>10, <1>11 DEF LiveList, A, B

\* Where rows with an original stand over a list, each at a place of its own and
\* every place taken, they read, in that order, as the list.
Stands(M, list) ==
  /\ \A r \in Based(M) : r.bseq \in DOMAIN list /\ list[r.bseq] = r.base
  /\ \A r, s \in Based(M) : r.bseq = s.bseq => r = s
  /\ \A j \in DOMAIN list : \E r \in Based(M) : r.bseq = j

LEMMA BasesRead ==
  ASSUME NEW M, Table(M), NEW list \in Seq(Entries), Stands(M, list)
  PROVE  Baseline(M) = list
<1> DEFINE n == Len(list)
           f == [k \in 1 .. n |-> CHOOSE r \in Based(M) : r.bseq = k]
           B == Based(M)
<1>1. n \in Nat /\ DOMAIN list = 1 .. n
  OBVIOUS
<1> HIDE DEF n
<1>2. Table(B)
  BY BasedOfTable
<1>3. \A k \in 1 .. n : f[k] \in B /\ f[k].bseq = k
  BY <1>1 DEF Stands
<1>4. f \in [1 .. n -> B]
  BY <1>3
<1> HIDE DEF f
<1>5. ASSUME NEW r \in B PROVE r.bseq \in 1 .. n /\ BasePlace(r) = r.bseq /\ f[r.bseq] = r
  <2>1. r.bseq \in 1 .. n
    BY <1>1 DEF Stands
  <2>2. r.bseq # NoPlace
    BY <1>1, <2>1 DEF NoPlace
  <2>3. f[r.bseq] \in B /\ f[r.bseq].bseq = r.bseq
    BY <1>3, <2>1
  <2> QED BY <2>1, <2>2, <2>3 DEF Stands, BasePlace
<1>6. \A r \in B : \E k \in 1 .. n : f[k] = r
  BY <1>5
<1>7. \A k, q \in 1 .. n : <<f[k], f[q]>> \in ByBase(B) <=> k < q
  <2> SUFFICES ASSUME NEW k \in 1 .. n, NEW q \in 1 .. n
               PROVE  <<f[k], f[q]>> \in ByBase(B) <=> k < q
    OBVIOUS
  <2>1. f[k] \in B /\ f[q] \in B /\ BasePlace(f[k]) = k /\ BasePlace(f[q]) = q
    BY <1>3, <1>5
  <2>2. k = q => ~ (f[k].id < f[q].id)
    <3>1. f[k].id \in Nat
      BY <1>2, <2>1, RowParts DEF Table
    <3> QED BY <3>1
  <2>3. <<f[k], f[q]>> \in ByBase(B) <=> k < q \/ (k = q /\ f[k].id < f[q].id)
    BY <2>1 DEF ByBase
  <2> QED BY <2>2, <2>3
<1> HIDE DEF B
<1>8. Sorted(B, ByBase(B)) = f
  BY <1>1, <1>4, <1>6, <1>7, SortedIs, SMTT(40)
<1>9. InBaseOrder(B) = f /\ DOMAIN f = 1 .. n
  BY <1>2, <1>4, <1>8, InBaseOrderLines
<1>10. \A k \in 1 .. n : f[k].base = list[k]
  <2> TAKE k \in 1 .. n
  <2>1. f[k] \in Based(M) /\ f[k].bseq = k
    BY <1>3 DEF B
  <2> QED BY <2>1 DEF Stands
<1>11. Bases(f) = [k \in 1 .. n |-> list[k]] /\ list = [k \in 1 .. n |-> list[k]]
  BY <1>1, <1>9, <1>10 DEF Bases
<1> QED BY <1>9, <1>11 DEF Baseline, B

\* The same of the live rows by their numbers, which count from 0.
Lists0(M, list) ==
  /\ \A r \in Live(M) : r.seq + 1 \in DOMAIN list /\ list[r.seq + 1] = r.entry
  /\ \A r, s \in Live(M) : r.seq = s.seq => r = s
  /\ \A j \in DOMAIN list : \E r \in Live(M) : r.seq = j - 1

LEMMA LiveRead ==
  ASSUME NEW M, Table(M), NEW list \in Seq(Entries), Lists0(M, list)
  PROVE  LiveList(M) = list
<1> DEFINE n == Len(list)
           f == [k \in 1 .. n |-> CHOOSE r \in Live(M) : r.seq = k - 1]
           B == Live(M)
<1>1. n \in Nat /\ DOMAIN list = 1 .. n
  OBVIOUS
<1> HIDE DEF n
<1>2. Table(B) /\ \A r \in B : r.seq \in Nat /\ r.id \in Nat
  <2>1. Table(B)
    BY BasedOfTable
  <2> QED BY <2>1, RowParts DEF Table
<1>3. \A k \in 1 .. n : f[k] \in B /\ f[k].seq = k - 1
  BY <1>1 DEF Lists0
<1>4. f \in [1 .. n -> B]
  BY <1>3
<1> HIDE DEF f
<1>5. \A r \in B : \E k \in 1 .. n : f[k] = r
  <2> TAKE r \in B
  <2>1. r.seq + 1 \in 1 .. n /\ (r.seq + 1) - 1 = r.seq
    BY <1>1, <1>2 DEF Lists0
  <2>2. f[r.seq + 1] \in B /\ f[r.seq + 1].seq = r.seq
    BY <1>3, <2>1
  <2> QED BY <2>1, <2>2 DEF Lists0
<1>6. \A k, q \in 1 .. n : <<f[k], f[q]>> \in BySeq(B) <=> k < q
  <2> SUFFICES ASSUME NEW k \in 1 .. n, NEW q \in 1 .. n
               PROVE  <<f[k], f[q]>> \in BySeq(B) <=> k < q
    OBVIOUS
  <2>1. f[k] \in B /\ f[q] \in B /\ f[k].seq = k - 1 /\ f[q].seq = q - 1 /\ f[k].id \in Nat
    BY <1>2, <1>3
  <2>2. <<f[k], f[q]>> \in BySeq(B) <=> k - 1 < q - 1 \/ (k - 1 = q - 1 /\ f[k].id < f[q].id)
    BY <2>1 DEF BySeq
  <2> QED BY <2>1, <2>2
<1> HIDE DEF B
<1>7. Sorted(B, BySeq(B)) = f
  BY <1>1, <1>4, <1>5, <1>6, SortedIs, SMTT(40)
<1>8. InOrder(B) = f /\ DOMAIN f = 1 .. n
  BY <1>2, <1>4, <1>7, InOrderLines
<1>9. \A k \in 1 .. n : f[k].entry = list[k]
  <2> TAKE k \in 1 .. n
  <2>1. f[k] \in Live(M) /\ f[k].seq + 1 = k
    BY <1>3 DEF B
  <2> QED BY <2>1 DEF Lists0
<1>10. Entered(f) = [k \in 1 .. n |-> list[k]] /\ list = [k \in 1 .. n |-> list[k]]
  BY <1>1, <1>8, <1>9 DEF Entered
<1> QED BY <1>8, <1>10 DEF LiveList, B

\* Rows that each come of a row of S, under its id, and new ones.
LEMMA TableFrom ==
  ASSUME NEW S, Table(S), NEW g,
         \A r \in S : \A s \in g[r] : RowSound(s) /\ s.id = r.id,
         \A r \in S : \A s, z \in g[r] : s = z,
         NEW N, IsFiniteSet(N), \A n \in N : RowSound(n) /\ \A r \in S : n.id # r.id,
         \A m, n \in N : m.id = n.id => m = n,
         NEW M, \A s \in M : s \in N \/ \E r \in S : s \in g[r]
  PROVE  Table(M)
<1> DEFINE ids == {r.id : r \in S \cup N}
           f == [s \in M |-> s.id]
<1>0. \A r, q \in S : r.id = q.id => r = q
  BY DEF Table
<1>1. IsFiniteSet(ids)
  <2>1. IsFiniteSet(S \cup N)
    BY FS_Union DEF Table
  <2>2. PICK all : all = S \cup N
    OBVIOUS
  <2> DEFINE h == [r \in all |-> r.id]
  <2>3. (\A r \in all : h[r] \in ids) /\ \A i \in ids : \E r \in all : h[r] = i
    BY <2>2
  <2> HIDE DEF h, ids
  <2>4. IsFiniteSet(all)
    BY <2>1, <2>2
  <2> QED BY ONLY <2>3, <2>4, ImageCardinality, ZenonT(40)
<1>2. \A s \in M : RowSound(s) /\ s.id \in ids
  <2> TAKE s \in M
  <2>1. CASE s \in N
    BY <2>1
  <2>2. ASSUME NEW r \in S, s \in g[r] PROVE RowSound(s) /\ s.id \in ids
    BY <2>2
  <2> QED BY <2>1, <2>2
<1>3. ASSUME NEW s \in M, NEW z \in M, s.id = z.id PROVE s = z
  <2>1. CASE s \in N /\ z \in N
    BY <1>3, <2>1
  <2>2. ASSUME NEW r \in S, s \in g[r] PROVE s = z
    <3>1. s.id = r.id
      BY <2>2
    <3>2. z \notin N
      BY <1>3, <3>1
    <3>3. PICK q \in S : z \in g[q]
      BY <3>2
    <3>4. z.id = q.id
      BY <3>3
    <3>5. q = r
      BY ONLY <1>0, <1>3, <3>1, <3>4, r \in S, q \in S
    <3>6. z \in g[r]
      BY <3>3, <3>5
    <3> QED BY <2>2, <3>6, Zenon
  <2>3. ASSUME NEW r \in S, z \in g[r] PROVE s = z
    <3>1. z.id = r.id
      BY <2>3
    <3>2. s \notin N
      BY <1>3, <3>1
    <3> QED BY <2>2, <3>2
  <2> QED BY <2>1, <2>2, <2>3
<1>4. IsFiniteSet(M)
  <2>1. f \in Injection(M, ids)
    <3>1. f \in [M -> ids] /\ \A s, z \in M : f[s] = f[z] => s = z
      BY <1>2, <1>3
    <3> HIDE DEF f, ids
    <3> QED BY <3>1 DEF Injection, IsInjective
  <2> HIDE DEF f, ids
  <2> QED BY <1>1, <2>1, FS_Injection
<1> QED BY <1>2, <1>3, <1>4 DEF Table

-----------------------------------------------------------------------------
(* What a re-open pairs, folds and adds.                                   *)

\* A chat's or a bot's rows and what its checkpoints hold.
Stored == Table(rows) /\ IsFiniteSet(saved) /\ \A c \in saved : Table(c)

LEMMA NewIdsAreNew ==
  ASSUME Stored, NEW n \in Nat
  PROVE  /\ NewIds(n) \in Seq(Nat) /\ Len(NewIds(n)) >= n
         /\ \A k \in 1 .. n : k \in DOMAIN NewIds(n) /\ NewIds(n)[k] \in Nat /\ NewIds(n)[k] \notin TakenIds
         /\ \A k, q \in 1 .. n : NewIds(n)[k] = NewIds(n)[q] => k = q
<1>1. ASSUME NEW S, Table(S) PROVE IsFiniteSet(Ids(S))
  <2> DEFINE f == [r \in S |-> r.id]
  <2>1. (\A r \in S : f[r] \in Ids(S)) /\ \A i \in Ids(S) : \E r \in S : f[r] = i
    BY DEF Ids
  <2>2. IsFiniteSet(S)
    BY <1>1 DEF Table
  <2> HIDE DEF f
  <2> QED BY <2>1, <2>2, ImageCardinality, ZenonT(40)
<1>2. IsFiniteSet({Ids(c) : c \in saved})
  <2> DEFINE f == [c \in saved |-> Ids(c)]
             all == {Ids(c) : c \in saved}
  <2>1. (\A c \in saved : f[c] \in all) /\ \A i \in all : \E c \in saved : f[c] = i
    OBVIOUS
  <2>2. IsFiniteSet(saved)
    BY DEF Stored
  <2> HIDE DEF f, all
  <2>3. IsFiniteSet(all)
    BY <2>1, <2>2, ImageCardinality, ZenonT(40)
  <2> QED BY <2>3 DEF all
<1>3. \A T \in {Ids(c) : c \in saved} : IsFiniteSet(T)
  BY <1>1 DEF Stored
<1>4. IsFiniteSet(UNION {Ids(c) : c \in saved})
  BY <1>2, <1>3, FS_UNION
<1>5. IsFiniteSet(Ids(rows))
  BY <1>1 DEF Stored
<1>6. IsFiniteSet(TakenIds)
  BY <1>4, <1>5, FS_Union DEF TakenIds
<1>7. PICK T : T = TakenIds
  OBVIOUS
<1>8. PICK c : c = Cardinality(T)
  OBVIOUS
<1>9. PICK ids : ids = NewIds(n)
  OBVIOUS
<1>10. IsFiniteSet(T) /\ c \in Nat
  BY <1>6, <1>7, <1>8, FS_CardinalityType
<1>11. Cardinality(T) <= c
  BY <1>8, <1>10
<1>12. ids = Ascending((1 .. (c + n)) \ T)
  BY <1>7, <1>8, <1>9 DEF NewIds
<1>13. NewNumbers(ids, n, T)
  BY ONLY <1>10, <1>11, <1>12, n \in Nat, FreeNumbers
<1> QED BY <1>7, <1>9, <1>13 DEF NewNumbers

\* The rows with an original, in RisuAI's order, and what was paired of them.
BasedList == InBaseOrder(Based(rows))
Found(t) == {[row |-> BasedList[p.at], to |-> p.to, tier |-> p.tier] : p \in Match(Baseline(rows), t)}
Open(t) == {j \in DOMAIN t : \A p \in Found(t) : p.to # j}

LEMMA BasedListed ==
  ASSUME Table(rows)
  PROVE  /\ Baseline(rows) \in Seq(Entries) /\ Baseline(rows) = Bases(BasedList)
         /\ BasedList \in Seq(Based(rows)) /\ DOMAIN Baseline(rows) = DOMAIN BasedList
         /\ \A k \in DOMAIN BasedList : /\ BasedList[k] \in Based(rows)
                                        /\ Baseline(rows)[k] = BasedList[k].base
         /\ \A r \in Based(rows) : \E k \in DOMAIN BasedList : BasedList[k] = r
         /\ \A k, q \in DOMAIN BasedList : BasedList[k] = BasedList[q] => k = q
<1>1. Table(Based(rows)) /\ \A r \in Based(rows) : r.base # NoEntry
  BY BasedOfTable DEF Based
<1>2. PICK list : list = BasedList
  OBVIOUS
<1>3. Lines(list, Based(rows), ByBase(Based(rows)))
  BY <1>1, <1>2, InBaseOrderLines DEF BasedList
<1>4. Baseline(rows) = Bases(list)
  BY <1>2 DEF Baseline, BasedList
<1>5. Bases(list) \in Seq(Entries) /\ DOMAIN Bases(list) = DOMAIN list
      /\ \A k \in DOMAIN list : Bases(list)[k] = list[k].base
  BY <1>1, <1>3, RowsListed
<1> QED BY <1>2, <1>3, <1>4, <1>5 DEF Lines

\* No row and no entry is paired twice; what the tier of a pair says.
Pairing(t) ==
  /\ \A p \in Found(t) : /\ p.row \in Based(rows) /\ p.to \in DOMAIN t
                         /\ p.tier = "exact" => t[p.to] = p.row.base
                         /\ p.tier = "keyed" => t[p.to].name = p.row.base.name \/ t[p.to].text = p.row.base.text
                         /\ p.tier \in {"exact", "keyed", "positional"}
  /\ \A p, q \in Found(t) : p.row = q.row \/ p.to = q.to => p = q

LEMMA FoundForm ==
  ASSUME Table(rows), NEW t \in Seq(Entries)
  PROVE  /\ Pairing(t)
         /\ Open(t) = RightOf(t, Match(Baseline(rows), t))
         /\ \A r \in Based(rows) : (\A p \in Found(t) : p.row # r) <=>
              \E k \in LeftOf(Baseline(rows), Match(Baseline(rows), t)) : BasedList[k] = r
         /\ \A k \in LeftOf(Baseline(rows), Match(Baseline(rows), t)) : BasedList[k] \in Based(rows)
<1>1. PICK b : b = Baseline(rows)
  OBVIOUS
<1>2. PICK list : list = BasedList
  OBVIOUS
<1>3. /\ b \in Seq(Entries) /\ DOMAIN b = DOMAIN list
      /\ \A k \in DOMAIN list : list[k] \in Based(rows) /\ b[k] = list[k].base
      /\ \A r \in Based(rows) : \E k \in DOMAIN list : list[k] = r
      /\ \A k, q \in DOMAIN list : list[k] = list[q] => k = q
  BY <1>1, <1>2, BasedListed
<1>4. PICK pairs : pairs = Match(b, t)
  OBVIOUS
<1>5. OneToOne(pairs, b, t) /\ Tiered(pairs, b, t)
  BY <1>3, <1>4, MatchForm
<1>6. /\ \A p \in pairs : [row |-> list[p.at], to |-> p.to, tier |-> p.tier] \in Found(t)
      /\ \A q \in Found(t) : \E p \in pairs : q = [row |-> list[p.at], to |-> p.to, tier |-> p.tier]
  BY <1>1, <1>2, <1>4 DEF Found
<1>7. \A q \in Found(t) : \E p \in pairs :
        /\ q.row = list[p.at] /\ q.to = p.to /\ q.tier = p.tier
        /\ q = [row |-> list[p.at], to |-> p.to, tier |-> p.tier]
        /\ p.at \in DOMAIN list /\ p.to \in DOMAIN t
  <2> TAKE q \in Found(t)
  <2>1. PICK p \in pairs : q = [row |-> list[p.at], to |-> p.to, tier |-> p.tier]
    BY <1>6
  <2>2. p.at \in DOMAIN list /\ p.to \in DOMAIN t
    BY <1>3, <1>5 DEF OneToOne
  <2> QED BY <2>1, <2>2
<1>8. \A p \in pairs : \E q \in Found(t) : q.row = list[p.at] /\ q.to = p.to /\ q.tier = p.tier
  BY <1>6
<1>9. Pairing(t)
  <2>1. ASSUME NEW q \in Found(t)
        PROVE  /\ q.row \in Based(rows) /\ q.to \in DOMAIN t
               /\ q.tier = "exact" => t[q.to] = q.row.base
               /\ q.tier = "keyed" => t[q.to].name = q.row.base.name \/ t[q.to].text = q.row.base.text
               /\ q.tier \in {"exact", "keyed", "positional"}
    <3>1. PICK p \in pairs : /\ q.row = list[p.at] /\ q.to = p.to /\ q.tier = p.tier
                             /\ p.at \in DOMAIN list /\ p.to \in DOMAIN t
      BY <1>7
    <3>2. b[p.at] = q.row.base /\ q.row \in Based(rows)
      BY <1>3, <3>1
    <3> QED BY <1>5, <3>1, <3>2 DEF Tiered
  <2>2. ASSUME NEW q \in Found(t), NEW z \in Found(t), q.row = z.row \/ q.to = z.to
        PROVE  q = z
    <3>1. PICK p \in pairs : /\ q.row = list[p.at] /\ q.to = p.to /\ p.at \in DOMAIN list
                             /\ q = [row |-> list[p.at], to |-> p.to, tier |-> p.tier]
      BY <1>7
    <3>2. PICK m \in pairs : /\ z.row = list[m.at] /\ z.to = m.to /\ m.at \in DOMAIN list
                             /\ z = [row |-> list[m.at], to |-> m.to, tier |-> m.tier]
      BY <1>7
    <3>3. p.at = m.at \/ p.to = m.to
      BY <1>3, <2>2, <3>1, <3>2
    <3>4. p = m
      BY <1>5, <3>3 DEF OneToOne
    <3> QED BY <3>1, <3>2, <3>4
  <2> QED BY <2>1, <2>2 DEF Pairing
<1>10. \A j \in DOMAIN t : j \in Open(t) <=> j \in RightOf(t, pairs)
  <2> TAKE j \in DOMAIN t
  <2>1. j \in RightOf(t, pairs) <=> \A p \in pairs : p.to # j
    BY DEF RightOf
  <2>2. j \in Open(t) <=> \A q \in Found(t) : q.to # j
    BY DEF Open
  <2> QED BY <1>7, <1>8, <2>1, <2>2
<1>11. Open(t) = RightOf(t, pairs)
  BY <1>10 DEF Open, RightOf
<1>12. \A k \in DOMAIN list : k \in LeftOf(b, pairs) <=> \A p \in pairs : p.at # k
  BY <1>3 DEF LeftOf
<1>13. ASSUME NEW r \in Based(rows)
       PROVE  (\A q \in Found(t) : q.row # r) <=> \E k \in LeftOf(b, pairs) : list[k] = r
  <2>1. PICK k \in DOMAIN list : list[k] = r
    BY <1>3
  <2>2. \A m \in LeftOf(b, pairs) : m \in DOMAIN list /\ (list[m] = r => m = k)
    BY <1>3, <2>1 DEF LeftOf
  <2>3. (\A q \in Found(t) : q.row # r) <=> \A p \in pairs : p.at # k
    <3>1. ASSUME NEW q \in Found(t), q.row = r PROVE \E p \in pairs : p.at = k
      <4>1. PICK p \in pairs : q.row = list[p.at] /\ p.at \in DOMAIN list
        BY <1>7
      <4> QED BY <1>3, <2>1, <3>1, <4>1
    <3>2. ASSUME NEW p \in pairs, p.at = k PROVE \E q \in Found(t) : q.row = r
      BY <1>8, <2>1, <3>2
    <3> QED BY <3>1, <3>2
  <2> QED BY <1>12, <2>1, <2>2, <2>3
<1>14. \A k \in LeftOf(b, pairs) : list[k] \in Based(rows)
  BY <1>3 DEF LeftOf
<1> QED BY <1>1, <1>2, <1>4, <1>9, <1>11, <1>13, <1>14

-----------------------------------------------------------------------------
(* What a re-open makes of one row.                                        *)

LEMMA MarkForm ==
  ASSUME NEW kind \in {"both-moved", "weak-match", "deleted-upstream"}, NEW e \in Entries \cup {NoEntry}
  PROVE  /\ [kind |-> kind, theirs |-> e] \in Marks /\ [kind |-> kind, theirs |-> e] # NoMark
         /\ [kind |-> kind, theirs |-> e].kind = kind
<1>1. kind # "none"
  OBVIOUS
<1>2. [kind |-> kind, theirs |-> e] # NoMark
  <2>1. [kind |-> kind, theirs |-> e].kind = kind /\ NoMark.kind = "none"
    BY DEF NoMark
  <2> QED BY <1>1, <2>1
<1> QED BY <1>2 DEF Marks

LEMMA FreshForm ==
  ASSUME NEW id \in Nat, NEW seq \in Nat, NEW e \in Entries, NEW j \in Nat
  PROVE  /\ RowSound(Fresh(id, seq, e, e, j, "original"))
         /\ RowSound(Fresh(id, seq, e, NoEntry, NoPlace, "added"))
         /\ \A base, bseq, origin :
              /\ Fresh(id, seq, e, base, bseq, origin).id = id
              /\ Fresh(id, seq, e, base, bseq, origin).seq = seq
              /\ Fresh(id, seq, e, base, bseq, origin).entry = e
              /\ Fresh(id, seq, e, base, bseq, origin).base = base
              /\ Fresh(id, seq, e, base, bseq, origin).bseq = bseq
              /\ Fresh(id, seq, e, base, bseq, origin).origin = origin
              /\ Fresh(id, seq, e, base, bseq, origin).mark = NoMark
<1>1. NoMark \in Marks /\ NoMark.kind = "none" /\ NoEntry \notin Entries
  BY LoreAssumption DEF NoMark, Marks
<1>2. \A base, bseq, origin :
        Fresh(id, seq, e, base, bseq, origin) =
          [id |-> id, seq |-> seq, entry |-> e, base |-> base, bseq |-> bseq, origin |-> origin, mark |-> NoMark]
  BY DEF Fresh
<1>3. \A base \in Entries \cup {NoEntry}, bseq \in Nat \cup {NoPlace}, origin \in Origins :
        [id |-> id, seq |-> seq, entry |-> e, base |-> base, bseq |-> bseq, origin |-> origin, mark |-> NoMark]
          \in RowRecords
  BY <1>1 DEF RowRecords
<1>4. "original" \in Origins /\ "added" \in Origins /\ e # NoEntry
  BY <1>1 DEF Origins
<1>5. RowSound(Fresh(id, seq, e, e, j, "original"))
  BY <1>1, <1>2, <1>3, <1>4 DEF RowSound
<1>6. RowSound(Fresh(id, seq, e, NoEntry, NoPlace, "added"))
  BY <1>1, <1>2, <1>3, <1>4 DEF RowSound
<1> QED BY <1>2, <1>5, <1>6

\* A row with some of its fields set anew.
With(r, base, bseq, entry, seq, origin, mark) ==
  [r EXCEPT !.base = base, !.bseq = bseq, !.entry = entry, !.seq = seq, !.origin = origin, !.mark = mark]

Fits(base, bseq, entry, seq, origin, mark) ==
  /\ base \in Entries \cup {NoEntry} /\ bseq \in Nat \cup {NoPlace} /\ entry \in Entries
  /\ seq \in Nat /\ origin \in Origins /\ mark \in Marks
  /\ base = NoEntry <=> origin = "added"
  /\ mark.kind \in {"both-moved", "weak-match"} => base # NoEntry
IsWith(s, r, base, bseq, entry, seq, origin, mark) ==
  /\ RowSound(s) /\ s.id = r.id /\ s.seq = seq /\ s.entry = entry /\ s.base = base
  /\ s.bseq = bseq /\ s.origin = origin /\ s.mark = mark

LEMMA RowSet ==
  ASSUME NEW r, RowSound(r), NEW base, NEW bseq, NEW entry, NEW seq, NEW origin, NEW mark,
         Fits(base, bseq, entry, seq, origin, mark),
         NEW s, s = With(r, base, bseq, entry, seq, origin, mark)
  PROVE  IsWith(s, r, base, bseq, entry, seq, origin, mark)
<1>1. r \in RowRecords
  BY DEF RowSound
<1>2. /\ s \in RowRecords /\ s.id = r.id /\ s.seq = seq /\ s.entry = entry /\ s.base = base
      /\ s.bseq = bseq /\ s.origin = origin /\ s.mark = mark
  BY <1>1 DEF RowRecords, With, Fits
<1> QED BY <1>2 DEF RowSound, IsWith, Fits

LEMMA PairedForm ==
  ASSUME NEW r, RowSound(r), r.base # NoEntry, NEW e \in Entries, NEW j \in Nat, NEW tier,
         NEW s, s = Paired(r, e, j, tier)
  PROVE  /\ RowSound(s) /\ s.id = r.id /\ s.seq = r.seq /\ s.base = e /\ s.bseq = j
         /\ \/ s.entry = r.entry /\ s.origin = r.origin
            \/ /\ Untouched(r) /\ tier # "positional" /\ e # r.base
               /\ s.entry = e /\ s.origin = "original"
         /\ (e = r.base \/ e = r.entry) => s.entry = r.entry /\ s.origin = r.origin /\ s.mark = r.mark
         /\ (r.entry # r.base /\ r.mark # NoMark => s.mark # NoMark)
<1>1. /\ r.id \in Nat /\ r.seq \in Nat /\ r.entry \in Entries /\ r.origin \in Origins /\ r.mark \in Marks
      /\ r.origin # "added" /\ e # NoEntry
  BY RowParts, LoreAssumption DEF RowSound
<1>3. CASE Decide(r, e, tier) = "keep"
  <2>1. s = [r EXCEPT !.base = e, !.bseq = j]
    BY <1>3 DEF Paired
  <2>2. s = With(r, e, j, r.entry, r.seq, r.origin, r.mark)
    BY <2>1 DEF RowSound, RowRecords, With
  <2>3. Fits(e, j, r.entry, r.seq, r.origin, r.mark)
    BY <1>1 DEF Fits
  <2>4. IsWith(s, r, e, j, r.entry, r.seq, r.origin, r.mark)
    BY <2>2, <2>3, RowSet
  <2> QED BY <2>4 DEF IsWith
<1>4. ASSUME Decide(r, e, tier) = "adopt"
      PROVE  /\ RowSound(s) /\ s.id = r.id /\ s.seq = r.seq /\ s.base = e /\ s.bseq = j
             /\ Untouched(r) /\ tier # "positional" /\ e # r.base /\ e # r.entry
             /\ s.entry = e /\ s.origin = "original"
  <2>1. Untouched(r) /\ tier # "positional" /\ e # r.base /\ e # r.entry
    BY <1>4 DEF Decide
  <2>2. s = Fresh(r.id, r.seq, e, e, j, "original")
    BY <1>4 DEF Paired
  <2> QED BY <1>1, <2>1, <2>2, FreshForm
<1>5. ASSUME Decide(r, e, tier) \notin {"keep", "adopt"}
      PROVE  /\ RowSound(s) /\ s.id = r.id /\ s.seq = r.seq /\ s.base = e /\ s.bseq = j
             /\ s.entry = r.entry /\ s.origin = r.origin /\ s.mark # NoMark
             /\ e # r.base /\ e # r.entry
  <2>1. Decide(r, e, tier) \in {"both-moved", "weak-match"} /\ e # r.base /\ e # r.entry
    BY <1>5 DEF Decide
  <2>2. PICK mark : mark = [kind |-> Decide(r, e, tier), theirs |-> e]
    OBVIOUS
  <2>3. mark \in Marks /\ mark # NoMark
    BY <2>1, <2>2, MarkForm
  <2>4. s = [r EXCEPT !.base = e, !.bseq = j, !.mark = mark]
    BY <1>5, <2>2 DEF Paired
  <2>5. s = With(r, e, j, r.entry, r.seq, r.origin, mark)
    BY <2>4 DEF RowSound, RowRecords, With
  <2>6. Fits(e, j, r.entry, r.seq, r.origin, mark)
    BY <1>1, <2>3 DEF Fits
  <2>7. IsWith(s, r, e, j, r.entry, r.seq, r.origin, mark)
    BY <2>5, <2>6, RowSet
  <2> QED BY <2>1, <2>3, <2>7 DEF IsWith
<1>6. Untouched(r) => r.entry = r.base
  BY DEF Untouched
<1> QED BY <1>3, <1>4, <1>5, <1>6

\* A row RisuAI dropped: an addition from now on, unless it was deleted here too.
LEMMA GoneForm ==
  ASSUME NEW r, RowSound(r), NEW s \in Gone(r)
  PROVE  /\ RowSound(s) /\ s.id = r.id /\ s.seq = r.seq /\ s.entry = r.entry /\ s.base = NoEntry
         /\ s.origin = "added" /\ r.origin # "deleted" /\ s.mark # NoMark
         /\ s.mark.kind = "deleted-upstream" /\ \A z \in Gone(r) : z = s
<1>1. PICK mark : mark = [kind |-> "deleted-upstream", theirs |-> NoEntry]
  OBVIOUS
<1>2. mark \in Marks /\ mark # NoMark /\ mark.kind = "deleted-upstream"
  BY <1>1, MarkForm
<1>3. /\ r.origin # "deleted"
      /\ s = [r EXCEPT !.base = NoEntry, !.bseq = NoPlace, !.origin = "added", !.mark = mark]
      /\ \A z \in Gone(r) : z = s
  BY <1>1 DEF Gone
<1>4. s = With(r, NoEntry, NoPlace, r.entry, r.seq, "added", mark)
  BY <1>3 DEF RowSound, RowRecords, With
<1>5. Fits(NoEntry, NoPlace, r.entry, r.seq, "added", mark)
  BY <1>2, RowParts DEF Fits, Origins
<1>6. IsWith(s, r, NoEntry, NoPlace, r.entry, r.seq, "added", mark)
  BY <1>4, <1>5, RowSet
<1> QED BY <1>2, <1>3, <1>6 DEF IsWith

\* An addition takes one place that holds its entry, and of those with one
\* entry only the first does.
Same(e) == {s \in rows : s.base = NoEntry /\ s.entry = e}

LEMMA FoldForm ==
  ASSUME NEW t \in Seq(Entries), NEW inserts, \A j \in inserts : j \in DOMAIN t, NEW r
  PROVE  \/ Fold(t, inserts, r) = {}
         \/ \E m \in inserts : /\ Fold(t, inserts, r) = {m} /\ Max({m}) = m /\ m \in Nat
                               /\ t[m] = r.entry /\ Head(InBaseOrder(Same(r.entry))) = r
<1> DEFINE places == {j \in inserts : t[j] = r.entry}
<1>1. CASE ~ (places # {} /\ Head(InBaseOrder(Same(r.entry))) = r)
  BY <1>1 DEF Fold, Same
<1>2. CASE places # {} /\ Head(InBaseOrder(Same(r.entry))) = r
  <2>1. Fold(t, inserts, r) = {Max(places)}
    BY <1>2 DEF Fold, Same
  <2>2. Len(t) \in Nat /\ \A j \in places : j \in 1 .. Len(t)
    OBVIOUS
  <2>3. Max(places) \in places
    <3> HIDE DEF places
    <3> QED BY <1>2, <2>2, MaxProperties
  <2>4. PICK m \in inserts : m = Max(places) /\ t[m] = r.entry /\ m \in 1 .. Len(t)
    BY <2>2, <2>3
  <2>5. Max({m}) = m
    <3>1. PICK one : one = {m}
      OBVIOUS
    <3>2. one # {} /\ \A x \in one : x \in 1 .. Len(t)
      BY <2>4, <3>1
    <3>3. Max(one) \in one
      BY ONLY <2>2, <3>2, MaxProperties
    <3> QED BY <3>1, <3>3
  <2>6. m \in inserts /\ m \in Nat /\ Fold(t, inserts, r) = {m}
    BY <2>1, <2>4
  <2> QED BY <1>2, <2>4, <2>5, <2>6, Zenon
<1> QED BY <1>1, <1>2

\* What stands for r after a re-open with t.
Added == {r \in rows : r.base = NoEntry}
ByPair(t, r, s) == \E p \in Found(t) : p.row = r /\ s = Paired(r, t[p.to], p.to, p.tier)
ByGone(t, r, s) == r \in Based(rows) /\ (\A p \in Found(t) : p.row # r) /\ s \in Gone(r)
ByFold(t, r, s) ==
  /\ r \in Added
  /\ s = IF Fold(t, Open(t), r) = {} THEN r
         ELSE [r EXCEPT !.base = r.entry, !.origin = "original", !.bseq = Max(Fold(t, Open(t), r))]
Makes(t, r, s) == ByPair(t, r, s) \/ ByGone(t, r, s) \/ ByFold(t, r, s)

LEMMA ByPairForm ==
  ASSUME Table(rows), NEW t \in Seq(Entries), NEW r \in rows, NEW s, ByPair(t, r, s)
  PROVE  \E p \in Found(t) :
           /\ p.row = r /\ p.to \in DOMAIN t /\ t[p.to] \in Entries /\ r.base # NoEntry
           /\ RowSound(s) /\ s.id = r.id /\ s.seq = r.seq /\ s.base = t[p.to] /\ s.bseq = p.to
           /\ \/ s.entry = r.entry /\ s.origin = r.origin
              \/ /\ Untouched(r) /\ p.tier # "positional" /\ t[p.to] # r.base
                 /\ s.entry = t[p.to] /\ s.origin = "original"
           /\ (t[p.to] = r.base \/ t[p.to] = r.entry) =>
                s.entry = r.entry /\ s.origin = r.origin /\ s.mark = r.mark
           /\ (r.entry # r.base /\ r.mark # NoMark => s.mark # NoMark)
<1>1. PICK p \in Found(t) : p.row = r /\ s = Paired(r, t[p.to], p.to, p.tier)
  BY DEF ByPair
<1>2. p.row \in Based(rows) /\ p.to \in DOMAIN t
  BY FoundForm DEF Pairing
<1>3. RowSound(r) /\ r.base # NoEntry
  BY <1>1, <1>2 DEF Table, Based
<1>4. PICK e \in Entries : e = t[p.to]
  BY <1>2
<1>5. PICK j \in Nat : j = p.to
  BY <1>2
<1>6. s = Paired(r, e, j, p.tier)
  BY <1>1, <1>4, <1>5
<1>7. /\ RowSound(s) /\ s.id = r.id /\ s.seq = r.seq /\ s.base = e /\ s.bseq = j
      /\ \/ s.entry = r.entry /\ s.origin = r.origin
         \/ /\ Untouched(r) /\ p.tier # "positional" /\ e # r.base
            /\ s.entry = e /\ s.origin = "original"
      /\ (e = r.base \/ e = r.entry) => s.entry = r.entry /\ s.origin = r.origin /\ s.mark = r.mark
      /\ (r.entry # r.base /\ r.mark # NoMark => s.mark # NoMark)
  BY ONLY <1>3, <1>6, PairedForm
<1> QED BY <1>1, <1>2, <1>3, <1>4, <1>5, <1>7

LEMMA ByFoldForm ==
  ASSUME Table(rows), NEW t \in Seq(Entries), NEW r \in rows, NEW s, ByFold(t, r, s)
  PROVE  /\ RowSound(s) /\ s.id = r.id /\ s.seq = r.seq /\ s.entry = r.entry /\ s.mark = r.mark
         /\ r.base = NoEntry
         /\ \/ Fold(t, Open(t), r) = {} /\ s = r
            \/ \E m \in Open(t) : /\ Fold(t, Open(t), r) = {m} /\ t[m] = r.entry
                                  /\ Head(InBaseOrder(Same(r.entry))) = r
                                  /\ s.base = t[m] /\ s.bseq = m /\ s.origin = "original"
<1>1. r \in Added /\ r.base = NoEntry /\ RowSound(r)
  BY DEF ByFold, Added, Table
<1>2. CASE Fold(t, Open(t), r) = {}
  BY <1>1, <1>2 DEF ByFold
<1>3. CASE Fold(t, Open(t), r) # {}
  <2>1. \A j \in Open(t) : j \in DOMAIN t
    BY DEF Open
  <2>2. PICK m \in Open(t) : /\ Fold(t, Open(t), r) = {m} /\ Max({m}) = m /\ m \in Nat
                             /\ t[m] = r.entry /\ Head(InBaseOrder(Same(r.entry))) = r
    <3>1. PICK places : places = Open(t)
      OBVIOUS
    <3>2. \/ Fold(t, places, r) = {}
          \/ \E m \in places : /\ Fold(t, places, r) = {m} /\ Max({m}) = m /\ m \in Nat
                               /\ t[m] = r.entry /\ Head(InBaseOrder(Same(r.entry))) = r
      BY <2>1, <3>1, FoldForm, Zenon
    <3> QED BY <1>3, <3>1, <3>2
  <2>3. s = [r EXCEPT !.base = r.entry, !.origin = "original", !.bseq = m]
    BY <1>3, <2>2 DEF ByFold
  <2>4. s = With(r, r.entry, m, r.entry, r.seq, "original", r.mark)
    BY <1>1, <2>3 DEF RowSound, RowRecords, With
  <2>5. Fits(r.entry, m, r.entry, r.seq, "original", r.mark)
    BY <1>1, <2>2, RowParts, LoreAssumption DEF Fits, Origins
  <2>6. IsWith(s, r, r.entry, m, r.entry, r.seq, "original", r.mark)
    BY <1>1, <2>4, <2>5, RowSet
  <2> QED BY <1>1, <2>2, <2>6 DEF IsWith
<1> QED BY <1>2, <1>3

LEMMA NextSeqTyped ==
  ASSUME NEW S, Table(S)
  PROVE  NextSeq(S) \in Nat
<1> DEFINE T == {r.seq : r \in S}
           f == [r \in S |-> r.seq]
<1>1. IsFiniteSet(T)
  <2>1. (\A r \in S : f[r] \in T) /\ (\A i \in T : \E r \in S : f[r] = i) /\ IsFiniteSet(S)
    BY DEF Table
  <2> HIDE DEF f, T
  <2> QED BY <2>1, ImageCardinality, ZenonT(40)
<1>2. \A x \in T : x \in Nat
  BY RowParts DEF Table
<1>3. NextSeq(S) = Max(T \cup {-1}) + 1
  BY DEF NextSeq
<1> HIDE DEF T
<1> QED BY <1>1, <1>2, <1>3, MaxOrLess

\* One row, of its id and its seq, stands for r.
LEMMA MakesForm ==
  ASSUME Table(rows), NEW t \in Seq(Entries), NEW r \in rows, NEW s, Makes(t, r, s)
  PROVE  RowSound(s) /\ s.id = r.id /\ s.seq = r.seq
<1>0. RowSound(r)
  BY DEF Table
<1>1. CASE ByPair(t, r, s)
  BY <1>1, ByPairForm
<1>2. CASE ByGone(t, r, s)
  <2>1. s \in Gone(r)
    BY <1>2 DEF ByGone
  <2> QED BY <1>0, <2>1, GoneForm
<1>3. CASE ByFold(t, r, s)
  BY <1>3, ByFoldForm
<1> QED BY <1>1, <1>2, <1>3 DEF Makes

LEMMA MakesOne ==
  ASSUME Table(rows), NEW t \in Seq(Entries), NEW r \in rows,
         NEW s, Makes(t, r, s), NEW z, Makes(t, r, z)
  PROVE  s = z
<1>1. Pairing(t) /\ RowSound(r)
  BY FoundForm DEF Table
<1>2. ByPair(t, r, s) \/ ByGone(t, r, s) \/ ByFold(t, r, s)
  BY DEF Makes
<1>3. ByPair(t, r, z) \/ ByGone(t, r, z) \/ ByFold(t, r, z)
  BY DEF Makes
<1>4. ASSUME ByPair(t, r, s), ByPair(t, r, z) PROVE s = z
  BY <1>1, <1>4 DEF ByPair, Pairing
<1>5. ASSUME ByGone(t, r, s), ByGone(t, r, z) PROVE s = z
  <2>1. s \in Gone(r) /\ z \in Gone(r)
    BY <1>5 DEF ByGone
  <2> QED BY <1>1, <2>1, GoneForm
<1>6. ASSUME ByFold(t, r, s), ByFold(t, r, z) PROVE s = z
  BY <1>6 DEF ByFold
<1>7. ByPair(t, r, s) => ~ ByGone(t, r, z) /\ ~ ByFold(t, r, z)
  BY <1>1 DEF ByPair, ByGone, ByFold, Pairing, Based, Added
<1>8. ByPair(t, r, z) => ~ ByGone(t, r, s) /\ ~ ByFold(t, r, s)
  BY <1>1 DEF ByPair, ByGone, ByFold, Pairing, Based, Added
<1>9. ~ (ByGone(t, r, s) /\ ByFold(t, r, z)) /\ ~ (ByGone(t, r, z) /\ ByFold(t, r, s))
  BY DEF ByGone, ByFold, Based, Added
<1> QED BY <1>2, <1>3, <1>4, <1>5, <1>6, <1>7, <1>8, <1>9, Zenon

\* The places of t that bring a new row, and the row each of them brings.
Unfolded(t) == {j \in Open(t) : \A r \in Added : j \notin Fold(t, Open(t), r)}
Brings(t, new) ==
  /\ \A j \in Unfolded(t) : /\ RowSound(new[j]) /\ new[j].id \notin TakenIds
                            /\ new[j].entry = t[j] /\ new[j].base = t[j] /\ new[j].bseq = j
                            /\ new[j].origin = "original" /\ new[j].mark = NoMark
  /\ \A j, k \in Unfolded(t) : new[j].id = new[k].id => j = k

LEMMA MergedForm ==
  ASSUME Stored, NEW t \in Seq(Entries)
  PROVE  \E new : /\ Brings(t, new)
                  /\ \A s : s \in Merged(t) <=> \/ \E r \in rows : Makes(t, r, s)
                                                \/ \E j \in Unfolded(t) : s = new[j]
<1>0. Table(rows) /\ Pairing(t)
  BY FoundForm DEF Stored
<1> DEFINE list == InBaseOrder({r \in rows : r.base # NoEntry})
           pairs == Match(Bases(list), t)
           inserts == RightOf(t, pairs)
           folded == [r \in Added |-> Fold(t, inserts, r)]
           left == inserts \ UNION {folded[r] : r \in Added}
           fresh == Ascending(left)
           ids == NewIds(Len(fresh))
           A == {Paired(list[p.at], t[p.to], p.to, p.tier) : p \in pairs}
           B == UNION {Gone(list[i]) : i \in LeftOf(list, pairs)}
           kept == A \cup B
           C == {IF folded[r] = {} THEN r
                 ELSE [r EXCEPT !.base = r.entry, !.origin = "original", !.bseq = Max(folded[r])] : r \in Added}
           from == NextSeq(kept \cup Added)
           D == {Fresh(ids[n], from + n - 1, t[fresh[n]], t[fresh[n]], fresh[n], "original") : n \in DOMAIN fresh}
<1>1. Merged(t) = kept \cup C \cup D
  BY DEF Merged, Added
<1> HIDE DEF A, B, C, D
<1>2. list = BasedList /\ (\A k \in DOMAIN list : list[k] \in Based(rows) /\ list[k] \in rows)
      /\ DOMAIN list = DOMAIN Baseline(rows) /\ pairs = Match(Baseline(rows), t)
  <2>1. list = BasedList
    BY <1>0, BasedOfTable DEF BasedList
  <2> HIDE DEF list
  <2> QED BY <1>0, <2>1, BasedListed DEF Based
<1> HIDE DEF list
<1>3. inserts = Open(t) /\ LeftOf(list, pairs) = LeftOf(Baseline(rows), pairs)
  BY <1>0, <1>2, FoundForm DEF LeftOf
<1> HIDE DEF pairs
<1>4. \A s : s \in A <=> \E r \in rows : ByPair(t, r, s)
  <2> TAKE s
  <2>1. s \in A <=> \E p \in pairs : s = Paired(list[p.at], t[p.to], p.to, p.tier)
    BY DEF A
  <2>2. ASSUME NEW p \in pairs, s = Paired(list[p.at], t[p.to], p.to, p.tier)
        PROVE  \E r \in rows : ByPair(t, r, s)
    <3>0. [row |-> list[p.at], to |-> p.to, tier |-> p.tier] \in Found(t)
      BY <1>2 DEF Found
    <3>1. PICK q \in Found(t) : q.row = list[p.at] /\ q.to = p.to /\ q.tier = p.tier
      BY <3>0
    <3>2. q.row \in rows
      BY <1>0, <3>1 DEF Pairing, Based
    <3> QED BY <2>2, <3>1, <3>2 DEF ByPair
  <2>3. ASSUME NEW r \in rows, ByPair(t, r, s)
        PROVE  \E p \in pairs : s = Paired(list[p.at], t[p.to], p.to, p.tier)
    <3>1. PICK q \in Found(t) : q.row = r /\ s = Paired(r, t[q.to], q.to, q.tier)
      BY <2>3 DEF ByPair
    <3>2. PICK p \in pairs : q = [row |-> list[p.at], to |-> p.to, tier |-> p.tier]
      BY <1>2, <3>1 DEF Found
    <3>3. q.row = list[p.at] /\ q.to = p.to /\ q.tier = p.tier
      BY <3>2
    <3> QED BY <3>1, <3>3
  <2> QED BY <2>1, <2>2, <2>3
<1>5. \A s : s \in B <=> \E r \in rows : ByGone(t, r, s)
  <2> TAKE s
  <2>1. s \in B <=> \E i \in LeftOf(list, pairs) : s \in Gone(list[i])
    BY DEF B
  <2>2. \A r \in Based(rows) : (\A p \in Found(t) : p.row # r) <=>
                                 \E k \in LeftOf(list, pairs) : list[k] = r
    BY <1>0, <1>2, <1>3, FoundForm
  <2>3. \A k \in LeftOf(list, pairs) : list[k] \in Based(rows) /\ list[k] \in rows
    BY <1>2 DEF LeftOf
  <2>4. \A r \in Based(rows) : r \in rows
    BY DEF Based
  <2> QED BY <2>1, <2>2, <2>3, <2>4 DEF ByGone
<1>6. \A s : s \in C <=> \E r \in rows : ByFold(t, r, s)
  <2> TAKE s
  <2>1. \A r \in Added : folded[r] = Fold(t, Open(t), r) /\ r \in rows
    BY <1>3 DEF Added
  <2> HIDE DEF folded, inserts
  <2>2. s \in C <=> \E r \in Added :
          s = IF folded[r] = {} THEN r
              ELSE [r EXCEPT !.base = r.entry, !.origin = "original", !.bseq = Max(folded[r])]
    BY Zenon DEF C
  <2> QED BY <2>1, <2>2 DEF ByFold
<1>7. \A j : j \in left <=> j \in Unfolded(t)
  <2>1. \A r \in Added : folded[r] = Fold(t, Open(t), r)
    BY <1>3
  <2> HIDE DEF folded, inserts
  <2> QED BY <1>3, <2>1 DEF Unfolded
<1> HIDE DEF left, inserts, folded
<1>8. /\ Len(fresh) \in Nat /\ DOMAIN fresh = 1 .. Len(fresh)
      /\ \A n \in DOMAIN fresh : fresh[n] \in left
      /\ \A n, m \in DOMAIN fresh : fresh[n] = fresh[m] => n = m
      /\ \A j \in left : \E n \in DOMAIN fresh : fresh[n] = j
  <2>1. PICK z \in Nat : z = Len(t)
    OBVIOUS
  <2>2. \A j \in left : j \in 1 .. z
    BY <1>7, <2>1 DEF Unfolded, Open
  <2>3. /\ Cardinality(left) \in Nat
        /\ fresh \in Seq(left) /\ Len(fresh) = Cardinality(left)
        /\ DOMAIN fresh = 1 .. Cardinality(left)
        /\ \A k \in DOMAIN fresh : fresh[k] \in left
        /\ \A k, q \in DOMAIN fresh : fresh[k] = fresh[q] => k = q
        /\ \A i \in left : \E k \in DOMAIN fresh : fresh[k] = i
    BY ONLY <2>2, z \in Nat, AscendingProperties
  <2> HIDE DEF fresh
  <2> QED BY <2>3
<1> HIDE DEF fresh
<1>9. /\ \A n \in DOMAIN fresh : ids[n] \in Nat /\ ids[n] \notin TakenIds
      /\ \A n, m \in DOMAIN fresh : ids[n] = ids[m] => n = m
  <2>1. PICK c \in Nat : c = Len(fresh)
    BY <1>8
  <2>2. /\ \A k \in 1 .. c : NewIds(c)[k] \in Nat /\ NewIds(c)[k] \notin TakenIds
        /\ \A k, q \in 1 .. c : NewIds(c)[k] = NewIds(c)[q] => k = q
    BY NewIdsAreNew
  <2> QED BY <1>8, <2>1, <2>2
<1> HIDE DEF ids
<1>10. from \in Nat
  <2> DEFINE K == kept \cup Added
             g == [r \in rows |-> {s \in K : ByPair(t, r, s) \/ ByGone(t, r, s) \/ (r \in Added /\ s = r)}]
  <2>1. \A s \in K : \E r \in rows : s \in g[r]
    <3> TAKE s \in K
    <3>1. s \in A \/ s \in B \/ s \in Added
      OBVIOUS
    <3>2. \A r \in Added : r \in rows
      BY DEF Added
    <3> HIDE DEF K
    <3>3. PICK r \in rows : ByPair(t, r, s) \/ ByGone(t, r, s) \/ (r \in Added /\ s = r)
      BY <1>4, <1>5, <3>1, <3>2
    <3> QED BY <3>3
  <2>2. \A r \in rows : \A s \in g[r] : RowSound(s) /\ s.id = r.id
    <3> TAKE r \in rows
    <3> TAKE s \in g[r]
    <3>1. CASE ByPair(t, r, s) \/ ByGone(t, r, s)
      BY <1>0, <3>1, MakesForm DEF Makes
    <3>2. CASE s = r
      BY <1>0, <3>2 DEF Table
    <3> HIDE DEF K
    <3> QED BY <3>1, <3>2
  <2>3. \A r \in rows : \A s, z \in g[r] : s = z
    <3> TAKE r \in rows
    <3> TAKE s, z \in g[r]
    <3> HIDE DEF K
    <3>1. CASE r \in Added
      <4>1. r.base = NoEntry /\ \A p \in Found(t) : p.row # r
        BY <1>0, <3>1 DEF Added, Pairing, Based
      <4>2. s = r /\ z = r
        BY <4>1 DEF ByPair, ByGone, Based
      <4> QED BY <4>2
    <3>2. CASE r \notin Added
      <4>1. Makes(t, r, s) /\ Makes(t, r, z)
        BY <3>2 DEF Makes
      <4> QED BY <1>0, <4>1, MakesOne
    <3> QED BY <3>1, <3>2
  <2> HIDE DEF K, g
  <2>4. IsFiniteSet({})
    BY FS_EmptySet
  <2>5. Table(K)
    BY <1>0, <2>1, <2>2, <2>3, <2>4, TableFrom
  <2> QED BY <2>5, NextSeqTyped DEF K
<1> HIDE DEF from, kept
<1> DEFINE at(j) == CHOOSE n \in DOMAIN fresh : fresh[n] = j
           new == [j \in Unfolded(t) |-> Fresh(ids[at(j)], from + at(j) - 1, t[j], t[j], j, "original")]
<1>11. ASSUME NEW j \in Unfolded(t)
       PROVE  /\ at(j) \in DOMAIN fresh /\ fresh[at(j)] = j /\ \A n \in DOMAIN fresh : fresh[n] = j => n = at(j)
              /\ new[j] = Fresh(ids[at(j)], from + at(j) - 1, t[j], t[j], j, "original")
              /\ RowSound(new[j]) /\ new[j].id = ids[at(j)]
              /\ new[j].entry = t[j] /\ new[j].base = t[j] /\ new[j].bseq = j
              /\ new[j].origin = "original" /\ new[j].mark = NoMark
  <2>1. at(j) \in DOMAIN fresh /\ fresh[at(j)] = j
    BY <1>7, <1>8
  <2>2. \A n \in DOMAIN fresh : fresh[n] = j => n = at(j)
    BY <1>8, <2>1
  <2>3. PICK n : n = at(j)
    OBVIOUS
  <2>4. n \in DOMAIN fresh /\ n \in Nat /\ n >= 1 /\ ids[n] \in Nat
    BY <1>8, <1>9, <2>1, <2>3
  <2>5. PICK seq \in Nat : seq = from + n - 1
    BY <1>10, <2>4
  <2>6. PICK e \in Entries : e = t[j]
    BY DEF Unfolded, Open
  <2>7. j \in Nat
    BY DEF Unfolded, Open
  <2>8. PICK id \in Nat : id = ids[n]
    BY <2>4
  <2>9. new[j] = Fresh(id, seq, e, e, j, "original")
    BY <2>3, <2>5, <2>6, <2>8
  <2> HIDE DEF new, at
  <2>10. /\ RowSound(new[j]) /\ new[j].id = id /\ new[j].entry = e /\ new[j].base = e /\ new[j].bseq = j
         /\ new[j].origin = "original" /\ new[j].mark = NoMark
    <3>1. RowSound(Fresh(id, seq, e, e, j, "original"))
      BY <2>7, FreshForm
    <3> QED BY ONLY <2>9, <3>1 DEF Fresh
  <2> QED BY <2>1, <2>2, <2>3, <2>5, <2>6, <2>8, <2>9, <2>10
<1> HIDE DEF at, new
<1>12. Brings(t, new)
  <2>1. ASSUME NEW j \in Unfolded(t), NEW k \in Unfolded(t), new[j].id = new[k].id PROVE j = k
    <3>1. ids[at(j)] = ids[at(k)] /\ at(j) \in DOMAIN fresh /\ at(k) \in DOMAIN fresh
      BY <1>11, <2>1
    <3>2. at(j) = at(k)
      BY <1>9, <3>1
    <3> QED BY <1>11, <3>2
  <2>2. \A j \in Unfolded(t) : new[j].id \notin TakenIds
    BY <1>9, <1>11
  <2> QED BY <1>11, <2>1, <2>2 DEF Brings
<1>13. \A s : s \in D <=> \E j \in Unfolded(t) : s = new[j]
  <2> TAKE s
  <2>1. s \in D <=> \E n \in DOMAIN fresh :
                      s = Fresh(ids[n], from + n - 1, t[fresh[n]], t[fresh[n]], fresh[n], "original")
    BY DEF D
  <2>2. \A n \in DOMAIN fresh : fresh[n] \in Unfolded(t) /\ at(fresh[n]) = n
    BY <1>7, <1>8, <1>11
  <2>3. \A n \in DOMAIN fresh :
          new[fresh[n]] = Fresh(ids[n], from + n - 1, t[fresh[n]], t[fresh[n]], fresh[n], "original")
    BY <1>11, <2>2
  <2>4. \A j \in Unfolded(t) : \E n \in DOMAIN fresh : fresh[n] = j
    BY <1>11
  <2> QED BY <2>1, <2>2, <2>3, <2>4
<1>14. \A s : s \in Merged(t) <=> s \in A \/ s \in B \/ s \in C \/ s \in D
  BY <1>1 DEF kept
<1>15. \A s : s \in Merged(t) <=> \/ \E r \in rows : Makes(t, r, s)
                                  \/ \E j \in Unfolded(t) : s = new[j]
  BY <1>4, <1>5, <1>6, <1>13, <1>14, Zenon DEF Makes
<1> QED BY <1>12, <1>15

\* M is what a re-open with t leaves, new the rows it adds.
Reopened(t, M, new) ==
  /\ Brings(t, new)
  /\ \A s : s \in M <=> \/ \E r \in rows : Makes(t, r, s)
                        \/ \E j \in Unfolded(t) : s = new[j]

LEMMA ReopenedTable ==
  ASSUME Stored, NEW t \in Seq(Entries), NEW M, NEW new, Reopened(t, M, new)
  PROVE  Table(M)
<1> DEFINE g == [r \in rows |-> {s \in M : Makes(t, r, s)}]
           N == {new[j] : j \in Unfolded(t)}
<1>0. Table(rows)
  BY DEF Stored
<1>1. \A r \in rows : \A s \in g[r] : RowSound(s) /\ s.id = r.id
  BY <1>0, MakesForm
<1>2. \A r \in rows : \A s, z \in g[r] : s = z
  BY <1>0, MakesOne
<1>3. \A r \in rows : r.id \in TakenIds
  BY DEF TakenIds, Ids
<1>4. \A n \in N : RowSound(n) /\ \A r \in rows : n.id # r.id
  BY <1>3 DEF Reopened, Brings
<1>5. \A m, n \in N : m.id = n.id => m = n
  BY DEF Reopened, Brings
<1>6. IsFiniteSet(N)
  <2>1. PICK z \in Nat : z = Len(t)
    OBVIOUS
  <2>2. Unfolded(t) \in SUBSET (1 .. z)
    BY <2>1 DEF Unfolded, Open
  <2>3. IsFiniteSet(Unfolded(t))
    <3>1. IsFiniteSet(1 .. z)
      BY FS_Interval
    <3> QED BY <2>2, <3>1, FS_Subset
  <2>4. (\A j \in Unfolded(t) : new[j] \in N) /\ \A n \in N : \E j \in Unfolded(t) : new[j] = n
    OBVIOUS
  <2> HIDE DEF N
  <2>5. PICK J : J = Unfolded(t)
    OBVIOUS
  <2> QED BY ONLY <2>3, <2>4, <2>5, ImageCardinality, ZenonT(40)
<1>7. \A s \in M : s \in N \/ \E r \in rows : s \in g[r]
  BY DEF Reopened
<1> HIDE DEF g, N
<1> QED BY <1>0, <1>1, <1>2, <1>4, <1>5, <1>6, <1>7, TableFrom

\* A row with an original after a re-open has it from one place of t: a row
\* paired with it, an addition that took it, or the row it brought.
FromPair(t, s) == \E p \in Found(t) : /\ p.row \in rows /\ Makes(t, p.row, s)
                                      /\ s.id = p.row.id /\ s.base = t[p.to] /\ s.bseq = p.to
FromFold(t, s) == \E r \in Added : \E m \in Open(t) :
                    /\ Makes(t, r, s) /\ Fold(t, Open(t), r) = {m} /\ t[m] = r.entry
                    /\ Head(InBaseOrder(Same(r.entry))) = r
                    /\ s.id = r.id /\ s.base = t[m] /\ s.bseq = m
FromNew(t, new, s) == \E j \in Unfolded(t) : s = new[j] /\ s.base = t[j] /\ s.bseq = j

LEMMA ReopenedBased ==
  ASSUME Stored, NEW t \in Seq(Entries), NEW M, NEW new, Reopened(t, M, new),
         NEW s \in M, s.base # NoEntry
  PROVE  FromPair(t, s) \/ FromFold(t, s) \/ FromNew(t, new, s)
<1>0. Table(rows)
  BY DEF Stored
<1>1. CASE \E j \in Unfolded(t) : s = new[j]
  BY <1>1 DEF Reopened, Brings, FromNew
<1>2. ASSUME NEW r \in rows, Makes(t, r, s)
      PROVE  FromPair(t, s) \/ FromFold(t, s)
  <2>1. CASE ByPair(t, r, s)
    <3>1. \E p \in Found(t) : p.row = r /\ s.id = r.id /\ s.base = t[p.to] /\ s.bseq = p.to
      BY <1>0, <2>1, ByPairForm
    <3> QED BY <1>2, <3>1 DEF FromPair
  <2>2. CASE ByGone(t, r, s)
    <3>1. s \in Gone(r) /\ RowSound(r)
      BY <1>0, <2>2 DEF ByGone, Table
    <3>2. s.base = NoEntry
      BY <3>1, GoneForm
    <3> QED BY <3>2
  <2>3. CASE ByFold(t, r, s)
    <3>1. /\ s.id = r.id /\ r.base = NoEntry
          /\ \/ Fold(t, Open(t), r) = {} /\ s = r
             \/ \E m \in Open(t) : /\ Fold(t, Open(t), r) = {m} /\ t[m] = r.entry
                                   /\ Head(InBaseOrder(Same(r.entry))) = r
                                   /\ s.base = t[m] /\ s.bseq = m /\ s.origin = "original"
      BY <1>0, <2>3, ByFoldForm
    <3>2. r \in Added
      BY <3>1 DEF Added
    <3> QED BY <1>2, <3>1, <3>2 DEF FromFold
  <2> QED BY <1>2, <2>1, <2>2, <2>3 DEF Makes
<1> QED BY <1>1, <1>2 DEF Reopened

LEMMA ReopenedStands ==
  ASSUME Stored, NEW t \in Seq(Entries), NEW M, NEW new, Reopened(t, M, new)
  PROVE  Stands(M, t)
<1>0. Table(rows) /\ Pairing(t) /\ Table(M)
  BY FoundForm, ReopenedTable DEF Stored
<1>1. Based(M) = {s \in M : s.base # NoEntry}
  BY <1>0, BasedOfTable
<1>2. \A s \in Based(M) : s \in M /\ (FromPair(t, s) \/ FromFold(t, s) \/ FromNew(t, new, s))
  BY <1>1, ReopenedBased
<1>3. \A s \in Based(M) : s.bseq \in DOMAIN t /\ t[s.bseq] = s.base
  BY <1>0, <1>2 DEF FromPair, FromFold, FromNew, Pairing, Open, Unfolded
<1>4. ASSUME NEW s \in Based(M), NEW z \in Based(M), s.bseq = z.bseq PROVE s = z
  <2>1. ASSUME NEW y \in Based(M), FromPair(t, y)
        PROVE  (\E p \in Found(t) : p.to = y.bseq) /\ y.bseq \notin Open(t)
    BY <2>1 DEF FromPair, Open
  <2>2. ASSUME NEW y \in Based(M), FromFold(t, y)
        PROVE  y.bseq \in Open(t) /\ y.bseq \notin Unfolded(t)
    BY <2>2 DEF FromFold, Unfolded
  <2>3. ASSUME NEW y \in Based(M), FromNew(t, new, y)
        PROVE  y.bseq \in Unfolded(t) /\ y.bseq \in Open(t)
    BY <2>3 DEF FromNew, Unfolded
  <2>4. ASSUME FromPair(t, s), FromPair(t, z) PROVE s = z
    <3>1. PICK p \in Found(t) : p.row \in rows /\ Makes(t, p.row, s) /\ s.bseq = p.to
      BY <2>4 DEF FromPair
    <3>2. PICK q \in Found(t) : q.row \in rows /\ Makes(t, q.row, z) /\ z.bseq = q.to
      BY <2>4 DEF FromPair
    <3>3. p = q
      BY <1>0, <1>4, <3>1, <3>2 DEF Pairing
    <3> QED BY <1>0, <3>1, <3>2, <3>3, MakesOne
  <2>5. ASSUME FromFold(t, s), FromFold(t, z) PROVE s = z
    <3>1. PICK r \in Added : /\ Makes(t, r, s) /\ t[s.bseq] = r.entry
                             /\ Head(InBaseOrder(Same(r.entry))) = r
      BY <2>5 DEF FromFold
    <3>2. PICK q \in Added : /\ Makes(t, q, z) /\ t[z.bseq] = q.entry
                             /\ Head(InBaseOrder(Same(q.entry))) = q
      BY <2>5 DEF FromFold
    <3>3. r = q /\ r \in rows
      BY <1>4, <3>1, <3>2 DEF Added
    <3> QED BY <1>0, <3>1, <3>2, <3>3, MakesOne
  <2>6. ASSUME FromNew(t, new, s), FromNew(t, new, z) PROVE s = z
    BY <1>4, <2>6 DEF FromNew
  <2> QED BY <1>2, <1>4, <2>1, <2>2, <2>3, <2>4, <2>5, <2>6
<1>5. ASSUME NEW j \in DOMAIN t PROVE \E s \in Based(M) : s.bseq = j
  <2>0. \A s \in M : s.base \in Entries => s \in Based(M)
    BY <1>1, LoreAssumption
  <2>1. CASE \E p \in Found(t) : p.to = j
    <3>1. PICK p \in Found(t) : p.to = j /\ p.row \in rows
      BY <1>0, <2>1 DEF Pairing, Based
    <3>2. PICK s : s = Paired(p.row, t[p.to], p.to, p.tier)
      OBVIOUS
    <3>3. ByPair(t, p.row, s)
      BY <3>2 DEF ByPair
    <3>4. PICK q \in Found(t) : q.row = p.row /\ t[q.to] \in Entries /\ s.base = t[q.to] /\ s.bseq = q.to
      BY <1>0, <3>1, <3>3, ByPairForm
    <3>5. q = p
      BY <1>0, <3>4 DEF Pairing
    <3>6. s \in M
      BY <3>1, <3>3 DEF Makes, Reopened
    <3> QED BY <2>0, <3>1, <3>4, <3>5, <3>6
  <2>2. CASE j \in Unfolded(t)
    <3>1. new[j] \in M /\ new[j].base = t[j] /\ new[j].bseq = j /\ t[j] \in Entries
      BY <2>2 DEF Reopened, Brings
    <3> QED BY <2>0, <3>1
  <2>3. ASSUME NEW r \in Added, j \in Fold(t, Open(t), r)
        PROVE  \E s \in Based(M) : s.bseq = j
    <3>1. PICK s : s = IF Fold(t, Open(t), r) = {} THEN r
                       ELSE [r EXCEPT !.base = r.entry, !.origin = "original", !.bseq = Max(Fold(t, Open(t), r))]
      OBVIOUS
    <3>2. ByFold(t, r, s) /\ r \in rows
      BY <3>1 DEF ByFold, Added
    <3>3. PICK m \in Open(t) : Fold(t, Open(t), r) = {m} /\ s.base = t[m] /\ s.bseq = m
      BY <1>0, <2>3, <3>2, ByFoldForm
    <3>4. s \in M /\ m = j
      BY <2>3, <3>2, <3>3 DEF Makes, Reopened
    <3> QED BY <2>0, <3>3, <3>4
  <2> QED BY <2>1, <2>2, <2>3 DEF Open, Unfolded
<1> QED BY <1>3, <1>4, <1>5 DEF Stands

-----------------------------------------------------------------------------
(* The edits: they change, add and drop rows, and leave the originals.     *)

\* The rows with an original are the same, each with its original and place.
Originals(S, M) == \A s \in M : s.base # NoEntry => \E r \in S : /\ r.id = s.id /\ r.base = s.base
                                                                 /\ r.bseq = s.bseq
SameOriginals(S, M) == Originals(S, M) /\ Originals(M, S)

LEMMA BaselineStays ==
  ASSUME NEW S, Table(S), NEW M, Table(M), SameOriginals(S, M),
         \A r \in S : r.base # NoEntry => r.bseq # NoPlace
  PROVE  Baseline(M) = Baseline(S)
<1>1. /\ Based(S) = {r \in S : r.base # NoEntry} /\ Based(M) = {r \in M : r.base # NoEntry}
  BY BasedOfTable
<1>2. \A r \in S : \A s \in M : r.bseq = s.bseq /\ r.bseq # NoPlace => BasePlace(s) = BasePlace(r)
  BY DEF BasePlace
<1>3. SameBases(S, M)
  BY <1>1, <1>2 DEF SameOriginals, Originals, SameBases
<1> QED BY <1>3, BasesKept

\* Rows made of S's one by one, and new ones RisuAI does not have.
Makes1(S, g, N, M) ==
  /\ \A r \in S : \A s \in g[r] : /\ RowSound(s) /\ s.id = r.id
                                  /\ s.base = r.base /\ (r.base # NoEntry => s.bseq = r.bseq)
  /\ \A r \in S : \A s, z \in g[r] : s = z
  /\ \A r \in S : r.base # NoEntry => \E s \in g[r] : TRUE
  /\ IsFiniteSet(N) /\ \A n \in N : RowSound(n) /\ n.base = NoEntry /\ \A r \in S : n.id # r.id
  /\ \A m, n \in N : m.id = n.id => m = n
  /\ \A s : s \in M <=> s \in N \/ \E r \in S : s \in g[r]

LEMMA OneByOne ==
  ASSUME NEW S, Table(S), NEW g, NEW N, NEW M, Makes1(S, g, N, M)
  PROVE  Table(M) /\ SameOriginals(S, M)
<1>1. Table(M)
  <2>1. /\ \A r \in S : \A s \in g[r] : RowSound(s) /\ s.id = r.id
        /\ \A r \in S : \A s, z \in g[r] : s = z
        /\ IsFiniteSet(N) /\ \A n \in N : RowSound(n) /\ \A r \in S : n.id # r.id
        /\ \A m, n \in N : m.id = n.id => m = n
        /\ \A s \in M : s \in N \/ \E r \in S : s \in g[r]
    BY DEF Makes1
  <2> QED BY <2>1, TableFrom
<1>2. Originals(S, M)
  BY DEF Makes1, Originals
<1>3. Originals(M, S)
  BY DEF Makes1, Originals
<1> QED BY <1>1, <1>2, <1>3 DEF SameOriginals

LEMMA PutKeeps ==
  ASSUME Table(rows), NEW r \in rows, NEW new, RowSound(new), new.id = r.id,
         new.base = r.base, r.base # NoEntry => new.bseq = r.bseq, Put(r, new)
  PROVE  Table(rows') /\ SameOriginals(rows, rows')
<1> DEFINE g == [q \in rows |-> IF q = r THEN {new} ELSE {q}]
<1>1. \A q \in rows : RowSound(q)
  BY DEF Table
<1>2. IsFiniteSet({})
  BY FS_EmptySet
<1>3. \A s : s \in rows' <=> s \in {} \/ \E q \in rows : s \in g[q]
  BY DEF Put
<1>4. Makes1(rows, g, {}, rows')
  BY <1>1, <1>2, <1>3 DEF Makes1
<1> HIDE DEF g
<1> QED BY <1>4, OneByOne

LEMMA DropKeeps ==
  ASSUME Table(rows), NEW r \in rows, r.base = NoEntry, rows' = rows \ {r}
  PROVE  Table(rows') /\ SameOriginals(rows, rows')
<1> DEFINE g == [q \in rows |-> IF q = r THEN {} ELSE {q}]
<1>1. \A q \in rows : RowSound(q)
  BY DEF Table
<1>2. IsFiniteSet({})
  BY FS_EmptySet
<1>3. \A s : s \in rows' <=> s \in {} \/ \E q \in rows : s \in g[q]
  OBVIOUS
<1>4. Makes1(rows, g, {}, rows')
  BY <1>1, <1>2, <1>3 DEF Makes1
<1> HIDE DEF g
<1> QED BY <1>4, OneByOne

LEMMA UpdateKeeps ==
  ASSUME Stored, NEW r \in rows, NEW e \in Entries, UpdateLore(r, e)
  PROVE  Table(rows') /\ SameOriginals(rows, rows')
<1>0. Table(rows) /\ RowSound(r)
  BY DEF Stored, Table
<1> DEFINE origin == CASE r.origin = "added" -> "added"
                       [] r.origin # "added" /\ r.base = e -> "original"
                       [] OTHER -> "edited"
           new == [r EXCEPT !.entry = e, !.origin = origin]
<1>1. Put(r, new)
  BY DEF UpdateLore
<1>2. origin \in Origins /\ (r.base = NoEntry <=> origin = "added")
  BY <1>0 DEF RowSound, Origins
<1> HIDE DEF origin
<1>3. new = With(r, r.base, r.bseq, e, r.seq, origin, r.mark)
  BY <1>0 DEF RowSound, RowRecords, With
<1>4. Fits(r.base, r.bseq, e, r.seq, origin, r.mark)
  BY <1>0, <1>2, RowParts DEF Fits, RowSound
<1> HIDE DEF new
<1>5. IsWith(new, r, r.base, r.bseq, e, r.seq, origin, r.mark)
  BY <1>0, <1>3, <1>4, RowSet
<1>6. RowSound(new) /\ new.id = r.id /\ new.base = r.base /\ new.bseq = r.bseq
  BY <1>5 DEF IsWith
<1> QED BY <1>0, <1>1, <1>6, PutKeeps

LEMMA AddKeeps ==
  ASSUME Stored, NEW e \in Entries, AddLore(e)
  PROVE  Table(rows') /\ SameOriginals(rows, rows')
<1>0. Table(rows) /\ \A q \in rows : RowSound(q) /\ q.id \in TakenIds
  BY DEF Stored, Table, TakenIds, Ids
<1>1. NewIds(1)[1] \in Nat /\ NewIds(1)[1] \notin TakenIds
  <2>1. 1 \in 1 .. 1
    OBVIOUS
  <2> QED BY <2>1, NewIdsAreNew
<1>2. PICK id \in Nat : id = NewIds(1)[1]
  BY <1>1
<1>3. PICK seq \in Nat : seq = NextSeq(rows)
  BY <1>0, NextSeqTyped
<1>4. PICK new : new = Fresh(id, seq, e, NoEntry, NoPlace, "added")
  OBVIOUS
<1>5. RowSound(new) /\ new.id = id /\ new.base = NoEntry
  BY <1>4, FreshForm
<1>6. rows' = rows \cup {new}
  BY <1>2, <1>3, <1>4 DEF AddLore
<1> DEFINE g == [q \in rows |-> {q}]
<1>7. IsFiniteSet({new})
  BY FS_Singleton
<1>8. Makes1(rows, g, {new}, rows')
  BY <1>0, <1>1, <1>2, <1>5, <1>6, <1>7 DEF Makes1
<1> HIDE DEF g
<1> QED BY <1>0, <1>8, OneByOne

LEMMA DeleteKeeps ==
  ASSUME Stored, NEW r \in rows, DeleteLore(r)
  PROVE  Table(rows') /\ SameOriginals(rows, rows')
<1>0. Table(rows) /\ RowSound(r)
  BY DEF Stored, Table
<1>1. CASE r.origin = "added"
  BY <1>0, <1>1, DropKeeps DEF DeleteLore, RowSound
<1>2. CASE r.origin # "added"
  <2>1. PICK new : new = [r EXCEPT !.origin = "deleted"]
    OBVIOUS
  <2>2. Put(r, new)
    BY <1>2, <2>1 DEF DeleteLore
  <2>3. new = With(r, r.base, r.bseq, r.entry, r.seq, "deleted", r.mark)
    BY <1>0, <2>1 DEF RowSound, RowRecords, With
  <2>4. Fits(r.base, r.bseq, r.entry, r.seq, "deleted", r.mark)
    BY <1>0, <1>2, RowParts DEF Fits, RowSound, Origins
  <2>5. IsWith(new, r, r.base, r.bseq, r.entry, r.seq, "deleted", r.mark)
    BY <1>0, <2>3, <2>4, RowSet
  <2>6. RowSound(new) /\ new.id = r.id /\ new.base = r.base /\ new.bseq = r.bseq
    BY <2>5 DEF IsWith
  <2> QED BY <1>0, <2>2, <2>6, PutKeeps
<1> QED BY <1>1, <1>2

CanInsert(T, list, i, e) == list \in Seq(T) /\ i \in 1 .. (Len(list) + 1) /\ e \in T
IsInserted(ins, T, list, i, e) ==
  /\ ins \in Seq(T) /\ Len(ins) = Len(list) + 1
  /\ \A k \in 1 .. (Len(list) + 1) :
       ins[k] = IF k < i THEN list[k] ELSE IF k = i THEN e ELSE list[k - 1]

LEMMA InsertAtForm ==
  ASSUME NEW T, NEW list, NEW i, NEW e, CanInsert(T, list, i, e)
  PROVE  IsInserted(InsertAt(list, i, e), T, list, i, e)
<1>1. list \in Seq(T) /\ i \in 1 .. (Len(list) + 1) /\ e \in T
  BY DEF CanInsert
<1> QED BY <1>1, InsertAtProperties DEF IsInserted

LEMMA MoveKeeps ==
  ASSUME Stored, NEW r \in rows, NEW to \in 1 .. Cardinality(Live(rows)), MoveLore(r, to)
  PROVE  Table(rows') /\ SameOriginals(rows, rows')
<1>0. Table(rows) /\ r \in Live(rows) /\ \A q \in rows : RowSound(q)
  BY DEF Stored, Table, MoveLore
<1> DEFINE live == Live(rows)
           rest == live \ {r}
           order == InsertAt(InOrder(rest), to, r)
<1>1. rows' = (rows \ live) \cup {[order[i] EXCEPT !.seq = i - 1] : i \in DOMAIN order}
  BY DEF MoveLore
<1>2. Table(live) /\ IsFiniteSet(live) /\ (\A q \in live : q \in rows) /\ r \in live
  BY <1>0, BasedOfTable DEF Live, Table
<1>3. Table(rest) /\ Cardinality(rest) = Cardinality(live) - 1 /\ Cardinality(live) \in Nat
  <2>1. rest \in SUBSET live
    OBVIOUS
  <2> HIDE DEF rest
  <2>2. Table(rest)
    BY <1>2, <2>1, PartOfTable
  <2> USE DEF rest
  <2>3. Cardinality(rest) = Cardinality(live) - 1 /\ Cardinality(live) \in Nat
    BY <1>2, FS_RemoveElement, FS_CardinalityType
  <2> QED BY <2>2, <2>3
<1> HIDE DEF rest
<1>4. PICK others : others = InOrder(rest)
  OBVIOUS
<1>5. /\ others \in Seq(rest) /\ Len(others) = Cardinality(rest) /\ DOMAIN others = 1 .. Len(others)
      /\ \A q \in rest : \E k \in DOMAIN others : others[k] = q
      /\ \A k, m \in DOMAIN others : others[k] = others[m] => k = m
  BY <1>3, <1>4, InOrderLines DEF Lines
<1>6. PICK n \in Nat : n = Len(others)
  BY <1>5
<1>7. to \in 1 .. (n + 1) /\ n + 1 = Cardinality(live)
  BY <1>3, <1>5, <1>6
<1>8. /\ \A q \in rest : q \in live /\ q # r
      /\ \A q \in live : q = r \/ q \in rest
  BY DEF rest
<1>9. /\ order \in Seq(live) /\ Len(order) = n + 1 /\ DOMAIN order = 1 .. (n + 1)
      /\ \A k \in 1 .. (n + 1) :
           order[k] = IF k < to THEN others[k] ELSE IF k = to THEN r ELSE others[k - 1]
  <2>1. others \in Seq(live)
    BY <1>5, <1>8
  <2>2. /\ InsertAt(others, to, r) \in Seq(live)
        /\ Len(InsertAt(others, to, r)) = n + 1
        /\ \A k \in 1 .. (n + 1) :
             InsertAt(others, to, r)[k] = IF k < to THEN others[k] ELSE IF k = to THEN r ELSE others[k - 1]
    <3>1. CanInsert(live, others, to, r)
      BY <1>2, <1>6, <1>7, <2>1 DEF CanInsert
    <3> HIDE DEF live
    <3>2. IsInserted(InsertAt(others, to, r), live, others, to, r)
      BY ONLY <3>1, InsertAtForm
    <3> QED BY ONLY <1>6, <3>2 DEF IsInserted
  <2>3. order = InsertAt(others, to, r)
    BY <1>4
  <2> HIDE DEF order
  <2> QED BY <2>2, <2>3
<1> HIDE DEF order
<1>10. \A q \in live : \E k \in 1 .. (n + 1) : order[k] = q
  <2> TAKE q \in live
  <2>1. CASE q = r
    BY <1>6, <1>7, <1>9, <2>1
  <2>2. CASE q \in rest
    <3>1. PICK k \in 1 .. n : others[k] = q
      BY <1>5, <1>6, <2>2
    <3>2. CASE k < to
      BY <1>9, <3>1, <3>2
    <3>3. CASE ~ (k < to)
      <4>1. k + 1 \in 1 .. (n + 1) /\ ~ (k + 1 < to) /\ k + 1 # to /\ (k + 1) - 1 = k
        BY <1>7, <3>1, <3>3
      <4> QED BY <1>9, <3>1, <4>1
    <3> QED BY <3>2, <3>3
  <2> QED BY <1>8, <2>1, <2>2
<1>11. \A k, m \in 1 .. (n + 1) : order[k] = order[m] => k = m
  <2> SUFFICES ASSUME NEW k \in 1 .. (n + 1), NEW m \in 1 .. (n + 1), order[k] = order[m] PROVE k = m
    OBVIOUS
  <2>1. \A i \in 1 .. n : others[i] \in rest /\ others[i] # r
    BY <1>5, <1>6, <1>8
  <2>2. order[k] = r <=> k = to
    BY <1>7, <1>9, <2>1
  <2>3. order[m] = r <=> m = to
    BY <1>7, <1>9, <2>1
  <2>4. CASE k # to /\ m # to
    <3>1. PICK i \in 1 .. n : order[k] = others[i] /\ i = IF k < to THEN k ELSE k - 1
      BY <1>7, <1>9, <2>4
    <3>2. PICK j \in 1 .. n : order[m] = others[j] /\ j = IF m < to THEN m ELSE m - 1
      BY <1>7, <1>9, <2>4
    <3>3. i = j
      <4>1. i \in DOMAIN others /\ j \in DOMAIN others
        BY <1>5, <1>6
      <4>2. others[i] = others[j]
        BY <3>1, <3>2
      <4> QED BY ONLY <1>5, <4>1, <4>2
    <3> QED BY <1>7, <2>4, <3>1, <3>2, <3>3
  <2> QED BY <2>2, <2>3, <2>4
<1> DEFINE at(q) == CHOOSE k \in 1 .. (n + 1) : order[k] = q
           moved(q) == [q EXCEPT !.seq = at(q) - 1]
           g == [q \in rows |-> IF q \in live THEN {moved(q)} ELSE {q}]
<1>12. \A q \in live : at(q) \in 1 .. (n + 1) /\ order[at(q)] = q
  BY <1>10
<1> HIDE DEF at
<1>13. \A k \in 1 .. (n + 1) : order[k] \in live /\ at(order[k]) = k
  BY <1>9, <1>11, <1>12
<1>14. ASSUME NEW q \in live
       PROVE  RowSound(moved(q)) /\ moved(q).id = q.id /\ moved(q).base = q.base /\ moved(q).bseq = q.bseq
  <2>1. PICK seq \in Nat : seq = at(q) - 1
    BY <1>12
  <2>2. RowSound(q)
    BY <1>0, <1>2
  <2>3. moved(q) = With(q, q.base, q.bseq, q.entry, seq, q.origin, q.mark)
    BY <2>1, <2>2 DEF RowSound, RowRecords, With
  <2>4. Fits(q.base, q.bseq, q.entry, seq, q.origin, q.mark)
    BY <2>2, RowParts DEF Fits, RowSound
  <2>5. IsWith(moved(q), q, q.base, q.bseq, q.entry, seq, q.origin, q.mark)
    BY <2>2, <2>3, <2>4, RowSet
  <2> QED BY <2>5 DEF IsWith
<1>15. \A s : s \in rows' <=> s \in {} \/ \E q \in rows : s \in g[q]
  <2> TAKE s
  <2>1. s \in rows' <=> (s \in rows /\ s \notin live) \/ \E k \in 1 .. (n + 1) : s = [order[k] EXCEPT !.seq = k - 1]
    BY <1>1, <1>9
  <2>2. \A k \in 1 .. (n + 1) : [order[k] EXCEPT !.seq = k - 1] = moved(order[k])
    BY <1>13
  <2>3. (\E k \in 1 .. (n + 1) : s = [order[k] EXCEPT !.seq = k - 1]) <=> \E q \in live : s = moved(q)
    <3>1. ASSUME NEW k \in 1 .. (n + 1), s = [order[k] EXCEPT !.seq = k - 1]
          PROVE  \E q \in live : s = moved(q)
      <4>1. s = moved(order[k]) /\ order[k] \in live
        BY <1>13, <2>2, <3>1
      <4> HIDE DEF moved
      <4> QED BY <4>1
    <3>2. ASSUME NEW q \in live, s = moved(q)
          PROVE  \E k \in 1 .. (n + 1) : s = [order[k] EXCEPT !.seq = k - 1]
      <4>1. at(q) \in 1 .. (n + 1) /\ [order[at(q)] EXCEPT !.seq = at(q) - 1] = moved(q)
        BY <1>12
      <4> HIDE DEF moved
      <4> QED BY <3>2, <4>1
    <3> QED BY <3>1, <3>2
  <2>4. (\E q \in rows : s \in g[q]) <=> (s \in rows /\ s \notin live) \/ \E q \in live : s = moved(q)
    <3> HIDE DEF moved
    <3> QED BY <1>2
  <2> QED BY <2>1, <2>3, <2>4
<1>16. IsFiniteSet({})
  BY FS_EmptySet
<1> HIDE DEF moved
<1>17. Makes1(rows, g, {}, rows')
  BY <1>0, <1>14, <1>15, <1>16 DEF Makes1
<1> HIDE DEF g
<1> QED BY <1>0, <1>17, OneByOne

\* A decision on an entry that RisuAI dropped and then had again takes it out
\* of the baseline; no other decision moves it.
Decided(S, M) == \E r \in S \ M : r.mark.kind = "deleted-upstream" /\ r.base # NoEntry

LEMMA ResolveKeeps ==
  ASSUME Stored, NEW r \in rows, Resolve(r)
  PROVE  /\ Table(rows') /\ Originals(rows, rows')
         /\ SameOriginals(rows, rows') \/ Decided(rows, rows')
<1>0. Table(rows) /\ RowSound(r) /\ r.mark # NoMark /\ IsFiniteSet({})
  BY FS_EmptySet DEF Stored, Table, Resolve
<1>1. /\ r.base \in Entries \cup {NoEntry} /\ r.bseq \in Nat \cup {NoPlace} /\ r.seq \in Nat
      /\ r.entry \in Entries /\ r.origin \in Origins /\ NoMark \in Marks /\ NoMark.kind = "none"
      /\ r.base = NoEntry <=> r.origin = "added"
      /\ NoMark.kind \notin {"both-moved", "weak-match"}
      /\ NoEntry \in Entries \cup {NoEntry} /\ NoPlace \in Nat \cup {NoPlace}
      /\ "added" \in Origins /\ "original" \in Origins
  BY <1>0, RowParts DEF RowSound, NoMark, Marks, Origins
<1>2. ASSUME r.mark.kind # "deleted-upstream"
      PROVE  r.base # NoEntry /\ r.base \in Entries
  <2>1. r.mark.kind \in {"both-moved", "weak-match"}
    BY <1>0, <1>2, RowParts DEF Marks
  <2> QED BY <1>0, <1>1, <2>1 DEF RowSound
<1>3. ASSUME r.mark.kind = "deleted-upstream", rows' \subseteq (rows \ {r}) \cup {With(r, NoEntry, NoPlace, r.entry, r.seq, "added", NoMark)},
             rows \ {r} \subseteq rows',
             r.base # NoEntry
      PROVE  Table(rows') /\ Originals(rows, rows') /\ Decided(rows, rows')
  <2>1. PICK new : new = With(r, NoEntry, NoPlace, r.entry, r.seq, "added", NoMark)
    OBVIOUS
  <2>2. Fits(NoEntry, NoPlace, r.entry, r.seq, "added", NoMark)
    BY <1>1 DEF Fits
  <2>3. IsWith(new, r, NoEntry, NoPlace, r.entry, r.seq, "added", NoMark)
    BY <1>0, <2>1, <2>2, RowSet
  <2>4. RowSound(new) /\ new.id = r.id /\ new.base = NoEntry
    BY <2>3 DEF IsWith
  <2>5. \A s \in rows' : (s \in rows /\ s # r) \/ s = new
    BY <1>3, <2>1
  <2> DEFINE g == [q \in rows |-> IF q = r THEN {new} ELSE {q}]
  <2>6. Table(rows')
    <3>1. \A q \in rows : \A s \in g[q] : RowSound(s) /\ s.id = q.id
      BY <1>0, <2>4 DEF Table
    <3>2. \A q \in rows : \A s, z \in g[q] : s = z
      OBVIOUS
    <3>3. \A s \in rows' : s \in {} \/ \E q \in rows : s \in g[q]
      BY <2>5
    <3> HIDE DEF g
    <3> QED BY <1>0, <3>1, <3>2, <3>3, TableFrom
  <2>7. Originals(rows, rows')
    BY <2>4, <2>5 DEF Originals
  <2>8. r \notin rows'
    BY <1>3, <2>4, <2>5
  <2> QED BY <1>3, <2>6, <2>7, <2>8 DEF Decided
<1>4. ASSUME NEW entry \in Entries, NEW origin \in Origins, r.base = NoEntry <=> origin = "added",
             Put(r, With(r, r.base, r.bseq, entry, r.seq, origin, NoMark))
      PROVE  Table(rows') /\ SameOriginals(rows, rows')
  <2>1. PICK new : new = With(r, r.base, r.bseq, entry, r.seq, origin, NoMark)
    OBVIOUS
  <2>2. Fits(r.base, r.bseq, entry, r.seq, origin, NoMark)
    BY <1>1, <1>4 DEF Fits
  <2>3. IsWith(new, r, r.base, r.bseq, entry, r.seq, origin, NoMark)
    BY <1>0, <2>1, <2>2, RowSet
  <2>4. RowSound(new) /\ new.id = r.id /\ new.base = r.base /\ new.bseq = r.bseq
    BY <2>3 DEF IsWith
  <2> QED BY <1>0, <1>4, <2>1, <2>4, PutKeeps
<1>5. CASE r.mark.kind = "deleted-upstream" /\ Mine(r)
  <2>1. Put(r, With(r, NoEntry, NoPlace, r.entry, r.seq, "added", NoMark))
    BY <1>0, <1>5 DEF Mine, RowSound, RowRecords, With
  <2>2. CASE r.base # NoEntry
    BY <1>3, <1>5, <2>1, <2>2 DEF Put
  <2>3. CASE r.base = NoEntry
    <3>1. PICK new : new = With(r, NoEntry, NoPlace, r.entry, r.seq, "added", NoMark)
      OBVIOUS
    <3>2. Fits(NoEntry, NoPlace, r.entry, r.seq, "added", NoMark)
      BY <1>1 DEF Fits
    <3>3. IsWith(new, r, NoEntry, NoPlace, r.entry, r.seq, "added", NoMark)
      BY <1>0, <3>1, <3>2, RowSet
    <3>4. RowSound(new) /\ new.id = r.id /\ new.base = NoEntry
      BY <3>3 DEF IsWith
    <3>5. new.base = r.base /\ (r.base # NoEntry => new.bseq = r.bseq) /\ Put(r, new)
      BY <2>1, <2>3, <3>1, <3>4
    <3>6. Table(rows') /\ SameOriginals(rows, rows')
      BY ONLY <1>0, <3>4, <3>5, PutKeeps
    <3> QED BY <3>6 DEF SameOriginals
  <2> QED BY <2>2, <2>3 DEF SameOriginals
<1>6. CASE r.mark.kind # "deleted-upstream" /\ Mine(r)
  <2>1. Put(r, With(r, r.base, r.bseq, r.entry, r.seq, r.origin, NoMark))
    BY <1>0, <1>6 DEF Mine, RowSound, RowRecords, With
  <2> QED BY <1>1, <1>4, <2>1 DEF SameOriginals
<1>7. CASE r.mark.kind = "deleted-upstream" /\ Theirs(r)
  <2>1. rows' = rows \ {r}
    BY <1>7 DEF Theirs
  <2>2. CASE r.base # NoEntry
    BY <1>3, <1>7, <2>1, <2>2
  <2>3. CASE r.base = NoEntry
    BY <1>0, <2>1, <2>3, DropKeeps DEF SameOriginals
  <2> QED BY <2>2, <2>3
<1>8. CASE r.mark.kind # "deleted-upstream" /\ Theirs(r)
  <2>1. Put(r, With(r, r.base, r.bseq, r.base, r.seq, "original", NoMark))
    BY <1>0, <1>8 DEF Theirs, RowSound, RowRecords, With
  <2> QED BY <1>1, <1>2, <1>4, <1>8, <2>1 DEF SameOriginals
<1> QED BY <1>5, <1>6, <1>7, <1>8 DEF Resolve

LEMMA ResetKeeps ==
  ASSUME Stored, Reset
  PROVE  Table(rows') /\ SameOriginals(rows, rows')
<1>0. Table(rows) /\ IsFiniteSet({}) /\ \A q \in rows : RowSound(q)
  BY FS_EmptySet DEF Stored, Table
<1> DEFINE back(q) == [q EXCEPT !.mark = NoMark, !.origin = "original",
                                !.entry = IF q.origin = "original" THEN @ ELSE q.base]
           g == [q \in rows |-> IF q.origin = "added" THEN {} ELSE {back(q)}]
<1>1. ASSUME NEW q \in rows, q.origin # "added"
      PROVE  RowSound(back(q)) /\ back(q).id = q.id /\ back(q).base = q.base /\ back(q).bseq = q.bseq
  <2>1. RowSound(q) /\ q.base # NoEntry
    BY <1>0, <1>1 DEF RowSound
  <2>2. PICK e \in Entries : e = IF q.origin = "original" THEN q.entry ELSE q.base
    BY <2>1, RowParts
  <2>3. back(q) = With(q, q.base, q.bseq, e, q.seq, "original", NoMark)
    BY <2>1, <2>2 DEF RowSound, RowRecords, With
  <2>4. Fits(q.base, q.bseq, e, q.seq, "original", NoMark)
    BY <2>1, RowParts DEF Fits, NoMark, Marks, Origins
  <2>5. IsWith(back(q), q, q.base, q.bseq, e, q.seq, "original", NoMark)
    BY <2>1, <2>3, <2>4, RowSet
  <2> QED BY <2>5 DEF IsWith
<1>2. \A s : s \in rows' <=> s \in {} \/ \E q \in rows : s \in g[q]
  <2> TAKE s
  <2>1. s \in rows' <=> \E q \in rows : q.origin # "added" /\ s = back(q)
    BY DEF Reset
  <2> HIDE DEF back
  <2> QED BY <2>1
<1> HIDE DEF back
<1>3. \A q \in rows : q.origin = "added" <=> q.base = NoEntry
  BY <1>0 DEF RowSound
<1>4. Makes1(rows, g, {}, rows')
  BY <1>0, <1>1, <1>2, <1>3 DEF Makes1
<1> HIDE DEF g
<1> QED BY <1>0, <1>4, OneByOne

\* The rows of another table, each made anew by one row of its own id.
LEMMA ImageTable ==
  ASSUME NEW S, Table(S), NEW f, \A r \in S : RowSound(f[r]) /\ f[r].id = r.id
  PROVE  Table({f[r] : r \in S})
<1> DEFINE g == [r \in S |-> {f[r]}]
           M == {f[r] : r \in S}
<1>1. IsFiniteSet({})
  BY FS_EmptySet
<1>2. \A s \in M : s \in {} \/ \E r \in S : s \in g[r]
  OBVIOUS
<1>3. /\ \A r \in S : \A s \in g[r] : RowSound(s) /\ s.id = r.id
      /\ \A r \in S : \A s, z \in g[r] : s = z
  OBVIOUS
<1> HIDE DEF g, M
<1>4. Table(M)
  BY <1>1, <1>2, <1>3, TableFrom
<1> QED BY <1>4 DEF M

LEMMA LoadedStands ==
  ASSUME Stored, NEW t \in Seq(Entries)
  PROVE  Table(Loaded(t)) /\ Stands(Loaded(t), t)
<1> DEFINE new == [i \in DOMAIN t |-> Fresh(NewIds(Len(t))[i], i - 1, t[i], t[i], i, "original")]
           M == {new[i] : i \in DOMAIN t}
<1>1. Loaded(t) = M
  BY DEF Loaded
<1>2. PICK n \in Nat : n = Len(t) /\ DOMAIN t = 1 .. n
  OBVIOUS
<1>3. /\ \A k \in 1 .. n : NewIds(n)[k] \in Nat
      /\ \A k, q \in 1 .. n : NewIds(n)[k] = NewIds(n)[q] => k = q
  BY NewIdsAreNew
<1>4. ASSUME NEW i \in 1 .. n
      PROVE  /\ RowSound(new[i]) /\ new[i].id = NewIds(n)[i] /\ new[i].base = t[i] /\ new[i].bseq = i
             /\ t[i] \in Entries
  <2>1. PICK id \in Nat : id = NewIds(n)[i]
    BY <1>3
  <2>2. PICK e \in Entries : e = t[i]
    BY <1>2
  <2>3. i - 1 \in Nat /\ i \in Nat
    OBVIOUS
  <2>4. new[i] = Fresh(id, i - 1, e, e, i, "original")
    BY <1>2, <2>1, <2>2
  <2>5. RowSound(Fresh(id, i - 1, e, e, i, "original"))
    BY <2>3, FreshForm
  <2> HIDE DEF new
  <2> QED BY <2>1, <2>2, <2>4, <2>5 DEF Fresh
<1> HIDE DEF new
<1>5. IsFiniteSet(M)
  <2>1. IsFiniteSet(1 .. n)
    BY FS_Interval
  <2>2. (\A i \in 1 .. n : new[i] \in M) /\ \A s \in M : \E i \in 1 .. n : new[i] = s
    BY <1>2
  <2> HIDE DEF M
  <2>3. PICK I : I = 1 .. n
    OBVIOUS
  <2> QED BY ONLY <2>1, <2>2, <2>3, ImageCardinality, ZenonT(40)
<1>6. \A s \in M : \E i \in 1 .. n : s = new[i]
  BY <1>2
<1>7. \A i \in 1 .. n : new[i] \in M
  BY <1>2
<1> HIDE DEF M
<1>8. \A s, z \in M : s.id = z.id => s = z
  BY <1>3, <1>4, <1>6
<1>9. Table(M)
  BY <1>4, <1>5, <1>6, <1>8 DEF Table
<1>10. Based(M) = {s \in M : s.base # NoEntry}
  BY <1>9, BasedOfTable
<1>11. \A s \in M : s \in Based(M)
  BY <1>4, <1>6, <1>10, LoreAssumption
<1>12. \A s \in Based(M) : s \in M
  BY <1>10
<1>13. Stands(M, t)
  <2>1. \A r \in Based(M) : r.bseq \in DOMAIN t /\ t[r.bseq] = r.base
    BY <1>2, <1>4, <1>6, <1>12
  <2>2. \A r, s \in Based(M) : r.bseq = s.bseq => r = s
    BY <1>4, <1>6, <1>12
  <2>3. \A j \in DOMAIN t : \E r \in Based(M) : r.bseq = j
    BY <1>2, <1>4, <1>7, <1>11
  <2> QED BY <2>1, <2>2, <2>3 DEF Stands
<1> QED BY <1>1, <1>9, <1>13

LEMMA RestoredRows ==
  ASSUME Stored, NEW c \in saved, RestoreRows(c)
  PROVE  Table(rows') /\ LiveList(rows') = LiveList(c)
<1>0. Table(c) /\ \A q \in c : RowSound(q)
  BY DEF Stored, Table
<1> DEFINE f == [q \in c |-> [q EXCEPT !.bseq = NoPlace, !.mark = NoMark]]
<1>1. rows' = {f[q] : q \in c}
  BY DEF RestoreRows
<1>2. ASSUME NEW q \in c
      PROVE  /\ RowSound(f[q]) /\ f[q].id = q.id /\ f[q].entry = q.entry /\ f[q].seq = q.seq
             /\ f[q].origin = q.origin
  <2>1. f[q] = With(q, q.base, NoPlace, q.entry, q.seq, q.origin, NoMark)
    BY <1>0 DEF RowSound, RowRecords, With
  <2>2. Fits(q.base, NoPlace, q.entry, q.seq, q.origin, NoMark)
    BY <1>0, RowParts DEF Fits, RowSound, NoMark, Marks
  <2>3. IsWith(f[q], q, q.base, NoPlace, q.entry, q.seq, q.origin, NoMark)
    BY <1>0, <2>1, <2>2, RowSet
  <2> QED BY <2>3 DEF IsWith
<1> HIDE DEF f
<1>3. Table(rows')
  BY <1>0, <1>1, <1>2, ImageTable
<1>4. SameLive(c, rows')
  BY <1>1, <1>2 DEF SameLive, Live
<1>5. PICK M : M = rows'
  OBVIOUS
<1>6. LiveList(M) = LiveList(c)
  BY <1>0, <1>3, <1>4, <1>5, LiveKept
<1> QED BY <1>3, <1>5, <1>6

LEMMA SaveKeeps ==
  ASSUME Stored, Save \/ SaveBaseline
  PROVE  rows' = rows /\ Stored'
<1>0. Table(rows) /\ IsFiniteSet(saved) /\ \A q \in rows : RowSound(q)
  BY DEF Stored, Table
<1>1. ASSUME NEW c, Table(c), saved' = saved \cup {c}, rows' = rows
      PROVE  Stored'
  <2>1. IsFiniteSet(saved \cup {c})
    BY <1>0, FS_AddElement
  <2> QED BY <1>0, <1>1, <2>1 DEF Stored
<1>2. CASE Save
  BY <1>0, <1>1, <1>2 DEF Save
<1>3. CASE SaveBaseline
  <2> DEFINE f == [q \in Based(rows) |-> [q EXCEPT !.entry = q.base, !.origin = "original", !.seq = BasePlace(q)]]
  <2>1. Table(Based(rows)) /\ \A q \in Based(rows) : q \in rows /\ q.base # NoEntry /\ RowSound(q)
    BY <1>0, BasedOfTable DEF Based
  <2>2. ASSUME NEW q \in Based(rows) PROVE RowSound(f[q]) /\ f[q].id = q.id
    <3>1. f[q] = With(q, q.base, q.bseq, q.base, BasePlace(q), "original", q.mark)
      BY <2>1 DEF RowSound, RowRecords, With
    <3>2. Fits(q.base, q.bseq, q.base, BasePlace(q), "original", q.mark)
      BY <2>1, RowParts DEF Fits, RowSound, Origins
    <3>3. IsWith(f[q], q, q.base, q.bseq, q.base, BasePlace(q), "original", q.mark)
      BY <2>1, <3>1, <3>2, RowSet
    <3> QED BY <3>3 DEF IsWith
  <2>3. saved' = saved \cup {{f[q] : q \in Based(rows)}} /\ rows' = rows
    BY <1>3 DEF SaveBaseline
  <2> HIDE DEF f
  <2>4. Table({f[q] : q \in Based(rows)})
    BY <2>1, <2>2, ImageTable
  <2> QED BY <1>1, <2>3, <2>4
<1> QED BY <1>2, <1>3 DEF Save, SaveBaseline

-----------------------------------------------------------------------------
(* A restore over the baseline of today.                                   *)

\* What the exact tier paired, and what it leaves: no row and entry alike.
LEMMA ExactFound ==
  ASSUME Table(rows), NEW t \in Seq(Entries)
  PROVE  \E E \in SUBSET Found(t) :
           /\ \A p \in E : t[p.to] = p.row.base
           /\ \A r \in Based(rows), j \in DOMAIN t :
                (\A p \in E : p.row # r /\ p.to # j) => t[j] # r.base
<1>1. PICK b : b = Baseline(rows)
  OBVIOUS
<1>2. PICK list : list = BasedList
  OBVIOUS
<1>3. /\ b \in Seq(Entries) /\ DOMAIN b = DOMAIN list
      /\ \A k \in DOMAIN list : list[k] \in Based(rows) /\ b[k] = list[k].base
      /\ \A r \in Based(rows) : \E k \in DOMAIN list : list[k] = r
      /\ \A k, q \in DOMAIN list : list[k] = list[q] => k = q
  BY <1>1, <1>2, BasedListed
<1>4. PICK exact : exact = Exact(b, t)
  OBVIOUS
<1>5. /\ OneToOne(exact, b, t)
      /\ \A p \in exact : p.tier = "exact" /\ t[p.to] = b[p.at]
      /\ \A i \in LeftOf(b, exact), j \in RightOf(t, exact) : t[j] # b[i]
      /\ \A p \in exact : p \in Match(b, t)
  BY <1>3, <1>4, ExactForm, MatchForm
<1> DEFINE E == {[row |-> list[p.at], to |-> p.to, tier |-> p.tier] : p \in exact}
<1>6. E \in SUBSET Found(t)
  BY <1>1, <1>2, <1>5 DEF Found
<1>7. \A q \in E : t[q.to] = q.row.base
  <2> TAKE q \in E
  <2>1. PICK p \in exact : q = [row |-> list[p.at], to |-> p.to, tier |-> p.tier]
    OBVIOUS
  <2>2. p.at \in DOMAIN list /\ q.to = p.to /\ q.row = list[p.at]
    BY <1>3, <1>5, <2>1 DEF OneToOne
  <2> QED BY <1>3, <1>5, <2>2
<1>8. ASSUME NEW r \in Based(rows), NEW j \in DOMAIN t, \A p \in E : p.row # r /\ p.to # j
      PROVE  t[j] # r.base
  <2>1. PICK k \in DOMAIN list : list[k] = r
    BY <1>3
  <2>2. \A p \in exact : p.at # k /\ p.to # j
    <3> TAKE p \in exact
    <3>1. PICK q \in E : q = [row |-> list[p.at], to |-> p.to, tier |-> p.tier]
      OBVIOUS
    <3>2. q.row = list[p.at] /\ q.to = p.to
      BY <3>1
    <3> HIDE DEF E
    <3> QED BY <1>8, <2>1, <3>2
  <2>3. k \in LeftOf(b, exact) /\ j \in RightOf(t, exact)
    BY <1>3, <2>2 DEF LeftOf, RightOf
  <2> QED BY <1>3, <1>5, <2>1, <2>3
<1> HIDE DEF E
<1> QED BY <1>6, <1>7, <1>8

\* What stands for a row with an original after a restore of the list t; a row
\* t does not list gets the number `place` says.
ByListed(t, r, s) ==
  \E p \in Found(t) : /\ p.row = r
                      /\ s = [r EXCEPT !.entry = t[p.to], !.seq = p.to - 1, !.mark = NoMark,
                                       !.origin = IF t[p.to] = r.base THEN "original" ELSE "edited"]
ByLost(t, place, r, s) ==
  /\ \A p \in Found(t) : p.row # r
  /\ s = [r EXCEPT !.entry = r.base, !.origin = "deleted", !.mark = NoMark, !.seq = place[r]]
Restored(t, M, new, place) ==
  /\ \A r \in Based(rows) : (\A p \in Found(t) : p.row # r) => place[r] \in Nat
  /\ \A j \in Open(t) : /\ RowSound(new[j]) /\ new[j].seq = j - 1
                        /\ new[j].entry = t[j] /\ new[j].base = NoEntry /\ new[j].origin = "added"
                        /\ \A r \in Based(rows) : new[j].id # r.id
  /\ \A j, k \in Open(t) : new[j].id = new[k].id => j = k
  /\ \A s : s \in M <=> \/ \E r \in Based(rows) : ByListed(t, r, s) \/ ByLost(t, place, r, s)
                        \/ \E j \in Open(t) : s = new[j]

LEMMA ByListedForm ==
  ASSUME Table(rows), NEW t \in Seq(Entries), NEW r \in Based(rows), NEW s, ByListed(t, r, s)
  PROVE  /\ RowSound(s) /\ s.id = r.id /\ s.base = r.base /\ s.bseq = r.bseq /\ s.mark = NoMark
         /\ \E p \in Found(t) : /\ p.row = r /\ p.to \in DOMAIN t
                                /\ s.entry = t[p.to] /\ s.seq = p.to - 1
                                /\ s.origin = IF t[p.to] = r.base THEN "original" ELSE "edited"
<1>1. PICK p \in Found(t) : /\ p.row = r
                            /\ s = [r EXCEPT !.entry = t[p.to], !.seq = p.to - 1, !.mark = NoMark,
                                             !.origin = IF t[p.to] = r.base THEN "original" ELSE "edited"]
  BY DEF ByListed
<1>2. RowSound(r) /\ r.base # NoEntry /\ p.to \in DOMAIN t
  BY <1>1, FoundForm DEF Table, Based, Pairing
<1>3. PICK e \in Entries : e = t[p.to]
  BY <1>2
<1>4. PICK seq \in Nat : seq = p.to - 1
  BY <1>2
<1>5. PICK origin \in {"original", "edited"} : origin = IF t[p.to] = r.base THEN "original" ELSE "edited"
  OBVIOUS
<1>6. s = With(r, r.base, r.bseq, e, seq, origin, NoMark)
  BY <1>1, <1>2, <1>3, <1>4, <1>5 DEF RowSound, RowRecords, With
<1>7. Fits(r.base, r.bseq, e, seq, origin, NoMark)
  BY <1>2, RowParts DEF Fits, Origins, NoMark, Marks
<1>8. IsWith(s, r, r.base, r.bseq, e, seq, origin, NoMark)
  BY <1>2, <1>6, <1>7, RowSet
<1>9. s.entry = t[p.to] /\ s.seq = p.to - 1 /\ s.origin = IF t[p.to] = r.base THEN "original" ELSE "edited"
  BY <1>3, <1>4, <1>5, <1>8 DEF IsWith
<1> QED BY <1>1, <1>2, <1>8, <1>9 DEF IsWith

LEMMA ByLostForm ==
  ASSUME Table(rows), NEW t \in Seq(Entries), NEW place, NEW r \in Based(rows), NEW s,
         ByLost(t, place, r, s), place[r] \in Nat
  PROVE  /\ RowSound(s) /\ s.id = r.id /\ s.base = r.base /\ s.bseq = r.bseq
         /\ s.origin = "deleted"
<1>1. RowSound(r) /\ r.base # NoEntry
  BY DEF Table, Based
<1>2. s = With(r, r.base, r.bseq, r.base, place[r], "deleted", NoMark)
  BY <1>1 DEF ByLost, RowSound, RowRecords, With
<1>3. Fits(r.base, r.bseq, r.base, place[r], "deleted", NoMark)
  BY <1>1, RowParts DEF Fits, Origins, NoMark, Marks
<1>4. IsWith(s, r, r.base, r.bseq, r.base, place[r], "deleted", NoMark)
  BY <1>1, <1>2, <1>3, RowSet
<1> QED BY <1>4 DEF IsWith

LEMMA RestoredKeeps ==
  ASSUME Table(rows), NEW t \in Seq(Entries), NEW M, NEW new, NEW place, Restored(t, M, new, place)
  PROVE  Table(M) /\ SameOriginals(rows, M)
<1>0. Pairing(t) /\ Table(Based(rows)) /\ Based(rows) = {r \in rows : r.base # NoEntry}
  BY FoundForm, BasedOfTable
<1> DEFINE S == Based(rows)
           g == [r \in S |-> {s \in M : ByListed(t, r, s) \/ ByLost(t, place, r, s)}]
           N == {new[j] : j \in Open(t)}
<1>1. \A r \in S : \A s : ByLost(t, place, r, s) => place[r] \in Nat
  BY DEF ByLost, Restored
<1>2. ASSUME NEW r \in S, NEW s \in g[r]
      PROVE  RowSound(s) /\ s.id = r.id /\ s.base = r.base /\ (r.base # NoEntry => s.bseq = r.bseq)
  <2>1. CASE ByListed(t, r, s)
    BY <2>1, ByListedForm
  <2>2. CASE ByLost(t, place, r, s)
    <3>1. r \in Based(rows) /\ place[r] \in Nat
      BY <1>1, <2>2
    <3> QED BY <2>2, <3>1, ByLostForm
  <2> QED BY <1>2, <2>1, <2>2
<1>3. ASSUME NEW r \in S, NEW s \in g[r], NEW z \in g[r] PROVE s = z
  <2>1. ASSUME ByListed(t, r, s), ByListed(t, r, z) PROVE s = z
    <3>1. \A p, q \in Found(t) : p.row = r /\ q.row = r => p = q
      BY <1>0 DEF Pairing
    <3>2. PICK p \in Found(t) :
            /\ p.row = r
            /\ s = [r EXCEPT !.entry = t[p.to], !.seq = p.to - 1, !.mark = NoMark,
                             !.origin = IF t[p.to] = r.base THEN "original" ELSE "edited"]
      BY <2>1 DEF ByListed
    <3>3. PICK q \in Found(t) :
            /\ q.row = r
            /\ z = [r EXCEPT !.entry = t[q.to], !.seq = q.to - 1, !.mark = NoMark,
                             !.origin = IF t[q.to] = r.base THEN "original" ELSE "edited"]
      BY <2>1 DEF ByListed
    <3>4. p = q
      BY <3>1, <3>2, <3>3
    <3> QED BY ONLY <3>2, <3>3, <3>4
  <2>2. ByLost(t, place, r, s) /\ ByLost(t, place, r, z) => s = z
    BY DEF ByLost
  <2>3. /\ ~ (ByListed(t, r, s) /\ ByLost(t, place, r, z))
        /\ ~ (ByListed(t, r, z) /\ ByLost(t, place, r, s))
    BY DEF ByListed, ByLost
  <2> QED BY <1>3, <2>1, <2>2, <2>3
<1>4. ASSUME NEW r \in S PROVE \E s \in g[r] : TRUE
  <2>1. CASE \E p \in Found(t) : p.row = r
    <3>1. PICK p \in Found(t) : p.row = r
      BY <2>1
    <3>2. PICK s : s = [r EXCEPT !.entry = t[p.to], !.seq = p.to - 1, !.mark = NoMark,
                                 !.origin = IF t[p.to] = r.base THEN "original" ELSE "edited"]
      OBVIOUS
    <3>3. ByListed(t, r, s)
      BY <3>1, <3>2 DEF ByListed
    <3>4. s \in M
      BY <3>3 DEF Restored
    <3> QED BY <3>3, <3>4
  <2>2. CASE \A p \in Found(t) : p.row # r
    <3>1. PICK s : s = [r EXCEPT !.entry = r.base, !.origin = "deleted", !.mark = NoMark, !.seq = place[r]]
      OBVIOUS
    <3>2. ByLost(t, place, r, s)
      BY <2>2, <3>1 DEF ByLost
    <3>3. s \in M
      BY <3>2 DEF Restored
    <3> QED BY <3>2, <3>3
  <2> QED BY <2>1, <2>2
<1>5. IsFiniteSet(N)
  <2>1. PICK z \in Nat : z = Len(t)
    OBVIOUS
  <2>2. Open(t) \in SUBSET (1 .. z)
    BY <2>1 DEF Open
  <2>3. IsFiniteSet(Open(t))
    <3>1. IsFiniteSet(1 .. z)
      BY FS_Interval
    <3> QED BY <2>2, <3>1, FS_Subset
  <2>4. (\A j \in Open(t) : new[j] \in N) /\ \A n \in N : \E j \in Open(t) : new[j] = n
    OBVIOUS
  <2> HIDE DEF N
  <2>5. PICK J : J = Open(t)
    OBVIOUS
  <2> QED BY ONLY <2>3, <2>4, <2>5, ImageCardinality, ZenonT(40)
<1>6. \A n \in N : RowSound(n) /\ n.base = NoEntry /\ \A r \in S : n.id # r.id
  BY DEF Restored
<1>7. \A m, n \in N : m.id = n.id => m = n
  BY DEF Restored
<1>8. \A s : s \in M <=> s \in N \/ \E r \in S : s \in g[r]
  BY DEF Restored
<1> HIDE DEF g, N
<1>9. Makes1(S, g, N, M)
  BY <1>2, <1>3, <1>4, <1>5, <1>6, <1>7, <1>8 DEF Makes1
<1>10. Table(M) /\ SameOriginals(S, M)
  BY <1>0, <1>9, OneByOne
<1> QED BY <1>0, <1>10 DEF SameOriginals, Originals

LEMMA RestoredReads ==
  ASSUME Table(rows), NEW t \in Seq(Entries), NEW M, NEW new, NEW place, Restored(t, M, new, place)
  PROVE  LiveList(M) = t
<1>0. Pairing(t) /\ Table(M)
  BY FoundForm, RestoredKeeps
<1> DEFINE FromOld(s) == \E r \in Based(rows), p \in Found(t) :
                           /\ p.row = r /\ ByListed(t, r, s) /\ p.to \in DOMAIN t
                           /\ s.entry = t[p.to] /\ s.seq = p.to - 1
           Added1(s) == \E j \in Open(t) : s = new[j] /\ s.entry = t[j] /\ s.seq = j - 1
<1>1. ASSUME NEW s \in Live(M) PROVE FromOld(s) \/ Added1(s)
  <2>1. s \in M /\ s.origin # "deleted"
    BY DEF Live
  <2>2. CASE \E j \in Open(t) : s = new[j]
    BY <2>2 DEF Restored
  <2>3. ASSUME NEW r \in Based(rows), ByListed(t, r, s) PROVE FromOld(s)
    <3>1. \E p \in Found(t) : p.row = r /\ p.to \in DOMAIN t /\ s.entry = t[p.to] /\ s.seq = p.to - 1
      BY <2>3, ByListedForm
    <3> QED BY <2>3, <3>1
  <2>4. ASSUME NEW r \in Based(rows), ByLost(t, place, r, s) PROVE FALSE
    <3>1. place[r] \in Nat
      BY <2>4 DEF ByLost, Restored
    <3>2. s.origin = "deleted"
      BY <2>4, <3>1, ByLostForm
    <3> QED BY <2>1, <3>2
  <2> HIDE DEF FromOld, Added1
  <2>5. \/ \E r \in Based(rows) : ByListed(t, r, s) \/ ByLost(t, place, r, s)
        \/ \E j \in Open(t) : s = new[j]
    BY <2>1 DEF Restored
  <2> QED BY <2>2, <2>3, <2>4, <2>5
<1>2. \A s \in Live(M) : \E j \in DOMAIN t : j \in Nat /\ s.entry = t[j] /\ s.seq = j - 1
  <2> TAKE s \in Live(M)
  <2>1. \A j \in DOMAIN t : j \in Nat
    OBVIOUS
  <2> QED BY <1>1, <2>1 DEF Open
<1>3. \A s \in Live(M) : s.seq + 1 \in DOMAIN t /\ t[s.seq + 1] = s.entry
  BY <1>2
<1>4. ASSUME NEW s \in Live(M), NEW z \in Live(M), s.seq = z.seq PROVE s = z
  <2>1. ASSUME NEW j \in DOMAIN t, NEW k \in DOMAIN t, j - 1 = k - 1 PROVE j = k
    BY <2>1
  <2>2. \A j \in Open(t) : j \in DOMAIN t /\ \A p \in Found(t) : p.to # j
    BY DEF Open
  <2>3. ASSUME FromOld(s), FromOld(z) PROVE s = z
    <3>1. PICK p \in Found(t) : ByListed(t, p.row, s) /\ p.to \in DOMAIN t /\ s.seq = p.to - 1
      BY <2>3
    <3>2. PICK q \in Found(t) : ByListed(t, q.row, z) /\ q.to \in DOMAIN t /\ z.seq = q.to - 1
      BY <2>3
    <3>3. p = q
      BY <1>0, <1>4, <2>1, <3>1, <3>2 DEF Pairing
    <3>4. \A x, y \in Found(t) : x.row = p.row /\ y.row = p.row => x = y
      BY <1>0 DEF Pairing
    <3> QED BY <3>1, <3>2, <3>3, <3>4 DEF ByListed
  <2>4. ASSUME Added1(s), Added1(z) PROVE s = z
    BY <1>4, <2>1, <2>2, <2>4
  <2>5. ASSUME FromOld(s), Added1(z) PROVE FALSE
    <3>1. PICK p \in Found(t) : p.to \in DOMAIN t /\ s.seq = p.to - 1
      BY <2>5
    <3>2. PICK j \in Open(t) : z.seq = j - 1
      BY <2>5
    <3>3. p.to = j
      BY ONLY <1>4, <2>1, <2>2, <3>1, <3>2
    <3> QED BY <2>2, <3>3
  <2>6. ASSUME FromOld(z), Added1(s) PROVE FALSE
    <3>1. PICK p \in Found(t) : p.to \in DOMAIN t /\ z.seq = p.to - 1
      BY <2>6
    <3>2. PICK j \in Open(t) : s.seq = j - 1
      BY <2>6
    <3>3. p.to = j
      BY ONLY <1>4, <2>1, <2>2, <3>1, <3>2
    <3> QED BY <2>2, <3>3
  <2> HIDE DEF FromOld, Added1
  <2> QED BY <1>1, <2>3, <2>4, <2>5, <2>6
<1>5. ASSUME NEW j \in DOMAIN t PROVE \E s \in Live(M) : s.seq = j - 1
  <2>1. CASE j \in Open(t)
    <3>1. new[j] \in M /\ new[j].seq = j - 1 /\ new[j].origin = "added"
      BY <2>1 DEF Restored
    <3> QED BY <3>1 DEF Live
  <2>2. CASE \E p \in Found(t) : p.to = j
    <3>1. PICK p \in Found(t) : p.to = j /\ p.row \in Based(rows)
      BY <1>0, <2>2 DEF Pairing
    <3>2. PICK s : s = [p.row EXCEPT !.entry = t[p.to], !.seq = p.to - 1, !.mark = NoMark,
                                     !.origin = IF t[p.to] = p.row.base THEN "original" ELSE "edited"]
      OBVIOUS
    <3>3. ByListed(t, p.row, s)
      BY <3>2 DEF ByListed
    <3>4. s \in M
      BY <3>1, <3>3 DEF Restored
    <3>5. PICK q \in Found(t) : /\ q.row = p.row /\ s.seq = q.to - 1
                                /\ s.origin = IF t[q.to] = p.row.base THEN "original" ELSE "edited"
      BY <3>1, <3>3, ByListedForm
    <3>6. q = p
      BY <1>0, <3>5 DEF Pairing
    <3> QED BY <3>1, <3>4, <3>5, <3>6 DEF Live
  <2> QED BY <2>1, <2>2 DEF Open
<1>6. Lists0(M, t)
  BY <1>3, <1>4, <1>5 DEF Lists0
<1> QED BY <1>0, <1>6, LiveRead

\* Nothing pending if and only if RisuAI holds the entries listed.
LEMMA RestoredCounts ==
  ASSUME Table(rows), NEW t \in Seq(Entries), NEW M, NEW new, NEW place, Restored(t, M, new, place)
  PROVE  (\A r \in M : r.origin = "original") <=>
         (\A e \in Entries : Times(e, M) = Cardinality({r \in M : r.base = e}))
<1>0. Pairing(t) /\ Table(M) /\ IsFiniteSet(M)
  BY FoundForm, RestoredKeeps DEF Table
<1>1. \A r \in Based(rows) : \A s : ByLost(t, place, r, s) => place[r] \in Nat
  BY DEF ByLost, Restored
<1>2. \A r \in Based(rows) : \A s : ByLost(t, place, r, s) => s.base = r.base /\ s.origin = "deleted"
  BY <1>1, ByLostForm
<1>3. \A r \in Based(rows) : \A s : ByListed(t, r, s) =>
        /\ s.base = r.base
        /\ \E p \in Found(t) : /\ p.row = r /\ p.to \in DOMAIN t /\ s.entry = t[p.to]
                               /\ s.origin = IF t[p.to] = r.base THEN "original" ELSE "edited"
  BY ByListedForm
<1>4. ASSUME \A r \in M : r.origin = "original"
      PROVE  \A e \in Entries : Times(e, M) = Cardinality({r \in M : r.base = e})
  <2>1. ASSUME NEW s \in M PROVE s \in Live(M) /\ s.entry = s.base
    <3>1. \/ \E r \in Based(rows) : ByListed(t, r, s) \/ ByLost(t, place, r, s)
          \/ \E j \in Open(t) : s = new[j]
      BY DEF Restored
    <3>2. s.origin = "original"
      BY <1>4
    <3>3. \A j \in Open(t) : s # new[j]
      BY <3>2 DEF Restored
    <3>4. PICK r \in Based(rows) : ByListed(t, r, s)
      BY <1>2, <3>1, <3>2, <3>3
    <3> QED BY <1>3, <3>2, <3>4 DEF Live
  <2> TAKE e \in Entries
  <2>2. {r \in Live(M) : r.entry = e} = {r \in M : r.base = e}
    BY <2>1 DEF Live
  <2> QED BY <2>2 DEF Times
<1>5. ASSUME \A e \in Entries : Times(e, M) = Cardinality({r \in M : r.base = e})
      PROVE  \A r \in M : r.origin = "original"
  <2>1. PICK E \in SUBSET Found(t) :
           /\ \A p \in E : t[p.to] = p.row.base
           /\ \A r \in Based(rows), j \in DOMAIN t :
                (\A p \in E : p.row # r /\ p.to # j) => t[j] # r.base
    BY ExactFound
  <2> DEFINE X(e) == {r \in Live(M) : r.entry = e}
             Y(e) == {r \in M : r.base = e}
  <2>2. ASSUME NEW e \in Entries
        PROVE  /\ (\A r \in X(e) : r \in Y(e)) => X(e) = Y(e)
               /\ (\A r \in Y(e) : r \in X(e)) => X(e) = Y(e)
    <3>1. PICK x : x = X(e)
      OBVIOUS
    <3>2. PICK y : y = Y(e)
      OBVIOUS
    <3>3. Cardinality(x) = Cardinality(y)
      BY <1>5, <3>1, <3>2 DEF Times
    <3>4. IsFiniteSet(x) /\ IsFiniteSet(y)
      <4>1. x \in SUBSET M /\ y \in SUBSET M
        BY <3>1, <3>2 DEF Live
      <4> QED BY <1>0, <4>1, FS_Subset
    <3>5. (\A r \in x : r \in y) => x = y
      <4> SUFFICES ASSUME \A r \in x : r \in y PROVE x = y
        OBVIOUS
      <4>1. x \in SUBSET y
        OBVIOUS
      <4> QED BY ONLY <3>3, <3>4, <4>1, FS_Subset
    <3>6. (\A r \in y : r \in x) => x = y
      <4> SUFFICES ASSUME \A r \in y : r \in x PROVE x = y
        OBVIOUS
      <4>1. y \in SUBSET x
        OBVIOUS
      <4> QED BY ONLY <3>3, <3>4, <4>1, FS_Subset
    <3> HIDE DEF X, Y
    <3> QED BY <3>1, <3>2, <3>5, <3>6
  <2>3. \A p \in E : p \in Found(t)
    OBVIOUS
  <2>4. \A p, q \in Found(t) : p.row = q.row \/ p.to = q.to => p = q
    BY <1>0 DEF Pairing
  <2>5. ASSUME NEW r \in Based(rows) PROVE \E p \in E : p.row = r
    <3> SUFFICES ASSUME \A p \in E : p.row # r PROVE FALSE
      OBVIOUS
    <3>1. PICK e \in Entries : e = r.base
      <4>1. RowSound(r) /\ r.base # NoEntry
        BY DEF Table, Based
      <4> QED BY <4>1, RowParts
    <3>2. \A j \in DOMAIN t : t[j] = e => \E p \in E : p.to = j
      BY <2>1, <3>1
    <3>3. ASSUME NEW s \in X(e) PROVE s \in Y(e)
      <4>1. s \in M /\ s.origin # "deleted" /\ s.entry = e
        BY <3>3 DEF Live
      <4>2. \/ \E q \in Based(rows) : ByListed(t, q, s) \/ ByLost(t, place, q, s)
            \/ \E j \in Open(t) : s = new[j]
        BY <4>1 DEF Restored
      <4>3. \A j \in Open(t) : s # new[j]
        BY <2>3, <3>2, <4>1 DEF Restored, Open
      <4>4. PICK q \in Based(rows) : ByListed(t, q, s)
        BY <1>2, <4>1, <4>2, <4>3
      <4>5. PICK p \in Found(t) : p.row = q /\ p.to \in DOMAIN t /\ s.entry = t[p.to]
        BY <1>3, <4>4
      <4>6. PICK m \in E : m.to = p.to
        BY <3>2, <4>1, <4>5
      <4>7. m = p
        BY <2>3, <2>4, <4>6
      <4>8. s.base = e
        BY <1>3, <2>1, <4>1, <4>4, <4>5, <4>6, <4>7
      <4> QED BY <4>1, <4>8
    <3>4. X(e) = Y(e)
      <4> HIDE DEF X, Y
      <4> QED BY <2>2, <3>3
    <3>5. PICK s \in M : s.base = e /\ (ByListed(t, r, s) \/ ByLost(t, place, r, s))
      <4>1. CASE \E p \in Found(t) : p.row = r
        <5>1. PICK p \in Found(t) : p.row = r
          BY <4>1
        <5>2. PICK s : s = [r EXCEPT !.entry = t[p.to], !.seq = p.to - 1, !.mark = NoMark,
                                     !.origin = IF t[p.to] = r.base THEN "original" ELSE "edited"]
          OBVIOUS
        <5>3. ByListed(t, r, s)
          BY <5>1, <5>2 DEF ByListed
        <5>4. s \in M
          BY <5>3 DEF Restored
        <5> QED BY <1>3, <3>1, <5>3, <5>4
      <4>2. CASE \A p \in Found(t) : p.row # r
        <5>1. PICK s : s = [r EXCEPT !.entry = r.base, !.origin = "deleted", !.mark = NoMark, !.seq = place[r]]
          OBVIOUS
        <5>2. ByLost(t, place, r, s)
          BY <4>2, <5>1 DEF ByLost
        <5>3. s \in M
          BY <5>2 DEF Restored
        <5> QED BY <1>2, <3>1, <5>2, <5>3
      <4> QED BY <4>1, <4>2
    <3>6. s \in X(e)
      <4>1. s \in Y(e)
        BY <3>5
      <4> HIDE DEF X, Y
      <4> QED BY <3>4, <4>1
    <3>7. s.origin # "deleted" /\ s.entry = e
      BY <3>6 DEF Live
    <3>8. ByListed(t, r, s)
      BY <1>2, <3>5, <3>7
    <3>9. PICK p \in Found(t) : p.row = r /\ p.to \in DOMAIN t /\ s.entry = t[p.to]
      BY <1>3, <3>8
    <3>10. PICK m \in E : m.to = p.to
      BY <3>2, <3>7, <3>9
    <3> QED BY <2>3, <2>4, <3>9, <3>10
  <2>6. ASSUME NEW r \in Based(rows), NEW s, ByListed(t, r, s) \/ ByLost(t, place, r, s)
        PROVE  s.origin = "original" /\ s.entry = s.base /\ s.base = r.base
    <3>1. PICK p \in E : p.row = r
      BY <2>5
    <3>2. ByListed(t, r, s)
      BY <2>3, <2>6, <3>1 DEF ByLost
    <3>3. PICK q \in Found(t) : /\ q.row = r /\ s.entry = t[q.to]
                                /\ s.origin = IF t[q.to] = r.base THEN "original" ELSE "edited"
      BY <1>3, <3>2
    <3>4. q = p
      BY <2>3, <2>4, <3>1, <3>3
    <3> QED BY <1>3, <2>1, <3>1, <3>2, <3>3, <3>4
  <2>7. Open(t) = {}
    <3> SUFFICES ASSUME NEW j \in Open(t) PROVE FALSE
      OBVIOUS
    <3>1. PICK e \in Entries : e = t[j]
      BY DEF Open
    <3>2. ASSUME NEW s \in Y(e) PROVE s \in X(e)
      <4>1. s \in M /\ s.base = e /\ e # NoEntry
        BY <3>2, LoreAssumption
      <4>2. \A k \in Open(t) : s # new[k]
        BY <4>1 DEF Restored
      <4>3. PICK r \in Based(rows) : ByListed(t, r, s) \/ ByLost(t, place, r, s)
        BY <4>1, <4>2 DEF Restored
      <4>4. s.origin = "original" /\ s.entry = s.base
        BY <2>6, <4>3
      <4> QED BY <4>1, <4>4 DEF Live
    <3>3. X(e) = Y(e)
      <4> HIDE DEF X, Y
      <4> QED BY <2>2, <3>2
    <3>4. new[j] \in M /\ new[j].entry = e /\ new[j].base = NoEntry /\ new[j].origin = "added"
      BY <3>1 DEF Restored
    <3>5. new[j] \in X(e) /\ new[j] \notin Y(e)
      BY <3>4, LoreAssumption DEF Live
    <3> HIDE DEF X, Y
    <3> QED BY <3>3, <3>5
  <2> QED BY <2>6, <2>7 DEF Restored
<1> QED BY <1>4, <1>5

LEMMA ContentsForm ==
  ASSUME Stored, NEW c \in saved, RestoreContent(c)
  PROVE  /\ LiveList(c) \in Seq(Entries)
         /\ \E new, place : Restored(LiveList(c), rows', new, place)
<1>0. Table(rows) /\ Table(c) /\ Table(Live(c)) /\ \A q \in Live(c) : q \in c
  BY BasedOfTable DEF Stored, Live
<1> DEFINE snap == InOrder(Live(c))
           t == Entered(snap)
           based == InBaseOrder(Based(rows))
           pairs == Match(Bases(based), t)
           lost == Ascending(LeftOf(based, pairs))
           news == Ascending(RightOf(snap, pairs))
           ids == NewIds(Len(news))
           IdFor(n) == IF \E i \in DOMAIN based : based[i].id = snap[news[n]].id THEN ids[n]
                       ELSE snap[news[n]].id
           A == {[based[p.at] EXCEPT !.entry = t[p.to], !.seq = p.to - 1, !.mark = NoMark,
                    !.origin = IF t[p.to] = based[p.at].base THEN "original" ELSE "edited"] : p \in pairs}
           B == {[based[lost[n]] EXCEPT !.entry = based[lost[n]].base, !.origin = "deleted", !.mark = NoMark,
                    !.seq = Len(snap) + n - 1] : n \in DOMAIN lost}
           D == {Fresh(IdFor(n), news[n] - 1, t[news[n]], NoEntry, NoPlace, "added") : n \in DOMAIN news}
<1>1. rows' = A \cup B \cup D
  BY DEF RestoreContent, Contents
<1> HIDE DEF A, B, D
<1>2. t = LiveList(c)
  BY DEF LiveList
<1>3. /\ t \in Seq(Entries) /\ DOMAIN t = DOMAIN snap /\ Len(snap) \in Nat
      /\ \A k \in DOMAIN snap : t[k] = snap[k].entry /\ snap[k] \in Live(c)
      /\ \A k, q \in DOMAIN snap : snap[k] = snap[q] => k = q
  <2>1. Lines(snap, Live(c), BySeq(Live(c)))
    BY <1>0, InOrderLines
  <2> HIDE DEF snap
  <2>2. t \in Seq(Entries) /\ DOMAIN t = DOMAIN snap /\ \A k \in DOMAIN snap : t[k] = snap[k].entry
    BY <1>0, <2>1, RowsListed
  <2>3. /\ Len(snap) \in Nat /\ \A k \in DOMAIN snap : snap[k] \in Live(c)
        /\ \A k, q \in DOMAIN snap : snap[k] = snap[q] => k = q
    BY <2>1 DEF Lines
  <2> HIDE DEF t
  <2> QED BY <2>2, <2>3
<1> HIDE DEF snap, t
<1>4. /\ based = BasedList /\ Bases(based) = Baseline(rows)
      /\ DOMAIN based = DOMAIN Baseline(rows) /\ Len(Baseline(rows)) \in Nat
      /\ DOMAIN based = 1 .. Len(Baseline(rows))
      /\ \A k \in DOMAIN based : based[k] \in Based(rows) /\ based[k] \in rows
      /\ \A r \in Based(rows) : \E k \in DOMAIN based : based[k] = r
      /\ \A k, q \in DOMAIN based : based[k] = based[q] => k = q
  <2>1. based = BasedList
    BY DEF BasedList
  <2> HIDE DEF based
  <2>2. Baseline(rows) \in Seq(Entries) /\ DOMAIN Baseline(rows) = DOMAIN BasedList
    BY <1>0, BasedListed
  <2>3. /\ Baseline(rows) = Bases(BasedList)
        /\ \A k \in DOMAIN BasedList : BasedList[k] \in Based(rows)
        /\ \A r \in Based(rows) : \E k \in DOMAIN BasedList : BasedList[k] = r
        /\ \A k, q \in DOMAIN BasedList : BasedList[k] = BasedList[q] => k = q
    BY <1>0, BasedListed
  <2>4. \A r \in Based(rows) : r \in rows
    BY DEF Based
  <2>5. PICK b \in Seq(Entries) : b = Baseline(rows)
    BY <2>2
  <2>6. Len(b) \in Nat /\ DOMAIN b = 1 .. Len(b)
    OBVIOUS
  <2> QED BY <2>1, <2>2, <2>3, <2>4, <2>5, <2>6
<1> HIDE DEF based
<1>5. /\ pairs = Match(Baseline(rows), t) /\ RightOf(snap, pairs) = Open(t)
      /\ LeftOf(based, pairs) = LeftOf(Baseline(rows), pairs)
  <2>1. pairs = Match(Baseline(rows), t)
    BY <1>4
  <2> HIDE DEF pairs
  <2> QED BY <1>0, <1>3, <1>4, <2>1, FoundForm DEF RightOf, LeftOf
<1> HIDE DEF pairs
<1>6. \A r \in Based(rows) : (\A p \in Found(t) : p.row # r) <=>
        \E k \in LeftOf(based, pairs) : based[k] = r
  BY <1>0, <1>3, <1>4, <1>5, FoundForm
<1>7. \A k \in LeftOf(based, pairs) : k \in DOMAIN based
  BY DEF LeftOf
<1>8. /\ DOMAIN lost = 1 .. Len(lost) /\ Len(lost) \in Nat
      /\ \A n \in DOMAIN lost : lost[n] \in LeftOf(based, pairs)
      /\ \A n, m \in DOMAIN lost : lost[n] = lost[m] => n = m
      /\ \A k \in LeftOf(based, pairs) : \E n \in DOMAIN lost : lost[n] = k
  <2>1. PICK I : I = LeftOf(based, pairs)
    OBVIOUS
  <2>2. PICK z \in Nat : z = Len(Baseline(rows))
    BY <1>4
  <2>3. \A k \in I : k \in 1 .. z
    BY <1>4, <1>7, <2>1, <2>2
  <2>4. PICK asc : asc = Ascending(I)
    OBVIOUS
  <2>5. /\ Cardinality(I) \in Nat /\ asc \in Seq(I) /\ Len(asc) = Cardinality(I)
        /\ DOMAIN asc = 1 .. Cardinality(I)
        /\ \A k \in DOMAIN asc : asc[k] \in I
        /\ \A k, q \in DOMAIN asc : asc[k] = asc[q] => k = q
        /\ \A i \in I : \E k \in DOMAIN asc : asc[k] = i
    BY ONLY <2>3, <2>4, z \in Nat, AscendingProperties
  <2>6. lost = asc
    BY <2>1, <2>4
  <2> HIDE DEF lost
  <2> QED BY <2>1, <2>5, <2>6
<1>9. /\ DOMAIN news = 1 .. Len(news) /\ Len(news) \in Nat
      /\ \A n \in DOMAIN news : news[n] \in Open(t)
      /\ \A n, m \in DOMAIN news : news[n] = news[m] => n = m
      /\ \A j \in Open(t) : \E n \in DOMAIN news : news[n] = j
  <2>1. PICK I : I = Open(t)
    OBVIOUS
  <2>2. PICK z \in Nat : z = Len(t)
    BY <1>3
  <2>3. \A k \in I : k \in 1 .. z
    BY <1>3, <2>1, <2>2 DEF Open
  <2>4. PICK asc : asc = Ascending(I)
    OBVIOUS
  <2>5. /\ Cardinality(I) \in Nat /\ asc \in Seq(I) /\ Len(asc) = Cardinality(I)
        /\ DOMAIN asc = 1 .. Cardinality(I)
        /\ \A k \in DOMAIN asc : asc[k] \in I
        /\ \A k, q \in DOMAIN asc : asc[k] = asc[q] => k = q
        /\ \A i \in I : \E k \in DOMAIN asc : asc[k] = i
    BY ONLY <2>3, <2>4, z \in Nat, AscendingProperties
  <2>6. news = asc
    BY <1>5, <2>1, <2>4
  <2> HIDE DEF news
  <2> QED BY <2>1, <2>5, <2>6
<1> HIDE DEF lost, news
<1>10. /\ \A n \in DOMAIN news : ids[n] \in Nat /\ ids[n] \notin TakenIds
       /\ \A n, m \in DOMAIN news : ids[n] = ids[m] => n = m
  <2>1. PICK z \in Nat : z = Len(news)
    BY <1>9
  <2>2. /\ \A k \in 1 .. z : NewIds(z)[k] \in Nat /\ NewIds(z)[k] \notin TakenIds
        /\ \A k, q \in 1 .. z : NewIds(z)[k] = NewIds(z)[q] => k = q
    BY NewIdsAreNew
  <2> QED BY <1>9, <2>1, <2>2
<1> HIDE DEF ids
<1>11. /\ \A r \in rows : r.id \in TakenIds /\ r.id \in Nat
       /\ \A q \in c : q.id \in TakenIds /\ q.id \in Nat
  <2>1. /\ \A r \in rows : r.id \in TakenIds
        /\ \A q \in c : q.id \in TakenIds
    BY DEF TakenIds, Ids
  <2> QED BY <1>0, <2>1, RowParts DEF Table
<1>12. \A n \in DOMAIN news : /\ snap[news[n]] \in c /\ snap[news[n]].id \in TakenIds
                              /\ snap[news[n]].id \in Nat
  BY <1>0, <1>3, <1>9, <1>11 DEF Open
<1>13. ASSUME NEW n \in DOMAIN news
       PROVE  IdFor(n) \in Nat /\ \A r \in Based(rows) : IdFor(n) # r.id
  <2>1. CASE \E i \in DOMAIN based : based[i].id = snap[news[n]].id
    <3>1. IdFor(n) = ids[n]
      BY <2>1
    <3>2. \A r \in Based(rows) : r.id \in TakenIds
      BY <1>11 DEF Based
    <3> QED BY <1>10, <3>1, <3>2
  <2>2. CASE ~ \E i \in DOMAIN based : based[i].id = snap[news[n]].id
    <3>1. IdFor(n) = snap[news[n]].id
      BY <2>2
    <3>2. \A r \in Based(rows) : r.id # snap[news[n]].id
      BY <1>4, <2>2
    <3> QED BY <1>12, <3>1, <3>2
  <2> QED BY <2>1, <2>2
<1>14. ASSUME NEW n \in DOMAIN news, NEW m \in DOMAIN news, IdFor(n) = IdFor(m) PROVE n = m
  <2>1. (IdFor(n) = ids[n] \/ IdFor(n) = snap[news[n]].id) /\ (IdFor(m) = ids[m] \/ IdFor(m) = snap[news[m]].id)
    OBVIOUS
  <2>2. snap[news[n]].id = snap[news[m]].id => n = m
    <3> SUFFICES ASSUME snap[news[n]].id = snap[news[m]].id PROVE n = m
      OBVIOUS
    <3>1. snap[news[n]] = snap[news[m]]
      BY <1>0, <1>12 DEF Table
    <3>2. news[n] = news[m]
      BY <1>3, <1>9, <3>1 DEF Open
    <3> QED BY <1>9, <3>2
  <2> HIDE DEF IdFor
  <2> QED BY <1>10, <1>12, <1>14, <2>1, <2>2
<1> HIDE DEF IdFor
<1> DEFINE at(j) == CHOOSE n \in DOMAIN news : news[n] = j
           new == [j \in Open(t) |-> Fresh(IdFor(at(j)), j - 1, t[j], NoEntry, NoPlace, "added")]
           ln(r) == CHOOSE n \in DOMAIN lost : based[lost[n]] = r
           place == [r \in Based(rows) |-> Len(snap) + ln(r) - 1]
<1>15. ASSUME NEW j \in Open(t)
       PROVE  /\ at(j) \in DOMAIN news /\ news[at(j)] = j
              /\ new[j] = Fresh(IdFor(at(j)), j - 1, t[j], NoEntry, NoPlace, "added")
              /\ RowSound(new[j]) /\ new[j].id = IdFor(at(j))
              /\ new[j].seq = j - 1 /\ new[j].entry = t[j] /\ new[j].base = NoEntry
              /\ new[j].origin = "added"
  <2>1. at(j) \in DOMAIN news /\ news[at(j)] = j
    BY <1>9
  <2>2. PICK id \in Nat : id = IdFor(at(j))
    BY <1>13, <2>1
  <2>3. j \in DOMAIN t
    BY DEF Open
  <2>4. PICK e \in Entries : e = t[j]
    BY <1>3, <2>3
  <2>5. j \in Nat /\ j >= 1
    BY <1>3, <2>3
  <2>6. PICK seq \in Nat : seq = j - 1
    BY <2>5
  <2>7. new[j] = Fresh(id, seq, e, NoEntry, NoPlace, "added")
    BY <2>2, <2>4, <2>6
  <2>8. RowSound(Fresh(id, seq, e, NoEntry, NoPlace, "added"))
    BY <2>5, FreshForm
  <2> HIDE DEF new, at
  <2>9. /\ RowSound(new[j]) /\ new[j].id = id /\ new[j].seq = seq /\ new[j].entry = e
        /\ new[j].base = NoEntry /\ new[j].origin = "added"
    BY ONLY <2>7, <2>8 DEF Fresh
  <2> QED BY <2>1, <2>2, <2>4, <2>6, <2>7, <2>9
<1> HIDE DEF at, new
<1>16. \A j, k \in Open(t) : new[j].id = new[k].id => j = k
  <2> SUFFICES ASSUME NEW j \in Open(t), NEW k \in Open(t), new[j].id = new[k].id PROVE j = k
    OBVIOUS
  <2>1. at(j) = at(k)
    BY <1>14, <1>15
  <2> QED BY <1>15, <2>1
<1>17. ASSUME NEW n \in DOMAIN lost
       PROVE  /\ based[lost[n]] \in Based(rows) /\ ln(based[lost[n]]) = n
              /\ place[based[lost[n]]] = Len(snap) + n - 1
  <2>1. based[lost[n]] \in Based(rows) /\ \A m \in DOMAIN lost : based[lost[m]] = based[lost[n]] => m = n
    BY <1>4, <1>7, <1>8
  <2>2. ln(based[lost[n]]) = n
    BY <2>1
  <2> HIDE DEF ln
  <2> QED BY <2>1, <2>2
<1> HIDE DEF place, ln
<1>18. \A r \in Based(rows) : (\A p \in Found(t) : p.row # r) <=> \E n \in DOMAIN lost : based[lost[n]] = r
  BY <1>6, <1>8
<1>19. \A r \in Based(rows) : (\A p \in Found(t) : p.row # r) => place[r] \in Nat
  <2> SUFFICES ASSUME NEW n \in DOMAIN lost PROVE place[based[lost[n]]] \in Nat
    BY <1>18
  <2>1. n \in Nat /\ n >= 1
    BY <1>8
  <2> QED BY <1>3, <1>17, <2>1
<1>20. \A s : s \in A <=> \E r \in Based(rows) : ByListed(t, r, s)
  <2> TAKE s
  <2> DEFINE like(r, j) == [r EXCEPT !.entry = t[j], !.seq = j - 1, !.mark = NoMark,
                                     !.origin = IF t[j] = r.base THEN "original" ELSE "edited"]
  <2>1. s \in A <=> \E p \in pairs : s = like(based[p.at], p.to)
    BY DEF A
  <2>2. \A r : ByListed(t, r, s) <=> \E p \in Found(t) : p.row = r /\ s = like(r, p.to)
    BY DEF ByListed
  <2> HIDE DEF like
  <2>3. ASSUME NEW p \in pairs, s = like(based[p.at], p.to)
        PROVE  \E r \in Based(rows) : ByListed(t, r, s)
    <3>0. [row |-> based[p.at], to |-> p.to, tier |-> p.tier] \in Found(t)
      BY <1>4, <1>5 DEF Found
    <3>1. PICK q \in Found(t) : q.row = based[p.at] /\ q.to = p.to
      BY <3>0
    <3>2. q.row \in Based(rows)
      BY <1>0, <1>3, <3>1, FoundForm DEF Pairing
    <3> QED BY <2>2, <2>3, <3>1, <3>2
  <2>4. ASSUME NEW r \in Based(rows), ByListed(t, r, s)
        PROVE  \E p \in pairs : s = like(based[p.at], p.to)
    <3>1. PICK q \in Found(t) : q.row = r /\ s = like(r, q.to)
      BY <2>2, <2>4
    <3>2. PICK p \in pairs : q = [row |-> based[p.at], to |-> p.to, tier |-> p.tier]
      BY <1>4, <1>5, <3>1 DEF Found
    <3>3. q.row = based[p.at] /\ q.to = p.to
      BY <3>2
    <3> QED BY <3>1, <3>3
  <2> QED BY <2>1, <2>3, <2>4
<1>21. \A s : s \in B <=> \E r \in Based(rows) : ByLost(t, place, r, s)
  <2> TAKE s
  <2> DEFINE gone(r, seq) == [r EXCEPT !.entry = r.base, !.origin = "deleted", !.mark = NoMark, !.seq = seq]
  <2>1. s \in B <=> \E n \in DOMAIN lost : s = gone(based[lost[n]], Len(snap) + n - 1)
    BY DEF B
  <2>2. \A r : ByLost(t, place, r, s) <=> (\A p \in Found(t) : p.row # r) /\ s = gone(r, place[r])
    BY DEF ByLost
  <2> HIDE DEF gone
  <2>3. ASSUME NEW n \in DOMAIN lost, s = gone(based[lost[n]], Len(snap) + n - 1)
        PROVE  \E r \in Based(rows) : ByLost(t, place, r, s)
    BY <1>17, <1>18, <2>2, <2>3
  <2>4. ASSUME NEW r \in Based(rows), ByLost(t, place, r, s)
        PROVE  \E n \in DOMAIN lost : s = gone(based[lost[n]], Len(snap) + n - 1)
    BY <1>17, <1>18, <2>2, <2>4
  <2> QED BY <2>1, <2>3, <2>4
<1>22. \A s : s \in D <=> \E j \in Open(t) : s = new[j]
  <2> TAKE s
  <2>1. s \in D <=> \E n \in DOMAIN news : s = Fresh(IdFor(n), news[n] - 1, t[news[n]], NoEntry, NoPlace, "added")
    BY DEF D
  <2>2. \A n \in DOMAIN news : /\ news[n] \in Open(t) /\ at(news[n]) = n
                               /\ new[news[n]] = Fresh(IdFor(n), news[n] - 1, t[news[n]], NoEntry, NoPlace, "added")
    BY <1>9, <1>15
  <2>3. \A j \in Open(t) : \E n \in DOMAIN news : news[n] = j
    BY <1>9
  <2> QED BY <2>1, <2>2, <2>3
<1>23. \A s : s \in rows' <=> s \in A \/ s \in B \/ s \in D
  BY <1>1
<1>24. \A s : s \in rows' <=> \/ \E r \in Based(rows) : ByListed(t, r, s) \/ ByLost(t, place, r, s)
                              \/ \E j \in Open(t) : s = new[j]
  BY <1>20, <1>21, <1>22, <1>23, Zenon
<1>25. \A j \in Open(t) : \A r \in Based(rows) : new[j].id # r.id
  BY <1>13, <1>15
<1>26. Restored(t, rows', new, place)
  BY <1>15, <1>16, <1>19, <1>24, <1>25 DEF Restored
<1> QED BY <1>2, <1>3, <1>26

-----------------------------------------------------------------------------
(* The invariant.  A bot's rows with an original have one that RisuAI's    *)
(* last list shows, at a place of it: its restores leave the originals as  *)
(* they are, a chat's bring the ones of old back.                          *)

Seen(S, list) ==
  scope = "global" => \A r \in S : r.base # NoEntry => /\ \E i \in DOMAIN list : list[i] = r.base
                                                       /\ r.bseq # NoPlace
LoreInv ==
  /\ scope \in {"local", "global"}
  /\ Stored
  /\ shown \in Seq(Entries)
  /\ ops \in [Counters -> Nat]
  /\ Seen(rows, shown)

LEMMA LoreInvTyped == LoreInv => LoreTypeOK
<1> SUFFICES ASSUME LoreInv PROVE LoreTypeOK
  OBVIOUS
<1>1. Table(rows) /\ \A c \in saved : Table(c)
  BY DEF LoreInv, Stored
<1>2. \A S : Table(S) => /\ S \subseteq RowRecords
                         /\ \A r \in S : r.base = NoEntry <=> r.origin = "added"
                         /\ \A r, s \in S : r.id = s.id => r = s
  BY DEF Table, RowSound
<1> QED BY <1>1, <1>2 DEF LoreTypeOK, LoreInv

LEMMA LoreInvInit == LoreInit => LoreInv
<1> SUFFICES ASSUME LoreInit PROVE LoreInv
  OBVIOUS
<1>1. IsFiniteSet({})
  BY FS_EmptySet
<1>2. rows = {} /\ saved = {} /\ shown = <<>>
  BY DEF LoreInit
<1>3. Stored /\ Seen(rows, shown)
  BY <1>1, <1>2 DEF Stored, Table, Seen
<1>4. ops \in [Counters -> Nat]
  BY DEF LoreInit
<1> QED BY <1>2, <1>3, <1>4 DEF LoreInv, LoreInit

LEMMA TickForm ==
  ASSUME ops \in [Counters -> Nat], NEW c \in Counters, Tick(c)
  PROVE  /\ ops' \in [Counters -> Nat] /\ ops'[c] # ops[c]
         /\ \A d \in Counters : d # c => ops'[d] = ops[d]
<1>1. ops' = [ops EXCEPT ![c] = ops[c] + 1] /\ ops[c] \in Nat
  BY DEF Tick
<1>2. ops'[c] = ops[c] + 1 /\ \A d \in Counters : d # c => ops'[d] = ops[d]
  BY <1>1
<1>3. ops[c] + 1 # ops[c] /\ ops[c] + 1 \in Nat
  BY <1>1
<1> QED BY <1>1, <1>2, <1>3

\* What an edit, a move, a decision or a reset does.
Edits ==
  /\ Tick("edit") /\ UNCHANGED <<scope, shown, saved>>
  /\ Table(rows') /\ Originals(rows, rows')
  /\ SameOriginals(rows, rows') \/ Decided(rows, rows')

LEMMA LoreSteps ==
  ASSUME LoreInv, LoreNext
  PROVE  \/ \E t \in Seq(Entries) : Reopen(t) \/ Reload(t)
         \/ Edits
         \/ Save \/ SaveBaseline
         \/ \E c \in saved : RestoreRows(c) \/ RestoreContent(c)
<1>0. Stored
  BY DEF LoreInv
<1>1. ASSUME NEW t \in Lists PROVE t \in Seq(Entries)
  <2>1. PICK m \in 0 .. MaxEntries : t \in [1 .. m -> Entries]
    BY DEF Lists, BoundedSeq, SeqOf
  <2>2. m \in Nat
    BY <2>1, LoreAssumption
  <2> QED BY <2>1, <2>2
<1>2. ASSUME NEW r \in rows, NEW e \in Entries, UpdateLore(r, e) PROVE Edits
  <2>1. Table(rows') /\ SameOriginals(rows, rows')
    BY <1>0, <1>2, UpdateKeeps
  <2> QED BY <1>2, <2>1 DEF Edits, UpdateLore, SameOriginals
<1>3. ASSUME NEW e \in Entries, AddLore(e) PROVE Edits
  <2>1. Table(rows') /\ SameOriginals(rows, rows')
    BY <1>0, <1>3, AddKeeps
  <2> QED BY <1>3, <2>1 DEF Edits, AddLore, SameOriginals
<1>4. ASSUME NEW r \in rows, DeleteLore(r) PROVE Edits
  <2>1. Table(rows') /\ SameOriginals(rows, rows')
    BY <1>0, <1>4, DeleteKeeps
  <2> QED BY <1>4, <2>1 DEF Edits, DeleteLore, SameOriginals
<1>5. ASSUME NEW r \in rows, Resolve(r) PROVE Edits
  <2>1. /\ Table(rows') /\ Originals(rows, rows')
        /\ SameOriginals(rows, rows') \/ Decided(rows, rows')
    BY <1>0, <1>5, ResolveKeeps
  <2> QED BY <1>5, <2>1 DEF Edits, Resolve
<1>6. ASSUME NEW r \in rows, NEW to \in 1 .. Cardinality(Live(rows)), MoveLore(r, to) PROVE Edits
  <2>1. Table(rows') /\ SameOriginals(rows, rows')
    BY <1>0, <1>6, MoveKeeps
  <2> QED BY <1>6, <2>1 DEF Edits, MoveLore, SameOriginals
<1>7. ASSUME Reset PROVE Edits
  <2>1. Table(rows') /\ SameOriginals(rows, rows')
    BY <1>0, <1>7, ResetKeeps
  <2> QED BY <1>7, <2>1 DEF Edits, Reset, SameOriginals
<1> QED BY <1>1, <1>2, <1>3, <1>4, <1>5, <1>6, <1>7, Zenon DEF LoreNext

\* Rows that stand over a list have originals the list shows, at its places.
LEMMA StandsSeen ==
  ASSUME NEW M, Table(M), NEW t \in Seq(Entries), Stands(M, t)
  PROVE  \A r \in M : r.base # NoEntry => (\E i \in DOMAIN t : t[i] = r.base) /\ r.bseq # NoPlace
<1>1. Based(M) = {r \in M : r.base # NoEntry}
  BY BasedOfTable
<1>2. \A i \in DOMAIN t : i # NoPlace
  BY DEF NoPlace
<1> QED BY <1>1, <1>2 DEF Stands

LEMMA OriginalsSeen ==
  ASSUME NEW M, Originals(rows, M), Seen(rows, shown)
  PROVE  scope = "global" => \A r \in M : r.base # NoEntry =>
           (\E i \in DOMAIN shown : shown[i] = r.base) /\ r.bseq # NoPlace
<1> SUFFICES ASSUME scope = "global", NEW s \in M, s.base # NoEntry
             PROVE  (\E i \in DOMAIN shown : shown[i] = s.base) /\ s.bseq # NoPlace
  OBVIOUS
<1>1. PICK r \in rows : r.base = s.base /\ r.bseq = s.bseq
  BY DEF Originals
<1> QED BY <1>1 DEF Seen

LEMMA LoreInvStep == LoreInv /\ [LoreNext]_loreVars => LoreInv'
<1> SUFFICES ASSUME LoreInv, [LoreNext]_loreVars PROVE LoreInv'
  OBVIOUS
<1>0. /\ scope \in {"local", "global"} /\ Stored /\ Table(rows) /\ shown \in Seq(Entries)
      /\ ops \in [Counters -> Nat] /\ Seen(rows, shown)
      /\ {"upload", "load", "edit", "save"} \subseteq Counters
  BY DEF LoreInv, Stored, Counters
<1>1. CASE UNCHANGED loreVars
  BY <1>0, <1>1 DEF LoreInv, loreVars, Stored, Table, RowSound, Seen
<1>2. ASSUME NEW t \in Seq(Entries), Reopen(t) PROVE LoreInv'
  <2>1. PICK new : Reopened(t, Merged(t), new)
    BY <1>0, MergedForm DEF Reopened
  <2>2. Table(Merged(t)) /\ Stands(Merged(t), t)
    BY <1>0, <2>1, ReopenedTable, ReopenedStands
  <2>3. rows' = Merged(t) /\ shown' = t /\ scope' = scope /\ saved' = saved /\ Tick("upload")
    BY <1>2 DEF Reopen
  <2>4. \A r \in rows' : r.base # NoEntry => (\E i \in DOMAIN shown' : shown'[i] = r.base) /\ r.bseq # NoPlace
    BY <2>2, <2>3, StandsSeen
  <2>5. ops' \in [Counters -> Nat]
    BY <1>0, <2>3, TickForm
  <2> QED BY <1>0, <2>2, <2>3, <2>4, <2>5 DEF LoreInv, Stored, Seen
<1>3. ASSUME NEW t \in Seq(Entries), Reload(t) PROVE LoreInv'
  <2>1. Table(Loaded(t)) /\ Stands(Loaded(t), t)
    BY <1>0, LoadedStands
  <2>2. rows' = Loaded(t) /\ shown' = t /\ scope' = scope /\ saved' = saved /\ Tick("load")
    BY <1>3 DEF Reload
  <2>3. \A r \in rows' : r.base # NoEntry => (\E i \in DOMAIN shown' : shown'[i] = r.base) /\ r.bseq # NoPlace
    BY <2>1, <2>2, StandsSeen
  <2>4. ops' \in [Counters -> Nat]
    BY <1>0, <2>2, TickForm
  <2> QED BY <1>0, <2>1, <2>2, <2>3, <2>4 DEF LoreInv, Stored, Seen
<1>4. CASE Edits
  <2>1. ops' \in [Counters -> Nat]
    BY <1>0, <1>4, TickForm DEF Edits
  <2>2. scope' = scope /\ shown' = shown /\ saved' = saved /\ Table(rows') /\ Originals(rows, rows')
    BY <1>4 DEF Edits
  <2>3. Seen(rows, shown)'
    BY <1>0, <2>2, OriginalsSeen DEF Seen
  <2> QED BY <1>0, <2>1, <2>2, <2>3 DEF LoreInv, Stored
<1>5. CASE Save \/ SaveBaseline
  <2>1. rows' = rows /\ Stored'
    BY <1>0, <1>5, SaveKeeps
  <2>2. scope' = scope /\ shown' = shown /\ Tick("save")
    BY <1>5 DEF Save, SaveBaseline
  <2>3. ops' \in [Counters -> Nat]
    BY <1>0, <2>2, TickForm
  <2> QED BY <1>0, <2>1, <2>2, <2>3 DEF LoreInv, Seen
<1>6. ASSUME NEW c \in saved, RestoreRows(c) PROVE LoreInv'
  <2>1. Table(rows')
    BY <1>0, <1>6, RestoredRows
  <2>2. scope = "local" /\ scope' = scope /\ shown' = shown /\ saved' = saved /\ Tick("save")
    BY <1>6 DEF RestoreRows
  <2>3. ops' \in [Counters -> Nat]
    BY <1>0, <2>2, TickForm
  <2> QED BY <1>0, <2>1, <2>2, <2>3 DEF LoreInv, Stored, Seen
<1>7. ASSUME NEW c \in saved, RestoreContent(c) PROVE LoreInv'
  <2>1. PICK new, place : Restored(LiveList(c), rows', new, place)
    BY <1>0, <1>7, ContentsForm
  <2>2. LiveList(c) \in Seq(Entries)
    BY <1>0, <1>7, ContentsForm
  <2>3. PICK M : M = rows'
    OBVIOUS
  <2>4. Table(M) /\ SameOriginals(rows, M)
    BY <1>0, <2>1, <2>2, <2>3, RestoredKeeps
  <2>5. scope' = scope /\ shown' = shown /\ saved' = saved /\ Tick("save")
    BY <1>7 DEF RestoreContent
  <2>6. ops' \in [Counters -> Nat]
    BY <1>0, <2>5, TickForm
  <2>7. Seen(rows, shown)'
    BY <1>0, <2>3, <2>4, <2>5, OriginalsSeen DEF Seen, SameOriginals
  <2> QED BY <1>0, <2>3, <2>4, <2>5, <2>6, <2>7 DEF LoreInv, Stored
<1>8. CASE LoreNext
  BY <1>2, <1>3, <1>4, <1>5, <1>6, <1>7, <1>8, LoreSteps
<1> QED BY <1>1, <1>8

\* The rows of a lorebook and of its checkpoints stay rows of their type, each
\* with an id of its own, and an original unless it was added here.
THEOREM LoreStaysTyped == LoreSpec => []LoreTypeOK
<1>1. LoreInit => LoreInv
  BY LoreInvInit
<1>2. LoreInv /\ [LoreNext]_loreVars => LoreInv'
  BY LoreInvStep
<1>3. LoreInv => LoreTypeOK
  BY LoreInvTyped
<1> QED BY <1>1, <1>2, <1>3, PTL DEF LoreSpec

-----------------------------------------------------------------------------
(* A restore and the host's guard.                                         *)

\* Only an operation that its counter counts is one.
LEMMA OneCount ==
  ASSUME ops \in [Counters -> Nat]
  PROVE  /\ Tick("edit") => ~ Uploading /\ ~ Restoring
         /\ Tick("save") => ~ Uploading /\ ops'["save"] # ops["save"] /\ ~ Merging
         /\ Tick("upload") => Uploading /\ Merging /\ ~ Restoring
         /\ Tick("load") => Uploading /\ ~ Merging /\ ~ Restoring
<1>1. {"upload", "load", "edit", "save"} \subseteq Counters
  BY DEF Counters
<1>2. \A c \in Counters : Tick(c) => ops'[c] # ops[c] /\ \A d \in Counters : d # c => ops'[d] = ops[d]
  BY TickForm
<1> QED BY <1>1, <1>2 DEF Uploading, Merging, Restoring

\* A restore lists exactly what the checkpoint listed; with a card's, nothing
\* is pending if and only if RisuAI holds these entries, each as often
\* (store.restore_lore_rows, restore_lore_content_global).
THEOREM RestoresAreTrue == LoreSpec => RestoreIsTrue
<1>1. LoreInit => LoreInv
  BY LoreInvInit
<1>2. LoreInv /\ [LoreNext]_loreVars => LoreInv'
  BY LoreInvStep
<1>3. ASSUME LoreInv, LoreNext, Restoring
      PROVE  /\ \E c \in saved : LiveList(rows') = LiveList(c)
             /\ scope = "global" =>
                  ((\A r \in rows' : r.origin = "original") <=>
                   (\A e \in Entries : Times(e, rows') = Cardinality({r \in rows' : r.base = e})))
  <2>0. Stored /\ Table(rows) /\ ops \in [Counters -> Nat]
    BY <1>3 DEF LoreInv, Stored
  <2>1. ~ Tick("edit") /\ ~ Tick("upload") /\ ~ Tick("load") /\ rows' # rows
    BY <1>3, <2>0, OneCount DEF Restoring
  <2>2. ~ (\E t \in Seq(Entries) : Reopen(t) \/ Reload(t)) /\ ~ Edits
    BY <2>1 DEF Reopen, Reload, Edits
  <2>3. ~ (Save \/ SaveBaseline)
    BY <2>0, <2>1, SaveKeeps
  <2>4. PICK c \in saved : RestoreRows(c) \/ RestoreContent(c)
    BY <1>3, <2>2, <2>3, LoreSteps
  <2>5. CASE RestoreRows(c)
    <3>1. LiveList(rows') = LiveList(c)
      BY <2>0, <2>5, RestoredRows
    <3>2. scope = "local"
      BY <2>5 DEF RestoreRows
    <3> QED BY <3>1, <3>2
  <2>6. CASE RestoreContent(c)
    <3>1. PICK new, place : Restored(LiveList(c), rows', new, place)
      BY <2>0, <2>6, ContentsForm
    <3>2. LiveList(c) \in Seq(Entries)
      BY <2>0, <2>6, ContentsForm
    <3>3. PICK M : M = rows'
      OBVIOUS
    <3>4. LiveList(M) = LiveList(c)
      BY <2>0, <3>1, <3>2, <3>3, RestoredReads
    <3>5. (\A r \in M : r.origin = "original") <=>
            (\A e \in Entries : Times(e, M) = Cardinality({r \in M : r.base = e}))
      BY <2>0, <3>1, <3>2, <3>3, RestoredCounts
    <3> QED BY <3>3, <3>4, <3>5
  <2> QED BY <2>4, <2>5, <2>6
<1>4. LoreInv /\ [LoreNext]_loreVars =>
        [Restoring => \E c \in saved : LiveList(rows') = LiveList(c)]_loreVars
  BY <1>3
<1>5. LoreInv /\ [LoreNext]_loreVars =>
        [Restoring /\ scope = "global" =>
           ((\A r \in rows' : r.origin = "original") <=>
            (\A e \in Entries : Times(e, rows') = Cardinality({r \in rows' : r.base = e})))]_loreVars
  BY <1>3
<1> QED BY <1>1, <1>2, <1>4, <1>5, PTL DEF LoreSpec, RestoreIsTrue, RestoreBringsBack, RestoreCounts

\* Where an edit or a restore keeps the originals, it keeps the baseline, or
\* there are rows of a chat's restore, which have no places.
LEMMA BaselineOrNoPlace ==
  ASSUME LoreInv, NEW M, Table(M), SameOriginals(rows, M)
  PROVE  \/ Baseline(M) = Baseline(rows)
         \/ scope = "local" /\ \E r \in rows : r.base # NoEntry /\ r.bseq = NoPlace
<1>1. CASE \A r \in rows : r.base # NoEntry => r.bseq # NoPlace
  <2>1. Table(rows)
    BY DEF LoreInv, Stored
  <2> QED BY <1>1, <2>1, BaselineStays
<1>2. ASSUME NEW r \in rows, r.base # NoEntry, r.bseq = NoPlace PROVE scope = "local"
  BY <1>2 DEF LoreInv, Seen
<1> QED BY <1>1, <1>2

\* After every upload the baseline is the list the upload brought, in its
\* order, and nothing but a chat's restore or a decision on a dropped entry
\* moves it: the host's comparison with `before` can pass (store._merge_lore,
\* conflicts.resolve, snapshots.py).
THEOREM GuardStaysPassable == LoreSpec => GuardCanPass
<1>1. LoreInit => LoreInv
  BY LoreInvInit
<1>2. LoreInv /\ [LoreNext]_loreVars => LoreInv'
  BY LoreInvStep
<1> DEFINE Kept == \/ Baseline(rows') = Baseline(rows)
                   \/ scope = "local" /\ (Restoring \/ \E r \in rows : r.base # NoEntry /\ r.bseq = NoPlace)
                   \/ \E r \in rows \ rows' : r.mark.kind = "deleted-upstream" /\ r.base # NoEntry
           Guard == IF Uploading THEN Baseline(rows') = shown' ELSE Kept
<1>3. ASSUME LoreInv, LoreNext PROVE Guard
  <2>0. Stored /\ Table(rows) /\ ops \in [Counters -> Nat]
    BY <1>3 DEF LoreInv, Stored
  <2>1. ASSUME NEW t \in Seq(Entries), Reopen(t) PROVE Guard
    <3>1. PICK new : Reopened(t, Merged(t), new)
      BY <2>0, MergedForm DEF Reopened
    <3>2. Table(Merged(t)) /\ Stands(Merged(t), t)
      BY <2>0, <3>1, ReopenedTable, ReopenedStands
    <3>3. Baseline(Merged(t)) = t
      BY <3>2, BasesRead
    <3>4. rows' = Merged(t) /\ shown' = t /\ Tick("upload")
      BY <2>1 DEF Reopen
    <3> QED BY <2>0, <3>3, <3>4, OneCount
  <2>2. ASSUME NEW t \in Seq(Entries), Reload(t) PROVE Guard
    <3>1. Table(Loaded(t)) /\ Stands(Loaded(t), t)
      BY <2>0, LoadedStands
    <3>2. Baseline(Loaded(t)) = t
      BY <3>1, BasesRead
    <3>3. rows' = Loaded(t) /\ shown' = t /\ Tick("load")
      BY <2>2 DEF Reload
    <3> QED BY <2>0, <3>2, <3>3, OneCount
  <2>3. CASE Edits
    <3>1. ~ Uploading
      BY <2>0, <2>3, OneCount DEF Edits
    <3>2. CASE Decided(rows, rows')
      BY <3>1, <3>2 DEF Decided
    <3>3. CASE SameOriginals(rows, rows')
      <4>1. PICK M : M = rows' /\ Table(M) /\ SameOriginals(rows, M)
        BY <2>3, <3>3 DEF Edits
      <4>2. \/ Baseline(M) = Baseline(rows)
            \/ scope = "local" /\ \E r \in rows : r.base # NoEntry /\ r.bseq = NoPlace
        BY <1>3, <4>1, BaselineOrNoPlace
      <4> QED BY <3>1, <4>1, <4>2
    <3> QED BY <2>3, <3>2, <3>3 DEF Edits
  <2>4. CASE Save \/ SaveBaseline
    <3>1. rows' = rows /\ Tick("save")
      BY <2>0, <2>4, SaveKeeps DEF Save, SaveBaseline
    <3> QED BY <2>0, <3>1, OneCount
  <2>5. ASSUME NEW c \in saved, RestoreRows(c) PROVE Guard
    <3>1. scope = "local" /\ Tick("save")
      BY <2>5 DEF RestoreRows
    <3>2. ~ Uploading /\ ops'["save"] # ops["save"]
      BY <2>0, <3>1, OneCount
    <3>3. Restoring \/ rows' = rows
      BY <3>2 DEF Restoring
    <3> QED BY <3>1, <3>2, <3>3
  <2>6. ASSUME NEW c \in saved, RestoreContent(c) PROVE Guard
    <3>1. PICK new, place : Restored(LiveList(c), rows', new, place)
      BY <2>0, <2>6, ContentsForm
    <3>2. LiveList(c) \in Seq(Entries)
      BY <2>0, <2>6, ContentsForm
    <3>3. PICK M : M = rows'
      OBVIOUS
    <3>4. Table(M) /\ SameOriginals(rows, M)
      BY <2>0, <3>1, <3>2, <3>3, RestoredKeeps
    <3>5. \/ Baseline(M) = Baseline(rows)
          \/ scope = "local" /\ \E r \in rows : r.base # NoEntry /\ r.bseq = NoPlace
      BY <1>3, <3>4, BaselineOrNoPlace
    <3>6. ~ Uploading
      BY <2>0, <2>6, OneCount DEF RestoreContent
    <3> QED BY <3>3, <3>5, <3>6
  <2> HIDE DEF Guard
  <2> QED BY <1>3, <2>1, <2>2, <2>3, <2>4, <2>5, <2>6, LoreSteps
<1>4. LoreInv /\ [LoreNext]_loreVars =>
        [IF Uploading THEN Baseline(rows') = shown'
         ELSE \/ Baseline(rows') = Baseline(rows)
              \/ scope = "local" /\ (Restoring \/ \E r \in rows : r.base # NoEntry /\ r.bseq = NoPlace)
              \/ \E r \in rows \ rows' : r.mark.kind = "deleted-upstream" /\ r.base # NoEntry]_loreVars
  BY <1>3
<1> QED BY <1>1, <1>2, <1>4, PTL DEF LoreSpec, GuardCanPass

-----------------------------------------------------------------------------
(* A careful merge.                                                        *)

\* Every row listed here has a row made of it.
LEMMA LiveMade ==
  ASSUME Stored, NEW t \in Seq(Entries), NEW M, NEW new, Reopened(t, M, new), NEW r \in Live(rows)
  PROVE  \E s \in M : Makes(t, r, s)
<1>0. Table(rows) /\ r \in rows /\ r.origin # "deleted"
  BY DEF Stored, Live
<1>1. Based(rows) = {q \in rows : q.base # NoEntry}
  BY <1>0, BasedOfTable
<1>2. \E s : Makes(t, r, s)
  <2>1. CASE r.base = NoEntry
    BY <1>0, <2>1 DEF Makes, ByFold, Added
  <2>2. ASSUME NEW p \in Found(t), p.row = r PROVE \E s : Makes(t, r, s)
    BY <2>2 DEF Makes, ByPair
  <2>3. CASE r.base # NoEntry /\ \A p \in Found(t) : p.row # r
    <3>1. \E s : s \in Gone(r)
      BY <1>0 DEF Gone
    <3>2. r \in Based(rows)
      BY <1>0, <1>1, <2>3
    <3> QED BY <2>3, <3>1, <3>2 DEF Makes, ByGone
  <2> QED BY <2>1, <2>2, <2>3
<1>3. PICK s : Makes(t, r, s)
  BY <1>2
<1>4. s \in M
  BY <1>0, <1>3 DEF Reopened
<1> QED BY <1>3, <1>4

\* A row with the id of one of before is made of it.
LEMMA MadeOf ==
  ASSUME Stored, NEW t \in Seq(Entries), NEW M, NEW new, Reopened(t, M, new),
         NEW r \in rows, NEW s \in M, s.id = r.id
  PROVE  Makes(t, r, s)
<1>0. Table(rows)
  BY DEF Stored
<1>1. ASSUME NEW q \in rows, Makes(t, q, s) PROVE Makes(t, r, s)
  <2>1. s.id = q.id
    BY <1>0, <1>1, MakesForm
  <2>2. q = r
    BY <1>0, <2>1 DEF Table
  <2> QED BY <1>1, <2>2
<1>2. ASSUME NEW j \in Unfolded(t), s = new[j] PROVE FALSE
  <2>1. new[j].id \notin TakenIds
    BY DEF Reopened, Brings
  <2>2. r.id \in TakenIds
    BY DEF TakenIds, Ids
  <2> QED BY <1>2, <2>1, <2>2
<1> QED BY <1>1, <1>2 DEF Reopened

\* What a row is made into: its entry stays, or RisuAI's is adopted where
\* nothing was done here and the name or the text found it.
LEMMA MadeCarefully ==
  ASSUME Stored, NEW t \in Seq(Entries), NEW r \in rows, NEW s, Makes(t, r, s)
  PROVE  /\ s.id = r.id
         /\ \/ s.entry = r.entry /\ (r.origin # "deleted" => s.origin # "deleted")
            \/ /\ Untouched(r) /\ r.base # NoEntry
               /\ s.entry.name = r.entry.name \/ s.entry.text = r.entry.text
         /\ r.origin # "deleted" /\ r.mark # NoMark /\ r.entry # r.base => s.mark # NoMark
<1>0. Table(rows) /\ s.id = r.id
  BY MakesForm DEF Stored
<1>1. CASE ByPair(t, r, s)
  <2>1. PICK p \in Found(t) :
          /\ p.row = r /\ r.base # NoEntry
          /\ \/ s.entry = r.entry /\ s.origin = r.origin
             \/ /\ Untouched(r) /\ p.tier # "positional" /\ t[p.to] # r.base
                /\ s.entry = t[p.to] /\ s.origin = "original"
          /\ (r.entry # r.base /\ r.mark # NoMark => s.mark # NoMark)
    BY <1>0, <1>1, ByPairForm
  <2>2. Pairing(t)
    BY <1>0, FoundForm
  <2>3. /\ p.tier = "exact" => t[p.to] = r.base
        /\ p.tier = "keyed" => t[p.to].name = r.base.name \/ t[p.to].text = r.base.text
        /\ p.tier \in {"exact", "keyed", "positional"}
    BY <2>1, <2>2 DEF Pairing
  <2>4. CASE s.entry = r.entry /\ s.origin = r.origin
    BY <1>0, <2>1, <2>4
  <2>5. CASE /\ Untouched(r) /\ p.tier # "positional" /\ t[p.to] # r.base
             /\ s.entry = t[p.to] /\ s.origin = "original"
    <3>1. t[p.to].name = r.base.name \/ t[p.to].text = r.base.text
      BY <2>3, <2>5
    <3>2. r.entry = r.base
      BY <2>5 DEF Untouched
    <3> QED BY <1>0, <2>1, <2>5, <3>1, <3>2
  <2> QED BY <2>1, <2>4, <2>5
<1>2. CASE ByGone(t, r, s)
  <2>1. RowSound(r) /\ s \in Gone(r)
    BY <1>0, <1>2 DEF Table, ByGone
  <2>2. s.entry = r.entry /\ s.origin = "added" /\ s.mark # NoMark
    BY <2>1, GoneForm
  <2> QED BY <1>0, <2>2
<1>3. CASE ByFold(t, r, s)
  <2>1. /\ s.entry = r.entry /\ s.mark = r.mark
        /\ s = r \/ s.origin = "original"
    BY <1>0, <1>3, ByFoldForm
  <2> QED BY <1>0, <2>1
<1> QED BY <1>1, <1>2, <1>3 DEF Makes

\* A re-open keeps every entry worked on here, adopts none for its place
\* alone, and leaves an open conflict open (merge.plan, store._merge_lore).
THEOREM MergeStaysCareful == LoreSpec => MergeIsCareful
<1>1. LoreInit => LoreInv
  BY LoreInvInit
<1>2. LoreInv /\ [LoreNext]_loreVars => LoreInv'
  BY LoreInvStep
<1>3. ASSUME LoreInv, LoreNext, Merging
      PROVE  /\ \A r \in Live(rows) :
                  Work(r) => \E s \in Live(rows') : s.id = r.id /\ s.entry = r.entry
             /\ \A r \in rows, s \in rows' :
                  s.id = r.id /\ s.entry # r.entry =>
                    s.entry.name = r.entry.name \/ s.entry.text = r.entry.text
             /\ \A r \in Live(rows) :
                  r.mark # NoMark /\ r.entry # r.base =>
                    \E s \in rows' : s.id = r.id /\ s.mark # NoMark
  <2>0. Stored /\ Table(rows) /\ ops \in [Counters -> Nat]
    BY <1>3 DEF LoreInv, Stored
  <2>1. ~ Tick("edit") /\ ~ Tick("save") /\ ~ Tick("load")
    BY <1>3, <2>0, OneCount DEF Uploading
  <2>2. PICK t \in Seq(Entries) : Reopen(t)
    BY <1>3, <2>1, LoreSteps DEF Reload, Edits, Save, SaveBaseline, RestoreRows, RestoreContent
  <2>3. PICK M : M = rows' /\ M = Merged(t)
    BY <2>2 DEF Reopen
  <2>4. PICK new : Reopened(t, M, new)
    BY <2>0, <2>3, MergedForm DEF Reopened
  <2>5. ASSUME NEW r \in Live(rows), Work(r)
        PROVE  \E s \in Live(M) : s.id = r.id /\ s.entry = r.entry
    <3>1. r \in rows /\ r.origin # "deleted"
      BY DEF Live
    <3>2. PICK s \in M : Makes(t, r, s)
      BY <2>0, <2>4, LiveMade
    <3>3. ~ (Untouched(r) /\ r.base # NoEntry)
      <4> SUFFICES ASSUME Untouched(r), r.base # NoEntry PROVE FALSE
        OBVIOUS
      <4>1. scope = "global" /\ r.entry \notin ToSet(shown) /\ r.entry = r.base
        BY <2>5 DEF Work, Untouched
      <4>2. \E i \in DOMAIN shown : shown[i] = r.base
        BY <1>3, <3>1, <4>1 DEF LoreInv, Seen
      <4> QED BY <4>1, <4>2 DEF ToSet
    <3>4. s.id = r.id /\ s.entry = r.entry /\ s.origin # "deleted"
      BY <2>0, <3>1, <3>2, <3>3, MadeCarefully
    <3> QED BY <3>4 DEF Live
  <2>6. ASSUME NEW r \in rows, NEW s \in M, s.id = r.id, s.entry # r.entry
        PROVE  s.entry.name = r.entry.name \/ s.entry.text = r.entry.text
    <3>1. Makes(t, r, s)
      BY <2>0, <2>4, <2>6, MadeOf
    <3> QED BY <2>0, <2>6, <3>1, MadeCarefully
  <2>7. ASSUME NEW r \in Live(rows), r.mark # NoMark, r.entry # r.base
        PROVE  \E s \in M : s.id = r.id /\ s.mark # NoMark
    <3>1. r \in rows /\ r.origin # "deleted"
      BY DEF Live
    <3>2. PICK s \in M : Makes(t, r, s)
      BY <2>0, <2>4, LiveMade
    <3>3. s.id = r.id /\ s.mark # NoMark
      BY <2>0, <2>7, <3>1, <3>2, MadeCarefully
    <3> QED BY <3>3
  <2> QED BY <2>3, <2>5, <2>6, <2>7
<1>4. LoreInv /\ [LoreNext]_loreVars =>
        [Merging => \A r \in Live(rows) :
           Work(r) => \E s \in Live(rows') : s.id = r.id /\ s.entry = r.entry]_loreVars
  BY <1>3
<1>5. LoreInv /\ [LoreNext]_loreVars =>
        [Merging => \A r \in rows, s \in rows' :
           s.id = r.id /\ s.entry # r.entry =>
             s.entry.name = r.entry.name \/ s.entry.text = r.entry.text]_loreVars
  BY <1>3
<1>6. LoreInv /\ [LoreNext]_loreVars =>
        [Merging => \A r \in Live(rows) :
           r.mark # NoMark /\ r.entry # r.base =>
             \E s \in rows' : s.id = r.id /\ s.mark # NoMark]_loreVars
  BY <1>3
<1> QED BY <1>1, <1>2, <1>4, <1>5, <1>6, PTL
        DEF LoreSpec, MergeIsCareful, ReopenKeepsWork, NeverAdoptsByPlace, ConflictsWaitForDecision

-----------------------------------------------------------------------------
(* A re-open that brings no news.                                          *)

\* A pair of places is the find of the row that is listed at its place.
LEMMA PairIsFound ==
  ASSUME NEW t, NEW p \in Match(Baseline(rows), t)
  PROVE  \E q \in Found(t) : q.row = BasedList[p.at] /\ q.to = p.to
<1>1. PICK q : q = [row |-> BasedList[p.at], to |-> p.to, tier |-> p.tier]
  OBVIOUS
<1>2. q \in Found(t) /\ q.row = BasedList[p.at] /\ q.to = p.to
  BY <1>1 DEF Found
<1> QED BY <1>2

\* With RisuAI's list of last time, every original finds itself.
LEMMA QuietFound ==
  ASSUME Table(rows), NEW t, t = Baseline(rows)
  PROVE  /\ \A r \in Based(rows) : \E p \in Found(t) : p.row = r
         /\ \A p \in Found(t) : p.to \in DOMAIN t /\ t[p.to] = p.row.base
         /\ Open(t) = {}
<1>1. PICK list : list = BasedList
  OBVIOUS
<1>2. /\ t \in Seq(Entries) /\ DOMAIN t = DOMAIN list
      /\ \A k \in DOMAIN list : list[k] \in Based(rows) /\ t[k] = list[k].base
      /\ \A r \in Based(rows) : \E k \in DOMAIN list : list[k] = r
  BY <1>1, BasedListed
<1>3. Match(Baseline(rows), t) = {Pair(k, k, "exact") : k \in DOMAIN t}
  BY <1>2, MatchSame
<1>4. ASSUME NEW k \in DOMAIN t PROVE \E q \in Found(t) : q.row = list[k] /\ q.to = k
  <2>1. PICK p \in Match(Baseline(rows), t) : p = Pair(k, k, "exact")
    BY <1>3
  <2>2. p.at = k /\ p.to = k
    BY <2>1, PairParts
  <2> QED BY <1>1, <2>2, PairIsFound
<1>5. ASSUME NEW q \in Found(t) PROVE q.to \in DOMAIN t /\ t[q.to] = q.row.base
  <2>1. PICK p \in Match(Baseline(rows), t) : q = [row |-> list[p.at], to |-> p.to, tier |-> p.tier]
    BY <1>1 DEF Found
  <2>2. PICK k \in DOMAIN t : p = Pair(k, k, "exact")
    BY <1>3
  <2>3. p.at = k /\ p.to = k
    BY <2>2, PairParts
  <2>4. q.row = list[k] /\ q.to = k
    BY <2>1, <2>3
  <2> QED BY <1>2, <2>4
<1>6. \A r \in Based(rows) : \E p \in Found(t) : p.row = r
  BY <1>2, <1>4
<1>7. Open(t) = {}
  BY <1>4 DEF Open
<1> QED BY <1>5, <1>6, <1>7

\* Two rows that differ in nothing but RisuAI's place.
SameButPlace(r, s) ==
  /\ s.id = r.id /\ s.seq = r.seq /\ s.entry = r.entry /\ s.base = r.base
  /\ s.origin = r.origin /\ s.mark = r.mark

LEMMA PlaceDropped ==
  ASSUME NEW r, RowSound(r), NEW s, RowSound(s), SameButPlace(r, s)
  PROVE  [r EXCEPT !.bseq = NoPlace] = [s EXCEPT !.bseq = NoPlace]
<1>1. PICK x : x = [r EXCEPT !.bseq = NoPlace]
  OBVIOUS
<1>2. PICK y : y = [s EXCEPT !.bseq = NoPlace]
  OBVIOUS
<1>3. /\ r \in [id : Nat, seq : Nat, entry : Entries, base : Entries \cup {NoEntry},
               bseq : Nat \cup {NoPlace}, origin : Origins, mark : Marks]
      /\ s \in [id : Nat, seq : Nat, entry : Entries, base : Entries \cup {NoEntry},
               bseq : Nat \cup {NoPlace}, origin : Origins, mark : Marks]
  BY DEF RowSound, RowRecords
<1>4. x = [id |-> r.id, seq |-> r.seq, entry |-> r.entry, base |-> r.base, bseq |-> NoPlace,
           origin |-> r.origin, mark |-> r.mark]
  BY ONLY <1>1, <1>3
<1>5. y = [id |-> s.id, seq |-> s.seq, entry |-> s.entry, base |-> s.base, bseq |-> NoPlace,
           origin |-> s.origin, mark |-> s.mark]
  BY ONLY <1>2, <1>3
<1>6. x = y
  BY ONLY <1>4, <1>5, SameButPlace(r, s) DEF SameButPlace
<1> QED BY <1>1, <1>2, <1>6

LEMMA QuietMakes ==
  ASSUME Table(rows), NEW t \in Seq(Entries), t = Baseline(rows), NEW r \in rows
  PROVE  /\ \E s : Makes(t, r, s)
         /\ \A s : Makes(t, r, s) => RowSound(s) /\ SameButPlace(r, s)
<1>1. /\ \A q \in Based(rows) : \E p \in Found(t) : p.row = q
      /\ \A p \in Found(t) : p.to \in DOMAIN t /\ t[p.to] = p.row.base
      /\ Open(t) = {}
  BY QuietFound
<1>2. Based(rows) = {q \in rows : q.base # NoEntry}
  BY BasedOfTable
<1>3. \E s : Makes(t, r, s)
  <2>1. CASE r.base = NoEntry
    BY <2>1 DEF Makes, ByFold, Added
  <2>2. CASE r.base # NoEntry
    BY <1>1, <1>2, <2>2 DEF Makes, ByPair
  <2> QED BY <2>1, <2>2
<1>4. ASSUME NEW s, Makes(t, r, s) PROVE RowSound(s) /\ SameButPlace(r, s)
  <2>1. CASE ByPair(t, r, s)
    <3>1. PICK p \in Found(t) :
            /\ p.row = r /\ RowSound(s) /\ s.id = r.id /\ s.seq = r.seq /\ s.base = t[p.to]
            /\ (t[p.to] = r.base \/ t[p.to] = r.entry) =>
                 s.entry = r.entry /\ s.origin = r.origin /\ s.mark = r.mark
      BY <2>1, ByPairForm
    <3>2. t[p.to] = r.base
      BY <1>1, <3>1
    <3> QED BY <3>1, <3>2 DEF SameButPlace
  <2>2. CASE ByGone(t, r, s)
    BY <1>1, <2>2 DEF ByGone
  <2>3. CASE ByFold(t, r, s)
    <3>1. RowSound(s) /\ s = r
      BY <1>1, <2>3, ByFoldForm
    <3> QED BY <3>1 DEF SameButPlace
  <2> QED BY <1>4, <2>1, <2>2, <2>3 DEF Makes
<1> QED BY <1>3, <1>4

LEMMA QuietMerge ==
  ASSUME Stored, NEW t \in Seq(Entries), t = Baseline(rows), NEW M, NEW new, Reopened(t, M, new)
  PROVE  {[r EXCEPT !.bseq = NoPlace] : r \in M} = {[r EXCEPT !.bseq = NoPlace] : r \in rows}
<1>0. Table(rows) /\ \A r \in rows : RowSound(r)
  BY DEF Stored, Table
<1>1. Unfolded(t) = {}
  BY <1>0, QuietFound DEF Unfolded
<1>2. ASSUME NEW r \in rows
      PROVE  \E s \in M : [r EXCEPT !.bseq = NoPlace] = [s EXCEPT !.bseq = NoPlace]
  <2>1. PICK s : Makes(t, r, s)
    BY <1>0, QuietMakes
  <2>2. s \in M /\ RowSound(s) /\ SameButPlace(r, s)
    BY <1>0, <2>1, QuietMakes DEF Reopened
  <2> QED BY <1>0, <2>2, PlaceDropped
<1>3. ASSUME NEW s \in M
      PROVE  \E r \in rows : [r EXCEPT !.bseq = NoPlace] = [s EXCEPT !.bseq = NoPlace]
  <2>1. PICK r \in rows : Makes(t, r, s)
    BY <1>1 DEF Reopened
  <2>2. RowSound(s) /\ SameButPlace(r, s)
    BY <1>0, <2>1, QuietMakes
  <2> QED BY <1>0, <2>2, PlaceDropped
<1>4. PICK f : f = [r \in M \cup rows |-> [r EXCEPT !.bseq = NoPlace]]
  OBVIOUS
<1>5. /\ {[r EXCEPT !.bseq = NoPlace] : r \in M} = {f[r] : r \in M}
      /\ {[r EXCEPT !.bseq = NoPlace] : r \in rows} = {f[r] : r \in rows}
  BY <1>4
<1>6. (\A r \in rows : \E s \in M : f[r] = f[s]) /\ \A s \in M : \E r \in rows : f[r] = f[s]
  BY <1>2, <1>3, <1>4
<1>7. {f[r] : r \in M} = {f[r] : r \in rows}
  BY ONLY <1>6
<1> QED BY <1>5, <1>7

\* Where every row has a name of its own, so have the entries listed.
LEMMA OwnNames ==
  ASSUME \A r \in rows : OwnName(r), NEW r \in rows, NEW s \in rows
  PROVE  /\ r.entry.name = s.entry.name => r = s
         /\ r.base # NoEntry => r.entry.name = r.base.name
BY DEF OwnName

LEMMA AgreedList ==
  ASSUME Table(rows), \A r \in rows : OwnName(r), NEW t, t = LiveList(rows)
  PROVE  /\ t \in Seq(Entries)
         /\ \A j \in DOMAIN t : \E r \in Live(rows) : t[j] = r.entry
         /\ \A r \in Live(rows) : \E j \in DOMAIN t : t[j] = r.entry
         /\ \A j, k \in DOMAIN t : t[j].name = t[k].name => j = k
<1>1. Table(Live(rows))
  BY BasedOfTable
<1>2. PICK list : list = InOrder(Live(rows)) /\ Lines(list, Live(rows), BySeq(Live(rows)))
  BY <1>1, InOrderLines
<1>3. t = Entered(list)
  BY <1>2 DEF LiveList
<1>4. t \in Seq(Entries) /\ DOMAIN t = DOMAIN list /\ \A k \in DOMAIN list : t[k] = list[k].entry
  BY <1>1, <1>2, <1>3, RowsListed
<1>5. /\ \A k \in DOMAIN list : list[k] \in Live(rows)
      /\ \A r \in Live(rows) : \E k \in DOMAIN list : list[k] = r
      /\ \A k, q \in DOMAIN list : list[k] = list[q] => k = q
  BY <1>2 DEF Lines
<1>6. ASSUME NEW j \in DOMAIN t, NEW k \in DOMAIN t, t[j].name = t[k].name PROVE j = k
  <2>1. list[j] \in rows /\ list[k] \in rows /\ list[j].entry.name = list[k].entry.name
    BY <1>4, <1>5, <1>6 DEF Live
  <2>2. list[j] = list[k]
    BY <2>1, OwnNames
  <2> QED BY <1>4, <1>5, <2>2
<1>7. /\ \A j \in DOMAIN t : \E r \in Live(rows) : t[j] = r.entry
      /\ \A r \in Live(rows) : \E j \in DOMAIN t : t[j] = r.entry
  BY <1>4, <1>5
<1> QED BY <1>4, <1>6, <1>7

\* With the list of the panel, every original listed here finds itself: its
\* name stayed, and nothing else has it.
LEMMA AgreedFound ==
  ASSUME Table(rows), \A r \in rows : OwnName(r), NEW t, t = LiveList(rows),
         NEW r \in Live(rows), r.base # NoEntry
  PROVE  \E p \in Found(t) : p.row = r /\ p.to \in DOMAIN t /\ t[p.to] = r.entry
<1>1. /\ t \in Seq(Entries)
      /\ \A j, k \in DOMAIN t : t[j].name = t[k].name => j = k
  BY AgreedList
<1>2. PICK k \in DOMAIN t : t[k] = r.entry
  BY AgreedList
<1>3. PICK b : b = Baseline(rows)
  OBVIOUS
<1>4. PICK list : list = BasedList
  OBVIOUS
<1>5. /\ b \in Seq(Entries) /\ DOMAIN b = DOMAIN list
      /\ \A i \in DOMAIN list : list[i] \in Based(rows) /\ b[i] = list[i].base
      /\ \A q \in Based(rows) : \E i \in DOMAIN list : list[i] = q
      /\ \A i, q \in DOMAIN list : list[i] = list[q] => i = q
  BY <1>3, <1>4, BasedListed
<1>6. r \in rows /\ r \in Based(rows) /\ Based(rows) = {q \in rows : q.base # NoEntry}
  BY BasedOfTable DEF Live
<1>7. PICK i \in DOMAIN b : list[i] = r /\ b[i] = r.base
  BY <1>5, <1>6
<1>8. \A q \in DOMAIN b : b[q].name = r.entry.name => q = i
  <2> SUFFICES ASSUME NEW q \in DOMAIN b, b[q].name = r.entry.name PROVE q = i
    OBVIOUS
  <2>1. list[q] \in rows /\ list[q].base # NoEntry /\ b[q] = list[q].base
    BY <1>5, <1>6
  <2>2. list[q].entry.name = r.entry.name
    BY <2>1, OwnNames
  <2>3. list[q] = r
    BY <1>6, <2>1, <2>2, OwnNames
  <2> QED BY <1>5, <1>7, <2>3
<1>9. b[i].name = r.entry.name /\ t[k].name = r.entry.name
  BY <1>2, <1>6, <1>7, OwnNames
<1>10. \E p \in Match(b, t) : p.at = i /\ p.to = k
  <2>1. PICK E : E = Exact(b, t)
    OBVIOUS
  <2>2. OneToOne(E, b, t) /\ \A p \in E : t[p.to] = b[p.at]
    BY <1>1, <1>5, <2>1, ExactForm
  <2>3. /\ \A p \in E : p \in Match(b, t)
        /\ \A p \in Keyed(b, t, E, "name") : p \in Match(b, t)
    BY <1>1, <1>5, <2>1, MatchForm
  <2>4. \A p \in E : p.at \in DOMAIN b /\ p.to \in DOMAIN t
    BY <2>2 DEF OneToOne
  <2>5. ASSUME NEW p \in E, p.at = i \/ p.to = k PROVE p.at = i /\ p.to = k
    <3>1. t[p.to].name = b[p.at].name
      BY <2>2
    <3>2. CASE p.at = i
      BY <1>1, <1>9, <2>4, <3>1, <3>2
    <3>3. CASE p.to = k
      BY <1>8, <1>9, <2>4, <3>1, <3>3
    <3> QED BY <2>5, <3>2, <3>3
  <2>6. CASE \E p \in E : p.at = i \/ p.to = k
    BY <2>3, <2>5, <2>6
  <2>7. CASE \A p \in E : p.at # i /\ p.to # k
    <3>1. i \in LeftOf(b, E) /\ k \in RightOf(t, E)
      BY <2>7 DEF LeftOf, RightOf
    <3>2. /\ \A q \in LeftOf(b, E) : q \in DOMAIN b
          /\ \A q \in RightOf(t, E) : q \in DOMAIN t
      BY DEF LeftOf, RightOf
    <3>3. OnlyOne(b, LeftOf(b, E), "name", i)
      BY <1>8, <1>9, <3>2 DEF OnlyOne
    <3>4. OnlyOne(t, RightOf(t, E), "name", k)
      BY <1>1, <3>2 DEF OnlyOne
    <3>5. b[i]["name"] = t[k]["name"]
      BY <1>9
    <3>6. \E p \in Keyed(b, t, E, "name") : p.at = i /\ p.to = k
      BY <1>1, <1>5, <3>1, <3>3, <3>4, <3>5, KeyedPairs
    <3> QED BY <2>3, <3>6
  <2> QED BY <2>6, <2>7
<1>11. PICK p \in Match(b, t) : p.at = i /\ p.to = k
  BY <1>10
<1>12. \E q \in Found(t) : q.row = list[p.at] /\ q.to = p.to
  BY <1>3, <1>4, PairIsFound
<1> QED BY <1>2, <1>7, <1>11, <1>12

LEMMA AgreedMakes ==
  ASSUME Table(rows), \A r \in rows : OwnName(r), NEW t, t = LiveList(rows),
         NEW r \in rows, NEW s, Makes(t, r, s)
  PROVE  /\ s.id = r.id /\ s.seq = r.seq
         /\ r.origin # "deleted" => s.origin # "deleted" /\ s.entry = r.entry
         /\ r.origin = "deleted" => s.origin = "deleted"
<1>0. t \in Seq(Entries) /\ RowSound(r)
  BY AgreedList DEF Table
<1>1. s.id = r.id /\ s.seq = r.seq
  BY <1>0, MakesForm
<1>2. CASE ByPair(t, r, s)
  <2>1. PICK p \in Found(t) :
          /\ p.row = r /\ r.base # NoEntry
          /\ \/ s.entry = r.entry /\ s.origin = r.origin
             \/ Untouched(r)
          /\ (t[p.to] = r.base \/ t[p.to] = r.entry) => s.entry = r.entry /\ s.origin = r.origin
    BY <1>0, <1>2, ByPairForm
  <2>2. CASE r.origin = "deleted"
    BY <1>1, <2>1, <2>2 DEF Untouched
  <2>3. CASE r.origin # "deleted"
    <3>1. r \in Live(rows)
      BY <2>3 DEF Live
    <3>2. PICK q \in Found(t) : q.row = r /\ t[q.to] = r.entry
      BY <2>1, <3>1, AgreedFound
    <3>3. p = q
      BY <1>0, <2>1, <3>2, FoundForm DEF Pairing
    <3> QED BY <1>1, <2>1, <2>3, <3>2, <3>3
  <2> QED BY <2>2, <2>3
<1>3. CASE ByGone(t, r, s)
  <2>1. s \in Gone(r)
    BY <1>3 DEF ByGone
  <2> QED BY <1>0, <1>1, <2>1, GoneForm
<1>4. CASE ByFold(t, r, s)
  <2>1. s.entry = r.entry /\ r.base = NoEntry /\ (s = r \/ s.origin = "original")
    BY <1>0, <1>4, ByFoldForm
  <2>2. r.origin # "deleted"
    BY <1>0, <2>1 DEF RowSound
  <2> QED BY <1>1, <2>1, <2>2
<1> QED BY <1>2, <1>3, <1>4 DEF Makes

\* The only row of a set is the first of its list.
LEMMA OnlyOneListed ==
  ASSUME NEW r, RowSound(r), NEW S, S = {r}
  PROVE  Head(InBaseOrder(S)) = r
<1>1. Table(S)
  <2>1. IsFiniteSet(S) /\ Cardinality(S) = 1
    BY FS_Singleton
  <2> QED BY <2>1 DEF Table
<1>2. PICK list : list = InBaseOrder(S) /\ Lines(list, S, ByBase(S))
  BY <1>1, InBaseOrderLines
<1>3. Cardinality(S) = 1
  BY FS_Singleton
<1>4. list \in Seq(S) /\ DOMAIN list = 1 .. 1 /\ \A k \in DOMAIN list : list[k] \in S
  BY <1>2, <1>3 DEF Lines
<1>5. list # <<>> /\ list[1] = r
  BY <1>4
<1> QED BY <1>2, <1>4, <1>5

\* Every entry the panel added finds its own copy in the panel's list.
LEMMA AgreedUnfolded ==
  ASSUME Table(rows), \A r \in rows : OwnName(r), NEW t, t = LiveList(rows)
  PROVE  Unfolded(t) = {}
<1> SUFFICES ASSUME NEW j \in Open(t), \A r \in Added : j \notin Fold(t, Open(t), r) PROVE FALSE
  BY DEF Unfolded
<1>0. /\ t \in Seq(Entries) /\ j \in DOMAIN t /\ \A p \in Found(t) : p.to # j
      /\ \A i, k \in DOMAIN t : t[i].name = t[k].name => i = k
  BY AgreedList DEF Open
<1>1. PICK r \in Live(rows) : t[j] = r.entry
  BY <1>0, AgreedList
<1>2. r \in rows /\ RowSound(r)
  BY DEF Live, Table
<1>3. r.base = NoEntry
  <2> SUFFICES ASSUME r.base # NoEntry PROVE FALSE
    OBVIOUS
  <2>1. PICK p \in Found(t) : p.to \in DOMAIN t /\ t[p.to] = r.entry
    BY AgreedFound
  <2> QED BY <1>0, <1>1, <2>1
<1>4. PICK same : same = {s \in rows : s.base = NoEntry /\ s.entry = r.entry}
  OBVIOUS
<1>5. same = {r}
  <2>1. r \in same
    BY <1>2, <1>3, <1>4
  <2>2. \A s \in same : s = r
    BY <1>2, <1>4, OwnNames
  <2> QED BY <2>1, <2>2
<1>6. Head(InBaseOrder(same)) = r
  BY <1>2, <1>5, OnlyOneListed
<1>7. PICK places : places = {i \in Open(t) : t[i] = r.entry}
  OBVIOUS
<1>8. places = {j}
  <2>1. j \in places
    BY <1>1, <1>7
  <2>2. \A i \in places : i \in DOMAIN t /\ t[i] = t[j]
    BY <1>1, <1>7 DEF Open
  <2>3. \A i \in places : i = j
    BY <1>0, <2>2
  <2> QED BY <2>1, <2>3
<1>9. Max(places) = j
  <2>1. j \in Nat /\ j \in 1 .. j
    BY <1>0
  <2>2. Max(places) \in places
    BY <1>8, <2>1, MaxProperties
  <2> QED BY <1>8, <2>2
<1>10. Fold(t, Open(t), r) = {j}
  BY <1>4, <1>6, <1>7, <1>8, <1>9 DEF Fold
<1>11. r \in Added
  BY <1>2, <1>3 DEF Added
<1> QED BY <1>10, <1>11

\* With the list of the panel, a re-open lists the same afterwards.
LEMMA AgreedMerge ==
  ASSUME Stored, \A r \in rows : OwnName(r), NEW t, t = LiveList(rows),
         NEW M, NEW new, Reopened(t, M, new)
  PROVE  Table(M) /\ SameLive(rows, M)
<1>0. Table(rows) /\ t \in Seq(Entries)
  BY AgreedList DEF Stored
<1>1. Table(M)
  BY <1>0, ReopenedTable
<1>2. ASSUME NEW r \in Live(rows)
      PROVE  \E s \in Live(M) : s.id = r.id /\ s.entry = r.entry /\ s.seq = r.seq
  <2>1. r \in rows /\ r.origin # "deleted"
    BY DEF Live
  <2>2. PICK s \in M : Makes(t, r, s)
    BY <1>0, LiveMade
  <2>3. s.id = r.id /\ s.seq = r.seq /\ s.origin # "deleted" /\ s.entry = r.entry
    BY <1>0, <2>1, <2>2, AgreedMakes
  <2> QED BY <2>3 DEF Live
<1>3. ASSUME NEW s \in Live(M)
      PROVE  \E r \in Live(rows) : s.id = r.id /\ s.entry = r.entry /\ s.seq = r.seq
  <2>1. s \in M /\ s.origin # "deleted"
    BY DEF Live
  <2>2. Unfolded(t) = {}
    BY <1>0, AgreedUnfolded
  <2>3. PICK r \in rows : Makes(t, r, s)
    BY <2>1, <2>2 DEF Reopened
  <2>4. r.origin # "deleted"
    BY <1>0, <2>1, <2>3, AgreedMakes
  <2>5. s.id = r.id /\ s.seq = r.seq /\ s.entry = r.entry
    BY <1>0, <2>3, <2>4, AgreedMakes
  <2> QED BY <2>4, <2>5 DEF Live
<1> QED BY <1>1, <1>2, <1>3 DEF SameLive

\* The same rows listed, each entry is there as often.
LEMMA SameTimes ==
  ASSUME NEW S, Table(S), NEW M, Table(M), SameLive(S, M), NEW e
  PROVE  Times(e, M) = Times(e, S)
<1>1. PICK X : X = {r \in Live(S) : r.entry = e}
  OBVIOUS
<1>2. PICK Y : Y = {r \in Live(M) : r.entry = e}
  OBVIOUS
<1>3. PICK f : f = [r \in X |-> CHOOSE s \in Y : s.id = r.id]
  OBVIOUS
<1>4. ASSUME NEW r \in X PROVE f[r] \in Y /\ f[r].id = r.id
  <2>1. r \in Live(S) /\ r.entry = e
    BY <1>1
  <2>2. \E s \in Live(M) : s.id = r.id /\ s.entry = r.entry
    BY <2>1 DEF SameLive
  <2>3. \E s \in Y : s.id = r.id
    BY <1>2, <2>1, <2>2
  <2> QED BY <1>3, <2>3
<1>5. ASSUME NEW s \in Y PROVE \E r \in X : f[r] = s
  <2>1. s \in Live(M) /\ s.entry = e /\ s \in M
    BY <1>2 DEF Live
  <2>2. PICK r \in Live(S) : s.id = r.id /\ s.entry = r.entry
    BY <2>1 DEF SameLive
  <2>3. r \in X
    BY <1>1, <2>1, <2>2
  <2>4. f[r] \in M /\ f[r].id = s.id
    BY <1>2, <1>4, <2>2, <2>3 DEF Live
  <2>5. f[r] = s
    BY <2>1, <2>4 DEF Table
  <2> QED BY <2>3, <2>5
<1>6. ASSUME NEW r \in X, NEW q \in X, f[r] = f[q] PROVE r = q
  <2>1. r \in S /\ q \in S /\ r.id = q.id
    BY <1>1, <1>4, <1>6 DEF Live
  <2> QED BY <2>1 DEF Table
<1>7. IsFiniteSet(X)
  <2>1. X \in SUBSET S /\ IsFiniteSet(S)
    BY <1>1 DEF Live, Table
  <2> QED BY ONLY <2>1, FS_Subset
<1>8. Cardinality(Y) = Cardinality(X)
  <2>1. /\ \A r \in X : f[r] \in Y
        /\ \A s \in Y : \E r \in X : f[r] = s
        /\ \A r, q \in X : f[r] = f[q] => r = q
    BY <1>4, <1>5, <1>6
  <2> QED BY ONLY <1>7, <2>1, ImageCardinality, ZenonT(40)
<1> QED BY <1>1, <1>2, <1>8 DEF Times

\* A re-open that brings no news changes nothing: not with RisuAI's list of
\* last time, whatever is pending, and not with the panel's own list, where
\* every row has kept a name of its own (merge.match, merge.plan,
\* store._merge_lore).
THEOREM NoNewsChangesNothing == LoreSpec => NoNewsNoChange
<1>1. LoreInit => LoreInv
  BY LoreInvInit
<1>2. LoreInv /\ [LoreNext]_loreVars => LoreInv'
  BY LoreInvStep
<1>3. ASSUME LoreInv, LoreNext, Merging
      PROVE  \E t \in Seq(Entries) : \E M, new :
               M = rows' /\ shown' = t /\ Stored /\ Reopened(t, M, new)
  <2>0. Stored /\ Table(rows) /\ ops \in [Counters -> Nat]
    BY <1>3 DEF LoreInv, Stored
  <2>1. ~ Tick("edit") /\ ~ Tick("save") /\ ~ Tick("load")
    BY <1>3, <2>0, OneCount DEF Uploading
  <2>2. PICK t \in Seq(Entries) : Reopen(t)
    BY <1>3, <2>1, LoreSteps DEF Reload, Edits, Save, SaveBaseline, RestoreRows, RestoreContent
  <2>3. PICK M : M = rows' /\ M = Merged(t) /\ shown' = t
    BY <2>2 DEF Reopen
  <2>4. PICK new : Reopened(t, M, new)
    BY <2>0, <2>3, MergedForm DEF Reopened
  <2> QED BY <2>0, <2>3, <2>4
<1>4. ASSUME LoreInv, LoreNext, Merging, shown' = Baseline(rows)
      PROVE  {[r EXCEPT !.bseq = NoPlace] : r \in rows'} = {[r EXCEPT !.bseq = NoPlace] : r \in rows}
  <2>0. PICK t \in Seq(Entries) : \E M, new :
          M = rows' /\ shown' = t /\ Stored /\ Reopened(t, M, new)
    BY <1>3, <1>4
  <2>1. PICK M, new : M = rows' /\ shown' = t /\ Stored /\ Reopened(t, M, new)
    BY <2>0
  <2>2. {[r EXCEPT !.bseq = NoPlace] : r \in M} = {[r EXCEPT !.bseq = NoPlace] : r \in rows}
    BY <1>4, <2>1, QuietMerge
  <2> QED BY <2>1, <2>2
<1>5. ASSUME LoreInv, LoreNext, Merging, shown' = LiveList(rows), \A r \in rows : OwnName(r)
      PROVE  \A e \in Entries : Times(e, rows') = Times(e, rows)
  <2>0. PICK t \in Seq(Entries) : \E M, new :
          M = rows' /\ shown' = t /\ Stored /\ Reopened(t, M, new)
    BY <1>3, <1>5
  <2>1. PICK M, new : M = rows' /\ shown' = t /\ Stored /\ Reopened(t, M, new)
    BY <2>0
  <2>2. Table(M) /\ SameLive(rows, M) /\ Table(rows)
    BY <1>5, <2>1, AgreedMerge DEF Stored
  <2>3. \A e : Times(e, M) = Times(e, rows)
    BY <2>2, SameTimes
  <2> QED BY <2>1, <2>3
<1>6. LoreInv /\ [LoreNext]_loreVars =>
        [Merging /\ shown' = Baseline(rows)
           => {[r EXCEPT !.bseq = NoPlace] : r \in rows'} = {[r EXCEPT !.bseq = NoPlace] : r \in rows}]_loreVars
  BY <1>4
<1>7. LoreInv /\ [LoreNext]_loreVars =>
        [Merging /\ shown' = LiveList(rows) /\ (\A r \in rows : OwnName(r))
           => \A e \in Entries : Times(e, rows') = Times(e, rows)]_loreVars
  BY <1>5
<1> QED BY <1>1, <1>2, <1>6, <1>7, PTL
        DEF LoreSpec, NoNewsNoChange, QuietReopen, AgreementKeepsList

=============================================================================
