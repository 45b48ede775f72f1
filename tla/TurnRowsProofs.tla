--------------------------- MODULE TurnRowsProofs ---------------------------
(***************************************************************************)
(* What TurnRows promises, for lists, texts and checkpoints without bound: *)
(* the rows are sound, they implement TurnStore, an inserted row keeps its *)
(* place over a re-open and a restore can be undone.                       *)
(***************************************************************************)
EXTENDS TurnRows, ListProofs

-----------------------------------------------------------------------------
(* Lists of rows.                                                          *)

LEMMA RowFields ==
  /\ \A r \in Rows : r.id \in MsgIds /\ r.body \in Bodies /\ r.extra \in RisuIds \cup {NoExtra}
  /\ \A m \in MsgIds, t \in Bodies : Row(m, t, NoExtra) \in Rows
  /\ \A r \in Rows, t \in Bodies : [r EXCEPT !.body = t] \in Rows
  /\ \A r \in Rows : [r EXCEPT !.mark = NoMark] \in Rows
BY DEF Rows, Row

LEMMA EachOnceMeans ==
  ASSUME NEW list
  PROVE  EachOnce(list) <=> \A i, j \in DOMAIN list : list[i].id = list[j].id => i = j
BY DEF EachOnce, IsInjective

LEMMA IdsAre ==
  ASSUME NEW list
  PROVE  Ids(list) = {list[i].id : i \in DOMAIN list}
BY DEF Ids, ToSet

\* A row of a list in which an id is met once is the one its id names.
LEMMA AtFinds ==
  ASSUME NEW list, EachOnce(list), NEW i \in DOMAIN list
  PROVE  At(list, list[i].id) = list[i]
<1>1. \A r \in ToSet(list) : r.id = list[i].id => r = list[i]
  BY EachOnceMeans DEF ToSet
<1>2. list[i] \in ToSet(list)
  BY DEF ToSet
<1> QED BY <1>1, <1>2 DEF At

\* A list with the ids of another, place by place.
LEMMA SameIds ==
  ASSUME NEW T, NEW S, NEW list \in Seq(T), NEW new \in Seq(S), Len(new) = Len(list),
         \A i \in 1 .. Len(list) : new[i].id = list[i].id
  PROVE  (EachOnce(list) => EachOnce(new)) /\ Ids(new) = Ids(list)
<1>1. DOMAIN list = 1 .. Len(list) /\ DOMAIN new = 1 .. Len(list)
  OBVIOUS
<1>2. EachOnce(list) => EachOnce(new)
  BY <1>1, EachOnceMeans
<1>3. Ids(new) = Ids(list)
  BY <1>1, IdsAre
<1> QED BY <1>2, <1>3

\* What is left of a list keeps each id once, and its rows.
LEMMA SubListSound ==
  ASSUME NEW T, NEW list \in Seq(T), NEW I, \A i \in I : i \in DOMAIN list
  PROVE  /\ SubList(list, I) \in Seq(T)
         /\ EachOnce(list) => EachOnce(SubList(list, I))
         /\ Ids(SubList(list, I)) = {list[i].id : i \in I}
<1> DEFINE s == SubList(list, I)
           n == Cardinality(I)
<1>1. /\ n \in Nat /\ s \in Seq(T) /\ Len(s) = n
      /\ \A k \in 1 .. n : Nth(I, k) \in I /\ s[k] = list[Nth(I, k)]
      /\ \A k, q \in 1 .. n : k < q => Nth(I, k) < Nth(I, q)
      /\ \A i \in I : \E k \in 1 .. n : Nth(I, k) = i
  BY SubListProperties
<1>2. DOMAIN s = 1 .. n /\ \A i \in I : i \in Nat
  BY <1>1
<1> HIDE DEF s, n
<1>3. ASSUME EachOnce(list), NEW k \in 1 .. n, NEW q \in 1 .. n, s[k].id = s[q].id
      PROVE  k = q
  <2>1. Nth(I, k) = Nth(I, q)
    BY <1>1, <1>3, EachOnceMeans
  <2>2. Nth(I, k) \in Nat /\ ~ (k < q) /\ ~ (q < k)
    BY <1>1, <1>2, <2>1
  <2> QED BY <1>1, <2>2
<1>4. EachOnce(list) => EachOnce(s)
  BY <1>2, <1>3, EachOnceMeans
<1>5. Ids(s) = {list[i].id : i \in I}
  BY <1>1, <1>2, IdsAre
<1> QED BY <1>1, <1>4, <1>5 DEF s

\* A row of a new id, put anywhere into a list.
LEMMA InsertSound ==
  ASSUME NEW T, NEW list \in Seq(T), NEW i \in 0 .. Len(list), NEW r \in T
  PROVE  /\ InsertAt(list, i + 1, r) \in Seq(T)
         /\ EachOnce(list) /\ r.id \notin Ids(list) => EachOnce(InsertAt(list, i + 1, r))
         /\ ToSet(InsertAt(list, i + 1, r)) = ToSet(list) \cup {r}
<1> DEFINE new == InsertAt(list, i + 1, r)
           n == Len(list)
<1>1. n \in Nat /\ DOMAIN list = 1 .. n /\ i + 1 \in 1 .. (n + 1) /\ i \in Nat
  OBVIOUS
<1>2. /\ new \in Seq(T) /\ Len(new) = n + 1
      /\ \A k \in 1 .. (n + 1) : new[k] = IF k < i + 1 THEN list[k] ELSE IF k = i + 1 THEN r ELSE list[k - 1]
  <2>1. PICK j \in 1 .. (Len(list) + 1) : j = i + 1
    BY <1>1
  <2>2. /\ InsertAt(list, j, r) \in Seq(T)
        /\ Len(InsertAt(list, j, r)) = Len(list) + 1
        /\ \A k \in 1 .. (Len(list) + 1) :
             InsertAt(list, j, r)[k] = IF k < j THEN list[k] ELSE IF k = j THEN r ELSE list[k - 1]
    <3>1. list \in Seq(T) /\ j \in 1 .. (Len(list) + 1) /\ r \in T
      OBVIOUS
    <3> QED BY ONLY <3>1, InsertAtProperties
  <2> QED BY <2>1, <2>2
<1>3. DOMAIN new = 1 .. (n + 1)
  BY <1>2
<1> HIDE DEF new, n
<1>4. ASSUME EachOnce(list), r.id \notin Ids(list) PROVE EachOnce(new)
  <2>1. \A k \in 1 .. n : list[k].id # r.id
    BY <1>1, <1>4, IdsAre
  <2>2. \A k, q \in 1 .. n : list[k].id = list[q].id => k = q
    BY <1>1, <1>4, EachOnceMeans
  <2>3. ASSUME NEW k \in 1 .. (n + 1), NEW q \in 1 .. (n + 1), k < q
        PROVE  new[k].id # new[q].id
    <3>1. /\ k <= i => k \in 1 .. n
          /\ k > i + 1 => k - 1 \in 1 .. n
          /\ q <= i => q \in 1 .. n
          /\ q > i + 1 => q - 1 \in 1 .. n
      BY <1>1
    <3> QED BY <1>1, <1>2, <2>1, <2>2, <2>3, <3>1
  <2>4. \A k, q \in 1 .. (n + 1) : new[k].id = new[q].id => k = q
    BY <1>1, <2>3
  <2> QED BY <1>3, <2>4, EachOnceMeans
<1>5. ToSet(new) = ToSet(list) \cup {r}
  <2>1. \A k \in 1 .. n : \E q \in 1 .. (n + 1) : new[q] = list[k]
    <3> TAKE k \in 1 .. n
    <3>1. CASE k <= i
      BY <1>1, <1>2, <3>1
    <3>2. CASE ~ (k <= i)
      <4>1. k + 1 \in 1 .. (n + 1) /\ ~ (k + 1 < i + 1) /\ k + 1 # i + 1 /\ k + 1 - 1 = k
        BY <1>1, <3>2
      <4> QED BY <1>2, <4>1
    <3> QED BY <3>1, <3>2
  <2>2. new[i + 1] = r
    BY <1>1, <1>2
  <2>3. \A q \in 1 .. (n + 1) : new[q] = r \/ \E k \in 1 .. n : new[q] = list[k]
    <3> TAKE q \in 1 .. (n + 1)
    <3>1. (q < i + 1 => q \in 1 .. n) /\ (~ (q < i + 1) /\ q # i + 1 => q - 1 \in 1 .. n)
      BY <1>1
    <3> QED BY <1>2, <3>1
  <2>4. ToSet(new) = {new[q] : q \in 1 .. (n + 1)} /\ ToSet(list) = {list[k] : k \in 1 .. n}
    BY <1>1, <1>3 DEF ToSet
  <2>5. i + 1 \in 1 .. (n + 1)
    BY <1>1
  <2> QED BY <2>1, <2>2, <2>3, <2>4, <2>5
<1> QED BY <1>2, <1>4, <1>5 DEF new

LEMMA RemoveSound ==
  ASSUME NEW T, NEW list \in Seq(T), NEW i \in 1 .. Len(list)
  PROVE  /\ RemoveAt(list, i) \in Seq(T)
         /\ Len(RemoveAt(list, i)) = Len(list) - 1
         /\ ToSet(RemoveAt(list, i)) = {list[k] : k \in DOMAIN list \ {i}}
         /\ EachOnce(list) => EachOnce(RemoveAt(list, i))
<1> DEFINE new == RemoveAt(list, i)
           n == Len(list)
<1>1. n \in Nat /\ DOMAIN list = 1 .. n /\ i \in 1 .. n /\ n - 1 \in Nat
  OBVIOUS
<1>2. /\ new \in Seq(T) /\ Len(new) = n - 1
      /\ \A k \in 1 .. (n - 1) : new[k] = IF k < i THEN list[k] ELSE list[k + 1]
  BY RemoveAtProperties
<1>3. DOMAIN new = 1 .. (n - 1)
  BY <1>1, <1>2
<1> HIDE DEF new, n
<1>4. \A q \in 1 .. (n - 1) : \E k \in (1 .. n) \ {i} : new[q] = list[k]
  <2> TAKE q \in 1 .. (n - 1)
  <2>1. q \in 1 .. n /\ q + 1 \in 1 .. n /\ (q < i => q # i) /\ (~ (q < i) => q + 1 # i)
    BY <1>1
  <2> QED BY <1>2, <2>1
<1>5. \A k \in (1 .. n) \ {i} : \E q \in 1 .. (n - 1) : new[q] = list[k]
  <2> TAKE k \in (1 .. n) \ {i}
  <2>1. CASE k < i
    BY <1>1, <1>2, <2>1
  <2>2. CASE ~ (k < i)
    <3>1. k - 1 \in 1 .. (n - 1) /\ ~ (k - 1 < i) /\ k - 1 + 1 = k
      BY <1>1, <2>2
    <3> QED BY <1>2, <3>1
  <2> QED BY <2>1, <2>2
<1>6. ToSet(new) = {list[k] : k \in DOMAIN list \ {i}}
  BY <1>1, <1>3, <1>4, <1>5 DEF ToSet
<1>7. ASSUME EachOnce(list) PROVE EachOnce(new)
  <2>1. \A k, q \in 1 .. n : list[k].id = list[q].id => k = q
    BY <1>1, <1>7, EachOnceMeans
  <2>2. ASSUME NEW k \in 1 .. (n - 1), NEW q \in 1 .. (n - 1), new[k].id = new[q].id
        PROVE  k = q
    <3>1. k \in 1 .. n /\ k + 1 \in 1 .. n /\ q \in 1 .. n /\ q + 1 \in 1 .. n
      BY <1>1
    <3>2. PICK a \in 1 .. n : new[k] = list[a] /\ a = IF k < i THEN k ELSE k + 1
      BY <1>2, <3>1
    <3>3. PICK b \in 1 .. n : new[q] = list[b] /\ b = IF q < i THEN q ELSE q + 1
      BY <1>2, <3>1
    <3>4. a = b
      BY <2>1, <2>2, <3>2, <3>3
    <3> QED BY <1>1, <3>2, <3>3, <3>4
  <2> QED BY <1>3, <2>2, EachOnceMeans
<1> QED BY <1>2, <1>6, <1>7 DEF new, n

-----------------------------------------------------------------------------
(* Checkpoints.                                                            *)

LEMMA LimitsArePositive ==
  /\ AutoKeep \in Nat /\ AutoKeep > 0
  /\ CheckpointKeep \in Nat /\ CheckpointKeep > 0
BY RowsAssumption

\* Newest leaves some versions out, never the last unless none may stay.
LEMMA NewestProperties ==
  ASSUME NEW list \in Seq(Versions), NEW kinds, NEW n \in Nat
  PROVE  \E I : /\ \A i \in I : i \in DOMAIN list
                /\ Newest(list, kinds, n) = SubList(list, I)
                /\ \A i \in DOMAIN list : list[i].kind \notin kinds => i \in I
                /\ n > 0 /\ list # <<>> => Len(list) \in I
                /\ n >= Len(list) => I = DOMAIN list
                /\ kinds = Kinds => Cardinality(I) <= n
<1> DEFINE C == {i \in DOMAIN list : list[i].kind \in kinds}
           After(i) == {j \in C : i < j}
           I == {i \in DOMAIN list : i \in C => Cardinality(After(i)) < n}
           m == Len(list)
<1>1. m \in Nat /\ DOMAIN list = 1 .. m /\ (list # <<>> => m > 0)
  OBVIOUS
<1>2. Newest(list, kinds, n) = SubList(list, I)
  BY DEF Newest
<1>3. ASSUME n > 0, list # <<>> PROVE m \in I
  <2>1. After(m) = {}
    BY <1>1
  <2>2. Cardinality(After(m)) = 0
    BY <2>1, FS_EmptySet
  <2> QED BY <1>1, <1>3, <2>2
<1>4. ASSUME n >= m PROVE I = DOMAIN list
  <2> SUFFICES ASSUME NEW i \in 1 .. m PROVE Cardinality(After(i)) < n
    BY <1>1
  <2>1. After(i) \in SUBSET ((i + 1) .. m)
    BY <1>1
  <2>2. IsFiniteSet((i + 1) .. m) /\ Cardinality((i + 1) .. m) = IF i + 1 > m THEN 0 ELSE m - (i + 1) + 1
    <3>1. i + 1 \in Int /\ m \in Int
      BY <1>1
    <3> HIDE DEF m
    <3> QED BY <3>1, FS_Interval
  <2> HIDE DEF After
  <2>3. Cardinality(After(i)) <= Cardinality((i + 1) .. m) /\ IsFiniteSet(After(i))
    BY <2>1, <2>2, FS_Subset
  <2>4. Cardinality(After(i)) \in Nat
    BY <2>3, FS_CardinalityType
  <2> QED BY <1>1, <1>4, <2>2, <2>3, <2>4
<1>5. ASSUME kinds = Kinds PROVE Cardinality(I) <= n
  <2>1. C = 1 .. m
    <3>1. \A i \in 1 .. m : list[i] \in Versions
      BY <1>1
    <3>2. \A i \in 1 .. m : list[i].kind \in Kinds
      BY <3>1 DEF Versions
    <3> QED BY <1>1, <1>5, <3>2
  <2>2. ASSUME NEW i \in 1 .. m PROVE Cardinality(After(i)) = m - i
    <3>1. After(i) = (i + 1) .. m
      BY <1>1, <2>1
    <3>2. Cardinality((i + 1) .. m) = IF i + 1 > m THEN 0 ELSE m - (i + 1) + 1
      <4>1. i + 1 \in Int /\ m \in Int
        BY <1>1
      <4> HIDE DEF m
      <4> QED BY <4>1, FS_Interval
    <3>3. Cardinality((i + 1) .. m) = m - i
      BY <1>1, <3>2
    <3> HIDE DEF After
    <3> QED BY <3>1, <3>3
  <2> HIDE DEF After
  <2>3. \A i \in I : m - n + 1 <= i /\ i <= m /\ i \in Int
    BY <1>1, <2>1, <2>2
  <2> HIDE DEF I
  <2>4. I \in SUBSET ((m - n + 1) .. m)
    BY <2>3
  <2>5. m - n + 1 \in Int /\ m \in Int
    BY <1>1
  <2>6. /\ IsFiniteSet((m - n + 1) .. m)
        /\ Cardinality((m - n + 1) .. m) = IF m - n + 1 > m THEN 0 ELSE m - (m - n + 1) + 1
    BY <2>5, FS_Interval
  <2>7. Cardinality((m - n + 1) .. m) = n
    BY <1>1, <2>6
  <2>8. PICK J : J = (m - n + 1) .. m
    OBVIOUS
  <2>9. I \in SUBSET J /\ IsFiniteSet(J) /\ Cardinality(J) = n
    BY <2>4, <2>6, <2>7, <2>8
  <2>10. Cardinality(I) <= Cardinality(J)
    BY ONLY <2>9, FS_Subset
  <2> QED BY <2>9, <2>10
<1>6. (\A i \in I : i \in DOMAIN list) /\ \A i \in DOMAIN list : list[i].kind \notin kinds => i \in I
  OBVIOUS
<1> HIDE DEF I, C, After, m
<1> QED BY <1>2, <1>3, <1>4, <1>5, <1>6 DEF m

NewVersion(kind, label) == [kind |-> kind, label |-> label, rows |-> turns, sidecar |-> sidecar]

\* What create() makes of a list: some of the old ones, and the new one last.
LEMMA CreatedProperties ==
  ASSUME NEW list \in Seq(Versions), NEW kind \in Kinds, NEW label \in Labels,
         turns \in Seq(Rows), sidecar \in Seq(RisuIds \cup {NoExtra})
  PROVE  /\ Created(list, kind, label) \in Seq(Versions)
         /\ Len(Created(list, kind, label)) > 0
         /\ Len(Created(list, kind, label)) <= CheckpointKeep
         /\ Created(list, kind, label)[Len(Created(list, kind, label))] = NewVersion(kind, label)
         /\ \A k \in 1 .. (Len(Created(list, kind, label)) - 1) :
              \E i \in DOMAIN list : Created(list, kind, label)[k] = list[i]
<1> DEFINE new == NewVersion(kind, label)
           all == Append(list, new)
           mid == IF kind = "auto" THEN Newest(all, {"auto"}, AutoKeep) ELSE all
           out == Newest(mid, Kinds, CheckpointKeep)
<1>0. Created(list, kind, label) = out
  BY DEF Created, NewVersion
<1>1. new \in Versions
  BY DEF NewVersion, Versions
<1> HIDE DEF new
<1>2. /\ all \in Seq(Versions) /\ Len(all) = Len(list) + 1 /\ all[Len(all)] = new /\ Len(list) \in Nat
      /\ \A i \in 1 .. (Len(all) - 1) : i \in DOMAIN list /\ all[i] = list[i]
  BY <1>1
<1> HIDE DEF all
<1>3. /\ mid \in Seq(Versions) /\ Len(mid) > 0 /\ mid[Len(mid)] = new
      /\ \A k \in 1 .. (Len(mid) - 1) : \E i \in DOMAIN list : mid[k] = list[i]
  <2>1. CASE kind = "auto"
    <3>1. PICK I : /\ \A i \in I : i \in DOMAIN all
                   /\ Newest(all, {"auto"}, AutoKeep) = SubList(all, I)
                   /\ AutoKeep > 0 /\ all # <<>> => Len(all) \in I
      BY <1>2, LimitsArePositive, NewestProperties
    <3>2. Len(all) \in I
      BY <1>2, <3>1, LimitsArePositive
    <3>3. mid = SubList(all, I)
      BY <2>1, <3>1
    <3>4. SubList(all, I) \in Seq(Versions)
      BY <1>2, <3>1, SubListProperties
    <3>5. /\ Len(SubList(all, I)) > 0
          /\ SubList(all, I)[Len(SubList(all, I))] = all[Len(all)]
          /\ \A k \in 1 .. (Len(SubList(all, I)) - 1) :
               \E i \in I : i < Len(all) /\ SubList(all, I)[k] = all[i]
      <4>1. all \in Seq(Versions) /\ \A i \in I : i \in DOMAIN all
        BY <1>2, <3>1
      <4> QED BY ONLY <3>2, <4>1, SubListLast
    <3>6. \A i \in I : i < Len(all) => i \in 1 .. (Len(all) - 1)
      BY <1>2, <3>1
    <3> HIDE DEF mid
    <3> QED BY <1>2, <3>3, <3>4, <3>5, <3>6
  <2>2. CASE kind # "auto"
    <3>1. mid = all
      BY <2>2
    <3> HIDE DEF mid, all
    <3> QED BY ONLY <1>2, <3>1
  <2> QED BY <2>1, <2>2
<1> HIDE DEF mid
<1>4. PICK I : /\ \A i \in I : i \in DOMAIN mid
               /\ out = SubList(mid, I)
               /\ CheckpointKeep > 0 /\ mid # <<>> => Len(mid) \in I
               /\ Cardinality(I) <= CheckpointKeep
  BY <1>3, LimitsArePositive, NewestProperties
<1> HIDE DEF out
<1>5. Len(mid) \in I
  BY <1>3, <1>4, LimitsArePositive
<1>6. out \in Seq(Versions) /\ Len(out) = Cardinality(I)
  BY <1>3, <1>4, SubListProperties
<1>7. /\ Len(SubList(mid, I)) > 0
      /\ SubList(mid, I)[Len(SubList(mid, I))] = mid[Len(mid)]
      /\ \A k \in 1 .. (Len(SubList(mid, I)) - 1) :
           \E i \in I : i < Len(mid) /\ SubList(mid, I)[k] = mid[i]
  <2>1. mid \in Seq(Versions) /\ \A i \in I : i \in DOMAIN mid
    BY <1>3, <1>4
  <2> QED BY ONLY <1>5, <2>1, SubListLast
<1>8. \A i \in I : i < Len(mid) => i \in 1 .. (Len(mid) - 1)
  BY <1>3, <1>4
<1>9. \A k \in 1 .. (Len(out) - 1) : \E i \in DOMAIN list : out[k] = list[i]
  <2> TAKE k \in 1 .. (Len(out) - 1)
  <2>1. PICK i \in I : i < Len(mid) /\ out[k] = mid[i]
    BY <1>4, <1>7
  <2>2. i \in 1 .. (Len(mid) - 1)
    BY <1>8, <2>1
  <2>3. \E j \in DOMAIN list : mid[i] = list[j]
    BY <1>3, <2>2
  <2> QED BY <2>1, <2>3
<1> QED BY <1>0, <1>3, <1>4, <1>6, <1>7, <1>9 DEF new

-----------------------------------------------------------------------------
(* The rows stay sound.                                                    *)

Given == RisuIds \cup minted
GoodList(list, ids) == list \in Seq(Rows) /\ EachOnce(list) /\ Ids(list) \subseteq ids
GoodVersions(list, ids) ==
  list \in Seq(Versions) /\ \A i \in DOMAIN list : GoodList(list[i].rows, ids)

LEMMA SoundMeans ==
  RowsSound <=> /\ GoodList(turns, Given) /\ GoodList(orig, Given)
                /\ sidecar \in Seq(RisuIds \cup {NoExtra})
                /\ GoodVersions(saved, Given) /\ Len(saved) <= CheckpointKeep
                /\ minted \in SUBSET LocalIds
                /\ ops \in [Counters -> Nat]
<1>1. \A i \in DOMAIN saved : saved[i].rows \in Held
  BY DEF Held, ToSet
<1>2. \A list \in Held : list = turns \/ list = orig \/ \E i \in DOMAIN saved : list = saved[i].rows
  BY DEF Held, ToSet
<1>3. turns \in Held /\ orig \in Held
  BY DEF Held
<1>4. ASSUME saved \in Seq(Versions), NEW i \in DOMAIN saved
      PROVE  saved[i].rows \in Seq(Rows)
  <2>1. saved[i] \in Versions
    BY <1>4
  <2> QED BY <2>1 DEF Versions
<1> QED BY <1>1, <1>2, <1>3, <1>4 DEF RowsSound, RowsTypeOK, GoodList, GoodVersions, Given

LEMMA SoundMeansNext ==
  RowsSound' <=> /\ GoodList(turns', Given') /\ GoodList(orig', Given')
                 /\ sidecar' \in Seq(RisuIds \cup {NoExtra})
                 /\ GoodVersions(saved', Given') /\ Len(saved') <= CheckpointKeep
                 /\ minted' \in SUBSET LocalIds
                 /\ ops' \in [Counters -> Nat]
<1>1. \A i \in DOMAIN saved' : saved'[i].rows \in Held'
  BY DEF Held, ToSet
<1>2. \A list \in Held' : list = turns' \/ list = orig' \/ \E i \in DOMAIN saved' : list = saved'[i].rows
  BY DEF Held, ToSet
<1>3. turns' \in Held' /\ orig' \in Held'
  BY DEF Held
<1>4. ASSUME saved' \in Seq(Versions), NEW i \in DOMAIN saved'
      PROVE  saved'[i].rows \in Seq(Rows)
  <2>1. saved'[i] \in Versions
    BY <1>4
  <2> QED BY <2>1 DEF Versions
<1> QED BY <1>1, <1>2, <1>3, <1>4 DEF RowsSound, RowsTypeOK, GoodList, GoodVersions, Given

LEMMA GoodGrows ==
  ASSUME NEW ids, NEW more, ids \subseteq more
  PROVE  /\ \A list : GoodList(list, ids) => GoodList(list, more)
         /\ \A list : GoodVersions(list, ids) => GoodVersions(list, more)
BY DEF GoodList, GoodVersions

LEMMA TickCounts ==
  ASSUME NEW c \in Counters, Tick(c), ops \in [Counters -> Nat]
  PROVE  ops' \in [Counters -> Nat]
BY DEF Tick

\* What RisuAI sends are rows of its own, unmarked.
LEMMA UploadsAreRows ==
  ASSUME minted \in SUBSET LocalIds, NEW theirs \in Uploads
  PROVE  /\ GoodList(theirs, Given)
         /\ \A i \in DOMAIN theirs : theirs[i].mark = NoMark
         /\ Len(theirs) <= MaxTurns
<1>0. PICK ids \in SeqOf(Given, MaxTurns) :
        IsInjective(ids) /\ \E texts \in [DOMAIN ids -> Bodies] : theirs = Sent(ids, texts)
  BY DEF Uploads, Given
<1>1. PICK texts \in [DOMAIN ids -> Bodies] : theirs = Sent(ids, texts)
  BY <1>0
<1>2. MaxTurns \in Nat
  BY RowsAssumption
<1>3. PICK n \in 0 .. MaxTurns : ids \in [1 .. n -> Given]
  BY <1>0 DEF SeqOf
<1>4. n \in Nat /\ n <= MaxTurns /\ DOMAIN ids = 1 .. n
  BY <1>2, <1>3
<1>5. ASSUME NEW i \in 1 .. n
      PROVE  /\ theirs[i] \in Rows /\ theirs[i].id = ids[i] /\ theirs[i].mark = NoMark
             /\ ids[i] \in Given
  <2>1. ids[i] \in Given /\ ids[i] \in MsgIds /\ texts[i] \in Bodies
    BY <1>1, <1>3, <1>4 DEF Given, MsgIds
  <2>2. theirs[i] = Row(ids[i], texts[i], IF ids[i] \in RisuIds THEN ids[i] ELSE NoExtra)
    BY <1>1, <1>4 DEF Sent
  <2> QED BY <2>1, <2>2 DEF Row, Rows
<1>6. theirs = [i \in 1 .. n |-> theirs[i]]
  BY <1>1, <1>4 DEF Sent
<1>7. theirs \in Seq(Rows) /\ DOMAIN theirs = 1 .. n /\ Len(theirs) = n
  <2>1. DOMAIN theirs = 1 .. n
    BY <1>6
  <2>2. [i \in 1 .. n |-> theirs[i]] \in Seq(Rows) /\ Len([i \in 1 .. n |-> theirs[i]]) = n
    BY <1>4, <1>5
  <2> QED BY <1>6, <2>1, <2>2
<1>8. EachOnce(theirs)
  <2>1. \A i, j \in 1 .. n : ids[i] = ids[j] => i = j
    BY <1>0, <1>4 DEF IsInjective
  <2> QED BY <1>5, <1>7, <2>1, EachOnceMeans
<1>9. Ids(theirs) \subseteq Given
  BY <1>5, <1>7, IdsAre
<1> QED BY <1>4, <1>5, <1>7, <1>8, <1>9 DEF GoodList

\* What a checkpoint gives back.
LEMMA MarkdownSound ==
  ASSUME NEW ids, NEW list, GoodList(list, ids), NEW fields \in Seq(RisuIds \cup {NoExtra})
  PROVE  /\ GoodList(FromMarkdown(list, fields), ids)
         /\ Len(FromMarkdown(list, fields)) = Len(list)
         /\ \A i \in 1 .. Len(list) : /\ FromMarkdown(list, fields)[i].id = list[i].id
                                      /\ FromMarkdown(list, fields)[i].body = Markdown[list[i].body]
                                      /\ FromMarkdown(list, fields)[i].mark = NoMark
<1> DEFINE new == FromMarkdown(list, fields)
           n == Len(list)
<1>1. n \in Nat /\ DOMAIN list = 1 .. n /\ list \in Seq(Rows)
  BY DEF GoodList
<1>2. ASSUME NEW i \in 1 .. n
      PROVE  /\ new[i] \in Rows /\ new[i].id = list[i].id /\ new[i].body = Markdown[list[i].body]
             /\ new[i].mark = NoMark
  <2>1. list[i] \in Rows
    BY <1>1
  <2>2. list[i].id \in MsgIds /\ Markdown[list[i].body] \in Bodies
    BY <2>1, RowFields, RowsAssumption
  <2> DEFINE extra == IF i \in DOMAIN fields THEN fields[i] ELSE NoExtra
  <2>3. extra \in RisuIds \cup {NoExtra}
    OBVIOUS
  <2>4. new[i] = Row(list[i].id, Markdown[list[i].body], extra)
    BY <1>1 DEF FromMarkdown
  <2> HIDE DEF extra
  <2> QED BY <2>2, <2>3, <2>4 DEF Row, Rows
<1>3. new = [i \in 1 .. n |-> new[i]]
  BY <1>1 DEF FromMarkdown
<1> HIDE DEF new
<1>4. new \in Seq(Rows) /\ Len(new) = n
  <2>1. [i \in 1 .. n |-> new[i]] \in Seq(Rows) /\ Len([i \in 1 .. n |-> new[i]]) = n
    BY <1>1, <1>2
  <2> QED BY <1>3, <2>1
<1>5. EachOnce(new) /\ Ids(new) = Ids(list)
  BY <1>1, <1>2, <1>4, SameIds DEF GoodList
<1> QED BY <1>2, <1>4, <1>5 DEF GoodList, new

LEMMA TextsSound ==
  ASSUME NEW ids, NEW list, GoodList(list, ids), NEW ms, NEW texts,
         \A m \in ms \cap Ids(list) : texts[m] \in Bodies
  PROVE  /\ GoodList(WithTexts(list, ms, texts), ids)
         /\ Len(WithTexts(list, ms, texts)) = Len(list)
         /\ \A i \in 1 .. Len(list) :
              /\ WithTexts(list, ms, texts)[i].id = list[i].id
              /\ WithTexts(list, ms, texts)[i].body = IF list[i].id \in ms THEN texts[list[i].id] ELSE list[i].body
              /\ WithTexts(list, ms, texts)[i].mark = list[i].mark
<1> DEFINE new == WithTexts(list, ms, texts)
           n == Len(list)
<1>1. n \in Nat /\ DOMAIN list = 1 .. n /\ list \in Seq(Rows)
  BY DEF GoodList
<1>2. ASSUME NEW i \in 1 .. n
      PROVE  /\ new[i] \in Rows /\ new[i].id = list[i].id /\ new[i].mark = list[i].mark
             /\ new[i].body = IF list[i].id \in ms THEN texts[list[i].id] ELSE list[i].body
  <2>1. list[i] \in Rows /\ list[i].id \in Ids(list)
    BY <1>1, IdsAre
  <2>2. new[i] = IF list[i].id \in ms THEN [list[i] EXCEPT !.body = texts[list[i].id]] ELSE list[i]
    BY <1>1 DEF WithTexts
  <2> HIDE DEF new
  <2>3. CASE list[i].id \in ms
    <3>1. texts[list[i].id] \in Bodies
      BY <2>1, <2>3
    <3> QED BY <2>1, <2>2, <2>3, <3>1 DEF Rows
  <2>4. CASE list[i].id \notin ms
    BY <2>1, <2>2, <2>4
  <2> QED BY <2>3, <2>4
<1>3. new = [i \in 1 .. n |-> new[i]]
  BY <1>1 DEF WithTexts
<1> HIDE DEF new
<1>4. new \in Seq(Rows) /\ Len(new) = n
  <2>1. [i \in 1 .. n |-> new[i]] \in Seq(Rows) /\ Len([i \in 1 .. n |-> new[i]]) = n
    BY <1>1, <1>2
  <2> QED BY <1>3, <2>1
<1>5. EachOnce(new) /\ Ids(new) = Ids(list)
  BY <1>1, <1>2, <1>4, SameIds DEF GoodList
<1> QED BY <1>2, <1>4, <1>5 DEF GoodList, new

LEMMA WithoutSound ==
  ASSUME NEW ids, NEW list, GoodList(list, ids), NEW ms
  PROVE  /\ GoodList(Without(list, ms), ids)
         /\ ToSet(Without(list, ms)) = {r \in ToSet(list) : r.id \notin ms}
         /\ Ids(Without(list, ms)) = Ids(list) \ ms
<1> DEFINE I == {i \in DOMAIN list : list[i].id \notin ms}
<1>1. \A i \in I : i \in DOMAIN list
  OBVIOUS
<1>2. list \in Seq(Rows) /\ EachOnce(list)
  BY DEF GoodList
<1>3. Without(list, ms) = SubList(list, I)
  BY DEF Without
<1>4. {list[i] : i \in I} = {r \in ToSet(list) : r.id \notin ms}
  BY DEF ToSet
<1>5. {list[i].id : i \in I} = Ids(list) \ ms
  BY IdsAre
<1> HIDE DEF I
<1>6. SubList(list, I) \in Seq(Rows) /\ EachOnce(SubList(list, I)) /\ Ids(SubList(list, I)) = Ids(list) \ ms
  BY <1>1, <1>2, <1>5, SubListSound
<1>7. ToSet(SubList(list, I)) = {r \in ToSet(list) : r.id \notin ms}
  BY <1>1, <1>2, <1>4, SubListElements
<1> QED BY <1>3, <1>6, <1>7 DEF GoodList

LEMMA InsertGood ==
  ASSUME NEW ids, NEW list, GoodList(list, ids), NEW i \in 0 .. Len(list), NEW r \in Rows,
         r.id \notin Ids(list)
  PROVE  GoodList(InsertAt(list, i + 1, r), ids \cup {r.id})
<1>1. list \in Seq(Rows) /\ EachOnce(list) /\ Ids(list) \subseteq ids
  BY DEF GoodList
<1>2. /\ InsertAt(list, i + 1, r) \in Seq(Rows) /\ EachOnce(InsertAt(list, i + 1, r))
      /\ ToSet(InsertAt(list, i + 1, r)) = ToSet(list) \cup {r}
  BY <1>1, InsertSound
<1> QED BY <1>1, <1>2 DEF GoodList, Ids

\* Another row in the place of one, of the same id.
LEMMA ReplaceGood ==
  ASSUME NEW ids, NEW list, GoodList(list, ids), NEW i \in DOMAIN list, NEW r \in Rows, r.id = list[i].id
  PROVE  /\ GoodList([list EXCEPT ![i] = r], ids)
         /\ Ids([list EXCEPT ![i] = r]) = Ids(list)
         /\ Len([list EXCEPT ![i] = r]) = Len(list)
         /\ \A k \in DOMAIN list : [list EXCEPT ![i] = r][k] = IF k = i THEN r ELSE list[k]
<1> DEFINE new == [list EXCEPT ![i] = r]
<1>1. list \in Seq(Rows) /\ EachOnce(list) /\ DOMAIN list = 1 .. Len(list) /\ Len(list) \in Nat
  BY DEF GoodList
<1>2. new \in Seq(Rows) /\ Len(new) = Len(list)
  BY <1>1
<1>3. \A k \in DOMAIN list : new[k] = IF k = i THEN r ELSE list[k]
  BY <1>1
<1> HIDE DEF new
<1>4. \A k \in 1 .. Len(list) : new[k].id = list[k].id
  BY <1>1, <1>3
<1>5. EachOnce(new) /\ Ids(new) = Ids(list)
  BY <1>1, <1>2, <1>4, SameIds
<1> QED BY <1>2, <1>3, <1>5 DEF GoodList, new

LEMMA CreatedGood ==
  ASSUME NEW list, GoodVersions(list, Given), NEW kind \in Kinds, NEW label \in Labels, RowsSound
  PROVE  /\ GoodVersions(Created(list, kind, label), Given)
         /\ Len(Created(list, kind, label)) <= CheckpointKeep
<1> DEFINE out == Created(list, kind, label)
<1>1. turns \in Seq(Rows) /\ sidecar \in Seq(RisuIds \cup {NoExtra}) /\ GoodList(turns, Given)
  BY SoundMeans DEF GoodList
<1>2. list \in Seq(Versions) /\ \A i \in DOMAIN list : GoodList(list[i].rows, Given)
  BY DEF GoodVersions
<1>3. /\ out \in Seq(Versions) /\ Len(out) > 0 /\ Len(out) <= CheckpointKeep
      /\ out[Len(out)] = NewVersion(kind, label)
      /\ \A k \in 1 .. (Len(out) - 1) : \E i \in DOMAIN list : out[k] = list[i]
  BY <1>1, <1>2, CreatedProperties
<1> HIDE DEF out
<1>4. ASSUME NEW k \in DOMAIN out PROVE GoodList(out[k].rows, Given)
  <2>1. k \in 1 .. (Len(out) - 1) \/ k = Len(out)
    BY <1>3
  <2>2. CASE k \in 1 .. (Len(out) - 1)
    BY <1>2, <1>3, <2>2
  <2>3. CASE k = Len(out)
    BY <1>1, <1>3, <2>3 DEF NewVersion
  <2> QED BY <2>1, <2>2, <2>3
<1> QED BY <1>3, <1>4 DEF GoodVersions, out

LEMMA SubVersionsGood ==
  ASSUME NEW ids, NEW list, GoodVersions(list, ids), NEW I, \A i \in I : i \in DOMAIN list
  PROVE  /\ GoodVersions(SubList(list, I), ids) /\ Len(SubList(list, I)) <= Len(list)
         /\ ToSet(SubList(list, I)) = {list[i] : i \in I}
<1> DEFINE out == SubList(list, I)
<1>1. list \in Seq(Versions) /\ \A i \in DOMAIN list : GoodList(list[i].rows, ids)
  BY DEF GoodVersions
<1>2. /\ out \in Seq(Versions) /\ Len(out) = Cardinality(I) /\ Cardinality(I) \in Nat
      /\ \A k \in 1 .. Cardinality(I) : Nth(I, k) \in I /\ out[k] = list[Nth(I, k)]
  BY <1>1, SubListProperties
<1>3. Cardinality(I) <= Len(list)
  <2>1. IsFiniteSet(1 .. Len(list)) /\ Cardinality(1 .. Len(list)) = Len(list) /\ Len(list) \in Nat
    <3>1. Len(list) \in Nat /\ 1 \in Int /\ Len(list) \in Int
      BY <1>1
    <3>2. /\ IsFiniteSet(1 .. Len(list))
          /\ Cardinality(1 .. Len(list)) = IF 1 > Len(list) THEN 0 ELSE Len(list) - 1 + 1
      BY <3>1, FS_Interval
    <3> QED BY <3>1, <3>2
  <2>2. I \in SUBSET (1 .. Len(list))
    BY <1>1
  <2> QED BY <2>1, <2>2, FS_Subset
<1>4. ToSet(out) = {list[i] : i \in I}
  BY <1>1, SubListElements
<1> HIDE DEF out
<1>5. \A k \in DOMAIN out : GoodList(out[k].rows, ids)
  BY <1>1, <1>2
<1> QED BY <1>2, <1>3, <1>4, <1>5 DEF GoodVersions, out

-----------------------------------------------------------------------------
(* The merge of a re-open, piece by piece.                                 *)

\* Lists with no id in common, behind one another.
LEMMA FlattenEachOnce ==
  ASSUME NEW T, NEW ss \in Seq(Seq(T)), Len(ss) > 0,
         \A c \in 1 .. Len(ss) : EachOnce(ss[c]),
         \A c, d \in 1 .. Len(ss) : c # d => Ids(ss[c]) \cap Ids(ss[d]) = {}
  PROVE  /\ FlattenSeq(ss) \in Seq(T)
         /\ EachOnce(FlattenSeq(ss))
         /\ ToSet(FlattenSeq(ss)) = UNION {ToSet(ss[c]) : c \in 1 .. Len(ss)}
<1> DEFINE out == FlattenSeq(ss)
           n == Len(ss)
<1>1. out \in Seq(T) /\ \E ch, ix : Spread(out, ss, n, ch, ix)
  BY FlattenSpreads
<1>2. n \in Nat /\ \A c \in 1 .. n : ss[c] \in Seq(T) /\ DOMAIN ss[c] = 1 .. Len(ss[c])
  OBVIOUS
<1> HIDE DEF out, n
<1>3. PICK ch, ix : Spread(out, ss, n, ch, ix)
  BY <1>1
<1>4. /\ \A k \in 1 .. Len(out) : /\ ch[k] \in 1 .. n
                                  /\ ix[k] \in 1 .. Len(ss[ch[k]])
                                  /\ out[k] = ss[ch[k]][ix[k]]
      /\ \A k, q \in 1 .. Len(out) : k < q => ch[k] < ch[q] \/ (ch[k] = ch[q] /\ ix[k] < ix[q])
      /\ \A c \in 1 .. n : \A j \in 1 .. Len(ss[c]) : \E k \in 1 .. Len(out) : ch[k] = c /\ ix[k] = j
  BY <1>3 DEF Spread
<1>5. DOMAIN out = 1 .. Len(out) /\ Len(out) \in Nat
  BY <1>1
<1>6. ASSUME NEW k \in 1 .. Len(out), NEW q \in 1 .. Len(out), out[k].id = out[q].id, k < q
      PROVE  FALSE
  <2>1. /\ ch[k] \in 1 .. n /\ ix[k] \in 1 .. Len(ss[ch[k]]) /\ out[k] = ss[ch[k]][ix[k]]
        /\ ch[q] \in 1 .. n /\ ix[q] \in 1 .. Len(ss[ch[q]]) /\ out[q] = ss[ch[q]][ix[q]]
    BY <1>4
  <2>2. out[k].id \in Ids(ss[ch[k]]) /\ out[q].id \in Ids(ss[ch[q]])
    BY <1>2, <2>1, IdsAre
  <2>3. ch[k] = ch[q]
    BY <1>6, <2>1, <2>2 DEF n
  <2>4. ix[k] = ix[q]
    <3>1. EachOnce(ss[ch[k]])
      BY <2>1 DEF n
    <3>2. PICK c \in 1 .. n : c = ch[k]
      BY <2>1
    <3>3. ss[c][ix[k]].id = ss[c][ix[q]].id /\ ix[k] \in DOMAIN ss[c] /\ ix[q] \in DOMAIN ss[c]
      BY <1>2, <1>6, <2>1, <2>3, <3>2
    <3> QED BY <3>1, <3>2, <3>3, EachOnceMeans
  <2>5. ch[k] < ch[q] \/ ix[k] < ix[q]
    BY <1>4, <1>6
  <2>6. ch[k] \in Nat /\ ix[k] \in Nat
    BY <1>2, <2>1, SMTT(40)
  <2> QED BY <2>3, <2>4, <2>5, <2>6
<1>7. EachOnce(out)
  <2>1. \A k, q \in 1 .. Len(out) : out[k].id = out[q].id => k = q
    BY <1>5, <1>6
  <2> QED BY <1>5, <2>1, EachOnceMeans
<1>8. ToSet(out) = UNION {ToSet(ss[c]) : c \in 1 .. n}
  <2>1. ToSet(out) = {out[k] : k \in 1 .. Len(out)}
    BY <1>5 DEF ToSet
  <2>2. \A c \in 1 .. n : ToSet(ss[c]) = {ss[c][j] : j \in 1 .. Len(ss[c])}
    BY <1>2 DEF ToSet
  <2>3. ASSUME NEW k \in 1 .. Len(out) PROVE \E c \in 1 .. n : out[k] \in ToSet(ss[c])
    <3>1. PICK c \in 1 .. n : c = ch[k] /\ ix[k] \in 1 .. Len(ss[c]) /\ out[k] = ss[c][ix[k]]
      BY <1>4
    <3> QED BY <2>2, <3>1
  <2>4. ASSUME NEW c \in 1 .. n, NEW j \in 1 .. Len(ss[c]) PROVE ss[c][j] \in ToSet(out)
    <3>1. PICK k \in 1 .. Len(out) : ch[k] = c /\ ix[k] = j
      BY <1>4
    <3>2. out[k] = ss[c][j]
      BY <1>4, <3>1
    <3> QED BY <2>1, <3>2
  <2>5. ASSUME NEW c \in 1 .. n, NEW r \in ToSet(ss[c]) PROVE r \in ToSet(out)
    <3>1. PICK j \in 1 .. Len(ss[c]) : r = ss[c][j]
      BY <2>2
    <3> QED BY <2>4, <3>1
  <2>6. \A r \in ToSet(out) : \E c \in 1 .. n : r \in ToSet(ss[c])
    BY <2>1, <2>3
  <2> QED BY <2>5, <2>6
<1> QED BY <1>1, <1>7, <1>8 DEF out, n

IsOwn(i, theirs) == i \in DOMAIN turns /\ turns[i].id \notin Known(theirs)

\* Every row stands behind some known turn, or before them all.
LEMMA AnchorIsKnown ==
  ASSUME NEW theirs, NEW T, NEW list \in Seq(T), NEW i \in DOMAIN list
  PROVE  Anchor(list, i, theirs) \in {"head"} \cup Known(theirs)
<1> DEFINE before == {j \in 1 .. (i - 1) : list[j].id \in Known(theirs)}
<1>1. i - 1 \in Nat /\ \A j \in before : j \in 1 .. (i - 1)
  OBVIOUS
<1>2. Anchor(list, i, theirs) = IF before = {} THEN "head" ELSE list[Max(before)].id
  BY DEF Anchor
<1>3. before # {} => list[Max(before)].id \in Known(theirs)
  <2> SUFFICES ASSUME before # {} PROVE Max(before) \in before
    OBVIOUS
  <2> HIDE DEF before
  <2> QED BY <1>1, MaxProperties
<1> HIDE DEF before
<1> QED BY <1>2, <1>3

LEMMA OwnBehindSound ==
  ASSUME NEW theirs, NEW anchors, GoodList(turns, Given)
  PROVE  /\ OwnBehind(anchors, theirs) \in Seq(Rows)
         /\ EachOnce(OwnBehind(anchors, theirs))
         /\ ToSet(OwnBehind(anchors, theirs))
              = {turns[i] : i \in {j \in DOMAIN turns : IsOwn(j, theirs) /\ Anchor(turns, j, theirs) \in anchors}}
<1> DEFINE I == {i \in DOMAIN turns : /\ turns[i].id \notin Known(theirs)
                                      /\ Anchor(turns, i, theirs) \in anchors}
<1>1. turns \in Seq(Rows) /\ EachOnce(turns) /\ \A i \in I : i \in DOMAIN turns
  BY DEF GoodList
<1>2. OwnBehind(anchors, theirs) = SubList(turns, I)
  BY DEF OwnBehind
<1>3. I = {j \in DOMAIN turns : IsOwn(j, theirs) /\ Anchor(turns, j, theirs) \in anchors}
  BY DEF IsOwn
<1> HIDE DEF I
<1>4. SubList(turns, I) \in Seq(Rows) /\ EachOnce(SubList(turns, I))
  BY <1>1, SubListSound
<1>5. ToSet(SubList(turns, I)) = {turns[i] : i \in I}
  BY <1>1, SubListElements
<1> QED BY <1>2, <1>3, <1>4, <1>5

IsKept(i, theirs) ==
  /\ i \in DOMAIN turns /\ turns[i].id \in Ids(orig) \ Ids(theirs)
  /\ turns[i].body # At(orig, turns[i].id).body
KeptRow(i) == [turns[i] EXCEPT !.mark = Store!DeletedUpstream(NoTurn)]

LEMMA GoneSound ==
  ASSUME NEW theirs, GoodList(turns, Given)
  PROVE  /\ Gone(theirs) \in Seq(Rows)
         /\ EachOnce(Gone(theirs))
         /\ ToSet(Gone(theirs)) = {KeptRow(i) : i \in {j \in DOMAIN turns : IsKept(j, theirs)}}
<1> DEFINE I == {i \in DOMAIN turns : IsKept(i, theirs)}
           left == SubList(turns, I)
           out == Gone(theirs)
           Mark(r) == [r EXCEPT !.mark = Store!DeletedUpstream(NoTurn)]
<1>1. turns \in Seq(Rows) /\ EachOnce(turns) /\ \A i \in I : i \in DOMAIN turns
  BY DEF GoodList
<1>2. I = {i \in DOMAIN turns : LET r == turns[i] IN
             /\ r.id \in Ids(orig) \ Ids(theirs)
             /\ r.body # At(orig, r.id).body}
  BY DEF IsKept
<1>3. out = [i \in DOMAIN left |-> Mark(left[i])]
  BY <1>2 DEF Gone
<1> HIDE DEF I, out
<1>4. /\ left \in Seq(Rows) /\ EachOnce(left)
      /\ ToSet(left) = {turns[i] : i \in I}
  BY <1>1, SubListSound, SubListElements
<1> HIDE DEF left
<1>5. DOMAIN left = 1 .. Len(left) /\ Len(left) \in Nat
  BY <1>4
<1>6. \A r \in Rows : Mark(r) \in Rows /\ Mark(r).id = r.id
  BY DEF Store!DeletedUpstream, Rows
<1>7. out \in Seq(Rows) /\ Len(out) = Len(left) /\ \A i \in 1 .. Len(left) : out[i] = Mark(left[i])
  <2>1. \A i \in 1 .. Len(left) : left[i] \in Rows
    BY <1>4, <1>5
  <2>2. out = [i \in 1 .. Len(left) |-> Mark(left[i])]
    BY <1>3, <1>5
  <2> HIDE DEF Mark
  <2>3. /\ [i \in 1 .. Len(left) |-> Mark(left[i])] \in Seq(Rows)
        /\ Len([i \in 1 .. Len(left) |-> Mark(left[i])]) = Len(left)
    BY <1>5, <1>6, <2>1
  <2> QED BY <2>2, <2>3
<1>8. EachOnce(out)
  <2>1. \A i \in 1 .. Len(left) : out[i].id = left[i].id
    <3> TAKE i \in 1 .. Len(left)
    <3>1. left[i] \in Rows
      BY <1>4, <1>5
    <3> HIDE DEF Mark
    <3> QED BY <1>6, <1>7, <3>1
  <2> QED BY <1>4, <1>7, <2>1, SameIds
<1>9. ToSet(out) = {KeptRow(i) : i \in I}
  <2>1. ToSet(out) = {Mark(left[k]) : k \in 1 .. Len(left)}
    <3>1. DOMAIN out = 1 .. Len(left)
      BY <1>3, <1>5
    <3> HIDE DEF Mark
    <3> QED BY <1>7, <3>1 DEF ToSet
  <2>2. {left[k] : k \in 1 .. Len(left)} = {turns[i] : i \in I}
    BY <1>4, <1>5 DEF ToSet
  <2>3. \A i \in I : KeptRow(i) = Mark(turns[i])
    BY DEF KeptRow
  <2> HIDE DEF Mark
  <2>4. \A k \in 1 .. Len(left) : \E i \in I : left[k] = turns[i]
    BY <2>2
  <2>5. \A i \in I : \E k \in 1 .. Len(left) : left[k] = turns[i]
    BY <2>2
  <2>6. \A k \in 1 .. Len(left) : \E i \in I : Mark(left[k]) = KeptRow(i)
    BY <2>3, <2>4
  <2>7. \A i \in I : \E k \in 1 .. Len(left) : Mark(left[k]) = KeptRow(i)
    BY <2>3, <2>5
  <2> QED BY <2>1, <2>6, <2>7
<1> QED BY <1>7, <1>8, <1>9 DEF I, out

\* A list of rows, read as TurnStore reads it.
LEMMA AsListAt ==
  ASSUME NEW ids, NEW list, GoodList(list, ids), NEW m \in MsgIds
  PROVE  /\ m \in Ids(list) => /\ \E i \in DOMAIN list : list[i].id = m /\ At(list, m) = list[i]
                               /\ At(list, m) \in Rows /\ At(list, m).id = m
                               /\ At(list, m) \in ToSet(list)
                               /\ AsList(list)[m] = At(list, m).body
                               /\ AsList(list)[m] \in Bodies /\ AsList(list)[m] # NoTurn
         /\ m \notin Ids(list) => AsList(list)[m] = NoTurn
<1>1. list \in Seq(Rows) /\ EachOnce(list)
  BY DEF GoodList
<1>2. AsList(list)[m] = IF m \in Ids(list) THEN At(list, m).body ELSE NoTurn
  BY DEF AsList
<1>3. ASSUME m \in Ids(list)
      PROVE  /\ \E i \in DOMAIN list : list[i].id = m /\ At(list, m) = list[i]
             /\ At(list, m) \in Rows /\ At(list, m).id = m /\ At(list, m) \in ToSet(list)
  <2>1. PICK i \in DOMAIN list : list[i].id = m
    BY <1>3, IdsAre
  <2>2. At(list, m) = list[i]
    BY <1>1, <2>1, AtFinds
  <2>3. list[i] \in Rows /\ list[i] \in ToSet(list)
    BY <1>1 DEF ToSet
  <2> QED BY <2>1, <2>2, <2>3
<1> QED BY <1>2, <1>3, RowFields, RowsAssumption

LEMMA RowsAt ==
  ASSUME NEW ids, NEW list, GoodList(list, ids), NEW r \in ToSet(list)
  PROVE  r \in Rows /\ r.id \in MsgIds /\ r.id \in Ids(list) /\ At(list, r.id) = r
<1>1. PICK i \in DOMAIN list : r = list[i]
  BY DEF ToSet
<1>2. r \in Rows /\ At(list, r.id) = r
  BY <1>1, AtFinds DEF GoodList
<1> QED BY <1>2, RowFields DEF Ids

LEMMA MergedTurnSound ==
  ASSUME GoodList(turns, Given), GoodList(orig, Given), NEW theirs, GoodList(theirs, Given),
         \A i \in DOMAIN theirs : theirs[i].mark = NoMark, NEW i \in DOMAIN theirs
  PROVE  LET m == theirs[i].id IN
         /\ m \in MsgIds /\ m \in Ids(theirs)
         /\ \/ /\ MergedTurn(theirs[i]) = <<>>
               /\ Store!MergedBody(m, AsList(theirs)) = NoTurn
               /\ Store!MergedFlag(m, AsList(theirs)) = NoMark
            \/ \E r \in Rows : /\ MergedTurn(theirs[i]) = <<r>> /\ r.id = m
                               /\ r.body = Store!MergedBody(m, AsList(theirs))
                               /\ r.mark = Store!MergedFlag(m, AsList(theirs))
<1> DEFINE t == theirs[i]
           m == t.id
           o == AsList(turns)[m]
           b == AsList(orig)[m]
           x == AsList(theirs)[m]
           mine == At(turns, m)
<1>1. t \in Rows /\ m \in MsgIds /\ m \in Ids(theirs) /\ At(theirs, m) = t /\ t.mark = NoMark
  BY RowsAt DEF ToSet
<1> HIDE DEF t
<1>2. x = t.body /\ x \in Bodies /\ x # NoTurn
  BY <1>1, AsListAt
<1>3. b = IF m \in Ids(orig) THEN At(orig, m).body ELSE NoTurn
  BY <1>1 DEF AsList
<1>4. IF m \in Ids(turns) THEN mine \in Rows /\ mine.id = m /\ o = mine.body /\ o # NoTurn
      ELSE o = NoTurn
  BY <1>1, AsListAt
<1>5. MergedTurn(t) =
        IF m \notin Ids(turns)
        THEN IF b = x THEN <<>>
             ELSE <<[t EXCEPT !.mark = IF b = NoTurn THEN NoMark ELSE Store!DeletedUpstream(x)]>>
        ELSE <<IF b # NoTurn /\ Store!Decide(mine.body, b, x) = "adopt" THEN t
               ELSE [mine EXCEPT !.mark = IF b # NoTurn /\ Store!Decide(mine.body, b, x) = "conflict"
                                          THEN Store!BothMoved(x) ELSE NoMark]>>
  BY <1>2, <1>3, Zenon DEF MergedTurn
<1>6. Store!MergedBody(m, AsList(theirs)) =
        IF o = NoTurn THEN (IF x = b THEN NoTurn ELSE x)
        ELSE IF b # NoTurn /\ Store!Decide(o, b, x) = "adopt" THEN x ELSE o
  BY <1>2 DEF Store!MergedBody
<1>7. Store!MergedFlag(m, AsList(theirs)) =
        IF o = NoTurn THEN (IF b # NoTurn /\ b # x THEN Store!DeletedUpstream(x) ELSE NoMark)
        ELSE IF b # NoTurn /\ Store!Decide(o, b, x) = "conflict" THEN Store!BothMoved(x) ELSE NoMark
  BY <1>2 DEF Store!MergedFlag, Store!NoConflict, NoMark
<1>8. /\ NoMark \in {NoMark} \cup [kind : {"both-moved", "deleted-upstream"}, theirs : Bodies \cup {NoTurn}]
      /\ Store!DeletedUpstream(x) \in [kind : {"both-moved", "deleted-upstream"}, theirs : Bodies \cup {NoTurn}]
      /\ Store!BothMoved(x) \in [kind : {"both-moved", "deleted-upstream"}, theirs : Bodies \cup {NoTurn}]
  BY <1>2 DEF Store!DeletedUpstream, Store!BothMoved
<1> HIDE DEF m, o, b, x, mine
<1>9. \/ /\ MergedTurn(t) = <<>>
         /\ Store!MergedBody(m, AsList(theirs)) = NoTurn
         /\ Store!MergedFlag(m, AsList(theirs)) = NoMark
      \/ \E r \in Rows : /\ MergedTurn(t) = <<r>> /\ r.id = m
                         /\ r.body = Store!MergedBody(m, AsList(theirs))
                         /\ r.mark = Store!MergedFlag(m, AsList(theirs))
  <2>1. CASE m \notin Ids(turns) /\ b = x
    BY <1>2, <1>4, <1>5, <1>6, <1>7, <2>1
  <2>2. CASE m \notin Ids(turns) /\ b # x
    <3> DEFINE mark == IF b = NoTurn THEN NoMark ELSE Store!DeletedUpstream(x)
               r == [t EXCEPT !.mark = mark]
    <3>1. r \in Rows /\ r.id = m /\ r.body = x /\ r.mark = mark
      BY <1>1, <1>2, <1>8 DEF Rows, m
    <3>2. MergedTurn(t) = <<r>>
      BY <1>5, <2>2
    <3>3. Store!MergedBody(m, AsList(theirs)) = x /\ Store!MergedFlag(m, AsList(theirs)) = mark
      BY <1>4, <1>6, <1>7, <2>2
    <3> HIDE DEF r, mark
    <3> QED BY <3>1, <3>2, <3>3
  <2>3. CASE m \in Ids(turns) /\ b # NoTurn /\ Store!Decide(o, b, x) = "adopt"
    <3>1. MergedTurn(t) = <<t>>
      BY <1>4, <1>5, <2>3
    <3>2. Store!MergedBody(m, AsList(theirs)) = x /\ Store!MergedFlag(m, AsList(theirs)) = NoMark
      BY <1>4, <1>6, <1>7, <2>3
    <3> QED BY <1>1, <1>2, <3>1, <3>2 DEF m
  <2>4. CASE m \in Ids(turns) /\ ~ (b # NoTurn /\ Store!Decide(o, b, x) = "adopt")
    <3> DEFINE mark == IF b # NoTurn /\ Store!Decide(o, b, x) = "conflict" THEN Store!BothMoved(x) ELSE NoMark
               r == [mine EXCEPT !.mark = mark]
    <3>1. r \in Rows /\ r.id = m /\ r.body = o /\ r.mark = mark
      BY <1>4, <1>8, <2>4 DEF Rows
    <3>2. MergedTurn(t) = <<r>>
      BY <1>4, <1>5, <2>4
    <3>3. Store!MergedBody(m, AsList(theirs)) = o /\ Store!MergedFlag(m, AsList(theirs)) = mark
      BY <1>4, <1>6, <1>7, <2>4
    <3> HIDE DEF r, mark
    <3> QED BY <3>1, <3>2, <3>3
  <2> QED BY <2>1, <2>2, <2>3, <2>4
<1> QED BY <1>1, <1>9 DEF t, m

Mergeable(theirs) ==
  /\ GoodList(turns, Given) /\ GoodList(orig, Given) /\ GoodList(theirs, Given)
  /\ \A i \in DOMAIN theirs : theirs[i].mark = NoMark
  /\ minted \in SUBSET LocalIds

LEMMA MergedTurnForm ==
  ASSUME NEW theirs, Mergeable(theirs), NEW i \in DOMAIN theirs
  PROVE  /\ MergedTurn(theirs[i]) = <<>> \/ \E r \in Rows : MergedTurn(theirs[i]) = <<r>> /\ r.id = theirs[i].id
         /\ theirs[i].id \in Ids(theirs)
BY MergedTurnSound DEF Mergeable

OwnRow(r, anchors, theirs) ==
  \E i \in DOMAIN turns : IsOwn(i, theirs) /\ Anchor(turns, i, theirs) \in anchors /\ r = turns[i]

LEMMA PiecesSound ==
  ASSUME NEW theirs, Mergeable(theirs)
  PROVE  /\ Pieces(theirs) \in Seq(Seq(Rows)) /\ Len(Pieces(theirs)) = Len(theirs) + 3
         /\ Len(theirs) \in Nat /\ DOMAIN theirs = 1 .. Len(theirs)
         /\ Pieces(theirs)[1] = OwnBehind({"head"}, theirs)
         /\ \A i \in 1 .. Len(theirs) :
              Pieces(theirs)[i + 1] = MergedTurn(theirs[i]) \o OwnBehind({theirs[i].id}, theirs)
         /\ Pieces(theirs)[Len(theirs) + 2] = Gone(theirs)
         /\ Pieces(theirs)[Len(theirs) + 3] = OwnBehind(Ids(orig) \ Ids(theirs), theirs)
<1> DEFINE n == Len(theirs)
           first == OwnBehind({"head"}, theirs)
           mid == [i \in DOMAIN theirs |-> MergedTurn(theirs[i]) \o OwnBehind({theirs[i].id}, theirs)]
           gone == Gone(theirs)
           rest == OwnBehind(Ids(orig) \ Ids(theirs), theirs)
<1>1. n \in Nat /\ DOMAIN theirs = 1 .. n
  BY DEF Mergeable, GoodList
<1>2. \A anchors : OwnBehind(anchors, theirs) \in Seq(Rows)
  BY OwnBehindSound DEF Mergeable
<1>3. first \in Seq(Rows) /\ rest \in Seq(Rows) /\ gone \in Seq(Rows)
  BY <1>2, GoneSound DEF Mergeable
<1>4. ASSUME NEW i \in 1 .. n
      PROVE  MergedTurn(theirs[i]) \o OwnBehind({theirs[i].id}, theirs) \in Seq(Rows)
  <2>1. MergedTurn(theirs[i]) = <<>> \/ \E r \in Rows : MergedTurn(theirs[i]) = <<r>>
    BY <1>1, MergedTurnSound DEF Mergeable
  <2>2. MergedTurn(theirs[i]) \in Seq(Rows)
    <3>1. \A r \in Rows : <<r>> \in Seq(Rows)
      OBVIOUS
    <3>2. <<>> \in Seq(Rows)
      OBVIOUS
    <3> QED BY <2>1, <3>1, <3>2, Zenon
  <2>3. OwnBehind({theirs[i].id}, theirs) \in Seq(Rows)
    BY <1>2
  <2> QED BY <2>2, <2>3
<1> HIDE DEF first, rest, gone
<1>5. /\ mid \in Seq(Seq(Rows)) /\ Len(mid) = n
      /\ \A i \in 1 .. n : mid[i] = MergedTurn(theirs[i]) \o OwnBehind({theirs[i].id}, theirs)
  BY <1>1, <1>4
<1>6. Pieces(theirs) = (<<first>> \o mid) \o <<gone, rest>>
  BY DEF Pieces, first, rest, gone
<1> HIDE DEF mid, n
<1>7. <<first>> \in Seq(Seq(Rows)) /\ Len(<<first>>) = 1 /\ <<first>>[1] = first
  BY <1>3
<1> DEFINE lead == <<first>> \o mid
<1>8. /\ lead \in Seq(Seq(Rows)) /\ Len(lead) = n + 1 /\ lead[1] = first
      /\ \A i \in 1 .. n : lead[i + 1] = mid[i]
  <2>1. lead \in Seq(Seq(Rows)) /\ Len(lead) = 1 + n
    BY <1>5, <1>7, ConcatProperties
  <2>2. \A k \in 1 .. (1 + n) : lead[k] = IF k <= 1 THEN <<first>>[k] ELSE mid[k - 1]
    BY <1>5, <1>7, ConcatProperties
  <2>3. lead[1] = first
    BY <1>1, <1>7, <2>2
  <2>4. ASSUME NEW i \in 1 .. n PROVE lead[i + 1] = mid[i]
    <3>1. PICK k \in 1 .. (1 + n) : k = i + 1
      BY <1>1
    <3>2. ~ (k <= 1) /\ k - 1 = i
      BY <1>1, <3>1
    <3>3. lead[k] = mid[k - 1]
      BY <2>2, <3>2
    <3> QED BY <3>1, <3>2, <3>3
  <2> QED BY <1>1, <2>1, <2>3, <2>4
<1> HIDE DEF lead
<1>9. <<gone, rest>> \in Seq(Seq(Rows)) /\ Len(<<gone, rest>>) = 2
  BY <1>3
<1>10. lead \o <<gone, rest>> \in Seq(Seq(Rows)) /\ Len(lead \o <<gone, rest>>) = n + 3
  <2>1. lead \o <<gone, rest>> \in Seq(Seq(Rows)) /\ Len(lead \o <<gone, rest>>) = n + 1 + 2
    BY <1>8, <1>9, ConcatProperties
  <2> QED BY <1>1, <2>1
<1>11. \A k \in 1 .. (n + 1 + 2) : (lead \o <<gone, rest>>)[k]
                                    = IF k <= n + 1 THEN lead[k] ELSE <<gone, rest>>[k - (n + 1)]
  BY <1>8, <1>9, ConcatProperties, SMTT(40)
<1>12. /\ (lead \o <<gone, rest>>)[1] = first
       /\ \A i \in 1 .. n : (lead \o <<gone, rest>>)[i + 1] = mid[i]
  <2>1. 1 \in 1 .. (n + 1 + 2) /\ 1 <= n + 1
    BY <1>1
  <2>2. \A i \in 1 .. n : i + 1 \in 1 .. (n + 1 + 2) /\ i + 1 <= n + 1
    BY <1>1
  <2> QED BY <1>8, <1>11, <2>1, <2>2
<1>13. (lead \o <<gone, rest>>)[n + 2] = gone /\ (lead \o <<gone, rest>>)[n + 3] = rest
  <2>1. PICK p, q \in 1 .. (n + 1 + 2) : p = n + 2 /\ q = n + 3
    BY <1>1
  <2>2. ~ (p <= n + 1) /\ ~ (q <= n + 1) /\ p - (n + 1) = 1 /\ q - (n + 1) = 2
    BY <1>1, <2>1
  <2>3. <<gone, rest>>[1] = gone /\ <<gone, rest>>[2] = rest
    OBVIOUS
  <2>4. /\ (lead \o <<gone, rest>>)[p] = <<gone, rest>>[p - (n + 1)]
        /\ (lead \o <<gone, rest>>)[q] = <<gone, rest>>[q - (n + 1)]
    BY <1>11, <2>2
  <2> QED BY <2>1, <2>2, <2>3, <2>4
<1> QED BY <1>1, <1>5, <1>6, <1>10, <1>12, <1>13 DEF lead, first, gone, rest, n

\* What the c-th piece holds: rows of these ids, known to RisuAI's lists, and
\* the panel's own that stand behind these turns.
PieceIds(c, theirs) ==
  CASE c = 1 \/ c = Len(theirs) + 3 -> {}
    [] c = Len(theirs) + 2 -> Ids(orig) \ Ids(theirs)
    [] OTHER -> {theirs[c - 1].id}
PieceAnchors(c, theirs) ==
  CASE c = 1 -> {"head"}
    [] c = Len(theirs) + 2 -> {}
    [] c = Len(theirs) + 3 -> Ids(orig) \ Ids(theirs)
    [] OTHER -> {theirs[c - 1].id}

LEMMA PieceRows ==
  ASSUME NEW theirs, Mergeable(theirs), NEW c \in 1 .. (Len(theirs) + 3)
  PROVE  /\ EachOnce(Pieces(theirs)[c])
         /\ \A r \in ToSet(Pieces(theirs)[c]) :
              r.id \in PieceIds(c, theirs) \/ OwnRow(r, PieceAnchors(c, theirs), theirs)
         /\ \A r : OwnRow(r, PieceAnchors(c, theirs), theirs) => r \in ToSet(Pieces(theirs)[c])
         /\ PieceIds(c, theirs) \subseteq Known(theirs)
<1> DEFINE n == Len(theirs)
           known == PieceIds(c, theirs)
           anchors == PieceAnchors(c, theirs)
<1>0. /\ known = CASE c = 1 \/ c = n + 3 -> {}
                  [] c = n + 2 -> Ids(orig) \ Ids(theirs)
                  [] OTHER -> {theirs[c - 1].id}
      /\ anchors = CASE c = 1 -> {"head"}
                    [] c = n + 2 -> {}
                    [] c = n + 3 -> Ids(orig) \ Ids(theirs)
                    [] OTHER -> {theirs[c - 1].id}
      /\ c \in 1 .. (n + 3)
  BY DEF PieceIds, PieceAnchors
<1> SUFFICES /\ EachOnce(Pieces(theirs)[c])
             /\ \A r \in ToSet(Pieces(theirs)[c]) : r.id \in known \/ OwnRow(r, anchors, theirs)
             /\ \A r : OwnRow(r, anchors, theirs) => r \in ToSet(Pieces(theirs)[c])
             /\ known \subseteq Known(theirs)
  OBVIOUS
<1> HIDE DEF known, anchors
<1>1. /\ Pieces(theirs)[1] = OwnBehind({"head"}, theirs)
      /\ \A i \in 1 .. n : Pieces(theirs)[i + 1] = MergedTurn(theirs[i]) \o OwnBehind({theirs[i].id}, theirs)
      /\ Pieces(theirs)[n + 2] = Gone(theirs)
      /\ Pieces(theirs)[n + 3] = OwnBehind(Ids(orig) \ Ids(theirs), theirs)
      /\ n \in Nat /\ DOMAIN theirs = 1 .. n
  BY PiecesSound
<1> HIDE DEF n
<1>2. \A as : /\ OwnBehind(as, theirs) \in Seq(Rows) /\ EachOnce(OwnBehind(as, theirs))
              /\ \A r : r \in ToSet(OwnBehind(as, theirs)) <=> OwnRow(r, as, theirs)
  <2> TAKE as
  <2>1. /\ OwnBehind(as, theirs) \in Seq(Rows) /\ EachOnce(OwnBehind(as, theirs))
        /\ ToSet(OwnBehind(as, theirs))
             = {turns[i] : i \in {j \in DOMAIN turns : IsOwn(j, theirs) /\ Anchor(turns, j, theirs) \in as}}
    BY OwnBehindSound DEF Mergeable
  <2> QED BY <2>1 DEF OwnRow
<1>3. c = 1 \/ c = n + 2 \/ c = n + 3 \/ (c - 1 \in 1 .. n /\ c # 1 /\ c # n + 2 /\ c # n + 3)
  BY <1>0, <1>1
<1>4. CASE c = 1
  <2>1. known = {} /\ anchors = {"head"}
    BY <1>0, <1>1, <1>4
  <2> QED BY <1>1, <1>2, <1>4, <2>1
<1>5. CASE c = n + 3
  <2>1. known = {} /\ anchors = Ids(orig) \ Ids(theirs)
    BY <1>0, <1>1, <1>5
  <2> QED BY <1>1, <1>2, <1>5, <2>1
<1>6. CASE c = n + 2
  <2>1. known = Ids(orig) \ Ids(theirs) /\ anchors = {}
    BY <1>0, <1>1, <1>6
  <2>2. EachOnce(Gone(theirs)) /\ ToSet(Gone(theirs)) = {KeptRow(i) : i \in {j \in DOMAIN turns : IsKept(j, theirs)}}
    BY GoneSound DEF Mergeable
  <2>3. ASSUME NEW i \in DOMAIN turns, IsKept(i, theirs) PROVE KeptRow(i).id \in known
    <3>1. turns[i] \in Rows
      BY DEF Mergeable, GoodList
    <3>2. KeptRow(i).id = turns[i].id
      BY <3>1 DEF KeptRow, Rows
    <3> QED BY <2>1, <2>3, <3>2 DEF IsKept
  <2> QED BY <1>1, <1>6, <2>1, <2>2, <2>3 DEF OwnRow, Known
<1>7. CASE c - 1 \in 1 .. n /\ c # 1 /\ c # n + 2 /\ c # n + 3
  <2> DEFINE i == c - 1
             own == OwnBehind({theirs[i].id}, theirs)
             turn == MergedTurn(theirs[i])
             piece == Pieces(theirs)[c]
  <2>1. known = {theirs[i].id} /\ anchors = {theirs[i].id} /\ i + 1 = c /\ i \in 1 .. n
    BY <1>0, <1>1, <1>7
  <2>2. piece = turn \o own
    BY <1>1, <2>1
  <2>3. own \in Seq(Rows) /\ EachOnce(own) /\ \A r : r \in ToSet(own) <=> OwnRow(r, anchors, theirs)
    BY <1>2, <2>1
  <2>4. /\ turn = <<>> \/ \E r \in Rows : turn = <<r>> /\ r.id = theirs[i].id
        /\ theirs[i].id \in Ids(theirs)
    <3>1. PICK j \in DOMAIN theirs : j = i
      BY <1>1, <2>1
    <3> HIDE DEF i, own, turn, piece
    <3>2. GoodList(turns, Given) /\ GoodList(orig, Given) /\ GoodList(theirs, Given)
          /\ \A q \in DOMAIN theirs : theirs[q].mark = NoMark
      BY DEF Mergeable
    <3>3. LET m == theirs[j].id IN
          /\ m \in Ids(theirs)
          /\ \/ MergedTurn(theirs[j]) = <<>>
             \/ \E r \in Rows : MergedTurn(theirs[j]) = <<r>> /\ r.id = m
      BY <3>1, <3>2, MergedTurnSound
    <3> QED BY <3>1, <3>3 DEF turn
  <2>5. theirs[i].id \in Known(theirs)
    BY <2>4 DEF Known
  <2>6. \A r : OwnRow(r, anchors, theirs) => r.id \notin Known(theirs)
    BY DEF OwnRow, IsOwn
  <2> HIDE DEF own, turn, i, piece
  <2>7. CASE turn = <<>>
    <3>1. piece = own
      BY <2>2, <2>3, <2>7
    <3> QED BY <2>1, <2>3, <2>5, <3>1 DEF piece
  <2>8. CASE \E r \in Rows : turn = <<r>> /\ r.id = theirs[i].id
    <3>1. PICK r \in Rows : turn = <<r>> /\ r.id = theirs[i].id
      BY <2>8
    <3>2. /\ <<r>> \in Seq(Rows) /\ Len(<<r>>) = 1 /\ <<r>>[1] = r
          /\ Len(own) \in Nat /\ DOMAIN own = 1 .. Len(own)
      BY <2>3
    <3>3. /\ piece \in Seq(Rows) /\ Len(piece) = 1 + Len(own)
          /\ \A k \in 1 .. (1 + Len(own)) : piece[k] = IF k <= 1 THEN <<r>>[k] ELSE own[k - 1]
      BY <2>2, <2>3, <3>1, <3>2, ConcatProperties
    <3>4. DOMAIN piece = 1 .. (1 + Len(own))
      BY <3>2, <3>3
    <3>5. \A k \in 1 .. (1 + Len(own)) : (k = 1 /\ piece[k] = r) \/ (k - 1 \in 1 .. Len(own) /\ piece[k] = own[k - 1])
      BY <3>2, <3>3
    <3>6. \A q \in 1 .. Len(own) : OwnRow(own[q], anchors, theirs)
      BY <2>3, <3>2 DEF ToSet
    <3>7. EachOnce(piece)
      <4>1. \A q \in 1 .. Len(own) : own[q].id # r.id
        BY <2>5, <2>6, <3>1, <3>6
      <4>2. \A p, q \in 1 .. Len(own) : own[p].id = own[q].id => p = q
        BY <2>3, <3>2, EachOnceMeans
      <4>3. ASSUME NEW k \in 1 .. (1 + Len(own)), NEW q \in 1 .. (1 + Len(own)), piece[k].id = piece[q].id
            PROVE  k = q
        <5>1. CASE k = 1
          BY <3>2, <3>5, <4>1, <4>3, <5>1
        <5>2. CASE q = 1
          BY <3>2, <3>5, <4>1, <4>3, <5>2
        <5>3. CASE k # 1 /\ q # 1
          <6>1. PICK p \in 1 .. Len(own) : p = k - 1 /\ piece[k] = own[p]
            BY <3>5, <4>3, <5>3
          <6>2. PICK o \in 1 .. Len(own) : o = q - 1 /\ piece[q] = own[o]
            BY <3>5, <4>3, <5>3
          <6>3. p = o
            BY <4>2, <4>3, <6>1, <6>2
          <6> QED BY <3>2, <6>1, <6>2, <6>3
        <5> QED BY <5>1, <5>2, <5>3
      <4> QED BY <3>4, <4>3, EachOnceMeans
    <3>8. \A x \in ToSet(piece) : x.id \in known \/ OwnRow(x, anchors, theirs)
      <4>1. ASSUME NEW k \in 1 .. (1 + Len(own))
            PROVE  piece[k].id \in known \/ OwnRow(piece[k], anchors, theirs)
        BY <2>1, <3>1, <3>5, <3>6
      <4> QED BY <3>4, <4>1 DEF ToSet
    <3>9. \A x : OwnRow(x, anchors, theirs) => x \in ToSet(piece)
      <4> TAKE x
      <4> HAVE OwnRow(x, anchors, theirs)
      <4>1. PICK q \in 1 .. Len(own) : x = own[q]
        BY <2>3, <3>2 DEF ToSet
      <4>2. q + 1 \in 1 .. (1 + Len(own)) /\ ~ (q + 1 <= 1) /\ q + 1 - 1 = q
        BY <3>2
      <4>3. piece[q + 1] = own[q]
        BY <3>3, <4>2
      <4> QED BY <3>4, <4>1, <4>2, <4>3 DEF ToSet
    <3> QED BY <2>1, <2>5, <3>7, <3>8, <3>9 DEF piece
  <2> QED BY <2>4, <2>7, <2>8
<1> QED BY <1>3, <1>4, <1>5, <1>6, <1>7

LEMMA PiecesApart ==
  ASSUME NEW theirs, Mergeable(theirs), NEW c \in 1 .. (Len(theirs) + 3), NEW d \in 1 .. (Len(theirs) + 3), c # d
  PROVE  /\ PieceIds(c, theirs) \cap PieceIds(d, theirs) = {}
         /\ PieceAnchors(c, theirs) \cap PieceAnchors(d, theirs) = {}
<1> DEFINE n == Len(theirs)
           Inner(e) == e - 1 \in 1 .. n
<1>1. n \in Nat /\ DOMAIN theirs = 1 .. n /\ EachOnce(theirs) /\ Ids(theirs) \subseteq Given
  BY DEF Mergeable, GoodList
<1>2. \A i, j \in 1 .. n : theirs[i].id = theirs[j].id => i = j
  BY <1>1, EachOnceMeans
<1>3. \A i \in 1 .. n : theirs[i].id \in Ids(theirs)
  BY <1>1, IdsAre
<1>4. "head" \notin Ids(theirs) /\ "head" \notin Ids(orig)
  BY <1>1, RowsAssumption DEF Mergeable, GoodList, Given
<1> HIDE DEF n
<1>5. ASSUME NEW e \in 1 .. (n + 3)
      PROVE  /\ e = 1 \/ e = n + 2 \/ e = n + 3 \/ Inner(e)
             /\ e = 1 => PieceIds(e, theirs) = {} /\ PieceAnchors(e, theirs) = {"head"}
             /\ e = n + 2 => PieceIds(e, theirs) = Ids(orig) \ Ids(theirs) /\ PieceAnchors(e, theirs) = {}
             /\ e = n + 3 => PieceIds(e, theirs) = {} /\ PieceAnchors(e, theirs) = Ids(orig) \ Ids(theirs)
             /\ Inner(e) => /\ PieceIds(e, theirs) = {theirs[e - 1].id}
                            /\ PieceAnchors(e, theirs) = {theirs[e - 1].id}
                            /\ theirs[e - 1].id \in Ids(theirs)
  <2>1. e = 1 \/ e = n + 2 \/ e = n + 3 \/ Inner(e)
    BY <1>1
  <2>2. CASE e = 1
    BY <1>1, <2>2 DEF PieceIds, PieceAnchors, n
  <2>3. CASE e = n + 2
    BY <1>1, <2>3 DEF PieceIds, PieceAnchors, n
  <2>4. CASE e = n + 3
    BY <1>1, <2>4 DEF PieceIds, PieceAnchors, n
  <2>5. CASE Inner(e)
    <3>1. e # 1 /\ e # n + 2 /\ e # n + 3
      BY <1>1, <2>5
    <3> QED BY <1>3, <2>5, <3>1 DEF PieceIds, PieceAnchors, n
  <2> QED BY <2>1, <2>2, <2>3, <2>4, <2>5
<1>6. ASSUME Inner(c), Inner(d) PROVE theirs[c - 1].id # theirs[d - 1].id
  <2>1. c - 1 # d - 1
    BY <1>1 DEF n
  <2> QED BY <1>2, <1>6, <2>1
<1>7. c \in 1 .. (n + 3) /\ d \in 1 .. (n + 3)
  BY DEF n
<1> HIDE DEF Inner
<1>8. /\ c = 1 \/ c = n + 2 \/ c = n + 3 \/ Inner(c)
      /\ d = 1 \/ d = n + 2 \/ d = n + 3 \/ Inner(d)
  BY <1>5, <1>7
<1>9. CASE Inner(c) /\ Inner(d)
  BY <1>5, <1>6, <1>7, <1>9
<1>10. CASE Inner(c) /\ ~Inner(d)
  BY <1>4, <1>5, <1>7, <1>8, <1>10
<1>11. CASE ~Inner(c) /\ Inner(d)
  BY <1>4, <1>5, <1>7, <1>8, <1>11
<1>12. CASE ~Inner(c) /\ ~Inner(d)
  BY <1>4, <1>5, <1>7, <1>8, <1>12
<1> QED BY <1>9, <1>10, <1>11, <1>12

\* What a re-open leaves: each id once, and for each turn what the merge says.
LEMMA MergedSound ==
  ASSUME NEW theirs, Mergeable(theirs)
  PROVE  /\ GoodList(Merged(theirs), Given)
         /\ \A r \in ToSet(Merged(theirs)) :
              \/ \E i \in DOMAIN theirs : MergedTurn(theirs[i]) = <<r>>
              \/ \E i \in DOMAIN turns : IsKept(i, theirs) /\ r = KeptRow(i)
              \/ \E i \in DOMAIN turns : IsOwn(i, theirs) /\ r = turns[i]
         /\ \A i \in DOMAIN theirs : \A r : MergedTurn(theirs[i]) = <<r>> => r \in ToSet(Merged(theirs))
         /\ \A i \in DOMAIN turns : IsKept(i, theirs) => KeptRow(i) \in ToSet(Merged(theirs))
         /\ \A i \in DOMAIN turns : IsOwn(i, theirs) => turns[i] \in ToSet(Merged(theirs))
<1> DEFINE n == Len(theirs)
           ss == Pieces(theirs)
           out == Merged(theirs)
<1>1. /\ ss \in Seq(Seq(Rows)) /\ Len(ss) = n + 3 /\ n \in Nat /\ DOMAIN theirs = 1 .. n
      /\ ss[1] = OwnBehind({"head"}, theirs)
      /\ \A i \in 1 .. n : ss[i + 1] = MergedTurn(theirs[i]) \o OwnBehind({theirs[i].id}, theirs)
      /\ ss[n + 2] = Gone(theirs)
      /\ ss[n + 3] = OwnBehind(Ids(orig) \ Ids(theirs), theirs)
  BY PiecesSound
<1>2. \A c \in 1 .. (n + 3) :
        /\ EachOnce(ss[c])
        /\ \A r \in ToSet(ss[c]) : r.id \in PieceIds(c, theirs) \/ OwnRow(r, PieceAnchors(c, theirs), theirs)
        /\ \A r : OwnRow(r, PieceAnchors(c, theirs), theirs) => r \in ToSet(ss[c])
        /\ PieceIds(c, theirs) \subseteq Known(theirs)
  BY PieceRows
<1>3. ASSUME NEW c \in 1 .. (n + 3), NEW d \in 1 .. (n + 3), c # d
      PROVE  Ids(ss[c]) \cap Ids(ss[d]) = {}
  <2> SUFFICES ASSUME NEW r \in ToSet(ss[c]), NEW q \in ToSet(ss[d]), r.id = q.id PROVE FALSE
    BY DEF Ids
  <2>1. /\ r.id \in PieceIds(c, theirs) \/ OwnRow(r, PieceAnchors(c, theirs), theirs)
        /\ q.id \in PieceIds(d, theirs) \/ OwnRow(q, PieceAnchors(d, theirs), theirs)
        /\ PieceIds(c, theirs) \subseteq Known(theirs) /\ PieceIds(d, theirs) \subseteq Known(theirs)
    BY <1>2
  <2>2. /\ PieceIds(c, theirs) \cap PieceIds(d, theirs) = {}
        /\ PieceAnchors(c, theirs) \cap PieceAnchors(d, theirs) = {}
    BY <1>3, PiecesApart
  <2>3. \A x, as : OwnRow(x, as, theirs) => x.id \notin Known(theirs)
    BY DEF OwnRow, IsOwn
  <2>4. OwnRow(r, PieceAnchors(c, theirs), theirs) /\ OwnRow(q, PieceAnchors(d, theirs), theirs)
    BY <2>1, <2>2, <2>3
  <2>5. PICK i \in DOMAIN turns : Anchor(turns, i, theirs) \in PieceAnchors(c, theirs) /\ r = turns[i]
    BY <2>4 DEF OwnRow
  <2>6. PICK j \in DOMAIN turns : Anchor(turns, j, theirs) \in PieceAnchors(d, theirs) /\ q = turns[j]
    BY <2>4 DEF OwnRow
  <2>7. i = j
    BY <2>5, <2>6, EachOnceMeans DEF Mergeable, GoodList
  <2> QED BY <2>2, <2>5, <2>6, <2>7
<1>4. out = FlattenSeq(ss)
  BY DEF Merged
<1> HIDE DEF ss, out
<1>5. out \in Seq(Rows) /\ EachOnce(out) /\ ToSet(out) = UNION {ToSet(ss[c]) : c \in 1 .. Len(ss)}
  <2>1. Len(ss) > 0
    BY <1>1
  <2>2. \A c \in 1 .. Len(ss) : EachOnce(ss[c])
    BY <1>1, <1>2
  <2>3. \A c, d \in 1 .. Len(ss) : c # d => Ids(ss[c]) \cap Ids(ss[d]) = {}
    BY <1>1, <1>3
  <2>4. ss \in Seq(Seq(Rows))
    BY <1>1
  <2> QED BY ONLY <1>4, <2>1, <2>2, <2>3, <2>4, FlattenEachOnce
<1>6. \A c \in 1 .. (n + 3) : \A r \in ToSet(ss[c]) : r \in ToSet(out)
  BY <1>1, <1>5
<1>7. ToSet(Gone(theirs)) = {KeptRow(i) : i \in {j \in DOMAIN turns : IsKept(j, theirs)}}
  BY GoneSound DEF Mergeable
<1>8. ASSUME NEW i \in 1 .. n, NEW r, MergedTurn(theirs[i]) = <<r>>
      PROVE  r \in ToSet(ss[i + 1])
  <2>1. OwnBehind({theirs[i].id}, theirs) \in Seq(Rows)
    BY OwnBehindSound DEF Mergeable
  <2> DEFINE own == OwnBehind({theirs[i].id}, theirs)
  <2>2. ss[i + 1] = <<r>> \o own
    BY <1>1, <1>8
  <2>3. r \in Rows
    <3>1. MergedTurn(theirs[i]) = <<>> \/ \E x \in Rows : MergedTurn(theirs[i]) = <<x>>
      BY <1>1, MergedTurnForm
    <3>2. PICK x \in Rows : <<r>> = <<x>>
      BY <1>8, <3>1
    <3>3. r = x
      BY <3>2
    <3> QED BY <3>3
  <2> HIDE DEF own
  <2>4. <<r>> \in Seq(Rows) /\ own \in Seq(Rows) /\ Len(<<r>>) = 1 /\ <<r>>[1] = r /\ Len(own) \in Nat
    BY <2>1, <2>3 DEF own
  <2>5. /\ <<r>> \o own \in Seq(Rows) /\ Len(<<r>> \o own) = 1 + Len(own)
        /\ \A k \in 1 .. (1 + Len(own)) : (<<r>> \o own)[k] = IF k <= 1 THEN <<r>>[k] ELSE own[k - 1]
    BY <2>4, ConcatProperties
  <2>6. (<<r>> \o own)[1] = r /\ 1 \in DOMAIN (<<r>> \o own)
    BY <2>4, <2>5
  <2> QED BY <2>2, <2>6 DEF ToSet
<1>9. ASSUME NEW r \in ToSet(out)
      PROVE  \/ \E i \in DOMAIN theirs : MergedTurn(theirs[i]) = <<r>>
             \/ \E i \in DOMAIN turns : IsKept(i, theirs) /\ r = KeptRow(i)
             \/ \E i \in DOMAIN turns : IsOwn(i, theirs) /\ r = turns[i]
  <2>1. PICK c \in 1 .. (n + 3) : r \in ToSet(ss[c])
    BY <1>1, <1>5
  <2>2. CASE OwnRow(r, PieceAnchors(c, theirs), theirs)
    BY <2>2 DEF OwnRow
  <2>3. CASE ~OwnRow(r, PieceAnchors(c, theirs), theirs)
    <3>1. r.id \in PieceIds(c, theirs)
      BY <1>2, <2>1, <2>3
    <3>2. c = n + 2 \/ c - 1 \in 1 .. n
      <4>1. c # 1 /\ c # n + 3
        BY <3>1 DEF PieceIds
      <4> HIDE DEF n
      <4>2. c \in 1 .. (n + 3)
        BY <2>1
      <4> QED BY <1>1, <4>1, <4>2
    <3>3. CASE c = n + 2
      BY <1>1, <1>7, <2>1, <3>3
    <3>4. CASE c - 1 \in 1 .. n
      <4> DEFINE i == c - 1
                 own == OwnBehind({theirs[i].id}, theirs)
                 turn == MergedTurn(theirs[i])
      <4>1. i \in 1 .. n /\ i + 1 = c
        BY <1>1, <3>4
      <4>2. ss[c] = turn \o own
        BY <1>1, <4>1
      <4>3. own \in Seq(Rows) /\ \A x \in ToSet(own) : x.id \notin Known(theirs)
        BY OwnBehindSound DEF Mergeable, IsOwn
      <4>4. turn = <<>> \/ \E x \in Rows : turn = <<x>>
        BY <1>1, <4>1, MergedTurnForm, SMTT(40)
      <4>5. r.id \in Known(theirs)
        BY <1>2, <3>1
      <4>6. r \notin ToSet(own)
        BY <4>3, <4>5
      <4> HIDE DEF i, own, turn
      <4>7. turn # <<>>
        <5> SUFFICES ASSUME turn = <<>> PROVE FALSE
          OBVIOUS
        <5>1. ss[c] = own
          BY <4>2, <4>3
        <5> QED BY <2>1, <4>6, <5>1
      <4>8. PICK x \in Rows : turn = <<x>>
        BY <4>4, <4>7
      <4>9. <<x>> \in Seq(Rows) /\ Len(<<x>>) = 1 /\ <<x>>[1] = x /\ Len(own) \in Nat /\ DOMAIN own = 1 .. Len(own)
        BY <4>3
      <4>10. /\ <<x>> \o own \in Seq(Rows) /\ Len(<<x>> \o own) = 1 + Len(own)
             /\ \A k \in 1 .. (1 + Len(own)) : (<<x>> \o own)[k] = IF k <= 1 THEN <<x>>[k] ELSE own[k - 1]
        BY <4>3, <4>9, ConcatProperties
      <4>11. PICK k \in 1 .. (1 + Len(own)) : r = (<<x>> \o own)[k]
        <5>1. DOMAIN (<<x>> \o own) = 1 .. (1 + Len(own))
          BY <4>9, <4>10
        <5> QED BY <2>1, <4>2, <4>8, <5>1 DEF ToSet
      <4>12. k = 1
        <5> SUFFICES ASSUME k # 1 PROVE FALSE
          OBVIOUS
        <5>1. k - 1 \in 1 .. Len(own) /\ ~ (k <= 1)
          BY <4>9
        <5>2. r = own[k - 1]
          BY <4>10, <4>11, <5>1
        <5> QED BY <4>6, <4>9, <5>1, <5>2 DEF ToSet
      <4>13. r = x
        BY <4>9, <4>10, <4>11, <4>12
      <4> QED BY <1>1, <4>1, <4>8, <4>13 DEF turn
    <3> QED BY <3>2, <3>3, <3>4
  <2> QED BY <2>2, <2>3
<1>10. ASSUME NEW i \in DOMAIN theirs, NEW r, MergedTurn(theirs[i]) = <<r>>
       PROVE  r \in ToSet(out)
  <2>1. i \in 1 .. n /\ i + 1 \in 1 .. (n + 3)
    BY <1>1
  <2>2. r \in ToSet(ss[i + 1])
    BY <1>8, <1>10, <2>1
  <2> QED BY <1>6, <2>1, <2>2
<1>11. ASSUME NEW i \in DOMAIN turns, IsKept(i, theirs) PROVE KeptRow(i) \in ToSet(out)
  <2>1. n + 2 \in 1 .. (n + 3)
    BY <1>1
  <2> QED BY <1>1, <1>6, <1>7, <1>11, <2>1
<1>12. ASSUME NEW i \in DOMAIN turns, IsOwn(i, theirs) PROVE turns[i] \in ToSet(out)
  <2> DEFINE a == Anchor(turns, i, theirs)
  <2>1. a \in {"head"} \cup Ids(orig) \cup Ids(theirs)
    BY AnchorIsKnown DEF Mergeable, GoodList, Known
  <2> SUFFICES \E c \in 1 .. (n + 3) : a \in PieceAnchors(c, theirs)
    BY <1>2, <1>6, <1>12 DEF OwnRow
  <2> HIDE DEF a
  <2>2. CASE a = "head"
    <3>1. 1 \in 1 .. (n + 3) /\ PieceAnchors(1, theirs) = {"head"}
      BY <1>1 DEF PieceAnchors
    <3> QED BY <2>2, <3>1
  <2>3. CASE a \in Ids(theirs)
    <3>1. PICK j \in 1 .. n : a = theirs[j].id
      BY <1>1, <2>3, IdsAre
    <3>2. PICK c \in 1 .. (n + 3) : c = j + 1
      BY <1>1
    <3>3. c # 1 /\ c # n + 2 /\ c # n + 3 /\ c - 1 = j
      BY <1>1, <3>2, SMTT(40)
    <3>4. PieceAnchors(c, theirs) = {theirs[c - 1].id}
      BY <3>3 DEF PieceAnchors
    <3> QED BY <3>1, <3>3, <3>4
  <2>4. CASE a \in Ids(orig) \ Ids(theirs)
    <3>1. PICK c \in 1 .. (n + 3) : c = n + 3
      BY <1>1
    <3>2. c # 1 /\ c # n + 2
      BY <1>1, <3>1
    <3>3. PieceAnchors(c, theirs) = Ids(orig) \ Ids(theirs)
      BY <3>1, <3>2 DEF PieceAnchors
    <3> QED BY <2>4, <3>3
  <2> QED BY <2>1, <2>2, <2>3, <2>4
<1>13. Ids(out) \subseteq Given
  <2> SUFFICES ASSUME NEW r \in ToSet(out) PROVE r.id \in Given
    BY DEF Ids
  <2>1. CASE \E i \in DOMAIN theirs : MergedTurn(theirs[i]) = <<r>>
    <3>1. PICK i \in DOMAIN theirs : MergedTurn(theirs[i]) = <<r>>
      BY <2>1
    <3>2. /\ theirs[i].id \in Ids(theirs)
          /\ MergedTurn(theirs[i]) = <<>> \/ \E x \in Rows : MergedTurn(theirs[i]) = <<x>> /\ x.id = theirs[i].id
      BY MergedTurnSound DEF Mergeable
    <3>3. PICK x \in Rows : <<r>> = <<x>> /\ x.id = theirs[i].id
      BY <3>1, <3>2
    <3>4. r = x
      BY <3>3
    <3> QED BY <3>2, <3>3, <3>4 DEF Mergeable, GoodList
  <2>2. CASE \E i \in DOMAIN turns : IsKept(i, theirs) /\ r = KeptRow(i)
    <3>1. PICK i \in DOMAIN turns : r = KeptRow(i)
      BY <2>2
    <3>2. turns[i] \in Rows /\ turns[i].id \in Ids(turns)
      BY IdsAre DEF Mergeable, GoodList
    <3>3. r.id = turns[i].id
      BY <3>1, <3>2 DEF KeptRow, Rows
    <3> QED BY <3>2, <3>3 DEF Mergeable, GoodList
  <2>3. CASE \E i \in DOMAIN turns : IsOwn(i, theirs) /\ r = turns[i]
    BY <2>3, IdsAre DEF Mergeable, GoodList
  <2> QED BY <1>9, <2>1, <2>2, <2>3
<1> QED BY <1>5, <1>9, <1>10, <1>11, <1>12, <1>13 DEF GoodList, out

-----------------------------------------------------------------------------
(* Each request keeps the rows sound.                                      *)

LEMMA EmptyIsGood == \A ids : GoodList(<<>>, ids) /\ GoodVersions(<<>>, ids)
<1> TAKE ids
<1>1. DOMAIN <<>> = {} /\ <<>> \in Seq(Rows) /\ <<>> \in Seq(Versions)
  OBVIOUS
<1>2. EachOnce(<<>>) /\ Ids(<<>>) = {}
  BY <1>1, EachOnceMeans, IdsAre
<1> QED BY <1>1, <1>2 DEF GoodList, GoodVersions

LEMMA SoundMergeable ==
  ASSUME RowsSound, NEW theirs \in Uploads
  PROVE  Mergeable(theirs)
BY SoundMeans, UploadsAreRows DEF Mergeable

LEMMA UploadKeepsSound ==
  ASSUME RowsSound, NEW theirs \in Uploads, NEW force, NEW live, Upload(theirs, force, live)
  PROVE  RowsSound'
<1>1. GoodList(theirs, Given) /\ GoodList(Merged(theirs), Given)
  BY SoundMergeable, MergedSound DEF Mergeable
<1>2. sidecar' \in Seq(RisuIds \cup {NoExtra})
  <2>1. theirs \in Seq(Rows) /\ sidecar' = [i \in DOMAIN theirs |-> theirs[i].extra]
    BY <1>1 DEF GoodList, Upload
  <2>2. DOMAIN theirs = 1 .. Len(theirs) /\ Len(theirs) \in Nat /\ \A i \in 1 .. Len(theirs) : theirs[i] \in Rows
    BY <2>1
  <2>3. \A i \in 1 .. Len(theirs) : theirs[i].extra \in RisuIds \cup {NoExtra}
    BY <2>2, RowFields
  <2> QED BY <2>1, <2>2, <2>3
<1>3. GoodList(turns', Given) /\ orig' = theirs /\ saved' = saved /\ minted' = minted
  BY <1>1 DEF Upload
<1>4. ops' \in [Counters -> Nat]
  BY SoundMeans, TickCounts DEF Upload, Counters
<1>5. Given' = Given
  BY <1>3 DEF Given
<1> QED BY <1>1, <1>2, <1>3, <1>4, <1>5, SoundMeans, SoundMeansNext

LEMMA EditRowsKeepsSound ==
  ASSUME RowsSound, EditRows
  PROVE  RowsSound'
<1>1. /\ GoodList(turns, Given) /\ GoodList(orig, Given)
      /\ sidecar \in Seq(RisuIds \cup {NoExtra})
      /\ GoodVersions(saved, Given) /\ Len(saved) <= CheckpointKeep
      /\ minted \in SUBSET LocalIds /\ ops \in [Counters -> Nat]
  BY SoundMeans
<1>2. turns \in Seq(Rows) /\ DOMAIN turns = 1 .. Len(turns) /\ Len(turns) \in Nat /\ EachOnce(turns)
      /\ Ids(turns) \subseteq Given
  BY <1>1 DEF GoodList
\* An edit that mints nothing needs a good list of turns only.
<1>3. ASSUME Tick("edit"), RestUnchanged, minted' = minted, GoodList(turns', Given)
      PROVE  RowsSound'
  <2>1. ops' \in [Counters -> Nat]
    BY <1>1, <1>3, TickCounts DEF Counters
  <2>2. Given' = Given /\ orig' = orig /\ sidecar' = sidecar /\ saved' = saved
    BY <1>3 DEF Given, RestUnchanged
  <2> QED BY <1>1, <1>3, <2>1, <2>2, SoundMeansNext
\* One that mints an id leaves a good list of turns with it.
<1>4. ASSUME NEW m \in LocalIds, Tick("edit"), RestUnchanged, minted' = minted \cup {m},
             GoodList(turns', Given \cup {m})
      PROVE  RowsSound'
  <2>1. ops' \in [Counters -> Nat]
    BY <1>1, <1>4, TickCounts DEF Counters
  <2>2. Given' = Given \cup {m} /\ orig' = orig /\ sidecar' = sidecar /\ saved' = saved
    BY <1>4 DEF Given, RestUnchanged
  <2>3. GoodList(orig', Given') /\ GoodVersions(saved', Given')
    BY <1>1, <2>2, GoodGrows
  <2> QED BY <1>1, <1>4, <2>1, <2>2, <2>3, SoundMeansNext
<1>5. ASSUME NEW ms \in SUBSET Ids(turns), NEW texts \in [ms -> Bodies], EditBodies(ms, texts)
      PROVE  RowsSound'
  <2>1. GoodList(WithTexts(turns, ms, texts), Given)
    BY <1>1, TextsSound
  <2> QED BY <1>3, <1>5, <2>1 DEF EditBodies
<1>6. ASSUME NEW ms, DropRows(ms) PROVE RowsSound'
  <2>1. GoodList(Without(turns, ms), Given)
    BY <1>1, WithoutSound
  <2> QED BY <1>3, <1>6, <2>1 DEF DropRows
<1>7. ASSUME NEW i \in 0 .. Len(turns), NEW m \in LocalIds \ minted, NEW t \in Bodies, InsertRow(i, m, t)
      PROVE  RowsSound'
  <2>1. Row(m, t, NoExtra) \in Rows /\ Row(m, t, NoExtra).id = m
    BY RowFields DEF MsgIds, Row
  <2>2. m \notin Ids(turns)
    BY <1>2, RowsAssumption DEF Given
  <2>3. GoodList(InsertAt(turns, i + 1, Row(m, t, NoExtra)), Given \cup {m})
    BY <1>1, <2>1, <2>2, InsertGood
  <2> QED BY <1>4, <1>7, <2>3 DEF InsertRow
<1>8. ASSUME NEW i \in DOMAIN turns, NEW m \in LocalIds \ minted, NEW h \in Bodies, NEW t \in Bodies,
             SplitRow(i, m, h, t)
      PROVE  RowsSound'
  <2> DEFINE cut == [turns EXCEPT ![i].body = h]
  <2>1. Row(m, t, NoExtra) \in Rows /\ Row(m, t, NoExtra).id = m
    BY RowFields DEF MsgIds, Row
  <2>2. m \notin Ids(turns)
    BY <1>2, RowsAssumption DEF Given
  <2> DEFINE first == [turns[i] EXCEPT !.body = h]
  <2>3. first \in Rows /\ first.id = turns[i].id
    <3>1. turns[i] \in Rows
      BY <1>2
    <3> QED BY <3>1 DEF Rows
  <2>4. GoodList(cut, Given) /\ Ids(cut) = Ids(turns) /\ Len(cut) = Len(turns)
    <3>1. cut = [turns EXCEPT ![i] = first]
      OBVIOUS
    <3> HIDE DEF cut, first
    <3> QED BY <1>1, <2>3, <3>1, ReplaceGood
  <2> HIDE DEF cut
  <2>5. i \in 0 .. Len(cut)
    BY <1>2, <2>4
  <2>6. GoodList(InsertAt(cut, i + 1, Row(m, t, NoExtra)), Given \cup {m})
    BY <2>1, <2>2, <2>4, <2>5, InsertGood
  <2> QED BY <1>4, <1>8, <2>6 DEF SplitRow, cut
<1>9. ASSUME NEW ms, NEW t \in Bodies, FoldRows(ms, t) PROVE RowsSound'
  <2> DEFINE keep == turns[Min({i \in DOMAIN turns : turns[i].id \in ms})].id
             texts == [m \in {keep} |-> t]
  <2>1. GoodList(WithTexts(turns, {keep}, texts), Given)
    BY <1>1, TextsSound
  <2>2. turns' = Without(WithTexts(turns, {keep}, texts), ms \ {keep})
    BY <1>9 DEF FoldRows
  <2> HIDE DEF keep, texts
  <2>3. GoodList(turns', Given)
    BY <2>1, <2>2, WithoutSound
  <2> QED BY <1>3, <1>9, <2>3 DEF FoldRows
<1>10. ASSUME NEW i \in DOMAIN turns, KeepMine(i) PROVE RowsSound'
  <2> DEFINE row == [turns[i] EXCEPT !.mark = NoMark]
  <2>1. row \in Rows /\ row.id = turns[i].id
    <3>1. turns[i] \in Rows
      BY <1>2
    <3> QED BY <3>1 DEF Rows
  <2>2. GoodList([turns EXCEPT ![i].mark = NoMark], Given)
    <3>1. [turns EXCEPT ![i].mark = NoMark] = [turns EXCEPT ![i] = row]
      OBVIOUS
    <3> HIDE DEF row
    <3> QED BY <1>1, <2>1, <3>1, ReplaceGood
  <2> QED BY <1>3, <1>10, <2>2 DEF KeepMine
<1>11. ASSUME NEW i \in DOMAIN turns, TakeTheirs(i) PROVE RowsSound'
  <2> DEFINE m == turns[i].id
             gone == turns[i].mark.kind = "deleted-upstream"
             text == At(orig, m).body
             row == [[turns[i] EXCEPT !.body = text] EXCEPT !.mark = NoMark]
             new == [turns EXCEPT ![i] = row]
  <2>0. ASSUME GoodList(turns', Given) PROVE RowsSound'
    <3>1. GoodVersions(saved', Given) /\ Len(saved') <= CheckpointKeep
      BY <1>1, <1>11, CreatedGood DEF TakeTheirs, Kinds, Labels
    <3>2. ops' \in [Counters -> Nat] /\ Given' = Given /\ orig' = orig /\ sidecar' = sidecar /\ minted' = minted
      BY <1>1, <1>11, TickCounts DEF TakeTheirs, Counters, Given
    <3> QED BY <1>1, <2>0, <3>1, <3>2, SoundMeansNext
  <2>1. CASE gone
    <3>1. RemoveAt(turns, i) \in Seq(Rows) /\ EachOnce(RemoveAt(turns, i))
          /\ ToSet(RemoveAt(turns, i)) = {turns[k] : k \in DOMAIN turns \ {i}}
      BY <1>2, RemoveSound
    <3>2. Ids(RemoveAt(turns, i)) \subseteq Given
      BY <1>2, <3>1, IdsAre DEF Ids
    <3> QED BY <1>11, <2>0, <2>1, <3>1, <3>2 DEF TakeTheirs, GoodList
  <2>2. CASE ~gone
    <3>1. turns[i] \in Rows /\ m \in Ids(orig)
      BY <1>2, <1>11, <2>2 DEF TakeTheirs
    <3>2. text \in Bodies
      BY <1>1, <3>1, AsListAt, RowFields
    <3> HIDE DEF text, m
    <3>3. row \in Rows /\ row.id = turns[i].id
      BY <3>1, <3>2 DEF Rows
    <3>4. turns' = new
      <4>1. turns' = [turns EXCEPT ![i].body = text, ![i].mark = NoMark]
        BY <1>11, <2>2 DEF TakeTheirs, text, m
      <4> QED BY <1>2, <4>1
    <3> HIDE DEF row
    <3>5. GoodList(new, Given)
      BY <1>1, <3>3, ReplaceGood
    <3> QED BY <2>0, <3>4, <3>5
  <2> QED BY <2>1, <2>2
<1> QED BY <1>5, <1>6, <1>7, <1>8, <1>9, <1>10, <1>11 DEF EditRows

LEMMA KeepVersionsKeepsSound ==
  ASSUME RowsSound, KeepVersions
  PROVE  RowsSound'
<1>1. /\ GoodList(turns, Given) /\ GoodList(orig, Given)
      /\ sidecar \in Seq(RisuIds \cup {NoExtra})
      /\ GoodVersions(saved, Given) /\ Len(saved) <= CheckpointKeep
      /\ minted \in SUBSET LocalIds /\ ops \in [Counters -> Nat]
  BY SoundMeans
<1>2. saved \in Seq(Versions) /\ DOMAIN saved = 1 .. Len(saved) /\ Len(saved) \in Nat
      /\ \A i \in DOMAIN saved : saved[i] \in Versions /\ GoodList(saved[i].rows, Given)
  BY <1>1 DEF GoodVersions
\* A request on the checkpoints leaves the original, the sidecar and the ids alone.
<1>3. ASSUME Tick("save"), UNCHANGED <<orig, sidecar, minted>>, GoodList(turns', Given),
             GoodVersions(saved', Given), Len(saved') <= CheckpointKeep
      PROVE  RowsSound'
  <2>1. ops' \in [Counters -> Nat]
    BY <1>1, <1>3, TickCounts DEF Counters
  <2>2. Given' = Given /\ orig' = orig /\ sidecar' = sidecar /\ minted' = minted
    BY <1>3 DEF Given
  <2> QED BY <1>1, <1>3, <2>1, <2>2, SoundMeansNext
<1>4. ASSUME NEW kind \in Kinds, Checkpoint(kind, "other") PROVE RowsSound'
  <2>1. GoodVersions(Created(saved, kind, "other"), Given) /\ Len(Created(saved, kind, "other")) <= CheckpointKeep
    BY <1>1, CreatedGood DEF Labels
  <2> QED BY <1>1, <1>3, <1>4, <2>1 DEF Checkpoint
<1>5. ASSUME NEW i \in DOMAIN saved, NEW label \in Labels, RenameCheckpoint(i, label) PROVE RowsSound'
  <2> DEFINE v == [saved[i] EXCEPT !.label = label]
             new == [saved EXCEPT ![i] = v]
  <2>1. v \in Versions /\ v.rows = saved[i].rows
    <3>1. saved[i] \in Versions
      BY <1>2
    <3> QED BY <3>1 DEF Versions
  <2>2. saved' = new
    BY <1>5 DEF RenameCheckpoint
  <2> HIDE DEF v
  <2>3. new \in Seq(Versions) /\ Len(new) = Len(saved)
        /\ \A k \in DOMAIN saved : new[k] = IF k = i THEN v ELSE saved[k]
    BY <1>2, <2>1
  <2>4. DOMAIN new = DOMAIN saved
    OBVIOUS
  <2> HIDE DEF new
  <2>5. GoodVersions(new, Given)
    BY <1>2, <2>1, <2>3, <2>4 DEF GoodVersions
  <2> QED BY <1>1, <1>3, <1>5, <2>2, <2>3, <2>5 DEF RenameCheckpoint
<1>6. ASSUME NEW i \in DOMAIN saved, DeleteCheckpoint(i) PROVE RowsSound'
  <2>1. /\ RemoveAt(saved, i) \in Seq(Versions)
        /\ Len(RemoveAt(saved, i)) = Len(saved) - 1
        /\ \A k \in 1 .. (Len(saved) - 1) :
             RemoveAt(saved, i)[k] = IF k < i THEN saved[k] ELSE saved[k + 1]
    BY <1>2, RemoveAtProperties
  <2>2. ASSUME NEW k \in DOMAIN RemoveAt(saved, i) PROVE GoodList(RemoveAt(saved, i)[k].rows, Given)
    <3>1. k \in 1 .. (Len(saved) - 1) /\ k \in DOMAIN saved
      BY <1>2, <2>1, <2>2
    <3>2. PICK j \in DOMAIN saved : j = k + 1
      BY <1>2, <3>1
    <3> QED BY <1>2, <2>1, <3>1, <3>2
  <2>3. GoodVersions(RemoveAt(saved, i), Given)
    BY <2>1, <2>2 DEF GoodVersions
  <2>4. Len(RemoveAt(saved, i)) <= CheckpointKeep
    BY <1>1, <1>2, <2>1, LimitsArePositive
  <2> QED BY <1>1, <1>3, <1>6, <2>3, <2>4 DEF DeleteCheckpoint
<1>7. ASSUME NEW keep \in 0 .. CheckpointKeep, ClearCheckpoints(keep) PROVE RowsSound'
  <2>1. keep \in Nat
    BY LimitsArePositive
  <2>2. PICK I : /\ \A i \in I : i \in DOMAIN saved
                 /\ Newest(saved, {"user"}, keep) = SubList(saved, I)
    BY ONLY <1>2, <2>1, NewestProperties
  <2>3. GoodVersions(SubList(saved, I), Given) /\ Len(SubList(saved, I)) <= Len(saved)
    BY <1>1, <2>2, SubVersionsGood
  <2>4. Len(SubList(saved, I)) <= CheckpointKeep
    <3>1. Len(SubList(saved, I)) \in Nat
      BY <2>3 DEF GoodVersions
    <3> QED BY <1>1, <1>2, <2>3, <3>1, LimitsArePositive
  <2> QED BY <1>1, <1>3, <1>7, <2>2, <2>3, <2>4 DEF ClearCheckpoints
<1>8. ASSUME NEW i \in DOMAIN saved, Restore(i) PROVE RowsSound'
  <2> DEFINE I == {j \in DOMAIN saved : saved[j].kind # "auto" \/ saved[j].label # "restore"}
  <2>1. \A j \in I : j \in DOMAIN saved
    OBVIOUS
  <2>2. WithoutRestores(saved) = SubList(saved, I)
    BY DEF WithoutRestores
  <2> HIDE DEF I
  <2>3. GoodVersions(WithoutRestores(saved), Given)
    BY <1>1, <2>1, <2>2, SubVersionsGood
  <2>4. GoodVersions(Created(WithoutRestores(saved), "auto", "restore"), Given)
        /\ Len(Created(WithoutRestores(saved), "auto", "restore")) <= CheckpointKeep
    BY <2>3, CreatedGood DEF Kinds, Labels
  <2>5. saved[i].sidecar \in Seq(RisuIds \cup {NoExtra})
    <3>1. saved[i] \in Versions
      BY <1>2
    <3> QED BY <3>1 DEF Versions
  <2>6. GoodList(FromMarkdown(saved[i].rows, saved[i].sidecar), Given)
    BY <1>2, <2>5, MarkdownSound
  <2> QED BY <1>3, <1>8, <2>4, <2>6 DEF Restore
<1>9. ASSUME ResetWorking PROVE RowsSound'
  <2>1. GoodVersions(Created(saved, "auto", "other"), Given) /\ Len(Created(saved, "auto", "other")) <= CheckpointKeep
    BY <1>1, CreatedGood DEF Kinds, Labels
  <2> QED BY <1>1, <1>3, <1>9, <2>1 DEF ResetWorking
<1> QED BY <1>4, <1>5, <1>6, <1>7, <1>8, <1>9 DEF KeepVersions

(***************************************************************************)
(* Whatever is uploaded, edited, saved and given back, every list of rows, *)
(* the checkpoints' included, names a turn once, and holds no id that is   *)
(* still to be minted.                                                     *)
(***************************************************************************)
THEOREM RowsStaySound == RowsSpec => []RowsSound
<1>1. RowsInit => RowsSound
  <2> SUFFICES ASSUME RowsInit PROVE RowsSound
    OBVIOUS
  <2>1. turns = <<>> /\ orig = <<>> /\ sidecar = <<>> /\ saved = <<>> /\ minted = {}
        /\ ops \in [Counters -> Nat]
    BY DEF RowsInit
  <2>2. GoodList(<<>>, Given) /\ GoodVersions(<<>>, Given)
    BY EmptyIsGood
  <2>3. Len(<<>>) <= CheckpointKeep /\ <<>> \in Seq(RisuIds \cup {NoExtra})
    BY LimitsArePositive
  <2> QED BY <2>1, <2>2, <2>3, SoundMeans
<1>2. RowsSound /\ [RowsNext]_rowsVars => RowsSound'
  <2> SUFFICES ASSUME RowsSound, [RowsNext]_rowsVars PROVE RowsSound'
    OBVIOUS
  <2>1. CASE UNCHANGED rowsVars
    <3>1. turns' = turns /\ orig' = orig /\ sidecar' = sidecar /\ saved' = saved
          /\ minted' = minted /\ ops' = ops
      BY <2>1 DEF rowsVars
    <3>2. Given' = Given
      BY <3>1 DEF Given
    <3> QED BY <3>1, <3>2, SoundMeans, SoundMeansNext
  <2>2. CASE \E theirs \in Uploads, force, live \in BOOLEAN : Upload(theirs, force, live)
    BY <2>2, UploadKeepsSound
  <2>3. CASE EditRows
    BY <2>3, EditRowsKeepsSound
  <2>4. CASE KeepVersions
    BY <2>4, KeepVersionsKeepsSound
  <2> QED BY <2>1, <2>2, <2>3, <2>4 DEF RowsNext
<1> QED BY <1>1, <1>2, PTL DEF RowsSpec

-----------------------------------------------------------------------------
(* The rows implement TurnStore: what it reads in a list.                  *)

MarkList(list) == [m \in MsgIds |-> IF m \in Ids(list) THEN At(list, m).mark ELSE NoMark]
Snap(c) == AsList(FromMarkdown(c.rows, c.sidecar))
Snaps(list) == {Snap(c) : c \in ToSet(list)}

\* A list reads as f and g when each row agrees, and they are empty elsewhere.
LEMMA ReadsAs ==
  ASSUME NEW ids, NEW list, GoodList(list, ids), NEW f, NEW g,
         f = [m \in MsgIds |-> f[m]], g = [m \in MsgIds |-> g[m]],
         \A r \in ToSet(list) : f[r.id] = r.body /\ g[r.id] = r.mark,
         \A m \in MsgIds \ Ids(list) : f[m] = NoTurn /\ g[m] = NoMark
  PROVE  AsList(list) = f /\ MarkList(list) = g
<1>1. ASSUME NEW m \in MsgIds PROVE AsList(list)[m] = f[m] /\ MarkList(list)[m] = g[m]
  <2>1. CASE m \in Ids(list)
    <3>1. At(list, m) \in ToSet(list) /\ At(list, m).id = m /\ AsList(list)[m] = At(list, m).body
      BY <2>1, AsListAt
    <3>2. MarkList(list)[m] = At(list, m).mark
      BY <2>1 DEF MarkList
    <3> QED BY <3>1, <3>2
  <2>2. CASE m \notin Ids(list)
    BY <2>2 DEF MarkList, AsList
  <2> QED BY <2>1, <2>2
<1>2. AsList(list) = [m \in MsgIds |-> AsList(list)[m]] /\ MarkList(list) = [m \in MsgIds |-> MarkList(list)[m]]
  BY DEF AsList, MarkList
<1>3. AsList(list) = [m \in MsgIds |-> f[m]] /\ MarkList(list) = [m \in MsgIds |-> g[m]]
  BY <1>1, <1>2
<1> QED BY <1>3

\* What a row of a list reads as.
LEMMA ReadRow ==
  ASSUME NEW ids, NEW list, GoodList(list, ids)
  PROVE  /\ \A r \in ToSet(list) : /\ r.id \in MsgIds /\ r.id \in Ids(list) /\ r \in Rows
                                   /\ AsList(list)[r.id] = r.body /\ MarkList(list)[r.id] = r.mark
                                   /\ AsList(list)[r.id] # NoTurn
         /\ \A m \in MsgIds \ Ids(list) : AsList(list)[m] = NoTurn /\ MarkList(list)[m] = NoMark
         /\ \A m \in Ids(list) : m \in MsgIds /\ AsList(list)[m] # NoTurn
         /\ AsList(list) \in Store!ChatLists
         /\ AsList(list) = [m \in MsgIds |-> AsList(list)[m]]
         /\ MarkList(list) = [m \in MsgIds |-> MarkList(list)[m]]
<1>1. ASSUME NEW r \in ToSet(list)
      PROVE  /\ r.id \in MsgIds /\ r.id \in Ids(list) /\ r \in Rows
             /\ AsList(list)[r.id] = r.body /\ MarkList(list)[r.id] = r.mark
             /\ AsList(list)[r.id] # NoTurn
  <2>1. r \in Rows /\ r.id \in MsgIds /\ r.id \in Ids(list) /\ At(list, r.id) = r
    BY RowsAt
  <2> QED BY <2>1, AsListAt DEF MarkList
<1>2. \A m \in MsgIds \ Ids(list) : AsList(list)[m] = NoTurn /\ MarkList(list)[m] = NoMark
  BY DEF AsList, MarkList
<1>3. ASSUME NEW m \in Ids(list) PROVE m \in MsgIds /\ AsList(list)[m] # NoTurn
  <2>1. PICK r \in ToSet(list) : r.id = m
    BY DEF Ids
  <2> QED BY <1>1, <2>1
<1>4. AsList(list) = [m \in MsgIds |-> AsList(list)[m]] /\ MarkList(list) = [m \in MsgIds |-> MarkList(list)[m]]
  BY DEF AsList, MarkList
<1>5. \A m \in MsgIds : AsList(list)[m] \in Bodies \cup {NoTurn}
  BY AsListAt
<1>6. AsList(list) \in Store!ChatLists
  BY <1>4, <1>5 DEF Store!ChatLists, Store!Texts, Store!MsgIds, MsgIds
<1> QED BY <1>1, <1>2, <1>3, <1>4, <1>6

LEMMA EmptyReads ==
  ASSUME NEW ids, NEW list, GoodList(list, ids)
  PROVE  list = <<>> <=> AsList(list) = Store!EmptyChat
<1>1. Store!EmptyChat = [m \in MsgIds |-> NoTurn]
  BY DEF Store!EmptyChat, Store!MsgIds, MsgIds
<1>2. CASE list = <<>>
  <2>1. Ids(list) = {}
    BY <1>2, IdsAre
  <2> QED BY <1>1, <1>2, <2>1 DEF AsList
<1>3. CASE list # <<>>
  <2>1. 1 \in DOMAIN list
    BY <1>3 DEF GoodList
  <2>2. list[1].id \in Ids(list)
    BY <2>1, IdsAre
  <2> QED BY <1>1, <1>3, <2>2, ReadRow
<1> QED BY <1>2, <1>3

\* A re-open leaves of each turn what TurnStore's merge says.
LEMMA MergedReads ==
  ASSUME NEW theirs, Mergeable(theirs)
  PROVE  /\ AsList(Merged(theirs)) = [m \in MsgIds |-> Store!MergedBody(m, AsList(theirs))]
         /\ MarkList(Merged(theirs)) = [m \in MsgIds |-> Store!MergedFlag(m, AsList(theirs))]
<1> DEFINE out == Merged(theirs)
           f == [m \in MsgIds |-> Store!MergedBody(m, AsList(theirs))]
           g == [m \in MsgIds |-> Store!MergedFlag(m, AsList(theirs))]
<1>1. GoodList(turns, Given) /\ GoodList(orig, Given) /\ GoodList(theirs, Given)
  BY DEF Mergeable
<1>2. /\ GoodList(out, Given)
      /\ \A r \in ToSet(out) :
           \/ \E i \in DOMAIN theirs : MergedTurn(theirs[i]) = <<r>>
           \/ \E i \in DOMAIN turns : IsKept(i, theirs) /\ r = KeptRow(i)
           \/ \E i \in DOMAIN turns : IsOwn(i, theirs) /\ r = turns[i]
      /\ \A i \in DOMAIN theirs : \A r : MergedTurn(theirs[i]) = <<r>> => r \in ToSet(out)
      /\ \A i \in DOMAIN turns : IsKept(i, theirs) => KeptRow(i) \in ToSet(out)
      /\ \A i \in DOMAIN turns : IsOwn(i, theirs) => turns[i] \in ToSet(out)
  BY MergedSound
<1>3. ASSUME NEW i \in DOMAIN theirs
      PROVE  \/ /\ MergedTurn(theirs[i]) = <<>>
                /\ Store!MergedBody(theirs[i].id, AsList(theirs)) = NoTurn
                /\ Store!MergedFlag(theirs[i].id, AsList(theirs)) = NoMark
             \/ \E r \in Rows : /\ MergedTurn(theirs[i]) = <<r>> /\ r.id = theirs[i].id
                                /\ r.body = Store!MergedBody(theirs[i].id, AsList(theirs))
                                /\ r.mark = Store!MergedFlag(theirs[i].id, AsList(theirs))
  BY MergedTurnSound DEF Mergeable
<1>4. \A m \in MsgIds : f[m] = Store!MergedBody(m, AsList(theirs)) /\ g[m] = Store!MergedFlag(m, AsList(theirs))
  OBVIOUS
<1>5. f = [m \in MsgIds |-> f[m]] /\ g = [m \in MsgIds |-> g[m]]
  OBVIOUS
<1> HIDE DEF out, f, g
\* A turn RisuAI no longer has.
<1>6. ASSUME NEW m \in MsgIds \ Ids(theirs)
      PROVE  /\ m \in Ids(orig) => /\ f[m] = IF AsList(turns)[m] = AsList(orig)[m] THEN NoTurn ELSE AsList(turns)[m]
                                   /\ g[m] = IF AsList(turns)[m] \in {AsList(orig)[m], NoTurn} THEN NoMark
                                             ELSE Store!DeletedUpstream(NoTurn)
             /\ m \notin Ids(orig) => f[m] = AsList(turns)[m] /\ g[m] = MarkList(turns)[m]
  <2>1. AsList(theirs)[m] = NoTurn
    BY <1>1, ReadRow
  <2>2. m \in Ids(orig) => AsList(orig)[m] # NoTurn
    BY <1>1, ReadRow
  <2>3. m \notin Ids(orig) => AsList(orig)[m] = NoTurn
    BY <1>1, ReadRow
  <2>4. Marks[m] = MarkList(turns)[m]
    BY DEF Marks, MarkList
  <2>5. f[m] = IF AsList(orig)[m] # NoTurn /\ AsList(turns)[m] = AsList(orig)[m] THEN NoTurn ELSE AsList(turns)[m]
    BY <1>4, <2>1 DEF Store!MergedBody
  <2>6. AsList(orig)[m] = NoTurn => g[m] = Marks[m]
    BY <1>4, <2>1 DEF Store!MergedFlag
  <2>7. AsList(orig)[m] # NoTurn =>
          g[m] = IF AsList(turns)[m] \in {AsList(orig)[m], NoTurn} THEN NoMark ELSE Store!DeletedUpstream(NoTurn)
    BY <1>4, <2>1 DEF Store!MergedFlag, Store!NoConflict, NoMark
  <2> QED BY <2>2, <2>3, <2>4, <2>5, <2>6, <2>7
<1>7. ASSUME NEW r \in ToSet(out) PROVE f[r.id] = r.body /\ g[r.id] = r.mark
  <2>1. CASE \E i \in DOMAIN theirs : MergedTurn(theirs[i]) = <<r>>
    <3>1. PICK i \in DOMAIN theirs : MergedTurn(theirs[i]) = <<r>>
      BY <2>1
    <3>2. PICK x \in Rows : /\ MergedTurn(theirs[i]) = <<x>> /\ x.id = theirs[i].id
                            /\ x.body = Store!MergedBody(theirs[i].id, AsList(theirs))
                            /\ x.mark = Store!MergedFlag(theirs[i].id, AsList(theirs))
      BY <1>3, <3>1
    <3>3. x = r /\ x.id \in MsgIds
      BY <3>1, <3>2, RowFields
    <3> QED BY <1>4, <3>2, <3>3
  <2>2. CASE \E i \in DOMAIN turns : IsKept(i, theirs) /\ r = KeptRow(i)
    <3>1. PICK i \in DOMAIN turns : IsKept(i, theirs) /\ r = KeptRow(i)
      BY <2>2
    <3> DEFINE m == turns[i].id
    <3>2. turns[i] \in ToSet(turns)
      BY DEF ToSet
    <3>3. m \in MsgIds /\ turns[i] \in Rows /\ AsList(turns)[m] = turns[i].body /\ AsList(turns)[m] # NoTurn
      BY <1>1, <3>2, ReadRow
    <3>4. m \in Ids(orig) \ Ids(theirs) /\ turns[i].body # At(orig, m).body
      BY <3>1 DEF IsKept
    <3>5. r.id = m /\ r.body = turns[i].body /\ r.mark = Store!DeletedUpstream(NoTurn)
      BY <3>1, <3>3 DEF KeptRow, Rows
    <3>6. AsList(orig)[m] = At(orig, m).body
      BY <3>3, <3>4 DEF AsList
    <3> HIDE DEF m
    <3> QED BY <1>6, <3>3, <3>4, <3>5, <3>6
  <2>3. CASE \E i \in DOMAIN turns : IsOwn(i, theirs) /\ r = turns[i]
    <3>1. PICK i \in DOMAIN turns : IsOwn(i, theirs) /\ r = turns[i]
      BY <2>3
    <3>2. r \in ToSet(turns) /\ r.id \notin Ids(orig) /\ r.id \notin Ids(theirs)
      BY <3>1 DEF ToSet, IsOwn, Known
    <3>3. r.id \in MsgIds /\ AsList(turns)[r.id] = r.body /\ MarkList(turns)[r.id] = r.mark
      BY <1>1, <3>2, ReadRow
    <3> QED BY <1>6, <3>2, <3>3
  <2> QED BY <1>2, <2>1, <2>2, <2>3
<1>8. ASSUME NEW m \in MsgIds \ Ids(out) PROVE f[m] = NoTurn /\ g[m] = NoMark
  <2>0. \A r \in ToSet(out) : r.id # m
    BY DEF Ids
  <2>1. CASE m \in Ids(theirs)
    <3>1. PICK i \in DOMAIN theirs : theirs[i].id = m
      BY <2>1, IdsAre
    <3>2. ~ \E r \in Rows : MergedTurn(theirs[i]) = <<r>> /\ r.id = m
      BY <1>2, <2>0
    <3> QED BY <1>3, <1>4, <3>1, <3>2
  <2>2. CASE m \notin Ids(theirs)
    <3>1. CASE m \notin Ids(turns)
      <4>1. AsList(turns)[m] = NoTurn /\ MarkList(turns)[m] = NoMark
        BY <1>1, <3>1, ReadRow
      <4> QED BY <1>6, <2>2, <4>1
    <3>2. CASE m \in Ids(turns)
      <4>1. PICK i \in DOMAIN turns : turns[i].id = m
        BY <3>2, IdsAre
      <4>2. turns[i] \in Rows /\ AsList(turns)[m] = turns[i].body
        <5>1. turns[i] \in ToSet(turns)
          BY DEF ToSet
        <5> QED BY <1>1, <4>1, <5>1, ReadRow
      <4>3. ~IsOwn(i, theirs)
        BY <1>2, <2>0, <4>1
      <4>4. ~IsKept(i, theirs)
        <5>1. KeptRow(i).id = m
          BY <4>1, <4>2 DEF KeptRow, Rows
        <5> QED BY <1>2, <2>0, <5>1
      <4>5. m \in Ids(orig)
        BY <2>2, <4>1, <4>3 DEF IsOwn, Known
      <4>6. turns[i].body = At(orig, m).body
        BY <2>2, <4>1, <4>4, <4>5 DEF IsKept
      <4>7. AsList(turns)[m] = AsList(orig)[m]
        BY <4>2, <4>5, <4>6 DEF AsList
      <4> QED BY <1>6, <2>2, <4>5, <4>7
    <3> QED BY <3>1, <3>2
  <2> QED BY <2>1, <2>2
<1>9. AsList(out) = f /\ MarkList(out) = g
  BY ONLY <1>2, <1>5, <1>7, <1>8, ReadsAs
<1> QED BY <1>9 DEF out, f, g

-----------------------------------------------------------------------------
(* The rows implement TurnStore: each request.                             *)

LEMMA UploadRefines ==
  ASSUME RowsSound, NEW theirs \in Uploads, NEW force \in BOOLEAN, NEW live \in BOOLEAN,
         Upload(theirs, force, live)
  PROVE  Store!StoreNext
<1> DEFINE list == AsList(theirs)
<1>1. Mergeable(theirs)
  BY SoundMergeable
<1>2. /\ GoodList(turns, Given) /\ GoodList(orig, Given) /\ GoodList(theirs, Given)
      /\ \A i \in DOMAIN theirs : theirs[i].mark = NoMark
      /\ turns \in Seq(Rows) /\ orig \in Seq(Rows)
  BY <1>1 DEF Mergeable, GoodList
<1>3. list \in Store!Sendable
  <2>1. ASSUME NEW m \in LocalIds \ minted PROVE list[m] = NoTurn
    <3>1. m \in MsgIds /\ m \notin Given
      BY RowsAssumption DEF MsgIds, Given
    <3>2. m \notin Ids(theirs)
      BY <1>2, <3>1 DEF GoodList
    <3> QED BY <1>2, <3>1, <3>2, ReadRow
  <2>2. list \in Store!ChatLists
    BY <1>2, ReadRow
  <2> QED BY <2>1, <2>2 DEF Store!Sendable, Store!OnlyMinted
<1>4. ~Store!Refused(list, force, live)
  <2>1. theirs = <<>> <=> list = Store!EmptyChat
    BY <1>2, EmptyReads
  <2> QED BY <2>1 DEF Upload, Store!Refused
<1>5. Store!Exists <=> turns \o orig # <<>>
  <2>1. Store!Exists <=> AsList(turns) # Store!EmptyChat \/ AsList(orig) # Store!EmptyChat
    <3>1. Store!EmptyChat = [m \in MsgIds |-> NoTurn]
      BY DEF Store!EmptyChat, Store!MsgIds, MsgIds
    <3>2. AsList(turns) = [m \in MsgIds |-> AsList(turns)[m]] /\ AsList(orig) = [m \in MsgIds |-> AsList(orig)[m]]
      BY <1>2, ReadRow
    <3>3. Store!Exists <=> \E m \in MsgIds : AsList(turns)[m] # NoTurn \/ AsList(orig)[m] # NoTurn
      BY DEF Store!Exists, Store!MsgIds, MsgIds
    <3> QED BY <3>1, <3>2, <3>3
  <2>2. (turns = <<>> <=> AsList(turns) = Store!EmptyChat) /\ (orig = <<>> <=> AsList(orig) = Store!EmptyChat)
    BY <1>2, EmptyReads
  <2>3. turns \o orig = <<>> <=> turns = <<>> /\ orig = <<>>
    BY <1>2
  <2> QED BY <2>1, <2>2, <2>3
<1>6. orig' = theirs /\ saved' = saved /\ minted' = minted
      /\ turns' = IF force \/ turns \o orig = <<>> THEN theirs ELSE Merged(theirs)
  BY DEF Upload
<1>7. Marks' = MarkList(turns')
  BY DEF Marks, MarkList
<1>8. CASE force \/ ~Store!Exists
  <2>1. turns' = theirs
    BY <1>5, <1>6, <1>8
  <2>2. MarkList(theirs) = Store!NoFlags
    <3>1. ASSUME NEW m \in MsgIds PROVE MarkList(theirs)[m] = NoMark
      <4>1. ASSUME m \in Ids(theirs) PROVE At(theirs, m).mark = NoMark
        <5>1. \E i \in DOMAIN theirs : At(theirs, m) = theirs[i]
          BY <1>2, <4>1, AsListAt
        <5> QED BY <1>2, <5>1
      <4> QED BY <4>1 DEF MarkList
    <3> QED BY <3>1 DEF MarkList, Store!NoFlags, Store!NoConflict, NoMark, Store!MsgIds, MsgIds
  <2>3. Store!LoadWhole(list)
    BY <1>7, <2>1, <2>2 DEF Store!LoadWhole
  <2>4. Store!Ingest(list, force, live)
    BY <1>4, <1>6, <1>8, <2>3 DEF Store!Ingest
  <2> QED BY <1>3, <2>4 DEF Store!StoreNext
<1>9. CASE ~ (force \/ ~Store!Exists)
  <2>1. turns' = Merged(theirs)
    BY <1>5, <1>6, <1>9
  <2>2. Store!MergeIn(list)
    BY <1>1, <1>7, <2>1, MergedReads DEF Store!MergeIn, Store!MsgIds, MsgIds
  <2>3. Store!Ingest(list, force, live)
    BY <1>4, <1>6, <1>9, <2>2 DEF Store!Ingest
  <2> QED BY <1>3, <2>3 DEF Store!StoreNext
<1> QED BY <1>8, <1>9

\* How a list reads once some of its rows have other texts, or have left.
LEMMA TextsRead ==
  ASSUME NEW ids, NEW list, GoodList(list, ids), NEW ms, NEW texts,
         \A m \in ms \cap Ids(list) : texts[m] \in Bodies, ms \subseteq Ids(list)
  PROVE  /\ AsList(WithTexts(list, ms, texts)) = [m \in MsgIds |-> IF m \in ms THEN texts[m] ELSE AsList(list)[m]]
         /\ MarkList(WithTexts(list, ms, texts)) = MarkList(list)
         /\ Ids(WithTexts(list, ms, texts)) = Ids(list)
<1> DEFINE new == WithTexts(list, ms, texts)
           f == [m \in MsgIds |-> IF m \in ms THEN texts[m] ELSE AsList(list)[m]]
           g == MarkList(list)
<1>1. /\ GoodList(new, ids) /\ Len(new) = Len(list)
      /\ \A i \in 1 .. Len(list) : /\ new[i].id = list[i].id
                                   /\ new[i].body = IF list[i].id \in ms THEN texts[list[i].id] ELSE list[i].body
                                   /\ new[i].mark = list[i].mark
  BY TextsSound
<1>2. g = [m \in MsgIds |-> g[m]] /\ f = [m \in MsgIds |-> f[m]]
  BY ReadRow
<1>3. \A m \in MsgIds : f[m] = IF m \in ms THEN texts[m] ELSE AsList(list)[m]
  OBVIOUS
<1> HIDE DEF new, f, g
<1>4. list \in Seq(Rows) /\ new \in Seq(Rows)
  BY <1>1 DEF GoodList
<1>5. Ids(new) = Ids(list)
  BY <1>1, <1>4, SameIds DEF GoodList
<1>6. ASSUME NEW r \in ToSet(new) PROVE f[r.id] = r.body /\ g[r.id] = r.mark
  <2>1. PICK i \in 1 .. Len(list) : r = new[i]
    BY <1>1, <1>4 DEF ToSet
  <2>2. list[i] \in ToSet(list)
    BY <1>4 DEF ToSet
  <2>3. list[i].id \in MsgIds /\ AsList(list)[list[i].id] = list[i].body /\ g[list[i].id] = list[i].mark
    BY <2>2, ReadRow DEF g
  <2> QED BY <1>1, <1>3, <2>1, <2>3
<1>7. \A m \in MsgIds \ Ids(new) : f[m] = NoTurn /\ g[m] = NoMark
  BY <1>3, <1>5, ReadRow DEF g
<1>8. AsList(new) = f /\ MarkList(new) = g
  BY ONLY <1>1, <1>2, <1>6, <1>7, ReadsAs
<1> QED BY <1>5, <1>8 DEF new, f, g

LEMMA WithoutReads ==
  ASSUME NEW ids, NEW list, GoodList(list, ids), NEW ms
  PROVE  /\ AsList(Without(list, ms)) = [m \in MsgIds |-> IF m \in ms THEN NoTurn ELSE AsList(list)[m]]
         /\ MarkList(Without(list, ms)) = [m \in MsgIds |-> IF m \in ms THEN NoMark ELSE MarkList(list)[m]]
<1> DEFINE new == Without(list, ms)
           f == [m \in MsgIds |-> IF m \in ms THEN NoTurn ELSE AsList(list)[m]]
           g == [m \in MsgIds |-> IF m \in ms THEN NoMark ELSE MarkList(list)[m]]
<1>1. /\ GoodList(new, ids) /\ ToSet(new) = {r \in ToSet(list) : r.id \notin ms}
      /\ Ids(new) = Ids(list) \ ms
  BY WithoutSound
<1>2. f = [m \in MsgIds |-> f[m]] /\ g = [m \in MsgIds |-> g[m]]
  OBVIOUS
<1>3. \A m \in MsgIds : /\ f[m] = IF m \in ms THEN NoTurn ELSE AsList(list)[m]
                        /\ g[m] = IF m \in ms THEN NoMark ELSE MarkList(list)[m]
  OBVIOUS
<1> HIDE DEF new, f, g
<1>4. \A r \in ToSet(new) : f[r.id] = r.body /\ g[r.id] = r.mark
  BY <1>1, <1>3, ReadRow
<1>5. \A m \in MsgIds \ Ids(new) : f[m] = NoTurn /\ g[m] = NoMark
  BY <1>1, <1>3, ReadRow
<1>6. AsList(new) = f /\ MarkList(new) = g
  BY ONLY <1>1, <1>2, <1>4, <1>5, ReadsAs
<1> QED BY <1>6 DEF new, f, g

LEMMA InsertReads ==
  ASSUME NEW ids, NEW list, GoodList(list, ids), NEW i \in 0 .. Len(list), NEW m \in MsgIds, NEW t \in Bodies,
         m \notin Ids(list)
  PROVE  /\ AsList(InsertAt(list, i + 1, Row(m, t, NoExtra))) = [AsList(list) EXCEPT ![m] = t]
         /\ MarkList(InsertAt(list, i + 1, Row(m, t, NoExtra))) = MarkList(list)
<1> DEFINE r == Row(m, t, NoExtra)
           new == InsertAt(list, i + 1, r)
           f == [AsList(list) EXCEPT ![m] = t]
           g == MarkList(list)
<1>1. r \in Rows /\ r.id = m /\ r.body = t /\ r.mark = NoMark
  BY RowFields DEF Row
<1>2. f = [n \in MsgIds |-> f[n]] /\ g = [n \in MsgIds |-> g[n]]
      /\ \A n \in MsgIds : f[n] = IF n = m THEN t ELSE AsList(list)[n]
  BY ReadRow
<1> HIDE DEF r, f, g
<1>3. GoodList(new, ids \cup {m})
  BY <1>1, InsertGood
<1>4. ToSet(new) = ToSet(list) \cup {r}
  <2>1. list \in Seq(Rows)
    BY DEF GoodList
  <2> QED BY <1>1, <2>1, InsertSound
<1> HIDE DEF new
<1>5. Ids(new) = Ids(list) \cup {m}
  BY <1>1, <1>4 DEF Ids
<1>6. ASSUME NEW x \in ToSet(new) PROVE f[x.id] = x.body /\ g[x.id] = x.mark
  <2>1. CASE x = r
    BY <1>1, <1>2, <2>1, ReadRow DEF g
  <2>2. CASE x \in ToSet(list)
    BY <1>2, <2>2, ReadRow DEF g
  <2> QED BY <1>4, <2>1, <2>2
<1>7. \A n \in MsgIds \ Ids(new) : f[n] = NoTurn /\ g[n] = NoMark
  BY <1>2, <1>5, ReadRow DEF g
<1>8. AsList(new) = f /\ MarkList(new) = g
  BY ONLY <1>2, <1>3, <1>6, <1>7, ReadsAs
<1> QED BY <1>8 DEF new, f, g, r

LEMMA ReplaceReads ==
  ASSUME NEW ids, NEW list, GoodList(list, ids), NEW i \in DOMAIN list, NEW r \in Rows, r.id = list[i].id
  PROVE  /\ AsList([list EXCEPT ![i] = r]) = [AsList(list) EXCEPT ![r.id] = r.body]
         /\ MarkList([list EXCEPT ![i] = r]) = [MarkList(list) EXCEPT ![r.id] = r.mark]
<1> DEFINE new == [list EXCEPT ![i] = r]
           f == [AsList(list) EXCEPT ![r.id] = r.body]
           g == [MarkList(list) EXCEPT ![r.id] = r.mark]
<1>1. /\ GoodList(new, ids) /\ Ids(new) = Ids(list) /\ Len(new) = Len(list)
      /\ \A k \in DOMAIN list : new[k] = IF k = i THEN r ELSE list[k]
  BY ReplaceGood
<1>2. /\ f = [n \in MsgIds |-> f[n]] /\ g = [n \in MsgIds |-> g[n]]
      /\ \A n \in MsgIds : /\ f[n] = IF n = r.id THEN r.body ELSE AsList(list)[n]
                           /\ g[n] = IF n = r.id THEN r.mark ELSE MarkList(list)[n]
  BY ReadRow
<1>3. DOMAIN new = DOMAIN list /\ r.id \in MsgIds /\ EachOnce(list)
  BY RowFields DEF GoodList
<1> HIDE DEF new, f, g
<1>4. ASSUME NEW x \in ToSet(new) PROVE f[x.id] = x.body /\ g[x.id] = x.mark
  <2>1. PICK k \in DOMAIN list : x = IF k = i THEN r ELSE list[k]
    BY <1>1, <1>3 DEF ToSet
  <2>2. CASE k = i
    BY <1>2, <1>3, <2>1, <2>2
  <2>3. CASE k # i
    <3>1. x = list[k] /\ x \in ToSet(list) /\ x.id # r.id
      BY <1>3, <2>1, <2>3, EachOnceMeans DEF ToSet
    <3> QED BY <1>2, <3>1, ReadRow
  <2> QED BY <2>2, <2>3
<1>5. \A n \in MsgIds \ Ids(new) : f[n] = NoTurn /\ g[n] = NoMark
  <2>1. r.id \in Ids(list)
    BY IdsAre
  <2> QED BY <1>1, <1>2, <2>1, ReadRow
<1>6. AsList(new) = f /\ MarkList(new) = g
  BY ONLY <1>1, <1>2, <1>4, <1>5, ReadsAs
<1> QED BY <1>6 DEF new, f, g

LEMMA RemoveReads ==
  ASSUME NEW ids, NEW list, GoodList(list, ids), NEW i \in DOMAIN list
  PROVE  /\ AsList(RemoveAt(list, i)) = [AsList(list) EXCEPT ![list[i].id] = NoTurn]
         /\ MarkList(RemoveAt(list, i)) = [MarkList(list) EXCEPT ![list[i].id] = NoMark]
<1> DEFINE new == RemoveAt(list, i)
           m == list[i].id
           f == [AsList(list) EXCEPT ![m] = NoTurn]
           g == [MarkList(list) EXCEPT ![m] = NoMark]
<1>1. list \in Seq(Rows) /\ EachOnce(list) /\ Ids(list) \subseteq ids /\ i \in 1 .. Len(list)
  BY DEF GoodList
<1>2. new \in Seq(Rows) /\ EachOnce(new) /\ ToSet(new) = {list[k] : k \in DOMAIN list \ {i}}
  BY <1>1, RemoveSound
<1>3. /\ f = [n \in MsgIds |-> f[n]] /\ g = [n \in MsgIds |-> g[n]]
      /\ \A n \in MsgIds : /\ f[n] = IF n = m THEN NoTurn ELSE AsList(list)[n]
                           /\ g[n] = IF n = m THEN NoMark ELSE MarkList(list)[n]
  BY ReadRow
<1> HIDE DEF new, f, g
<1>4. Ids(new) = Ids(list) \ {m}
  <2>1. \A k \in DOMAIN list : list[k].id = m => k = i
    BY <1>1, EachOnceMeans
  <2>2. Ids(new) = {list[k].id : k \in DOMAIN list \ {i}}
    BY <1>2 DEF Ids
  <2> QED BY <2>1, <2>2, IdsAre
<1>5. GoodList(new, ids)
  BY <1>1, <1>2, <1>4 DEF GoodList
<1>6. ASSUME NEW x \in ToSet(new) PROVE f[x.id] = x.body /\ g[x.id] = x.mark
  <2>1. PICK k \in DOMAIN list \ {i} : x = list[k]
    BY <1>2
  <2>2. x \in ToSet(list) /\ x.id # m
    BY <1>1, <2>1, EachOnceMeans DEF ToSet
  <2> QED BY <1>3, <2>2, ReadRow
<1>7. \A n \in MsgIds \ Ids(new) : f[n] = NoTurn /\ g[n] = NoMark
  BY <1>3, <1>4, ReadRow
<1>8. AsList(new) = f /\ MarkList(new) = g
  BY ONLY <1>3, <1>5, <1>6, <1>7, ReadsAs
<1> QED BY <1>8 DEF new, f, g, m

\* create() takes TurnStore's snapshot, from any list of versions kept.
LEMMA SnapshotTaken ==
  ASSUME RowsSound, NEW list, GoodVersions(list, Given), ToSet(list) \subseteq ToSet(saved),
         NEW kind \in Kinds, NEW label \in Labels, saved' = Created(list, kind, label)
  PROVE  Store!TakeSnapshot
<1> DEFINE out == Created(list, kind, label)
           n == Len(out)
           new == Store!InMarkdown(AsList(turns))
<1>1. turns \in Seq(Rows) /\ sidecar \in Seq(RisuIds \cup {NoExtra}) /\ GoodList(turns, Given)
      /\ list \in Seq(Versions)
  BY SoundMeans DEF GoodList, GoodVersions
<1>2. /\ out \in Seq(Versions) /\ n > 0 /\ n <= CheckpointKeep
      /\ out[n] = NewVersion(kind, label)
      /\ \A k \in 1 .. (n - 1) : \E i \in DOMAIN list : out[k] = list[i]
  BY <1>1, CreatedProperties
\* The version just put into the list gives the turns back as Markdown.
<1>3. Snap(out[n]) = new
  <2> DEFINE back == FromMarkdown(turns, sidecar)
  <2>1. /\ GoodList(back, Given) /\ Len(back) = Len(turns)
        /\ \A i \in 1 .. Len(turns) : /\ back[i].id = turns[i].id
                                      /\ back[i].body = Markdown[turns[i].body]
                                      /\ back[i].mark = NoMark
    BY <1>1, MarkdownSound
  <2>2. Snap(out[n]) = AsList(back)
    BY <1>2 DEF Snap, NewVersion
  <2>3. /\ new = [m \in MsgIds |-> new[m]]
        /\ \A m \in MsgIds : new[m] = IF AsList(turns)[m] = NoTurn THEN NoTurn ELSE Markdown[AsList(turns)[m]]
    BY DEF Store!InMarkdown, Store!MsgIds, MsgIds
  <2> HIDE DEF back, new, out, n
  <2> DEFINE g == [m \in MsgIds |-> NoMark]
  <2>4. g = [m \in MsgIds |-> g[m]] /\ \A m \in MsgIds : g[m] = NoMark
    OBVIOUS
  <2> HIDE DEF g
  <2>5. back \in Seq(Rows)
    BY <2>1 DEF GoodList
  <2>6. ASSUME NEW r \in ToSet(back) PROVE new[r.id] = r.body /\ g[r.id] = r.mark
    <3>1. PICK i \in 1 .. Len(turns) : r = back[i]
      BY <2>1, <2>5 DEF ToSet
    <3>2. turns[i] \in ToSet(turns)
      BY <1>1 DEF ToSet
    <3>3. turns[i].id \in MsgIds /\ AsList(turns)[turns[i].id] = turns[i].body
          /\ AsList(turns)[turns[i].id] # NoTurn
      BY <1>1, <3>2, ReadRow
    <3> QED BY <2>1, <2>3, <2>4, <3>1, <3>3
  <2>7. Ids(back) = Ids(turns)
    BY <1>1, <2>1, <2>5, SameIds
  <2>8. \A m \in MsgIds \ Ids(back) : new[m] = NoTurn /\ g[m] = NoMark
    BY <1>1, <2>3, <2>4, <2>7, ReadRow
  <2>9. AsList(back) = new
    BY ONLY <2>1, <2>3, <2>4, <2>6, <2>8, ReadsAs
  <2> QED BY <2>2, <2>9
<1> HIDE DEF out, n, new
<1>4. n \in Nat /\ DOMAIN out = 1 .. n
  BY <1>2 DEF n
<1> DEFINE kept == {Snap(out[k]) : k \in 1 .. (n - 1)}
<1>5. kept \subseteq Snaps(saved)
  <2> SUFFICES ASSUME NEW k \in 1 .. (n - 1) PROVE Snap(out[k]) \in Snaps(saved)
    OBVIOUS
  <2>1. PICK i \in DOMAIN list : out[k] = list[i]
    BY <1>2
  <2>2. out[k] \in ToSet(saved)
    BY <2>1 DEF ToSet
  <2> QED BY <2>2 DEF Snaps
<1>6. Snaps(out) = {Snap(out[k]) : k \in 1 .. n}
  BY <1>4 DEF Snaps, ToSet
<1>7. Snaps(out) = kept \cup {new}
  <2>1. \A k \in 1 .. n : k \in 1 .. (n - 1) \/ k = n
    BY <1>4
  <2>2. n \in 1 .. n /\ \A k \in 1 .. (n - 1) : k \in 1 .. n
    BY <1>2, <1>4
  <2> QED BY <1>3, <1>6, <2>1, <2>2
<1>8. Cardinality(Snaps(out)) <= CheckpointKeep
  <2> DEFINE f == [k \in 1 .. n |-> Snap(out[k])]
  <2>1. IsFiniteSet(1 .. n) /\ Cardinality(1 .. n) = n
    <3>1. 1 \in Int /\ n \in Int
      BY <1>4
    <3>2. IsFiniteSet(1 .. n) /\ Cardinality(1 .. n) = IF 1 > n THEN 0 ELSE n - 1 + 1
      BY <3>1, FS_Interval
    <3> QED BY <1>2, <1>4, <3>2
  <2>2. \A k \in 1 .. n : f[k] = Snap(out[k])
    OBVIOUS
  <2> HIDE DEF f
  <2>3. /\ \A k \in 1 .. n : f[k] \in Snaps(out)
        /\ \A s \in Snaps(out) : \E k \in 1 .. n : f[k] = s
    BY <1>6, <2>2
  <2>4. IsFiniteSet(Snaps(out)) /\ Cardinality(Snaps(out)) <= Cardinality(1 .. n)
    BY ONLY <2>1, <2>3, ImageCardinality
  <2>5. Cardinality(Snaps(out)) \in Nat
    BY <2>4, FS_CardinalityType
  <2> QED BY <1>2, <1>4, <2>1, <2>4, <2>5, LimitsArePositive
<1>9. saved' = out
  BY DEF out
<1>10. /\ Snaps(saved) = {AsList(FromMarkdown(c.rows, c.sidecar)) : c \in ToSet(saved)}
       /\ Snaps(out) = {AsList(FromMarkdown(c.rows, c.sidecar)) : c \in ToSet(out)}
  BY DEF Snaps, Snap
<1> HIDE DEF kept
<1>11. {AsList(FromMarkdown(c.rows, c.sidecar)) : c \in ToSet(saved')} = kept \cup {new}
  BY <1>7, <1>9, <1>10
<1>12. Cardinality({AsList(FromMarkdown(c.rows, c.sidecar)) : c \in ToSet(saved')}) <= CheckpointKeep
  BY <1>8, <1>9, <1>10
<1>13. kept \in SUBSET {AsList(FromMarkdown(c.rows, c.sidecar)) : c \in ToSet(saved)}
  BY <1>5, <1>10
<1>14. \A S : Store!Cardinality(S) = Cardinality(S)
  BY Zenon DEF Store!Cardinality, Cardinality
<1> QED BY <1>11, <1>12, <1>13, <1>14, Zenon DEF Store!TakeSnapshot, new

LEMMA EditRowsRefines ==
  ASSUME RowsSound, EditRows
  PROVE  Store!StoreNext
<1>1. /\ GoodList(turns, Given) /\ GoodList(orig, Given) /\ GoodVersions(saved, Given)
      /\ minted \in SUBSET LocalIds
  BY SoundMeans
<1>2. turns \in Seq(Rows) /\ DOMAIN turns = 1 .. Len(turns) /\ Len(turns) \in Nat /\ EachOnce(turns)
      /\ Ids(turns) \subseteq Given /\ Ids(turns) \subseteq MsgIds
      /\ \A i \in DOMAIN turns : turns[i] \in Rows /\ turns[i].id \in Ids(turns)
  <2>1. turns \in Seq(Rows) /\ EachOnce(turns) /\ Ids(turns) \subseteq Given
    BY <1>1 DEF GoodList
  <2>2. DOMAIN turns = 1 .. Len(turns) /\ Len(turns) \in Nat /\ \A i \in DOMAIN turns : turns[i] \in Rows
    BY <2>1
  <2>3. \A m \in Ids(turns) : m \in MsgIds
    BY <1>1, ReadRow
  <2>4. \A i \in DOMAIN turns : turns[i].id \in Ids(turns)
    BY IdsAre
  <2> QED BY <2>1, <2>2, <2>3, <2>4
<1>3. Marks = MarkList(turns) /\ Marks' = MarkList(turns')
  BY DEF Marks, MarkList
<1>4. \A m \in Ids(turns) : AsList(turns)[m] # NoTurn
  BY <1>1, ReadRow
<1>5. Store!MsgIds = MsgIds /\ Store!NoConflict = NoMark
  BY DEF Store!MsgIds, MsgIds, Store!NoConflict, NoMark
<1>6. \A ms : Store!DropMarks(ms) <=> Marks' = [m \in MsgIds |-> IF m \in ms THEN NoMark ELSE Marks[m]]
  BY <1>5 DEF Store!DropMarks
<1>7. MarkList(turns) = [m \in MsgIds |-> MarkList(turns)[m]] /\ AsList(turns) = [m \in MsgIds |-> AsList(turns)[m]]
  BY <1>1, ReadRow
<1>8. ASSUME NEW ms \in SUBSET Ids(turns), ms # {}, NEW texts \in [ms -> Bodies], EditBodies(ms, texts)
      PROVE  Store!StoreNext
  <2>1. /\ AsList(turns') = [m \in MsgIds |-> IF m \in ms THEN texts[m] ELSE AsList(turns)[m]]
        /\ MarkList(turns') = MarkList(turns)
    BY <1>1, <1>8, TextsRead DEF EditBodies
  <2>2. Store!BulkSet(ms, texts)
    BY <1>3, <1>4, <1>5, <1>8, <2>1 DEF Store!BulkSet, EditBodies, RestUnchanged
  <2>3. ms \in SUBSET MsgIds
    BY <1>2
  <2> QED BY <1>5, <2>2, <2>3 DEF Store!StoreNext, Store!LocalEdit
<1>9. ASSUME NEW ms \in SUBSET Ids(turns), ms # {}, DropRows(ms) PROVE Store!StoreNext
  <2>1. /\ AsList(turns') = [m \in MsgIds |-> IF m \in ms THEN NoTurn ELSE AsList(turns)[m]]
        /\ MarkList(turns') = [m \in MsgIds |-> IF m \in ms THEN NoMark ELSE MarkList(turns)[m]]
    BY <1>1, <1>9, WithoutReads DEF DropRows
  <2>2. Store!DropMarks(ms)
    BY <1>3, <1>6, <2>1
  <2>3. Store!DeleteTurns(ms)
    BY <1>4, <1>5, <1>9, <2>1, <2>2 DEF Store!DeleteTurns, DropRows, RestUnchanged
  <2>4. ms \in SUBSET MsgIds
    BY <1>2
  <2> QED BY <1>5, <2>3, <2>4 DEF Store!StoreNext, Store!LocalEdit
<1>10. ASSUME NEW i \in 0 .. Len(turns), NEW m \in LocalIds \ minted, NEW t \in Bodies, InsertRow(i, m, t)
       PROVE  Store!StoreNext
  <2>1. m \notin Ids(turns) /\ m \in MsgIds
    BY <1>2, RowsAssumption DEF Given, MsgIds
  <2>2. AsList(turns') = [AsList(turns) EXCEPT ![m] = t] /\ MarkList(turns') = MarkList(turns)
    BY <1>1, <1>10, <2>1, InsertReads DEF InsertRow
  <2>3. Store!InsertTurn(m, t)
    BY <1>3, <1>10, <2>2 DEF Store!InsertTurn, Store!PutBody, InsertRow, RestUnchanged
  <2> QED BY <2>3 DEF Store!StoreNext, Store!LocalEdit
<1>11. ASSUME NEW i \in DOMAIN turns, NEW m \in LocalIds \ minted, NEW h \in Bodies, NEW t \in Bodies,
              SplitRow(i, m, h, t)
       PROVE  Store!StoreNext
  <2> DEFINE first == [turns[i] EXCEPT !.body = h]
             cut == [turns EXCEPT ![i] = first]
             own == turns[i].id
  <2>1. m \notin Ids(turns) /\ m \in MsgIds
    BY <1>2, RowsAssumption DEF Given, MsgIds
  <2>2. first \in Rows /\ first.id = own /\ first.body = h /\ first.mark = turns[i].mark
    <3>1. turns[i] \in Rows
      BY <1>2
    <3> QED BY <3>1 DEF Rows
  <2>3. turns' = InsertAt(cut, i + 1, Row(m, t, NoExtra))
    BY <1>11 DEF SplitRow
  <2>4. own \in Ids(turns) /\ own \in MsgIds /\ MarkList(turns)[own] = turns[i].mark
    <3>1. turns[i] \in ToSet(turns)
      BY DEF ToSet
    <3> QED BY <1>1, <3>1, ReadRow
  <2> HIDE DEF first
  <2>5. GoodList(cut, Given) /\ Ids(cut) = Ids(turns) /\ Len(cut) = Len(turns)
    BY <1>1, <2>2, ReplaceGood
  <2>6. AsList(cut) = [AsList(turns) EXCEPT ![own] = h] /\ MarkList(cut) = [MarkList(turns) EXCEPT ![own] = turns[i].mark]
    BY <1>1, <2>2, ReplaceReads
  <2>7. i \in 0 .. Len(cut)
    BY <1>2, <2>5
  <2> HIDE DEF cut, own
  <2>8. AsList(turns') = [AsList(cut) EXCEPT ![m] = t] /\ MarkList(turns') = MarkList(cut)
    BY <2>1, <2>3, <2>5, <2>7, InsertReads
  <2>9. AsList(turns') = [AsList(turns) EXCEPT ![own] = h, ![m] = t]
    BY <2>6, <2>8
  <2>10. MarkList(turns') = MarkList(turns)
    BY <1>7, <2>4, <2>6, <2>8
  <2>11. own # m
    BY <2>1, <2>4
  <2>12. Store!SplitTurn(own, m, h, t)
    BY <1>3, <1>4, <1>11, <2>4, <2>9, <2>10 DEF Store!SplitTurn, SplitRow, RestUnchanged
  <2> QED BY <1>5, <2>4, <2>11, <2>12 DEF Store!StoreNext, Store!LocalEdit
<1>12. ASSUME NEW ms \in SUBSET Ids(turns), Cardinality(ms) > 1, NEW t \in Bodies, FoldRows(ms, t)
       PROVE  Store!StoreNext
  <2> DEFINE I == {i \in DOMAIN turns : turns[i].id \in ms}
             keep == turns[Min(I)].id
             texts == [m \in {keep} |-> t]
             put == WithTexts(turns, {keep}, texts)
             rest == ms \ {keep}
  <2>1. turns' = Without(put, rest)
    BY <1>12 DEF FoldRows
  <2>2. ms # {}
    BY <1>12, FS_EmptySet
  <2>3. \A x : Cardinality({x}) = 1
    BY FS_Singleton
  <2>4. keep \in ms
    <3>1. \A x \in I : x \in Nat
      BY <1>2
    <3>2. I # {}
      BY <2>2, IdsAre
    <3>3. Min(I) \in I
      <4> HIDE DEF I
      <4> QED BY <3>1, <3>2, MinProperties
    <3> QED BY <3>3
  <2>5. texts[keep] = t
    OBVIOUS
  <2> HIDE DEF I, keep, texts
  <2>6. rest # {}
    <3> SUFFICES ASSUME ms = {keep} PROVE FALSE
      BY <2>4
    <3>1. Cardinality({keep}) = 1
      BY <2>3
    <3>2. Cardinality({keep}) > 1
      BY <1>12
    <3> QED BY <3>1, <3>2
  <2>7. /\ AsList(put) = [m \in MsgIds |-> IF m \in {keep} THEN texts[m] ELSE AsList(turns)[m]]
        /\ MarkList(put) = MarkList(turns)
    BY <1>1, <2>4, <2>5, TextsRead
  <2>8. GoodList(put, Given)
    BY <1>1, <2>5, TextsSound
  <2> HIDE DEF put, rest
  <2>9. /\ AsList(turns') = [m \in MsgIds |-> IF m \in rest THEN NoTurn ELSE AsList(put)[m]]
        /\ MarkList(turns') = [m \in MsgIds |-> IF m \in rest THEN NoMark ELSE MarkList(put)[m]]
    BY <2>1, <2>8, WithoutReads
  <2>10. keep \notin rest /\ rest \cup {keep} = ms
    BY <2>4 DEF rest
  <2>11. AsList(turns') = [m \in MsgIds |-> IF m = keep THEN t ELSE IF m \in rest THEN NoTurn ELSE AsList(turns)[m]]
    BY <2>5, <2>7, <2>9, <2>10
  <2>12. Store!DropMarks(rest)
    BY <1>3, <1>6, <2>7, <2>9
  <2>13. Store!FoldTurns(keep, rest, t)
    BY <1>4, <1>5, <1>12, <2>6, <2>10, <2>11, <2>12 DEF Store!FoldTurns, FoldRows, RestUnchanged
  <2>14. keep \in MsgIds /\ rest \in SUBSET MsgIds
    BY <1>2, <2>4 DEF rest
  <2> QED BY <1>5, <2>13, <2>14 DEF Store!StoreNext, Store!LocalEdit
<1>13. ASSUME NEW i \in DOMAIN turns, turns[i].mark # NoMark
       PROVE  /\ turns[i].id \in MsgIds /\ Store!Flagged(turns[i].id) /\ Marks[turns[i].id] = turns[i].mark
              /\ turns[i].mark.kind # "deleted-upstream" \/ turns[i].mark.kind = "deleted-upstream"
  <2>1. turns[i] \in ToSet(turns) /\ turns[i] \in Rows
    BY <1>2 DEF ToSet
  <2>2. turns[i].id \in MsgIds /\ MarkList(turns)[turns[i].id] = turns[i].mark
    BY <1>1, <2>1, ReadRow
  <2>3. turns[i].mark \in [kind : {"both-moved", "deleted-upstream"}, theirs : Bodies \cup {NoTurn}]
    BY <1>13, <2>1 DEF Rows
  <2>4. turns[i].mark.kind # "none"
    BY <2>3
  <2> QED BY <1>3, <2>2, <2>4 DEF Store!Flagged
<1>14. ASSUME NEW i \in DOMAIN turns, KeepMine(i) PROVE Store!StoreNext
  <2> DEFINE row == [turns[i] EXCEPT !.mark = NoMark]
             m == turns[i].id
  <2>1. row \in Rows /\ row.id = m /\ row.body = turns[i].body /\ row.mark = NoMark
    <3>1. turns[i] \in Rows
      BY <1>2
    <3> QED BY <3>1 DEF Rows
  <2>2. turns' = [turns EXCEPT ![i] = row]
    BY <1>14 DEF KeepMine
  <2>3. turns[i].mark # NoMark
    BY <1>14 DEF KeepMine
  <2>4. m \in MsgIds /\ Store!Flagged(m)
    BY <1>13, <2>3
  <2> HIDE DEF row
  <2>5. AsList(turns') = [AsList(turns) EXCEPT ![m] = row.body] /\ MarkList(turns') = [MarkList(turns) EXCEPT ![m] = NoMark]
    <3> HIDE DEF m
    <3>1. row \in Rows /\ row.id = turns[i].id
      BY <2>1 DEF m
    <3>2. /\ AsList([turns EXCEPT ![i] = row]) = [AsList(turns) EXCEPT ![row.id] = row.body]
          /\ MarkList([turns EXCEPT ![i] = row]) = [MarkList(turns) EXCEPT ![row.id] = row.mark]
      BY ONLY <1>1, <1>14, <3>1, ReplaceReads
    <3> QED BY <2>1, <2>2, <3>2
  <2>6. AsList(turns)[m] = turns[i].body
    <3>1. turns[i] \in ToSet(turns)
      BY DEF ToSet
    <3> QED BY <1>1, <3>1, ReadRow
  <2> HIDE DEF m
  <2>7. AsList(turns') = AsList(turns)
    BY <1>7, <2>1, <2>5, <2>6
  <2>8. Store!DropMarks({m})
    BY <1>3, <1>6, <1>7, <2>5
  <2>9. Store!KeepMine(m)
    BY <1>14, <2>4, <2>7, <2>8 DEF Store!KeepMine, KeepMine, RestUnchanged
  <2> QED BY <1>5, <2>4, <2>9 DEF Store!StoreNext, Store!Settle
<1>15. ASSUME NEW i \in DOMAIN turns, TakeTheirs(i) PROVE Store!StoreNext
  <2> DEFINE m == turns[i].id
             gone == turns[i].mark.kind = "deleted-upstream"
             text == At(orig, m).body
  <2>1. turns[i].mark # NoMark /\ (gone \/ m \in Ids(orig))
    BY <1>15 DEF TakeTheirs
  <2>2. m \in MsgIds /\ Store!Flagged(m) /\ Marks[m] = turns[i].mark
    BY <1>13, <2>1
  <2>3. m \in Ids(orig) => AsList(orig)[m] = text /\ AsList(orig)[m] # NoTurn /\ text \in Bodies
    BY <1>1, <2>2, AsListAt
  <2>4. Store!TakeSnapshot
    <3>1. saved' = Created(saved, "auto", "other")
      BY <1>15 DEF TakeTheirs
    <3> QED BY <1>1, <3>1, SnapshotTaken DEF Kinds, Labels
  <2>5. /\ AsList(turns') = [AsList(turns) EXCEPT ![m] = IF gone THEN NoTurn ELSE AsList(orig)[m]]
        /\ MarkList(turns') = [MarkList(turns) EXCEPT ![m] = NoMark]
    <3>1. CASE gone
      <4>1. turns' = RemoveAt(turns, i)
        BY <1>15, <3>1 DEF TakeTheirs
      <4> QED BY <1>1, <3>1, <4>1, RemoveReads
    <3>2. CASE ~gone
      <4> DEFINE row == [[turns[i] EXCEPT !.body = text] EXCEPT !.mark = NoMark]
      <4>1. turns' = [turns EXCEPT ![i].body = text, ![i].mark = NoMark]
        BY <1>15, <3>2 DEF TakeTheirs
      <4> HIDE DEF text
      <4>2. turns' = [turns EXCEPT ![i] = row]
        BY <1>2, <4>1
      <4>3. turns[i] \in Rows /\ text \in Bodies /\ AsList(orig)[m] = text
        BY <1>2, <2>1, <2>3, <3>2
      <4>4. row \in Rows /\ row.id = m /\ row.body = text /\ row.mark = NoMark
        BY <4>3 DEF Rows
      <4> HIDE DEF row
      <4>5. AsList(turns') = [AsList(turns) EXCEPT ![m] = text] /\ MarkList(turns') = [MarkList(turns) EXCEPT ![m] = NoMark]
        <5>1. row.id = turns[i].id
          BY <4>4
        <5>2. /\ AsList([turns EXCEPT ![i] = row]) = [AsList(turns) EXCEPT ![row.id] = row.body]
              /\ MarkList([turns EXCEPT ![i] = row]) = [MarkList(turns) EXCEPT ![row.id] = row.mark]
          BY ONLY <1>1, <1>15, <4>4, <5>1, ReplaceReads
        <5> QED BY <4>2, <4>4, <5>2
      <4> QED BY <3>2, <4>3, <4>5
    <3> QED BY <3>1, <3>2
  <2> HIDE DEF m, text
  <2>6. Store!DropMarks({m})
    BY <1>3, <1>6, <1>7, <2>5
  <2>7. Store!TakeTheirs(m)
    BY <1>15, <2>1, <2>2, <2>3, <2>4, <2>5, <2>6 DEF Store!TakeTheirs, Store!PutBody, TakeTheirs
  <2> QED BY <1>5, <2>2, <2>7 DEF Store!StoreNext, Store!Settle
<1>16. CASE \E ms \in (SUBSET Ids(turns)) \ {{}} : \E texts \in [ms -> Bodies] : EditBodies(ms, texts)
  <2>1. PICK ms \in (SUBSET Ids(turns)) \ {{}} : \E texts \in [ms -> Bodies] : EditBodies(ms, texts)
    BY <1>16
  <2>2. PICK texts \in [ms -> Bodies] : EditBodies(ms, texts)
    BY <2>1
  <2>3. ms \in SUBSET Ids(turns) /\ ms # {}
    OBVIOUS
  <2> QED BY <1>8, <2>2, <2>3, Zenon
<1>17. CASE \E ms \in (SUBSET Ids(turns)) \ {{}} : DropRows(ms)
  <2>1. PICK ms \in (SUBSET Ids(turns)) \ {{}} : DropRows(ms)
    BY <1>17
  <2>2. ms \in SUBSET Ids(turns) /\ ms # {}
    OBVIOUS
  <2> QED BY <1>9, <2>1, <2>2, Zenon
<1>18. CASE \E i \in 0 .. Len(turns), m \in LocalIds \ minted, t \in Bodies : InsertRow(i, m, t)
  BY <1>10, <1>18
<1>19. CASE \E i \in DOMAIN turns, m \in LocalIds \ minted, h, t \in Bodies : SplitRow(i, m, h, t)
  BY <1>11, <1>19
<1>20. CASE \E ms \in SUBSET Ids(turns), t \in Bodies : Cardinality(ms) > 1 /\ FoldRows(ms, t)
  BY <1>12, <1>20
<1> QED BY <1>14, <1>15, <1>16, <1>17, <1>18, <1>19, <1>20 DEF EditRows

\* turns_original keeps no mark: what RisuAI sends has none.
NoneMarked(list) == \A i \in DOMAIN list : list[i].mark = NoMark

LEMMA UnmarkedReads ==
  ASSUME NEW ids, NEW list, GoodList(list, ids), NoneMarked(list)
  PROVE  MarkList(list) = Store!NoFlags
<1>1. ASSUME NEW m \in MsgIds PROVE MarkList(list)[m] = NoMark
  <2>1. m \in Ids(list) => \E i \in DOMAIN list : At(list, m) = list[i]
    BY AsListAt
  <2> QED BY <2>1 DEF MarkList, NoneMarked
<1> QED BY <1>1 DEF MarkList, Store!NoFlags, Store!NoConflict, NoMark, Store!MsgIds, MsgIds

LEMMA KeepVersionsRefines ==
  ASSUME RowsSound, NoneMarked(orig), KeepVersions
  PROVE  Store!StoreNext \/ UNCHANGED Store!storeVars
<1>1. /\ GoodList(turns, Given) /\ GoodList(orig, Given) /\ GoodVersions(saved, Given)
      /\ saved \in Seq(Versions) /\ DOMAIN saved = 1 .. Len(saved) /\ Len(saved) \in Nat
      /\ \A i \in DOMAIN saved : saved[i] \in Versions /\ GoodList(saved[i].rows, Given)
  BY SoundMeans DEF GoodVersions
<1>2. Marks = MarkList(turns) /\ Marks' = MarkList(turns')
  BY DEF Marks, MarkList
<1>3. /\ {AsList(FromMarkdown(c.rows, c.sidecar)) : c \in ToSet(saved)} = Snaps(saved)
      /\ {AsList(FromMarkdown(c.rows, c.sidecar)) : c \in ToSet(saved')} = Snaps(saved')
  BY DEF Snaps, Snap
\* A version that goes takes its snapshot with it, unless another reads the same.
<1>4. ASSUME UNCHANGED <<orig, turns, sidecar, minted>>, Snaps(saved') \subseteq Snaps(saved)
      PROVE  Store!StoreNext \/ UNCHANGED Store!storeVars
  <2>1. Marks' = Marks
    BY <1>2, <1>4
  <2>2. CASE Snaps(saved') = Snaps(saved)
    BY <1>3, <1>4, <2>1, <2>2 DEF Store!storeVars
  <2>3. CASE Snaps(saved') # Snaps(saved)
    <3> DEFINE gone == Snaps(saved) \ Snaps(saved')
    <3>1. gone # {} /\ Snaps(saved') = Snaps(saved) \ gone /\ gone \in SUBSET Snaps(saved)
      BY <1>4, <2>3
    <3> HIDE DEF gone
    <3>2. Store!DropSnapshots(gone)
      BY <1>3, <1>4, <2>1, <3>1 DEF Store!DropSnapshots
    <3>3. gone \in SUBSET {AsList(FromMarkdown(c.rows, c.sidecar)) : c \in ToSet(saved)}
      BY <1>3, <3>1
    <3> QED BY <3>2, <3>3, Zenon DEF Store!StoreNext, Store!Settle
  <2> QED BY <2>2, <2>3
<1>5. ASSUME NEW kind \in Kinds, Checkpoint(kind, "other") PROVE Store!StoreNext
  <2>1. Store!TakeSnapshot
    <3>1. saved' = Created(saved, kind, "other")
      BY <1>5 DEF Checkpoint
    <3> QED BY <1>1, <3>1, SnapshotTaken DEF Labels
  <2>2. Store!Checkpoint
    BY <1>2, <1>5, <2>1 DEF Store!Checkpoint, Checkpoint
  <2> QED BY <2>2 DEF Store!StoreNext, Store!Settle
<1>6. ASSUME NEW i \in DOMAIN saved, NEW label \in Labels, RenameCheckpoint(i, label)
      PROVE  Store!StoreNext \/ UNCHANGED Store!storeVars
  <2> DEFINE v == [saved[i] EXCEPT !.label = label]
             new == [saved EXCEPT ![i] = v]
  <2>1. Snap(v) = Snap(saved[i])
    <3>1. saved[i] \in Versions
      BY <1>1
    <3>2. v.rows = saved[i].rows /\ v.sidecar = saved[i].sidecar
      BY <3>1 DEF Versions
    <3> QED BY <3>2 DEF Snap
  <2>2. saved' = new
    BY <1>6 DEF RenameCheckpoint
  <2> HIDE DEF v
  <2>3. DOMAIN new = DOMAIN saved /\ \A k \in DOMAIN saved : new[k] = IF k = i THEN v ELSE saved[k]
    BY <1>1
  <2> HIDE DEF new
  <2>4. ASSUME NEW s \in Snaps(new) PROVE s \in Snaps(saved)
    <3>1. PICK k \in DOMAIN saved : s = Snap(new[k])
      BY <2>3 DEF Snaps, ToSet
    <3>2. s = Snap(saved[k])
      BY <2>1, <2>3, <3>1
    <3> QED BY <3>2 DEF Snaps, ToSet
  <2> QED BY <1>4, <1>6, <2>2, <2>4 DEF RenameCheckpoint
<1>7. ASSUME NEW i \in DOMAIN saved, DeleteCheckpoint(i)
      PROVE  Store!StoreNext \/ UNCHANGED Store!storeVars
  <2>1. ToSet(RemoveAt(saved, i)) = {saved[k] : k \in DOMAIN saved \ {i}}
    BY <1>1, RemoveSound
  <2>2. ToSet(RemoveAt(saved, i)) \subseteq ToSet(saved)
    BY <2>1 DEF ToSet
  <2> QED BY <1>4, <1>7, <2>2 DEF DeleteCheckpoint, Snaps
<1>8. ASSUME NEW keep \in 0 .. CheckpointKeep, ClearCheckpoints(keep)
      PROVE  Store!StoreNext \/ UNCHANGED Store!storeVars
  <2>1. keep \in Nat
    BY LimitsArePositive
  <2>2. PICK I : /\ \A i \in I : i \in DOMAIN saved
                 /\ Newest(saved, {"user"}, keep) = SubList(saved, I)
    BY ONLY <1>1, <2>1, NewestProperties
  <2>3. ToSet(SubList(saved, I)) = {saved[i] : i \in I}
    BY <1>1, <2>2, SubVersionsGood
  <2>4. ToSet(SubList(saved, I)) \subseteq ToSet(saved)
    BY <2>2, <2>3 DEF ToSet
  <2> QED BY <1>4, <1>8, <2>2, <2>4 DEF ClearCheckpoints, Snaps
<1>9. ASSUME NEW i \in DOMAIN saved, Restore(i) PROVE Store!StoreNext
  <2> DEFINE I == {j \in DOMAIN saved : saved[j].kind # "auto" \/ saved[j].label # "restore"}
             s == Snap(saved[i])
             back == FromMarkdown(saved[i].rows, saved[i].sidecar)
  <2>1. \A j \in I : j \in DOMAIN saved
    OBVIOUS
  <2>2. WithoutRestores(saved) = SubList(saved, I)
    BY DEF WithoutRestores
  <2> HIDE DEF I
  <2>3. /\ GoodVersions(WithoutRestores(saved), Given)
        /\ ToSet(WithoutRestores(saved)) = {saved[j] : j \in I}
    BY <1>1, <2>1, <2>2, SubVersionsGood
  <2>4. ToSet(WithoutRestores(saved)) \subseteq ToSet(saved)
    BY <2>1, <2>3 DEF ToSet
  <2>5. Store!TakeSnapshot
    <3>1. saved' = Created(WithoutRestores(saved), "auto", "restore")
      BY <1>9 DEF Restore
    <3> QED BY <2>3, <2>4, <3>1, SnapshotTaken DEF Kinds, Labels
  <2>6. s \in {AsList(FromMarkdown(c.rows, c.sidecar)) : c \in ToSet(saved)}
    <3>1. saved[i] \in ToSet(saved)
      BY DEF ToSet
    <3> QED BY <3>1 DEF Snap
  <2>7. turns' = back /\ AsList(turns') = s
    BY <1>9 DEF Restore, Snap
  <2>8. Marks' = Store!NoFlags
    <3>1. saved[i].sidecar \in Seq(RisuIds \cup {NoExtra})
      <4>1. saved[i] \in Versions
        BY <1>1
      <4> QED BY <4>1 DEF Versions
    <3>2. /\ GoodList(back, Given) /\ Len(back) = Len(saved[i].rows)
          /\ \A k \in 1 .. Len(saved[i].rows) : back[k].mark = NoMark
      BY <1>1, <3>1, MarkdownSound
    <3> HIDE DEF back
    <3>3. NoneMarked(back)
      <4>1. DOMAIN back = 1 .. Len(saved[i].rows)
        BY <3>2 DEF GoodList
      <4> QED BY <3>2, <4>1 DEF NoneMarked
    <3> QED BY <1>2, <2>7, <3>2, <3>3, UnmarkedReads
  <2> HIDE DEF s
  <2>9. Store!Restore(s)
    BY <1>9, <2>5, <2>6, <2>7, <2>8 DEF Store!Restore, Restore
  <2> QED BY <2>6, <2>9, Zenon DEF Store!StoreNext, Store!Settle
<1>10. ASSUME ResetWorking PROVE Store!StoreNext
  <2>1. Store!TakeSnapshot
    <3>1. saved' = Created(saved, "auto", "other")
      BY <1>10 DEF ResetWorking
    <3> QED BY <1>1, <3>1, SnapshotTaken DEF Kinds, Labels
  <2>2. Marks' = Store!NoFlags
    BY <1>1, <1>2, <1>10, UnmarkedReads DEF ResetWorking
  <2>3. Store!ResetWorking
    BY <1>10, <2>1, <2>2 DEF Store!ResetWorking, ResetWorking
  <2> QED BY <2>3 DEF Store!StoreNext, Store!Settle
<1> QED BY <1>5, <1>6, <1>7, <1>8, <1>9, <1>10 DEF KeepVersions

(***************************************************************************)
(* The lists of rows, however ordered and merged, and the checkpoints with *)
(* what they keep, do what TurnStore says: every request is one of its     *)
(* steps, or one it does not see.                                          *)
(***************************************************************************)
THEOREM RowsImplementStore == RowsSpec => ImplementsStore
<1>1. RowsInit => NoneMarked(orig)
  BY DEF RowsInit, NoneMarked
<1>2. RowsSound /\ NoneMarked(orig) /\ [RowsNext]_rowsVars => NoneMarked(orig)'
  <2> SUFFICES ASSUME RowsSound, NoneMarked(orig), [RowsNext]_rowsVars PROVE NoneMarked(orig)'
    OBVIOUS
  <2>1. ASSUME orig' = orig PROVE NoneMarked(orig)'
    BY <2>1 DEF NoneMarked
  <2>2. ASSUME NEW theirs \in Uploads, NEW force, NEW live, Upload(theirs, force, live)
        PROVE  NoneMarked(orig)'
    <3>1. \A i \in DOMAIN theirs : theirs[i].mark = NoMark
      BY SoundMergeable DEF Mergeable
    <3>2. orig' = theirs
      BY <2>2 DEF Upload
    <3> QED BY <3>1, <3>2 DEF NoneMarked
  <2>3. CASE UNCHANGED rowsVars
    BY <2>1, <2>3 DEF rowsVars
  <2>4. CASE EditRows
    <3>1. orig' = orig
      BY <2>4 DEF EditRows, EditBodies, DropRows, InsertRow, SplitRow, FoldRows, KeepMine, TakeTheirs, RestUnchanged
    <3> QED BY <2>1, <3>1
  <2>5. CASE KeepVersions
    <3>1. orig' = orig
      BY <2>5 DEF KeepVersions, Checkpoint, RenameCheckpoint, DeleteCheckpoint, ClearCheckpoints, Restore, ResetWorking
    <3> QED BY <2>1, <3>1
  <2> QED BY <2>2, <2>3, <2>4, <2>5 DEF RowsNext
<1>3. RowsInit => Store!StoreInit
  <2> SUFFICES ASSUME RowsInit PROVE Store!StoreInit
    OBVIOUS
  <2>1. turns = <<>> /\ orig = <<>> /\ saved = <<>> /\ minted = {}
    BY DEF RowsInit
  <2>2. GoodList(turns, Given) /\ GoodList(orig, Given) /\ NoneMarked(turns)
    BY <2>1, EmptyIsGood DEF NoneMarked
  <2>3. AsList(turns) = Store!EmptyChat /\ AsList(orig) = Store!EmptyChat
    BY <2>1, <2>2, EmptyReads
  <2>4. Marks = Store!NoFlags
    BY <2>2, UnmarkedReads DEF Marks, MarkList
  <2>5. ToSet(saved) = {}
    BY <2>1 DEF ToSet
  <2> QED BY <2>1, <2>3, <2>4, <2>5 DEF Store!StoreInit
<1>4. RowsSound /\ NoneMarked(orig) /\ [RowsNext]_rowsVars => [Store!StoreNext]_(Store!storeVars)
  <2> SUFFICES ASSUME RowsSound, NoneMarked(orig), [RowsNext]_rowsVars
               PROVE  Store!StoreNext \/ UNCHANGED Store!storeVars
    OBVIOUS
  <2>1. CASE UNCHANGED rowsVars
    <3>1. orig' = orig /\ turns' = turns /\ saved' = saved /\ minted' = minted
      BY <2>1 DEF rowsVars
    <3>2. Marks' = Marks
      BY <3>1 DEF Marks
    <3> QED BY <3>1, <3>2 DEF Store!storeVars
  <2>2. CASE \E theirs \in Uploads, force, live \in BOOLEAN : Upload(theirs, force, live)
    BY <2>2, UploadRefines
  <2>3. CASE EditRows
    BY <2>3, EditRowsRefines
  <2>4. CASE KeepVersions
    BY <2>4, KeepVersionsRefines
  <2> QED BY <2>1, <2>2, <2>3, <2>4 DEF RowsNext
<1> QED BY <1>1, <1>2, <1>3, <1>4, RowsStaySound, PTL DEF RowsSpec, ImplementsStore, Store!StoreSpec

-----------------------------------------------------------------------------
(* Versions hold.                                                          *)

UserAt(list) == {i \in DOMAIN list : list[i].kind = "user"}

\* What is left of a list with all its user versions has them in their order.
LEMMA UserSavesKept ==
  ASSUME NEW list \in Seq(Versions), NEW I, \A i \in I : i \in DOMAIN list, \A i \in UserAt(list) : i \in I
  PROVE  UserSaves(SubList(list, I)) = UserSaves(list)
<1> DEFINE s == SubList(list, I)
           J == UserAt(list)
           K == {k \in 1 .. Cardinality(I) : Nth(I, k) \in J}
<1>1. /\ s \in Seq(Versions) /\ Len(s) = Cardinality(I) /\ Cardinality(I) \in Nat
      /\ \A k \in 1 .. Cardinality(I) : Nth(I, k) \in I /\ s[k] = list[Nth(I, k)]
  BY SubListProperties
<1>2. SubList(s, K) = SubList(list, J)
  <2>1. \A j \in J : j \in I
    OBVIOUS
  <2>2. K = {k \in 1 .. Cardinality(I) : Nth(I, k) \in J}
    OBVIOUS
  <2> HIDE DEF J, K
  <2> QED BY ONLY <2>1, <2>2, SubListTwice, list \in Seq(Versions), \A i \in I : i \in DOMAIN list
<1>3. DOMAIN s = 1 .. Cardinality(I)
  BY <1>1
<1> HIDE DEF s
<1>4. ASSUME NEW k \in 1 .. Cardinality(I) PROVE s[k].kind = "user" <=> Nth(I, k) \in J
  BY <1>1 DEF UserAt
<1>5. UserAt(s) = K
  BY <1>3, <1>4 DEF UserAt
<1>6. UserSaves(s) = SubList(s, UserAt(s)) /\ UserSaves(list) = SubList(list, J)
  BY DEF UserSaves, UserAt
<1> QED BY <1>2, <1>5, <1>6 DEF s

\* An automatic backup leaves the user's versions alone while there is room.
LEMMA BackupKeepsSaves ==
  ASSUME NEW list \in Seq(Versions), NEW label \in Labels, Len(list) < CheckpointKeep,
         turns \in Seq(Rows), sidecar \in Seq(RisuIds \cup {NoExtra})
  PROVE  UserSaves(Created(list, "auto", label)) = UserSaves(list)
<1> DEFINE new == NewVersion("auto", label)
           all == Append(list, new)
           mid == Newest(all, {"auto"}, AutoKeep)
           out == Newest(mid, Kinds, CheckpointKeep)
<1>1. Created(list, "auto", label) = out
  BY DEF Created, NewVersion
<1>2. new \in Versions /\ new.kind = "auto"
  BY DEF NewVersion, Versions, Kinds
<1> HIDE DEF new
<1>3. /\ all \in Seq(Versions) /\ Len(all) = Len(list) + 1 /\ Len(list) \in Nat
      /\ DOMAIN all = 1 .. (Len(list) + 1) /\ DOMAIN list = 1 .. Len(list)
      /\ all[Len(list) + 1] = new
      /\ \A i \in 1 .. Len(list) : all[i] = list[i]
  BY <1>2
<1> HIDE DEF all
<1>4. UserSaves(all) = UserSaves(list)
  <2>1. \A i \in 1 .. (Len(list) + 1) : i \in 1 .. Len(list) \/ i = Len(list) + 1
    BY <1>3
  <2>2. UserAt(all) = UserAt(list)
    BY <1>2, <1>3, <2>1 DEF UserAt
  <2> DEFINE U == UserAt(list)
  <2>3. \A i \in U : i \in 1 .. Len(list)
    BY <1>3 DEF UserAt
  <2> HIDE DEF U
  <2>4. \A k \in 1 .. Cardinality(U) : Nth(U, k) \in U
    BY ONLY <1>3, <2>3, NthProperties
  <2>5. \A k \in 1 .. Cardinality(U) : all[Nth(U, k)] = list[Nth(U, k)]
    BY <1>3, <2>3, <2>4
  <2>6. SubList(all, U) = SubList(list, U)
    BY <2>5 DEF SubList
  <2> QED BY <2>2, <2>6 DEF UserSaves, UserAt, U
<1>5. PICK I : /\ \A i \in I : i \in DOMAIN all
               /\ mid = SubList(all, I)
               /\ \A i \in DOMAIN all : all[i].kind \notin {"auto"} => i \in I
  BY ONLY <1>3, LimitsArePositive, NewestProperties
<1>6. UserSaves(mid) = UserSaves(all)
  <2>1. \A i \in UserAt(all) : i \in I
    BY <1>5 DEF UserAt
  <2> QED BY <1>3, <1>5, <2>1, UserSavesKept
<1>7. mid \in Seq(Versions) /\ Len(mid) <= Len(all) /\ Len(mid) \in Nat
  <2>1. mid \in Seq(Versions) /\ Len(mid) = Cardinality(I) /\ Cardinality(I) \in Nat
    BY ONLY <1>3, <1>5, SubListProperties
  <2>2. IsFiniteSet(DOMAIN all) /\ Cardinality(DOMAIN all) = Len(all)
    <3>1. 1 \in Int /\ Len(all) \in Int /\ Len(all) >= 1 /\ DOMAIN all = 1 .. Len(all)
      BY <1>3
    <3>2. IsFiniteSet(1 .. Len(all)) /\ Cardinality(1 .. Len(all)) = IF 1 > Len(all) THEN 0 ELSE Len(all) - 1 + 1
      BY <3>1, FS_Interval
    <3> QED BY <3>1, <3>2
  <2>3. I \in SUBSET DOMAIN all
    BY <1>5
  <2>4. Cardinality(I) <= Len(all)
    BY <2>2, <2>3, FS_Subset
  <2> QED BY <2>1, <2>4
<1> HIDE DEF mid
<1>8. CheckpointKeep >= Len(mid)
  BY <1>3, <1>7, LimitsArePositive
<1>9. PICK J : out = SubList(mid, J) /\ J = DOMAIN mid
  BY ONLY <1>7, <1>8, LimitsArePositive, NewestProperties
<1>10. out = mid
  BY <1>7, <1>9, SubListAll
<1> QED BY <1>1, <1>4, <1>6, <1>10

\* What taking a backup leaves, for each list it is taken from.
LEMMA BackupProperties ==
  ASSUME RowsSound, NEW list, GoodVersions(list, Given), UserSaves(list) = UserSaves(saved),
         Len(list) <= Len(saved), NEW label \in Labels, saved' = Created(list, "auto", label)
  PROVE  /\ Len(saved) < CheckpointKeep => UserSaves(saved') = UserSaves(saved)
         /\ Last(saved').kind = "auto" /\ Last(saved').rows = turns
<1>1. /\ turns \in Seq(Rows) /\ sidecar \in Seq(RisuIds \cup {NoExtra})
      /\ list \in Seq(Versions) /\ saved \in Seq(Versions)
  BY SoundMeans DEF GoodList, GoodVersions
<1>2. Len(list) \in Nat /\ Len(saved) \in Nat
  BY <1>1
<1>3. Len(saved) < CheckpointKeep => UserSaves(saved') = UserSaves(list)
  BY <1>1, <1>2, LimitsArePositive, BackupKeepsSaves
<1>4. saved'[Len(saved')] = NewVersion("auto", label)
  BY <1>1, CreatedProperties DEF Kinds
<1> QED BY <1>3, <1>4 DEF Last, NewVersion

LEMMA WithoutRestoresProperties ==
  ASSUME RowsSound
  PROVE  /\ GoodVersions(WithoutRestores(saved), Given)
         /\ UserSaves(WithoutRestores(saved)) = UserSaves(saved)
         /\ Len(WithoutRestores(saved)) <= Len(saved)
         /\ \A i \in DOMAIN WithoutRestores(saved) :
              WithoutRestores(saved)[i].kind # "auto" \/ WithoutRestores(saved)[i].label # "restore"
<1> DEFINE I == {i \in DOMAIN saved : saved[i].kind # "auto" \/ saved[i].label # "restore"}
           s == SubList(saved, I)
<1>1. GoodVersions(saved, Given) /\ saved \in Seq(Versions)
  BY SoundMeans DEF GoodVersions
<1>2. WithoutRestores(saved) = s
  BY DEF WithoutRestores
<1>3. /\ \A i \in I : i \in DOMAIN saved
      /\ \A i \in UserAt(saved) : i \in I
      /\ \A i \in I : saved[i].kind # "auto" \/ saved[i].label # "restore"
  BY DEF UserAt
<1> HIDE DEF I
<1>4. GoodVersions(s, Given) /\ Len(s) <= Len(saved) /\ ToSet(s) = {saved[i] : i \in I}
  BY <1>1, <1>3, SubVersionsGood
<1>5. UserSaves(s) = UserSaves(saved)
  BY <1>1, <1>3, UserSavesKept
<1>6. \A i \in DOMAIN s : s[i].kind # "auto" \/ s[i].label # "restore"
  BY <1>3, <1>4 DEF ToSet
<1> QED BY <1>2, <1>4, <1>5, <1>6

(***************************************************************************)
(* A restore can be undone, by the one "restore" backup it leaves, and the *)
(* automatic backups push out none of the user's versions while the list   *)
(* is within its limit - for any limits, lists and kinds of text.          *)
(***************************************************************************)
THEOREM VersionsCanBeReliedOn == RowsSpec => VersionsHold
<1>1. RowsSound => \A i \in DOMAIN saved : Restore(i) =>
         LET backups == {j \in DOMAIN saved' : saved'[j].kind = "auto" /\ saved'[j].label = "restore"}
         IN  \E j \in DOMAIN saved' : backups = {j} /\ saved'[j].rows = turns
  <2> SUFFICES ASSUME RowsSound, NEW i \in DOMAIN saved, Restore(i)
               PROVE  LET backups == {j \in DOMAIN saved' : saved'[j].kind = "auto" /\ saved'[j].label = "restore"}
                      IN  \E j \in DOMAIN saved' : backups = {j} /\ saved'[j].rows = turns
    OBVIOUS
  <2> DEFINE list == WithoutRestores(saved)
             out == Created(list, "auto", "restore")
             n == Len(out)
  <2>1. /\ turns \in Seq(Rows) /\ sidecar \in Seq(RisuIds \cup {NoExtra}) /\ list \in Seq(Versions)
        /\ \A j \in DOMAIN list : list[j].kind # "auto" \/ list[j].label # "restore"
    BY SoundMeans, WithoutRestoresProperties DEF GoodList, GoodVersions
  <2> HIDE DEF list
  <2>2. /\ out \in Seq(Versions) /\ n > 0
        /\ out[n] = NewVersion("auto", "restore")
        /\ \A k \in 1 .. (n - 1) : \E j \in DOMAIN list : out[k] = list[j]
    BY <2>1, CreatedProperties DEF Kinds, Labels
  <2>3. saved' = out
    BY DEF Restore, list
  <2> HIDE DEF out
  <2>4. n \in Nat /\ DOMAIN out = 1 .. n /\ n \in 1 .. n
    BY <2>2
  <2>5. ASSUME NEW k \in 1 .. n PROVE out[k].kind = "auto" /\ out[k].label = "restore" <=> k = n
    <3>1. CASE k = n
      BY <2>2, <3>1 DEF NewVersion
    <3>2. CASE k # n
      <4>1. k \in 1 .. (n - 1)
        <5> HIDE DEF n
        <5> QED BY <2>4, <3>2
      <4> QED BY <2>1, <2>2, <3>2, <4>1
    <3> QED BY <3>1, <3>2
  <2>6. {j \in DOMAIN out : out[j].kind = "auto" /\ out[j].label = "restore"} = {n}
    BY <2>4, <2>5
  <2>7. out[n].rows = turns
    BY <2>2 DEF NewVersion
  <2> QED BY <2>3, <2>4, <2>6, <2>7
<1>2. RowsSound => (BackedUp =>
         /\ Len(saved) < CheckpointKeep => UserSaves(saved') = UserSaves(saved)
         /\ Last(saved').kind = "auto" /\ Last(saved').rows = turns)
  <2> SUFFICES ASSUME RowsSound, BackedUp
               PROVE  /\ Len(saved) < CheckpointKeep => UserSaves(saved') = UserSaves(saved)
                      /\ Last(saved').kind = "auto" /\ Last(saved').rows = turns
    OBVIOUS
  <2>1. GoodVersions(saved, Given) /\ Len(saved) \in Nat
    BY SoundMeans DEF GoodVersions
  <2>2. CASE saved' = Created(saved, "auto", "other")
    <3>1. Len(saved) <= Len(saved) /\ "other" \in Labels
      BY <2>1 DEF Labels
    <3> QED BY <2>1, <2>2, <3>1, BackupProperties
  <2>3. CASE \E i \in DOMAIN saved : Restore(i)
    <3>1. saved' = Created(WithoutRestores(saved), "auto", "restore") /\ "restore" \in Labels
      BY <2>3 DEF Restore, Labels
    <3> QED BY <3>1, WithoutRestoresProperties, BackupProperties
  <2> QED BY <2>2, <2>3 DEF BackedUp, Checkpoint, TakeTheirs, ResetWorking
<1>3. RowsSound => [\A i \in DOMAIN saved : Restore(i) =>
         LET backups == {j \in DOMAIN saved' : saved'[j].kind = "auto" /\ saved'[j].label = "restore"}
         IN  \E j \in DOMAIN saved' : backups = {j} /\ saved'[j].rows = turns]_rowsVars
  BY <1>1
<1>4. RowsSound => [BackedUp =>
         /\ Len(saved) < CheckpointKeep => UserSaves(saved') = UserSaves(saved)
         /\ Last(saved').kind = "auto" /\ Last(saved').rows = turns]_rowsVars
  BY <1>2
<1>5. RowsSpec => RestoreIsUndoable
  BY <1>3, RowsStaySound, PTL DEF RestoreIsUndoable
<1>6. RowsSpec => SavesOutliveBackups
  BY <1>4, RowsStaySound, PTL DEF SavesOutliveBackups
<1> QED BY <1>5, <1>6 DEF VersionsHold

-----------------------------------------------------------------------------
(* An inserted row keeps its place.                                        *)

\* The piece of a turn the panel still has: that turn, then its own rows.
LEMMA TurnLeadsItsPiece ==
  ASSUME NEW theirs, Mergeable(theirs), NEW q \in 1 .. Len(theirs), theirs[q].id \in Ids(turns)
  PROVE  /\ 1 \in 1 .. Len(Pieces(theirs)[q + 1])
         /\ Pieces(theirs)[q + 1][1].id = theirs[q].id
         /\ \A k \in 1 .. Len(Pieces(theirs)[q + 1]) :
              k # 1 => Pieces(theirs)[q + 1][k].id \notin Known(theirs)
<1> DEFINE turn == MergedTurn(theirs[q])
           own == OwnBehind({theirs[q].id}, theirs)
           piece == Pieces(theirs)[q + 1]
<1>1. piece = turn \o own /\ q \in DOMAIN theirs
  BY PiecesSound
<1>2. turn # <<>>
  <2>1. \A x : <<x>> # <<>>
    OBVIOUS
  <2>2. \E x : turn = <<x>>
    BY Zenon DEF MergedTurn
  <2> QED BY <2>1, <2>2
<1>3. PICK r \in Rows : turn = <<r>> /\ r.id = theirs[q].id
  BY <1>1, <1>2, MergedTurnForm
<1>4. own \in Seq(Rows) /\ \A x \in ToSet(own) : x.id \notin Known(theirs)
  BY OwnBehindSound DEF Mergeable, IsOwn
<1> HIDE DEF turn, own, piece
<1>5. <<r>> \in Seq(Rows) /\ Len(<<r>>) = 1 /\ <<r>>[1] = r /\ Len(own) \in Nat
  BY <1>4
<1>6. /\ Len(piece) = 1 + Len(own)
      /\ \A k \in 1 .. (1 + Len(own)) : piece[k] = IF k <= 1 THEN <<r>>[k] ELSE own[k - 1]
  BY <1>1, <1>3, <1>4, <1>5, ConcatProperties
<1>7. ASSUME NEW k \in 1 .. (1 + Len(own)), k # 1 PROVE piece[k].id \notin Known(theirs)
  <2>1. k - 1 \in 1 .. Len(own) /\ ~ (k <= 1)
    BY <1>5, <1>7
  <2>2. own[k - 1] \in ToSet(own)
    BY <1>4, <2>1 DEF ToSet
  <2> QED BY <1>4, <1>6, <2>1, <2>2
<1>8. 1 \in 1 .. (1 + Len(own)) /\ piece[1] = r
  BY <1>5, <1>6
<1> QED BY <1>3, <1>6, <1>7, <1>8 DEF piece

\* The anchor of a row is the last of the known rows before it.
LEMMA AnchorIsLast ==
  ASSUME NEW theirs, NEW T, NEW list \in Seq(T), NEW k \in DOMAIN list, NEW p \in DOMAIN list, p < k,
         list[p].id \in Known(theirs),
         \A j \in DOMAIN list : j < k /\ list[j].id \in Known(theirs) => j <= p
  PROVE  Anchor(list, k, theirs) = list[p].id
<1> DEFINE before == {j \in 1 .. (k - 1) : list[j].id \in Known(theirs)}
<1>1. DOMAIN list = 1 .. Len(list) /\ Len(list) \in Nat /\ k - 1 \in Nat /\ k \in Nat /\ p \in Nat
  OBVIOUS
<1>2. /\ p \in before
      /\ \A j \in before : j \in 1 .. (k - 1) /\ j \in DOMAIN list /\ j < k /\ list[j].id \in Known(theirs)
  BY <1>1
<1>3. Anchor(list, k, theirs) = IF before = {} THEN "head" ELSE list[Max(before)].id
  BY DEF Anchor
<1> HIDE DEF before
<1>4. Max(before) \in before /\ \A j \in before : j <= Max(before)
  BY <1>1, <1>2, MaxProperties
<1>5. Max(before) = p
  <2>1. Max(before) <= p /\ p <= Max(before)
    BY <1>2, <1>4
  <2> QED BY <1>1, <1>2, <1>4, <2>1
<1> QED BY <1>2, <1>3, <1>5

LEMMA OwnStay ==
  ASSUME NEW theirs, Mergeable(theirs), NEW i \in DOMAIN turns, turns[i].id \notin Known(theirs)
  PROVE  \E k \in DOMAIN Merged(theirs) :
           /\ Merged(theirs)[k] = turns[i]
           /\ Anchor(turns, i, theirs) \in {"head"} \cup Ids(theirs) =>
                Anchor(Merged(theirs), k, theirs) = Anchor(turns, i, theirs)
<1> DEFINE n == Len(theirs)
           ss == Pieces(theirs)
           out == Merged(theirs)
           a == Anchor(turns, i, theirs)
<1>1. /\ ss \in Seq(Seq(Rows)) /\ Len(ss) = n + 3 /\ n \in Nat /\ DOMAIN theirs = 1 .. n
  BY PiecesSound
<1>2. turns \in Seq(Rows) /\ DOMAIN turns = 1 .. Len(turns) /\ Len(turns) \in Nat
  BY DEF Mergeable, GoodList
<1>3. PICK ch, ix : Spread(out, ss, n + 3, ch, ix)
  <2>1. Len(ss) > 0
    BY <1>1
  <2>2. \E ch, ix : Spread(FlattenSeq(ss), ss, Len(ss), ch, ix)
    BY ONLY <1>1, <2>1, FlattenSpreads
  <2> QED BY <1>1, <2>2 DEF Merged
<1>4. out \in Seq(Rows) /\ DOMAIN out = 1 .. Len(out) /\ Len(out) \in Nat
      /\ \E k \in DOMAIN out : out[k] = turns[i]
  <2>1. GoodList(out, Given) /\ turns[i] \in ToSet(out)
    BY MergedSound DEF IsOwn
  <2> QED BY <2>1 DEF GoodList, ToSet
<1>5. /\ \A k \in 1 .. Len(out) : /\ ch[k] \in 1 .. (n + 3)
                                  /\ ix[k] \in 1 .. Len(ss[ch[k]])
                                  /\ out[k] = ss[ch[k]][ix[k]]
      /\ \A k, q \in 1 .. Len(out) : k < q => ch[k] < ch[q] \/ (ch[k] = ch[q] /\ ix[k] < ix[q])
      /\ \A c \in 1 .. (n + 3) : \A j \in 1 .. Len(ss[c]) : \E k \in 1 .. Len(out) : ch[k] = c /\ ix[k] = j
  BY <1>3 DEF Spread
<1>6. \A c \in 1 .. (n + 3) : Len(ss[c]) \in Nat /\ DOMAIN ss[c] = 1 .. Len(ss[c])
  BY <1>1
<1>7. ASSUME NEW c \in 1 .. (n + 3), a \in PieceAnchors(c, theirs)
      PROVE  \E k \in 1 .. Len(out) : ch[k] = c /\ out[k] = turns[i]
  <2>1. OwnRow(turns[i], PieceAnchors(c, theirs), theirs)
    BY <1>7 DEF OwnRow, IsOwn
  <2>2. turns[i] \in ToSet(ss[c])
    BY <2>1, PieceRows
  <2>3. PICK j \in 1 .. Len(ss[c]) : ss[c][j] = turns[i]
    BY <1>6, <2>2 DEF ToSet
  <2>4. PICK k \in 1 .. Len(out) : ch[k] = c /\ ix[k] = j
    BY <1>5
  <2> QED BY <1>5, <2>3, <2>4, ZenonT(40)
<1>8. CASE a = "head"
  <2>1. 1 \in 1 .. (n + 3) /\ PieceAnchors(1, theirs) = {"head"}
    BY <1>1 DEF PieceAnchors
  <2>2. PICK k \in 1 .. Len(out) : ch[k] = 1 /\ out[k] = turns[i]
    BY <1>7, <1>8, <2>1
  <2>3. \A x \in ToSet(ss[1]) : x.id \notin Known(theirs)
    <3>1. \A x \in ToSet(ss[1]) : x.id \in PieceIds(1, theirs) \/ OwnRow(x, PieceAnchors(1, theirs), theirs)
      BY <2>1, PieceRows
    <3>2. PieceIds(1, theirs) = {}
      BY DEF PieceIds
    <3> QED BY <3>1, <3>2 DEF OwnRow, IsOwn
  <2>4. ASSUME NEW j \in 1 .. (k - 1) PROVE out[j].id \notin Known(theirs)
    <3>1. j \in 1 .. Len(out) /\ j < k
      BY <1>4
    <3>2. ch[j] = 1
      <4>1. ch[j] \in 1 .. (n + 3) /\ ch[j] <= 1
        BY <1>5, <2>2, <3>1
      <4> QED BY <1>1, <4>1
    <3>3. ix[j] \in 1 .. Len(ss[1]) /\ out[j] = ss[1][ix[j]]
      BY <1>5, <3>1, <3>2
    <3>4. out[j] \in ToSet(ss[1])
      BY <1>6, <2>1, <3>3 DEF ToSet
    <3> QED BY <2>3, <3>4
  <2>5. Anchor(out, k, theirs) = "head"
    BY <2>4 DEF Anchor
  <2> QED BY <1>4, <1>8, <2>2, <2>5
<1>9. CASE a \in Ids(theirs)
  <2>1. PICK q \in 1 .. n : theirs[q].id = a
    BY <1>1, <1>9, IdsAre
  <2>2. a \in Ids(turns)
    <3> DEFINE before == {j \in 1 .. (i - 1) : turns[j].id \in Known(theirs)}
    <3>1. i - 1 \in Nat /\ \A j \in before : j \in 1 .. (i - 1) /\ j \in DOMAIN turns
      BY <1>2
    <3>2. a = IF before = {} THEN "head" ELSE turns[Max(before)].id
      BY DEF Anchor
    <3>3. a # "head"
      BY <1>9, RowsAssumption DEF Mergeable, GoodList, Given
    <3> HIDE DEF before
    <3>4. Max(before) \in before
      BY <3>1, <3>2, <3>3, MaxProperties
    <3> QED BY <3>1, <3>2, <3>3, <3>4, IdsAre
  <2> DEFINE c == q + 1
  <2>3. c \in 1 .. (n + 3) /\ c # 1 /\ c # n + 2 /\ c # n + 3 /\ c - 1 = q
    BY <1>1
  <2>4. PieceAnchors(c, theirs) = {a}
    BY <2>1, <2>3 DEF PieceAnchors
  <2>5. /\ 1 \in 1 .. Len(ss[c])
        /\ ss[c][1].id = a
        /\ \A j \in 1 .. Len(ss[c]) : j # 1 => ss[c][j].id \notin Known(theirs)
    BY <2>1, <2>2, TurnLeadsItsPiece
  <2> HIDE DEF c, a, ss, out
  <2>6. PICK k \in 1 .. Len(out) : ch[k] = c /\ out[k] = turns[i]
    BY <1>7, <2>3, <2>4
  <2>7. PICK p \in 1 .. Len(out) : ch[p] = c /\ ix[p] = 1
    BY <1>5, <2>3, <2>5
  <2>8. out[p].id = a /\ a \in Known(theirs)
    BY <1>5, <1>9, <2>5, <2>7, SMTT(40) DEF Known
  <2>9. \A j \in 1 .. Len(out) : ix[j] \in Nat /\ ix[j] >= 1 /\ ch[j] \in Nat
    <3> TAKE j \in 1 .. Len(out)
    <3>1. ix[j] \in 1 .. Len(ss[ch[j]]) /\ ch[j] \in 1 .. (n + 3)
      BY <1>5
    <3> QED BY <1>1, <1>6, <3>1, SMTT(40)
  <2>10. p < k
    <3>1. ix[k] # 1
      BY <1>5, <2>5, <2>6, <2>8, SMTT(40)
    <3>2. k # p
      BY <2>7, <3>1
    <3>3. ~ (k < p)
      BY <1>5, <2>3, <2>6, <2>7, <2>9, SMTT(40)
    <3> QED BY <1>4, <3>2, <3>3
  <2>11. ASSUME NEW j \in 1 .. Len(out), j < k, out[j].id \in Known(theirs) PROVE j <= p
    <3> SUFFICES ASSUME p < j PROVE FALSE
      BY <1>4
    <3>1. ch[p] < ch[j] \/ (ch[p] = ch[j] /\ ix[p] < ix[j])
      BY <1>5
    <3>2. ch[j] < ch[k] \/ (ch[j] = ch[k] /\ ix[j] < ix[k])
      BY <1>5, <2>11
    <3>3. ch[p] = c /\ ch[k] = c /\ ix[p] = 1 /\ ch[j] \in Nat /\ ch[p] \in Nat /\ ix[j] \in Nat
      BY <2>6, <2>7, <2>9
    <3>4. ch[j] = c /\ ix[j] # 1
      BY <3>1, <3>2, <3>3
    <3>5. out[j] = ss[c][ix[j]] /\ ix[j] \in 1 .. Len(ss[c])
      BY <1>5, <3>4
    <3> QED BY <2>5, <2>11, <3>4, <3>5
  <2>12. Anchor(out, k, theirs) = a
    <3>1. k \in DOMAIN out /\ p \in DOMAIN out /\ out[p].id \in Known(theirs)
          /\ \A j \in DOMAIN out : j < k /\ out[j].id \in Known(theirs) => j <= p
      BY <1>4, <2>8, <2>11
    <3>2. out \in Seq(Rows)
      BY <1>4
    <3>3. Anchor(out, k, theirs) = out[p].id
      BY ONLY <2>10, <3>1, <3>2, AnchorIsLast
    <3> QED BY <2>8, <3>3
  <2> QED BY <1>4, <2>6, <2>12 DEF out, a
<1>10. CASE a \notin {"head"} \cup Ids(theirs)
  BY <1>4, <1>10
<1> QED BY <1>8, <1>9, <1>10 DEF out, a

(***************************************************************************)
(* A turn inserted in the panel survives any re-open that does not force,  *)
(* behind the turn it stood behind while RisuAI still has that one.        *)
(***************************************************************************)
THEOREM InsertedKeepPlace == RowsSpec => InsertedStay
<1>1. ASSUME RowsSound, RowsNext, NEW live \in BOOLEAN, Upload(orig', FALSE, live),
             NEW i \in DOMAIN turns, turns[i].id \notin Known(orig')
      PROVE  \E k \in DOMAIN turns' :
               /\ turns'[k] = turns[i]
               /\ Anchor(turns, i, orig') \in {"head"} \cup Ids(orig') =>
                    Anchor(turns', k, orig') = Anchor(turns, i, orig')
  <2>1. ops \in [Counters -> Nat]
    BY <1>1, SoundMeans
  <2>2. ops'["upload"] = ops["upload"] + 1 /\ ops["upload"] \in Nat
    BY <1>1, <2>1 DEF Upload, Tick, Counters
  <2>3. ~Tick("edit") /\ ~Tick("save")
    BY <2>1, <2>2 DEF Tick, Counters
  <2>4. \E theirs \in Uploads, force, live2 \in BOOLEAN : Upload(theirs, force, live2)
    <3>1. ~EditRows
      BY <2>3 DEF EditRows, EditBodies, DropRows, InsertRow, SplitRow, FoldRows, KeepMine, TakeTheirs
    <3>2. ~KeepVersions
      BY <2>3 DEF KeepVersions, Checkpoint, RenameCheckpoint, DeleteCheckpoint, ClearCheckpoints, Restore, ResetWorking
    <3> QED BY <1>1, <3>1, <3>2 DEF RowsNext
  <2>5. PICK theirs \in Uploads : orig' = theirs
    BY <2>4 DEF Upload
  <2>6. Mergeable(theirs) /\ turns \in Seq(Rows) /\ orig \in Seq(Rows)
    BY <1>1, <2>5, SoundMergeable, SoundMeans DEF GoodList
  <2>7. turns \o orig # <<>>
    BY <1>1, <2>6
  <2>8. turns' = Merged(theirs)
    BY <1>1, <2>5, <2>7 DEF Upload
  <2> QED BY <1>1, <2>5, <2>6, <2>8, OwnStay
<1>2. RowsSound /\ [RowsNext]_rowsVars =>
        [\A theirs \in {orig'}, live \in BOOLEAN : Upload(theirs, FALSE, live) =>
           \A i \in DOMAIN turns : turns[i].id \notin Known(theirs) =>
             \E k \in DOMAIN turns' :
               /\ turns'[k] = turns[i]
               /\ LET a == Anchor(turns, i, theirs)
                  IN  a \in {"head"} \cup Ids(theirs) => Anchor(turns', k, theirs) = a]_rowsVars
  BY <1>1
<1> QED BY <1>2, RowsStaySound, PTL DEF RowsSpec, InsertedStay
=============================================================================
