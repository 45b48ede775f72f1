----------------------------- MODULE CardProofs -----------------------------
(***************************************************************************)
(* Proofs about Card, for any card, any number of uploads, edits and       *)
(* write-backs: first the write-back by itself - what the host's           *)
(* comparison and the commit's backup are worth - then the greetings,      *)
(* which have no id: how merge.match pairs them, what a re-open and a      *)
(* restore make of the rows, and that the rows always stand over the list  *)
(* RisuAI showed last.                                                     *)
(***************************************************************************)
EXTENDS Card, ListProofs, TLAPS

-----------------------------------------------------------------------------
(* The invariant.                                                          *)

\* The records have the fields they are made with.
FieldsFormed ==
  field = [f \in Fields |-> [body |-> field[f].body, base |-> field[f].base, mark |-> field[f].mark]]
WriteFormed ==
  w # Idle =>
    /\ w = [pc |-> w.pc, from |-> w.from, to |-> w.to, fields |-> w.fields, list |-> w.list,
            fresh |-> w.fresh, calm |-> w.calm]
    /\ w.pc # "idle"

\* A field's baseline is what the last upload handled showed.
BasesRead == read \in seen /\ \A f \in Fields : field[f].base = read.field[f]

\* What a patch takes for RisuAI's fields was shown by some upload.
PatchSeen ==
  w # Idle => \E card \in seen : \A f \in Fields : card.field[f] = w.from.field[f]

\* Past the host's comparison, the re-read agrees with the patch.
CheckedAgrees == w # Idle /\ w.pc # "patched" => Agrees(w.fresh)

\* As long as no upload was handled, the patch started from today's baseline.
CalmIsCurrent == w # Idle => w.calm \in BOOLEAN /\ (w.calm => w.from = Baseline)

WriteInv ==
  /\ FieldsFormed
  /\ WriteFormed
  /\ BasesRead
  /\ PatchSeen
  /\ CheckedAgrees
  /\ CalmIsCurrent

-----------------------------------------------------------------------------
LEMMA WriteInvInit == CardInit => WriteInv
<1> SUFFICES ASSUME CardInit PROVE WriteInv
  OBVIOUS
<1>1. w = Idle
  BY DEF CardInit
<1>2. field = [f \in Fields |-> [body |-> risu.field[f], base |-> risu.field[f], mark |-> NoMark]]
  BY DEF CardInit, LoadedFields, FieldRow
<1>3. FieldsFormed /\ BasesRead
  BY <1>2 DEF CardInit, FieldsFormed, BasesRead
<1> QED BY <1>1, <1>3 DEF WriteInv, WriteFormed, PatchSeen, CheckedAgrees, CalmIsCurrent

\* A step that leaves the write-back, the baseline and what was read alone.
LEMMA WriteUntouched ==
  ASSUME WriteInv, FieldsFormed', w' = w, read' = read, seen' = seen,
         \A f \in Fields : field'[f].base = field[f].base,
         w # Idle => field' = field /\ greet' = greet
  PROVE  WriteInv'
<1>1. BasesRead'
  BY DEF WriteInv, BasesRead
<1>2. CalmIsCurrent'
  <2>1. w # Idle => Baseline' = Baseline
    BY DEF Baseline
  <2> QED BY <2>1 DEF WriteInv, CalmIsCurrent
<1>3. WriteFormed' /\ PatchSeen' /\ CheckedAgrees'
  BY DEF WriteInv, WriteFormed, PatchSeen, CheckedAgrees, Agrees
<1> QED BY <1>1, <1>2, <1>3 DEF WriteInv

\* Whatever the panel does to its fields it keeps their baselines.
LEMMA PanelKeepsBases ==
  ASSUME WriteInv,
         \/ \E f \in Fields, t \in Texts : EditField(f, t)
         \/ \E r \in greet, t \in Texts : EditGreeting(r, t)
         \/ \E t \in Texts : AddGreeting(t)
         \/ \E r \in greet : DeleteGreeting(r)
         \/ \E mine \in BOOLEAN : \/ \E f \in Fields : ResolveField(f, mine)
                                  \/ \E r \in greet : ResolveGreeting(r, mine)
         \/ Reset \/ Save
         \/ \E c \in saved : Restore(c)
  PROVE  w = Idle /\ UNCHANGED <<w, read, seen>> /\ FieldsFormed'
         /\ \A f \in Fields : field'[f].base = field[f].base
<1>0. FieldsFormed
  BY DEF WriteInv
<1>1. Panel
  BY DEF EditField, EditGreeting, AddGreeting, DeleteGreeting, ResolveField, ResolveGreeting,
         Reset, Save, Restore
<1>2. CASE field' = field
  BY <1>0, <1>1, <1>2 DEF Panel, FieldsFormed
<1>3. ASSUME NEW f \in Fields, NEW t, field' = [field EXCEPT ![f].body = t]
      PROVE  FieldsFormed' /\ \A g \in Fields : field'[g].base = field[g].base
  <2>1. field[f] = [body |-> field[f].body, base |-> field[f].base, mark |-> field[f].mark]
    BY <1>0 DEF FieldsFormed
  <2>2. [field[f] EXCEPT !.body = t] = [body |-> t, base |-> field[f].base, mark |-> field[f].mark]
    BY <2>1
  <2>3. field' = [g \in Fields |->
                    [body |-> IF g = f THEN t ELSE field[g].body, base |-> field[g].base, mark |-> field[g].mark]]
    BY <1>0, <1>3, <2>2 DEF FieldsFormed
  <2> QED BY <2>3 DEF FieldsFormed
<1>4. ASSUME NEW f \in Fields, NEW mine \in BOOLEAN, ResolveField(f, mine)
      PROVE  FieldsFormed' /\ \A g \in Fields : field'[g].base = field[g].base
  <2> DEFINE b == IF mine THEN field[f].body ELSE field[f].base
  <2>1. field[f] = [body |-> field[f].body, base |-> field[f].base, mark |-> field[f].mark]
    BY <1>0 DEF FieldsFormed
  <2>2. field' = [field EXCEPT ![f] = [body |-> b, base |-> field[f].base, mark |-> NoMark]]
    BY <1>0, <1>4 DEF ResolveField, FieldRow, FieldsFormed
  <2>3. field' = [g \in Fields |-> [body |-> IF g = f THEN b ELSE field[g].body, base |-> field[g].base,
                                    mark |-> IF g = f THEN NoMark ELSE field[g].mark]]
    BY <1>0, <2>2 DEF FieldsFormed
  <2> QED BY <2>3 DEF FieldsFormed
<1>5. ASSUME NEW new, field' = [f \in Fields |-> FieldRow(new[f], field[f].base)]
      PROVE  FieldsFormed' /\ \A f \in Fields : field'[f].base = field[f].base
  BY <1>5 DEF FieldRow, FieldsFormed
<1>6. ASSUME Reset
      PROVE  FieldsFormed' /\ \A f \in Fields : field'[f].base = field[f].base
  <2>1. field' = [f \in Fields |-> [body |-> field[f].base, base |-> field[f].base, mark |-> NoMark]]
    BY <1>6 DEF Reset, FieldRow
  <2> QED BY <2>1 DEF FieldsFormed
<1>7. ASSUME NEW c \in saved, Restore(c)
      PROVE  FieldsFormed' /\ \A f \in Fields : field'[f].base = field[f].base
  <2>1. field' = [f \in Fields |-> FieldRow(c.field[f], field[f].base)]
    BY <1>7 DEF Restore
  <2> QED BY <1>5, <2>1
<1>8. \/ field' = field
      \/ \E f \in Fields, t \in Texts : field' = [field EXCEPT ![f].body = t]
      \/ \E f \in Fields, mine \in BOOLEAN : ResolveField(f, mine)
      \/ Reset \/ \E c \in saved : Restore(c)
  BY DEF EditField, EditGreeting, AddGreeting, DeleteGreeting, ResolveGreeting, Save
<1>9. FieldsFormed' /\ \A f \in Fields : field'[f].base = field[f].base
  BY <1>2, <1>3, <1>4, <1>6, <1>7, <1>8
<1> QED BY <1>1, <1>9 DEF Panel

\* An upload brings a new baseline, which was then seen, and ends the calm.
LEMMA UploadKeeps ==
  ASSUME WriteInv, NEW u \in up, Deliver(u)
  PROVE  WriteInv'
<1>1. ASSUME NEW f \in Fields, NEW t
      PROVE  \E b, m : MergedField(f, t) = [body |-> b, base |-> t, mark |-> m]
  <2>1. field[f] = [body |-> field[f].body, base |-> field[f].base, mark |-> field[f].mark]
    BY DEF WriteInv, FieldsFormed
  <2>2. CASE t \in {field[f].base, field[f].body}
    <3>1. MergedField(f, t) = [field[f] EXCEPT !.base = t]
      BY <2>2 DEF MergedField
    <3>2. MergedField(f, t) = [body |-> field[f].body, base |-> t, mark |-> field[f].mark]
      BY <2>1, <3>1
    <3> QED BY <3>2
  <2>3. CASE t \notin {field[f].base, field[f].body} /\ field[f].body = field[f].base
    BY <2>3 DEF MergedField, FieldRow
  <2>4. CASE t \notin {field[f].base, field[f].body} /\ field[f].body # field[f].base
    <3>1. MergedField(f, t) = [field[f] EXCEPT !.base = t, !.mark = [kind |-> "both-moved", theirs |-> t]]
      BY <2>4 DEF MergedField
    <3>2. MergedField(f, t) = [body |-> field[f].body, base |-> t,
                               mark |-> [kind |-> "both-moved", theirs |-> t]]
      BY <2>1, <3>1
    <3> QED BY <3>2
  <2> QED BY <2>2, <2>3, <2>4
<1>2. FieldsFormed' /\ \A f \in Fields : field'[f].base = u.card.field[f]
  <2>1. CASE u.reset
    <3>1. field' = [f \in Fields |-> [body |-> u.card.field[f], base |-> u.card.field[f], mark |-> NoMark]]
      BY <2>1 DEF Deliver, LoadedFields, FieldRow
    <3> QED BY <3>1 DEF FieldsFormed
  <2>2. CASE ~u.reset
    <3>1. field' = [f \in Fields |-> MergedField(f, u.card.field[f])]
      BY <2>2 DEF Deliver
    <3>2. \A f \in Fields : \E b, m : field'[f] = [body |-> b, base |-> u.card.field[f], mark |-> m]
      BY <1>1, <3>1
    <3>3. \A f \in Fields :
            /\ field'[f].base = u.card.field[f]
            /\ field'[f] = [body |-> field'[f].body, base |-> field'[f].base, mark |-> field'[f].mark]
      <4> SUFFICES ASSUME NEW f \in Fields
                   PROVE  /\ field'[f].base = u.card.field[f]
                          /\ field'[f] = [body |-> field'[f].body, base |-> field'[f].base, mark |-> field'[f].mark]
        OBVIOUS
      <4>1. PICK b, m : field'[f] = [body |-> b, base |-> u.card.field[f], mark |-> m]
        BY <3>2
      <4> QED BY <4>1
    <3>4. field' = [f \in Fields |-> field'[f]]
      BY <3>1
    <3>5. field' = [f \in Fields |-> [body |-> field'[f].body, base |-> field'[f].base, mark |-> field'[f].mark]]
      BY <3>3, <3>4
    <3> QED BY <3>3, <3>5 DEF FieldsFormed
  <2> QED BY <2>1, <2>2
<1>3. read' = u.card /\ seen' = seen \cup {u.card}
  BY DEF Deliver
<1>4. BasesRead'
  BY <1>2, <1>3 DEF BasesRead
<1>5. CASE w' = Idle
  BY <1>2, <1>4, <1>5 DEF WriteInv, WriteFormed, PatchSeen, CheckedAgrees, CalmIsCurrent
<1>6. CASE w' # Idle
  <2>1. w # Idle /\ w' = [w EXCEPT !.calm = FALSE]
    BY <1>6 DEF Deliver
  <2>2. w' = [pc |-> w.pc, from |-> w.from, to |-> w.to, fields |-> w.fields, list |-> w.list,
              fresh |-> w.fresh, calm |-> FALSE]
    BY <2>1 DEF WriteInv, WriteFormed
  <2>3. WriteFormed' /\ CalmIsCurrent'
    <3>1. w.pc # "idle"
      BY <2>1 DEF WriteInv, WriteFormed
    <3>2. WriteFormed'
      BY <2>2, <3>1 DEF WriteFormed
    <3>3. w'.calm = FALSE
      BY <2>2
    <3>4. CalmIsCurrent'
      BY <3>3 DEF CalmIsCurrent
    <3> QED BY <3>2, <3>4
  <2>4. PatchSeen'
    BY <1>3, <2>1, <2>2 DEF WriteInv, PatchSeen
  <2>5. CheckedAgrees'
    BY <2>1, <2>2 DEF WriteInv, CheckedAgrees, Agrees
  <2> QED BY <1>2, <1>4, <2>3, <2>4, <2>5 DEF WriteInv
<1> QED BY <1>5, <1>6

LEMMA PatchKeeps ==
  ASSUME WriteInv, Patch
  PROVE  WriteInv'
<1>1. w' = [pc |-> "patched", from |-> Baseline, to |-> Shipped, fields |-> FieldsChanged,
            list |-> ListChanged, fresh |-> Baseline, calm |-> TRUE]
  BY DEF Patch, Patched
<1>2. UNCHANGED <<field, greet, read, seen>>
  BY DEF Patch
<1>3. WriteFormed'
  BY <1>1 DEF WriteFormed
<1>4. \A f \in Fields : Baseline.field[f] = read.field[f]
  BY DEF WriteInv, BasesRead, Baseline
<1>5. PatchSeen'
  BY <1>1, <1>2, <1>4 DEF WriteInv, BasesRead, PatchSeen
<1>6. CalmIsCurrent'
  <2>1. Baseline' = Baseline
    BY <1>2 DEF Baseline
  <2> QED BY <1>1, <2>1 DEF CalmIsCurrent
<1>7. CheckedAgrees'
  BY <1>1 DEF CheckedAgrees
<1>8. FieldsFormed' /\ BasesRead'
  BY <1>2 DEF WriteInv, FieldsFormed, BasesRead
<1> QED BY <1>3, <1>5, <1>6, <1>7, <1>8 DEF WriteInv

LEMMA WriteStepKeeps ==
  ASSUME WriteInv, WriteStep
  PROVE  WriteInv'
<1>0. w # Idle /\ UNCHANGED <<field, greet, read, seen>>
  BY DEF WriteStep, Check, Set, Verify, Commit, Reread, Abort, Apart, Idle
<1>1. FieldsFormed' /\ BasesRead' /\ Baseline' = Baseline
  BY <1>0 DEF WriteInv, FieldsFormed, BasesRead, Baseline
<1>2. CASE w' = Idle
  BY <1>1, <1>2 DEF WriteInv, WriteFormed, PatchSeen, CheckedAgrees, CalmIsCurrent
<1>3. ASSUME NEW pc, pc \notin {"idle", "patched"}, NEW fresh, Agrees(fresh),
             w' = [pc |-> pc, from |-> w.from, to |-> w.to, fields |-> w.fields, list |-> w.list,
                   fresh |-> fresh, calm |-> w.calm]
      PROVE  WriteInv'
  <2>1. w' # Idle
    BY <1>3 DEF Idle
  <2>2. WriteFormed' /\ CalmIsCurrent'
    BY <1>0, <1>1, <1>3 DEF WriteInv, WriteFormed, CalmIsCurrent
  <2>3. PatchSeen'
    BY <1>0, <1>3 DEF WriteInv, PatchSeen
  <2>4. CheckedAgrees'
    BY <1>3 DEF CheckedAgrees, Agrees
  <2> QED BY <1>1, <2>2, <2>3, <2>4 DEF WriteInv
<1>4. ASSUME NEW pc, w' = [w EXCEPT !.pc = pc], w.pc # "patched"
      PROVE  /\ Agrees(w.fresh)
             /\ w' = [pc |-> pc, from |-> w.from, to |-> w.to, fields |-> w.fields, list |-> w.list,
                      fresh |-> w.fresh, calm |-> w.calm]
  BY <1>0, <1>4 DEF WriteInv, WriteFormed, CheckedAgrees
<1>5. CASE Check
  <2>1. CASE Agrees(risu)
    <3>1. w' = [pc |-> "checked", from |-> w.from, to |-> w.to, fields |-> w.fields, list |-> w.list,
                fresh |-> risu, calm |-> w.calm]
      BY <1>0, <1>5, <2>1 DEF Check, WriteInv, WriteFormed
    <3> QED BY <1>3, <2>1, <3>1
  <2>2. CASE ~Agrees(risu)
    BY <1>2, <1>5, <2>2 DEF Check
  <2> QED BY <2>1, <2>2
<1>6. CASE (\E took \in BOOLEAN : Set(took)) \/ Verify \/ Commit \/ Reread \/ Abort
  <2>1. \/ w' = Idle
        \/ \E pc \in {"set", "verified", "committed", "reread"} : w' = [w EXCEPT !.pc = pc] /\ w.pc # "patched"
    BY <1>6 DEF Set, Verify, Commit, Reread, Abort
  <2> QED BY <1>2, <1>3, <1>4, <2>1
<1> QED BY <1>5, <1>6 DEF WriteStep

LEMMA WriteInvStep == WriteInv /\ [CardNext]_cardVars => WriteInv'
<1> SUFFICES ASSUME WriteInv, [CardNext]_cardVars PROVE WriteInv'
  OBVIOUS
<1>1. ASSUME \/ \E card \in RisuCards : RisuEdit(card)
             \/ \E force \in BOOLEAN : Open(force)
             \/ \E u \in up : Lose(u)
             \/ UNCHANGED cardVars
      PROVE  WriteInv'
  <2>1. UNCHANGED <<field, greet, w, read, seen>>
    BY <1>1 DEF RisuEdit, Open, Lose, cardVars
  <2>2. FieldsFormed'
    BY <2>1 DEF WriteInv, FieldsFormed
  <2> QED BY <2>1, <2>2, WriteUntouched
<1>2. ASSUME \/ \E f \in Fields, t \in Texts : EditField(f, t)
             \/ \E r \in greet, t \in Texts : EditGreeting(r, t)
             \/ \E t \in Texts : AddGreeting(t)
             \/ \E r \in greet : DeleteGreeting(r)
             \/ \E mine \in BOOLEAN : \/ \E f \in Fields : ResolveField(f, mine)
                                      \/ \E r \in greet : ResolveGreeting(r, mine)
             \/ Reset \/ Save
             \/ \E c \in saved : Restore(c)
      PROVE  WriteInv'
  <2>1. /\ w = Idle /\ w' = w /\ read' = read /\ seen' = seen /\ FieldsFormed'
        /\ \A f \in Fields : field'[f].base = field[f].base
    BY <1>2, PanelKeepsBases
  <2> QED BY <2>1, WriteUntouched
<1> QED BY <1>1, <1>2, UploadKeeps, PatchKeeps, WriteStepKeeps DEF CardNext

\* Through uploads, edits and write-backs in any order, a write-back past the
\* host's comparison rests on a card some upload had shown.
THEOREM WriteInvariant == CardSpec => []WriteInv
<1>1. CardInit => WriteInv
  BY WriteInvInit
<1>2. WriteInv /\ [CardNext]_cardVars => WriteInv'
  BY WriteInvStep
<1> QED BY <1>1, <1>2, PTL DEF CardSpec

\* The first half of NoUnseenRevert: host.writeCharacter replaces no text of a
\* field that no upload had shown here, however late uploads are handled.
THEOREM FieldsNotReverted == CardSpec => [][FieldsSeen]_cardVars
<1>1. ASSUME WriteInv, NEW took \in BOOLEAN, Set(took), NEW f \in Fields,
             Composed.field[f] # w.fresh.field[f]
      PROVE  \E card \in seen : card.field[f] = w.fresh.field[f]
  <2>1. w # Idle /\ w.pc = "checked"
    BY <1>1 DEF Set, Idle
  <2>2. f \in w.fields /\ w.to.field[f] # w.fresh.field[f]
    BY <1>1 DEF Composed
  <2>3. w.fresh.field[f] = w.from.field[f]
    BY <1>1, <2>1, <2>2 DEF WriteInv, CheckedAgrees, Agrees
  <2> QED BY <1>1, <2>1, <2>3 DEF WriteInv, PatchSeen
<1>2. WriteInv => FieldsSeen
  BY <1>1 DEF FieldsSeen
<1>3. WriteInv /\ [CardNext]_cardVars => [FieldsSeen]_cardVars
  BY <1>2
<1> QED BY <1>3, WriteInvariant, PTL DEF CardSpec

\* The first half of BackupUndoes: the checkpoint of POST /card/commit holds
\* every field and the greetings the write replaced, unless an upload was
\* handled in between.
THEOREM CommitKeepsTheOld == CardSpec => [][CommitKeepsReplaced]_cardVars
<1>1. ASSUME WriteInv, Commit, w.calm
      PROVE  \E c \in saved' :
               /\ \A f \in Fields : Composed.field[f] # w.fresh.field[f] => c.field[f] = w.fresh.field[f]
               /\ Composed.greet # w.fresh.greet => c.greet = w.fresh.greet
  <2>1. w # Idle /\ w.pc = "verified" /\ Baseline \in saved'
    BY <1>1 DEF Commit, Idle
  <2>2. Agrees(w.fresh) /\ w.from = Baseline
    BY <1>1, <2>1 DEF WriteInv, CheckedAgrees, CalmIsCurrent
  <2>3. ASSUME NEW f \in Fields, Composed.field[f] # w.fresh.field[f]
        PROVE  Baseline.field[f] = w.fresh.field[f]
    <3>1. f \in w.fields /\ w.to.field[f] # w.fresh.field[f]
      BY <2>3 DEF Composed
    <3> QED BY <2>2, <3>1 DEF Agrees
  <2>4. ASSUME Composed.greet # w.fresh.greet
        PROVE  Baseline.greet = w.fresh.greet
    <3>1. w.list /\ w.to.greet # w.fresh.greet
      BY <2>4 DEF Composed
    <3> QED BY <2>2, <3>1 DEF Agrees
  <2> QED BY <2>1, <2>3, <2>4
<1>2. WriteInv => CommitKeepsReplaced
  BY <1>1 DEF CommitKeepsReplaced
<1>3. WriteInv /\ [CardNext]_cardVars => [CommitKeepsReplaced]_cardVars
  BY <1>2
<1> QED BY <1>3, WriteInvariant, PTL DEF CardSpec

-----------------------------------------------------------------------------
(* Pairing two lists of texts.                                             *)

\* No place of either list is paired twice.
OneToOne(pairs, b, t) ==
  /\ \A p \in pairs : p \in (DOMAIN b) \X (DOMAIN t)
  /\ \A p, q \in pairs : p[1] = q[1] \/ p[2] = q[2] => p = q

LEMMA ExactUnfolds ==
  ASSUME NEW b \in Seq(Texts), NEW t \in Seq(Texts)
  PROVE  \E f : /\ Exact(b, t) = f[Len(b)].pairs
                /\ f[0] = [pairs |-> {}, last |-> 0]
                /\ \A i \in 1 .. Len(b) : f[i] = Claimed(f[i - 1], b, t, i)
<1> DEFINE zero == [pairs |-> {}, last |-> 0]
           Def(f, n) == f = [i \in 0 .. n |-> IF i = 0 THEN zero ELSE Claimed(f[i - 1], b, t, i)]
           S == {n \in Nat : \E f : Def(f, n)}
<1> HIDE DEF zero
<1>1. 0 \in S
  <2>1. Def([i \in 0 .. 0 |-> zero], 0)
    OBVIOUS
  <2> QED BY <2>1
<1>2. ASSUME NEW n \in Nat, n \in S PROVE n + 1 \in S
  <2>1. PICK f : Def(f, n)
    BY <1>2
  <2> DEFINE g == [i \in 0 .. (n + 1) |-> IF i <= n THEN f[i]
                                          ELSE IF i = 0 THEN zero ELSE Claimed(f[i - 1], b, t, i)]
  <2>2. ASSUME NEW i \in 0 .. (n + 1)
        PROVE  g[i] = IF i = 0 THEN zero ELSE Claimed(g[i - 1], b, t, i)
    <3>1. CASE i <= n
      <4>1. i \in 0 .. n /\ (i # 0 => i - 1 \in 0 .. n)
        BY <3>1
      <4>2. f[i] = IF i = 0 THEN zero ELSE Claimed(f[i - 1], b, t, i)
        BY <2>1, <4>1
      <4>3. g[i] = f[i] /\ (i # 0 => g[i - 1] = f[i - 1])
        BY <3>1, <4>1
      <4> QED BY <4>2, <4>3
    <3>2. CASE ~ (i <= n)
      <4>1. i = n + 1 /\ i # 0 /\ i - 1 \in 0 .. n /\ i - 1 \in 0 .. (n + 1)
        BY <3>2
      <4>2. g[i - 1] = f[i - 1]
        BY <4>1
      <4>3. g[i] = Claimed(f[i - 1], b, t, i)
        BY <3>2, <4>1
      <4> QED BY <4>1, <4>2, <4>3
    <3> QED BY <3>1, <3>2
  <2>3. Def(g, n + 1)
    <3>1. g = [i \in 0 .. (n + 1) |-> g[i]]
      OBVIOUS
    <3> HIDE DEF g
    <3> QED BY <2>2, <3>1
  <2> HIDE DEF g, Def
  <2> QED BY <2>3
<1>3. \E f : Def(f, Len(b))
  <2>1. Len(b) \in Nat
    OBVIOUS
  <2> HIDE DEF Def
  <2> QED BY <1>1, <1>2, <2>1, SetInduction
<1> DEFINE F == CHOOSE f : Def(f, Len(b))
<1>4. Def(F, Len(b))
  BY <1>3
<1>5. Exact(b, t) = F[Len(b)].pairs
  BY DEF Exact, zero
<1> HIDE DEF F
<1>6. F[0] = zero /\ \A i \in 1 .. Len(b) : F[i] = Claimed(F[i - 1], b, t, i)
  <2>1. \A i \in 0 .. Len(b) : F[i] = IF i = 0 THEN zero ELSE Claimed(F[i - 1], b, t, i)
    BY <1>4, Zenon
  <2>2. Len(b) \in Nat /\ 0 \in 0 .. Len(b) /\ \A i \in 1 .. Len(b) : i \in 0 .. Len(b) /\ i # 0
    OBVIOUS
  <2>3. F[0] = zero
    BY <2>1, <2>2
  <2>4. ASSUME NEW i \in 1 .. Len(b) PROVE F[i] = Claimed(F[i - 1], b, t, i)
    BY <2>1, <2>2
  <2> QED BY <2>3, <2>4
<1> QED BY <1>5, <1>6 DEF zero

\* One more text of b claims one text of t that says the same, or none is left.
LEMMA ClaimsOne ==
  ASSUME NEW b \in Seq(Texts), NEW t \in Seq(Texts), NEW found, NEW i \in DOMAIN b
  PROVE  \/ /\ Claimed(found, b, t, i).pairs = found.pairs
            /\ \A j \in RightOf(t, found.pairs) : t[j] # b[i]
         \/ \E j \in RightOf(t, found.pairs) :
              /\ Claimed(found, b, t, i).pairs = found.pairs \cup {<<i, j>>}
              /\ t[j] = b[i]
<1> DEFINE pool == {j \in RightOf(t, found.pairs) : t[j] = b[i]}
           ahead == {j \in pool : j >= found.last}
           from == IF ahead # {} THEN ahead ELSE pool
<1>1. CASE pool = {}
  BY <1>1 DEF Claimed
<1>2. CASE pool # {}
  <2>1. Claimed(found, b, t, i) = [pairs |-> found.pairs \cup {<<i, Min(from)>>}, last |-> Min(from)]
    BY <1>2 DEF Claimed
  <2>2. /\ from # {} /\ \A j \in from : j \in Nat
        /\ \A j \in from : j \in RightOf(t, found.pairs) /\ t[j] = b[i]
    BY <1>2 DEF RightOf
  <2> HIDE DEF from, pool, ahead
  <2>3. Min(from) \in from
    BY <2>2, MinProperties
  <2> QED BY <2>1, <2>2, <2>3
<1> QED BY <1>1, <1>2

LEMMA ExactOneToOne ==
  ASSUME NEW b \in Seq(Texts), NEW t \in Seq(Texts)
  PROVE  OneToOne(Exact(b, t), b, t)
<1>1. PICK f : /\ Exact(b, t) = f[Len(b)].pairs
               /\ f[0] = [pairs |-> {}, last |-> 0]
               /\ \A i \in 1 .. Len(b) : f[i] = Claimed(f[i - 1], b, t, i)
  BY ExactUnfolds
<1> DEFINE Sound(n) == /\ \A p \in f[n].pairs : p \in (1 .. n) \X (DOMAIN t)
                       /\ \A p, q \in f[n].pairs : p[1] = q[1] \/ p[2] = q[2] => p = q
           S == {n \in Nat : n <= Len(b) => Sound(n)}
<1>2. 0 \in S
  BY <1>1
<1>3. ASSUME NEW n \in Nat, n \in S, n + 1 <= Len(b) PROVE Sound(n + 1)
  <2>1. n + 1 \in DOMAIN b /\ n + 1 \in 1 .. Len(b) /\ (n + 1) - 1 = n
    BY <1>3
  <2>2. f[n + 1] = Claimed(f[n], b, t, n + 1)
    BY <1>1, <2>1
  <2>3. Sound(n)
    BY <1>3
  <2>4. \/ f[n + 1].pairs = f[n].pairs
        \/ \E j \in RightOf(t, f[n].pairs) : f[n + 1].pairs = f[n].pairs \cup {<<n + 1, j>>}
    BY <2>1, <2>2, ClaimsOne
  <2>5. \A k \in 1 .. n : k \in 1 .. (n + 1) /\ k # n + 1
    OBVIOUS
  <2>6. CASE f[n + 1].pairs = f[n].pairs
    BY <2>3, <2>5, <2>6
  <2>7. ASSUME NEW j \in RightOf(t, f[n].pairs), f[n + 1].pairs = f[n].pairs \cup {<<n + 1, j>>}
        PROVE  Sound(n + 1)
    <3>1. j \in DOMAIN t /\ \A p \in f[n].pairs : p[2] # j
      BY <2>7 DEF RightOf
    <3>2. \A p \in f[n].pairs : p \in (1 .. (n + 1)) \X (DOMAIN t) /\ p[1] # n + 1
      BY <2>3, <2>5
    <3>3. <<n + 1, j>> \in (1 .. (n + 1)) \X (DOMAIN t) /\ <<n + 1, j>>[1] = n + 1 /\ <<n + 1, j>>[2] = j
      BY <3>1
    <3>4. \A p, q \in f[n].pairs : p[1] = q[1] \/ p[2] = q[2] => p = q
      BY <2>3
    <3>5. PICK e : e = <<n + 1, j>>
      OBVIOUS
    <3>6. PICK old : old = f[n].pairs
      OBVIOUS
    <3>7. \A p, q \in old \cup {e} : p[1] = q[1] \/ p[2] = q[2] => p = q
      BY ONLY <3>1, <3>2, <3>3, <3>4, <3>5, <3>6
    <3> QED BY <2>7, <3>2, <3>3, <3>5, <3>6, <3>7
  <2> QED BY <2>4, <2>6, <2>7
<1>4. Len(b) \in S /\ Len(b) \in Nat
  <2>1. \A n \in Nat : n \in S => n + 1 \in S
    BY <1>3
  <2> HIDE DEF S
  <2> QED BY <1>2, <2>1, SetInduction
<1>5. Sound(Len(b)) /\ DOMAIN b = 1 .. Len(b)
  BY <1>4
<1> QED BY <1>1, <1>5 DEF OneToOne

\* merge.match pairs each row and each text of RisuAI's at most once.
LEMMA MatchOneToOne ==
  ASSUME NEW b \in Seq(Texts), NEW t \in Seq(Texts)
  PROVE  OneToOne(Match(b, t), b, t)
<1> DEFINE exact == Exact(b, t)
           left == LeftOf(b, exact)
           right == RightOf(t, exact)
           rest == {p \in left \X right : Rank(left, p[1]) = Rank(right, p[2])}
<1>1. Match(b, t) = exact \cup rest
  BY DEF Match
<1>2. OneToOne(exact, b, t)
  BY ExactOneToOne
<1>3. /\ \A i \in left : i \in DOMAIN b /\ i \in Nat /\ \A p \in exact : p[1] # i
      /\ \A j \in right : j \in DOMAIN t /\ j \in Nat /\ \A p \in exact : p[2] # j
  BY DEF LeftOf, RightOf
<1> HIDE DEF exact, left, right
<1>4. ASSUME NEW p \in rest, NEW q \in rest, p[1] = q[1] \/ p[2] = q[2] PROVE p = q
  <2>1. /\ p[1] \in left /\ q[1] \in left /\ p[2] \in right /\ q[2] \in right
        /\ p = <<p[1], p[2]>> /\ q = <<q[1], q[2]>>
        /\ Rank(left, p[1]) = Rank(right, p[2]) /\ Rank(left, q[1]) = Rank(right, q[2])
    OBVIOUS
  <2>2. p[1] = q[1] => p[2] = q[2]
    BY <1>3, <2>1, RankIsInjective
  <2>3. p[2] = q[2] => p[1] = q[1]
    BY <1>3, <2>1, RankIsInjective
  <2> QED BY <1>4, <2>1, <2>2, <2>3
<1>5. ASSUME NEW p \in exact, NEW q \in rest PROVE p[1] # q[1] /\ p[2] # q[2]
  BY <1>3
<1>6. \A p \in rest : p \in (DOMAIN b) \X (DOMAIN t)
  BY <1>3
<1> HIDE DEF rest
<1> QED BY <1>1, <1>2, <1>4, <1>5, <1>6 DEF OneToOne

\* The exact tier pairs what says the same, and leaves no two that do.
LEMMA ExactTexts ==
  ASSUME NEW b \in Seq(Texts), NEW t \in Seq(Texts)
  PROVE  /\ \A p \in Exact(b, t) : t[p[2]] = b[p[1]]
         /\ \A i \in LeftOf(b, Exact(b, t)), j \in RightOf(t, Exact(b, t)) : t[j] # b[i]
<1>1. PICK f : /\ Exact(b, t) = f[Len(b)].pairs
               /\ f[0] = [pairs |-> {}, last |-> 0]
               /\ \A i \in 1 .. Len(b) : f[i] = Claimed(f[i - 1], b, t, i)
  BY ExactUnfolds
<1> DEFINE Same(n) == \A p \in f[n].pairs : t[p[2]] = b[p[1]]
           Spent(n) == \A i \in 1 .. n : \/ \E p \in f[n].pairs : p[1] = i
                                         \/ \A j \in RightOf(t, f[n].pairs) : t[j] # b[i]
           S == {n \in Nat : n <= Len(b) => Same(n) /\ Spent(n)}
<1>2. 0 \in S
  BY <1>1
<1>3. ASSUME NEW n \in Nat, n \in S, n + 1 <= Len(b) PROVE Same(n + 1) /\ Spent(n + 1)
  <2>1. n + 1 \in DOMAIN b /\ n + 1 \in 1 .. Len(b) /\ (n + 1) - 1 = n
    BY <1>3
  <2>2. f[n + 1] = Claimed(f[n], b, t, n + 1)
    BY <1>1, <2>1
  <2>3. Same(n) /\ Spent(n)
    BY <1>3
  <2>4. \/ f[n + 1].pairs = f[n].pairs /\ \A j \in RightOf(t, f[n].pairs) : t[j] # b[n + 1]
        \/ \E j \in RightOf(t, f[n].pairs) :
             f[n + 1].pairs = f[n].pairs \cup {<<n + 1, j>>} /\ t[j] = b[n + 1]
    BY <2>1, <2>2, ClaimsOne
  <2>5. \A i \in 1 .. (n + 1) : i \in 1 .. n \/ i = n + 1
    BY ONLY n \in Nat
  <2>6. CASE f[n + 1].pairs = f[n].pairs /\ \A j \in RightOf(t, f[n].pairs) : t[j] # b[n + 1]
    BY <2>3, <2>5, <2>6
  <2>7. ASSUME NEW j \in RightOf(t, f[n].pairs), t[j] = b[n + 1],
               f[n + 1].pairs = f[n].pairs \cup {<<n + 1, j>>}
        PROVE  Same(n + 1) /\ Spent(n + 1)
    <3>0. PICK e : e = <<n + 1, j>>
      OBVIOUS
    <3>1. e = <<n + 1, j>> /\ e[1] = n + 1 /\ e[2] = j
      BY <3>0
    <3>2. /\ e \in f[n + 1].pairs /\ \A p \in f[n].pairs : p \in f[n + 1].pairs
          /\ \A p \in f[n + 1].pairs : p \in f[n].pairs \/ p = e
      BY <2>7, <3>1
    <3>3. Same(n + 1)
      BY <2>3, <2>7, <3>1, <3>2
    <3>4. \A k \in RightOf(t, f[n + 1].pairs) : k \in RightOf(t, f[n].pairs)
      BY <3>2 DEF RightOf
    <3>5. Spent(n + 1)
      BY <2>3, <2>5, <3>1, <3>2, <3>4
    <3> QED BY <3>3, <3>5
  <2> QED BY <2>4, <2>6, <2>7
<1>4. Len(b) \in S /\ Len(b) \in Nat
  <2> HIDE DEF Same, Spent
  <2>1. \A n \in Nat : n \in S => n + 1 \in S
    BY <1>3
  <2> HIDE DEF S
  <2> QED BY <1>2, <2>1, SetInduction
<1>5. Same(Len(b)) /\ Spent(Len(b)) /\ DOMAIN b = 1 .. Len(b)
  BY <1>4
<1> HIDE DEF S
<1> QED BY <1>1, <1>5 DEF LeftOf

\* The i-th left over is paired with the i-th left over while both have one.
Places(I, n) == n \in Nat /\ \A i \in I : i \in 1 .. n
LEMMA LeftOverTogether ==
  ASSUME NEW I, NEW n, Places(I, n), NEW J, NEW m, Places(J, m),
         NEW i \in I, NEW j \in J
  PROVE  \/ \E k \in J : Rank(I, i) = Rank(J, k)
         \/ \E k \in I : Rank(I, k) = Rank(J, j)
<1>1. /\ Cardinality(I) \in Nat /\ Rank(I, i) + 1 \in 1 .. Cardinality(I)
      /\ Cardinality(J) \in Nat /\ Rank(J, j) + 1 \in 1 .. Cardinality(J)
  BY NthProperties DEF Places
<1>2. Rank(I, i) \in Nat /\ Rank(J, j) \in Nat
  <2>1. (\A k \in I : k \in Nat) /\ \A k \in J : k \in Nat
    BY DEF Places
  <2> QED BY <2>1, RankIsNat
<1>3. CASE Rank(I, i) <= Rank(J, j)
  <2>1. Rank(I, i) + 1 \in 1 .. Cardinality(J) /\ (Rank(I, i) + 1) - 1 = Rank(I, i)
    BY <1>1, <1>2, <1>3
  <2> QED BY <2>1, RankIsOnto DEF Places
<1>4. CASE Rank(J, j) <= Rank(I, i)
  <2>1. Rank(J, j) + 1 \in 1 .. Cardinality(I) /\ (Rank(J, j) + 1) - 1 = Rank(J, j)
    BY <1>1, <1>2, <1>4
  <2> QED BY <2>1, RankIsOnto DEF Places
<1> QED BY <1>2, <1>3, <1>4

\* While a row is left over, RisuAI's list is used up, and no text of it that
\* says what the row said is paired with one that said something else.
LEMMA MatchLeftOver ==
  ASSUME NEW b \in Seq(Texts), NEW t \in Seq(Texts), NEW i \in LeftOf(b, Match(b, t))
  PROVE  /\ RightOf(t, Match(b, t)) = {}
         /\ \A p \in Match(b, t) : t[p[2]] = b[i] => b[p[1]] = b[i]
<1> DEFINE exact == Exact(b, t)
           left == LeftOf(b, exact)
           right == RightOf(t, exact)
           rest == {p \in left \X right : Rank(left, p[1]) = Rank(right, p[2])}
<1>1. Match(b, t) = exact \cup rest
  BY DEF Match
<1>2. /\ \A p \in exact : t[p[2]] = b[p[1]]
      /\ \A k \in left, j \in right : t[j] # b[k]
  BY ExactTexts
<1>3. /\ Len(b) \in Nat /\ \A k \in left : k \in 1 .. Len(b)
      /\ Len(t) \in Nat /\ \A j \in right : j \in 1 .. Len(t)
  BY DEF LeftOf, RightOf
<1>4. i \in left /\ \A p \in rest : p[1] # i
  BY <1>1 DEF LeftOf
<1>5. \A j \in RightOf(t, Match(b, t)) : j \in right /\ \A p \in rest : p[2] # j
  BY <1>1 DEF RightOf
<1> HIDE DEF exact, left, right
<1>6. \A k \in left, j \in right : Rank(left, k) = Rank(right, j) => <<k, j>> \in rest
  OBVIOUS
<1>7. ASSUME NEW j \in RightOf(t, Match(b, t)) PROVE FALSE
  <2>1. j \in right
    BY <1>5
  <2>2. \/ \E k \in right : Rank(left, i) = Rank(right, k)
        \/ \E k \in left : Rank(left, k) = Rank(right, j)
    <3>1. Places(left, Len(b)) /\ Places(right, Len(t)) /\ i \in left
      BY <1>3, <1>4 DEF Places
    <3> HIDE DEF rest
    <3> QED BY <2>1, <3>1, LeftOverTogether
  <2>3. \A k : <<i, k>>[1] = i /\ <<k, j>>[2] = j
    OBVIOUS
  <2> HIDE DEF rest
  <2> QED BY <1>4, <1>5, <1>6, <2>1, <2>2, <2>3
<1>8. \A p \in rest : t[p[2]] # b[i]
  BY <1>2, <1>4
<1> HIDE DEF rest
<1> QED BY <1>1, <1>2, <1>7, <1>8

\* A list is paired with itself place by place.
LEMMA MatchSame ==
  ASSUME NEW b \in Seq(Texts)
  PROVE  Match(b, b) = {<<k, k>> : k \in DOMAIN b}
<1>1. PICK f : /\ Exact(b, b) = f[Len(b)].pairs
               /\ f[0] = [pairs |-> {}, last |-> 0]
               /\ \A i \in 1 .. Len(b) : f[i] = Claimed(f[i - 1], b, b, i)
  BY ExactUnfolds
<1> DEFINE Same(n) == f[n].pairs = {<<k, k>> : k \in 1 .. n} /\ f[n].last = n
           S == {n \in Nat : n <= Len(b) => Same(n)}
<1>2. 0 \in S
  BY <1>1
<1>3. ASSUME NEW n \in Nat, n \in S, n + 1 <= Len(b) PROVE Same(n + 1)
  <2>1. n + 1 \in DOMAIN b /\ n + 1 \in 1 .. Len(b) /\ (n + 1) - 1 = n
    BY <1>3
  <2>2. f[n + 1] = Claimed(f[n], b, b, n + 1)
    BY <1>1, <2>1
  <2>3. Same(n)
    BY <1>3
  <2> DEFINE pool == {j \in RightOf(b, f[n].pairs) : b[j] = b[n + 1]}
             ahead == {j \in pool : j >= f[n].last}
             from == IF ahead # {} THEN ahead ELSE pool
  <2>4. \A j \in RightOf(b, f[n].pairs) : j \in Nat /\ j >= n + 1
    <3> TAKE j \in RightOf(b, f[n].pairs)
    <3>1. j \in DOMAIN b /\ \A p \in f[n].pairs : p[2] # j
      BY DEF RightOf
    <3>2. j \notin 1 .. n
      <4> SUFFICES ASSUME j \in 1 .. n PROVE FALSE
        OBVIOUS
      <4>1. <<j, j>> \in f[n].pairs /\ <<j, j>>[2] = j
        BY <2>3
      <4> QED BY <3>1, <4>1
    <3> QED BY <3>1, <3>2
  <2>5. n + 1 \in RightOf(b, f[n].pairs)
    <3>1. \A p \in f[n].pairs : \E k \in 1 .. n : p[2] = k
      BY <2>3
    <3>2. \A p \in f[n].pairs : p[2] # n + 1
      BY <3>1
    <3> QED BY <2>1, <3>2 DEF RightOf
  <2>6. n + 1 \in ahead
    BY <2>3, <2>5
  <2>7. /\ n + 1 \in from /\ from # {} /\ pool # {}
        /\ \A j \in from : j \in Nat /\ j >= n + 1
    BY <2>4, <2>6
  <2>8. Claimed(f[n], b, b, n + 1) =
          [pairs |-> f[n].pairs \cup {<<n + 1, Min(from)>>}, last |-> Min(from)]
    BY <2>7 DEF Claimed
  <2> HIDE DEF from, ahead, pool
  <2>9. Min(from) = n + 1
    <3>1. Min(from) \in from /\ \A j \in from : Min(from) <= j
      BY <2>7, MinProperties
    <3> QED BY <2>7, <3>1
  <2>10. f[n + 1].pairs = {<<k, k>> : k \in 1 .. n} \cup {<<n + 1, n + 1>>} /\ f[n + 1].last = n + 1
    BY <2>2, <2>3, <2>8, <2>9
  <2>11. 1 .. (n + 1) = (1 .. n) \cup {n + 1}
    OBVIOUS
  <2> QED BY <2>10, <2>11
<1>4. Len(b) \in S /\ Len(b) \in Nat
  <2>1. \A n \in Nat : n \in S => n + 1 \in S
    BY <1>3
  <2> HIDE DEF S
  <2> QED BY <1>2, <2>1, SetInduction
<1>5. Exact(b, b) = {<<k, k>> : k \in DOMAIN b}
  BY <1>1, <1>4
<1>6. LeftOf(b, Exact(b, b)) = {}
  <2>1. \A k \in DOMAIN b : <<k, k>> \in Exact(b, b) /\ <<k, k>>[1] = k
    BY <1>5
  <2> QED BY <2>1, Zenon DEF LeftOf
<1> QED BY <1>5, <1>6 DEF Match

-----------------------------------------------------------------------------
(* Rows in order.                                                          *)

\* What the rows of greetings are, as a table: each has an id of its own.
Table(S) ==
  /\ IsFiniteSet(S)
  /\ \A r \in S : r \in GreetRows
  /\ \A r, s \in S : r.id = s.id => r = s

BySeq(S) ==
  {p \in S \X S : p[1].seq < p[2].seq \/ (p[1].seq = p[2].seq /\ p[1].id < p[2].id)}
ByBase(S) ==
  {p \in S \X S : \/ BasePlace(p[1]) < BasePlace(p[2])
                  \/ BasePlace(p[1]) = BasePlace(p[2]) /\ p[1].id < p[2].id}

LEMMA RowNumbers ==
  ASSUME NEW r \in GreetRows
  PROVE  /\ r.id \in Nat /\ r.seq \in Nat /\ BasePlace(r) \in Nat /\ r.body \in Texts
         /\ r.bseq # NoPlace => r.bseq \in Nat
BY DEF GreetRows, BasePlace, NoPlace

LEMMA BySeqOrders ==
  ASSUME NEW S, Table(S)
  PROVE  Orders(BySeq(S), S)
<1>1. \A r, s \in S : <<r, s>> \in BySeq(S) <=> r.seq < s.seq \/ (r.seq = s.seq /\ r.id < s.id)
  BY DEF BySeq
<1>2. \A r \in S : r.id \in Nat /\ r.seq \in Nat
  BY RowNumbers DEF Table
<1>3. ASSUME NEW r \in S, NEW s \in S, r # s
      PROVE  <<r, s>> \in BySeq(S) \/ <<s, r>> \in BySeq(S)
  <2>1. r.id # s.id
    BY <1>3 DEF Table
  <2> QED BY <1>1, <1>2, <2>1
<1>4. \A r \in S : <<r, r>> \notin BySeq(S)
  BY <1>1, <1>2
<1>5. ASSUME NEW r \in S, NEW s \in S, NEW q \in S, <<r, s>> \in BySeq(S), <<s, q>> \in BySeq(S)
      PROVE  <<r, q>> \in BySeq(S)
  BY <1>1, <1>2, <1>5
<1> QED BY <1>3, <1>4, <1>5 DEF Orders

LEMMA ByBaseOrders ==
  ASSUME NEW S, Table(S)
  PROVE  Orders(ByBase(S), S)
<1>1. \A r, s \in S : <<r, s>> \in ByBase(S) <=> BasePlace(r) < BasePlace(s) \/ (BasePlace(r) = BasePlace(s) /\ r.id < s.id)
  BY DEF ByBase
<1>2. \A r \in S : r.id \in Nat /\ BasePlace(r) \in Nat
  BY RowNumbers DEF Table
<1>3. ASSUME NEW r \in S, NEW s \in S, r # s
      PROVE  <<r, s>> \in ByBase(S) \/ <<s, r>> \in ByBase(S)
  <2>1. r.id # s.id
    BY <1>3 DEF Table
  <2> QED BY <1>1, <1>2, <2>1
<1>4. \A r \in S : <<r, r>> \notin ByBase(S)
  BY <1>1, <1>2
<1>5. ASSUME NEW r \in S, NEW s \in S, NEW q \in S, <<r, s>> \in ByBase(S), <<s, q>> \in ByBase(S)
      PROVE  <<r, q>> \in ByBase(S)
  BY <1>1, <1>2, <1>5
<1> QED BY <1>3, <1>4, <1>5 DEF Orders

LEMMA InOrderLines ==
  ASSUME NEW S, Table(S)
  PROVE  Lines(InOrder(S), S, BySeq(S))
<1>1. InOrder(S) = Sorted(S, BySeq(S))
  BY DEF InOrder, BySeq
<1>2. IsFiniteSet(S)
  BY DEF Table
<1> QED BY <1>1, <1>2, BySeqOrders, SortedProperties DEF Lines

LEMMA InBaseOrderLines ==
  ASSUME NEW S, Table(S)
  PROVE  Lines(InBaseOrder(S), S, ByBase(S))
<1>1. InBaseOrder(S) = Sorted(S, ByBase(S))
  BY DEF InBaseOrder, ByBase
<1>2. IsFiniteSet(S)
  BY DEF Table
<1> QED BY <1>1, <1>2, ByBaseOrders, SortedProperties DEF Lines

\* New ids are new, each of its own.
LEMMA NewIdsAreNew ==
  ASSUME NEW S, Table(S), NEW n \in Nat
  PROVE  /\ NewIds(S, n) \in Seq(Nat) /\ Len(NewIds(S, n)) >= n
         /\ \A k \in 1 .. n : k \in DOMAIN NewIds(S, n) /\ NewIds(S, n)[k] \in Nat
                              /\ \A r \in S : r.id # NewIds(S, n)[k]
         /\ \A k, q \in 1 .. n : NewIds(S, n)[k] = NewIds(S, n)[q] => k = q
<1> DEFINE c == Cardinality(S)
           taken == {r.id : r \in S}
           f == [r \in S |-> r.id]
<1>1. c \in Nat /\ IsFiniteSet(S)
  BY FS_CardinalityType DEF Table
<1>2. IsFiniteSet(taken) /\ Cardinality(taken) <= c
  <2>1. (\A r \in S : f[r] \in taken) /\ \A i \in taken : \E r \in S : f[r] = i
    OBVIOUS
  <2> HIDE DEF f, taken
  <2> QED BY <1>1, <2>1, ImageCardinality, ZenonT(40)
<1>3. NewIds(S, n) = Ascending((1 .. (c + n)) \ taken)
  BY DEF NewIds
<1>4. \A r \in S : r.id \in taken
  OBVIOUS
<1> HIDE DEF c, taken
<1>5. PICK ids : ids = NewIds(S, n)
  OBVIOUS
<1>6. ids = Ascending((1 .. (c + n)) \ taken) /\ Cardinality(taken) <= c
  BY <1>2, <1>3, <1>5
<1>7. NewNumbers(ids, n, taken)
  BY <1>1, <1>2, <1>6, FreeNumbers
<1>8. \A k \in 1 .. n : \A r \in S : r.id # ids[k]
  BY <1>4, <1>7 DEF NewNumbers
<1> QED BY <1>5, <1>7, <1>8 DEF NewNumbers

-----------------------------------------------------------------------------
(* What a re-open and a restore make of one row.                           *)

LEMMA GreetRowTyped ==
  ASSUME NEW id \in Nat, NEW seq \in Nat, NEW body \in Texts, NEW base \in Texts \cup {NoText},
         NEW bseq \in Nat \cup {NoPlace}
  PROVE  GreetRow(id, seq, body, base, bseq) \in GreetRows
BY DEF GreetRow, GreetRows, Marks, NoMark

LEMMA PairedRow ==
  ASSUME NEW r \in GreetRows, NEW t \in Texts, NEW j \in Nat
  PROVE  /\ Paired(r, t, j) \in GreetRows
         /\ Paired(r, t, j).id = r.id /\ Paired(r, t, j).seq = r.seq
         /\ Paired(r, t, j).body = r.body /\ Paired(r, t, j).gone = r.gone
         /\ Paired(r, t, j).base = t /\ Paired(r, t, j).bseq = j
         /\ t = r.base => Paired(r, t, j).mark = r.mark
<1> DEFINE kind == IF ~r.gone /\ r.body = r.base THEN "weak-match" ELSE "both-moved"
           mark == IF t \in {r.base, r.body} THEN r.mark ELSE [kind |-> kind, theirs |-> t]
<1>1. mark \in Marks
  BY DEF Marks, GreetRows
<1>2. Paired(r, t, j) = [r EXCEPT !.base = t, !.bseq = j, !.mark = mark]
  BY DEF Paired
<1>3. t = r.base => mark = r.mark
  OBVIOUS
<1> HIDE DEF mark
<1> QED BY <1>1, <1>2, <1>3 DEF GreetRows

LEMMA DroppedRow ==
  ASSUME NEW r \in GreetRows, NEW s \in Dropped(r)
  PROVE  /\ s \in GreetRows /\ ~r.gone
         /\ s.id = r.id /\ s.body = r.body /\ s.gone = r.gone
         /\ s.base = NoText /\ s.bseq = NoPlace
<1> DEFINE mark == [kind |-> "deleted-upstream", theirs |-> NoText]
<1>1. mark \in Marks
  BY DEF Marks
<1>2. s = [r EXCEPT !.base = NoText, !.bseq = NoPlace, !.mark = mark] /\ ~r.gone
  BY DEF Dropped
<1> HIDE DEF mark
<1> QED BY <1>1, <1>2 DEF GreetRows

-----------------------------------------------------------------------------
(* Rows over the list RisuAI showed.                                       *)

\* Rows with an original stand each at a place of their own of the list, and
\* their original is the text there.
Placed(S, list) ==
  /\ \A r \in S : r.base = NoText <=> r.bseq = NoPlace
  /\ \A r \in S : r.base # NoText => r.bseq \in DOMAIN list /\ list[r.bseq] = r.base
  /\ \A r, s \in S : r.base # NoText /\ s.base # NoText /\ r.bseq = s.bseq => r = s

\* And every place is that of a row.
Filled(S, list) == \A j \in DOMAIN list : \E r \in S : r.base # NoText /\ r.bseq = j

WithBase(S) == {r \in S : r.base # NoText}

LEMMA TableOfIds ==
  ASSUME NEW M, NEW T, IsFiniteSet(T), \A r \in M : r \in GreetRows /\ r.id \in T,
         \A r, s \in M : r.id = s.id => r = s
  PROVE  Table(M)
<1> DEFINE f == [r \in M |-> r.id]
<1>1. f \in [M -> T] /\ DOMAIN f = M /\ \A r \in M : f[r] = r.id
  OBVIOUS
<1>2. f \in Injection(M, T)
  <2> HIDE DEF f
  <2> QED BY <1>1 DEF Injection, IsInjective
<1>3. IsFiniteSet(M)
  <2> HIDE DEF f
  <2> QED BY <1>2, FS_Injection
<1> QED BY <1>3 DEF Table

LEMMA PartOfTable ==
  ASSUME NEW S, Table(S), NEW M \in SUBSET S
  PROVE  Table(M)
<1>1. IsFiniteSet(M)
  BY FS_Subset DEF Table
<1> QED BY <1>1 DEF Table

\* The baseline is within the list, in its order.
LEMMA BasedWithin ==
  ASSUME NEW S, Table(S), NEW list \in Seq(Texts), Placed(S, list)
  PROVE  /\ Lines(Based(S), WithBase(S), ByBase(WithBase(S)))
         /\ Bases(Based(S)) \in Seq(Texts) /\ DOMAIN Bases(Based(S)) = DOMAIN Based(S)
         /\ \A k \in DOMAIN Based(S) : Bases(Based(S))[k] = Based(S)[k].base
         /\ Within(Bases(Based(S)), list)
<1> DEFINE B == WithBase(S)
           based == Based(S)
           b == Bases(based)
           at == [k \in DOMAIN b |-> based[k].bseq]
<1>1. Table(B)
  <2>1. B \in SUBSET S
    BY DEF WithBase
  <2> QED BY <2>1, PartOfTable
<1>2. Lines(based, B, ByBase(B))
  <2>1. based = InBaseOrder(B)
    BY DEF Based, WithBase
  <2> QED BY <1>1, <2>1, InBaseOrderLines
<1>3. \A r \in B : /\ r \in S /\ r \in GreetRows /\ r.base # NoText /\ r.base \in Texts
                   /\ r.bseq \in DOMAIN list /\ r.bseq \in Nat /\ list[r.bseq] = r.base
                   /\ r.id \in Nat /\ BasePlace(r) = r.bseq
  <2> TAKE r \in B
  <2>1. r \in S /\ r.base # NoText /\ r \in GreetRows
    BY DEF WithBase, Table
  <2>2. r.bseq \in DOMAIN list /\ list[r.bseq] = r.base /\ r.bseq # NoPlace
    BY <2>1 DEF Placed
  <2>3. BasePlace(r) = r.bseq
    BY <2>2 DEF BasePlace
  <2> QED BY <2>1, <2>2, <2>3 DEF GreetRows
<1>4. DOMAIN b = DOMAIN based /\ \A k \in DOMAIN based : b[k] = based[k].base
  BY DEF Bases
<1> HIDE DEF B, based
<1>5. b \in Seq(Texts)
  <2>1. \A k \in 1 .. Cardinality(B) : based[k].base \in Texts
    BY <1>2, <1>3 DEF Lines
  <2>2. b = [k \in 1 .. Cardinality(B) |-> based[k].base] /\ Cardinality(B) \in Nat
    BY <1>2 DEF Bases, Lines
  <2> QED BY <2>1, <2>2
<1> HIDE DEF b
<1>6. at \in [DOMAIN b -> DOMAIN list]
  BY <1>2, <1>3, <1>4 DEF Lines
<1>7. ASSUME NEW k \in DOMAIN based, NEW q \in DOMAIN based, q < k
      PROVE  based[q].bseq < based[k].bseq
  <2>1. based[q] \in B /\ based[k] \in B /\ based[q] # based[k] /\ <<based[q], based[k]>> \in ByBase(B)
    <3>1. q # k
      BY <1>2, <1>7 DEF Lines
    <3> QED BY <1>2, <1>7, <3>1 DEF Lines
  <2>2. based[q].bseq # based[k].bseq
    BY <1>3, <2>1 DEF Placed
  <2>3. BasePlace(based[q]) < BasePlace(based[k]) \/ BasePlace(based[q]) = BasePlace(based[k])
    BY <2>1 DEF ByBase
  <2> QED BY <1>3, <2>1, <2>2, <2>3
<1>8. \A k \in DOMAIN b : b[k] = list[at[k]]
  <2> TAKE k \in DOMAIN b
  <2>1. based[k] \in B
    BY <1>2, <1>4 DEF Lines
  <2> QED BY <1>3, <1>4, <2>1
<1>9. ASSUME NEW k \in DOMAIN b, NEW q \in 1 .. (k - 1) PROVE at[q] < at[k]
  <2>1. q \in DOMAIN based /\ k \in DOMAIN based /\ q < k
    BY <1>2, <1>4 DEF Lines
  <2> QED BY <1>4, <1>7, <2>1
<1>10. Within(b, list)
  <2> HIDE DEF at
  <2> QED BY <1>6, <1>8, <1>9 DEF Within
<1> QED BY <1>2, <1>4, <1>5, <1>10 DEF B, based, b

\* With a row at every place, the baseline is the list.
LEMMA BasedFilled ==
  ASSUME NEW S, Table(S), NEW list \in Seq(Texts), Placed(S, list), Filled(S, list)
  PROVE  Bases(Based(S)) = list
<1> DEFINE B == WithBase(S)
           n == Len(list)
           f == [j \in 1 .. n |-> CHOOSE r \in B : r.bseq = j]
<1>1. n \in Nat /\ DOMAIN list = 1 .. n
  OBVIOUS
<1>2. \A r \in B : /\ r.bseq \in 1 .. n /\ list[r.bseq] = r.base
                   /\ r.id \in Nat /\ BasePlace(r) = r.bseq
  <2> TAKE r \in B
  <2>1. r \in S /\ r.base # NoText /\ r \in GreetRows
    BY DEF WithBase, Table
  <2>2. r.bseq \in DOMAIN list /\ list[r.bseq] = r.base /\ r.bseq # NoPlace
    BY <2>1 DEF Placed
  <2>3. BasePlace(r) = r.bseq
    BY <2>2 DEF BasePlace
  <2> QED BY <1>1, <2>1, <2>2, <2>3 DEF GreetRows
<1>3. \A r, s \in B : r.bseq = s.bseq => r = s
  BY DEF WithBase, Placed
<1>4. \A j \in 1 .. n : f[j] \in B /\ f[j].bseq = j
  <2> TAKE j \in 1 .. n
  <2>1. \E r \in B : r.bseq = j
    BY <1>1 DEF Filled, WithBase
  <2>2. f[j] = CHOOSE r \in B : r.bseq = j
    OBVIOUS
  <2> HIDE DEF f, B
  <2> QED BY <2>1, <2>2
<1>5. f \in [1 .. n -> B]
  <2>1. f = [j \in 1 .. n |-> f[j]]
    OBVIOUS
  <2> HIDE DEF f
  <2> QED BY <1>4, <2>1
<1> HIDE DEF f, B, n
<1>6. \A r \in B : \E k \in 1 .. n : f[k] = r
  BY <1>2, <1>3, <1>4
<1>7. ASSUME NEW k \in 1 .. n, NEW q \in 1 .. n
      PROVE  <<f[k], f[q]>> \in ByBase(B) <=> k < q
  <2>1. f[k] \in B /\ f[q] \in B /\ BasePlace(f[k]) = k /\ BasePlace(f[q]) = q
    BY <1>2, <1>4
  <2>2. <<f[k], f[q]>> \in ByBase(B) <=> k < q \/ (k = q /\ f[k].id < f[q].id)
    BY <2>1 DEF ByBase
  <2>3. k = q => ~ (f[k].id < f[q].id)
    BY <1>2, <2>1
  <2> QED BY <2>2, <2>3
<1>8. Sorted(B, ByBase(B)) = f
  BY <1>1, <1>5, <1>6, <1>7, SortedIs
<1>9. Based(S) = f
  BY <1>8 DEF Based, InBaseOrder, ByBase, B, WithBase
<1>10. DOMAIN f = 1 .. n /\ \A k \in 1 .. n : f[k].base = list[k]
  BY <1>2, <1>4, <1>5
<1>11. Bases(Based(S)) = [k \in 1 .. n |-> list[k]]
  BY <1>9, <1>10 DEF Bases
<1>12. list = [k \in 1 .. n |-> list[k]]
  BY <1>1
<1> QED BY <1>11, <1>12

-----------------------------------------------------------------------------
(* The greetings after a re-open.                                          *)

Added == {r \in greet : r.base = NoText}
SameText(body) == {s \in greet : s.base = NoText /\ s.body = body}

\* A greeting added here takes one place that holds its text, and of the
\* greetings with one text only the first does.
LEMMA FoldForm ==
  ASSUME NEW t \in Seq(Texts), NEW inserts, \A j \in inserts : j \in DOMAIN t, NEW r
  PROVE  \/ Fold(t, inserts, r) = {}
         \/ \E m \in inserts : /\ Fold(t, inserts, r) = {m} /\ Max({m}) = m /\ m \in Nat
                               /\ t[m] = r.body /\ Head(InOrder(SameText(r.body))) = r
<1> DEFINE places == {j \in inserts : t[j] = r.body}
<1>1. CASE ~ (places # {} /\ Head(InOrder(SameText(r.body))) = r)
  BY <1>1 DEF Fold, SameText
<1>2. CASE places # {} /\ Head(InOrder(SameText(r.body))) = r
  <2>1. Fold(t, inserts, r) = {Max(places)}
    BY <1>2 DEF Fold, SameText
  <2>2. Len(t) \in Nat /\ \A j \in places : j \in 1 .. Len(t)
    OBVIOUS
  <2>3. Max(places) \in places
    <3> HIDE DEF places
    <3> QED BY <1>2, <2>2, MaxProperties
  <2>4. PICK m \in inserts : m = Max(places) /\ t[m] = r.body /\ m \in 1 .. Len(t)
    BY <2>2, <2>3
  <2>5. Max({m}) = m
    <3>1. PICK one : one = {m}
      OBVIOUS
    <3>2. one # {} /\ \A x \in one : x \in 1 .. Len(t)
      BY <2>4, <3>1
    <3>3. Max(one) \in one
      BY ONLY <2>2, <3>2, MaxProperties
    <3> QED BY <3>1, <3>3
  <2>6. m \in inserts /\ m \in Nat /\ Fold(t, inserts, r) = {m}
    BY <2>1, <2>4
  <2> QED BY <1>2, <2>4, <2>5, <2>6, Zenon
<1> QED BY <1>1, <1>2


\* What stands for r among the merged rows, and the n-th new row.
StandsFor(s, r, t, based, pairs, inserts) ==
  \/ \E p \in pairs : based[p[1]] = r /\ s = Paired(r, t[p[2]], p[2])
  \/ \E i \in LeftOf(Bases(based), pairs) : based[i] = r /\ s \in Dropped(r)
  \/ r \in Added /\ s = IF Fold(t, inserts, r) = {} THEN r
                        ELSE [r EXCEPT !.base = r.body, !.bseq = Max(Fold(t, inserts, r))]
NewRow(n, t, ids, fresh) ==
  GreetRow(ids[n], MaxSeq(greet) + n, t[fresh[n]], t[fresh[n]], fresh[n])

\* The pairs, and the places and ids of new rows, that make the merged rows.
Merging(M, t, pairs, inserts, fresh, ids) ==
  /\ pairs = Match(Bases(Based(greet)), t)
  /\ OneToOne(pairs, Bases(Based(greet)), t)
  /\ inserts = RightOf(t, pairs)
  /\ DOMAIN fresh = 1 .. Len(fresh) /\ Len(fresh) \in Nat
  /\ \A n \in DOMAIN fresh : fresh[n] \in inserts /\ \A r \in Added : fresh[n] \notin Fold(t, inserts, r)
  /\ \A n, m \in DOMAIN fresh : fresh[n] = fresh[m] => n = m
  /\ \A j \in inserts : \/ \E r \in Added : j \in Fold(t, inserts, r)
                        \/ \E n \in DOMAIN fresh : fresh[n] = j
  /\ \A n \in DOMAIN fresh : ids[n] \in Nat /\ \A r \in greet : r.id # ids[n]
  /\ \A n, m \in DOMAIN fresh : ids[n] = ids[m] => n = m
  /\ \A s : s \in M <=> \/ \E r \in greet : StandsFor(s, r, t, Based(greet), pairs, inserts)
                        \/ \E n \in DOMAIN fresh : s = NewRow(n, t, ids, fresh)

LEMMA MaxSeqBound ==
  ASSUME NEW S, Table(S)
  PROVE  MaxSeq(S) \in Int /\ MaxSeq(S) >= -1
<1> DEFINE T == {r.seq : r \in S}
           f == [r \in S |-> r.seq]
<1>1. IsFiniteSet(T)
  <2>1. (\A r \in S : f[r] \in T) /\ (\A i \in T : \E r \in S : f[r] = i) /\ IsFiniteSet(S)
    BY DEF Table
  <2> HIDE DEF f, T
  <2> QED BY <2>1, ImageCardinality, ZenonT(40)
<1>2. \A x \in T : x \in Nat
  BY RowNumbers DEF Table
<1>3. MaxSeq(S) = Max(T \cup {-1})
  BY DEF MaxSeq
<1> HIDE DEF T
<1> QED BY <1>1, <1>2, <1>3, MaxOrLess

LEMMA MergingExists ==
  ASSUME Table(greet), NEW old \in Seq(Texts), Placed(greet, old), NEW t \in Seq(Texts)
  PROVE  \E pairs, inserts, fresh, ids : Merging(MergedList(t), t, pairs, inserts, fresh, ids)
<1> DEFINE based == Based(greet)
           b == Bases(based)
           pairs == Match(b, t)
           inserts == RightOf(t, pairs)
           folded == [r \in Added |-> Fold(t, inserts, r)]
           open == inserts \ UNION {folded[r] : r \in Added}
           fresh == Ascending(open)
           ids == NewIds(greet, Len(fresh))
<1>1. b \in Seq(Texts)
  BY BasedWithin
<1>2. OneToOne(pairs, b, t)
  <2> HIDE DEF b
  <2> QED BY <1>1, MatchOneToOne
<1>3. Len(t) \in Nat /\ \A j \in inserts : j \in 1 .. Len(t)
  BY DEF RightOf
<1>4. \A j : j \in open <=> j \in inserts /\ \A r \in Added : j \notin Fold(t, inserts, r)
  <2> HIDE DEF inserts
  <2> QED OBVIOUS
<1> DEFINE A == {Paired(based[p[1]], t[p[2]], p[2]) : p \in pairs}
           B == UNION {Dropped(based[i]) : i \in LeftOf(b, pairs)}
           C == {IF folded[r] = {} THEN r
                 ELSE [r EXCEPT !.base = r.body, !.bseq = Max(folded[r])] : r \in Added}
           D == {GreetRow(ids[n], MaxSeq(greet) + n, t[fresh[n]], t[fresh[n]], fresh[n]) :
                   n \in DOMAIN fresh}
<1>5. MergedList(t) = A \cup B \cup C \cup D
  BY DEF MergedList, Added
<1> HIDE DEF A, B, C, D
<1> HIDE DEF open
<1>6. /\ Len(fresh) \in Nat /\ DOMAIN fresh = 1 .. Len(fresh)
      /\ \A n \in DOMAIN fresh : fresh[n] \in open
      /\ \A n, m \in DOMAIN fresh : fresh[n] = fresh[m] => n = m
      /\ \A j \in open : \E n \in DOMAIN fresh : fresh[n] = j
  <2>1. \A j \in open : j \in 1 .. Len(t)
    BY <1>3, <1>4
  <2>2. /\ Cardinality(open) \in Nat
        /\ fresh \in Seq(open) /\ Len(fresh) = Cardinality(open)
        /\ DOMAIN fresh = 1 .. Cardinality(open)
        /\ \A k \in DOMAIN fresh : fresh[k] \in open
        /\ \A k, q \in DOMAIN fresh : fresh[k] = fresh[q] => k = q
        /\ \A i \in open : \E k \in DOMAIN fresh : fresh[k] = i
    BY ONLY <1>3, <2>1, AscendingProperties
  <2> HIDE DEF fresh
  <2> QED BY <2>2
<1> HIDE DEF fresh
<1>7. /\ \A n \in DOMAIN fresh : ids[n] \in Nat /\ \A r \in greet : r.id # ids[n]
      /\ \A n, m \in DOMAIN fresh : ids[n] = ids[m] => n = m
  <2>1. PICK c \in Nat : c = Len(fresh)
    BY <1>6
  <2>2. /\ \A k \in 1 .. c : k \in DOMAIN NewIds(greet, c) /\ NewIds(greet, c)[k] \in Nat
                             /\ \A r \in greet : r.id # NewIds(greet, c)[k]
        /\ \A k, q \in 1 .. c : NewIds(greet, c)[k] = NewIds(greet, c)[q] => k = q
    BY NewIdsAreNew
  <2> QED BY <1>6, <2>1, <2>2
<1> HIDE DEF ids, pairs, inserts, b
<1>8. \A s : s \in MergedList(t) <=>
             \/ \E r \in greet : StandsFor(s, r, t, based, pairs, inserts)
             \/ \E n \in DOMAIN fresh : s = NewRow(n, t, ids, fresh)
  <2> TAKE s
  <2>1. based \in Seq(greet) /\ (\A p \in pairs : based[p[1]] \in greet)
        /\ \A i \in LeftOf(b, pairs) : based[i] \in greet
    <3>1. Lines(based, WithBase(greet), ByBase(WithBase(greet))) /\ DOMAIN b = DOMAIN based
      BY BasedWithin DEF b
    <3>2. \A k \in DOMAIN based : based[k] \in greet
      BY <3>1 DEF Lines, WithBase
    <3>3. based \in Seq(greet)
      BY <3>1, <3>2 DEF Lines
    <3> HIDE DEF based
    <3> QED BY <1>2, <3>1, <3>2, <3>3 DEF OneToOne, LeftOf
  <2>2. (\E p \in pairs : s = Paired(based[p[1]], t[p[2]], p[2])) <=>
        \E r \in greet : \E p \in pairs : based[p[1]] = r /\ s = Paired(r, t[p[2]], p[2])
    <3> HIDE DEF based
    <3> QED BY <2>1, Zenon
  <2>3. (\E i \in LeftOf(b, pairs) : s \in Dropped(based[i])) <=>
        \E r \in greet : \E i \in LeftOf(b, pairs) : based[i] = r /\ s \in Dropped(r)
    <3> HIDE DEF based
    <3> QED BY <2>1, Zenon
  <2>4. (\E r \in Added : s = IF folded[r] = {} THEN r
                              ELSE [r EXCEPT !.base = r.body, !.bseq = Max(folded[r])]) <=>
        \E r \in greet : r \in Added /\ s = IF Fold(t, inserts, r) = {} THEN r
                               ELSE [r EXCEPT !.base = r.body, !.bseq = Max(Fold(t, inserts, r))]
    <3>1. \A r \in Added : folded[r] = Fold(t, inserts, r) /\ r \in greet
      BY DEF Added
    <3> HIDE DEF folded
    <3> QED BY <3>1
  <2>5. s \in MergedList(t) <=>
          \/ \E p \in pairs : s = Paired(based[p[1]], t[p[2]], p[2])
          \/ \E i \in LeftOf(b, pairs) : s \in Dropped(based[i])
          \/ \E r \in Added : s = IF folded[r] = {} THEN r
                                  ELSE [r EXCEPT !.base = r.body, !.bseq = Max(folded[r])]
          \/ \E n \in DOMAIN fresh : s = NewRow(n, t, ids, fresh)
    <3> HIDE DEF folded, based
    <3>1. s \in A <=> \E p \in pairs : s = Paired(based[p[1]], t[p[2]], p[2])
      BY DEF A
    <3>2. s \in B <=> \E i \in LeftOf(b, pairs) : s \in Dropped(based[i])
      BY DEF B
    <3>3. s \in C <=> \E r \in Added : s = IF folded[r] = {} THEN r
                                           ELSE [r EXCEPT !.base = r.body, !.bseq = Max(folded[r])]
      BY Zenon DEF C
    <3>4. s \in D <=> \E n \in DOMAIN fresh : s = NewRow(n, t, ids, fresh)
      BY DEF D, NewRow
    <3> QED BY <1>5, <3>1, <3>2, <3>3, <3>4, Zenon
  <2>6. (\E r \in greet : StandsFor(s, r, t, based, pairs, inserts)) <=>
          \/ \E r \in greet : \E p \in pairs : based[p[1]] = r /\ s = Paired(r, t[p[2]], p[2])
          \/ \E r \in greet : \E i \in LeftOf(b, pairs) : based[i] = r /\ s \in Dropped(r)
          \/ \E r \in greet : r \in Added /\ s = IF Fold(t, inserts, r) = {} THEN r
                               ELSE [r EXCEPT !.base = r.body, !.bseq = Max(Fold(t, inserts, r))]
    <3> HIDE DEF folded, based
    <3> QED BY Zenon DEF StandsFor, b
  <2> HIDE DEF folded, based
  <2> QED BY <2>2, <2>3, <2>4, <2>5, <2>6
<1>9. Merging(MergedList(t), t, pairs, inserts, fresh, ids)
  <2>1. pairs = Match(Bases(Based(greet)), t)
    BY DEF pairs, b
  <2> QED BY <1>2, <1>4, <1>6, <1>7, <1>8, <2>1 DEF Merging, inserts, b
<1> QED BY <1>9

\* What a pairing of the baseline with a list t says of the rows.
LEMMA PairsBased ==
  ASSUME Table(greet), NEW old \in Seq(Texts), Placed(greet, old), NEW t \in Seq(Texts),
         NEW pairs, OneToOne(pairs, Bases(Based(greet)), t)
  PROVE  /\ \A p \in pairs : /\ p[1] \in DOMAIN Based(greet) /\ p[2] \in DOMAIN t
                             /\ p[2] \in Nat /\ t[p[2]] \in Texts /\ p[2] \notin RightOf(t, pairs)
                             /\ Based(greet)[p[1]] \in greet /\ Based(greet)[p[1]] \notin Added
         /\ \A p, q \in pairs : p[1] = q[1] \/ p[2] = q[2] => p = q
         /\ \A i \in LeftOf(Bases(Based(greet)), pairs) :
              /\ i \in DOMAIN Based(greet) /\ Based(greet)[i] \in greet /\ Based(greet)[i] \notin Added
              /\ \A p \in pairs : p[1] # i
         /\ \A i, k \in DOMAIN Based(greet) : Based(greet)[i] = Based(greet)[k] => i = k
         /\ \A r \in greet \ Added : \E k \in DOMAIN Based(greet) : Based(greet)[k] = r
         /\ \A j \in RightOf(t, pairs) : /\ j \in DOMAIN t /\ j \in Nat /\ t[j] \in Texts
                               /\ \A p \in pairs : p[2] # j
         /\ \A j \in DOMAIN t : j \in RightOf(t, pairs) \/ \E p \in pairs : p[2] = j
<1> DEFINE based == Based(greet)
           b == Bases(based)
<1>1. Lines(based, WithBase(greet), ByBase(WithBase(greet))) /\ DOMAIN b = DOMAIN based
  BY BasedWithin
<1>2. /\ \A p \in pairs : p \in (DOMAIN b) \X (DOMAIN t)
      /\ \A p, q \in pairs : p[1] = q[1] \/ p[2] = q[2] => p = q
  BY DEF OneToOne
<1> HIDE DEF based, b
<1>3. /\ \A k \in DOMAIN based : based[k] \in greet /\ based[k] \notin Added
      /\ \A i, k \in DOMAIN based : based[i] = based[k] => i = k
      /\ \A r \in greet \ Added : \E k \in DOMAIN based : based[k] = r
  BY <1>1 DEF Lines, WithBase, Added
<1>4. \A j \in DOMAIN t : j \in Nat /\ t[j] \in Texts
  OBVIOUS
<1>5. /\ \A j \in RightOf(t, pairs) : j \in DOMAIN t /\ \A p \in pairs : p[2] # j
      /\ \A j \in DOMAIN t : j \in RightOf(t, pairs) \/ \E p \in pairs : p[2] = j
  BY DEF RightOf
<1>6. \A i \in LeftOf(b, pairs) : i \in DOMAIN based /\ \A p \in pairs : p[1] # i
  BY <1>1 DEF LeftOf
<1>7. \A p \in pairs : p[1] \in DOMAIN based /\ p[2] \in DOMAIN t
  BY <1>1, <1>2
<1> QED BY <1>2, <1>3, <1>4, <1>5, <1>6, <1>7 DEF based, b

LEMMA MergingBased ==
  ASSUME Table(greet), NEW old \in Seq(Texts), Placed(greet, old), NEW t \in Seq(Texts),
         NEW M, NEW pairs, NEW inserts, NEW fresh, NEW ids,
         Merging(M, t, pairs, inserts, fresh, ids)
  PROVE  /\ \A p \in pairs : /\ p[1] \in DOMAIN Based(greet) /\ p[2] \in DOMAIN t
                             /\ p[2] \in Nat /\ t[p[2]] \in Texts /\ p[2] \notin inserts
                             /\ Based(greet)[p[1]] \in greet /\ Based(greet)[p[1]] \notin Added
         /\ \A p, q \in pairs : p[1] = q[1] \/ p[2] = q[2] => p = q
         /\ \A i \in LeftOf(Bases(Based(greet)), pairs) :
              /\ i \in DOMAIN Based(greet) /\ Based(greet)[i] \in greet /\ Based(greet)[i] \notin Added
              /\ \A p \in pairs : p[1] # i
         /\ \A i, k \in DOMAIN Based(greet) : Based(greet)[i] = Based(greet)[k] => i = k
         /\ \A r \in greet \ Added : \E k \in DOMAIN Based(greet) : Based(greet)[k] = r
         /\ \A j \in inserts : /\ j \in DOMAIN t /\ j \in Nat /\ t[j] \in Texts
                               /\ \A p \in pairs : p[2] # j
         /\ \A j \in DOMAIN t : j \in inserts \/ \E p \in pairs : p[2] = j
<1>1. OneToOne(pairs, Bases(Based(greet)), t) /\ inserts = RightOf(t, pairs)
  BY DEF Merging
<1> QED BY <1>1, PairsBased

LEMMA StandsForm ==
  ASSUME Table(greet), NEW old \in Seq(Texts), Placed(greet, old), NEW t \in Seq(Texts),
         NEW M, NEW pairs, NEW inserts, NEW fresh, NEW ids,
         Merging(M, t, pairs, inserts, fresh, ids),
         NEW r \in greet, NEW s, StandsFor(s, r, t, Based(greet), pairs, inserts)
  PROVE  /\ s \in GreetRows /\ s.id = r.id /\ s.body = r.body /\ s.gone = r.gone
         /\ \/ s.base = NoText /\ s.bseq = NoPlace
            \/ \E p \in pairs : Based(greet)[p[1]] = r /\ s.bseq = p[2] /\ s.base = t[p[2]]
            \/ r \in Added /\ \E m \in inserts : /\ Fold(t, inserts, r) = {m}
                                                 /\ s.bseq = m /\ s.base = t[m]
<1> DEFINE based == Based(greet)
<1>0. r \in GreetRows /\ r.body \in Texts
  BY RowNumbers DEF Table
<1>1. /\ \A p \in pairs : p[2] \in Nat /\ t[p[2]] \in Texts
      /\ \A j \in inserts : j \in DOMAIN t
  BY MergingBased
<1>2. ASSUME NEW p \in pairs, based[p[1]] = r, s = Paired(r, t[p[2]], p[2])
      PROVE  /\ s \in GreetRows /\ s.id = r.id /\ s.body = r.body /\ s.gone = r.gone
             /\ s.bseq = p[2] /\ s.base = t[p[2]]
  <2>1. PICK x \in GreetRows : x = r
    BY <1>0
  <2>2. PICK text \in Texts : text = t[p[2]]
    BY <1>1
  <2>3. PICK j \in Nat : j = p[2]
    BY <1>1
  <2>4. PICK y : y = Paired(x, text, j)
    OBVIOUS
  <2>5. /\ y \in GreetRows /\ y.id = x.id /\ y.body = x.body /\ y.gone = x.gone
        /\ y.bseq = j /\ y.base = text
    BY ONLY <2>4, PairedRow
  <2>6. s = y
    BY <1>2, <2>1, <2>2, <2>3, <2>4
  <2> QED BY <2>1, <2>2, <2>3, <2>5, <2>6
<1>3. ASSUME s \in Dropped(r)
      PROVE  /\ s \in GreetRows /\ s.id = r.id /\ s.body = r.body /\ s.gone = r.gone
             /\ s.base = NoText /\ s.bseq = NoPlace
  BY <1>0, <1>3, DroppedRow
<1>4. ASSUME r \in Added, Fold(t, inserts, r) = {}, s = r
      PROVE  s \in GreetRows /\ s.base = NoText /\ s.bseq = NoPlace
  BY <1>0, <1>4 DEF Added, Placed
<1>5. ASSUME Fold(t, inserts, r) # {}, s = [r EXCEPT !.base = r.body, !.bseq = Max(Fold(t, inserts, r))]
      PROVE  /\ s \in GreetRows /\ s.id = r.id /\ s.body = r.body /\ s.gone = r.gone
             /\ \E m \in inserts : Fold(t, inserts, r) = {m} /\ s.bseq = m /\ s.base = t[m]
  <2>1. PICK m \in inserts : /\ Fold(t, inserts, r) = {m} /\ Max({m}) = m /\ m \in Nat
                             /\ t[m] = r.body
    <3>1. Fold(t, inserts, r) # {} /\ \A j \in inserts : j \in DOMAIN t
      BY <1>1, <1>5
    <3>2. \/ Fold(t, inserts, r) = {}
          \/ \E m \in inserts : /\ Fold(t, inserts, r) = {m} /\ Max({m}) = m /\ m \in Nat
                                /\ t[m] = r.body /\ Head(InOrder(SameText(r.body))) = r
      BY <3>1, FoldForm, Zenon
    <3> QED BY <3>1, <3>2
  <2>2. s = [r EXCEPT !.base = r.body, !.bseq = m]
    BY <1>5, <2>1
  <2>3. /\ s \in GreetRows /\ s.id = r.id /\ s.body = r.body /\ s.gone = r.gone
        /\ s.base = r.body /\ s.bseq = m
    <3>1. PICK x \in GreetRows : x = r
      BY <1>0
    <3>2. PICK text \in Texts \cup {NoText} : text = r.body
      BY <1>0
    <3>3. PICK place \in Nat \cup {NoPlace} : place = m
      BY <2>1
    <3>4. s = [x EXCEPT !.base = text, !.bseq = place]
      BY <2>2, <3>1, <3>2, <3>3
    <3>5. /\ s \in GreetRows
          /\ s.id = x.id /\ s.seq = x.seq /\ s.body = x.body /\ s.gone = x.gone /\ s.mark = x.mark
          /\ s.base = text /\ s.bseq = place
      BY ONLY <3>4 DEF GreetRows
    <3> QED BY <3>1, <3>2, <3>3, <3>5
  <2> QED BY <2>1, <2>3
<1> HIDE DEF based
<1>6. \/ \E p \in pairs : based[p[1]] = r /\ s = Paired(r, t[p[2]], p[2])
      \/ s \in Dropped(r)
      \/ r \in Added /\ Fold(t, inserts, r) = {} /\ s = r
      \/ /\ r \in Added /\ Fold(t, inserts, r) # {}
         /\ s = [r EXCEPT !.base = r.body, !.bseq = Max(Fold(t, inserts, r))]
  BY Zenon DEF StandsFor, based
<1>7. CASE \E p \in pairs : based[p[1]] = r /\ s = Paired(r, t[p[2]], p[2])
  BY <1>2, <1>7 DEF based
<1>8. CASE s \in Dropped(r)
  BY <1>3, <1>8
<1>9. CASE r \in Added /\ Fold(t, inserts, r) = {} /\ s = r
  BY <1>4, <1>9
<1>10. CASE /\ r \in Added /\ Fold(t, inserts, r) # {}
            /\ s = [r EXCEPT !.base = r.body, !.bseq = Max(Fold(t, inserts, r))]
  BY <1>5, <1>10, Zenon
<1> QED BY <1>6, <1>7, <1>8, <1>9, <1>10, Zenon

LEMMA StandsOnce ==
  ASSUME Table(greet), NEW old \in Seq(Texts), Placed(greet, old), NEW t \in Seq(Texts),
         NEW M, NEW pairs, NEW inserts, NEW fresh, NEW ids,
         Merging(M, t, pairs, inserts, fresh, ids),
         NEW r \in greet, NEW s, StandsFor(s, r, t, Based(greet), pairs, inserts),
         NEW z, StandsFor(z, r, t, Based(greet), pairs, inserts)
  PROVE  s = z
<1> DEFINE based == Based(greet)
           left == LeftOf(Bases(based), pairs)
<1>1. /\ \A p \in pairs : p[1] \in DOMAIN based /\ based[p[1]] \notin Added
      /\ \A p, q \in pairs : p[1] = q[1] => p = q
      /\ \A i \in left : i \in DOMAIN based /\ based[i] \notin Added /\ \A p \in pairs : p[1] # i
      /\ \A i, k \in DOMAIN based : based[i] = based[k] => i = k
  BY MergingBased
<1>2. \A x, y \in Dropped(r) : x = y
  BY DEF Dropped
<1>3. /\ \/ \E p \in pairs : based[p[1]] = r /\ s = Paired(r, t[p[2]], p[2])
         \/ \E i \in left : based[i] = r /\ s \in Dropped(r)
         \/ r \in Added /\ s = IF Fold(t, inserts, r) = {} THEN r
                               ELSE [r EXCEPT !.base = r.body, !.bseq = Max(Fold(t, inserts, r))]
      /\ \/ \E p \in pairs : based[p[1]] = r /\ z = Paired(r, t[p[2]], p[2])
         \/ \E i \in left : based[i] = r /\ z \in Dropped(r)
         \/ r \in Added /\ z = IF Fold(t, inserts, r) = {} THEN r
                               ELSE [r EXCEPT !.base = r.body, !.bseq = Max(Fold(t, inserts, r))]
  BY DEF StandsFor
<1> HIDE DEF based, left
<1>4. CASE \E p \in pairs : based[p[1]] = r /\ s = Paired(r, t[p[2]], p[2])
  <2>1. PICK p \in pairs : based[p[1]] = r /\ s = Paired(r, t[p[2]], p[2])
    BY <1>4
  <2>2. r \notin Added /\ \A i \in left : based[i] # r
    BY <1>1, <2>1
  <2>3. PICK q \in pairs : based[q[1]] = r /\ z = Paired(r, t[q[2]], q[2])
    BY <1>3, <2>2
  <2>4. p = q
    BY <1>1, <2>1, <2>3
  <2> QED BY <2>1, <2>3, <2>4
<1>5. CASE \E i \in left : based[i] = r /\ s \in Dropped(r)
  <2>1. r \notin Added /\ \A p \in pairs : based[p[1]] # r
    BY <1>1, <1>5
  <2> QED BY <1>2, <1>3, <1>5, <2>1
<1>6. CASE r \in Added
  <2>1. (\A p \in pairs : based[p[1]] # r) /\ \A i \in left : based[i] # r
    BY <1>1, <1>6
  <2> QED BY <1>3, <1>6, <2>1, Zenon
<1> QED BY <1>3, <1>4, <1>5, <1>6

LEMMA NewRowForm ==
  ASSUME Table(greet), NEW old \in Seq(Texts), Placed(greet, old), NEW t \in Seq(Texts),
         NEW M, NEW pairs, NEW inserts, NEW fresh, NEW ids,
         Merging(M, t, pairs, inserts, fresh, ids),
         NEW n \in DOMAIN fresh
  PROVE  /\ NewRow(n, t, ids, fresh) \in M /\ NewRow(n, t, ids, fresh) \in GreetRows
         /\ NewRow(n, t, ids, fresh).id = ids[n]
         /\ fresh[n] \in inserts /\ fresh[n] \in Nat
         /\ NewRow(n, t, ids, fresh).bseq = fresh[n]
         /\ NewRow(n, t, ids, fresh).base = t[fresh[n]] /\ t[fresh[n]] \in Texts
<1>1. NewRow(n, t, ids, fresh) \in M /\ fresh[n] \in inserts /\ ids[n] \in Nat /\ n \in 1 .. Len(fresh)
      /\ Len(fresh) \in Nat
  BY DEF Merging
<1>2. fresh[n] \in Nat /\ t[fresh[n]] \in Texts
  BY <1>1, MergingBased
<1>3. PICK seq \in Nat : seq = MaxSeq(greet) + n
  <2>1. MaxSeq(greet) \in Int /\ MaxSeq(greet) >= -1
    BY MaxSeqBound
  <2> QED BY <1>1, <2>1
<1>4. PICK id \in Nat : id = ids[n]
  BY <1>1
<1>5. PICK j \in Nat : j = fresh[n]
  BY <1>2
<1>6. PICK text \in Texts : text = t[fresh[n]]
  BY <1>2
<1>7. NewRow(n, t, ids, fresh) = GreetRow(id, seq, text, text, j)
  BY <1>3, <1>4, <1>5, <1>6 DEF NewRow
<1>8. GreetRow(id, seq, text, text, j) \in GreetRows
  BY GreetRowTyped
<1>9. /\ GreetRow(id, seq, text, text, j).id = id
      /\ GreetRow(id, seq, text, text, j).base = text /\ GreetRow(id, seq, text, text, j).bseq = j
  BY DEF GreetRow
<1> QED BY <1>1, <1>2, <1>4, <1>5, <1>6, <1>7, <1>8, <1>9

LEMMA MergedTable ==
  ASSUME Table(greet), NEW old \in Seq(Texts), Placed(greet, old), NEW t \in Seq(Texts),
         NEW M, NEW pairs, NEW inserts, NEW fresh, NEW ids,
         Merging(M, t, pairs, inserts, fresh, ids)
  PROVE  Table(M)
<1> DEFINE known == {r.id : r \in greet}
           new == {ids[n] : n \in DOMAIN fresh}
           T == known \cup new
<1>1. IsFiniteSet(T)
  <2>1. IsFiniteSet(known)
    <3> DEFINE f == [r \in greet |-> r.id]
    <3>1. \A r \in greet : f[r] \in known
      OBVIOUS
    <3>2. \A i \in known : \E r \in greet : f[r] = i
      OBVIOUS
    <3>3. IsFiniteSet(greet)
      BY DEF Table
    <3> HIDE DEF f, known
    <3> QED BY <3>1, <3>2, <3>3, ImageCardinality
  <2>2. IsFiniteSet(new)
    <3> DEFINE f == [n \in DOMAIN fresh |-> ids[n]]
    <3>1. \A n \in DOMAIN fresh : f[n] \in new
      OBVIOUS
    <3>2. \A i \in new : \E n \in DOMAIN fresh : f[n] = i
      OBVIOUS
    <3>3. IsFiniteSet(DOMAIN fresh)
      BY FS_Interval DEF Merging
    <3> HIDE DEF f, new
    <3> QED BY <3>1, <3>2, <3>3, ImageCardinality
  <2> HIDE DEF known, new
  <2> QED BY <2>1, <2>2, FS_Union
<1>2. \A s \in M : \/ \E r \in greet : StandsFor(s, r, t, Based(greet), pairs, inserts)
                   \/ \E n \in DOMAIN fresh : s = NewRow(n, t, ids, fresh)
  BY DEF Merging
<1>3. \A r \in greet : \A s : StandsFor(s, r, t, Based(greet), pairs, inserts) =>
                              s \in GreetRows /\ s.id = r.id
  BY StandsForm
<1>4. \A n \in DOMAIN fresh : /\ NewRow(n, t, ids, fresh) \in GreetRows
                              /\ NewRow(n, t, ids, fresh).id = ids[n]
  BY NewRowForm
<1>5. \A s \in M : s \in GreetRows /\ s.id \in T
  BY <1>2, <1>3, <1>4
<1>6. ASSUME NEW s \in M, NEW z \in M, s.id = z.id PROVE s = z
  <2>1. CASE \E n \in DOMAIN fresh : s = NewRow(n, t, ids, fresh)
    <3>1. PICK n \in DOMAIN fresh : s = NewRow(n, t, ids, fresh) /\ s.id = ids[n]
      BY <1>4, <2>1
    <3>2. \A r \in greet : r.id # ids[n]
      BY DEF Merging
    <3>3. PICK m \in DOMAIN fresh : z = NewRow(m, t, ids, fresh) /\ z.id = ids[m]
      BY <1>2, <1>3, <1>4, <1>6, <3>1, <3>2
    <3>4. n = m
      BY <1>6, <3>1, <3>3 DEF Merging
    <3> QED BY <3>1, <3>3, <3>4
  <2>2. CASE \E r \in greet : StandsFor(s, r, t, Based(greet), pairs, inserts)
    <3>1. PICK r \in greet : StandsFor(s, r, t, Based(greet), pairs, inserts) /\ s.id = r.id
      BY <1>3, <2>2
    <3>2. \A n \in DOMAIN fresh : r.id # ids[n]
      BY DEF Merging
    <3>3. \A n \in DOMAIN fresh : z # NewRow(n, t, ids, fresh)
      BY <1>4, <1>6, <3>1, <3>2
    <3>4. PICK q \in greet : StandsFor(z, q, t, Based(greet), pairs, inserts)
      BY <1>2, <3>3
    <3>5. z.id = q.id
      BY <1>3, <3>4
    <3>6. q = r
      BY <1>6, <3>1, <3>5 DEF Table
    <3> QED BY <3>1, <3>4, <3>6, StandsOnce
  <2> QED BY <1>2, <2>1, <2>2
<1> HIDE DEF T
<1> QED BY <1>1, <1>5, <1>6, TableOfIds

LEMMA MergedPlaced ==
  ASSUME Table(greet), NEW old \in Seq(Texts), Placed(greet, old), NEW t \in Seq(Texts),
         NEW M, NEW pairs, NEW inserts, NEW fresh, NEW ids,
         Merging(M, t, pairs, inserts, fresh, ids)
  PROVE  Placed(M, t)
<1> DEFINE ByPair(s) == \E r \in greet, p \in pairs :
                          /\ StandsFor(s, r, t, Based(greet), pairs, inserts)
                          /\ Based(greet)[p[1]] = r /\ s.bseq = p[2] /\ s.base = t[p[2]]
           ByFold(s) == \E r \in greet, m \in inserts :
                          /\ StandsFor(s, r, t, Based(greet), pairs, inserts)
                          /\ Fold(t, inserts, r) = {m} /\ r \in Added
                          /\ s.bseq = m /\ s.base = t[m]
           AsNew(s) == \E n \in DOMAIN fresh :
                         s = NewRow(n, t, ids, fresh) /\ s.bseq = fresh[n] /\ s.base = t[fresh[n]]
<1>1. /\ \A p \in pairs : p[2] \in DOMAIN t /\ p[2] \in Nat /\ t[p[2]] \in Texts /\ p[2] \notin inserts
      /\ \A p, q \in pairs : p[2] = q[2] => p = q
      /\ \A j \in inserts : j \in DOMAIN t /\ j \in Nat /\ t[j] \in Texts
      /\ \A n \in DOMAIN fresh : fresh[n] \in inserts
      /\ \A n \in DOMAIN fresh : \A r \in Added : fresh[n] \notin Fold(t, inserts, r)
      /\ \A n, m \in DOMAIN fresh : fresh[n] = fresh[m] => n = m
  <2>1. /\ \A p \in pairs : p[2] \in DOMAIN t /\ p[2] \in Nat /\ t[p[2]] \in Texts /\ p[2] \notin inserts
        /\ \A p, q \in pairs : p[1] = q[1] \/ p[2] = q[2] => p = q
        /\ \A j \in inserts : j \in DOMAIN t /\ j \in Nat /\ t[j] \in Texts
    BY MergingBased
  <2> QED BY <2>1, Zenon DEF Merging
<1>2. \A s \in M : (s.base = NoText /\ s.bseq = NoPlace) \/ ByPair(s) \/ ByFold(s) \/ AsNew(s)
  <2> TAKE s \in M
  <2>1. CASE \E n \in DOMAIN fresh : s = NewRow(n, t, ids, fresh)
    BY <2>1, NewRowForm
  <2>2. CASE \E r \in greet : StandsFor(s, r, t, Based(greet), pairs, inserts)
    <3>1. PICK r \in greet : StandsFor(s, r, t, Based(greet), pairs, inserts)
      BY <2>2
    <3>2. \/ s.base = NoText /\ s.bseq = NoPlace
          \/ \E p \in pairs : Based(greet)[p[1]] = r /\ s.bseq = p[2] /\ s.base = t[p[2]]
          \/ r \in Added /\ \E m \in inserts : /\ Fold(t, inserts, r) = {m}
                                               /\ s.bseq = m /\ s.base = t[m]
      BY <3>1, StandsForm
    <3> QED BY <3>1, <3>2, Zenon
  <2> QED BY <2>1, <2>2 DEF Merging
<1>3. \A r \in Added, q \in Added, m \in inserts :
        Fold(t, inserts, r) = {m} /\ Fold(t, inserts, q) = {m} => r = q
  <2>1. \A j \in inserts : j \in DOMAIN t
    BY <1>1
  <2>2. ASSUME NEW m \in inserts, NEW r, Fold(t, inserts, r) = {m}
        PROVE  Head(InOrder(SameText(t[m]))) = r
    <3>1. \E k \in inserts : /\ Fold(t, inserts, r) = {k} /\ t[k] = r.body
                             /\ Head(InOrder(SameText(r.body))) = r
      <4>1. \/ Fold(t, inserts, r) = {}
            \/ \E k \in inserts : /\ Fold(t, inserts, r) = {k} /\ Max({k}) = k /\ k \in Nat
                                  /\ t[k] = r.body /\ Head(InOrder(SameText(r.body))) = r
        BY <2>1, FoldForm, Zenon
      <4> QED BY <2>2, <4>1
    <3> QED BY <2>2, <3>1
  <2> QED BY <2>2
<1>4. NoText \notin Texts /\ \A j \in Nat : j # NoPlace
  <2>1. NoText \notin Texts
    BY CardAssumption, Zenon
  <2>2. \A j \in Nat : j # NoPlace
    BY DEF NoPlace
  <2> QED BY <2>1, <2>2
<1>5. \A s \in M : \/ s.base = NoText /\ s.bseq = NoPlace
                   \/ /\ s.base # NoText /\ s.bseq # NoPlace
                      /\ s.bseq \in DOMAIN t /\ t[s.bseq] = s.base
                      /\ ByPair(s) \/ ByFold(s) \/ AsNew(s)
  <2> TAKE s \in M
  <2>1. ByPair(s) \/ ByFold(s) \/ AsNew(s) =>
          s.bseq \in DOMAIN t /\ t[s.bseq] = s.base /\ s.bseq \in Nat /\ s.base \in Texts
    BY <1>1
  <2> HIDE DEF ByPair, ByFold, AsNew
  <2> QED BY <1>2, <1>4, <2>1
<1>6. ASSUME NEW s \in M, NEW z \in M, s.base # NoText, z.base # NoText, s.bseq = z.bseq
      PROVE  s = z
  <2>1. CASE ByPair(s)
    <3>1. PICK r \in greet, p \in pairs : /\ StandsFor(s, r, t, Based(greet), pairs, inserts)
                                          /\ Based(greet)[p[1]] = r /\ s.bseq = p[2]
      BY <2>1
    <3>2. ~ ByFold(z) /\ ~ AsNew(z)
      BY <1>1, <1>6, <3>1
    <3>3. ByPair(z)
      BY <1>5, <1>6, <3>2
    <3>4. PICK q \in greet, o \in pairs : /\ StandsFor(z, q, t, Based(greet), pairs, inserts)
                                          /\ Based(greet)[o[1]] = q /\ z.bseq = o[2]
      BY <3>3
    <3>5. p = o
      BY <1>1, <1>6, <3>1, <3>4
    <3>6. r = q
      BY <3>1, <3>4, <3>5
    <3> QED BY <3>1, <3>4, <3>6, StandsOnce
  <2>2. CASE ByFold(s)
    <3>1. PICK r \in greet, m \in inserts : /\ StandsFor(s, r, t, Based(greet), pairs, inserts)
                                            /\ Fold(t, inserts, r) = {m} /\ r \in Added
                                            /\ s.bseq = m
      BY <2>2
    <3>2. ~ ByPair(z) /\ ~ AsNew(z)
      BY <1>1, <1>6, <3>1
    <3>3. ByFold(z)
      BY <1>5, <1>6, <3>2
    <3>4. PICK q \in greet, o \in inserts : /\ StandsFor(z, q, t, Based(greet), pairs, inserts)
                                            /\ Fold(t, inserts, q) = {o} /\ q \in Added
                                            /\ z.bseq = o
      BY <3>3
    <3>5. r = q
      BY <1>3, <1>6, <3>1, <3>4
    <3> QED BY <3>1, <3>4, <3>5, StandsOnce
  <2>3. CASE AsNew(s)
    <3>1. PICK n \in DOMAIN fresh : s = NewRow(n, t, ids, fresh) /\ s.bseq = fresh[n]
      BY <2>3
    <3>2. ~ ByPair(z) /\ ~ ByFold(z)
      BY <1>1, <1>6, <3>1
    <3>3. AsNew(z)
      BY <1>5, <1>6, <3>2
    <3>4. PICK m \in DOMAIN fresh : z = NewRow(m, t, ids, fresh) /\ z.bseq = fresh[m]
      BY <3>3
    <3>5. n = m
      BY <1>1, <1>6, <3>1, <3>4
    <3> QED BY <3>1, <3>4, <3>5
  <2> HIDE DEF ByPair, ByFold, AsNew
  <2> QED BY <1>5, <1>6, <2>1, <2>2, <2>3
<1> HIDE DEF ByPair, ByFold, AsNew
<1> QED BY <1>5, <1>6 DEF Placed

LEMMA MergedFilled ==
  ASSUME Table(greet), NEW old \in Seq(Texts), Placed(greet, old), NEW t \in Seq(Texts),
         NEW M, NEW pairs, NEW inserts, NEW fresh, NEW ids,
         Merging(M, t, pairs, inserts, fresh, ids)
  PROVE  Filled(M, t)
<1>1. NoText \notin Texts
  BY CardAssumption, Zenon
<1>2. ASSUME NEW j \in DOMAIN t PROVE \E s \in M : s.base # NoText /\ s.bseq = j
  <2>1. CASE \E p \in pairs : p[2] = j
    <3>1. PICK p \in pairs : p[2] = j
      BY <2>1
    <3>2. PICK r \in greet : r = Based(greet)[p[1]]
      BY MergingBased
    <3>3. p[2] \in Nat /\ t[p[2]] \in Texts
      BY MergingBased
    <3>4. PICK x \in GreetRows : x = r
      BY DEF Table
    <3>5. PICK k \in Nat : k = j
      BY <3>1, <3>3
    <3>6. PICK text \in Texts : text = t[j]
      BY <3>1, <3>3
    <3>7. Paired(x, text, k).base = text /\ Paired(x, text, k).bseq = k
      BY PairedRow
    <3>8. Paired(r, t[p[2]], p[2]) = Paired(x, text, k)
      BY <3>1, <3>4, <3>5, <3>6
    <3>9. Paired(r, t[p[2]], p[2]) \in M
      BY <3>2, Zenon DEF StandsFor, Merging
    <3> QED BY <1>1, <3>5, <3>6, <3>7, <3>8, <3>9
  <2>2. CASE \E r \in Added : j \in Fold(t, inserts, r)
    <3>1. PICK r \in Added : j \in Fold(t, inserts, r)
      BY <2>2
    <3>2. \A k \in inserts : k \in DOMAIN t
      BY MergingBased
    <3>3. Fold(t, inserts, r) = {j} /\ Max({j}) = j /\ j \in Nat
      <4>1. \/ Fold(t, inserts, r) = {}
            \/ \E m \in inserts : /\ Fold(t, inserts, r) = {m} /\ Max({m}) = m /\ m \in Nat
                                  /\ t[m] = r.body /\ Head(InOrder(SameText(r.body))) = r
        BY <3>2, FoldForm, Zenon
      <4> QED BY <3>1, <4>1
    <3>4. PICK s : s = [r EXCEPT !.base = r.body, !.bseq = j]
      OBVIOUS
    <3>5. s = [r EXCEPT !.base = r.body, !.bseq = Max(Fold(t, inserts, r))] /\ Fold(t, inserts, r) # {}
      BY <3>3, <3>4
    <3>6. r \in greet
      BY DEF Added
    <3>7. StandsFor(s, r, t, Based(greet), pairs, inserts)
      BY <3>5, Zenon DEF StandsFor
    <3>8. s \in M
      BY <3>6, <3>7, Zenon DEF Merging
    <3>9. r \in GreetRows /\ r.body \in Texts
      BY <3>6, RowNumbers DEF Table
    <3>10. s.base = r.body /\ s.bseq = j
      BY <3>4, <3>9 DEF GreetRows
    <3> QED BY <1>1, <3>8, <3>9, <3>10
  <2>3. CASE \E n \in DOMAIN fresh : fresh[n] = j
    <3>1. PICK n \in DOMAIN fresh : fresh[n] = j
      BY <2>3
    <3>2. /\ NewRow(n, t, ids, fresh) \in M /\ NewRow(n, t, ids, fresh).bseq = fresh[n]
          /\ NewRow(n, t, ids, fresh).base = t[fresh[n]] /\ t[fresh[n]] \in Texts
      BY NewRowForm
    <3> QED BY <1>1, <3>1, <3>2
  <2>4. j \in inserts \/ \E p \in pairs : p[2] = j
    BY MergingBased
  <2>5. j \in inserts => \/ \E r \in Added : j \in Fold(t, inserts, r)
                         \/ \E n \in DOMAIN fresh : fresh[n] = j
    BY Zenon DEF Merging
  <2> QED BY <2>1, <2>2, <2>3, <2>4, <2>5
<1> QED BY <1>2 DEF Filled

\* Every greeting of the list t became the counterpart of another row than r.
LostTo(M, r, t) ==
  \A j \in DOMAIN t :
    \E s \in greet \ {r}, q \in M :
      /\ s.base # NoText
      /\ q.id = s.id /\ q.bseq = j
      /\ t[j] = r.base => s.base = r.base

\* That is so when r is left over.
LEMMA MergedLoses ==
  ASSUME Table(greet), NEW old \in Seq(Texts), Placed(greet, old), NEW t \in Seq(Texts),
         NEW M, NEW pairs, NEW inserts, NEW fresh, NEW ids,
         Merging(M, t, pairs, inserts, fresh, ids),
         NEW k \in LeftOf(Bases(Based(greet)), pairs)
  PROVE  LostTo(M, Based(greet)[k], t)
<1> DEFINE based == Based(greet)
           b == Bases(based)
           r == based[k]
<1>1. b \in Seq(Texts) /\ \A i \in DOMAIN based : b[i] = based[i].base
  BY BasedWithin
<1>2. pairs = Match(b, t) /\ inserts = RightOf(t, pairs)
  BY DEF Merging
<1>3. inserts = {} /\ \A p \in pairs : t[p[2]] = b[k] => b[p[1]] = b[k]
  <2>1. k \in LeftOf(b, Match(b, t))
    BY <1>2
  <2> HIDE DEF b
  <2> QED BY <1>1, <1>2, <2>1, MatchLeftOver
<1>4. k \in DOMAIN based /\ r \in greet /\ \A p \in pairs : p[1] # k
  BY MergingBased
<1>5. \A i \in DOMAIN based : based[i] = r => i = k
  BY <1>4, MergingBased
<1>6. ASSUME NEW j \in DOMAIN t
      PROVE  \E s \in greet \ {r}, q \in M : /\ s.base # NoText
                                             /\ q.id = s.id /\ q.bseq = j
                                             /\ t[j] = r.base => s.base = r.base
  <2>1. PICK p \in pairs : p[2] = j
    BY <1>3, MergingBased
  <2>2. /\ p[1] \in DOMAIN based /\ based[p[1]] \in greet /\ based[p[1]] \notin Added
        /\ p[2] \in Nat /\ t[p[2]] \in Texts
    BY MergingBased
  <2>3. PICK s : s = based[p[1]]
    OBVIOUS
  <2>4. s \in greet /\ s # r /\ s.base # NoText
    BY <1>4, <1>5, <2>2, <2>3 DEF Added
  <2>5. t[j] = r.base => s.base = r.base
    BY <1>1, <1>3, <1>4, <2>1, <2>2, <2>3
  <2>6. PICK x \in GreetRows : x = s
    BY <2>4 DEF Table
  <2>7. PICK n \in Nat, text \in Texts : n = j /\ text = t[j]
    BY <2>1, <2>2
  <2>8. Paired(x, text, n).id = x.id /\ Paired(x, text, n).bseq = n
    BY PairedRow
  <2>9. Paired(s, t[p[2]], p[2]) \in M
    <3>1. StandsFor(Paired(s, t[p[2]], p[2]), s, t, based, pairs, inserts)
      BY <2>3, Zenon DEF StandsFor
    <3> QED BY <2>4, <3>1, Zenon DEF Merging
  <2> HIDE DEF r
  <2> QED BY <2>1, <2>4, <2>5, <2>6, <2>7, <2>8, <2>9
<1> HIDE DEF r
<1>7. LostTo(M, r, t)
  BY <1>6 DEF LostTo
<1> QED BY <1>7 DEF r

LEMMA MergedKeeps ==
  ASSUME Table(greet), NEW old \in Seq(Texts), Placed(greet, old), NEW t \in Seq(Texts),
         NEW M, NEW pairs, NEW inserts, NEW fresh, NEW ids,
         Merging(M, t, pairs, inserts, fresh, ids),
         NEW r \in greet
  PROVE  \/ \E s \in M : s.id = r.id /\ s.body = r.body /\ s.gone = r.gone
         \/ r.gone /\ LostTo(M, r, t)
<1>1. CASE \E s : StandsFor(s, r, t, Based(greet), pairs, inserts)
  <2>1. PICK s : StandsFor(s, r, t, Based(greet), pairs, inserts)
    BY <1>1
  <2>2. s \in M
    BY <2>1, Zenon DEF Merging
  <2>3. s.id = r.id /\ s.body = r.body /\ s.gone = r.gone
    BY <2>1, StandsForm
  <2> QED BY <2>2, <2>3
<1>2. CASE r \in Added
  <2>1. PICK s : s = IF Fold(t, inserts, r) = {} THEN r
                     ELSE [r EXCEPT !.base = r.body, !.bseq = Max(Fold(t, inserts, r))]
    OBVIOUS
  <2>2. StandsFor(s, r, t, Based(greet), pairs, inserts)
    BY <1>2, <2>1, Zenon DEF StandsFor
  <2> QED BY <1>1, <2>2
<1>3. CASE r \notin Added
  <2>1. PICK k \in DOMAIN Based(greet) : Based(greet)[k] = r
    BY <1>3, MergingBased
  <2>2. CASE \E p \in pairs : p[1] = k
    <3>1. PICK p \in pairs : p[1] = k
      BY <2>2
    <3>2. StandsFor(Paired(r, t[p[2]], p[2]), r, t, Based(greet), pairs, inserts)
      BY <2>1, <3>1, Zenon DEF StandsFor
    <3> QED BY <1>1, <3>2
  <2>3. CASE ~ \E p \in pairs : p[1] = k
    <3>1. DOMAIN Bases(Based(greet)) = DOMAIN Based(greet)
      BY BasedWithin
    <3>2. k \in LeftOf(Bases(Based(greet)), pairs)
      BY <2>3, <3>1 DEF LeftOf
    <3>3. r.gone \/ \E s : s \in Dropped(r)
      BY DEF Dropped
    <3>4. \A s \in Dropped(r) : StandsFor(s, r, t, Based(greet), pairs, inserts)
      BY <2>1, <3>2, Zenon DEF StandsFor
    <3>5. LostTo(M, r, t)
      BY <2>1, <3>2, MergedLoses
    <3> QED BY <1>1, <3>3, <3>4, <3>5
  <2> QED BY <2>2, <2>3
<1> QED BY <1>2, <1>3

-----------------------------------------------------------------------------
(* What the re-open of greetings comes to.                                 *)

LEMMA Reopened ==
  ASSUME Table(greet), NEW old \in Seq(Texts), Placed(greet, old), NEW t \in Seq(Texts)
  PROVE  /\ Table(MergedList(t)) /\ Placed(MergedList(t), t) /\ Filled(MergedList(t), t)
         /\ \A r \in greet :
              \/ \E s \in MergedList(t) : s.id = r.id /\ s.body = r.body /\ s.gone = r.gone
              \/ r.gone /\ LostTo(MergedList(t), r, t)
<1>1. PICK M : M = MergedList(t)
  OBVIOUS
<1>2. PICK pairs, inserts, fresh, ids : Merging(M, t, pairs, inserts, fresh, ids)
  BY <1>1, MergingExists
<1>3. Table(M)
  BY <1>2, MergedTable
<1>4. Placed(M, t)
  BY <1>2, MergedPlaced
<1>5. Filled(M, t)
  BY <1>2, MergedFilled
<1>6. \A r \in greet : \/ \E s \in M : s.id = r.id /\ s.body = r.body /\ s.gone = r.gone
                       \/ r.gone /\ LostTo(M, r, t)
  BY <1>2, MergedKeeps
<1> QED BY <1>1, <1>3, <1>4, <1>5, <1>6

-----------------------------------------------------------------------------
(* The greetings after a restore.                                          *)

\* e has each of S once.
Enumerates(e, S) ==
  /\ Len(e) \in Nat /\ DOMAIN e = 1 .. Len(e)
  /\ \A n \in DOMAIN e : e[n] \in S
  /\ \A n, m \in DOMAIN e : e[n] = e[m] => n = m
  /\ \A i \in S : \E n \in DOMAIN e : e[n] = i

\* What stands for r among the listed rows, and the n-th new row.
ListedFor(s, r, list, based, pairs, lost) ==
  \/ \E p \in pairs : based[p[1]] = r /\ s = [r EXCEPT !.body = list[p[2]], !.seq = p[2] - 1,
                                                       !.gone = FALSE, !.mark = NoMark]
  \/ \E n \in DOMAIN lost : based[lost[n]] = r /\ s = [r EXCEPT !.body = r.base, !.seq = Len(list) + n - 1,
                                                                !.gone = TRUE, !.mark = NoMark]
ListedNew(n, list, ids, news) == GreetRow(ids[n], news[n] - 1, list[news[n]], NoText, NoPlace)

Listing(M, list, pairs, lost, news, ids) ==
  /\ OneToOne(pairs, Bases(Based(greet)), list)
  /\ Enumerates(lost, LeftOf(Bases(Based(greet)), pairs))
  /\ Enumerates(news, RightOf(list, pairs))
  /\ \A n \in DOMAIN news : ids[n] \in Nat /\ \A r \in greet : r.id # ids[n]
  /\ \A n, m \in DOMAIN news : ids[n] = ids[m] => n = m
  /\ \A s : s \in M <=> \/ \E r \in greet : ListedFor(s, r, list, Based(greet), pairs, lost)
                        \/ \E n \in DOMAIN news : s = ListedNew(n, list, ids, news)

LEMMA AscendingEnumerates ==
  ASSUME NEW n \in Nat, NEW I, \A i \in I : i \in 1 .. n
  PROVE  Enumerates(Ascending(I), I)
<1>1. /\ Cardinality(I) \in Nat
      /\ Ascending(I) \in Seq(I) /\ Len(Ascending(I)) = Cardinality(I)
      /\ DOMAIN Ascending(I) = 1 .. Cardinality(I)
      /\ \A k \in DOMAIN Ascending(I) : Ascending(I)[k] \in I
      /\ \A k, q \in DOMAIN Ascending(I) : Ascending(I)[k] = Ascending(I)[q] => k = q
      /\ \A i \in I : \E k \in DOMAIN Ascending(I) : Ascending(I)[k] = i
  BY AscendingProperties
<1> QED BY <1>1 DEF Enumerates

LEMMA ListingExists ==
  ASSUME Table(greet), NEW old \in Seq(Texts), Placed(greet, old), NEW list \in Seq(Texts)
  PROVE  \E pairs, lost, news, ids : Listing(ListOver(list), list, pairs, lost, news, ids)
<1> DEFINE based == Based(greet)
           b == Bases(based)
           pairs == Match(b, list)
           lost == Ascending(LeftOf(b, pairs))
           news == Ascending(RightOf(list, pairs))
           ids == NewIds(greet, Len(news))
           A == {[based[p[1]] EXCEPT !.body = list[p[2]], !.seq = p[2] - 1, !.gone = FALSE, !.mark = NoMark] :
                   p \in pairs}
           B == {[based[lost[n]] EXCEPT !.body = based[lost[n]].base, !.seq = Len(list) + n - 1,
                                        !.gone = TRUE, !.mark = NoMark] : n \in DOMAIN lost}
           C == {GreetRow(ids[n], news[n] - 1, list[news[n]], NoText, NoPlace) : n \in DOMAIN news}
<1>1. ListOver(list) = A \cup B \cup C
  BY DEF ListOver
<1> HIDE DEF A, B, C
<1>2. b \in Seq(Texts)
  BY BasedWithin
<1>3. OneToOne(pairs, b, list)
  <2> HIDE DEF b
  <2> QED BY <1>2, MatchOneToOne
<1>4. Enumerates(lost, LeftOf(b, pairs))
  <2>1. Len(b) \in Nat /\ \A i \in LeftOf(b, pairs) : i \in 1 .. Len(b)
    BY <1>2 DEF LeftOf
  <2> HIDE DEF b, pairs
  <2> QED BY <2>1, AscendingEnumerates
<1>5. Enumerates(news, RightOf(list, pairs))
  <2>1. Len(list) \in Nat /\ \A i \in RightOf(list, pairs) : i \in 1 .. Len(list)
    BY DEF RightOf
  <2> HIDE DEF pairs
  <2> QED BY <2>1, AscendingEnumerates
<1> HIDE DEF lost, news
<1>6. /\ \A n \in DOMAIN news : ids[n] \in Nat /\ \A r \in greet : r.id # ids[n]
      /\ \A n, m \in DOMAIN news : ids[n] = ids[m] => n = m
  <2>1. PICK c \in Nat : c = Len(news) /\ DOMAIN news = 1 .. c
    BY <1>5 DEF Enumerates
  <2>2. /\ \A k \in 1 .. c : k \in DOMAIN NewIds(greet, c) /\ NewIds(greet, c)[k] \in Nat
                             /\ \A r \in greet : r.id # NewIds(greet, c)[k]
        /\ \A k, q \in 1 .. c : NewIds(greet, c)[k] = NewIds(greet, c)[q] => k = q
    BY NewIdsAreNew
  <2> QED BY <2>1, <2>2
<1> HIDE DEF ids
<1>7. /\ \A p \in pairs : based[p[1]] \in greet
      /\ \A i \in LeftOf(b, pairs) : based[i] \in greet
  <2> HIDE DEF pairs
  <2> QED BY <1>3, PairsBased
<1>8. \A n \in DOMAIN lost : based[lost[n]] \in greet
  BY <1>4, <1>7 DEF Enumerates
<1> HIDE DEF b, pairs, based
<1>9. \A s : s \in ListOver(list) <=>
             \/ \E r \in greet : ListedFor(s, r, list, based, pairs, lost)
             \/ \E n \in DOMAIN news : s = ListedNew(n, list, ids, news)
  <2> TAKE s
  <2>1. s \in A <=> \E r \in greet : \E p \in pairs :
                      based[p[1]] = r /\ s = [r EXCEPT !.body = list[p[2]], !.seq = p[2] - 1,
                                                       !.gone = FALSE, !.mark = NoMark]
    BY <1>7, Zenon DEF A
  <2>2. s \in B <=> \E r \in greet : \E n \in DOMAIN lost :
                      based[lost[n]] = r /\ s = [r EXCEPT !.body = r.base, !.seq = Len(list) + n - 1,
                                                          !.gone = TRUE, !.mark = NoMark]
    BY <1>8, Zenon DEF B
  <2>3. s \in C <=> \E n \in DOMAIN news : s = ListedNew(n, list, ids, news)
    BY Zenon DEF C, ListedNew
  <2>4. s \in ListOver(list) <=> s \in A \/ s \in B \/ s \in C
    BY <1>1
  <2> QED BY <2>1, <2>2, <2>3, <2>4, Zenon DEF ListedFor
<1>10. Listing(ListOver(list), list, pairs, lost, news, ids)
  BY <1>3, <1>4, <1>5, <1>6, <1>9 DEF Listing, b, based
<1> QED BY <1>10

LEMMA ListedForm ==
  ASSUME Table(greet), NEW old \in Seq(Texts), Placed(greet, old), NEW list \in Seq(Texts),
         NEW M, NEW pairs, NEW lost, NEW news, NEW ids,
         Listing(M, list, pairs, lost, news, ids),
         NEW r \in greet, NEW s, ListedFor(s, r, list, Based(greet), pairs, lost)
  PROVE  /\ s \in GreetRows /\ s.id = r.id /\ s.base = r.base /\ s.bseq = r.bseq /\ r \notin Added
         /\ \/ \E p \in pairs : Based(greet)[p[1]] = r /\ s.body = list[p[2]] /\ s.seq = p[2] - 1 /\ ~s.gone
            \/ \E n \in DOMAIN lost : Based(greet)[lost[n]] = r /\ s.body = r.base /\ s.gone
<1> DEFINE based == Based(greet)
<1>1. r \in GreetRows
  BY DEF Table
<1>2. Len(list) \in Nat /\ \A j \in DOMAIN list : j - 1 \in Nat /\ list[j] \in Texts
  OBVIOUS
<1>3. /\ \A p \in pairs : p[2] \in DOMAIN list /\ based[p[1]] \notin Added
      /\ \A i \in LeftOf(Bases(based), pairs) : based[i] \notin Added
  <2>1. OneToOne(pairs, Bases(Based(greet)), list)
    BY DEF Listing
  <2> QED BY <2>1, PairsBased
<1>4. \A n \in DOMAIN lost : n - 1 \in Nat /\ based[lost[n]] \notin Added
  BY <1>3 DEF Listing, Enumerates
<1> HIDE DEF based
<1>5. NoMark \in Marks
  BY DEF Marks
<1>6. CASE \E p \in pairs : based[p[1]] = r /\ s = [r EXCEPT !.body = list[p[2]], !.seq = p[2] - 1,
                                                       !.gone = FALSE, !.mark = NoMark]
  <2>1. PICK p \in pairs : based[p[1]] = r /\ s = [r EXCEPT !.body = list[p[2]], !.seq = p[2] - 1,
                                                       !.gone = FALSE, !.mark = NoMark]
    BY <1>6, Zenon
  <2>2. PICK body \in Texts : body = list[p[2]]
    BY <1>2, <1>3
  <2>3. PICK seq \in Nat : seq = p[2] - 1
    BY <1>2, <1>3
  <2>4. s = [r EXCEPT !.body = body, !.seq = seq, !.gone = FALSE, !.mark = NoMark]
    BY <2>1, <2>2, <2>3
  <2>5. /\ s \in GreetRows /\ s.id = r.id /\ s.base = r.base /\ s.bseq = r.bseq
        /\ s.body = body /\ s.seq = seq /\ s.gone = FALSE
    <3> HIDE DEF NoMark
    <3> QED BY <1>1, <1>5, <2>4 DEF GreetRows
  <2>6. r \notin Added
    BY <1>3, <2>1
  <2> QED BY <2>1, <2>2, <2>3, <2>5, <2>6 DEF based
<1>7. CASE \E n \in DOMAIN lost : based[lost[n]] = r /\ s = [r EXCEPT !.body = r.base, !.seq = Len(list) + n - 1,
                                                                !.gone = TRUE, !.mark = NoMark]
  <2>1. PICK n \in DOMAIN lost : based[lost[n]] = r /\ s = [r EXCEPT !.body = r.base, !.seq = Len(list) + n - 1,
                                                                !.gone = TRUE, !.mark = NoMark]
    BY <1>7, Zenon
  <2>2. PICK seq \in Nat : seq = Len(list) + n - 1
    BY <1>2, <1>4
  <2>3. r \notin Added
    BY <1>4, <2>1
  <2>4. PICK body \in Texts : body = r.base
    BY <1>1, <2>3 DEF Added, GreetRows
  <2>5. s = [r EXCEPT !.body = body, !.seq = seq, !.gone = TRUE, !.mark = NoMark]
    BY <2>1, <2>2, <2>4
  <2>6. /\ s \in GreetRows /\ s.id = r.id /\ s.base = r.base /\ s.bseq = r.bseq
        /\ s.body = body /\ s.gone = TRUE
    <3> HIDE DEF NoMark
    <3> QED BY <1>1, <1>5, <2>5 DEF GreetRows
  <2> QED BY <2>1, <2>3, <2>4, <2>6 DEF based
<1> QED BY <1>6, <1>7, Zenon DEF ListedFor, based

LEMMA ListedOnce ==
  ASSUME Table(greet), NEW old \in Seq(Texts), Placed(greet, old), NEW list \in Seq(Texts),
         NEW M, NEW pairs, NEW lost, NEW news, NEW ids,
         Listing(M, list, pairs, lost, news, ids),
         NEW r \in greet, NEW s, ListedFor(s, r, list, Based(greet), pairs, lost),
         NEW z, ListedFor(z, r, list, Based(greet), pairs, lost)
  PROVE  s = z
<1> DEFINE based == Based(greet)
           left == LeftOf(Bases(based), pairs)
           AsPair(x, p) == x = [r EXCEPT !.body = list[p[2]], !.seq = p[2] - 1,
                                         !.gone = FALSE, !.mark = NoMark]
           AsLost(x, n) == x = [r EXCEPT !.body = r.base, !.seq = Len(list) + n - 1,
                                         !.gone = TRUE, !.mark = NoMark]
<1>1. /\ \A p \in pairs : p[1] \in DOMAIN based
      /\ \A p, q \in pairs : p[1] = q[1] => p = q
      /\ \A i \in left : i \in DOMAIN based /\ \A p \in pairs : p[1] # i
      /\ \A i, k \in DOMAIN based : based[i] = based[k] => i = k
  <2>1. OneToOne(pairs, Bases(Based(greet)), list)
    BY DEF Listing
  <2> QED BY <2>1, PairsBased
<1>2. /\ \A n \in DOMAIN lost : lost[n] \in left
      /\ \A n, m \in DOMAIN lost : lost[n] = lost[m] => n = m
  BY DEF Listing, Enumerates
<1>3. /\ \/ \E p \in pairs : based[p[1]] = r /\ AsPair(s, p)
         \/ \E n \in DOMAIN lost : based[lost[n]] = r /\ AsLost(s, n)
      /\ \/ \E p \in pairs : based[p[1]] = r /\ AsPair(z, p)
         \/ \E n \in DOMAIN lost : based[lost[n]] = r /\ AsLost(z, n)
  BY DEF ListedFor
<1>4. /\ \A p : AsPair(s, p) /\ AsPair(z, p) => s = z
      /\ \A n : AsLost(s, n) /\ AsLost(z, n) => s = z
  OBVIOUS
<1> HIDE DEF based, left, AsPair, AsLost
<1>5. CASE \E p \in pairs : based[p[1]] = r /\ AsPair(s, p)
  <2>1. PICK p \in pairs : based[p[1]] = r /\ AsPair(s, p)
    BY <1>5
  <2>2. \A n \in DOMAIN lost : based[lost[n]] # r
    BY <1>1, <1>2, <2>1
  <2>3. PICK q \in pairs : based[q[1]] = r /\ AsPair(z, q)
    BY <1>3, <2>2
  <2>4. p = q
    BY <1>1, <2>1, <2>3
  <2> QED BY <1>4, <2>1, <2>3, <2>4
<1>6. CASE \E n \in DOMAIN lost : based[lost[n]] = r /\ AsLost(s, n)
  <2>1. PICK n \in DOMAIN lost : based[lost[n]] = r /\ AsLost(s, n)
    BY <1>6
  <2>2. \A p \in pairs : based[p[1]] # r
    BY <1>1, <1>2, <2>1
  <2>3. PICK m \in DOMAIN lost : based[lost[m]] = r /\ AsLost(z, m)
    BY <1>3, <2>2
  <2>4. n = m
    BY <1>1, <1>2, <2>1, <2>3
  <2> QED BY <1>4, <2>1, <2>3, <2>4
<1> QED BY <1>3, <1>5, <1>6

\* Each greeting RisuAI showed stays, as listed or as deleted.
LEMMA ListedStays ==
  ASSUME Table(greet), NEW old \in Seq(Texts), Placed(greet, old), NEW list \in Seq(Texts),
         NEW M, NEW pairs, NEW lost, NEW news, NEW ids,
         Listing(M, list, pairs, lost, news, ids),
         NEW r \in greet, r \notin Added
  PROVE  \E s \in M : ListedFor(s, r, list, Based(greet), pairs, lost)
<1> DEFINE based == Based(greet)
<1>1. PICK k \in DOMAIN based : based[k] = r
  <2>1. OneToOne(pairs, Bases(Based(greet)), list)
    BY DEF Listing
  <2> QED BY <2>1, PairsBased
<1>2. DOMAIN Bases(based) = DOMAIN based
  BY BasedWithin
<1> HIDE DEF based
<1>3. \E s : ListedFor(s, r, list, based, pairs, lost)
  <2>1. CASE \E p \in pairs : p[1] = k
    BY <1>1, <2>1, Zenon DEF ListedFor
  <2>2. CASE ~ \E p \in pairs : p[1] = k
    <3>1. k \in LeftOf(Bases(based), pairs)
      BY <1>2, <2>2 DEF LeftOf
    <3>2. PICK n \in DOMAIN lost : lost[n] = k
      BY <3>1 DEF Listing, Enumerates, based
    <3> QED BY <1>1, <3>2, Zenon DEF ListedFor
  <2> QED BY <2>1, <2>2
<1>4. PICK s : ListedFor(s, r, list, based, pairs, lost)
  BY <1>3
<1>5. s \in M
  BY <1>4, Zenon DEF Listing, based
<1> QED BY <1>4, <1>5 DEF based

LEMMA ListedNewForm ==
  ASSUME Table(greet), NEW old \in Seq(Texts), Placed(greet, old), NEW list \in Seq(Texts),
         NEW M, NEW pairs, NEW lost, NEW news, NEW ids,
         Listing(M, list, pairs, lost, news, ids),
         NEW n \in DOMAIN news
  PROVE  /\ ListedNew(n, list, ids, news) \in M /\ ListedNew(n, list, ids, news) \in GreetRows
         /\ ListedNew(n, list, ids, news).id = ids[n]
         /\ news[n] \in RightOf(list, pairs) /\ news[n] \in DOMAIN list
         /\ ListedNew(n, list, ids, news).seq = news[n] - 1
         /\ ListedNew(n, list, ids, news).body = list[news[n]]
         /\ ~ListedNew(n, list, ids, news).gone
         /\ ListedNew(n, list, ids, news).base = NoText /\ ListedNew(n, list, ids, news).bseq = NoPlace
<1>1. news[n] \in RightOf(list, pairs) /\ news[n] \in DOMAIN list
  BY DEF Listing, Enumerates, RightOf
<1>2. PICK seq \in Nat : seq = news[n] - 1
  BY <1>1
<1>3. PICK id \in Nat : id = ids[n]
  BY DEF Listing
<1>4. PICK text \in Texts : text = list[news[n]]
  BY <1>1
<1>5. ListedNew(n, list, ids, news) = GreetRow(id, seq, text, NoText, NoPlace)
  BY <1>2, <1>3, <1>4 DEF ListedNew
<1>6. NoText \in Texts \cup {NoText} /\ NoPlace \in Nat \cup {NoPlace}
  OBVIOUS
<1>7. GreetRow(id, seq, text, NoText, NoPlace) \in GreetRows
  BY <1>6, GreetRowTyped
<1>8. /\ GreetRow(id, seq, text, NoText, NoPlace).id = id
      /\ GreetRow(id, seq, text, NoText, NoPlace).seq = seq
      /\ GreetRow(id, seq, text, NoText, NoPlace).body = text
      /\ ~GreetRow(id, seq, text, NoText, NoPlace).gone
      /\ GreetRow(id, seq, text, NoText, NoPlace).base = NoText
      /\ GreetRow(id, seq, text, NoText, NoPlace).bseq = NoPlace
  BY DEF GreetRow
<1>9. ListedNew(n, list, ids, news) \in M
  BY Zenon DEF Listing
<1> QED BY <1>1, <1>2, <1>3, <1>4, <1>5, <1>7, <1>8, <1>9

LEMMA ListedTable ==
  ASSUME Table(greet), NEW old \in Seq(Texts), Placed(greet, old), NEW list \in Seq(Texts),
         NEW M, NEW pairs, NEW lost, NEW news, NEW ids,
         Listing(M, list, pairs, lost, news, ids)
  PROVE  Table(M) /\ Placed(M, old)
<1> DEFINE known == {r.id : r \in greet}
           new == {ids[n] : n \in DOMAIN news}
           T == known \cup new
<1>1. IsFiniteSet(T)
  <2>1. IsFiniteSet(known)
    <3> DEFINE f == [r \in greet |-> r.id]
    <3>1. \A r \in greet : f[r] \in known
      OBVIOUS
    <3>2. \A i \in known : \E r \in greet : f[r] = i
      OBVIOUS
    <3>3. IsFiniteSet(greet)
      BY DEF Table
    <3> HIDE DEF f, known
    <3> QED BY <3>1, <3>2, <3>3, ImageCardinality
  <2>2. IsFiniteSet(new)
    <3> DEFINE f == [n \in DOMAIN news |-> ids[n]]
    <3>1. \A n \in DOMAIN news : f[n] \in new
      OBVIOUS
    <3>2. \A i \in new : \E n \in DOMAIN news : f[n] = i
      OBVIOUS
    <3>3. IsFiniteSet(DOMAIN news)
      BY FS_Interval DEF Listing, Enumerates
    <3> HIDE DEF f, new
    <3> QED BY <3>1, <3>2, <3>3, ImageCardinality
  <2> HIDE DEF known, new
  <2> QED BY <2>1, <2>2, FS_Union
<1>2. \A s \in M : \/ \E r \in greet : ListedFor(s, r, list, Based(greet), pairs, lost)
                   \/ \E n \in DOMAIN news : s = ListedNew(n, list, ids, news)
  BY DEF Listing
<1>3. \A r \in greet : \A s : ListedFor(s, r, list, Based(greet), pairs, lost) =>
        s \in GreetRows /\ s.id = r.id /\ s.base = r.base /\ s.bseq = r.bseq /\ r.base # NoText
  BY ListedForm DEF Added
<1>4. \A n \in DOMAIN news : /\ ListedNew(n, list, ids, news) \in GreetRows
                             /\ ListedNew(n, list, ids, news).id = ids[n]
                             /\ ListedNew(n, list, ids, news).base = NoText
                             /\ ListedNew(n, list, ids, news).bseq = NoPlace
  <2> TAKE n \in DOMAIN news
  <2> QED BY ListedNewForm
<1>5. \A s \in M : s \in GreetRows /\ s.id \in T
  <2> TAKE s \in M
  <2>1. CASE \E n \in DOMAIN news : s = ListedNew(n, list, ids, news)
    BY <1>4, <2>1
  <2>2. CASE \E r \in greet : ListedFor(s, r, list, Based(greet), pairs, lost)
    BY <1>3, <2>2
  <2> QED BY <1>2, <2>1, <2>2
<1>6. ASSUME NEW s \in M, NEW z \in M, s.id = z.id PROVE s = z
  <2>1. CASE \E n \in DOMAIN news : s = ListedNew(n, list, ids, news)
    <3>1. PICK n \in DOMAIN news : s = ListedNew(n, list, ids, news) /\ s.id = ids[n]
      BY <1>4, <2>1
    <3>2. \A r \in greet : ~ ListedFor(z, r, list, Based(greet), pairs, lost)
      BY <1>3, <1>6, <3>1 DEF Listing
    <3>3. PICK m \in DOMAIN news : z = ListedNew(m, list, ids, news)
      BY <1>2, <3>2
    <3>4. z.id = ids[m]
      BY <1>4, <3>3
    <3>5. n = m
      BY <1>6, <3>1, <3>4 DEF Listing
    <3> QED BY <3>1, <3>3, <3>5
  <2>2. CASE \E r \in greet : ListedFor(s, r, list, Based(greet), pairs, lost)
    <3>1. PICK r \in greet : ListedFor(s, r, list, Based(greet), pairs, lost) /\ s.id = r.id
      BY <1>3, <2>2
    <3>2. \A n \in DOMAIN news : r.id # ids[n]
      BY DEF Listing
    <3>3. \A n \in DOMAIN news : z # ListedNew(n, list, ids, news)
      BY <1>4, <1>6, <3>1, <3>2
    <3>4. PICK q \in greet : ListedFor(z, q, list, Based(greet), pairs, lost)
      BY <1>2, <3>3
    <3>5. z.id = q.id
      BY <1>3, <3>4
    <3>6. q = r
      BY <1>6, <3>1, <3>5 DEF Table
    <3> QED BY <3>1, <3>4, <3>6, ListedOnce
  <2> QED BY <1>2, <2>1, <2>2
<1>7. Table(M)
  <2> HIDE DEF T
  <2> QED BY <1>1, <1>5, <1>6, TableOfIds
<1>8. \A s \in M : s.base = NoText <=> s.bseq = NoPlace
  <2> TAKE s \in M
  <2>1. CASE \E n \in DOMAIN news : s = ListedNew(n, list, ids, news)
    BY <1>4, <2>1
  <2>2. CASE \E r \in greet : ListedFor(s, r, list, Based(greet), pairs, lost)
    <3>1. PICK r \in greet : /\ s.base = r.base /\ s.bseq = r.bseq /\ r.base # NoText
      BY <1>3, <2>2
    <3> QED BY <3>1 DEF Placed
  <2> QED BY <1>2, <2>1, <2>2
<1>9. \A s \in M : s.base # NoText => \E r \in greet : ListedFor(s, r, list, Based(greet), pairs, lost)
  BY <1>2, <1>4
<1>10. \A s \in M : s.base # NoText => s.bseq \in DOMAIN old /\ old[s.bseq] = s.base
  BY <1>3, <1>9 DEF Placed
<1>11. ASSUME NEW s \in M, NEW z \in M, s.base # NoText, z.base # NoText, s.bseq = z.bseq
       PROVE  s = z
  <2>1. PICK r \in greet : ListedFor(s, r, list, Based(greet), pairs, lost)
    BY <1>9, <1>11
  <2>2. PICK q \in greet : ListedFor(z, q, list, Based(greet), pairs, lost)
    BY <1>9, <1>11
  <2>3. r = q
    BY <1>3, <1>11, <2>1, <2>2 DEF Placed
  <2> QED BY <2>1, <2>2, <2>3, ListedOnce
<1> QED BY <1>7, <1>8, <1>10, <1>11 DEF Placed

LEMMA Relisted ==
  ASSUME Table(greet), NEW old \in Seq(Texts), Placed(greet, old), NEW list \in Seq(Texts)
  PROVE  Table(ListOver(list)) /\ Placed(ListOver(list), old)
<1>1. PICK M : M = ListOver(list)
  OBVIOUS
<1>2. PICK pairs, lost, news, ids : Listing(M, list, pairs, lost, news, ids)
  BY <1>1, ListingExists
<1>3. Table(M) /\ Placed(M, old)
  BY <1>2, ListedTable
<1> QED BY <1>1, <1>3

-----------------------------------------------------------------------------
(* The rows of greetings, through everything else that happens to them.    *)

LEMMA SomeRowsPlaced ==
  ASSUME NEW S, Table(S), NEW list, Placed(S, list), NEW M \in SUBSET S
  PROVE  Table(M) /\ Placed(M, list)
<1>1. Table(M)
  BY PartOfTable
<1>2. \A r \in M : r \in S
  OBVIOUS
<1> QED BY <1>1, <1>2 DEF Placed

\* Another row with an id of its own, or the one a row becomes.
LEMMA PutPlaced ==
  ASSUME NEW S, Table(S), NEW list, Placed(S, list), NEW new \in GreetRows,
         \A r \in S : r.id # new.id,
         new.base = NoText <=> new.bseq = NoPlace,
         new.base # NoText => /\ new.bseq \in DOMAIN list /\ list[new.bseq] = new.base
                              /\ \A r \in S : r.base # NoText => r.bseq # new.bseq
  PROVE  Table(S \cup {new}) /\ Placed(S \cup {new}, list)
<1>1. IsFiniteSet(S \cup {new})
  BY FS_AddElement DEF Table
<1>2. Table(S \cup {new})
  BY <1>1 DEF Table
<1>3. Placed(S \cup {new}, list)
  BY DEF Placed
<1> QED BY <1>2, <1>3

LEMMA ChangedPlaced ==
  ASSUME NEW S, Table(S), NEW list, Placed(S, list), NEW r \in S, NEW new \in GreetRows,
         new.id = r.id,
         \/ new.base = r.base /\ new.bseq = r.bseq
         \/ new.base = NoText /\ new.bseq = NoPlace
  PROVE  Table((S \ {r}) \cup {new}) /\ Placed((S \ {r}) \cup {new}, list)
<1> DEFINE M == S \ {r}
<1>1. Table(M) /\ Placed(M, list)
  BY SomeRowsPlaced
<1>2. \A s \in M : s \in S /\ s # r
  OBVIOUS
<1> HIDE DEF M
<1>3. \A s \in M : s.id # new.id
  BY <1>2 DEF Table
<1>4. new.base = NoText <=> new.bseq = NoPlace
  BY DEF Placed
<1>5. new.base # NoText => /\ new.bseq \in DOMAIN list /\ list[new.bseq] = new.base
                           /\ \A s \in M : s.base # NoText => s.bseq # new.bseq
  BY <1>2 DEF Placed
<1>6. Table(M \cup {new}) /\ Placed(M \cup {new}, list)
  BY <1>1, <1>3, <1>4, <1>5, PutPlaced
<1> QED BY <1>6 DEF M

LEMMA LoadedPlaced ==
  ASSUME NEW list \in Seq(Texts)
  PROVE  /\ Table(LoadedList(list)) /\ Placed(LoadedList(list), list) /\ Filled(LoadedList(list), list)
<1> DEFINE Row(i) == GreetRow(i, i - 1, list[i], list[i], i)
           M == LoadedList(list)
<1>1. /\ \A i \in DOMAIN list : Row(i) \in M
      /\ \A r \in M : \E i \in DOMAIN list : r = Row(i)
  BY DEF LoadedList
<1>2. ASSUME NEW i \in DOMAIN list
      PROVE  /\ Row(i) \in GreetRows /\ Row(i).id = i /\ Row(i).bseq = i /\ Row(i).base = list[i]
             /\ Row(i).base # NoText /\ Row(i).bseq # NoPlace
  <2>1. i \in Nat /\ i - 1 \in Nat /\ list[i] \in Texts
    OBVIOUS
  <2>2. PICK seq \in Nat : seq = i - 1
    BY <2>1
  <2>3. PICK text \in Texts : text = list[i]
    BY <2>1
  <2>4. text \in Texts \cup {NoText} /\ i \in Nat \cup {NoPlace}
    BY <2>1
  <2>5. GreetRow(i, seq, text, text, i) \in GreetRows
    BY <2>1, <2>4, GreetRowTyped
  <2>6. Row(i) = GreetRow(i, seq, text, text, i)
    BY <2>2, <2>3
  <2>7. text # NoText
    BY CardAssumption, Zenon
  <2>8. i # NoPlace
    BY <2>1 DEF NoPlace
  <2> QED BY <2>3, <2>5, <2>6, <2>7, <2>8 DEF GreetRow
<1> HIDE DEF Row, M
<1>3. \A r \in M : \E i \in DOMAIN list :
        /\ r = Row(i) /\ r \in GreetRows /\ r.id = i /\ r.bseq = i /\ r.base = list[i]
        /\ r.base # NoText /\ r.bseq # NoPlace
  BY <1>1, <1>2
<1>4. IsFiniteSet(DOMAIN list)
  <2>1. Len(list) \in Nat /\ DOMAIN list = 1 .. Len(list)
    OBVIOUS
  <2> QED BY <2>1, FS_Interval
<1>5. \A r, s \in M : r.id = s.id => r = s
  BY <1>3
<1>6. Table(M)
  <2>1. \A r \in M : r \in GreetRows /\ r.id \in DOMAIN list
    BY <1>3
  <2> QED BY <1>4, <1>5, <2>1, TableOfIds
<1>7. Placed(M, list)
  BY <1>3 DEF Placed
<1>8. Filled(M, list)
  BY <1>1, <1>2 DEF Filled
<1> QED BY <1>6, <1>7, <1>8 DEF M

\* A reset brings back every greeting RisuAI showed, and drops the others.
ResetRow(r) == [r EXCEPT !.body = r.base, !.gone = FALSE, !.mark = NoMark]

LEMMA ResetPlaced ==
  ASSUME NEW S, Table(S), NEW list, Placed(S, list)
  PROVE  /\ Table({ResetRow(r) : r \in WithBase(S)})
         /\ Placed({ResetRow(r) : r \in WithBase(S)}, list)
<1> DEFINE M == {ResetRow(r) : r \in WithBase(S)}
           T == {r.id : r \in S}
<1>1. ASSUME NEW r \in WithBase(S)
      PROVE  /\ r \in S /\ ResetRow(r) \in GreetRows /\ ResetRow(r).id = r.id
             /\ ResetRow(r).base = r.base /\ ResetRow(r).bseq = r.bseq
  <2>1. r \in S /\ r.base # NoText
    BY DEF WithBase
  <2>2. r \in GreetRows
    BY <2>1 DEF Table
  <2>3. PICK text \in Texts : text = r.base
    BY <2>1, <2>2 DEF GreetRows
  <2>4. NoMark \in Marks
    BY DEF Marks
  <2>5. ResetRow(r) = [r EXCEPT !.body = text, !.gone = FALSE, !.mark = NoMark]
    BY <2>3 DEF ResetRow
  <2> HIDE DEF NoMark
  <2> QED BY <2>1, <2>2, <2>4, <2>5 DEF GreetRows
<1>2. IsFiniteSet(T)
  <2> DEFINE f == [r \in S |-> r.id]
  <2>1. \A r \in S : f[r] \in T
    OBVIOUS
  <2>2. \A i \in T : \E r \in S : f[r] = i
    OBVIOUS
  <2>3. IsFiniteSet(S)
    BY DEF Table
  <2> HIDE DEF f, T
  <2> QED BY <2>1, <2>2, <2>3, ImageCardinality
<1>3. \A s \in M : \E r \in WithBase(S) : s = ResetRow(r)
  OBVIOUS
<1> HIDE DEF M
<1>4. \A s \in M : s \in GreetRows /\ s.id \in T
  BY <1>1, <1>3
<1>5. ASSUME NEW s \in M, NEW z \in M, s.id = z.id PROVE s = z
  <2>1. PICK r \in WithBase(S), q \in WithBase(S) : s = ResetRow(r) /\ z = ResetRow(q)
    BY <1>3
  <2>2. r = q
    BY <1>1, <1>5, <2>1 DEF Table
  <2> QED BY <2>1, <2>2
<1>6. Table(M)
  <2> HIDE DEF T
  <2> QED BY <1>2, <1>4, <1>5, TableOfIds
<1>7. \A s \in M : s.base = NoText <=> s.bseq = NoPlace
  BY <1>1, <1>3 DEF Placed
<1>8. \A s \in M : s.base # NoText => s.bseq \in DOMAIN list /\ list[s.bseq] = s.base
  BY <1>1, <1>3 DEF Placed
<1>9. ASSUME NEW s \in M, NEW z \in M, s.base # NoText, z.base # NoText, s.bseq = z.bseq
      PROVE  s = z
  <2>1. PICK r \in WithBase(S), q \in WithBase(S) : s = ResetRow(r) /\ z = ResetRow(q)
    BY <1>3
  <2>2. r = q
    BY <1>1, <1>9, <2>1 DEF Placed
  <2> QED BY <2>1, <2>2
<1>10. Placed(M, list)
  BY <1>7, <1>8, <1>9 DEF Placed
<1> QED BY <1>6, <1>10 DEF M

-----------------------------------------------------------------------------
(* What is listed, what RisuAI showed and what is shipped are cards.       *)

ByText(S) ==
  {p \in S \X S : \/ p[1].seq < p[2].seq
                  \/ p[1].seq = p[2].seq /\ p[1].body < p[2].body
                  \/ p[1].seq = p[2].seq /\ p[1].body = p[2].body /\ p[1].id < p[2].id}

LEMMA LinesBodies ==
  ASSUME NEW S, Table(S), NEW list, NEW before, Lines(list, S, before)
  PROVE  Bodies(list) \in Seq(Texts)
<1>1. \A k \in 1 .. Cardinality(S) : list[k].body \in Texts
  BY RowNumbers DEF Lines, Table
<1>2. Bodies(list) = [k \in 1 .. Cardinality(S) |-> list[k].body] /\ Cardinality(S) \in Nat
  BY DEF Bodies, Lines
<1> QED BY <1>1, <1>2

LEMMA ByTextLines ==
  ASSUME NEW S, Table(S), NEW M \in SUBSET S
  PROVE  Lines(Sorted(M, ByText(S)), M, ByText(S))
<1>1. \A r, s \in M : <<r, s>> \in ByText(S) <=>
        \/ r.seq < s.seq
        \/ r.seq = s.seq /\ r.body < s.body
        \/ r.seq = s.seq /\ r.body = s.body /\ r.id < s.id
  BY DEF ByText
<1>2. \A r \in M : r.id \in Nat /\ r.seq \in Nat /\ r.body \in Nat
  <2> TAKE r \in M
  <2>1. r \in GreetRows
    BY DEF Table
  <2>2. r.id \in Nat /\ r.seq \in Nat /\ r.body \in Texts
    BY <2>1, RowNumbers
  <2>3. \A x \in Texts : x \in Nat
    BY CardAssumption, Zenon
  <2> QED BY <2>2, <2>3
<1>3. Orders(ByText(S), M)
  <2>1. ASSUME NEW r \in M, NEW s \in M, r # s
        PROVE  <<r, s>> \in ByText(S) \/ <<s, r>> \in ByText(S)
    <3>1. r.id # s.id
      BY <2>1 DEF Table
    <3> QED BY <1>1, <1>2, <3>1
  <2>2. \A r \in M : <<r, r>> \notin ByText(S)
    BY <1>1, <1>2
  <2>3. ASSUME NEW r \in M, NEW s \in M, NEW q \in M, <<r, s>> \in ByText(S), <<s, q>> \in ByText(S)
        PROVE  <<r, q>> \in ByText(S)
    BY <1>1, <1>2, <2>3
  <2> QED BY <2>1, <2>2, <2>3 DEF Orders
<1>4. IsFiniteSet(M)
  BY PartOfTable DEF Table
<1> QED BY <1>3, <1>4, SortedProperties DEF Lines

LEMMA CardsTyped ==
  ASSUME field \in [Fields -> FieldRows], Table(greet), NEW old \in Seq(Texts), Placed(greet, old)
  PROVE  Working \in Cards /\ Baseline \in Cards /\ Shipped \in Cards
<1>1. \A f \in Fields : field[f].body \in Texts /\ field[f].base \in Texts
  BY DEF FieldRows
<1>2. Table(Live(greet)) /\ Live(greet) \in SUBSET greet
  <2>1. Live(greet) \in SUBSET greet
    BY DEF Live
  <2> QED BY <2>1, PartOfTable
<1>3. Bodies(InOrder(Live(greet))) \in Seq(Texts)
  BY <1>2, InOrderLines, LinesBodies
<1>4. Bases(Based(greet)) \in Seq(Texts)
  BY BasedWithin
<1>5. Bodies(Sorted(Live(greet), ByText(greet))) \in Seq(Texts)
  BY <1>2, ByTextLines, LinesBodies
<1>6. Working \in Cards
  <2> DEFINE fields == [f \in Fields |-> field[f].body]
             list == Bodies(InOrder(Live(greet)))
  <2>1. fields \in [Fields -> Texts] /\ list \in Seq(Texts)
    BY <1>1, <1>3
  <2>2. Working = [field |-> fields, greet |-> list]
    BY DEF Working
  <2> HIDE DEF fields, list
  <2> QED BY <2>1, <2>2 DEF Cards
<1>7. Baseline \in Cards
  <2> DEFINE fields == [f \in Fields |-> field[f].base]
             list == Bases(Based(greet))
  <2>1. fields \in [Fields -> Texts] /\ list \in Seq(Texts)
    BY <1>1, <1>4
  <2>2. Baseline = [field |-> fields, greet |-> list]
    BY DEF Baseline
  <2> HIDE DEF fields, list
  <2> QED BY <2>1, <2>2 DEF Cards
<1>8. Shipped \in Cards
  <2> DEFINE list == Bodies(Sorted(Live(greet), ByText(greet)))
  <2>1. Shipped = [Working EXCEPT !.greet = list]
    BY DEF Shipped, ByText
  <2> HIDE DEF list
  <2> QED BY <1>5, <1>6, <2>1 DEF Cards, list
<1> QED BY <1>6, <1>7, <1>8

-----------------------------------------------------------------------------
(* The inductive invariant.                                                *)

\* The greetings a patch takes for RisuAI's were shown by some upload, in
\* that order.
PatchedGreetingsSeen == w # Idle => \E card \in seen : Within(w.from.greet, card.greet)

\* The variables besides the greetings and the write-back.
RestTyped ==
  /\ risu \in Cards
  /\ field \in [Fields -> FieldRows]
  /\ saved \subseteq Cards
  /\ up \subseteq [card : Cards, reset : BOOLEAN]
  /\ read \in Cards
  /\ seen \subseteq Cards
  /\ count \in [Counters -> Nat]

\* Each greeting has a row of its own, and the rows that have an original
\* stand over the list of the last upload handled.
GreetingsStand == Table(greet) /\ Placed(greet, read.greet)

CardInv ==
  /\ RestTyped
  /\ w \in Writes
  /\ GreetingsStand
  /\ WriteInv
  /\ PatchedGreetingsSeen

LEMMA GreetingsStandTyped == RestTyped => read.greet \in Seq(Texts) /\ read.field \in [Fields -> Texts]
BY DEF RestTyped, Cards

LEMMA CardInvSound == CardInv => CardSound
<1> SUFFICES ASSUME CardInv PROVE CardSound
  OBVIOUS
<1>1. greet \subseteq GreetRows
  BY DEF CardInv, GreetingsStand, Table
<1>2. CardTypeOK
  BY <1>1 DEF CardInv, RestTyped, CardTypeOK
<1>3. ASSUME NEW r \in greet, NEW s \in greet, r # s
      PROVE  r.id # s.id /\ (r.base # NoText => r.bseq # s.bseq)
  <2>1. r.id # s.id
    BY <1>3 DEF CardInv, GreetingsStand, Table
  <2>2. CASE s.base = NoText
    BY <2>1, <2>2 DEF CardInv, GreetingsStand, Placed
  <2>3. CASE s.base # NoText
    BY <1>3, <2>1, <2>3 DEF CardInv, GreetingsStand, Placed
  <2> QED BY <2>2, <2>3
<1>4. \A r \in greet : r.base = NoText <=> r.bseq = NoPlace
  BY DEF CardInv, GreetingsStand, Placed
<1>5. Baseline.field = read.field
  <2>1. \A f \in Fields : field[f].base = read.field[f]
    BY DEF CardInv, WriteInv, BasesRead
  <2>2. read.field = [f \in Fields |-> read.field[f]]
    BY GreetingsStandTyped DEF CardInv
  <2>3. Baseline.field = [f \in Fields |-> field[f].base]
    BY DEF Baseline
  <2> QED BY <2>1, <2>2, <2>3
<1> QED BY <1>2, <1>3, <1>4, <1>5 DEF CardSound

LEMMA CardInvInit == CardInit => CardInv
<1> SUFFICES ASSUME CardInit PROVE CardInv
  OBVIOUS
<1>1. risu \in Cards
  BY CardAssumption DEF CardInit, Cards
<1>2. risu.greet \in Seq(Texts) /\ risu.field \in [Fields -> Texts]
  BY <1>1 DEF Cards
<1>3. field \in [Fields -> FieldRows]
  <2>1. \A f \in Fields : FieldRow(risu.field[f], risu.field[f]) \in FieldRows
    BY <1>2 DEF FieldRow, FieldRows, Marks
  <2>2. field = [f \in Fields |-> FieldRow(risu.field[f], risu.field[f])]
    BY DEF CardInit, LoadedFields
  <2> QED BY <2>1, <2>2
<1>4. saved \subseteq Cards
  BY CardAssumption DEF CardInit, Cards
<1>5. RestTyped
  <2>1. up \subseteq [card : Cards, reset : BOOLEAN] /\ read \in Cards /\ seen \subseteq Cards
    BY <1>1 DEF CardInit
  <2>2. count \in [Counters -> Nat]
    BY DEF CardInit
  <2> QED BY <1>1, <1>3, <1>4, <2>1, <2>2 DEF RestTyped
<1>6. GreetingsStand
  BY <1>2, LoadedPlaced DEF CardInit, GreetingsStand
<1>7. WriteInv
  BY WriteInvInit
<1>8. w \in Writes /\ PatchedGreetingsSeen
  BY DEF CardInit, Writes, PatchedGreetingsSeen
<1> QED BY <1>5, <1>6, <1>7, <1>8 DEF CardInv

-----------------------------------------------------------------------------
(* Every step keeps it.                                                    *)

LEMMA TickTyped ==
  ASSUME RestTyped, NEW c \in Counters, Tick(c)
  PROVE  count' \in [Counters -> Nat]
BY DEF RestTyped, Tick

\* The panel's steps leave RisuAI, uploads and the write-back alone.
LEMMA PanelTyped ==
  ASSUME CardInv, Panel, field' \in [Fields -> FieldRows], saved' \subseteq Cards
  PROVE  /\ RestTyped' /\ w' \in Writes /\ PatchedGreetingsSeen'
         /\ read' = read
<1>1. count' \in [Counters -> Nat]
  BY TickTyped DEF Panel, Counters, CardInv
<1>2. RestTyped'
  BY <1>1 DEF CardInv, RestTyped, Panel
<1>3. PatchedGreetingsSeen'
  BY DEF CardInv, PatchedGreetingsSeen, Panel
<1> QED BY <1>2, <1>3 DEF CardInv, Panel

LEMMA WorkingSaved ==
  ASSUME CardInv
  PROVE  Working \in Cards /\ Baseline \in Cards /\ Shipped \in Cards
BY CardsTyped, GreetingsStandTyped DEF CardInv, GreetingsStand, RestTyped

LEMMA FieldRowTyped ==
  ASSUME NEW body \in Texts, NEW base \in Texts
  PROVE  FieldRow(body, base) \in FieldRows
BY DEF FieldRow, FieldRows, Marks

LEMMA PanelFields ==
  ASSUME CardInv,
         \/ \E f \in Fields, t \in Texts : EditField(f, t)
         \/ \E r \in greet, t \in Texts : EditGreeting(r, t)
         \/ \E t \in Texts : AddGreeting(t)
         \/ \E r \in greet : DeleteGreeting(r)
         \/ \E mine \in BOOLEAN : \/ \E f \in Fields : ResolveField(f, mine)
                                  \/ \E r \in greet : ResolveGreeting(r, mine)
         \/ Reset \/ Save
         \/ \E c \in saved : Restore(c)
  PROVE  Panel /\ field' \in [Fields -> FieldRows] /\ saved' \subseteq Cards
<1>1. field \in [Fields -> FieldRows] /\ saved \subseteq Cards /\ Working \in Cards
  BY WorkingSaved DEF CardInv, RestTyped
<1>2. \A f \in Fields : field[f].body \in Texts /\ field[f].base \in Texts
  BY <1>1 DEF FieldRows
<1>3. Panel
  BY DEF EditField, EditGreeting, AddGreeting, DeleteGreeting, ResolveField, ResolveGreeting,
         Reset, Save, Restore
<1>4. saved' \subseteq Cards
  <2>1. saved' = saved \/ saved' = saved \cup {Working}
    BY DEF EditField, EditGreeting, AddGreeting, DeleteGreeting, ResolveField, ResolveGreeting,
           Reset, Save, Restore
  <2> QED BY <1>1, <2>1
<1>5. ASSUME NEW f \in Fields, NEW t \in Texts, EditField(f, t)
      PROVE  field' \in [Fields -> FieldRows]
  <2>1. field' = [field EXCEPT ![f].body = t]
    BY <1>5 DEF EditField
  <2>2. [field[f] EXCEPT !.body = t] \in FieldRows
    BY <1>1 DEF FieldRows
  <2> QED BY <1>1, <2>1, <2>2
<1>6. ASSUME NEW f \in Fields, NEW mine \in BOOLEAN, ResolveField(f, mine)
      PROVE  field' \in [Fields -> FieldRows]
  <2>1. PICK b \in Texts : b = IF mine THEN field[f].body ELSE field[f].base
    BY <1>2
  <2>2. PICK base \in Texts : base = field[f].base
    BY <1>2
  <2>3. field' = [field EXCEPT ![f] = FieldRow(b, base)]
    BY <1>6, <2>1, <2>2 DEF ResolveField
  <2>4. FieldRow(b, base) \in FieldRows
    BY FieldRowTyped
  <2> QED BY <1>1, <2>3, <2>4
<1>7. ASSUME Reset PROVE field' \in [Fields -> FieldRows]
  <2>1. field' = [f \in Fields |-> FieldRow(field[f].base, field[f].base)]
    BY <1>7 DEF Reset
  <2>2. \A f \in Fields : FieldRow(field[f].base, field[f].base) \in FieldRows
    BY <1>2, FieldRowTyped
  <2> QED BY <2>1, <2>2
<1>8. ASSUME NEW c \in saved, Restore(c) PROVE field' \in [Fields -> FieldRows]
  <2>1. field' = [f \in Fields |-> FieldRow(c.field[f], field[f].base)]
    BY <1>8 DEF Restore
  <2>2. \A f \in Fields : c.field[f] \in Texts
    BY <1>1 DEF Cards
  <2>3. \A f \in Fields : FieldRow(c.field[f], field[f].base) \in FieldRows
    BY <1>2, <2>2, FieldRowTyped
  <2> QED BY <2>1, <2>3
<1>9. \/ field' = field
      \/ \E f \in Fields, t \in Texts : EditField(f, t)
      \/ \E f \in Fields, mine \in BOOLEAN : ResolveField(f, mine)
      \/ Reset \/ \E c \in saved : Restore(c)
  BY DEF EditGreeting, AddGreeting, DeleteGreeting, ResolveGreeting, Save
<1>10. field' \in [Fields -> FieldRows]
  BY <1>1, <1>5, <1>6, <1>7, <1>8, <1>9
<1> QED BY <1>3, <1>4, <1>10

\* What the panel makes of the greetings.
LEMMA PanelGreetings ==
  ASSUME CardInv,
         \/ \E f \in Fields, t \in Texts : EditField(f, t)
         \/ \E r \in greet, t \in Texts : EditGreeting(r, t)
         \/ \E t \in Texts : AddGreeting(t)
         \/ \E r \in greet : DeleteGreeting(r)
         \/ \E mine \in BOOLEAN : \/ \E f \in Fields : ResolveField(f, mine)
                                  \/ \E r \in greet : ResolveGreeting(r, mine)
         \/ Reset \/ Save
         \/ \E c \in saved : Restore(c)
  PROVE  Table(greet') /\ Placed(greet', read.greet)
<1> DEFINE old == read.greet
<1>1. Table(greet) /\ Placed(greet, old) /\ old \in Seq(Texts)
  BY GreetingsStandTyped DEF CardInv, GreetingsStand
<1> HIDE DEF old
<1>2. \A r \in greet : r \in GreetRows
  BY <1>1 DEF Table
<1>3. NoMark \in Marks
  BY DEF Marks
<1>4. CASE greet' = greet
  BY <1>1, <1>4 DEF old
<1>5. ASSUME NEW r \in greet, greet' = greet \ {r}
      PROVE  Table(greet') /\ Placed(greet', old)
  <2>1. greet \ {r} \in SUBSET greet
    OBVIOUS
  <2> QED BY <1>1, <1>5, <2>1, SomeRowsPlaced
<1>6. ASSUME NEW r \in greet, NEW new \in GreetRows, Put(r, new), new.id = r.id,
             \/ new.base = r.base /\ new.bseq = r.bseq
             \/ new.base = NoText /\ new.bseq = NoPlace
      PROVE  Table(greet') /\ Placed(greet', old)
  <2>1. greet' = (greet \ {r}) \cup {new}
    BY <1>6 DEF Put
  <2>2. Table((greet \ {r}) \cup {new}) /\ Placed((greet \ {r}) \cup {new}, old)
    BY <1>1, <1>6, ChangedPlaced
  <2> QED BY <2>1, <2>2
<1> HIDE DEF NoMark
<1>7. ASSUME NEW r \in greet, NEW t \in Texts, EditGreeting(r, t)
      PROVE  Table(greet') /\ Placed(greet', old)
  <2>1. PICK new : new = [r EXCEPT !.body = t, !.gone = FALSE]
    OBVIOUS
  <2>2. new \in GreetRows /\ new.id = r.id /\ new.base = r.base /\ new.bseq = r.bseq
    BY <1>2, <2>1 DEF GreetRows
  <2>3. Put(r, new)
    BY <1>7, <2>1 DEF EditGreeting
  <2> QED BY <1>6, <2>2, <2>3
<1>8. ASSUME NEW t \in Texts, AddGreeting(t)
      PROVE  Table(greet') /\ Placed(greet', old)
  <2>1. PICK id \in Nat : id = NewIds(greet, 1)[1] /\ \A r \in greet : r.id # id
    BY <1>1, NewIdsAreNew
  <2>2. PICK seq \in Nat : seq = IF MaxSeq(greet) = 0 THEN 0 ELSE MaxSeq(greet) + 1
    BY <1>1, MaxSeqBound
  <2>3. PICK new : new = GreetRow(id, seq, t, NoText, NoPlace)
    OBVIOUS
  <2>4. new \in GreetRows
    <3>1. NoText \in Texts \cup {NoText} /\ NoPlace \in Nat \cup {NoPlace}
      OBVIOUS
    <3> QED BY <2>3, <3>1, GreetRowTyped
  <2>5. new.id = id /\ new.base = NoText /\ new.bseq = NoPlace
    BY <2>3 DEF GreetRow
  <2>6. greet' = greet \cup {new}
    BY <1>8, <2>1, <2>2, <2>3 DEF AddGreeting
  <2>7. Table(greet \cup {new}) /\ Placed(greet \cup {new}, old)
    BY <1>1, <2>1, <2>4, <2>5, PutPlaced
  <2> QED BY <2>6, <2>7
<1>9. ASSUME NEW r \in greet, DeleteGreeting(r)
      PROVE  Table(greet') /\ Placed(greet', old)
  <2>1. CASE r.base = NoText
    BY <1>5, <1>9, <2>1 DEF DeleteGreeting
  <2>2. CASE r.base # NoText
    <3>1. PICK new : new = [r EXCEPT !.gone = TRUE]
      OBVIOUS
    <3>2. new \in GreetRows /\ new.id = r.id /\ new.base = r.base /\ new.bseq = r.bseq
      BY <1>2, <3>1 DEF GreetRows
    <3>3. Put(r, new)
      BY <1>9, <2>2, <3>1 DEF DeleteGreeting
    <3> QED BY <1>6, <3>2, <3>3
  <2> QED BY <2>1, <2>2
<1>10. ASSUME NEW r \in greet, NEW mine \in BOOLEAN, ResolveGreeting(r, mine)
       PROVE  Table(greet') /\ Placed(greet', old)
  <2> DEFINE dropped == r.mark.kind = "deleted-upstream"
  <2>1. CASE mine /\ dropped
    <3>1. PICK new : new = [r EXCEPT !.base = NoText, !.bseq = NoPlace, !.mark = NoMark]
      OBVIOUS
    <3>2. new \in GreetRows /\ new.id = r.id /\ new.base = NoText /\ new.bseq = NoPlace
      BY <1>2, <1>3, <3>1 DEF GreetRows
    <3>3. Put(r, new)
      BY <1>10, <2>1, <3>1 DEF ResolveGreeting
    <3> QED BY <1>6, <3>2, <3>3
  <2>2. CASE mine /\ ~dropped
    <3>1. PICK new : new = [r EXCEPT !.mark = NoMark]
      OBVIOUS
    <3>2. new \in GreetRows /\ new.id = r.id /\ new.base = r.base /\ new.bseq = r.bseq
      BY <1>2, <1>3, <3>1 DEF GreetRows
    <3>3. Put(r, new)
      BY <1>10, <2>2, <3>1 DEF ResolveGreeting
    <3> QED BY <1>6, <3>2, <3>3
  <2>3. CASE ~mine /\ dropped
    BY <1>5, <1>10, <2>3 DEF ResolveGreeting
  <2>4. CASE ~mine /\ ~dropped
    <3>1. PICK new : new = [r EXCEPT !.body = r.base, !.mark = NoMark]
      OBVIOUS
    <3>2. Put(r, new) /\ r.base # NoText
      BY <1>10, <2>4, <3>1 DEF ResolveGreeting
    <3>3. new \in GreetRows /\ new.id = r.id /\ new.base = r.base /\ new.bseq = r.bseq
      BY <1>2, <1>3, <3>1, <3>2 DEF GreetRows
    <3> QED BY <1>6, <3>2, <3>3
  <2> HIDE DEF dropped
  <2> QED BY <2>1, <2>2, <2>3, <2>4
<1>11. ASSUME Reset
       PROVE  Table(greet') /\ Placed(greet', old)
  <2>1. greet' = {ResetRow(r) : r \in WithBase(greet)}
    BY <1>11 DEF Reset, ResetRow, WithBase
  <2> QED BY <1>1, <2>1, ResetPlaced
<1>12. ASSUME NEW c \in saved, Restore(c)
       PROVE  Table(greet') /\ Placed(greet', old)
  <2>1. greet' = ListOver(c.greet)
    BY <1>12 DEF Restore
  <2>2. PICK list \in Seq(Texts) : list = c.greet
    BY DEF CardInv, RestTyped, Cards
  <2>3. Table(ListOver(list)) /\ Placed(ListOver(list), old)
    BY <1>1, Relisted
  <2> QED BY <2>1, <2>2, <2>3
<1>13. \/ greet' = greet
       \/ \E r \in greet, t \in Texts : EditGreeting(r, t)
       \/ \E t \in Texts : AddGreeting(t)
       \/ \E r \in greet : DeleteGreeting(r)
       \/ \E mine \in BOOLEAN, r \in greet : ResolveGreeting(r, mine)
       \/ Reset
       \/ \E c \in saved : Restore(c)
  BY DEF EditField, ResolveField, Save
<1> QED BY <1>4, <1>7, <1>8, <1>9, <1>10, <1>11, <1>12, <1>13 DEF old

LEMMA UploadStands ==
  ASSUME CardInv, NEW u \in up, Deliver(u)
  PROVE  RestTyped' /\ w' \in Writes /\ GreetingsStand' /\ PatchedGreetingsSeen'
<1>1. /\ u.card \in Cards /\ u.reset \in BOOLEAN
      /\ field \in [Fields -> FieldRows] /\ seen \subseteq Cards
      /\ up \subseteq [card : Cards, reset : BOOLEAN]
  BY DEF CardInv, RestTyped
<1>2. PICK list \in Seq(Texts) : list = u.card.greet
  BY <1>1 DEF Cards
<1>3. \A f \in Fields : u.card.field[f] \in Texts
  BY <1>1 DEF Cards
<1>4. /\ read' = u.card /\ seen' = seen \cup {u.card} /\ up' = up \ {u}
      /\ UNCHANGED <<risu, saved, count>>
  BY DEF Deliver
<1>5. field' \in [Fields -> FieldRows]
  <2>1. CASE u.reset
    <3>1. field' = [f \in Fields |-> FieldRow(u.card.field[f], u.card.field[f])]
      BY <2>1 DEF Deliver, LoadedFields
    <3>2. \A f \in Fields : FieldRow(u.card.field[f], u.card.field[f]) \in FieldRows
      BY <1>3, FieldRowTyped
    <3> QED BY <3>1, <3>2
  <2>2. CASE ~u.reset
    <3>1. field' = [f \in Fields |-> MergedField(f, u.card.field[f])]
      BY <2>2 DEF Deliver
    <3>2. ASSUME NEW f \in Fields, NEW t \in Texts PROVE MergedField(f, t) \in FieldRows
      <4>1. field[f] \in FieldRows
        BY <1>1
      <4>2. CASE t \in {field[f].base, field[f].body}
        <5>1. MergedField(f, t) = [field[f] EXCEPT !.base = t]
          BY <4>2 DEF MergedField
        <5> QED BY <4>1, <5>1 DEF FieldRows
      <4>3. CASE t \notin {field[f].base, field[f].body} /\ field[f].body = field[f].base
        <5>1. MergedField(f, t) = FieldRow(t, t)
          BY <4>3 DEF MergedField
        <5> QED BY <5>1, FieldRowTyped
      <4>4. CASE t \notin {field[f].base, field[f].body} /\ field[f].body # field[f].base
        <5>1. PICK mark : mark = [kind |-> "both-moved", theirs |-> t]
          OBVIOUS
        <5>2. mark \in Marks
          BY <5>1 DEF Marks
        <5>3. MergedField(f, t) = [field[f] EXCEPT !.base = t, !.mark = mark]
          BY <4>4, <5>1 DEF MergedField
        <5> QED BY <4>1, <5>2, <5>3 DEF FieldRows
      <4> QED BY <4>2, <4>3, <4>4
    <3>3. \A f \in Fields : MergedField(f, u.card.field[f]) \in FieldRows
      BY <1>3, <3>2
    <3> QED BY <3>1, <3>3
  <2> QED BY <2>1, <2>2
<1>6. RestTyped'
  <2>1. up' \subseteq [card : Cards, reset : BOOLEAN] /\ seen' \subseteq Cards /\ read' \in Cards
    BY <1>1, <1>4
  <2> QED BY <1>4, <1>5, <2>1 DEF CardInv, RestTyped
<1>7. w' = Idle \/ (w # Idle /\ w' = [w EXCEPT !.calm = FALSE])
  BY DEF Deliver
<1>8. w' \in Writes /\ PatchedGreetingsSeen'
  <2>1. CASE w' = Idle
    BY <2>1 DEF Writes, PatchedGreetingsSeen
  <2>2. CASE w # Idle /\ w' = [w EXCEPT !.calm = FALSE]
    <3>1. w \in [pc : Steps \ {"idle"}, from : Cards, to : Cards, fields : SUBSET Fields,
                 list : BOOLEAN, fresh : Cards, calm : BOOLEAN]
      BY <2>2 DEF CardInv, Writes
    <3>2. w' \in [pc : Steps \ {"idle"}, from : Cards, to : Cards, fields : SUBSET Fields,
                  list : BOOLEAN, fresh : Cards, calm : BOOLEAN] /\ w'.from = w.from
      BY <2>2, <3>1
    <3>3. \E card \in seen' : Within(w.from.greet, card.greet)
      BY <1>4, <2>2 DEF CardInv, PatchedGreetingsSeen
    <3> QED BY <3>2, <3>3 DEF Writes, PatchedGreetingsSeen
  <2> QED BY <1>7, <2>1, <2>2
<1>9. Table(greet') /\ Placed(greet', list)
  <2>1. CASE u.reset
    <3>1. greet' = LoadedList(list)
      BY <1>2, <2>1 DEF Deliver
    <3> QED BY <3>1, LoadedPlaced
  <2>2. CASE ~u.reset
    <3>1. greet' = MergedList(list)
      BY <1>2, <2>2 DEF Deliver
    <3>2. PICK old \in Seq(Texts) : Table(greet) /\ Placed(greet, old)
      BY GreetingsStandTyped DEF CardInv, GreetingsStand
    <3>3. Table(MergedList(list)) /\ Placed(MergedList(list), list)
      BY <3>2, Reopened
    <3> QED BY <3>1, <3>3
  <2> QED BY <2>1, <2>2
<1>10. GreetingsStand'
  BY <1>2, <1>4, <1>9 DEF GreetingsStand
<1> QED BY <1>6, <1>8, <1>10

LEMMA PatchStands ==
  ASSUME CardInv, Patch
  PROVE  RestTyped' /\ w' \in Writes /\ GreetingsStand' /\ PatchedGreetingsSeen'
<1>1. w' = [pc |-> "patched", from |-> Baseline, to |-> Shipped, fields |-> FieldsChanged,
            list |-> ListChanged, fresh |-> Baseline, calm |-> TRUE]
  BY DEF Patch, Patched
<1>2. UNCHANGED <<risu, field, greet, saved, up, read, seen>>
  BY DEF Patch
<1>3. count' \in [Counters -> Nat]
  BY TickTyped DEF Patch, Counters, CardInv
<1>4. RestTyped'
  BY <1>2, <1>3 DEF CardInv, RestTyped
<1>5. w' \in Writes
  <2>1. Baseline \in Cards /\ Shipped \in Cards
    BY WorkingSaved
  <2>2. FieldsChanged \in SUBSET Fields /\ ListChanged \in BOOLEAN
    BY DEF FieldsChanged, ListChanged
  <2>3. "patched" \in Steps \ {"idle"}
    BY DEF Steps
  <2> QED BY <1>1, <2>1, <2>2, <2>3 DEF Writes
<1>6. GreetingsStand'
  <2>1. Table(greet) /\ Placed(greet, read.greet)
    BY DEF CardInv, GreetingsStand
  <2> QED BY <1>2, <2>1 DEF GreetingsStand
<1>7. PatchedGreetingsSeen'
  <2>1. Within(Bases(Based(greet)), read.greet)
    BY BasedWithin, GreetingsStandTyped DEF CardInv, GreetingsStand
  <2>2. w'.from.greet = Bases(Based(greet))
    BY <1>1 DEF Baseline
  <2>3. read \in seen /\ seen' = seen
    BY <1>2 DEF CardInv, WriteInv, BasesRead
  <2> QED BY <2>1, <2>2, <2>3 DEF PatchedGreetingsSeen
<1> QED BY <1>4, <1>5, <1>6, <1>7

LEMMA WriteStepStands ==
  ASSUME CardInv, WriteStep
  PROVE  RestTyped' /\ w' \in Writes /\ GreetingsStand' /\ PatchedGreetingsSeen'
<1>0. w # Idle /\ UNCHANGED <<field, greet, read, seen, count>>
  BY DEF WriteStep, Check, Set, Verify, Commit, Reread, Abort, Apart, Idle
<1>1. risu \in Cards /\ saved \subseteq Cards /\ up \subseteq [card : Cards, reset : BOOLEAN]
      /\ Baseline \in Cards
  BY WorkingSaved DEF CardInv, RestTyped
<1>2. w \in [pc : Steps \ {"idle"}, from : Cards, to : Cards, fields : SUBSET Fields,
             list : BOOLEAN, fresh : Cards, calm : BOOLEAN]
  BY <1>0 DEF CardInv, Writes
<1>3. Composed \in Cards
  <2> DEFINE fields == [f \in Fields |-> IF f \in w.fields THEN w.to.field[f] ELSE w.fresh.field[f]]
             list == IF w.list THEN w.to.greet ELSE w.fresh.greet
  <2>1. fields \in [Fields -> Texts] /\ list \in Seq(Texts)
    BY <1>2 DEF Cards
  <2>2. Composed = [field |-> fields, greet |-> list]
    BY DEF Composed
  <2> HIDE DEF fields, list
  <2> QED BY <2>1, <2>2 DEF Cards
<1>4. \/ w' = Idle
      \/ \E pc \in Steps \ {"idle"}, fresh \in Cards : w' = [w EXCEPT !.pc = pc, !.fresh = fresh]
  <2>1. \A pc : [w EXCEPT !.pc = pc] = [w EXCEPT !.pc = pc, !.fresh = w.fresh]
    BY <1>2
  <2>2. w.fresh \in Cards /\ {"checked", "set", "verified", "committed", "reread"} \subseteq Steps \ {"idle"}
    BY <1>2 DEF Steps
  <2>3. CASE Check
    BY <1>1, <2>2, <2>3 DEF Check
  <2>4. CASE (\E took \in BOOLEAN : Set(took)) \/ Verify \/ Commit \/ Reread \/ Abort
    <3>1. \/ w' = Idle
          \/ \E pc \in {"set", "verified", "committed", "reread"} : w' = [w EXCEPT !.pc = pc]
      BY <2>4 DEF Set, Verify, Commit, Reread, Abort
    <3> QED BY <2>1, <2>2, <3>1, ZenonT(40)
  <2> QED BY <2>3, <2>4 DEF WriteStep
<1>5. w' \in Writes /\ (w' = Idle \/ w'.from = w.from)
  <2>1. CASE w' = Idle
    BY <2>1 DEF Writes
  <2>2. ASSUME NEW pc \in Steps \ {"idle"}, NEW fresh \in Cards, w' = [w EXCEPT !.pc = pc, !.fresh = fresh]
        PROVE  w' \in [pc : Steps \ {"idle"}, from : Cards, to : Cards, fields : SUBSET Fields,
                       list : BOOLEAN, fresh : Cards, calm : BOOLEAN] /\ w'.from = w.from
    BY <1>2, <2>2
  <2> QED BY <1>4, <2>1, <2>2 DEF Writes
<1>6. RestTyped'
  <2>1. risu' \in Cards
    BY <1>1, <1>3 DEF WriteStep, Check, Set, Verify, Commit, Reread, Abort
  <2>2. saved' \subseteq Cards
    BY <1>1 DEF WriteStep, Check, Set, Verify, Commit, Reread, Abort
  <2>3. up' \subseteq [card : Cards, reset : BOOLEAN]
    <3>1. up' = up \/ up' = up \cup {[card |-> risu, reset |-> TRUE]}
      BY DEF WriteStep, Check, Set, Verify, Commit, Reread, Abort
    <3>2. [card |-> risu, reset |-> TRUE] \in [card : Cards, reset : BOOLEAN]
      BY <1>1
    <3> QED BY <1>1, <3>1, <3>2, Zenon
  <2> QED BY <1>0, <2>1, <2>2, <2>3 DEF CardInv, RestTyped
<1>7. GreetingsStand'
  <2>1. Table(greet) /\ Placed(greet, read.greet)
    BY DEF CardInv, GreetingsStand
  <2> QED BY <1>0, <2>1 DEF GreetingsStand
<1>8. PatchedGreetingsSeen'
  <2>1. \E card \in seen' : Within(w.from.greet, card.greet)
    BY <1>0 DEF CardInv, PatchedGreetingsSeen
  <2> QED BY <1>5, <2>1 DEF PatchedGreetingsSeen
<1> QED BY <1>5, <1>6, <1>7, <1>8

LEMMA CardInvStep == CardInv /\ [CardNext]_cardVars => CardInv'
<1> SUFFICES ASSUME CardInv, [CardNext]_cardVars PROVE CardInv'
  OBVIOUS
<1>1. WriteInv'
  BY WriteInvStep DEF CardInv
<1>2. ASSUME UNCHANGED <<field, greet, w, saved, read, seen>>,
             risu' \in Cards, up' \subseteq [card : Cards, reset : BOOLEAN], count' \in [Counters -> Nat]
      PROVE  RestTyped' /\ w' \in Writes /\ GreetingsStand' /\ PatchedGreetingsSeen'
  <2>1. RestTyped' /\ w' \in Writes
    BY <1>2 DEF CardInv, RestTyped
  <2>2. GreetingsStand'
    <3>1. Table(greet) /\ Placed(greet, read.greet)
      BY DEF CardInv, GreetingsStand
    <3> QED BY <1>2, <3>1 DEF GreetingsStand
  <2>3. PatchedGreetingsSeen'
    BY <1>2 DEF CardInv, PatchedGreetingsSeen
  <2> QED BY <2>1, <2>2, <2>3
<1>3. ASSUME \/ \E card \in RisuCards : RisuEdit(card)
             \/ \E force \in BOOLEAN : Open(force)
             \/ \E u \in up : Lose(u)
             \/ UNCHANGED cardVars
      PROVE  RestTyped' /\ w' \in Writes /\ GreetingsStand' /\ PatchedGreetingsSeen'
  <2>1. UNCHANGED <<field, greet, w, saved, read, seen>>
    BY <1>3 DEF RisuEdit, Open, Lose, cardVars
  <2>2. count' \in [Counters -> Nat]
    <3>1. RestTyped
      BY DEF CardInv
    <3>2. count' = count \/ \E c \in Counters : Tick(c)
      BY <1>3 DEF RisuEdit, Open, Lose, cardVars, Counters
    <3> QED BY <3>1, <3>2, TickTyped DEF RestTyped
  <2>3. risu' \in Cards
    <3>1. \A list \in Lists : list \in Seq(Texts)
      <4> TAKE list \in Lists
      <4>1. PICK m \in 0 .. MaxGreetings : list \in [1 .. m -> Texts]
        BY DEF Lists, BoundedSeq, SeqOf
      <4>2. m \in Nat
        BY <4>1, CardAssumption
      <4> QED BY <4>1, <4>2
    <3>2. \A card \in RisuCards : card \in Cards
      BY <3>1 DEF RisuCards, Cards
    <3> QED BY <1>3, <3>2 DEF CardInv, RestTyped, RisuEdit, Open, Lose, cardVars
  <2>4. up' \subseteq [card : Cards, reset : BOOLEAN]
    BY <1>3 DEF CardInv, RestTyped, RisuEdit, Open, Lose, cardVars
  <2> QED BY <1>2, <2>1, <2>2, <2>3, <2>4
<1>4. ASSUME \/ \E f \in Fields, t \in Texts : EditField(f, t)
             \/ \E r \in greet, t \in Texts : EditGreeting(r, t)
             \/ \E t \in Texts : AddGreeting(t)
             \/ \E r \in greet : DeleteGreeting(r)
             \/ \E mine \in BOOLEAN : \/ \E f \in Fields : ResolveField(f, mine)
                                      \/ \E r \in greet : ResolveGreeting(r, mine)
             \/ Reset \/ Save
             \/ \E c \in saved : Restore(c)
      PROVE  RestTyped' /\ w' \in Writes /\ GreetingsStand' /\ PatchedGreetingsSeen'
  <2>1. Panel /\ field' \in [Fields -> FieldRows] /\ saved' \subseteq Cards
    BY <1>4, PanelFields
  <2>2. Table(greet') /\ Placed(greet', read.greet)
    BY <1>4, PanelGreetings
  <2>3. RestTyped' /\ w' \in Writes /\ PatchedGreetingsSeen' /\ read' = read
    BY <2>1, PanelTyped
  <2> QED BY <2>2, <2>3 DEF GreetingsStand
<1>5. RestTyped' /\ w' \in Writes /\ GreetingsStand' /\ PatchedGreetingsSeen'
  BY <1>3, <1>4, UploadStands, PatchStands, WriteStepStands DEF CardNext
<1> QED BY <1>1, <1>5 DEF CardInv

\* Each greeting keeps a row of its own, and those RisuAI showed stand in
\* places of their own, through merges, decisions and restores in any order.
THEOREM CardStaysSound == CardSpec => []CardSound
<1>1. CardInit => CardInv
  BY CardInvInit
<1>2. CardInv /\ [CardNext]_cardVars => CardInv'
  BY CardInvStep
<1>3. CardInv => CardSound
  BY CardInvSound
<1> QED BY <1>1, <1>2, <1>3, PTL DEF CardSpec

\* The second half of NoUnseenRevert: nor does it replace greetings that no
\* upload had shown here in that order (checkList).
THEOREM NothingUnseenReverted == CardSpec => NoUnseenRevert
<1>1. CardInit => CardInv
  BY CardInvInit
<1>2. CardInv /\ [CardNext]_cardVars => CardInv'
  BY CardInvStep
<1>3. ASSUME CardInv, NEW took \in BOOLEAN, Set(took), Composed.greet # w.fresh.greet
      PROVE  \E card \in seen : Within(w.fresh.greet, card.greet)
  <2>1. w # Idle /\ w.pc = "checked"
    BY <1>3 DEF Set, Idle
  <2>2. w.list /\ w.to.greet # w.fresh.greet
    BY <1>3 DEF Composed
  <2>3. w.fresh.greet = w.from.greet
    BY <1>3, <2>1, <2>2 DEF CardInv, WriteInv, CheckedAgrees, Agrees
  <2> QED BY <1>3, <2>1, <2>3 DEF CardInv, PatchedGreetingsSeen
<1>4. CardInv => GreetingsSeen
  BY <1>3 DEF GreetingsSeen
<1>5. CardSpec => [][FieldsSeen]_cardVars
  BY FieldsNotReverted
<1> QED BY <1>1, <1>2, <1>4, <1>5, PTL DEF CardSpec, NoUnseenRevert

-----------------------------------------------------------------------------
(* A re-open that brings nothing.                                          *)

LEMMA ReopenedSame ==
  ASSUME Table(greet), NEW old \in Seq(Texts), Placed(greet, old),
         NEW t, t = Bases(Based(greet))
  PROVE  {Unplaced(r) : r \in MergedList(t)} = {Unplaced(r) : r \in greet}
<1> DEFINE based == Based(greet)
<1>1. t \in Seq(Texts) /\ DOMAIN t = DOMAIN based /\ \A k \in DOMAIN based : t[k] = based[k].base
  BY BasedWithin
<1>2. PICK M : M = MergedList(t)
  OBVIOUS
<1>3. PICK pairs, inserts, fresh, ids : Merging(M, t, pairs, inserts, fresh, ids)
  BY <1>1, <1>2, MergingExists
<1> DEFINE Stands(s, r) == StandsFor(s, r, t, based, pairs, inserts)
<1>4. /\ \A p \in pairs : p[1] \in DOMAIN t /\ p[2] = p[1]
      /\ \A k \in DOMAIN t : \E p \in pairs : p[1] = k /\ p[2] = k
  <2>1. pairs = {<<k, k>> : k \in DOMAIN t}
    <3>1. pairs = Match(t, t)
      BY <1>3 DEF Merging
    <3> QED BY <1>1, <3>1, MatchSame
  <2>2. ASSUME NEW p \in pairs PROVE p[1] \in DOMAIN t /\ p[2] = p[1]
    <3>1. PICK k \in DOMAIN t : p = <<k, k>>
      BY <2>1
    <3> QED BY <3>1
  <2>3. ASSUME NEW k \in DOMAIN t PROVE \E p \in pairs : p[1] = k /\ p[2] = k
    <3>1. <<k, k>> \in pairs /\ <<k, k>>[1] = k /\ <<k, k>>[2] = k
      BY <2>1
    <3> QED BY <3>1, Zenon
  <2> QED BY <2>2, <2>3
<1>5. LeftOf(Bases(based), pairs) = {} /\ inserts = {}
  BY <1>3, <1>4 DEF LeftOf, RightOf, Merging
<1>6. DOMAIN fresh = {}
  BY <1>3, <1>5 DEF Merging
<1>7. \A r : Fold(t, inserts, r) = {}
  BY <1>5 DEF Fold
<1> HIDE DEF based
<1>8. \A s, r : Stands(s, r) <=> \/ \E p \in pairs : based[p[1]] = r /\ s = Paired(r, t[p[2]], p[2])
                                 \/ r \in Added /\ s = r
  BY <1>5, <1>7, Zenon DEF StandsFor
<1> HIDE DEF Stands
<1>9. ASSUME NEW r \in greet
      PROVE  \E s \in M : Stands(s, r) /\ Unplaced(s) = Unplaced(r)
  <2>1. \A s : Stands(s, r) => s \in M
    BY <1>3, Zenon DEF Merging, Stands, based
  <2>2. CASE r \in Added
    BY <1>8, <2>1, <2>2
  <2>3. CASE r \notin Added
    <3>1. PICK k \in DOMAIN based : based[k] = r
      BY <1>1, <1>3, <2>3, MergingBased DEF based
    <3>2. k \in Nat /\ t[k] \in Texts /\ t[k] = r.base
      BY <1>1, <3>1
    <3>3. PICK x \in GreetRows : x = r
      BY DEF Table
    <3>4. PICK text \in Texts, n \in Nat : text = t[k] /\ n = k
      BY <3>2
    <3>5. text = x.base => Unplaced(Paired(x, text, n)) = Unplaced(x)
      BY DEF Paired, Unplaced, GreetRows
    <3>6. Stands(Paired(r, t[k], k), r)
      <4>1. \E p \in pairs : based[p[1]] = r /\ p[1] = k /\ p[2] = k
        BY <1>1, <1>4, <3>1
      <4> QED BY <1>8, <4>1
    <3> QED BY <2>1, <3>2, <3>3, <3>4, <3>5, <3>6
  <2> QED BY <2>2, <2>3
<1>10. ASSUME NEW s \in M
       PROVE  \E r \in greet : Unplaced(s) = Unplaced(r)
  <2>1. PICK r \in greet : Stands(s, r)
    BY <1>3, <1>6 DEF Merging, Stands, based
  <2>2. PICK z \in M : Stands(z, r) /\ Unplaced(z) = Unplaced(r)
    BY <1>9
  <2>3. z = s
    BY <1>1, <1>3, <2>1, <2>2, StandsOnce DEF Stands, based
  <2> QED BY <2>2, <2>3
<1> HIDE DEF Stands
<1> QED BY <1>2, <1>9, <1>10

\* A re-open keeps every edit and every greeting written here, and a deletion
\* until RisuAI has lost the greeting too; it changes nothing when RisuAI's
\* card did not (card._merge_card).
THEOREM ReopenKeepsAll == CardSpec => ReopenKeepsWork
<1>1. CardInit => CardInv
  BY CardInvInit
<1>2. CardInv /\ [CardNext]_cardVars => CardInv'
  BY CardInvStep
<1>3. ASSUME CardInv, NEW u \in up, Deliver(u), ~u.reset
      PROVE  /\ \A f \in Fields :
                  field'[f].body = IF field[f].body # field[f].base THEN field[f].body ELSE u.card.field[f]
             /\ \A r \in greet :
                  \/ \E s \in greet' : s.id = r.id /\ s.body = r.body /\ s.gone = r.gone
                  \/ r.gone /\ LostUpstream(r, u.card.greet)
             /\ Baseline' = u.card
             /\ u.card = Baseline =>
                  /\ field' = field
                  /\ {Unplaced(r) : r \in greet'} = {Unplaced(r) : r \in greet}
  <2>1. PICK t \in Seq(Texts), fields \in [Fields -> Texts] :
          t = u.card.greet /\ fields = u.card.field /\ u.card = [field |-> fields, greet |-> t]
    BY <1>3 DEF CardInv, RestTyped, Cards
  <2>2. /\ field' = [f \in Fields |-> MergedField(f, fields[f])]
        /\ greet' = MergedList(t)
    BY <1>3, <2>1 DEF Deliver
  <2>3. PICK old \in Seq(Texts) : Table(greet) /\ Placed(greet, old)
    BY <1>3, GreetingsStandTyped DEF CardInv, GreetingsStand
  <2>4. /\ Table(MergedList(t)) /\ Placed(MergedList(t), t) /\ Filled(MergedList(t), t)
        /\ \A r \in greet :
             \/ \E s \in MergedList(t) : s.id = r.id /\ s.body = r.body /\ s.gone = r.gone
             \/ r.gone /\ LostTo(MergedList(t), r, t)
    BY <2>3, Reopened
  <2>5. ASSUME NEW f \in Fields
        PROVE  /\ field'[f].body = IF field[f].body # field[f].base THEN field[f].body ELSE fields[f]
               /\ field'[f].base = fields[f]
               /\ fields[f] = field[f].base => field'[f] = field[f]
    <3>1. field'[f] = MergedField(f, fields[f])
      BY <2>2
    <3>2. field[f] = [body |-> field[f].body, base |-> field[f].base, mark |-> field[f].mark]
      BY <1>3 DEF CardInv, WriteInv, FieldsFormed
    <3>3. CASE fields[f] \in {field[f].base, field[f].body}
      <4>1. MergedField(f, fields[f]) = [field[f] EXCEPT !.base = fields[f]]
        BY <3>3 DEF MergedField
      <4>2. MergedField(f, fields[f]) = [body |-> field[f].body, base |-> fields[f], mark |-> field[f].mark]
        BY <3>2, <4>1
      <4> QED BY <3>1, <3>2, <3>3, <4>2
    <3>4. CASE fields[f] \notin {field[f].base, field[f].body} /\ field[f].body = field[f].base
      <4>1. MergedField(f, fields[f]) = [body |-> fields[f], base |-> fields[f], mark |-> NoMark]
        BY <3>4 DEF MergedField, FieldRow
      <4> QED BY <3>1, <3>4, <4>1
    <3>5. CASE fields[f] \notin {field[f].base, field[f].body} /\ field[f].body # field[f].base
      <4>1. MergedField(f, fields[f]) =
              [field[f] EXCEPT !.base = fields[f], !.mark = [kind |-> "both-moved", theirs |-> fields[f]]]
        BY <3>5 DEF MergedField
      <4>2. MergedField(f, fields[f]) = [body |-> field[f].body, base |-> fields[f],
                                         mark |-> [kind |-> "both-moved", theirs |-> fields[f]]]
        BY <3>2, <4>1
      <4> QED BY <3>1, <3>5, <4>2
    <3> QED BY <3>3, <3>4, <3>5
  <2>6. Baseline' = u.card
    <3>1. Bases(Based(greet')) = t
      BY <2>2, <2>4, BasedFilled
    <3>2. [f \in Fields |-> field'[f].base] = fields
      BY <2>5
    <3>3. Baseline' = [field |-> [f \in Fields |-> field'[f].base], greet |-> Bases(Based(greet'))]
      BY DEF Baseline, Based, Bases
    <3> QED BY <2>1, <3>1, <3>2, <3>3
  <2>7. ASSUME u.card = Baseline
        PROVE  field' = field /\ {Unplaced(r) : r \in greet'} = {Unplaced(r) : r \in greet}
    <3>1. t = Bases(Based(greet)) /\ \A f \in Fields : fields[f] = field[f].base
      BY <2>1, <2>7 DEF Baseline
    <3>2. field' = field
      <4>1. field = [f \in Fields |-> field[f]] /\ field' = [f \in Fields |-> field'[f]]
        BY <1>3, <2>2 DEF CardInv, RestTyped
      <4> QED BY <2>5, <3>1, <4>1
    <3>3. {Unplaced(r) : r \in MergedList(t)} = {Unplaced(r) : r \in greet}
      BY <2>3, <3>1, ReopenedSame
    <3> QED BY <2>2, <3>2, <3>3
  <2>8. ASSUME NEW r \in greet
        PROVE  \/ \E s \in greet' : s.id = r.id /\ s.body = r.body /\ s.gone = r.gone
               \/ r.gone /\ LostUpstream(r, u.card.greet)
    <3>1. LostTo(greet', r, t) => LostUpstream(r, t)
      BY DEF LostTo, LostUpstream
    <3> QED BY <2>1, <2>2, <2>4, <3>1
  <2> QED BY <2>1, <2>5, <2>6, <2>7, <2>8
<1>4. CardInv => WorkKept
  BY <1>3 DEF WorkKept
<1>5. CardInv /\ [CardNext]_cardVars => [WorkKept]_cardVars
  BY <1>4
<1> QED BY <1>1, <1>2, <1>5, PTL DEF CardSpec, ReopenKeepsWork

-----------------------------------------------------------------------------
(* What a restore lists.                                                   *)

\* Each place of the list is that of one row, the pair's or a new one.
LEMMA ListedPlaces ==
  ASSUME Table(greet), NEW old \in Seq(Texts), Placed(greet, old), NEW list \in Seq(Texts),
         NEW M, NEW pairs, NEW lost, NEW news, NEW ids,
         Listing(M, list, pairs, lost, news, ids)
  PROVE  /\ \A p \in pairs : \E s \in M :
              /\ ListedFor(s, Based(greet)[p[1]], list, Based(greet), pairs, lost)
              /\ ~s.gone /\ s.seq = p[2] - 1 /\ s.body = list[p[2]]
              /\ s.base = Based(greet)[p[1]].base
         /\ \A j \in DOMAIN list : \E s \in M : ~s.gone /\ s.seq = j - 1 /\ s.body = list[j]
         /\ \A s \in M : s.gone \/ \E j \in DOMAIN list : s.seq = j - 1 /\ s.body = list[j]
         /\ \A s, z \in M : ~s.gone /\ ~z.gone /\ s.seq = z.seq => s = z
<1> DEFINE based == Based(greet)
           left == LeftOf(Bases(based), pairs)
           For(s, r) == ListedFor(s, r, list, based, pairs, lost)
           New(n) == ListedNew(n, list, ids, news)
<1>1. /\ \A p \in pairs : /\ p[1] \in DOMAIN based /\ p[2] \in DOMAIN list
                          /\ p[2] \notin RightOf(list, pairs)
                          /\ based[p[1]] \in greet /\ based[p[1]] \notin Added
      /\ \A p, q \in pairs : p[1] = q[1] \/ p[2] = q[2] => p = q
      /\ \A i \in left : i \in DOMAIN based /\ \A p \in pairs : p[1] # i
      /\ \A i, k \in DOMAIN based : based[i] = based[k] => i = k
      /\ \A j \in DOMAIN list : j \in RightOf(list, pairs) \/ \E p \in pairs : p[2] = j
  <2>1. OneToOne(pairs, Bases(Based(greet)), list)
    BY DEF Listing
  <2> QED BY <2>1, PairsBased
<1>2. /\ \A n \in DOMAIN lost : lost[n] \in left
      /\ \A n, m \in DOMAIN news : news[n] = news[m] => n = m
      /\ \A j \in RightOf(list, pairs) : \E n \in DOMAIN news : news[n] = j
  BY DEF Listing, Enumerates
<1>3. ASSUME NEW r \in greet, NEW s, For(s, r)
      PROVE  /\ s.base = r.base
             /\ \/ \E p \in pairs : based[p[1]] = r /\ s.body = list[p[2]] /\ s.seq = p[2] - 1 /\ ~s.gone
                \/ \E n \in DOMAIN lost : based[lost[n]] = r /\ s.gone
  BY <1>3, ListedForm
<1>4. ASSUME NEW n \in DOMAIN news
      PROVE  /\ New(n) \in M /\ New(n).seq = news[n] - 1 /\ New(n).body = list[news[n]] /\ ~New(n).gone
             /\ news[n] \in RightOf(list, pairs) /\ news[n] \in DOMAIN list
  BY ListedNewForm
<1>5. \A s \in M : (\E r \in greet : For(s, r)) \/ (\E n \in DOMAIN news : s = New(n))
  BY DEF Listing
<1>6. \A r \in greet : r \notin Added => \E s \in M : For(s, r)
  BY ListedStays
<1>7. \A r \in greet : \A s, z : For(s, r) /\ For(z, r) => s = z
  BY ListedOnce
<1>8. \A j, k \in DOMAIN list : j - 1 = k - 1 => j = k
  OBVIOUS
<1> HIDE DEF based, left, For, New
<1>9. ASSUME NEW p \in pairs
      PROVE  \E s \in M : /\ For(s, based[p[1]]) /\ ~s.gone /\ s.seq = p[2] - 1 /\ s.body = list[p[2]]
                          /\ s.base = based[p[1]].base
  <2>1. PICK r \in greet : r = based[p[1]] /\ r \notin Added
    BY <1>1
  <2>2. PICK s \in M : For(s, r)
    BY <1>6, <2>1
  <2>3. \A n \in DOMAIN lost : based[lost[n]] # r
    BY <1>1, <1>2, <2>1
  <2>4. PICK q \in pairs : based[q[1]] = r /\ s.body = list[q[2]] /\ s.seq = q[2] - 1 /\ ~s.gone
    BY <1>3, <2>2, <2>3
  <2>5. q = p
    BY <1>1, <2>1, <2>4
  <2> QED BY <1>3, <2>1, <2>2, <2>4, <2>5
<1>10. ASSUME NEW j \in DOMAIN list
       PROVE  \E s \in M : ~s.gone /\ s.seq = j - 1 /\ s.body = list[j]
  <2>1. CASE \E p \in pairs : p[2] = j
    BY <1>9, <2>1
  <2>2. CASE j \in RightOf(list, pairs)
    BY <1>2, <1>4, <2>2
  <2> QED BY <1>1, <2>1, <2>2
<1>11. ASSUME NEW s \in M, ~s.gone
       PROVE  \/ \E p \in pairs : \E r \in greet : /\ based[p[1]] = r /\ For(s, r)
                                                   /\ s.body = list[p[2]] /\ s.seq = p[2] - 1
              \/ \E n \in DOMAIN news : s = New(n)
  BY <1>3, <1>5, <1>11
<1>12. ASSUME NEW s \in M, ~s.gone
       PROVE  \E j \in DOMAIN list : s.seq = j - 1 /\ s.body = list[j]
  BY <1>1, <1>4, <1>11, <1>12
<1>13. ASSUME NEW s \in M, NEW z \in M, ~s.gone, ~z.gone, s.seq = z.seq
       PROVE  s = z
  <2>1. ASSUME NEW p \in pairs, s.seq = p[2] - 1, NEW n \in DOMAIN news, z = New(n) PROVE FALSE
    <3>1. PICK j \in DOMAIN list : j = p[2] /\ j \notin RightOf(list, pairs) /\ s.seq = j - 1
      BY <1>1, <2>1
    <3>2. PICK k \in DOMAIN list : k = news[n] /\ k \in RightOf(list, pairs) /\ z.seq = k - 1
      BY <1>4, <2>1
    <3> QED BY <1>8, <1>13, <3>1, <3>2
  <2>2. ASSUME NEW p \in pairs, z.seq = p[2] - 1, NEW n \in DOMAIN news, s = New(n) PROVE FALSE
    <3>1. PICK j \in DOMAIN list : j = p[2] /\ j \notin RightOf(list, pairs) /\ z.seq = j - 1
      BY <1>1, <2>2
    <3>2. PICK k \in DOMAIN list : k = news[n] /\ k \in RightOf(list, pairs) /\ s.seq = k - 1
      BY <1>4, <2>2
    <3> QED BY <1>8, <1>13, <3>1, <3>2
  <2>3. CASE \E n \in DOMAIN news : s = New(n)
    <3>1. PICK n \in DOMAIN news : s = New(n)
      BY <2>3
    <3>2. PICK m \in DOMAIN news : z = New(m)
      BY <1>11, <1>13, <2>2, <3>1
    <3>3. news[n] = news[m]
      BY <1>4, <1>8, <1>13, <3>1, <3>2
    <3> QED BY <1>2, <3>1, <3>2, <3>3
  <2>4. CASE \E p \in pairs : \E r \in greet : based[p[1]] = r /\ For(s, r) /\ s.seq = p[2] - 1
    <3>1. PICK p \in pairs, r \in greet : based[p[1]] = r /\ For(s, r) /\ s.seq = p[2] - 1
      BY <2>4
    <3>2. PICK q \in pairs, o \in greet : based[q[1]] = o /\ For(z, o) /\ z.seq = q[2] - 1
      BY <1>11, <1>13, <2>1, <3>1
    <3>3. p[2] = q[2]
      <4>1. PICK j \in DOMAIN list : j = p[2] /\ s.seq = j - 1
        BY <1>1, <3>1
      <4>2. PICK k \in DOMAIN list : k = q[2] /\ z.seq = k - 1
        BY <1>1, <3>2
      <4> QED BY <1>8, <1>13, <4>1, <4>2
    <3>4. r = o
      BY <1>1, <3>1, <3>2, <3>3
    <3> QED BY <1>7, <3>1, <3>2, <3>4
  <2> QED BY <1>11, <1>13, <2>3, <2>4
<1>14. \A p \in pairs : \E s \in M :
         /\ ListedFor(s, Based(greet)[p[1]], list, Based(greet), pairs, lost)
         /\ ~s.gone /\ s.seq = p[2] - 1 /\ s.body = list[p[2]]
         /\ s.base = Based(greet)[p[1]].base
  BY <1>9 DEF For, based
<1> QED BY <1>10, <1>12, <1>13, <1>14

\* In the order of their places, with or without a look at the texts, the
\* rows that are not deleted read as the list.
LEMMA ListedReads ==
  ASSUME NEW M, Table(M), NEW list \in Seq(Texts),
         \A j \in DOMAIN list : \E s \in M : ~s.gone /\ s.seq = j - 1 /\ s.body = list[j],
         \A s \in M : s.gone \/ \E j \in DOMAIN list : s.seq = j - 1 /\ s.body = list[j],
         \A s, z \in M : ~s.gone /\ ~z.gone /\ s.seq = z.seq => s = z
  PROVE  Bodies(InOrder(Live(M))) = list /\ Bodies(Sorted(Live(M), ByText(M))) = list
<1> DEFINE n == Len(list)
           L == Live(M)
           f == [j \in 1 .. n |-> CHOOSE s \in L : s.seq = j - 1]
<1>1. n \in Nat /\ DOMAIN list = 1 .. n
  OBVIOUS
<1>2. \A s \in L : s \in M /\ ~s.gone /\ s.id \in Nat
  BY RowNumbers DEF Live, Table
<1>3. \A s \in M : ~s.gone => s \in L
  BY DEF Live
<1>4. \A s \in L : \E j \in 1 .. n : s.seq = j - 1 /\ s.body = list[j]
  BY <1>1, <1>2
<1>5. \A s, z \in L : s.seq = z.seq => s = z
  BY <1>2
<1> HIDE DEF L
<1>6. \A j \in 1 .. n : f[j] \in L /\ f[j].seq = j - 1 /\ f[j].body = list[j]
  <2> TAKE j \in 1 .. n
  <2>1. PICK s \in L : s.seq = j - 1 /\ s.body = list[j]
    BY <1>1, <1>3
  <2>2. f[j] = CHOOSE z \in L : z.seq = j - 1
    OBVIOUS
  <2> HIDE DEF f
  <2>3. f[j] \in L /\ f[j].seq = j - 1
    BY <2>1, <2>2
  <2>4. f[j] = s
    BY <1>5, <2>1, <2>3
  <2> QED BY <2>1, <2>4
<1>7. f \in [1 .. n -> L]
  <2>1. f = [j \in 1 .. n |-> f[j]]
    OBVIOUS
  <2> HIDE DEF f
  <2> QED BY <1>6, <2>1
<1> HIDE DEF f, n
<1>8. \A s \in L : \E j \in 1 .. n : f[j] = s
  <2> TAKE s \in L
  <2>1. PICK j \in 1 .. n : s.seq = j - 1
    BY <1>4
  <2> QED BY <1>5, <1>6, <2>1
<1>9. ASSUME NEW before, Sorted(L, before) = f PROVE Bodies(Sorted(L, before)) = list
  <2>1. DOMAIN f = 1 .. n
    BY <1>7
  <2>2. Bodies(f) = [j \in 1 .. n |-> list[j]]
    BY <1>6, <2>1 DEF Bodies
  <2> QED BY <1>1, <1>9, <2>2
<1>10. \A k, q \in 1 .. n : <<f[k], f[q]>> \in BySeq(L) <=> k < q
  <2> TAKE k, q \in 1 .. n
  <2>1. f[k] \in L /\ f[q] \in L /\ f[k].seq = k - 1 /\ f[q].seq = q - 1 /\ f[k].id \in Nat
    BY <1>2, <1>6
  <2>2. <<f[k], f[q]>> \in BySeq(L) <=> k - 1 < q - 1 \/ (k - 1 = q - 1 /\ f[k].id < f[q].id)
    BY <2>1 DEF BySeq
  <2>3. k = q => ~ (f[k].id < f[q].id)
    BY <2>1
  <2> QED BY <2>2, <2>3
<1>11. \A k, q \in 1 .. n : <<f[k], f[q]>> \in ByText(M) <=> k < q
  <2> TAKE k, q \in 1 .. n
  <2>1. f[k] \in M /\ f[q] \in M /\ f[k].seq = k - 1 /\ f[q].seq = q - 1
        /\ f[k].id \in Nat /\ f[k].body \in Nat
    <3>1. f[k] \in GreetRows /\ f[k] \in M /\ f[q] \in M /\ f[k].seq = k - 1 /\ f[q].seq = q - 1
      BY <1>2, <1>6 DEF Table
    <3>2. \A x \in Texts : x \in Nat
      BY CardAssumption, Zenon
    <3> QED BY <3>1, <3>2, RowNumbers
  <2>2. <<f[k], f[q]>> \in ByText(M) <=>
          \/ k - 1 < q - 1
          \/ k - 1 = q - 1 /\ f[k].body < f[q].body
          \/ k - 1 = q - 1 /\ f[k].body = f[q].body /\ f[k].id < f[q].id
    BY <2>1 DEF ByText
  <2>3. k = q => ~ (f[k].id < f[q].id) /\ ~ (f[k].body < f[q].body)
    BY <2>1
  <2> QED BY <2>2, <2>3
<1>12. Sorted(L, BySeq(L)) = f
  BY ONLY <1>1, <1>7, <1>8, <1>10, SortedIs
<1>13. Sorted(L, ByText(M)) = f
  BY ONLY <1>1, <1>7, <1>8, <1>11, SortedIs
<1>14. InOrder(L) = Sorted(L, BySeq(L))
  BY DEF InOrder, BySeq
<1> QED BY <1>9, <1>12, <1>13, <1>14 DEF L

\* A restore leaves alone what RisuAI is known to hold.
LEMMA ListedBases ==
  ASSUME Table(greet), NEW old \in Seq(Texts), Placed(greet, old), NEW list \in Seq(Texts),
         NEW M, NEW pairs, NEW lost, NEW news, NEW ids,
         Listing(M, list, pairs, lost, news, ids)
  PROVE  Bases(Based(M)) = Bases(Based(greet))
<1> DEFINE S == WithBase(greet)
           B == WithBase(M)
           For(s, r) == ListedFor(s, r, list, Based(greet), pairs, lost)
           g == [r \in S |-> CHOOSE s \in M : For(s, r)]
           based == Based(greet)
           n == Cardinality(S)
<1>1. Table(S) /\ \A r \in S : r \in greet /\ r.base # NoText /\ r \notin Added /\ r.bseq # NoPlace
  <2>1. S \in SUBSET greet
    BY DEF WithBase
  <2>2. \A r \in S : r \in greet /\ r.base # NoText
    BY DEF WithBase
  <2> HIDE DEF S
  <2> QED BY <2>1, <2>2, PartOfTable DEF Added, Placed
<1>2. Lines(based, S, ByBase(S)) /\ Orders(ByBase(S), S)
  BY <1>1, BasedWithin, ByBaseOrders
<1>3. \A r \in greet : \A s : For(s, r) => s.id = r.id /\ s.base = r.base /\ s.bseq = r.bseq
  BY ListedForm
<1>4. \A s \in M : s.base # NoText => \E r \in greet : For(s, r)
  <2>1. \A m \in DOMAIN news : ListedNew(m, list, ids, news).base = NoText
    <3> TAKE m \in DOMAIN news
    <3> QED BY ListedNewForm
  <2> QED BY <2>1 DEF Listing
<1>5. \A r \in greet : r \notin Added => \E s \in M : For(s, r)
  BY ListedStays
<1>6. \A r \in greet : \A s, z : For(s, r) /\ For(z, r) => s = z
  BY ListedOnce
<1>7. \A s : s \in B <=> s \in M /\ s.base # NoText
  BY DEF WithBase
<1> HIDE DEF For, S, B, n, based
<1>8. ASSUME NEW r \in S PROVE g[r] \in M /\ For(g[r], r)
  <2>1. g[r] = CHOOSE s \in M : For(s, r)
    OBVIOUS
  <2>2. \E s \in M : For(s, r)
    BY <1>1, <1>5
  <2> HIDE DEF g
  <2> QED BY <2>1, <2>2
<1> HIDE DEF g
<1>9. \A r \in S : /\ g[r] \in B /\ g[r].id = r.id /\ g[r].base = r.base
                   /\ BasePlace(g[r]) = BasePlace(r)
  <2> TAKE r \in S
  <2>1. g[r].id = r.id /\ g[r].base = r.base /\ g[r].bseq = r.bseq /\ g[r] \in M
    BY <1>1, <1>3, <1>8
  <2> QED BY <1>1, <1>7, <2>1 DEF BasePlace
<1>10. \A s \in B : \E r \in S : g[r] = s
  <2> TAKE s \in B
  <2>1. PICK r \in greet : For(s, r)
    BY <1>4, <1>7
  <2>2. r \in S
    BY <1>3, <1>7, <2>1 DEF S, WithBase
  <2> QED BY <1>6, <1>8, <2>1, <2>2
<1>11. \A r, q \in S : <<g[r], g[q]>> \in ByBase(B) <=> <<r, q>> \in ByBase(S)
  BY <1>9 DEF ByBase
<1>12. Sorted(B, ByBase(B)) = [k \in 1 .. Cardinality(S) |-> g[based[k]]]
  BY <1>2, <1>9, <1>10, <1>11, SortedImage
<1>13. Based(M) = [k \in 1 .. n |-> g[based[k]]]
  BY <1>12 DEF Based, InBaseOrder, ByBase, B, WithBase, n
<1>14. DOMAIN based = 1 .. n /\ \A k \in 1 .. n : g[based[k]].base = based[k].base
  BY <1>2, <1>9 DEF Lines, n
<1>15. Bases(Based(M)) = [k \in 1 .. n |-> based[k].base]
  BY <1>13, <1>14 DEF Bases
<1>16. Bases(based) = [k \in 1 .. n |-> based[k].base]
  BY <1>14 DEF Bases
<1> QED BY <1>15, <1>16 DEF based

\* Rows without a change hold the texts RisuAI is known to hold.
LEMMA ListedSameTexts ==
  ASSUME Table(greet), NEW old \in Seq(Texts), Placed(greet, old), NEW list \in Seq(Texts),
         NEW M, NEW pairs, NEW lost, NEW news, NEW ids,
         Listing(M, list, pairs, lost, news, ids),
         \A s \in M : ~s.gone /\ s.body = s.base
  PROVE  SameTexts(list, Bases(Based(greet)))
<1> DEFINE based == Based(greet)
           b == Bases(based)
           at == [j \in DOMAIN list |-> CHOOSE k \in DOMAIN b : \E p \in pairs : p[1] = k /\ p[2] = j]
<1>1. /\ \A p \in pairs : p[1] \in DOMAIN based /\ p[2] \in DOMAIN list
      /\ \A p, q \in pairs : p[1] = q[1] \/ p[2] = q[2] => p = q
      /\ \A i \in LeftOf(b, pairs) : /\ i \in DOMAIN based /\ based[i] \in greet /\ based[i] \notin Added
                                     /\ \A p \in pairs : p[1] # i
      /\ \A i, k \in DOMAIN based : based[i] = based[k] => i = k
      /\ \A j \in DOMAIN list : j \in RightOf(list, pairs) \/ \E p \in pairs : p[2] = j
  <2>1. OneToOne(pairs, Bases(Based(greet)), list)
    BY DEF Listing
  <2> QED BY <2>1, PairsBased
<1>2. DOMAIN b = DOMAIN based /\ \A k \in DOMAIN based : b[k] = based[k].base
  BY BasedWithin
<1>3. \A p \in pairs : \E s \in M : s.body = list[p[2]] /\ s.base = based[p[1]].base
  BY ListedPlaces
<1>4. \A p \in pairs : list[p[2]] = b[p[1]]
  <2> TAKE p \in pairs
  <2>1. PICK s \in M : s.body = list[p[2]] /\ s.base = based[p[1]].base
    BY <1>3
  <2>2. s.body = s.base
    OBVIOUS
  <2>3. b[p[1]] = based[p[1]].base
    BY <1>1, <1>2
  <2> QED BY <2>1, <2>2, <2>3
<1> HIDE DEF b, based
<1>5. LeftOf(b, pairs) = {}
  <2> SUFFICES ASSUME NEW i \in LeftOf(b, pairs) PROVE FALSE
    OBVIOUS
  <2>1. PICK r \in greet : r = based[i] /\ r \notin Added
    BY <1>1
  <2>2. PICK s \in M : ListedFor(s, r, list, Based(greet), pairs, lost)
    BY <2>1, ListedStays
  <2>3. \/ \E p \in pairs : Based(greet)[p[1]] = r
        \/ s.gone
    BY <2>2, ListedForm
  <2>4. ~s.gone
    OBVIOUS
  <2>5. PICK p \in pairs : based[p[1]] = r
    BY <2>3, <2>4 DEF based
  <2> QED BY <1>1, <2>1, <2>5
<1>6. RightOf(list, pairs) = {}
  <2> SUFFICES ASSUME NEW j \in RightOf(list, pairs) PROVE FALSE
    OBVIOUS
  <2>1. PICK n \in DOMAIN news : news[n] = j
    BY DEF Listing, Enumerates
  <2>2. /\ ListedNew(n, list, ids, news) \in M /\ ListedNew(n, list, ids, news) \in GreetRows
        /\ ListedNew(n, list, ids, news).base = NoText
    BY ListedNewForm
  <2>3. ListedNew(n, list, ids, news).body \in Texts
    BY <2>2, RowNumbers
  <2>4. ListedNew(n, list, ids, news).body = ListedNew(n, list, ids, news).base
    BY <2>2
  <2>5. NoText \notin Texts
    BY CardAssumption, Zenon
  <2> QED BY <2>2, <2>3, <2>4, <2>5
<1>7. ASSUME NEW k \in DOMAIN b PROVE \E p \in pairs : p[1] = k
  BY <1>5 DEF LeftOf
<1>8. ASSUME NEW j \in DOMAIN list
      PROVE  at[j] \in DOMAIN b /\ \E p \in pairs : p[1] = at[j] /\ p[2] = j
  <2>1. PICK p \in pairs : p[2] = j
    BY <1>1, <1>6
  <2>2. \E k \in DOMAIN b : \E q \in pairs : q[1] = k /\ q[2] = j
    BY <1>1, <1>2, <2>1
  <2>3. at[j] = CHOOSE k \in DOMAIN b : \E q \in pairs : q[1] = k /\ q[2] = j
    OBVIOUS
  <2> HIDE DEF at
  <2> QED BY <2>2, <2>3, Zenon
<1>9. at \in [DOMAIN list -> DOMAIN b]
  <2>1. at = [j \in DOMAIN list |-> at[j]]
    OBVIOUS
  <2> HIDE DEF at
  <2> QED BY <1>8, <2>1
<1> HIDE DEF at
<1>10. at \in Injection(DOMAIN list, DOMAIN b)
  <2>1. ASSUME NEW i \in DOMAIN list, NEW j \in DOMAIN list, at[i] = at[j] PROVE i = j
    <3>1. PICK p \in pairs : p[1] = at[i] /\ p[2] = i
      BY <1>8
    <3>2. PICK q \in pairs : q[1] = at[j] /\ q[2] = j
      BY <1>8
    <3> QED BY <1>1, <2>1, <3>1, <3>2
  <2>2. DOMAIN at = DOMAIN list
    BY <1>9
  <2> QED BY <1>9, <2>1, <2>2 DEF Injection, IsInjective
<1>11. at \in Surjection(DOMAIN list, DOMAIN b)
  <2>1. ASSUME NEW k \in DOMAIN b PROVE \E j \in DOMAIN list : at[j] = k
    <3>1. PICK p \in pairs : p[1] = k
      BY <1>7
    <3>2. PICK j \in DOMAIN list : j = p[2]
      BY <1>1
    <3>3. PICK q \in pairs : q[1] = at[j] /\ q[2] = j
      BY <1>8
    <3>4. q = p
      BY <1>1, <3>2, <3>3
    <3> QED BY <3>1, <3>3, <3>4
  <2> QED BY <1>9, <2>1 DEF Surjection
<1>12. \A j \in DOMAIN list : list[j] = b[at[j]]
  BY <1>4, <1>8
<1>13. at \in Bijection(DOMAIN list, DOMAIN b)
  BY <1>10, <1>11 DEF Bijection
<1>14. SameTexts(list, b)
  BY <1>12, <1>13 DEF SameTexts
<1> QED BY <1>14 DEF b, based

\* A write-back can be undone, and a restore makes the working copy what the
\* checkpoint holds over the baseline of today (card.restore_content).
THEOREM BackupsUndo == CardSpec => BackupUndoes
<1>1. CardInit => CardInv
  BY CardInvInit
<1>2. CardInv /\ [CardNext]_cardVars => CardInv'
  BY CardInvStep
<1>3. ASSUME CardInv, NEW c \in saved, Restore(c)
      PROVE  /\ Working' = c /\ Shipped' = c /\ Baseline' = Baseline
             /\ Working \in saved'
             /\ FieldsChanged' = {f \in Fields : c.field[f] # read.field[f]}
             /\ ListChanged' \/ SameTexts(c.greet, Baseline.greet)
  <2>1. PICK list \in Seq(Texts), fields \in [Fields -> Texts] :
          list = c.greet /\ fields = c.field /\ c = [field |-> fields, greet |-> list]
    BY <1>3 DEF CardInv, RestTyped, Cards
  <2>2. /\ field' = [f \in Fields |-> FieldRow(fields[f], field[f].base)]
        /\ greet' = ListOver(list) /\ saved' = saved \cup {Working}
    BY <1>3, <2>1 DEF Restore
  <2>3. PICK old \in Seq(Texts) : Table(greet) /\ Placed(greet, old)
    BY <1>3, GreetingsStandTyped DEF CardInv, GreetingsStand
  <2>4. PICK M : M = ListOver(list)
    OBVIOUS
  <2>5. PICK pairs, lost, news, ids : Listing(M, list, pairs, lost, news, ids)
    BY <2>3, <2>4, ListingExists
  <2>6. Table(M)
    BY <2>3, <2>5, ListedTable
  <2>7. /\ \A j \in DOMAIN list : \E s \in M : ~s.gone /\ s.seq = j - 1 /\ s.body = list[j]
        /\ \A s \in M : s.gone \/ \E j \in DOMAIN list : s.seq = j - 1 /\ s.body = list[j]
        /\ \A s, z \in M : ~s.gone /\ ~z.gone /\ s.seq = z.seq => s = z
    BY <2>3, <2>5, ListedPlaces
  <2>8. Bodies(InOrder(Live(M))) = list /\ Bodies(Sorted(Live(M), ByText(M))) = list
    BY <2>6, <2>7, ListedReads
  <2>9. Bases(Based(M)) = Bases(Based(greet))
    BY <2>3, <2>5, ListedBases
  <2>10. greet' = M
    BY <2>2, <2>4
  <2>11. \A f \in Fields : field'[f].body = fields[f] /\ field'[f].base = field[f].base
    BY <2>2 DEF FieldRow
  <2>12. [f \in Fields |-> field'[f].body] = fields
    BY <2>11
  <2>13. Working' = c
    <3>1. Working' = [field |-> [f \in Fields |-> field'[f].body], greet |-> Bodies(InOrder(Live(greet')))]
      BY DEF Working, Bodies, InOrder, Live
    <3> QED BY <2>1, <2>8, <2>10, <2>12, <3>1
  <2>14. Shipped' = c
    <3>1. Shipped' = [Working' EXCEPT !.greet = Bodies(Sorted(Live(greet'), ByText(greet')))]
      BY DEF Shipped, ByText, Live, Bodies
    <3> QED BY <2>1, <2>8, <2>10, <2>13, <3>1
  <2>15. Baseline' = Baseline
    <3>1. Baseline' = [field |-> [f \in Fields |-> field'[f].base], greet |-> Bases(Based(greet'))]
      BY DEF Baseline, Based, Bases
    <3> QED BY <2>9, <2>10, <2>11, <3>1 DEF Baseline
  <2>16. FieldsChanged' = {f \in Fields : c.field[f] # read.field[f]}
    <3>1. FieldsChanged' = {f \in Fields : field'[f].body # field'[f].base}
      BY DEF FieldsChanged
    <3>2. \A f \in Fields : field[f].base = read.field[f]
      BY <1>3 DEF CardInv, WriteInv, BasesRead
    <3> QED BY <2>1, <2>11, <3>1, <3>2
  <2>17. ASSUME ~ ListChanged' PROVE SameTexts(c.greet, Baseline.greet)
    <3>1. \A s \in M : ~s.gone /\ s.body = s.base
      BY <2>10, <2>17 DEF ListChanged
    <3>2. SameTexts(list, Bases(Based(greet)))
      BY <2>3, <2>5, <3>1, ListedSameTexts
    <3> QED BY <2>1, <3>2 DEF Baseline
  <2> QED BY <2>2, <2>13, <2>14, <2>15, <2>16, <2>17
<1>4. CardInv => RestoreGivesBack
  BY <1>3 DEF RestoreGivesBack
<1>5. CardInv /\ [CardNext]_cardVars => [RestoreGivesBack]_cardVars
  BY <1>4
<1>6. CardSpec => [][CommitKeepsReplaced]_cardVars
  BY CommitKeepsTheOld
<1> QED BY <1>1, <1>2, <1>5, <1>6, PTL DEF CardSpec, BackupUndoes

=============================================================================
