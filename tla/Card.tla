-------------------------------- MODULE Card --------------------------------
(***************************************************************************)
(* A bot's card kept in RisuAI and as rows here: prose fields, addressed   *)
(* by name, and the alternate greetings, a list without any ids            *)
(* (pyserver/app/card.py, snapshots.py).  The panel uploads the card it    *)
(* reads, and writes the working copy back (state.performCardWriteBack,    *)
(* host.writeCharacter, POST /card/commit).  A module of RisuAI's is       *)
(* edited through the same rows.                                           *)
(*                                                                         *)
(* As in TurnSync an upload may be handled late, after newer ones, or      *)
(* never, and RisuAI's user goes on editing.  The scripts and the          *)
(* lorebook of a card are Lore's subject; assets, and the conflict gate of *)
(* the bot bar, which an approved write does not pass, are left out.       *)
(***************************************************************************)
EXTENDS Integers, FiniteSets, Sequences, SequencesExt, FiniteSetsExt, Lists

CONSTANTS
  Fields,        \* the scalar fields of a card
  Texts,         \* what a field or a greeting may hold
  FirstCards,    \* the cards RisuAI may hold at first
  Mates,         \* what checkpoints of bots in the same folder hold
  MaxGreetings,  \* bound: greetings RisuAI's user makes
  MaxRisuEdits,  \* bound: edits made in RisuAI
  MaxEdits,      \* bound: edits, decisions, resets and restores in the panel
  MaxOpens,      \* bound: uploads sent on opening the panel
  MaxWrites,     \* bound: write-backs started
  MaxSteps       \* bound: all of these

NoText == 0      \* null: no original, no theirs

ASSUME CardAssumption ==
  /\ Texts \subseteq Nat \ {NoText}
  /\ {MaxGreetings, MaxRisuEdits, MaxEdits, MaxOpens, MaxWrites, MaxSteps} \subseteq Nat
  /\ FirstCards \cup Mates \subseteq [field : [Fields -> Texts], greet : Seq(Texts)]

VARIABLES
  risu,   \* the card as RisuAI holds it
  field,  \* card_fields of the scalars
  greet,  \* card_fields of the greetings
  saved,  \* card_checkpoints: what each of them holds
  up,     \* uploads sent and not handled yet
  w,      \* the write-back in progress
  read,   \* history: the card of the last upload handled
  seen,   \* history: the cards of all of them
  count   \* what the bounds count

cardVars == <<risu, field, greet, saved, up, w, read, seen, count>>

Cards == [field : [Fields -> Texts], greet : Seq(Texts)]
Lists == BoundedSeq(Texts, MaxGreetings)

NoPlace == -1    \* null: no base_seq
NoMark == [kind |-> "none", theirs |-> NoText]
Marks == {NoMark} \cup [kind : {"both-moved", "weak-match", "deleted-upstream"},
                        theirs : Texts \cup {NoText}]
FieldRows == [body : Texts, base : Texts, mark : Marks]
GreetRows == [id : Nat, seq : Nat, body : Texts, base : Texts \cup {NoText},
              bseq : Nat \cup {NoPlace}, gone : BOOLEAN, mark : Marks]
FieldRow(body, base) == [body |-> body, base |-> base, mark |-> NoMark]
GreetRow(id, seq, body, base, bseq) ==
  [id |-> id, seq |-> seq, body |-> body, base |-> base, bseq |-> bseq,
   gone |-> FALSE, mark |-> NoMark]

(***************************************************************************)
(* A write-back between two awaits: what GET /card/patch answered - the    *)
(* baseline, the working copy and which parts differ - and the host's      *)
(* re-read; `calm` says no upload was handled since.                       *)
(***************************************************************************)
Steps == {"idle", "patched", "checked", "set", "verified", "committed", "reread"}
Idle == [pc |-> "idle"]
Patched(from, to, fields, list) ==
  [pc |-> "patched", from |-> from, to |-> to, fields |-> fields, list |-> list,
   fresh |-> from, calm |-> TRUE]
Writes == {Idle} \cup [pc : Steps \ {"idle"}, from : Cards, to : Cards, fields : SUBSET Fields,
                       list : BOOLEAN, fresh : Cards, calm : BOOLEAN]

Counters == {"risu", "edit", "open", "write"}
Limit == [c \in Counters |-> CASE c = "risu" -> MaxRisuEdits
                               [] c = "edit" -> MaxEdits
                               [] c = "open" -> MaxOpens
                               [] c = "write" -> MaxWrites]
Tick(c) ==
  /\ count[c] < Limit[c]
  /\ count["risu"] + count["edit"] + count["open"] + count["write"] < MaxSteps
  /\ count' = [count EXCEPT ![c] = @ + 1]

\* Rows in their order here, and in RisuAI's; the older one first where two tie.
InOrder(S) ==
  Sorted(S, {p \in S \X S : p[1].seq < p[2].seq \/ (p[1].seq = p[2].seq /\ p[1].id < p[2].id)})
BasePlace(r) == IF r.bseq # NoPlace THEN r.bseq ELSE r.seq
InBaseOrder(S) ==
  Sorted(S, {p \in S \X S :
               \/ BasePlace(p[1]) < BasePlace(p[2])
               \/ BasePlace(p[1]) = BasePlace(p[2]) /\ p[1].id < p[2].id})
MaxSeq(S) == Max({r.seq : r \in S} \cup {-1})
NewIds(S, n) ==
  Ascending((1 .. (Cardinality(S) + n)) \ {r.id : r \in S})

Bodies(rows) == [i \in DOMAIN rows |-> rows[i].body]
Bases(rows) == [i \in DOMAIN rows |-> rows[i].base]
Live(S) == {r \in S : ~r.gone}
Based(S) == InBaseOrder({r \in S : r.base # NoText})

\* What the panel lists and a checkpoint keeps, and what RisuAI last showed.
Working == [field |-> [f \in Fields |-> field[f].body], greet |-> Bodies(InOrder(Live(greet)))]
Baseline == [field |-> [f \in Fields |-> field[f].base], greet |-> Bases(Based(greet))]

\* What card.patch ships: greetings that tie are put in the order of their texts.
Shipped ==
  [Working EXCEPT !.greet =
     Bodies(Sorted(Live(greet), {p \in greet \X greet :
              \/ p[1].seq < p[2].seq
              \/ p[1].seq = p[2].seq /\ p[1].body < p[2].body
              \/ p[1].seq = p[2].seq /\ p[1].body = p[2].body /\ p[1].id < p[2].id}))]
FieldsChanged == {f \in Fields : field[f].body # field[f].base}
ListChanged == \E r \in greet : r.gone \/ r.body # r.base

LoadedFields(card) == [f \in Fields |-> FieldRow(card.field[f], card.field[f])]
LoadedList(list) == {GreetRow(i, i - 1, list[i], list[i], i) : i \in DOMAIN list}

CardTypeOK ==
  /\ risu \in Cards
  /\ field \in [Fields -> FieldRows]
  /\ greet \subseteq GreetRows
  /\ saved \subseteq Cards
  /\ up \subseteq [card : Cards, reset : BOOLEAN]
  /\ w \in Writes
  /\ read \in Cards
  /\ seen \subseteq Cards
  /\ count \in [Counters -> Nat]

\* The panel was opened on the card for the first time.
CardInit ==
  /\ risu \in FirstCards
  /\ field = LoadedFields(risu)
  /\ greet = LoadedList(risu.greet)
  /\ saved = Mates
  /\ up = {}
  /\ w = Idle
  /\ read = risu
  /\ seen = {risu}
  /\ count = [c \in Counters |-> 0]

-----------------------------------------------------------------------------
(***************************************************************************)
(* The re-open: merge.decide for each field, merge.match and merge.plan    *)
(* for the greetings, which have no key but their text and their place.    *)
(***************************************************************************)
MergedField(f, t) ==
  LET r == field[f]
  IN  CASE t \in {r.base, r.body} -> [r EXCEPT !.base = t]
        [] t \notin {r.base, r.body} /\ r.body = r.base -> FieldRow(t, t)
        [] OTHER -> [r EXCEPT !.base = t, !.mark = [kind |-> "both-moved", theirs |-> t]]

LeftOf(b, pairs) == DOMAIN b \ {p[1] : p \in pairs}
RightOf(t, pairs) == DOMAIN t \ {p[2] : p \in pairs}

\* The same text, the nearest behind the last one paired; then the i-th left
\* over with the i-th left over, whatever they say (GREETING.floor).
Claimed(found, b, t, i) ==
  LET pool == {j \in RightOf(t, found.pairs) : t[j] = b[i]}
      ahead == {j \in pool : j >= found.last}
      pick == Min(IF ahead # {} THEN ahead ELSE pool)
  IN  IF pool = {} THEN found
      ELSE [pairs |-> found.pairs \cup {<<i, pick>>}, last |-> pick]
Exact(b, t) ==
  LET found[i \in 0 .. Len(b)] ==
        IF i = 0 THEN [pairs |-> {}, last |-> 0] ELSE Claimed(found[i - 1], b, t, i)
  IN  found[Len(b)].pairs
Match(b, t) ==
  LET exact == Exact(b, t)
      left == LeftOf(b, exact)
      right == RightOf(t, exact)
  IN  exact \cup {p \in left \X right : Rank(left, p[1]) = Rank(right, p[2])}

PairedRevives(r, t, j) ==
  LET kind == IF ~r.gone /\ r.body = r.base THEN "weak-match" ELSE "both-moved"
  IN  [r EXCEPT !.base = t, !.bseq = j, !.gone = FALSE,
                !.mark = IF t \in {r.base, r.body} THEN @ ELSE [kind |-> kind, theirs |-> t]]

\* A greeting paired with the j-th of the list, t; its text never changes.
Paired(r, t, j) ==
  LET kind == IF ~r.gone /\ r.body = r.base THEN "weak-match" ELSE "both-moved"
  IN  [r EXCEPT !.base = t, !.bseq = j,
                !.mark = IF t \in {r.base, r.body} THEN @ ELSE [kind |-> kind, theirs |-> t]]

\* RisuAI no longer has it: deleted on both sides, or an addition from now on.
DroppedKeepsBaseline(r) ==
  IF r.gone THEN {}
  ELSE {[r EXCEPT !.mark = [kind |-> "deleted-upstream", theirs |-> NoText]]}

Dropped(r) ==
  IF r.gone THEN {}
  ELSE {[r EXCEPT !.base = NoText, !.bseq = NoPlace,
                  !.mark = [kind |-> "deleted-upstream", theirs |-> NoText]]}

\* merge.adopted_additions: the place of a greeting that was added here too.
Fold(t, inserts, r) ==
  LET same == {s \in greet : s.base = NoText /\ s.body = r.body}
      places == {j \in inserts : t[j] = r.body}
  IN  IF places # {} /\ Head(InOrder(same)) = r THEN {Max(places)} ELSE {}

MergedList(t) ==
  LET based == Based(greet)
      added == {r \in greet : r.base = NoText}
      pairs == Match(Bases(based), t)
      inserts == RightOf(t, pairs)
      folded == [r \in added |-> Fold(t, inserts, r)]
      fresh == Ascending(inserts \ UNION {folded[r] : r \in added})
      ids == NewIds(greet, Len(fresh))
  IN  {Paired(based[p[1]], t[p[2]], p[2]) : p \in pairs}
      \cup (UNION {Dropped(based[i]) : i \in LeftOf(Bases(based), pairs)})
      \cup {IF folded[r] = {} THEN r
            ELSE [r EXCEPT !.base = r.body, !.bseq = Max(folded[r])] : r \in added}
      \cup {GreetRow(ids[n], MaxSeq(greet) + n, t[fresh[n]], t[fresh[n]], fresh[n]) :
              n \in DOMAIN fresh}

-----------------------------------------------------------------------------
(* RisuAI's user, and uploads.                                             *)

RisuEdit(card) ==
  /\ Tick("risu")
  /\ card # risu
  /\ card.field = risu.field \/ card.greet = risu.greet
  /\ risu' = card
  /\ UNCHANGED <<field, greet, saved, up, w, read, seen>>

\* Opening the panel; 🔄 forces.
Open(force) ==
  /\ Tick("open")
  /\ w = Idle
  /\ up' = up \cup {[card |-> risu, reset |-> force]}
  /\ UNCHANGED <<risu, field, greet, saved, w, read, seen>>

\* POST /workspace: card.ingest.
Deliver(u) ==
  /\ u \in up
  /\ up' = up \ {u}
  /\ field' = IF u.reset THEN LoadedFields(u.card)
              ELSE [f \in Fields |-> MergedField(f, u.card.field[f])]
  /\ greet' = IF u.reset THEN LoadedList(u.card.greet) ELSE MergedList(u.card.greet)
  /\ read' = u.card
  /\ seen' = seen \cup {u.card}
  /\ w' = CASE w = Idle \/ (w.pc = "reread" /\ u.reset) -> Idle
            [] OTHER -> [w EXCEPT !.calm = FALSE]
  /\ UNCHANGED <<risu, saved, count>>

Lose(u) ==
  /\ u \in up
  /\ up' = up \ {u}
  /\ UNCHANGED <<risu, field, greet, saved, w, read, seen, count>>

-----------------------------------------------------------------------------
(* The panel, and the agent's approved actions.  The modal of a write      *)
(* (foregroundWrite) keeps the panel's controls away from it.              *)

Panel ==
  /\ Tick("edit")
  /\ w = Idle
  /\ UNCHANGED <<risu, up, w, read, seen>>
Put(r, new) == greet' = (greet \ {r}) \cup {new}

\* card.update_field, on a field and on a greeting.
EditField(f, t) ==
  /\ Panel
  /\ field' = [field EXCEPT ![f].body = t]
  /\ UNCHANGED <<greet, saved>>

EditGreeting(r, t) ==
  /\ Panel
  /\ r \in greet
  /\ Put(r, [r EXCEPT !.body = t, !.gone = FALSE])
  /\ UNCHANGED <<field, saved>>

\* card.add_greeting; `m or -1` takes a highest seq of 0 for none.
AddGreeting(t) ==
  /\ Panel
  /\ LET m == MaxSeq(greet) IN
     greet' = greet \cup {GreetRow(NewIds(greet, 1)[1], IF m = 0 THEN 0 ELSE m + 1, t, NoText, NoPlace)}
  /\ UNCHANGED <<field, saved>>

DeleteGreeting(r) ==
  /\ Panel
  /\ r \in greet
  /\ IF r.base = NoText THEN greet' = greet \ {r} ELSE Put(r, [r EXCEPT !.gone = TRUE])
  /\ UNCHANGED <<field, saved>>

\* conflicts.resolve: mine drops the mark, theirs takes the baseline after a
\* checkpoint; a greeting RisuAI dropped is added or goes.
ResolveField(f, mine) ==
  /\ Panel
  /\ field[f].mark # NoMark
  /\ field' = [field EXCEPT ![f] = FieldRow(IF mine THEN @.body ELSE @.base, @.base)]
  /\ saved' = IF mine THEN saved ELSE saved \cup {Working}
  /\ UNCHANGED greet

ResolveGreeting(r, mine) ==
  LET dropped == r.mark.kind = "deleted-upstream"
      added == [r EXCEPT !.base = NoText, !.bseq = NoPlace, !.mark = NoMark]
  IN
  /\ Panel
  /\ r \in greet /\ r.mark # NoMark
  /\ CASE mine /\ dropped -> Put(r, added)
       [] mine /\ ~dropped -> Put(r, [r EXCEPT !.mark = NoMark])
       [] ~mine /\ dropped -> greet' = greet \ {r}
       [] ~mine /\ ~dropped -> r.base # NoText /\ Put(r, [r EXCEPT !.body = r.base, !.mark = NoMark])
  /\ saved' = IF mine THEN saved ELSE saved \cup {Working}
  /\ UNCHANGED field

\* h_card_reset: a checkpoint, then card.reset_working.
Reset ==
  /\ Panel
  /\ saved' = saved \cup {Working}
  /\ field' = [f \in Fields |-> FieldRow(field[f].base, field[f].base)]
  /\ greet' = {[r EXCEPT !.body = r.base, !.gone = FALSE, !.mark = NoMark] :
                 r \in {r \in greet : r.base # NoText}}

Save ==
  /\ Panel
  /\ saved' = saved \cup {Working}
  /\ UNCHANGED <<field, greet>>

(***************************************************************************)
(* snapshots.restore_card, a checkpoint of its own first: what c listed,   *)
(* over the baseline of today (card.restore_content).                      *)
(***************************************************************************)
ListOver(list) ==
  LET based == Based(greet)
      pairs == Match(Bases(based), list)
      lost == Ascending(LeftOf(Bases(based), pairs))
      news == Ascending(RightOf(list, pairs))
      ids == NewIds(greet, Len(news))
  IN  {[based[p[1]] EXCEPT !.body = list[p[2]], !.seq = p[2] - 1, !.gone = FALSE, !.mark = NoMark] :
         p \in pairs}
      \cup {[based[lost[n]] EXCEPT !.body = based[lost[n]].base, !.seq = Len(list) + n - 1,
                                   !.gone = TRUE, !.mark = NoMark] : n \in DOMAIN lost}
      \cup {GreetRow(ids[n], news[n] - 1, list[news[n]], NoText, NoPlace) : n \in DOMAIN news}

Restore(c) ==
  /\ Panel
  /\ c \in saved
  /\ saved' = saved \cup {Working}
  /\ field' = [f \in Fields |-> FieldRow(c.field[f], field[f].base)]
  /\ greet' = ListOver(c.greet)

-----------------------------------------------------------------------------
(***************************************************************************)
(* The write-back, one action between two awaits (performCardWriteBack).   *)
(***************************************************************************)
Apart == UNCHANGED <<field, greet, read, seen, count>>

\* GET /card/patch; nothing to write ends it.
Patch ==
  /\ Tick("write")
  /\ w = Idle
  /\ FieldsChanged # {} \/ ListChanged
  /\ w' = Patched(Baseline, Shipped, FieldsChanged, ListChanged)
  /\ UNCHANGED <<risu, field, greet, saved, up, read, seen>>

\* host.writeCharacter re-reads the card and refuses what moved.
AgreesOnFields(card) ==
  \A f \in w.fields : card.field[f] \in {w.from.field[f], w.to.field[f]}

Agrees(card) ==
  /\ \A f \in w.fields : card.field[f] \in {w.from.field[f], w.to.field[f]}
  /\ w.list => card.greet \in {w.from.greet, w.to.greet}

Check ==
  /\ w.pc = "patched"
  /\ w' = IF Agrees(risu) THEN [w EXCEPT !.pc = "checked", !.fresh = risu] ELSE Idle
  /\ UNCHANGED <<risu, saved, up>>
  /\ Apart

\* setCharacterToIndex sends the whole character; RisuAI may not keep it.
Composed ==
  [field |-> [f \in Fields |-> IF f \in w.fields THEN w.to.field[f] ELSE w.fresh.field[f]],
   greet |-> IF w.list THEN w.to.greet ELSE w.fresh.greet]

Set(took) ==
  /\ w.pc = "checked"
  /\ risu' = IF took THEN Composed ELSE risu
  /\ w' = [w EXCEPT !.pc = "set"]
  /\ UNCHANGED <<saved, up>>
  /\ Apart

Kept(card) ==
  /\ \A f \in w.fields : card.field[f] = w.to.field[f]
  /\ w.list => card.greet = w.to.greet

Verify ==
  /\ w.pc = "set"
  /\ w' = IF Kept(risu) THEN [w EXCEPT !.pc = "verified"] ELSE Idle
  /\ UNCHANGED <<risu, saved, up>>
  /\ Apart

CommitKeepsWorking ==
  /\ w.pc = "verified"
  /\ saved' = saved \cup {Working}
  /\ w' = [w EXCEPT !.pc = "committed"]
  /\ UNCHANGED <<risu, up>>
  /\ Apart

\* POST /card/commit keeps the baseline: the card from before the write.
Commit ==
  /\ w.pc = "verified"
  /\ saved' = saved \cup {Baseline}
  /\ w' = [w EXCEPT !.pc = "committed"]
  /\ UNCHANGED <<risu, up>>
  /\ Apart

\* rereadCard uploads with cardReset; the answer ends the write-back.
Reread ==
  /\ w.pc = "committed"
  /\ up' = up \cup {[card |-> risu, reset |-> TRUE]}
  /\ w' = [w EXCEPT !.pc = "reread"]
  /\ UNCHANGED <<risu, saved>>
  /\ Apart

\* An await throws, and the modal comes down.
Abort ==
  /\ w # Idle
  /\ w' = Idle
  /\ UNCHANGED <<risu, saved, up>>
  /\ Apart

WriteStep == Check \/ (\E took \in BOOLEAN : Set(took)) \/ Verify \/ Commit \/ Reread \/ Abort

-----------------------------------------------------------------------------
RisuCards == [field : [Fields -> Texts], greet : Lists]

CardNext ==
  \/ \E card \in RisuCards : RisuEdit(card)
  \/ \E force \in BOOLEAN : Open(force)
  \/ \E u \in up : Deliver(u) \/ Lose(u)
  \/ \E f \in Fields, t \in Texts : EditField(f, t)
  \/ \E r \in greet, t \in Texts : EditGreeting(r, t)
  \/ \E t \in Texts : AddGreeting(t)
  \/ \E r \in greet : DeleteGreeting(r)
  \/ \E mine \in BOOLEAN : \/ \E f \in Fields : ResolveField(f, mine)
                           \/ \E r \in greet : ResolveGreeting(r, mine)
  \/ Reset \/ Save
  \/ \E c \in saved : Restore(c)
  \/ Patch \/ WriteStep

CardSpec == CardInit /\ [][CardNext]_cardVars

-----------------------------------------------------------------------------
(* Properties.                                                             *)

(***************************************************************************)
(* What the write-back and the reset rely on, through merges, decisions    *)
(* and restores in any order (card._merge_greetings): each greeting has a  *)
(* row of its own; those RisuAI showed, and no others, stand in places of  *)
(* their own, so that the list compared with RisuAI's has an order; and a  *)
(* field's baseline is what the last upload handled showed.                *)
(***************************************************************************)
CardSound ==
  /\ CardTypeOK
  /\ \A r, s \in greet : r # s => r.id # s.id /\ (r.base # NoText => r.bseq # s.bseq)
  /\ \A r \in greet : (r.base = NoText <=> r.bseq = NoPlace)
  /\ Baseline.field = read.field

\* list is all with nothing or some of it left out.
Within(list, all) ==
  \E at \in [DOMAIN list -> DOMAIN all] :
    \A i \in DOMAIN list : list[i] = all[at[i]] /\ \A j \in 1 .. (i - 1) : at[j] < at[i]

\* The two halves of NoUnseenRevert.
FieldsSeen ==
  \A took \in BOOLEAN : Set(took) =>
    \A f \in Fields : Composed.field[f] # w.fresh.field[f] =>
                      \E card \in seen : card.field[f] = w.fresh.field[f]
GreetingsSeen ==
  \A took \in BOOLEAN : Set(took) =>
    (Composed.greet # w.fresh.greet => \E card \in seen : Within(w.fresh.greet, card.greet))

(***************************************************************************)
(* Whatever was edited meanwhile on either side, and however late uploads  *)
(* are handled, a write-back replaces no text of a field and no greetings  *)
(* that an upload had not shown here, the greetings in that order          *)
(* (host.writeCharacter, checkList), as far as the host's re-read can      *)
(* tell.                                                                   *)
(***************************************************************************)
NoUnseenRevert == [][FieldsSeen /\ GreetingsSeen]_cardVars

\* The same texts, each as often, in any order.
SameTexts(a, b) ==
  \E at \in Bijection(DOMAIN a, DOMAIN b) : \A i \in DOMAIN a : a[i] = b[at[i]]

\* The two halves of BackupUndoes.
CommitKeepsReplaced ==
  Commit /\ w.calm =>
    \E c \in saved' :
      /\ \A f \in Fields : Composed.field[f] # w.fresh.field[f] => c.field[f] = w.fresh.field[f]
      /\ Composed.greet # w.fresh.greet => c.greet = w.fresh.greet
RestoreGivesBack ==
  \A c \in saved : Restore(c) =>
    /\ Working' = c /\ Shipped' = c /\ Baseline' = Baseline
    /\ Working \in saved'
    /\ FieldsChanged' = {f \in Fields : c.field[f] # read.field[f]}
    /\ ListChanged' \/ SameTexts(c.greet, Baseline.greet)

(***************************************************************************)
(* A write-back can be undone: the checkpoint its commit takes holds what  *)
(* the write replaced (h_card_commit; an upload handled in between takes   *)
(* this away).  Restoring any checkpoint, also from before other writes or *)
(* of another bot, makes the working copy what it held, leaves alone what  *)
(* RisuAI is known to hold, counts the difference as changes unless only   *)
(* the order differs, and first keeps the working copy                     *)
(* (card.restore_content, snapshots.restore_card).                         *)
(***************************************************************************)
BackupUndoes == [][CommitKeepsReplaced /\ RestoreGivesBack]_cardVars

\* What r was is in the list no more: each greeting of it is the counterpart
\* of another one RisuAI had shown, and of one that said the same as r did
\* where it still says that.
LostUpstream(r, list) ==
  \A j \in DOMAIN list :
    \E s \in greet \ {r}, q \in greet' :
      /\ s.base # NoText
      /\ q.id = s.id /\ q.bseq = j
      /\ list[j] = r.base => s.base = r.base

\* A greeting but for its place in RisuAI's list.
Unplaced(r) == [r EXCEPT !.bseq = NoPlace]

\* What a re-open without force must leave, over the cards of all uploads.
WorkKept ==
  \A u \in up : (Deliver(u) /\ ~u.reset) =>
    /\ \A f \in Fields :
         field'[f].body = IF field[f].body # field[f].base THEN field[f].body ELSE u.card.field[f]
    /\ \A r \in greet :
         \/ \E s \in greet' : s.id = r.id /\ s.body = r.body /\ s.gone = r.gone
         \/ r.gone /\ LostUpstream(r, u.card.greet)
    /\ Baseline' = u.card
    /\ u.card = Baseline => /\ field' = field
                            /\ {Unplaced(r) : r \in greet'} = {Unplaced(r) : r \in greet}

(***************************************************************************)
(* A re-open keeps every edit and every greeting written here, takes       *)
(* RisuAI's text of what was not edited, and remembers RisuAI's card as    *)
(* the baseline (card._merge_card).  A greeting deleted here stays         *)
(* deleted, and listed for the next write, until RisuAI has lost it too.   *)
(* When RisuAI's card did not change nothing does: no text, deletion,      *)
(* order, mark or original.                                                *)
(***************************************************************************)
ReopenKeepsWork == [][WorkKept]_cardVars

=============================================================================
