-------------------------------- MODULE Lore --------------------------------
(***************************************************************************)
(* One lorebook's rows (pyserver/app/store.py, with merge.py, conflicts.py *)
(* and snapshots.py): a chat's own (scope "local") or its bot's            *)
(* ("global").  A lorebook entry has no id to match by, so a re-open pairs *)
(* the list RisuAI last showed with the one it shows now in tiers: the     *)
(* same content, then the same name, then the same text, then the same     *)
(* place.  As in TurnStore an upload may bring any list, and every action  *)
(* is one handler, whose writes commit together.                           *)
(*                                                                         *)
(* An entry is its comment (name) and its content (text); ids of RisuAI's  *)
(* own, folders and activation keys are left out of the keys.  Where two   *)
(* rows share a seq the database may list them either way; here the lower  *)
(* id comes first.                                                         *)
(***************************************************************************)
EXTENDS Integers, FiniteSets, Sequences, SequencesExt, FiniteSetsExt, Lists

CONSTANTS
  Entries,     \* lorebook entries: records with a name and a text
  Alike,       \* pairs of texts merge.Spec.floor finds alike enough
  NoEntry,     \* null: no original_json, no theirs
  MaxEntries,  \* bound: entries in a list RisuAI uploads
  MaxUploads,  \* bound: uploads merged
  MaxLoads,    \* bound: uploads that reload the rows
  MaxEdits,    \* bound: edits, moves, decisions and resets of the rows
  MaxSaves,    \* bound: checkpoints taken and restored
  MaxSteps     \* bound: all of these but the reloads

ASSUME LoreAssumption ==
  /\ \A e \in Entries : {"name", "text"} \subseteq DOMAIN e
  /\ NoEntry \notin Entries
  /\ {MaxEntries, MaxUploads, MaxLoads, MaxEdits, MaxSaves, MaxSteps} \subseteq Nat

VARIABLES
  scope,  \* which kind of lorebook it is; never changes
  rows,   \* lore_entries of the scope
  shown,  \* history: the list of the last upload
  saved,  \* checkpoints: the rows each of them holds
  ops     \* what the bounds count

loreVars == <<scope, rows, shown, saved, ops>>

Lists == BoundedSeq(Entries, MaxEntries)
NoPlace == -1   \* null: no base_seq
NoMark == [kind |-> "none", theirs |-> NoEntry]
Marks == {NoMark} \cup [kind : {"both-moved", "weak-match", "deleted-upstream"},
                        theirs : Entries \cup {NoEntry}]
Origins == {"original", "edited", "added", "deleted"}
RowRecords == [id : Nat, seq : Nat, entry : Entries, base : Entries \cup {NoEntry},
               bseq : Nat \cup {NoPlace}, origin : Origins, mark : Marks]
Fresh(id, seq, e, base, bseq, origin) ==
  [id |-> id, seq |-> seq, entry |-> e, base |-> base, bseq |-> bseq,
   origin |-> origin, mark |-> NoMark]

Counters == {"upload", "load", "edit", "save"}
Limit == [c \in Counters |-> CASE c = "upload" -> MaxUploads
                               [] c = "load" -> MaxLoads
                               [] c = "edit" -> MaxEdits
                               [] c = "save" -> MaxSaves]
Tick(c) ==
  /\ ops[c] < Limit[c]
  /\ c = "load" \/ ops["upload"] + ops["edit"] + ops["save"] < MaxSteps
  /\ ops' = [ops EXCEPT ![c] = @ + 1]

\* Ids are uuids: never one that a row or a checkpoint has.
Ids(S) == {r.id : r \in S}
TakenIds == Ids(rows) \cup UNION {Ids(c) : c \in saved}
NewIds(n) == Ascending((1 .. (Cardinality(TakenIds) + n)) \ TakenIds)

\* Rows in their order here, and in RisuAI's.
InOrder(S) ==
  Sorted(S, {p \in S \X S : p[1].seq < p[2].seq \/ (p[1].seq = p[2].seq /\ p[1].id < p[2].id)})
BasePlace(r) == IF r.bseq # NoPlace THEN r.bseq ELSE r.seq
InBaseOrder(S) ==
  Sorted(S, {p \in S \X S :
               \/ BasePlace(p[1]) < BasePlace(p[2])
               \/ BasePlace(p[1]) = BasePlace(p[2]) /\ p[1].id < p[2].id})
NextSeq(S) == Max({r.seq : r \in S} \cup {-1}) + 1

Live(S) == {r \in S : r.origin # "deleted"}
\* What a write-back ships, and what it expects RisuAI to hold.
Entered(list) == [i \in DOMAIN list |-> list[i].entry]
Bases(list) == [i \in DOMAIN list |-> list[i].base]
LiveList(S) == Entered(InOrder(Live(S)))
Based(S) == {r \in S : r.base # NoEntry /\ r.origin # "added"}
Baseline(S) == Bases(InBaseOrder(Based(S)))

LoreTypeOK ==
  /\ scope \in {"local", "global"}
  /\ rows \subseteq RowRecords
  /\ \A r, s \in rows : r.id = s.id => r = s
  /\ \A r \in rows : r.base = NoEntry <=> r.origin = "added"
  /\ shown \in Seq(Entries)
  /\ \A c \in saved : c \subseteq RowRecords
  /\ ops \in [Counters -> Nat]

LoreInit ==
  /\ scope \in {"local", "global"}
  /\ rows = {}
  /\ shown = <<>>
  /\ saved = {}
  /\ ops = [c \in Counters |-> 0]

-----------------------------------------------------------------------------
(***************************************************************************)
(* merge.match: pairs of places of the lists b and t, and the tier that    *)
(* found them.  Each tier works on what the ones before left over.         *)
(***************************************************************************)
LeftOf(b, pairs) == DOMAIN b \ {p.at : p \in pairs}
RightOf(t, pairs) == DOMAIN t \ {p.to : p \in pairs}
Pair(at, to, tier) == [at |-> at, to |-> to, tier |-> tier]

\* A copy of the same content, the nearest behind the last one paired.
Claimed(found, b, t, i) ==
  LET pool == {j \in RightOf(t, found.pairs) : t[j] = b[i]}
      ahead == {j \in pool : j >= found.last}
      pick == Min(IF ahead # {} THEN ahead ELSE pool)
  IN  IF pool = {} THEN found
      ELSE [pairs |-> found.pairs \cup {Pair(i, pick, "exact")}, last |-> pick]
Exact(b, t) ==
  LET found[i \in 0 .. Len(b)] ==
        IF i = 0 THEN [pairs |-> {}, last |-> 0] ELSE Claimed(found[i - 1], b, t, i)
  IN  found[Len(b)].pairs

\* The same natural key, when neither side has it twice.
OnlyOne(list, left, key, i) == \A k \in left : list[k][key] = list[i][key] => k = i
Keyed(b, t, pairs, key) ==
  pairs \cup
  {Pair(ij[1], ij[2], "keyed") :
     ij \in {ij \in LeftOf(b, pairs) \X RightOf(t, pairs) :
               /\ b[ij[1]][key] = t[ij[2]][key]
               /\ OnlyOne(b, LeftOf(b, pairs), key, ij[1])
               /\ OnlyOne(t, RightOf(t, pairs), key, ij[2])}}

\* The i-th left over with the i-th left over, when they look alike.
Positional(b, t, pairs) ==
  pairs \cup
  {Pair(ij[1], ij[2], "positional") :
     ij \in {ij \in LeftOf(b, pairs) \X RightOf(t, pairs) :
               /\ Rank(LeftOf(b, pairs), ij[1]) = Rank(RightOf(t, pairs), ij[2])
               /\ <<b[ij[1]].text, t[ij[2]].text>> \in Alike}}

Match(b, t) == Positional(b, t, Keyed(b, t, Keyed(b, t, Exact(b, t), "name"), "text"))

-----------------------------------------------------------------------------
(***************************************************************************)
(* The re-open: merge.decide and merge.plan, and what store._merge_lore    *)
(* does with each of their answers.                                        *)
(***************************************************************************)
Untouched(r) == r.origin = "original" /\ r.entry = r.base

DecideByText(r, t, tier) ==
  CASE t = r.base \/ t = r.entry -> "keep"
    [] t # r.base /\ t # r.entry /\ r.origin = "original" ->
         IF tier = "positional" THEN "weak-match" ELSE "adopt"
    [] OTHER -> "both-moved"

Decide(r, t, tier) ==
  CASE t = r.base \/ t = r.entry -> "keep"
    [] t # r.base /\ t # r.entry /\ Untouched(r) ->
         IF tier = "positional" THEN "weak-match" ELSE "adopt"
    [] OTHER -> "both-moved"

\* A row paired with the j-th entry of the list, t.
PairedKeepsBaseline(r, t, j, tier) ==
  LET decision == Decide(r, t, tier)
  IN  CASE decision = "keep"  -> [r EXCEPT !.base = t, !.bseq = j]
        [] decision = "adopt" -> Fresh(r.id, r.seq, t, t, j, "original")
        [] OTHER -> [r EXCEPT !.bseq = j, !.mark = [kind |-> decision, theirs |-> t]]

Paired(r, t, j, tier) ==
  LET decision == Decide(r, t, tier)
  IN  CASE decision = "keep"  -> [r EXCEPT !.base = t, !.bseq = j]
        [] decision = "adopt" -> Fresh(r.id, r.seq, t, t, j, "original")
        [] OTHER -> [r EXCEPT !.base = t, !.bseq = j,
                              !.mark = [kind |-> decision, theirs |-> t]]

\* RisuAI no longer has it: deleted on both sides, or an addition from now on.
GoneKeepsBaseline(r) ==
  IF r.origin = "deleted" THEN {}
  ELSE {[r EXCEPT !.origin = "added",
                  !.mark = [kind |-> "deleted-upstream", theirs |-> NoEntry]]}

Gone(r) ==
  IF r.origin = "deleted" THEN {}
  ELSE {[r EXCEPT !.base = NoEntry, !.bseq = NoPlace, !.origin = "added",
                  !.mark = [kind |-> "deleted-upstream", theirs |-> NoEntry]]}

\* merge.adopted_additions: the place among `inserts` of an entry that was
\* added here too, none for a second addition of the same.
FoldNever(theirs, inserts, r) == {}

Fold(theirs, inserts, r) ==
  LET same == {s \in rows : s.base = NoEntry /\ s.entry = r.entry}
      places == {j \in inserts : theirs[j] = r.entry}
  IN  IF places # {} /\ Head(InBaseOrder(same)) = r THEN {Max(places)} ELSE {}

Merged(theirs) ==
  LET based == InBaseOrder({r \in rows : r.base # NoEntry})
      added == {r \in rows : r.base = NoEntry}
      pairs == Match(Bases(based), theirs)
      inserts == RightOf(theirs, pairs)
      kept == {Paired(based[p.at], theirs[p.to], p.to, p.tier) : p \in pairs}
                \cup (UNION {Gone(based[i]) : i \in LeftOf(based, pairs)})
      folded == [r \in added |-> Fold(theirs, inserts, r)]
      fresh == Ascending(inserts \ UNION {folded[r] : r \in added})
      ids == NewIds(Len(fresh))
  IN  kept
      \cup {IF folded[r] = {} THEN r
            ELSE [r EXCEPT !.base = r.entry, !.origin = "original", !.bseq = Max(folded[r])] :
              r \in added}
      \cup {Fresh(ids[n], NextSeq(kept \cup added) + n - 1,
                  theirs[fresh[n]], theirs[fresh[n]], fresh[n], "original") : n \in DOMAIN fresh}

Loaded(theirs) ==
  LET ids == NewIds(Len(theirs))
  IN  {Fresh(ids[i], i - 1, theirs[i], theirs[i], i, "original") : i \in DOMAIN theirs}

\* store.ingest_lore for the scope: first sight or a forced reload, and any
\* other upload.
Reload(theirs) ==
  /\ Tick("load")
  /\ rows' = Loaded(theirs)
  /\ shown' = theirs
  /\ UNCHANGED <<scope, saved>>

Reopen(theirs) ==
  /\ rows # {} /\ Tick("upload")
  /\ rows' = Merged(theirs)
  /\ shown' = theirs
  /\ UNCHANGED <<scope, saved>>

-----------------------------------------------------------------------------
(***************************************************************************)
(* The handlers of the panel and the agent's approved actions.             *)
(***************************************************************************)
Put(r, new) == rows' = (rows \ {r}) \cup {new}

UpdateLore(r, e) ==
  /\ Tick("edit") /\ r \in Live(rows)
  /\ Put(r, [r EXCEPT !.entry = e,
                      !.origin = CASE r.origin = "added" -> "added"
                                   [] r.origin # "added" /\ r.base = e -> "original"
                                   [] OTHER -> "edited"])
  /\ UNCHANGED <<scope, shown, saved>>

AddLore(e) ==
  /\ Tick("edit")
  /\ rows' = rows \cup {Fresh(NewIds(1)[1], NextSeq(rows), e, NoEntry, NoPlace, "added")}
  /\ UNCHANGED <<scope, shown, saved>>

DeleteLore(r) ==
  /\ Tick("edit") /\ r \in Live(rows)
  /\ IF r.origin = "added" THEN rows' = rows \ {r}
     ELSE Put(r, [r EXCEPT !.origin = "deleted"])
  /\ UNCHANGED <<scope, shown, saved>>

\* Dense renumbering of the live rows, r at the place `to`.
MoveLore(r, to) ==
  /\ Tick("edit") /\ r \in Live(rows)
  /\ LET others == InOrder(Live(rows) \ {r})
         order == InsertAt(others, to, r)
     IN  rows' = (rows \ Live(rows)) \cup {[order[i] EXCEPT !.seq = i - 1] : i \in DOMAIN order}
  /\ UNCHANGED <<scope, shown, saved>>

\* conflicts.resolve.
Mine(r) ==
  Put(r, IF r.mark.kind = "deleted-upstream"
         THEN [r EXCEPT !.base = NoEntry, !.bseq = NoPlace, !.origin = "added", !.mark = NoMark]
         ELSE [r EXCEPT !.mark = NoMark])

Theirs(r) ==
  IF r.mark.kind = "deleted-upstream" THEN rows' = rows \ {r}
  ELSE Put(r, [r EXCEPT !.entry = r.base, !.origin = "original", !.mark = NoMark])

Resolve(r) ==
  /\ Tick("edit") /\ r \in rows /\ r.mark # NoMark
  /\ Mine(r) \/ Theirs(r)
  /\ UNCHANGED <<scope, shown, saved>>

\* store.reset_lore_local, store.reset_lore_global.
Reset ==
  /\ Tick("edit")
  /\ rows' = {[r EXCEPT !.mark = NoMark, !.origin = "original",
                        !.entry = IF r.origin = "original" THEN @ ELSE r.base] :
                r \in {r \in rows : r.origin # "added"}}
  /\ UNCHANGED <<scope, shown, saved>>

-----------------------------------------------------------------------------
(***************************************************************************)
(* Checkpoints.  Their table is TurnRows' subject: here only what one of   *)
(* them holds, taken by the user or on the way of another operation.       *)
(***************************************************************************)
Save ==
  /\ Tick("save")
  /\ saved' = saved \cup {rows}
  /\ UNCHANGED <<scope, rows, shown>>

\* The backup of a card's commit: its rows as RisuAI held them.
SaveBaseline ==
  /\ Tick("save") /\ scope = "global"
  /\ saved' = saved \cup {{[r EXCEPT !.entry = r.base, !.origin = "original", !.seq = BasePlace(r)] :
                            r \in Based(rows)}}
  /\ UNCHANGED <<scope, rows, shown>>

\* store.restore_lore_rows: the rows as they were, baseline and all.
RestoreRows(c) ==
  /\ Tick("save") /\ scope = "local"
  /\ rows' = {[r EXCEPT !.bseq = NoPlace, !.mark = NoMark] : r \in c}
  /\ UNCHANGED <<scope, shown, saved>>

\* store.restore_lore_content_global: what the checkpoint lists, over the
\* baseline of today.
ContentsKeepLost(based, pairs, snap) ==
  LET news == Ascending(RightOf(snap, pairs))
      ids == NewIds(Len(news))
  IN  {[based[p.at] EXCEPT !.entry = snap[p.to].entry, !.seq = p.to - 1, !.mark = NoMark,
          !.origin = IF @ = "deleted" THEN "edited" ELSE @] : p \in pairs}
      \cup {based[i] : i \in LeftOf(based, pairs)}
      \cup {Fresh(ids[n], news[n] - 1, snap[news[n]].entry, NoEntry, NoPlace, "added") :
               n \in DOMAIN news}

Contents(based, pairs, snap) ==
  LET entries == Entered(snap)
      lost == Ascending(LeftOf(based, pairs))
      news == Ascending(RightOf(snap, pairs))
      ids == NewIds(Len(news))
      IdFor(n) == IF \E i \in DOMAIN based : based[i].id = snap[news[n]].id THEN ids[n]
                  ELSE snap[news[n]].id
  IN  {[based[p.at] EXCEPT !.entry = entries[p.to], !.seq = p.to - 1, !.mark = NoMark,
          !.origin = IF entries[p.to] = based[p.at].base THEN "original" ELSE "edited"] : p \in pairs}
      \cup {[based[lost[n]] EXCEPT !.entry = based[lost[n]].base, !.origin = "deleted", !.mark = NoMark,
               !.seq = Len(snap) + n - 1] : n \in DOMAIN lost}
      \cup {Fresh(IdFor(n), news[n] - 1, entries[news[n]], NoEntry, NoPlace, "added") : n \in DOMAIN news}

RestoreContent(c) ==
  /\ Tick("save") /\ scope = "global"
  /\ LET snap == InOrder(Live(c))
         based == InBaseOrder(Based(rows))
     IN  rows' = Contents(based, Match(Bases(based), Entered(snap)), snap)
  /\ UNCHANGED <<scope, shown, saved>>

-----------------------------------------------------------------------------
LoreNext ==
  \/ \E theirs \in Lists : Reopen(theirs) \/ Reload(theirs)
  \/ \E r \in rows, e \in Entries : UpdateLore(r, e)
  \/ \E e \in Entries : AddLore(e)
  \/ \E r \in rows : DeleteLore(r) \/ Resolve(r)
  \/ \E r \in rows : \E to \in 1 .. Cardinality(Live(rows)) : MoveLore(r, to)
  \/ Reset \/ Save \/ SaveBaseline
  \/ \E c \in saved : RestoreRows(c) \/ RestoreContent(c)

LoreSpec == LoreInit /\ [][LoreNext]_loreVars

-----------------------------------------------------------------------------
Merging == ops'["upload"] # ops["upload"]
Uploading == Merging \/ ops'["load"] # ops["load"]
Restoring == ops'["save"] # ops["save"] /\ rows' # rows
Times(e, S) == Cardinality({r \in Live(S) : r.entry = e})

(***************************************************************************)
(* A re-open keeps every entry worked on here, and every text RisuAI did   *)
(* not have when it was last read: what it overwrites, RisuAI once showed. *)
(* A chat's restored rows are the exception (see the findings).            *)
(***************************************************************************)
Work(r) == ~Untouched(r) \/ (scope = "global" /\ r.entry \notin ToSet(shown))
ReopenKeepsWork ==
  [][Merging => \A r \in Live(rows) :
       Work(r) => \E s \in Live(rows') : s.id = r.id /\ s.entry = r.entry]_loreVars

(***************************************************************************)
(* Of a row that is overwritten, the new entry has the name or the text: a *)
(* pair found by its place alone is never adopted (merge.py's safety       *)
(* argument).                                                              *)
(***************************************************************************)
NeverAdoptsByPlace ==
  [][Merging => \A r \in rows, s \in rows' :
       s.id = r.id /\ s.entry # r.entry =>
         s.entry.name = r.entry.name \/ s.entry.text = r.entry.text]_loreVars

(***************************************************************************)
(* The host refuses a write whose `before` is not the list it holds.  So   *)
(* every upload must leave a baseline that is the list it brought, entry   *)
(* by entry and in its order, and no edit, move, decision, reset or        *)
(* restore may move it.  The exceptions the code has: a chat's restore     *)
(* brings the old baseline back, without its places, and a decision on an  *)
(* entry RisuAI dropped and then had again takes it out of the baseline.   *)
(***************************************************************************)
GuardCanPass ==
  [][IF Uploading THEN Baseline(rows') = shown'
     ELSE \/ Baseline(rows') = Baseline(rows)
          \/ scope = "local" /\ (Restoring \/ \E r \in rows : r.base # NoEntry /\ r.bseq = NoPlace)
          \/ \E r \in rows \ rows' : r.mark.kind = "deleted-upstream" /\ r.base # NoEntry]_loreVars

(***************************************************************************)
(* Opening the panel again with nothing changed in RisuAI changes nothing  *)
(* here, whatever is pending and entries that RisuAI has twice included.   *)
(***************************************************************************)
QuietReopen ==
  [][Merging /\ shown' = Baseline(rows)
       => {[r EXCEPT !.bseq = NoPlace] : r \in rows'} = {[r EXCEPT !.bseq = NoPlace] : r \in rows}]_loreVars

(***************************************************************************)
(* A write-back whose re-upload was lost: the next re-open brings what the *)
(* panel lists, and lists the same afterwards, nothing lost and nothing    *)
(* twice - where every row keeps a name of its own (see the findings for   *)
(* one that was renamed and rewritten).                                    *)
(***************************************************************************)
OwnName(r) ==
  /\ r.base # NoEntry => r.entry.name = r.base.name
  /\ \A s \in rows \ {r} : s.entry.name # r.entry.name
AgreementKeepsList ==
  [][Merging /\ shown' = LiveList(rows) /\ (\A r \in rows : OwnName(r))
       => \A e \in Entries : Times(e, rows') = Times(e, rows)]_loreVars

(***************************************************************************)
(* A conflict stays open until somebody decides it: no re-open drops the   *)
(* mark of a row that differs from RisuAI's, as a chat's turns lose it.    *)
(***************************************************************************)
ConflictsWaitForDecision ==
  [][Merging => \A r \in Live(rows) :
       r.mark # NoMark /\ r.entry # r.base =>
         \E s \in rows' : s.id = r.id /\ s.mark # NoMark]_loreVars

(***************************************************************************)
(* The merge of entries without ids is careful: work is kept, nothing is   *)
(* adopted for its place, and an open conflict waits for its decision      *)
(* (merge.plan, store._merge_lore).                                        *)
(***************************************************************************)
MergeIsCareful == ReopenKeepsWork /\ NeverAdoptsByPlace /\ ConflictsWaitForDecision

\* A re-open that brings no news - RisuAI's list of last time, or the panel's
\* own - neither adds nor loses an entry.
NoNewsNoChange == QuietReopen /\ AgreementKeepsList


(***************************************************************************)
(* A restore lists exactly what the checkpoint listed, in its order.       *)
(***************************************************************************)
RestoreBringsBack ==
  [][Restoring => \E c \in saved : LiveList(rows') = LiveList(c)]_loreVars

(***************************************************************************)
(* "The change list is exactly what the write-back will do" after a card's *)
(* restore: nothing pending if and only if RisuAI holds these entries.     *)
(***************************************************************************)
RestoreCounts ==
  [][Restoring /\ scope = "global" =>
       ((\A r \in rows' : r.origin = "original") <=>
        (\A e \in Entries : Times(e, rows') = Cardinality({r \in rows' : r.base = e})))]_loreVars

\* A restore brings the checkpoint's list back, and counts what it changed
\* (store.restore_lore_rows, restore_lore_content_global).
RestoreIsTrue == RestoreBringsBack /\ RestoreCounts

=============================================================================
