------------------------------ MODULE TurnRows ------------------------------
(***************************************************************************)
(* The tables behind TurnStore: turns and turns_original as lists of rows, *)
(* in the order of seq, and the checkpoints with what each of them really  *)
(* keeps.  TurnStore leaves the order out; here a re-open merges two       *)
(* lists, finds a place for the rows inserted in the panel, and a restore  *)
(* reads a list back from Markdown.  Rows with no msg_id are left out.     *)
(***************************************************************************)
EXTENDS Lists, SequencesExt

CONSTANTS
  RisuIds, LocalIds, Bodies, NoTurn, Markdown,  \* as in TurnStore
  NoExtra,         \* a row with no field but those the Markdown carries
  AutoKeep,        \* limits.autoBackupKeep
  CheckpointKeep,  \* limits.checkpointKeep
  MaxTurns,        \* bound: turns of a list RisuAI sends
  MaxUploads,      \* bound: uploads handled
  MaxEdits,        \* bound: edits of the working rows
  MaxSaves         \* bound: checkpoints taken, renamed, deleted or restored

ASSUME RowsAssumption ==
  /\ NoTurn \notin Bodies
  /\ Markdown \in [Bodies -> Bodies]
  /\ RisuIds \cap LocalIds = {}
  /\ "head" \notin RisuIds \cup LocalIds
  /\ NoExtra \notin RisuIds
  /\ {AutoKeep, CheckpointKeep} \subseteq Nat \ {0}
  /\ {MaxTurns, MaxUploads, MaxEdits, MaxSaves} \subseteq Nat

VARIABLES
  orig,     \* turns_original
  turns,    \* turns
  sidecar,  \* chats.meta_json: the extra fields of the uploaded turns, by index
  saved,    \* checkpoints, the newest last
  minted,   \* the LocalIds given out so far
  ops       \* what the bounds count

rowsVars == <<orig, turns, sidecar, saved, minted, ops>>

(***************************************************************************)
(* A row's extra fields (disabled, generationInfo...) are named by the     *)
(* turn RisuAI keeps them on.                                              *)
(***************************************************************************)
MsgIds == RisuIds \cup LocalIds
NoMark == [kind |-> "none", theirs |-> NoTurn]
Row(m, text, extra) == [id |-> m, body |-> text, extra |-> extra, mark |-> NoMark]
Rows == [id : MsgIds, body : Bodies, extra : RisuIds \cup {NoExtra},
         mark : {NoMark} \cup [kind : {"both-moved", "deleted-upstream"}, theirs : Bodies \cup {NoTurn}]]

Ids(list) == {r.id : r \in ToSet(list)}
At(list, m) == CHOOSE r \in ToSet(list) : r.id = m
AsList(list) == [m \in MsgIds |-> IF m \in Ids(list) THEN At(list, m).body ELSE NoTurn]
Marks == [m \in MsgIds |-> IF m \in Ids(turns) THEN At(turns, m).mark ELSE NoMark]

\* chatfmt.decode to Markdown, and chatfmt.encode back: the fields the Markdown
\* lacks come from the sidecar, by position.
FromMarkdown(list, fields) ==
  [i \in DOMAIN list |->
     Row(list[i].id, Markdown[list[i].body], IF i \in DOMAIN fields THEN fields[i] ELSE NoExtra)]

Store == INSTANCE TurnStore WITH
  MaxSnaps <- CheckpointKeep,
  base <- AsList(orig),
  ours <- AsList(turns),
  flag <- Marks,
  snaps <- {AsList(FromMarkdown(c.rows, c.sidecar)) : c \in ToSet(saved)}

Kinds == {"user", "auto"}
Labels == {"restore", "other"}
Counters == {"upload", "edit", "save"}
Limit == [c \in Counters |-> CASE c = "upload" -> MaxUploads
                               [] c = "edit" -> MaxEdits
                               [] c = "save" -> MaxSaves]
Tick(c) == ops[c] < Limit[c] /\ ops' = [ops EXCEPT ![c] = @ + 1]

Versions == [kind : Kinds, label : Labels, rows : Seq(Rows), sidecar : Seq(RisuIds \cup {NoExtra})]

RowsTypeOK ==
  /\ orig \in Seq(Rows)
  /\ turns \in Seq(Rows)
  /\ sidecar \in Seq(RisuIds \cup {NoExtra})
  /\ saved \in Seq(Versions)
  /\ minted \in SUBSET LocalIds
  /\ ops \in [Counters -> Nat]

RowsInit ==
  /\ orig = <<>>
  /\ turns = <<>>
  /\ sidecar = <<>>
  /\ saved = <<>>
  /\ minted = {}
  /\ ops = [c \in Counters |-> 0]

-----------------------------------------------------------------------------
(***************************************************************************)
(* store._merge_turns, for the list `theirs`.                              *)
(***************************************************************************)
Known(theirs) == Ids(orig) \cup Ids(theirs)

\* The known turn the i-th row of the list stands behind, "head" before them all.
Anchor(list, i, theirs) ==
  LET before == {j \in 1 .. (i - 1) : list[j].id \in Known(theirs)}
  IN  IF before = {} THEN "head" ELSE list[Max(before)].id

OwnBehind(anchors, theirs) ==
  SubList(turns, {i \in DOMAIN turns : /\ turns[i].id \notin Known(theirs)
                                       /\ Anchor(turns, i, theirs) \in anchors})

\* The row an incoming turn becomes; none when the panel's deletion stands.
MergedTurn(t) ==
  LET was == IF t.id \in Ids(orig) THEN At(orig, t.id).body ELSE NoTurn
      mine == At(turns, t.id)
      op == Store!Decide(mine.body, was, t.body)
  IN  IF t.id \notin Ids(turns)
      THEN IF was = t.body THEN <<>>
           ELSE <<[t EXCEPT !.mark = IF was = NoTurn THEN NoMark ELSE Store!DeletedUpstream(t.body)]>>
      ELSE <<IF was # NoTurn /\ op = "adopt" THEN t
             ELSE [mine EXCEPT !.mark = IF was # NoTurn /\ op = "conflict"
                                        THEN Store!BothMoved(t.body) ELSE NoMark]>>

\* Edited here, gone from RisuAI: kept under a mark, behind all the others.
Gone(theirs) ==
  LET left == SubList(turns, {i \in DOMAIN turns : LET r == turns[i] IN
                                /\ r.id \in Ids(orig) \ Ids(theirs)
                                /\ r.body # At(orig, r.id).body})
  IN  [i \in DOMAIN left |-> [left[i] EXCEPT !.mark = Store!DeletedUpstream(NoTurn)]]

MergedDropsUnplaced(theirs) ==
  FlattenSeq(<<OwnBehind({"head"}, theirs)>>
               \o [i \in DOMAIN theirs |-> MergedTurn(theirs[i]) \o OwnBehind({theirs[i].id}, theirs)]
               \o <<Gone(theirs)>>)

MergedAnchorsOnUploaded(theirs) ==
  FlattenSeq(<<OwnBehind({"head"} \cup (Ids(orig) \ Ids(theirs)), theirs)>>
               \o [i \in DOMAIN theirs |-> MergedTurn(theirs[i])
                                             \o OwnBehind({theirs[i].id} \ Ids(orig), theirs)]
               \o <<Gone(theirs), OwnBehind(Ids(orig) \cap Ids(theirs), theirs)>>)

Pieces(theirs) ==
  <<OwnBehind({"head"}, theirs)>>
    \o [i \in DOMAIN theirs |-> MergedTurn(theirs[i]) \o OwnBehind({theirs[i].id}, theirs)]
    \o <<Gone(theirs), OwnBehind(Ids(orig) \ Ids(theirs), theirs)>>

Merged(theirs) == FlattenSeq(Pieces(theirs))

\* store.ingest_chat.
Upload(theirs, force, live) ==
  /\ Tick("upload")
  /\ theirs # <<>> \/ force \/ live
  /\ orig' = theirs
  /\ sidecar' = [i \in DOMAIN theirs |-> theirs[i].extra]
  /\ turns' = IF force \/ turns \o orig = <<>> THEN theirs ELSE Merged(theirs)
  /\ UNCHANGED <<saved, minted>>

-----------------------------------------------------------------------------
(* Edits of the working rows.                                              *)

RestUnchanged == UNCHANGED <<orig, sidecar, saved>>
Without(list, ms) == SubList(list, {i \in DOMAIN list : list[i].id \notin ms})
WithTexts(list, ms, texts) ==
  [i \in DOMAIN list |-> IF list[i].id \in ms THEN [list[i] EXCEPT !.body = texts[list[i].id]]
                         ELSE list[i]]

\* store.set_body, bulk_replace and bulk_set.
EditBodies(ms, texts) ==
  /\ Tick("edit")
  /\ turns' = WithTexts(turns, ms, texts)
  /\ UNCHANGED minted
  /\ RestUnchanged

\* store.delete_turns and delete_range.
DropRows(ms) ==
  /\ Tick("edit")
  /\ turns' = Without(turns, ms)
  /\ UNCHANGED minted
  /\ RestUnchanged

InsertedKeepsId(i, m, text) ==
  /\ Tick("edit")
  /\ turns' = InsertAt(turns, i + 1, Row(m, text, NoExtra))
  /\ UNCHANGED minted
  /\ RestUnchanged

\* store.insert_turn: behind the i-th row, or at the head.
InsertRow(i, m, text) ==
  /\ Tick("edit")
  /\ minted' = minted \cup {m}
  /\ turns' = InsertAt(turns, i + 1, Row(m, text, NoExtra))
  /\ RestUnchanged

\* store.split_turn: the tail goes to a row of its own.
SplitRow(i, m, head, tail) ==
  /\ Tick("edit")
  /\ minted' = minted \cup {m}
  /\ turns' = InsertAt([turns EXCEPT ![i].body = head], i + 1, Row(m, tail, NoExtra))
  /\ RestUnchanged

\* store.merge_turns: into the first of them.
FoldRows(ms, text) ==
  LET keep == turns[Min({i \in DOMAIN turns : turns[i].id \in ms})].id IN
  /\ Tick("edit")
  /\ turns' = Without(WithTexts(turns, {keep}, [m \in {keep} |-> text]), ms \ {keep})
  /\ UNCHANGED minted
  /\ RestUnchanged

-----------------------------------------------------------------------------
(***************************************************************************)
(* Checkpoints.  create() inserts the newest, then trims: the automatic    *)
(* ones to AutoKeep, when it is one, and all of them to CheckpointKeep.    *)
(***************************************************************************)
Newest(list, kinds, n) ==
  LET counted == {i \in DOMAIN list : list[i].kind \in kinds}
  IN  SubList(list, {i \in DOMAIN list : i \in counted => Cardinality({j \in counted : i < j}) < n})

Created(list, kind, label) ==
  LET all == Append(list, [kind |-> kind, label |-> label, rows |-> turns, sidecar |-> sidecar])
  IN  Newest(IF kind = "auto" THEN Newest(all, {"auto"}, AutoKeep) ELSE all, Kinds, CheckpointKeep)

\* h_checkpoint_create, h_commit, and the backups taken before a bulk edit.
Checkpoint(kind, label) ==
  /\ Tick("save")
  /\ saved' = Created(saved, kind, label)
  /\ UNCHANGED <<orig, turns, sidecar, minted>>

RenameCheckpoint(i, label) ==
  /\ Tick("save")
  /\ saved[i].label # label
  /\ saved' = [saved EXCEPT ![i].label = label]
  /\ UNCHANGED <<orig, turns, sidecar, minted>>

DeleteCheckpoint(i) ==
  /\ Tick("save")
  /\ saved' = RemoveAt(saved, i)
  /\ UNCHANGED <<orig, turns, sidecar, minted>>

\* snapshots.clear: the user's own, but for the newest `keep`.
ClearCheckpoints(keep) ==
  /\ Tick("save")
  /\ saved' = Newest(saved, {"user"}, keep)
  /\ UNCHANGED <<orig, turns, sidecar, minted>>

WithoutRestores(list) ==
  SubList(list, {i \in DOMAIN list : list[i].kind # "auto" \/ list[i].label # "restore"})

RestoreFoldsAfter(i) ==
  /\ Tick("save")
  /\ saved' = WithoutRestores(Created(saved, "auto", "restore"))
  /\ turns' = FromMarkdown(saved[i].rows, saved[i].sidecar)
  /\ UNCHANGED <<orig, sidecar, minted>>

RestoreIngests(i) ==
  /\ Tick("save")
  /\ saved' = Created(WithoutRestores(saved), "auto", "restore")
  /\ turns' = FromMarkdown(saved[i].rows, saved[i].sidecar)
  /\ orig' = turns'
  /\ UNCHANGED <<sidecar, minted>>

\* snapshots.restore: one backup of the state before, in place of the last such.
Restore(i) ==
  /\ Tick("save")
  /\ saved' = Created(WithoutRestores(saved), "auto", "restore")
  /\ turns' = FromMarkdown(saved[i].rows, saved[i].sidecar)
  /\ UNCHANGED <<orig, sidecar, minted>>

\* h_reset.
ResetWorking ==
  /\ Tick("save")
  /\ saved' = Created(saved, "auto", "other")
  /\ turns' = orig
  /\ UNCHANGED <<orig, sidecar, minted>>

\* conflicts.resolve.
KeepMine(i) ==
  /\ Tick("edit")
  /\ turns[i].mark # NoMark
  /\ turns' = [turns EXCEPT ![i].mark = NoMark]
  /\ UNCHANGED minted
  /\ RestUnchanged

TakeTheirs(i) ==
  LET m == turns[i].id
      gone == turns[i].mark.kind = "deleted-upstream"
  IN
  /\ Tick("edit")
  /\ turns[i].mark # NoMark
  /\ gone \/ m \in Ids(orig)
  /\ saved' = Created(saved, "auto", "other")
  /\ turns' = IF gone THEN RemoveAt(turns, i)
              ELSE [turns EXCEPT ![i].body = At(orig, m).body, ![i].mark = NoMark]
  /\ UNCHANGED <<orig, sidecar, minted>>

-----------------------------------------------------------------------------
\* What RisuAI can send: its own turns and those shipped to it, each once.
Sent(ids, texts) ==
  [i \in DOMAIN ids |-> Row(ids[i], texts[i], IF ids[i] \in RisuIds THEN ids[i] ELSE NoExtra)]

Uploads ==
  UNION {{Sent(ids, texts) : texts \in [DOMAIN ids -> Bodies]} :
           ids \in {f \in SeqOf(RisuIds \cup minted, MaxTurns) : IsInjective(f)}}

EditRows ==
  \/ \E ms \in (SUBSET Ids(turns)) \ {{}} : \E texts \in [ms -> Bodies] : EditBodies(ms, texts)
  \/ \E ms \in (SUBSET Ids(turns)) \ {{}} : DropRows(ms)
  \/ \E i \in 0 .. Len(turns), m \in LocalIds \ minted, t \in Bodies : InsertRow(i, m, t)
  \/ \E i \in DOMAIN turns, m \in LocalIds \ minted, h, t \in Bodies : SplitRow(i, m, h, t)
  \/ \E ms \in SUBSET Ids(turns), t \in Bodies : Cardinality(ms) > 1 /\ FoldRows(ms, t)
  \/ \E i \in DOMAIN turns : KeepMine(i)
  \/ \E i \in DOMAIN turns : TakeTheirs(i)

KeepVersions ==
  \/ \E kind \in Kinds : Checkpoint(kind, "other")
  \/ \E i \in DOMAIN saved, label \in Labels : RenameCheckpoint(i, label)
  \/ \E i \in DOMAIN saved : DeleteCheckpoint(i)
  \/ \E keep \in 0 .. CheckpointKeep : ClearCheckpoints(keep)
  \/ \E i \in DOMAIN saved : Restore(i)
  \/ ResetWorking

RowsNext ==
  \/ \E theirs \in Uploads, force, live \in BOOLEAN : Upload(theirs, force, live)
  \/ EditRows
  \/ KeepVersions

RowsSpec == RowsInit /\ [][RowsNext]_rowsVars

-----------------------------------------------------------------------------
(* Properties.                                                             *)

\* The rows, however ordered and merged, are what TurnStore says they are:
\* the merge of the two lists is its merge of each turn.
ImplementsStore == Store!StoreSpec

(***************************************************************************)
(* What holds of the lists of rows: their types, that a msg_id names one   *)
(* row of a list - everything that addresses a turn, edits, the next       *)
(* merge, the write-back, takes the first row it finds (store.py, "turns   *)
(* are addressed by msg_id") - and that no list, those the checkpoints     *)
(* give back included, holds an id still to be minted.                     *)
(***************************************************************************)
EachOnce(list) == IsInjective([i \in DOMAIN list |-> list[i].id])
Held == {turns, orig} \cup {c.rows : c \in ToSet(saved)}

RowsSound ==
  /\ RowsTypeOK
  /\ \A list \in Held : EachOnce(list) /\ Ids(list) \subseteq RisuIds \cup minted
  /\ Len(saved) <= CheckpointKeep

(***************************************************************************)
(* A turn inserted in the panel and not shipped yet survives a re-open     *)
(* that does not force, right behind the turn it stood behind when RisuAI  *)
(* still has that one, or at the head if it stood there (_merge_turns).    *)
(***************************************************************************)
InsertedStay ==
  [][\A theirs \in {orig'}, live \in BOOLEAN : Upload(theirs, FALSE, live) =>
       \A i \in DOMAIN turns : turns[i].id \notin Known(theirs) =>
         \E k \in DOMAIN turns' :
           /\ turns'[k] = turns[i]
           /\ LET a == Anchor(turns, i, theirs)
              IN  a \in {"head"} \cup Ids(theirs) => Anchor(turns', k, theirs) = a]_rowsVars

(***************************************************************************)
(* A restore can be undone: it leaves exactly one "restore" backup, with   *)
(* the rows it replaced, whichever backups there were and however the user *)
(* renamed them (snapshots.restore, "restoring is itself undoable - but    *)
(* only ever one of them").                                                *)
(***************************************************************************)
RestoreIsUndoable ==
  [][\A i \in DOMAIN saved : Restore(i) =>
       LET backups == {j \in DOMAIN saved' : saved'[j].kind = "auto" /\ saved'[j].label = "restore"}
       IN  \E j \in DOMAIN saved' : backups = {j} /\ saved'[j].rows = turns]_rowsVars

(***************************************************************************)
(* Automatic backups never push out a version the user saved, as long as   *)
(* the whole list is within limits.checkpointKeep, and each of them keeps  *)
(* the rows about to be replaced as its newest entry (snapshots.prune_auto,*)
(* "Never touches a 'user' row, and never prunes to zero").                *)
(***************************************************************************)
BackedUp ==
  \/ Checkpoint("auto", "other")
  \/ \E i \in DOMAIN saved : Restore(i)
  \/ \E i \in DOMAIN turns : TakeTheirs(i)
  \/ ResetWorking

UserSaves(list) == SubList(list, {i \in DOMAIN list : list[i].kind = "user"})

SavesOutliveBackups ==
  [][BackedUp =>
       /\ Len(saved) < CheckpointKeep => UserSaves(saved') = UserSaves(saved)
       /\ Last(saved').kind = "auto" /\ Last(saved').rows = turns]_rowsVars

\* Versions can be relied on: a restore can be undone, and the backups it and
\* others take push out none of the user's (snapshots.restore, prune_auto).
VersionsHold == RestoreIsUndoable /\ SavesOutliveBackups

=============================================================================
