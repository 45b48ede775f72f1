----------------------------- MODULE TurnStore -----------------------------
(***************************************************************************)
(* The backend's copy of one chat (pyserver/app/store.py, merge.py,        *)
(* conflicts.py, snapshots.py): the WORKING turns the panel edits, the     *)
(* BASELINE - what RisuAI held at the last upload - and the conflict marks *)
(* the re-open merge leaves for the user to decide.                        *)
(*                                                                         *)
(* A turn is named by its msg_id.  A list of turns is a function from      *)
(* msg_ids to texts, NoTurn where the list lacks the turn: the order of    *)
(* the turns is left out, so is everything of a row but its text and its   *)
(* mark.  Every action below is one request handler, whose writes commit   *)
(* under db.LOCK.  Here an upload may bring any list at all; TurnSync      *)
(* composes this module with the RisuAI that really sends them.            *)
(***************************************************************************)
EXTENDS Naturals, FiniteSets

CONSTANTS
  RisuIds,     \* msg_ids RisuAI gives to turns of the chat
  LocalIds,    \* msg_ids store.new_msg_id() mints for turns inserted here
  Bodies,      \* turn texts
  NoTurn,      \* the list has no such turn
  Markdown,    \* what a text reads back as once written into a checkpoint
  MaxSnaps     \* bound: checkpoints kept of the chat

MsgIds == RisuIds \cup LocalIds
Texts == Bodies \cup {NoTurn}
ChatLists == [MsgIds -> Texts]
EmptyChat == [m \in MsgIds |-> NoTurn]

ASSUME StoreAssumption ==
  /\ NoTurn \notin Bodies
  /\ Markdown \in [Bodies -> Bodies]
  /\ MaxSnaps \in Nat \ {0}
  /\ RisuIds \cap LocalIds = {}

VARIABLES
  base,       \* turns_original: the baseline
  ours,       \* turns: the working copy
  flag,       \* turns.conflict_json
  minted,     \* the LocalIds given out so far
  snaps       \* checkpoints: the turns each of them gives back

storeVars == <<base, ours, flag, minted, snaps>>

(***************************************************************************)
(* conflict_json: the kind, and RisuAI's side as the conflict box shows it *)
(* (theirs is null, here NoTurn, when RisuAI no longer has the turn).      *)
(***************************************************************************)
NoConflict == [kind |-> "none", theirs |-> NoTurn]
BothMoved(t) == [kind |-> "both-moved", theirs |-> t]
DeletedUpstream(t) == [kind |-> "deleted-upstream", theirs |-> t]

Flags == {NoConflict} \cup [kind : {"both-moved", "deleted-upstream"}, theirs : Texts]
NoFlags == [m \in MsgIds |-> NoConflict]
Flagged(m) == flag[m].kind # "none"

StoreTypeOK ==
  /\ base \in ChatLists
  /\ ours \in ChatLists
  /\ flag \in [MsgIds -> Flags]
  /\ minted \in SUBSET LocalIds
  /\ snaps \in SUBSET ChatLists

StoreInit ==
  /\ base = EmptyChat
  /\ ours = EmptyChat
  /\ flag = NoFlags
  /\ minted = {}
  /\ snaps = {}

-----------------------------------------------------------------------------
(***************************************************************************)
(* The three-way rule for a turn both lists hold: o here, b in the         *)
(* baseline, t in RisuAI now.  merge.decide at TIER_KEYED, dirty = False.  *)
(* The two variants are mutants the properties are tried on: a definition  *)
(* whose name ends in what was lost (NoAgreement, Unguarded, KeepsMark...) *)
(* is never used by the specification.                                     *)
(***************************************************************************)
DecideAlwaysAdopts(o, b, t) == IF t = b THEN "keep" ELSE "adopt"

DecideNoAgreement(o, b, t) ==
  IF t = b THEN "keep" ELSE IF o = b THEN "adopt" ELSE "conflict"

Decide(o, b, t) ==
  CASE t = b \/ t = o           -> "keep"
    [] t # b /\ t # o /\ o = b  -> "adopt"
    [] OTHER                    -> "conflict"

(***************************************************************************)
(* One turn of store._merge_turns: its working row once the list `theirs`  *)
(* has been merged, and the mark on that row.                              *)
(***************************************************************************)
MergedBody(m, theirs) ==
  LET o == ours[m]  b == base[m]  t == theirs[m] IN
  CASE t # NoTurn /\ o = NoTurn -> IF t = b THEN NoTurn ELSE t
    [] t # NoTurn /\ o # NoTurn ->
         IF b # NoTurn /\ Decide(o, b, t) = "adopt" THEN t ELSE o
    [] t = NoTurn               -> IF b # NoTurn /\ o = b THEN NoTurn ELSE o

MergedFlag(m, theirs) ==
  LET o == ours[m]  b == base[m]  t == theirs[m] IN
  CASE t # NoTurn /\ o = NoTurn ->
         IF b # NoTurn /\ b # t THEN DeletedUpstream(t) ELSE NoConflict
    [] t # NoTurn /\ o # NoTurn ->
         IF b # NoTurn /\ Decide(o, b, t) = "conflict" THEN BothMoved(t) ELSE NoConflict
    [] t = NoTurn /\ b = NoTurn -> flag[m]
    [] t = NoTurn /\ b # NoTurn ->
         IF o \in {b, NoTurn} THEN NoConflict ELSE DeletedUpstream(NoTurn)

(***************************************************************************)
(* store.ingest_chat.  An empty upload that neither `force` nor `live`     *)
(* vouches for is a stub of a chat RisuAI has not loaded: refused whole.   *)
(* The first load, and a forced one, make both copies RisuAI's list.       *)
(***************************************************************************)
Exists == \E m \in MsgIds : ours[m] # NoTurn \/ base[m] # NoTurn
RefusedUnlessForced(theirs, force, live) == theirs = EmptyChat /\ ~force
Refused(theirs, force, live) == theirs = EmptyChat /\ ~force /\ ~live

LoadWhole(theirs) ==
  /\ ours' = theirs
  /\ flag' = NoFlags

MergeIn(theirs) ==
  /\ ours' = [m \in MsgIds |-> MergedBody(m, theirs)]
  /\ flag' = [m \in MsgIds |-> MergedFlag(m, theirs)]

Ingest(theirs, force, live) ==
  /\ ~Refused(theirs, force, live)
  /\ base' = theirs
  /\ IF force \/ ~Exists THEN LoadWhole(theirs) ELSE MergeIn(theirs)
  /\ UNCHANGED <<minted, snaps>>

-----------------------------------------------------------------------------
(***************************************************************************)
(* Edits of the working copy.  A row that leaves takes its mark with it;   *)
(* one that stays keeps its mark until conflicts.resolve drops it.         *)
(***************************************************************************)
PutBody(m, text) == ours' = [ours EXCEPT ![m] = text]
DropMarks(ms) == flag' = [m \in MsgIds |-> IF m \in ms THEN NoConflict ELSE flag[m]]

\* h_turn_edit: store.set_body, refused when the turn is not `expect` any more.
SetBody(m, expect, text) ==
  /\ ours[m] # NoTurn
  /\ ours[m] = expect
  /\ PutBody(m, text)
  /\ UNCHANGED <<base, flag, minted, snaps>>

\* h_turn_bulk and h_turn_bulk_set: store.bulk_replace and bulk_set put the
\* texts into all the turns hit, or into none when one of them is gone.
BulkSet(hit, texts) ==
  /\ hit # {}
  /\ \A m \in hit : ours[m] # NoTurn
  /\ ours' = [m \in MsgIds |-> IF m \in hit THEN texts[m] ELSE ours[m]]
  /\ UNCHANGED <<base, flag, minted, snaps>>

DeleteTurnsKeepsMarks(ms) ==
  /\ \E m \in ms : ours[m] # NoTurn
  /\ ours' = [m \in MsgIds |-> IF m \in ms THEN NoTurn ELSE ours[m]]
  /\ UNCHANGED <<base, flag, minted, snaps>>

\* h_turn_delete: store.delete_turns and delete_range.
DeleteTurns(ms) ==
  /\ \E m \in ms : ours[m] # NoTurn
  /\ ours' = [m \in MsgIds |-> IF m \in ms THEN NoTurn ELSE ours[m]]
  /\ DropMarks(ms)
  /\ UNCHANGED <<base, minted, snaps>>

InsertTurnReusesId(m, text) ==
  /\ m \in LocalIds
  /\ PutBody(m, text)
  /\ UNCHANGED <<base, flag, minted, snaps>>

\* h_turn_insert: store.insert_turn mints an id nobody has seen.
InsertTurn(m, text) ==
  /\ m \in LocalIds \ minted
  /\ minted' = minted \cup {m}
  /\ PutBody(m, text)
  /\ UNCHANGED <<base, flag, snaps>>

\* h_turn_split: store.split_turn, the tail goes to a turn of its own.
SplitTurn(m, n, head, tail) ==
  /\ ours[m] # NoTurn
  /\ n \in LocalIds \ minted
  /\ minted' = minted \cup {n}
  /\ ours' = [ours EXCEPT ![m] = head, ![n] = tail]
  /\ UNCHANGED <<base, flag, snaps>>

\* h_turn_merge: store.merge_turns folds several turns into the first of them.
FoldTurns(keep, others, text) ==
  /\ others # {} /\ keep \notin others
  /\ \A m \in others \cup {keep} : ours[m] # NoTurn
  /\ ours' = [m \in MsgIds |-> IF m = keep THEN text
                               ELSE IF m \in others THEN NoTurn ELSE ours[m]]
  /\ DropMarks(others)
  /\ UNCHANGED <<base, minted, snaps>>

-----------------------------------------------------------------------------
\* A checkpoint keeps the turns as Markdown (chatfmt.decode and encode), which
\* drops the blank lines around a text and its lines that look like hints.
InMarkdown(list) ==
  [m \in MsgIds |-> IF list[m] = NoTurn THEN NoTurn ELSE Markdown[list[m]]]

\* snapshots.create: the newest checkpoint, which pushes older ones out
\* (prune_auto keeps the last few automatic ones, checkpointKeep bounds all).
TakeSnapshot ==
  \E kept \in SUBSET snaps :
    /\ snaps' = kept \cup {InMarkdown(ours)}
    /\ Cardinality(snaps') <= MaxSnaps

(***************************************************************************)
(* conflicts.resolve for kind "turn".  "mine" drops the mark.  "theirs"    *)
(* snapshots, then deletes the row when the kind is deleted-upstream and   *)
(* puts the baseline into it otherwise.                                    *)
(***************************************************************************)
KeepMine(m) ==
  /\ Flagged(m)
  /\ DropMarks({m})
  /\ UNCHANGED <<base, ours, minted, snaps>>

TakeTheirs(m) ==
  /\ Flagged(m)
  /\ flag[m].kind = "deleted-upstream" \/ base[m] # NoTurn
  /\ PutBody(m, IF flag[m].kind = "deleted-upstream" THEN NoTurn ELSE base[m])
  /\ DropMarks({m})
  /\ TakeSnapshot
  /\ UNCHANGED <<base, minted>>

\* h_checkpoint_create.
Checkpoint ==
  /\ TakeSnapshot
  /\ UNCHANGED <<base, ours, flag, minted>>

\* h_checkpoint_delete and h_checkpoint_clear.
DropSnapshots(gone) ==
  /\ gone # {}
  /\ snaps' = snaps \ gone
  /\ UNCHANGED <<base, ours, flag, minted>>

\* h_checkpoint_restore: the current state is snapshotted first, then
\* store.restore_turns rewrites the working turns and leaves the baseline.
Restore(s) ==
  /\ s \in snaps
  /\ TakeSnapshot
  /\ ours' = s
  /\ flag' = NoFlags
  /\ UNCHANGED <<base, minted>>

\* h_reset: snapshot, then store.reset_working.
ResetWorking ==
  /\ TakeSnapshot
  /\ ours' = base
  /\ flag' = NoFlags
  /\ UNCHANGED <<base, minted>>

-----------------------------------------------------------------------------
(***************************************************************************)
(* What the user, or an approved proposal, does to the working copy.       *)
(***************************************************************************)
LocalEdit ==
  \/ \E m \in MsgIds, b, t \in Bodies : t # b /\ SetBody(m, b, t)
  \/ \E ms \in SUBSET MsgIds : \E texts \in [ms -> Bodies] : BulkSet(ms, texts)
  \/ \E ms \in SUBSET MsgIds : DeleteTurns(ms)
  \/ \E m \in LocalIds, t \in Bodies : InsertTurn(m, t)
  \/ \E m \in MsgIds, n \in LocalIds, h, t \in Bodies : m # n /\ SplitTurn(m, n, h, t)
  \/ \E m \in MsgIds, ms \in SUBSET MsgIds, t \in Bodies : FoldTurns(m, ms, t)

Settle ==
  \/ \E m \in MsgIds : KeepMine(m)
  \/ \E m \in MsgIds : TakeTheirs(m)
  \/ Checkpoint
  \/ \E gone \in SUBSET snaps : DropSnapshots(gone)
  \/ \E s \in snaps : Restore(s)
  \/ ResetWorking

\* RisuAI can only hold a local id that has been shipped to it.
OnlyMinted(list) == \A m \in LocalIds \ minted : list[m] = NoTurn
Sendable == {l \in ChatLists : OnlyMinted(l)}

StoreNext ==
  \/ \E theirs \in Sendable, force, live \in BOOLEAN : Ingest(theirs, force, live)
  \/ LocalEdit
  \/ Settle

StoreSpec == StoreInit /\ [][StoreNext]_storeVars

-----------------------------------------------------------------------------
(* Properties.                                                             *)

\* The copies kept here hold no turn of an id that is still to be minted.
StoreIdsMinted ==
  /\ OnlyMinted(base)
  /\ OnlyMinted(ours)
  /\ \A s \in snaps : OnlyMinted(s)

(***************************************************************************)
(* A conflict box tells the truth: RisuAI's side as it was recorded in     *)
(* conflict_json is the baseline the row would be compared with and        *)
(* written over, however many re-opens came after the one that raised it,  *)
(* and only a row that exists carries a box (conflicts.py, "the baseline   *)
(* moves to RisuAI's current value, so the two sides of the diff are       *)
(* exactly mine and RisuAI's").                                            *)
(***************************************************************************)
ConflictBoxIsCurrent ==
  \A m \in MsgIds : Flagged(m) => ours[m] # NoTurn /\ flag[m].theirs = base[m]

\* What holds of one chat's state whatever is uploaded, edited and decided: its
\* types, and boxes that tell the truth.
StoreSound == StoreTypeOK /\ ConflictBoxIsCurrent


\* An ordinary re-open: an upload that does not force.  The list it brought
\* is the baseline after it.
Reopen(theirs) == \E live \in BOOLEAN : Ingest(theirs, FALSE, live)

(***************************************************************************)
(* A re-open never overwrites or drops work in progress: a turn edited or  *)
(* inserted here keeps its text whatever RisuAI now holds, and a deletion  *)
(* made here is undone only to put RisuAI's newer text back under a        *)
(* conflict (store.ingest_chat, "never discards edits in progress").       *)
(***************************************************************************)
KeepsWork ==
  \A m \in MsgIds : ours[m] # base[m] =>
    \/ ours'[m] = ours[m]
    \/ /\ ours[m] = NoTurn
       /\ ours'[m] = base'[m]
       /\ flag'[m] = DeletedUpstream(base'[m])

ReopenKeepsWork == [][Reopen(base') => KeepsWork]_storeVars

(***************************************************************************)
(* When RisuAI holds exactly what the panel holds - a write-back whose     *)
(* commit or re-upload was lost - the next re-open reads that as agreement *)
(* (main.h_commit): no text moves, nothing is left pending, and no new     *)
(* conflict is raised.                                                     *)
(***************************************************************************)
AgreementIsClean ==
  [][Exists /\ Reopen(ours) => /\ ours' = ours
                               /\ base' = ours
                               /\ flag' = NoFlags]_storeVars

(***************************************************************************)
(* A turn leaves the working copy in a re-open only when RisuAI's list     *)
(* lacks it and nobody had touched it here; an empty list nobody vouched   *)
(* for removes nothing (store.ingest_chat on stubs).                       *)
(***************************************************************************)
DropsOnlyGone(live) ==
  \A m \in MsgIds : ours[m] # NoTurn /\ ours'[m] = NoTurn =>
    /\ base'[m] = NoTurn
    /\ ours[m] = base[m]
    /\ live \/ base' # EmptyChat

ReopenDropsOnlyGone ==
  [][\A live \in BOOLEAN : Ingest(base', FALSE, live) => DropsOnlyGone(live)]_storeVars

\* A re-open is safe: no work in progress is overwritten or dropped, and nothing
\* leaves that RisuAI still has or that nobody vouched for (store.ingest_chat).
ReopenIsSafe == ReopenKeepsWork /\ ReopenDropsOnlyGone


=============================================================================
