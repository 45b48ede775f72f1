----------------------------- MODULE ChatProofs -----------------------------
(***************************************************************************)
(* Proofs about a chat: TurnStore, and the two modules built upon it,      *)
(* TurnSync and Staging, for any turns, texts, threads and bounds.         *)
(***************************************************************************)
EXTENDS Staging, TurnSync, TLAPS

-----------------------------------------------------------------------------
(***************************************************************************)
(* Proofs about TurnStore, for any number of turns, texts and re-opens.    *)
(*                                                                         *)
(* The inductive invariant is the type invariant with ConflictBoxIsCurrent:*)
(* a re-open carries the mark of a row that neither list has, so the new   *)
(* mark is right only because the old one was.                             *)
(***************************************************************************)

StoreInv == StoreTypeOK /\ ConflictBoxIsCurrent

\* A merge yields a text, or the absence of one, for every turn.
LEMMA MergedBodyType ==
  ASSUME StoreTypeOK, NEW theirs \in ChatLists, NEW m \in MsgIds
  PROVE  MergedBody(m, theirs) \in Texts
BY DEF StoreTypeOK, ChatLists, MergedBody, Texts

\* A mark is a kind and RisuAI's side of the turn.
LEMMA MergedFlagType ==
  ASSUME StoreTypeOK, NEW theirs \in ChatLists, NEW m \in MsgIds
  PROVE  MergedFlag(m, theirs) \in Flags
<1>1. /\ ours[m] \in Texts
      /\ base[m] \in Texts
      /\ theirs[m] \in Texts
      /\ flag[m] \in Flags
  BY DEF StoreTypeOK, ChatLists
<1>2. NoTurn \in Texts
  BY DEF Texts
<1>3. \A t \in Texts : BothMoved(t) \in Flags /\ DeletedUpstream(t) \in Flags
  BY DEF BothMoved, DeletedUpstream, Flags
<1>4. NoConflict \in Flags
  BY <1>2 DEF NoConflict, Flags
<1> QED
  BY <1>1, <1>2, <1>3, <1>4 DEF MergedFlag

\* The mark a merge leaves is on a row that is there, and shows RisuAI's
\* list as it was just uploaded.
LEMMA MergedMarkIsCurrent ==
  ASSUME StoreInv, NEW theirs \in ChatLists, NEW m \in MsgIds,
         MergedFlag(m, theirs).kind # "none"
  PROVE  MergedBody(m, theirs) # NoTurn /\ MergedFlag(m, theirs).theirs = theirs[m]
<1>1. Flagged(m) => ours[m] # NoTurn /\ flag[m].theirs = base[m]
  BY DEF StoreInv, ConflictBoxIsCurrent
<1>2. NoConflict.kind = "none"
  BY DEF NoConflict
<1>3. \A t : BothMoved(t).theirs = t /\ DeletedUpstream(t).theirs = t
  BY DEF BothMoved, DeletedUpstream
<1>4. CASE theirs[m] # NoTurn /\ ours[m] = NoTurn
  BY <1>2, <1>3, <1>4 DEF MergedFlag, MergedBody
<1>5. CASE theirs[m] # NoTurn /\ ours[m] # NoTurn
  BY <1>2, <1>3, <1>5 DEF MergedFlag, MergedBody
<1>6. CASE theirs[m] = NoTurn /\ base[m] = NoTurn
  <2>1. MergedFlag(m, theirs) = flag[m]
    BY <1>6 DEF MergedFlag
  <2>2. MergedBody(m, theirs) = ours[m]
    BY <1>6 DEF MergedBody
  <2> QED
    BY <1>1, <1>6, <2>1, <2>2 DEF Flagged
<1>7. CASE theirs[m] = NoTurn /\ base[m] # NoTurn
  BY <1>2, <1>3, <1>7 DEF MergedFlag, MergedBody
<1> QED
  BY <1>4, <1>5, <1>6, <1>7

\* What the edits do to the marks: dropped on some rows, kept on the others.
LEMMA DropMarksType ==
  ASSUME StoreTypeOK, NEW ms, DropMarks(ms)
  PROVE  flag' \in [MsgIds -> Flags]
<1>1. NoConflict \in Flags
  BY DEF NoConflict, Flags, Texts
<1> QED
  BY <1>1 DEF StoreTypeOK, DropMarks

LEMMA NoFlagsType ==
  /\ NoFlags \in [MsgIds -> Flags]
  /\ \A m \in MsgIds : NoFlags[m].kind = "none"
BY DEF NoFlags, NoConflict, Flags, Texts

\* Only an upload moves the baseline; an action that keeps the marks of the
\* rows it keeps, and takes away those of the rows it removes, keeps the
\* boxes right.
LEMMA BoxesKept ==
  ASSUME StoreInv, UNCHANGED base,
         \A m \in MsgIds : \/ flag'[m].kind = "none"
                           \/ flag'[m] = flag[m] /\ (ours[m] # NoTurn => ours'[m] # NoTurn)
  PROVE  ConflictBoxIsCurrent'
BY DEF StoreInv, ConflictBoxIsCurrent, Flagged

\* A checkpoint holds lists of texts.
LEMMA SnapsType ==
  ASSUME StoreTypeOK, TakeSnapshot
  PROVE  snaps' \in SUBSET ChatLists
<1>1. InMarkdown(ours) \in ChatLists
  BY StoreAssumption DEF StoreTypeOK, InMarkdown, ChatLists, Texts
<1> QED
  BY <1>1 DEF StoreTypeOK, TakeSnapshot

-----------------------------------------------------------------------------
\* An upload of any list, refused or merged, keeps the invariant.
LEMMA IngestInv ==
  ASSUME StoreInv, NEW theirs \in ChatLists, NEW force \in BOOLEAN, NEW live \in BOOLEAN,
         Ingest(theirs, force, live)
  PROVE  StoreInv'
<1>1. base' = theirs /\ UNCHANGED <<minted, snaps>>
  BY DEF Ingest
<1>2. CASE LoadWhole(theirs)
  <2>1. ours' = theirs /\ flag' = NoFlags
    BY <1>2 DEF LoadWhole
  <2>2. StoreTypeOK'
    BY <1>1, <2>1, NoFlagsType DEF StoreInv, StoreTypeOK
  <2>3. ConflictBoxIsCurrent'
    BY <2>1, NoFlagsType DEF ConflictBoxIsCurrent, Flagged
  <2> QED
    BY <2>2, <2>3 DEF StoreInv
<1>3. CASE MergeIn(theirs)
  <2>1. ours' \in ChatLists
    BY <1>3, MergedBodyType DEF MergeIn, ChatLists, StoreInv
  <2>2. flag' \in [MsgIds -> Flags]
    BY <1>3, MergedFlagType DEF MergeIn, StoreInv
  <2>4. StoreTypeOK'
    BY <1>1, <2>1, <2>2 DEF StoreInv, StoreTypeOK
  <2>5. ConflictBoxIsCurrent'
    <3> SUFFICES ASSUME NEW m \in MsgIds, flag'[m].kind # "none"
                 PROVE  ours'[m] # NoTurn /\ flag'[m].theirs = base'[m]
      BY DEF ConflictBoxIsCurrent, Flagged
    <3>1. flag'[m] = MergedFlag(m, theirs) /\ ours'[m] = MergedBody(m, theirs)
      BY <1>3 DEF MergeIn
    <3> QED
      BY <1>1, <3>1, MergedMarkIsCurrent
  <2> QED
    BY <2>4, <2>5 DEF StoreInv
<1> QED
  BY <1>2, <1>3 DEF Ingest

\* The panel's edits keep it.
LEMMA LocalEditInv ==
  ASSUME StoreInv, LocalEdit
  PROVE  StoreInv'
<1> USE StoreAssumption DEF StoreInv
<1>1. ASSUME NEW m \in MsgIds, NEW b \in Bodies, NEW t \in Bodies, SetBody(m, b, t)
      PROVE  StoreInv'
  <2>1. StoreTypeOK'
    BY <1>1 DEF SetBody, PutBody, StoreTypeOK, ChatLists, Texts
  <2>2. ConflictBoxIsCurrent'
    BY <1>1, BoxesKept DEF SetBody, PutBody, StoreTypeOK, ChatLists
  <2> QED
    BY <2>1, <2>2
<1>2. ASSUME NEW ms \in SUBSET MsgIds, NEW texts \in [ms -> Bodies], BulkSet(ms, texts)
      PROVE  StoreInv'
  <2>1. StoreTypeOK'
    BY <1>2 DEF BulkSet, StoreTypeOK, ChatLists, Texts
  <2>2. ConflictBoxIsCurrent'
    BY <1>2, BoxesKept DEF BulkSet
  <2> QED
    BY <2>1, <2>2
<1>3. ASSUME NEW ms \in SUBSET MsgIds, DeleteTurns(ms)
      PROVE  StoreInv'
  <2>1. flag' \in [MsgIds -> Flags]
    BY <1>3, DropMarksType DEF DeleteTurns
  <2>2. StoreTypeOK'
    BY <1>3, <2>1 DEF DeleteTurns, StoreTypeOK, ChatLists, Texts
  <2>3. ConflictBoxIsCurrent'
    BY <1>3, BoxesKept DEF DeleteTurns, DropMarks, NoConflict
  <2> QED
    BY <2>2, <2>3
<1>4. ASSUME NEW m \in LocalIds, NEW t \in Bodies, InsertTurn(m, t)
      PROVE  StoreInv'
  <2>1. StoreTypeOK'
    BY <1>4 DEF InsertTurn, PutBody, StoreTypeOK, ChatLists, Texts, MsgIds
  <2>2. ConflictBoxIsCurrent'
    BY <1>4, BoxesKept DEF InsertTurn, PutBody, StoreTypeOK, ChatLists
  <2> QED
    BY <2>1, <2>2
<1>5. ASSUME NEW m \in MsgIds, NEW n \in LocalIds, NEW h \in Bodies, NEW t \in Bodies,
             m # n, SplitTurn(m, n, h, t)
      PROVE  StoreInv'
  <2>1. StoreTypeOK'
    BY <1>5 DEF SplitTurn, StoreTypeOK, ChatLists, Texts, MsgIds
  <2>2. ConflictBoxIsCurrent'
    BY <1>5, BoxesKept DEF SplitTurn, StoreTypeOK, ChatLists
  <2> QED
    BY <2>1, <2>2
<1>6. ASSUME NEW m \in MsgIds, NEW ms \in SUBSET MsgIds, NEW t \in Bodies, FoldTurns(m, ms, t)
      PROVE  StoreInv'
  <2>1. flag' \in [MsgIds -> Flags]
    BY <1>6, DropMarksType DEF FoldTurns
  <2>2. StoreTypeOK'
    BY <1>6, <2>1 DEF FoldTurns, StoreTypeOK, ChatLists, Texts
  <2>3. ConflictBoxIsCurrent'
    BY <1>6, BoxesKept DEF FoldTurns, DropMarks, NoConflict
  <2> QED
    BY <2>2, <2>3
<1> QED
  BY <1>1, <1>2, <1>3, <1>4, <1>5, <1>6 DEF LocalEdit

\* So do decisions, checkpoints, restores and resets.
LEMMA SettleInv ==
  ASSUME StoreInv, Settle
  PROVE  StoreInv'
<1> USE StoreAssumption DEF StoreInv
<1>1. ASSUME NEW m \in MsgIds, KeepMine(m)
      PROVE  StoreInv'
  <2>1. flag' \in [MsgIds -> Flags]
    BY <1>1, DropMarksType DEF KeepMine
  <2>2. StoreTypeOK'
    BY <1>1, <2>1 DEF KeepMine, StoreTypeOK
  <2>3. ConflictBoxIsCurrent'
    BY <1>1, BoxesKept DEF KeepMine, DropMarks, NoConflict
  <2> QED
    BY <2>2, <2>3
<1>2. ASSUME NEW m \in MsgIds, TakeTheirs(m)
      PROVE  StoreInv'
  <2>1. flag' \in [MsgIds -> Flags]
    BY <1>2, DropMarksType DEF TakeTheirs
  <2>2. StoreTypeOK'
    BY <1>2, <2>1, SnapsType DEF TakeTheirs, PutBody, StoreTypeOK, ChatLists, Texts
  <2>3. ConflictBoxIsCurrent'
    BY <1>2, BoxesKept DEF TakeTheirs, PutBody, DropMarks, NoConflict, StoreTypeOK, ChatLists
  <2> QED
    BY <2>2, <2>3
<1>3. CASE Checkpoint
  <2>1. StoreTypeOK'
    BY <1>3, SnapsType DEF Checkpoint, StoreTypeOK
  <2>2. ConflictBoxIsCurrent'
    BY <1>3, BoxesKept DEF Checkpoint
  <2> QED
    BY <2>1, <2>2
<1>4. ASSUME NEW gone \in SUBSET snaps, DropSnapshots(gone)
      PROVE  StoreInv'
  <2>1. StoreTypeOK'
    BY <1>4 DEF DropSnapshots, StoreTypeOK
  <2>2. ConflictBoxIsCurrent'
    BY <1>4, BoxesKept DEF DropSnapshots
  <2> QED
    BY <2>1, <2>2
<1>5. ASSUME NEW s \in snaps, Restore(s)
      PROVE  StoreInv'
  <2>1. StoreTypeOK'
    BY <1>5, NoFlagsType, SnapsType DEF Restore, StoreTypeOK
  <2>2. ConflictBoxIsCurrent'
    BY <1>5, NoFlagsType, BoxesKept DEF Restore
  <2> QED
    BY <2>1, <2>2
<1>6. CASE ResetWorking
  <2>1. StoreTypeOK'
    BY <1>6, NoFlagsType, SnapsType DEF ResetWorking, StoreTypeOK
  <2>2. ConflictBoxIsCurrent'
    BY <1>6, NoFlagsType, BoxesKept DEF ResetWorking
  <2> QED
    BY <2>1, <2>2
<1> QED
  BY <1>1, <1>2, <1>3, <1>4, <1>5, <1>6 DEF Settle

-----------------------------------------------------------------------------
LEMMA StoreInvInit == StoreInit => StoreInv
<1> SUFFICES ASSUME StoreInit PROVE StoreInv
  OBVIOUS
<1>1. EmptyChat \in ChatLists
  BY DEF EmptyChat, ChatLists, Texts
<1>2. StoreTypeOK
  BY <1>1, NoFlagsType DEF StoreInit, StoreTypeOK
<1>3. ConflictBoxIsCurrent
  BY NoFlagsType DEF StoreInit, ConflictBoxIsCurrent, Flagged
<1> QED
  BY <1>2, <1>3 DEF StoreInv

LEMMA StoreInvNext == StoreInv /\ [StoreNext]_storeVars => StoreInv'
<1> SUFFICES ASSUME StoreInv, [StoreNext]_storeVars PROVE StoreInv'
  OBVIOUS
<1>1. ASSUME NEW theirs \in Sendable, NEW force \in BOOLEAN, NEW live \in BOOLEAN,
             Ingest(theirs, force, live)
      PROVE  StoreInv'
  BY <1>1, IngestInv DEF Sendable
<1>2. CASE UNCHANGED storeVars
  BY <1>2 DEF storeVars, StoreInv, StoreTypeOK, ConflictBoxIsCurrent, Flagged
<1> QED
  BY <1>1, <1>2, LocalEditInv, SettleInv DEF StoreNext

\* Every variable keeps its type, and every conflict box shows the baseline
\* its row would be compared with and written over.
THEOREM StoreInvariant == StoreSpec => []StoreInv
<1> QED
  BY StoreInvInit, StoreInvNext, PTL DEF StoreSpec

THEOREM StoreTypeCorrect == StoreSpec => []StoreTypeOK
<1>1. StoreInv => StoreTypeOK
  BY DEF StoreInv
<1> QED
  BY <1>1, StoreInvariant, PTL

THEOREM BoxesAreCurrent == StoreSpec => []ConflictBoxIsCurrent
<1>1. StoreInv => ConflictBoxIsCurrent
  BY DEF StoreInv
<1> QED
  BY <1>1, StoreInvariant, PTL

-----------------------------------------------------------------------------
(***************************************************************************)
(* Ids.  minted only grows, and a text reaches a turn of the panel's own   *)
(* from a list that held it or from the action that mints its id.          *)
(***************************************************************************)
LEMMA MergeKeepsIds ==
  ASSUME OnlyMinted(ours), NEW theirs, OnlyMinted(theirs), MergeIn(theirs),
         minted' = minted
  PROVE  OnlyMinted(ours)'
<1> SUFFICES ASSUME NEW m \in LocalIds \ minted PROVE ours'[m] = NoTurn
  BY DEF OnlyMinted
<1>1. theirs[m] = NoTurn /\ ours[m] = NoTurn
  BY DEF OnlyMinted
<1>2. MergedBody(m, theirs) = NoTurn
  BY <1>1 DEF MergedBody
<1> QED
  BY <1>2 DEF MergeIn, MsgIds

LEMMA IngestIds ==
  ASSUME StoreInv, StoreIdsMinted, NEW theirs \in Sendable,
         NEW force \in BOOLEAN, NEW live \in BOOLEAN, Ingest(theirs, force, live)
  PROVE  StoreIdsMinted' /\ minted' = minted
<1>1. base' = theirs /\ minted' = minted /\ snaps' = snaps
  BY DEF Ingest
<1>2. OnlyMinted(theirs)
  BY DEF Sendable
<1>3. OnlyMinted(base)'
  BY <1>1, <1>2 DEF OnlyMinted
<1>4. (\A s \in snaps : OnlyMinted(s))'
  BY <1>1 DEF OnlyMinted, StoreIdsMinted
<1>5. OnlyMinted(ours)'
  <2>1. CASE LoadWhole(theirs)
    BY <1>1, <1>2, <2>1 DEF LoadWhole, OnlyMinted
  <2>2. CASE MergeIn(theirs)
    BY <1>1, <1>2, <2>2, MergeKeepsIds DEF StoreIdsMinted
  <2> QED
    BY <2>1, <2>2 DEF Ingest
<1> QED
  BY <1>1, <1>3, <1>4, <1>5 DEF StoreIdsMinted

LEMMA LocalEditIds ==
  ASSUME StoreInv, StoreIdsMinted, LocalEdit
  PROVE  StoreIdsMinted' /\ minted \subseteq minted'
<1> USE DEF StoreInv, StoreTypeOK, StoreIdsMinted, OnlyMinted, ChatLists
<1>1. ASSUME NEW m \in MsgIds, NEW b \in Bodies, NEW t \in Bodies, SetBody(m, b, t)
      PROVE  StoreIdsMinted' /\ minted \subseteq minted'
  BY <1>1 DEF SetBody, PutBody, MsgIds
<1>2. ASSUME NEW ms \in SUBSET MsgIds, NEW texts \in [ms -> Bodies], BulkSet(ms, texts)
      PROVE  StoreIdsMinted' /\ minted \subseteq minted'
  BY <1>2, StoreAssumption DEF BulkSet, MsgIds
<1>3. ASSUME NEW ms \in SUBSET MsgIds, DeleteTurns(ms)
      PROVE  StoreIdsMinted' /\ minted \subseteq minted'
  BY <1>3 DEF DeleteTurns, MsgIds
<1>4. ASSUME NEW m \in LocalIds, NEW t \in Bodies, InsertTurn(m, t)
      PROVE  StoreIdsMinted' /\ minted \subseteq minted'
  BY <1>4 DEF InsertTurn, PutBody, MsgIds
<1>5. ASSUME NEW m \in MsgIds, NEW n \in LocalIds, NEW h \in Bodies, NEW t \in Bodies,
             m # n, SplitTurn(m, n, h, t)
      PROVE  StoreIdsMinted' /\ minted \subseteq minted'
  BY <1>5 DEF SplitTurn, MsgIds
<1>6. ASSUME NEW m \in MsgIds, NEW ms \in SUBSET MsgIds, NEW t \in Bodies, FoldTurns(m, ms, t)
      PROVE  StoreIdsMinted' /\ minted \subseteq minted'
  BY <1>6 DEF FoldTurns, MsgIds
<1> QED
  BY <1>1, <1>2, <1>3, <1>4, <1>5, <1>6 DEF LocalEdit

LEMMA SnapshotIds ==
  ASSUME StoreIdsMinted, TakeSnapshot
  PROVE  \A s \in snaps' : OnlyMinted(s)
<1>1. OnlyMinted(InMarkdown(ours))
  BY DEF StoreIdsMinted, OnlyMinted, InMarkdown, MsgIds
<1> QED
  BY <1>1 DEF StoreIdsMinted, TakeSnapshot

LEMMA SettleIds ==
  ASSUME StoreInv, StoreIdsMinted, Settle
  PROVE  StoreIdsMinted' /\ minted \subseteq minted'
<1> USE DEF StoreInv, StoreTypeOK, StoreIdsMinted, OnlyMinted, ChatLists
<1>1. ASSUME NEW m \in MsgIds, KeepMine(m)
      PROVE  StoreIdsMinted' /\ minted \subseteq minted'
  BY <1>1 DEF KeepMine
<1>2. ASSUME NEW m \in MsgIds, TakeTheirs(m)
      PROVE  StoreIdsMinted' /\ minted \subseteq minted'
  BY <1>2, SnapshotIds DEF TakeTheirs, PutBody, MsgIds
<1>3. CASE Checkpoint
  BY <1>3, SnapshotIds DEF Checkpoint
<1>4. ASSUME NEW gone \in SUBSET snaps, DropSnapshots(gone)
      PROVE  StoreIdsMinted' /\ minted \subseteq minted'
  BY <1>4 DEF DropSnapshots
<1>5. ASSUME NEW s \in snaps, Restore(s)
      PROVE  StoreIdsMinted' /\ minted \subseteq minted'
  BY <1>5, SnapshotIds DEF Restore
<1>6. CASE ResetWorking
  BY <1>6, SnapshotIds DEF ResetWorking
<1> QED
  BY <1>1, <1>2, <1>3, <1>4, <1>5, <1>6 DEF Settle

-----------------------------------------------------------------------------
(***************************************************************************)
(* The action properties.  A first load finds nothing to keep: without a   *)
(* turn in either copy, both are empty.                                    *)
(***************************************************************************)
LEMMA ReopenCases ==
  ASSUME NEW theirs, NEW live, Ingest(theirs, FALSE, live)
  PROVE  \/ MergeIn(theirs)
         \/ LoadWhole(theirs) /\ \A m \in MsgIds : ours[m] = NoTurn /\ base[m] = NoTurn
BY DEF Ingest, Exists

\* A re-open never overwrites or drops work in progress.
THEOREM ReopenKeepsEdits == StoreSpec => ReopenKeepsWork
<1>1. ASSUME StoreTypeOK, Reopen(base')
      PROVE  KeepsWork
  <2> DEFINE theirs == base'
  <2> SUFFICES ASSUME NEW m \in MsgIds, ours[m] # base[m]
               PROVE  \/ ours'[m] = ours[m]
                      \/ /\ ours[m] = NoTurn
                         /\ ours'[m] = theirs[m]
                         /\ flag'[m] = DeletedUpstream(theirs[m])
    BY DEF KeepsWork
  <2>1. MergeIn(theirs)
    BY <1>1, ReopenCases DEF Reopen
  <2>2. ours'[m] = MergedBody(m, theirs) /\ flag'[m] = MergedFlag(m, theirs)
    BY <2>1 DEF MergeIn
  <2>3. CASE ours[m] = NoTurn
    BY <2>2, <2>3 DEF MergedBody, MergedFlag
  <2>4. CASE ours[m] # NoTurn /\ theirs[m] # NoTurn
    <3>1. Decide(ours[m], base[m], theirs[m]) # "adopt"
      BY <2>4 DEF Decide
    <3> QED
      BY <2>2, <2>4, <3>1 DEF MergedBody
  <2>5. CASE ours[m] # NoTurn /\ theirs[m] = NoTurn
    BY <2>2, <2>5 DEF MergedBody
  <2> QED
    BY <2>3, <2>4, <2>5
<1>2. StoreTypeOK => [Reopen(base') => KeepsWork]_storeVars
  BY <1>1
<1> QED
  BY <1>2, StoreTypeCorrect, PTL DEF ReopenKeepsWork

\* A re-open drops only turns RisuAI no longer has and nobody here touched.
THEOREM ReopenDropsNothingElse == StoreSpec => ReopenDropsOnlyGone
<1>1. ASSUME StoreTypeOK, NEW live \in BOOLEAN, Ingest(base', FALSE, live)
      PROVE  DropsOnlyGone(live)
  <2> DEFINE theirs == base'
  <2> SUFFICES ASSUME NEW m \in MsgIds, ours[m] # NoTurn, ours'[m] = NoTurn
               PROVE  /\ theirs[m] = NoTurn
                      /\ ours[m] = base[m]
                      /\ live \/ theirs # EmptyChat
    BY DEF DropsOnlyGone
  <2>1. MergeIn(theirs)
    BY <1>1, ReopenCases
  <2>2. ours'[m] = MergedBody(m, theirs)
    BY <2>1 DEF MergeIn
  <2>3. theirs[m] = NoTurn
    BY <2>2 DEF MergedBody
  <2>4. ours[m] = base[m]
    BY <2>2, <2>3 DEF MergedBody
  <2>5. live \/ theirs # EmptyChat
    BY <1>1 DEF Ingest, Refused
  <2> QED
    BY <2>3, <2>4, <2>5
<1>2. StoreTypeOK =>
        [\A live \in BOOLEAN : Ingest(base', FALSE, live) => DropsOnlyGone(live)]_storeVars
  BY <1>1
<1> QED
  BY <1>2, StoreTypeCorrect, PTL DEF ReopenDropsOnlyGone

\* A write-back that landed but was never committed is read as agreement.
\* A row both lists lack has no mark by ConflictBoxIsCurrent.
THEOREM AgreementLeavesNothing == StoreSpec => AgreementIsClean
<1>1. ASSUME StoreInv, Exists, Reopen(ours)
      PROVE  ours' = ours /\ base' = ours /\ flag' = NoFlags
  <2>1. base' = ours
    BY <1>1 DEF Reopen, Ingest
  <2>2. MergeIn(ours)
    BY <1>1 DEF Reopen, Ingest
  <2>3. ASSUME NEW m \in MsgIds
        PROVE  MergedBody(m, ours) = ours[m] /\ MergedFlag(m, ours) = NoConflict
    <3>1. Decide(ours[m], base[m], ours[m]) = "keep"
      BY DEF Decide
    <3>2. MergedBody(m, ours) = ours[m]
      BY <3>1 DEF MergedBody
    <3>3. CASE ours[m] # NoTurn
      BY <3>1, <3>2, <3>3 DEF MergedFlag
    <3>4. CASE ours[m] = NoTurn /\ base[m] # NoTurn
      BY <3>2, <3>4 DEF MergedFlag
    <3>5. CASE ours[m] = NoTurn /\ base[m] = NoTurn
      <4>1. flag[m] \in Flags /\ flag[m].kind = "none"
        BY <1>1, <3>5 DEF StoreInv, StoreTypeOK, ConflictBoxIsCurrent, Flagged
      <4>2. flag[m] = NoConflict
        BY <4>1 DEF Flags
      <4>3. MergedFlag(m, ours) = flag[m]
        BY <3>5 DEF MergedFlag
      <4> QED
        BY <3>2, <4>2, <4>3
    <3> QED
      BY <3>3, <3>4, <3>5
  <2>4. ours' = ours
    BY <1>1, <2>2, <2>3 DEF MergeIn, StoreInv, StoreTypeOK, ChatLists
  <2>5. flag' = NoFlags
    BY <2>2, <2>3 DEF MergeIn, NoFlags
  <2> QED
    BY <2>1, <2>4, <2>5
<1>2. StoreInv =>
        [Exists /\ Reopen(ours) => /\ ours' = ours
                                   /\ base' = ours
                                   /\ flag' = NoFlags]_storeVars
  BY <1>1
<1> QED
  BY <1>2, StoreInvariant, PTL DEF AgreementIsClean

\* The two invariants of a chat's copies together.
THEOREM StoreIsSound == StoreSpec => []StoreSound
BY StoreTypeCorrect, BoxesAreCurrent, PTL DEF StoreSound

\* The two promises of a re-open together (store.ingest_chat).
THEOREM ReopensAreSafe == StoreSpec => ReopenIsSafe
BY ReopenKeepsEdits, ReopenDropsNothingElse DEF ReopenIsSafe

-----------------------------------------------------------------------------
(***************************************************************************)
(* Proofs about TurnSync: it implements TurnStore, and what a write-back   *)
(* replaces in RisuAI or throws away here is never lost unseen.            *)
(***************************************************************************)

\* Once an upload was taken the panel has seen the whole baseline.
BaselineSeen == Loaded => \A m \in MsgIds : <<m, base[m]>> \in seen

\* What a write-back compares RisuAI with was a baseline when it was read.
PatchSeen ==
  w.pc \notin {"idle", "bar", "curRead"} => \A m \in MsgIds : <<m, w.orig[m]>> \in seen

\* The list a write-back is about to replace is one the host's guard let pass.
CheckedMatches == w.pc = "checked" => Matches(w.fresh)

\* From the commit to the re-read, what is pending here is in a snapshot.
PendingSnapped ==
  w.pc \in {"committed", "reread"} =>
    \E s \in snaps : \A m \in MsgIds : ours[m] # base[m] => s[m] = InMarkdown(ours)[m]

\* A write-back past the popover began on a chat an upload had loaded.
WriterLoaded == w.pc # "idle" => Loaded

SyncInv ==
  /\ SyncTypeOK
  /\ ConflictBoxIsCurrent
  /\ IdsAreMinted
  /\ BaselineSeen
  /\ PatchSeen
  /\ CheckedMatches
  /\ PendingSnapped
  /\ WriterLoaded

-----------------------------------------------------------------------------
(***************************************************************************)
(* The refinement: every step is a step of TurnStore or leaves it alone.   *)
(***************************************************************************)
LEMMA DeliverRefines ==
  ASSUME SyncInv, NEW u \in up, Deliver(u)
  PROVE  \/ UNCHANGED <<storeVars, seen>>
         \/ /\ u.msgs \in Sendable
            /\ Ingest(u.msgs, Forces(u), IsLive(u))
            /\ seen' = seen \cup {<<m, u.msgs[m]>> : m \in MsgIds}
<1>1. u \in Uploads /\ u.msgs \in ChatLists
  BY DEF SyncInv, SyncTypeOK, Uploads
<1>2. u.msgs \in Sendable
  BY <1>1 DEF SyncInv, IdsAreMinted, Sendable
<1> QED
  BY <1>2 DEF Deliver

LEMMA StepRefines ==
  ASSUME SyncInv, [SyncNext]_syncVars
  PROVE  [StoreNext]_storeVars
<1>1. CASE \E m \in MsgIds, t \in Texts : RisuEdit(m, t)
  BY <1>1 DEF RisuEdit
<1>2. CASE PanelEdit
  BY <1>2 DEF PanelEdit, StoreNext
<1>3. CASE \E mode \in UploadModes, stub \in BOOLEAN : Open(mode, stub)
  BY <1>3 DEF Open
<1>4. ASSUME NEW u \in up, Deliver(u)
      PROVE  [StoreNext]_storeVars
  <2>1. Forces(u) \in BOOLEAN /\ IsLive(u) \in BOOLEAN
    BY DEF Forces, IsLive
  <2> QED
    BY <1>4, <2>1, DeliverRefines DEF StoreNext
<1>5. CASE \E u \in up : Lose(u)
  BY <1>5 DEF Lose
<1>6. CASE BarOpen \/ PatchReadWorking
  BY <1>6 DEF BarOpen, PatchReadWorking, RestUnchanged
<1>7. CASE WriteStep
  BY <1>7 DEF WriteStep, PatchReadBaseline, HostCheck, HostSet, HostVerify, Commit, Reread,
              Abort, RestUnchanged, StoreNext, Settle
<1>8. CASE UNCHANGED syncVars
  BY <1>8 DEF syncVars, storeVars
<1> QED
  BY <1>1, <1>2, <1>3, <1>4, <1>5, <1>6, <1>7, <1>8 DEF SyncNext

\* Every store step, whichever actor takes it, keeps the store's invariant.
LEMMA StoreInvKept ==
  ASSUME SyncInv, [SyncNext]_syncVars
  PROVE  StoreInv'
<1>1. StoreInv
  BY DEF SyncInv, SyncTypeOK, StoreInv
<1> QED
  BY <1>1, StepRefines, StoreInvNext

LEMMA TickType ==
  ASSUME count \in [Counters -> Nat], NEW c \in Counters, Tick(c)
  PROVE  count' \in [Counters -> Nat]
BY DEF Tick

LEMMA IdleType == Idle \in Writes /\ Idle.pc = "idle"
BY DEF Idle, Write, Writes, Steps, EmptyChat, ChatLists, Texts

LEMMA ComposedType ==
  ASSUME SyncTypeOK
  PROVE  Composed \in ChatLists
BY DEF SyncTypeOK, Writes, Composed, ChatLists

LEMMA SyncTypeKept ==
  ASSUME SyncInv, [SyncNext]_syncVars
  PROVE  SyncTypeOK'
<1>0. StoreTypeOK'
  BY StoreInvKept DEF StoreInv
<1> USE DEF SyncInv, SyncTypeOK
<1>1. ASSUME NEW m \in MsgIds, NEW t \in Texts, RisuEdit(m, t)
      PROVE  SyncTypeOK'
  <2>1. count' \in [Counters -> Nat]
    BY <1>1, TickType DEF RisuEdit, Counters
  <2>2. risu' \in ChatLists
    BY <1>1 DEF RisuEdit, ChatLists
  <2> QED
    BY <1>0, <1>1, <2>1, <2>2 DEF RisuEdit
<1>2. CASE PanelEdit
  <2>1. count' \in [Counters -> Nat]
    BY <1>2, TickType DEF PanelEdit, Counters
  <2> QED
    BY <1>0, <1>2, <2>1 DEF PanelEdit
<1>3. ASSUME NEW mode \in UploadModes, NEW stub \in BOOLEAN, Open(mode, stub)
      PROVE  SyncTypeOK'
  <2>1. EmptyChat \in ChatLists
    BY DEF EmptyChat, ChatLists, Texts
  <2>2. Upload(IF stub THEN EmptyChat ELSE risu, mode) \in Uploads
    BY <2>1 DEF Upload, Uploads
  <2> QED
    BY <1>0, <1>3, <2>2 DEF Open
<1>4. ASSUME NEW u \in up, Deliver(u)
      PROVE  SyncTypeOK'
  <2>1. u.msgs \in ChatLists
    BY DEF Uploads
  <2>2. seen' \in SUBSET (MsgIds \X Texts)
    BY <1>4, <2>1, DeliverRefines DEF ChatLists
  <2>3. w' \in Writes
    BY <1>4, IdleType DEF Deliver
  <2> QED
    BY <1>0, <1>4, <2>2, <2>3 DEF Deliver
<1>5. ASSUME NEW u \in up, Lose(u)
      PROVE  SyncTypeOK'
  BY <1>0, <1>5 DEF Lose
<1>6. CASE BarOpen
  BY <1>0, <1>6 DEF BarOpen, RestUnchanged, Goto, Writes, Steps
<1>7. CASE PatchReadWorking
  <2>1. count' \in [Counters -> Nat]
    BY <1>7, TickType DEF PatchReadWorking, Counters
  <2>2. w' \in Writes
    BY <1>7 DEF PatchReadWorking, Write, Writes, Steps, StoreTypeOK, EmptyChat, ChatLists, Texts
  <2> QED
    BY <1>0, <1>7, <2>1, <2>2 DEF PatchReadWorking
<1>8. CASE PatchReadBaseline
  <2>1. w' \in Writes
    BY <1>8, IdleType DEF PatchReadBaseline, Write, Writes, Steps, StoreTypeOK, EmptyChat, ChatLists, Texts
  <2> QED
    BY <1>0, <1>8, <2>1 DEF PatchReadBaseline, RestUnchanged
<1>9. CASE HostCheck
  <2>1. w' \in Writes
    BY <1>9, IdleType DEF HostCheck, Write, Writes, Steps
  <2> QED
    BY <1>0, <1>9, <2>1 DEF HostCheck, RestUnchanged
<1>10. ASSUME NEW took \in BOOLEAN, HostSet(took)
       PROVE  SyncTypeOK'
  <2>1. risu' \in ChatLists
    BY <1>10, ComposedType DEF HostSet
  <2> QED
    BY <1>0, <1>10, <2>1 DEF HostSet, Goto, Writes, Steps
<1>11. CASE HostVerify
  BY <1>0, <1>11, IdleType DEF HostVerify, RestUnchanged, Writes, Steps
<1>12. CASE Commit
  BY <1>0, <1>12 DEF Commit, Goto, Writes, Steps
<1>13. CASE Reread
  <2>1. Upload(risu, "chatReset") \in Uploads
    BY DEF Upload, Uploads, UploadModes
  <2> QED
    BY <1>0, <1>13, <2>1 DEF Reread, Goto, Writes, Steps
<1>14. CASE Abort
  BY <1>0, <1>14, IdleType DEF Abort, RestUnchanged
<1>15. CASE UNCHANGED syncVars
  BY <1>0, <1>15 DEF syncVars
<1> QED
  BY <1>1, <1>2, <1>3, <1>4, <1>5, <1>6, <1>7, <1>8, <1>9, <1>10, <1>11, <1>12, <1>13,
     <1>14, <1>15 DEF SyncNext, WriteStep

-----------------------------------------------------------------------------
(***************************************************************************)
(* The other parts of the invariant.                                       *)
(***************************************************************************)
LEMMA StoreIdsKept ==
  ASSUME SyncInv, [SyncNext]_syncVars
  PROVE  StoreIdsMinted' /\ minted \subseteq minted'
<1>1. StoreInv /\ StoreIdsMinted
  BY DEF SyncInv, SyncTypeOK, StoreInv, IdsAreMinted
<1>2. ASSUME NEW theirs \in Sendable, NEW force \in BOOLEAN, NEW live \in BOOLEAN,
             Ingest(theirs, force, live)
      PROVE  StoreIdsMinted' /\ minted \subseteq minted'
  BY <1>1, <1>2, IngestIds
<1>3. CASE UNCHANGED storeVars
  BY <1>1, <1>3 DEF storeVars, StoreIdsMinted, OnlyMinted
<1> QED
  BY <1>1, <1>2, <1>3, StepRefines, LocalEditIds, SettleIds DEF StoreNext

\* A list without unminted ids stays one.
LEMMA OnlyMintedKept ==
  ASSUME SyncInv, [SyncNext]_syncVars, NEW list, OnlyMinted(list)
  PROVE  \A m \in LocalIds \ minted' : list[m] = NoTurn
BY StoreIdsKept DEF OnlyMinted

LEMMA ComposedOnlyMinted ==
  ASSUME OnlyMinted(w.cur), OnlyMinted(w.fresh)
  PROVE  OnlyMinted(Composed)
BY DEF OnlyMinted, Composed, MsgIds

LEMMA IdsKept ==
  ASSUME SyncInv, [SyncNext]_syncVars
  PROVE  IdsAreMinted'
<1>0. StoreIdsMinted'
  BY StoreIdsKept
<1>1. /\ OnlyMinted(ours) /\ OnlyMinted(risu) /\ OnlyMinted(w.cur) /\ OnlyMinted(w.fresh)
      /\ \A u \in up : OnlyMinted(u.msgs)
  BY DEF SyncInv, IdsAreMinted, StoreIdsMinted
<1>2. OnlyMinted(EmptyChat) /\ OnlyMinted(Composed)
  BY <1>1, ComposedOnlyMinted DEF OnlyMinted, EmptyChat, MsgIds
<1>3. OnlyMinted(risu)'
  <2>1. ASSUME NEW m \in MsgIds, NEW t \in Texts, RisuEdit(m, t)
        PROVE  OnlyMinted(risu)'
    BY <1>1, <2>1 DEF RisuEdit, OnlyMinted, MsgIds, SyncInv, SyncTypeOK, ChatLists, storeVars
  <2>2. risu' \in {risu, Composed} => OnlyMinted(risu)'
    BY <1>1, <1>2, OnlyMintedKept DEF OnlyMinted
  <2> QED
    BY <2>1, <2>2 DEF SyncNext, PanelEdit, Open, Deliver, Lose, BarOpen, PatchReadWorking,
       WriteStep, PatchReadBaseline, HostCheck, HostSet, HostVerify, Commit, Reread, Abort,
       RestUnchanged, syncVars
<1>4. (\A u \in up : OnlyMinted(u.msgs))'
  <2>1. ASSUME NEW u \in up', \/ u \in up
                              \/ u.msgs \in {EmptyChat, risu}
        PROVE  OnlyMinted(u.msgs)'
    BY <1>1, <1>2, <2>1, OnlyMintedKept DEF OnlyMinted
  <2>2. \A list, mode : Upload(list, mode).msgs = list
    BY DEF Upload
  <2>3. \A u \in up' : u \in up \/ u.msgs \in {EmptyChat, risu}
    BY <2>2 DEF SyncNext, RisuEdit, PanelEdit, Open, Deliver, Lose, BarOpen, PatchReadWorking,
       WriteStep, PatchReadBaseline, HostCheck, HostSet, HostVerify, Commit, Reread, Abort,
       RestUnchanged, syncVars
  <2> QED
    BY <2>1, <2>3
<1>5. OnlyMinted(w.cur)' /\ OnlyMinted(w.fresh)'
  <2>1. w \in Writes
    BY DEF SyncInv, SyncTypeOK
  <2>2. w'.cur \in {w.cur, ours, EmptyChat} /\ w'.fresh \in {w.fresh, risu, EmptyChat}
    BY <2>1 DEF Writes, Idle, Write, Goto, SyncNext, RisuEdit, PanelEdit, Open, Deliver, Lose,
       BarOpen, PatchReadWorking, WriteStep, PatchReadBaseline, HostCheck, HostSet, HostVerify,
       Commit, Reread, Abort, RestUnchanged, syncVars
  <2> QED
    BY <1>1, <1>2, <2>2, OnlyMintedKept DEF OnlyMinted
<1> QED
  BY <1>0, <1>3, <1>4, <1>5 DEF IdsAreMinted

\* Only an upload moves the baseline, and it brings what it was moved to.
LEMMA BaselineSeenKept ==
  ASSUME SyncInv, [SyncNext]_syncVars
  PROVE  BaselineSeen' /\ seen \subseteq seen' /\ (Loaded => Loaded')
<1>1. BaselineSeen
  BY DEF SyncInv
<1>2. ASSUME NEW u \in up, Deliver(u)
      PROVE  BaselineSeen' /\ seen \subseteq seen' /\ (Loaded => Loaded')
  <2>1. CASE UNCHANGED <<storeVars, seen>>
    BY <1>1, <2>1 DEF BaselineSeen, Loaded, storeVars
  <2>2. CASE /\ Ingest(u.msgs, Forces(u), IsLive(u))
             /\ seen' = seen \cup {<<m, u.msgs[m]>> : m \in MsgIds}
    <3>1. base' = u.msgs
      BY <2>2 DEF Ingest
    <3> QED
      BY <2>2, <3>1 DEF BaselineSeen, Loaded
  <2> QED
    BY <1>2, <2>1, <2>2, DeliverRefines
<1>3. CASE UNCHANGED <<base, seen>>
  BY <1>1, <1>3 DEF BaselineSeen, Loaded
<1>4. LocalEdit \/ Settle => UNCHANGED base
  BY DEF LocalEdit, SetBody, BulkSet, DeleteTurns, InsertTurn, SplitTurn, FoldTurns,
         Settle, KeepMine, TakeTheirs, Checkpoint, DropSnapshots, Restore, ResetWorking
<1> QED
  BY <1>2, <1>3, <1>4 DEF SyncNext, RisuEdit, PanelEdit, Open, Lose, BarOpen, PatchReadWorking,
     WriteStep, PatchReadBaseline, HostCheck, HostSet, HostVerify, Commit, Checkpoint, Reread,
     Abort, RestUnchanged, syncVars, storeVars

LEMMA WriterLoadedKept ==
  ASSUME SyncInv, [SyncNext]_syncVars
  PROVE  WriterLoaded'
<1>1. w'.pc = "idle" \/ w' = w \/ w.pc # "idle" \/ Loaded
  BY IdleType DEF SyncNext, RisuEdit, PanelEdit, Open, Deliver, Lose, BarOpen, PatchReadWorking,
     PanelFree, WriteStep, PatchReadBaseline, HostCheck, HostSet, HostVerify, Commit, Reread,
     Abort, RestUnchanged, syncVars
<1> QED
  BY <1>1, BaselineSeenKept DEF SyncInv, WriterLoaded

LEMMA PatchSeenKept ==
  ASSUME SyncInv, [SyncNext]_syncVars
  PROVE  PatchSeen'
<1>1. seen \subseteq seen'
  BY BaselineSeenKept
<1>2. w \in Writes
  BY DEF SyncInv, SyncTypeOK
<1>3. \/ w'.pc \in {"idle", "bar", "curRead"}
      \/ w'.orig = w.orig /\ w.pc \notin {"idle", "bar", "curRead"}
      \/ w'.orig = base /\ w.pc = "curRead" /\ base' = base
  BY <1>2 DEF Writes, Idle, Write, Goto, SyncNext, RisuEdit, PanelEdit, Open, Deliver, Lose,
     BarOpen, PatchReadWorking, PanelFree, WriteStep, PatchReadBaseline, HostCheck, HostSet,
     HostVerify, Commit, Reread, Abort, RestUnchanged, syncVars, storeVars
<1>4. CASE w'.orig = w.orig /\ w.pc \notin {"idle", "bar", "curRead"}
  BY <1>1, <1>4 DEF SyncInv, PatchSeen
<1>5. CASE w'.orig = base /\ w.pc = "curRead" /\ base' = base
  <2>1. Loaded
    BY <1>5 DEF SyncInv, WriterLoaded
  <2> QED
    BY <1>1, <1>5, <2>1 DEF SyncInv, BaselineSeen, PatchSeen
<1> QED
  BY <1>3, <1>4, <1>5 DEF PatchSeen

LEMMA CheckedMatchesKept ==
  ASSUME SyncInv, [SyncNext]_syncVars
  PROVE  CheckedMatches'
<1>1. w \in Writes
  BY DEF SyncInv, SyncTypeOK
<1>2. \/ w'.pc # "checked"
      \/ w' = w
      \/ w' = Write("checked", w.cur, w.orig, risu) /\ Matches(risu)
  BY <1>1 DEF Writes, Idle, Write, Goto, SyncNext, RisuEdit, PanelEdit, Open, Deliver, Lose,
     BarOpen, PatchReadWorking, WriteStep, PatchReadBaseline, HostCheck, HostSet, HostVerify,
     Commit, Reread, Abort, RestUnchanged, syncVars
<1>3. CASE w' = w
  BY <1>3 DEF SyncInv, CheckedMatches, Matches, Structural
<1>4. CASE w' = Write("checked", w.cur, w.orig, risu) /\ Matches(risu)
  <2>1. w'.cur = w.cur /\ w'.orig = w.orig /\ w'.fresh = risu
    BY <1>4 DEF Write
  <2> QED
    BY <1>4, <2>1 DEF CheckedMatches, Matches, Structural
<1> QED
  BY <1>2, <1>3, <1>4 DEF CheckedMatches

\* What is pending after an upload was pending before it, with the same text.
LEMMA PendingOnlyStays ==
  ASSUME SyncTypeOK, NEW theirs \in ChatLists, NEW force, NEW live,
         Ingest(theirs, force, live), NEW m \in MsgIds, ours'[m] # base'[m]
  PROVE  ours'[m] = ours[m] /\ ours[m] # base[m]
<1>1. base'[m] = theirs[m]
  BY DEF Ingest
<1>2. ~LoadWhole(theirs)
  BY <1>1 DEF LoadWhole
<1>3. ours'[m] = MergedBody(m, theirs)
  BY <1>2 DEF Ingest, MergeIn
<1>4. CASE theirs[m] # NoTurn /\ ours[m] = NoTurn
  BY <1>1, <1>3, <1>4 DEF MergedBody
<1>5. CASE theirs[m] # NoTurn /\ ours[m] # NoTurn
  BY <1>1, <1>3, <1>5 DEF MergedBody, Decide
<1>6. CASE theirs[m] = NoTurn
  BY <1>1, <1>3, <1>6 DEF MergedBody
<1> QED
  BY <1>4, <1>5, <1>6

LEMMA PendingSnappedKept ==
  ASSUME SyncInv, [SyncNext]_syncVars
  PROVE  PendingSnapped'
<1>1. w \in Writes /\ SyncTypeOK
  BY DEF SyncInv, SyncTypeOK
<1>2. CASE Commit
  <2>1. InMarkdown(ours) \in snaps' /\ ours' = ours
    BY <1>2 DEF Commit, Checkpoint, TakeSnapshot
  <2> QED
    BY <2>1 DEF PendingSnapped, InMarkdown
<1>3. ASSUME NEW u \in up, Deliver(u), w'.pc \in {"committed", "reread"}
      PROVE  PendingSnapped'
  <2>1. w' = w
    BY <1>3, IdleType DEF Deliver
  <2>2. CASE UNCHANGED storeVars
    BY <1>3, <2>1, <2>2 DEF SyncInv, PendingSnapped, storeVars
  <2>3. CASE u.msgs \in Sendable /\ Ingest(u.msgs, Forces(u), IsLive(u))
    <3>1. snaps' = snaps
      BY <2>3 DEF Ingest
    <3>2. \A m \in MsgIds : ours'[m] # base'[m] => ours'[m] = ours[m] /\ ours[m] # base[m]
      BY <1>1, <2>3, PendingOnlyStays DEF Sendable
    <3> QED
      BY <1>3, <2>1, <3>1, <3>2 DEF SyncInv, PendingSnapped, InMarkdown
  <2> QED
    BY <1>3, <2>2, <2>3, DeliverRefines
<1>4. \/ w'.pc \notin {"committed", "reread"}
      \/ Commit
      \/ \E u \in up : Deliver(u)
      \/ w.pc \in {"committed", "reread"} /\ UNCHANGED <<base, ours, snaps>>
  BY <1>1 DEF Writes, Idle, Write, Goto, SyncNext, RisuEdit, PanelEdit, Open, Lose, PanelFree,
     BarOpen, PatchReadWorking, WriteStep, PatchReadBaseline, HostCheck, HostSet, HostVerify,
     Reread, Abort, RestUnchanged, syncVars, storeVars
<1>5. CASE w.pc \in {"committed", "reread"} /\ UNCHANGED <<base, ours, snaps>>
  BY <1>5 DEF SyncInv, PendingSnapped
<1> QED
  BY <1>2, <1>3, <1>4, <1>5 DEF PendingSnapped

-----------------------------------------------------------------------------
LEMMA SyncInvInit == SyncInit => SyncInv
<1> SUFFICES ASSUME SyncInit PROVE SyncInv
  OBVIOUS
<1>1. StoreInv
  BY StoreInvInit DEF SyncInit
<1>2. SyncTypeOK
  BY <1>1, IdleType DEF SyncInit, SyncTypeOK, StoreInv
<1>3. OnlyMinted(EmptyChat) /\ OnlyMinted(risu)
  BY DEF SyncInit, OnlyMinted, EmptyChat, MsgIds
<1>4. IdsAreMinted
  BY <1>3 DEF SyncInit, StoreInit, IdsAreMinted, StoreIdsMinted, Idle, Write
<1>5. w.pc = "idle" /\ ~Loaded
  BY IdleType DEF SyncInit, Loaded
<1> QED
  BY <1>1, <1>2, <1>4, <1>5 DEF SyncInv, StoreInv, BaselineSeen, PatchSeen, CheckedMatches,
     PendingSnapped, WriterLoaded

LEMMA SyncInvNext == SyncInv /\ [SyncNext]_syncVars => SyncInv'
BY StoreInvKept, SyncTypeKept, IdsKept, BaselineSeenKept, PatchSeenKept, CheckedMatchesKept,
   PendingSnappedKept, WriterLoadedKept DEF SyncInv, StoreInv

THEOREM SyncInvariant == SyncSpec => []SyncInv
<1> QED
  BY SyncInvInit, SyncInvNext, PTL DEF SyncSpec

THEOREM SyncTypeCorrect == SyncSpec => []SyncTypeOK
<1>1. SyncInv => SyncTypeOK
  BY DEF SyncInv
<1> QED
  BY <1>1, SyncInvariant, PTL

\* A turn inserted in the panel is the only one of its id, wherever a copy
\* of the chat is.
THEOREM IdsNeverCollide == SyncSpec => []IdsAreMinted
<1>1. SyncInv => IdsAreMinted
  BY DEF SyncInv
<1> QED
  BY <1>1, SyncInvariant, PTL

\* The panel, RisuAI and the network together do to the backend's copy only
\* what TurnStore allows, so TurnStore's theorems hold of them.
THEOREM SyncImplementsStore == SyncSpec => StoreSpec
<1>1. SyncInit => StoreInit
  BY DEF SyncInit
<1>2. SyncInv /\ [SyncNext]_syncVars => [StoreNext]_storeVars
  BY StepRefines
<1> QED
  BY <1>1, <1>2, SyncInvariant, PTL DEF SyncSpec, StoreSpec

\* A write-back replaces only texts that some upload had shown.
THEOREM NothingUnseenReverted == SyncSpec => NoUnseenRevert
<1>1. ASSUME SyncInv, NEW took \in BOOLEAN, HostSet(took)
      PROVE  RevertsOnlySeen
  <2> SUFFICES ASSUME NEW m \in MsgIds, Composed[m] # w.fresh[m]
               PROVE  <<m, w.fresh[m]>> \in seen
    BY DEF RevertsOnlySeen
  <2>1. Matches(w.fresh)
    BY <1>1 DEF SyncInv, CheckedMatches, HostSet
  <2>2. <<m, w.orig[m]>> \in seen
    BY <1>1 DEF SyncInv, PatchSeen, HostSet
  <2>3. w.fresh[m] = w.orig[m]
    BY <2>1 DEF Matches, Composed
  <2> QED
    BY <2>2, <2>3
<1>2. SyncInv => [\A took \in BOOLEAN : HostSet(took) => RevertsOnlySeen]_syncVars
  BY <1>1
<1> QED
  BY <1>2, SyncInvariant, PTL DEF NoUnseenRevert

\* The re-read after a write-back throws away nothing the snapshot lacks.
THEOREM CommitKeepsACopy == SyncSpec => CommitLosesNothing
<1>1. SyncInv => [\A u \in up : Deliver(u) /\ u.mode = "chatReset" /\ w.pc = "reread" =>
                    LostIsSnapped]_syncVars
  BY DEF SyncInv, PendingSnapped, LostIsSnapped
<1> QED
  BY <1>1, SyncInvariant, PTL DEF CommitLosesNothing

\* The two invariants of the composition together.
THEOREM SyncIsSound == SyncSpec => []SyncSound
BY SyncTypeCorrect, IdsNeverCollide, PTL DEF SyncSound

-----------------------------------------------------------------------------
(***************************************************************************)
(* Proofs about Staging, for any number of threads, proposals and turns.   *)
(*                                                                         *)
(* The invariant says what an approval may rely on about the rows it read: *)
(* they have been approved, they name a turn and a text that somebody      *)
(* could review - both because a status only moves forward - and a row it  *)
(* has found in order stays so but for changes the approval can name.      *)
(***************************************************************************)

Reviewable(r) ==
  /\ r.after \in Bodies
  /\ r.op # "insert" => r.target \in MsgIds /\ r.before \in Bodies

StagedReviewable ==
  \A p \in Proposals : staged[p].status # "none" => Reviewable(staged[p])

ReadRowsApproved ==
  \A h \in Threads : /\ req[h].todo \cup req[h].done \subseteq req[h].rows
                     /\ \A p \in req[h].rows : staged[p].status \in {"approved", "applied"}

\* The text reviewed is still there, or whoever replaced it is accounted for.
StandsIn(r, p, rows, list) ==
  rows[p].op # "insert" => \/ list[rows[p].target] = rows[p].before
                           \/ rows[p].target \in r.moved
                           \/ \E q \in r.done : rows[q].target = rows[p].target

ChecksStand(r, rows, list) ==
  /\ r.pc = "checking" => /\ r.done = {}
                          /\ ~r.bad => \A p \in r.rows \ r.todo : StandsIn(r, p, rows, list)
  /\ r.pc = "applying" => \A p \in r.todo : StandsIn(r, p, rows, list)

ReviewStands == \A h \in Threads : ChecksStand(req[h], staged, ours)

StagingInv ==
  /\ StoreInv
  /\ StoreIdsMinted
  /\ StagingTypeOK
  /\ StagedReviewable
  /\ ReadRowsApproved
  /\ LandsOnlyApproved
  /\ ReviewStands

-----------------------------------------------------------------------------
(* What a step does to the chat.                                           *)

\* A proposal lands with the store's own edits.
LEMMA LandingEdits ==
  ASSUME StagingInv, NEW h \in Threads, NEW p \in Proposals, p \in req[h].rows
  PROVE  /\ staged[p].after \in Bodies
         /\ staged[p].op # "insert" => staged[p].target \in MsgIds
BY DEF StagingInv, ReadRowsApproved, StagedReviewable, Reviewable

LEMMA EditIsLocal ==
  ASSUME StoreTypeOK, NEW m \in MsgIds, ours[m] # NoTurn, NEW t \in Bodies, SetBody(m, ours[m], t)
  PROVE  LocalEdit \/ UNCHANGED storeVars
<1>1. ours[m] \in Bodies
  BY DEF StoreTypeOK, ChatLists, Texts
<1>2. CASE t # ours[m]
  BY <1>1, <1>2 DEF LocalEdit
<1>3. CASE t = ours[m]
  BY <1>3 DEF StoreTypeOK, ChatLists, SetBody, PutBody, storeVars
<1> QED
  BY <1>2, <1>3

LEMMA HandleIsStoreStep ==
  ASSUME StagingInv, NEW h \in Threads, Handle(h)
  PROVE  [StoreNext]_storeVars
<1>1. CASE \E p \in Proposals : ApplyEdit(h, p)
  <2>1. PICK p \in Proposals : ApplyEdit(h, p)
    BY <1>1
  <2>2. p \in req[h].rows /\ staged[p].op = "edit"
    BY <2>1 DEF ApplyEdit, Todo, StagingInv, ReadRowsApproved
  <2>3. CASE ours[staged[p].target] = NoTurn
    BY <2>1, <2>3 DEF ApplyEdit, Fail
  <2>4. CASE ours[staged[p].target] # NoTurn
    <3>1. SetBody(staged[p].target, ours[staged[p].target], staged[p].after)
      BY <2>1, <2>4 DEF ApplyEdit
    <3> QED
      BY <2>2, <2>4, <3>1, LandingEdits, EditIsLocal DEF StagingInv, StoreInv, StoreNext
  <2> QED
    BY <2>3, <2>4
<1>2. CASE \E p \in Proposals, m \in LocalIds : ApplyInsert(h, p, m)
  <2>1. PICK p \in Proposals, m \in LocalIds : ApplyInsert(h, p, m)
    BY <1>2
  <2>2. p \in req[h].rows
    BY <2>1 DEF ApplyInsert, Todo, StagingInv, ReadRowsApproved
  <2>3. CASE AnchorGone(p)
    BY <2>1, <2>3 DEF ApplyInsert, Fail
  <2>4. CASE ~AnchorGone(p)
    BY <2>1, <2>2, <2>4, LandingEdits DEF ApplyInsert, LocalEdit, StoreNext
  <2> QED
    BY <2>3, <2>4
<1>3. CASE ApplyDeletes(h)
  <2> DEFINE ms == {staged[p].target : p \in Todo(h, "delete")}
  <2>1. \A p \in Todo(h, "delete") : p \in Proposals /\ p \in req[h].rows /\ staged[p].op = "delete"
    BY DEF Todo, StagingInv, StagingTypeOK, ReadRowsApproved, Approvals
  <2>2. ms \in SUBSET MsgIds
    BY <2>1, LandingEdits
  <2>3. DeleteTurns(ms) \/ UNCHANGED storeVars
    BY <1>3 DEF ApplyDeletes
  <2> QED
    BY <2>2, <2>3 DEF LocalEdit, StoreNext
<1>4. CASE Backup(h)
  BY <1>4 DEF Backup, StoreNext, Settle
<1>5. CASE \/ \E ps \in SUBSET Proposals, approve \in BOOLEAN : DecideStaged(h, ps, approve)
           \/ ReadApproved(h)
           \/ \E p \in Proposals : CheckRow(h, p)
           \/ EndChecks(h)
           \/ MarkApplied(h)
  BY <1>5 DEF DecideStaged, ReadApproved, CheckRow, EndChecks, MarkApplied
<1> QED
  BY <1>1, <1>2, <1>3, <1>4, <1>5 DEF Handle

LEMMA StagingIsStoreStep ==
  ASSUME StagingInv, StagingNext
  PROVE  [StoreNext]_storeVars
<1>1. CASE \E h \in Threads : Handle(h)
  BY <1>1, HandleIsStoreStep
<1>2. CASE Move
  BY <1>2 DEF Move, StoreNext
<1>3. CASE \/ \E op \in Ops, m \in MsgIds \cup {NoTurn}, after \in Bodies : Stage(op, m, after)
           \/ ClearStaged
           \/ Restart
  BY <1>3 DEF Stage, ClearStaged, Restart
<1> QED
  BY <1>1, <1>2, <1>3 DEF StagingNext

-----------------------------------------------------------------------------
(* Types.                                                                  *)

LEMMA ApprovalType ==
  /\ NoApproval \in Approvals
  /\ \A pc \in Pcs, rows \in SUBSET Proposals : Approval(pc, rows) \in Approvals
BY DEF NoApproval, Approval, Approvals, Pcs

\* Taking note of a change keeps everything but `moved`.
LEMMA NoticedType ==
  ASSUME NEW r \in Approvals
  PROVE  /\ Noticed(r) \in Approvals
         /\ Noticed(r).rows = r.rows /\ Noticed(r).todo = r.todo /\ Noticed(r).done = r.done
         /\ Noticed(r).pc = r.pc
<1>1. Changed \in SUBSET MsgIds
  BY DEF Changed
<1> QED
  BY <1>1 DEF Noticed, Approvals

\* The ways an approval's record may step: a fresh one, one row of the loop
\* checked, some rows landed.
LEMMA CheckedType ==
  ASSUME NEW r \in Approvals, NEW p \in Proposals, NEW b \in BOOLEAN
  PROVE  [r EXCEPT !.todo = @ \ {p}, !.bad = b] \in Approvals
BY DEF Approvals

LEMMA LandedType ==
  ASSUME NEW r \in Approvals, NEW ps \in SUBSET Proposals
  PROVE  /\ [r EXCEPT !.todo = @ \ ps, !.done = @ \cup ps] \in Approvals
         /\ [r EXCEPT !.pc = "marking", !.todo = {}, !.done = @ \cup ps] \in Approvals
BY DEF Approvals, Pcs

LEMMA StagedRowType ==
  ASSUME NEW op \in Ops, NEW m \in MsgIds \cup {NoTurn}, NEW b \in Texts, NEW a \in Bodies
  PROVE  StagedRow(op, m, b, a) \in StagedRows
BY DEF StagedRow, StagedRows, Statuses, Texts

LEMMA SetStatusType ==
  ASSUME StagingTypeOK, NEW ps, NEW s \in Statuses, SetStatus(ps, s)
  PROVE  staged' \in [Proposals -> StagedRows]
BY DEF StagingTypeOK, SetStatus, StagedRows

RequestTypes ==
  /\ staged \in [Proposals -> StagedRows]
  /\ req \in [Threads -> Approvals]
  /\ ticks \in [TickKinds -> Nat]
  /\ landed \in [Proposals -> Nat]

LEMMA TicksType ==
  ASSUME ticks \in [TickKinds -> Nat], NEW c \in TickKinds, Spend(c)
  PROVE  ticks' \in [TickKinds -> Nat]
BY DEF Spend

LEMMA HandleTypes ==
  ASSUME StagingInv, NEW h \in Threads, Handle(h)
  PROVE  RequestTypes'
<1> USE DEF StagingInv, RequestTypes
<1>0. /\ StagingTypeOK
      /\ req[h] \in Approvals
      /\ \A g \in Threads : Noticed(req[g]) \in Approvals
  BY NoticedType DEF StagingTypeOK
<1>1. ASSUME NEW ps \in SUBSET Proposals, NEW approve \in BOOLEAN, DecideStaged(h, ps, approve)
      PROVE  RequestTypes'
  <2>1. staged' \in [Proposals -> StagedRows]
    BY <1>0, <1>1, SetStatusType DEF DecideStaged, Statuses
  <2>2. req' \in [Threads -> Approvals]
    BY <1>0, <1>1, ApprovalType DEF DecideStaged, Put, StagingTypeOK, Pcs
  <2>3. ticks' \in [TickKinds -> Nat]
    BY <1>0, <1>1, TicksType DEF DecideStaged, StagingTypeOK, TickKinds
  <2> QED
    BY <1>0, <1>1, <2>1, <2>2, <2>3 DEF DecideStaged, StagingTypeOK
<1>2. CASE Backup(h)
  BY <1>0, <1>2, ApprovalType DEF Backup, Put, StagingTypeOK, Pcs
<1>3. CASE ReadApproved(h)
  BY <1>0, <1>3, ApprovalType DEF ReadApproved, Put, StagingTypeOK, Pcs, WithStatus
<1>4. ASSUME NEW p \in Proposals, CheckRow(h, p)
      PROVE  RequestTypes'
  <2>1. (req[h].bad \/ Conflicting(p)) \in BOOLEAN
    BY <1>0 DEF Approvals, Conflicting
  <2>2. [req[h] EXCEPT !.todo = @ \ {p}, !.bad = @ \/ Conflicting(p)] \in Approvals
    BY <1>0, <2>1, CheckedType
  <2> QED
    BY <1>0, <1>4, <2>2 DEF CheckRow, Put, StagingTypeOK
<1>5. CASE EndChecks(h)
  <2>1. [Approval("applying", req[h].rows) EXCEPT !.moved = req[h].moved] \in Approvals
    BY <1>0 DEF Approval, Approvals, Pcs
  <2> QED
    BY <1>0, <1>5, <2>1, ApprovalType DEF EndChecks, Put, StagingTypeOK
<1>6. ASSUME NEW ps \in SUBSET Proposals, Land(h, ps), UNCHANGED <<staged, ticks>>
      PROVE  RequestTypes'
  <2>1. [req[h] EXCEPT !.todo = @ \ ps, !.done = @ \cup ps] \in Approvals
    BY <1>0, LandedType
  <2>2. req' \in [Threads -> Approvals]
    BY <1>0, <1>6, <2>1 DEF Land, PutAndNotice
  <2>3. landed' \in [Proposals -> Nat]
    BY <1>0, <1>6 DEF Land, StagingTypeOK
  <2> QED
    BY <1>0, <1>6, <2>2, <2>3 DEF StagingTypeOK
<1>7. ASSUME Fail(h), UNCHANGED <<staged, ticks>>
      PROVE  RequestTypes'
  BY <1>0, <1>7, ApprovalType DEF Fail, Put, StagingTypeOK
<1>8. ASSUME NEW p \in Proposals, ApplyEdit(h, p)
      PROVE  RequestTypes'
  BY <1>6, <1>7, <1>8 DEF ApplyEdit
<1>9. ASSUME NEW p \in Proposals, NEW m \in LocalIds, ApplyInsert(h, p, m)
      PROVE  RequestTypes'
  BY <1>6, <1>7, <1>9 DEF ApplyInsert
<1>10. CASE ApplyDeletes(h)
  <2>1. Todo(h, "delete") \in SUBSET Proposals
    BY <1>0 DEF Todo, Approvals
  <2>2. req' \in [Threads -> Approvals]
    BY <1>0, <1>10, <2>1, LandedType DEF ApplyDeletes, PutAndNotice
  <2> QED
    BY <1>0, <1>10, <2>2 DEF ApplyDeletes, StagingTypeOK
<1>11. CASE MarkApplied(h)
  <2>1. staged' \in [Proposals -> StagedRows]
    BY <1>0, <1>11, SetStatusType DEF MarkApplied, Statuses
  <2> QED
    BY <1>0, <1>11, <2>1, ApprovalType DEF MarkApplied, Put, StagingTypeOK
<1> QED
  BY <1>1, <1>2, <1>3, <1>4, <1>5, <1>8, <1>9, <1>10, <1>11 DEF Handle

LEMMA StagingTypes ==
  ASSUME StagingInv, StagingNext
  PROVE  RequestTypes'
<1> USE DEF StagingInv, RequestTypes
<1>1. ASSUME NEW op \in Ops, NEW m \in MsgIds \cup {NoTurn}, NEW after \in Bodies,
             Stage(op, m, after)
      PROVE  RequestTypes'
  <2>1. (IF op = "insert" THEN NoTurn ELSE ours[m]) \in Texts
    BY <1>1 DEF Stage, StagingTypeOK, StoreTypeOK, ChatLists, Texts
  <2>2. StagedRow(op, m, IF op = "insert" THEN NoTurn ELSE ours[m], after) \in StagedRows
    BY <2>1, StagedRowType
  <2> QED
    BY <1>1, <2>2 DEF Stage, StagingTypeOK
<1>2. CASE ClearStaged
  BY <1>2, SetStatusType DEF ClearStaged, StagingTypeOK, Statuses
<1>3. CASE Move
  <2>1. ticks' \in [TickKinds -> Nat]
    BY <1>3, TicksType DEF Move, StagingTypeOK, TickKinds
  <2>2. req' \in [Threads -> Approvals]
    BY <1>3, NoticedType DEF Move, StagingTypeOK
  <2> QED
    BY <1>3, <2>1, <2>2 DEF Move, StagingTypeOK
<1>4. CASE Restart
  <2>1. ticks' \in [TickKinds -> Nat]
    BY <1>4, TicksType DEF Restart, StagingTypeOK, TickKinds
  <2> QED
    BY <1>4, <2>1, ApprovalType DEF Restart, StagingTypeOK
<1> QED
  BY <1>1, <1>2, <1>3, <1>4, HandleTypes DEF StagingNext

-----------------------------------------------------------------------------
(* Statuses only move forward, and a row keeps what was reviewed.          *)

RowStep(p) ==
  \/ staged'[p] = staged[p]
  \/ /\ staged[p].status # "none"
     /\ staged'[p].status \in Final(staged[p].status)
     /\ staged'[p] = [staged[p] EXCEPT !.status = staged'[p].status]
  \/ /\ staged[p].status = "none"
     /\ staged'[p].status = "pending"
     /\ Reviewable(staged'[p])

\* A status given to rows it may follow.
LEMMA SetStatusSteps ==
  ASSUME StagingTypeOK, NEW ps \in SUBSET Proposals, NEW s \in Statuses, SetStatus(ps, s),
         \A q \in ps : staged[q].status # "none" /\ s \in Final(staged[q].status),
         NEW p \in Proposals
  PROVE  RowStep(p)
<1>1. CASE p \in ps
  <2>1. staged'[p] = [staged[p] EXCEPT !.status = s]
    BY <1>1 DEF SetStatus
  <2>2. staged'[p].status = s
    BY <2>1 DEF StagingTypeOK, StagedRows
  <2> QED
    BY <1>1, <2>1, <2>2 DEF RowStep
<1>2. CASE p \notin ps
  BY <1>2 DEF SetStatus, RowStep
<1> QED
  BY <1>1, <1>2

LEMMA RowsStep ==
  ASSUME StagingInv, StagingNext, NEW p \in Proposals
  PROVE  RowStep(p)
<1> USE DEF StagingInv
<1>1. ASSUME NEW op \in Ops, NEW m \in MsgIds \cup {NoTurn}, NEW after \in Bodies,
             Stage(op, m, after)
      PROVE  RowStep(p)
  <2>1. PICK q \in WithStatus("none") :
          staged' = [staged EXCEPT ![q] =
                       StagedRow(op, m, IF op = "insert" THEN NoTurn ELSE ours[m], after)]
    BY <1>1 DEF Stage
  <2>2. op # "insert" => m \in MsgIds /\ ours[m] \in Bodies
    BY <1>1 DEF Stage, StagingTypeOK, StoreTypeOK, ChatLists, Texts
  <2>3. CASE p = q
    <3>1. staged'[p] = StagedRow(op, m, IF op = "insert" THEN NoTurn ELSE ours[m], after)
      BY <2>1, <2>3 DEF StagingTypeOK
    <3> QED
      BY <2>1, <2>2, <2>3, <3>1 DEF RowStep, Reviewable, StagedRow, WithStatus
  <2>4. CASE p # q
    BY <2>1, <2>4 DEF RowStep, StagingTypeOK
  <2> QED
    BY <2>3, <2>4
<1>2. CASE ClearStaged
  BY <1>2, SetStatusSteps DEF ClearStaged, WithStatus, Statuses, Final
<1>3. ASSUME NEW h \in Threads, NEW ps \in SUBSET Proposals, NEW approve \in BOOLEAN,
             DecideStaged(h, ps, approve)
      PROVE  RowStep(p)
  BY <1>3, SetStatusSteps DEF DecideStaged, WithStatus, Statuses, Final
<1>4. ASSUME NEW h \in Threads, MarkApplied(h)
      PROVE  RowStep(p)
  <2>1. req[h].rows \in SUBSET Proposals
    BY DEF StagingTypeOK, Approvals
  <2> QED
    BY <1>4, <2>1, SetStatusSteps DEF MarkApplied, ReadRowsApproved, Statuses, Final
<1>5. ASSUME NEW h \in Threads, Handle(h), UNCHANGED staged
      PROVE  RowStep(p)
  BY <1>5 DEF RowStep
<1>6. ASSUME NEW h \in Threads, Handle(h)
      PROVE  RowStep(p)
  BY <1>3, <1>4, <1>5, <1>6
     DEF Handle, Backup, ReadApproved, CheckRow, EndChecks, ApplyEdit, ApplyInsert, ApplyDeletes
<1>7. CASE Move \/ Restart
  BY <1>7 DEF Move, Restart, RowStep
<1> QED
  BY <1>1, <1>2, <1>6, <1>7 DEF StagingNext

-----------------------------------------------------------------------------
(* An approval reads approved rows, and lands none but those.              *)

LEMMA RequestsStep ==
  ASSUME StagingInv, StagingNext, NEW g \in Threads
  PROVE  /\ req'[g].todo \cup req'[g].done \subseteq req'[g].rows
         /\ \A p \in req'[g].rows : p \in req[g].rows \/ staged[p].status = "approved"
<1> USE DEF StagingInv
<1> DEFINE Kept(r) == r.todo \cup r.done \subseteq r.rows
                      /\ \A p \in r.rows : p \in req[g].rows \/ staged[p].status = "approved"
<1>0. /\ req \in [Threads -> Approvals]
      /\ req[g].todo \cup req[g].done \subseteq req[g].rows
  BY DEF StagingTypeOK, ReadRowsApproved
<1>1. /\ Kept(req[g]) /\ Kept(Noticed(req[g]))
      /\ Kept(NoApproval)
      /\ \A pc : Kept(Approval(pc, {}))
  BY <1>0, NoticedType DEF NoApproval, Approval
<1>2. ASSUME NEW h \in Threads, NEW r, Put(h, r), g = h => Kept(r)
      PROVE  Kept(req'[g])
  BY <1>0, <1>1, <1>2 DEF Put
<1>3. ASSUME NEW h \in Threads, NEW r, PutAndNotice(h, r), g = h => Kept(r)
      PROVE  Kept(req'[g])
  BY <1>1, <1>3 DEF PutAndNotice
<1>4. ASSUME UNCHANGED req
      PROVE  Kept(req'[g])
  BY <1>1, <1>4
<1>5. ASSUME NEW h \in Threads, ReadApproved(h)
      PROVE  Kept(req'[g])
  <2>1. Kept(Approval("checking", WithStatus("approved")))
    BY DEF Approval, WithStatus
  <2> QED
    BY <1>1, <1>2, <1>5, <2>1 DEF ReadApproved
<1>6. ASSUME NEW h \in Threads, NEW p \in Proposals, CheckRow(h, p)
      PROVE  Kept(req'[g])
  <2>1. g = h => Kept([req[h] EXCEPT !.todo = @ \ {p}, !.bad = @ \/ Conflicting(p)])
    BY <1>0 DEF Approvals
  <2> QED
    BY <1>2, <1>6, <2>1 DEF CheckRow
<1>7. ASSUME NEW h \in Threads, EndChecks(h)
      PROVE  Kept(req'[g])
  <2>1. g = h => Kept([Approval("applying", req[h].rows) EXCEPT !.moved = req[h].moved])
    BY DEF Approval
  <2> QED
    BY <1>1, <1>2, <1>7, <2>1 DEF EndChecks
<1>8. ASSUME NEW h \in Threads, NEW p \in req[h].todo, Land(h, {p})
      PROVE  Kept(req'[g])
  <2>1. g = h => Kept([req[h] EXCEPT !.todo = @ \ {p}, !.done = @ \cup {p}])
    BY <1>0 DEF Approvals
  <2> QED
    BY <1>3, <1>8, <2>1 DEF Land
<1>9. ASSUME NEW h \in Threads, ApplyDeletes(h)
      PROVE  Kept(req'[g])
  <2>1. g = h => Kept([req[h] EXCEPT !.pc = "marking", !.todo = {}, !.done = @ \cup Todo(h, "delete")])
    BY <1>0 DEF Approvals, Todo
  <2> QED
    BY <1>3, <1>9, <2>1 DEF ApplyDeletes
<1>10. ASSUME NEW h \in Threads, Handle(h)
       PROVE  Kept(req'[g])
  <2>1. CASE \E ps \in SUBSET Proposals, approve \in BOOLEAN : DecideStaged(h, ps, approve)
    BY <1>1, <1>2, <1>4, <2>1 DEF DecideStaged
  <2>2. CASE Backup(h) \/ MarkApplied(h)
    BY <1>1, <1>2, <2>2 DEF Backup, MarkApplied
  <2>3. CASE \E p \in Proposals : ApplyEdit(h, p)
    BY <1>1, <1>2, <1>8, <2>3 DEF ApplyEdit, Fail, Todo
  <2>4. CASE \E p \in Proposals, m \in LocalIds : ApplyInsert(h, p, m)
    BY <1>1, <1>2, <1>8, <2>4 DEF ApplyInsert, Fail, Todo
  <2> QED
    BY <1>5, <1>6, <1>7, <1>9, <1>10, <2>1, <2>2, <2>3, <2>4 DEF Handle
<1>11. CASE Move \/ Restart
  BY <1>1, <1>11 DEF Move, Restart
<1>12. CASE \/ \E op \in Ops, m \in MsgIds \cup {NoTurn}, after \in Bodies : Stage(op, m, after)
            \/ ClearStaged
  BY <1>4, <1>12 DEF Stage, ClearStaged
<1>13. Kept(req'[g])
  BY <1>10, <1>11, <1>12 DEF StagingNext
<1> QED
  BY <1>13

LEMMA LandedStep ==
  ASSUME StagingInv, StagingNext, NEW p \in Proposals, landed'[p] # landed[p]
  PROVE  \E h \in Threads : p \in req[h].todo
<1> USE DEF StagingInv, StagingTypeOK
<1>1. ASSUME NEW h \in Threads, Handle(h)
      PROVE  p \in req[h].todo
  BY <1>1 DEF Handle, DecideStaged, Backup, ReadApproved, CheckRow, EndChecks, MarkApplied,
              ApplyEdit, ApplyInsert, ApplyDeletes, Land, Fail, Todo
<1>2. ~(ClearStaged \/ Move \/ Restart)
  BY DEF ClearStaged, Move, Restart
<1>3. ~\E op \in Ops, m \in MsgIds \cup {NoTurn}, after \in Bodies : Stage(op, m, after)
  BY DEF Stage
<1> QED
  BY <1>1, <1>2, <1>3 DEF StagingNext

-----------------------------------------------------------------------------
(* What was checked still stands when it lands.                            *)

\* A row keeps what was reviewed.
SameReview(p) == /\ staged'[p].op = staged[p].op
                 /\ staged'[p].target = staged[p].target
                 /\ staged'[p].before = staged[p].before

LEMMA ReviewKept ==
  ASSUME StagingInv, StagingNext, NEW p \in Proposals, staged[p].status # "none"
  PROVE  SameReview(p)
<1>1. staged[p] \in StagedRows
  BY DEF StagingInv, StagingTypeOK
<1>2. RowStep(p)
  BY RowsStep
<1> QED
  BY <1>1, <1>2 DEF RowStep, SameReview, StagedRows

\* An approval that takes note of what changed, in its own record or among the
\* rows it has landed, still has its checks standing.
LEMMA StandsKept ==
  ASSUME NEW r, NEW rr, NEW p, SameReview(p), \A q \in r.done : SameReview(q),
         r.moved \subseteq rr.moved, r.done \subseteq rr.done,
         \/ staged[p].op = "insert"
         \/ ours'[staged[p].target] = ours[staged[p].target]
         \/ ours[staged[p].target] # staged[p].before
         \/ staged[p].target \in rr.moved
         \/ \E q \in rr.done : staged'[q].target = staged[p].target,
         StandsIn(r, p, staged, ours)
  PROVE  StandsIn(rr, p, staged', ours')
BY DEF SameReview, StandsIn

LEMMA ChecksKept ==
  ASSUME StagingInv, StagingNext, NEW g \in Threads, NEW rr,
         rr.pc = req[g].pc, rr.rows = req[g].rows, rr.todo = req[g].todo,
         rr.done = req[g].done, rr.bad = req[g].bad, req[g].moved \subseteq rr.moved,
         req[g].pc \in {"checking", "applying"} =>
           \A m \in MsgIds : ours'[m] # ours[m] => m \in rr.moved
  PROVE  ChecksStand(rr, staged', ours')
<1>1. req[g].rows \subseteq Proposals /\ req[g].todo \cup req[g].done \subseteq req[g].rows
  BY DEF StagingInv, StagingTypeOK, Approvals, ReadRowsApproved
<1>2. \A p \in req[g].rows : SameReview(p)
  BY <1>1, ReviewKept DEF StagingInv, ReadRowsApproved
<1>3. \A p \in req[g].rows : staged[p].op # "insert" => staged[p].target \in MsgIds
  BY <1>1 DEF StagingInv, ReadRowsApproved, StagedReviewable, Reviewable
<1>4. ASSUME NEW p, p \in req[g].rows, req[g].pc \in {"checking", "applying"},
             StandsIn(req[g], p, staged, ours)
      PROVE  StandsIn(rr, p, staged', ours')
  <2>1. SameReview(p) /\ \A q \in req[g].done : SameReview(q)
    BY <1>1, <1>2, <1>4 DEF SameReview
  <2>2. \/ staged[p].op = "insert"
        \/ ours'[staged[p].target] = ours[staged[p].target]
        \/ staged[p].target \in rr.moved
    BY <1>3, <1>4
  <2> QED
    BY <1>4, <2>1, <2>2, StandsKept
<1>5. ChecksStand(req[g], staged, ours)
  BY DEF StagingInv, ReviewStands
<1>6. ASSUME rr.pc = "checking"
      PROVE  rr.done = {} /\ (~rr.bad => \A p \in rr.rows \ rr.todo : StandsIn(rr, p, staged', ours'))
  BY <1>4, <1>5, <1>6 DEF ChecksStand
<1>7. ASSUME rr.pc = "applying"
      PROVE  \A p \in rr.todo : StandsIn(rr, p, staged', ours')
  BY <1>1, <1>4, <1>5, <1>7 DEF ChecksStand
<1> QED
  BY <1>6, <1>7 DEF ChecksStand

\* A step of an approval's own.
LEMMA OwnChecks ==
  ASSUME StagingInv, StagingNext, NEW g \in Threads, Handle(g)
  PROVE  ChecksStand(req'[g], staged', ours')
<1> USE DEF StagingInv
<1>1. /\ req \in [Threads -> Approvals]
      /\ req[g] \in Approvals
      /\ ChecksStand(req[g], staged, ours)
      /\ req[g].todo \cup req[g].done \subseteq req[g].rows
  BY DEF StagingTypeOK, ReadRowsApproved, ReviewStands
<1>2. \A p \in req[g].rows : p \in Proposals /\ SameReview(p)
  BY <1>1, ReviewKept DEF Approvals, ReadRowsApproved
<1>3. \A p \in req[g].rows : staged[p].op # "insert" => /\ staged[p].target \in MsgIds
                                                        /\ staged[p].before \in Bodies
  BY <1>1, <1>2 DEF ReadRowsApproved, StagedReviewable, Reviewable
<1>4. CASE req'[g].pc \notin {"checking", "applying"}
  BY <1>4 DEF ChecksStand
<1>5. CASE ReadApproved(g)
  BY <1>1, <1>5 DEF ReadApproved, Put, Approval, NoApproval, ChecksStand
<1>6. ASSUME NEW p \in Proposals, CheckRow(g, p)
      PROVE  ChecksStand(req'[g], staged', ours')
  <2>1. /\ UNCHANGED <<staged, ours>>
        /\ p \in req[g].rows
        /\ req[g].pc = "checking"
    BY <1>1, <1>6 DEF CheckRow, storeVars
  <2>2. /\ req'[g].pc = "checking" /\ req'[g].rows = req[g].rows
        /\ req'[g].moved = req[g].moved /\ req'[g].done = req[g].done
        /\ req'[g].todo = req[g].todo \ {p}
        /\ req'[g].bad = (req[g].bad \/ Conflicting(p))
    BY <1>1, <1>6 DEF CheckRow, Put, Approvals
  <2>3. ~Conflicting(p) => StandsIn(req[g], p, staged, ours)
    BY DEF Conflicting, StandsIn
  <2> QED
    BY <1>1, <2>1, <2>2, <2>3 DEF ChecksStand, StandsIn
<1>7. CASE EndChecks(g)
  <2>1. CASE req[g].bad
    BY <1>1, <1>7, <2>1 DEF EndChecks, Put, NoApproval, Approval, ChecksStand
  <2>2. CASE ~req[g].bad
    <3>1. /\ UNCHANGED <<staged, ours>>
          /\ req[g].pc = "checking" /\ req[g].todo = {}
      BY <1>7 DEF EndChecks, storeVars
    <3>2. /\ req'[g].pc = "applying" /\ req'[g].todo = req[g].rows
          /\ req'[g].moved = req[g].moved /\ req'[g].done = {}
      BY <1>1, <1>7, <2>2 DEF EndChecks, Put, Approval, Approvals
    <3> QED
      BY <1>1, <2>2, <3>1, <3>2 DEF ChecksStand, StandsIn
  <2> QED
    BY <2>1, <2>2
<1>8. ASSUME NEW p \in req[g].todo, Land(g, {p}), req[g].pc = "applying",
             \A q \in req[g].rows : \/ staged[q].op = "insert"
                                   \/ ours'[staged[q].target] = ours[staged[q].target]
                                   \/ ours[staged[q].target] # staged[q].before
                                   \/ staged[q].target = staged[p].target
      PROVE  ChecksStand(req'[g], staged', ours')
  <2>1. /\ req'[g].pc = "applying" /\ req'[g].todo = req[g].todo \ {p}
        /\ req'[g].moved = req[g].moved /\ req'[g].done = req[g].done \cup {p}
    BY <1>1, <1>8 DEF Land, PutAndNotice, Approvals
  <2>2. ASSUME NEW q \in req'[g].todo
        PROVE  StandsIn(req'[g], q, staged', ours')
    <3>1. q \in req[g].todo /\ q \in req[g].rows /\ p \in req[g].rows
      BY <1>1, <1>8, <2>1, <2>2
    <3>2. StandsIn(req[g], q, staged, ours)
      BY <1>1, <1>8, <3>1 DEF ChecksStand
    <3>3. staged'[p].target = staged[p].target
      BY <1>2, <3>1 DEF SameReview
    <3>4. SameReview(q) /\ \A d \in req[g].done : SameReview(d)
      BY <1>1, <1>2, <3>1
    <3> QED
      BY <1>8, <2>1, <3>1, <3>2, <3>3, <3>4, StandsKept
  <2> QED
    BY <2>1, <2>2 DEF ChecksStand
<1>9. ASSUME NEW p \in Proposals, ApplyEdit(g, p)
      PROVE  ChecksStand(req'[g], staged', ours')
  <2>1. p \in req[g].todo /\ p \in req[g].rows /\ staged[p].op = "edit" /\ req[g].pc = "applying"
    BY <1>1, <1>9 DEF ApplyEdit, Todo
  <2>2. CASE Fail(g)
    BY <1>1, <2>2 DEF Fail, Put, NoApproval, Approval, ChecksStand
  <2>3. CASE SetBody(staged[p].target, ours[staged[p].target], staged[p].after) /\ Land(g, {p})
    <3>1. \A m \in MsgIds : m # staged[p].target => ours'[m] = ours[m]
      BY <2>3 DEF SetBody, PutBody, StagingTypeOK, StoreTypeOK, ChatLists
    <3>2. \A q \in req[g].rows : \/ staged[q].op = "insert"
                                 \/ ours'[staged[q].target] = ours[staged[q].target]
                                 \/ staged[q].target = staged[p].target
      BY <1>3, <3>1
    <3> QED
      BY <1>8, <2>1, <2>3, <3>2
  <2> QED
    BY <1>9, <2>2, <2>3 DEF ApplyEdit
<1>10. ASSUME NEW p \in Proposals, NEW m \in LocalIds, ApplyInsert(g, p, m)
      PROVE  ChecksStand(req'[g], staged', ours')
  <2>1. p \in req[g].todo /\ req[g].pc = "applying"
    BY <1>10 DEF ApplyInsert, Todo
  <2>2. CASE Fail(g)
    BY <1>1, <2>2 DEF Fail, Put, NoApproval, Approval, ChecksStand
  <2>3. CASE InsertTurn(m, staged[p].after) /\ Land(g, {p})
    <3>1. ours[m] = NoTurn /\ NoTurn \notin Bodies
      BY <2>3, StoreAssumption DEF InsertTurn, StoreIdsMinted, OnlyMinted
    <3>2. \A n \in MsgIds : n # m => ours'[n] = ours[n]
      BY <2>3 DEF InsertTurn, PutBody, StagingTypeOK, StoreTypeOK, ChatLists
    <3>3. \A q \in req[g].rows : \/ staged[q].op = "insert"
                                 \/ ours'[staged[q].target] = ours[staged[q].target]
                                 \/ ours[staged[q].target] # staged[q].before
      BY <1>3, <3>1, <3>2
    <3> QED
      BY <1>8, <2>1, <2>3, <3>3
  <2> QED
    BY <1>10, <2>2, <2>3 DEF ApplyInsert
<1>11. CASE \/ \E ps \in SUBSET Proposals, approve \in BOOLEAN : DecideStaged(g, ps, approve)
           \/ Backup(g)
           \/ MarkApplied(g)
  <2>1. CASE \E ps \in SUBSET Proposals, approve \in BOOLEAN : DecideStaged(g, ps, approve)
    <3>1. req'[g].pc \in {"idle", "decided"}
      BY <1>1, <2>1 DEF DecideStaged, Put, Approval
    <3> QED
      BY <1>4, <3>1
  <2>2. CASE Backup(g)
    BY <1>1, <1>4, <2>2 DEF Backup, Put, Approval
  <2>3. CASE MarkApplied(g)
    BY <1>1, <1>4, <2>3 DEF MarkApplied, Put, Approval, NoApproval
  <2> QED
    BY <1>11, <2>1, <2>2, <2>3
<1>12. CASE ApplyDeletes(g)
  <2>1. req'[g].pc = "marking"
    BY <1>1, <1>12 DEF ApplyDeletes, PutAndNotice, Approvals
  <2> QED
    BY <1>4, <2>1
<1> QED
  BY <1>5, <1>6, <1>7, <1>9, <1>10, <1>11, <1>12 DEF Handle

\* A step of somebody else's leaves an approval alone or makes it take note.
LEMMA OthersNoticed ==
  ASSUME StagingInv, StagingNext, NEW g \in Threads, ~Handle(g)
  PROVE  \/ Restart /\ req'[g] = NoApproval
         \/ (req'[g] = req[g] /\ ours' = ours)
         \/ req'[g] = Noticed(req[g])
<1> USE DEF StagingInv, StagingTypeOK
<1>1. ASSUME NEW h \in Threads, Handle(h)
      PROVE  \/ (req'[g] = req[g] /\ ours' = ours)
             \/ req'[g] = Noticed(req[g])
  <2>1. h # g
    BY <1>1
  <2> QED
    BY <1>1, <2>1
       DEF Handle, DecideStaged, Backup, Checkpoint, ReadApproved, CheckRow, EndChecks, MarkApplied,
           ApplyEdit, ApplyInsert, ApplyDeletes, Land, Fail, Put, PutAndNotice, storeVars
<1>2. CASE \/ \E op \in Ops, m \in MsgIds \cup {NoTurn}, after \in Bodies : Stage(op, m, after)
           \/ ClearStaged
  BY <1>2 DEF Stage, ClearStaged, storeVars
<1>3. CASE Move \/ Restart
  BY <1>3 DEF Move, Restart
<1> QED
  BY <1>1, <1>2, <1>3 DEF StagingNext

LEMMA ReviewStandsNext ==
  ASSUME StagingInv, StagingNext
  PROVE  ReviewStands'
<1> SUFFICES ASSUME NEW g \in Threads
             PROVE  ChecksStand(req'[g], staged', ours')
  BY DEF ReviewStands
<1>0. req[g] \in Approvals
  BY DEF StagingInv, StagingTypeOK
<1>1. CASE Handle(g)
  BY <1>1, OwnChecks
<1>2. CASE req'[g] = NoApproval
  BY <1>2 DEF NoApproval, Approval, ChecksStand
<1>3. CASE req'[g] = req[g] /\ ours' = ours
  BY <1>3, ChecksKept
<1>4. CASE req'[g] = Noticed(req[g])
  <2>1. /\ Noticed(req[g]).pc = req[g].pc /\ Noticed(req[g]).rows = req[g].rows
        /\ Noticed(req[g]).todo = req[g].todo /\ Noticed(req[g]).done = req[g].done
    BY <1>0, NoticedType
  <2>2. /\ Noticed(req[g]).bad = req[g].bad
        /\ req[g].moved \subseteq Noticed(req[g]).moved
        /\ req[g].pc \in {"checking", "applying"} =>
             \A m \in MsgIds : ours'[m] # ours[m] => m \in Noticed(req[g]).moved
    BY <1>0 DEF Noticed, Approvals, Changed
  <2> QED
    BY <1>4, <2>1, <2>2, ChecksKept
<1> QED
  BY <1>1, <1>2, <1>3, <1>4, OthersNoticed

-----------------------------------------------------------------------------
(* The invariant.                                                          *)

LEMMA StagingStoreIds ==
  ASSUME StagingInv, StagingNext
  PROVE  StoreIdsMinted'
<1>1. [StoreNext]_storeVars
  BY StagingIsStoreStep
<1>2. ASSUME NEW theirs \in Sendable, NEW force \in BOOLEAN, NEW live \in BOOLEAN,
             Ingest(theirs, force, live)
      PROVE  StoreIdsMinted'
  BY <1>2, IngestIds DEF StagingInv
<1>3. CASE UNCHANGED storeVars
  BY <1>3 DEF storeVars, StoreIdsMinted, OnlyMinted, StagingInv
<1> QED
  BY <1>1, <1>2, <1>3, LocalEditIds, SettleIds DEF StoreNext, StagingInv

LEMMA StagingInvInit == StagingInit => StagingInv
<1> SUFFICES ASSUME StagingInit PROVE StagingInv
  OBVIOUS
<1>1. StoreTypeOK
  BY NoFlagsType DEF StagingInit, StoreTypeOK
<1>2. ConflictBoxIsCurrent
  BY NoFlagsType DEF StagingInit, ConflictBoxIsCurrent, Flagged
<1>3. StoreIdsMinted
  BY DEF StagingInit, StoreIdsMinted, OnlyMinted
<1>4. NotStaged \in StagedRows /\ NotStaged.status = "none"
  BY DEF NotStaged, StagedRow, StagedRows, Ops, Texts, Statuses
<1>5. StagingTypeOK
  BY <1>1, <1>4, ApprovalType DEF StagingInit, StagingTypeOK
<1>6. StagedReviewable /\ LandsOnlyApproved
  BY <1>4 DEF StagingInit, StagedReviewable, LandsOnlyApproved
<1>7. ReadRowsApproved /\ ReviewStands
  BY DEF StagingInit, ReadRowsApproved, ReviewStands, ChecksStand, NoApproval, Approval
<1> QED
  BY <1>1, <1>2, <1>3, <1>5, <1>6, <1>7 DEF StagingInv, StoreInv

LEMMA StagingInvNext == StagingInv /\ [StagingNext]_stagingVars => StagingInv'
<1> SUFFICES ASSUME StagingInv, [StagingNext]_stagingVars PROVE StagingInv'
  OBVIOUS
<1>1. CASE StagingNext
  <2>1. StoreInv'
    BY <1>1, StagingIsStoreStep, StoreInvNext DEF StagingInv
  <2>2. StagingTypeOK'
    BY <1>1, <2>1, StagingTypes DEF StoreInv, StagingTypeOK, RequestTypes
  <2>3. \A p \in Proposals : RowStep(p)
    BY <1>1, RowsStep
  <2>4. StagedReviewable'
    <3> SUFFICES ASSUME NEW p \in Proposals, staged'[p].status # "none"
                 PROVE  Reviewable(staged'[p])
      BY DEF StagedReviewable
    <3>1. staged[p] \in StagedRows
      BY DEF StagingInv, StagingTypeOK
    <3> QED
      BY <2>3, <3>1 DEF RowStep, StagedReviewable, Reviewable, StagedRows, StagingInv
  <2>5. \A p \in Proposals : staged[p].status \in {"approved", "applied"} =>
                               staged'[p].status \in {"approved", "applied"}
    BY <2>3 DEF RowStep, Final
  <2>6. ReadRowsApproved'
    <3> SUFFICES ASSUME NEW h \in Threads
                 PROVE  /\ req'[h].todo \cup req'[h].done \subseteq req'[h].rows
                        /\ \A p \in req'[h].rows : staged'[p].status \in {"approved", "applied"}
      BY DEF ReadRowsApproved
    <3>1. req'[h].rows \subseteq Proposals
      BY <2>2 DEF StagingTypeOK, Approvals
    <3> QED
      BY <1>1, <2>5, <3>1, RequestsStep DEF StagingInv, ReadRowsApproved
  <2>7. LandsOnlyApproved'
    <3> SUFFICES ASSUME NEW p \in Proposals, landed'[p] > 0
                 PROVE  staged'[p].status \in {"approved", "applied"}
      BY DEF LandsOnlyApproved
    <3>1. CASE landed'[p] = landed[p]
      BY <2>5, <3>1 DEF StagingInv, LandsOnlyApproved
    <3>2. CASE landed'[p] # landed[p]
      BY <1>1, <2>5, <3>2, LandedStep DEF StagingInv, ReadRowsApproved
    <3> QED
      BY <3>1, <3>2
  <2> QED
    BY <1>1, <2>1, <2>2, <2>4, <2>6, <2>7, StagingStoreIds, ReviewStandsNext DEF StagingInv
<1>2. CASE UNCHANGED stagingVars
  BY <1>2 DEF stagingVars, StagingInv, StoreInv, StoreTypeOK, ConflictBoxIsCurrent, Flagged,
              StoreIdsMinted, OnlyMinted, StagingTypeOK, StagedReviewable, ReadRowsApproved,
              LandsOnlyApproved, ReviewStands
<1> QED
  BY <1>1, <1>2

\* What an approval relies on holds whatever runs beside it.
THEOREM StagingInvariant == StagingSpec => []StagingInv
<1> QED
  BY StagingInvInit, StagingInvNext, PTL DEF StagingSpec

THEOREM StagingTypeCorrect == StagingSpec => []StagingTypeOK
<1>1. StagingInv => StagingTypeOK
  BY DEF StagingInv
<1> QED
  BY <1>1, StagingInvariant, PTL

\* The agent never writes to the turns: what lands was approved.
THEOREM OnlyApprovedLands == StagingSpec => []LandsOnlyApproved
<1>1. StagingInv => LandsOnlyApproved
  BY DEF StagingInv
<1> QED
  BY <1>1, StagingInvariant, PTL

\* A decision is final, whatever runs beside it.
THEOREM DecisionsStand == StagingSpec => DecisionsAreFinal
<1>1. ASSUME StagingInv, [StagingNext]_stagingVars, NEW p \in Proposals
      PROVE  staged'[p].status \in Final(staged[p].status)
  <2>1. staged[p].status \in Statuses
    BY <1>1 DEF StagingInv, StagingTypeOK, StagedRows
  <2>2. staged[p].status \in Final(staged[p].status)
    BY <2>1 DEF Final, Statuses
  <2>3. CASE StagingNext
    BY <1>1, <2>2, <2>3, RowsStep DEF RowStep, Final
  <2>4. CASE UNCHANGED stagingVars
    BY <2>2, <2>4 DEF stagingVars
  <2> QED
    BY <1>1, <2>3, <2>4
<1>2. StagingInv /\ [StagingNext]_stagingVars =>
        [\A p \in Proposals : staged'[p].status \in Final(staged[p].status)]_stagingVars
  BY <1>1
<1> QED
  BY <1>2, StagingInvariant, PTL DEF StagingSpec, DecisionsAreFinal

\* An edit or a deletion lands on the text that was reviewed, unless somebody
\* changed the turn after the check or the set itself did.
THEOREM LandsOnReview == StagingSpec => LandsAsReviewed
<1>1. ASSUME StagingInv, [StagingNext]_stagingVars, NEW h \in Threads, NEW p \in Proposals,
             staged[p].op # "insert", landed'[p] > landed[p], p \in req'[h].done \ req[h].done
      PROVE  StandsIn(req[h], p, staged, ours)
  <2>1. p \in req[h].todo /\ req[h].pc = "applying"
    <3>1. req[h] \in Approvals /\ \A g \in Threads : Noticed(req[g]).done = req[g].done
      BY <1>1, NoticedType DEF StagingInv, StagingTypeOK
    <3>2. StagingNext
      BY <1>1 DEF stagingVars
    <3>3. Handle(h)
      <4>1. \/ Handle(h)
            \/ req'[h] = NoApproval
            \/ req'[h] = req[h]
            \/ req'[h] = Noticed(req[h])
        BY <1>1, <3>2, OthersNoticed
      <4> QED
        BY <1>1, <3>1, <4>1 DEF NoApproval, Approval
    <3>4. landed'[p] # landed[p]
      BY <1>1 DEF StagingInv, StagingTypeOK
    <3>5. CASE \/ \E ps \in SUBSET Proposals, approve \in BOOLEAN : DecideStaged(h, ps, approve)
               \/ Backup(h) \/ ReadApproved(h) \/ EndChecks(h) \/ MarkApplied(h)
               \/ \E q \in Proposals : CheckRow(h, q)
      BY <3>5, <3>4 DEF DecideStaged, Backup, ReadApproved, CheckRow, EndChecks, MarkApplied
    <3>6. CASE \/ \E q \in Proposals : ApplyEdit(h, q)
               \/ \E q \in Proposals, m \in LocalIds : ApplyInsert(h, q, m)
      <4>1. PICK q \in Proposals : Land(h, {q}) /\ q \in req[h].todo /\ req[h].pc = "applying"
        BY <3>6, <3>4 DEF ApplyEdit, ApplyInsert, Fail, Todo
      <4> QED
        BY <3>4, <4>1 DEF Land
    <3>7. CASE ApplyDeletes(h)
      <4>1. p \in Todo(h, "delete")
        BY <3>7, <3>4 DEF ApplyDeletes
      <4> QED
        BY <3>7, <4>1 DEF ApplyDeletes, Todo
    <3> QED
      BY <3>3, <3>5, <3>6, <3>7 DEF Handle
  <2> QED
    BY <1>1, <2>1 DEF StagingInv, ReviewStands, ChecksStand
<1>2. StagingInv /\ [StagingNext]_stagingVars =>
        [\A h \in Threads, p \in Proposals :
           p \in req[h].rows /\ staged[p].op # "insert" /\ landed'[p] > landed[p]
             /\ p \in req'[h].done \ req[h].done
           => \/ ours[staged[p].target] = staged[p].before
              \/ staged[p].target \in req[h].moved
              \/ \E q \in req[h].done : staged[q].target = staged[p].target]_stagingVars
  BY <1>1 DEF StandsIn
<1> QED
  BY <1>2, StagingInvariant, PTL DEF StagingSpec, LandsAsReviewed

\* The two invariants of staging together.
THEOREM StagingIsSound == StagingSpec => []StagingSound
BY StagingTypeCorrect, OnlyApprovedLands, PTL DEF StagingSound

-----------------------------------------------------------------------------
(***************************************************************************)
(* Batches land whole.  An approval has landed or still has to land each   *)
(* of its rows, and past its checks the turns its rows name are there,     *)
(* unless somebody changed them.                                           *)
(***************************************************************************)

RowsAccounted(r) ==
  /\ r.pc \in {"idle", "decided", "backed", "checking"} => r.done = {}
  /\ r.pc = "applying" => r.done \cup r.todo = r.rows
  /\ r.pc = "marking" => r.done = r.rows

TurnsThere(r, rows, list) ==
  r.pc = "applying" =>
    \A p \in r.rows : rows[p].op # "insert" =>
       list[rows[p].target] # NoTurn \/ rows[p].target \in r.moved

BatchesStand == \A h \in Threads : RowsAccounted(req[h]) /\ TurnsThere(req[h], staged, ours)

LEMMA OwnBatch ==
  ASSUME StagingInv, BatchesStand, StagingNext, NEW g \in Threads, Handle(g)
  PROVE  RowsAccounted(req'[g]) /\ TurnsThere(req'[g], staged', ours')
<1> USE DEF StagingInv
<1>1. /\ req \in [Threads -> Approvals] /\ req[g] \in Approvals
      /\ req[g].todo \cup req[g].done \subseteq req[g].rows
      /\ RowsAccounted(req[g]) /\ TurnsThere(req[g], staged, ours)
      /\ ChecksStand(req[g], staged, ours)
  BY DEF StagingTypeOK, ReadRowsApproved, ReviewStands, BatchesStand
<1>2. \A p \in req[g].rows : p \in Proposals /\ SameReview(p)
  BY <1>1, ReviewKept DEF Approvals, ReadRowsApproved
<1>3. \A p \in req[g].rows : /\ staged[p].op # "insert" => /\ staged[p].target \in MsgIds
                                                           /\ staged[p].before \in Bodies
                             /\ staged[p].after \in Bodies
                             /\ staged[p].op \in Ops
  BY <1>1, <1>2 DEF ReadRowsApproved, StagedReviewable, Reviewable, StagingTypeOK, StagedRows
<1>4. NoTurn \notin Bodies
  BY StoreAssumption
<1>5. ASSUME NEW pc \in Pcs \ {"applying", "marking"}, NEW rows, req'[g] = Approval(pc, rows)
      PROVE  RowsAccounted(req'[g]) /\ TurnsThere(req'[g], staged', ours')
  BY <1>5 DEF Approval, RowsAccounted, TurnsThere
<1>6. CASE \/ \E ps \in SUBSET Proposals, approve \in BOOLEAN : DecideStaged(g, ps, approve)
           \/ Backup(g) \/ ReadApproved(g) \/ MarkApplied(g)
  <2>1. CASE UNCHANGED req /\ req[g].pc = "idle"
    BY <1>1, <2>1 DEF TurnsThere
  <2>2. ASSUME NEW pc \in {"idle", "decided", "backed", "checking"}, NEW rows, Put(g, Approval(pc, rows))
        PROVE  RowsAccounted(req'[g]) /\ TurnsThere(req'[g], staged', ours')
    <3>1. req'[g] = Approval(pc, rows)
      BY <1>1, <2>2 DEF Put
    <3> QED BY <1>5, <3>1 DEF Pcs
  <2>3. CASE \E ps \in SUBSET Proposals, approve \in BOOLEAN : DecideStaged(g, ps, approve)
    BY <2>1, <2>2, <2>3 DEF DecideStaged
  <2>4. CASE Backup(g)
    BY <2>2, <2>4 DEF Backup
  <2>5. CASE ReadApproved(g)
    BY <2>2, <2>5 DEF ReadApproved, NoApproval
  <2>6. CASE MarkApplied(g)
    BY <2>2, <2>6 DEF MarkApplied, NoApproval
  <2> QED BY <1>6, <2>3, <2>4, <2>5, <2>6
<1>7. ASSUME NEW p \in Proposals, CheckRow(g, p)
      PROVE  RowsAccounted(req'[g]) /\ TurnsThere(req'[g], staged', ours')
  <2>1. req'[g].pc = "checking" /\ req'[g].done = req[g].done /\ req[g].pc = "checking"
    BY <1>1, <1>7 DEF CheckRow, Put, Approvals
  <2> QED BY <1>1, <2>1 DEF RowsAccounted, TurnsThere
<1>8. CASE EndChecks(g)
  <2>1. CASE req[g].bad
    <3>1. req'[g] = Approval("idle", {}) /\ "idle" \in Pcs \ {"applying", "marking"}
      BY <1>1, <1>8, <2>1 DEF EndChecks, Put, NoApproval, Pcs
    <3> QED BY <1>5, <3>1
  <2>2. CASE ~req[g].bad
    <3>1. /\ UNCHANGED <<staged, ours>>
          /\ req[g].pc = "checking" /\ req[g].todo = {} /\ req[g].done = {}
      BY <1>1, <1>8 DEF EndChecks, storeVars, RowsAccounted
    <3>2. /\ req'[g].pc = "applying" /\ req'[g].todo = req[g].rows /\ req'[g].rows = req[g].rows
          /\ req'[g].moved = req[g].moved /\ req'[g].done = {}
      BY <1>1, <1>8, <2>2 DEF EndChecks, Put, Approval, Approvals
    <3>3. \A p \in req[g].rows : staged[p].op # "insert" =>
            ours[staged[p].target] # NoTurn \/ staged[p].target \in req[g].moved
      BY <1>1, <1>3, <1>4, <2>2, <3>1 DEF ChecksStand, StandsIn
    <3> QED BY <3>1, <3>2, <3>3 DEF RowsAccounted, TurnsThere
  <2> QED BY <2>1, <2>2
<1>9. ASSUME NEW p \in req[g].todo, Land(g, {p}), req[g].pc = "applying",
             \A m \in MsgIds : ours'[m] = ours[m] \/ ours'[m] # NoTurn
      PROVE  RowsAccounted(req'[g]) /\ TurnsThere(req'[g], staged', ours')
  <2>1. /\ req'[g].pc = "applying" /\ req'[g].todo = req[g].todo \ {p} /\ req'[g].rows = req[g].rows
        /\ req'[g].moved = req[g].moved /\ req'[g].done = req[g].done \cup {p}
    BY <1>1, <1>9 DEF Land, PutAndNotice, Approvals
  <2>2. req[g].done \cup req[g].todo = req[g].rows
    BY <1>1, <1>9 DEF RowsAccounted
  <2>3. RowsAccounted(req'[g])
    BY <2>1, <2>2 DEF RowsAccounted
  <2>4. ASSUME NEW q \in req[g].rows, staged'[q].op # "insert"
        PROVE  ours'[staged'[q].target] # NoTurn \/ staged'[q].target \in req[g].moved
    <3>1. staged'[q].target = staged[q].target /\ staged[q].op # "insert"
      BY <1>2, <2>4 DEF SameReview
    <3>2. ours[staged[q].target] # NoTurn \/ staged[q].target \in req[g].moved
      BY <1>1, <1>9, <2>4, <3>1 DEF TurnsThere
    <3> QED BY <1>3, <1>9, <2>4, <3>1, <3>2
  <2> QED BY <2>1, <2>3, <2>4 DEF TurnsThere
<1>10. ASSUME Fail(g)
       PROVE  RowsAccounted(req'[g]) /\ TurnsThere(req'[g], staged', ours')
  <2>1. req'[g] = Approval("idle", {}) /\ "idle" \in Pcs \ {"applying", "marking"}
    BY <1>1, <1>10 DEF Fail, Put, NoApproval, Pcs
  <2> QED BY <1>5, <2>1
<1>11. ASSUME NEW p \in Proposals, ApplyEdit(g, p)
       PROVE  RowsAccounted(req'[g]) /\ TurnsThere(req'[g], staged', ours')
  <2>1. p \in req[g].todo /\ p \in req[g].rows /\ req[g].pc = "applying"
    BY <1>1, <1>11 DEF ApplyEdit, Todo
  <2>2. CASE SetBody(staged[p].target, ours[staged[p].target], staged[p].after) /\ Land(g, {p})
    <3>1. \A m \in MsgIds : ours'[m] = ours[m] \/ ours'[m] = staged[p].after
      BY <2>2 DEF SetBody, PutBody, StagingTypeOK, StoreTypeOK, ChatLists
    <3>2. staged[p].after # NoTurn
      BY <1>3, <1>4, <2>1
    <3> QED BY <1>9, <2>1, <2>2, <3>1, <3>2
  <2> QED BY <1>10, <1>11, <2>2 DEF ApplyEdit
<1>12. ASSUME NEW p \in Proposals, NEW m \in LocalIds, ApplyInsert(g, p, m)
       PROVE  RowsAccounted(req'[g]) /\ TurnsThere(req'[g], staged', ours')
  <2>1. p \in req[g].todo /\ p \in req[g].rows /\ req[g].pc = "applying"
    BY <1>1, <1>12 DEF ApplyInsert, Todo
  <2>2. CASE InsertTurn(m, staged[p].after) /\ Land(g, {p})
    <3>1. \A n \in MsgIds : ours'[n] = ours[n] \/ ours'[n] = staged[p].after
      BY <2>2 DEF InsertTurn, PutBody, StagingTypeOK, StoreTypeOK, ChatLists
    <3>2. staged[p].after # NoTurn
      BY <1>3, <1>4, <2>1
    <3> QED BY <1>9, <2>1, <2>2, <3>1, <3>2
  <2> QED BY <1>10, <1>12, <2>2 DEF ApplyInsert
<1>13. CASE ApplyDeletes(g)
  <2>1. /\ req'[g].pc = "marking" /\ req'[g].rows = req[g].rows
        /\ req'[g].done = req[g].done \cup Todo(g, "delete")
    BY <1>1, <1>13 DEF ApplyDeletes, PutAndNotice, Approvals
  <2>2. req[g].done \cup req[g].todo = req[g].rows
    BY <1>1, <1>13 DEF ApplyDeletes, RowsAccounted
  <2>3. \A p \in req[g].todo : p \in Todo(g, "delete")
    BY <1>1, <1>3, <1>13 DEF ApplyDeletes, Todo, Ops
  <2>4. req'[g].done = req'[g].rows
    BY <2>1, <2>2, <2>3 DEF Todo
  <2> QED BY <2>1, <2>4 DEF RowsAccounted, TurnsThere
<1> QED BY <1>6, <1>7, <1>8, <1>11, <1>12, <1>13 DEF Handle

LEMMA BatchesStandNext == StagingInv /\ BatchesStand /\ [StagingNext]_stagingVars => BatchesStand'
<1> SUFFICES ASSUME StagingInv, BatchesStand, [StagingNext]_stagingVars, NEW g \in Threads
             PROVE  RowsAccounted(req'[g]) /\ TurnsThere(req'[g], staged', ours')
  BY DEF BatchesStand
<1>0. /\ req[g] \in Approvals /\ req[g].rows \subseteq Proposals
      /\ RowsAccounted(req[g]) /\ TurnsThere(req[g], staged, ours)
  BY DEF StagingInv, StagingTypeOK, Approvals, BatchesStand
<1>1. CASE UNCHANGED stagingVars
  BY <1>0, <1>1 DEF stagingVars
<1>2. CASE StagingNext /\ Handle(g)
  BY <1>2, OwnBatch
<1>3. ASSUME StagingNext, NEW rr, rr.pc = req[g].pc, rr.rows = req[g].rows, rr.todo = req[g].todo,
             rr.done = req[g].done, req[g].moved \subseteq rr.moved,
             req[g].pc = "applying" => \A m \in MsgIds : ours'[m] # ours[m] => m \in rr.moved
      PROVE  RowsAccounted(rr) /\ TurnsThere(rr, staged', ours')
  <2>1. \A p \in req[g].rows : /\ SameReview(p)
                               /\ staged[p].op # "insert" => staged[p].target \in MsgIds
    BY <1>0, <1>3, ReviewKept DEF StagingInv, ReadRowsApproved, StagedReviewable, Reviewable
  <2> QED BY <1>0, <1>3, <2>1 DEF RowsAccounted, TurnsThere, SameReview
<1>4. CASE StagingNext /\ ~Handle(g)
  <2>1. CASE req'[g] = NoApproval
    BY <2>1 DEF NoApproval, Approval, RowsAccounted, TurnsThere
  <2>2. CASE req'[g] = req[g] /\ ours' = ours
    BY <1>3, <1>4, <2>2
  <2>3. CASE req'[g] = Noticed(req[g])
    <3>1. /\ Noticed(req[g]).pc = req[g].pc /\ Noticed(req[g]).rows = req[g].rows
          /\ Noticed(req[g]).todo = req[g].todo /\ Noticed(req[g]).done = req[g].done
      BY <1>0, NoticedType
    <3>2. /\ req[g].moved \subseteq Noticed(req[g]).moved
          /\ req[g].pc = "applying" =>
               \A m \in MsgIds : ours'[m] # ours[m] => m \in Noticed(req[g]).moved
      BY <1>0 DEF Noticed, Approvals, Changed
    <3> QED BY <1>3, <1>4, <2>3, <3>1, <3>2
  <2> QED BY <1>4, <2>1, <2>2, <2>3, OthersNoticed
<1> QED BY <1>1, <1>2, <1>4

\* The rows of an approval are accounted for whatever runs beside it.
THEOREM BatchesInvariant == StagingSpec => []BatchesStand
<1>1. StagingInit => BatchesStand
  BY DEF StagingInit, BatchesStand, RowsAccounted, TurnsThere, NoApproval, Approval
<1> QED BY <1>1, BatchesStandNext, StagingInvariant, PTL DEF StagingSpec

\* A set without inserts lands as a whole or not at all, when nobody touches its
\* turns and the process lives.
THEOREM BatchesLandWhole == StagingSpec => WholeUnlessDisturbed
<1>1. ASSUME StagingInv, BatchesStand, [StagingNext]_stagingVars, NEW h \in Threads, Ends(h)
      PROVE  \/ req[h].done \in {{}, req[h].rows}
             \/ \E p \in req[h].rows : staged[p].op = "insert"
             \/ \E p \in req[h].rows : staged[p].target \in req[h].moved
  <2>1. /\ req \in [Threads -> Approvals] /\ req[h] \in Approvals
        /\ req[h].todo \cup req[h].done \subseteq req[h].rows
        /\ RowsAccounted(req[h]) /\ TurnsThere(req[h], staged, ours)
    BY <1>1 DEF StagingInv, StagingTypeOK, ReadRowsApproved, BatchesStand
  <2>2. StagingNext /\ req[h].pc # "idle" /\ req'[h].pc = "idle" /\ ~Restart
    BY <1>1 DEF stagingVars, Ends
  <2>3. Handle(h)
    <3>1. Noticed(req[h]).pc = req[h].pc
      BY <2>1, NoticedType
    <3> QED BY <1>1, <2>2, <3>1, OthersNoticed
  <2>4. ~ \E ps \in SUBSET Proposals, approve \in BOOLEAN : DecideStaged(h, ps, approve)
    BY <2>2 DEF DecideStaged
  <2>5. ~Backup(h) /\ ~ApplyDeletes(h) /\ ~ \E p \in Proposals : CheckRow(h, p)
    <3>1. ASSUME NEW r, r.pc # "idle", Put(h, r) \/ PutAndNotice(h, r) PROVE FALSE
      BY <2>1, <2>2, <3>1 DEF Put, PutAndNotice
    <3>2. Approval("backed", {}).pc # "idle"
      BY DEF Approval
    <3>3. [req[h] EXCEPT !.pc = "marking", !.todo = {}, !.done = @ \cup Todo(h, "delete")].pc # "idle"
      BY <2>1 DEF Approvals
    <3>4. \A p : [req[h] EXCEPT !.todo = @ \ {p}, !.bad = @ \/ Conflicting(p)].pc # "idle"
      BY <2>1, <2>2 DEF Approvals
    <3>5. ~Backup(h)
      BY <3>1, <3>2 DEF Backup
    <3>6. ~ApplyDeletes(h)
      BY <3>1, <3>3 DEF ApplyDeletes
    <3> QED BY <3>1, <3>4, <3>5, <3>6 DEF CheckRow
  <2>6. CASE ReadApproved(h) \/ EndChecks(h) \/ MarkApplied(h)
    BY <2>1, <2>6 DEF ReadApproved, EndChecks, MarkApplied, RowsAccounted
  <2>7. ASSUME NEW p \in Proposals, ApplyEdit(h, p)
        PROVE  \E q \in req[h].rows : staged[q].target \in req[h].moved
    <3>1. p \in req[h].rows /\ staged[p].op = "edit" /\ req[h].pc = "applying"
      BY <2>1, <2>7 DEF ApplyEdit, Todo
    <3>2. ~Land(h, {p})
      BY <2>1, <2>2, <3>1 DEF Land, PutAndNotice, Approvals
    <3>3. ours[staged[p].target] = NoTurn
      BY <2>7, <3>2 DEF ApplyEdit
    <3> QED BY <2>1, <3>1, <3>3 DEF TurnsThere
  <2>8. ASSUME NEW p \in Proposals, NEW m \in LocalIds, ApplyInsert(h, p, m)
        PROVE  \E q \in req[h].rows : staged[q].op = "insert"
    BY <2>1, <2>8 DEF ApplyInsert, Todo
  <2> QED BY <2>3, <2>4, <2>5, <2>6, <2>7, <2>8 DEF Handle
<1>2. StagingInv /\ BatchesStand /\ [StagingNext]_stagingVars =>
        [\A h \in Threads : Ends(h) =>
           \/ req[h].done \in {{}, req[h].rows}
           \/ \E p \in req[h].rows : staged[p].op = "insert"
           \/ \E p \in req[h].rows : staged[p].target \in req[h].moved]_stagingVars
  BY <1>1
<1> QED
  BY <1>2, StagingInvariant, BatchesInvariant, PTL DEF StagingSpec, WholeUnlessDisturbed

\* An approval lands what was reviewed, and all of it.
THEOREM ApprovalsHold == StagingSpec => ApprovalHolds
BY LandsOnReview, BatchesLandWhole DEF ApprovalHolds

=============================================================================
