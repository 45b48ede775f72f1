------------------------------ MODULE TurnSync ------------------------------
(***************************************************************************)
(* One chat kept in three places: RisuAI, the backend's baseline and the   *)
(* backend's working copy (TurnStore).  The panel uploads what it reads    *)
(* out of RisuAI (state.upload, POST /workspace), and writes the working   *)
(* copy back (state.writeBack, host.writeChat, POST /commit).              *)
(*                                                                         *)
(* Requests are handled by a pool of threads: an upload the panel gave up  *)
(* on may be handled later, after newer ones, or never.  RisuAI belongs to *)
(* its user, who goes on chatting between any two steps of the panel.      *)
(* Writes that only reorder turns, and the lorebook and memory that travel *)
(* in the same object, are left out.                                       *)
(***************************************************************************)
EXTENDS TurnStore

CONSTANTS
  MaxRisuEdits,   \* bound: edits made in RisuAI
  MaxLocalEdits,  \* bound: edits, decisions and restores made in the panel
  MaxInFlight,    \* bound: uploads in flight when the panel opens a chat
  MaxWrites       \* bound: write-backs started

ASSUME BoundsAssumption ==
  {MaxRisuEdits, MaxLocalEdits, MaxInFlight, MaxWrites} \subseteq Nat

VARIABLES
  risu,      \* the chat as RisuAI holds it
  up,        \* uploads sent and not handled yet
  w,         \* the write-back in progress
  count,     \* what the bounds count
  seen       \* history: <<turn, text>> pairs some handled upload held

syncVars == <<base, ours, flag, minted, snaps, risu, up, w, count, seen>>

(***************************************************************************)
(* An upload says who vouches for it: the chat RisuAI has open is `live`,  *)
(* one picked from the list is not (and may be a stub, without turns);     *)
(* 🔄 forces and the re-read after a write-back (chatReset) forces too.     *)
(***************************************************************************)
Upload(list, mode) == [msgs |-> list, mode |-> mode]
UploadModes == {"live", "picked", "force", "chatReset"}
Uploads == [msgs : ChatLists, mode : UploadModes]
Forces(u) == u.mode \in {"force", "chatReset"}
IsLive(u) == u.mode = "live"

(***************************************************************************)
(* A write-back between two awaits: cur and orig are what GET /patch read, *)
(* fresh is the host's re-read.                                            *)
(***************************************************************************)
Steps == {"idle", "bar", "curRead", "patched", "checked", "set", "verified",
          "committed", "reread"}
Write(pc, cur, orig, fresh) == [pc |-> pc, cur |-> cur, orig |-> orig, fresh |-> fresh]
Idle == Write("idle", EmptyChat, EmptyChat, EmptyChat)
Writes == [pc : Steps, cur : ChatLists, orig : ChatLists, fresh : ChatLists]

Counters == {"risu", "local", "write"}
Limit == [c \in Counters |-> CASE c = "risu" -> MaxRisuEdits
                               [] c = "local" -> MaxLocalEdits
                               [] c = "write" -> MaxWrites]
Tick(c) == count[c] < Limit[c] /\ count' = [count EXCEPT ![c] = @ + 1]

SyncTypeOK ==
  /\ StoreTypeOK
  /\ risu \in ChatLists
  /\ up \in SUBSET Uploads
  /\ w \in Writes
  /\ count \in [Counters -> Nat]
  /\ seen \in SUBSET (MsgIds \X Texts)

SyncInit ==
  /\ StoreInit
  /\ risu \in {l \in ChatLists : \A m \in LocalIds : l[m] = NoTurn}
  /\ up = {}
  /\ w = Idle
  /\ count = [c \in Counters |-> 0]
  /\ seen = {}

-----------------------------------------------------------------------------
(* The user, in RisuAI and in the panel.                                   *)

\* RisuAI writes, rewrites or deletes a turn.  An id minted here is RisuAI's
\* to edit only while it holds that turn.
RisuEdit(m, t) ==
  /\ Tick("risu")
  /\ t # risu[m]
  /\ m \in LocalIds => risu[m] # NoTurn
  /\ risu' = [risu EXCEPT ![m] = t]
  /\ UNCHANGED <<storeVars, up, w, seen>>

\* The panel shows a chat once an upload of it was taken, and the modal of
\* foregroundWrite keeps its controls away from a write.
Loaded == seen # {}
PanelFree == Loaded /\ w.pc \in {"idle", "bar"}

PanelEdit ==
  /\ PanelFree
  /\ Tick("local")
  /\ LocalEdit \/ Settle
  /\ UNCHANGED <<risu, up, w, seen>>

\* state.upload on opening the panel, on picking a chat and on 🔄.  A chat
\* RisuAI has not loaded is read as a stub.
Open(mode, stub) ==
  /\ w.pc = "idle"
  /\ Cardinality(up) < MaxInFlight
  /\ mode # "chatReset"
  /\ stub => mode = "picked"
  /\ up' = up \cup {Upload(IF stub THEN EmptyChat ELSE risu, mode)}
  /\ UNCHANGED <<storeVars, risu, w, count, seen>>

-----------------------------------------------------------------------------
(* Uploads arriving.                                                       *)

\* POST /workspace.  The answer to the re-read ends the write-back.
Deliver(u) ==
  /\ u \in up
  /\ up' = up \ {u}
  /\ IF Refused(u.msgs, Forces(u), IsLive(u))
     THEN UNCHANGED <<storeVars, seen>>
     ELSE /\ Ingest(u.msgs, Forces(u), IsLive(u))
          /\ seen' = seen \cup {<<m, u.msgs[m]>> : m \in MsgIds}
  /\ w' = IF w.pc = "reread" /\ u.mode = "chatReset" THEN Idle ELSE w
  /\ UNCHANGED <<risu, count>>

\* The connection drops before the backend reads the request.
Lose(u) ==
  /\ u \in up
  /\ up' = up \ {u}
  /\ UNCHANGED <<storeVars, risu, w, count, seen>>

-----------------------------------------------------------------------------
(* The write-back.                                                         *)

Goto(pc) == w' = [w EXCEPT !.pc = pc]
RestUnchanged == UNCHANGED <<storeVars, risu, up, count, seen>>

\* The write popover opens: 반영 is offered while no turn has a mark.
BarOpen ==
  /\ Loaded /\ w.pc = "idle"
  /\ \A m \in MsgIds : ~Flagged(m)
  /\ Goto("bar")
  /\ RestUnchanged

\* GET /patch, first query (store.patch: turns).  Reached from the popover,
\* or from an approved host_writeback proposal, which has no popover.
PatchReadWorking ==
  /\ PanelFree
  /\ Tick("write")
  /\ w' = Write("curRead", ours, EmptyChat, EmptyChat)
  /\ UNCHANGED <<storeVars, risu, up, seen>>

\* GET /patch, second query (turns_original).  Nothing to write: done.
PatchReadBaseline ==
  /\ w.pc = "curRead"
  /\ w' = IF w.cur = base THEN Idle ELSE Write("patched", w.cur, base, EmptyChat)
  /\ RestUnchanged

Structural == \E m \in MsgIds : (w.cur[m] = NoTurn) # (w.orig[m] = NoTurn)

MatchesEditsOnly(fresh) ==
  \A m \in MsgIds :
    w.cur[m] # NoTurn /\ w.orig[m] # NoTurn /\ w.cur[m] # w.orig[m] => fresh[m] = w.orig[m]

\* host.writeChat compares RisuAI with what the patch is based on: the whole
\* list when turns came or went, the edited turns otherwise.  The hashes of
\* beforeTurns are taken not to collide.
Matches(fresh) ==
  IF Structural THEN fresh = w.orig
  ELSE \A m \in MsgIds : w.cur[m] # w.orig[m] => fresh[m] = w.orig[m]

HostCheck ==
  /\ w.pc = "patched"
  /\ w' = IF Matches(risu) THEN Write("checked", w.cur, w.orig, risu) ELSE Idle
  /\ RestUnchanged

Composed ==
  IF Structural THEN w.cur
  ELSE [m \in MsgIds |-> IF w.cur[m] # w.orig[m] THEN w.cur[m] ELSE w.fresh[m]]

\* setChatToIndex: it resolves whether or not the write took.
HostSet(took) ==
  /\ w.pc = "checked"
  /\ risu' = IF took THEN Composed ELSE risu
  /\ Goto("set")
  /\ UNCHANGED <<storeVars, up, count, seen>>

\* The read-back: a write that did not stick is reported and goes no further.
HostVerify ==
  /\ w.pc = "set"
  /\ w' = IF risu = Composed THEN [w EXCEPT !.pc = "verified"] ELSE Idle
  /\ RestUnchanged

CommitNoSnapshot ==
  /\ w.pc = "verified"
  /\ Goto("committed")
  /\ UNCHANGED <<storeVars, risu, up, count, seen>>

CommitRebases ==
  /\ w.pc = "verified"
  /\ base' = ours
  /\ TakeSnapshot
  /\ Goto("committed")
  /\ UNCHANGED <<ours, flag, minted, risu, up, count, seen>>

\* POST /commit: a snapshot of what was shipped.
Commit ==
  /\ w.pc = "verified"
  /\ Checkpoint
  /\ Goto("committed")
  /\ UNCHANGED <<risu, up, count, seen>>

\* state.rereadChat: RisuAI's list, read again and uploaded with chatReset.
Reread ==
  /\ w.pc = "committed"
  /\ up' = up \cup {Upload(risu, "chatReset")}
  /\ Goto("reread")
  /\ UNCHANGED <<storeVars, risu, count, seen>>

AbortNotFromReread ==
  /\ w.pc \notin {"idle", "reread"}
  /\ w' = Idle
  /\ RestUnchanged

\* An await throws - refused, timed out, offline - or the popover closes.
\* foregroundWrite's finally takes the modal down.
Abort ==
  /\ w.pc # "idle"
  /\ w' = Idle
  /\ RestUnchanged

WriteStep ==
  \/ PatchReadBaseline
  \/ HostCheck
  \/ \E took \in BOOLEAN : HostSet(took)
  \/ HostVerify
  \/ Commit
  \/ Reread
  \/ Abort

SyncNext ==
  \/ \E m \in MsgIds, t \in Texts : RisuEdit(m, t)
  \/ PanelEdit
  \/ \E mode \in UploadModes, stub \in BOOLEAN : Open(mode, stub)
  \/ \E u \in up : Deliver(u)
  \/ \E u \in up : Lose(u)
  \/ BarOpen
  \/ PatchReadWorking
  \/ WriteStep

SyncSpec == SyncInit /\ [][SyncNext]_syncVars

-----------------------------------------------------------------------------
(***************************************************************************)
(* Fairness.  Every await of a write-back settles: the host's calls        *)
(* resolve or throw and requests time out (transport.ts), so a write-back  *)
(* goes on or aborts.  The user comes back to the panel with the chat open *)
(* in RisuAI again and again; a request is not in flight forever and not   *)
(* every upload is lost.                                                   *)
(***************************************************************************)
Fairness ==
  /\ WF_syncVars(WriteStep)
  /\ SF_syncVars(Open("live", FALSE))
  /\ \A u \in Uploads : WF_syncVars(Deliver(u) \/ Lose(u))
  /\ SF_syncVars(\E u \in up : u.mode = "live" /\ Deliver(u))

FairSyncSpec == SyncSpec /\ Fairness

-----------------------------------------------------------------------------
(* Properties.                                                             *)

(***************************************************************************)
(* A turn inserted in the panel is the only one of its id: until the id is *)
(* minted no copy of the chat - working, shipped, on its way or saved -    *)
(* has a turn of that name.  The merge matches turns by id alone.          *)
(***************************************************************************)
IdsAreMinted ==
  /\ StoreIdsMinted
  /\ OnlyMinted(risu)
  /\ \A u \in up : OnlyMinted(u.msgs)
  /\ OnlyMinted(w.cur) /\ OnlyMinted(w.fresh)

\* What holds of every copy of the chat - in RisuAI, on its way, here - at any
\* moment of a write-back.
SyncSound == SyncTypeOK /\ IdsAreMinted


(***************************************************************************)
(* A write-back replaces or deletes nothing RisuAI wrote since the last    *)
(* upload: what it changes in the list the host has just re-read is a text *)
(* that an upload had brought to the panel before (host.writeChat, "any    *)
(* mismatch aborts the whole write"), whichever uploads, edits and         *)
(* restores ran between the two queries of GET /patch and the write.       *)
(***************************************************************************)
RevertsOnlySeen ==
  \A m \in MsgIds : Composed[m] # w.fresh[m] => <<m, w.fresh[m]>> \in seen

NoUnseenRevert == [][\A took \in BOOLEAN : HostSet(took) => RevertsOnlySeen]_syncVars

(***************************************************************************)
(* The re-read after a write-back throws the working copy away only after  *)
(* its snapshot: a text of the panel's that RisuAI does not hold when the  *)
(* forced upload is handled can be restored, as Markdown keeps it          *)
(* (main.h_commit, "Take a snapshot and stop holding a copy").             *)
(***************************************************************************)
LostIsSnapped ==
  \E s \in snaps : \A m \in MsgIds :
    ours[m] # base[m] /\ ours'[m] # ours[m] => s[m] = InMarkdown(ours)[m]

CommitLosesNothing ==
  [][\A u \in up : Deliver(u) /\ u.mode = "chatReset" /\ w.pc = "reread" =>
       LostIsSnapped]_syncVars

(***************************************************************************)
(* The modal over the panel always comes down, whatever request of the     *)
(* write-back is lost or refused (operation.foregroundWrite).              *)
(***************************************************************************)
LockReleased == w.pc \notin {"idle", "bar"} ~> w.pc = "idle"

(***************************************************************************)
(* However many uploads were lost, refused, or handled in the wrong order, *)
(* once RisuAI rests the baseline comes to be what RisuAI holds and stays  *)
(* it - a chat RisuAI has emptied included.                                *)
(***************************************************************************)
BaselineCatchesUp == <>[](base = risu)
=============================================================================
