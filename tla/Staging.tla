------------------------------ MODULE Staging ------------------------------
(***************************************************************************)
(* Staged edits (pyserver/app/staging.py, main.h_approve): what the agent  *)
(* proposes for the turns, what the user decides, and what is applied.     *)
(*                                                                         *)
(* Handlers run on a pool of threads and every statement commits on its    *)
(* own, so an approval is a sequence of steps with the panel's edits,      *)
(* re-opens, another approval or the end of the process in between.        *)
(***************************************************************************)
EXTENDS TurnStore

CONSTANTS
  Threads,      \* handlers of POST /approve that may run at once
  MaxStaged,    \* bound: proposals staged
  MaxMoves,     \* bound: re-opens and edits of the panel's
  MaxApprovals  \* bound: approvals handled, and ends of the process

ASSUME StagingAssumption == {MaxStaged, MaxMoves, MaxApprovals} \subseteq Nat

VARIABLES
  staged,   \* staged_edits, in the order of created_at
  req,      \* the approvals being handled
  ticks,    \* what the bounds count
  landed    \* history: how often each proposal has changed the turns

stagingVars == <<base, ours, flag, minted, snaps, staged, req, ticks, landed>>

Proposals == 1 .. MaxStaged
Ops == {"edit", "insert", "delete"}
Statuses == {"none", "pending", "approved", "rejected", "applied"}

(***************************************************************************)
(* A row of staged_edits: target_chat_id (of an insert: the turn before    *)
(* it, NoTurn for the head), the text reviewed and the text proposed.      *)
(***************************************************************************)
StagedRow(op, m, before, after) ==
  [op |-> op, target |-> m, before |-> before, after |-> after, status |-> "pending"]
NotStaged == [StagedRow("edit", NoTurn, NoTurn, NoTurn) EXCEPT !.status = "none"]
StagedRows == [op : Ops, target : MsgIds \cup {NoTurn}, before : Texts, after : Texts,
               status : Statuses]
WithStatus(s) == {p \in Proposals : staged[p].status = s}
SetStatus(ps, s) == staged' = [p \in Proposals |-> IF p \in ps THEN [staged[p] EXCEPT !.status = s]
                                                   ELSE staged[p]]

(***************************************************************************)
(* An approval: `rows` is what apply_approved read, `todo` what is left of *)
(* the loop it is in, `bad` whether it has met a conflict.  `done` and     *)
(* `moved` are history: the rows it has landed, and the turns that others  *)
(* changed since it read its rows.                                         *)
(***************************************************************************)
Approval(pc, rows) ==
  [pc |-> pc, rows |-> rows, todo |-> rows, bad |-> FALSE, done |-> {}, moved |-> {}]
NoApproval == Approval("idle", {})
Pcs == {"idle", "decided", "backed", "checking", "applying", "marking"}
Approvals == [pc : Pcs, rows : SUBSET Proposals, todo : SUBSET Proposals, bad : BOOLEAN,
              done : SUBSET Proposals, moved : SUBSET MsgIds]

TickKinds == {"move", "approval"}
TickLimit == [c \in TickKinds |-> IF c = "move" THEN MaxMoves ELSE MaxApprovals]
Spend(c) == ticks[c] < TickLimit[c] /\ ticks' = [ticks EXCEPT ![c] = @ + 1]

StagingTypeOK ==
  /\ StoreTypeOK
  /\ staged \in [Proposals -> StagedRows]
  /\ req \in [Threads -> Approvals]
  /\ ticks \in [TickKinds -> Nat]
  /\ landed \in [Proposals -> Nat]

\* A chat that has been uploaded.
StagingInit ==
  /\ base \in {l \in ChatLists \ {EmptyChat} : \A m \in LocalIds : l[m] = NoTurn}
  /\ ours = base
  /\ flag = NoFlags
  /\ minted = {}
  /\ snaps = {}
  /\ staged = [p \in Proposals |-> NotStaged]
  /\ req = [h \in Threads |-> NoApproval]
  /\ ticks = [c \in TickKinds |-> 0]
  /\ landed = [p \in Proposals |-> 0]

\* What the other approvals have to know of a step that changes turns.
Changed == {m \in MsgIds : ours'[m] # ours[m]}
Noticed(r) == IF r.pc \in {"checking", "applying"} THEN [r EXCEPT !.moved = @ \cup Changed] ELSE r
Put(h, r) == req' = [req EXCEPT ![h] = r]
PutAndNotice(h, r) == req' = [g \in Threads |-> IF g = h THEN r ELSE Noticed(req[g])]

-----------------------------------------------------------------------------
(* Proposing and deciding.                                                 *)

\* staging.stage: the agent's tools propose for turns there are, with the text
\* they have now; a script may name any turn to insert behind.
Stage(op, m, after) ==
  /\ \E p \in WithStatus("none") :
       /\ \A q \in WithStatus("none") : p <= q
       /\ op # "insert" => m \in MsgIds /\ ours[m] # NoTurn
       /\ op = "edit" => ours[m] # after
       /\ staged' = [staged EXCEPT ![p] =
                       StagedRow(op, m, IF op = "insert" THEN NoTurn ELSE ours[m], after)]
  /\ UNCHANGED <<storeVars, req, ticks, landed>>

DecideAgain(h, ps, approve) ==
  /\ Spend("approval")
  /\ req[h].pc = "idle"
  /\ SetStatus(ps, IF approve THEN "approved" ELSE "rejected")
  /\ IF approve THEN Put(h, Approval("decided", {})) ELSE UNCHANGED req
  /\ UNCHANGED <<storeVars, landed>>

\* h_approve, as far as staging.decide and decide_batch: only what is pending
\* still is decided.  A rejection ends there.
DecideStaged(h, ps, approve) ==
  /\ Spend("approval")
  /\ req[h].pc = "idle"
  /\ SetStatus(ps \cap WithStatus("pending"), IF approve THEN "approved" ELSE "rejected")
  /\ IF approve THEN Put(h, Approval("decided", {})) ELSE UNCHANGED req
  /\ UNCHANGED <<storeVars, landed>>

\* h_staged_clear: staging.clear deletes what is pending: it will never be approved.
ClearStaged ==
  /\ WithStatus("pending") # {}
  /\ SetStatus(WithStatus("pending"), "rejected")
  /\ UNCHANGED <<storeVars, req, ticks, landed>>

-----------------------------------------------------------------------------
(* h_approve after the decision.                                           *)

\* The backup taken before the proposals are applied.
Backup(h) ==
  /\ req[h].pc = "decided"
  /\ Checkpoint
  /\ Put(h, Approval("backed", {}))
  /\ UNCHANGED <<staged, ticks, landed>>

ReadUndecided(h) ==
  LET rows == WithStatus("approved") \cup WithStatus("pending") IN
  /\ req[h].pc = "backed"
  /\ Put(h, IF rows = {} THEN NoApproval ELSE Approval("checking", rows))
  /\ UNCHANGED <<storeVars, staged, ticks, landed>>

\* staging.apply_approved takes every approved row of the chat, whoever
\* approved it and when.
ReadApproved(h) ==
  LET rows == WithStatus("approved") IN
  /\ req[h].pc = "backed"
  /\ Put(h, IF rows = {} THEN NoApproval ELSE Approval("checking", rows))
  /\ UNCHANGED <<storeVars, staged, ticks, landed>>

\* An insert is not checked; an edit or a delete wants the text reviewed.
ConflictingIfGone(p) == staged[p].op # "insert" /\ ours[staged[p].target] = NoTurn
Conflicting(p) == staged[p].op # "insert" /\ ours[staged[p].target] # staged[p].before

CheckRow(h, p) ==
  /\ req[h].pc = "checking"
  /\ p \in req[h].todo
  /\ Put(h, [req[h] EXCEPT !.todo = @ \ {p}, !.bad = @ \/ Conflicting(p)])
  /\ UNCHANGED <<storeVars, staged, ticks, landed>>

\* One conflict refuses the whole set, which stays approved.
EndChecks(h) ==
  /\ req[h].pc = "checking"
  /\ req[h].todo = {}
  /\ Put(h, IF req[h].bad THEN NoApproval ELSE [Approval("applying", req[h].rows)
                                                      EXCEPT !.moved = req[h].moved])
  /\ UNCHANGED <<storeVars, staged, ticks, landed>>

Todo(h, op) == {p \in req[h].todo : staged[p].op = op}
Land(h, ps) ==
  /\ landed' = [p \in Proposals |-> IF p \in ps THEN landed[p] + 1 ELSE landed[p]]
  /\ PutAndNotice(h, [req[h] EXCEPT !.todo = @ \ ps, !.done = @ \cup ps])
Fail(h) == Put(h, NoApproval) /\ UNCHANGED <<storeVars, landed>>

\* store.set_body, without `expect`.  A turn that is gone raises LookupError,
\* which ends the request with the rows before it applied.  The rows come in the
\* order of turn_index, which is left out as the order of the turns is.
ApplyEdit(h, p) ==
  /\ req[h].pc = "applying"
  /\ p \in Todo(h, "edit")
  /\ LET m == staged[p].target IN
       IF ours[m] = NoTurn THEN Fail(h)
       ELSE SetBody(m, ours[m], staged[p].after) /\ Land(h, {p})
  /\ UNCHANGED <<staged, ticks>>

\* store.insert_turn; so does an anchor that is gone.
AnchorGone(p) == staged[p].target # NoTurn /\ ours[staged[p].target] = NoTurn

ApplyInsert(h, p, m) ==
  /\ req[h].pc = "applying"
  /\ Todo(h, "edit") = {}
  /\ p \in Todo(h, "insert")
  /\ IF AnchorGone(p) THEN Fail(h) ELSE InsertTurn(m, staged[p].after) /\ Land(h, {p})
  /\ UNCHANGED <<staged, ticks>>

\* store.delete_turns, of all of them at once.
ApplyDeletes(h) ==
  LET ms == {staged[p].target : p \in Todo(h, "delete")} IN
  /\ req[h].pc = "applying"
  /\ Todo(h, "edit") \cup Todo(h, "insert") = {}
  /\ IF \E m \in ms : ours[m] # NoTurn THEN DeleteTurns(ms) ELSE UNCHANGED storeVars
  /\ landed' = [p \in Proposals |-> IF p \in Todo(h, "delete") THEN landed[p] + 1 ELSE landed[p]]
  /\ PutAndNotice(h, [req[h] EXCEPT !.pc = "marking", !.todo = {}, !.done = @ \cup Todo(h, "delete")])
  /\ UNCHANGED <<staged, ticks>>

MarkApplied(h) ==
  /\ req[h].pc = "marking"
  /\ SetStatus(req[h].rows, "applied")
  /\ Put(h, NoApproval)
  /\ UNCHANGED <<storeVars, ticks, landed>>

-----------------------------------------------------------------------------
(* Meanwhile.                                                              *)

\* The panel edits the turns, or uploads the chat again.
Move ==
  /\ Spend("move")
  /\ LocalEdit \/ \E theirs \in Sendable : Ingest(theirs, FALSE, TRUE)
  /\ req' = [h \in Threads |-> Noticed(req[h])]
  /\ UNCHANGED <<staged, landed>>

\* The process ends: what was committed is there when it starts again.
Restart ==
  /\ Spend("approval")
  /\ \E h \in Threads : req[h].pc # "idle"
  /\ req' = [h \in Threads |-> NoApproval]
  /\ UNCHANGED <<storeVars, staged, landed>>

Handle(h) ==
  \/ \E ps \in SUBSET Proposals, approve \in BOOLEAN : DecideStaged(h, ps, approve)
  \/ Backup(h)
  \/ ReadApproved(h)
  \/ \E p \in Proposals : CheckRow(h, p)
  \/ EndChecks(h)
  \/ \E p \in Proposals : ApplyEdit(h, p)
  \/ \E p \in Proposals, m \in LocalIds : ApplyInsert(h, p, m)
  \/ ApplyDeletes(h)
  \/ MarkApplied(h)

StagingNext ==
  \/ \E op \in Ops, m \in MsgIds \cup {NoTurn}, after \in Bodies : Stage(op, m, after)
  \/ ClearStaged
  \/ \E h \in Threads : Handle(h)
  \/ Move
  \/ Restart

StagingSpec == StagingInit /\ [][StagingNext]_stagingVars

-----------------------------------------------------------------------------
(* Properties.                                                             *)

(***************************************************************************)
(* A decision is final: a rejected proposal never comes back, an applied   *)
(* one is not approved again by a second 승인 that arrives late, and what   *)
(* was approved cannot be rejected under the handler that is applying it.  *)
(***************************************************************************)
Final(s) == CASE s = "none" -> {"none", "pending"}
              [] s = "pending" -> Statuses \ {"none", "applied"}
              [] s = "approved" -> {"approved", "applied"}
              [] OTHER -> {s}

DecisionsAreFinal ==
  [][\A p \in Proposals : staged'[p].status \in Final(staged[p].status)]_stagingVars

(***************************************************************************)
(* The agent never writes to the turns: no proposal changes them unless a  *)
(* person approved it, whatever threads, crashes and re-opens do           *)
(* (staging.py, "a proposal becomes an edit only when a person approves    *)
(* it").                                                                   *)
(***************************************************************************)
LandsOnlyApproved ==
  \A p \in Proposals : landed[p] > 0 => staged[p].status \in {"approved", "applied"}

\* What holds between the statements of two approvals: the types, and no change
\* to the turns that no person approved.
StagingSound == StagingTypeOK /\ LandsOnlyApproved


(***************************************************************************)
(* An edit or a deletion lands on the text that was reviewed.  Only a      *)
(* change made after apply_approved read its rows, or another proposal of  *)
(* the set for the same turn, can put another text under it.               *)
(***************************************************************************)
LandsAsReviewed ==
  [][\A h \in Threads, p \in Proposals :
       p \in req[h].rows /\ staged[p].op # "insert" /\ landed'[p] > landed[p]
         /\ p \in req'[h].done \ req[h].done
       => \/ ours[staged[p].target] = staged[p].before
          \/ staged[p].target \in req[h].moved
          \/ \E q \in req[h].done : staged[q].target = staged[p].target]_stagingVars

(***************************************************************************)
(* A set with no insert lands as a whole or not at all, as long as the     *)
(* process lives and nobody touches its turns meanwhile (staging.py,       *)
(* "Batches are all-or-nothing on apply").                                 *)
(***************************************************************************)
Ends(h) == req[h].pc # "idle" /\ req'[h].pc = "idle" /\ ~Restart

WholeUnlessDisturbed ==
  [][\A h \in Threads : Ends(h) =>
       \/ req[h].done \in {{}, req[h].rows}
       \/ \E p \in req[h].rows : staged[p].op = "insert"
       \/ \E p \in req[h].rows : staged[p].target \in req[h].moved]_stagingVars

\* An approval lands what was reviewed, and all of it: each edit on the text the
\* user saw, and the whole set when it has no insert and nobody interferes
\* (staging.apply_approved).
ApprovalHolds == LandsAsReviewed /\ WholeUnlessDisturbed

=============================================================================
