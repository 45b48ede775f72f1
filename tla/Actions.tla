------------------------------ MODULE Actions ------------------------------
(***************************************************************************)
(* The approval queue for everything that is not a turn                    *)
(* (pyserver/app/actions.py, hostwriteback.py, state.decideAction).        *)
(*                                                                         *)
(* A proposal is decided in the panel.  The backend carries some kinds out *)
(* itself; the rest it hands back to the plugin, which reports the outcome *)
(* in a second request.  Handlers run on a pool of threads: decide reads   *)
(* the row in one statement and writes it in another.  An answer may be    *)
(* lost or late, and the panel then asks once more.  A tool of the agent's *)
(* may wait for the outcome of the action it proposed (run_host), and the  *)
(* backend may end at any time.                                            *)
(***************************************************************************)
EXTENDS Naturals, FiniteSets

CONSTANTS
  Backend,      \* proposals the backend carries out: EXECUTORS
  Rerunnable,   \* RERUNNABLE_HOST_KINDS: write-backs, opening what is open
  Once,         \* host_save_copy, host_module_create
  Panels,       \* places a decision is made from: pane, popover, MCP job
  NoAction,     \* a panel that has decided nothing yet
  MaxProposals, \* bound: proposals made
  MaxRequests,  \* bound: requests sent by the panels
  MaxLosses,    \* bound: answers the panels give up on
  MaxRestarts   \* bound: ends of the backend

Proposals == Backend \cup Rerunnable \cup Once
Host == Rerunnable \cup Once

ASSUME ActionsAssumption ==
  /\ NoAction \notin Proposals
  /\ Backend \cap Host = {}
  /\ Rerunnable \cap Once = {}
  /\ {MaxProposals, MaxRequests, MaxLosses, MaxRestarts} \subseteq Nat

VARIABLES
  status,   \* pending_actions.status
  req,      \* the requests, by number
  sent,     \* how many have been sent
  panel,    \* what each panel is at
  waiter,   \* run_host: the tool that waits for the action
  pushed,   \* actions whose event for the panel has not been delivered
  lost,     \* answers given up on, and ends of the backend
  ran,      \* history: how often an action was carried out
  claims,   \* history: what users and tools were told of an action
  torn      \* history: actions a decision on which was not of one piece

actionsVars == <<status, req, sent, panel, waiter, pushed, lost, ran, claims, torn>>

Statuses == {"none", "pending", "approved", "rejected", "done", "failed", "deleted"}

(***************************************************************************)
(* A request: `approve` and `reject` are /actions/decide, `ok` and         *)
(* `failed` are /actions/complete.  Of a decision, `read` is past the      *)
(* first query with a pending row, `ran` and `threw` are past EXECUTORS.   *)
(* The answer goes to the panel that still waits for it, if one does;      *)
(* `gone` is what it gets of a backend that ended.                         *)
(***************************************************************************)
Requests == 1 .. MaxRequests
Decisions == {"approve", "reject"}
Reports == {"ok", "failed"}
Answers == {"none", "host", "already", "rejected", "recorded", "refused", "gone"}
Request(a, what) == [act |-> a, what |-> what, pc |-> "sent"]
NoRequest == [act |-> NoAction, what |-> "reject", pc |-> "over"]
Pcs == {"sent", "read", "ran", "threw", "over"}
UnderWay == {"read", "ran", "threw"}

\* A panel: `tag` is the request it waits for, `again` that it is the second
\* try, `took` that the host did it, `wanted` that an event and not a click asked.
Panel(pc, a, what, tag, again, wanted) ==
  [pc |-> pc, act |-> a, what |-> what, tag |-> tag, again |-> again, wanted |-> wanted,
   answer |-> "none"]
IdlePanel == Panel("idle", NoAction, "reject", 0, FALSE, FALSE)
PanelPcs == {"idle", "waiting", "hosting"}
WaiterPcs == {"none", "waiting", "cancelling", "over"}

RequestRecords ==
  [act : Proposals \cup {NoAction}, what : Decisions \cup Reports, pc : Pcs]
PanelRecords ==
  [pc : PanelPcs, act : Proposals \cup {NoAction}, what : Decisions \cup Reports,
   tag : 0 .. MaxRequests, again : BOOLEAN, wanted : BOOLEAN, answer : Answers]

\* A row's status is one the code knows how to go on from, a panel waits for a
\* request that was sent; and the types of everything else.
ActionsTypeOK ==
  /\ status \in [Proposals -> Statuses]
  /\ req \in [Requests -> RequestRecords]
  /\ sent \in 0 .. MaxRequests
  /\ panel \in [Panels -> PanelRecords]
  /\ waiter \in [Proposals -> WaiterPcs]
  /\ pushed \in SUBSET Proposals
  /\ lost \in [{"answer", "backend"} -> Nat]
  /\ ran \in [Proposals -> Nat]
  /\ claims \in [Proposals -> SUBSET {"done", "rejected"}]
  /\ torn \in SUBSET Proposals

ActionsInit ==
  /\ status = [a \in Proposals |-> "none"]
  /\ req = [i \in Requests |-> NoRequest]
  /\ sent = 0
  /\ panel = [p \in Panels |-> IdlePanel]
  /\ waiter = [a \in Proposals |-> "none"]
  /\ pushed = {}
  /\ lost = [k \in {"answer", "backend"} |-> 0]
  /\ ran = [a \in Proposals |-> 0]
  /\ claims = [a \in Proposals |-> {}]
  /\ torn = {}

-----------------------------------------------------------------------------
(* Proposing.                                                              *)

\* actions.propose.  run_host also tells the panel and waits.
Propose(a, wait) ==
  /\ status[a] = "none"
  /\ Cardinality({b \in Proposals : status[b] # "none"}) < MaxProposals
  /\ status' = [status EXCEPT ![a] = "pending"]
  /\ IF wait
     THEN /\ a \in Host
          /\ waiter' = [waiter EXCEPT ![a] = "waiting"]
          /\ pushed' = pushed \cup {a}
     ELSE UNCHANGED <<waiter, pushed>>
  /\ UNCHANGED <<req, sent, panel, lost, ran, claims, torn>>

-----------------------------------------------------------------------------
(***************************************************************************)
(* The panel.  A request takes the next number; a panel goes on only on    *)
(* the answer to the request it waits for.                                 *)
(***************************************************************************)
SendRequest(a, what) ==
  /\ sent < MaxRequests
  /\ sent' = sent + 1
  /\ req' = [req EXCEPT ![sent + 1] = Request(a, what)]

PutPanel(p, r) == panel' = [panel EXCEPT ![p] = r]
Claim(a, what) == claims' = [claims EXCEPT ![a] = @ \cup {what}]

\* decideAction: 승인 or 거절 on a card, which may show a proposal long decided.
Ask(p, a, what) ==
  /\ panel[p].pc = "idle"
  /\ status[a] # "none"
  /\ what \in Decisions
  /\ SendRequest(a, what)
  /\ PutPanel(p, Panel("waiting", a, what, sent + 1, FALSE, FALSE))
  /\ UNCHANGED <<status, waiter, pushed, lost, ran, claims, torn>>

\* The tool's event: requestedHostAction and requestedCardWriteback approve.
TakeEvent(p, a) ==
  /\ panel[p].pc = "idle"
  /\ a \in pushed
  /\ pushed' = pushed \ {a}
  /\ SendRequest(a, "approve")
  /\ PutPanel(p, Panel("waiting", a, "approve", sent + 1, FALSE, TRUE))
  /\ UNCHANGED <<status, waiter, lost, ran, claims, torn>>

\* requestedCardWriteback for a bot that is no longer open: failed, unasked.
RefuseEvent(p, a) ==
  /\ panel[p].pc = "idle"
  /\ a \in pushed \cap Rerunnable
  /\ pushed' = pushed \ {a}
  /\ SendRequest(a, "failed")
  /\ UNCHANGED <<status, panel, waiter, lost, ran, claims, torn>>

\* decideAction throws.  For an event, one more report says that it failed.
Throw(p) ==
  LET r == panel[p] IN
  /\ PutPanel(p, IdlePanel)
  /\ IF r.wanted THEN SendRequest(r.act, "failed") ELSE UNCHANGED <<sent, req>>

\* The panel tries a request a second time, and then gives up.  A report of
\* success that cannot be delivered becomes one of failure.
Retry(p, what, again) ==
  /\ SendRequest(panel[p].act, what)
  /\ PutPanel(p, Panel("waiting", panel[p].act, what, sent + 1, again, panel[p].wanted))

DecidesAgain(p) == ~panel[p].again /\ panel[p].what \in Decisions
TriesAgain(p) == ~panel[p].again
NoAnswer(p) ==
  \/ TriesAgain(p) /\ Retry(p, panel[p].what, TRUE)
  \/ ~TriesAgain(p) /\ panel[p].what = "ok" /\ Retry(p, "failed", FALSE)
  \/ ~TriesAgain(p) /\ panel[p].what # "ok" /\ Throw(p)

\* No answer in time, whether the request is under way, answered or never came.
GiveUp(p) ==
  LET r == panel[p] IN
  /\ r.pc = "waiting"
  /\ \/ r.answer = "gone" /\ UNCHANGED lost
     \/ /\ lost["answer"] < MaxLosses
        /\ lost' = [lost EXCEPT !["answer"] = @ + 1]
  /\ NoAnswer(p)
  /\ UNCHANGED <<status, waiter, pushed, ran, claims, torn>>

\* The answer arrives: carry the action out, tell the user, or throw.
Tell(p, what) ==
  /\ Claim(panel[p].act, what)
  /\ PutPanel(p, IdlePanel)
  /\ UNCHANGED <<sent, req>>

GetsHost(p) ==
  /\ panel[p].answer = "host"
  /\ PutPanel(p, [panel[p] EXCEPT !.pc = "hosting"])
  /\ UNCHANGED <<sent, req, claims>>
GetsSuccess(p) ==
  /\ \/ panel[p].answer = "already"
     \/ panel[p].answer = "recorded" /\ panel[p].what \in {"ok", "approve"}
  /\ Tell(p, "done")
GetsRejection(p) == panel[p].answer = "rejected" /\ Tell(p, "rejected")
GetsFailure(p) ==
  /\ \/ panel[p].answer = "refused" /\ panel[p].what # "ok"
     \/ panel[p].answer = "recorded" /\ panel[p].what = "failed"
  /\ Throw(p)
  /\ UNCHANGED claims
SuccessRefused(p) ==
  /\ panel[p].answer = "refused"
  /\ panel[p].what = "ok"
  /\ Retry(p, "failed", FALSE)
  /\ UNCHANGED claims

Receive(p) ==
  /\ panel[p].pc = "waiting"
  /\ GetsHost(p) \/ GetsSuccess(p) \/ GetsRejection(p) \/ GetsFailure(p) \/ SuccessRefused(p)
  /\ UNCHANGED <<status, waiter, pushed, lost, ran, torn>>

\* The plugin carries the action out: it may also fail, or be unable to tell
\* that it did what it did (a read-back that differs, a commit that fails).
HostOutcomes == {o \in [took : BOOLEAN, ok : BOOLEAN] : o.ok => o.took}
HostRun(p) ==
  \E o \in HostOutcomes :
    LET r == panel[p]
        what == IF o.ok THEN "ok" ELSE "failed"
    IN
    /\ r.pc = "hosting"
    /\ ran' = [ran EXCEPT ![r.act] = IF o.took THEN @ + 1 ELSE @]
    /\ SendRequest(r.act, what)
    /\ PutPanel(p, Panel("waiting", r.act, what, sent + 1, FALSE, r.wanted))
    /\ UNCHANGED <<status, waiter, pushed, lost, claims, torn>>

-----------------------------------------------------------------------------
(***************************************************************************)
(* The backend.  A decision read its row in one statement and writes in    *)
(* another; in between, others decide, or the process ends.                *)
(***************************************************************************)
Deciding(a) == {i \in Requests : req[i].act = a /\ req[i].pc \in UnderWay}
Overlaps(a) == Deciding(a) # {} \/ waiter[a] = "cancelling"
NotOfOnePiece(as) == torn' = torn \cup {a \in as : Overlaps(a)}

AnsweredPanels(is, answer) ==
  [p \in Panels |-> IF panel[p].pc = "waiting" /\ panel[p].tag \in is
                    THEN [panel[p] EXCEPT !.answer = answer] ELSE panel[p]]
Reply(i, answer) ==
  /\ req' = [req EXCEPT ![i] = NoRequest]
  /\ panel' = AnsweredPanels({i}, answer)
unmoved == <<sent, waiter, pushed, claims>>

HandsOutAgain(a, what) ==
  IF what = "reject" THEN IF status[a] = "rejected" THEN "rejected" ELSE "refused"
  ELSE IF status[a] = "done" THEN "already"
  ELSE IF status[a] = "approved" THEN "host" ELSE "refused"

\* What decide answers for a row that is no longer pending.
RecordedAnswer(a, what) ==
  IF what = "reject" THEN IF status[a] = "rejected" THEN "rejected" ELSE "refused"
  ELSE IF status[a] = "done" THEN "already"
  ELSE IF status[a] = "approved" /\ a \in Rerunnable THEN "host" ELSE "refused"

\* h_action_decide and decide up to the first write.  A cleared row is refused
\* like a decided one, and so is what another screen, bot or chat may not approve.
Read(i) ==
  LET a == req[i].act IN
  /\ req[i].pc = "sent"
  /\ req[i].what \in Decisions
  /\ \/ /\ status[a] = "pending"
        /\ req' = [req EXCEPT ![i].pc = "read"]
        /\ NotOfOnePiece({a})
        /\ UNCHANGED panel
     \/ status[a] # "pending" /\ Reply(i, RecordedAnswer(a, req[i].what)) /\ UNCHANGED torn
     \/ req[i].what = "approve" /\ Reply(i, "refused") /\ UNCHANGED torn
  /\ UNCHANGED <<status, lost, ran, unmoved>>

\* decide: a rejection, or a host action's approval.  The UPDATE has no guard.
DecideWrites(i, what, newStatus, answer) ==
  LET a == req[i].act IN
  /\ req[i].pc = "read"
  /\ req[i].what = what
  /\ status' = [status EXCEPT ![a] = IF @ = "deleted" THEN @ ELSE newStatus]
  /\ Reply(i, answer)
  /\ UNCHANGED <<lost, ran, torn, unmoved>>

DecideReject(i) == DecideWrites(i, "reject", "rejected", "rejected")
DecideHost(i) == req[i].act \in Host /\ DecideWrites(i, "approve", "approved", "host")

\* decide: EXECUTORS, which may raise before or after it changed something.
Execute(i) ==
  \E o \in HostOutcomes :
    LET a == req[i].act IN
    /\ req[i].pc = "read"
    /\ req[i].what = "approve"
    /\ a \in Backend
    /\ ran' = [ran EXCEPT ![a] = IF o.took THEN @ + 1 ELSE @]
    /\ req' = [req EXCEPT ![i].pc = IF o.ok THEN "ran" ELSE "threw"]
    /\ UNCHANGED <<status, panel, lost, torn, unmoved>>

\* decide: _finish after EXECUTORS.
Finish(i) ==
  LET a == req[i].act
      newStatus == IF req[i].pc = "ran" THEN "done" ELSE "failed"
  IN
  /\ req[i].pc \in {"ran", "threw"}
  /\ status' = [status EXCEPT ![a] = IF @ = "deleted" THEN @ ELSE newStatus]
  /\ Reply(i, IF req[i].pc = "ran" THEN "recorded" ELSE "refused")
  /\ UNCHANGED <<lost, ran, torn, unmoved>>

CompleteAsDone(i) ==
  LET a == req[i].act IN
  /\ req[i].pc = "sent"
  /\ req[i].what \in Reports
  /\ status' = [status EXCEPT ![a] = IF @ = "deleted" THEN @ ELSE "done"]
  /\ Reply(i, IF status[a] = "deleted" THEN "refused" ELSE "recorded")
  /\ UNCHANGED <<lost, ran, torn, unmoved>>

\* complete: whatever the row says, it now says this.
Complete(i) ==
  LET a == req[i].act IN
  /\ req[i].pc = "sent"
  /\ req[i].what \in Reports
  /\ status' = [status EXCEPT ![a] = IF @ = "deleted" THEN @
                                     ELSE IF req[i].what = "ok" THEN "done" ELSE "failed"]
  /\ Reply(i, IF status[a] = "deleted" THEN "refused" ELSE "recorded")
  /\ UNCHANGED <<lost, ran, torn, unmoved>>

\* A request that never comes: its panel will find out by waiting.
Vanish(i) ==
  /\ req[i].pc = "sent"
  /\ lost["answer"] < MaxLosses
  /\ lost' = [lost EXCEPT !["answer"] = @ + 1]
  /\ Reply(i, "gone")
  /\ UNCHANGED <<status, ran, torn, unmoved>>

\* h_actions_clear: a bot's pending rows are rejected, a chat's deleted.
Clear(as, newStatus) ==
  /\ as # {}
  /\ \A a \in as : status[a] = "pending"
  /\ status' = [a \in Proposals |-> IF a \in as THEN newStatus ELSE status[a]]
  /\ NotOfOnePiece(as)
  /\ UNCHANGED <<req, panel, lost, ran, unmoved>>

ClearBot ==
  Clear({a \in Proposals : status[a] = "pending"}, "rejected")
ClearChat(as) == Clear(as, "deleted")

\* The process ends: what is under way is cut off, what waits is forgotten.
Restart ==
  /\ lost["backend"] < MaxRestarts
  /\ lost' = [lost EXCEPT !["backend"] = @ + 1]
  /\ LET cut == {i \in Requests : req[i].pc \in UnderWay} IN
     /\ req' = [i \in Requests |-> IF i \in cut THEN NoRequest ELSE req[i]]
     /\ panel' = AnsweredPanels(cut, "gone")
  /\ torn' = torn \cup {a \in Proposals : \E i \in Deciding(a) : req[i].pc # "read"}
  /\ waiter' = [a \in Proposals |-> IF waiter[a] = "none" THEN "none" ELSE "over"]
  /\ pushed' = {}
  /\ UNCHANGED <<status, sent, ran, claims>>

-----------------------------------------------------------------------------
(* run_host waits for the outcome; its time runs out at any moment.        *)

waiterOnly == <<req, sent, panel, pushed, lost, ran>>
WaiterTo(a, pc) == waiter' = [waiter EXCEPT ![a] = pc]

Sees(a) ==
  /\ waiter[a] = "waiting"
  /\ status[a] \in {"done", "failed", "rejected", "deleted"}
  /\ WaiterTo(a, "over")
  /\ IF status[a] \in {"done", "rejected"} THEN Claim(a, status[a]) ELSE UNCHANGED claims
  /\ UNCHANGED <<status, torn, waiterOnly>>

\* Nobody started: run_host rejects, again by a query and a later UPDATE.
CancelRead(a) ==
  /\ waiter[a] = "waiting"
  /\ status[a] = "pending"
  /\ WaiterTo(a, "cancelling")
  /\ NotOfOnePiece({a})
  /\ UNCHANGED <<status, claims, waiterOnly>>

CancelWrite(a) ==
  /\ waiter[a] = "cancelling"
  /\ status' = [status EXCEPT ![a] = IF @ = "deleted" THEN @ ELSE "rejected"]
  /\ Claim(a, "rejected")
  /\ WaiterTo(a, "over")
  /\ UNCHANGED <<torn, waiterOnly>>

\* Started, but not finished in time: run_host says so and leaves.
DoneTimeout(a) ==
  /\ waiter[a] = "waiting"
  /\ status[a] = "approved"
  /\ WaiterTo(a, "over")
  /\ UNCHANGED <<status, claims, torn, waiterOnly>>

-----------------------------------------------------------------------------
PanelStep(p) ==
  \/ \E a \in Proposals, what \in Decisions : Ask(p, a, what)
  \/ \E a \in Proposals : TakeEvent(p, a) \/ RefuseEvent(p, a)
  \/ GiveUp(p) \/ Receive(p) \/ HostRun(p)

Handle(i) ==
  \/ Read(i) \/ DecideReject(i) \/ DecideHost(i) \/ Execute(i) \/ Finish(i)
  \/ Complete(i) \/ Vanish(i)

ToolStep(a) ==
  \/ \E wait \in BOOLEAN : Propose(a, wait)
  \/ Sees(a) \/ CancelRead(a) \/ CancelWrite(a) \/ DoneTimeout(a)

ActionsNext ==
  \/ \E p \in Panels : PanelStep(p)
  \/ \E i \in Requests : Handle(i)
  \/ \E a \in Proposals : ToolStep(a)
  \/ ClearBot
  \/ \E as \in SUBSET Proposals : ClearChat(as)
  \/ Restart

ActionsSpec == ActionsInit /\ [][ActionsNext]_actionsVars

-----------------------------------------------------------------------------
(* Properties.                                                             *)

\* A record of done, and a user or tool told of success, mean that the action
\* was carried out: no lost, late or repeated request makes up a success.
DoneMeansRan ==
  \A a \in Proposals : status[a] = "done" \/ "done" \in claims[a] => ran[a] > 0

\* What holds of the queue, its requests and its panels, whatever is lost or late.
ActionsSound == ActionsTypeOK /\ DoneMeansRan


\* What the backend executes, and a copy or a new module, happens at most once,
\* however often it is asked for - unless two decisions on it overlapped or the
\* process ended within one (decide takes no lock over its two statements).
RunsOnce ==
  \A a \in (Backend \cup Once) \ torn : ran[a] <= 1

\* What is recorded as rejected, or was reported as "nothing was written" by
\* run_host's start timeout, was not carried out - with the same exception.
RejectedNeverRan ==
  \A a \in Proposals \ torn :
    status[a] = "rejected" \/ "rejected" \in claims[a] => ran[a] = 0

\* A decision counts once: what was approved is not carried out twice, what was
\* rejected not at all (actions.decide, hostwriteback.run_host).
DecidedOnce == RunsOnce /\ RejectedNeverRan


Settled(a) ==
  /\ \A i \in Requests : req[i].act # a
  /\ \A p \in Panels : panel[p].act # a

\* reportOutcome: one lost answer or one restart does not leave a host action
\* that was carried out standing as approved, or as never decided.
ReportSurvivesOneLoss ==
  \A a \in Host \ torn :
    Settled(a) /\ ran[a] > 0 /\ lost["answer"] + lost["backend"] <= 1
      => status[a] \in {"done", "failed"}

=============================================================================
