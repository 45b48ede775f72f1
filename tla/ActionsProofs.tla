--------------------------- MODULE ActionsProofs ---------------------------
(***************************************************************************)
(* Proofs about Actions, for any proposals, panels and bounds.             *)
(*                                                                         *)
(* The invariant follows an action from its proposal on: who may still     *)
(* carry it out (a request past its first query, a panel that holds the    *)
(* host block), and what is on its way as an answer or a report about it.  *)
(***************************************************************************)
EXTENDS Actions, TLAPS

-----------------------------------------------------------------------------
(* The invariant.                                                          *)

\* What a request, a panel or a waiting tool is about, by its state.
RequestsFormed ==
  \A i \in Requests :
    /\ req[i].pc # "over" => req[i].act \in Proposals
    /\ req[i].what \in Reports => req[i].act \in Host
    /\ req[i].pc \in UnderWay => req[i].what \in Decisions
    /\ req[i].pc \in {"ran", "threw"} => req[i].act \in Backend /\ req[i].what = "approve"
    /\ i > sent => req[i] = NoRequest

PanelsFormed ==
  \A p \in Panels :
    /\ panel[p].pc # "idle" \/ panel[p].answer # "none" => panel[p].act \in Proposals
    /\ panel[p].what \in Reports \/ panel[p].wanted => panel[p].act \in Host
    /\ panel[p].pc = "hosting" \/ panel[p].answer = "host" => panel[p].act \in Host
    /\ panel[p].tag <= sent

WaitersFormed ==
  /\ pushed \subseteq Host
  /\ \A a \in Proposals : waiter[a] # "none" => a \in Host

Wellformed == RequestsFormed /\ PanelsFormed /\ WaitersFormed

\* A panel waits for a request that says what the panel asked, and for another
\* one than any other panel: an answer reaches the one who asked.
Waits(p, i) == panel[p].pc = "waiting" /\ panel[p].tag = i
TagsMatch ==
  /\ \A p \in Panels, i \in Requests :
       Waits(p, i) /\ req[i].pc # "over" =>
         req[i].act = panel[p].act /\ req[i].what = panel[p].what
  /\ \A p, q \in Panels, i \in Requests : Waits(p, i) /\ Waits(q, i) => p = q

\* Whatever is on its way as a success is about something that was carried out.
RequestsTrue ==
  \A i \in Requests : req[i].what = "ok" \/ req[i].pc = "ran" => ran[req[i].act] > 0
PanelsTrue ==
  \A p \in Panels :
    \/ panel[p].what = "ok"
    \/ panel[p].answer = "already"
    \/ panel[p].answer = "recorded" /\ panel[p].what = "approve"
    => ran[panel[p].act] > 0
SuccessIsTrue == DoneMeansRan /\ RequestsTrue /\ PanelsTrue

\* Panel p has the host block of a: it will carry a out.
MayRun(p, a) ==
  panel[p].act = a /\ (panel[p].pc = "hosting" \/ panel[p].answer = "host")
Executing(a) == \E i \in Requests : req[i].act = a /\ req[i].pc \in {"ran", "threw"}
Undecided(a) ==
  /\ status[a] \in {"none", "pending"} \/ Deciding(a) # {} \/ waiter[a] = "cancelling"
  /\ ~Executing(a)
Untouched(a) == ran[a] = 0 /\ \A p \in Panels : ~MayRun(p, a)
Dismissed(a) ==
  \/ status[a] \in {"rejected", "deleted"}
  \/ "rejected" \in claims[a]
  \/ \E p \in Panels : panel[p].act = a /\ panel[p].answer = "rejected"

\* Of a decision that is of one piece: one at a time; nothing happened before
\* it; it hands a host action out once; a rejected one is out of reach.
OnePiece(a) ==
  /\ \A i, j \in Deciding(a) : i = j
  /\ waiter[a] = "cancelling" => Deciding(a) = {}
  /\ status[a] = "approved" => Deciding(a) = {} /\ waiter[a] # "cancelling"
  /\ Undecided(a) => Untouched(a)
  /\ a \in Backend => ran[a] <= 1
  /\ a \in Once => /\ ran[a] <= 1
                   /\ \A p, q \in Panels : MayRun(p, a) /\ MayRun(q, a) => p = q
                   /\ \A p \in Panels : MayRun(p, a) => ran[a] = 0
  /\ Dismissed(a) => /\ Untouched(a)
                        /\ Deciding(a) = {}
                        /\ waiter[a] # "cancelling"
                        /\ status[a] \notin {"none", "pending", "approved"}

ActionsInv ==
  /\ ActionsTypeOK
  /\ Wellformed
  /\ TagsMatch
  /\ SuccessIsTrue
  /\ \A a \in Proposals \ torn : OnePiece(a)

-----------------------------------------------------------------------------
(* Types.                                                                  *)

LEMMA PanelHasType ==
  ASSUME NEW pc \in PanelPcs, NEW a \in Proposals \cup {NoAction},
         NEW what \in Decisions \cup Reports, NEW tag \in 0 .. MaxRequests,
         NEW again \in BOOLEAN, NEW wanted \in BOOLEAN
  PROVE  Panel(pc, a, what, tag, again, wanted) \in PanelRecords
BY DEF Panel, PanelRecords, Answers

LEMMA IdlePanelHasType == IdlePanel \in PanelRecords
BY ActionsAssumption DEF IdlePanel, Panel, PanelRecords, PanelPcs, Decisions, Answers

LEMMA RequestHasType ==
  ASSUME NEW a \in Proposals \cup {NoAction}, NEW what \in Decisions \cup Reports
  PROVE  Request(a, what) \in RequestRecords /\ NoRequest \in RequestRecords
BY DEF Request, NoRequest, RequestRecords, Pcs, Decisions

\* A panel that sends a request keeps the types of both.
LEMMA SendingKeepsType ==
  ASSUME ActionsTypeOK, NEW a \in Proposals \cup {NoAction}, NEW what \in Decisions \cup Reports,
         SendRequest(a, what)
  PROVE  /\ sent' \in 0 .. MaxRequests
         /\ sent + 1 \in 1 .. MaxRequests
         /\ req' \in [Requests -> RequestRecords]
<1>1. sent + 1 \in Requests
  BY ActionsAssumption DEF ActionsTypeOK, SendRequest, Requests
<1>2. Request(a, what) \in RequestRecords
  BY RequestHasType
<1>3. req' \in [Requests -> RequestRecords]
  BY <1>1, <1>2 DEF ActionsTypeOK, SendRequest
<1> QED
  BY <1>1, <1>3 DEF SendRequest, Requests

LEMMA ThrowKeepsType ==
  ASSUME ActionsTypeOK, NEW p \in Panels, Throw(p)
  PROVE  /\ sent' \in 0 .. MaxRequests
         /\ req' \in [Requests -> RequestRecords]
         /\ panel' \in [Panels -> PanelRecords]
<1>1. panel' \in [Panels -> PanelRecords]
  BY IdlePanelHasType DEF ActionsTypeOK, Throw, PutPanel
<1>2. panel[p].act \in Proposals \cup {NoAction} /\ "failed" \in Decisions \cup Reports
  BY DEF ActionsTypeOK, PanelRecords, Reports
<1>3. sent' \in 0 .. MaxRequests /\ req' \in [Requests -> RequestRecords]
  <2>1. CASE panel[p].wanted
    BY <2>1, <1>2, SendingKeepsType DEF Throw
  <2>2. CASE ~panel[p].wanted
    BY <2>2 DEF Throw, ActionsTypeOK
  <2> QED
    BY <2>1, <2>2
<1> QED
  BY <1>1, <1>3

LEMMA RetryKeepsType ==
  ASSUME ActionsTypeOK, NEW p \in Panels, NEW what \in Decisions \cup Reports,
         NEW again \in BOOLEAN, Retry(p, what, again)
  PROVE  /\ sent' \in 0 .. MaxRequests
         /\ req' \in [Requests -> RequestRecords]
         /\ panel' \in [Panels -> PanelRecords]
<1>1. panel[p].act \in Proposals \cup {NoAction} /\ panel[p].wanted \in BOOLEAN
  BY DEF ActionsTypeOK, PanelRecords
<1>2. /\ sent' \in 0 .. MaxRequests
      /\ sent + 1 \in 0 .. MaxRequests
      /\ req' \in [Requests -> RequestRecords]
  BY <1>1, SendingKeepsType DEF Retry
<1>3. Panel("waiting", panel[p].act, what, sent + 1, again, panel[p].wanted) \in PanelRecords
  BY <1>1, <1>2, PanelHasType DEF PanelPcs
<1> QED
  BY <1>2, <1>3 DEF Retry, PutPanel, ActionsTypeOK

LEMMA AnswersKeepType ==
  ASSUME ActionsTypeOK, NEW is, NEW answer \in Answers
  PROVE  AnsweredPanels(is, answer) \in [Panels -> PanelRecords]
<1> SUFFICES ASSUME NEW p \in Panels
             PROVE  AnsweredPanels(is, answer)[p] \in PanelRecords
  BY DEF AnsweredPanels
<1>1. panel[p] \in PanelRecords /\ 0 \in 0 .. MaxRequests
  BY ActionsAssumption DEF ActionsTypeOK
<1> QED
  BY <1>1 DEF AnsweredPanels, PanelRecords

LEMMA ReplyKeepsType ==
  ASSUME ActionsTypeOK, NEW i \in Requests, NEW answer \in Answers, Reply(i, answer)
  PROVE  req' \in [Requests -> RequestRecords] /\ panel' \in [Panels -> PanelRecords]
<1>1. NoRequest \in RequestRecords
  BY DEF NoRequest, RequestRecords, Pcs, Decisions
<1> QED
  BY <1>1, AnswersKeepType DEF Reply, ActionsTypeOK

LEMMA RecordedAnswerIsAnswer ==
  ASSUME NEW a, NEW what
  PROVE  RecordedAnswer(a, what) \in Answers
BY DEF RecordedAnswer, Answers

\* One more execution of b, or none.
LEMMA CountsRuns ==
  ASSUME ActionsTypeOK, NEW b \in Proposals, NEW o \in HostOutcomes,
         ran' = [ran EXCEPT ![b] = IF o.took THEN @ + 1 ELSE @]
  PROVE  /\ ran' \in [Proposals -> Nat]
         /\ \A a \in Proposals : ran'[a] >= ran[a]
         /\ \A a \in Proposals \ {b} : ran'[a] = ran[a]
         /\ ran'[b] <= ran[b] + 1
         /\ o.ok => ran'[b] > 0
<1>1. ran \in [Proposals -> Nat] /\ ran[b] \in Nat
  BY DEF ActionsTypeOK
<1>2. o.took \in BOOLEAN /\ (o.ok => o.took)
  BY DEF HostOutcomes
<1>3. CASE o.took
  <2>1. ran' = [ran EXCEPT ![b] = ran[b] + 1]
    BY <1>3
  <2> QED
    BY <1>1, <2>1
<1>4. CASE ~o.took
  <2>1. ran' = ran
    BY <1>1, <1>4
  <2> QED
    BY <1>1, <1>2, <1>4, <2>1
<1> QED
  BY <1>3, <1>4

\* Every action keeps the types.
LEMMA TypeStep ==
  ASSUME ActionsTypeOK, Wellformed, [ActionsNext]_actionsVars
  PROVE  ActionsTypeOK'
<1> USE ActionsAssumption
<1>1. ASSUME NEW p \in Panels, PanelStep(p) PROVE ActionsTypeOK'
  <2>0. panel[p] \in PanelRecords
    BY DEF ActionsTypeOK
  <2>1. ASSUME NEW a \in Proposals, NEW what \in Decisions, Ask(p, a, what) PROVE ActionsTypeOK'
    <3>1. /\ sent' \in 0 .. MaxRequests
          /\ sent + 1 \in 0 .. MaxRequests
          /\ req' \in [Requests -> RequestRecords]
      BY <2>1, SendingKeepsType DEF Ask
    <3>2. Panel("waiting", a, what, sent + 1, FALSE, FALSE) \in PanelRecords
      BY <3>1, PanelHasType DEF PanelPcs
    <3> QED
      BY <2>1, <3>1, <3>2 DEF Ask, PutPanel, ActionsTypeOK
  <2>2. ASSUME NEW a \in Proposals, TakeEvent(p, a) PROVE ActionsTypeOK'
    <3>1. /\ sent' \in 0 .. MaxRequests
          /\ sent + 1 \in 0 .. MaxRequests
          /\ req' \in [Requests -> RequestRecords]
      BY <2>2, SendingKeepsType DEF TakeEvent, Decisions
    <3>2. Panel("waiting", a, "approve", sent + 1, FALSE, TRUE) \in PanelRecords
      BY <3>1, PanelHasType DEF PanelPcs, Decisions
    <3> QED
      BY <2>2, <3>1, <3>2 DEF TakeEvent, PutPanel, ActionsTypeOK
  <2>3. ASSUME NEW a \in Proposals, RefuseEvent(p, a) PROVE ActionsTypeOK'
    <3>1. sent' \in 0 .. MaxRequests /\ req' \in [Requests -> RequestRecords]
      BY <2>3, SendingKeepsType DEF RefuseEvent, Reports
    <3> QED
      BY <2>3, <3>1 DEF RefuseEvent, ActionsTypeOK
  <2>4. CASE GiveUp(p)
    <3>1. /\ sent' \in 0 .. MaxRequests
          /\ req' \in [Requests -> RequestRecords]
          /\ panel' \in [Panels -> PanelRecords]
      BY <2>4, <2>0, RetryKeepsType, ThrowKeepsType DEF GiveUp, NoAnswer, PanelRecords, Reports
    <3>2. lost' \in [{"answer", "backend"} -> Nat]
      BY <2>4 DEF GiveUp, ActionsTypeOK
    <3> QED
      BY <2>4, <3>1, <3>2 DEF GiveUp, ActionsTypeOK
  <2>5. CASE Receive(p)
    <3>1. CASE GetsHost(p)
      <4>1. [panel[p] EXCEPT !.pc = "hosting"] \in PanelRecords
        BY <2>0 DEF PanelRecords, PanelPcs
      <4> QED
        BY <2>5, <3>1, <4>1 DEF Receive, GetsHost, PutPanel, ActionsTypeOK
    <3>2. ASSUME NEW what \in {"done", "rejected"}, Tell(p, what) PROVE ActionsTypeOK'
      <4>1. claims' \in [Proposals -> SUBSET {"done", "rejected"}]
        BY <3>2 DEF Tell, Claim, ActionsTypeOK
      <4>2. panel' \in [Panels -> PanelRecords]
        BY <3>2, IdlePanelHasType DEF Tell, PutPanel, ActionsTypeOK
      <4> QED
        BY <2>5, <3>2, <4>1, <4>2 DEF Receive, Tell, ActionsTypeOK
    <3>3. CASE GetsFailure(p)
      BY <2>5, <3>3, ThrowKeepsType DEF Receive, GetsFailure, ActionsTypeOK
    <3>4. CASE SuccessRefused(p)
      BY <2>5, <3>4, RetryKeepsType DEF Receive, SuccessRefused, ActionsTypeOK, Reports
    <3> QED
      BY <2>5, <3>1, <3>2, <3>3, <3>4 DEF Receive, GetsSuccess, GetsRejection
  <2>6. CASE HostRun(p)
    <3> PICK o \in HostOutcomes :
          /\ ran' = [ran EXCEPT ![panel[p].act] = IF o.took THEN @ + 1 ELSE @]
          /\ SendRequest(panel[p].act, IF o.ok THEN "ok" ELSE "failed")
          /\ PutPanel(p, Panel("waiting", panel[p].act, IF o.ok THEN "ok" ELSE "failed",
                               sent + 1, FALSE, panel[p].wanted))
      BY <2>6 DEF HostRun
    <3> DEFINE what == IF o.ok THEN "ok" ELSE "failed"
    <3>1. what \in Decisions \cup Reports
      BY DEF Reports
    <3> HIDE DEF what
    <3>2. /\ sent' \in 0 .. MaxRequests
          /\ sent + 1 \in 0 .. MaxRequests
          /\ req' \in [Requests -> RequestRecords]
      BY <2>0, <3>1, SendingKeepsType DEF PanelRecords, what
    <3>3. Panel("waiting", panel[p].act, what, sent + 1, FALSE, panel[p].wanted) \in PanelRecords
      BY <2>0, <3>1, <3>2, PanelHasType, ZenonT(40) DEF PanelRecords, PanelPcs
    <3>4. panel' \in [Panels -> PanelRecords]
      BY <3>3 DEF PutPanel, ActionsTypeOK, what
    <3>5. ran' \in [Proposals -> Nat]
      BY <2>6, CountsRuns DEF HostRun, Wellformed, PanelsFormed
    <3> QED
      BY <2>6, <3>2, <3>4, <3>5 DEF HostRun, ActionsTypeOK
  <2> QED
    BY <1>1, <2>1, <2>2, <2>3, <2>4, <2>5, <2>6 DEF PanelStep
<1>2. ASSUME NEW i \in Requests, Handle(i) PROVE ActionsTypeOK'
  <2>0. req[i] \in RequestRecords
    BY DEF ActionsTypeOK
  <2>1. CASE Read(i)
    <3>1. CASE /\ status[req[i].act] = "pending"
               /\ req' = [req EXCEPT ![i].pc = "read"]
               /\ NotOfOnePiece({req[i].act})
               /\ UNCHANGED panel
      <4>1. [req[i] EXCEPT !.pc = "read"] \in RequestRecords
        BY <2>0 DEF RequestRecords, Pcs
      <4>2. torn' \subseteq Proposals
        BY <2>1, <3>1 DEF NotOfOnePiece, Read, ActionsTypeOK, Wellformed, RequestsFormed
      <4> QED
        BY <2>1, <3>1, <4>1, <4>2 DEF Read, unmoved, ActionsTypeOK
    <3>2. CASE \E answer \in Answers : Reply(i, answer) /\ UNCHANGED torn
      BY <2>1, <3>2, ReplyKeepsType DEF Read, unmoved, ActionsTypeOK
    <3> QED
      BY <2>1, <3>1, <3>2, RecordedAnswerIsAnswer DEF Read, Answers
  <2>2. ASSUME NEW what, NEW newStatus \in {"rejected", "approved"}, NEW answer \in Answers,
               DecideWrites(i, what, newStatus, answer)
        PROVE  ActionsTypeOK'
    <3>1. status' \in [Proposals -> Statuses]
      BY <2>2 DEF DecideWrites, ActionsTypeOK, Statuses
    <3> QED
      BY <2>2, <3>1, ReplyKeepsType DEF DecideWrites, unmoved, ActionsTypeOK
  <2>3. CASE Execute(i)
    <3> PICK o \in HostOutcomes :
          /\ ran' = [ran EXCEPT ![req[i].act] = IF o.took THEN @ + 1 ELSE @]
          /\ req' = [req EXCEPT ![i].pc = IF o.ok THEN "ran" ELSE "threw"]
      BY <2>3 DEF Execute
    <3>1. ran' \in [Proposals -> Nat]
      BY <2>3, CountsRuns DEF Execute, Wellformed, RequestsFormed
    <3>2. \A pc \in Pcs : [req[i] EXCEPT !.pc = pc] \in RequestRecords
      BY <2>0 DEF RequestRecords
    <3>3. req' \in [Requests -> RequestRecords]
      BY <3>2 DEF ActionsTypeOK, Pcs
    <3> QED
      BY <2>3, <3>1, <3>3 DEF Execute, unmoved, ActionsTypeOK
  <2>4. CASE Finish(i)
    <3>1. status' \in [Proposals -> Statuses]
      BY <2>4 DEF Finish, ActionsTypeOK, Statuses
    <3> QED
      BY <2>4, <3>1, ReplyKeepsType DEF Finish, unmoved, ActionsTypeOK, Answers
  <2>5. CASE Complete(i)
    <3>1. status' \in [Proposals -> Statuses]
      BY <2>5 DEF Complete, ActionsTypeOK, Statuses
    <3> QED
      BY <2>5, <3>1, ReplyKeepsType DEF Complete, unmoved, ActionsTypeOK, Answers
  <2>6. CASE Vanish(i)
    <3>1. lost' \in [{"answer", "backend"} -> Nat]
      BY <2>6 DEF Vanish, ActionsTypeOK
    <3> QED
      BY <2>6, <3>1, ReplyKeepsType DEF Vanish, unmoved, ActionsTypeOK, Answers
  <2> QED
    BY <1>2, <2>1, <2>2, <2>3, <2>4, <2>5, <2>6 DEF Handle, DecideReject, DecideHost, Answers
<1>3. ASSUME NEW a \in Proposals, ToolStep(a) PROVE ActionsTypeOK'
  <2>1. ASSUME NEW wait \in BOOLEAN, Propose(a, wait) PROVE ActionsTypeOK'
    BY <2>1 DEF Propose, ActionsTypeOK, Statuses, WaiterPcs
  <2>2. CASE Sees(a)
    BY <2>2 DEF Sees, WaiterTo, Claim, waiterOnly, ActionsTypeOK, WaiterPcs
  <2>3. CASE CancelRead(a)
    BY <2>3 DEF CancelRead, WaiterTo, NotOfOnePiece, waiterOnly, ActionsTypeOK, WaiterPcs
  <2>4. CASE CancelWrite(a)
    BY <2>4 DEF CancelWrite, WaiterTo, Claim, waiterOnly, ActionsTypeOK, WaiterPcs, Statuses
  <2>5. CASE DoneTimeout(a)
    BY <2>5 DEF DoneTimeout, WaiterTo, waiterOnly, ActionsTypeOK, WaiterPcs
  <2> QED
    BY <1>3, <2>1, <2>2, <2>3, <2>4, <2>5 DEF ToolStep
<1>4. ASSUME NEW as \in SUBSET Proposals, NEW new \in {"rejected", "deleted"}, Clear(as, new)
      PROVE  ActionsTypeOK'
  BY <1>4 DEF Clear, NotOfOnePiece, unmoved, ActionsTypeOK, Statuses
<1>5. CASE Restart
  <2> DEFINE cut == {i \in Requests : req[i].pc \in UnderWay}
  <2>1. req' \in [Requests -> RequestRecords]
    <3>1. NoRequest \in RequestRecords
      BY DEF NoRequest, RequestRecords, Pcs, Decisions
    <3> QED
      BY <1>5, <3>1 DEF Restart, ActionsTypeOK
  <2>2. panel' \in [Panels -> PanelRecords]
    <3>1. panel' = AnsweredPanels(cut, "gone")
      BY <1>5 DEF Restart
    <3> HIDE DEF cut
    <3> QED
      BY <3>1, AnswersKeepType DEF Answers
  <2>3. lost' \in [{"answer", "backend"} -> Nat]
    BY <1>5 DEF Restart, ActionsTypeOK
  <2>4. waiter' \in [Proposals -> WaiterPcs] /\ torn' \in SUBSET Proposals
    BY <1>5 DEF Restart, ActionsTypeOK, WaiterPcs
  <2> QED
    BY <1>5, <2>1, <2>2, <2>3, <2>4 DEF Restart, ActionsTypeOK
<1>6. CASE UNCHANGED actionsVars
  BY <1>6 DEF actionsVars, ActionsTypeOK
<1> QED
  BY <1>1, <1>2, <1>3, <1>4, <1>5, <1>6 DEF ActionsNext, ClearBot, ClearChat

-----------------------------------------------------------------------------
(* The shapes of a panel's step.                                           *)

\* Panel p sends a request and waits for it; a success it reports is true.
Sends(p, a, what, again, wanted) ==
  /\ SendRequest(a, what)
  /\ PutPanel(p, Panel("waiting", a, what, sent + 1, again, wanted))
  /\ what \in Reports \/ wanted => a \in Host
  /\ what = "ok" => ran'[a] > 0
Sending(p) ==
  \E a \in Proposals, what \in Decisions \cup Reports, again, wanted \in BOOLEAN :
    Sends(p, a, what, again, wanted)

\* A failure is reported and nobody waits for the answer.
Failing(p) ==
  \E a \in Host : /\ SendRequest(a, "failed")
                  /\ UNCHANGED panel \/ PutPanel(p, IdlePanel)

\* Nothing is sent: the panel goes idle, or carries the action out.
Resting(p) ==
  /\ UNCHANGED <<sent, req>>
  /\ \/ PutPanel(p, IdlePanel)
     \/ /\ panel[p].answer = "host"
        /\ PutPanel(p, [panel[p] EXCEPT !.pc = "hosting"])

LEMMA ThrowShape ==
  ASSUME ActionsTypeOK, Wellformed, NEW p \in Panels, Throw(p)
  PROVE  Failing(p) \/ Resting(p)
BY DEF Throw, Failing, Resting, Wellformed, PanelsFormed

LEMMA RetryShape ==
  ASSUME ActionsTypeOK, Wellformed, NEW p \in Panels, panel[p].pc = "waiting",
         NEW what \in Decisions \cup Reports, NEW again \in BOOLEAN, Retry(p, what, again),
         what \in Reports => panel[p].what \in Reports,
         what = "ok" => ran'[panel[p].act] > 0
  PROVE  Sending(p)
<1>1. panel[p] \in PanelRecords
  BY DEF ActionsTypeOK
<1>2. panel[p].act \in Proposals /\ panel[p].wanted \in BOOLEAN
  BY <1>1 DEF Wellformed, PanelsFormed, PanelRecords
<1>3. Sends(p, panel[p].act, what, again, panel[p].wanted)
  BY DEF Retry, Sends, Wellformed, PanelsFormed
<1> QED
  BY <1>2, <1>3 DEF Sending

LEMMA PanelShapes ==
  ASSUME ActionsTypeOK, Wellformed, SuccessIsTrue, NEW p \in Panels, PanelStep(p)
  PROVE  Sending(p) \/ Failing(p) \/ Resting(p)
<1> USE ActionsAssumption
<1>0. panel[p] \in PanelRecords
  BY DEF ActionsTypeOK
<1>1. ASSUME NEW a \in Proposals, NEW what \in Decisions, Ask(p, a, what) PROVE Sending(p)
  <2>1. Sends(p, a, what, FALSE, FALSE)
    BY <1>1 DEF Ask, Sends, Decisions, Reports
  <2> QED
    BY <2>1 DEF Sending
<1>2. ASSUME NEW a \in Proposals, TakeEvent(p, a) PROVE Sending(p)
  <2>1. a \in Host
    BY <1>2 DEF TakeEvent, Wellformed, WaitersFormed
  <2>2. Sends(p, a, "approve", FALSE, TRUE)
    BY <1>2, <2>1 DEF TakeEvent, Sends
  <2> QED
    BY <2>2 DEF Sending, Decisions
<1>3. ASSUME NEW a \in Proposals, RefuseEvent(p, a) PROVE Failing(p)
  BY <1>3 DEF RefuseEvent, Failing, Host
<1>4. CASE GiveUp(p)
  <2>1. panel[p].pc = "waiting" /\ UNCHANGED ran
    BY <1>4 DEF GiveUp
  <2>2. CASE Retry(p, panel[p].what, TRUE)
    BY <1>0, <2>1, <2>2, RetryShape DEF PanelRecords, SuccessIsTrue, PanelsTrue
  <2>3. CASE panel[p].what = "ok" /\ Retry(p, "failed", FALSE)
    BY <2>1, <2>3, RetryShape DEF Reports
  <2> QED
    BY <1>4, <2>2, <2>3, ThrowShape DEF GiveUp, NoAnswer
<1>5. CASE Receive(p)
  <2>1. CASE GetsHost(p) \/ GetsSuccess(p) \/ GetsRejection(p)
    BY <2>1 DEF GetsHost, GetsSuccess, GetsRejection, Tell, Resting
  <2>2. CASE GetsFailure(p)
    BY <2>2, ThrowShape DEF GetsFailure
  <2>3. CASE SuccessRefused(p)
    BY <1>5, <2>3, RetryShape DEF Receive, SuccessRefused, Reports
  <2> QED
    BY <1>5, <2>1, <2>2, <2>3 DEF Receive
<1>6. CASE HostRun(p)
  <2>1. PICK o \in HostOutcomes :
          /\ panel[p].pc = "hosting"
          /\ ran' = [ran EXCEPT ![panel[p].act] = IF o.took THEN @ + 1 ELSE @]
          /\ SendRequest(panel[p].act, IF o.ok THEN "ok" ELSE "failed")
          /\ PutPanel(p, Panel("waiting", panel[p].act, IF o.ok THEN "ok" ELSE "failed",
                               sent + 1, FALSE, panel[p].wanted))
    BY <1>6 DEF HostRun
  <2> DEFINE what == IF o.ok THEN "ok" ELSE "failed"
  <2>2. panel[p].act \in Host /\ panel[p].act \in Proposals /\ panel[p].wanted \in BOOLEAN
    BY <1>0, <2>1 DEF Wellformed, PanelsFormed, PanelRecords
  <2>3. o.ok => ran'[panel[p].act] > 0
    BY <2>1, <2>2, CountsRuns
  <2>4. Sends(p, panel[p].act, what, FALSE, panel[p].wanted)
    BY <2>1, <2>2, <2>3 DEF Sends
  <2>5. what \in Decisions \cup Reports
    BY DEF Reports
  <2> QED
    BY <2>2, <2>4, <2>5 DEF Sending
<1> QED
  BY <1>1, <1>2, <1>3, <1>4, <1>5, <1>6 DEF PanelStep

-----------------------------------------------------------------------------
(* What requests and panels are about, and whom an answer reaches.         *)

\* A new request has a number nobody waits for yet.
LEMMA SendingIsFresh ==
  ASSUME ActionsTypeOK, Wellformed, NEW a \in Proposals, NEW what \in Decisions \cup Reports,
         what \in Reports => a \in Host, SendRequest(a, what)
  PROVE  /\ sent + 1 \in Requests
         /\ sent' = sent + 1
         /\ req'[sent + 1] = Request(a, what)
         /\ \A i \in Requests \ {sent + 1} : req'[i] = req[i]
         /\ req[sent + 1] = NoRequest
         /\ RequestsFormed'
<1> USE ActionsAssumption
<1>1. sent + 1 \in Requests /\ sent' = sent + 1 /\ sent \in Nat
  BY DEF ActionsTypeOK, SendRequest, Requests
<1>2. /\ req'[sent + 1] = Request(a, what)
      /\ \A i \in Requests \ {sent + 1} : req'[i] = req[i]
  BY <1>1 DEF ActionsTypeOK, SendRequest
<1>3. req[sent + 1] = NoRequest
  BY <1>1 DEF Wellformed, RequestsFormed
<1>4. RequestsFormed'
  <2> SUFFICES ASSUME NEW i \in Requests
               PROVE  /\ req'[i].pc # "over" => req'[i].act \in Proposals
                      /\ req'[i].what \in Reports => req'[i].act \in Host
                      /\ req'[i].pc \in UnderWay => req'[i].what \in Decisions
                      /\ req'[i].pc \in {"ran", "threw"} =>
                           req'[i].act \in Backend /\ req'[i].what = "approve"
                      /\ i > sent' => req'[i] = NoRequest
    BY DEF RequestsFormed
  <2>1. CASE i = sent + 1
    BY <1>1, <1>2, <2>1 DEF Request, UnderWay
  <2>2. CASE i # sent + 1
    BY <1>1, <1>2, <2>2 DEF Wellformed, RequestsFormed, Requests
  <2> QED
    BY <2>1, <2>2
<1> QED
  BY <1>1, <1>2, <1>3, <1>4

LEMMA PanelKeepsForm ==
  ASSUME ActionsTypeOK, Wellformed, SuccessIsTrue, TagsMatch, NEW p \in Panels, PanelStep(p)
  PROVE  RequestsFormed' /\ PanelsFormed' /\ TagsMatch'
<1>0. sent \in Nat /\ panel \in [Panels -> PanelRecords] /\ MaxRequests \in Nat
  BY ActionsAssumption DEF ActionsTypeOK
<1>1. ASSUME NEW a \in Proposals, NEW what \in Decisions \cup Reports,
             NEW again \in BOOLEAN, NEW wanted \in BOOLEAN, Sends(p, a, what, again, wanted)
      PROVE  RequestsFormed' /\ PanelsFormed' /\ TagsMatch'
  <2>1. /\ sent + 1 \in Requests
        /\ sent' = sent + 1
        /\ req'[sent + 1] = Request(a, what)
        /\ \A i \in Requests \ {sent + 1} : req'[i] = req[i]
        /\ RequestsFormed'
    BY <1>1, SendingIsFresh DEF Sends
  <2>2. /\ panel'[p] = Panel("waiting", a, what, sent + 1, again, wanted)
        /\ \A q \in Panels \ {p} : panel'[q] = panel[q]
    BY <1>0, <1>1 DEF Sends, PutPanel
  <2>3. PanelsFormed'
    <3> SUFFICES ASSUME NEW q \in Panels
                 PROVE  /\ panel'[q].pc # "idle" \/ panel'[q].answer # "none" => panel'[q].act \in Proposals
                        /\ panel'[q].what \in Reports \/ panel'[q].wanted => panel'[q].act \in Host
                        /\ panel'[q].pc = "hosting" \/ panel'[q].answer = "host" =>
                             panel'[q].act \in Host
                        /\ panel'[q].tag <= sent'
      BY DEF PanelsFormed
    <3>1. CASE q = p
      BY <1>0, <1>1, <2>1, <2>2, <3>1 DEF Sends, Panel
    <3>2. CASE q # p
      BY <1>0, <2>1, <2>2, <3>2 DEF Wellformed, PanelsFormed, PanelRecords
    <3> QED
      BY <3>1, <3>2
  <2>4. \A q \in Panels \ {p}, i \in Requests : Waits(q, i)' => i # sent + 1
    BY <1>0, <2>1, <2>2 DEF Waits, Wellformed, PanelsFormed, PanelRecords
  <2>5. \A q \in Panels \ {p}, i \in Requests : Waits(q, i)' => Waits(q, i)
    BY <2>2 DEF Waits
  <2>6. \A i \in Requests : Waits(p, i)' <=> i = sent + 1
    BY <2>2 DEF Waits, Panel
  <2>7. \A q \in Panels, i \in Requests : Waits(q, i)' /\ req'[i].pc # "over" =>
          req'[i].act = panel'[q].act /\ req'[i].what = panel'[q].what
    <3> SUFFICES ASSUME NEW q \in Panels, NEW i \in Requests, Waits(q, i)', req'[i].pc # "over"
                 PROVE  req'[i].act = panel'[q].act /\ req'[i].what = panel'[q].what
      OBVIOUS
    <3>1. CASE q = p
      BY <2>1, <2>2, <2>6, <3>1 DEF Panel, Request
    <3>2. CASE q # p
      BY <2>1, <2>2, <2>4, <2>5, <3>2 DEF TagsMatch
    <3> QED
      BY <3>1, <3>2
  <2>8. \A q, r \in Panels, i \in Requests : Waits(q, i)' /\ Waits(r, i)' => q = r
    BY <2>4, <2>5, <2>6 DEF TagsMatch
  <2> QED
    BY <2>1, <2>3, <2>7, <2>8 DEF TagsMatch
<1>2. ASSUME NEW a \in Host, SendRequest(a, "failed"), UNCHANGED panel \/ PutPanel(p, IdlePanel)
      PROVE  RequestsFormed' /\ PanelsFormed' /\ TagsMatch'
  <2>1. /\ sent' = sent + 1
        /\ \A i \in Requests \ {sent + 1} : req'[i] = req[i]
        /\ RequestsFormed'
    BY <1>2, SendingIsFresh DEF Reports, Host, Proposals
  <2>2. \A q \in Panels : panel'[q] = panel[q] \/ panel'[q] = IdlePanel
    BY <1>0, <1>2 DEF PutPanel
  <2>3. PanelsFormed'
    BY <1>0, <2>1, <2>2 DEF Wellformed, PanelsFormed, PanelRecords, IdlePanel, Panel, Reports
  <2>4. \A q \in Panels, i \in Requests :
          Waits(q, i)' => Waits(q, i) /\ i # sent + 1 /\ panel'[q] = panel[q]
    BY <1>0, <2>2 DEF Waits, Wellformed, PanelsFormed, PanelRecords, IdlePanel, Panel
  <2>5. TagsMatch'
    BY <2>1, <2>4 DEF TagsMatch
  <2> QED
    BY <2>1, <2>3, <2>5
<1>3. CASE Resting(p)
  <2>1. RequestsFormed'
    BY <1>3 DEF Resting, Wellformed, RequestsFormed
  <2>2. \A q \in Panels : \/ panel'[q] = panel[q] \/ panel'[q] = IdlePanel
                          \/ panel[q].answer = "host" /\ panel'[q] = [panel[q] EXCEPT !.pc = "hosting"]
    BY <1>0, <1>3 DEF Resting, PutPanel
  <2>3. PanelsFormed'
    <3> SUFFICES ASSUME NEW q \in Panels
                 PROVE  /\ panel'[q].pc # "idle" \/ panel'[q].answer # "none" => panel'[q].act \in Proposals
                        /\ panel'[q].what \in Reports \/ panel'[q].wanted => panel'[q].act \in Host
                        /\ panel'[q].pc = "hosting" \/ panel'[q].answer = "host" =>
                             panel'[q].act \in Host
                        /\ panel'[q].tag <= sent'
      BY DEF PanelsFormed
    <3>1. UNCHANGED sent
      BY <1>3 DEF Resting
    <3>2. CASE panel'[q] = panel[q]
      BY <3>1, <3>2 DEF Wellformed, PanelsFormed
    <3>3. CASE panel'[q] = IdlePanel
      BY <1>0, <3>1, <3>3 DEF IdlePanel, Panel, Reports
    <3>4. CASE panel[q].answer = "host" /\ panel'[q] = [panel[q] EXCEPT !.pc = "hosting"]
      BY <1>0, <3>1, <3>4 DEF Wellformed, PanelsFormed, PanelRecords, Host, Proposals
    <3> QED
      BY <2>2, <3>2, <3>3, <3>4
  <2>4. ASSUME NEW q \in Panels, NEW i \in Requests, Waits(q, i)'
        PROVE  Waits(q, i) /\ panel'[q] = panel[q]
    <3>1. IdlePanel.pc = "idle" /\ [panel[q] EXCEPT !.pc = "hosting"].pc = "hosting"
      BY <1>0 DEF PanelRecords, IdlePanel, Panel
    <3> QED
      BY <2>2, <2>4, <3>1 DEF Waits
  <2>5. TagsMatch'
    BY <1>3, <2>4 DEF TagsMatch, Resting
  <2> QED
    BY <2>1, <2>3, <2>5
<1> QED
  BY <1>1, <1>2, <1>3, PanelShapes DEF Sending, Failing

\* A panel's answer changes only if it waits for one of the requests.
LEMMA AnsweredPanel ==
  ASSUME ActionsTypeOK, NEW is \in SUBSET Requests, NEW answer \in Answers,
         panel' = AnsweredPanels(is, answer), NEW q \in Panels
  PROVE  /\ panel'[q].pc = panel[q].pc
         /\ panel'[q].act = panel[q].act
         /\ panel'[q].what = panel[q].what
         /\ panel'[q].wanted = panel[q].wanted
         /\ panel'[q].tag = panel[q].tag
         /\ \/ panel'[q].answer = panel[q].answer
            \/ panel'[q].answer = answer /\ \E i \in is : Waits(q, i)
<1>1. panel[q] \in PanelRecords
  BY DEF ActionsTypeOK
<1>2. panel'[q] = IF panel[q].pc = "waiting" /\ panel[q].tag \in is
                  THEN [panel[q] EXCEPT !.answer = answer] ELSE panel[q]
  BY DEF AnsweredPanels
<1> QED
  BY <1>1, <1>2 DEF PanelRecords, Waits

\* An answer leaves its request over; only the panel that waits for it gets it.
LEMMA AnswersKeepForm ==
  ASSUME ActionsTypeOK, Wellformed, TagsMatch, NEW is \in SUBSET Requests, NEW answer \in Answers,
         req' = [i \in Requests |-> IF i \in is THEN NoRequest ELSE req[i]],
         panel' = AnsweredPanels(is, answer), sent' = sent,
         answer = "host" => \A i \in is : req[i].act \in Host /\ req[i].pc # "over"
  PROVE  RequestsFormed' /\ PanelsFormed' /\ TagsMatch'
<1>0. sent \in Nat /\ panel \in [Panels -> PanelRecords]
  BY DEF ActionsTypeOK
<1>1. RequestsFormed'
  <2>1. \A i \in Requests : req'[i] = NoRequest \/ req'[i] = req[i]
    OBVIOUS
  <2> QED
    BY <2>1 DEF Wellformed, RequestsFormed, NoRequest, Reports, UnderWay
<1>2. ASSUME NEW q \in Panels
      PROVE  /\ panel'[q].pc = panel[q].pc
             /\ panel'[q].act = panel[q].act
             /\ panel'[q].what = panel[q].what
             /\ panel'[q].wanted = panel[q].wanted
             /\ panel'[q].tag = panel[q].tag
             /\ \/ panel'[q].answer = panel[q].answer
                \/ panel'[q].answer = answer /\ \E i \in is : Waits(q, i)
  BY AnsweredPanel
<1>3. PanelsFormed'
  <2> SUFFICES ASSUME NEW q \in Panels
               PROVE  /\ panel'[q].pc # "idle" \/ panel'[q].answer # "none" => panel'[q].act \in Proposals
                      /\ panel'[q].what \in Reports \/ panel'[q].wanted => panel'[q].act \in Host
                      /\ panel'[q].pc = "hosting" \/ panel'[q].answer = "host" =>
                           panel'[q].act \in Host
                      /\ panel'[q].tag <= sent'
    BY DEF PanelsFormed
  <2>1. CASE panel'[q].answer = panel[q].answer
    BY <1>2, <2>1 DEF Wellformed, PanelsFormed
  <2>2. CASE panel'[q].answer = answer /\ \E i \in is : Waits(q, i)
    <3>1. panel[q].pc = "waiting"
      BY <2>2 DEF Waits
    <3>2. panel[q].act \in Proposals /\ (answer = "host" => panel[q].act \in Host)
      BY <2>2, <3>1 DEF Wellformed, PanelsFormed, TagsMatch
    <3> QED
      BY <1>2, <2>2, <3>1, <3>2 DEF Wellformed, PanelsFormed
  <2> QED
    BY <1>2, <2>1, <2>2
<1>4. TagsMatch'
  <2>1. \A q \in Panels, i \in Requests : Waits(q, i)' <=> Waits(q, i)
    BY <1>2 DEF Waits
  <2>2. \A i \in Requests : req'[i].pc # "over" => req'[i] = req[i]
    BY DEF NoRequest
  <2> QED
    BY <1>2, <2>1, <2>2 DEF TagsMatch
<1> QED
  BY <1>1, <1>3, <1>4

LEMMA ReplyKeepsForm ==
  ASSUME ActionsTypeOK, Wellformed, TagsMatch, NEW i \in Requests, NEW answer \in Answers,
         Reply(i, answer), sent' = sent,
         answer = "host" => req[i].act \in Host /\ req[i].pc # "over"
  PROVE  RequestsFormed' /\ PanelsFormed' /\ TagsMatch'
<1>1. req' = [j \in Requests |-> IF j \in {i} THEN NoRequest ELSE req[j]]
  BY DEF Reply, ActionsTypeOK
<1> QED
  BY <1>1, AnswersKeepForm DEF Reply

\* A request moves on in its handler.
LEMMA MovingKeepsForm ==
  ASSUME ActionsTypeOK, Wellformed, TagsMatch, NEW i \in Requests, NEW pc \in UnderWay,
         req' = [req EXCEPT ![i].pc = pc], sent' = sent, panel' = panel,
         req[i].pc # "over", req[i].what \in Decisions,
         pc # "read" => req[i].act \in Backend /\ req[i].what = "approve"
  PROVE  RequestsFormed' /\ PanelsFormed' /\ TagsMatch'
<1>1. /\ req'[i].pc = pc /\ req'[i].act = req[i].act /\ req'[i].what = req[i].what
      /\ \A j \in Requests \ {i} : req'[j] = req[j]
  BY DEF ActionsTypeOK, RequestRecords
<1>2. RequestsFormed'
  <2> SUFFICES ASSUME NEW j \in Requests
               PROVE  /\ req'[j].pc # "over" => req'[j].act \in Proposals
                      /\ req'[j].what \in Reports => req'[j].act \in Host
                      /\ req'[j].pc \in UnderWay => req'[j].what \in Decisions
                      /\ req'[j].pc \in {"ran", "threw"} =>
                           req'[j].act \in Backend /\ req'[j].what = "approve"
                      /\ j > sent' => req'[j] = NoRequest
    BY DEF RequestsFormed
  <2>1. CASE j = i
    <3>1. ~(i > sent)
      BY DEF Wellformed, RequestsFormed, NoRequest
    <3> QED
      BY <1>1, <2>1, <3>1 DEF Wellformed, RequestsFormed, UnderWay
  <2>2. CASE j # i
    BY <1>1, <2>2 DEF Wellformed, RequestsFormed
  <2> QED
    BY <2>1, <2>2
<1>3. PanelsFormed'
  BY DEF Wellformed, PanelsFormed
<1>4. TagsMatch'
  <2>1. \A j \in Requests : /\ req'[j].act = req[j].act
                            /\ req'[j].what = req[j].what
                            /\ req'[j].pc # "over" => req[j].pc # "over"
    BY <1>1
  <2>2. \A q \in Panels, j \in Requests : Waits(q, j)' <=> Waits(q, j)
    BY DEF Waits
  <2> QED
    BY <2>1, <2>2 DEF TagsMatch
<1> QED
  BY <1>2, <1>3, <1>4

LEMMA FormStep ==
  ASSUME ActionsTypeOK, Wellformed, TagsMatch, SuccessIsTrue, [ActionsNext]_actionsVars
  PROVE  Wellformed' /\ TagsMatch'
<1> DEFINE Form == RequestsFormed /\ PanelsFormed /\ TagsMatch
<1>0. Form /\ WaitersFormed
  BY DEF Wellformed
<1>1. ASSUME UNCHANGED <<req, sent, panel>> PROVE Form'
  BY <1>0, <1>1 DEF RequestsFormed, PanelsFormed, TagsMatch, Waits
<1>2. ASSUME pushed' \subseteq pushed,
             \A a \in Proposals : waiter'[a] # "none" => waiter[a] # "none"
      PROVE  WaitersFormed'
  BY <1>0, <1>2 DEF WaitersFormed
<1> SUFFICES Form' /\ WaitersFormed'
  BY DEF Wellformed
<1> HIDE DEF Form
<1>3. ASSUME NEW p \in Panels, PanelStep(p) PROVE Form' /\ WaitersFormed'
  <2>1. pushed' \subseteq pushed /\ waiter' = waiter
    BY <1>3 DEF PanelStep, Ask, TakeEvent, RefuseEvent, GiveUp, Receive, HostRun
  <2> QED
    BY <1>2, <1>3, <2>1, PanelKeepsForm DEF Form
<1>4. ASSUME NEW i \in Requests, Handle(i) PROVE Form' /\ WaitersFormed'
  <2> DEFINE a == req[i].act
  <2>1. UNCHANGED <<sent, pushed, waiter>>
    BY <1>4 DEF Handle, Read, DecideReject, DecideHost, DecideWrites, Execute, Finish, Complete,
         Vanish, unmoved
  <2>2. SUFFICES Form'
    BY <1>2, <2>1
  <2>3. ASSUME NEW answer \in Answers, Reply(i, answer),
               answer = "host" => a \in Host /\ req[i].pc # "over"
        PROVE  Form'
    BY <2>1, <2>3, ReplyKeepsForm DEF Form
  <2>4. CASE Read(i)
    <3>1. CASE req' = [req EXCEPT ![i].pc = "read"] /\ UNCHANGED panel
      BY <2>1, <2>4, <3>1, MovingKeepsForm DEF Read, UnderWay, Form
    <3>2. RecordedAnswer(a, req[i].what) = "host" => a \in Host
      BY DEF RecordedAnswer, Host
    <3> QED
      BY <2>3, <2>4, <3>1, <3>2, RecordedAnswerIsAnswer DEF Read, Answers
  <2>5. CASE DecideReject(i)
    BY <2>3, <2>5 DEF DecideReject, DecideWrites, Answers
  <2>6. CASE DecideHost(i)
    BY <2>3, <2>6 DEF DecideHost, DecideWrites, Answers
  <2>7. CASE Execute(i)
    <3>1. PICK pc \in {"ran", "threw"} : req' = [req EXCEPT ![i].pc = pc]
      BY <2>7 DEF Execute
    <3> QED
      BY <2>1, <2>7, <3>1, MovingKeepsForm DEF Execute, UnderWay, Decisions, Form
  <2>8. CASE Finish(i)
    BY <2>3, <2>8 DEF Finish, Answers
  <2>9. CASE Complete(i)
    BY <2>3, <2>9 DEF Complete, Answers
  <2>10. CASE Vanish(i)
    BY <2>3, <2>10 DEF Vanish, Answers
  <2> QED
    BY <1>4, <2>4, <2>5, <2>6, <2>7, <2>8, <2>9, <2>10 DEF Handle
<1>5. ASSUME NEW a \in Proposals, ToolStep(a) PROVE Form' /\ WaitersFormed'
  <2>1. UNCHANGED <<req, sent, panel>>
    BY <1>5 DEF ToolStep, Propose, Sees, CancelRead, CancelWrite, DoneTimeout, waiterOnly
  <2>2. ASSUME NEW wait \in BOOLEAN, Propose(a, wait) PROVE WaitersFormed'
    BY <1>0, <2>2 DEF Propose, WaitersFormed, ActionsTypeOK
  <2>3. ASSUME Sees(a) \/ CancelRead(a) \/ CancelWrite(a) \/ DoneTimeout(a) PROVE WaitersFormed'
    <3>1. pushed' = pushed /\ waiter[a] # "none" /\ \E pc \in WaiterPcs : WaiterTo(a, pc)
      BY <2>3 DEF Sees, CancelRead, CancelWrite, DoneTimeout, waiterOnly, WaiterPcs
    <3> QED
      BY <1>2, <3>1 DEF WaiterTo, ActionsTypeOK
  <2> QED
    BY <1>1, <1>5, <2>1, <2>2, <2>3 DEF ToolStep
<1>6. ASSUME NEW as, NEW new, Clear(as, new) PROVE Form' /\ WaitersFormed'
  BY <1>1, <1>2, <1>6 DEF Clear, unmoved
<1>7. CASE Restart
  <2> DEFINE cut == {i \in Requests : req[i].pc \in UnderWay}
  <2>1. /\ req' = [i \in Requests |-> IF i \in cut THEN NoRequest ELSE req[i]]
        /\ panel' = AnsweredPanels(cut, "gone")
        /\ sent' = sent
    BY <1>7 DEF Restart
  <2>2. cut \in SUBSET Requests /\ "gone" \in Answers /\ "gone" # "host"
    BY DEF Answers
  <2> HIDE DEF cut
  <2>3. Form'
    BY <2>1, <2>2, AnswersKeepForm DEF Form
  <2>4. pushed' \subseteq pushed /\ \A a \in Proposals : waiter'[a] # "none" => waiter[a] # "none"
    BY <1>7 DEF Restart
  <2> QED
    BY <1>2, <2>3, <2>4 DEF Form
<1>8. CASE UNCHANGED actionsVars
  BY <1>1, <1>2, <1>8 DEF actionsVars
<1> QED
  BY <1>3, <1>4, <1>5, <1>6, <1>7, <1>8 DEF ActionsNext, ClearBot, ClearChat

-----------------------------------------------------------------------------
(* A success that is told or recorded is true.                             *)

LEMMA RanOnlyGrows ==
  ASSUME ActionsTypeOK, Wellformed, [ActionsNext]_actionsVars
  PROVE  ran' \in [Proposals -> Nat] /\ \A a \in Proposals : ran'[a] >= ran[a]
<1>1. ASSUME UNCHANGED ran
      PROVE  ran' \in [Proposals -> Nat] /\ \A a \in Proposals : ran'[a] >= ran[a]
  BY <1>1 DEF ActionsTypeOK
<1>2. ASSUME NEW p \in Panels, HostRun(p)
      PROVE  ran' \in [Proposals -> Nat] /\ \A a \in Proposals : ran'[a] >= ran[a]
  BY <1>2, CountsRuns DEF HostRun, Wellformed, PanelsFormed
<1>3. ASSUME NEW i \in Requests, Execute(i)
      PROVE  ran' \in [Proposals -> Nat] /\ \A a \in Proposals : ran'[a] >= ran[a]
  BY <1>3, CountsRuns DEF Execute, Wellformed, RequestsFormed
<1>4. ASSUME NEW p \in Panels, PanelStep(p) PROVE HostRun(p) \/ UNCHANGED ran
  BY <1>4 DEF PanelStep, Ask, TakeEvent, RefuseEvent, GiveUp, Receive
<1>5. ASSUME NEW i \in Requests, Handle(i) PROVE Execute(i) \/ UNCHANGED ran
  BY <1>5 DEF Handle, Read, DecideReject, DecideHost, DecideWrites, Finish, Complete, Vanish
<1>6. ASSUME NEW a \in Proposals, ToolStep(a) PROVE UNCHANGED ran
  BY <1>6 DEF ToolStep, Propose, Sees, CancelRead, CancelWrite, DoneTimeout, waiterOnly
<1>7. ASSUME NEW as, NEW new, Clear(as, new) PROVE UNCHANGED ran
  BY <1>7 DEF Clear
<1>8. CASE Restart
  BY <1>1, <1>8 DEF Restart
<1>9. CASE UNCHANGED actionsVars
  BY <1>1, <1>9 DEF actionsVars
<1> QED
  BY <1>1, <1>2, <1>3, <1>4, <1>5, <1>6, <1>7, <1>8, <1>9 DEF ActionsNext, ClearBot, ClearChat

LEMMA PanelKeepsTruth ==
  ASSUME ActionsTypeOK, Wellformed, SuccessIsTrue, [ActionsNext]_actionsVars,
         NEW p \in Panels, PanelStep(p)
  PROVE  RequestsTrue' /\ PanelsTrue'
<1>0. /\ sent \in Nat /\ panel \in [Panels -> PanelRecords] /\ req \in [Requests -> RequestRecords]
      /\ ran \in [Proposals -> Nat]
  BY ActionsAssumption DEF ActionsTypeOK
<1>1. ran' \in [Proposals -> Nat] /\ \A a \in Proposals : ran'[a] >= ran[a]
  BY RanOnlyGrows
<1>2. \A i \in Requests : req[i].what = "ok" \/ req[i].pc = "ran" => ran'[req[i].act] > 0
  <2>1. \A i \in Requests : req[i].what = "ok" \/ req[i].pc = "ran" => req[i].act \in Proposals
    BY DEF Wellformed, RequestsFormed, Reports, Host, Proposals
  <2> QED
    BY <1>0, <1>1, <2>1 DEF SuccessIsTrue, RequestsTrue
<1>3. \A q \in Panels :
        \/ panel[q].what = "ok"
        \/ panel[q].answer = "already"
        \/ panel[q].answer = "recorded" /\ panel[q].what = "approve"
        => ran'[panel[q].act] > 0
  <2>1. \A q \in Panels : panel[q].what = "ok" \/ panel[q].answer # "none" =>
                            panel[q].act \in Proposals
    BY DEF Wellformed, PanelsFormed, Reports, Host, Proposals
  <2> QED
    BY <1>0, <1>1, <2>1 DEF SuccessIsTrue, PanelsTrue
<1>4. ASSUME NEW a \in Proposals, NEW what \in Decisions \cup Reports, NEW again \in BOOLEAN,
             NEW wanted \in BOOLEAN, Sends(p, a, what, again, wanted)
      PROVE  RequestsTrue' /\ PanelsTrue'
  <2>1. /\ sent + 1 \in Requests
        /\ req'[sent + 1] = Request(a, what)
        /\ \A i \in Requests \ {sent + 1} : req'[i] = req[i]
    BY <1>4, SendingIsFresh DEF Sends
  <2>2. /\ panel'[p] = Panel("waiting", a, what, sent + 1, again, wanted)
        /\ \A q \in Panels \ {p} : panel'[q] = panel[q]
    BY <1>0, <1>4 DEF Sends, PutPanel
  <2>3. RequestsTrue'
    BY <1>2, <1>4, <2>1 DEF RequestsTrue, Sends, Request
  <2>4. PanelsTrue'
    BY <1>3, <1>4, <2>2 DEF PanelsTrue, Sends, Panel
  <2> QED
    BY <2>3, <2>4
<1>5. ASSUME NEW a \in Host, SendRequest(a, "failed"), UNCHANGED panel \/ PutPanel(p, IdlePanel)
      PROVE  RequestsTrue' /\ PanelsTrue'
  <2>1. /\ req'[sent + 1] = Request(a, "failed")
        /\ \A i \in Requests \ {sent + 1} : req'[i] = req[i]
    BY <1>5, SendingIsFresh DEF Reports, Host, Proposals
  <2>2. \A q \in Panels : panel'[q] = panel[q] \/ panel'[q] = IdlePanel
    BY <1>0, <1>5 DEF PutPanel
  <2>3. RequestsTrue'
    BY <1>2, <2>1 DEF RequestsTrue, Request
  <2>4. PanelsTrue'
    BY <1>3, <2>2 DEF PanelsTrue, IdlePanel, Panel
  <2> QED
    BY <2>3, <2>4
<1>6. CASE Resting(p)
  <2>1. RequestsTrue'
    BY <1>2, <1>6 DEF RequestsTrue, Resting
  <2>2. \A q \in Panels : \/ panel'[q] = panel[q] \/ panel'[q] = IdlePanel
                          \/ panel[q].answer = "host" /\ panel'[q] = [panel[q] EXCEPT !.pc = "hosting"]
    BY <1>0, <1>6 DEF Resting, PutPanel
  <2>3. ASSUME NEW q \in Panels,
               panel[q].answer = "host", panel'[q] = [panel[q] EXCEPT !.pc = "hosting"]
        PROVE  /\ panel'[q].answer = "host"
               /\ panel'[q].what = panel[q].what
               /\ panel'[q].act = panel[q].act
    BY <1>0, <2>3 DEF PanelRecords
  <2>4. IdlePanel.what = "reject" /\ IdlePanel.answer = "none"
    BY DEF IdlePanel, Panel
  <2>5. PanelsTrue'
    BY <1>3, <2>2, <2>3, <2>4 DEF PanelsTrue
  <2> QED
    BY <2>1, <2>5
<1> QED
  BY <1>4, <1>5, <1>6, PanelShapes DEF Sending, Failing

\* An answer is as true as the row it was read from.
LEMMA AnswersKeepTruth ==
  ASSUME ActionsTypeOK, Wellformed, TagsMatch, SuccessIsTrue,
         NEW is \in SUBSET Requests, NEW answer \in Answers,
         req' = [i \in Requests |-> IF i \in is THEN NoRequest ELSE req[i]],
         panel' = AnsweredPanels(is, answer), ran' = ran,
         answer \in {"already", "recorded"} => \A i \in is : req[i].pc # "over",
         answer = "already" => \A i \in is : ran[req[i].act] > 0,
         answer = "recorded" => \A i \in is : req[i].what = "approve" => ran[req[i].act] > 0
  PROVE  RequestsTrue' /\ PanelsTrue'
<1>1. RequestsTrue'
  BY DEF SuccessIsTrue, RequestsTrue, NoRequest
<1>2. ASSUME NEW q \in Panels
      PROVE  /\ panel'[q].act = panel[q].act
             /\ panel'[q].what = panel[q].what
             /\ \/ panel'[q].answer = panel[q].answer
                \/ panel'[q].answer = answer /\ \E i \in is : Waits(q, i)
  BY AnsweredPanel
<1>3. ASSUME NEW q \in Panels, NEW i \in is, Waits(q, i), answer \in {"already", "recorded"}
      PROVE  req[i].act = panel[q].act /\ req[i].what = panel[q].what
  BY <1>3 DEF TagsMatch
<1>4. PanelsTrue'
  <2> SUFFICES ASSUME NEW q \in Panels,
                      \/ panel'[q].what = "ok"
                      \/ panel'[q].answer = "already"
                      \/ panel'[q].answer = "recorded" /\ panel'[q].what = "approve"
               PROVE  ran'[panel'[q].act] > 0
    BY DEF PanelsTrue
  <2>1. CASE panel'[q].answer = panel[q].answer \/ panel[q].what = "ok"
    BY <1>2, <2>1 DEF SuccessIsTrue, PanelsTrue
  <2>2. CASE panel'[q].answer # panel[q].answer /\ panel[q].what # "ok"
    <3>1. PICK i \in is : Waits(q, i)
      BY <1>2, <2>2
    <3>2. panel'[q].answer = answer /\ panel'[q].act = panel[q].act /\ panel'[q].what = panel[q].what
      BY <1>2, <2>2
    <3>3. answer \in {"already", "recorded"}
      BY <2>2, <3>2
    <3> QED
      BY <1>3, <2>2, <3>1, <3>2, <3>3
  <2> QED
    BY <2>1, <2>2
<1> QED
  BY <1>1, <1>4

LEMMA ReplyKeepsTruth ==
  ASSUME ActionsTypeOK, Wellformed, TagsMatch, SuccessIsTrue,
         NEW i \in Requests, NEW answer \in Answers, Reply(i, answer), ran' = ran,
         answer \in {"already", "recorded"} => req[i].pc # "over",
         answer = "already" => ran[req[i].act] > 0,
         answer = "recorded" /\ req[i].what = "approve" => ran[req[i].act] > 0
  PROVE  RequestsTrue' /\ PanelsTrue'
<1>1. req' = [j \in Requests |-> IF j \in {i} THEN NoRequest ELSE req[j]]
  BY DEF Reply, ActionsTypeOK
<1> QED
  BY <1>1, AnswersKeepTruth DEF Reply

LEMMA SuccessStep ==
  ASSUME ActionsTypeOK, Wellformed, TagsMatch, SuccessIsTrue, [ActionsNext]_actionsVars
  PROVE  SuccessIsTrue'
<1> DEFINE Told(a) == status[a] = "done" \/ "done" \in claims[a]
<1> DEFINE Truth == RequestsTrue /\ PanelsTrue
<1>0. /\ ran \in [Proposals -> Nat] /\ ran' \in [Proposals -> Nat]
      /\ \A a \in Proposals : ran'[a] >= ran[a]
      /\ status \in [Proposals -> Statuses]
      /\ claims \in [Proposals -> SUBSET {"done", "rejected"}]
  BY RanOnlyGrows DEF ActionsTypeOK
<1> SUFFICES Truth' /\ \A a \in Proposals : Told(a)' => Told(a) \/ ran[a] > 0 \/ ran'[a] > 0
  BY <1>0 DEF SuccessIsTrue, DoneMeansRan
<1>1. ASSUME UNCHANGED <<req, panel>>, ran' = ran PROVE Truth'
  BY <1>1 DEF SuccessIsTrue, RequestsTrue, PanelsTrue
<1>2. ASSUME UNCHANGED <<status, claims>> PROVE \A a \in Proposals : Told(a)' => Told(a)
  BY <1>2
<1> HIDE DEF Truth
<1>3. ASSUME NEW p \in Panels, PanelStep(p)
      PROVE  Truth' /\ \A a \in Proposals : Told(a)' => Told(a) \/ ran[a] > 0
  <2>1. Truth'
    BY <1>3, PanelKeepsTruth DEF Truth
  <2>2. status' = status
    BY <1>3 DEF PanelStep, Ask, TakeEvent, RefuseEvent, GiveUp, Receive, HostRun
  <2>3. CASE GetsSuccess(p)
    BY <1>0, <2>1, <2>2, <2>3 DEF GetsSuccess, Tell, Claim, SuccessIsTrue, PanelsTrue
  <2>4. CASE GetsRejection(p)
    BY <1>0, <2>1, <2>2, <2>4 DEF GetsRejection, Tell, Claim
  <2>5. CASE UNCHANGED claims
    BY <1>2, <2>1, <2>2, <2>5
  <2> QED
    BY <1>3, <2>3, <2>4, <2>5 DEF PanelStep, Ask, TakeEvent, RefuseEvent, GiveUp, Receive, HostRun,
       GetsHost, GetsFailure, SuccessRefused
<1>4. ASSUME NEW i \in Requests, Handle(i)
      PROVE  Truth' /\ \A a \in Proposals : Told(a)' => Told(a) \/ ran[a] > 0
  <2> DEFINE b == req[i].act
  <2>0. claims' = claims /\ req[i] \in RequestRecords
    BY <1>4 DEF Handle, Read, DecideReject, DecideHost, DecideWrites, Execute, Finish, Complete,
         Vanish, unmoved, ActionsTypeOK
  <2>1. ASSUME NEW answer \in Answers, Reply(i, answer), ran' = ran,
               answer \in {"already", "recorded"} => req[i].pc # "over",
               answer = "already" => ran[b] > 0,
               answer = "recorded" /\ req[i].what = "approve" => ran[b] > 0
        PROVE  Truth'
    BY <2>1, ReplyKeepsTruth DEF Truth
  <2>2. ASSUME NEW what, NEW new \in {"rejected", "approved"}, NEW answer \in {"rejected", "host"},
               DecideWrites(i, what, new, answer)
        PROVE  Truth' /\ \A a \in Proposals : Told(a)' => Told(a)
    <3>1. Truth'
      BY <2>1, <2>2 DEF DecideWrites, Answers
    <3>2. status' = [status EXCEPT ![b] = IF @ = "deleted" THEN @ ELSE new]
      BY <2>2 DEF DecideWrites
    <3>3. \A a \in Proposals : status'[a] = "done" => status[a] = "done"
      BY <1>0, <3>2
    <3> QED
      BY <2>0, <3>1, <3>3
  <2>3. CASE Read(i)
    <3>1. status' = status /\ ran' = ran /\ req[i].pc = "sent"
      BY <2>3 DEF Read
    <3>2. CASE req' = [req EXCEPT ![i].pc = "read"] /\ UNCHANGED panel
      <4>1. RequestsTrue'
        BY <2>0, <3>1, <3>2 DEF SuccessIsTrue, RequestsTrue, ActionsTypeOK, RequestRecords
      <4>2. PanelsTrue'
        BY <3>1, <3>2 DEF SuccessIsTrue, PanelsTrue
      <4> QED
        BY <1>2, <2>0, <3>1, <4>1, <4>2 DEF Truth
    <3>3. CASE Reply(i, RecordedAnswer(b, req[i].what))
      <4>1. b \in Proposals
        BY <3>1 DEF Wellformed, RequestsFormed
      <4>2. RecordedAnswer(b, req[i].what) = "already" => ran[b] > 0
        BY <4>1 DEF RecordedAnswer, SuccessIsTrue, DoneMeansRan
      <4>3. RecordedAnswer(b, req[i].what) # "recorded"
        BY DEF RecordedAnswer
      <4> QED
        BY <1>2, <2>0, <2>1, <3>1, <3>3, <4>2, <4>3, RecordedAnswerIsAnswer
    <3>4. CASE Reply(i, "refused")
      BY <1>2, <2>0, <2>1, <3>1, <3>4 DEF Answers
    <3> QED
      BY <2>3, <3>2, <3>3, <3>4 DEF Read
  <2>4. CASE DecideReject(i)
    BY <2>2, <2>4 DEF DecideReject
  <2>5. CASE DecideHost(i)
    BY <2>2, <2>5 DEF DecideHost
  <2>6. CASE Execute(i)
    <3>1. PICK o \in HostOutcomes :
            /\ ran' = [ran EXCEPT ![b] = IF o.took THEN @ + 1 ELSE @]
            /\ req' = [req EXCEPT ![i].pc = IF o.ok THEN "ran" ELSE "threw"]
      BY <2>6 DEF Execute
    <3>2. b \in Proposals /\ req[i].what # "ok"
      BY <2>6 DEF Execute, Wellformed, RequestsFormed
    <3>3. o.ok => ran'[b] > 0
      BY <3>1, <3>2, CountsRuns
    <3>4. /\ req'[i].act = b /\ req'[i].what = req[i].what
          /\ req'[i].pc = IF o.ok THEN "ran" ELSE "threw"
          /\ \A j \in Requests \ {i} : req'[j] = req[j]
      BY <2>0, <3>1 DEF ActionsTypeOK, RequestRecords
    <3>5. RequestsTrue'
      <4> SUFFICES ASSUME NEW j \in Requests, req'[j].what = "ok" \/ req'[j].pc = "ran"
                   PROVE  ran'[req'[j].act] > 0
        BY DEF RequestsTrue
      <4>1. CASE j = i
        BY <3>2, <3>3, <3>4, <4>1
      <4>2. CASE j # i
        <5>1. req[j].act \in Proposals /\ ran[req[j].act] > 0
          BY <3>4, <4>2 DEF SuccessIsTrue, RequestsTrue, Wellformed, RequestsFormed, Reports, Host,
             Proposals
        <5> QED
          BY <1>0, <3>4, <4>2, <5>1
      <4> QED
        BY <4>1, <4>2
    <3>6. PanelsTrue'
      <4> SUFFICES ASSUME NEW q \in Panels,
                          \/ panel[q].what = "ok"
                          \/ panel[q].answer = "already"
                          \/ panel[q].answer = "recorded" /\ panel[q].what = "approve"
                   PROVE  ran'[panel[q].act] > 0
        BY <2>6 DEF PanelsTrue, Execute
      <4>1. panel[q].act \in Proposals /\ ran[panel[q].act] > 0
        BY DEF SuccessIsTrue, PanelsTrue, Wellformed, PanelsFormed, Reports, Host, Proposals
      <4> QED
        BY <1>0, <4>1
    <3> QED
      BY <1>2, <2>0, <2>6, <3>5, <3>6 DEF Execute, Truth
  <2>7. CASE Finish(i)
    <3>1. b \in Proposals /\ (req[i].pc = "ran" => ran[b] > 0)
      BY <2>7 DEF Finish, Wellformed, RequestsFormed, SuccessIsTrue, RequestsTrue
    <3>2. Truth'
      BY <2>1, <2>7, <3>1 DEF Finish, Answers
    <3> QED
      BY <1>0, <2>0, <2>7, <3>1, <3>2 DEF Finish
  <2>8. CASE Complete(i)
    <3>1. b \in Proposals /\ (req[i].what = "ok" => ran[b] > 0)
      BY <2>8 DEF Complete, Wellformed, RequestsFormed, SuccessIsTrue, RequestsTrue
    <3>2. Truth'
      BY <2>1, <2>8 DEF Complete, Answers, Reports
    <3> QED
      BY <1>0, <2>0, <2>8, <3>1, <3>2 DEF Complete
  <2>9. CASE Vanish(i)
    BY <1>2, <2>0, <2>1, <2>9 DEF Vanish, Answers
  <2> QED
    BY <1>4, <2>3, <2>4, <2>5, <2>6, <2>7, <2>8, <2>9 DEF Handle
<1>5. ASSUME NEW a \in Proposals, ToolStep(a)
      PROVE  Truth' /\ \A c \in Proposals : Told(c)' => Told(c)
  <2>1. Truth'
    BY <1>1, <1>5 DEF ToolStep, Propose, Sees, CancelRead, CancelWrite, DoneTimeout, waiterOnly
  <2>2. ASSUME NEW wait \in BOOLEAN, Propose(a, wait) PROVE \A c \in Proposals : Told(c)' => Told(c)
    BY <1>0, <2>2 DEF Propose
  <2>3. CASE Sees(a)
    BY <1>0, <2>1, <2>3 DEF Sees, Claim
  <2>4. CASE CancelRead(a) \/ DoneTimeout(a)
    BY <1>2, <2>1, <2>4 DEF CancelRead, DoneTimeout
  <2>5. CASE CancelWrite(a)
    BY <1>0, <2>1, <2>5 DEF CancelWrite, Claim
  <2> QED
    BY <1>5, <2>1, <2>2, <2>3, <2>4, <2>5 DEF ToolStep
<1>6. ASSUME NEW as, NEW new \in {"rejected", "deleted"}, Clear(as, new)
      PROVE  Truth' /\ \A c \in Proposals : Told(c)' => Told(c)
  <2>1. Truth' /\ claims' = claims
    BY <1>1, <1>6 DEF Clear, unmoved
  <2>2. \A c \in Proposals : status'[c] = "done" => status[c] = "done"
    BY <1>0, <1>6 DEF Clear
  <2> QED
    BY <2>1, <2>2
<1>7. CASE Restart
  <2> DEFINE cut == {i \in Requests : req[i].pc \in UnderWay}
  <2>1. /\ req' = [i \in Requests |-> IF i \in cut THEN NoRequest ELSE req[i]]
        /\ panel' = AnsweredPanels(cut, "gone")
        /\ UNCHANGED <<status, ran, claims>>
    BY <1>7 DEF Restart
  <2>2. cut \in SUBSET Requests /\ "gone" \in Answers
    BY DEF Answers
  <2> HIDE DEF cut
  <2> QED
    BY <1>2, <2>1, <2>2, AnswersKeepTruth DEF Truth
<1>8. CASE UNCHANGED actionsVars
  BY <1>1, <1>2, <1>8 DEF actionsVars
<1> QED
  BY <1>3, <1>4, <1>5, <1>6, <1>7, <1>8 DEF ActionsNext, ClearBot, ClearChat

-----------------------------------------------------------------------------
(* A decision of one piece.                                                *)

\* A step that lets nobody new decide, run or be told of a rejection.
LEMMA OnePieceStays ==
  ASSUME NEW a \in Proposals, OnePiece(a),
         ran'[a] = ran[a],
         Deciding(a)' \subseteq Deciding(a),
         waiter'[a] = "cancelling" => waiter[a] = "cancelling",
         status'[a] \in {"none", "pending"} => status[a] \in {"none", "pending"},
         status'[a] = "approved" => status[a] = "approved",
         Undecided(a)' => Undecided(a),
         \A p \in Panels : MayRun(p, a)' => MayRun(p, a),
         Dismissed(a)' => Dismissed(a)
  PROVE  OnePiece(a)'
<1>1. Untouched(a) => Untouched(a)'
  BY DEF Untouched
<1>2. Deciding(a) = {} => Deciding(a)' = {}
  OBVIOUS
<1>3. (\A i, j \in Deciding(a) : i = j) => \A i, j \in Deciding(a)' : i = j
  OBVIOUS
<1> QED
  BY <1>1, <1>2, <1>3 DEF OnePiece

\* A panel's step starts no decision and hands out nothing.
LEMMA PanelDecidesNothing ==
  ASSUME ActionsTypeOK, Wellformed, SuccessIsTrue, NEW p \in Panels, PanelStep(p), NEW a \in Proposals
  PROVE  /\ Deciding(a)' = Deciding(a)
         /\ Executing(a)' = Executing(a)
         /\ \A q \in Panels : MayRun(q, a)' => MayRun(q, a)
         /\ \A q \in Panels : panel'[q].act = a /\ panel'[q].answer = "rejected"
                                => panel[q].act = a /\ panel[q].answer = "rejected"
<1>0. sent \in Nat /\ panel \in [Panels -> PanelRecords]
  BY ActionsAssumption DEF ActionsTypeOK
<1>1. ASSUME NEW b \in Proposals, NEW what \in Decisions \cup Reports,
             what \in Reports => b \in Host, SendRequest(b, what)
      PROVE  Deciding(a)' = Deciding(a) /\ Executing(a)' = Executing(a)
  <2>1. /\ req'[sent + 1] = Request(b, what)
        /\ \A i \in Requests \ {sent + 1} : req'[i] = req[i]
        /\ req[sent + 1] = NoRequest
    BY <1>1, SendingIsFresh
  <2>2. \A i \in Requests : /\ req'[i].pc \in UnderWay <=> req[i].pc \in UnderWay
                            /\ req'[i].pc \in {"ran", "threw"} <=> req[i].pc \in {"ran", "threw"}
                            /\ req[i].pc \in UnderWay => req'[i] = req[i]
    BY <2>1 DEF Request, NoRequest, UnderWay
  <2> QED
    BY <2>2 DEF Deciding, Executing, UnderWay
<1>2. IdlePanel.pc = "idle" /\ IdlePanel.answer = "none"
  BY DEF IdlePanel, Panel
<1>3. CASE Sending(p)
  <2>1. PICK b \in Proposals, what \in Decisions \cup Reports, again \in BOOLEAN, wanted \in BOOLEAN :
          Sends(p, b, what, again, wanted)
    BY <1>3 DEF Sending
  <2>2. /\ panel'[p].pc = "waiting" /\ panel'[p].answer = "none"
        /\ \A q \in Panels \ {p} : panel'[q] = panel[q]
    BY <1>0, <2>1 DEF Sends, PutPanel, Panel
  <2> QED
    BY <1>1, <2>1, <2>2 DEF Sends, MayRun
<1>4. CASE Failing(p)
  <2>1. PICK b \in Host : /\ SendRequest(b, "failed")
                          /\ UNCHANGED panel \/ PutPanel(p, IdlePanel)
    BY <1>4 DEF Failing
  <2>2. \A q \in Panels : panel'[q] = panel[q] \/ panel'[q] = IdlePanel
    BY <1>0, <2>1 DEF PutPanel
  <2>3. Deciding(a)' = Deciding(a) /\ Executing(a)' = Executing(a)
    BY <1>1, <2>1 DEF Reports, Host, Proposals
  <2> QED
    BY <1>2, <2>2, <2>3 DEF MayRun
<1>5. CASE Resting(p)
  <2>1. Deciding(a)' = Deciding(a) /\ Executing(a)' = Executing(a)
    BY <1>5 DEF Resting, Deciding, Executing
  <2>2. \A q \in Panels : \/ panel'[q] = panel[q] \/ panel'[q] = IdlePanel
                          \/ panel[q].answer = "host" /\ panel'[q] = [panel[q] EXCEPT !.pc = "hosting"]
    BY <1>0, <1>5 DEF Resting, PutPanel
  <2>3. ASSUME NEW q \in Panels,
               panel[q].answer = "host", panel'[q] = [panel[q] EXCEPT !.pc = "hosting"]
        PROVE  panel'[q].answer = "host" /\ panel'[q].act = panel[q].act
    BY <1>0, <2>3 DEF PanelRecords
  <2> QED
    BY <1>2, <2>1, <2>2, <2>3 DEF MayRun
<1> QED
  BY <1>3, <1>4, <1>5, PanelShapes

LEMMA PanelKeepsOnePiece ==
  ASSUME ActionsTypeOK, Wellformed, SuccessIsTrue, NEW p \in Panels, PanelStep(p),
         NEW a \in Proposals, OnePiece(a)
  PROVE  OnePiece(a)'
<1>0. status' = status /\ waiter' = waiter
  BY DEF PanelStep, Ask, TakeEvent, RefuseEvent, GiveUp, Receive, HostRun
<1>1. /\ Deciding(a)' = Deciding(a)
      /\ Executing(a)' = Executing(a)
      /\ \A q \in Panels : MayRun(q, a)' => MayRun(q, a)
      /\ \A q \in Panels : panel'[q].act = a /\ panel'[q].answer = "rejected"
                             => panel[q].act = a /\ panel[q].answer = "rejected"
  BY PanelDecidesNothing
<1>2. Undecided(a)' => Undecided(a)
  BY <1>0, <1>1 DEF Undecided
<1>3. "rejected" \in claims'[a] => Dismissed(a)
  <2>0. claims \in [Proposals -> SUBSET {"done", "rejected"}] /\ panel[p] \in PanelRecords
    BY DEF ActionsTypeOK
  <2>1. CASE UNCHANGED claims
    BY <2>1 DEF Dismissed
  <2>2. CASE GetsSuccess(p)
    BY <2>0, <2>2 DEF GetsSuccess, Tell, Claim, Dismissed
  <2>3. CASE GetsRejection(p)
    BY <2>0, <2>3 DEF GetsRejection, Tell, Claim, Dismissed
  <2> QED
    BY <2>1, <2>2, <2>3 DEF PanelStep, Ask, TakeEvent, RefuseEvent, GiveUp, Receive, HostRun,
       GetsHost, GetsFailure, SuccessRefused
<1>4. Dismissed(a)' => Dismissed(a)
  BY <1>0, <1>1, <1>3 DEF Dismissed
<1>5. CASE ran'[a] = ran[a]
  BY <1>0, <1>1, <1>2, <1>4, <1>5, OnePieceStays
<1>6. CASE ran'[a] # ran[a]
  <2>1. HostRun(p)
    BY <1>6 DEF PanelStep, Ask, TakeEvent, RefuseEvent, GiveUp, Receive
  <2>2. panel[p].act \in Host /\ panel[p].act \in Proposals
    BY <2>1 DEF HostRun, Wellformed, PanelsFormed
  <2>3. /\ \A c \in Proposals \ {panel[p].act} : ran'[c] = ran[c]
        /\ ran'[panel[p].act] <= ran[panel[p].act] + 1
    BY <2>1, <2>2, CountsRuns DEF HostRun
  <2>4. panel[p].act = a
    BY <1>6, <2>3
  <2>5. MayRun(p, a) /\ a \notin Backend
    BY <2>1, <2>2, <2>4, ActionsAssumption DEF HostRun, MayRun
  <2>6. ~MayRun(p, a)'
    <3>1. panel'[p].pc = "waiting" /\ panel'[p].answer = "none"
      BY <2>1 DEF HostRun, PutPanel, Panel, ActionsTypeOK
    <3> QED
      BY <3>1 DEF MayRun
  <2>7. ~Undecided(a) /\ ~Dismissed(a)
    BY <2>5 DEF OnePiece, Untouched
  <2>8. a \in Once => /\ ran'[a] <= 1
                      /\ \A q \in Panels : ~MayRun(q, a)'
    <3>1. a \in Once => ran[a] = 0 /\ \A q \in Panels : MayRun(q, a) => q = p
      BY <2>5 DEF OnePiece
    <3> QED
      BY <1>1, <2>3, <2>4, <2>6, <3>1
  <2> QED
    BY <1>0, <1>1, <1>2, <1>4, <2>5, <2>7, <2>8 DEF OnePiece
<1> QED
  BY <1>5, <1>6

\* What an answer leaves of the decisions on a.
LEMMA ReplyDecides ==
  ASSUME ActionsTypeOK, TagsMatch, NEW i \in Requests, NEW answer \in Answers, Reply(i, answer),
         req[i].pc # "over", NEW a \in Proposals
  PROVE  /\ Deciding(a)' = Deciding(a) \ {i}
         /\ req[i].pc \notin {"ran", "threw"} => Executing(a)' = Executing(a)
         /\ Executing(a)' => Executing(a)
         /\ \A q \in Panels : MayRun(q, a)' =>
              MayRun(q, a) \/ (answer = "host" /\ req[i].act = a /\ Waits(q, i))
         /\ \A q \in Panels : panel'[q].act = a /\ panel'[q].answer = "rejected" =>
              \/ panel[q].act = a /\ panel[q].answer = "rejected"
              \/ answer = "rejected" /\ req[i].act = a
<1>1. /\ req'[i].pc = "over"
      /\ \A j \in Requests \ {i} : req'[j] = req[j]
  BY DEF Reply, NoRequest, ActionsTypeOK
<1>2. \A q \in Panels : /\ panel'[q].pc = panel[q].pc
                        /\ panel'[q].act = panel[q].act
                        /\ \/ panel'[q].answer = panel[q].answer
                           \/ panel'[q].answer = answer /\ Waits(q, i)
  BY AnsweredPanel, SMTT(40) DEF Reply
<1>3. \A q \in Panels : Waits(q, i) => panel[q].act = req[i].act
  BY DEF TagsMatch
<1>4. Deciding(a)' = Deciding(a) \ {i}
  BY <1>1 DEF Deciding, UnderWay
<1>5. /\ req[i].pc \notin {"ran", "threw"} => Executing(a)' = Executing(a)
      /\ Executing(a)' => Executing(a)
  BY <1>1 DEF Executing
<1> QED
  BY <1>2, <1>3, <1>4, <1>5 DEF MayRun

\* A request in the middle of a decision is the only one there is.
LEMMA OnlyDecider ==
  ASSUME Wellformed, NEW i \in Requests, NEW a \in Proposals, req[i].act = a,
         req[i].pc \in UnderWay, OnePiece(a)
  PROVE  /\ Deciding(a) = {i}
         /\ waiter[a] # "cancelling"
         /\ status[a] # "approved"
         /\ ~Dismissed(a)
         /\ req[i].pc = "read" => Untouched(a)
<1>1. i \in Deciding(a)
  BY DEF Deciding
<1>2. Deciding(a) = {i}
  BY <1>1 DEF OnePiece
<1>3. req[i].pc = "read" => Undecided(a)
  BY <1>2 DEF Undecided, Executing, Deciding, UnderWay
<1> QED
  BY <1>1, <1>2, <1>3 DEF OnePiece

LEMMA HandlerKeepsOnePiece ==
  ASSUME ActionsTypeOK, Wellformed, TagsMatch, NEW i \in Requests, Handle(i),
         NEW a \in Proposals, a \notin torn', OnePiece(a)
  PROVE  OnePiece(a)'
<1> USE ActionsAssumption
<1>0. /\ waiter' = waiter /\ claims' = claims
      /\ status \in [Proposals -> Statuses] /\ req[i] \in RequestRecords /\ req[i].pc # "over"
      /\ panel \in [Panels -> PanelRecords]
  BY DEF Handle, Read, DecideReject, DecideHost, DecideWrites, Execute, Finish, Complete,
     Vanish, unmoved, ActionsTypeOK, UnderWay
<1>1. req[i].act \in Proposals
  BY <1>0 DEF Wellformed, RequestsFormed
\* An answer that hands nothing out.
<1>2. ASSUME NEW answer \in Answers \ {"host"}, Reply(i, answer), ran' = ran,
             answer = "rejected" /\ req[i].act = a => Dismissed(a),
             status'[a] \in {"none", "pending"} => status[a] \in {"none", "pending"},
             status'[a] = "approved" => status[a] = "approved",
             status'[a] \in {"rejected", "deleted"} => Dismissed(a),
             Executing(a)' = Executing(a) \/ ~Undecided(a)'
      PROVE  OnePiece(a)'
  <2>1. /\ Deciding(a)' \subseteq Deciding(a)
        /\ \A q \in Panels : MayRun(q, a)' => MayRun(q, a)
        /\ \A q \in Panels : panel'[q].act = a /\ panel'[q].answer = "rejected" => Dismissed(a)
    BY <1>0, <1>2, ReplyDecides DEF Dismissed
  <2>2. Dismissed(a)' => Dismissed(a)
    BY <1>0, <1>2, <2>1 DEF Dismissed
  <2>3. Undecided(a)' => Undecided(a)
    BY <1>0, <1>2, <2>1 DEF Undecided
  <2> QED
    BY <1>0, <1>2, <2>1, <2>2, <2>3, OnePieceStays
<1>3. CASE Read(i)
  <2>1. CASE /\ status[req[i].act] = "pending"
             /\ req' = [req EXCEPT ![i].pc = "read"]
             /\ NotOfOnePiece({req[i].act})
             /\ UNCHANGED panel
    <3>0. UNCHANGED <<status, ran>> /\ req[i].pc = "sent"
      BY <1>3 DEF Read
    <3>1. /\ req'[i].act = req[i].act /\ req'[i].pc = "read"
          /\ \A j \in Requests \ {i} : req'[j] = req[j]
      BY <1>0, <2>1 DEF ActionsTypeOK, RequestRecords
    <3>2. Executing(a)' = Executing(a)
      BY <3>0, <3>1 DEF Executing
    <3>3. \A q \in Panels : MayRun(q, a)' <=> MayRun(q, a)
      BY <2>1 DEF MayRun
    <3>4. Dismissed(a)' = Dismissed(a)
      BY <1>0, <2>1, <3>0 DEF Dismissed
    <3>5. CASE req[i].act # a
      <4>1. Deciding(a)' = Deciding(a)
        BY <3>1, <3>5 DEF Deciding
      <4>2. Undecided(a)' = Undecided(a)
        BY <1>0, <3>0, <3>2, <4>1 DEF Undecided
      <4> QED
        BY <1>0, <3>0, <3>3, <3>4, <4>1, <4>2, OnePieceStays
    <3>6. CASE req[i].act = a
      <4>1. Deciding(a) = {} /\ waiter[a] # "cancelling"
        BY <2>1, <3>6 DEF NotOfOnePiece, Overlaps
      <4>2. Deciding(a)' = {i}
        BY <3>0, <3>1, <3>6, <4>1 DEF Deciding, UnderWay
      <4>3. Undecided(a)
        BY <2>1, <3>6, <4>1 DEF Undecided, Executing, Deciding, UnderWay
      <4>4. ~Dismissed(a)' /\ Untouched(a)
        BY <2>1, <3>4, <3>6, <4>3 DEF OnePiece
      <4>5. Untouched(a)'
        BY <3>0, <3>3, <4>4 DEF Untouched
      <4>6. status'[a] = "pending"
        BY <2>1, <3>0, <3>6
      <4>7. ran'[a] = 0 /\ \A q \in Panels : ~MayRun(q, a)'
        BY <4>5 DEF Untouched
      <4> QED
        BY <1>0, <4>1, <4>2, <4>4, <4>5, <4>6, <4>7 DEF OnePiece
    <3> QED
      BY <3>5, <3>6
  <2>2. ASSUME NEW answer \in Answers \ {"host"}, Reply(i, answer),
               answer = "rejected" => status[req[i].act] = "rejected"
        PROVE  OnePiece(a)'
    <3>1. UNCHANGED <<status, ran>> /\ req[i].pc = "sent"
      BY <1>3 DEF Read
    <3>2. Executing(a)' = Executing(a)
      BY <1>0, <2>2, <3>1, ReplyDecides
    <3> QED
      BY <1>2, <2>2, <3>1, <3>2 DEF Dismissed
  <2>3. CASE Reply(i, "host") /\ status[req[i].act] = "approved" /\ req[i].act \in Rerunnable
    <3>0. UNCHANGED <<status, ran>> /\ req[i].pc = "sent"
      BY <1>3 DEF Read
    <3>1. /\ Deciding(a)' \subseteq Deciding(a)
          /\ Executing(a)' = Executing(a)
          /\ \A q \in Panels : MayRun(q, a)' => MayRun(q, a) \/ req[i].act = a
          /\ \A q \in Panels : panel'[q].act = a /\ panel'[q].answer = "rejected" => Dismissed(a)
      BY <1>0, <2>3, <3>0, ReplyDecides DEF Answers, Dismissed
    <3>2. Dismissed(a)' => Dismissed(a)
      BY <1>0, <3>0, <3>1 DEF Dismissed
    <3>3. Undecided(a)' => Undecided(a)
      BY <1>0, <3>0, <3>1 DEF Undecided
    <3>4. CASE req[i].act # a
      BY <1>0, <3>0, <3>1, <3>2, <3>3, <3>4, OnePieceStays
    <3>5. CASE req[i].act = a
      <4>1. /\ Deciding(a)' = {} /\ waiter'[a] # "cancelling" /\ status'[a] = "approved"
            /\ ~Dismissed(a)'
        BY <1>0, <2>3, <3>0, <3>1, <3>2, <3>5 DEF OnePiece
      <4>2. ~Undecided(a)'
        BY <4>1 DEF Undecided
      <4>3. a \notin Backend /\ a \notin Once
        BY <2>3, <3>5 DEF Host
      <4> QED
        BY <4>1, <4>2, <4>3 DEF OnePiece
    <3> QED
      BY <3>4, <3>5
  <2>4. CASE Reply(i, RecordedAnswer(req[i].act, req[i].what))
    <3>1. RecordedAnswer(req[i].act, req[i].what) = "host" =>
            status[req[i].act] = "approved" /\ req[i].act \in Rerunnable
      BY DEF RecordedAnswer
    <3>2. RecordedAnswer(req[i].act, req[i].what) = "rejected" => status[req[i].act] = "rejected"
      BY DEF RecordedAnswer
    <3> QED
      BY <2>2, <2>3, <2>4, <3>1, <3>2, RecordedAnswerIsAnswer
  <2> QED
    BY <1>3, <2>1, <2>2, <2>4 DEF Read, Answers
\* An unguarded UPDATE.
<1>4. ASSUME NEW what, NEW new \in Statuses \ {"none", "pending"}, NEW answer \in {"rejected", "host"},
             DecideWrites(i, what, new, answer),
             new = "approved" <=> answer = "host",
             new = "rejected" <=> answer = "rejected",
             answer = "host" => req[i].act \in Host
      PROVE  OnePiece(a)'
  <2>0. /\ req[i].pc = "read" /\ ran' = ran /\ Reply(i, answer)
        /\ status' = [status EXCEPT ![req[i].act] = IF @ = "deleted" THEN @ ELSE new]
    BY <1>4 DEF DecideWrites
  <2>1. /\ Deciding(a)' = Deciding(a) \ {i}
        /\ Executing(a)' = Executing(a)
        /\ \A q \in Panels : MayRun(q, a)' =>
             MayRun(q, a) \/ (answer = "host" /\ req[i].act = a /\ Waits(q, i))
        /\ \A q \in Panels : panel'[q].act = a /\ panel'[q].answer = "rejected" =>
             \/ panel[q].act = a /\ panel[q].answer = "rejected"
             \/ answer = "rejected" /\ req[i].act = a
    BY <1>0, <2>0, ReplyDecides DEF Answers
  <2>2. CASE req[i].act # a
    <3>1. status'[a] = status[a]
      BY <1>0, <2>0, <2>2
    <3>2. Dismissed(a)' => Dismissed(a)
      BY <1>0, <2>1, <2>2, <3>1 DEF Dismissed
    <3>3. Undecided(a)' => Undecided(a)
      BY <1>0, <2>1, <3>1 DEF Undecided
    <3> QED
      BY <1>0, <2>0, <2>1, <2>2, <3>1, <3>2, <3>3, OnePieceStays
  <2>3. CASE req[i].act = a
    <3>1. /\ Deciding(a) = {i}
          /\ waiter[a] # "cancelling"
          /\ ~Dismissed(a)
          /\ Untouched(a)
      BY <2>0, <2>3, OnlyDecider DEF UnderWay
    <3>2. Deciding(a)' = {} /\ status'[a] = new
      BY <1>0, <2>0, <2>1, <2>3, <3>1 DEF Dismissed
    <3>3. ~Undecided(a)'
      BY <1>0, <1>4, <3>1, <3>2 DEF Undecided, Statuses
    <3>4. ran'[a] = 0 /\ \A q \in Panels : MayRun(q, a)' => answer = "host" /\ Waits(q, i)
      BY <2>0, <2>1, <3>1 DEF Untouched
    <3>5. \A p, q \in Panels : MayRun(p, a)' /\ MayRun(q, a)' => p = q
      BY <3>4 DEF TagsMatch
    <3>6. answer = "host" => a \notin Backend /\ ~Dismissed(a)'
      BY <1>0, <1>4, <2>1, <2>3, <3>1, <3>2 DEF Dismissed
    <3>7. answer = "rejected" => Untouched(a)' /\ status'[a] = "rejected"
      BY <1>4, <3>2, <3>4 DEF Untouched
    <3>8. status'[a] = "approved" => Deciding(a)' = {} /\ waiter'[a] # "cancelling"
      BY <1>0, <3>1, <3>2
    <3> QED
      BY <1>0, <1>4, <3>1, <3>2, <3>3, <3>4, <3>5, <3>6, <3>7, <3>8 DEF OnePiece
  <2> QED
    BY <2>2, <2>3
<1>5. CASE Execute(i)
  <2>1. PICK o \in HostOutcomes :
          /\ ran' = [ran EXCEPT ![req[i].act] = IF o.took THEN @ + 1 ELSE @]
          /\ req' = [req EXCEPT ![i].pc = IF o.ok THEN "ran" ELSE "threw"]
    BY <1>5 DEF Execute
  <2>2. UNCHANGED <<status, panel>> /\ req[i].pc = "read" /\ req[i].act \in Backend
    BY <1>5 DEF Execute
  <2>3. /\ req'[i].act = req[i].act /\ req'[i].pc \in {"ran", "threw"}
        /\ \A j \in Requests \ {i} : req'[j] = req[j]
    BY <1>0, <2>1 DEF ActionsTypeOK, RequestRecords
  <2>4. Deciding(a)' = Deciding(a)
    BY <2>2, <2>3 DEF Deciding, UnderWay
  <2>5. \A q \in Panels : MayRun(q, a)' <=> MayRun(q, a)
    BY <2>2 DEF MayRun
  <2>6. Dismissed(a)' = Dismissed(a)
    BY <1>0, <2>2 DEF Dismissed
  <2>7. /\ \A c \in Proposals \ {req[i].act} : ran'[c] = ran[c]
        /\ ran'[req[i].act] <= ran[req[i].act] + 1
    BY <1>1, <2>1, CountsRuns
  <2>8. CASE req[i].act # a
    <3>1. Executing(a)' = Executing(a)
      BY <2>2, <2>3, <2>8 DEF Executing
    <3>2. Undecided(a)' = Undecided(a)
      BY <1>0, <2>2, <2>4, <3>1 DEF Undecided
    <3> QED
      BY <1>0, <2>2, <2>4, <2>5, <2>6, <2>7, <2>8, <3>2, OnePieceStays
  <2>9. CASE req[i].act = a
    <3>1. /\ Deciding(a) = {i}
          /\ waiter[a] # "cancelling"
          /\ status[a] # "approved"
          /\ ~Dismissed(a)
          /\ Untouched(a)
      BY <2>2, <2>9, OnlyDecider DEF UnderWay
    <3>2. ~Undecided(a)'
      BY <2>3, <2>9 DEF Undecided, Executing
    <3>3. ran'[a] <= 1 /\ a \notin Once
      BY <2>2, <2>7, <2>9, <3>1 DEF Untouched, Host
    <3> QED
      BY <1>0, <2>2, <2>4, <2>6, <3>1, <3>2, <3>3 DEF OnePiece
  <2> QED
    BY <2>8, <2>9
<1>6. CASE Finish(i)
  <2>1. PICK new \in {"done", "failed"}, answer \in {"recorded", "refused"} :
          /\ status' = [status EXCEPT ![req[i].act] = IF @ = "deleted" THEN @ ELSE new]
          /\ Reply(i, answer)
          /\ ran' = ran
          /\ req[i].pc \in {"ran", "threw"}
    BY <1>6 DEF Finish
  <2>2. status'[a] = status[a] \/ status'[a] \in {"done", "failed"}
    BY <1>0, <2>1
  <2>3. Executing(a)' = Executing(a) \/ ~Undecided(a)'
    <3>1. CASE req[i].act # a
      <4>1. Executing(a)' = Executing(a)
        BY <2>1, <3>1 DEF Reply, Executing, ActionsTypeOK, NoRequest
      <4> QED
        BY <4>1
    <3>2. CASE req[i].act = a
      <4>1. Deciding(a) = {i} /\ waiter[a] # "cancelling"
        BY <2>1, <3>2, OnlyDecider DEF UnderWay
      <4>2. Deciding(a)' = {}
        BY <1>0, <2>1, <4>1, ReplyDecides DEF Answers
      <4>3. status'[a] \in {"done", "failed", "deleted"}
        BY <1>0, <2>1, <3>2
      <4> QED
        BY <1>0, <4>1, <4>2, <4>3 DEF Undecided
    <3> QED
      BY <3>1, <3>2
  <2> QED
    BY <1>2, <2>1, <2>2, <2>3 DEF Answers, Dismissed
<1>7. CASE Complete(i)
  <2>1. PICK new \in {"done", "failed"}, answer \in {"recorded", "refused"} :
          /\ status' = [status EXCEPT ![req[i].act] = IF @ = "deleted" THEN @ ELSE new]
          /\ Reply(i, answer)
          /\ ran' = ran
          /\ req[i].pc = "sent"
    BY <1>7 DEF Complete
  <2>2. status'[a] = status[a] \/ status'[a] \in {"done", "failed"}
    BY <1>0, <2>1
  <2>3. Executing(a)' = Executing(a)
    BY <1>0, <2>1, ReplyDecides DEF Answers
  <2> QED
    BY <1>2, <2>1, <2>2, <2>3 DEF Answers, Dismissed
<1>8. CASE Vanish(i)
  <2>1. UNCHANGED <<status, ran>> /\ Reply(i, "gone") /\ req[i].pc = "sent"
    BY <1>8 DEF Vanish
  <2>2. Executing(a)' = Executing(a)
    BY <1>0, <2>1, ReplyDecides DEF Answers
  <2> QED
    BY <1>2, <2>1, <2>2 DEF Answers, Dismissed
<1>9. CASE DecideReject(i)
  BY <1>4, <1>9 DEF DecideReject, Statuses
<1>10. CASE DecideHost(i)
  BY <1>4, <1>10 DEF DecideHost, Statuses
<1> QED
  BY <1>3, <1>5, <1>6, <1>7, <1>8, <1>9, <1>10 DEF Handle

\* What is left of a decision when only the record, or a waiting tool, moves.
LEMMA OnlyRecordMoves ==
  ASSUME UNCHANGED <<req, panel, ran>>, NEW a \in Proposals
  PROVE  /\ Deciding(a)' = Deciding(a)
         /\ Executing(a)' = Executing(a)
         /\ Untouched(a)' = Untouched(a)
         /\ \A p \in Panels : MayRun(p, a)' = MayRun(p, a)
         /\ Deciding(a) = {} => ~Executing(a)
<1>1. \A p \in Panels : MayRun(p, a)' = MayRun(p, a)
  BY DEF MayRun
<1>2. Untouched(a)' = Untouched(a)
  BY <1>1 DEF Untouched
<1>3. Deciding(a)' = Deciding(a) /\ Executing(a)' = Executing(a)
  BY DEF Deciding, Executing
<1>4. Deciding(a) = {} => ~Executing(a)
  BY DEF Deciding, Executing, UnderWay
<1> QED
  BY <1>1, <1>2, <1>3, <1>4

\* A step that is about another action.
LEMMA OthersStayOnePiece ==
  ASSUME UNCHANGED <<req, panel, ran>>, NEW a \in Proposals, OnePiece(a),
         status'[a] = status[a], waiter'[a] = waiter[a], claims'[a] = claims[a]
  PROVE  OnePiece(a)'
<1>1. Dismissed(a)' = Dismissed(a)
  BY DEF Dismissed
<1>2. Undecided(a)' = Undecided(a)
  BY OnlyRecordMoves DEF Undecided
<1> QED
  BY <1>1, <1>2, OnlyRecordMoves, OnePieceStays

\* A row nobody else decides on is rejected: nothing had happened, nothing will.
LEMMA RejectedUntouched ==
  ASSUME UNCHANGED <<req, panel, ran>>, NEW a \in Proposals, OnePiece(a),
         Deciding(a) = {}, status[a] = "pending" \/ waiter[a] = "cancelling",
         status'[a] \in {"rejected", "deleted"}, waiter'[a] # "cancelling"
  PROVE  OnePiece(a)'
<1>1. Undecided(a)
  BY OnlyRecordMoves DEF Undecided
<1>2. Untouched(a) /\ ran[a] = 0
  BY <1>1 DEF OnePiece, Untouched
<1>3. /\ Deciding(a)' = {}
      /\ Untouched(a)'
      /\ ran'[a] = 0
      /\ \A p \in Panels : ~MayRun(p, a)'
  BY <1>2, OnlyRecordMoves DEF Untouched
<1> QED
  BY <1>3 DEF OnePiece

LEMMA ToolKeepsOnePiece ==
  ASSUME ActionsTypeOK, NEW b \in Proposals, ToolStep(b),
         NEW a \in Proposals, a \notin torn', OnePiece(a)
  PROVE  OnePiece(a)'
<1>0. /\ UNCHANGED <<req, panel, ran>>
      /\ status \in [Proposals -> Statuses] /\ waiter \in [Proposals -> WaiterPcs]
      /\ claims \in [Proposals -> SUBSET {"done", "rejected"}]
  BY DEF ToolStep, Propose, Sees, CancelRead, CancelWrite, DoneTimeout, waiterOnly, ActionsTypeOK
<1>1. CASE a # b
  <2>1. status'[a] = status[a] /\ waiter'[a] = waiter[a] /\ claims'[a] = claims[a]
    BY <1>0, <1>1 DEF ToolStep, Propose, Sees, CancelRead, CancelWrite, DoneTimeout, WaiterTo, Claim
  <2> QED
    BY <1>0, <2>1, OthersStayOnePiece
<1>2. ASSUME a = b, NEW wait \in BOOLEAN, Propose(b, wait) PROVE OnePiece(a)'
  <2>1. /\ status[a] = "none" /\ status'[a] = "pending" /\ claims' = claims
        /\ waiter'[a] = waiter[a] \/ waiter'[a] = "waiting"
    BY <1>0, <1>2 DEF Propose
  <2>2. Dismissed(a)' => Dismissed(a)
    BY <1>0, <2>1 DEF Dismissed
  <2>3. Undecided(a)' => Undecided(a)
    BY <1>0, <2>1, OnlyRecordMoves DEF Undecided
  <2> QED
    BY <1>0, <2>1, <2>2, <2>3, OnlyRecordMoves, OnePieceStays
<1>3. CASE a = b /\ (Sees(b) \/ DoneTimeout(b))
  <2>1. status' = status /\ waiter'[a] = "over"
    BY <1>0, <1>3 DEF Sees, DoneTimeout, WaiterTo
  <2>2. "rejected" \in claims'[a] => "rejected" \in claims[a] \/ status[a] = "rejected"
    BY <1>0, <1>3 DEF Sees, DoneTimeout, Claim
  <2>3. Dismissed(a)' => Dismissed(a)
    BY <1>0, <2>1, <2>2 DEF Dismissed
  <2>4. Undecided(a)' => Undecided(a)
    BY <1>0, <2>1, OnlyRecordMoves DEF Undecided
  <2> QED
    BY <1>0, <2>1, <2>3, <2>4, OnlyRecordMoves, OnePieceStays
<1>4. CASE a = b /\ CancelRead(b)
  <2>1. /\ status' = status /\ claims' = claims
        /\ status[a] = "pending" /\ waiter'[a] = "cancelling"
        /\ Deciding(a) = {} /\ waiter[a] # "cancelling"
    BY <1>0, <1>4 DEF CancelRead, WaiterTo, NotOfOnePiece, Overlaps
  <2>2. Undecided(a)
    BY <1>0, <2>1, OnlyRecordMoves DEF Undecided
  <2>3. Untouched(a) /\ ~Dismissed(a)
    BY <2>1, <2>2 DEF OnePiece
  <2>4. Untouched(a)' /\ ~Dismissed(a)' /\ Deciding(a)' = {} /\ status'[a] = "pending"
    BY <1>0, <2>1, <2>3, OnlyRecordMoves DEF Dismissed
  <2>5. ran'[a] = 0 /\ \A p \in Panels : ~MayRun(p, a)'
    BY <2>4 DEF Untouched
  <2> QED
    BY <2>4, <2>5 DEF OnePiece
<1>5. CASE a = b /\ CancelWrite(b)
  <2>1. /\ waiter[a] = "cancelling" /\ waiter'[a] = "over"
        /\ status'[a] \in {"rejected", "deleted"}
    BY <1>0, <1>5 DEF CancelWrite, WaiterTo
  <2>2. Deciding(a) = {}
    BY <2>1 DEF OnePiece
  <2> QED
    BY <1>0, <2>1, <2>2, RejectedUntouched
<1> QED
  BY <1>1, <1>2, <1>3, <1>4, <1>5 DEF ToolStep

LEMMA ClearKeepsOnePiece ==
  ASSUME ActionsTypeOK, NEW as \in SUBSET Proposals, NEW new \in {"rejected", "deleted"},
         Clear(as, new), NEW a \in Proposals, a \notin torn', OnePiece(a)
  PROVE  OnePiece(a)'
<1>0. /\ UNCHANGED <<req, panel, ran, waiter, claims>>
      /\ status'[a] = IF a \in as THEN new ELSE status[a]
  BY DEF Clear, unmoved
<1>1. CASE a \notin as
  BY <1>0, <1>1, OthersStayOnePiece
<1>2. CASE a \in as
  <2>1. status[a] = "pending" /\ Deciding(a) = {} /\ waiter[a] # "cancelling"
    BY <1>2 DEF Clear, NotOfOnePiece, Overlaps
  <2> QED
    BY <1>0, <1>2, <2>1, RejectedUntouched
<1> QED
  BY <1>1, <1>2

LEMMA RestartKeepsOnePiece ==
  ASSUME ActionsTypeOK, Restart, NEW a \in Proposals, a \notin torn', OnePiece(a)
  PROVE  OnePiece(a)'
<1> DEFINE cut == {i \in Requests : req[i].pc \in UnderWay}
<1>0. /\ UNCHANGED <<status, ran, claims>>
      /\ req' = [i \in Requests |-> IF i \in cut THEN NoRequest ELSE req[i]]
      /\ panel' = AnsweredPanels(cut, "gone")
      /\ waiter'[a] # "cancelling"
  BY DEF Restart
<1>1. Deciding(a)' = {}
  BY <1>0 DEF Deciding, NoRequest, UnderWay
<1>2. ~Executing(a)
  BY DEF Restart, Executing, Deciding, UnderWay
<1>3. Undecided(a)' => Undecided(a)
  BY <1>0, <1>1, <1>2 DEF Undecided
<1>4. \A q \in Panels : /\ panel'[q].pc = panel[q].pc
                        /\ panel'[q].act = panel[q].act
                        /\ panel'[q].answer \in {panel[q].answer, "gone"}
  <2>1. cut \in SUBSET Requests /\ "gone" \in Answers
    BY DEF Answers
  <2> HIDE DEF cut
  <2> QED
    BY <1>0, <2>1, AnsweredPanel
<1>5. \A q \in Panels : MayRun(q, a)' => MayRun(q, a)
  BY <1>4 DEF MayRun
<1>6. Dismissed(a)' => Dismissed(a)
  BY <1>0, <1>4 DEF Dismissed
<1> QED
  BY <1>0, <1>1, <1>3, <1>5, <1>6, OnePieceStays

-----------------------------------------------------------------------------
(* The invariant holds, and what follows from it.                          *)

LEMMA TornStays ==
  ASSUME [ActionsNext]_actionsVars
  PROVE  torn \subseteq torn'
<1>1. ASSUME NEW p \in Panels, PanelStep(p) PROVE torn' = torn
  BY <1>1 DEF PanelStep, Ask, TakeEvent, RefuseEvent, GiveUp, Receive, HostRun
<1>2. ASSUME NEW i \in Requests, Handle(i) PROVE torn \subseteq torn'
  BY <1>2 DEF Handle, Read, DecideReject, DecideHost, DecideWrites, Execute, Finish, Complete,
     Vanish, NotOfOnePiece
<1>3. ASSUME NEW a \in Proposals, ToolStep(a) PROVE torn \subseteq torn'
  BY <1>3 DEF ToolStep, Propose, Sees, CancelRead, CancelWrite, DoneTimeout, NotOfOnePiece
<1>4. ASSUME NEW as, NEW new, Clear(as, new) PROVE torn \subseteq torn'
  BY <1>4 DEF Clear, NotOfOnePiece
<1>5. CASE Restart
  BY <1>5 DEF Restart
<1>6. CASE UNCHANGED actionsVars
  BY <1>6 DEF actionsVars
<1> QED
  BY <1>1, <1>2, <1>3, <1>4, <1>5, <1>6 DEF ActionsNext, ClearBot, ClearChat

LEMMA OnePieceStep ==
  ASSUME ActionsTypeOK, Wellformed, TagsMatch, SuccessIsTrue, [ActionsNext]_actionsVars,
         \A a \in Proposals \ torn : OnePiece(a)
  PROVE  \A a \in Proposals \ torn' : OnePiece(a)'
<1> SUFFICES ASSUME NEW a \in Proposals, a \notin torn' PROVE OnePiece(a)'
  OBVIOUS
<1>0. OnePiece(a)
  BY TornStays
<1>1. ASSUME NEW p \in Panels, PanelStep(p) PROVE OnePiece(a)'
  BY <1>0, <1>1, PanelKeepsOnePiece
<1>2. ASSUME NEW i \in Requests, Handle(i) PROVE OnePiece(a)'
  BY <1>0, <1>2, HandlerKeepsOnePiece
<1>3. ASSUME NEW b \in Proposals, ToolStep(b) PROVE OnePiece(a)'
  BY <1>0, <1>3, ToolKeepsOnePiece
<1>4. CASE ClearBot \/ \E as \in SUBSET Proposals : ClearChat(as)
  BY <1>0, <1>4, ClearKeepsOnePiece DEF ClearBot, ClearChat
<1>5. CASE Restart
  BY <1>0, <1>5, RestartKeepsOnePiece
<1>6. CASE UNCHANGED actionsVars
  BY <1>0, <1>6, OthersStayOnePiece DEF actionsVars
<1> QED
  BY <1>1, <1>2, <1>3, <1>4, <1>5, <1>6 DEF ActionsNext

LEMMA InvariantAtStart == ActionsInit => ActionsInv
<1> SUFFICES ASSUME ActionsInit PROVE ActionsInv
  OBVIOUS
<1> USE ActionsAssumption DEF ActionsInit
<1>0. /\ \A i \in Requests : req[i] = NoRequest
      /\ \A p \in Panels : panel[p] = IdlePanel
  OBVIOUS
<1>1. ActionsTypeOK
  <2>1. NoRequest \in RequestRecords
    BY DEF NoRequest, RequestRecords, Pcs, Decisions
  <2> QED
    BY <2>1, IdlePanelHasType DEF ActionsTypeOK, Statuses, WaiterPcs
<1>2. Wellformed
  BY DEF Wellformed, RequestsFormed, PanelsFormed, WaitersFormed, NoRequest, IdlePanel, Panel,
     UnderWay, Reports
<1>3. TagsMatch
  BY DEF TagsMatch, Waits, IdlePanel, Panel
<1>4. SuccessIsTrue
  BY DEF SuccessIsTrue, DoneMeansRan, RequestsTrue, PanelsTrue, NoRequest, IdlePanel, Panel
<1>5. ASSUME NEW a \in Proposals PROVE OnePiece(a)
  <2>1. Deciding(a) = {}
    BY DEF Deciding, UnderWay, NoRequest
  <2>2. \A p \in Panels : ~MayRun(p, a)
    BY DEF MayRun, IdlePanel, Panel
  <2>3. ~Dismissed(a)
    BY DEF Dismissed, IdlePanel, Panel
  <2> QED
    BY <2>1, <2>2, <2>3 DEF OnePiece, Untouched
<1> QED
  BY <1>1, <1>2, <1>3, <1>4, <1>5 DEF ActionsInv

LEMMA ActionsInvariant == ActionsSpec => []ActionsInv
<1>1. ActionsInv /\ [ActionsNext]_actionsVars => ActionsInv'
  BY TypeStep, FormStep, SuccessStep, OnePieceStep DEF ActionsInv
<1> QED
  BY <1>1, InvariantAtStart, PTL DEF ActionsSpec

\* Types: the rows, requests and panels of the queue keep theirs under every
\* decision, report, loss and restart.
THEOREM ActionsTypeCorrect == ActionsSpec => []ActionsTypeOK
<1>1. ActionsInv => ActionsTypeOK
  BY DEF ActionsInv
<1> QED
  BY <1>1, ActionsInvariant, PTL

\* Truth of success: whatever is lost, late or repeated, `done` in the record
\* and a success told to a user or tool mean that the action was carried out.
THEOREM SuccessIsNoGuess == ActionsSpec => []DoneMeansRan
<1>1. ActionsInv => DoneMeansRan
  BY DEF ActionsInv, SuccessIsTrue
<1> QED
  BY <1>1, ActionsInvariant, PTL

\* At most once: a backend action, a copy or a new module is not repeated,
\* unless two decisions on it overlapped or the process ended within one.
THEOREM RunsAtMostOnce == ActionsSpec => []RunsOnce
<1>1. ActionsInv => RunsOnce
  BY DEF ActionsInv, OnePiece, RunsOnce, Proposals, Host
<1> QED
  BY <1>1, ActionsInvariant, PTL

\* A rejection, or a start timeout's "nothing was written", is final: under the
\* same condition the action was not and is not carried out.
THEOREM RejectionsHold == ActionsSpec => []RejectedNeverRan
<1>1. ActionsInv => RejectedNeverRan
  BY DEF ActionsInv, OnePiece, Dismissed, Untouched, RejectedNeverRan
<1> QED
  BY <1>1, ActionsInvariant, PTL

\* Types, and success that is never made up.
THEOREM ActionsAreSound == ActionsSpec => []ActionsSound
BY ActionsTypeCorrect, SuccessIsNoGuess, PTL DEF ActionsSound

\* A decision counts once, an approval as a rejection.
THEOREM DecisionsCountOnce == ActionsSpec => []DecidedOnce
BY RunsAtMostOnce, RejectionsHold, PTL DEF DecidedOnce

-----------------------------------------------------------------------------
(***************************************************************************)
(* The report of a host action.  While one has been carried out and its    *)
(* row does not say so, somebody will still say it, as long as no more     *)
(* than one answer or backend is lost: a panel that waits for its report   *)
(* and has a second try, or, once the loss has happened, a report that is  *)
(* on its way and can no longer be lost.                                   *)
(***************************************************************************)
Losses == lost["answer"] + lost["backend"]
ReportOf(i, a) == req[i].act = a /\ req[i].what \in Reports /\ req[i].pc = "sent"
Reporting(p, a) ==
  /\ panel[p].pc = "waiting" /\ panel[p].act = a
  /\ panel[p].what \in Reports /\ ~panel[p].again
  /\ \/ panel[p].answer = "gone" /\ Losses > 0
     \/ panel[p].answer = "none" /\ \E i \in Requests : Waits(p, i) /\ ReportOf(i, a)
Assured(a) ==
  \/ \E p \in Panels : Reporting(p, a)
  \/ Losses = 1 /\ \E i \in Requests : ReportOf(i, a)
Owed(a) == ran[a] > 0 /\ status[a] \notin {"done", "failed"} /\ Losses <= 1
ReportComes == \A a \in Host \ torn : Owed(a) => Assured(a)

\* What was carried out and is not recorded was approved, in one piece.
LEMMA OwedIsApproved ==
  ASSUME ActionsTypeOK, Wellformed, NEW a \in Host, OnePiece(a),
         ran[a] > 0, status[a] \notin {"done", "failed"}
  PROVE  status[a] = "approved"
<1>1. ~Untouched(a)
  BY DEF Untouched
<1>2. ~Dismissed(a)
  BY <1>1 DEF OnePiece
<1>3. ~Executing(a)
  BY ActionsAssumption DEF Executing, Wellformed, RequestsFormed
<1>4. status[a] \notin {"none", "pending"}
  BY <1>1, <1>3 DEF OnePiece, Undecided
<1> QED
  BY <1>2, <1>4 DEF Dismissed, ActionsTypeOK, Statuses, Proposals, Host

\* Losses are counted, never forgotten.
LEMMA LossesGrow ==
  ASSUME ActionsTypeOK, [ActionsNext]_actionsVars
  PROVE  /\ Losses \in Nat /\ Losses' \in Nat
         /\ Losses' >= Losses
         /\ (\E p \in Panels : GiveUp(p) /\ panel[p].answer # "gone") => Losses' = Losses + 1
         /\ (\E i \in Requests : Vanish(i)) \/ Restart => Losses' = Losses + 1
<1>0. lost \in [{"answer", "backend"} -> Nat]
  BY DEF ActionsTypeOK
<1>1. ASSUME NEW k \in {"answer", "backend"}, lost' = [lost EXCEPT ![k] = @ + 1]
      PROVE  Losses' = Losses + 1
  BY <1>0, <1>1 DEF Losses
<1>2. \/ lost' = lost
      \/ lost' = [lost EXCEPT !["answer"] = @ + 1]
      \/ lost' = [lost EXCEPT !["backend"] = @ + 1]
  <2>1. ASSUME NEW p \in Panels, PanelStep(p)
        PROVE  lost' = lost \/ lost' = [lost EXCEPT !["answer"] = @ + 1]
    BY <2>1 DEF PanelStep, Ask, TakeEvent, RefuseEvent, GiveUp, Receive, HostRun
  <2>2. ASSUME NEW i \in Requests, Handle(i)
        PROVE  lost' = lost \/ lost' = [lost EXCEPT !["answer"] = @ + 1]
    BY <2>2 DEF Handle, Read, DecideReject, DecideHost, DecideWrites, Execute, Finish, Complete, Vanish
  <2>3. ASSUME NEW a \in Proposals, ToolStep(a) PROVE lost' = lost
    BY <2>3 DEF ToolStep, Propose, Sees, CancelRead, CancelWrite, DoneTimeout, waiterOnly
  <2>4. ASSUME NEW as, NEW new, Clear(as, new) PROVE lost' = lost
    BY <2>4 DEF Clear
  <2>5. CASE Restart
    BY <2>5 DEF Restart
  <2>6. CASE UNCHANGED actionsVars
    BY <2>6 DEF actionsVars
  <2> QED
    BY <2>1, <2>2, <2>3, <2>4, <2>5, <2>6 DEF ActionsNext, ClearBot, ClearChat
<1>3. Losses \in Nat
  BY <1>0 DEF Losses
<1>4. Losses' \in Nat /\ Losses' >= Losses
  <2>1. CASE lost' = lost
    BY <1>3, <2>1 DEF Losses
  <2> QED
    BY <1>1, <1>2, <1>3, <2>1
<1>5. ASSUME NEW p \in Panels, GiveUp(p), panel[p].answer # "gone" PROVE Losses' = Losses + 1
  BY <1>1, <1>5 DEF GiveUp
<1>6. ASSUME NEW i \in Requests, Vanish(i) PROVE Losses' = Losses + 1
  BY <1>1, <1>6 DEF Vanish
<1>7. Restart => Losses' = Losses + 1
  BY <1>1 DEF Restart
<1> QED
  BY <1>3, <1>4, <1>5, <1>6, <1>7

\* A step that is not the plugin carrying the action out finds it as it was.
LEMMA OwedBefore ==
  ASSUME ActionsInv, [ActionsNext]_actionsVars, NEW a \in Host \ torn', Owed(a)',
         ~\E p \in Panels : HostRun(p) /\ panel[p].act = a
  PROVE  a \notin torn /\ Owed(a) /\ status[a] = "approved"
<1> USE DEF ActionsInv
<1>0. a \in Proposals /\ a \notin Backend /\ a \notin torn
  BY TornStays, ActionsAssumption DEF Host, Proposals
<1>1. ran'[a] = ran[a]
  <2>1. ASSUME NEW p \in Panels, PanelStep(p) PROVE ran'[a] = ran[a]
    <3>1. CASE HostRun(p)
      <4>1. panel[p].act \in Proposals /\ panel[p].act # a
        BY <3>1 DEF HostRun, Wellformed, PanelsFormed
      <4> QED
        BY <1>0, <3>1, <4>1, CountsRuns DEF HostRun
    <3>2. CASE ~HostRun(p)
      BY <2>1, <3>2 DEF PanelStep, Ask, TakeEvent, RefuseEvent, GiveUp, Receive
    <3> QED
      BY <3>1, <3>2
  <2>2. ASSUME NEW i \in Requests, Handle(i) PROVE ran'[a] = ran[a]
    <3>1. CASE Execute(i)
      BY <1>0, <3>1, CountsRuns, ActionsAssumption DEF Execute, Proposals
    <3>2. CASE ~Execute(i)
      BY <2>2, <3>2 DEF Handle, Read, DecideReject, DecideHost, DecideWrites, Finish, Complete, Vanish
    <3> QED
      BY <3>1, <3>2
  <2>3. ASSUME NEW b \in Proposals, ToolStep(b) PROVE ran' = ran
    BY <2>3 DEF ToolStep, Propose, Sees, CancelRead, CancelWrite, DoneTimeout, waiterOnly
  <2>4. ASSUME NEW as, NEW new, Clear(as, new) PROVE ran' = ran
    BY <2>4 DEF Clear
  <2>5. CASE Restart
    BY <2>5 DEF Restart
  <2>6. CASE UNCHANGED actionsVars
    BY <2>6 DEF actionsVars
  <2> QED
    BY <2>1, <2>2, <2>3, <2>4, <2>5, <2>6 DEF ActionsNext, ClearBot, ClearChat
<1>2. OnePiece(a)
  BY <1>0
<1>3. OnePiece(a)' /\ ActionsTypeOK' /\ Wellformed'
  BY <1>0, TypeStep, FormStep, OnePieceStep
<1>4. ran[a] > 0 /\ ran'[a] > 0 /\ status'[a] \notin {"done", "failed"}
  BY <1>1 DEF Owed
<1>5. status'[a] = "approved"
  <2>1. ~Untouched(a)'
    BY <1>4 DEF Untouched
  <2>2. ~Dismissed(a)'
    BY <1>3, <2>1 DEF OnePiece
  <2>3. ~Executing(a)'
    BY <1>0, <1>3 DEF Executing, Wellformed, RequestsFormed
  <2>4. status'[a] \notin {"none", "pending"}
    BY <1>3, <2>1, <2>3 DEF OnePiece, Undecided
  <2> QED
    BY <1>0, <1>3, <1>4, <2>2, <2>4 DEF Dismissed, ActionsTypeOK, Statuses
<1>6. status[a] \notin {"done", "failed"}
  <2> SUFFICES ASSUME status[a] \in {"done", "failed"} PROVE FALSE
    OBVIOUS
  <2>0. status \in [Proposals -> Statuses]
    BY DEF ActionsTypeOK
  <2>1. ASSUME NEW i \in Requests, DecideHost(i), req[i].act = a PROVE FALSE
    <3>1. req[i].pc = "read"
      BY <2>1 DEF DecideHost, DecideWrites
    <3>2. Untouched(a)
      BY <1>0, <1>2, <2>1, <3>1, OnlyDecider DEF UnderWay
    <3> QED
      BY <1>4, <3>2 DEF Untouched
  <2>2. ASSUME NEW i \in Requests, Handle(i) PROVE FALSE
    <3>1. DecideHost(i) /\ req[i].act = a
      BY <1>0, <1>5, <2>0, <2>2 DEF Handle, Read, DecideReject, DecideHost, DecideWrites, Execute,
         Finish, Complete, Vanish
    <3> QED
      BY <2>1, <3>1
  <2>3. ASSUME NEW p \in Panels, PanelStep(p) PROVE status' = status
    BY <2>3 DEF PanelStep, Ask, TakeEvent, RefuseEvent, GiveUp, Receive, HostRun
  <2>4. ASSUME NEW b \in Proposals, ToolStep(b) PROVE FALSE
    BY <1>0, <1>5, <2>0, <2>4 DEF ToolStep, Propose, Sees, CancelRead, CancelWrite, DoneTimeout
  <2>5. ASSUME NEW as, NEW new \in {"rejected", "deleted"}, Clear(as, new) PROVE FALSE
    BY <1>0, <1>5, <2>5 DEF Clear
  <2>6. Restart \/ UNCHANGED actionsVars => status' = status
    BY DEF Restart, actionsVars
  <2> QED
    BY <1>5, <2>2, <2>3, <2>4, <2>5, <2>6 DEF ActionsNext, ClearBot, ClearChat
<1>7. status[a] = "approved"
  BY <1>2, <1>4, <1>6, OwedIsApproved
<1>8. Losses <= 1
  <2>1. Losses' <= 1
    BY DEF Owed
  <2>2. Losses \in Nat /\ Losses' \in Nat /\ Losses' >= Losses
    BY LossesGrow
  <2> HIDE DEF Losses
  <2> QED
    BY <2>1, <2>2
<1> QED
  BY <1>0, <1>4, <1>6, <1>7, <1>8 DEF Owed

\* A panel that reports, and has not been answered, can only give up - and then
\* it reports again, or its report was on its way.
LEMMA PanelKeepsReport ==
  ASSUME ActionsInv, NEW p \in Panels, PanelStep(p), NEW a \in Host,
         Owed(a)', Assured(a)
  PROVE  Assured(a)'
<1> USE DEF ActionsInv
<1>0. /\ sent \in Nat /\ panel \in [Panels -> PanelRecords] /\ MaxRequests \in Nat
      /\ Losses \in Nat /\ Losses' \in Nat /\ Losses' >= Losses /\ Losses' <= 1
  <2>1. Losses \in Nat /\ Losses' \in Nat /\ Losses' >= Losses
    BY LossesGrow DEF ActionsNext
  <2> HIDE DEF Losses
  <2> QED
    BY <2>1, ActionsAssumption DEF ActionsTypeOK, Owed
<1> HIDE DEF Losses
\* Reports on their way stay on it, and the other panels stay as they are.
<1>1. \A i \in Requests : req[i] # NoRequest => req'[i] = req[i]
  <2>1. ASSUME NEW b \in Proposals, NEW what \in Decisions \cup Reports,
               what \in Reports => b \in Host, SendRequest(b, what)
        PROVE  \A i \in Requests : req[i] # NoRequest => req'[i] = req[i]
    BY <2>1, SendingIsFresh
  <2>2. CASE Sending(p)
    BY <2>1, <2>2 DEF Sending, Sends
  <2>3. CASE Failing(p)
    BY <2>1, <2>3 DEF Failing, Reports, Host, Proposals
  <2> QED
    BY <2>2, <2>3, PanelShapes DEF Resting
<1>2. \A i \in Requests : ReportOf(i, a) => ReportOf(i, a)'
  BY <1>1 DEF ReportOf, NoRequest
<1>3. \A q \in Panels \ {p} : panel'[q] = panel[q]
  BY <1>0, PanelShapes DEF Sending, Sends, Failing, Resting, PutPanel
<1>4. ASSUME NEW q \in Panels \ {p}, Reporting(q, a) PROVE Reporting(q, a)'
  <2>1. \A i \in Requests : Waits(q, i) => Waits(q, i)'
    BY <1>3 DEF Waits
  <2> QED
    BY <1>0, <1>2, <1>3, <1>4, <2>1 DEF Reporting
<1>5. CASE Losses = 1 /\ \E i \in Requests : ReportOf(i, a)
  <2>1. Losses' = 1
    BY <1>0, <1>5
  <2> QED
    BY <1>2, <1>5, <2>1 DEF Assured
<1>6. CASE Reporting(p, a)
  <2>1. GiveUp(p)
    BY <1>6 DEF Reporting, PanelStep, Ask, TakeEvent, RefuseEvent, Receive, HostRun,
       GetsHost, GetsSuccess, GetsRejection, GetsFailure, SuccessRefused
  <2>2. CASE panel[p].answer = "gone"
    <3>1. Losses' = 1
      BY <1>0, <1>6, <2>2 DEF Reporting
    <3>2. Retry(p, panel[p].what, TRUE)
      BY <1>6, <2>1 DEF GiveUp, NoAnswer, TriesAgain, Reporting
    <3>3. SendRequest(a, panel[p].what) /\ panel[p].what \in Reports
      BY <1>6, <3>2 DEF Retry, Reporting
    <3>4. sent + 1 \in Requests /\ req'[sent + 1] = Request(a, panel[p].what)
      BY <3>3, SendingIsFresh DEF Host, Proposals
    <3>5. PICK n \in Requests : n = sent + 1
      BY <3>4
    <3>6. ReportOf(n, a)'
      BY <3>3, <3>4, <3>5 DEF ReportOf, Request
    <3> QED
      BY <3>1, <3>6 DEF Assured
  <2>3. CASE panel[p].answer # "gone"
    <3>1. PICK i \in Requests : ReportOf(i, a)
      BY <1>6, <2>3 DEF Reporting
    <3>2. Losses' = Losses + 1
      BY <2>1, <2>3, LossesGrow DEF ActionsNext, PanelStep
    <3>3. Losses' = 1
      BY <1>0, <3>2
    <3> QED
      BY <1>2, <3>1, <3>3 DEF Assured
  <2> QED
    BY <2>2, <2>3
<1> QED
  BY <1>4, <1>5, <1>6 DEF Assured

\* A handler takes a report off its way only by recording it or by losing it.
LEMMA HandlerKeepsReport ==
  ASSUME ActionsInv, NEW i \in Requests, Handle(i), NEW a \in Host,
         status[a] = "approved", Owed(a)', Assured(a)
  PROVE  Assured(a)'
<1> USE DEF ActionsInv
<1>0. Losses \in Nat /\ Losses' \in Nat /\ Losses' >= Losses
  BY LossesGrow DEF ActionsNext
<1>1. Losses' <= 1 /\ status'[a] \notin {"done", "failed"}
  BY DEF Owed
<1>2. Vanish(i) => Losses' = Losses + 1
  BY LossesGrow DEF ActionsNext, Handle
<1> HIDE DEF Losses
<1>3. /\ req[i].pc # "over"
      /\ \A j \in Requests \ {i} : req'[j] = req[j]
      /\ \A q \in Panels : ~Waits(q, i) => panel'[q] = panel[q]
  BY DEF Handle, Read, DecideReject, DecideHost, DecideWrites, Execute, Finish, Complete, Vanish,
     Reply, AnsweredPanels, Waits, UnderWay, ActionsTypeOK
<1>4. \A j \in Requests \ {i} : ReportOf(j, a) => ReportOf(j, a)'
  BY <1>3 DEF ReportOf
<1>5. CASE ReportOf(i, a)
  <2>1. ~Complete(i)
    BY <1>1, <1>5 DEF Complete, ReportOf, ActionsTypeOK, Proposals, Host
  <2>2. Vanish(i)
    BY <1>5, <2>1 DEF Handle, ReportOf, Read, DecideReject, DecideHost, DecideWrites, Execute,
       Finish, Decisions, Reports
  <2>3. Losses = 0 /\ Losses' = 1
    BY <1>0, <1>1, <1>2, <2>2
  <2>4. PICK p \in Panels : Reporting(p, a)
    BY <2>3 DEF Assured
  <2>5. PICK j \in Requests : Waits(p, j) /\ ReportOf(j, a)
    BY <2>3, <2>4 DEF Reporting
  <2>6. CASE j # i
    BY <1>4, <2>3, <2>5, <2>6 DEF Assured
  <2>7. CASE j = i
    <3>1. panel'[p] = [panel[p] EXCEPT !.answer = "gone"]
      BY <2>2, <2>5, <2>7 DEF Vanish, Reply, AnsweredPanels, Waits
    <3>2. /\ panel'[p].pc = panel[p].pc /\ panel'[p].act = panel[p].act
          /\ panel'[p].what = panel[p].what /\ panel'[p].again = panel[p].again
          /\ panel'[p].answer = "gone"
      BY <3>1 DEF ActionsTypeOK, PanelRecords
    <3>3. Losses' > 0
      BY <2>3
    <3> QED
      BY <2>4, <3>2, <3>3 DEF Reporting, Assured
  <2> QED
    BY <2>6, <2>7
<1>6. CASE ~ReportOf(i, a)
  <2>1. ASSUME NEW p \in Panels, Reporting(p, a) PROVE Reporting(p, a)'
    <3>1. ~Waits(p, i)
      <4> SUFFICES ASSUME Waits(p, i) PROVE FALSE
        OBVIOUS
      <4>1. req[i].act = a /\ req[i].what \in Reports
        BY <1>3, <2>1 DEF TagsMatch, Reporting
      <4>2. req[i].pc = "sent"
        BY <1>3, <4>1 DEF Wellformed, RequestsFormed, ActionsTypeOK, RequestRecords, Pcs, UnderWay,
           Reports, Decisions
      <4> QED
        BY <1>6, <4>1, <4>2 DEF ReportOf
    <3>2. panel'[p] = panel[p]
      BY <1>3, <3>1
    <3>3. \A j \in Requests : Waits(p, j) => Waits(p, j)'
      BY <3>2 DEF Waits
    <3>4. Losses > 0 => Losses' > 0
      BY <1>0
    <3>5. ASSUME NEW j \in Requests, Waits(p, j), ReportOf(j, a) PROVE ReportOf(j, a)'
      BY <1>4, <1>6, <3>5
    <3> QED
      BY <2>1, <3>2, <3>3, <3>4, <3>5 DEF Reporting
  <2>2. CASE Losses = 1 /\ \E j \in Requests : ReportOf(j, a)
    <3>1. Losses' = 1
      BY <1>0, <1>1, <2>2
    <3> QED
      BY <1>4, <1>6, <2>2, <3>1 DEF Assured
  <2> QED
    BY <2>1, <2>2 DEF Assured
<1> QED
  BY <1>5, <1>6

\* An end of the backend cuts off no report: handlers of reports are of one piece.
LEMMA RestartKeepsReport ==
  ASSUME ActionsInv, Restart, NEW a \in Host, Owed(a)', Assured(a)
  PROVE  Assured(a)'
<1>0. Losses \in Nat /\ Losses' = Losses + 1
  BY LossesGrow DEF ActionsNext, ActionsInv
<1>1. Losses' <= 1
  BY DEF Owed
<1> HIDE DEF Losses
<1>2. Losses = 0 /\ Losses' = 1
  BY <1>0, <1>1
<1>3. PICK j \in Requests : ReportOf(j, a)
  BY <1>2 DEF Assured, Reporting
<1>4. ReportOf(j, a)'
  BY <1>3 DEF Restart, ReportOf, UnderWay
<1> QED
  BY <1>2, <1>4 DEF Assured

LEMMA ReportStep ==
  ASSUME ActionsInv, ReportComes, [ActionsNext]_actionsVars
  PROVE  ReportComes'
<1> SUFFICES ASSUME NEW a \in Host \ torn', Owed(a)' PROVE Assured(a)'
  BY DEF ReportComes
<1>1. ASSUME NEW p \in Panels, HostRun(p), panel[p].act = a PROVE Assured(a)'
  <2>1. PICK o \in HostOutcomes :
          /\ SendRequest(a, IF o.ok THEN "ok" ELSE "failed")
          /\ PutPanel(p, Panel("waiting", a, IF o.ok THEN "ok" ELSE "failed",
                               sent + 1, FALSE, panel[p].wanted))
    BY <1>1 DEF HostRun
  <2> DEFINE what == IF o.ok THEN "ok" ELSE "failed"
  <2>2. what \in Reports /\ a \in Proposals
    BY DEF Reports, Host, Proposals
  <2> HIDE DEF what
  <2>3. sent + 1 \in Requests /\ req'[sent + 1] = Request(a, what)
    BY <2>1, <2>2, SendingIsFresh DEF ActionsInv, what
  <2>4. PICK n \in Requests : n = sent + 1
    BY <2>3
  <2>5. panel'[p] = Panel("waiting", a, what, n, FALSE, panel[p].wanted)
    BY <2>1, <2>4 DEF PutPanel, ActionsInv, ActionsTypeOK, what
  <2>6. Waits(p, n)' /\ ReportOf(n, a)'
    BY <2>2, <2>3, <2>4, <2>5 DEF Waits, ReportOf, Request, Panel
  <2>7. Reporting(p, a)'
    BY <2>2, <2>5, <2>6 DEF Reporting, Panel
  <2> QED
    BY <2>7 DEF Assured
<1>2. CASE ~\E p \in Panels : HostRun(p) /\ panel[p].act = a
  <2>1. a \notin torn /\ Owed(a) /\ status[a] = "approved"
    BY <1>2, OwedBefore
  <2>2. Assured(a)
    BY <2>1 DEF ReportComes
  <2>3. ASSUME NEW p \in Panels, PanelStep(p) PROVE Assured(a)'
    BY <2>2, <2>3, PanelKeepsReport
  <2>4. ASSUME NEW i \in Requests, Handle(i) PROVE Assured(a)'
    BY <2>1, <2>2, <2>4, HandlerKeepsReport
  <2>5. CASE Restart
    BY <2>2, <2>5, RestartKeepsReport
  <2>6. CASE UNCHANGED <<req, panel, lost>>
    BY <2>2, <2>6 DEF Assured, Reporting, ReportOf, Waits, Losses
  <2>7. ASSUME NEW b \in Proposals, ToolStep(b) PROVE UNCHANGED <<req, panel, lost>>
    BY <2>7 DEF ToolStep, Propose, Sees, CancelRead, CancelWrite, DoneTimeout, waiterOnly
  <2>8. ASSUME NEW as, NEW new, Clear(as, new) PROVE UNCHANGED <<req, panel, lost>>
    BY <2>8 DEF Clear
  <2> QED
    BY <2>3, <2>4, <2>5, <2>6, <2>7, <2>8 DEF ActionsNext, ClearBot, ClearChat, actionsVars
<1> QED
  BY <1>1, <1>2

\* The report survives one loss: a host action that was carried out, and about
\* which nothing is under way any more, stands as done or failed, whichever
\* answer was lost or whenever the backend ended (reportOutcome).
THEOREM ReportsArrive == ActionsSpec => []ReportSurvivesOneLoss
<1>1. ActionsInit => ReportComes
  BY DEF ActionsInit, ReportComes, Owed, Host, Proposals
<1>2. ActionsInv /\ ReportComes /\ [ActionsNext]_actionsVars => ReportComes'
  BY ReportStep
<1>3. ReportComes => ReportSurvivesOneLoss
  <2> SUFFICES ASSUME ReportComes, NEW a \in Host \ torn, Settled(a), ran[a] > 0, Losses <= 1
               PROVE  status[a] \in {"done", "failed"}
    BY DEF ReportSurvivesOneLoss, Losses
  <2>1. ~Assured(a)
    BY DEF Assured, Reporting, ReportOf, Settled
  <2> QED
    BY <2>1 DEF ReportComes, Owed
<1> QED
  BY <1>1, <1>2, <1>3, ActionsInvariant, PTL DEF ActionsSpec

=============================================================================
