---------------------------- MODULE AgentProofs ----------------------------
(***************************************************************************)
(* Proofs about what the agent does in the background: Turns, for any      *)
(* number of turns, prompts and events, then Jobs, for any number of       *)
(* batches, images, plans, approvals and ends of the backend.              *)
(*                                                                         *)
(* While a conversation is orderly the turn that lives is the one in       *)
(* _ACTIVE, one turn at most waits, and it waits for that one: so a wait   *)
(* ends with nobody left running, and the turn that begins reads a history *)
(* that is not about to change.  One turn at most is between its look at   *)
(* the chat and _ACTIVE, and then none lives.                              *)
(***************************************************************************)
EXTENDS Turns, Jobs, FiniteSetTheorems, TLAPS


-----------------------------------------------------------------------------
(* The invariant.  First what holds whatever happened.                     *)

ActiveLives == active # 0 => active \in Live

PromptsFormed ==
  \A r \in Prompts :
    /\ prompt[r].pc = "none" => ~prompt[r].open /\ ~prompt[r].standing
    /\ prompt[r].pc # "none" => prompt[r].turn \in Turns
    /\ prompt[r].standing => prompt[r].kind # "studio_batch"
    /\ \A q \in Prompts : q < r /\ prompt[r].pc # "none" => prompt[q].pc # "none"

WaitsForOne == \A i \in Waiting : turn[i].prev # 0

\* No coroutine comes between the two statements of the turn that reads its chat.
ReadsAlone ==
  /\ \A i, j \in Reading : i = j
  /\ Reading # {} => active = 0

\* Then what an orderly conversation keeps.
OnlyActiveLives == Live \subseteq {active}
OneWaits == \A i, j \in Waiting : i = j
WaitsForActive == \A i \in Waiting : active = 0 \/ active = turn[i].prev
HistoryIsCurrent == \A i \in Live : turn[i].base = hist.heard /\ turn[i].since = hist.seq
EndedHeard == \A i \in Turns : turn[i].pc = "over" => i \in hist.heard
Stays == \A i \in Live : ~turn[i].crossed => turn[i].chat = place /\ moving = 0
NoneWaitsForReader == Reading # {} => Waiting = {}

Asked(r, j, k) == prompt[r].turn = j /\ prompt[r].kind = k /\ prompt[r].pc # "none"
OpenIsLive == \A r \in Prompts : prompt[r].open => prompt[r].turn \in Live
AlwaysAsked ==
  \A k \in Kinds, j \in Turns : <<k, j>> \in always =>
    j \in Live /\ \E q \in Prompts : Asked(q, j, k)
StandingAsked ==
  \A r \in Prompts : prompt[r].standing =>
    \E q \in Prompts : q < r /\ Asked(q, prompt[r].turn, prompt[r].kind)

OrderlyTurns ==
  OnlyActiveLives /\ OneWaits /\ WaitsForActive /\ HistoryIsCurrent /\ EndedHeard /\ Stays
  /\ NoneWaitsForReader
OrderlyPrompts == OpenIsLive /\ AlwaysAsked /\ StandingAsked

TurnsInv ==
  /\ TurnsTypeOK
  /\ ActiveLives /\ PromptsEndWithTurn /\ PromptsFormed /\ WaitsForOne /\ ReadsAlone
  /\ orderly => OrderlyTurns /\ OrderlyPrompts

-----------------------------------------------------------------------------
(* Types.                                                                  *)

LEMMA NoneTyped ==
  ASSUME TurnsTypeOK
  PROVE  /\ NoTurn \in TurnRecords /\ Sent \in TurnRecords
         /\ [Sent EXCEPT !.pc = "reading"] \in TurnRecords
         /\ \A pc \in TurnPcs : Gone(pc) \in TurnRecords
         /\ \A r \in TurnRecords : Begun(r) \in TurnRecords
         /\ Tell(turn) \in [Turns -> TurnRecords]
BY ZenonT(40) DEF TurnsTypeOK, NoTurn, Sent, Gone, Begun, Crossed, Tell, TurnRecords, TurnPcs, Turns

LEMMA PromptsTyped ==
  ASSUME TurnsTypeOK
  PROVE  /\ \A p \in PromptRecords : Closed(p) \in PromptRecords
         /\ EndPrompts => prompt' \in [Prompts -> PromptRecords]
         /\ \A i \in Turns : CutTools(i) => prompt' \in [Prompts -> PromptRecords]
<1>1. ASSUME NEW p \in PromptRecords PROVE Closed(p) \in PromptRecords
  BY DEF Closed, PromptRecords
<1>2. ASSUME EndPrompts PROVE prompt' \in [Prompts -> PromptRecords]
  BY <1>1, <1>2 DEF EndPrompts, TurnsTypeOK
<1>3. ASSUME NEW i \in Turns, CutTools(i) PROVE prompt' \in [Prompts -> PromptRecords]
  <2>1. \A p \in PromptRecords : [p EXCEPT !.pc = "cut"] \in PromptRecords
    BY DEF PromptRecords, PromptPcs
  <2> QED BY <1>3, <2>1 DEF CutTools, TurnsTypeOK
<1> QED BY <1>1, <1>2, <1>3

LEMMA BatchEdits ==
  ASSUME NEW b \in BatchRecords
  PROVE  /\ \A v \in BatchStates : [b EXCEPT !.job = v] \in BatchRecords
         /\ \A v \in ThreadPcs : [b EXCEPT !.thread = v] \in BatchRecords
         /\ \A v \in BOOLEAN : [b EXCEPT !.missed = v] \in BatchRecords
         /\ \A v \in BOOLEAN : [b EXCEPT !.waits = v] \in BatchRecords
BY DEF BatchRecords

LEMMA BatchesTyped ==
  ASSUME TurnsTypeOK
  PROVE  /\ CancelNoted => batch' \in [Turns -> BatchRecords]
         /\ \A i \in Turns : BeginRest(i) => /\ active' \in {0} \cup Turns
                                             /\ stopped' \in BOOLEAN
                                             /\ noted' \in SUBSET Turns
                                             /\ batch' \in [Turns -> BatchRecords]
<1>1. \A j \in Turns : [batch[j] EXCEPT !.job = "over"] \in BatchRecords
                       /\ [batch[j] EXCEPT !.missed = TRUE] \in BatchRecords
  BY BatchEdits DEF TurnsTypeOK, BatchStates
<1>2. ASSUME CancelNoted PROVE batch' \in [Turns -> BatchRecords]
  BY <1>1, <1>2 DEF CancelNoted, TurnsTypeOK
<1>3. ASSUME NEW i \in Turns, BeginRest(i)
      PROVE  batch' \in [Turns -> BatchRecords]
  BY <1>1, <1>3 DEF BeginRest, TurnsTypeOK
<1> QED BY <1>2, <1>3 DEF BeginRest

LEMMA PromptEdits ==
  ASSUME NEW p \in PromptRecords
  PROVE  /\ \A v \in PromptPcs : /\ [p EXCEPT !.pc = v] \in PromptRecords
                                /\ [Closed(p) EXCEPT !.pc = v] \in PromptRecords
         /\ \A d, b \in BOOLEAN : [p EXCEPT !.decided = d, !.allow = b] \in PromptRecords
BY DEF PromptRecords, Closed

LEMMA EventsTyped ==
  ASSUME TurnsTypeOK
  PROVE  /\ Count => events' \in Nat
         /\ NoneWaited => events' \in Nat /\ orderly' \in BOOLEAN
<1>1. Count => events' \in Nat
  BY DEF TurnsTypeOK, Count
<1>2. CASE Waiting = {} /\ UNCHANGED <<orderly, events>>
  BY <1>1, <1>2 DEF TurnsTypeOK
<1>3. CASE Waiting # {} /\ orderly' = FALSE /\ Count
  BY <1>1, <1>3
<1> QED BY <1>1, <1>2, <1>3 DEF NoneWaited

LEMMA TurnsTypeStep == TurnsTypeOK /\ PromptsFormed /\ [TurnsNext]_turnsVars => TurnsTypeOK'
<1> SUFFICES ASSUME TurnsTypeOK, PromptsFormed, [TurnsNext]_turnsVars PROVE TurnsTypeOK'
  OBVIOUS
<1> USE EventsTyped
<1>0. ASSUME NEW i \in Turns, ReadChat(i) PROVE TurnsTypeOK'
  <2>1. turn' \in [Turns -> TurnRecords]
    BY <1>0, NoneTyped DEF ReadChat, TurnsTypeOK
  <2> QED BY <1>0, <2>1 DEF ReadChat, TurnsTypeOK
<1>1. ASSUME NEW i \in Turns, Begin(i) PROVE TurnsTypeOK'
  <2>1. turn' \in [Turns -> TurnRecords]
    BY <1>1, NoneTyped DEF Begin, TurnsTypeOK
  <2> QED BY <1>1, <2>1, BatchesTyped DEF Begin, TurnsTypeOK
<1>2. ASSUME NEW i \in Turns, SendOver(i) PROVE TurnsTypeOK'
  <2>1. [Sent EXCEPT !.pc = "waiting", !.prev = active] \in TurnRecords
    BY DEF TurnsTypeOK, Sent, NoTurn, TurnRecords, TurnPcs
  <2>2. turn' \in [Turns -> TurnRecords]
    BY <1>2, <2>1, NoneTyped DEF SendOver
  <2> QED BY <1>2, <2>2, BatchesTyped DEF SendOver, TurnsTypeOK
<1>3. ASSUME NEW i \in Turns, Resume(i) PROVE TurnsTypeOK'
  <2>1. turn' \in [Turns -> TurnRecords]
    BY <1>3, NoneTyped DEF Resume, TurnsTypeOK
  <2> QED BY <1>3, <2>1, BatchesTyped DEF Resume, TurnsTypeOK
<1>4. ASSUME NEW i \in Turns, TimeOut(i) PROVE TurnsTypeOK'
  <2>1. turn' \in [Turns -> TurnRecords]
    BY <1>4, NoneTyped DEF TimeOut, TurnsTypeOK
  <2> QED BY <1>4, <2>1, BatchesTyped DEF TimeOut, TurnsTypeOK
<1>5. ASSUME NEW i \in Turns, Finish(i) PROVE TurnsTypeOK'
  <2>1. hist' \in [seq : Nat, heard : SUBSET Turns]
    BY <1>5 DEF Finish, TurnsTypeOK, TurnRecords
  <2>2. Gone("over") \in TurnRecords
    BY NoneTyped DEF TurnPcs
  <2> QED BY <1>5, <2>1, <2>2, PromptsTyped DEF Finish, EndTurn, TurnsTypeOK
<1>6. ASSUME NEW i \in Turns, Break(i) PROVE TurnsTypeOK'
  <2>1. turn' \in [Turns -> TurnRecords]
    BY <1>6 DEF Break, TurnsTypeOK, TurnRecords, TurnPcs
  <2> QED BY <1>6, <2>1, PromptsTyped DEF Break, TurnsTypeOK
<1>7. ASSUME NEW i \in Turns, Close(i) PROVE TurnsTypeOK'
  <2>1. hist' \in [seq : Nat, heard : SUBSET Turns]
    BY <1>7 DEF Close, SavePartial, TurnsTypeOK, TurnRecords
  <2>2. Gone("over") \in TurnRecords
    BY NoneTyped DEF TurnPcs
  <2> QED BY <1>7, <2>1, <2>2, PromptsTyped DEF Close, EndTurn, TurnsTypeOK
<1>8. ASSUME NEW r \in Prompts, PromptSteps(r) PROVE TurnsTypeOK'
  <2>0. prompt[r] \in PromptRecords
    BY DEF TurnsTypeOK
  <2>1. ASSUME NEW i \in Turns, NEW k \in Kinds, Permit(i, r, k) PROVE TurnsTypeOK'
    <3>1. prompt' \in [Prompts -> PromptRecords]
      <4>1. Standing(k) \in BOOLEAN
        BY DEF Standing
      <4> DEFINE new == [NoPrompt EXCEPT !.turn = i, !.kind = k,
                           !.pc = IF Standing(k) THEN "ran" ELSE "waiting",
                           !.open = TRUE, !.decided = Standing(k), !.allow = Standing(k),
                           !.standing = Standing(k)]
      <4>2. new \in PromptRecords
        BY <4>1 DEF NoPrompt, PromptRecords, PromptPcs
      <4>3. prompt' = [prompt EXCEPT ![r] = new]
        BY <2>1 DEF Permit
      <4> HIDE DEF new
      <4> QED BY <4>2, <4>3 DEF TurnsTypeOK
    <3> QED BY <2>1, <3>1 DEF Permit, TurnsTypeOK
  <2>2. ASSUME NEW allow \in BOOLEAN, NEW forTurn \in BOOLEAN, Decide(r, allow, forTurn)
        PROVE  TurnsTypeOK'
    <3>1. prompt[r].turn \in Turns /\ prompt[r].kind \in Kinds
      BY <2>0, <2>2 DEF Decide, PromptsFormed, PromptRecords
    <3>2. prompt' \in [Prompts -> PromptRecords]
      <4>1. prompt' = [prompt EXCEPT ![r] = [prompt[r] EXCEPT !.decided = TRUE, !.allow = allow]]
        BY <2>2 DEF Decide, TurnsTypeOK
      <4>2. [prompt[r] EXCEPT !.decided = TRUE, !.allow = allow] \in PromptRecords
        BY <2>0, PromptEdits
      <4> QED BY <4>1, <4>2 DEF TurnsTypeOK
    <3>3. always' \in SUBSET (Kinds \X Turns)
      BY <2>2, <3>1 DEF Decide, TurnsTypeOK
    <3> QED BY <2>2, <3>2, <3>3 DEF Decide, TurnsTypeOK
  <2>3. CASE Poll(r) \/ Expire(r)
    <3>1. \A v \in {"ran", "refused"} :
            [prompt EXCEPT ![r] = [Closed(prompt[r]) EXCEPT !.pc = v]] \in [Prompts -> PromptRecords]
      BY <2>0, PromptEdits DEF PromptPcs, TurnsTypeOK
    <3>2. PICK v \in {"ran", "refused"} :
            prompt' = [prompt EXCEPT ![r] = [Closed(prompt[r]) EXCEPT !.pc = v]]
      BY <2>3 DEF Poll, Expire, TurnsTypeOK
    <3>3. prompt' \in [Prompts -> PromptRecords]
      BY <3>1, <3>2
    <3> QED BY <2>3, <3>3 DEF Poll, Expire, TurnsTypeOK
  <2> QED BY <1>8, <2>1, <2>2, <2>3 DEF PromptSteps
<1>9. ASSUME NEW i \in Turns, BatchSteps(i) PROVE TurnsTypeOK'
  <2>1. ASSUME NEW b \in BatchRecords, PutBatch(i, b)
        PROVE  /\ batch' \in [Turns -> BatchRecords]
               /\ noted' \in SUBSET Turns /\ orderly' \in BOOLEAN /\ events' \in Nat => TurnsTypeOK'
    BY <2>1 DEF PutBatch, TurnsTypeOK
  <2>2. /\ batch[i] \in BatchRecords
        /\ turn[i].told \in BOOLEAN
    BY DEF TurnsTypeOK, TurnRecords
  <2>3. PICK b : PutBatch(i, b) /\ b \in BatchRecords
    <3>1. ASSUME NEW waits \in BOOLEAN, CheckStop(i, waits)
          PROVE  \E b \in BatchRecords : PutBatch(i, b)
      <4>1. [batch[i] EXCEPT !.thread = "checked", !.waits = waits] \in BatchRecords
        BY <2>2 DEF BatchRecords, ThreadPcs
      <4> QED BY <3>1, <4>1 DEF CheckStop
    <3>2. CASE StartJob(i)
      <4>1. /\ [batch[i] EXCEPT !.thread = "started", !.job = "live"] \in BatchRecords
            /\ [batch[i] EXCEPT !.thread = "gone"] \in BatchRecords
        BY <2>2 DEF BatchRecords, ThreadPcs, BatchStates
      <4> QED BY <3>2, <4>1 DEF StartJob
    <3>3. CASE NoteJob(i)
      <4>1. [batch[i] EXCEPT !.thread = IF batch[i].waits THEN "polls" ELSE "gone",
                             !.missed = turn[i].told] \in BatchRecords
        BY <2>2 DEF BatchRecords, ThreadPcs
      <4> QED BY <3>3, <4>1 DEF NoteJob
    <3>4. CASE ThreadHears(i)
      <4>1. [batch[i] EXCEPT !.thread = "gone", !.job = IF @ = "live" THEN "over" ELSE @] \in BatchRecords
        BY <2>2 DEF BatchRecords, ThreadPcs, BatchStates
      <4> QED BY <3>4, <4>1 DEF ThreadHears
    <3>5. CASE ThreadReturns(i)
      <4>1. [batch[i] EXCEPT !.thread = "gone"] \in BatchRecords
        BY <2>2 DEF BatchRecords, ThreadPcs
      <4> QED BY <3>5, <4>1 DEF ThreadReturns
    <3>6. CASE JobEnds(i)
      <4>1. [batch[i] EXCEPT !.job = "over"] \in BatchRecords
        BY <2>2 DEF BatchRecords, BatchStates
      <4> QED BY <3>6, <4>1 DEF JobEnds
    <3> QED BY <1>9, <3>1, <3>2, <3>3, <3>4, <3>5, <3>6 DEF BatchSteps
  <2>4. noted' \in SUBSET Turns /\ orderly' \in BOOLEAN /\ events' \in Nat
    BY <1>9
    DEF BatchSteps, CheckStop, StartJob, NoteJob, ThreadHears, ThreadReturns, JobEnds, TurnsTypeOK
  <2> QED BY <2>1, <2>3, <2>4
<1>10. CASE Stop
  BY <1>10, NoneTyped DEF Stop, TurnsTypeOK
<1>11. CASE StopJobs
  BY <1>11, BatchesTyped DEF StopJobs, TurnsTypeOK
<1>12. CASE MoveLook \/ MoveUpdate
  BY <1>12 DEF MoveLook, MoveUpdate, TurnsTypeOK
<1>13. CASE Restart
  <2>1. turn' \in [Turns -> TurnRecords]
    BY <1>13, NoneTyped DEF Restart, TurnsTypeOK, TurnPcs
  <2>2. prompt' \in [Prompts -> PromptRecords]
    <3>1. \A r \in Prompts :
            [Closed(prompt[r]) EXCEPT !.pc = IF @ = "waiting" THEN "cut" ELSE @] \in PromptRecords
      BY ZenonT(40) DEF Closed, TurnsTypeOK, PromptRecords, PromptPcs
    <3> QED BY <1>13, <3>1 DEF Restart
  <2>3. batch' \in [Turns -> BatchRecords]
    <3>1. \A j \in Turns :
            [batch[j] EXCEPT !.thread = "gone", !.job = IF @ = "live" THEN "over" ELSE @] \in BatchRecords
      BY DEF TurnsTypeOK, BatchRecords, BatchStates, ThreadPcs
    <3> QED BY <1>13, <3>1 DEF Restart
  <2> QED BY <1>13, <2>1, <2>2, <2>3 DEF Restart, TurnsTypeOK
<1>14. CASE UNCHANGED turnsVars
  BY <1>14 DEF turnsVars, TurnsTypeOK
<1> QED
  BY <1>0, <1>1, <1>2, <1>3, <1>4, <1>5, <1>6, <1>7, <1>8, <1>9, <1>10, <1>11, <1>12, <1>13, <1>14
  DEF TurnsNext, TurnSteps, Fail, HearStop

-----------------------------------------------------------------------------
(* Frames: what keeps the parts of the invariant.                          *)

\* Nothing of the prompts changes and no turn ends.
LEMMA PromptsKept ==
  ASSUME UNCHANGED <<prompt, always>>, Live \subseteq Live', TurnsInv
  PROVE  /\ PromptsFormed'
         /\ PromptsEndWithTurn'
         /\ OrderlyPrompts => OrderlyPrompts'
<1>1. PromptsFormed'
  BY DEF PromptsFormed, TurnsInv
<1>2. PromptsEndWithTurn'
  BY DEF PromptsEndWithTurn, TurnsInv
<1>3. ASSUME OrderlyPrompts PROVE OrderlyPrompts'
  <2>1. OpenIsLive'
    BY <1>3 DEF OrderlyPrompts, OpenIsLive
  <2>2. AlwaysAsked'
    BY <1>3 DEF OrderlyPrompts, AlwaysAsked, Asked
  <2>3. StandingAsked'
    BY <1>3 DEF OrderlyPrompts, StandingAsked, Asked
  <2> QED BY <2>1, <2>2, <2>3 DEF OrderlyPrompts
<1> QED BY <1>1, <1>2, <1>3

\* The prompts lose their answers, nothing else of them.
Answerless ==
  /\ always' = {}
  /\ \A r \in Prompts :
       /\ prompt'[r].open = FALSE
       /\ prompt'[r].turn = prompt[r].turn
       /\ prompt'[r].kind = prompt[r].kind
       /\ prompt'[r].standing = prompt[r].standing
       /\ prompt'[r].pc = "none" <=> prompt[r].pc = "none"

LEMMA PromptsEnd ==
  ASSUME Answerless, TurnsInv
  PROVE  /\ PromptsFormed'
         /\ PromptsEndWithTurn'
         /\ OrderlyPrompts => OrderlyPrompts'
<1>1. PromptsFormed'
  BY DEF PromptsFormed, TurnsInv, Answerless
<1>2. PromptsEndWithTurn'
  BY DEF PromptsEndWithTurn, Answerless
<1>3. ASSUME OrderlyPrompts PROVE OrderlyPrompts'
  <2>1. OpenIsLive'
    BY DEF OpenIsLive, Answerless
  <2>2. AlwaysAsked'
    BY DEF AlwaysAsked, Answerless
  <2>3. StandingAsked'
    BY <1>3 DEF OrderlyPrompts, StandingAsked, Asked, Answerless, Prompts
  <2> QED BY <2>1, <2>2, <2>3 DEF OrderlyPrompts
<1> QED BY <1>1, <1>2, <1>3

\* The turns keep all that the invariant looks at.
SameTurns ==
  \A j \in Turns :
    /\ turn'[j].pc \in {"running", "closing"} <=> turn[j].pc \in {"running", "closing"}
    /\ turn'[j].pc = "waiting" <=> turn[j].pc = "waiting"
    /\ turn'[j].pc = "reading" <=> turn[j].pc = "reading"
    /\ turn'[j].pc = "over" <=> turn[j].pc = "over"
    /\ turn'[j].prev = turn[j].prev
    /\ turn'[j].base = turn[j].base
    /\ turn'[j].since = turn[j].since
    /\ turn'[j].chat = turn[j].chat
    /\ turn'[j].crossed = turn[j].crossed

LEMMA TurnsKept ==
  ASSUME SameTurns, UNCHANGED <<active, hist, place, moving>>, TurnsInv
  PROVE  /\ Live' = Live
         /\ ActiveLives' /\ WaitsForOne' /\ ReadsAlone'
         /\ OrderlyTurns => OrderlyTurns'
<1>1. Live' = Live /\ Waiting' = Waiting /\ Reading' = Reading
  BY DEF SameTurns, Live, Waiting, Reading
<1>2. ActiveLives'
  BY <1>1 DEF ActiveLives, TurnsInv
<1>3. WaitsForOne'
  BY <1>1 DEF WaitsForOne, TurnsInv, SameTurns, Waiting
<1>5. ReadsAlone'
  BY <1>1 DEF ReadsAlone, TurnsInv
<1>4. ASSUME OrderlyTurns PROVE OrderlyTurns'
  <2>1. OnlyActiveLives' /\ OneWaits' /\ NoneWaitsForReader'
    BY <1>1, <1>4 DEF OrderlyTurns, OnlyActiveLives, OneWaits, NoneWaitsForReader
  <2>2. WaitsForActive'
    BY <1>1, <1>4 DEF OrderlyTurns, WaitsForActive, SameTurns, Waiting
  <2>3. HistoryIsCurrent' /\ Stays'
    BY <1>1, <1>4 DEF OrderlyTurns, HistoryIsCurrent, Stays, SameTurns, Live
  <2>4. EndedHeard'
    BY <1>4 DEF OrderlyTurns, EndedHeard, SameTurns
  <2> QED BY <2>1, <2>2, <2>3, <2>4 DEF OrderlyTurns
<1> QED BY <1>1, <1>2, <1>3, <1>4, <1>5

-----------------------------------------------------------------------------
(* The steps.                                                              *)

\* A turn begins; when the conversation is orderly it is alone.
LEMMA BeginStep ==
  ASSUME TurnsInv, TurnsTypeOK', NEW i \in Turns, NEW r \in TurnRecords,
         turn' = [turn EXCEPT ![i] = Begun(r)], BeginRest(i),
         UNCHANGED <<hist, place, moving, prompt, always>>,
         i \notin Live, Reading \subseteq {i},
         orderly' => orderly /\ Live = {} /\ Waiting \subseteq {i}
  PROVE  TurnsInv'
<1>1. /\ turn'[i].pc = "running" /\ turn'[i].base = hist.heard /\ turn'[i].since = hist.seq
      /\ turn'[i].chat = r.chat /\ turn'[i].crossed = Crossed(r)
  BY DEF Begun, TurnsInv, TurnsTypeOK, TurnRecords
<1>2. \A j \in Turns : j # i => turn'[j] = turn[j]
  BY DEF TurnsInv, TurnsTypeOK
<1>3. Live' = Live \cup {i} /\ Waiting' = Waiting \ {i} /\ Reading' = {}
  BY <1>1, <1>2 DEF Live, Waiting, Reading
<1>4. active' = i
  BY DEF BeginRest
<1>5. ActiveLives'
  BY <1>3, <1>4 DEF ActiveLives
<1>6. PromptsFormed' /\ PromptsEndWithTurn' /\ (OrderlyPrompts => OrderlyPrompts')
  BY <1>3, PromptsKept
<1>7. WaitsForOne'
  BY <1>2, <1>3 DEF WaitsForOne, TurnsInv, Waiting
<1>9. ReadsAlone'
  BY <1>3 DEF ReadsAlone
<1>8. ASSUME orderly' PROVE OrderlyTurns' /\ OrderlyPrompts'
  <2>1. orderly /\ Live' = {i} /\ Waiting' = {}
    BY <1>3, <1>8
  <2>2. OrderlyTurns /\ OrderlyPrompts
    BY <2>1 DEF TurnsInv
  <2>3. OnlyActiveLives' /\ OneWaits' /\ WaitsForActive'
    BY <1>4, <2>1 DEF OnlyActiveLives, OneWaits, WaitsForActive
  <2>4. HistoryIsCurrent' /\ Stays'
    BY <1>1, <2>1 DEF HistoryIsCurrent, Stays, Crossed
  <2>5. EndedHeard' /\ NoneWaitsForReader'
    BY <1>1, <1>2, <1>3, <2>2 DEF EndedHeard, OrderlyTurns, NoneWaitsForReader
  <2> QED BY <1>6, <2>2, <2>3, <2>4, <2>5 DEF OrderlyTurns
<1> QED BY <1>5, <1>6, <1>7, <1>8, <1>9 DEF TurnsInv

\* A turn reads its chat: nobody runs, and in an orderly conversation nobody waits.
LEMMA ReadChatStep ==
  ASSUME TurnsInv, TurnsTypeOK', NEW i \in Turns, ReadChat(i)
  PROVE  TurnsInv'
<1>1. /\ turn[i].pc = "none" /\ Reading = {} /\ active = 0
      /\ turn' = [turn EXCEPT ![i] = [Sent EXCEPT !.pc = "reading"]]
      /\ UNCHANGED <<active, hist, place, moving, prompt, always>>
  BY DEF ReadChat, IsNext, LoopFree
<1>2. turn'[i].pc = "reading" /\ \A j \in Turns : j # i => turn'[j] = turn[j]
  BY <1>1 DEF TurnsInv, TurnsTypeOK, Sent, NoTurn
<1>3. Live' = Live /\ Waiting' = Waiting /\ Reading' = {i}
  BY <1>1, <1>2 DEF Live, Waiting, Reading
<1>4. PromptsFormed' /\ PromptsEndWithTurn' /\ (OrderlyPrompts => OrderlyPrompts')
  BY <1>1, <1>3, PromptsKept
<1>5. ActiveLives' /\ WaitsForOne' /\ ReadsAlone'
  BY <1>1, <1>2, <1>3 DEF ActiveLives, WaitsForOne, ReadsAlone, TurnsInv, Waiting
<1>6. ASSUME orderly' PROVE OrderlyTurns' /\ OrderlyPrompts'
  <2>1. orderly /\ Waiting = {}
    BY <1>6 DEF ReadChat, NoneWaited
  <2>2. OrderlyTurns /\ OrderlyPrompts
    BY <2>1 DEF TurnsInv
  <2>3. Live' = {} /\ Waiting' = {}
    BY <1>1, <1>3, <2>1, <2>2 DEF OrderlyTurns, OnlyActiveLives, Live, Turns
  <2>4. /\ OnlyActiveLives' /\ OneWaits' /\ WaitsForActive' /\ HistoryIsCurrent' /\ Stays'
        /\ NoneWaitsForReader'
    BY <2>3 DEF OnlyActiveLives, OneWaits, WaitsForActive, HistoryIsCurrent, Stays,
                NoneWaitsForReader
  <2>5. EndedHeard'
    BY <1>1, <1>2, <2>2 DEF OrderlyTurns, EndedHeard
  <2> QED BY <1>4, <2>2, <2>4, <2>5 DEF OrderlyTurns
<1> QED BY <1>4, <1>5, <1>6 DEF TurnsInv

\* The three ways a turn begins.
LEMMA BeginSteps ==
  ASSUME TurnsInv, TurnsTypeOK', NEW i \in Turns, Begin(i) \/ Resume(i) \/ TimeOut(i)
  PROVE  TurnsInv'
<1>1. CASE Begin(i)
  <2>1. turn[i] \in TurnRecords /\ i \notin Live
    BY <1>1 DEF Begin, Reading, Live, TurnsInv, TurnsTypeOK
  <2>2. Reading \subseteq {i} /\ active = 0
    BY <1>1 DEF Begin, TurnsInv, ReadsAlone
  <2>3. orderly' => orderly /\ Live = {} /\ Waiting \subseteq {i}
    <3> SUFFICES ASSUME orderly' PROVE orderly /\ Live = {} /\ Waiting \subseteq {i}
      OBVIOUS
    <3>1. orderly /\ i \in Reading
      BY <1>1 DEF Begin
    <3>2. Live = {}
      BY <2>2, <3>1 DEF TurnsInv, OrderlyTurns, OnlyActiveLives, Live, Turns
    <3>3. Waiting = {}
      BY <3>1 DEF TurnsInv, OrderlyTurns, NoneWaitsForReader
    <3> QED BY <3>1, <3>2, <3>3
  <2>4. /\ turn' = [turn EXCEPT ![i] = Begun(turn[i])] /\ BeginRest(i)
        /\ UNCHANGED <<hist, place, moving, prompt, always>>
    BY <1>1 DEF Begin
  <2> QED BY <2>1, <2>2, <2>3, <2>4, BeginStep
<1>2. CASE Resume(i) \/ TimeOut(i)
  <2>1. turn[i] \in TurnRecords /\ turn[i].pc = "waiting" /\ i \notin Live
        /\ Reading \subseteq {i}
    BY <1>2 DEF Resume, TimeOut, LoopFree, TurnsInv, TurnsTypeOK, Waiting, Live
  <2>2. orderly' => orderly /\ Live = {} /\ Waiting \subseteq {i}
    <3> SUFFICES ASSUME orderly' PROVE orderly /\ Live = {} /\ Waiting \subseteq {i}
      OBVIOUS
    <3>1. i \in Waiting /\ turn[i].prev \notin Live /\ orderly
      BY <1>2 DEF Resume, TimeOut
    <3>2. active = 0
      BY <3>1 DEF TurnsInv, OrderlyTurns, WaitsForActive, ActiveLives
    <3>3. Live = {}
      BY <3>1, <3>2 DEF TurnsInv, OrderlyTurns, OnlyActiveLives, Live, Turns
    <3>4. Waiting \subseteq {i}
      BY <3>1 DEF TurnsInv, OrderlyTurns, OneWaits
    <3> QED BY <3>1, <3>3, <3>4
  <2>3. /\ turn' = [turn EXCEPT ![i] = Begun(turn[i])] /\ BeginRest(i)
        /\ UNCHANGED <<hist, place, moving, prompt, always>>
    BY <1>2 DEF Resume, TimeOut
  <2> QED BY <2>1, <2>2, <2>3, BeginStep
<1> QED BY <1>1, <1>2

\* A prompt that waits: the turns before it are as they were.
LEMMA SendOverStep ==
  ASSUME TurnsInv, TurnsTypeOK', NEW i \in Turns, SendOver(i)
  PROVE  TurnsInv'
<1>1. turn'[i].pc = "waiting" /\ turn'[i].prev = active /\ active # 0
  <2>1. DOMAIN Tell(turn) = Turns
    BY DEF Tell
  <2>2. turn'[i] = [Sent EXCEPT !.pc = "waiting", !.prev = active]
    BY <2>1 DEF SendOver
  <2> QED BY <2>2, ZenonT(40) DEF SendOver, Sent, NoTurn
<1>2. turn[i].pc = "none" /\ Reading = {}
  BY DEF SendOver, IsNext, LoopFree
<1>3. ASSUME NEW j \in Turns, j # i
      PROVE  /\ turn'[j].pc = turn[j].pc /\ turn'[j].prev = turn[j].prev
             /\ turn'[j].base = turn[j].base /\ turn'[j].since = turn[j].since
             /\ turn'[j].chat = turn[j].chat /\ turn'[j].crossed = turn[j].crossed
  <2>1. turn'[j] = Tell(turn)[j]
    BY <1>3 DEF SendOver, Tell
  <2> QED BY <2>1 DEF Tell, TurnsInv, TurnsTypeOK, TurnRecords
<1>4. Live' = Live /\ Waiting' = Waiting \cup {i} /\ Reading' = {}
  BY <1>1, <1>2, <1>3 DEF Live, Waiting, Reading
<1>5. UNCHANGED <<active, hist, place, moving, prompt, always>>
  BY DEF SendOver
<1>6. PromptsFormed' /\ PromptsEndWithTurn' /\ (OrderlyPrompts => OrderlyPrompts')
  BY <1>4, <1>5, PromptsKept
<1>7. ActiveLives' /\ WaitsForOne' /\ ReadsAlone'
  BY <1>1, <1>3, <1>4, <1>5 DEF ActiveLives, WaitsForOne, ReadsAlone, TurnsInv, Waiting
<1>8. ASSUME orderly' PROVE OrderlyTurns' /\ OrderlyPrompts'
  <2>1. orderly /\ Waiting = {}
    BY <1>8 DEF SendOver, NoneWaited
  <2>2. OrderlyTurns /\ OrderlyPrompts
    BY <2>1 DEF TurnsInv
  <2>3. OnlyActiveLives' /\ OneWaits' /\ WaitsForActive'
    BY <1>1, <1>4, <1>5, <2>1, <2>2
    DEF OrderlyTurns, OnlyActiveLives, OneWaits, WaitsForActive
  <2>4. HistoryIsCurrent' /\ Stays'
    BY <1>2, <1>3, <1>4, <1>5, <2>2 DEF OrderlyTurns, HistoryIsCurrent, Stays, Live
  <2>5. EndedHeard' /\ NoneWaitsForReader'
    BY <1>1, <1>3, <1>4, <1>5, <2>2 DEF OrderlyTurns, EndedHeard, NoneWaitsForReader
  <2> QED BY <1>6, <2>2, <2>3, <2>4, <2>5 DEF OrderlyTurns
<1> QED BY <1>6, <1>7, <1>8 DEF TurnsInv

\* A turn ends: an orderly conversation is left without one.
LEMMA EndStep ==
  ASSUME TurnsInv, TurnsTypeOK', NEW i \in Turns, Finish(i) \/ Close(i)
  PROVE  TurnsInv'
<1>1. i \in Live /\ turn' = [turn EXCEPT ![i] = Gone("over")] /\ EndPrompts /\ EndTurn(i)
      /\ Reading = {} /\ UNCHANGED <<place, moving, orderly>>
  BY DEF Finish, Close, Live, LoopFree
<1>2. turn'[i].pc = "over" /\ \A j \in Turns : j # i => turn'[j] = turn[j]
  BY <1>1 DEF TurnsInv, TurnsTypeOK, Gone, NoTurn
<1>3. Live' = Live \ {i} /\ Waiting' = Waiting /\ Reading' = {}
  BY <1>1, <1>2 DEF Live, Waiting, Reading
<1>4. Answerless
  <2>1. ASSUME NEW p \in PromptRecords
        PROVE  /\ Closed(p).open = FALSE /\ Closed(p).turn = p.turn /\ Closed(p).kind = p.kind
               /\ Closed(p).standing = p.standing /\ Closed(p).pc = p.pc
    BY DEF Closed, PromptRecords
  <2>2. \A r \in Prompts : prompt[r] \in PromptRecords /\ prompt'[r] = Closed(prompt[r])
    BY <1>1 DEF EndPrompts, TurnsInv, TurnsTypeOK
  <2>3. ASSUME NEW r \in Prompts
        PROVE  /\ prompt'[r].open = FALSE /\ prompt'[r].turn = prompt[r].turn
               /\ prompt'[r].kind = prompt[r].kind /\ prompt'[r].standing = prompt[r].standing
               /\ prompt'[r].pc = prompt[r].pc
    <3>1. prompt[r] \in PromptRecords /\ prompt'[r] = Closed(prompt[r])
      BY <2>2
    <3> QED BY <2>1, <3>1
  <2>4. always' = {}
    BY <1>1 DEF EndTurn
  <2> QED BY <2>3, <2>4 DEF Answerless
<1>5. PromptsFormed' /\ PromptsEndWithTurn' /\ (OrderlyPrompts => OrderlyPrompts')
  BY <1>4, PromptsEnd
<1>6. ActiveLives'
  BY <1>1, <1>3 DEF ActiveLives, EndTurn, TurnsInv
<1>7. WaitsForOne' /\ ReadsAlone'
  BY <1>2, <1>3 DEF WaitsForOne, ReadsAlone, TurnsInv, Waiting
<1>8. ASSUME orderly' PROVE OrderlyTurns' /\ OrderlyPrompts'
  <2>1. OrderlyTurns /\ OrderlyPrompts
    BY <1>1, <1>8 DEF TurnsInv
  <2>2. active = i /\ Live = {i}
    BY <1>1, <2>1 DEF OrderlyTurns, OnlyActiveLives
  <2>3. active' = 0 /\ Live' = {}
    BY <1>1, <1>3, <2>2 DEF EndTurn
  <2>4. OnlyActiveLives' /\ OneWaits' /\ WaitsForActive'
    BY <1>3, <2>1, <2>3 DEF OrderlyTurns, OnlyActiveLives, OneWaits, WaitsForActive
  <2>5. HistoryIsCurrent' /\ Stays'
    BY <2>3 DEF HistoryIsCurrent, Stays
  <2>6. hist'.heard = hist.heard \cup {i}
    <3>1. turn[i].base = hist.heard /\ turn[i].since = hist.seq
      BY <2>1, <2>2 DEF OrderlyTurns, HistoryIsCurrent
    <3> QED BY <3>1 DEF Finish, Close, SavePartial
  <2>7. EndedHeard' /\ NoneWaitsForReader'
    BY <1>2, <1>3, <2>1, <2>6 DEF OrderlyTurns, EndedHeard, NoneWaitsForReader
  <2> QED BY <1>5, <2>1, <2>4, <2>5, <2>7 DEF OrderlyTurns
<1> QED BY <1>5, <1>6, <1>7, <1>8 DEF TurnsInv

\* The tools of a turn are cut off.
LEMMA BreakStep ==
  ASSUME TurnsInv, TurnsTypeOK', NEW i \in Turns, turn[i].pc = "running", Break(i)
  PROVE  TurnsInv'
<1>1. SameTurns
  BY DEF Break, SameTurns, TurnsInv, TurnsTypeOK, TurnRecords
<1>2. Live' = Live /\ ActiveLives' /\ WaitsForOne' /\ ReadsAlone' /\ (OrderlyTurns => OrderlyTurns')
  BY <1>1, TurnsKept DEF Break
<1>3. ASSUME NEW r \in Prompts
      PROVE  /\ prompt'[r].open = prompt[r].open
             /\ prompt'[r].turn = prompt[r].turn
             /\ prompt'[r].kind = prompt[r].kind
             /\ prompt'[r].standing = prompt[r].standing
             /\ prompt'[r].pc = "none" <=> prompt[r].pc = "none"
  BY DEF Break, CutTools, TurnsInv, TurnsTypeOK, PromptRecords
<1>4. UNCHANGED <<always, orderly>>
  BY DEF Break
<1>5. PromptsFormed'
  BY <1>3 DEF PromptsFormed, TurnsInv
<1>6. PromptsEndWithTurn'
  BY <1>2, <1>3, <1>4 DEF PromptsEndWithTurn, TurnsInv
<1>7. ASSUME OrderlyPrompts PROVE OrderlyPrompts'
  <2>1. OpenIsLive'
    BY <1>2, <1>3, <1>7 DEF OrderlyPrompts, OpenIsLive
  <2>2. AlwaysAsked'
    BY <1>2, <1>3, <1>4, <1>7 DEF OrderlyPrompts, AlwaysAsked, Asked
  <2>3. StandingAsked'
    BY <1>3, <1>7 DEF OrderlyPrompts, StandingAsked, Asked, Prompts
  <2> QED BY <2>1, <2>2, <2>3 DEF OrderlyPrompts
<1> QED BY <1>2, <1>4, <1>5, <1>6, <1>7 DEF TurnsInv

\* The tool of a running turn asks, or stands allowed.
LEMMA PermitStep ==
  ASSUME TurnsInv, TurnsTypeOK', NEW i \in Turns, NEW r \in Prompts, NEW k \in Kinds,
         Permit(i, r, k)
  PROVE  TurnsInv'
<1>1. /\ turn[i].pc = "running" /\ prompt[r].pc = "none"
      /\ \A q \in Prompts : q < r => prompt[q].pc # "none"
      /\ UNCHANGED <<turn, active, hist, place, moving, always, orderly>>
  BY DEF Permit
<1>2. /\ prompt'[r].turn = i /\ prompt'[r].kind = k /\ prompt'[r].pc # "none"
      /\ prompt'[r].standing = Standing(k)
  BY DEF Permit, NoPrompt, TurnsInv, TurnsTypeOK
<1>3. \A q \in Prompts : q # r => prompt'[q] = prompt[q]
  BY DEF Permit, TurnsInv, TurnsTypeOK
<1>4. SameTurns
  BY <1>1 DEF SameTurns
<1>5. Live' = Live /\ ActiveLives' /\ WaitsForOne' /\ ReadsAlone' /\ (OrderlyTurns => OrderlyTurns')
  BY <1>1, <1>4, TurnsKept
<1>6. i \in Live
  BY <1>1 DEF Live
<1>7. \A q \in Prompts : prompt[q].pc # "none" => q < r
  BY <1>1 DEF TurnsInv, PromptsFormed, Prompts
<1>8. PromptsFormed'
  <2>1. ASSUME NEW s \in Prompts
        PROVE  /\ prompt'[s].pc = "none" => ~prompt'[s].open /\ ~prompt'[s].standing
               /\ prompt'[s].pc # "none" => prompt'[s].turn \in Turns
               /\ prompt'[s].standing => prompt'[s].kind # "studio_batch"
    <3>1. CASE s = r
      BY <1>2, <3>1 DEF Standing
    <3>2. CASE s # r
      BY <1>3, <3>2 DEF TurnsInv, PromptsFormed
    <3> QED BY <3>1, <3>2
  <2>2. ASSUME NEW s \in Prompts, NEW q \in Prompts, q < s, prompt'[s].pc # "none"
        PROVE  prompt'[q].pc # "none"
    <3>1. CASE s = r
      BY <1>1, <1>3, <2>2, <3>1 DEF Prompts
    <3>2. CASE s # r
      BY <1>2, <1>3, <2>2, <3>2 DEF TurnsInv, PromptsFormed
    <3> QED BY <3>1, <3>2
  <2> QED BY <2>1, <2>2 DEF PromptsFormed
<1>9. PromptsEndWithTurn'
  BY <1>5, <1>6 DEF PromptsEndWithTurn
<1>10. ASSUME orderly, OrderlyTurns, OrderlyPrompts PROVE OrderlyPrompts'
  <2>1. OpenIsLive'
    BY <1>2, <1>3, <1>5, <1>6, <1>10 DEF OrderlyPrompts, OpenIsLive
  <2>2. ASSUME NEW q \in Prompts, NEW j \in Turns, NEW l \in Kinds, Asked(q, j, l)
        PROVE  Asked(q, j, l)' /\ q < r
    BY <1>1, <1>3, <1>7, <2>2 DEF Asked
  <2>3. AlwaysAsked'
    BY <1>1, <1>5, <1>10, <2>2 DEF OrderlyPrompts, AlwaysAsked
  <2>4. StandingAsked'
    <3>1. ASSUME NEW s \in Prompts, prompt'[s].standing, s # r
          PROVE  \E q \in Prompts : q < s /\ Asked(q, prompt[s].turn, prompt[s].kind)'
      <4>1. prompt[s].standing /\ prompt[s].turn \in Turns /\ prompt[s].kind \in Kinds
        BY <1>3, <3>1 DEF TurnsInv, PromptsFormed, TurnsTypeOK, PromptRecords
      <4>2. PICK q \in Prompts : q < s /\ Asked(q, prompt[s].turn, prompt[s].kind)
        BY <1>10, <4>1 DEF OrderlyPrompts, StandingAsked
      <4>3. prompt'[q] = prompt[q] /\ prompt'[s] = prompt[s]
        BY <1>1, <1>3, <3>1, <4>2 DEF Asked
      <4> QED BY <4>2, <4>3 DEF Asked
    <3>2. ASSUME prompt'[r].standing
          PROVE  \E q \in Prompts : q < r /\ Asked(q, i, k)'
      <4>1. PICK j \in Turns : <<k, j>> \in always
        BY <1>2, <3>2 DEF Standing
      <4>2. j \in Live /\ \E q \in Prompts : Asked(q, j, k)
        BY <1>10, <4>1 DEF OrderlyPrompts, AlwaysAsked
      <4>3. j = i
        BY <1>6, <1>10, <4>2 DEF OrderlyTurns, OnlyActiveLives
      <4> QED BY <2>2, <4>2, <4>3
    <3>3. ASSUME NEW s \in Prompts, prompt'[s].standing
          PROVE  \E q \in Prompts : q < s /\ Asked(q, prompt[s].turn, prompt[s].kind)'
      BY <1>2, <1>3, <3>1, <3>2, <3>3 DEF Asked
    <3> QED BY <3>3 DEF StandingAsked, Asked
  <2> QED BY <2>1, <2>3, <2>4 DEF OrderlyPrompts
<1> QED BY <1>1, <1>5, <1>8, <1>9, <1>10 DEF TurnsInv

\* An answer: what it allows was asked by a turn that lives.
LEMMA DecideStep ==
  ASSUME TurnsInv, TurnsTypeOK', NEW r \in Prompts, NEW allow \in BOOLEAN,
         NEW forTurn \in BOOLEAN, Decide(r, allow, forTurn)
  PROVE  TurnsInv'
<1>1. /\ prompt[r].open /\ UNCHANGED <<turn, active, hist, place, moving, orderly>>
      /\ always' \in {always, always \cup {<<prompt[r].kind, prompt[r].turn>>}}
  BY DEF Decide
<1>2. ASSUME NEW q \in Prompts
      PROVE  /\ prompt'[q].open = prompt[q].open
             /\ prompt'[q].turn = prompt[q].turn
             /\ prompt'[q].kind = prompt[q].kind
             /\ prompt'[q].standing = prompt[q].standing
             /\ prompt'[q].pc = prompt[q].pc
  BY DEF Decide, TurnsInv, TurnsTypeOK, PromptRecords
<1>3. SameTurns
  BY <1>1 DEF SameTurns
<1>4. Live' = Live /\ ActiveLives' /\ WaitsForOne' /\ ReadsAlone' /\ (OrderlyTurns => OrderlyTurns')
  BY <1>1, <1>3, TurnsKept
<1>5. PromptsFormed'
  BY <1>2 DEF PromptsFormed, TurnsInv
<1>6. PromptsEndWithTurn'
  BY <1>1, <1>4 DEF PromptsEndWithTurn, TurnsInv
<1>7. ASSUME OrderlyPrompts PROVE OrderlyPrompts'
  <2>1. OpenIsLive'
    BY <1>2, <1>4, <1>7 DEF OrderlyPrompts, OpenIsLive
  <2>2. AlwaysAsked'
    <3>1. prompt[r].turn \in Live /\ Asked(r, prompt[r].turn, prompt[r].kind)
      BY <1>1, <1>7 DEF OrderlyPrompts, OpenIsLive, Asked, TurnsInv, PromptsFormed
    <3>2. ASSUME NEW k \in Kinds, NEW j \in Turns, <<k, j>> \in always'
          PROVE  j \in Live /\ \E q \in Prompts : Asked(q, j, k)
      BY <1>1, <1>7, <3>1, <3>2 DEF OrderlyPrompts, AlwaysAsked
    <3> QED BY <1>2, <1>4, <3>2 DEF AlwaysAsked, Asked
  <2>3. StandingAsked'
    BY <1>2, <1>7 DEF OrderlyPrompts, StandingAsked, Asked, Prompts
  <2> QED BY <2>1, <2>2, <2>3 DEF OrderlyPrompts
<1> QED BY <1>1, <1>4, <1>5, <1>6, <1>7 DEF TurnsInv

\* A prompt is settled: nothing opens.
LEMMA SettleStep ==
  ASSUME TurnsInv, TurnsTypeOK', NEW r \in Prompts, Poll(r) \/ Expire(r)
  PROVE  TurnsInv'
<1>1. UNCHANGED <<turn, active, hist, place, moving, always, orderly>>
  BY DEF Poll, Expire
<1>2. ASSUME NEW q \in Prompts
      PROVE  /\ prompt'[q].open => prompt[q].open
             /\ prompt'[q].turn = prompt[q].turn
             /\ prompt'[q].kind = prompt[q].kind
             /\ prompt'[q].standing = prompt[q].standing
             /\ prompt'[q].pc = "none" <=> prompt[q].pc = "none"
  <2>1. PICK v \in {"ran", "refused"} :
          prompt' = [prompt EXCEPT ![r] = [Closed(prompt[r]) EXCEPT !.pc = v]]
    BY DEF Poll, Expire, TurnsInv, TurnsTypeOK
  <2>2. prompt[r] \in PromptRecords /\ prompt[r].pc = "waiting"
    BY DEF Poll, Expire, TurnsInv, TurnsTypeOK
  <2>3. ASSUME NEW new, new = [Closed(prompt[r]) EXCEPT !.pc = v]
        PROVE  /\ new.open = FALSE /\ new.turn = prompt[r].turn /\ new.kind = prompt[r].kind
               /\ new.standing = prompt[r].standing /\ new.pc # "none"
    BY <2>2, <2>3 DEF Closed, PromptRecords
  <2>4. CASE q = r
    BY <2>1, <2>2, <2>3, <2>4 DEF TurnsInv, TurnsTypeOK
  <2>5. CASE q # r
    BY <2>1, <2>5 DEF TurnsInv, TurnsTypeOK
  <2> QED BY <2>4, <2>5
<1>3. SameTurns
  BY <1>1 DEF SameTurns
<1>4. Live' = Live /\ ActiveLives' /\ WaitsForOne' /\ ReadsAlone' /\ (OrderlyTurns => OrderlyTurns')
  BY <1>1, <1>3, TurnsKept
<1>5. PromptsFormed'
  BY <1>2 DEF PromptsFormed, TurnsInv
<1>6. PromptsEndWithTurn'
  BY <1>1, <1>2, <1>4 DEF PromptsEndWithTurn, TurnsInv
<1>7. ASSUME OrderlyPrompts PROVE OrderlyPrompts'
  <2>1. OpenIsLive'
    BY <1>2, <1>4, <1>7 DEF OrderlyPrompts, OpenIsLive
  <2>2. AlwaysAsked'
    BY <1>1, <1>2, <1>4, <1>7 DEF OrderlyPrompts, AlwaysAsked, Asked
  <2>3. StandingAsked'
    BY <1>2, <1>7 DEF OrderlyPrompts, StandingAsked, Asked, Prompts
  <2> QED BY <2>1, <2>2, <2>3 DEF OrderlyPrompts
<1> QED BY <1>1, <1>4, <1>5, <1>6, <1>7 DEF TurnsInv

\* Batches, and the second half of 중단, touch no turn and no prompt.
LEMMA FrameStep ==
  ASSUME TurnsInv, TurnsTypeOK',
         UNCHANGED <<turn, active, hist, place, moving, prompt, always, orderly>>
  PROVE  TurnsInv'
<1>1. SameTurns
  BY DEF SameTurns
<1>2. Live' = Live /\ ActiveLives' /\ WaitsForOne' /\ ReadsAlone' /\ (OrderlyTurns => OrderlyTurns')
  BY <1>1, TurnsKept
<1> QED BY <1>2, PromptsKept DEF TurnsInv

LEMMA BatchStep ==
  ASSUME NEW i \in Turns, BatchSteps(i)
  PROVE  UNCHANGED <<turn, active, hist, place, moving, prompt, always, orderly>>
BY DEF BatchSteps, CheckStop, StartJob, NoteJob, ThreadHears, ThreadReturns, JobEnds, PutBatch

LEMMA StopStep ==
  ASSUME TurnsInv, TurnsTypeOK', Stop
  PROVE  TurnsInv'
<1>1. SameTurns
  <2>1. ASSUME NEW j \in Turns
        PROVE  turn'[j] \in {turn[j], [turn[j] EXCEPT !.told = TRUE]}
    BY DEF Stop, Tell
  <2>2. \A j \in Turns : turn[j] \in TurnRecords
    BY DEF TurnsInv, TurnsTypeOK
  <2> QED BY <2>1, <2>2 DEF SameTurns, TurnRecords
<1>2. UNCHANGED <<active, hist, place, moving, prompt, always, orderly>>
  BY DEF Stop
<1>3. Live' = Live /\ ActiveLives' /\ WaitsForOne' /\ ReadsAlone' /\ (OrderlyTurns => OrderlyTurns')
  BY <1>1, <1>2, TurnsKept
<1> QED BY <1>2, <1>3, PromptsKept DEF TurnsInv

\* A move looks only while nobody is active, and then nobody lives; when it updates,
\* a turn that lives began with it on its way.
LEMMA MoveStep ==
  ASSUME TurnsInv, TurnsTypeOK', MoveLook \/ MoveUpdate
  PROVE  TurnsInv'
<1>1. UNCHANGED <<turn, active, hist, prompt, always, orderly>>
  BY DEF MoveLook, MoveUpdate
<1>2. Live' = Live /\ Waiting' = Waiting /\ Reading' = Reading
  BY <1>1 DEF Live, Waiting, Reading
<1>3. ActiveLives' /\ WaitsForOne' /\ ReadsAlone'
  BY <1>1, <1>2 DEF ActiveLives, WaitsForOne, ReadsAlone, TurnsInv
<1>4. PromptsFormed' /\ PromptsEndWithTurn' /\ (OrderlyPrompts => OrderlyPrompts')
  BY <1>1, <1>2, PromptsKept
<1>5. ASSUME OrderlyTurns PROVE OrderlyTurns'
  <2>1. Stays'
    <3>1. CASE MoveLook
      BY <1>2, <1>5, <3>1 DEF MoveLook, OrderlyTurns, OnlyActiveLives, Live, Turns, Stays
    <3>2. CASE MoveUpdate
      BY <1>1, <1>2, <1>5, <3>2 DEF MoveUpdate, OrderlyTurns, Stays
    <3> QED BY <3>1, <3>2
  <2>2. OnlyActiveLives' /\ OneWaits' /\ WaitsForActive' /\ HistoryIsCurrent' /\ EndedHeard'
        /\ NoneWaitsForReader'
    BY <1>1, <1>2, <1>5
    DEF OrderlyTurns, OnlyActiveLives, OneWaits, WaitsForActive, HistoryIsCurrent, EndedHeard,
        NoneWaitsForReader
  <2> QED BY <2>1, <2>2 DEF OrderlyTurns
<1> QED BY <1>1, <1>3, <1>4, <1>5 DEF TurnsInv

LEMMA RestartStep ==
  ASSUME TurnsInv, TurnsTypeOK', Restart
  PROVE  TurnsInv'
<1>1. ASSUME NEW j \in Turns
      PROVE  /\ turn'[j].pc \notin {"reading", "waiting", "running", "closing"}
             /\ turn'[j].pc = "over" => turn[j].pc = "over"
  BY DEF Restart, Gone, NoTurn, TurnsInv, TurnsTypeOK, TurnRecords, TurnPcs
<1>2. Live' = {} /\ Waiting' = {} /\ Reading' = {} /\ active' = 0 /\ UNCHANGED <<hist, orderly>>
  BY <1>1 DEF Live, Waiting, Reading, Restart
<1>3. Answerless
  <2>1. \A r \in Prompts : prompt[r] \in PromptRecords
    BY DEF TurnsInv, TurnsTypeOK
  <2>2. ASSUME NEW r \in Prompts
        PROVE  /\ prompt'[r].open = FALSE /\ prompt'[r].turn = prompt[r].turn
               /\ prompt'[r].kind = prompt[r].kind /\ prompt'[r].standing = prompt[r].standing
               /\ prompt'[r].pc = "none" <=> prompt[r].pc = "none"
    <3>1. PICK new : new = [Closed(prompt[r]) EXCEPT !.pc = IF @ = "waiting" THEN "cut" ELSE @]
      OBVIOUS
    <3>2. prompt'[r] = new
      BY <3>1 DEF Restart
    <3>3. prompt[r] \in PromptRecords
      BY <2>1
    <3>4. /\ new.open = FALSE /\ new.turn = prompt[r].turn /\ new.kind = prompt[r].kind
          /\ new.standing = prompt[r].standing /\ (new.pc = "none" <=> prompt[r].pc = "none")
      <4>1. PICK p : p = prompt[r]
        OBVIOUS
      <4>2. p \in PromptRecords
        BY <3>3, <4>1
      <4>3. new = [Closed(p) EXCEPT !.pc = IF @ = "waiting" THEN "cut" ELSE @]
        BY <3>1, <4>1
      <4>4. /\ new.open = FALSE /\ new.turn = p.turn /\ new.kind = p.kind
            /\ new.standing = p.standing /\ (new.pc = "none" <=> p.pc = "none")
        BY ONLY <4>2, <4>3 DEF Closed, PromptRecords
      <4> QED BY <4>1, <4>4
    <3> QED BY <3>2, <3>4
  <2>3. always' = {}
    BY DEF Restart
  <2> QED BY <2>2, <2>3 DEF Answerless
<1>4. PromptsFormed' /\ PromptsEndWithTurn' /\ (OrderlyPrompts => OrderlyPrompts')
  BY <1>3, PromptsEnd
<1>5. ActiveLives' /\ WaitsForOne' /\ ReadsAlone'
  BY <1>2 DEF ActiveLives, WaitsForOne, ReadsAlone
<1>6. ASSUME OrderlyTurns PROVE OrderlyTurns'
  <2>1. OnlyActiveLives' /\ OneWaits' /\ WaitsForActive' /\ HistoryIsCurrent' /\ Stays'
        /\ NoneWaitsForReader'
    BY <1>2 DEF OnlyActiveLives, OneWaits, WaitsForActive, HistoryIsCurrent, Stays,
                NoneWaitsForReader
  <2>2. EndedHeard'
    BY <1>1, <1>2, <1>6 DEF OrderlyTurns, EndedHeard
  <2> QED BY <2>1, <2>2 DEF OrderlyTurns
<1> QED BY <1>2, <1>4, <1>5, <1>6 DEF TurnsInv

-----------------------------------------------------------------------------
(* The theorems.                                                           *)

LEMMA TurnsInvInit == TurnsInit => TurnsInv
<1> SUFFICES ASSUME TurnsInit PROVE TurnsInv
  OBVIOUS
<1>1. TurnsTypeOK
  <2>1. NoTurn \in TurnRecords
    BY DEF NoTurn, TurnRecords, TurnPcs
  <2>2. NoPrompt \in PromptRecords
    BY DEF NoPrompt, PromptRecords, PromptPcs, Kinds
  <2>3. NoBatch \in BatchRecords
    BY DEF NoBatch, BatchRecords, BatchStates, ThreadPcs
  <2> QED BY <2>1, <2>2, <2>3 DEF TurnsInit, TurnsTypeOK
<1>2. Live = {} /\ Waiting = {} /\ Reading = {} /\ \A i \in Turns : turn[i].pc # "over"
  BY DEF TurnsInit, NoTurn, Live, Waiting, Reading
<1>3. \A r \in Prompts : prompt[r].pc = "none" /\ ~prompt[r].open /\ ~prompt[r].standing
  BY DEF TurnsInit, NoPrompt
<1>4. ActiveLives /\ WaitsForOne /\ ReadsAlone /\ PromptsEndWithTurn /\ PromptsFormed
  BY <1>2, <1>3
  DEF TurnsInit, ActiveLives, WaitsForOne, ReadsAlone, PromptsEndWithTurn, PromptsFormed
<1>5. OrderlyTurns
  BY <1>2 DEF OrderlyTurns, OnlyActiveLives, OneWaits, WaitsForActive, HistoryIsCurrent, Stays,
              EndedHeard, NoneWaitsForReader
<1>6. OrderlyPrompts
  BY <1>3 DEF TurnsInit, OrderlyPrompts, OpenIsLive, AlwaysAsked, StandingAsked
<1> QED BY <1>1, <1>4, <1>5, <1>6 DEF TurnsInv

LEMMA TurnsInvStep == TurnsInv /\ [TurnsNext]_turnsVars => TurnsInv'
<1> SUFFICES ASSUME TurnsInv, [TurnsNext]_turnsVars PROVE TurnsInv'
  OBVIOUS
<1>0. TurnsTypeOK'
  BY TurnsTypeStep DEF TurnsInv
<1>1. ASSUME NEW i \in Turns, TurnSteps(i) PROVE TurnsInv'
  <2>0. CASE ReadChat(i)
    BY <1>0, <2>0, ReadChatStep
  <2>1. CASE Begin(i) \/ Resume(i) \/ TimeOut(i)
    BY <1>0, <2>1, BeginSteps
  <2>2. CASE SendOver(i)
    BY <1>0, <2>2, SendOverStep
  <2>3. CASE Finish(i) \/ Close(i)
    BY <1>0, <2>3, EndStep
  <2>4. CASE Fail(i) \/ HearStop(i)
    BY <1>0, <2>4, BreakStep DEF Fail, HearStop
  <2> QED BY <1>1, <2>0, <2>1, <2>2, <2>3, <2>4 DEF TurnSteps
<1>2. ASSUME NEW i \in Turns, BatchSteps(i) PROVE TurnsInv'
  BY <1>0, <1>2, BatchStep, FrameStep
<1>3. ASSUME NEW r \in Prompts, PromptSteps(r) PROVE TurnsInv'
  BY <1>0, <1>3, PermitStep, DecideStep, SettleStep DEF PromptSteps
<1>4. CASE Stop \/ MoveLook \/ MoveUpdate \/ Restart
  BY <1>0, <1>4, StopStep, MoveStep, RestartStep
<1>5. CASE StopJobs \/ UNCHANGED turnsVars
  BY <1>0, <1>5, FrameStep DEF StopJobs, turnsVars
<1> QED BY <1>1, <1>2, <1>3, <1>4, <1>5 DEF TurnsNext

THEOREM TurnsInvariant == TurnsSpec => []TurnsInv
BY TurnsInvInit, TurnsInvStep, PTL DEF TurnsSpec

\* The types of Turns hold in every reachable state.
THEOREM TurnsAreTyped == TurnsSpec => []TurnsTypeOK
<1>1. TurnsInv => TurnsTypeOK
  BY DEF TurnsInv
<1> QED BY <1>1, TurnsInvariant, PTL

\* Whatever is stopped, fails, is moved or ends with the backend, an orderly
\* conversation has one turn that runs or closes (session._supersede).
THEOREM OneTurnRuns == TurnsSpec => []OneTurnAtATime
<1>1. TurnsInv => OneTurnAtATime
  BY DEF TurnsInv, OrderlyTurns, OnlyActiveLives, OneTurnAtATime
<1> QED BY <1>1, TurnsInvariant, PTL

\* What a turn that came to an end did is in the history for good: the row of a
\* later turn tells of it, too (the order of the end of session.run).
THEOREM HistoryKeepsTurns == TurnsSpec => []EndedIsHeard
<1>1. TurnsInv => EndedIsHeard
  BY DEF TurnsInv, OrderlyTurns, EndedHeard, EndedIsHeard
<1> QED BY <1>1, TurnsInvariant, PTL

\* With no turn left nothing is allowed and no prompt can be answered
\* (permits.end_turn).
THEOREM NothingStaysAllowed == TurnsSpec => []PromptsEndWithTurn
<1>1. TurnsInv => PromptsEndWithTurn
  BY DEF TurnsInv
<1> QED BY <1>1, TurnsInvariant, PTL

\* A command runs unasked only in a turn in which the user was asked about one
\* of its kind, and a batch never does (permits.request).
THEOREM NobodyRunsUnasked == TurnsSpec => []StandingIsOfThisTurn
<1>1. TurnsInv => StandingIsOfThisTurn
  BY DEF TurnsInv, PromptsFormed, OrderlyPrompts, StandingAsked, Asked, StandingIsOfThisTurn
<1> QED BY <1>1, TurnsInvariant, PTL

\* A conversation is not carried to another chat under a turn that began with no move
\* under way, and every move that comes while it lives is refused (session.move).
THEOREM TurnsStayPut == TurnsSpec => []StaysWithItsChat
<1>1. TurnsInv => StaysWithItsChat
  BY DEF TurnsInv, OrderlyTurns, Stays, StaysWithItsChat
<1> QED BY <1>1, TurnsInvariant, PTL

\* Types, one turn at a time, and that one on its chat.
THEOREM TurnsAreSound == TurnsSpec => []TurnsSound
BY TurnsAreTyped, OneTurnRuns, TurnsStayPut, PTL DEF TurnsSound

\* No permission outlives the turn it was given in.
THEOREM PermissionsEnd == TurnsSpec => []PermissionsEndWithTurn
BY NothingStaysAllowed, NobodyRunsUnasked, PTL DEF PermissionsEndWithTurn

-----------------------------------------------------------------------------
(***************************************************************************)
(* Image batches.  Every step of Jobs but the end of the backend is about  *)
(* one batch, so the invariant is a condition on one batch, a condition on *)
(* the gate, and one on the plans.                                         *)
(***************************************************************************)


-----------------------------------------------------------------------------
(* The invariant.                                                          *)

Waits(j) == worker[j].pc \in {"queued", "checked"}
Works(j) == worker[j].pc \in {"items", "drawing", "recording", "settling"}
HasLeft(j) == worker[j].pc \in {"leaving", "gone"}

NotBegun(j) ==
  worker[j].pc = "none" =>
    /\ worker[j] = NoWorker
    /\ row[j].state = "none" /\ row[j].plan = NoPlan /\ images[j] = 0 /\ j \notin asked /\ j \notin early

NothingYet(j) ==
  Waits(j) =>
    /\ row[j].state \in {"pending", "cancelled"}
    /\ images[j] = 0
    /\ row[j].saved = 0 /\ row[j].failed = 0 /\ worker[j].saved = 0 /\ worker[j].failed = 0

\* The row is one image behind while this one is recorded.
CountsImages(j) ==
  Works(j) =>
    /\ row[j].state = "running" \/ (row[j].state = "cancelled" /\ j \in early)
    /\ worker[j].saved = images[j]
    /\ worker[j].saved + worker[j].failed <= Items
    /\ worker[j].pc = "drawing" => worker[j].saved + worker[j].failed < Items
    /\ worker[j].pc = "settling" => j \in cancels \/ worker[j].saved + worker[j].failed = Items
    /\ worker[j].pc # "recording" =>
         row[j].saved = worker[j].saved /\ row[j].failed = worker[j].failed
    /\ worker[j].pc = "recording" =>
         \/ row[j].saved + 1 = worker[j].saved /\ row[j].failed = worker[j].failed
         \/ row[j].saved = worker[j].saved /\ row[j].failed + 1 = worker[j].failed

Settled(j) ==
  HasLeft(j) =>
    /\ row[j].state \in Ended
    /\ j \in asked => row[j].state \in {"cancelled", "error"}
    /\ row[j].saved + row[j].failed <= Items
    /\ \/ row[j].saved = images[j]
       \/ row[j].state \in {"error", "cancelled"} /\ row[j].saved + 1 = images[j]
    /\ row[j].state \in {"done", "partial"} =>
         row[j].saved = images[j] /\ row[j].saved + row[j].failed = Items

\* A cancellation is kept until the thread has acted on it.
Remembered(j) == j \in asked /\ ~HasLeft(j) => j \in cancels
Undrawn(j) ==
  j \in early => j \in asked /\ images[j] = 0 /\ worker[j].pc \notin {"drawing", "recording"}

\* What a cancel() is about to write it has promised.
Promised(j) == cancelling = j => j \in early

JobInv(j) ==
  /\ NotBegun(j) /\ NothingYet(j) /\ CountsImages(j) /\ Settled(j)
  /\ Remembered(j) /\ Undrawn(j) /\ Promised(j)
GateInv == \A j \in JobIds : worker[j].pc \in AtGate => gate = j

\* What a plan has started and may still start: one approval has it.
Of(p) == {j \in JobIds : row[j].plan = p}
PlanInv ==
  \A p \in Plans :
    /\ p \in held => Of(p) = {} /\ \A e \in Approvals : approval[e].plan # p
    /\ \A e, f \in Approvals : approval[e].plan = p /\ approval[f].plan = p => e = f
    /\ \A e \in Approvals : approval[e].plan = p => Cardinality(Of(p)) + approval[e].left <= PlanSize
    /\ Cardinality(Of(p)) <= PlanSize

JobsInv == JobsTypeOK /\ (\A j \in JobIds : JobInv(j)) /\ GateInv /\ PlanInv

-----------------------------------------------------------------------------
(* Types.                                                                  *)

LEMMA RowEdits ==
  ASSUME NEW r \in RowRecords
  PROVE  /\ \A s \in JobStates : [r EXCEPT !.state = s] \in RowRecords
         /\ \A a, b \in Nat : [r EXCEPT !.saved = a, !.failed = b] \in RowRecords
BY DEF RowRecords

LEMMA EditsTyped ==
  ASSUME JobsTypeOK, NEW j \in JobIds
  PROVE  /\ \A s \in JobStates : SetState(j, s) => row' \in [JobIds -> RowRecords]
         /\ \A pc \in WorkerPcs : GoTo(j, pc) => worker' \in [JobIds -> WorkerRecords]
<1>1. ASSUME NEW s \in JobStates, SetState(j, s) PROVE row' \in [JobIds -> RowRecords]
  BY <1>1, RowEdits DEF SetState, JobsTypeOK
<1>2. ASSUME NEW pc \in WorkerPcs, GoTo(j, pc) PROVE worker' \in [JobIds -> WorkerRecords]
  BY <1>2 DEF GoTo, JobsTypeOK, WorkerRecords
<1> QED BY <1>1, <1>2

LEMMA RecordedTyped ==
  ASSUME JobsTypeOK, NEW j \in JobIds
  PROVE  /\ Recorded(j) \in RowRecords
         /\ \A s \in JobStates : [Recorded(j) EXCEPT !.state = s] \in RowRecords
<1>1. worker[j].saved \in Nat /\ worker[j].failed \in Nat /\ row[j] \in RowRecords
  BY DEF JobsTypeOK, WorkerRecords
<1>2. Recorded(j) \in RowRecords
  BY <1>1, RowEdits DEF Recorded
<1> QED BY <1>2, RowEdits

LEMMA InsertTyped ==
  ASSUME JobsTypeOK, NEW j \in JobIds, NEW plan \in Plans \cup {NoPlan}, Insert(j, plan)
  PROVE  row' \in [JobIds -> RowRecords] /\ worker' \in [JobIds -> WorkerRecords]
<1>1. [NoRow EXCEPT !.state = "pending", !.plan = plan] \in RowRecords
  BY DEF NoRow, RowRecords, JobStates
<1>2. row' \in [JobIds -> RowRecords]
  BY <1>1 DEF Insert, JobsTypeOK
<1>3. worker' \in [JobIds -> WorkerRecords]
  BY EditsTyped DEF Insert, WorkerPcs
<1> QED BY <1>2, <1>3

LEMMA JobsTypeStep == JobsTypeOK /\ [JobsNext]_jobsVars => JobsTypeOK'
<1> SUFFICES ASSUME JobsTypeOK, [JobsNext]_jobsVars PROVE JobsTypeOK'
  OBVIOUS
<1>1. ASSUME NEW j \in JobIds, Start(j) PROVE JobsTypeOK'
  BY <1>1, InsertTyped DEF Start, Insert, JobsTypeOK
<1>2. ASSUME NEW j \in JobIds, WorkerStep(j) PROVE JobsTypeOK'
  <2>1. row' \in [JobIds -> RowRecords]
    <3>1. {"cancelled", "running", "error", Outcome(j)} \subseteq JobStates
      BY DEF Outcome, JobStates, Ended
    <3>2. CASE GiveUp(j) \/ Admit(j) \/ Mark(j) \/ Throw(j)
      BY <3>1, <3>2, EditsTyped DEF GiveUp, Admit, Mark, Throw, JobsTypeOK
    <3>3. CASE Record(j)
      BY <3>3, RecordedTyped DEF Record, JobsTypeOK
    <3>4. CASE Settle(j)
      <4>1. [Recorded(j) EXCEPT !.state = Outcome(j)] \in RowRecords
        BY <3>1, RecordedTyped
      <4> QED BY <3>4, <4>1 DEF Settle, JobsTypeOK
    <3>5. CASE Look(j) \/ Leave(j) \/ \E ok \in BOOLEAN : Draw(j, ok)
      BY <3>5 DEF Look, Leave, Draw, JobsTypeOK
    <3> QED BY <1>2, <3>2, <3>3, <3>4, <3>5 DEF WorkerStep
  <2>2. worker' \in [JobIds -> WorkerRecords]
    <3>1. ASSUME NEW ok \in BOOLEAN, Draw(j, ok) PROVE worker' \in [JobIds -> WorkerRecords]
      BY <3>1 DEF Draw, JobsTypeOK, WorkerRecords, WorkerPcs
    <3>2. CASE ~\E ok \in BOOLEAN : Draw(j, ok)
      BY <1>2, <3>2, EditsTyped
      DEF WorkerStep, GiveUp, Admit, Mark, Look, Record, Settle, Throw, Leave, WorkerPcs
    <3> QED BY <3>1, <3>2
  <2>3. gate' \in {0} \cup JobIds /\ cancels' \in SUBSET JobIds
    BY <1>2
    DEF WorkerStep, GiveUp, Admit, Mark, Look, Draw, Record, Settle, Throw, Leave, JobsTypeOK
  <2>4. images' \in [JobIds -> Nat]
    BY <1>2
    DEF WorkerStep, GiveUp, Admit, Mark, Look, Draw, Record, Settle, Throw, Leave, Apart, JobsTypeOK
  <2>5. UNCHANGED <<cancelling, asked, early, held, approval, restarts>>
    BY <1>2
    DEF WorkerStep, GiveUp, Admit, Mark, Look, Draw, Record, Settle, Throw, Leave, Apart
  <2> QED BY <2>1, <2>2, <2>3, <2>4, <2>5 DEF JobsTypeOK
<1>3. ASSUME NEW j \in JobIds, CancelRead(j) PROVE JobsTypeOK'
  BY <1>3 DEF CancelRead, JobsTypeOK
<1>10. CASE CancelWrite
  <2>1. row' \in [JobIds -> RowRecords]
    <3>1. cancelling \in JobIds
      BY <1>10 DEF CancelWrite, Unlocked, JobsTypeOK
    <3> QED BY <1>10, <3>1, EditsTyped DEF CancelWrite, JobStates, Ended
  <2> QED BY <1>10, <2>1 DEF CancelWrite, JobsTypeOK
<1>4. ASSUME NEW p \in Plans, Hold(p) PROVE JobsTypeOK'
  BY <1>4 DEF Hold, JobsTypeOK
<1>5. ASSUME NEW p \in Plans, NEW e \in Approvals, Take(e, p) PROVE JobsTypeOK'
  <2>1. approval' \in [Approvals -> ApprovalRecords]
    BY <1>5, JobsAssumption DEF Take, JobsTypeOK, ApprovalRecords
  <2> QED BY <1>5, <2>1 DEF Take, JobsTypeOK
<1>6. ASSUME NEW e \in Approvals, StartFails(e) PROVE JobsTypeOK'
  <2>1. approval' \in [Approvals -> ApprovalRecords]
    BY <1>6 DEF StartFails, JobsTypeOK, ApprovalRecords
  <2> QED BY <1>6, <2>1 DEF StartFails, JobsTypeOK
<1>7. ASSUME NEW e \in Approvals, NEW j \in JobIds, StartNext(e, j) PROVE JobsTypeOK'
  <2>1. approval[e].plan \in Plans \cup {NoPlan}
    BY DEF JobsTypeOK, ApprovalRecords
  <2>2. approval' \in [Approvals -> ApprovalRecords]
    BY <1>7 DEF StartNext, JobsTypeOK, ApprovalRecords
  <2> QED BY <1>7, <2>1, <2>2, InsertTyped DEF StartNext, Insert, JobsTypeOK
<1>8. CASE BackendEnds
  <2>1. row' \in [JobIds -> RowRecords]
    BY <1>8, RowEdits DEF BackendEnds, JobsTypeOK, JobStates, Ended
  <2>2. worker' \in [JobIds -> WorkerRecords]
    BY <1>8 DEF BackendEnds, JobsTypeOK, NoWorker, WorkerRecords, WorkerPcs
  <2>3. approval' \in [Approvals -> ApprovalRecords]
    BY <1>8 DEF BackendEnds, JobsTypeOK, ApprovalRecords
  <2> QED BY <1>8, <2>1, <2>2, <2>3, SMTT(40) DEF BackendEnds, JobsTypeOK
<1>9. CASE UNCHANGED jobsVars
  BY <1>9 DEF jobsVars, JobsTypeOK
<1> QED
  BY <1>1, <1>2, <1>3, <1>4, <1>5, <1>6, <1>7, <1>8, <1>9, <1>10 DEF JobsNext

-----------------------------------------------------------------------------
(* One batch.                                                              *)

\* A step of one batch leaves the others as they are.
SameJob(k) ==
  /\ row'[k] = row[k] /\ worker'[k] = worker[k] /\ images'[k] = images[k]
  /\ k \in cancels' <=> k \in cancels
  /\ k \in asked' <=> k \in asked
  /\ k \in early' <=> k \in early
  /\ cancelling' = k <=> cancelling = k

LEMMA SameJobKept ==
  ASSUME NEW k \in JobIds, JobInv(k), SameJob(k)
  PROVE  JobInv(k)'
BY DEF JobInv, SameJob, NotBegun, Waits, NothingYet, Works, CountsImages, HasLeft, Settled,
       Remembered, Undrawn, Promised

LEMMA OthersSame ==
  ASSUME JobsTypeOK, NEW j \in JobIds, NEW k \in JobIds, k # j,
         \/ \E plan \in Plans \cup {NoPlan} : Insert(j, plan)
         \/ WorkerStep(j) \/ CancelRead(j) \/ (CancelWrite /\ cancelling = j)
  PROVE  SameJob(k)
<1>1. ASSUME NEW plan \in Plans \cup {NoPlan}, Insert(j, plan) PROVE SameJob(k)
  BY <1>1 DEF Insert, GoTo, SameJob, JobsTypeOK
<1>2. CASE WorkerStep(j)
  BY <1>2
  DEF WorkerStep, GiveUp, Admit, Mark, Look, Draw, Record, Settle, Throw, Leave, Apart, SetState,
      GoTo, SameJob, JobsTypeOK
<1>3. CASE CancelRead(j)
  BY <1>3 DEF CancelRead, Unlocked, SameJob, JobIds
<1>4. CASE CancelWrite /\ cancelling = j
  BY <1>4 DEF CancelWrite, SetState, SameJob, JobsTypeOK, JobIds
<1> QED BY <1>1, <1>2, <1>3, <1>4

\* What a row and a worker are: the numbers they hold.
LEMMA Numbers ==
  ASSUME JobsTypeOK, NEW j \in JobIds
  PROVE  /\ row[j] \in RowRecords /\ worker[j] \in WorkerRecords
         /\ row[j].saved \in Nat /\ row[j].failed \in Nat /\ images[j] \in Nat
         /\ worker[j].saved \in Nat /\ worker[j].failed \in Nat /\ Items \in Nat
         /\ worker[j].pc \in WorkerPcs /\ row[j].state \in JobStates
BY JobsAssumption DEF JobsTypeOK, RowRecords, WorkerRecords

\* A worker that only goes on, with its row in some state.
LEMMA MovesOn ==
  ASSUME JobsTypeOK, NEW j \in JobIds, NEW s, NEW pc
  PROVE  /\ SetState(j, s) =>
              /\ row'[j].state = s /\ row'[j].plan = row[j].plan
              /\ row'[j].saved = row[j].saved /\ row'[j].failed = row[j].failed
         /\ GoTo(j, pc) =>
              /\ worker'[j].pc = pc
              /\ worker'[j].saved = worker[j].saved /\ worker'[j].failed = worker[j].failed
<1>1. ASSUME SetState(j, s)
      PROVE  /\ row'[j].state = s /\ row'[j].plan = row[j].plan
             /\ row'[j].saved = row[j].saved /\ row'[j].failed = row[j].failed
  BY <1>1, Numbers DEF SetState, JobsTypeOK, RowRecords
<1>2. ASSUME GoTo(j, pc)
      PROVE  /\ worker'[j].pc = pc
             /\ worker'[j].saved = worker[j].saved /\ worker'[j].failed = worker[j].failed
  BY <1>2, Numbers DEF GoTo, JobsTypeOK, WorkerRecords
<1> QED BY <1>1, <1>2

LEMMA InsertKept ==
  ASSUME JobsTypeOK, NEW j \in JobIds, JobInv(j), NEW plan \in Plans \cup {NoPlan},
         Insert(j, plan)
  PROVE  JobInv(j)'
<1>1. worker[j].pc = "none"
  <2>1. row[j].state = "none"
    BY DEF Insert
  <2> QED
    BY <2>1, Numbers
    DEF JobInv, NothingYet, CountsImages, Settled, Waits, Works, HasLeft, WorkerPcs, Ended
<1>2. images[j] = 0 /\ j \notin asked /\ j \notin early
  BY <1>1 DEF JobInv, NotBegun
<1>3. row'[j].state = "pending" /\ row'[j].saved = 0 /\ row'[j].failed = 0
  BY DEF Insert, NoRow, JobsTypeOK
<1>4. worker'[j].pc = "queued"
  BY MovesOn DEF Insert
<1>5. worker'[j].saved = 0 /\ worker'[j].failed = 0
  BY <1>1, MovesOn DEF JobInv, NotBegun, Insert, NoWorker
<1>6. UNCHANGED <<images, asked, early, cancelling>>
  BY DEF Insert
<1> QED
  BY <1>1, <1>2, <1>3, <1>4, <1>5, <1>6
  DEF JobInv, NotBegun, NothingYet, CountsImages, Settled, Remembered, Undrawn, Promised, Waits,
      Works, HasLeft

LEMMA WorkerKept ==
  ASSUME JobsTypeOK, NEW j \in JobIds, JobInv(j), WorkerStep(j)
  PROVE  JobInv(j)'
<1> USE DEF JobInv, NotBegun, NothingYet, CountsImages, Settled, Remembered, Undrawn, Promised, Waits,
            Works, HasLeft, Ended
<1>1. CASE GiveUp(j)
  BY <1>1, MovesOn, Numbers DEF GiveUp, Apart
<1>2. CASE Admit(j)
  <2>1. CASE j \in cancels
    BY <1>2, <2>1, MovesOn, Numbers DEF Admit, Apart
  <2>2. CASE j \notin cancels
    BY <1>2, <2>2, MovesOn, Numbers DEF Admit, Apart
  <2> QED BY <2>1, <2>2
<1>3. CASE Mark(j)
  BY <1>3, MovesOn, Numbers DEF Mark, Apart
<1>4. CASE Look(j)
  BY <1>4, MovesOn, Numbers DEF Look, Apart
<1>5. ASSUME NEW ok \in BOOLEAN, Draw(j, ok) PROVE JobInv(j)'
  <2>1. /\ worker'[j].pc = "recording"
        /\ worker'[j].saved = worker[j].saved + (IF ok THEN 1 ELSE 0)
        /\ worker'[j].failed = worker[j].failed + (IF ok THEN 0 ELSE 1)
        /\ images'[j] = images[j] + (IF ok THEN 1 ELSE 0)
        /\ UNCHANGED <<row, cancels, cancelling, asked, early>> /\ worker[j].pc = "drawing"
    BY <1>5 DEF Draw, JobsTypeOK
  <2> QED BY <2>1, Numbers
<1>6. CASE Record(j)
  <2>1. /\ row'[j].state = row[j].state /\ row'[j].saved = worker[j].saved
        /\ row'[j].failed = worker[j].failed
    BY <1>6, Numbers DEF Record, Recorded, JobsTypeOK, RowRecords
  <2> QED BY <1>6, <2>1, MovesOn, Numbers DEF Record, Apart
<1>7. CASE Settle(j)
  <2>1. /\ row'[j].state = Outcome(j) /\ row'[j].saved = worker[j].saved
        /\ row'[j].failed = worker[j].failed
    BY <1>7, Numbers DEF Settle, Recorded, JobsTypeOK, RowRecords
  <2> QED BY <1>7, <2>1, MovesOn, Numbers DEF Settle, Apart, Outcome
<1>8. CASE Throw(j)
  BY <1>8, MovesOn, Numbers DEF Throw, Apart
<1>9. CASE Leave(j)
  BY <1>9, MovesOn, Numbers DEF Leave, Apart
<1> QED BY <1>1, <1>2, <1>3, <1>4, <1>5, <1>6, <1>7, <1>8, <1>9 DEF WorkerStep

LEMMA CancelKept ==
  ASSUME JobsTypeOK, NEW j \in JobIds, JobInv(j),
         CancelRead(j) \/ (CancelWrite /\ cancelling = j)
  PROVE  JobInv(j)'
<1> USE DEF JobInv, NotBegun, NothingYet, CountsImages, Settled, Remembered, Undrawn, Promised, Waits,
            Works, HasLeft, Ended
<1>1. CASE CancelRead(j) /\ row[j].state = "pending"
  BY <1>1, Numbers DEF CancelRead, WorkerPcs
<1>2. CASE CancelRead(j) /\ row[j].state # "pending"
  BY <1>2, Numbers DEF CancelRead, Unlocked, JobIds, WorkerPcs
<1>3. CASE CancelWrite /\ cancelling = j
  <2>1. /\ row'[j].state = "cancelled"
        /\ row'[j].saved = row[j].saved /\ row'[j].failed = row[j].failed
    BY <1>3, MovesOn DEF CancelWrite
  <2>2. UNCHANGED <<worker, cancels, images, asked, early>> /\ cancelling' # j
    BY <1>3 DEF CancelWrite, JobIds
  <2>3. j \in early /\ j \in asked
    BY <1>3
  <2> QED BY <2>1, <2>2, <2>3, Numbers DEF WorkerPcs
<1> QED BY <1>1, <1>2, <1>3

LEMMA BackendEndKept ==
  ASSUME JobsTypeOK, NEW j \in JobIds, JobInv(j), BackendEnds
  PROVE  JobInv(j)'
<1>1. UNCHANGED <<images, asked, early>> /\ cancelling' # j
  BY DEF BackendEnds, JobIds
<1>2. CASE row[j].state = "none"
  <2>1. row'[j] = row[j] /\ worker'[j] = worker[j]
    BY <1>2 DEF BackendEnds
  <2>2. worker[j].pc = "none"
    BY <1>2, Numbers
    DEF JobInv, NothingYet, CountsImages, Settled, Waits, Works, HasLeft, WorkerPcs, Ended
  <2> QED
    BY <1>1, <2>1, <2>2
    DEF JobInv, NotBegun, NothingYet, CountsImages, Settled, Remembered, Undrawn, Promised, Waits,
      Works, HasLeft
<1>3. CASE row[j].state # "none"
  <2>1. worker'[j].pc = "gone"
    BY <1>3 DEF BackendEnds, NoWorker
  <2>2. /\ row'[j].saved = row[j].saved /\ row'[j].failed = row[j].failed
        /\ row'[j].state = IF row[j].state \in {"pending", "running"} THEN "cancelled" ELSE row[j].state
    BY Numbers DEF BackendEnds, RowRecords
  <2>3. worker[j].pc # "none"
    BY <1>3 DEF JobInv, NotBegun
  <2> QED
    BY <1>1, <1>3, <2>1, <2>2, <2>3, Numbers
    DEF JobInv, NotBegun, NothingYet, CountsImages, Settled, Remembered, Undrawn, Promised, Waits, Works, HasLeft,
        WorkerPcs, JobStates, Ended
<1> QED BY <1>2, <1>3

LEMMA JobsKept ==
  ASSUME JobsInv, [JobsNext]_jobsVars
  PROVE  \A k \in JobIds : JobInv(k)'
<1> SUFFICES ASSUME NEW k \in JobIds PROVE JobInv(k)'
  OBVIOUS
<1>0. JobsTypeOK /\ JobInv(k)
  BY DEF JobsInv
<1>1. ASSUME NEW j \in JobIds, NEW plan \in Plans \cup {NoPlan}, Insert(j, plan) PROVE JobInv(k)'
  <2>1. CASE j = k
    BY <1>0, <1>1, <2>1, InsertKept
  <2>2. CASE j # k
    <3>1. SameJob(k)
      BY <1>0, <1>1, <2>2, OthersSame
    <3> QED BY <1>0, <3>1, SameJobKept
  <2> QED BY <2>1, <2>2
<1>2. ASSUME NEW j \in JobIds, WorkerStep(j) \/ CancelRead(j) \/ (CancelWrite /\ cancelling = j)
      PROVE  JobInv(k)'
  <2>1. CASE j = k
    BY <1>0, <1>2, <2>1, WorkerKept, CancelKept
  <2>2. CASE j # k
    <3>1. SameJob(k)
      BY <1>0, <1>2, <2>2, OthersSame
    <3> QED BY <1>0, <3>1, SameJobKept
  <2> QED BY <2>1, <2>2
<1>3. ASSUME NEW e \in Approvals, NEW j \in JobIds, StartNext(e, j) PROVE JobInv(k)'
  <2>1. approval[e].plan \in Plans \cup {NoPlan} /\ Insert(j, approval[e].plan)
    BY <1>0, <1>3 DEF StartNext, JobsTypeOK, ApprovalRecords
  <2> QED BY <1>1, <2>1
<1>4. ASSUME UNCHANGED <<row, worker, images, cancels, cancelling, asked, early>> PROVE JobInv(k)'
  BY <1>0, <1>4, SameJobKept DEF SameJob
<1>5. CASE BackendEnds
  BY <1>0, <1>5, BackendEndKept
<1>6. ASSUME NEW j \in JobIds, Start(j) PROVE JobInv(k)'
  BY <1>1, <1>6 DEF Start
<1>7. ASSUME NEW p \in Plans, Hold(p) PROVE JobInv(k)'
  BY <1>4, <1>7 DEF Hold
<1>8. ASSUME NEW e \in Approvals, NEW p \in Plans, Take(e, p) PROVE JobInv(k)'
  BY <1>4, <1>8 DEF Take
<1>9. ASSUME NEW e \in Approvals, StartFails(e) PROVE JobInv(k)'
  BY <1>4, <1>9 DEF StartFails
<1>10. CASE UNCHANGED jobsVars
  BY <1>4, <1>10 DEF jobsVars
<1>11. CASE CancelWrite
  <2>1. cancelling \in JobIds
    BY <1>0, <1>11 DEF CancelWrite, Unlocked, JobsTypeOK
  <2> QED BY <1>2, <1>11, <2>1
<1> QED
  BY <1>2, <1>3, <1>5, <1>6, <1>7, <1>8, <1>9, <1>10, <1>11 DEF JobsNext

-----------------------------------------------------------------------------
(* The gate.                                                               *)

LEMMA GateKept ==
  ASSUME JobsInv, [JobsNext]_jobsVars
  PROVE  GateInv'
<1>0. JobsTypeOK /\ GateInv
  BY DEF JobsInv
<1>1. ASSUME NEW j \in JobIds, NEW plan \in Plans \cup {NoPlan}, Insert(j, plan) PROVE GateInv'
  BY <1>0, <1>1 DEF Insert, GoTo, GateInv, JobsTypeOK, AtGate
<1>2. ASSUME NEW j \in JobIds, WorkerStep(j) PROVE GateInv'
  <2>0. ASSUME NEW k \in JobIds, k # j PROVE worker'[k] = worker[k]
    BY <1>0, <1>2, <2>0, OthersSame DEF SameJob
  <2>1. CASE Admit(j)
    <3>1. \A k \in JobIds : worker[k].pc \notin AtGate
      BY <1>0, <2>1 DEF Admit, GateInv, JobIds
    <3> QED BY <2>0, <2>1, <3>1 DEF Admit, GateInv
  <2>2. CASE GiveUp(j)
    <3>1. worker'[j].pc = "gone" /\ gate' = gate
      BY <1>0, <2>2, MovesOn DEF GiveUp
    <3> QED BY <1>0, <2>0, <3>1 DEF GateInv, AtGate
  <2>3. CASE Leave(j)
    <3>1. worker'[j].pc = "gone" /\ gate = j
      BY <1>0, <2>3, MovesOn DEF Leave, GateInv, AtGate
    <3> QED BY <1>0, <2>0, <3>1 DEF GateInv, AtGate
  <2>4. CASE ~(Admit(j) \/ GiveUp(j) \/ Leave(j))
    <3>1. worker[j].pc \in AtGate /\ gate' = gate
      BY <1>2, <2>4 DEF WorkerStep, Mark, Look, Draw, Record, Settle, Throw, AtGate
    <3> QED BY <1>0, <2>0, <3>1 DEF GateInv
  <2> QED BY <2>1, <2>2, <2>3, <2>4
<1>3. ASSUME NEW e \in Approvals, NEW j \in JobIds, StartNext(e, j) PROVE GateInv'
  <2>1. approval[e].plan \in Plans \cup {NoPlan} /\ Insert(j, approval[e].plan)
    BY <1>0, <1>3 DEF StartNext, JobsTypeOK, ApprovalRecords
  <2> QED BY <1>1, <2>1
<1>4. ASSUME UNCHANGED <<worker, gate>> PROVE GateInv'
  BY <1>0, <1>4 DEF GateInv
<1>5. CASE BackendEnds
  <2>1. ASSUME NEW k \in JobIds PROVE worker'[k].pc \notin AtGate
    <3>1. row[k].state = "none" => worker[k].pc = "none"
      BY Numbers
      DEF JobsInv, JobInv, NothingYet, CountsImages, Settled, Waits, Works, HasLeft, WorkerPcs, Ended
    <3> QED BY <1>5, <3>1 DEF BackendEnds, NoWorker, AtGate
  <2> QED BY <2>1 DEF GateInv
<1>6. ASSUME NEW j \in JobIds, Start(j) \/ CancelRead(j) PROVE GateInv'
  BY <1>1, <1>4, <1>6 DEF Start, CancelRead
<1>11. CASE CancelWrite
  BY <1>4, <1>11 DEF CancelWrite
<1>7. ASSUME NEW p \in Plans, Hold(p) PROVE GateInv'
  BY <1>4, <1>7 DEF Hold
<1>8. ASSUME NEW e \in Approvals, NEW p \in Plans, Take(e, p) PROVE GateInv'
  BY <1>4, <1>8 DEF Take
<1>9. ASSUME NEW e \in Approvals, StartFails(e) PROVE GateInv'
  BY <1>4, <1>9 DEF StartFails
<1>10. CASE UNCHANGED jobsVars
  BY <1>4, <1>10 DEF jobsVars
<1> QED
  BY <1>2, <1>3, <1>5, <1>6, <1>7, <1>8, <1>9, <1>10, <1>11 DEF JobsNext

-----------------------------------------------------------------------------
(* The plans.                                                              *)

LEMMA OfFinite ==
  \A p \in Plans : IsFiniteSet(Of(p)) /\ Cardinality(Of(p)) \in Nat
<1>1. MaxJobs \in Nat /\ JobIds = 1 .. MaxJobs
  BY JobsAssumption DEF JobIds
<1>2. IsFiniteSet(JobIds)
  BY <1>1, FS_Interval
<1>3. ASSUME NEW p \in Plans PROVE IsFiniteSet(Of(p))
  BY <1>2, FS_Subset DEF Of
<1> QED BY <1>3, FS_CardinalityType

\* A step that starts no batch and takes no plan.
LEMMA SamePlans ==
  ASSUME JobsInv, \A j \in JobIds : row'[j].plan = row[j].plan, held' \subseteq held,
         \A e \in Approvals : approval'[e].plan = approval[e].plan /\ approval'[e].left <= approval[e].left,
         JobsTypeOK'
  PROVE  PlanInv'
<1>1. ASSUME NEW p \in Plans PROVE Of(p)' = Of(p)
  BY DEF Of
<1>2. \A e \in Approvals : approval[e].left \in Nat /\ approval'[e].left \in Nat
  BY DEF JobsInv, JobsTypeOK, ApprovalRecords
<1>3. PlanSize \in Nat
  BY JobsAssumption
<1>4. ASSUME NEW p \in Plans
      PROVE  /\ p \in held' => Of(p)' = {} /\ \A e \in Approvals : approval'[e].plan # p
             /\ \A e, f \in Approvals : approval'[e].plan = p /\ approval'[f].plan = p => e = f
             /\ Cardinality(Of(p)') <= PlanSize
  BY <1>1 DEF JobsInv, PlanInv
<1>5. ASSUME NEW p \in Plans, NEW e \in Approvals, approval'[e].plan = p
      PROVE  Cardinality(Of(p)') + approval'[e].left <= PlanSize
  <2>1. Cardinality(Of(p)) + approval[e].left <= PlanSize
    BY <1>5 DEF JobsInv, PlanInv
  <2>2. Cardinality(Of(p)) \in Nat /\ approval'[e].left <= approval[e].left
    BY OfFinite
  <2> QED BY <1>1, <1>2, <1>3, <2>1, <2>2
<1> QED BY <1>4, <1>5 DEF PlanInv

LEMMA NewRow ==
  ASSUME JobsInv, NEW j \in JobIds, NEW plan \in Plans \cup {NoPlan}, Insert(j, plan)
  PROVE  /\ row[j].plan = NoPlan /\ row'[j].plan = plan
         /\ \A k \in JobIds : k # j => row'[k].plan = row[k].plan
<1>1. row[j].plan = NoPlan
  <2>1. worker[j].pc = "none"
    BY Numbers
    DEF Insert, JobsInv, JobInv, NothingYet, CountsImages, Settled, Waits, Works, HasLeft, WorkerPcs, Ended
  <2> QED BY <2>1 DEF JobsInv, JobInv, NotBegun
<1>2. row'[j].plan = plan
  BY DEF Insert, NoRow, JobsInv, JobsTypeOK
<1>3. ASSUME NEW k \in JobIds, k # j PROVE row'[k].plan = row[k].plan
  BY <1>3 DEF Insert, JobsInv, JobsTypeOK
<1> QED BY <1>1, <1>2, <1>3

LEMMA PlansKept ==
  ASSUME JobsInv, JobsTypeOK', [JobsNext]_jobsVars
  PROVE  PlanInv'
<1>0. JobsTypeOK /\ PlanInv
  BY DEF JobsInv
<1>a. \A e \in Approvals : approval[e].left \in Nat
  BY <1>0 DEF JobsTypeOK, ApprovalRecords
<1>b. \A e \in Approvals : approval[e].left <= approval[e].left
  BY <1>a
<1>1. ASSUME NEW j \in JobIds, Start(j) PROVE PlanInv'
  <2>1. \A k \in JobIds : row'[k].plan = row[k].plan
    BY <1>1, NewRow DEF Start
  <2> QED BY <1>1, <1>b, <2>1, SamePlans DEF Start
<1>2. ASSUME NEW j \in JobIds, WorkerStep(j) \/ CancelRead(j) \/ (CancelWrite /\ cancelling = j)
      PROVE  PlanInv'
  <2>1. UNCHANGED <<held, approval>>
    BY <1>2
    DEF WorkerStep, GiveUp, Admit, Mark, Look, Draw, Record, Settle, Throw, Leave, Apart, CancelRead,
        CancelWrite
  <2>2. ASSUME NEW k \in JobIds PROVE row'[k].plan = row[k].plan
    <3>1. CASE k # j
      BY <1>0, <1>2, <3>1, OthersSame DEF SameJob
    <3>2. CASE k = j
      <4>1. CASE Record(j) \/ Settle(j)
        <5>1. /\ Recorded(j).plan = row[j].plan
              /\ \A s : [Recorded(j) EXCEPT !.state = s].plan = row[j].plan
          BY <1>0, Numbers DEF Recorded, RowRecords
        <5>2. row'[j] \in {Recorded(j), [Recorded(j) EXCEPT !.state = Outcome(j)]}
          BY <1>0, <4>1 DEF Record, Settle, JobsTypeOK
        <5>3. row'[j].plan = row[j].plan
          BY <5>1, <5>2
        <5> QED BY <3>2, <5>3
      <4>2. CASE ~(Record(j) \/ Settle(j))
        BY <1>0, <1>2, <3>2, <4>2, MovesOn
        DEF WorkerStep, GiveUp, Admit, Mark, Look, Draw, Throw, Leave, CancelRead, CancelWrite
      <4> QED BY <4>1, <4>2
    <3> QED BY <3>1, <3>2
  <2> QED BY <1>b, <2>1, <2>2, SamePlans
<1>3. ASSUME NEW p \in Plans, Hold(p) PROVE PlanInv'
  <2>1. UNCHANGED <<row, approval>> /\ held' = held \cup {p}
    BY <1>3 DEF Hold
  <2>2. \A q \in Plans : Of(q)' = Of(q)
    BY <2>1 DEF Of
  <2>3. Of(p) = {} /\ \A e \in Approvals : approval[e].plan # p
    BY <1>3 DEF Hold, Of
  <2> QED BY <1>0, <2>1, <2>2, <2>3 DEF PlanInv
<1>4. ASSUME NEW e \in Approvals, NEW p \in Plans, Take(e, p) PROVE PlanInv'
  <2>1. /\ row' = row /\ held' = held \ {p} /\ approval[e].plan = NoPlan
        /\ approval'[e].plan = p /\ approval'[e].left = PlanSize
        /\ \A f \in Approvals : f # e => approval'[f] = approval[f]
    BY <1>0, <1>4 DEF Take, Idle, JobsTypeOK
  <2>2. \A q \in Plans : Of(q)' = Of(q)
    BY <2>1 DEF Of
  <2>3. Of(p) = {} /\ \A f \in Approvals : approval[f].plan # p
    BY <1>0, <1>4 DEF Take, PlanInv
  <2>4. Cardinality(Of(p)) = 0 /\ PlanSize \in Nat
    BY <2>3, FS_EmptySet, JobsAssumption
  <2>5. Cardinality(Of(p)) + PlanSize <= PlanSize
    BY <2>4
  <2>6. ASSUME NEW q \in Plans
        PROVE  /\ q \in held' => Of(q)' = {} /\ \A f \in Approvals : approval'[f].plan # q
               /\ \A f, g \in Approvals : approval'[f].plan = q /\ approval'[g].plan = q => f = g
               /\ Cardinality(Of(q)') <= PlanSize
    BY <1>0, <2>1, <2>2, <2>3 DEF PlanInv
  <2>7. ASSUME NEW q \in Plans, NEW f \in Approvals, approval'[f].plan = q
        PROVE  Cardinality(Of(q)') + approval'[f].left <= PlanSize
    <3>1. CASE f = e
      BY <2>1, <2>2, <2>5, <2>7, <3>1
    <3>2. CASE f # e
      BY <1>0, <2>1, <2>2, <2>7, <3>2 DEF PlanInv
    <3> QED BY <3>1, <3>2
  <2> QED BY <2>6, <2>7 DEF PlanInv
<1>5. ASSUME NEW e \in Approvals, StartFails(e) PROVE PlanInv'
  <2>1. ASSUME NEW f \in Approvals
        PROVE  approval'[f].plan = approval[f].plan /\ approval'[f].left <= approval[f].left
    BY <1>0, <1>5, <1>a DEF StartFails, JobsTypeOK, ApprovalRecords
  <2> QED BY <1>5, <2>1, SamePlans DEF StartFails
<1>6. ASSUME NEW e \in Approvals, NEW j \in JobIds, StartNext(e, j) PROVE PlanInv'
  <2> SUFFICES ASSUME NEW p, p = approval[e].plan PROVE PlanInv'
    OBVIOUS
  <2>1. p \in Plans \cup {NoPlan} /\ Insert(j, p) /\ UNCHANGED held /\ approval[e].left > 0
    BY <1>0, <1>6 DEF StartNext, JobsTypeOK, ApprovalRecords
  <2>2. /\ approval'[e].plan = p /\ approval'[e].left = approval[e].left - 1
        /\ \A f \in Approvals : f # e => approval'[f] = approval[f]
    BY <1>0, <1>6 DEF StartNext, JobsTypeOK, ApprovalRecords
  <2>3. /\ row[j].plan = NoPlan /\ row'[j].plan = p
        /\ \A k \in JobIds : k # j => row'[k].plan = row[k].plan
    BY <2>1, NewRow
  <2>4. CASE p = NoPlan
    <3>1. \A k \in JobIds : row'[k].plan = row[k].plan
      BY <2>3, <2>4
    <3>2. \A f \in Approvals :
            approval'[f].plan = approval[f].plan /\ approval'[f].left <= approval[f].left
      BY <1>a, <2>2
    <3> QED BY <2>1, <3>1, <3>2, SamePlans
  <2>5. CASE p \in Plans
    <3>1. Of(p)' = Of(p) \cup {j} /\ j \notin Of(p)
      BY <2>3, <2>5, JobsAssumption DEF Of
    <3>2. ASSUME NEW q \in Plans, q # p PROVE Of(q)' = Of(q)
      BY <2>3, <3>2, JobsAssumption DEF Of
    <3>3. Cardinality(Of(p)') = Cardinality(Of(p)) + 1 /\ Cardinality(Of(p)) \in Nat
      BY <2>5, <3>1, OfFinite, FS_AddElement
    <3>4. Cardinality(Of(p)) + approval[e].left <= PlanSize /\ PlanSize \in Nat
      BY <1>0, <2>5, JobsAssumption DEF PlanInv
    <3>5. /\ Cardinality(Of(p)') + approval'[e].left <= PlanSize
          /\ Cardinality(Of(p)') <= PlanSize
      BY <1>a, <2>1, <2>2, <3>3, <3>4
    <3>6. ASSUME NEW q \in Plans
          PROVE  /\ q \in held' => Of(q)' = {} /\ \A f \in Approvals : approval'[f].plan # q
                 /\ \A f, g \in Approvals : approval'[f].plan = q /\ approval'[g].plan = q => f = g
                 /\ Cardinality(Of(q)') <= PlanSize
      <4>1. CASE q = p
        BY <1>0, <2>1, <2>2, <2>5, <3>5, <4>1 DEF PlanInv
      <4>2. CASE q # p
        BY <1>0, <2>1, <2>2, <3>2, <4>2 DEF PlanInv
      <4> QED BY <4>1, <4>2
    <3>7. ASSUME NEW q \in Plans, NEW f \in Approvals, approval'[f].plan = q
          PROVE  Cardinality(Of(q)') + approval'[f].left <= PlanSize
      <4>1. CASE f = e
        BY <2>2, <3>5, <3>7, <4>1
      <4>2. CASE f # e
        <5>1. approval[f].plan = q /\ q # p
          BY <1>0, <2>2, <2>5, <3>7, <4>2 DEF PlanInv
        <5> QED BY <1>0, <2>2, <3>2, <4>2, <5>1 DEF PlanInv
      <4> QED BY <4>1, <4>2
    <3> QED BY <3>6, <3>7 DEF PlanInv
  <2> QED BY <2>1, <2>4, <2>5
<1>7. CASE BackendEnds
  <2>1. ASSUME NEW k \in JobIds PROVE row'[k].plan = row[k].plan
    BY <1>0, <1>7, Numbers DEF BackendEnds, RowRecords
  <2>2. ASSUME NEW f \in Approvals
        PROVE  approval'[f].plan = approval[f].plan /\ approval'[f].left <= approval[f].left
    BY <1>0, <1>7, <1>a DEF BackendEnds, JobsTypeOK, ApprovalRecords
  <2> QED BY <1>7, <2>1, <2>2, SamePlans DEF BackendEnds
<1>8. CASE UNCHANGED jobsVars
  BY <1>8, <1>b, SamePlans DEF jobsVars
<1>9. CASE CancelWrite
  <2>1. cancelling \in JobIds
    BY <1>0, <1>9 DEF CancelWrite, Unlocked, JobsTypeOK
  <2> QED BY <1>2, <1>9, <2>1
<1> QED
  BY <1>1, <1>2, <1>3, <1>4, <1>5, <1>6, <1>7, <1>8, <1>9 DEF JobsNext

-----------------------------------------------------------------------------
(* The theorems.                                                           *)

LEMMA JobsInvInit == JobsInit => JobsInv
<1> SUFFICES ASSUME JobsInit PROVE JobsInv
  OBVIOUS
<1>1. JobsTypeOK
  BY DEF JobsInit, JobsTypeOK, NoRow, NoWorker, Idle, RowRecords, WorkerRecords, ApprovalRecords,
         JobStates, WorkerPcs
<1>2. ASSUME NEW j \in JobIds
      PROVE  /\ worker[j] = NoWorker /\ row[j] = NoRow /\ images[j] = 0
             /\ asked = {} /\ early = {} /\ cancelling # j
  BY DEF JobsInit, JobIds
<1>3. ASSUME NEW j \in JobIds PROVE JobInv(j)
  BY <1>2
  DEF NoWorker, NoRow, JobInv, NotBegun, NothingYet, CountsImages, Settled, Remembered, Undrawn, Promised,
      Waits, Works, HasLeft
<1>4. GateInv
  BY <1>2 DEF NoWorker, GateInv, AtGate
<1>5. PlanInv
  <2>1. \A p \in Plans : Of(p) = {}
    BY <1>2, JobsAssumption DEF NoRow, Of
  <2>2. Cardinality({}) = 0 /\ PlanSize \in Nat
    BY FS_EmptySet, JobsAssumption
  <2>3. held = {} /\ \A e \in Approvals : approval[e].plan = NoPlan
    BY DEF JobsInit, Idle
  <2> QED BY <2>1, <2>2, <2>3, JobsAssumption DEF PlanInv
<1> QED BY <1>1, <1>3, <1>4, <1>5 DEF JobsInv

LEMMA JobsInvStep == JobsInv /\ [JobsNext]_jobsVars => JobsInv'
<1> SUFFICES ASSUME JobsInv, [JobsNext]_jobsVars PROVE JobsInv'
  OBVIOUS
<1>1. JobsTypeOK'
  BY JobsTypeStep DEF JobsInv
<1> QED BY <1>1, JobsKept, GateKept, PlansKept DEF JobsInv

THEOREM JobsInvariant == JobsSpec => []JobsInv
BY JobsInvInit, JobsInvStep, PTL DEF JobsSpec

\* The types of Jobs hold in every reachable state.
THEOREM JobsAreTyped == JobsSpec => []JobsTypeOK
<1>1. JobsInv => JobsTypeOK
  BY DEF JobsInv
<1> QED BY <1>1, JobsInvariant, PTL

\* However many batches there are and however they end, one at most has the
\* gate (studiojob._GEN_GATE).
THEOREM GateIsExclusive == JobsSpec => []OneGenerates
<1>1. JobsInv => OneGenerates
  BY DEF JobsInv, GateInv, OneGenerates
<1> QED BY <1>1, JobsInvariant, PTL

\* A cancellation that was accepted is never answered by done or partial,
\* whenever it came (studiojob.cancel, the end of _run_locked).
THEOREM CancelIsKept == JobsSpec => []CancelIsHonoured
<1>1. JobsInv => CancelIsHonoured
  BY DEF JobsInv, JobInv, Settled, HasLeft, CancelIsHonoured, JobsTypeOK
<1> QED BY <1>1, JobsInvariant, PTL

\* A batch cancelled while pending leaves no image (studiojob._run).
THEOREM CancelledStaysEmpty == JobsSpec => []CancelledDrawsNothing
<1>1. JobsInv => CancelledDrawsNothing
  BY DEF JobsInv, JobInv, Undrawn, CancelledDrawsNothing, JobsTypeOK
<1> QED BY <1>1, JobsInvariant, PTL

\* What the row of an ended batch says of its images is true, but for the one
\* that was being recorded (_run_locked, recover_interrupted).
THEOREM RowIsTrue == JobsSpec => []RowTellsOfImages
<1>1. JobsInv => RowTellsOfImages
  BY DEF JobsInv, JobInv, Settled, HasLeft, RowTellsOfImages
<1> QED BY <1>1, JobsInvariant, PTL

\* A plan's batches are started once, however many requests approve it
\* (batchreview.take, actions._studio_batch).
THEOREM PlanIsTakenOnce == JobsSpec => []PlanRunsOnce
<1>1. JobsInv => PlanRunsOnce
  BY DEF JobsInv, PlanInv, Of, PlanRunsOnce
<1> QED BY <1>1, JobsInvariant, PTL

LEMMA EndedStays ==
  ASSUME JobsInv, [JobsNext]_jobsVars, NEW j \in JobIds, row[j].state \in Ended
  PROVE  row'[j] = row[j] \/ TakenBack(j) \/ WrittenOver(j)
<1>0. JobsTypeOK /\ JobInv(j) /\ row[j] \in RowRecords
  BY Numbers DEF JobsInv
<1>1. [row[j] EXCEPT !.state = "cancelled"] = row[j] \/ row[j].state # "cancelled"
  BY <1>0 DEF RowRecords
<1>2. ASSUME NEW k \in JobIds, NEW plan \in Plans \cup {NoPlan}, Insert(k, plan)
      PROVE  row'[j] = row[j]
  BY <1>0, <1>2, OthersSame DEF Insert, SameJob, Ended
<1>3. ASSUME NEW k \in JobIds, k # j,
             WorkerStep(k) \/ CancelRead(k) \/ (CancelWrite /\ cancelling = k)
      PROVE  row'[j] = row[j]
  BY <1>0, <1>3, OthersSame DEF SameJob
<1>4. CASE GiveUp(j) \/ Admit(j)
  <2>1. row[j].state = "cancelled"
    BY <1>0, <1>4 DEF GiveUp, Admit, JobInv, NothingYet, Waits, Ended
  <2>2. row' = row \/ SetState(j, "cancelled")
    BY <1>4 DEF GiveUp, Admit
  <2> QED BY <1>0, <1>1, <2>1, <2>2 DEF SetState, JobsTypeOK
<1>5. CASE Mark(j) \/ Throw(j) \/ Record(j) \/ Settle(j)
  BY <1>0, <1>5
  DEF Mark, Throw, Record, Settle, JobInv, NothingYet, CountsImages, Waits, Works, AtGate, Ended,
      TakenBack
<1>6. CASE Look(j) \/ Leave(j) \/ \E ok \in BOOLEAN : Draw(j, ok)
  BY <1>6 DEF Look, Leave, Draw
<1>7. CASE CancelRead(j)
  BY <1>7 DEF CancelRead
<1>12. CASE CancelWrite /\ cancelling = j
  <2>1. row'[j] = [row[j] EXCEPT !.state = "cancelled"]
    BY <1>0, <1>12 DEF CancelWrite, SetState, JobsTypeOK
  <2>2. row[j].state \in {"cancelled", "error"}
    <3>1. j \in early /\ j \in asked
      BY <1>0, <1>12 DEF JobInv, Promised, Undrawn
    <3> QED
      BY <1>0, <3>1, Numbers
      DEF JobInv, NotBegun, NothingYet, CountsImages, Settled, Waits, Works, HasLeft, WorkerPcs, Ended
  <2> QED BY <1>1, <1>12, <2>1, <2>2 DEF WrittenOver
<1>8. CASE BackendEnds
  BY <1>8 DEF BackendEnds, Ended
<1>9. ASSUME NEW k \in JobIds,
             Start(k) \/ WorkerStep(k) \/ CancelRead(k) \/ (CancelWrite /\ cancelling = k)
      PROVE  row'[j] = row[j] \/ TakenBack(j) \/ WrittenOver(j)
  BY <1>2, <1>3, <1>4, <1>5, <1>6, <1>7, <1>9, <1>12 DEF Start, WorkerStep
<1>13. CASE CancelWrite
  <2>1. cancelling \in JobIds
    BY <1>0, <1>13 DEF CancelWrite, Unlocked, JobsTypeOK
  <2> QED BY <1>9, <1>13, <2>1
<1>10. ASSUME NEW e \in Approvals, NEW k \in JobIds, StartNext(e, k) PROVE row'[j] = row[j]
  <2>1. approval[e].plan \in Plans \cup {NoPlan} /\ Insert(k, approval[e].plan)
    BY <1>0, <1>10 DEF StartNext, JobsTypeOK, ApprovalRecords
  <2> QED BY <1>2, <2>1
<1>11. CASE row' = row
  BY <1>11
<1> QED
  BY <1>8, <1>9, <1>10, <1>11, <1>13 DEF JobsNext, Hold, Take, StartFails, jobsVars

\* What is said of a batch that has ended stays, except a `cancelled` its own
\* thread writes over in the window between its look and `running`, and an
\* `error` that a cancellation writes over which read `pending` before it.
THEOREM EndedIsEnded == JobsSpec => EndsOnce
<1>1. JobsInv /\ [JobsNext]_jobsVars =>
        [\A j \in JobIds : row[j].state \in Ended =>
          row'[j] = row[j] \/ TakenBack(j) \/ WrittenOver(j)]_jobsVars
  BY EndedStays
<1> QED BY <1>1, JobsInvariant, PTL DEF JobsSpec, EndsOnce

\* Types, one batch at the gate, rows that tell the truth.
THEOREM JobsAreSound == JobsSpec => []JobsSound
BY JobsAreTyped, GateIsExclusive, RowIsTrue, PTL DEF JobsSound

\* A cancellation holds wherever it met the batch.
THEOREM CancelsStand == JobsSpec => []CancelsHold
BY CancelIsKept, CancelledStaysEmpty, PTL DEF CancelsHold

=============================================================================
