------------------------------- MODULE Turns -------------------------------
(***************************************************************************)
(* The agent's turns in one conversation (pyserver/app/session.py), the    *)
(* permission prompts of their tools (permits.py) and the batches they     *)
(* start (agent.py).                                                       *)
(*                                                                         *)
(* A turn is a coroutine on the backend's one event loop; what it does     *)
(* between two awaits is one step.  Requests of the panel (중단, an answer *)
(* to a prompt, carrying the conversation to another chat) run on threads, *)
(* and so does a tool that starts a batch: it goes on when its turn is     *)
(* over.  A prompt sent while a turn runs stops that turn and waits for    *)
(* its end, 20 seconds at most.  Where threads come in before an await it  *)
(* is split: run reads the chat and enters _ACTIVE later, a move looks at  *)
(* _ACTIVE and updates the chat later.                                     *)
(***************************************************************************)
EXTENDS Naturals

CONSTANTS
  MaxTurns,     \* bound: prompts sent in the conversation
  MaxPrompts,   \* bound: permission prompts asked
  MaxEvents     \* bound: permissions asked, batches begun, presses of 중단,
                \* moves of the conversation, ends of the backend, waits that
                \* time out and prompts sent while one waits, all together

ASSUME TurnsAssumption == {MaxTurns, MaxPrompts, MaxEvents} \subseteq Nat

Turns == 1 .. MaxTurns
Prompts == 1 .. MaxPrompts
Kinds == {"shell", "studio_batch"}   \* "pip" is asked and answered as "shell" is

VARIABLES
  turn,      \* the turns, in the order their prompts were sent
  active,    \* the turn whose event _ACTIVE holds, 0 if none
  stopped,   \* the conversation is in _STOPPED
  stopper,   \* a POST /agent/stop between its two statements
  hist,      \* the newest history row: its place, and the turns it tells of
  place,     \* how often the conversation was moved: where it is now
  moving,    \* POSTs /session/move past their look at _ACTIVE, before their UPDATE
  prompt,    \* the permission prompts
  always,    \* permits._always, with the turn in which each was given
  batch,     \* of each turn: the image batch it starts, and the tool's thread
  noted,     \* _JOBS: turns whose batch 중단 will cancel
  orderly,   \* history: no turn outlived a wait, no prompt came while one waited
  events     \* how much of MaxEvents is used up

turnsVars ==
  <<turn, active, stopped, stopper, hist, place, moving, prompt, always, batch, noted, orderly,
    events>>

(***************************************************************************)
(* A turn.  `reading` has read its chat and is not in _ACTIVE yet;         *)
(* `waiting` is in _supersede; `closing` has an exception and waits for a  *)
(* tool that cannot be cut short; `lost` ended with the backend.  `prev`   *)
(* is the turn it waited for, `since` and `base` are the history it read,  *)
(* `chat` where it acts, and `told` that it was running when 중단 reached  *)
(* the backend.  `crossed` is history: when it entered _ACTIVE the         *)
(* conversation had been moved since it read the chat, or a move was on    *)
(* its way, past its look.                                                 *)
(***************************************************************************)
TurnPcs == {"none", "reading", "waiting", "running", "closing", "over", "lost"}
Reading == {i \in Turns : turn[i].pc = "reading"}
Live == {i \in Turns : turn[i].pc \in {"running", "closing"}}
Waiting == {i \in Turns : turn[i].pc = "waiting"}
TurnRecords ==
  [pc : TurnPcs, prev : {0} \cup Turns, since : Nat, base : SUBSET Turns,
   chat : Nat, crossed : BOOLEAN, told : BOOLEAN]
NoTurn == [pc |-> "none", prev |-> 0, since |-> 0, base |-> {}, chat |-> 0, crossed |-> FALSE,
           told |-> FALSE]

(***************************************************************************)
(* A prompt.  `pc` is the tool's: it waits, carries the thing out, is      *)
(* refused, or is cut off with its turn.  `open` is being in _pending;     *)
(* `standing` that nobody was asked.                                       *)
(***************************************************************************)
PromptPcs == {"none", "waiting", "ran", "refused", "cut"}
PromptRecords ==
  [pc : PromptPcs, turn : {0} \cup Turns, kind : Kinds, open : BOOLEAN,
   decided : BOOLEAN, allow : BOOLEAN, standing : BOOLEAN]
NoPrompt == [pc |-> "none", turn |-> 0, kind |-> "shell", open |-> FALSE,
             decided |-> FALSE, allow |-> FALSE, standing |-> FALSE]

(***************************************************************************)
(* A batch.  `thread` is _studio_generate_one: past its look at the stop   *)
(* flag, past studiojob.start, polling the job, or returned.  The job is   *)
(* `over` when it is cancelled, too.  `missed` is that the turn was told   *)
(* to stop before the batch was noted, or that a prompt began a new turn,  *)
(* and forgot the noted batches, while 중단 was on its way to them.        *)
(***************************************************************************)
BatchStates == {"none", "live", "over"}
ThreadPcs == {"idle", "checked", "started", "polls", "gone"}
BatchRecords == [job : BatchStates, thread : ThreadPcs, waits : BOOLEAN, missed : BOOLEAN]
NoBatch == [job |-> "none", thread |-> "idle", waits |-> FALSE, missed |-> FALSE]
Busy(i) == batch[i].thread \in {"checked", "started", "polls"}

\* A turn waits for one that was sent, _ACTIVE holds one, and the types of the rest.
TurnsTypeOK ==
  /\ turn \in [Turns -> TurnRecords]
  /\ active \in {0} \cup Turns
  /\ stopped \in BOOLEAN
  /\ stopper \in BOOLEAN
  /\ hist \in [seq : Nat, heard : SUBSET Turns]
  /\ place \in Nat
  /\ moving \in Nat
  /\ prompt \in [Prompts -> PromptRecords]
  /\ always \in SUBSET (Kinds \X Turns)
  /\ batch \in [Turns -> BatchRecords]
  /\ noted \in SUBSET Turns
  /\ orderly \in BOOLEAN
  /\ events \in Nat

TurnsInit ==
  /\ turn = [i \in Turns |-> NoTurn]
  /\ active = 0
  /\ stopped = FALSE
  /\ stopper = FALSE
  /\ hist = [seq |-> 0, heard |-> {}]
  /\ place = 0
  /\ moving = 0
  /\ prompt = [r \in Prompts |-> NoPrompt]
  /\ always = {}
  /\ batch = [i \in Turns |-> NoBatch]
  /\ noted = {}
  /\ orderly = TRUE
  /\ events = 0

Count == events < MaxEvents /\ events' = events + 1

-----------------------------------------------------------------------------
(* Starting a turn.                                                        *)

\* session.stop sets the flag; a turn that runs is told, one that waits is not.
Tell(t) == [j \in Turns |-> IF t[j].pc = "running" THEN [t[j] EXCEPT !.told = TRUE] ELSE t[j]]
CancelNoted ==
  batch' = [j \in Turns |-> IF j \in noted /\ batch[j].job = "live"
                            THEN [batch[j] EXCEPT !.job = "over"] ELSE batch[j]]

\* The event loop is not between two statements of run: no coroutine takes a step
\* until the turn that has read its chat is in _ACTIVE.
LoopFree == Reading = {}

\* run, from the end of _supersede to the first await: the turn is the active
\* one, reads the history, and clears the flag and the noted batches.
Crossed(r) == moving # 0 \/ r.chat # place
BegunUnread(r) == [r EXCEPT !.pc = "running", !.base = hist.heard, !.crossed = Crossed(r)]
Begun(r) ==
  [r EXCEPT !.pc = "running", !.since = hist.seq, !.base = hist.heard, !.crossed = Crossed(r)]
BeginRest(i) ==
  /\ active' = i
  /\ stopped' = FALSE
  /\ noted' = {}
  /\ batch' = [j \in Turns |-> IF stopper /\ j \in noted
                                THEN [batch[j] EXCEPT !.missed = TRUE] ELSE batch[j]]

\* The next prompt of the conversation, from any panel.
IsNext(i) == LoopFree /\ turn[i].pc = "none" /\ \A j \in Turns : j < i => turn[j].pc # "none"
Sent == [NoTurn EXCEPT !.chat = place]
NoneWaited ==
  \/ Waiting = {} /\ UNCHANGED <<orderly, events>>
  \/ Waiting # {} /\ orderly' = FALSE /\ Count

\* POST /chat with no turn to wait for: run reads the chat of the conversation ...
ReadChat(i) ==
  /\ IsNext(i)
  /\ active = 0
  /\ turn' = [turn EXCEPT ![i] = [Sent EXCEPT !.pc = "reading"]]
  /\ NoneWaited
  /\ UNCHANGED <<active, stopped, stopper, hist, place, moving, prompt, always, batch,
                 noted>>

\* ... and enters _ACTIVE; no await is between the two, but threads go on.
Begin(i) ==
  /\ i \in Reading
  /\ turn' = [turn EXCEPT ![i] = Begun(turn[i])]
  /\ BeginRest(i)
  /\ UNCHANGED <<stopper, hist, place, moving, prompt, always, orderly, events>>

\* POST /chat while a turn runs: it reads the chat, and _supersede stops that turn
\* and waits; a move carried out between the two might as well come in the wait.
SendOver(i) ==
  /\ IsNext(i)
  /\ active # 0
  /\ turn' = [Tell(turn) EXCEPT ![i] = [Sent EXCEPT !.pc = "waiting", !.prev = active]]
  /\ stopped' = TRUE
  /\ CancelNoted
  /\ noted' = {}
  /\ NoneWaited
  /\ UNCHANGED <<active, stopper, hist, place, moving, prompt, always>>

ResumeAnyTime(i) ==
  /\ LoopFree
  /\ i \in Waiting
  /\ turn' = [turn EXCEPT ![i] = Begun(turn[i])]
  /\ BeginRest(i)
  /\ UNCHANGED <<stopper, hist, place, moving, prompt, always, orderly, events>>

\* The turn waited for has set its event.
Resume(i) ==
  /\ LoopFree
  /\ i \in Waiting
  /\ turn[i].prev \notin Live
  /\ turn' = [turn EXCEPT ![i] = Begun(turn[i])]
  /\ BeginRest(i)
  /\ UNCHANGED <<stopper, hist, place, moving, prompt, always, orderly, events>>

\* SUPERSEDE_WAIT_S have passed.  A turn that sees the flag does so in a second.
TimeOut(i) ==
  /\ LoopFree
  /\ i \in Waiting
  /\ turn[i].prev \in Live
  /\ ~(stopped /\ turn[turn[i].prev].pc = "running")
  /\ turn' = [turn EXCEPT ![i] = Begun(turn[i])]
  /\ BeginRest(i)
  /\ Count
  /\ orderly' = FALSE
  /\ UNCHANGED <<stopper, hist, place, moving, prompt, always>>

-----------------------------------------------------------------------------
(* Ending a turn.                                                          *)

\* The `finally` of run: permits.end_turn, and _ACTIVE is given up by its owner.
EndTurn(i) ==
  /\ always' = {}
  /\ active' = IF active = i THEN 0 ELSE active
Closed(p) == [p EXCEPT !.open = FALSE, !.decided = FALSE, !.allow = FALSE]
EndPromptsNever == UNCHANGED prompt
EndPrompts == prompt' = [r \in Prompts |-> Closed(prompt[r])]
Gone(pc) == [NoTurn EXCEPT !.pc = pc]

\* The model is done: the history is stored whatever was stored meanwhile.
Finish(i) ==
  /\ LoopFree
  /\ turn[i].pc = "running"
  /\ \A r \in Prompts : prompt[r].turn = i => prompt[r].pc # "waiting"
  /\ ~Busy(i)
  /\ turn' = [turn EXCEPT ![i] = Gone("over")]
  /\ hist' = [seq |-> hist.seq + 1, heard |-> turn[i].base \cup {i}]
  /\ EndPrompts
  /\ EndTurn(i)
  /\ UNCHANGED <<stopped, stopper, place, moving, batch, noted, orderly, events>>

\* The provider fails, or the loop sees the flag (TurnStopped): the tools that
\* wait on the event loop are cancelled.
CutTools(i) ==
  prompt' = [r \in Prompts |-> IF prompt[r].turn = i /\ prompt[r].pc = "waiting"
                               THEN [prompt[r] EXCEPT !.pc = "cut"] ELSE prompt[r]]
Break(i) ==
  /\ LoopFree
  /\ turn' = [turn EXCEPT ![i].pc = "closing"]
  /\ CutTools(i)
  /\ UNCHANGED <<active, stopped, stopper, hist, place, moving, always, batch, noted,
                 orderly, events>>
Fail(i) == turn[i].pc = "running" /\ Break(i)
HearStop(i) == turn[i].pc = "running" /\ stopped /\ Break(i)

\* `except` and `finally`: _save_partial_history stores the cut-off turn unless
\* a row was stored since it began; the flag is set for tools still in threads.
SavePartial(i) ==
  hist' = IF hist.seq # turn[i].since THEN hist
          ELSE [seq |-> hist.seq + 1, heard |-> turn[i].base \cup {i}]
Close(i) ==
  /\ LoopFree
  /\ turn[i].pc = "closing"
  /\ turn' = [turn EXCEPT ![i] = Gone("over")]
  /\ stopped' = TRUE
  /\ SavePartial(i)
  /\ EndPrompts
  /\ EndTurn(i)
  /\ UNCHANGED <<stopper, place, moving, batch, noted, orderly, events>>

-----------------------------------------------------------------------------
(* Permission prompts.                                                     *)

Standing(k) == k # "studio_batch" /\ \E j \in Turns : <<k, j>> \in always

\* _permitted: the tool of a running turn asks, unless the kind stands allowed.
Permit(i, r, k) ==
  /\ LoopFree
  /\ Count
  /\ turn[i].pc = "running"
  /\ prompt[r].pc = "none" /\ \A q \in Prompts : q < r => prompt[q].pc # "none"
  /\ prompt' = [prompt EXCEPT ![r] =
       [NoPrompt EXCEPT !.turn = i, !.kind = k, !.pc = IF Standing(k) THEN "ran" ELSE "waiting",
                        !.open = TRUE, !.decided = Standing(k), !.allow = Standing(k),
                        !.standing = Standing(k)]]
  /\ UNCHANGED <<turn, active, stopped, stopper, hist, place, moving, always, batch,
                 noted, orderly>>

\* POST /permits/decide, of a prompt that was shown and is still there: the last
\* answer counts.
Decide(r, allow, forTurn) ==
  /\ prompt[r].open /\ ~prompt[r].standing
  /\ prompt' = [prompt EXCEPT ![r].decided = TRUE, ![r].allow = allow]
  /\ always' = IF forTurn /\ allow /\ prompt[r].kind # "studio_batch"
               THEN always \cup {<<prompt[r].kind, prompt[r].turn>>} ELSE always
  /\ UNCHANGED <<turn, active, stopped, stopper, hist, place, moving, batch, noted,
                 orderly, events>>

\* decision: the tool finds the answer, or its prompt gone with another turn.
Poll(r) ==
  /\ LoopFree
  /\ prompt[r].pc = "waiting"
  /\ prompt[r].open => prompt[r].decided
  /\ prompt' = [prompt EXCEPT ![r] =
       [Closed(@) EXCEPT !.pc = IF prompt[r].open /\ prompt[r].allow THEN "ran" ELSE "refused"]]
  /\ UNCHANGED <<turn, active, stopped, stopper, hist, place, moving, always, batch,
                 noted, orderly, events>>

\* WAIT_S have passed: refused, even if the answer came since the last look.
Expire(r) ==
  /\ LoopFree
  /\ prompt[r].pc = "waiting"
  /\ prompt' = [prompt EXCEPT ![r] = [Closed(@) EXCEPT !.pc = "refused"]]
  /\ UNCHANGED <<turn, active, stopped, stopper, hist, place, moving, always, batch,
                 noted, orderly, events>>

-----------------------------------------------------------------------------
(* Image batches.  The thread survives the turn it belongs to.             *)

PutBatch(i, b) ==
  /\ batch' = [batch EXCEPT ![i] = b]
  /\ UNCHANGED <<turn, active, stopped, stopper, hist, place, moving, prompt, always>>

\* studio_generate looks at the flag, in a turn that runs ...
CheckStop(i, waits) ==
  /\ turn[i].pc = "running"
  /\ batch[i].thread = "idle"
  /\ ~stopped
  /\ PutBatch(i, [batch[i] EXCEPT !.thread = "checked", !.waits = waits])
  /\ Count
  /\ UNCHANGED <<noted, orderly>>

\* ... the thread starts the job, or goes no further ...
StartJob(i) ==
  /\ batch[i].thread = "checked"
  /\ \/ PutBatch(i, [batch[i] EXCEPT !.thread = "started", !.job = "live"])
     \/ PutBatch(i, [batch[i] EXCEPT !.thread = "gone"])
  /\ UNCHANGED <<noted, orderly, events>>

\* ... tells the conversation of it (note_job), and waits for it if it is to.
NoteJob(i) ==
  /\ batch[i].thread = "started"
  /\ noted' = noted \cup {i}
  /\ PutBatch(i, [batch[i] EXCEPT !.thread = IF batch[i].waits THEN "polls" ELSE "gone",
                                  !.missed = turn[i].told])
  /\ UNCHANGED <<orderly, events>>

\* The waiting tool sees the flag and cancels its batch.
ThreadHears(i) ==
  /\ batch[i].thread = "polls"
  /\ stopped
  /\ PutBatch(i, [batch[i] EXCEPT !.thread = "gone",
                                  !.job = IF @ = "live" THEN "over" ELSE @])
  /\ UNCHANGED <<noted, orderly, events>>

\* The waiting tool sees that the batch has ended.
ThreadReturns(i) ==
  /\ batch[i].thread = "polls"
  /\ batch[i].job # "live"
  /\ PutBatch(i, [batch[i] EXCEPT !.thread = "gone"])
  /\ UNCHANGED <<noted, orderly, events>>

\* The batch comes to its end.
JobEnds(i) ==
  /\ batch[i].job = "live"
  /\ PutBatch(i, [batch[i] EXCEPT !.job = "over"])
  /\ UNCHANGED <<noted, orderly, events>>

-----------------------------------------------------------------------------
(* 중단, moving the conversation, the end of the backend.                  *)

\* POST /agent/stop sets the flag, then takes the noted batches and cancels them.
Stop ==
  /\ Count
  /\ ~stopper
  /\ stopper' = TRUE
  /\ stopped' = TRUE
  /\ turn' = Tell(turn)
  /\ UNCHANGED <<active, hist, place, moving, prompt, always, batch, noted, orderly>>

StopJobsClears ==
  /\ stopper
  /\ stopper' = FALSE
  /\ stopped' = FALSE
  /\ CancelNoted
  /\ noted' = {}
  /\ UNCHANGED <<turn, active, hist, place, moving, prompt, always, orderly, events>>

StopJobs ==
  /\ stopper
  /\ stopper' = FALSE
  /\ CancelNoted
  /\ noted' = {}
  /\ UNCHANGED <<turn, active, stopped, hist, place, moving, prompt, always, orderly,
                 events>>

MoveLookAnyTime ==
  /\ Count
  /\ moving' = moving + 1
  /\ UNCHANGED <<turn, active, stopped, stopper, hist, place, prompt, always, batch,
                 noted, orderly>>

\* POST /session/move is refused while a turn is active: it looks ...
MoveLook ==
  /\ Count
  /\ active = 0
  /\ moving' = moving + 1
  /\ UNCHANGED <<turn, active, stopped, stopper, hist, place, prompt, always, batch,
                 noted, orderly>>

\* ... and after two queries of the places it updates the session.
MoveUpdate ==
  /\ moving # 0
  /\ moving' = moving - 1
  /\ place' = place + 1
  /\ UNCHANGED <<turn, active, stopped, stopper, hist, prompt, always, batch,
                 noted, orderly, events>>

\* The backend ends and starts again: what is in memory is gone, and
\* recover_interrupted marks the batches it finds.
Restart ==
  /\ Count
  /\ turn' = [i \in Turns |-> IF turn[i].pc \in {"none", "over"} THEN turn[i]
                              ELSE Gone("lost")]
  /\ active' = 0
  /\ stopped' = FALSE
  /\ stopper' = FALSE
  /\ moving' = 0
  /\ prompt' = [r \in Prompts |->
       [Closed(prompt[r]) EXCEPT !.pc = IF @ = "waiting" THEN "cut" ELSE @]]
  /\ always' = {}
  /\ batch' = [i \in Turns |->
       [batch[i] EXCEPT !.thread = "gone", !.job = IF @ = "live" THEN "over" ELSE @]]
  /\ noted' = {}
  /\ UNCHANGED <<hist, place, orderly>>

-----------------------------------------------------------------------------
TurnSteps(i) ==
  \/ ReadChat(i) \/ Begin(i) \/ SendOver(i) \/ Resume(i) \/ TimeOut(i)
  \/ Finish(i) \/ Fail(i) \/ HearStop(i) \/ Close(i)
PromptSteps(r) ==
  \/ \E i \in Turns, k \in Kinds : Permit(i, r, k)
  \/ \E allow, forTurn \in BOOLEAN : Decide(r, allow, forTurn)
  \/ Poll(r) \/ Expire(r)
BatchSteps(i) ==
  \/ \E waits \in BOOLEAN : CheckStop(i, waits)
  \/ StartJob(i) \/ NoteJob(i) \/ ThreadHears(i) \/ ThreadReturns(i) \/ JobEnds(i)

TurnsNext ==
  \/ \E i \in Turns : TurnSteps(i) \/ BatchSteps(i)
  \/ \E r \in Prompts : PromptSteps(r)
  \/ Stop \/ StopJobs \/ MoveLook \/ MoveUpdate \/ Restart

(***************************************************************************)
(* The event loop runs what is due: code without an await is carried to    *)
(* its end, a wait ends or times out, the loop of run looks at the flag    *)
(* once a second, a tool in a thread has a timeout of its own or looks at  *)
(* the flag, a handler comes to its end.  Nothing is said of the model, of *)
(* the user, or of a batch.                                                *)
(***************************************************************************)
TurnsFairness ==
  /\ \A i \in Turns :
       /\ WF_turnsVars(Begin(i))
       /\ WF_turnsVars(Resume(i) \/ TimeOut(i))
       /\ WF_turnsVars(HearStop(i))
       /\ WF_turnsVars(Close(i))
       /\ WF_turnsVars(ThreadHears(i))
  /\ WF_turnsVars(StopJobs)

TurnsSpec == TurnsInit /\ [][TurnsNext]_turnsVars /\ TurnsFairness

-----------------------------------------------------------------------------
(***************************************************************************)
(* A conversation is orderly while no turn outlives the wait of its        *)
(* successor and no prompt is sent while another waits; after that several *)
(* turns may run at once (session._supersede).                             *)
(***************************************************************************)

\* One turn per session at a time: a prompt sent while a turn runs starts only
\* when that turn has stored what it did (session._supersede).
OneTurnAtATime == orderly => \A i, j \in Live : i = j

\* What was asked and done in a turn that came to an end, finished, failed or
\* stopped, is in the history the next turn starts from, also after the end of
\* the backend: no other turn's history is put over it (_save_partial_history,
\* the `since` of run, and the order in which a turn stores and gives way).
EndedIsHeard == orderly => \A i \in Turns : turn[i].pc = "over" => i \in hist.heard

\* 이번 턴 항상 허용 and a prompt nobody answered end with the turn: when no turn
\* runs nothing is allowed and nothing can be (permits.end_turn).
PromptsEndWithTurn ==
  Live = {} => always = {} /\ \A r \in Prompts : ~prompt[r].open

\* A command that nobody was asked about is one of a kind the user allowed for
\* the rest of that very turn, and never a batch (permits.request).
StandingIsOfThisTurn ==
  \A r \in Prompts : prompt[r].standing =>
    /\ prompt[r].kind # "studio_batch"
    /\ orderly => \E q \in Prompts : q < r /\ prompt[q].turn = prompt[r].turn
                                     /\ prompt[q].kind = prompt[r].kind

\* A turn that entered _ACTIVE where the conversation was, with no move on its way,
\* acts there to its end: every move that comes later is refused, whatever stops,
\* fails and is superseded (session.move).  A move past its look at _ACTIVE is not
\* held back by a turn that enters it then, nor by one that waits: those are the
\* turns that are `crossed`.
StaysWithItsChat ==
  orderly => \A i \in Live : ~turn[i].crossed => turn[i].chat = place /\ moving = 0

\* What holds of the turns of a conversation: their types, one turn at a time, and
\* that one, unless a move crossed its beginning, on the chat the conversation is at.
TurnsSound == TurnsTypeOK /\ OneTurnAtATime /\ StaysWithItsChat

\* No permission outlives its turn, asked for, answered or standing (permits).
PermissionsEndWithTurn == PromptsEndWithTurn /\ StandingIsOfThisTurn


\* 중단 pressed while a turn runs ends that turn, however the flag is set and
\* cleared by the turns around it (session.stop, the loop of run).
StopEndsTheTurn ==
  \A i \in Turns : turn[i].told ~> (turn[i].pc \in {"over", "lost"} \/ ~orderly)

\* 중단 ends the batches of the turn it stops: none of them runs on, unless it
\* was noted too late or forgotten too soon (session.stop, agent._studio_generate_one).
StopEndsTheBatch ==
  \A i \in Turns :
    (turn[i].told /\ batch[i].job = "live" /\ batch[i].thread # "started") ~>
      (batch[i].job # "live" \/ batch[i].missed \/ ~orderly)

\* A prompt that waits for the turn before it is started, whatever that turn
\* does (SUPERSEDE_WAIT_S), unless the backend ends.
WaitEnds == \A i \in Turns : turn[i].pc = "waiting" ~> turn[i].pc # "waiting"

\* 중단 and a new prompt get through: the turn ends, its batches end, and the
\* prompt that waits for them is started.
StopsAndWaitsEnd == StopEndsTheTurn /\ StopEndsTheBatch /\ WaitEnds

=============================================================================
