------------------------------- MODULE Bridge -------------------------------
(***************************************************************************)
(* The door a panel holds open for MCP clients (pyserver/app/mcpbridge.py, *)
(* plugin/src/mcp.ts, the host jobs of mcpserver.py).                      *)
(*                                                                         *)
(* A panel that was switched on polls: the backend holds the request until *)
(* there is a job or 20 seconds have passed.  The lease is alive while a   *)
(* poll is held or ended a moment ago; tool calls need it.  What only a    *)
(* panel can do is queued as a job and handed to the next poll.  Requests  *)
(* of a panel overtake one another, connections break, panels are closed   *)
(* and the backend ends, at any moment.                                    *)
(***************************************************************************)
EXTENDS Naturals, FiniteSets, Sequences

CONSTANTS
  Panels,       \* RisuAI windows with the plugin
  MaxPolls,     \* bound: poll requests that exist at once
  MaxJobs,      \* bound: jobs pushed
  MaxEvents,    \* bound: switches, moves and closings of panels, requests that
                \* fail, ends of the backend and calls that queue a job, all together
  NoPanel       \* the owner of an empty context

ASSUME BridgeAssumption ==
  {MaxPolls, MaxJobs, MaxEvents} \subseteq Nat /\ NoPanel \notin Panels

Polls == 1 .. MaxPolls
Jobs == 1 .. MaxJobs

VARIABLES
  enabled,   \* _state["enabled"]
  fresh,     \* pollAt is less than LEASE_S ago
  inFlight,  \* _state["inFlight"]
  context,   \* _state["context"]: whose, and the how-manieth of that panel
  queue,     \* _jobs
  panel,     \* the loop of each panel and the chat it has open
  hands,     \* jobs a panel was given and has not run yet
  poll,      \* the poll requests
  posts,     \* activate and deactivate requests on their way
  job,       \* what became of each job
  quiet,     \* history: no job was cleared or given to a poll nobody waits for
  events     \* how much of MaxEvents is used up

bridgeVars == <<enabled, fresh, inFlight, context, queue, panel, hands, poll,
                posts, job, quiet, events>>

(***************************************************************************)
(* A panel's loop is about to poll (`asks`), waits for its poll, was told  *)
(* that the backend is off and is about to switch it on (`again`), or runs *)
(* the jobs it was given.  `at` counts the chats it had open.              *)
(***************************************************************************)
Loops == {"off", "asks", "polls", "again", "runs", "closed"}
On(p) == panel[p].pc \notin {"off", "closed"}
Contexts == [of : Panels \cup {NoPanel}, at : Nat]
Nothing == [of |-> NoPanel, at |-> 0]
Context(p) == [of |-> p, at |-> panel[p].at]

(***************************************************************************)
(* A poll is on its way, held, or answered; `up` is its connection, `mine` *)
(* that the loop which sent it still runs.  A job of the queue is a host   *)
(* action, or all the file changes since the last poll in one.             *)
(***************************************************************************)
Entries == [files : BOOLEAN, of : SUBSET Jobs, for : Contexts]
PollRecords == [pc : {"none", "sent", "held", "answered"}, context : Contexts, up : BOOLEAN,
                mine : BOOLEAN, enabled : BOOLEAN, jobs : Seq(Entries)]
NoPoll == [pc |-> "none", context |-> Nothing, up |-> FALSE, mine |-> FALSE,
           enabled |-> FALSE, jobs |-> <<>>]
Posts == [on : BOOLEAN, context : Contexts]
JobStates == {"none", "admitted", "pushed", "run", "skipped"}

BridgeTypeOK ==
  /\ enabled \in BOOLEAN
  /\ fresh \in BOOLEAN
  /\ inFlight \in Nat
  /\ context \in Contexts
  /\ queue \in Seq(Entries)
  /\ panel \in [Panels -> [pc : Loops, at : Nat]]
  /\ hands \in [Panels -> Seq(Entries)]
  /\ poll \in [Polls -> PollRecords]
  /\ posts \in SUBSET Posts
  /\ job \in [Jobs -> [pc : JobStates, times : Nat, for : Contexts]]
  /\ quiet \in BOOLEAN
  /\ events \in Nat

BridgeInit ==
  /\ enabled = FALSE
  /\ fresh = FALSE
  /\ inFlight = 0
  /\ context = Nothing
  /\ queue = <<>>
  /\ panel = [p \in Panels |-> [pc |-> "off", at |-> 0]]
  /\ hands = [p \in Panels |-> <<>>]
  /\ poll = [n \in Polls |-> NoPoll]
  /\ posts = {}
  /\ job = [j \in Jobs |-> [pc |-> "none", times |-> 0, for |-> Nothing]]
  /\ quiet = TRUE
  /\ events = 0

Count == events < MaxEvents /\ events' = events + 1
GoTo(p, pc) == panel' = [panel EXCEPT ![p].pc = pc]

-----------------------------------------------------------------------------
(* The switch.                                                             *)

\* set_enabled(True): the lease begins, the context is the one that was sent.
\* It doubles as "update the context".
TurnOn(c) ==
  /\ enabled' = TRUE
  /\ fresh' = TRUE
  /\ context' = c
  /\ UNCHANGED <<inFlight, queue, quiet>>

\* set_enabled(False): the jobs and the context go.
TurnOff ==
  /\ enabled' = FALSE
  /\ fresh' = FALSE
  /\ context' = Nothing
  /\ queue' = <<>>
  /\ quiet' = (quiet /\ queue = <<>>)
  /\ UNCHANGED inFlight

\* activate: the loop starts once the backend has answered.
SwitchOn(p) ==
  /\ Count
  /\ panel[p].pc = "off"
  /\ TurnOn(Context(p))
  /\ GoTo(p, "asks")
  /\ UNCHANGED <<hands, poll, posts, job>>

\* The panel's requests are listened to no more; their connections stay.
Forsaken(p, up) ==
  [n \in Polls |-> IF poll[n].context.of = p
                   THEN [poll[n] EXCEPT !.mine = FALSE, !.up = @ /\ up] ELSE poll[n]]

\* deactivate: the loop ends with what it is doing, whatever the backend says.
SwitchOff(p) ==
  /\ Count
  /\ On(p)
  /\ GoTo(p, "off")
  /\ poll' = Forsaken(p, TRUE)
  /\ posts' = posts \cup {[on |-> FALSE, context |-> Context(p)]}
  /\ UNCHANGED <<enabled, fresh, inFlight, context, queue, hands, job, quiet>>

\* The window is closed: its requests break off, its jobs are not run; the last
\* deactivate may make it out of the page.
Close(p) ==
  /\ Count
  /\ panel[p].pc # "closed"
  /\ GoTo(p, "closed")
  /\ poll' = Forsaken(p, FALSE)
  /\ hands' = [hands EXCEPT ![p] = <<>>]
  /\ quiet' = (quiet /\ hands[p] = <<>> /\ \A n \in Polls : poll[n].context.of = p => poll[n].jobs = <<>>)
  /\ \/ UNCHANGED posts
     \/ On(p) /\ posts' = posts \cup {[on |-> FALSE, context |-> Context(p)]}
  /\ UNCHANGED <<enabled, fresh, inFlight, context, queue, job>>

\* Another bot, chat or tab is opened: it is sent at once, on its own.
OpenOther(p) ==
  /\ Count
  /\ On(p)
  /\ panel' = [panel EXCEPT ![p].at = @ + 1]
  /\ posts' = posts \cup {[on |-> TRUE, context |-> [of |-> p, at |-> panel[p].at + 1]]}
  /\ UNCHANGED <<enabled, fresh, inFlight, context, queue, hands, poll, job, quiet>>

\* POST /mcp/bridge/activate or deactivate arrives, in whatever order they were
\* sent, or never does.
Deliver(m) ==
  /\ m \in posts
  /\ posts' = posts \ {m}
  /\ IF m.on THEN TurnOn(m.context) ELSE TurnOff
  /\ UNCHANGED <<panel, hands, poll, job, events>>
Lose(m) ==
  /\ m \in posts
  /\ posts' = posts \ {m}
  /\ Count
  /\ UNCHANGED <<enabled, fresh, inFlight, context, queue, panel, hands, poll, job, quiet>>

-----------------------------------------------------------------------------
(* The poll.                                                               *)

\* The loop sends its poll, with what the panel has open.
Ask(p, n) ==
  /\ panel[p].pc = "asks"
  /\ poll[n].pc = "none" /\ \A k \in Polls : k < n => poll[k].pc # "none"
  /\ poll' = [poll EXCEPT ![n] = [NoPoll EXCEPT !.pc = "sent", !.context = Context(p),
                                                !.up = TRUE, !.mine = TRUE]]
  /\ GoTo(p, "polls")
  /\ UNCHANGED <<enabled, fresh, inFlight, context, queue, hands, posts, job, quiet, events>>

\* The backend is off and says so, or holds the poll.
Arrive(n) ==
  /\ poll[n].pc = "sent"
  /\ IF enabled
     THEN /\ context' = poll[n].context
          /\ fresh' = TRUE
          /\ inFlight' = inFlight + 1
          /\ poll' = [poll EXCEPT ![n].pc = "held"]
     ELSE /\ poll' = [poll EXCEPT ![n].pc = "answered"]
          /\ UNCHANGED <<context, fresh, inFlight>>
  /\ UNCHANGED <<enabled, queue, panel, hands, posts, job, quiet, events>>

ReturnCopies(n) ==
  /\ poll[n].pc = "held"
  /\ poll' = [poll EXCEPT ![n].pc = "answered", ![n].enabled = enabled, ![n].jobs = queue]
  /\ inFlight' = inFlight - 1
  /\ fresh' = TRUE
  /\ UNCHANGED <<enabled, context, queue, panel, hands, posts, job, quiet, events>>

\* There is a job, the switch is off, the proposals changed or HOLD_S are over:
\* the poll is answered with all jobs there are.  The connection is not looked
\* at on this way out.
Return(n) ==
  /\ poll[n].pc = "held"
  /\ poll' = [poll EXCEPT ![n].pc = "answered", ![n].enabled = enabled, ![n].jobs = queue]
  /\ queue' = <<>>
  /\ inFlight' = inFlight - 1
  /\ fresh' = TRUE
  /\ quiet' = (quiet /\ (queue = <<>> \/ (poll[n].up /\ poll[n].mine)))
  /\ UNCHANGED <<enabled, context, panel, hands, posts, job, events>>

GoneUncounted(n) ==
  /\ poll[n].pc = "held"
  /\ ~poll[n].up
  /\ poll' = [poll EXCEPT ![n] = NoPoll]
  /\ fresh' = FALSE
  /\ UNCHANGED <<enabled, inFlight, context, queue, panel, hands, posts, job, quiet, events>>

\* The connection is seen to be broken: the jobs stay, the lease is over.
Gone(n) ==
  /\ poll[n].pc = "held"
  /\ ~poll[n].up
  /\ poll' = [poll EXCEPT ![n] = NoPoll]
  /\ inFlight' = inFlight - 1
  /\ fresh' = FALSE
  /\ context' = IF inFlight = 1 THEN Nothing ELSE context
  /\ UNCHANGED <<enabled, queue, panel, hands, posts, job, quiet, events>>

\* The panel hears the answer: switch the backend on again, or run the jobs.
Hear(p, n) ==
  /\ poll[n].pc = "answered" /\ poll[n].up /\ poll[n].mine /\ poll[n].context.of = p
  /\ GoTo(p, IF ~poll[n].enabled THEN "again" ELSE IF poll[n].jobs = <<>> THEN "asks" ELSE "runs")
  /\ hands' = [hands EXCEPT ![p] = IF poll[n].enabled THEN @ \o poll[n].jobs ELSE @]
  /\ poll' = [poll EXCEPT ![n] = NoPoll]
  /\ quiet' = (quiet /\ (poll[n].enabled \/ poll[n].jobs = <<>>))
  /\ UNCHANGED <<enabled, fresh, inFlight, context, queue, posts, job, events>>

\* Nobody waits for this answer, or for this request, any more.
Discard(n) ==
  /\ \/ poll[n].pc = "answered" /\ ~(poll[n].up /\ poll[n].mine)
     \/ poll[n].pc = "sent" /\ ~poll[n].up
  /\ poll' = [poll EXCEPT ![n] = NoPoll]
  /\ quiet' = (quiet /\ poll[n].jobs = <<>>)
  /\ UNCHANGED <<enabled, fresh, inFlight, context, queue, panel, hands, posts, job, events>>

\* The panel's request fails - the network, its own timeout - and is repeated.
Break(n) ==
  /\ Count
  /\ poll[n].pc # "none" /\ poll[n].up /\ poll[n].mine
  /\ poll' = [poll EXCEPT ![n].up = FALSE, ![n].mine = FALSE]
  /\ GoTo(poll[n].context.of, "asks")
  /\ quiet' = (quiet /\ poll[n].jobs = <<>>)
  /\ UNCHANGED <<enabled, fresh, inFlight, context, queue, hands, posts, job>>

\* The user left MCP on: a backend that lost the switch gets it back ...
Again(p) ==
  /\ panel[p].pc = "again"
  /\ TurnOn(Context(p))
  /\ GoTo(p, "asks")
  /\ UNCHANGED <<hands, poll, posts, job, events>>

\* ... or refuses, and the panel gives up.
GiveUp(p) ==
  /\ Count
  /\ panel[p].pc = "again"
  /\ GoTo(p, "off")
  /\ UNCHANGED <<enabled, fresh, inFlight, context, queue, hands, poll, posts, job, quiet>>

\* LEASE_S after the last poll; while one is held it is not looked at.
Lapse ==
  /\ fresh
  /\ inFlight = 0
  /\ fresh' = FALSE
  /\ UNCHANGED <<enabled, inFlight, context, queue, panel, hands, poll, posts, job, quiet, events>>

Active == enabled /\ (inFlight > 0 \/ fresh)

\* active() finds the lease over, and forgets what the panel had open.
Forget ==
  /\ enabled /\ ~Active
  /\ context # Nothing
  /\ context' = Nothing
  /\ UNCHANGED <<enabled, fresh, inFlight, queue, panel, hands, poll, posts, job, quiet, events>>

-----------------------------------------------------------------------------
(* Jobs.                                                                   *)

Fresh(j) == job[j].pc = "none" /\ \A k \in Jobs : k < j => job[k].pc # "none"
JobStep == UNCHANGED <<enabled, fresh, inFlight, context, panel, hands, poll, posts, quiet>>

\* A tool call finds the lease alive and reads what is open ...
Admit(j) ==
  /\ Count
  /\ Active
  /\ Fresh(j)
  /\ job' = [job EXCEPT ![j].pc = "admitted", ![j].for = context]
  /\ UNCHANGED queue
  /\ JobStep

\* ... and queues its job, whatever happened to the switch meanwhile.
PushJob(j) ==
  /\ job[j].pc = "admitted"
  /\ job' = [job EXCEPT ![j].pc = "pushed"]
  /\ queue' = Append(queue, [files |-> FALSE, of |-> {j}, for |-> job[j].for])
  /\ UNCHANGED events
  /\ JobStep

\* files_changed: one entry holds every change since the last poll.
FilesChanged(j) ==
  /\ Count
  /\ Active
  /\ Fresh(j)
  /\ job' = [job EXCEPT ![j].pc = "pushed"]
  /\ queue' = IF \E i \in DOMAIN queue : queue[i].files
              THEN [i \in DOMAIN queue |-> IF queue[i].files
                                           THEN [queue[i] EXCEPT !.of = @ \cup {j}] ELSE queue[i]]
              ELSE Append(queue, [files |-> TRUE, of |-> {j}, for |-> Nothing])
  /\ JobStep

RunAndStay(p) ==
  /\ hands[p] # <<>>
  /\ job' = [j \in Jobs |-> IF j \in Head(hands[p]).of
                             THEN [pc |-> "run", times |-> job[j].times + 1, for |-> Nothing] ELSE job[j]]
  /\ hands' = [hands EXCEPT ![p] = Tail(@)]
  /\ UNCHANGED <<enabled, fresh, inFlight, context, queue, panel, poll, posts, quiet, events>>

\* The panel runs its next job; a host action of a chat that is not open in it
\* is left alone.
Run(p) ==
  /\ hands[p] # <<>>
  /\ LET e == Head(hands[p]) IN
     job' = [j \in Jobs |-> IF j \in e.of
                            THEN [pc |-> IF e.files \/ e.for = Context(p) THEN "run" ELSE "skipped",
                                  times |-> job[j].times + 1, for |-> Nothing]
                            ELSE job[j]]
  /\ hands' = [hands EXCEPT ![p] = Tail(@)]
  /\ panel' = [panel EXCEPT ![p].pc = IF @ = "runs" /\ Len(hands[p]) = 1 THEN "asks" ELSE @]
  /\ UNCHANGED <<enabled, fresh, inFlight, context, queue, poll, posts, quiet, events>>

\* The backend ends and starts again; every request breaks off.
Restart ==
  /\ Count
  /\ enabled' = FALSE
  /\ fresh' = FALSE
  /\ inFlight' = 0
  /\ context' = Nothing
  /\ queue' = <<>>
  /\ poll' = [n \in Polls |-> NoPoll]
  /\ panel' = [p \in Panels |-> IF panel[p].pc = "polls" THEN [panel[p] EXCEPT !.pc = "asks"] ELSE panel[p]]
  /\ job' = [j \in Jobs |-> IF job[j].pc = "admitted" THEN [job[j] EXCEPT !.pc = "skipped"] ELSE job[j]]
  /\ quiet' = FALSE
  /\ UNCHANGED <<hands, posts>>

-----------------------------------------------------------------------------
PanelSteps(p) ==
  \/ SwitchOn(p) \/ SwitchOff(p) \/ Close(p) \/ OpenOther(p) \/ Again(p) \/ GiveUp(p) \/ Run(p)
PollSteps(n) ==
  \/ Arrive(n) \/ Return(n) \/ Gone(n) \/ Discard(n) \/ Break(n)
  \/ \E p \in Panels : Ask(p, n) \/ Hear(p, n)
JobSteps(j) == Admit(j) \/ PushJob(j) \/ FilesChanged(j)

BridgeNext ==
  \/ \E p \in Panels : PanelSteps(p)
  \/ \E n \in Polls : PollSteps(n)
  \/ \E j \in Jobs : JobSteps(j)
  \/ \E m \in posts : Deliver(m) \/ Lose(m)
  \/ Lapse \/ Forget \/ Restart

(***************************************************************************)
(* Requests arrive, are lost or are given up; a poll is held for 20        *)
(* seconds at most; the loop of a panel goes on; the lease runs out.       *)
(***************************************************************************)
BridgeFairness ==
  /\ \A n \in Polls :
       /\ WF_bridgeVars(Arrive(n))
       /\ WF_bridgeVars(Return(n) \/ Gone(n))
       /\ WF_bridgeVars(Discard(n))
  /\ \A p \in Panels :
       /\ WF_bridgeVars(\E n \in Polls : Ask(p, n))
       /\ WF_bridgeVars(\E n \in Polls : Hear(p, n))
       /\ WF_bridgeVars(Again(p))
       /\ WF_bridgeVars(Run(p))
  /\ WF_bridgeVars(\E m \in posts : Deliver(m))
  /\ WF_bridgeVars(Lapse)

BridgeSpec == BridgeInit /\ [][BridgeNext]_bridgeVars /\ BridgeFairness

-----------------------------------------------------------------------------
Held == {n \in Polls : poll[n].pc = "held"}

\* The lease counts exactly the polls that are held, however they end: a broken
\* connection, a switch turned over, a job (the `finally` of poll).
LeaseCountsPolls == inFlight = Cardinality(Held)

\* What holds of the switch and its polls, whatever breaks off.
BridgeSound == BridgeTypeOK /\ LeaseCountsPolls


\* Where a job is: in the queue, in an answer on its way, in a panel's hands.
InEntries(s, j) == \E i \in DOMAIN s : j \in s[i].of
Handed(j) ==
  Cardinality({n \in Polls : InEntries(poll[n].jobs, j)}) + Cardinality({p \in Panels : InEntries(hands[p], j)})
Places(j) == Handed(j) + (IF InEntries(queue, j) THEN 1 ELSE 0)

\* A job is handed to one poll: with two panels, two polls of one panel, or a
\* poll that broke off, it is never run twice (poll).
JobRunsOnce == \A j \in Jobs : Places(j) + job[j].times <= 1

\* No job is lost but by the switch, the end of the backend, or a poll that
\* nobody waits for any more; a poll seen to be broken takes none with it (poll).
NoJobVanishes ==
  quiet => \A j \in Jobs : job[j].pc = "pushed" => Places(j) = 1

\* A job is delivered exactly once, but for the losses named (poll).
DeliveredOnce == JobRunsOnce /\ NoJobVanishes


\* While a panel is on, what was queued is handed over.
JobsAreTaken == queue # <<>> ~> (queue = <<>> \/ \A p \in Panels : ~On(p))

\* A panel that was left on finds the backend on again, after an end of the
\* backend and after another panel's switch (the loop of mcp.ts).
SwitchComesBack == \A p \in Panels : On(p) ~> (enabled \/ ~On(p))

\* What the MCP client acts on follows the panel, whatever overtakes what.
ContextCatchesUp ==
  \A p \in Panels : On(p) ~> (context = Context(p) \/ ~On(p))

\* When the last window is closed or switched off MCP ends, though nothing may
\* tell the backend so: the lease runs out.
LeaseRunsOut == (\A p \in Panels : ~On(p)) ~> (~Active \/ \E p \in Panels : On(p))

\* Panel and backend come together again after any loss, and MCP ends with the
\* last panel.
BridgeConverges == JobsAreTaken /\ SwitchComesBack /\ ContextCatchesUp /\ LeaseRunsOut

=============================================================================
