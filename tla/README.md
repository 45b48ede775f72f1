# Risu Hina: TLA+ specification and proofs

Risu Hina is a RisuAI plugin (`src/plugin`, TypeScript) with a local backend
(`src/pyserver`, Python). The panel copies a bot and its chats out of RisuAI,
an agent proposes edits, a person approves them, and the result is written back
(반영). The same chat then exists in three places - RisuAI, the backend's
**baseline** (what RisuAI held at the last upload) and its **working copy** -
and RisuAI goes on being used the whole time. These modules model that core for
chats, lorebooks and cards - the three-way merge of a re-open, conflicts,
checkpoints, the write-back - and what runs around it: the approval of staged
edits and of everything else the agent proposes, the agent's turns with their
permission prompts, image batches, and the bridge MCP clients use.

## 1. Inventory

Backend files are under `src/pyserver/app/`, plugin files under `src/plugin/src/`.

| Part | State | Operations | Hard behaviour | What makes it correct |
|---|---|---|---|---|
| Turn store (`store.py`, `db.py`) | `turns` (working), `turns_original` (baseline), `conflict_json`, `seq` | upload/merge, edit, insert, split, fold, delete, bulk, restore, reset | stale copies; addressing by id; several commits per handler | a re-open never loses work in progress, never drops what RisuAI still has |
| Merge (`merge.py`) | none | `decide`, row matching | rows without ids, tiers | three-way rule, conflict only when both moved |
| Conflicts (`conflicts.py`) | a column in five tables | `resolve` mine/theirs | a box decided long after it was raised | the box shows the baseline; theirs installs what was shown |
| Checkpoints (`snapshots.py`, `chatfmt.py`) | `checkpoints`, sidecar in `chats.meta_json` | create, prune, rename, delete, clear, restore | limits, lossy conversion, restore of a restore | undoable restores; backups do not displace the user's versions |
| Staged edits (`staging.py`) | `staged_edits` | stage, decide, clear, apply | two approvals, crash between rows, edits meanwhile | only what was approved lands, on the text that was reviewed |
| Upload (`workspace.py`, `state.ts upload`) | requests in flight | live / picked / forced / chatReset | late, lost, reordered requests; stubs | the baseline catches up; a stub deletes nothing |
| Write-back (`host.ts`, `state.ts`, `operation.ts`, `ui/chatbar.ts`) | patch in hand, modal lock | patch, fresh read, check, set, read back, commit, re-read | RisuAI edited between steps, lost answers | nothing unseen is reverted, nothing unsaved is lost, the lock comes down |
| Approval queue (`actions.py`, `hostwriteback.py`) | `pending_actions` | propose, decide, complete, clear, run_host | decide twice, lost answers, start timeout | an action runs once and its record says what happened |
| Agent sessions (`session.py`) | `_ACTIVE`, `_STOPPED`, `_JOBS`, history rows | run, stop, supersede, save, move | a turn that outlives the wait of its successor; 중단 beside a turn's end | one turn per session; no turn that ended is missing from the history |
| Permits (`permits.py`) | `_pending`, `_always` | request, decide, decision, end_turn | answer against timeout | nothing runs unasked; a permit ends with its turn |
| Lorebook (`store.py`, `merge.py`) | `lore_entries` with origin, baseline and its place | load, upload/merge, edit, move, resolve, reset, restore | no ids: rows are paired in tiers | work is kept, nothing is adopted for its place, the host's guard can pass |
| Long-term memory (`memory.py`) | rows of summaries | as the lorebook | as the lorebook | as the lorebook |
| Card (`card.py`, `host.ts`, `state.ts`) | `card_fields`: fields and greetings | load, upload/merge, edit, resolve, reset, restore, write-back, commit | late uploads, RisuAI edited between steps, greetings have no ids | nothing unseen is replaced; a write can be taken back |
| Personas, modules (`personas.py`, `modules.py`) | rows and baselines | as the card | as the card | as the card |
| Image batches (`studiojob.py`, `batchreview.py`) | `jobs`, `_GEN_GATE`, `_cancel`, `_HELD` | start, run, cancel, recover, hold and take a plan | cancel against run, restart, two approvals | one draws at a time; a cancellation holds; a plan runs once |
| MCP bridge (`mcpbridge.py`, `mcp.ts`) | switch, lease, context, `_jobs` | activate, poll, push, lapse | lost and late polls, two panels, restart | a job reaches one poll; the lease counts the polls held |
| Notes, plans (`agentnotes.py`, `workplan.py`) | revision | save | concurrent saves | compare-and-set |
| Save watch (`risupersist.py`, `persistwatch.ts`) | save times | wait_saved | a save before or after the write | "saved" is said of this write |
| Agent tools and model clients, files, Python runs, configuration, updater, transport, UI | - | - | I/O | outside a model checker's reach |

How they interact: `state.ts` uploads a chat by `POST /workspace`
(`materialize` calls `store.ingest_chat`); the panel edits through `h_turn_*`;
the agent calls `staging.stage`, the user `h_approve`, which applies through the
same store functions; 반영 reads `GET /patch`, writes through `host.writeChat`,
calls `POST /commit` and uploads again with `chatReset`. FastAPI runs handlers
in a thread pool over one SQLite connection with a lock per statement, so
handlers of more than one statement interleave.

`PROJECT.json` lists the hazards one by one, with the line and the properties
that cover each, or why none does yet.

## 2. Modules

    TurnStore      baseline, working copy, marks, checkpoints; one action per handler
      TurnSync     EXTENDS it: RisuAI, uploads in flight, the write-back in steps
      Staging      EXTENDS it: staged edits, approvals statement by statement
      TurnRows     the tables with their order; INSTANCE TurnStore as the abstract spec
        Lists      lists with some of their elements left out, without recursion
    Actions        approval queue: decisions in steps, panels that retry, run_host
    Turns          the agent's turns in a conversation, permission prompts, 중단
    Jobs           image batches: threads, gate, cancellations, plans
    Bridge         MCP bridge: switch, lease, polls, host jobs
    Lore           one lorebook's rows, paired without ids
    Card           a bot's fields and greetings with their write-back
    MC...          constants for TLC
    ...Proofs      theorems: ChatProofs on TurnStore, TurnSync and Staging, AgentProofs
                   on Turns and Jobs, ListProofs on Lists and sequences, the others
                   on the module they are named for

**TurnStore** is both the model of the handlers and the abstract specification
the others implement. A list of turns is a function from `msg_id` to text
(`NoTurn` where absent). `base`, `ours`, `flag` are the columns of
`turns_original` and `turns`; `snaps` the turns each checkpoint would give back
(`Markdown` is what a text becomes through `chatfmt.decode`/`encode`);
`minted` the ids `new_msg_id` gave out (a UUID: fresh). `MergedBody` and
`MergedFlag` are `_merge_turns` seen one turn at a time; `Decide` is
`merge.decide`.
Here an upload may bring any list, forced or not, live or not.

**TurnRows** keeps `turns` and `turns_original` as sequences of rows and writes
`_merge_turns` as the code does: RisuAI's order, rows inserted here behind the
turn they stood behind, rows RisuAI lost at the end. It keeps the checkpoints'
kinds, labels and limits, and the extra fields a restore puts back by position.
It implements TurnStore under the mapping that forgets the order.

**TurnSync** adds `risu` (RisuAI's list, edited by its user between any two
steps), `up` (uploads sent and not handled, in any order, possibly lost) and
`w` (a write-back between awaits: `curRead`, `patched`, `checked`, `set`,
`verified`, `committed`, `reread`). `Abort` is any failed or timed-out await.
`seen`, the texts uploads brought, is a history variable for the properties only.

**Staging** adds `staged` (`staged_edits` in creation order) and one record per
handler thread of `POST /approve`: decide, checkpoint, read the approved rows,
check row by row, apply edits, inserts, deletes, mark. The panel's edits, live
re-opens, another approval and the end of the process come in between.
`landed`, `done` and `moved` are history.

**Actions** stands alone. `status` is `pending_actions.status`, `req` the
requests under way: `/actions/decide` between its SELECT and its UPDATE (`read`),
or between EXECUTORS and `_finish` (`ran`, `threw`), and `/actions/complete`.
`panel` is what `decideAction` waits for (`waiting`) or carries out itself
(`hosting`); it goes on only on the answer to the request it waits for (`tag`),
gives up once, asks once more, then throws. `waiter` is `run_host`, whose start
timeout is again a query (`CancelRead`) and a later UPDATE (`CancelWrite`).
`ran` counts how often an action was carried out, `claims` what users and tools
were told, and `torn` names the actions two decisions on which overlapped, or
whose execution the end of the process cut off: for them `decide`, which has no
lock over its statements, promises nothing (see the findings). Kinds are three: the backend executes it, the plugin does and may repeat it
(`RERUNNABLE_HOST_KINDS`), the plugin does and must not (a copy, a new module).

**Turns** is one conversation. `turn` has a record per prompt sent: `reading`
before it is in `_ACTIVE`, `waiting` in `_supersede`, `running`, `closing` after an
exception, `over`. What a coroutine does between two awaits is one action (`SendOver`,
`Resume`, `TimeOut`, `Finish`, `Fail`, `HearStop`, `Close`), but for the start of a turn:
`run` reads the chat (`ReadChat`) and enters `_ACTIVE` later (`Begin`), and while no
other coroutine runs between the two (`LoopFree`), threads do. The panel's requests run
on threads and come in anywhere: `Stop` and `StopJobs` are the two statements of
`POST /agent/stop`, `Decide` answers a prompt, `MoveLook` and `MoveUpdate` are
`session.move` at `_ACTIVE` and at the UPDATE, with any number of moves (`moving`)
between them. A turn is `crossed` (history) when a move was carried out between its
reading of the chat and its entering `_ACTIVE`, or was past its look then.
`active`, `stopped`, `always`, `noted` are `_ACTIVE`, `_STOPPED`, `_always`,
`_JOBS`; `hist` is the newest history row. A tool that starts a batch runs on
after its turn (`CheckStop`, `StartJob`, `NoteJob`, `ThreadHears`). `orderly`
is history: false once a turn outlived `SUPERSEDE_WAIT_S` or a prompt came while
one waited - from then on the code lets two turns run at once.

**Jobs** has a row and a thread per batch. `row` is the table, `worker` where
the thread stands between two looks at shared state, `gate` `_GEN_GATE`,
`cancels` `_cancel`. A cancellation comes at any moment and is its SELECT with
`_cancel.add` (`CancelRead`) and its UPDATE (`CancelWrite`); `cancelling` is the batch
it holds `_lock` for in between, when no thread passes a look under the lock
(`Unlocked`) but any may write its row. `Admit` (the look at the cancellations under
the lock) and `Mark` (`running`, without it) are two actions, as in the code. `Hold`, `Take` and `StartNext` are a plan shown for
approval and the batches it becomes. `BackendEnds` drops all but rows and images.

**Bridge** has panels with their loops, poll requests with their connections,
the backend's switch, lease and context, and jobs on their way: `queue`, the
answer of a poll, a panel's `hands`. A poll is held and returned (`Arrive`,
`Return`, `Gone`) or not heard (`Break`, `Discard`); activate and deactivate are
`posts` delivered in any order or lost. A tool call looks at the lease (`Admit`)
and queues its job later (`PushJob`). `quiet` is history: no job was cleared or
given to a poll nobody waits for.

**Lore** holds rows with `entry`, `base` (`original_json`), `bseq`, `origin` and
`mark`, and writes `merge.match`, `plan` and `adopted_additions` as the code has
them: exact content, then name, then text, then place under the floor of
similarity. A chat's lorebook (`local`) and a bot's (`global`) differ in what a
checkpoint keeps and how it is restored; `scope` is chosen at the start.

**Card** has fields (by name) and greetings (a list without ids) in `field` and
`greet`, RisuAI's card, uploads in flight, and the write-back between two awaits
(`patched`, `checked`, `set`, `verified`, `committed`, `reread`), as TurnSync has
it for chats. `calm`, `read` and `seen` are history.

Properties that ask one question stand together: `TurnsSound`, `JobsSound`,
`MergeIsCareful`, `BridgeConverges` and so on are conjunctions whose parts are
named and commented in the modules. Definitions that end in what they lack
(`CommitNoSnapshot`, `GoneUncounted`, `StopJobsClears`...) are mutants the
properties are tried on; no specification uses them. `PROJECT.json` "map" gives
each definition's lines in the source.

### Abstractions

Text is a model value; only equality and the Markdown round trip matter. Role,
time, name and speakers are left out. Hashes of `beforeTurns` are taken not to
collide. Rows without `msg_id` are left out. A handler of TurnStore is one
action, including those that take two commits (`reset_working`, `split_turn`,
`merge_turns`); only approvals are split, because that is where the code's own
comments promise atomicity. The lorebook and memory that travel in the same
object, and writes that only reorder, are left out of the write-back. What an
action changes is a count; `h_action_decide`'s gates on screen, bot and chat may
refuse any approval; `complete` is one action, though it reads the row first to
see that it exists. The host has nothing to compare and set with: what RisuAI's
user changes between the last re-read and `setChatToIndex` is replaced, in the models
too, and `NoUnseenRevert` speaks of what the re-read held.

Turns leaves out the NDJSON stream and its re-attach, costs, and the compaction
of the history; what a permitted tool does is one value. In Jobs an image is a
count, drawn or failed; prompts and presets are data. Bridge leaves out upload
and download tickets, the token and the tools that are passed through. Lore
leaves out ids of RisuAI's own, folders and activation keys, which are further
keys of the same tiers, and automatic checkpoints; where two rows share a `seq`
the lower id comes first. Card leaves out scripts, asset references, how
checkpoints are trimmed, and the conflict gate of the bot bar, which an approved
write does not pass. All five start where the program starts: nothing running,
the first list just loaded.

## 3. Runs

| Run | Question | Bounds |
|---|---|---|
| `turn_store` | do re-opens, edits, decisions and restores keep work and tell the truth | one RisuAI turn, one inserted, three texts (baseline, ours and theirs can all differ), two checkpoints; uploads unbounded |
| `turn_sync` | does the composition lose or revert anything, and implement TurnStore | one turn on each side, two texts, two uploads in flight, one RisuAI edit, two panel edits, one write-back |
| `turn_sync_live` | does the lock come down, does the baseline catch up | one turn, two RisuAI edits, two uploads in flight |
| `turn_rows` | do ordered rows implement TurnStore, do inserted rows keep their place | two RisuAI turns and one inserted (before, between, behind), lists of up to three, two uploads, two edits |
| `checkpoints` | can a restore be undone, do backups respect the user's versions | `autoBackupKeep` 1, `checkpointKeep` 3, three saves: every limit is reached |
| `staging` | what lands, when threads, edits and a crash interleave | two threads, two proposals, two approvals (or one and a restart), one outside change |
| `actions` | does a record tell the truth, does an action run once, is a rejection final | one proposal of any of the three kinds, two panels, four requests, one lost answer, one restart |
| `turns` | is there one turn at a time, is its end in the history, do stops and permissions end | three prompts (one runs, one waits, one comes in), two permission prompts, two events: a press of 중단, a move, a batch, a late wait, a restart in any pair |
| `jobs` | is one drawing, does a cancellation hold, does the row tell the truth, does each batch end | two batches of two images, one of them a plan's, two approvals of the plan, one restart, any number of cancellations |
| `bridge` | is a job handed out once, does the lease end, do panel and backend meet again | two panels, two polls, two jobs, four events (switches, moves, closings, failed requests, restarts) |
| `lore` | does a merge without ids keep work and leave what the host's guard accepts, is a restore true | three entries (one renamed, one rewritten), lists of up to two, two uploads, two edits, two saves, four steps together |
| `card` | can the write-back revert anything, can it be undone, does a re-open keep the work | one field, three texts, two greetings, one RisuAI edit, two edits here, two uploads, one write-back, five steps together |

Actions never touch each other's rows, so one proposal suffices; four requests
are a decision, its repeat, a report and one from another place.
Symmetry is used where no property names an element of the set: RisuAI's turns
in TurnRows, threads and texts in Staging, panels in Actions. The merge treats turns one by one
(TurnRows shows it for lists), so two names suffice for what a turn can do to
another; a lost race needs two uploads or two approvals. In Turns the third
prompt is what shows that waiting for the wrong turn matters; in Jobs the second
batch is what waits at the gate; in Bridge two events break a poll and a third
restarts the backend with a job on its way. In Lore two rows with two names are
the least in which a pairing can be wrong, and four steps are an upload, an edit,
a checkpoint and what follows. Card needs five: an upload, an edit, a write-back,
RisuAI's edit in its middle, and a late upload. Every run passes, and each of its
properties is violated by a mutant in `PROJECT.json`.

### What the code does not keep

`PROJECT.json` lists 32 places where the code departs from its own comments, or
loses something it tries to keep; the models do what the code does, and the
properties say exactly where they stop. The most telling:

- An approved `host_writeback` is written without asking for open conflicts
  (`state.ts:3078`), though `main.py:2344` says 반영 waits for them; and a second,
  unchanged re-open drops the mark of a turn's undecided conflict (`store.py:253`).
- `actions.decide` reads, executes and records in three statements
  (`actions.py:211`): the repeat of a slow approval executes again.
- "Batches are all-or-nothing" (`staging.py:12`), but an insert whose anchor is
  gone stops the batch half way (`staging.py:168`).
- With three prompts two turns of a session can run at once (`session.py:466`);
  a 중단 pressed while a turn waits for its predecessor is forgotten
  (`session.py:616`); the end of a late turn ends its successor's permissions
  (`session.py:752`).
- A move looks for a running turn on a thread and updates the conversation later, and a
  turn reads its chat before it can be seen running (`session.py:108`): the conversation
  may be at another chat than its turn.
- `studiojob._run_locked` writes `running` without the lock `cancel` takes
  (`studiojob.py:266`): a batch reads cancelled, then running, then cancelled.
  Nor does its `error`, so that a cancellation writes `cancelled` over it
  (`studiojob.py:151`).
- A poll whose answer is lost takes its jobs with it (`mcpbridge.py:277`), and with two
  panels one's off is undone by the other's loop (`mcp.ts:145`).
- A chat's restore brings a lore entry's old baseline back (`store.py:1024`); an
  entry both renamed and rewritten here appears twice when its re-upload is lost
  (`merge.py:290`); a move alone is never shipped (`store.py:980`).
- A greeting deleted here and rewritten in RisuAI stays deleted after "theirs"
  (`card.py:383`); an order changed in RisuAI is undone by the next change of any
  greeting (`card.py:387`).

### Fairness

Safety is checked and proved without any. `turn_sync_live` assumes that every
await settles (`WriteStep` weakly fair: host calls resolve or throw,
`transport.ts` times requests out, and `foregroundWrite`'s `finally` is `Abort`),
that a request is not in flight for ever, that the user returns to the panel
with the chat open, and that not every live upload is lost (strong fairness).
Nothing is assumed of RisuAI's user, of force, or of the order of uploads.
`turns` assumes that the event loop runs what is due: code without an await is
carried to its end (`Begin`), a wait ends or times out,
`run` looks at the flag once a second, a handler comes to its end, a tool's thread
looks at the flag; nothing is said of the model's stream, the user or a batch.
`jobs` assumes that each thread takes the step it can take (requests to NovelAI
have timeouts) and that a cancellation that has read its row writes it, not that a
thread finds the gate free: that is what `BatchEnds` shows.
`bridge` assumes that requests arrive, are lost or are given up, that a poll is
held 20 seconds at most, that a panel's loop goes on and that the lease runs out;
it may be switched, closed, moved and restarted as often as the bound allows.
`lore` and `card` check safety alone.
`CHECK_DEADLOCK FALSE` stands where bounds let the system run out of moves.

## 4. Proofs

The theorems hold for every set of turns, texts, threads and every bound.

**ChatProofs, TurnStore.** `StoreInv` is the type with `ConflictBoxIsCurrent`: a merge
carries the mark of a row that neither list has, so the new mark is right
because the old one was. From it: types, current boxes, and, as action
properties, `ReopenKeepsWork`, `ReopenDropsOnlyGone`, `AgreementIsClean`.

**ChatProofs, TurnSync.** `SyncInv` adds: each text of the baseline was seen
(`BaselineSeen`); so was what a patch is based on (`PatchSeen`) - it outlives
uploads because `seen` only grows; a checked write still satisfies the host's
comparison (`CheckedMatches`); while a write-back waits for its re-read, the
panel's pending texts are in a checkpoint (`PendingSnapped`), because uploads
in between can only shrink what is pending; and `IdsAreMinted` everywhere. From it
`NoUnseenRevert`, `CommitLosesNothing`, and that every step of the composition
is a step of TurnStore or leaves it alone: `SyncSpec => StoreSpec`.

**ChatProofs, Staging.** `StagingInv` says rows read by an approval are approved, an
edit's or deletion's target was a turn, and `ReviewStands`: until a row lands,
its turn holds the reviewed text, or others changed it since the rows were
read, or an earlier row of the set did. From it `LandsOnlyApproved`,
`DecisionsAreFinal` and `LandsAsReviewed`. `BatchesStand` counts a set: what it has
landed and what it still has to land are its rows (`RowsAccounted`), and past the
checks each turn it names is there or was changed by others (`TurnsThere`), since a
set deletes only as its last step. So without inserts nothing in it can fail, which
is `WholeUnlessDisturbed`.

**ListProofs.** Facts about lists for every list, by induction. The library's
induction theorems take an operator as a parameter; `SetInduction` says the same of a
set of numbers - what holds at 0 and passes from n to n + 1 holds everywhere - and
follows from the well-foundedness of `<`. With it: `Rank` counts a finite set off
(`RankIsOnto`), so `SubList` lists the chosen elements each once and in their order
(`SubListProperties`, `SubListTwice`), and flattening a list of lists puts every
element in exactly one place, pieces in their order (`FlattenSpreads`). A finite set
sorted by an order that is total on it lists each element once and in that order
(`SortedProperties`), and no other list does (`SortedIs`).

**TurnRowsProofs.** `RowsSound` is inductive as it stands: that ids are distinct in
every list follows for a merge only with every list's ids being handed out ones, and
checkpoints need both because a restore brings them back. The pieces of a merge -
rows inserted here, RisuAI's with theirs behind them, those RisuAI lost - are shown
to be apart in their ids (a row goes with one anchor), so `FlattenSpreads` gives
distinctness, and that each turn of the merged list is TurnStore's merge of that turn
(`MergedBody`, `MergedFlag`). With each handler's step so mapped, and the list of
checkpoints as the set TurnStore keeps, `RowsSpec => ImplementsStore`: order, kinds,
labels and limits change nothing that TurnStore promises, and its theorems hold of the
tables. The same places give `InsertedStay`; `VersionsHold` counts what a trim keeps:
the newest of a kind is always among its n newest, and a list shorter than its limit
loses nothing. The proof found a slip in the model: `SUBSET S \ {{}}` is
`SUBSET (S \ {{}})`, which let through an edit of no rows, which TurnStore has no step for.

**ActionsProofs.** `ActionsInv` follows an action from its proposal on. Each
panel waits for a request of its own (`TagsMatch`), so an answer reaches only
the one who asked; everything on its way as a success is about something that
happened (`SuccessIsTrue`). For an action that is not `torn`, `OnePiece`: at
most one request is past its first query, nothing happened before it was
decided, at most one panel holds the host block of an action that must not be
repeated and then it has not run, and a rejection found it untouched and leaves
nobody who could still run it. From it `DoneMeansRan`, which needs no exception,
`RunsOnce` and `RejectedNeverRan`. `ReportSurvivesOneLoss` needs one part more,
`ReportComes`: while a host action has been carried out and its row does not say so,
either a panel still waits for its report and has a second try, or the one loss has
happened and a report is on its way. It is inductive because a handler of reports is
of one piece, so that a restart cuts none off, and because what was carried out and is not
recorded was approved (`OwedIsApproved`): no later decision or clearing undoes a report.

**AgentProofs, Turns.** `TurnsInv` has two parts. Always: `_ACTIVE` names a live turn,
prompts are well-formed and end with the turns, and a turn that has read its chat and
is not in `_ACTIVE` yet is alone on the event loop (`ReadsAlone`). While the conversation
is `orderly`: only the active turn lives, one waits and waits for it
(`WaitsForActive`), none waits while one reads its chat (`NoneWaitsForReader`), the
live turn, unless `crossed`, acts where the conversation is and no move is past its
look (`Stays`: that look found `_ACTIVE` empty, so it came before the turn entered), the
live turn read the newest history and that holds every
turn that ended (`HistoryIsCurrent`, `EndedHeard`), and open prompts and standing
permissions belong to a live turn that was asked (`OpenIsLive`, `AlwaysAsked`).
The second part is inductive because `_supersede` lets nobody in before the turn
it waits for has stored its history. From it `TurnsSound`, `EndedIsHeard`,
`PermissionsEndWithTurn`.

**AgentProofs, Jobs.** `JobInv`, for each batch, ties the thread's place and its counts
in memory to the row and the images; `GateInv` says the gate is held by the one
thread that is past it; `PlanInv` counts a plan: not held any more once taken,
started plus still to start never more than its size. A cancellation between its two
statements is of a batch that will draw nothing (`Promised`, with `Undrawn`), so that it
may write `cancelled` wherever the batch's thread stands.
From them `JobsSound`, `CancelsHold`, `PlanRunsOnce`, `EndedIsEnded`.

**BridgeProofs.** `BridgeInv` says the lease counts the held polls (`LeaseKept`:
a step adds or takes one element of a finite set), and follows a job from the queue to an
answer to a panel's hands: `JobInv` gives it one place and in it one entry, none
before it is queued and after it has run; `quiet` means it still has one. Only
answers carry jobs (`OnlyAnswersCarry`), and file changes share one entry
(`OneFilesEntry`), without which a change could be queued twice. From it
`BridgeSound` and `DeliveredOnce`.

**CardProofs.** Two invariants. `WriteInv` is about the write-back and asks nothing of
a merge of greetings: each field's baseline is what the last upload showed
(`BasesRead`); what a patch takes for RisuAI's was shown by some upload (`PatchSeen`,
`PatchedGreetingsSeen`); past the host's comparison the re-read agrees with the patch
(`CheckedAgrees`); and while no upload is handled the patch starts from today's
baseline (`CalmIsCurrent`), which is what the commit puts away. `GreetingsStand` is
about the rows: their ids differ (`Table`), and each row with an original stands at a
place of the list of the last upload, says what that list says there, and shares its
place with no other (`Placed`). That the places are apart, which `CardSound` asks, is
not inductive without the list they are places of: a merge keeps them apart because
`match` pairs each line at most once (`MatchOneToOne`) and what is folded or new
takes places nothing was paired with. What a merge and a restore make of the rows is
said once by form (`StandsForm`, `ListedForm`: paired, left, folded, new) and the
rest is argued over the forms. Right after a merge every place has its row
(`Filled`), so the baseline, the rows sorted by place, is RisuAI's list; between
re-opens a decision may take a row's original away, none moves one, so the baseline
lies within that list (`BasedWithin`, from which `GreetingsSeen`). In a list
merged with itself every line is paired with itself (`MatchSame`), so a row changes
in nothing but the number of its place: no deletion, text or mark. That a deletion
stands is said of the pairs, too: what is left over on one side after both tiers
means that nothing is left over on the other (`LeftOverTogether`), so a row that goes
has every greeting of the list paired with another row, and with one of the same text
where the list still has its text (`MatchLeftOver`, `MergedLoses`). A restore numbers its rows by the list restored, so
sorting by number gives that list (`ListedReads`, by `SortedImage`: sorting an image
under a map that keeps the order is the image of the sorting) and sorting by place
gives the old baseline (`ListedBases`); if it counts no change, its pairs are the
one-to-one map `SameTexts` asks for. From it all four properties of Card.

**LoreProofs.** `LoreInv` is the type with three things that it needs: every table,
the checkpoints' too, is finite and has an id of its own for each row (`Table`); an
open mark against RisuAI's text hangs on a row that has an original (`RowSound`),
without which taking `theirs` would leave a row that is no entry; and for a bot's
lorebook every original is an entry of the list RisuAI last showed, at a place
(`Seen`), which a chat's restore breaks and which the properties therefore except. A
pairing of two lists is shown one to one, tier by tier (`MatchForm`), a pair of the exact
tier to be a copy, one of a key to share the name or the text. What a merge makes of
each row is said by form, `Makes`: paired, gone, added, folded; `MergedForm` says that
with the entries that are new this is all of the merge, and `Restored` says the same of a
card's restore. From the forms: after every upload the rows' places are RisuAI's
places, each taken once (`Stands`), so sorting by them gives RisuAI's list
(`BasesRead`), and no edit changes a row's original or its place (`SameOriginals`),
which is `GuardCanPass`; only an untouched row whose name or text was found is
overwritten, and an untouched row of a bot's lorebook says what RisuAI last showed,
which is `MergeIsCareful`. For `NoNewsNoChange`, a list merged with itself pairs every
entry with itself, duplicates included, because the exact tier takes the nearest copy
behind the last one (`MatchSame`); and where each row keeps a name of its own, the
panel's list pairs each original listed with its own entry in the exact tier or
that of the name (`AgreedFound`), whatever the later tiers do with deleted rows, and
every addition folds into its copy (`AgreedUnfolded`). For `RestoreIsTrue` the restored
rows are numbered by the list restored (`RestoredReads`), and nothing pending
means equal counts in both directions because the exact tier leaves no copy over
(`ExactFound`).

The only assumptions are the modules' ASSUMEs: `NoTurn` is no text, `NoEntry` no
lorebook entry and an entry has a name and a text, `Markdown` maps texts to texts, the id sets and the kinds of actions are disjoint, a greeting's
texts are numbered in their order (`NoText` is none of the numbers), first cards are
cards, bounds are numbers. TLC evaluates them in the runs.

**Only model-checked:** liveness (`LockReleased`, `BaselineCatchesUp`,
`StopsAndWaitsEnd`, `BatchesEnd`, `BridgeConverges`), which needs ENABLED and is
out of the prover's reach - the safety half of `BatchesEnd` is proved
(`EndedIsEnded`). No module proved about has a RECURSIVE operator.

## 5. Plan

What is left, in the order of its worth:

1. Long-term memory: Lore's cycle over rows that are linked to messages.
2. A card's scripts and assets, personas and modules: Card's cycle over other rows
   and other guards.
3. The stream of a turn and its re-attach (`session.follow`, `state.ts`), which
   counts lines on two sides.

### Not modelled

The modules cover the code that keeps the program's shared state. Most of the
repository's lines are something else: clients of model services, tools and their
prompts, the studio's prompt building (`studio.py`), skills, files, settings,
updater, and the panel's rendering. There a step is a call to a service or to the
operating system and a result is text; a model of it would say only what was put
in. That is why the lines mapped are a small share of all lines. The save watch
compares two timestamps, notes and plans are one compare-and-set each, and the
presence listing is one request: they have no interleaving of their own.
