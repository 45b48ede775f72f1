-------------------------------- MODULE Jobs --------------------------------
(***************************************************************************)
(* Image batches (pyserver/app/studiojob.py) and the plans of batches that *)
(* wait for an approval (batchreview.py, actions._studio_batch).           *)
(*                                                                         *)
(* Each batch has a row in the jobs table and a thread of its own.  The    *)
(* threads take turns: the one that holds the gate draws, image by image,  *)
(* and looks for a cancellation between two of them.  Requests cancel a    *)
(* batch at any moment, in two statements under a lock that the threads'   *)
(* own writes mostly do not take, and the backend may end at any moment:   *)
(* the rows and the images stay, the threads, the gate, the cancellations  *)
(* and the plans do not.                                                   *)
(***************************************************************************)
EXTENDS Naturals, FiniteSets

CONSTANTS
  MaxJobs,      \* bound: batches started
  Items,        \* images in a batch
  Plans,        \* proposals of kind studio_batch
  PlanSize,     \* batches in a plan
  Approvals,    \* requests that approve a plan: the panel's, the MCP client's
  NoPlan,       \* a batch or an approval that is of no plan
  MaxRestarts   \* bound: ends of the backend

ASSUME JobsAssumption ==
  /\ {MaxJobs, Items, PlanSize, MaxRestarts} \subseteq Nat
  /\ NoPlan \notin Plans

JobIds == 1 .. MaxJobs

VARIABLES
  row,        \* the jobs table
  worker,     \* the thread of each batch
  gate,       \* _GEN_GATE: the batch whose thread holds it, 0 if none
  cancels,    \* _cancel
  cancelling, \* the batch a cancel() that holds _lock read as pending, 0 if none
  images,     \* history: images of each batch on the disk
  asked,      \* history: batches a cancellation was accepted for
  early,      \* history: those of them that were read as pending
  held,       \* batchreview._HELD
  approval,   \* what each approval is at
  restarts    \* ends of the backend

jobsVars ==
  <<row, worker, gate, cancels, cancelling, images, asked, early, held, approval, restarts>>

(***************************************************************************)
(* A worker: `queued` for the gate, `checked` once it has the gate and     *)
(* found no cancellation, at the head of its loop (`items`), `drawing`,    *)
(* `recording` an image that is on the disk, `settling` after the loop,    *)
(* and `leaving` with the gate in its hand.  Its counts are the payload it *)
(* keeps in memory; the row has those of the last update.                  *)
(***************************************************************************)
Ended == {"done", "partial", "error", "cancelled"}
JobStates == {"none", "pending", "running"} \cup Ended
WorkerPcs == {"none", "queued", "checked", "items", "drawing", "recording",
              "settling", "leaving", "gone"}
AtGate == {"checked", "items", "drawing", "recording", "settling", "leaving"}
RowRecords == [state : JobStates, saved : Nat, failed : Nat, plan : Plans \cup {NoPlan}]
WorkerRecords == [pc : WorkerPcs, saved : Nat, failed : Nat]
ApprovalRecords == [plan : Plans \cup {NoPlan}, left : Nat]
NoRow == [state |-> "none", saved |-> 0, failed |-> 0, plan |-> NoPlan]
NoWorker == [pc |-> "none", saved |-> 0, failed |-> 0]
Idle == [plan |-> NoPlan, left |-> 0]

JobsTypeOK ==
  /\ row \in [JobIds -> RowRecords]
  /\ worker \in [JobIds -> WorkerRecords]
  /\ gate \in {0} \cup JobIds
  /\ cancels \in SUBSET JobIds
  /\ cancelling \in {0} \cup JobIds
  /\ images \in [JobIds -> Nat]
  /\ asked \in SUBSET JobIds
  /\ early \in SUBSET JobIds
  /\ held \in SUBSET Plans
  /\ approval \in [Approvals -> ApprovalRecords]
  /\ restarts \in Nat

JobsInit ==
  /\ row = [j \in JobIds |-> NoRow]
  /\ worker = [j \in JobIds |-> NoWorker]
  /\ gate = 0
  /\ cancels = {}
  /\ cancelling = 0
  /\ images = [j \in JobIds |-> 0]
  /\ asked = {}
  /\ early = {}
  /\ held = {}
  /\ approval = [e \in Approvals |-> Idle]
  /\ restarts = 0

SetState(j, s) == row' = [row EXCEPT ![j].state = s]
GoTo(j, pc) == worker' = [worker EXCEPT ![j].pc = pc]

-----------------------------------------------------------------------------
(* Starting batches.                                                       *)

\* studiojob.start: a pending row, and a thread.
Insert(j, plan) ==
  /\ row[j].state = "none" /\ \A k \in JobIds : k < j => row[k].state # "none"
  /\ row' = [row EXCEPT ![j] = [NoRow EXCEPT !.state = "pending", !.plan = plan]]
  /\ GoTo(j, "queued")
  /\ UNCHANGED <<gate, cancels, cancelling, images, asked, early, restarts>>

\* POST /studio/generate, or a tool of the panel's agent.
Start(j) == Insert(j, NoPlan) /\ UNCHANGED <<held, approval>>

\* studio_generate over MCP: the plan that was shown is held for its approval.
Hold(p) ==
  /\ held' = held \cup {p}
  /\ p \notin held
  /\ \A j \in JobIds : row[j].plan # p
  /\ \A e \in Approvals : approval[e].plan # p
  /\ UNCHANGED <<row, worker, gate, cancels, cancelling, images, asked, early, approval, restarts>>

TakeReads(e, p) ==
  /\ approval[e] = Idle
  /\ p \in held
  /\ approval' = [approval EXCEPT ![e] = [plan |-> p, left |-> PlanSize]]
  /\ UNCHANGED <<row, worker, gate, cancels, cancelling, images, asked, early, held, restarts>>

\* _studio_batch takes the plan ...
Take(e, p) ==
  /\ approval[e] = Idle
  /\ p \in held
  /\ held' = held \ {p}
  /\ approval' = [approval EXCEPT ![e] = [plan |-> p, left |-> PlanSize]]
  /\ UNCHANGED <<row, worker, gate, cancels, cancelling, images, asked, early, restarts>>

\* ... and starts its batches; one that cannot be started ends it there.
StartNext(e, j) ==
  /\ approval[e].left > 0
  /\ Insert(j, approval[e].plan)
  /\ approval' = [approval EXCEPT ![e].left = @ - 1]
  /\ UNCHANGED held
StartFails(e) ==
  /\ approval[e].left > 0
  /\ approval' = [approval EXCEPT ![e].left = 0]
  /\ UNCHANGED <<row, worker, gate, cancels, cancelling, images, asked, early, held, restarts>>

-----------------------------------------------------------------------------
(* The thread of a batch.                                                  *)

\* No cancel() is between its SELECT and its UPDATE.
Unlocked == cancelling = 0

Apart == UNCHANGED <<cancelling, images, asked, early, held, approval, restarts>>

\* The gate is taken by another: a second has passed, and the batch is cancelled.
GiveUp(j) ==
  /\ worker[j].pc = "queued"
  /\ gate # 0
  /\ Unlocked /\ j \in cancels
  /\ cancels' = cancels \ {j}
  /\ SetState(j, "cancelled")
  /\ GoTo(j, "gone")
  /\ UNCHANGED gate
  /\ Apart

\* The gate is free: the thread takes it and looks for a cancellation.
Admit(j) ==
  /\ worker[j].pc = "queued"
  /\ gate = 0 /\ Unlocked
  /\ gate' = j
  /\ IF j \in cancels
     THEN cancels' = cancels \ {j} /\ SetState(j, "cancelled") /\ GoTo(j, "leaving")
     ELSE GoTo(j, "checked") /\ UNCHANGED <<cancels, row>>
  /\ Apart

\* _run_locked writes `running` over whatever the row says.
Mark(j) ==
  /\ worker[j].pc = "checked"
  /\ SetState(j, "running")
  /\ GoTo(j, "items")
  /\ UNCHANGED <<gate, cancels>>
  /\ Apart

\* The head of the loop.
Look(j) ==
  /\ worker[j].pc = "items" /\ Unlocked
  /\ IF j \in cancels \/ worker[j].saved + worker[j].failed = Items
     THEN GoTo(j, "settling") ELSE GoTo(j, "drawing")
  /\ UNCHANGED <<row, gate, cancels>>
  /\ Apart

\* An image is drawn and saved, or this one fails ...
Draw(j, ok) ==
  /\ worker[j].pc = "drawing"
  /\ worker' = [worker EXCEPT ![j] =
       [pc |-> "recording", saved |-> @.saved + (IF ok THEN 1 ELSE 0),
        failed |-> @.failed + (IF ok THEN 0 ELSE 1)]]
  /\ images' = [images EXCEPT ![j] = @ + (IF ok THEN 1 ELSE 0)]
  /\ UNCHANGED <<row, gate, cancels, cancelling, asked, early, held, approval, restarts>>

\* ... and the row is brought up to it.
RecordedNot(j) == row[j]
Recorded(j) == [row[j] EXCEPT !.saved = worker[j].saved, !.failed = worker[j].failed]
Record(j) ==
  /\ worker[j].pc = "recording"
  /\ row' = [row EXCEPT ![j] = Recorded(j)]
  /\ GoTo(j, "items")
  /\ UNCHANGED <<gate, cancels>>
  /\ Apart

\* The end of the batch, decided under the lock a cancellation takes, too.
OutcomeOfImages(j) == IF worker[j].failed = 0 THEN "done" ELSE "partial"
Outcome(j) ==
  IF j \in cancels THEN "cancelled" ELSE IF worker[j].failed = 0 THEN "done" ELSE "partial"
Settle(j) ==
  /\ worker[j].pc = "settling" /\ Unlocked
  /\ row' = [row EXCEPT ![j] = [Recorded(j) EXCEPT !.state = Outcome(j)]]
  /\ GoTo(j, "leaving")
  /\ UNCHANGED <<gate, cancels>>
  /\ Apart

\* An exception outside the images: a setting, the database.  The row is
\* written without the lock, as that of `running` is.
Throw(j) ==
  /\ worker[j].pc \in {"checked", "drawing", "recording", "settling"}
  /\ SetState(j, "error")
  /\ GoTo(j, "leaving")
  /\ UNCHANGED <<gate, cancels>>
  /\ Apart

LeaveLocked(j) ==
  /\ worker[j].pc = "leaving" /\ Unlocked
  /\ cancels' = cancels \ {j}
  /\ GoTo(j, "gone")
  /\ UNCHANGED <<row, gate>>
  /\ Apart

\* The `finally` of _run.
Leave(j) ==
  /\ worker[j].pc = "leaving" /\ Unlocked
  /\ cancels' = cancels \ {j}
  /\ gate' = 0
  /\ GoTo(j, "gone")
  /\ UNCHANGED row
  /\ Apart

-----------------------------------------------------------------------------

\* studiojob.cancel, by the panel, a tool or 중단: it takes _lock, reads the row
\* and notes the cancellation ...
CancelRead(j) ==
  /\ Unlocked
  /\ row[j].state \in {"pending", "running"}
  /\ cancels' = cancels \cup {j}
  /\ asked' = asked \cup {j}
  /\ IF row[j].state = "pending"
     THEN cancelling' = j /\ early' = early \cup {j}
     ELSE UNCHANGED <<cancelling, early>>
  /\ UNCHANGED <<row, worker, gate, images, held, approval, restarts>>

\* ... and writes over a row that was pending, whatever it says by now.
CancelWrite ==
  /\ ~Unlocked
  /\ SetState(cancelling, "cancelled")
  /\ cancelling' = 0
  /\ UNCHANGED <<worker, gate, cancels, images, asked, early, held, approval, restarts>>

\* The backend ends; at its next start recover_interrupted closes the rows.
BackendEnds ==
  /\ restarts < MaxRestarts
  /\ restarts' = restarts + 1
  /\ row' = [j \in JobIds |-> IF row[j].state \in {"pending", "running"}
                              THEN [row[j] EXCEPT !.state = "cancelled"] ELSE row[j]]
  /\ worker' = [j \in JobIds |-> IF row[j].state = "none" THEN worker[j]
                                 ELSE [NoWorker EXCEPT !.pc = "gone"]]
  /\ gate' = 0
  /\ cancels' = {}
  /\ cancelling' = 0
  /\ held' = {}
  /\ approval' = [e \in Approvals |-> [approval[e] EXCEPT !.left = 0]]
  /\ UNCHANGED <<images, asked, early>>

WorkerStep(j) ==
  \/ GiveUp(j) \/ Admit(j) \/ Mark(j) \/ Look(j) \/ \E ok \in BOOLEAN : Draw(j, ok)
  \/ Record(j) \/ Settle(j) \/ Throw(j) \/ Leave(j)

JobsNext ==
  \/ \E j \in JobIds : Start(j) \/ WorkerStep(j) \/ CancelRead(j)
  \/ CancelWrite
  \/ \E p \in Plans : Hold(p) \/ \E e \in Approvals : Take(e, p)
  \/ \E e \in Approvals : StartFails(e) \/ \E j \in JobIds : StartNext(e, j)
  \/ BackendEnds

(***************************************************************************)
(* A thread that can take a step takes it: the requests to NovelAI have    *)
(* timeouts, and a thread that waits for the gate tries again each second. *)
(* Whether it ever finds the gate free is up to the other threads.  A      *)
(* cancel() that has read the row goes on to write it.                     *)
(***************************************************************************)
JobsFairness ==
  /\ \A j \in JobIds : WF_jobsVars(WorkerStep(j))
  /\ WF_jobsVars(CancelWrite)
JobsSpec == JobsInit /\ [][JobsNext]_jobsVars /\ JobsFairness

-----------------------------------------------------------------------------
\* One batch generates at a time, globally, however batches are cancelled in
\* the queue or fail (_GEN_GATE and the `finally` of _run).
OneGenerates ==
  \A j, k \in JobIds : worker[j].pc \in AtGate /\ worker[k].pc \in AtGate => j = k

\* A cancellation that was accepted is honoured: the batch does not come out as
\* done or partial, at whatever moment it was asked for (cancel and the lock
\* around the final update).
CancelIsHonoured ==
  \A j \in asked : worker[j].pc \in {"leaving", "gone"} => row[j].state \in {"cancelled", "error"}

\* A batch cancelled while it waits its turn draws nothing, although its thread
\* may already be past its look at the cancellations (cancel, _run).
CancelledDrawsNothing == \A j \in early : images[j] = 0

\* What is said of a batch that has ended stays, with two exceptions: its own
\* thread, caught between its look and `running`, takes back a `cancelled`, and a
\* cancellation that read the row as pending writes over the `error` that came
\* in between; no other cancellation and no restart changes it (cancel,
\* recover_interrupted).
TakenBack(j) == row[j].state = "cancelled" /\ worker[j].pc \in AtGate \ {"leaving"}
WrittenOver(j) ==
  cancelling = j /\ row[j].state = "error" /\ row'[j] = [row[j] EXCEPT !.state = "cancelled"]
EndsOnce ==
  [][\A j \in JobIds : row[j].state \in Ended =>
       row'[j] = row[j] \/ TakenBack(j) \/ WrittenOver(j)]_jobsVars

\* A cancellation holds, in the queue as at the end of the drawing.
CancelsHold == CancelIsHonoured /\ CancelledDrawsNothing


\* The row of a batch that has ended tells of its images, but for the one that
\* was on the disk when the backend, or the database, failed it.
RowTellsOfImages ==
  \A j \in JobIds : worker[j].pc \in {"leaving", "gone"} =>
    /\ row[j].saved + row[j].failed <= Items
    /\ row[j].saved = images[j] \/ (row[j].state \in {"error", "cancelled"} /\ row[j].saved + 1 = images[j])
    /\ row[j].state \in {"done", "partial"} =>
         row[j].saved = images[j] /\ row[j].saved + row[j].failed = Items

\* What holds of the batches and their threads: the types, one batch at the gate,
\* rows that tell the truth.
JobsSound == JobsTypeOK /\ OneGenerates /\ RowTellsOfImages


\* A plan that was shown once is run once, whoever approves it and how often:
\* unlike the other proposals a plan is taken, not read (batchreview.take).
PlanRunsOnce ==
  \A p \in Plans : Cardinality({j \in JobIds : row[j].plan = p}) <= PlanSize

\* Every batch comes to its end and gives up the gate, whatever fails.
BatchEnds ==
  \A j \in JobIds : row[j].state = "pending" ~> (row[j].state \in Ended /\ worker[j].pc = "gone")

\* A batch ends, and ends once.
BatchesEnd == EndsOnce /\ BatchEnds

=============================================================================
