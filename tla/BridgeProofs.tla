---------------------------- MODULE BridgeProofs ----------------------------
(***************************************************************************)
(* Proofs about Bridge, for any number of panels, polls, jobs, lost        *)
(* requests and ends of the backend.                                       *)
(*                                                                         *)
(* A job is in the queue, in the answer of one poll or in the hands of one *)
(* panel, in one entry there, and in none of them before it is queued and  *)
(* after it has run: the invariant follows it from one to the next.        *)
(***************************************************************************)
EXTENDS Bridge, FiniteSetTheorems, SequenceTheorems, TLAPS

-----------------------------------------------------------------------------
(* The invariant.                                                          *)

OnceIn(s, j) == \A i, k \in DOMAIN s : j \in s[i].of /\ j \in s[k].of => i = k
AtPolls(j) == {n \in Polls : InEntries(poll[n].jobs, j)}
AtPanels(j) == {p \in Panels : InEntries(hands[p], j)}
Nowhere(j) == ~InEntries(queue, j) /\ AtPolls(j) = {} /\ AtPanels(j) = {}

\* A job has one place, and in it one entry.
InOnePlace(j) ==
  /\ OnceIn(queue, j)
  /\ \A n \in Polls : OnceIn(poll[n].jobs, j)
  /\ \A p \in Panels : OnceIn(hands[p], j)
  /\ \A n, m \in AtPolls(j) : n = m
  /\ \A p, q \in AtPanels(j) : p = q
  /\ AtPolls(j) = {} \/ AtPanels(j) = {}
  /\ InEntries(queue, j) => AtPolls(j) = {} /\ AtPanels(j) = {}

JobInv(j) ==
  /\ InOnePlace(j)
  /\ job[j].times \in {0, 1}
  /\ job[j].times = 1 => Nowhere(j)
  /\ job[j].pc \in {"none", "admitted"} => Nowhere(j) /\ job[j].times = 0
  /\ job[j].pc = "pushed" => job[j].times = 0 /\ (quiet => ~Nowhere(j))

\* Jobs travel with answers alone, and file changes wait in one entry.
OnlyAnswersCarry == \A n \in Polls : poll[n].pc # "answered" => poll[n].jobs = <<>>
OneFilesEntry == \A i, k \in DOMAIN queue : queue[i].files /\ queue[k].files => i = k

BridgeInv ==
  /\ BridgeTypeOK
  /\ LeaseCountsPolls
  /\ OnlyAnswersCarry
  /\ OneFilesEntry
  /\ \A j \in Jobs : JobInv(j)

-----------------------------------------------------------------------------
(* Entries.                                                                *)

LEMMA EmptyHasNone == \A j : ~InEntries(<<>>, j) /\ OnceIn(<<>>, j)
BY DEF InEntries, OnceIn

LEMMA AppendedEntry ==
  ASSUME NEW s \in Seq(Entries), NEW e \in Entries, NEW j
  PROVE  /\ Append(s, e) \in Seq(Entries)
         /\ InEntries(Append(s, e), j) <=> InEntries(s, j) \/ j \in e.of
         /\ OnceIn(s, j) /\ ~(InEntries(s, j) /\ j \in e.of) => OnceIn(Append(s, e), j)
<1>1. /\ Append(s, e) \in Seq(Entries)
      /\ Len(Append(s, e)) = Len(s) + 1
      /\ \A i \in 1 .. Len(s) : Append(s, e)[i] = s[i]
      /\ Append(s, e)[Len(s) + 1] = e
  BY AppendProperties
<1>2. Len(s) \in Nat /\ DOMAIN s = 1 .. Len(s) /\ DOMAIN Append(s, e) = 1 .. (Len(s) + 1)
  BY <1>1, LenProperties
<1>3. \A i \in DOMAIN Append(s, e) : i \in DOMAIN s \/ i = Len(s) + 1
  BY <1>2
<1>4. Len(s) + 1 \in DOMAIN Append(s, e) /\ \A i \in DOMAIN s : i \in DOMAIN Append(s, e)
  BY <1>2
<1>5. InEntries(Append(s, e), j) <=> InEntries(s, j) \/ j \in e.of
  BY <1>1, <1>2, <1>3, <1>4 DEF InEntries
<1>6. OnceIn(s, j) /\ ~(InEntries(s, j) /\ j \in e.of) => OnceIn(Append(s, e), j)
  BY <1>1, <1>2, <1>3, <1>4 DEF InEntries, OnceIn
<1> QED BY <1>1, <1>5, <1>6

LEMMA JoinedEntries ==
  ASSUME NEW s \in Seq(Entries), NEW t \in Seq(Entries), NEW j
  PROVE  /\ s \o t \in Seq(Entries)
         /\ InEntries(s \o t, j) <=> InEntries(s, j) \/ InEntries(t, j)
         /\ OnceIn(s, j) /\ OnceIn(t, j) /\ ~(InEntries(s, j) /\ InEntries(t, j))
              => OnceIn(s \o t, j)
<1>1. /\ s \o t \in Seq(Entries)
      /\ Len(s \o t) = Len(s) + Len(t)
      /\ \A i \in 1 .. Len(s) + Len(t) :
           (s \o t)[i] = IF i <= Len(s) THEN s[i] ELSE t[i - Len(s)]
  BY ConcatProperties
<1>2. /\ Len(s) \in Nat /\ DOMAIN s = 1 .. Len(s)
      /\ Len(t) \in Nat /\ DOMAIN t = 1 .. Len(t)
      /\ DOMAIN (s \o t) = 1 .. (Len(s) + Len(t))
  BY <1>1, LenProperties
<1>3. ASSUME NEW i \in DOMAIN (s \o t)
      PROVE  \/ i \in DOMAIN s /\ (s \o t)[i] = s[i]
             \/ i > Len(s) /\ i - Len(s) \in DOMAIN t /\ (s \o t)[i] = t[i - Len(s)]
  BY <1>1, <1>2
<1>4. ASSUME NEW i \in DOMAIN s PROVE i \in DOMAIN (s \o t) /\ (s \o t)[i] = s[i]
  BY <1>1, <1>2
<1>5. ASSUME NEW i \in DOMAIN t
      PROVE  Len(s) + i \in DOMAIN (s \o t) /\ (s \o t)[Len(s) + i] = t[i]
  BY <1>1, <1>2
<1>6. InEntries(s \o t, j) <=> InEntries(s, j) \/ InEntries(t, j)
  BY <1>3, <1>4, <1>5 DEF InEntries
<1>7. ASSUME OnceIn(s, j), OnceIn(t, j), ~(InEntries(s, j) /\ InEntries(t, j)),
             NEW i \in DOMAIN (s \o t), NEW k \in DOMAIN (s \o t),
             j \in (s \o t)[i].of, j \in (s \o t)[k].of
      PROVE  i = k
  <2>1. CASE i \in DOMAIN s /\ (s \o t)[i] = s[i]
    BY <2>1, <1>3, <1>7 DEF InEntries, OnceIn
  <2>2. CASE i > Len(s) /\ i - Len(s) \in DOMAIN t /\ (s \o t)[i] = t[i - Len(s)]
    <3>1. k > Len(s) /\ k - Len(s) \in DOMAIN t /\ (s \o t)[k] = t[k - Len(s)]
      BY <2>2, <1>3, <1>7 DEF InEntries
    <3>2. i - Len(s) = k - Len(s)
      BY <2>2, <3>1, <1>7 DEF OnceIn
    <3> QED BY <3>2, <1>2
  <2> QED BY <2>1, <2>2, <1>3
<1> QED BY <1>1, <1>6, <1>7 DEF OnceIn

LEMMA FirstEntryTaken ==
  ASSUME NEW s \in Seq(Entries), s # <<>>, NEW j
  PROVE  /\ Head(s) \in Entries /\ Tail(s) \in Seq(Entries)
         /\ InEntries(s, j) <=> InEntries(Tail(s), j) \/ j \in Head(s).of
         /\ OnceIn(s, j) => OnceIn(Tail(s), j) /\ ~(InEntries(Tail(s), j) /\ j \in Head(s).of)
<1>1. /\ Head(s) \in Entries /\ Tail(s) \in Seq(Entries)
      /\ Len(Tail(s)) = Len(s) - 1
      /\ \A i \in 1 .. Len(Tail(s)) : Tail(s)[i] = s[i + 1]
      /\ Head(s) = s[1]
  BY HeadTailProperties
<1>2. /\ Len(s) \in Nat \ {0} /\ DOMAIN s = 1 .. Len(s)
      /\ DOMAIN Tail(s) = 1 .. (Len(s) - 1)
  BY <1>1, LenProperties, EmptySeq
<1>3. ASSUME NEW i \in DOMAIN s
      PROVE  i = 1 \/ (i - 1 \in DOMAIN Tail(s) /\ Tail(s)[i - 1] = s[i])
  BY <1>1, <1>2
<1>4. 1 \in DOMAIN s /\ \A i \in DOMAIN Tail(s) : i + 1 \in DOMAIN s /\ Tail(s)[i] = s[i + 1]
  BY <1>1, <1>2
<1>5. InEntries(s, j) <=> InEntries(Tail(s), j) \/ j \in Head(s).of
  BY <1>1, <1>3, <1>4 DEF InEntries
<1>6. ASSUME OnceIn(s, j) PROVE OnceIn(Tail(s), j)
  <2> SUFFICES ASSUME NEW i \in DOMAIN Tail(s), NEW k \in DOMAIN Tail(s),
                      j \in Tail(s)[i].of, j \in Tail(s)[k].of
               PROVE  i = k
    BY DEF OnceIn
  <2>1. i + 1 = k + 1
    BY <1>4, <1>6 DEF OnceIn
  <2> QED BY <2>1, <1>2
<1>7. ASSUME OnceIn(s, j), InEntries(Tail(s), j) PROVE j \notin Head(s).of
  <2>1. PICK i \in DOMAIN Tail(s) : j \in Tail(s)[i].of
    BY <1>7 DEF InEntries
  <2>2. i + 1 # 1
    BY <1>2
  <2> QED BY <2>1, <2>2, <1>1, <1>4, <1>7 DEF OnceIn
<1> QED BY <1>1, <1>5, <1>6, <1>7

-----------------------------------------------------------------------------
(* Types.                                                                  *)

LEMMA EmptyTypes == Nothing \in Contexts /\ NoPoll \in PollRecords
<1>1. Nothing \in Contexts
  BY DEF Nothing, Contexts
<1>2. <<>> \in Seq(Entries)
  BY EmptySeq
<1> QED BY <1>1, <1>2 DEF NoPoll, PollRecords

LEMMA RecordTypes ==
  ASSUME BridgeTypeOK
  PROVE  /\ Nothing \in Contexts
         /\ NoPoll \in PollRecords
         /\ \A p \in Panels : Context(p) \in Contexts
         /\ \A n \in Polls : poll[n] \in PollRecords
         /\ \A p \in Panels : panel[p] \in [pc : Loops, at : Nat] /\ hands[p] \in Seq(Entries)
<1>1. \A p \in Panels : Context(p) \in Contexts
  BY DEF Context, Contexts, BridgeTypeOK
<1> QED BY <1>1, EmptyTypes DEF BridgeTypeOK

LEMMA PollFields ==
  ASSUME BridgeTypeOK, NEW n \in Polls
  PROVE  /\ poll[n].context \in Contexts
         /\ poll[n].jobs \in Seq(Entries)
         /\ poll[n].enabled \in BOOLEAN /\ poll[n].up \in BOOLEAN /\ poll[n].mine \in BOOLEAN
BY RecordTypes DEF PollRecords

LEMMA GoToTyped ==
  ASSUME BridgeTypeOK, NEW p, NEW pc \in Loops, GoTo(p, pc)
  PROVE  panel' \in [Panels -> [pc : Loops, at : Nat]]
BY DEF BridgeTypeOK, GoTo

LEMMA ForsakenTyped ==
  ASSUME BridgeTypeOK, NEW p, NEW up \in BOOLEAN
  PROVE  Forsaken(p, up) \in [Polls -> PollRecords]
<1>1. \A n \in Polls : [poll[n] EXCEPT !.mine = FALSE, !.up = @ /\ up] \in PollRecords
  <2> TAKE n \in Polls
  <2>1. poll[n] \in PollRecords /\ (poll[n].up /\ up) \in BOOLEAN
    BY RecordTypes
  <2> QED BY <2>1 DEF PollRecords
<1> QED BY <1>1, RecordTypes DEF Forsaken

LEMMA TurnTyped ==
  ASSUME BridgeTypeOK, \/ \E c \in Contexts : TurnOn(c)
                       \/ TurnOff
  PROVE  /\ enabled' \in BOOLEAN /\ fresh' \in BOOLEAN /\ inFlight' \in Nat
         /\ context' \in Contexts /\ queue' \in Seq(Entries) /\ quiet' \in BOOLEAN
<1>1. Nothing \in Contexts /\ <<>> \in Seq(Entries)
  BY RecordTypes, EmptySeq
<1> QED BY <1>1 DEF BridgeTypeOK, TurnOn, TurnOff

LEMMA PanelStepsTyped ==
  ASSUME BridgeTypeOK, NEW p \in Panels, PanelSteps(p)
  PROVE  BridgeTypeOK'
<1>0. /\ Context(p) \in Contexts /\ <<>> \in Seq(Entries)
      /\ panel[p] \in [pc : Loops, at : Nat] /\ hands[p] \in Seq(Entries)
      /\ Forsaken(p, TRUE) \in [Polls -> PollRecords] /\ Forsaken(p, FALSE) \in [Polls -> PollRecords]
      /\ [on |-> FALSE, context |-> Context(p)] \in Posts
  BY RecordTypes, ForsakenTyped, EmptySeq DEF Posts
<1>1. CASE SwitchOn(p) \/ Again(p)
  <2>1. panel' \in [Panels -> [pc : Loops, at : Nat]]
    BY <1>1, GoToTyped DEF SwitchOn, Again, Loops
  <2>2. TurnOn(Context(p)) /\ events' \in Nat /\ UNCHANGED <<hands, poll, posts, job>>
    BY <1>1 DEF SwitchOn, Again, Count, BridgeTypeOK
  <2> QED BY <1>0, <2>1, <2>2, TurnTyped DEF BridgeTypeOK
<1>2. CASE SwitchOff(p)
  <2>1. panel' \in [Panels -> [pc : Loops, at : Nat]]
    BY <1>2, GoToTyped DEF SwitchOff, Loops
  <2>2. posts' \in SUBSET Posts
    BY <1>0, <1>2 DEF SwitchOff, BridgeTypeOK
  <2>3. poll' = Forsaken(p, TRUE) /\ events' \in Nat
    BY <1>2 DEF SwitchOff, Count, BridgeTypeOK
  <2>4. poll' \in [Polls -> PollRecords]
    BY <1>0, <2>3
  <2> QED BY <1>2, <2>1, <2>2, <2>3, <2>4 DEF SwitchOff, BridgeTypeOK
<1>3. CASE Close(p)
  <2>1. panel' \in [Panels -> [pc : Loops, at : Nat]]
    BY <1>3, GoToTyped DEF Close, Loops
  <2>2. posts' \in SUBSET Posts
    BY <1>0, <1>3 DEF Close, BridgeTypeOK
  <2>3. hands' \in [Panels -> Seq(Entries)] /\ quiet' \in BOOLEAN /\ events' \in Nat
    BY <1>0, <1>3 DEF Close, Count, BridgeTypeOK
  <2> QED BY <1>0, <1>3, <2>1, <2>2, <2>3 DEF Close, BridgeTypeOK
<1>4. CASE OpenOther(p)
  <2>0. panel[p].at + 1 \in Nat /\ [panel[p] EXCEPT !.at = @ + 1] \in [pc : Loops, at : Nat]
    BY <1>0
  <2>1. panel' = [panel EXCEPT ![p] = [panel[p] EXCEPT !.at = @ + 1]]
    BY <1>4 DEF OpenOther, BridgeTypeOK
  <2>2. panel' \in [Panels -> [pc : Loops, at : Nat]]
    BY <2>0, <2>1 DEF BridgeTypeOK
  <2>3. [on |-> TRUE, context |-> [of |-> p, at |-> panel[p].at + 1]] \in Posts
    BY <2>0 DEF Posts, Contexts
  <2>4. posts' \in SUBSET Posts
    BY <2>3, <1>4 DEF OpenOther, BridgeTypeOK
  <2> QED BY <1>4, <2>2, <2>4 DEF OpenOther, Count, BridgeTypeOK
<1>5. CASE GiveUp(p)
  <2>1. panel' \in [Panels -> [pc : Loops, at : Nat]]
    BY <1>5, GoToTyped DEF GiveUp, Loops
  <2> QED BY <1>5, <2>1 DEF GiveUp, Count, BridgeTypeOK
<1>6. CASE Run(p)
  <2>1. Tail(hands[p]) \in Seq(Entries) /\ Head(hands[p]) \in Entries
    BY <1>0, <1>6, HeadTailProperties DEF Run
  <2>2. hands' \in [Panels -> Seq(Entries)] /\ panel' \in [Panels -> [pc : Loops, at : Nat]]
    <3>1. hands' \in [Panels -> Seq(Entries)]
      BY <2>1, <1>6 DEF Run, BridgeTypeOK
    <3>2. PICK pc : pc = IF panel[p].pc = "runs" /\ Len(hands[p]) = 1 THEN "asks" ELSE panel[p].pc
      OBVIOUS
    <3>3. panel' = [panel EXCEPT ![p] = [panel[p] EXCEPT !.pc = pc]]
      BY <1>6, <3>2 DEF Run, BridgeTypeOK
    <3>4. [panel[p] EXCEPT !.pc = pc] \in [pc : Loops, at : Nat]
      BY <3>2 DEF Loops, BridgeTypeOK
    <3>5. panel' \in [Panels -> [pc : Loops, at : Nat]]
      BY <3>3, <3>4 DEF BridgeTypeOK
    <3> QED BY <3>1, <3>5
  <2>3. job' \in [Jobs -> [pc : JobStates, times : Nat, for : Contexts]]
    <3>1. Nothing \in Contexts
      BY RecordTypes
    <3> QED BY <1>6, <3>1 DEF Run, JobStates, BridgeTypeOK
  <2> QED BY <1>6, <2>2, <2>3 DEF Run, BridgeTypeOK
<1> QED BY <1>1, <1>2, <1>3, <1>4, <1>5, <1>6 DEF PanelSteps

\* The lease is above zero while a poll is held.
LEMMA HeldPolls ==
  ASSUME BridgeTypeOK
  PROVE  IsFiniteSet(Held) /\ Cardinality(Held) \in Nat
<1>1. IsFiniteSet(Polls)
  BY FS_Interval, BridgeAssumption DEF Polls
<1>2. IsFiniteSet(Held)
  BY <1>1, FS_Subset DEF Held
<1> QED BY <1>2, FS_CardinalityType

LEMMA OneLessHeld ==
  ASSUME BridgeTypeOK, LeaseCountsPolls, NEW n \in Held
  PROVE  inFlight - 1 \in Nat /\ Cardinality(Held \ {n}) = inFlight - 1
<1>1. Cardinality(Held \ {n}) = Cardinality(Held) - 1 /\ IsFiniteSet(Held \ {n})
  BY HeldPolls, FS_RemoveElement
<1>2. Cardinality(Held \ {n}) \in Nat
  BY <1>1, FS_CardinalityType
<1> QED BY <1>1, <1>2 DEF LeaseCountsPolls

LEMMA PollStepsTyped ==
  ASSUME BridgeTypeOK, LeaseCountsPolls, NEW n \in Polls, PollSteps(n)
  PROVE  BridgeTypeOK'
<1>0. /\ poll[n] \in PollRecords /\ NoPoll \in PollRecords /\ Nothing \in Contexts
      /\ poll[n].context \in Contexts /\ poll[n].jobs \in Seq(Entries) /\ <<>> \in Seq(Entries)
      /\ poll[n].enabled \in BOOLEAN
  BY RecordTypes, PollFields, EmptySeq
<1>1. CASE Arrive(n)
  <2>1. [poll[n] EXCEPT !.pc = "held"] \in PollRecords /\ [poll[n] EXCEPT !.pc = "answered"] \in PollRecords
    BY <1>0 DEF PollRecords
  <2>2. poll' \in [Polls -> PollRecords]
    BY <1>1, <2>1 DEF Arrive, BridgeTypeOK
  <2>3. context' \in Contexts /\ fresh' \in BOOLEAN /\ inFlight' \in Nat
    <3>1. CASE enabled
      BY <1>0, <1>1, <3>1 DEF Arrive, BridgeTypeOK
    <3>2. CASE ~enabled
      BY <1>0, <1>1, <3>2 DEF Arrive, BridgeTypeOK
    <3> QED BY <3>1, <3>2
  <2> QED BY <1>1, <2>2, <2>3 DEF Arrive, BridgeTypeOK
<1>2. CASE Return(n)
  <2>1. inFlight - 1 \in Nat
    BY <1>2, OneLessHeld DEF Return, Held
  <2>2. [poll[n] EXCEPT !.pc = "answered", !.enabled = enabled, !.jobs = queue] \in PollRecords
    BY <1>0 DEF PollRecords, BridgeTypeOK
  <2>3. poll' \in [Polls -> PollRecords]
    BY <1>2, <2>2 DEF Return, BridgeTypeOK
  <2>4. quiet' \in BOOLEAN
    BY <1>2 DEF Return, BridgeTypeOK
  <2> QED BY <1>0, <1>2, <2>1, <2>3, <2>4 DEF Return, BridgeTypeOK
<1>3. CASE Gone(n)
  <2>1. inFlight - 1 \in Nat
    BY <1>3, OneLessHeld DEF Gone, Held
  <2> QED BY <1>0, <1>3, <2>1 DEF Gone, BridgeTypeOK
<1>4. CASE Discard(n)
  BY <1>0, <1>4 DEF Discard, BridgeTypeOK
<1>5. CASE Break(n)
  <2>1. panel' \in [Panels -> [pc : Loops, at : Nat]]
    BY <1>5, GoToTyped DEF Break, Loops
  <2>2. [poll[n] EXCEPT !.up = FALSE, !.mine = FALSE] \in PollRecords
    BY <1>0 DEF PollRecords
  <2> QED BY <1>5, <2>1, <2>2 DEF Break, Count, BridgeTypeOK
<1>6. ASSUME NEW p \in Panels, Ask(p, n) PROVE BridgeTypeOK'
  <2>1. panel' \in [Panels -> [pc : Loops, at : Nat]]
    BY <1>6, GoToTyped DEF Ask, Loops
  <2>2. [NoPoll EXCEPT !.pc = "sent", !.context = Context(p), !.up = TRUE, !.mine = TRUE] \in PollRecords
    BY <1>0, RecordTypes DEF PollRecords
  <2> QED BY <1>6, <2>1, <2>2 DEF Ask, BridgeTypeOK
<1>7. ASSUME NEW p \in Panels, Hear(p, n) PROVE BridgeTypeOK'
  <2>1. panel' \in [Panels -> [pc : Loops, at : Nat]]
    <3>1. (IF ~poll[n].enabled THEN "again" ELSE IF poll[n].jobs = <<>> THEN "asks" ELSE "runs") \in Loops
      BY DEF Loops
    <3> QED BY <1>7, <3>1, GoToTyped DEF Hear
  <2>2. hands[p] \o poll[n].jobs \in Seq(Entries) /\ hands[p] \in Seq(Entries)
    BY <1>0, RecordTypes, ConcatProperties
  <2>3. hands' \in [Panels -> Seq(Entries)]
    BY <1>7, <2>2 DEF Hear, BridgeTypeOK
  <2>4. quiet' \in BOOLEAN
    BY <1>7 DEF Hear, BridgeTypeOK
  <2> QED BY <1>0, <1>7, <2>1, <2>3, <2>4 DEF Hear, BridgeTypeOK
<1> QED BY <1>1, <1>2, <1>3, <1>4, <1>5, <1>6, <1>7 DEF PollSteps

LEMMA JobStepsTyped ==
  ASSUME BridgeTypeOK, NEW j \in Jobs, JobSteps(j)
  PROVE  BridgeTypeOK'
<1>1. ASSUME Admit(j) \/ PushJob(j) \/ FilesChanged(j)
      PROVE  job' \in [Jobs -> [pc : JobStates, times : Nat, for : Contexts]]
  <2>1. \A pc \in JobStates, c \in Contexts :
          [job[j] EXCEPT !.pc = pc, !.for = c] \in [pc : JobStates, times : Nat, for : Contexts]
    BY DEF BridgeTypeOK
  <2>2. \A pc \in JobStates :
          [job[j] EXCEPT !.pc = pc] \in [pc : JobStates, times : Nat, for : Contexts]
    BY DEF BridgeTypeOK
  <2>3. CASE Admit(j)
    <3>1. job' = [job EXCEPT ![j] = [job[j] EXCEPT !.pc = "admitted", !.for = context]]
      BY <2>3 DEF Admit, BridgeTypeOK
    <3> QED BY <2>1, <3>1 DEF JobStates, BridgeTypeOK
  <2>4. CASE PushJob(j) \/ FilesChanged(j)
    <3>1. job' = [job EXCEPT ![j] = [job[j] EXCEPT !.pc = "pushed"]]
      BY <2>4 DEF PushJob, FilesChanged, BridgeTypeOK
    <3> QED BY <2>2, <3>1 DEF JobStates, BridgeTypeOK
  <2> QED BY <1>1, <2>3, <2>4
<1>2. CASE Admit(j)
  BY <1>1, <1>2 DEF Admit, JobStep, Count, BridgeTypeOK
<1>3. CASE PushJob(j)
  <2>1. [files |-> FALSE, of |-> {j}, for |-> job[j].for] \in Entries
    BY DEF Entries, BridgeTypeOK
  <2>2. queue' \in Seq(Entries)
    BY <1>3, <2>1, AppendProperties DEF PushJob, BridgeTypeOK
  <2> QED BY <1>1, <1>3, <2>2 DEF PushJob, JobStep, BridgeTypeOK
<1>4. CASE FilesChanged(j)
  <2>1. [files |-> TRUE, of |-> {j}, for |-> Nothing] \in Entries
    BY RecordTypes DEF Entries
  <2>2. Append(queue, [files |-> TRUE, of |-> {j}, for |-> Nothing]) \in Seq(Entries)
    BY <2>1, AppendProperties DEF BridgeTypeOK
  <2>3. /\ Len(queue) \in Nat /\ DOMAIN queue = 1 .. Len(queue)
        /\ \A i \in DOMAIN queue : queue[i] \in Entries
    BY LenProperties, ElementOfSeq DEF BridgeTypeOK
  <2>4. \A i \in DOMAIN queue :
          (IF queue[i].files THEN [queue[i] EXCEPT !.of = @ \cup {j}] ELSE queue[i]) \in Entries
    BY <2>3 DEF Entries
  <2>5. [i \in DOMAIN queue |-> IF queue[i].files
                                THEN [queue[i] EXCEPT !.of = @ \cup {j}] ELSE queue[i]] \in Seq(Entries)
    BY <2>3, <2>4
  <2>6. queue' \in Seq(Entries)
    BY <1>4, <2>2, <2>5 DEF FilesChanged
  <2> QED BY <1>1, <1>4, <2>6 DEF FilesChanged, JobStep, Count, BridgeTypeOK
<1> QED BY <1>2, <1>3, <1>4 DEF JobSteps

LEMMA OtherStepsTyped ==
  ASSUME BridgeTypeOK, Lapse \/ Forget \/ Restart \/ \E m \in posts : Deliver(m) \/ Lose(m)
  PROVE  BridgeTypeOK'
<1>0. Nothing \in Contexts /\ NoPoll \in PollRecords /\ <<>> \in Seq(Entries)
  BY RecordTypes, EmptySeq
<1>1. CASE Lapse
  BY <1>1 DEF Lapse, BridgeTypeOK
<1>2. CASE Forget
  BY <1>0, <1>2 DEF Forget, BridgeTypeOK
<1>3. CASE Restart
  <2>1. panel' \in [Panels -> [pc : Loops, at : Nat]]
    BY <1>3 DEF Restart, Loops, BridgeTypeOK
  <2>2. job' \in [Jobs -> [pc : JobStates, times : Nat, for : Contexts]]
    BY <1>3 DEF Restart, JobStates, BridgeTypeOK
  <2>3. poll' \in [Polls -> PollRecords]
    BY <1>0, <1>3 DEF Restart
  <2>4. events' \in Nat /\ inFlight' \in Nat
    BY <1>3 DEF Restart, Count, BridgeTypeOK
  <2>5. enabled' \in BOOLEAN /\ fresh' \in BOOLEAN /\ quiet' \in BOOLEAN
    BY <1>3 DEF Restart
  <2> QED BY <1>0, <1>3, <2>1, <2>2, <2>3, <2>4, <2>5 DEF Restart, BridgeTypeOK
<1>4. ASSUME NEW m \in posts, Deliver(m) PROVE BridgeTypeOK'
  <2>1. m.context \in Contexts /\ (TurnOn(m.context) \/ TurnOff)
    BY <1>4 DEF Deliver, Posts, BridgeTypeOK
  <2>2. posts' \in SUBSET Posts /\ UNCHANGED <<panel, hands, poll, job, events>>
    BY <1>4 DEF Deliver, BridgeTypeOK
  <2> QED BY <2>1, <2>2, TurnTyped DEF BridgeTypeOK
<1>5. ASSUME NEW m \in posts, Lose(m) PROVE BridgeTypeOK'
  BY <1>5 DEF Lose, Count, BridgeTypeOK
<1> QED BY <1>1, <1>2, <1>3, <1>4, <1>5

LEMMA TypesStay ==
  ASSUME BridgeTypeOK, LeaseCountsPolls, [BridgeNext]_bridgeVars
  PROVE  BridgeTypeOK'
<1>1. CASE UNCHANGED bridgeVars
  BY <1>1 DEF bridgeVars, BridgeTypeOK
<1> QED BY <1>1, PanelStepsTyped, PollStepsTyped, JobStepsTyped, OtherStepsTyped DEF BridgeNext

-----------------------------------------------------------------------------
(* The lease.                                                              *)

LEMMA LeaseKept ==
  ASSUME BridgeTypeOK, LeaseCountsPolls, [BridgeNext]_bridgeVars
  PROVE  LeaseCountsPolls'
<1>1. ASSUME inFlight' = inFlight, \A n \in Polls : poll'[n].pc = "held" <=> poll[n].pc = "held"
      PROVE  LeaseCountsPolls'
  <2>1. Held' = Held
    BY <1>1 DEF Held
  <2> QED BY <1>1, <2>1 DEF LeaseCountsPolls
<1>2. ASSUME NEW p \in Panels, PanelSteps(p) PROVE LeaseCountsPolls'
  <2>1. \A up \in BOOLEAN, n \in Polls : Forsaken(p, up)[n].pc = poll[n].pc
    BY RecordTypes DEF Forsaken, PollRecords
  <2>2. poll' = poll \/ \E up \in BOOLEAN : poll' = Forsaken(p, up)
    BY <1>2 DEF PanelSteps, SwitchOn, SwitchOff, Close, OpenOther, Again, GiveUp, Run
  <2>3. inFlight' = inFlight
    BY <1>2 DEF PanelSteps, SwitchOn, SwitchOff, Close, OpenOther, Again, GiveUp, Run, TurnOn
  <2> QED BY <1>1, <2>1, <2>2, <2>3
<1>3. ASSUME NEW n \in Polls, PollSteps(n) PROVE LeaseCountsPolls'
  <2>0. poll[n] \in PollRecords
    BY RecordTypes
  <2>1. CASE Arrive(n)
    <3>1. CASE ~enabled
      BY <1>1, <2>0, <2>1, <3>1 DEF Arrive, PollRecords, BridgeTypeOK
    <3>2. CASE enabled
      <4>1. n \notin Held /\ Held' = Held \cup {n} /\ inFlight' = inFlight + 1
        BY <2>0, <2>1, <3>2 DEF Arrive, Held, PollRecords, BridgeTypeOK
      <4>2. Cardinality(Held \cup {n}) = Cardinality(Held) + 1
        BY <4>1, HeldPolls, FS_AddElement
      <4> QED BY <4>1, <4>2 DEF LeaseCountsPolls
    <3> QED BY <3>1, <3>2
  <2>2. CASE Return(n) \/ Gone(n)
    <3>1. n \in Held /\ Held' = Held \ {n} /\ inFlight' = inFlight - 1
      BY <2>0, <2>2 DEF Return, Gone, Held, NoPoll, PollRecords, BridgeTypeOK
    <3> QED BY <3>1, OneLessHeld DEF LeaseCountsPolls
  <2>3. CASE Discard(n)
    BY <1>1, <2>3 DEF Discard, NoPoll, BridgeTypeOK
  <2>4. CASE Break(n)
    BY <1>1, <2>0, <2>4 DEF Break, PollRecords, BridgeTypeOK
  <2>5. ASSUME NEW p \in Panels, Ask(p, n) PROVE LeaseCountsPolls'
    BY <1>1, <2>5 DEF Ask, NoPoll, BridgeTypeOK
  <2>6. ASSUME NEW p \in Panels, Hear(p, n) PROVE LeaseCountsPolls'
    BY <1>1, <2>6 DEF Hear, NoPoll, BridgeTypeOK
  <2> QED BY <1>3, <2>1, <2>2, <2>3, <2>4, <2>5, <2>6 DEF PollSteps
<1>4. CASE Restart
  <2>1. Held' = {}
    BY <1>4 DEF Restart, Held, NoPoll
  <2> QED BY <1>4, <2>1, FS_EmptySet DEF Restart, LeaseCountsPolls
<1>5. ASSUME \/ \E j \in Jobs : JobSteps(j)
             \/ \E m \in posts : Deliver(m) \/ Lose(m)
             \/ Lapse \/ Forget
      PROVE  inFlight' = inFlight /\ poll' = poll
  BY <1>5 DEF JobSteps, Admit, PushJob, FilesChanged, JobStep, Deliver, Lose, Lapse, Forget, TurnOn, TurnOff
<1>6. CASE UNCHANGED bridgeVars
  BY <1>1, <1>6 DEF bridgeVars
<1> QED BY <1>1, <1>2, <1>3, <1>4, <1>5, <1>6 DEF BridgeNext

-----------------------------------------------------------------------------
(* Answers and file changes.                                               *)

\* A step of one poll leaves the others alone.
LEMMA OtherPollsStay ==
  ASSUME BridgeTypeOK, NEW n \in Polls, PollSteps(n)
  PROVE  \A m \in Polls : m # n => poll'[m] = poll[m]
<1>0. poll \in [Polls -> PollRecords]
  BY DEF BridgeTypeOK
<1>1. CASE Arrive(n)
  <2>1. \E r : poll' = [poll EXCEPT ![n] = r]
    BY <1>0, <1>1 DEF Arrive
  <2> QED BY <1>0, <2>1
<1>2. CASE Return(n)
  BY <1>0, <1>2 DEF Return
<1>3. CASE Gone(n) \/ Discard(n)
  BY <1>0, <1>3 DEF Gone, Discard
<1>4. CASE Break(n)
  BY <1>0, <1>4 DEF Break
<1>5. ASSUME NEW p \in Panels, Ask(p, n) \/ Hear(p, n)
      PROVE  \A m \in Polls : m # n => poll'[m] = poll[m]
  <2>1. \E r : poll' = [poll EXCEPT ![n] = r]
    BY <1>5 DEF Ask, Hear
  <2> QED BY <1>0, <2>1
<1> QED BY <1>1, <1>2, <1>3, <1>4, <1>5 DEF PollSteps

\* A request that arrives or breaks keeps the jobs of its answer.
LEMMA AnswerStays ==
  ASSUME BridgeTypeOK, NEW n \in Polls, Arrive(n) \/ Break(n)
  PROVE  /\ poll'[n].jobs = poll[n].jobs
         /\ poll[n].pc = "answered" => poll'[n].pc = "answered"
<1>0. poll \in [Polls -> PollRecords] /\ poll[n] \in PollRecords
  BY RecordTypes DEF BridgeTypeOK
<1>1. CASE Arrive(n)
  <2>1. poll[n].pc = "sent"
    BY <1>1 DEF Arrive
  <2>2. poll' = [poll EXCEPT ![n].pc = "held"] \/ poll' = [poll EXCEPT ![n].pc = "answered"]
    BY <1>1 DEF Arrive
  <2> QED BY <1>0, <2>1, <2>2 DEF PollRecords
<1>2. CASE Break(n)
  <2>1. poll' = [poll EXCEPT ![n].up = FALSE, ![n].mine = FALSE]
    BY <1>2 DEF Break
  <2> QED BY <1>0, <2>1 DEF PollRecords
<1> QED BY <1>1, <1>2

LEMMA CarryKept ==
  ASSUME BridgeTypeOK, OnlyAnswersCarry, [BridgeNext]_bridgeVars
  PROVE  OnlyAnswersCarry'
<1>0. \A n \in Polls : poll[n] \in PollRecords
  BY RecordTypes
<1>1. ASSUME NEW p \in Panels, PanelSteps(p) PROVE OnlyAnswersCarry'
  <2>1. \A up \in BOOLEAN, n \in Polls :
          Forsaken(p, up)[n].pc = poll[n].pc /\ Forsaken(p, up)[n].jobs = poll[n].jobs
    BY <1>0 DEF Forsaken, PollRecords
  <2>2. poll' = poll \/ \E up \in BOOLEAN : poll' = Forsaken(p, up)
    BY <1>1 DEF PanelSteps, SwitchOn, SwitchOff, Close, OpenOther, Again, GiveUp, Run
  <2> QED BY <2>1, <2>2 DEF OnlyAnswersCarry
<1>2. ASSUME NEW n \in Polls, PollSteps(n) PROVE OnlyAnswersCarry'
  <2>1. CASE Arrive(n) \/ Break(n)
    BY <1>2, <2>1, OtherPollsStay, AnswerStays DEF OnlyAnswersCarry
  <2>2. CASE Return(n)
    BY <1>0, <2>2 DEF Return, OnlyAnswersCarry, PollRecords, BridgeTypeOK
  <2>3. CASE Gone(n) \/ Discard(n) \/ \E p \in Panels : Hear(p, n)
    <3>1. poll' = [poll EXCEPT ![n] = NoPoll]
      BY <2>3 DEF Gone, Discard, Hear
    <3> QED BY <3>1 DEF NoPoll, OnlyAnswersCarry, BridgeTypeOK
  <2>4. ASSUME NEW p \in Panels, Ask(p, n) PROVE OnlyAnswersCarry'
    BY <2>4 DEF Ask, NoPoll, OnlyAnswersCarry, BridgeTypeOK
  <2> QED BY <1>2, <2>1, <2>2, <2>3, <2>4 DEF PollSteps
<1>3. CASE Restart
  BY <1>3 DEF Restart, NoPoll, OnlyAnswersCarry
<1>4. ASSUME \/ \E j \in Jobs : JobSteps(j)
             \/ \E m \in posts : Deliver(m) \/ Lose(m)
             \/ Lapse \/ Forget \/ UNCHANGED bridgeVars
      PROVE  poll' = poll
  BY <1>4 DEF JobSteps, Admit, PushJob, FilesChanged, JobStep, Deliver, Lose, Lapse, Forget, bridgeVars
<1>5. CASE poll' = poll
  BY <1>5 DEF OnlyAnswersCarry
<1> QED BY <1>1, <1>2, <1>3, <1>4, <1>5 DEF BridgeNext

LEMMA FilesKept ==
  ASSUME BridgeTypeOK, OneFilesEntry, [BridgeNext]_bridgeVars
  PROVE  OneFilesEntry'
<1>0. /\ Len(queue) \in Nat /\ DOMAIN queue = 1 .. Len(queue)
      /\ \A i \in DOMAIN queue : queue[i] \in Entries
  BY LenProperties, ElementOfSeq DEF BridgeTypeOK
<1>1. CASE queue' = queue \/ queue' = <<>>
  BY <1>1 DEF OneFilesEntry
<1>2. ASSUME NEW e \in Entries, queue' = Append(queue, e), e.files => \A i \in DOMAIN queue : ~queue[i].files
      PROVE  OneFilesEntry'
  <2>1. /\ DOMAIN queue' = 1 .. (Len(queue) + 1)
        /\ \A i \in 1 .. Len(queue) : queue'[i] = queue[i]
        /\ queue'[Len(queue) + 1] = e
    BY <1>2, AppendProperties, LenProperties DEF BridgeTypeOK
  <2>2. \A i \in DOMAIN queue' : i \in DOMAIN queue \/ i = Len(queue) + 1
    BY <1>0, <2>1
  <2> QED BY <1>0, <1>2, <2>1, <2>2 DEF OneFilesEntry
<1>3. ASSUME NEW j \in Jobs, PushJob(j) PROVE OneFilesEntry'
  <2>1. [files |-> FALSE, of |-> {j}, for |-> job[j].for] \in Entries
    BY DEF Entries, BridgeTypeOK
  <2> QED BY <1>2, <1>3, <2>1 DEF PushJob
<1>4. ASSUME NEW j \in Jobs, FilesChanged(j) PROVE OneFilesEntry'
  <2>1. CASE \E i \in DOMAIN queue : queue[i].files
    <3>1. DOMAIN queue' = DOMAIN queue /\ \A i \in DOMAIN queue : queue'[i].files <=> queue[i].files
      BY <1>0, <1>4, <2>1 DEF FilesChanged, Entries
    <3> QED BY <3>1 DEF OneFilesEntry
  <2>2. CASE ~\E i \in DOMAIN queue : queue[i].files
    <3>1. [files |-> TRUE, of |-> {j}, for |-> Nothing] \in Entries
      BY RecordTypes DEF Entries
    <3> QED BY <1>2, <1>4, <2>2, <3>1 DEF FilesChanged
  <2> QED BY <2>1, <2>2
<1>5. ASSUME NEW p \in Panels, PanelSteps(p) PROVE queue' = queue
  BY <1>5 DEF PanelSteps, SwitchOn, SwitchOff, Close, OpenOther, Again, GiveUp, Run, TurnOn
<1>6. ASSUME NEW n \in Polls, PollSteps(n) PROVE queue' = queue \/ queue' = <<>>
  BY <1>6 DEF PollSteps, Arrive, Return, Gone, Discard, Break, Ask, Hear
<1>7. ASSUME \/ \E j \in Jobs : Admit(j)
             \/ \E m \in posts : Deliver(m) \/ Lose(m)
             \/ Lapse \/ Forget \/ Restart \/ UNCHANGED bridgeVars
      PROVE  queue' = queue \/ queue' = <<>>
  BY <1>7 DEF Admit, Deliver, Lose, Lapse, Forget, Restart, TurnOn, TurnOff, bridgeVars
<1> QED BY <1>1, <1>3, <1>4, <1>5, <1>6, <1>7 DEF BridgeNext, JobSteps

-----------------------------------------------------------------------------
(* The way of a job.                                                       *)

\* Nothing is moved, and what is lost is lost whole.
LEMMA PlacesShrink ==
  ASSUME NEW j \in Jobs, JobInv(j),
         queue' = queue \/ queue' = <<>>,
         \A p \in Panels : hands'[p] = hands[p] \/ hands'[p] = <<>>,
         \A n \in Polls : poll'[n].jobs = poll[n].jobs \/ poll'[n].jobs = <<>>,
         job'[j].times = job[j].times,
         job'[j].pc \in {job[j].pc, "skipped"},
         quiet' => /\ quiet /\ queue' = queue
                   /\ \A p \in Panels : hands'[p] = hands[p]
                   /\ \A n \in Polls : poll'[n].jobs = poll[n].jobs
  PROVE  JobInv(j)'
<1>1. /\ InEntries(queue', j) => InEntries(queue, j)
      /\ \A p \in Panels : InEntries(hands'[p], j) => InEntries(hands[p], j)
      /\ \A n \in Polls : InEntries(poll'[n].jobs, j) => InEntries(poll[n].jobs, j)
  BY EmptyHasNone
<1>2. /\ OnceIn(queue', j)
      /\ \A p \in Panels : OnceIn(hands'[p], j)
      /\ \A n \in Polls : OnceIn(poll'[n].jobs, j)
  BY EmptyHasNone DEF JobInv, InOnePlace
<1>3. AtPolls(j)' \subseteq AtPolls(j) /\ AtPanels(j)' \subseteq AtPanels(j)
  BY <1>1 DEF AtPolls, AtPanels
<1>4. InOnePlace(j)'
  BY <1>1, <1>2, <1>3 DEF JobInv, InOnePlace
<1>5. Nowhere(j) => Nowhere(j)'
  BY <1>1, <1>3 DEF Nowhere
<1>6. quiet' => (Nowhere(j)' => Nowhere(j))
  BY DEF Nowhere, AtPolls, AtPanels
<1> QED BY <1>4, <1>5, <1>6 DEF JobInv

LEMMA JobsOfPanelSteps ==
  ASSUME BridgeInv, NEW p \in Panels, PanelSteps(p), NEW j \in Jobs
  PROVE  JobInv(j)'
<1>0. BridgeTypeOK /\ JobInv(j)
  BY DEF BridgeInv
<1>1. \A up \in BOOLEAN, n \in Polls : Forsaken(p, up)[n].jobs = poll[n].jobs
  BY <1>0, RecordTypes DEF Forsaken, PollRecords
<1>2. CASE SwitchOn(p) \/ Again(p) \/ SwitchOff(p) \/ OpenOther(p) \/ GiveUp(p)
  <2>1. queue' = queue /\ hands' = hands /\ job' = job /\ quiet' = quiet
    BY <1>2 DEF SwitchOn, Again, SwitchOff, OpenOther, GiveUp, TurnOn
  <2>2. poll' = poll \/ poll' = Forsaken(p, TRUE)
    BY <1>2 DEF SwitchOn, Again, SwitchOff, OpenOther, GiveUp
  <2> QED BY <1>0, <1>1, <2>1, <2>2, PlacesShrink
<1>3. CASE Close(p)
  <2>1. queue' = queue /\ job' = job /\ (quiet' => quiet /\ hands[p] = <<>>)
    BY <1>3 DEF Close
  <2>2. \A q \in Panels : hands'[q] = IF q = p THEN <<>> ELSE hands[q]
    BY <1>0, <1>3 DEF Close, BridgeTypeOK
  <2>3. poll' = Forsaken(p, FALSE)
    BY <1>3 DEF Close
  <2> QED BY <1>0, <1>1, <2>1, <2>2, <2>3, PlacesShrink
<1>4. CASE Run(p)
  <2> DEFINE e == Head(hands[p])
  <2>1. /\ hands[p] \in Seq(Entries) /\ hands[p] # <<>>
        /\ queue' = queue /\ poll' = poll /\ quiet' = quiet
        /\ hands'[p] = Tail(hands[p])
        /\ \A q \in Panels \ {p} : hands'[q] = hands[q]
    BY <1>0, <1>4 DEF Run, BridgeTypeOK
  <2>2. /\ InEntries(hands[p], j) <=> InEntries(hands'[p], j) \/ j \in e.of
        /\ OnceIn(hands'[p], j)
        /\ ~(InEntries(hands'[p], j) /\ j \in e.of)
    BY <1>0, <2>1, FirstEntryTaken DEF JobInv, InOnePlace
  <2>3. AtPolls(j)' = AtPolls(j) /\ AtPanels(j)' \subseteq AtPanels(j)
    BY <2>1, <2>2 DEF AtPolls, AtPanels
  <2>4. InOnePlace(j)'
    <3>1. \A q \in Panels : OnceIn(hands'[q], j)
      BY <1>0, <2>1, <2>2 DEF JobInv, InOnePlace
    <3> QED BY <1>0, <2>1, <2>3, <3>1 DEF JobInv, InOnePlace
  <2>5. CASE j \in e.of
    <3>1. p \in AtPanels(j)
      BY <2>2, <2>5 DEF AtPanels
    <3>2. ~Nowhere(j) /\ ~InEntries(queue, j) /\ AtPolls(j) = {} /\ AtPanels(j) = {p}
      BY <1>0, <3>1 DEF Nowhere, JobInv, InOnePlace
    <3>3. AtPanels(j)' = {}
      BY <2>1, <2>2, <2>5, <2>3, <3>2 DEF AtPanels
    <3>4. Nowhere(j)'
      BY <2>1, <2>3, <3>2, <3>3 DEF Nowhere
    <3>5. job'[j].pc \in {"run", "skipped"} /\ job'[j].times = job[j].times + 1
      BY <1>4, <2>5 DEF Run
    <3>6. job[j].times = 0
      BY <1>0, <3>2 DEF JobInv
    <3> QED BY <2>4, <3>4, <3>5, <3>6 DEF JobInv
  <2>6. CASE j \notin e.of
    <3>1. job'[j] = job[j]
      BY <1>4, <2>6 DEF Run
    <3>2. AtPanels(j)' = AtPanels(j)
      BY <2>1, <2>2, <2>6 DEF AtPanels
    <3>3. Nowhere(j)' <=> Nowhere(j)
      BY <2>1, <2>3, <3>2 DEF Nowhere
    <3> QED BY <1>0, <2>1, <2>4, <3>1, <3>3 DEF JobInv
  <2> QED BY <2>5, <2>6
<1> QED BY <1>2, <1>3, <1>4 DEF PanelSteps

LEMMA JobsOfPollSteps ==
  ASSUME BridgeInv, NEW n \in Polls, PollSteps(n), NEW j \in Jobs
  PROVE  JobInv(j)'
<1>0. BridgeTypeOK /\ JobInv(j) /\ poll[n] \in PollRecords /\ NoPoll.jobs = <<>>
  BY RecordTypes DEF BridgeInv, NoPoll
<1>1. poll[n].pc # "answered" => poll[n].jobs = <<>>
  BY DEF BridgeInv, OnlyAnswersCarry
<1>2. \A m \in Polls : m # n => poll'[m] = poll[m]
  BY <1>0, OtherPollsStay
<1>3. CASE Arrive(n) \/ Break(n)
  <2>1. queue' = queue /\ hands' = hands /\ job' = job /\ (quiet' => quiet)
    <3>1. queue' = queue /\ hands' = hands /\ job' = job
      BY <1>3 DEF Arrive, Break
    <3>2. quiet' => quiet
      BY <1>3 DEF Arrive, Break
    <3> QED BY <3>1, <3>2
  <2>2. poll'[n].jobs = poll[n].jobs
    BY <1>0, <1>3, AnswerStays
  <2> QED BY <1>0, <1>2, <2>1, <2>2, PlacesShrink
<1>4. CASE Gone(n) \/ \E p \in Panels : Ask(p, n)
  <2>1. queue' = queue /\ hands' = hands /\ job' = job /\ quiet' = quiet
    BY <1>4 DEF Gone, Ask
  <2>2. poll[n].pc # "answered" /\ poll'[n].jobs = <<>>
    <3>1. CASE Gone(n)
      BY <1>0, <3>1 DEF Gone, BridgeTypeOK
    <3>2. ASSUME NEW p \in Panels, Ask(p, n)
          PROVE  poll[n].pc # "answered" /\ poll'[n].jobs = <<>>
      BY <1>0, <3>2 DEF Ask, NoPoll, BridgeTypeOK
    <3> QED BY <1>4, <3>1, <3>2
  <2> QED BY <1>0, <1>1, <1>2, <2>1, <2>2, PlacesShrink
<1>5. CASE Discard(n)
  <2>1. queue' = queue /\ hands' = hands /\ job' = job /\ (quiet' => quiet /\ poll[n].jobs = <<>>)
    BY <1>5 DEF Discard
  <2>2. poll'[n].jobs = <<>>
    BY <1>0, <1>5 DEF Discard, BridgeTypeOK
  <2> QED BY <1>0, <1>2, <2>1, <2>2, PlacesShrink
<1>6. CASE Return(n)
  <2>1. /\ queue' = <<>> /\ hands' = hands /\ job' = job /\ (quiet' => quiet)
        /\ poll[n].pc = "held" /\ poll[n].jobs = <<>>
    BY <1>1, <1>6 DEF Return
  <2>2. poll'[n].jobs = queue
    BY <1>0, <1>6 DEF Return, PollRecords, BridgeTypeOK
  <2>3. ~InEntries(queue', j) /\ OnceIn(queue', j) /\ ~InEntries(poll[n].jobs, j)
    BY <2>1, EmptyHasNone
  <2>4. AtPanels(j)' = AtPanels(j)
    BY <2>1 DEF AtPanels
  <2>5. AtPolls(j)' = AtPolls(j) \cup (IF InEntries(queue, j) THEN {n} ELSE {})
    BY <1>2, <2>2, <2>3 DEF AtPolls
  <2>6. \A m \in Polls : OnceIn(poll'[m].jobs, j)
    BY <1>0, <1>2, <2>2 DEF JobInv, InOnePlace
  <2>7. InOnePlace(j)'
    BY <1>0, <2>1, <2>3, <2>4, <2>5, <2>6 DEF JobInv, InOnePlace
  <2>8. Nowhere(j)' <=> Nowhere(j)
    BY <2>3, <2>4, <2>5 DEF Nowhere
  <2> QED BY <1>0, <2>1, <2>7, <2>8 DEF JobInv
<1>7. ASSUME NEW p \in Panels, Hear(p, n) PROVE JobInv(j)'
  <2>1. /\ queue' = queue /\ job' = job /\ poll'[n].jobs = <<>>
        /\ quiet' => quiet /\ (poll[n].enabled \/ poll[n].jobs = <<>>)
    BY <1>0, <1>7 DEF Hear, BridgeTypeOK
  <2>2. CASE ~poll[n].enabled
    <3>1. hands' = hands
      BY <1>0, <1>7, <2>2 DEF Hear, BridgeTypeOK
    <3> QED BY <1>0, <1>2, <2>1, <2>2, <3>1, PlacesShrink
  <2>3. CASE poll[n].enabled
    <3>1. /\ hands'[p] = hands[p] \o poll[n].jobs
          /\ \A q \in Panels \ {p} : hands'[q] = hands[q]
      BY <1>0, <1>7, <2>3 DEF Hear, BridgeTypeOK
    <3>2. hands[p] \in Seq(Entries) /\ poll[n].jobs \in Seq(Entries)
      BY <1>0, PollFields DEF BridgeTypeOK
    <3>3. /\ InEntries(hands'[p], j) <=> InEntries(hands[p], j) \/ InEntries(poll[n].jobs, j)
          /\ OnceIn(hands[p], j) /\ OnceIn(poll[n].jobs, j)
               /\ ~(InEntries(hands[p], j) /\ InEntries(poll[n].jobs, j)) => OnceIn(hands'[p], j)
      BY <3>1, <3>2, JoinedEntries
    <3>4. ~(InEntries(hands[p], j) /\ InEntries(poll[n].jobs, j))
      BY <1>0 DEF JobInv, InOnePlace, AtPolls, AtPanels
    <3>5. \A q \in Panels : OnceIn(hands'[q], j)
      BY <1>0, <3>1, <3>3, <3>4 DEF JobInv, InOnePlace
    <3>6. AtPolls(j)' = AtPolls(j) \ {n}
      BY <1>2, <2>1, EmptyHasNone DEF AtPolls
    <3>7. AtPanels(j)' = AtPanels(j) \cup (IF InEntries(poll[n].jobs, j) THEN {p} ELSE {})
      BY <3>1, <3>3 DEF AtPanels
    <3>8. InEntries(poll[n].jobs, j) => AtPolls(j) = {n} /\ AtPanels(j) = {} /\ ~InEntries(queue, j)
      BY <1>0 DEF JobInv, InOnePlace, AtPolls
    <3>9. n \in AtPolls(j) <=> InEntries(poll[n].jobs, j)
      BY DEF AtPolls
    <3>10. \A m \in Polls : OnceIn(poll'[m].jobs, j)
      BY <1>0, <1>2, <2>1, EmptyHasNone DEF JobInv, InOnePlace
    <3>11. InOnePlace(j)'
      BY <1>0, <2>1, <3>5, <3>6, <3>7, <3>8, <3>9, <3>10 DEF JobInv, InOnePlace
    <3>12. Nowhere(j)' <=> Nowhere(j)
      BY <2>1, <3>6, <3>7, <3>8, <3>9 DEF Nowhere
    <3> QED BY <1>0, <2>1, <3>11, <3>12 DEF JobInv
  <2> QED BY <2>2, <2>3
<1> QED BY <1>3, <1>4, <1>5, <1>6, <1>7 DEF PollSteps

LEMMA JobsOfJobSteps ==
  ASSUME BridgeInv, NEW k \in Jobs, JobSteps(k), NEW j \in Jobs
  PROVE  JobInv(j)'
<1>0. BridgeTypeOK /\ JobInv(j) /\ JobInv(k) /\ OneFilesEntry
  BY DEF BridgeInv
<1>1. hands' = hands /\ poll' = poll /\ quiet' = quiet
  BY DEF JobSteps, Admit, PushJob, FilesChanged, JobStep
<1>2. AtPolls(j)' = AtPolls(j) /\ AtPanels(j)' = AtPanels(j)
  BY <1>1 DEF AtPolls, AtPanels
<1>3. job[k].pc \in {"none", "admitted"} /\ Nowhere(k) /\ job[k].times = 0
  BY <1>0 DEF JobInv, JobSteps, Admit, PushJob, FilesChanged, Fresh
<1>4. /\ \A i \in Jobs : i # k => job'[i] = job[i]
      /\ job'[k].times = 0
  <2>1. CASE Admit(k)
    <3>1. job' = [job EXCEPT ![k].pc = "admitted", ![k].for = context]
      BY <2>1 DEF Admit
    <3> QED BY <1>0, <1>3, <3>1 DEF BridgeTypeOK
  <2>2. CASE PushJob(k) \/ FilesChanged(k)
    <3>1. job' = [job EXCEPT ![k].pc = "pushed"]
      BY <2>2 DEF PushJob, FilesChanged
    <3> QED BY <1>0, <1>3, <3>1 DEF BridgeTypeOK
  <2> QED BY <2>1, <2>2 DEF JobSteps
<1>5. CASE Admit(k)
  <2>1. queue' = queue /\ job'[k].pc = "admitted"
    BY <1>0, <1>5 DEF Admit, BridgeTypeOK
  <2>2. InOnePlace(j)' /\ (Nowhere(j)' <=> Nowhere(j))
    BY <1>0, <1>1, <1>2, <2>1 DEF JobInv, InOnePlace, Nowhere
  <2> QED BY <1>0, <1>1, <1>3, <1>4, <2>1, <2>2 DEF JobInv
<1>6. ASSUME job'[k].pc = "pushed", InEntries(queue', j) <=> InEntries(queue, j) \/ j = k,
             OnceIn(queue', j)
      PROVE  JobInv(j)'
  <2>1. CASE j = k
    <3>1. AtPolls(j)' = {} /\ AtPanels(j)' = {} /\ InEntries(queue', j)
      BY <1>2, <1>3, <1>6, <2>1 DEF Nowhere
    <3>2. InOnePlace(j)' /\ ~Nowhere(j)'
      BY <1>0, <1>1, <1>6, <3>1 DEF JobInv, InOnePlace, Nowhere
    <3> QED BY <1>4, <1>6, <2>1, <3>2 DEF JobInv
  <2>2. CASE j # k
    <3>1. InOnePlace(j)' /\ (Nowhere(j)' <=> Nowhere(j))
      BY <1>0, <1>1, <1>2, <1>6, <2>2 DEF JobInv, InOnePlace, Nowhere
    <3>2. job'[j] = job[j]
      BY <1>4, <2>2
    <3> QED BY <1>0, <1>1, <3>1, <3>2 DEF JobInv
  <2> QED BY <2>1, <2>2
<1>7. ~InEntries(queue, k) /\ OnceIn(queue, j)
  BY <1>0, <1>3 DEF Nowhere, JobInv, InOnePlace
<1>8. ASSUME PushJob(k) \/ FilesChanged(k) PROVE job'[k].pc = "pushed"
  <2>1. job' = [job EXCEPT ![k].pc = "pushed"]
    BY <1>8 DEF PushJob, FilesChanged
  <2> QED BY <1>0, <2>1 DEF BridgeTypeOK
<1>9. ASSUME NEW e \in Entries, e.of = {k}, queue' = Append(queue, e)
      PROVE  (InEntries(queue', j) <=> InEntries(queue, j) \/ j = k) /\ OnceIn(queue', j)
  <2>1. queue \in Seq(Entries) /\ ~(InEntries(queue, j) /\ j \in e.of)
    BY <1>0, <1>7, <1>9 DEF BridgeTypeOK
  <2> QED BY <1>7, <1>9, <2>1, AppendedEntry
<1>10. CASE PushJob(k)
  <2>1. [files |-> FALSE, of |-> {k}, for |-> job[k].for] \in Entries
    BY <1>0 DEF Entries, BridgeTypeOK
  <2>2. queue' = Append(queue, [files |-> FALSE, of |-> {k}, for |-> job[k].for])
    BY <1>10 DEF PushJob
  <2> QED BY <1>6, <1>8, <1>9, <1>10, <2>1, <2>2
<1>11. CASE FilesChanged(k)
  <2>1. CASE ~\E i \in DOMAIN queue : queue[i].files
    <3>1. [files |-> TRUE, of |-> {k}, for |-> Nothing] \in Entries
      BY <1>0, RecordTypes DEF Entries
    <3>2. queue' = Append(queue, [files |-> TRUE, of |-> {k}, for |-> Nothing])
      BY <1>11, <2>1 DEF FilesChanged
    <3> QED BY <1>6, <1>8, <1>9, <1>11, <3>1, <3>2
  <2>2. CASE \E i \in DOMAIN queue : queue[i].files
    <3>0. \A i \in DOMAIN queue : queue[i] \in Entries
      BY <1>0, LenProperties, ElementOfSeq DEF BridgeTypeOK
    <3>1. queue' = [i \in DOMAIN queue |-> IF queue[i].files
                                           THEN [queue[i] EXCEPT !.of = @ \cup {k}] ELSE queue[i]]
      BY <1>11, <2>2 DEF FilesChanged
    <3>2. /\ DOMAIN queue' = DOMAIN queue
          /\ \A i \in DOMAIN queue :
               queue'[i].of = IF queue[i].files THEN queue[i].of \cup {k} ELSE queue[i].of
      BY <3>0, <3>1 DEF Entries
    <3>3. \A i \in DOMAIN queue :
            j \in queue'[i].of <=> j \in queue[i].of \/ (j = k /\ queue[i].files)
      BY <3>2
    <3>4. InEntries(queue', j) <=> InEntries(queue, j) \/ j = k
      BY <2>2, <3>2, <3>3 DEF InEntries
    <3>5. OnceIn(queue', j)
      <4>1. CASE j = k
        BY <1>0, <1>7, <3>2, <3>3, <4>1 DEF OnceIn, InEntries, OneFilesEntry
      <4>2. CASE j # k
        BY <1>7, <3>2, <3>3, <4>2 DEF OnceIn
      <4> QED BY <4>1, <4>2
    <3> QED BY <1>6, <1>8, <1>11, <3>4, <3>5
  <2> QED BY <2>1, <2>2
<1> QED BY <1>5, <1>10, <1>11 DEF JobSteps

LEMMA JobsOfOtherSteps ==
  ASSUME BridgeInv, NEW j \in Jobs,
         Lapse \/ Forget \/ Restart \/ (\E m \in posts : Deliver(m) \/ Lose(m)) \/ UNCHANGED bridgeVars
  PROVE  JobInv(j)'
<1>0. BridgeTypeOK /\ JobInv(j) /\ NoPoll.jobs = <<>>
  BY DEF BridgeInv, NoPoll
<1>1. CASE Restart
  <2>1. queue' = <<>> /\ hands' = hands /\ ~quiet'
    BY <1>1 DEF Restart
  <2>2. \A n \in Polls : poll'[n].jobs = <<>>
    BY <1>0, <1>1 DEF Restart
  <2>3. job'[j].times = job[j].times /\ job'[j].pc \in {job[j].pc, "skipped"}
    BY <1>0, <1>1 DEF Restart, BridgeTypeOK
  <2> QED BY <1>0, <2>1, <2>2, <2>3, PlacesShrink
<1>2. ASSUME Lapse \/ Forget \/ (\E m \in posts : Deliver(m) \/ Lose(m)) \/ UNCHANGED bridgeVars
      PROVE  JobInv(j)'
  <2>1. hands' = hands /\ poll' = poll /\ job' = job
    BY <1>2 DEF Lapse, Forget, Deliver, Lose, bridgeVars
  <2>2. queue' = queue \/ queue' = <<>>
    BY <1>2 DEF Lapse, Forget, Deliver, Lose, TurnOn, TurnOff, bridgeVars
  <2>3. quiet' => quiet /\ queue' = queue
    BY <1>2 DEF Lapse, Forget, Deliver, Lose, TurnOn, TurnOff, bridgeVars
  <2> QED BY <1>0, <2>1, <2>2, <2>3, PlacesShrink
<1> QED BY <1>1, <1>2

-----------------------------------------------------------------------------
(* The theorems.                                                           *)

LEMMA BridgeInvInit == BridgeInit => BridgeInv
<1> SUFFICES ASSUME BridgeInit PROVE BridgeInv
  OBVIOUS
<1>0. Nothing \in Contexts /\ NoPoll \in PollRecords /\ <<>> \in Seq(Entries)
  BY EmptyTypes, EmptySeq
<1>1. BridgeTypeOK
  <2>1. panel \in [Panels -> [pc : Loops, at : Nat]]
    BY DEF BridgeInit, Loops
  <2>2. job \in [Jobs -> [pc : JobStates, times : Nat, for : Contexts]]
    BY <1>0 DEF BridgeInit, JobStates
  <2>3. poll \in [Polls -> PollRecords] /\ hands \in [Panels -> Seq(Entries)]
    BY <1>0 DEF BridgeInit
  <2> QED BY <1>0, <2>1, <2>2, <2>3 DEF BridgeInit, BridgeTypeOK
<1>2. LeaseCountsPolls
  <2>1. Held = {}
    BY DEF BridgeInit, Held, NoPoll
  <2> QED BY <2>1, FS_EmptySet DEF BridgeInit, LeaseCountsPolls
<1>3. /\ queue = <<>>
      /\ \A n \in Polls : poll[n].jobs = <<>>
      /\ \A p \in Panels : hands[p] = <<>>
  BY DEF BridgeInit, NoPoll
<1>4. ASSUME NEW j \in Jobs PROVE JobInv(j)
  <2>1. InOnePlace(j) /\ Nowhere(j)
    BY <1>3, EmptyHasNone DEF InOnePlace, Nowhere, AtPolls, AtPanels
  <2>2. job[j].pc = "none" /\ job[j].times = 0
    BY DEF BridgeInit
  <2> QED BY <2>1, <2>2 DEF JobInv
<1> QED BY <1>1, <1>2, <1>3, <1>4 DEF BridgeInv, OnlyAnswersCarry, OneFilesEntry

LEMMA BridgeInvStep == BridgeInv /\ [BridgeNext]_bridgeVars => BridgeInv'
<1> SUFFICES ASSUME BridgeInv, [BridgeNext]_bridgeVars PROVE BridgeInv'
  OBVIOUS
<1>1. BridgeTypeOK' /\ LeaseCountsPolls' /\ OnlyAnswersCarry' /\ OneFilesEntry'
  BY TypesStay, LeaseKept, CarryKept, FilesKept DEF BridgeInv
<1>2. ASSUME NEW j \in Jobs PROVE JobInv(j)'
  BY JobsOfPanelSteps, JobsOfPollSteps, JobsOfJobSteps, JobsOfOtherSteps DEF BridgeNext
<1> QED BY <1>1, <1>2 DEF BridgeInv

\* Whatever panels, requests and the backend do, every job is in one place at
\* most, and the lease counts the polls that are held.
THEOREM BridgeInvariant == BridgeSpec => []BridgeInv
<1>1. BridgeInit => BridgeInv
  BY BridgeInvInit
<1>2. BridgeInv /\ [BridgeNext]_bridgeVars => BridgeInv'
  BY BridgeInvStep
<1> QED BY <1>1, <1>2, PTL DEF BridgeSpec

\* The state stays well-formed, and inFlight of mcpbridge counts exactly the
\* polls that are held, however each of them ends.
THEOREM BridgeIsSound == BridgeSpec => []BridgeSound
<1>1. BridgeInv => BridgeSound
  BY DEF BridgeInv, BridgeSound
<1> QED BY <1>1, BridgeInvariant, PTL

\* At most one element, and with one exactly one.
LEMMA OneOrNone ==
  ASSUME NEW S, \A x, y \in S : x = y
  PROVE  /\ S = {} => Cardinality(S) = 0
         /\ S # {} => Cardinality(S) = 1
<1>1. ASSUME NEW x \in S PROVE S = {x}
  OBVIOUS
<1> QED BY <1>1, FS_EmptySet, FS_Singleton

\* The places of a job are counted: one, or none when it is nowhere.
LEMMA PlacesCounted ==
  ASSUME NEW j \in Jobs, InOnePlace(j)
  PROVE  Places(j) = IF Nowhere(j) THEN 0 ELSE 1
<1>1. /\ AtPolls(j) = {} => Cardinality(AtPolls(j)) = 0
      /\ AtPolls(j) # {} => Cardinality(AtPolls(j)) = 1
  BY OneOrNone DEF InOnePlace
<1>2. /\ AtPanels(j) = {} => Cardinality(AtPanels(j)) = 0
      /\ AtPanels(j) # {} => Cardinality(AtPanels(j)) = 1
  BY OneOrNone DEF InOnePlace
<1>3. Places(j) = Cardinality(AtPolls(j)) + Cardinality(AtPanels(j)) + (IF InEntries(queue, j) THEN 1 ELSE 0)
  BY DEF Places, Handed, AtPolls, AtPanels
<1> QED BY <1>1, <1>2, <1>3 DEF InOnePlace, Nowhere

\* A job of the bridge is handed to one poll and run once, and none is lost but
\* by the switch, an end of the backend or a poll nobody waits for.
THEOREM JobsAreDeliveredOnce == BridgeSpec => []DeliveredOnce
<1>1. ASSUME BridgeInv PROVE DeliveredOnce
  <2>1. ASSUME NEW j \in Jobs
        PROVE  Places(j) + job[j].times <= 1 /\ (quiet /\ job[j].pc = "pushed" => Places(j) = 1)
    <3>1. JobInv(j) /\ Places(j) = IF Nowhere(j) THEN 0 ELSE 1
      BY <1>1, PlacesCounted DEF BridgeInv, JobInv
    <3>2. job[j].times = 0 \/ (job[j].times = 1 /\ Nowhere(j))
      BY <3>1 DEF JobInv
    <3>3. quiet /\ job[j].pc = "pushed" => ~Nowhere(j)
      BY <3>1 DEF JobInv
    <3>4. Places(j) + job[j].times <= 1
      BY <3>1, <3>2
    <3>5. quiet /\ job[j].pc = "pushed" => Places(j) = 1
      BY <3>1, <3>3
    <3> QED BY <3>4, <3>5
  <2> QED BY <2>1 DEF DeliveredOnce, JobRunsOnce, NoJobVanishes
<1> QED BY <1>1, BridgeInvariant, PTL

=============================================================================
