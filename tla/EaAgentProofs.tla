---------------------------- MODULE EaAgentProofs ----------------------------
(***************************************************************************)
(* Proofs about EaAgent, for every set of commands, any number of starts   *)
(* and every deadline: what the EA guarantees whatever the server answers  *)
(* and whatever a failed write leaves of its files.                        *)
(***************************************************************************)
EXTENDS EaAgent, TLAPS

-----------------------------------------------------------------------------
(***************************************************************************)
(* The journal.                                                            *)
(***************************************************************************)

\* The fields of an entry.
LEMMA EntryFields ==
    ASSUME NEW s, NEW c, NEW x, NEW r
    PROVE  /\ Entry(s, c, x, r).state = s
           /\ Entry(s, c, x, r).id = c
           /\ Entry(s, c, x, r).execution = x
           /\ Entry(s, c, x, r).result = r
  BY DEF Entry

\* The entries that the EA writes are entries.
LEMMA EntryType ==
    ASSUME NEW s \in {"STARTED", "DONE"}, NEW c \in Commands \cup {None},
           NEW x \in BOOLEAN, NEW r \in Statuses \cup {NoResult}
    PROVE  Entry(s, c, x, r) \in Entries
  BY DEF Entry, Entries

\* What is there before the first command, between two commands, and after a
\* write that failed.
LEMMA EmptyTypes ==
    /\ Empty \in Entries /\ Empty.state = "EMPTY" /\ Empty.id = None
    /\ Torn \in Entries /\ Torn.state = "TORN" /\ Torn.id = None
    /\ NoPending \in Pendings /\ NoPending.id = None
    /\ NoTask \in Tasks
  BY MaxTtlAssumption
     DEF Empty, Torn, Entry, Entries, NoPending, Pendings, NoTask, Tasks

\* OnInit closes an interrupted evaluation and keeps any other entry.
LEMMA RecoveredEntry ==
    ASSUME IInv
    PROVE  /\ Recovered \in Entries
           /\ Recovered.id = journal.id
           /\ Recovered.execution = journal.execution
           /\ Recovered.state # "STARTED"
           /\ journal.state # "STARTED" => Recovered = journal
           /\ journal.state = "STARTED" => /\ Recovered.state = "DONE"
                                           /\ Recovered.result = Interrupted(journal.execution)
<1>1. journal \in Entries
  BY DEF IInv, TypeOK
<1>2. CASE journal.state = "STARTED"
  <2>1. Recovered = Entry("DONE", journal.id, journal.execution, Interrupted(journal.execution))
    BY <1>2 DEF Recovered
  <2>2. Interrupted(journal.execution) \in Statuses
    BY DEF Interrupted, Statuses
  <2>3. Recovered \in Entries
    BY <1>1, <2>1, <2>2, EntryType DEF Entries
  <2> QED BY <1>2, <2>1, <2>3, EntryFields
<1>3. CASE journal.state # "STARTED"
  BY <1>1, <1>3 DEF Recovered
<1> QED BY <1>2, <1>3

\* What a write leaves out is counted as lapsed.
LEMMA DroppedLapses ==
    ASSUME TypeOK, NEW j, NEW s
    PROVE  /\ Dropped(j, s) \subseteq Commands
           /\ \A c \in Commands :
                journal.id = c \/ c \in recent => j.id = c \/ c \in s \/ c \in Dropped(j, s)
  BY NoneIsNoCommand DEF Dropped, TypeOK, Entries

-----------------------------------------------------------------------------
(***************************************************************************)
(* The invariant.                                                          *)
(***************************************************************************)

\* The invariant holds of a fresh installation.
LEMMA InitIInv == Init => IInv
<1> SUFFICES ASSUME Init PROVE IInv
  OBVIOUS
<1>1. /\ journal.state = "EMPTY" /\ journal.id = None /\ journal \in Entries
  BY EmptyTypes DEF Init
<1>2. TypeOK
  BY <1>1, EmptyTypes, MaxBootsAssumption, MaxTtlAssumption DEF Init, TypeOK, Phases
<1>3. JournalShape /\ MemoryMatchesDisk /\ Known /\ Truthful
  BY <1>1 DEF Init, JournalShape, MemoryMatchesDisk, Listening, Known, Truthful
<1> QED BY <1>2, <1>3 DEF IInv

\* A step that evaluates nothing, and that leaves the journal as it was, or
\* recovered, or destroyed, disturbs only what it counts as lapsed.
LEMMA DiskKept ==
    ASSUME IInv, UNCHANGED <<evaluated, asked, outcome>>, lapsed \subseteq lapsed',
           journal' \in {journal, Recovered, Torn, Empty},
           \A c \in Commands : journal.id = c \/ c \in recent =>
               journal'.id = c \/ c \in recent' \/ c \in lapsed'
    PROVE  JournalShape' /\ Known' /\ Truthful'
<1>1. Known'
  <2> SUFFICES ASSUME NEW c \in Commands
               PROVE  /\ c \in asked => evaluated[c] > 0
                      /\ c \notin lapsed' =>
                           /\ evaluated[c] \in {0, 1}
                           /\ evaluated[c] = 1 => journal'.id = c \/ c \in recent'
    BY DEF Known
  <2> QED BY DEF IInv, Known
<1>2. CASE journal' = journal
  BY <1>1, <1>2 DEF IInv, JournalShape, Truthful
<1>3. CASE journal' \in {Torn, Empty}
  BY <1>1, <1>3, EmptyTypes DEF IInv, TypeOK, JournalShape, Truthful
<1>4. CASE journal' = Recovered /\ journal.state = "STARTED"
  <2>1. /\ journal'.id = journal.id /\ journal'.execution = journal.execution
        /\ journal'.state = "DONE" /\ journal'.result = Interrupted(journal.execution)
        /\ journal.execution \in BOOLEAN
    BY <1>4, RecoveredEntry DEF IInv, TypeOK, Entries
  <2>2. JournalShape'
    BY <1>4, <2>1 DEF IInv, JournalShape
  <2>3. Truthful'
    BY <1>4, <2>1 DEF IInv, JournalShape, Truthful, Interrupted
  <2> QED BY <1>1, <2>2, <2>3
<1>5. CASE journal' = Recovered /\ journal.state # "STARTED"
  BY <1>2, <1>5, RecoveredEntry
<1> QED BY <1>2, <1>3, <1>4, <1>5

\* A start closes an interrupted evaluation as uncertain, never as done, and
\* what it fails to read counts as lapsed.
LEMMA StartIInv == ASSUME IInv, Start PROVE IInv'
<1>1. /\ UNCHANGED <<recent, task, age, evaluated, asked, outcome>>
      /\ boot' \in 0..MaxBoots /\ phase = "down"
  BY MaxBootsAssumption DEF Start, IInv, TypeOK
<1>2. CASE Resume
  <2>1. /\ journal' = Recovered /\ phase' = "idle" /\ known' \in SUBSET recent
        /\ lapsed' = lapsed \cup (recent \ known')
        /\ pending' = [id |-> Recovered.id, result |-> Recovered.result]
    BY <1>2 DEF Resume, ComeUp
  <2>2. JournalShape' /\ Known' /\ Truthful'
    <3>1. journal'.id = journal.id
      BY <2>1, RecoveredEntry
    <3> QED BY <1>1, <2>1, <3>1, DiskKept
  <2>3. TypeOK'
    <3>1. journal' \in Entries /\ pending' \in Pendings
      BY <2>1, RecoveredEntry DEF Entries, Pendings
    <3> QED BY <1>1, <2>1, <3>1 DEF IInv, TypeOK, Phases
  <2>4. MemoryMatchesDisk'
    BY <1>1, <2>1 DEF MemoryMatchesDisk
  <2> QED BY <2>2, <2>3, <2>4 DEF IInv
<1>3. CASE Overlook
  <2>1. /\ journal' = journal /\ phase' = "idle" /\ known' \in SUBSET recent
        /\ lapsed' = lapsed \cup (recent \ known') \cup ({journal.id} \ {None})
        /\ pending' = NoPending
    BY <1>3 DEF Overlook, ComeUp
  <2>2. JournalShape' /\ Known' /\ Truthful'
    BY <1>1, <2>1, DiskKept
  <2>3. TypeOK'
    BY <1>1, <2>1, EmptyTypes DEF IInv, TypeOK, Phases, Entries
  <2>4. MemoryMatchesDisk'
    BY <1>1, <2>1, EmptyTypes DEF MemoryMatchesDisk
  <2> QED BY <2>2, <2>3, <2>4 DEF IInv
<1>4. CASE RecoveryFails
  <2>1. /\ journal' \in {journal, Recovered, Torn, Empty}
        /\ lapsed' = lapsed \cup Dropped(journal', recent)
        /\ UNCHANGED <<phase, pending, known>>
    BY <1>4 DEF RecoveryFails
  <2>2. /\ Dropped(journal', recent) \subseteq Commands
        /\ \A c \in Commands : journal.id = c \/ c \in recent =>
             journal'.id = c \/ c \in recent \/ c \in Dropped(journal', recent)
    BY DroppedLapses DEF IInv
  <2>3. JournalShape' /\ Known' /\ Truthful'
    BY <1>1, <2>1, <2>2, DiskKept
  <2>4. TypeOK'
    BY <1>1, <2>1, <2>2, EmptyTypes, RecoveredEntry DEF IInv, TypeOK
  <2>5. MemoryMatchesDisk'
    BY <1>1, <2>1 DEF MemoryMatchesDisk, Listening
  <2> QED BY <2>3, <2>4, <2>5 DEF IInv
<1> QED BY <1>2, <1>3, <1>4 DEF Start

\* Polls, and the loss of all memory, leave the disk alone.
LEMMA PollIInv ==
    ASSUME IInv, Ask \/ Fail \/ Crash
    PROVE  IInv'
<1>1. UNCHANGED <<journal, recent, boot, evaluated, asked, outcome, lapsed>>
  BY DEF Ask, Fail, Crash, disk, history
<1>2. TypeOK'
  <2>1. age' = 0 /\ 0 \in 0..MaxTtl
    BY MaxTtlAssumption DEF Ask, Fail, Crash
  <2>2. pending' \in Pendings /\ task' \in Tasks /\ known' \subseteq Commands
    BY EmptyTypes DEF IInv, TypeOK, Ask, Fail, Crash
  <2>3. phase' \in Phases
    BY DEF Ask, Fail, Crash, Phases
  <2> QED BY <1>1, <2>1, <2>2, <2>3 DEF IInv, TypeOK
<1>3. MemoryMatchesDisk'
  BY DEF IInv, MemoryMatchesDisk, Listening, Ask, Fail, Crash, disk, history
<1>4. JournalShape' /\ Known' /\ Truthful'
  BY <1>1, DiskKept
<1> QED BY <1>2, <1>3, <1>4 DEF IInv

\* A response acknowledges the pending result or nothing.
LEMMA RespondIInv ==
    ASSUME IInv, NEW ack \in Commands \cup {None}, NEW t \in Tasks, Respond(ack, t)
    PROVE  IInv'
<1>1. task' \in Tasks
  <2>1. t.left \in 0..MaxTtl /\ age \in 0..MaxTtl
    BY DEF Tasks, IInv, TypeOK
  <2>2. (t.left > age => t.left - age \in 0..MaxTtl) /\ 0 \in 0..MaxTtl
    BY <2>1, MaxTtlAssumption
  <2> QED BY <2>2 DEF Respond, Tasks
<1>2. UNCHANGED <<journal, recent, known, pending, boot, evaluated, asked, outcome, lapsed>>
  BY DEF Respond, disk, history
<1>3. TypeOK'
  BY <1>1, <1>2, MaxTtlAssumption DEF IInv, TypeOK, Respond, Phases
<1>4. MemoryMatchesDisk'
  BY <1>2 DEF IInv, MemoryMatchesDisk, Listening, Respond
<1>5. JournalShape' /\ Known' /\ Truthful'
  BY <1>2, DiskKept
<1> QED BY <1>3, <1>4, <1>5 DEF IInv

\* An acknowledged id is recorded before its entry is deleted.
LEMMA RememberIInv == ASSUME IInv, Remember PROVE IInv'
<1>1. /\ UNCHANGED <<boot, journal, pending, task, age, evaluated, asked, outcome>>
      /\ phase = "acknowledged" /\ pending.id \in Commands
      /\ known \subseteq recent /\ recent \ known \subseteq lapsed
  BY DEF Remember, IInv, TypeOK, MemoryMatchesDisk, Listening, Pendings
<1>2. /\ lapsed \subseteq lapsed' /\ lapsed' \subseteq Commands
      /\ recent' \subseteq Commands /\ known' \subseteq Commands
      /\ phase' \in {"remembered", "fatal"}
      /\ phase' = "remembered" =>
           pending.id \in known' /\ known' \subseteq recent' /\ recent' \ known' \subseteq lapsed'
      /\ \A c \in recent : c \in recent' \/ c \in lapsed' \/ c = journal.id
  <2>1. CASE pending.id \in known /\ phase' = "remembered" /\ UNCHANGED <<recent, known, lapsed>>
    BY <1>1, <2>1 DEF IInv, TypeOK
  <2>2. CASE /\ phase' = "remembered" /\ known' = known \cup {pending.id} /\ recent' = known'
             /\ lapsed' = lapsed
    BY <1>1, <2>2 DEF IInv, TypeOK
  <2>3. CASE /\ phase' = "fatal" /\ known' = known /\ lapsed' = lapsed \cup Dropped(journal, recent')
             /\ recent' \in {recent, known \cup {pending.id}} \cup SUBSET known
    <3>1. /\ Dropped(journal, recent') \subseteq Commands
          /\ \A c \in Commands : c \in recent =>
               journal.id = c \/ c \in recent' \/ c \in Dropped(journal, recent')
      BY DroppedLapses DEF IInv
    <3>2. recent \subseteq Commands /\ known \subseteq Commands /\ lapsed \subseteq Commands
      BY DEF IInv, TypeOK
    <3> QED BY <1>1, <2>3, <3>1, <3>2
  <2> QED BY <2>1, <2>2, <2>3 DEF Remember
<1>3. TypeOK'
  BY <1>1, <1>2 DEF IInv, TypeOK, Phases
<1>4. MemoryMatchesDisk'
  BY <1>1, <1>2 DEF IInv, MemoryMatchesDisk, Listening
<1>5. JournalShape' /\ Known' /\ Truthful'
  BY <1>1, <1>2, DiskKept
<1> QED BY <1>3, <1>4, <1>5 DEF IInv

\* ... and only then is its entry deleted.
LEMMA ForgetIInv == ASSUME IInv, Forget PROVE IInv'
<1>1. /\ UNCHANGED <<boot, recent, known, task, age, evaluated, asked, outcome, lapsed>>
      /\ phase = "remembered" /\ phase' \in {"responded", "fatal"}
      /\ \/ journal' = Empty /\ pending' = NoPending
         \/ journal' = journal /\ pending' = pending /\ phase' = "fatal"
      /\ journal.id \in recent \cup lapsed
  BY DEF Forget, history, IInv, MemoryMatchesDisk, Listening
<1>2. TypeOK'
  BY <1>1, EmptyTypes DEF IInv, TypeOK, Phases
<1>3. MemoryMatchesDisk'
  BY <1>1, EmptyTypes DEF IInv, MemoryMatchesDisk, Listening
<1>4. JournalShape' /\ Known' /\ Truthful'
  BY <1>1, DiskKept
<1> QED BY <1>2, <1>3, <1>4 DEF IInv

\* A command that is not evaluated leaves no trace.
LEMMA SkipIInv == ASSUME IInv, Skip PROVE IInv'
<1>1. /\ UNCHANGED <<boot, journal, recent, known, pending, age, evaluated, asked, outcome, lapsed>>
      /\ phase = "responded" /\ phase' = "idle" /\ task' \in Tasks
  BY EmptyTypes DEF Skip, disk, history
<1>2. TypeOK' /\ MemoryMatchesDisk'
  BY <1>1 DEF IInv, TypeOK, Phases, MemoryMatchesDisk, Listening
<1>3. JournalShape' /\ Known' /\ Truthful'
  BY <1>1, DiskKept
<1> QED BY <1>2, <1>3 DEF IInv

\* A fresh command was never evaluated, unless its record has lapsed; and the
\* journal holds nothing that the EA knows of.
LEMMA FreshIsNew ==
    ASSUME IInv, phase = "responded", Fresh
    PROVE  /\ task.id \in Commands
           /\ journal.id # None => journal.id \in lapsed
           /\ task.id \notin lapsed => evaluated[task.id] = 0 /\ task.id \notin asked
<1>1. task.id \in Commands /\ pending.id = None /\ task.id \notin known
  BY DEF Fresh, IInv, TypeOK, Tasks
<1>2. /\ journal.id # None => journal.id \in lapsed
      /\ recent \ known \subseteq lapsed
  BY <1>1 DEF IInv, MemoryMatchesDisk, Listening
<1>3. task.id \notin lapsed => evaluated[task.id] = 0
  BY <1>1, <1>2, NoneIsNoCommand DEF IInv, Known
<1>4. task.id \notin lapsed => task.id \notin asked
  BY <1>1, <1>3 DEF IInv, Known
<1> QED BY <1>1, <1>2, <1>3, <1>4

\* An evaluation is on disk before it begins.
LEMMA BeginIInv == ASSUME IInv, Begin PROVE IInv'
<1>1. /\ task.id \in Commands /\ task \in Tasks /\ phase = "responded"
      /\ journal.id # None => journal.id \in lapsed
      /\ task.id \notin lapsed => evaluated[task.id] = 0 /\ task.id \notin asked
  BY FreshIsNew DEF Begin, IInv, TypeOK
<1>2. /\ Record \in Entries /\ Record.state = "STARTED" /\ Record.id = task.id
      /\ Record.execution = task.execution
  BY <1>1, EntryFields, EntryType DEF Record, Tasks
<1>3. /\ UNCHANGED <<boot, recent, known, pending, task, age, asked, outcome>>
      /\ journal' \in {Record, journal, Torn, Empty}
      /\ phase' \in {"started", "fatal"} /\ (phase' = "started" => journal' = Record)
      /\ lapsed \subseteq lapsed' /\ lapsed' \subseteq Commands
      /\ \A c \in recent : c \in recent' \/ c \in lapsed'
      /\ \A c \in Commands : journal.id = c => journal'.id = c \/ c \in recent' \/ c \in lapsed'
  <2>1. lapsed' = lapsed \/ lapsed' = lapsed \cup Dropped(journal', recent)
    BY DEF Begin, Save
  <2>2. Dropped(journal', recent) \subseteq Commands
    BY DroppedLapses DEF IInv
  <2>3. lapsed \subseteq lapsed' /\ lapsed' \subseteq Commands
    BY <2>1, <2>2 DEF IInv, TypeOK
  <2> QED BY <1>1, <2>3, NoneIsNoCommand DEF Begin, Save
<1>4. \A c \in Commands : /\ evaluated[c] \in Nat
                          /\ evaluated'[c] = IF c = task.id /\ journal' = Record
                                             THEN evaluated[c] + 1 ELSE evaluated[c]
  BY DEF Begin, IInv, TypeOK
<1>5. TypeOK'
  <2>1. evaluated' \in [Commands -> Nat]
    <3>1. evaluated[task.id] + 1 \in Nat
      BY <1>1, <1>4
    <3> QED BY <3>1 DEF Begin, IInv, TypeOK
  <2> QED BY <1>2, <1>3, <2>1, EmptyTypes DEF IInv, TypeOK, Phases
<1>6. CASE journal' = Record
  <2>1. /\ journal'.state = "STARTED" /\ journal'.id = task.id
        /\ journal'.execution = task.execution /\ task.id # None
    BY <1>1, <1>2, <1>6, NoneIsNoCommand
  <2>2. JournalShape'
    <3>1. evaluated'[task.id] > 0
      BY <1>1, <1>4, <1>6
    <3> QED BY <1>1, <1>3, <2>1, <3>1 DEF JournalShape
  <2>3. Known'
    <3> SUFFICES ASSUME NEW c \in Commands
                 PROVE  /\ c \in asked => evaluated'[c] > 0
                        /\ c \notin lapsed' =>
                             /\ evaluated'[c] \in {0, 1}
                             /\ evaluated'[c] = 1 => journal'.id = c \/ c \in recent'
      BY <1>3 DEF Known
    <3>1. CASE c = task.id
      BY <1>1, <1>3, <1>4, <1>6, <2>1, <3>1
    <3>2. CASE c # task.id
      <4>1. evaluated'[c] = evaluated[c]
        BY <1>4, <3>2
      <4> QED BY <1>3, <4>1 DEF IInv, Known
    <3> QED BY <3>1, <3>2
  <2>4. MemoryMatchesDisk'
    <3>1. Record' = Record
      BY <1>3 DEF Record
    <3>2. known \subseteq recent /\ recent \ known \subseteq lapsed
      BY <1>1 DEF IInv, MemoryMatchesDisk, Listening
    <3> QED BY <1>3, <1>6, <2>1, <3>1, <3>2 DEF MemoryMatchesDisk, Listening
  <2>5. Truthful'
    BY <2>1 DEF Truthful
  <2> QED BY <1>5, <2>2, <2>3, <2>4, <2>5 DEF IInv
<1>7. CASE journal' # Record
  <2>1. UNCHANGED evaluated /\ phase' = "fatal"
    BY <1>3, <1>7 DEF Begin
  <2>2. JournalShape' /\ Known' /\ Truthful'
    BY <1>3, <1>7, <2>1, DiskKept
  <2>3. MemoryMatchesDisk'
    BY <2>1 DEF MemoryMatchesDisk, Listening
  <2> QED BY <1>5, <2>2, <2>3 DEF IInv
<1> QED BY <1>6, <1>7

\* What the journal says during an evaluation.
LEMMA StartedEntry ==
    ASSUME IInv, phase = "started"
    PROVE  /\ task.id \in Commands /\ task \in Tasks
           /\ journal.state = "STARTED" /\ journal.id = task.id
           /\ journal.execution = task.execution /\ evaluated[task.id] > 0
<1>1. task.id # None /\ journal = Record /\ task \in Tasks
  BY DEF IInv, TypeOK, MemoryMatchesDisk
<1>2. /\ journal.state = "STARTED" /\ journal.id = task.id
      /\ journal.execution = task.execution
  BY <1>1, EntryFields DEF Record
<1> QED BY <1>1, <1>2 DEF IInv, JournalShape, Tasks

\* The broker is asked only for the evaluation in the journal.
LEMMA OrderSendIInv == ASSUME IInv, OrderSend PROVE IInv'
<1>1. /\ task.id \in Commands /\ task.execution /\ evaluated[task.id] > 0
      /\ journal.state = "STARTED" /\ journal.id = task.id /\ journal.execution = task.execution
  BY StartedEntry DEF OrderSend
<1>2. asked' = asked \cup {task.id}
      /\ UNCHANGED <<phase, boot, journal, recent, known, pending, task, age, evaluated, outcome,
                     lapsed>>
  BY DEF OrderSend, disk
<1>3. TypeOK'
  BY <1>1, <1>2 DEF IInv, TypeOK
<1>4. JournalShape'
  BY <1>1, <1>2 DEF IInv, JournalShape
<1>5. MemoryMatchesDisk'
  BY <1>2 DEF IInv, MemoryMatchesDisk, Listening, Record
<1>6. Known'
  BY <1>1, <1>2 DEF IInv, Known
<1>7. Truthful'
  BY <1>1, <1>2 DEF Truthful
<1> QED BY <1>3, <1>4, <1>5, <1>6, <1>7 DEF IInv

\* The DONE entry holds the outcome of the evaluation that it replaces.
LEMMA FinishIInv == ASSUME IInv, NEW r \in Statuses, Finish(r) PROVE IInv'
<1> DEFINE e == Entry("DONE", task.id, task.execution, r)
<1>1. /\ task.id \in Commands /\ task \in Tasks /\ phase = "started"
      /\ journal.state = "STARTED" /\ journal.id = task.id /\ evaluated[task.id] > 0
  BY StartedEntry DEF Finish
<1>2. e \in Entries /\ e.state = "DONE" /\ e.id = task.id /\ e.result = r
  BY <1>1, EntryFields, EntryType DEF Tasks
<1>3. /\ UNCHANGED <<boot, recent, known, age, evaluated, asked>>
      /\ outcome' = [outcome EXCEPT ![task.id] = @ \cup {r}]
      /\ pending' = IF phase' = "idle" THEN [id |-> task.id, result |-> r] ELSE pending
      /\ task' = NoTask
      /\ Save(e, "idle", "fatal")
  BY DEF Finish
<1> HIDE DEF e
<1>4. /\ journal' \in {e, journal, Torn, Empty}
      /\ phase' \in {"idle", "fatal"} /\ (phase' = "idle" => journal' = e)
      /\ lapsed \subseteq lapsed' /\ lapsed' \subseteq Commands
      /\ \A c \in Commands : journal.id = c \/ c \in recent =>
           journal'.id = c \/ c \in recent' \/ c \in lapsed'
  <2>1. CASE journal' = e /\ phase' = "idle" /\ lapsed' = lapsed
    BY <1>1, <1>2, <1>3, <2>1 DEF IInv, TypeOK
  <2>2. CASE /\ journal' \in {journal, e, Torn, Empty} /\ phase' = "fatal"
             /\ lapsed' = lapsed \cup Dropped(journal', recent)
    <3>1. /\ Dropped(journal', recent) \subseteq Commands
          /\ \A c \in Commands : journal.id = c \/ c \in recent =>
               journal'.id = c \/ c \in recent \/ c \in Dropped(journal', recent)
      BY DroppedLapses DEF IInv
    <3> QED BY <1>3, <2>2, <3>1 DEF IInv, TypeOK
  <2> QED BY <1>3, <2>1, <2>2 DEF Save
<1>5. TypeOK'
  <2>1. pending' \in Pendings /\ task' \in Tasks
    BY <1>1, <1>3, EmptyTypes DEF IInv, TypeOK, Pendings
  <2>2. outcome' \in [Commands -> SUBSET Statuses]
    BY <1>1, <1>3 DEF IInv, TypeOK
  <2>3. journal' \in Entries
    BY <1>2, <1>4, EmptyTypes DEF IInv, TypeOK
  <2> QED BY <1>3, <1>4, <2>1, <2>2, <2>3 DEF IInv, TypeOK, Phases
<1>6. JournalShape'
  BY <1>1, <1>2, <1>3, <1>4, NoneIsNoCommand, EmptyTypes DEF IInv, TypeOK, JournalShape
<1>7. MemoryMatchesDisk'
  BY <1>1, <1>2, <1>3, <1>4 DEF IInv, MemoryMatchesDisk, Listening
<1>8. Known'
  BY <1>3, <1>4 DEF IInv, Known
<1>9. Truthful'
  <2>1. r \in outcome'[task.id]
    BY <1>1, <1>3 DEF IInv, TypeOK
  <2> QED BY <1>1, <1>2, <1>4, <2>1, EmptyTypes DEF Truthful
<1> QED BY <1>5, <1>6, <1>7, <1>8, <1>9 DEF IInv

\* Time passes.
LEMMA TickIInv == ASSUME IInv, Tick PROVE IInv'
<1>1. age' \in 0..MaxTtl
  BY MaxTtlAssumption DEF Tick, IInv, TypeOK
<1>2. task' \in Tasks /\ task'.id = task.id /\ task'.execution = task.execution
  BY MaxTtlAssumption DEF Tick, IInv, TypeOK, Tasks
<1>3. UNCHANGED <<phase, boot, journal, recent, known, pending, evaluated, asked, outcome, lapsed>>
  BY DEF Tick, disk, history
<1>4. TypeOK'
  BY <1>1, <1>2, <1>3 DEF IInv, TypeOK
<1>5. MemoryMatchesDisk'
  <2>1. Record' = Record
    BY <1>2 DEF Record
  <2> QED BY <1>2, <1>3, <2>1 DEF IInv, MemoryMatchesDisk, Listening
<1>6. JournalShape' /\ Known' /\ Truthful'
  BY <1>3, DiskKept
<1> QED BY <1>4, <1>5, <1>6 DEF IInv

\* Every step preserves the invariant.
LEMMA NextIInv == IInv /\ [Next]_vars => IInv'
<1> SUFFICES ASSUME IInv, [Next]_vars PROVE IInv'
  OBVIOUS
<1>1. CASE UNCHANGED vars
  BY <1>1 DEF vars, disk, history, IInv, TypeOK, JournalShape, MemoryMatchesDisk, Listening, Record,
              Known, Truthful
<1>2. CASE Next
  BY <1>2, StartIInv, PollIInv, RespondIInv, RememberIInv, ForgetIInv, SkipIInv, BeginIInv,
     OrderSendIInv, FinishIInv, TickIInv DEF Next, Local
<1> QED BY <1>1, <1>2

-----------------------------------------------------------------------------
(***************************************************************************)
(* The theorems.                                                           *)
(***************************************************************************)

\* The inductive invariant holds in every reachable state, whatever the server
\* answers and whatever is lost from the disk.
THEOREM Invariance == Spec => []IInv
  BY InitIInv, NextIInv, PTL DEF Spec

\* The EA's memory, files and result statuses keep their types.
THEOREM TypeCorrect == Spec => []TypeOK
<1>1. IInv => TypeOK
  BY DEF IInv
<1> QED BY <1>1, Invariance, PTL

\* However often a server sends a command, and however often the terminal is
\* restarted, the command is evaluated at most once, unless a failed write or
\* an unreadable file has taken the record of it.
THEOREM AtMostOnce == Spec => []EvaluatedOnce
<1>1. IInv => EvaluatedOnce
  <2> SUFFICES ASSUME IInv, NEW c \in Commands, c \notin lapsed PROVE ~(evaluated[c] > 1)
    BY DEF EvaluatedOnce
  <2>1. evaluated[c] = 0 \/ evaluated[c] = 1
    BY DEF IInv, Known
  <2> QED BY <2>1
<1> QED BY <1>1, Invariance, PTL

\* No broker request is forgotten but by a failed write or an unreadable file.
THEOREM NothingForgotten == Spec => []OnRecord
<1>1. IInv => OnRecord
  <2> SUFFICES ASSUME IInv, NEW c \in asked, c \notin lapsed
               PROVE  journal.id = c \/ c \in recent
    BY DEF OnRecord
  <2>1. c \in Commands /\ evaluated[c] > 0
    BY DEF IInv, TypeOK, Known
  <2>2. evaluated[c] = 1
    BY <2>1 DEF IInv, Known
  <2> QED BY <2>1, <2>2 DEF IInv, Known
<1> QED BY <1>1, Invariance, PTL

\* The journal never claims an outcome that the EA did not see.
THEOREM JournalTruthful == Spec => []Truthful
<1>1. IInv => Truthful
  BY DEF IInv
<1> QED BY <1>1, Invariance, PTL

\* A step leaves a result on disk alone, or deletes it once its id is recorded,
\* or replaces one that a start of the EA failed to read.
LEMMA NextResultStands ==
    ASSUME IInv, [Next]_vars, journal.state = "DONE"
    PROVE  \/ journal' = journal
           \/ journal' = Empty /\ journal.id \in recent
           \/ journal.id \in lapsed
<1>1. CASE Start
  BY <1>1, RecoveredEntry DEF Start, Resume, Overlook, RecoveryFails
<1>2. CASE Forget
  BY <1>2 DEF Forget, IInv, MemoryMatchesDisk, Listening
<1>3. CASE Begin
  <2>1. journal.id # None
    BY DEF IInv, JournalShape
  <2> QED BY <1>3, <2>1, FreshIsNew DEF Begin
<1>4. ASSUME NEW r \in Statuses, Finish(r) PROVE FALSE
  BY <1>4, StartedEntry DEF Finish
<1>5. CASE UNCHANGED journal
  BY <1>5
<1>6. CASE Ask \/ Fail \/ Remember \/ Skip \/ OrderSend \/ Crash \/ Tick \/ UNCHANGED vars
  BY <1>5, <1>6 DEF Ask, Fail, Remember, Skip, OrderSend, Crash, Tick, vars, disk
<1>7. ASSUME NEW ack \in Commands \cup {None}, NEW t \in Tasks, Respond(ack, t)
      PROVE  UNCHANGED journal
  BY <1>7 DEF Respond, disk
<1> QED BY <1>1, <1>2, <1>3, <1>4, <1>5, <1>6, <1>7 DEF Next, Local

\* A stored result is neither replaced nor lost before it is acknowledged,
\* unless the EA could not read it when it was started.
THEOREM ResultsStand == Spec => ResultStands
<1>1. IInv /\ [Next]_vars =>
        [journal.state = "DONE" =>
           \/ journal' = journal
           \/ journal' = Empty /\ journal.id \in recent
           \/ journal.id \in lapsed]_vars
  BY NextResultStands
<1> QED BY <1>1, Invariance, PTL DEF Spec, ResultStands
=============================================================================
