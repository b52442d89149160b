------------------------------ MODULE EaAgent ------------------------------
(***************************************************************************)
(* One installation of the expert advisor (mt5/BreakEvenAgent.mq5): its    *)
(* polling loop, the journal and the recent ids it keeps on disk, and the  *)
(* broker requests it makes.                                               *)
(*                                                                         *)
(* OnTimer runs to its end without interruption, but the terminal may stop *)
(* anywhere in it.  It is therefore cut into one action for every call     *)
(* that leaves a trace outside the program: the poll, each write to disk,  *)
(* and the broker requests.  What lies between two such calls belongs to   *)
(* the action before the second.                                           *)
(*                                                                         *)
(* Nothing is assumed of the server here: any response may come at any     *)
(* time, with any command in it.  Of the disk it is assumed that a file    *)
(* which SaveFileText has read back keeps its content.  A write reported   *)
(* as failed may have left anything, and a start may fail to read a file.  *)
(***************************************************************************)
EXTENDS Naturals

CONSTANTS
    Commands,    \* the ids a server may ever send
    MaxBoots,    \* bound: how many times the EA is started
    MaxTtl,      \* the longest expires_in_ms that ReadCommand takes, in ticks
    None         \* no id

ASSUME MaxBootsAssumption == MaxBoots \in Nat
ASSUME MaxTtlAssumption == MaxTtl \in Nat \ {0}
ASSUME NoneIsNoCommand == None \notin Commands

Statuses == {"SUCCEEDED", "PARTIAL", "FAILED", "UNCERTAIN"}
NoResult == "NONE"

\* The journal file and the result that waits in memory for its acknowledgement.
Entry(s, c, x, r) == [state |-> s, id |-> c, execution |-> x, result |-> r]
Empty == Entry("EMPTY", None, FALSE, NoResult)   \* no file, or one of no bytes
Torn == Entry("TORN", None, FALSE, NoResult)     \* a truncated file, which never parses
Entries == [state : {"EMPTY", "TORN", "STARTED", "DONE"}, id : Commands \cup {None},
            execution : BOOLEAN, result : Statuses \cup {NoResult}]
Pendings == [id : Commands \cup {None}, result : Statuses \cup {NoResult}]
NoPending == [id |-> None, result |-> NoResult]

\* The command of a response; left is what remains until its local deadline.
Tasks == [id : Commands \cup {None}, execution : BOOLEAN, left : 0..MaxTtl]
NoTask == [id |-> None, execution |-> FALSE, left |-> 0]

Phases == {"down", "idle", "polling", "acknowledged", "remembered", "responded",
           "started", "fatal"}

VARIABLES
    phase,     \* where OnTimer is; "fatal" is the flag Fatal, "down" a stopped EA
    boot,      \* BootID: the number of the start, fresh every time
    journal,   \* journal.json
    recent,    \* recent.txt
    known,     \* RecentIDs: what the EA has read and written of recent.txt
    pending,   \* PendingID and PendingResult
    task,      \* the command of the response being handled
    age,       \* the time since the current poll was sent, up to MaxTtl
    evaluated, \* history: how often an evaluation of it was put on record
    asked,     \* history: the executions that made a broker request
    outcome,   \* history: the results that the evaluations of it ended with
    lapsed     \* history: the commands whose record a failed write or an
               \* unreadable file has taken from the EA

disk == <<journal, recent>>
history == <<evaluated, asked, outcome, lapsed>>
vars == <<phase, boot, disk, known, pending, task, age, history>>

-----------------------------------------------------------------------------
Init ==
    /\ phase = "down"
    /\ boot = 0
    /\ journal = Empty
    /\ recent = {}
    /\ known = {}
    /\ pending = NoPending
    /\ task = NoTask
    /\ age = 0
    /\ evaluated = [c \in Commands |-> 0]
    /\ asked = {}
    /\ outcome = [c \in Commands |-> {}]
    /\ lapsed = {}

\* The commands on record now that a journal j and recent ids s leave out.
Dropped(j, s) == ({journal.id} \cup recent) \ ({j.id, None} \cup s)

\* SaveFileText refuses only to write nothing.  It moves the new file over the
\* old one and then reads it back, so a write that it reports as failed may
\* have been left undone or done, or have left a part of the text or nothing.
Save(e, next, otherwise) ==
    \/ journal' = e /\ phase' = next /\ lapsed' = lapsed
    \/ /\ journal' \in {journal, e, Torn, Empty}
       /\ phase' = otherwise
       /\ lapsed' = lapsed \cup Dropped(journal', recent)

\* Mutations of Interrupted: an interrupted execution is reported as failed, or
\* by the code of its summary in place of a status.
InterruptedFails(x) == "FAILED"
InterruptedCode(x) == IF x THEN "EXECUTION_UNCERTAIN" ELSE "PREVIEW_INTERRUPTED"

\* What OnInit reports of an evaluation that has no result.
Interrupted(x) == IF x THEN "UNCERTAIN" ELSE "FAILED"

\* Mutation of Recovered: only finished evaluations are recovered.
RecoveredIfDone == IF journal.state = "STARTED" THEN Empty ELSE journal

\* The journal that OnInit leaves.
Recovered ==
    IF journal.state = "STARTED"
    THEN Entry("DONE", journal.id, journal.execution, Interrupted(journal.execution))
    ELSE journal

\* OnInit comes up with the result p to send, having overlooked the commands j;
\* of a recent.txt that it cannot read, or not to its end, ids are missing.
ComeUp(p, j) ==
    /\ phase' = "idle"
    /\ pending' = p
    /\ known' \in SUBSET recent
    /\ lapsed' = lapsed \cup (recent \ known') \cup j

\* The journal is read; one that does not parse keeps the EA down.
Resume ==
    /\ journal.state # "TORN"
    /\ journal' = Recovered
    /\ ComeUp([id |-> Recovered.id, result |-> Recovered.result], {})

\* The journal cannot be read, and is taken for none.
Overlook == journal' = journal /\ ComeUp(NoPending, {journal.id} \ {None})

\* The journal is read, but what it recovers cannot be written: INIT_FAILED.
RecoveryFails ==
    /\ journal.state = "STARTED"
    /\ journal' \in {journal, Recovered, Torn, Empty}
    /\ lapsed' = lapsed \cup Dropped(journal', recent)
    /\ UNCHANGED <<phase, pending, known>>

\* OnInit.
Start ==
    /\ phase = "down"
    /\ boot < MaxBoots
    /\ boot' = boot + 1
    /\ Resume \/ Overlook \/ RecoveryFails
    /\ UNCHANGED <<recent, task, age, evaluated, asked, outcome>>

\* OnTimer sends a poll that carries the pending result, and waits.
Ask ==
    /\ phase = "idle"
    /\ phase' = "polling"
    /\ age' = 0
    /\ UNCHANGED <<boot, disk, known, pending, task, history>>

\* Mutation of Fail: a result that is refused counts as dealt with.
FailRetires ==
    /\ phase = "polling"
    /\ phase' = IF pending.id # None THEN "acknowledged" ELSE "idle"
    /\ age' = 0
    /\ UNCHANGED <<boot, disk, known, pending, task, history>>

\* No response in time, another status than 200, a malformed one.
Fail ==
    /\ phase = "polling"
    /\ phase' = "idle"
    /\ age' = 0
    /\ UNCHANGED <<boot, disk, known, pending, task, history>>

\* A response with the acknowledgement ack and the command t (NoTask when its
\* code is not OK, too).  The deadline counts from before the poll was sent.
Respond(ack, t) ==
    /\ phase = "polling"
    /\ phase' = IF pending.id # None /\ ack = pending.id THEN "acknowledged" ELSE "responded"
    /\ task' = IF t.left > age THEN [t EXCEPT !.left = @ - age] ELSE [t EXCEPT !.left = 0]
    /\ age' = 0
    /\ UNCHANGED <<boot, disk, known, pending, history>>

\* Mutation of Remember: the id is not kept.
RememberNothing ==
    /\ phase = "acknowledged"
    /\ phase' = "remembered"
    /\ UNCHANGED <<boot, disk, known, pending, task, age, history>>

\* The acknowledged id goes to recent.txt first, unless it is there already.  A
\* failed write may have left the ids of before, or have lost any of them ...
Remember ==
    /\ phase = "acknowledged"
    /\ \/ /\ pending.id \in known /\ phase' = "remembered"
          /\ UNCHANGED <<recent, known, lapsed>>
       \/ /\ pending.id \notin known /\ phase' = "remembered"
          /\ known' = known \cup {pending.id} /\ recent' = known'
          /\ lapsed' = lapsed
       \/ /\ pending.id \notin known /\ phase' = "fatal"
          /\ recent' \in {recent, known \cup {pending.id}} \cup SUBSET known
          /\ known' = known
          /\ lapsed' = lapsed \cup Dropped(journal, recent')
    /\ UNCHANGED <<boot, journal, pending, task, age, evaluated, asked, outcome>>

\* ... and then its journal entry goes.
Forget ==
    /\ phase = "remembered"
    /\ \/ journal' = Empty /\ pending' = NoPending /\ phase' = "responded"
       \/ UNCHANGED <<journal, pending>> /\ phase' = "fatal"
    /\ UNCHANGED <<boot, recent, known, task, age, history>>

\* Mutation of Fresh: recent.txt is not consulted.
FreshUnlessPending == task.id # None /\ pending.id = None /\ task.left > 0

\* A command is evaluated unless a result still waits, its deadline has passed
\* (INVALID_OR_EXPIRED_COMMAND) or it is known (REPLAY_REJECTED).
Fresh == task.id # None /\ pending.id = None /\ task.left > 0 /\ task.id \notin known

Skip ==
    /\ phase = "responded"
    /\ ~Fresh
    /\ phase' = "idle"
    /\ task' = NoTask
    /\ UNCHANGED <<boot, disk, known, pending, age, history>>

Record == Entry("STARTED", task.id, task.execution, NoResult)

\* The STARTED entry goes to disk before anything is asked of the broker.
Begin ==
    /\ phase = "responded"
    /\ Fresh
    /\ Save(Record, "started", "fatal")
    /\ evaluated' = IF journal' = Record THEN [evaluated EXCEPT ![task.id] = @ + 1]
                                         ELSE evaluated
    /\ UNCHANGED <<boot, recent, known, pending, task, age, asked, outcome>>

\* Mutation of InTime: the deadline is not checked before a broker request.
Whenever == TRUE

\* ExecuteItem checks the deadline again right before every OrderSend.
InTime == task.left > 0

\* ExecuteItem up to OrderSend, for one item of the plan.
OrderSend ==
    /\ phase = "started"
    /\ task.execution
    /\ InTime
    /\ asked' = asked \cup {task.id}
    /\ UNCHANGED <<phase, boot, disk, known, pending, task, age, evaluated, outcome, lapsed>>

\* The statuses that BuildResult can come to: without a broker request, in this
\* evaluation or an earlier one, nothing was confirmed and nothing is uncertain.
Results == IF task.id \in asked THEN Statuses ELSE {"SUCCEEDED", "FAILED"}

\* BuildResult returns, and the DONE entry replaces the STARTED one.
Finish(r) ==
    /\ phase = "started"
    /\ r \in Results
    /\ Save(Entry("DONE", task.id, task.execution, r), "idle", "fatal")
    /\ outcome' = [outcome EXCEPT ![task.id] = @ \cup {r}]
    /\ pending' = IF phase' = "idle" THEN [id |-> task.id, result |-> r] ELSE pending
    /\ task' = NoTask
    /\ UNCHANGED <<boot, recent, known, age, evaluated, asked>>

\* The terminal stops: only the disk remains.
Crash ==
    /\ phase # "down"
    /\ phase' = "down"
    /\ known' = {}
    /\ pending' = NoPending
    /\ task' = NoTask
    /\ age' = 0
    /\ UNCHANGED <<boot, disk, history>>

Tick ==
    /\ age' = IF phase = "polling" /\ age < MaxTtl THEN age + 1 ELSE age
    /\ task' = IF task.left = 0 THEN task ELSE [task EXCEPT !.left = @ - 1]
    /\ UNCHANGED <<phase, boot, disk, known, pending, history>>

\* What the EA does of its own.
Local == Remember \/ Forget \/ Skip \/ Begin \/ OrderSend \/ \E r \in Statuses : Finish(r)

Next ==
    \/ Start
    \/ Ask
    \/ Fail
    \/ \E ack \in Commands \cup {None}, t \in Tasks : Respond(ack, t)
    \/ Local
    \/ Crash
    \/ Tick

Spec == Init /\ [][Next]_vars
-----------------------------------------------------------------------------
(***************************************************************************)
(* Properties, whatever the server sends.                                  *)
(***************************************************************************)
TypeOK ==
    /\ phase \in Phases
    /\ boot \in 0..MaxBoots
    /\ journal \in Entries
    /\ recent \subseteq Commands
    /\ known \subseteq Commands
    /\ pending \in Pendings
    /\ task \in Tasks
    /\ age \in 0..MaxTtl
    /\ evaluated \in [Commands -> Nat]
    /\ asked \subseteq Commands
    /\ outcome \in [Commands -> SUBSET Statuses]
    /\ lapsed \subseteq Commands

\* A command is evaluated a second time only when the record of it was lost to
\* a failed write or an unreadable file: while the record is there, a redelivery
\* is answered from the journal and a replay is rejected, over any restarts.
EvaluatedOnce == \A c \in Commands : evaluated[c] > 1 => c \in lapsed

\* Whatever the broker was asked to do is on record, in the journal until its
\* result is acknowledged and among the recent ids ever after; no order of
\* steps takes it from there, only a write that fails or a file that cannot
\* be read.
OnRecord == \A c \in asked : journal.id = c \/ c \in recent \/ c \in lapsed

\* The journal never claims more than the EA knows: a DONE entry holds a result
\* that an evaluation ended with, and an execution that was cut short after a
\* broker request is UNCERTAIN.
Truthful ==
    journal.state = "DONE" =>
        \/ journal.result \in outcome[journal.id]
        \/ IF journal.execution
           THEN journal.result = "UNCERTAIN"
           ELSE journal.result = "FAILED" /\ (journal.id \in asked => journal.id \in lapsed)

\* A result on disk stays what it is until the server has acknowledged it,
\* unless a start of the EA failed to read it.
ResultStands ==
    [][journal.state = "DONE" =>
        \/ journal' = journal
        \/ journal' = Empty /\ journal.id \in recent
        \/ journal.id \in lapsed]_vars

-----------------------------------------------------------------------------
(***************************************************************************)
(* The inductive invariant.                                                *)
(***************************************************************************)

\* What the journal's entry stands for.
JournalShape ==
    /\ journal.state \in {"EMPTY", "TORN"} <=> journal.id = None
    /\ journal.id # None => evaluated[journal.id] > 0
    /\ journal.state = "STARTED" /\ ~journal.execution =>
         (journal.id \in asked => journal.id \in lapsed)

\* Outside an evaluation the memory of the EA agrees with what it could read of
\* its disk; during one, the journal says so.
Listening == phase \in {"idle", "polling", "acknowledged", "remembered", "responded"}
MemoryMatchesDisk ==
    /\ Listening \/ phase = "started" => known \subseteq recent /\ recent \ known \subseteq lapsed
    /\ Listening => \/ pending.id = journal.id
                    \/ pending.id = None /\ journal.id \in lapsed
    /\ phase \in {"acknowledged", "remembered"} => pending.id # None
    /\ phase = "remembered" => pending.id \in known
    /\ phase = "started" => task.id # None /\ journal = Record

\* Whatever was evaluated is still known, unless its record was lost.
Known ==
    \A c \in Commands :
        /\ c \in asked => evaluated[c] > 0
        /\ c \notin lapsed =>
             /\ evaluated[c] \in {0, 1}
             /\ evaluated[c] = 1 => journal.id = c \/ c \in recent

IInv == TypeOK /\ JournalShape /\ MemoryMatchesDisk /\ Known /\ Truthful
=============================================================================
