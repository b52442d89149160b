----------------------------- MODULE RiskSystem -----------------------------
(***************************************************************************)
(* The whole path of an operation: the command queue of one account, the   *)
(* one expert advisor paired with it, and the HTTPS polls between them.    *)
(*                                                                         *)
(* A poll is a synchronous request with a timeout of two seconds.  It may  *)
(* never reach the server, be refused, lose its response, or be given up   *)
(* by the EA and still be processed later, even after a restart of the EA. *)
(*                                                                         *)
(* The handlers get their database session from a dependency that commits  *)
(* when it is closed (session in app/db.py), and the pinned FastAPI closes *)
(* it after the response has gone out.  Nobody sees the rows in between,   *)
(* because the handler holds the lock of the account until then.  When the *)
(* server or the database stops in between, the EA has an answer to a poll *)
(* that never happened.                                                    *)
(***************************************************************************)
EXTENDS Naturals, FiniteSets

CONSTANTS
    Agent,         \* the installation
    MaxBoots,      \* bound: starts of the EA
    MaxCommands,   \* bound: commands
    MaxLate,       \* bound: polls given up by the EA and still under way
    Ttl,           \* command_ttl_seconds, in ticks
    OnlineWindow,  \* online_seconds, in ticks
    BusyWindow,    \* the exclusion window of another session, in ticks
    None

ASSUME BootsAssumption == MaxBoots \in Nat
ASSUME CommandsAssumption == MaxCommands \in Nat
ASSUME TtlAssumption == Ttl \in Nat \ {0}
ASSUME WindowAssumption == OnlineWindow \in Nat /\ BusyWindow \in Nat
ASSUME NoneAssumption == None # Agent /\ None \notin 1..MaxBoots /\ None \notin 1..MaxCommands

VARIABLES
    account, agent, session, seen, report,                     \* CommandQueue
    created, kind, owner, source, status, ttl, delivered, result, handed,
    phase, boot, journal, recent, known, pending, task, age,   \* EaAgent
    evaluated, asked, outcome, lapsed,
    late,          \* the polls that the EA has given up
    unleased,      \* history: the commands delivered in a response whose lease was lost
    unstored       \* history: the results acknowledged in a response and then lost

queueVars == <<account, agent, session, seen, report, created, kind, owner, source, status,
               ttl, delivered, result, handed>>
agentVars == <<phase, boot, journal, recent, known, pending, task, age,
               evaluated, asked, outcome, lapsed>>
lost == <<unleased, unstored>>
vars == <<queueVars, agentVars, late, lost>>

E == INSTANCE EaAgent WITH Commands <- 1..MaxCommands, MaxTtl <- Ttl
Q == INSTANCE CommandQueue WITH
        Agents <- {Agent}, Sessions <- 1..MaxBoots, Outcomes <- E!Statuses

-----------------------------------------------------------------------------
(***************************************************************************)
(* Polls.                                                                  *)
(***************************************************************************)

\* The body that OnTimer sends: its session and the result that waits.
Request ==
    [session |-> boot,
     result  |-> IF pending.id = None THEN Q!NoSubmission
                 ELSE [command |-> pending.id, status |-> pending.result]]

\* The command in the response to request q, as a set of at most one.
Delivery(q, r) ==
    LET w == Q!Expire(Q!Receive(Q!Online(Q!Rows), q.result))
    IN  {c \in Q!Waiting(w, Agent) : /\ w.account # "BLOCKED_UNCERTAIN"
                                     /\ Q!Permitted(c, r)
                                     /\ ~Q!Foreign(w, c, q.session)}

Acknowledgement(q) == IF q.result = Q!NoSubmission THEN None ELSE q.result.command

\* Mutation of Content: the server grants a fresh deadline with every delivery.
ContentRenewed(d) ==
    IF d = {} THEN E!NoTask
    ELSE LET c == CHOOSE x \in d : TRUE
         IN  [id |-> c, execution |-> Q!Executing(c), left |-> Ttl]

\* What the response says of its command: the time that remains, never more.
Content(d) ==
    IF d = {} THEN E!NoTask
    ELSE LET c == CHOOSE x \in d : TRUE
         IN  [id |-> c, execution |-> Q!Executing(c), left |-> ttl[c]]

Init == Q!Init /\ E!Init /\ late = {} /\ unleased = {} /\ unstored = {}

\* The first start pairs the installation, within OnInit.
PairAgent ==
    /\ Q!Pair(Agent, boot + 1)
    /\ E!Start
    /\ UNCHANGED <<late, lost>>

\* A later start, with the stored credentials.  (An installation whose pairing
\* was lost after its response is a stranger to the server, and never heard.)
Restart ==
    /\ agent[Agent] # "UNPAIRED"
    /\ E!Start
    /\ UNCHANGED <<queueVars, late, lost>>

Ask == E!Ask /\ UNCHANGED <<queueVars, late, lost>>

\* The EA reads the response to its poll.
Hear(r) == E!Respond(Acknowledgement(Request), Content(Delivery(Request, r)))

\* A poll answered in time, and committed.
Serve(r) ==
    /\ phase = "polling"
    /\ Q!Poll(Agent, boot, r, Request.result)
    /\ Hear(r)
    /\ UNCHANGED <<late, lost>>

\* A poll answered in time, and then rolled back.
ServeUncommitted(r) ==
    /\ phase = "polling"
    /\ Q!Heard(Agent, boot)
    /\ Request.result # Q!NoSubmission => Q!Acceptable(Agent, Request.result)
    /\ Hear(r)
    /\ unleased' = unleased \cup {c \in Delivery(Request, r) : status[c] = "PENDING"}
    /\ unstored' = unstored \cup {c \in Q!Ids : c = pending.id /\ result[c] = Q!NoResult}
    /\ UNCHANGED <<queueVars, late>>

\* A poll whose response is lost.
ServeUnheard(r) ==
    /\ phase = "polling"
    /\ Q!Poll(Agent, boot, r, Request.result)
    /\ E!Fail
    /\ UNCHANGED <<late, lost>>

\* A poll that does not reach the handler, that the handler refuses, or that is
\* rolled back before it is answered.
Refuse == E!Fail /\ UNCHANGED <<queueVars, late, lost>>

Linger == late' = late \cup {Request} /\ Cardinality(late') <= MaxLate

\* A poll that times out on its way.
GiveUp == E!Fail /\ Linger /\ UNCHANGED <<queueVars, lost>>

\* ... and is processed after all.
ServeLate(q, r) ==
    /\ q \in late
    /\ Q!Poll(Agent, q.session, r, q.result)
    /\ late' = late \ {q}
    /\ UNCHANGED <<agentVars, lost>>

\* The terminal stops, possibly with a poll on its way.
Crash ==
    /\ E!Crash
    /\ UNCHANGED late \/ (phase = "polling" /\ Linger)
    /\ UNCHANGED <<queueVars, lost>>

Local == E!Local /\ UNCHANGED <<queueVars, late, lost>>

-----------------------------------------------------------------------------
(***************************************************************************)
(* The human, the sweeper, the operator, and time.                         *)
(***************************************************************************)
Human ==
    /\ \/ Q!RequestPreview(Agent)
       \/ \E p \in Q!Ids : Q!Confirm(p, Agent) \/ Q!Cancel(p)
       \/ Q!Revoke(Agent)
    /\ UNCHANGED <<agentVars, late, lost>>

Sweep == Q!Sweep /\ UNCHANGED <<agentVars, late, lost>>

Reconcile(c) == Q!Reconcile(c) /\ UNCHANGED <<agentVars, late, lost>>

Tick == Q!Tick /\ E!Tick /\ UNCHANGED <<late, lost>>

Next ==
    \/ PairAgent
    \/ Restart
    \/ Ask
    \/ \E r \in Q!Reports : \/ Serve(r) \/ ServeUncommitted(r) \/ ServeUnheard(r)
                            \/ \E q \in late : ServeLate(q, r)
    \/ Refuse
    \/ GiveUp
    \/ Crash
    \/ Local
    \/ Human
    \/ Sweep
    \/ \E c \in Q!Ids : Reconcile(c)
    \/ Tick

Spec == Init /\ [][Next]_vars
-----------------------------------------------------------------------------
(***************************************************************************)
(* Properties.                                                             *)
(***************************************************************************)

\* While the EA may still send a broker request for an execution, the server's
\* deadline has not passed and the server holds the account for it.  There are
\* two exceptions: an operator has reconciled the execution before its deadline,
\* or the lease in the response was lost, so that the execution still waits on
\* the server, or it is repeated (see ExecutedOnce).
InterlockHeld ==
    phase = "started" /\ task.execution /\ task.left > 0 =>
        /\ task.left <= ttl[task.id]
        /\ \/ Q!Outstanding(task.id)
           \/ status[task.id] = "CANCELLED"
           \/ task.id \in unleased /\ (status[task.id] = "PENDING" \/ task.id \in lapsed)

\* Whatever the broker was asked to do is accounted for: the server has the
\* result, or the account is held for it, or an operator has settled it.  When
\* its lease was lost and the server knows nothing of it, the EA still has it
\* in its journal, unless a second failure has taken it from there.
Accounted ==
    \A c \in asked :
        \/ result[c] # Q!NoResult \/ Q!Outstanding(c) \/ status[c] = "CANCELLED"
        \/ c \in unleased /\ (journal.id = c \/ c \in lapsed)

\* The EA retires a command only when the server has its result.  When the
\* commit of the result was lost after the acknowledgement, the server holds
\* the account for an execution all the same.
HandedOver ==
    \A c \in recent :
        \/ result[c] # Q!NoResult
        \/ /\ c \in unstored
           /\ Q!Executing(c) => Q!Outstanding(c) \/ status[c] = "CANCELLED"

\* It takes two failures to execute a command twice: its lease was lost after
\* the response, and then the EA lost its record of the first execution.
\* Neither alone is enough, for any order of polls, restarts and expiries.
ExecutedOnce ==
    \A c \in Q!Ids : Q!Executing(c) /\ evaluated[c] > 1 => c \in unleased /\ c \in lapsed

\* What the server stores of an execution is what an evaluation of it came to,
\* or UNCERTAIN: no lost, repeated or late poll and no restart turns it into
\* another result.
ResultHonest ==
    \A c \in Q!Ids : Q!Executing(c) /\ result[c] \notin {Q!NoResult, "UNCERTAIN"} =>
        result[c] \in outcome[c]

\* docs/architecture.md: commits cover results, and the acknowledgement of a
\* result permits the cleanup of the journal, so what the EA has cleaned up is
\* stored by the server.
CleanedUpIsStored == \A c \in recent : result[c] # Q!NoResult

\* The loop runs, the sweeper runs, time passes, and not every poll is lost.
Fairness ==
    /\ WF_vars(Tick) /\ WF_vars(Sweep)
    /\ WF_vars(Ask) /\ WF_vars(Local)
    /\ SF_vars(\E r \in Q!Reports : Serve(r))

FairSpec == Spec /\ Fairness

\* A result that waits reaches the server, unless the EA stops, or the human or
\* the operator has withdrawn its agent or its command, or a transaction was
\* lost: a result whose lease was lost is refused for as long as the EA sends
\* it, and one whose commit was lost is not sent again.
ResultArrives ==
    \A c \in Q!Ids : pending.id = c ~>
        \/ result[c] # Q!NoResult
        \/ phase \in {"down", "fatal"}
        \/ agent[Agent] = "REVOKED" \/ status[c] = "CANCELLED"
        \/ c \in unleased \cup unstored

-----------------------------------------------------------------------------
(***************************************************************************)
(* The inductive invariant: what is on its way agrees with what the EA has *)
(* done, and what the EA may do agrees with what the server has sent.      *)
(***************************************************************************)

\* An evaluation of c that is not under way any more.
Closed(c) == evaluated[c] > (IF phase = "started" /\ task.id = c THEN 1 ELSE 0)

Honest(c, r) == Q!Executing(c) => r \in outcome[c] \cup {"UNCERTAIN"}

\* A submission, on its way or waiting, is one that the EA stands by.
Vouched(m) == m = Q!NoSubmission \/ (Closed(m.command) /\ Honest(m.command, m.status))

LateVouched ==
    \A q \in late : /\ q.session \in 1..boot /\ q.result \in Q!Submissions
                    /\ Vouched(q.result)

StoredVouched ==
    \A c \in Q!Ids : result[c] # Q!NoResult => Closed(c) /\ Honest(c, result[c])

\* What the EA knows of a command is what the server created it as.
Agreed ==
    /\ recent \subseteq 1..created
    /\ \A c \in Q!Ids : evaluated[c] > 0 => c <= created
    /\ \A c \in asked : Q!Executing(c)
    /\ journal.id # None =>
         journal.id \in 1..created /\ journal.execution = Q!Executing(journal.id)
    /\ task.id # None =>
         task.id \in 1..created /\ task.execution = Q!Executing(task.id)
    /\ unleased \subseteq 1..created

\* Outside an evaluation what waits is what the journal says, and before a
\* response there is no command.
Waits ==
    /\ phase # "down" => boot \in 1..MaxBoots
    /\ phase \in {"down", "idle", "polling"} => task.id = None
    /\ journal.state = "DONE" =>
         /\ journal.result \in E!Statuses
         /\ Closed(journal.id)
    /\ pending.id # None /\ phase \in E!Phases \ {"fatal"} =>
         journal.state = "DONE" /\ pending = [id |-> journal.id, result |-> journal.result]

\* What the EA is about to retire, or has retired, the server has acknowledged.
Acked(c) == result[c] # Q!NoResult \/ (c \in unstored /\ delivered[c] # None)
Retires ==
    /\ phase \in {"acknowledged", "remembered"} => Acked(pending.id)
    /\ \A c \in recent : Acked(c)

\* An execution that the EA has received was leased to it, in this very start
\* if it is at hand, unless its lease was lost.
Issued ==
    /\ \A c \in Q!Ids : delivered[c] # None => delivered[c] <= boot
    /\ \A c \in 1..created : Q!Executing(c) /\ c \notin unleased =>
         /\ evaluated[c] > 0 => delivered[c] # None
         /\ task.id = c => delivered[c] = boot

\* What was leased stays in sight of the server.
InSight(c) == result[c] # Q!NoResult \/ Q!Outstanding(c) \/ status[c] = "CANCELLED"
Sighted ==
    \A c \in 1..created : Q!Executing(c) => status[c] \in {"PENDING", "EXPIRED"} \/ InSight(c)

\* What the EA has evaluated since it was started, it still knows.
Remembered ==
    \A c \in 1..created :
        Q!Executing(c) /\ c \notin unleased /\ evaluated[c] > 0 /\ delivered[c] = boot =>
            \/ c \in known \/ pending.id = c
            \/ phase = "started" /\ task.id = c
            \/ phase \in {"down", "fatal"}

\* The deadline of the EA is not later than the server's.
Timely == task.id # None /\ task.execution => task.left <= ttl[task.id]

RInv ==
    /\ Q!IInv /\ E!IInv
    /\ LateVouched /\ StoredVouched
    /\ Agreed /\ Waits /\ Retires /\ Issued /\ Sighted /\ Remembered /\ Timely
    /\ ExecutedOnce
=============================================================================
