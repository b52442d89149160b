---------------------------- MODULE CommandQueue ----------------------------
(***************************************************************************)
(* The command queue of ONE trading account, as backend/app/service.py     *)
(* keeps it: previews and executions, the agents that have been paired     *)
(* with the account, the sessions those agents poll from, and the account  *)
(* status that latches a mismatch or an unresolved execution.              *)
(*                                                                         *)
(* Every handler first locks the account row (SELECT ... FOR UPDATE) and   *)
(* commits or rolls back as one transaction, so every handler is one       *)
(* action, and a handler that answers with an error changes nothing: it is *)
(* an action that is not enabled.                                          *)
(*                                                                         *)
(* Time is relative.  ttl[c] is what is left of commands.expires_at and    *)
(* seen[a] is the age of agents.last_seen_at; Tick moves both.  A handler  *)
(* reads the clock once.                                                   *)
(***************************************************************************)
EXTENDS Naturals, FiniteSets

CONSTANTS
    Agents,        \* installations that may ever be paired with the account
    Sessions,      \* session ids, a fresh one for every start of an EA
    MaxCommands,   \* bound: how many commands are ever created
    Ttl,           \* settings().command_ttl_seconds, in ticks
    OnlineWindow,  \* settings().online_seconds, in ticks
    BusyWindow,    \* the exclusion window of another session, in ticks
    Outcomes,      \* the statuses that the submitted results may carry
    None           \* SQL NULL

ASSUME MaxCommandsAssumption == MaxCommands \in Nat
ASSUME TtlAssumption == Ttl \in Nat \ {0}
ASSUME WindowAssumption == OnlineWindow \in Nat /\ BusyWindow \in Nat
ASSUME OutcomesAssumption == Outcomes \subseteq {"SUCCEEDED", "PARTIAL", "FAILED", "UNCERTAIN"}
ASSUME NoneAssumption == None \notin Agents /\ None \notin Sessions

(***************************************************************************)
(* Commands are numbered in the order of created_at.                       *)
(***************************************************************************)
Ids == 1..MaxCommands

Kinds == {"PREVIEW", "EXECUTION"}
Pending == {"PENDING", "LEASED"}
ACTIVE == Pending \cup {"AWAITING_CONFIRMATION", "UNCERTAIN"}
Terminal == {"SUCCEEDED", "PARTIAL", "FAILED", "CANCELLED"}
CommandStatus == ACTIVE \cup Terminal \cup {"NEW", "EXPIRED"}
AccountStatus == {"OFFLINE", "ONLINE", "ACCOUNT_MISMATCH", "BLOCKED_UNCERTAIN"}

\* What a poll reports of the terminal: "down" is disconnected or not a
\* hedging account, "dry" has the local execution toggle off, "live" has it on.
Reports == {"down", "dry", "live"}

\* An age at which an agent is neither online nor excludes another session;
\* an agent that was never seen is that old.
Stale == IF OnlineWindow < BusyWindow THEN BusyWindow ELSE OnlineWindow + 1

NoResult == "NONE"
NoSubmission == [command |-> 0, status |-> NoResult]
Submissions == [command : Ids, status : Outcomes] \cup {NoSubmission}

VARIABLES
    account,    \* trading_accounts.status
    agent,      \* [Agents -> "UNPAIRED" | "PAIRED" | "REVOKED"]
    session,    \* agents.session_id
    seen,       \* the age of agents.last_seen_at, up to Stale
    report,     \* agents.state and trading_accounts.margin_mode
    created,    \* how many commands exist
    kind,       \* commands.type: a preview or an execution
    owner,      \* commands.agent_id
    source,     \* the preview in an execution's "confirm:<id>" key, else 0
    status,     \* commands.status
    ttl,        \* commands.expires_at
    delivered,  \* commands.delivery_session_id, set together with leased_at
    result,     \* command_results.overall_status
    handed      \* history: the sessions an execution has been sent to

agentVars == <<agent, session, seen, report>>
commandVars == <<created, kind, owner, source, ttl>>
vars == <<account, status, result, delivered, handed, agentVars, commandVars>>

-----------------------------------------------------------------------------
(***************************************************************************)
(* The rows a handler rewrites step by step under the account lock.  The   *)
(* steps of a handler are operators from Rows to Rows.                     *)
(***************************************************************************)
Rows == [account |-> account, status |-> status]

Write(w) == account' = w.account /\ status' = w.status

Executing(c) == kind[c] = "EXECUTION"

Active(w) == {c \in Ids : w.status[c] \in ACTIVE}

\* Mutation of Due: previews that wait for the human are forgotten.
DueIfPending(w, c) == w.status[c] \in Pending /\ ttl[c] = 0

Due(w, c) == w.status[c] \in ACTIVE \ {"UNCERTAIN"} /\ ttl[c] = 0

\* Mutation of Doubtful: the lease is taken for the wait before it.
DoubtfulIfPending(w, c) == Due(w, c) /\ w.status[c] = "PENDING" /\ Executing(c)

\* A lapsed lease of an execution: the broker may have acted on it.
Doubtful(w, c) == Due(w, c) /\ w.status[c] = "LEASED" /\ Executing(c)

Expire(w) ==
    [account |-> IF \E c \in Ids : Doubtful(w, c) THEN "BLOCKED_UNCERTAIN"
                                                  ELSE w.account,
     status  |-> [c \in Ids |-> IF Doubtful(w, c) THEN "UNCERTAIN"
                                ELSE IF Due(w, c) THEN "EXPIRED"
                                ELSE w.status[c]]]

\* active_agent together with the freshness and terminal checks of available.
Available(w, a) ==
    /\ w.account \notin {"BLOCKED_UNCERTAIN", "ACCOUNT_MISMATCH"}
    /\ agent[a] = "PAIRED"
    /\ seen[a] <= OnlineWindow
    /\ report[a] # "down"

\* Mutation of Create: the deadline is off by one.
CreateLate(c, k, a, p) ==
    /\ created' = c
    /\ kind' = [kind EXCEPT ![c] = k]
    /\ owner' = [owner EXCEPT ![c] = a]
    /\ source' = [source EXCEPT ![c] = p]
    /\ ttl' = [ttl EXCEPT ![c] = Ttl + 1]

Create(c, k, a, p) ==
    /\ created' = c
    /\ kind' = [kind EXCEPT ![c] = k]
    /\ owner' = [owner EXCEPT ![c] = a]
    /\ source' = [source EXCEPT ![c] = p]
    /\ ttl' = [ttl EXCEPT ![c] = Ttl]

-----------------------------------------------------------------------------
Init ==
    /\ account = "OFFLINE"
    /\ agent = [a \in Agents |-> "UNPAIRED"]
    /\ session = [a \in Agents |-> None]
    /\ seen = [a \in Agents |-> Stale]
    /\ report = [a \in Agents |-> "down"]
    /\ created = 0
    /\ kind = [c \in Ids |-> "PREVIEW"]
    /\ owner = [c \in Ids |-> None]
    /\ source = [c \in Ids |-> 0]
    /\ status = [c \in Ids |-> "NEW"]
    /\ ttl = [c \in Ids |-> 0]
    /\ delivered = [c \in Ids |-> None]
    /\ result = [c \in Ids |-> NoResult]
    /\ handed = [c \in Ids |-> {}]

\* pair: only an installation never seen before, only while no other agent of
\* the account is unrevoked and no execution is unresolved.
Pair(a, s) ==
    /\ agent[a] = "UNPAIRED"
    /\ \A b \in Agents : agent[b] # "PAIRED"
    /\ account # "BLOCKED_UNCERTAIN"
    /\ agent' = [agent EXCEPT ![a] = "PAIRED"]
    /\ session' = [session EXCEPT ![a] = s]
    /\ UNCHANGED <<account, status, result, delivered, handed, seen, report, commandVars>>

\* Mutation of Idle: a preview that waits for the human is no operation.
IdleTerminal(w) == \A c \in Ids : w.status[c] \notin Pending \cup {"UNCERTAIN"}

\* No OPERATION_IN_PROGRESS.
Idle(w) == Active(w) = {}

\* request_preview (the idempotent repeat of a key changes nothing).
RequestPreview(a) ==
    LET w == Expire(Rows)
        c == created + 1
    IN  /\ Available(w, a)
        /\ Idle(w)
        /\ c \in Ids
        /\ Create(c, "PREVIEW", a, 0)
        /\ Write([w EXCEPT !.status[c] = "PENDING"])
        /\ UNCHANGED <<result, delivered, handed, agentVars>>

\* Mutation of Confirmable: a preview is confirmed before it is answered.
ConfirmableEarly(w, p) ==
    w.status[p] \in {"LEASED", "AWAITING_CONFIRMATION"} /\ ttl[p] > 0

\* The check that opens confirm and cancel alike.
Confirmable(w, p) == w.status[p] = "AWAITING_CONFIRMATION" /\ ttl[p] > 0

\* confirm: the preview is consumed and its execution created in one step.
Confirm(p, a) ==
    LET w == Expire(Rows)
        c == created + 1
    IN  /\ \A d \in Ids : source[d] # p
        /\ Confirmable(w, p)
        /\ Available(w, a) /\ report[a] = "live"
        /\ owner[p] = a
        /\ c \in Ids
        /\ Create(c, "EXECUTION", a, p)
        /\ Write([w EXCEPT !.status[p] = "SUCCEEDED", !.status[c] = "PENDING"])
        /\ UNCHANGED <<result, delivered, handed, agentVars>>

\* confirm(..., cancel=True)
Cancel(p) ==
    LET w == Expire(Rows)
    IN  /\ Confirmable(w, p)
        /\ Write([w EXCEPT !.status[p] = "CANCELLED"])
        /\ UNCHANGED <<result, delivered, handed, agentVars, commandVars>>

-----------------------------------------------------------------------------
(***************************************************************************)
(* poll.  An identity mismatch latches the account and answers at once.    *)
(* Otherwise one transaction records the heartbeat, accepts a result,      *)
(* expires what is due and then leases, redelivers or withholds a command. *)
(***************************************************************************)
Mismatch(a) ==
    /\ agent[a] = "PAIRED"
    /\ account' = IF account = "BLOCKED_UNCERTAIN" THEN account ELSE "ACCOUNT_MISMATCH"
    /\ UNCHANGED <<status, result, delivered, handed, agentVars, commandVars>>

\* Neither REPAIR_REQUIRED nor AGENT_SESSION_BUSY.
Heard(a, s) ==
    /\ agent[a] = "PAIRED"
    /\ account # "ACCOUNT_MISMATCH"
    /\ session[a] \in {None, s} \/ seen[a] >= BusyWindow

Heartbeat(a, s, r) ==
    /\ session' = [session EXCEPT ![a] = s]
    /\ seen' = [seen EXCEPT ![a] = 0]
    /\ report' = [report EXCEPT ![a] = r]
    /\ agent' = agent

Online(w) == [w EXCEPT !.account = IF @ = "BLOCKED_UNCERTAIN" THEN @ ELSE "ONLINE"]

\* Mutations of Acceptable: the result of a command that expired is refused, or
\* a stored result does not bar a different one.
AcceptableInTime(a, m) ==
    /\ owner[m.command] = a
    /\ \/ result[m.command] = m.status
       \/ result[m.command] = NoResult /\ status[m.command] = "LEASED"
AcceptableAgain(a, m) ==
    /\ owner[m.command] = a
    /\ status[m.command] \in {"LEASED", "UNCERTAIN", "EXPIRED"}
    /\ delivered[m.command] # None

\* Neither COMMAND_NOT_FOUND, RESULT_CONFLICT nor COMMAND_NOT_LEASED.
Acceptable(a, m) ==
    /\ owner[m.command] = a
    /\ \/ result[m.command] = m.status
       \/ /\ result[m.command] = NoResult
          /\ status[m.command] \in {"LEASED", "UNCERTAIN", "EXPIRED"}
          /\ delivered[m.command] # None

\* The status a first result gives its command.
Settled(m) ==
    IF Executing(m.command) THEN m.status
    ELSE IF ttl[m.command] = 0 THEN "EXPIRED"
    ELSE IF m.status = "SUCCEEDED" THEN "AWAITING_CONFIRMATION"
    ELSE m.status

\* Mutation of SettledAccount: the late result of a preview lifts the block.
SettledByPreview(w, m) ==
    IF Executing(m.command) /\ m.status = "UNCERTAIN" THEN "BLOCKED_UNCERTAIN"
    ELSE IF w.account = "BLOCKED_UNCERTAIN" THEN "ONLINE"
    ELSE w.account

\* The account after it: an execution may raise the block, and a result that
\* completes its command lifts it.
SettledAccount(w, m) ==
    IF Executing(m.command) /\ m.status = "UNCERTAIN" THEN "BLOCKED_UNCERTAIN"
    ELSE IF Settled(m) \notin {"EXPIRED", "AWAITING_CONFIRMATION"}
            /\ w.account = "BLOCKED_UNCERTAIN" THEN "ONLINE"
    ELSE w.account

Accept(w, m) == [account |-> SettledAccount(w, m),
                 status  |-> [w.status EXCEPT ![m.command] = Settled(m)]]

\* accept_result inside poll: a repeated result is acknowledged and ignored.
Receive(w, m) ==
    IF m = NoSubmission \/ result[m.command] # NoResult THEN w ELSE Accept(w, m)

\* The oldest command waiting for this agent, as a set of at most one.
Waiting(w, a) ==
    LET mine == {c \in Ids : owner[c] = a /\ w.status[c] \in Pending}
    IN  {c \in mine : \A d \in mine : c <= d}

\* Mutation of Permitted: the toggle counts when the human confirms, not here.
PermittedIfConnected(c, r) == r # "down"

\* TERMINAL_UNAVAILABLE and EXECUTION_DISABLED withhold a command.
Permitted(c, r) == r # "down" /\ (Executing(c) => r = "live")

\* Mutation of Foreign: any session of the agent may take over a lease.
ForeignNever(w, c, s) == FALSE

\* A leased execution stays with the session it was first delivered to.
Foreign(w, c, s) == w.status[c] = "LEASED" /\ Executing(c) /\ delivered[c] # s

\* The history of a delivery.
Hand(c, s) ==
    handed' = IF Executing(c) THEN [handed EXCEPT ![c] = @ \cup {s}] ELSE handed

Withhold(w, a, r) ==
    /\ w.account = "BLOCKED_UNCERTAIN" \/ \A c \in Waiting(w, a) : ~Permitted(c, r)
    /\ Write(w)
    /\ UNCHANGED <<delivered, handed>>

Disown(w, c, s) ==
    /\ Foreign(w, c, s)
    /\ Write([account |-> "BLOCKED_UNCERTAIN",
              status  |-> [w.status EXCEPT ![c] = "UNCERTAIN"]])
    /\ UNCHANGED <<delivered, handed>>

Lease(w, c, s) ==
    /\ w.status[c] = "PENDING"
    /\ Write([w EXCEPT !.status[c] = "LEASED"])
    /\ delivered' = [delivered EXCEPT ![c] = s]
    /\ Hand(c, s)

Redeliver(w, c, s) ==
    /\ w.status[c] = "LEASED"
    /\ ~Foreign(w, c, s)
    /\ Write(w)
    /\ delivered' = delivered
    /\ Hand(c, s)

Dispatch(w, a, s, r) ==
    \/ Withhold(w, a, r)
    \/ /\ w.account # "BLOCKED_UNCERTAIN"
       /\ \E c \in Waiting(w, a) :
            /\ Permitted(c, r)
            /\ Disown(w, c, s) \/ Lease(w, c, s) \/ Redeliver(w, c, s)

Poll(a, s, r, m) ==
    /\ Heard(a, s)
    /\ m # NoSubmission => Acceptable(a, m)
    /\ Heartbeat(a, s, r)
    /\ result' = IF m = NoSubmission THEN result
                 ELSE [result EXCEPT ![m.command] = m.status]
    /\ Dispatch(Expire(Receive(Online(Rows), m)), a, s, r)
    /\ UNCHANGED commandVars

-----------------------------------------------------------------------------
\* Mutation of Kept: a leased execution is withdrawn like any other command.
KeptIfUncertain(w) == {c \in Active(w) : Executing(c) /\ w.status[c] = "UNCERTAIN"}

\* revoke: a delivered execution cannot be recalled, so it stays, uncertain.
Kept(w) == {c \in Active(w) : Executing(c) /\ w.status[c] \in {"LEASED", "UNCERTAIN"}}

\* Mutation of Withdrawn: a preview that waits for the human survives.
WithdrawnPending(w) == {c \in Active(w) : w.status[c] \in Pending} \ Kept(w)

Withdrawn(w) == Active(w) \ Kept(w)

Revoked(w) ==
    [account |-> IF Kept(w) = {} THEN w.account ELSE "BLOCKED_UNCERTAIN",
     status  |-> [c \in Ids |-> IF c \in Kept(w) THEN "UNCERTAIN"
                                ELSE IF c \in Withdrawn(w) THEN "CANCELLED"
                                ELSE w.status[c]]]

Revoke(a) ==
    /\ agent[a] = "PAIRED"
    /\ agent' = [agent EXCEPT ![a] = "REVOKED"]
    /\ Write(Revoked(Expire(Rows)))
    /\ UNCHANGED <<result, delivered, handed, session, seen, report, commandVars>>

\* sweep_once, for an account it selects.
Sweep ==
    /\ \E c \in Ids : Due(Rows, c)
    /\ Write(Expire(Rows))
    /\ UNCHANGED <<result, delivered, handed, agentVars, commandVars>>

\* tools/reconcile.py, run by an operator with evidence from the broker.
Reconcile(c) ==
    LET w == Expire(Rows)
    IN  /\ w.status[c] = "UNCERTAIN"
        /\ Write([account |-> "OFFLINE", status |-> [w.status EXCEPT ![c] = "CANCELLED"]])
        /\ UNCHANGED <<result, delivered, handed, agentVars, commandVars>>

Tick ==
    /\ ttl' = [c \in Ids |-> IF ttl[c] = 0 THEN 0 ELSE ttl[c] - 1]
    /\ seen' = [a \in Agents |-> IF seen[a] < Stale THEN seen[a] + 1 ELSE Stale]
    /\ UNCHANGED <<account, status, result, delivered, handed, agent, session, report,
                   created, kind, owner, source>>

-----------------------------------------------------------------------------
\* The steps in which no poll carries another login, server or installation.
Matching ==
    \/ \E a \in Agents, s \in Sessions : Pair(a, s)
    \/ \E a \in Agents : RequestPreview(a)
    \/ \E p \in Ids, a \in Agents : Confirm(p, a)
    \/ \E p \in Ids : Cancel(p)
    \/ \E a \in Agents, s \in Sessions, r \in Reports, m \in Submissions : Poll(a, s, r, m)
    \/ \E a \in Agents : Revoke(a)
    \/ Sweep
    \/ \E c \in Ids : Reconcile(c)
    \/ Tick

Next == Matching \/ \E a \in Agents : Mismatch(a)

Spec == Init /\ [][Next]_vars
-----------------------------------------------------------------------------
(***************************************************************************)
(* Properties.                                                             *)
(***************************************************************************)

\* Every variable has the type of its column (models.py).
TypeOK ==
    /\ account \in AccountStatus
    /\ agent \in [Agents -> {"UNPAIRED", "PAIRED", "REVOKED"}]
    /\ session \in [Agents -> Sessions \cup {None}]
    /\ seen \in [Agents -> 0..Stale]
    /\ report \in [Agents -> Reports]
    /\ created \in 0..MaxCommands
    /\ kind \in [Ids -> Kinds]
    /\ owner \in [Ids -> Agents \cup {None}]
    /\ source \in [Ids -> 0..MaxCommands]
    /\ status \in [Ids -> CommandStatus]
    /\ ttl \in [Ids -> 0..Ttl]
    /\ delivered \in [Ids -> Sessions \cup {None}]
    /\ result \in [Ids -> Outcomes \cup {NoResult}]
    /\ handed \in [Ids -> SUBSET Sessions]

\* The account is blocked exactly while one of its executions is unresolved:
\* no order of polls, expiries, revocations, re-pairings, late results and
\* reconciliations loses the block or leaves one behind.
BlockedIffUnresolved ==
    account = "BLOCKED_UNCERTAIN"
        <=> \E c \in Ids : Executing(c) /\ status[c] = "UNCERTAIN"

\* One operation at a time: the application keeps the promise of the partial
\* unique index one_inflight_per_account by itself.
OneInFlight == \A c, d \in Active(Rows) : c = d

\* An execution is only ever sent to one session, whatever polls the agent's
\* credential sends after a restart or from a second terminal.
OneSessionPerExecution == \A c \in Ids : Executing(c) => handed[c] \subseteq {delivered[c]}

\* Every execution stands on its own preview: one that this agent answered
\* with SUCCEEDED and that no other execution was confirmed from.
ConfirmedOnce ==
    \A c \in 1..created : Executing(c) =>
        /\ source[c] \in 1..(c - 1)
        /\ kind[source[c]] = "PREVIEW"
        /\ status[source[c]] = "SUCCEEDED"
        /\ result[source[c]] = "SUCCEEDED"
        /\ owner[source[c]] = owner[c]
        /\ \A d \in 1..created : source[d] = source[c] => d = c

\* Work in progress belongs to the agent that is paired now.  Only an
\* unresolved execution outlives the agent that it was delivered to.
NoOrphan ==
    \A c \in Active(Rows) :
        agent[owner[c]] = "PAIRED" \/ (Executing(c) /\ status[c] = "UNCERTAIN")

\* An execution that was sent to a terminal stays outstanding until its own
\* first result completes it or an operator reconciles it; an explicit
\* UNCERTAIN result leaves it to the operator alone.
Outstanding(c) == Executing(c) /\ status[c] \in {"LEASED", "UNCERTAIN"}
ResolvedOnlyByEvidence ==
    [][\A c \in Ids : Outstanding(c) =>
        \/ Outstanding(c)'
        \/ result[c] = NoResult /\ status'[c] = result'[c] /\ result'[c] # "UNCERTAIN"
        \/ status'[c] = "CANCELLED" /\ account' = "OFFLINE" /\ UNCHANGED <<result, agent>>]_vars

\* An execution reaches a session only while it is alive, only on an account
\* that is neither latched nor blocked, only through the agent that it was
\* created for while that agent is paired, and only in answer to a poll that
\* itself reports a connected terminal with execution enabled: what an earlier
\* heartbeat said, on which the human confirmed, does not count any more.
SentInTime ==
    [][\A c \in Ids : handed'[c] # handed[c] =>
        ttl[c] > 0 /\ status'[c] = "LEASED" /\ agent[owner[c]] = "PAIRED"
                   /\ account' = "ONLINE"
                   /\ report'[owner[c]] = "live" /\ seen'[owner[c]] = 0]_vars

\* Once a command is over, or its result is stored, that never changes: no
\* duplicate, conflicting or late submission reopens it.
Over(c) == status[c] \in Terminal
Final ==
    [][\A c \in Ids : /\ Over(c) => status'[c] = status[c]
                      /\ result[c] # NoResult => result'[c] = result[c]]_vars

\* sweep_loop runs for as long as the service does, and time passes.
Fairness == WF_vars(Tick) /\ WF_vars(Sweep)
FairSpec == Spec /\ Fairness

\* No command waits for ever: whatever the agent and the human do or omit,
\* each one completes or becomes an unresolved execution, because no retry
\* extends its deadline.
Waits(c) == status[c] \in Pending \cup {"AWAITING_CONFIRMATION"}
NothingWaitsForever == \A c \in Ids : Waits(c) ~> ~Waits(c)

-----------------------------------------------------------------------------
(***************************************************************************)
(* The inductive invariant.  Its parts are stated of any Rows w and any    *)
(* table res of results, because a handler must re-establish them after    *)
(* each of its steps: the heartbeat, the result, the expiry, the dispatch. *)
(***************************************************************************)
BlockMatches(w) ==
    w.account = "BLOCKED_UNCERTAIN"
        <=> \E c \in Ids : Executing(c) /\ w.status[c] = "UNCERTAIN"

Single(w) == \A c, d \in Active(w) : c = d

\* What the status of a command says of its lease, its deadline and its result.
Lifecycle(w, res) ==
    \A c \in Ids :
        /\ w.status[c] = "NEW" <=> c > created
        /\ w.status[c] \in {"NEW", "PENDING"} => delivered[c] = None /\ res[c] = NoResult
        /\ w.status[c] = "LEASED" => delivered[c] # None /\ res[c] = NoResult
        /\ w.status[c] = "AWAITING_CONFIRMATION" => ~Executing(c) /\ res[c] = "SUCCEEDED"
        /\ w.status[c] = "EXPIRED" => ttl[c] = 0 /\ (Executing(c) => delivered[c] = None)
        /\ w.status[c] = "UNCERTAIN" => IF Executing(c) THEN delivered[c] # None
                                                        ELSE res[c] = "UNCERTAIN"

\* A stored result is the status of its execution, unless an operator has
\* closed an execution whose result was UNCERTAIN.
ResultKept(w, res) ==
    \A c \in Ids : Executing(c) /\ res[c] # NoResult =>
        w.status[c] = res[c] \/ (res[c] = "UNCERTAIN" /\ w.status[c] = "CANCELLED")

Owned(w) ==
    \A c \in Active(w) :
        /\ owner[c] \in Agents
        /\ agent[owner[c]] = "PAIRED" \/ (Executing(c) /\ w.status[c] = "UNCERTAIN")

Consistent(w, res) ==
    BlockMatches(w) /\ Single(w) /\ Lifecycle(w, res) /\ ResultKept(w, res) /\ Owned(w)

\* ConfirmedOnce, with what it needs of the ids that are not used yet.
Provenance ==
    /\ \A c \in Ids : Executing(c) <=> source[c] # 0
    /\ \A c \in Ids : Executing(c) =>
        /\ c <= created
        /\ source[c] \in 1..(c - 1)
        /\ ~Executing(source[c])
        /\ status[source[c]] = "SUCCEEDED"
        /\ result[source[c]] = "SUCCEEDED"
        /\ owner[source[c]] = owner[c]
        /\ \A d \in Ids : source[d] = source[c] => d = c

IInv ==
    /\ TypeOK
    /\ Consistent(Rows, result)
    /\ Provenance
    /\ \A c \in Ids : handed[c] \subseteq {delivered[c]}
=============================================================================
