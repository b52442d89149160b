# Verification of the MT5 risk agent

TLA+ models of the backend (`src/backend/app`) and of the expert advisor
(`src/mt5`) that together let a human protect or reduce the positions of one
MetaTrader 5 account from Telegram, the TLC configurations that check them on
small instances, and TLAPS proofs of the properties that matter most for every
instance.

The one thing the system must never do is to lose sight of a broker request:
run a close twice, take new work while an old close may still be running, or
forget what became of one. Most of what follows is about that.

## 1. Inventory

| Part | State it keeps | Operations | Modules |
|---|---|---|---|
| Command queue of an account (`service.py`, `maintenance.py`, `tools/reconcile.py`) | `trading_accounts.status`, agents, commands, results | pair, request_preview, confirm, cancel, poll (heartbeat, accept_result, expire, lease, redeliver), revoke, the sweeper, the operator's reconciliation | `CommandQueue`, `Interlock`, `CommandQueueRefinement`, `MismatchLatch` |
| Expert advisor (`BreakEvenAgent.mq5`, `CredentialStore.mqh`, `Protocol.mqh`, `HttpClient.mqh`) | `journal.json`, `recent.txt`, the pending result, the flag `Fatal` | OnInit with recovery, OnTimer: poll, acknowledge, evaluate, journal | `EaAgent` |
| The two together | polls on their way | a poll answered, refused, lost, rolled back after its response, or processed after its caller gave up | `RiskSystem` |
| Notification outbox (`telegram.py`) | `telegram_outbox`, row locks | notify, deliver_once, outbox_loop | `Outbox` |
| Broker executor (`Executor.mqh`, `AccountIdentity.mqh`) | none of its own: it reads the terminal | ExecuteItem, BuildResult | `Executor`; the deadline and the journal around it in `EaAgent` |
| Users, pairing codes, account ownership (`service.py`, `security.py`) | users, `pairing_codes`, `trading_accounts.user_id`, agents | /link, pair, /use, select, revoke | `Onboarding`; what pairing means for the queue in `CommandQueue` |
| Telegram webhook (`telegram.py`) | `telegram_updates` | handle_update: deduplicate, lock the human, savepoint, reply | `Onboarding` |
| Planner (`Planner.mqh`), reference planner (`domain.py`) | none | close plan, breakeven plan | `Planner`, `ReferencePlanner` |
| Rate limiter (`security.py`) | `rate_buckets` | rate_limit, the deletion of idle rows | `RateLimit` |
| Requests inside one backend process (`main.py`, `db.py`) | the event loop, worker threads, the connection pool | agent_auth, limit, the handlers, deliver_once | `Requests` |
| Protocol simulator (`tools/fake_agent.py`, `domain.py`) | the account it simulates | simulate_execute, the status of a result | `Simulator` |
| Retention (`maintenance.py`) | rows that expire | sweep_once | commands in `CommandQueue`, codes and updates in `Onboarding`, rate rows in `RateLimit`; web sessions are left out |
| Web session and dashboard API (`main.py`) | `web_sessions`; views | history, select, revoke, login, mappings | select and revoke in `Onboarding`; the rest is left out |
| Dashboard, migrations, deployment | none, or none that changes while the system runs | | see `PROJECT.json` for why not |

How they interact. The human talks to the webhook and to the dashboard, which
call the queue's operations inside one database transaction. Each of these
operations, and every poll, first locks the account row (`SELECT ... FOR
UPDATE`). The expert advisor polls once per second over HTTPS; a poll carries
the result that still waits for its acknowledgement, and its response at most
one command. Every operation writes notifications into the outbox in its own
transaction, and a worker sends them. The sweeper expires what nobody polls for.

What is hard:

* a result may be resent, late, or conflict with a stored one; a lease may
  expire, be revoked, or meet another session while the EA is executing;
* one column of the account row holds two latches (mismatch, uncertainty) and
  the online flag;
* the terminal may stop between any two writes of the EA; a write that is
  reported as failed may have happened, or have left a part of the file or
  nothing of it; and a file that cannot be read is taken for none;
* a poll may be given up by the EA and processed later, even after a restart;
* a transaction is committed after its response has gone out, so the EA may act
  on an answer to a poll that, for the server, never happened;
* the EA's local deadline and the server's must stand in the right order;
* the trader and the market change the account between any two reads of the
  executor, and the broker's answer may be lost although the request is filled;
* a worker may stop between Telegram's acceptance and the commit;
* two EAs may pair with one code, one account or one installation at once, an
  update may be repeated while it is being handled, and pairings, updates, the
  dashboard and the sweeper take locks that others hold;
* a request may need a second connection, and the outbox worker asks for one on
  the event loop that the others need to give theirs back;
* a fixed window begins anew whenever its row meets another window, an earlier
  one too.

Every hazard, at the line where it bites and with the properties that would
catch it, is in `PROJECT.json` under `hazards`.

## 2. Modules

### CommandQueue

One account. A handler holds the account lock from its first statement to its
commit, so a handler is one action; a handler that answers with an error rolls
back, so it is an action that is not enabled. (In the webhook the savepoint is
rolled back instead and a notification is kept, which this module does not see.)
A handler transforms the rows step by step, and the model does too: `Rows` is
the account status with the status of every command, and `Expire`, `Online`,
`Receive`, `Dispatch`, `Revoked` are operators from `Rows` to `Rows`, named for
the functions they stand for. `Poll` composes them in the order of the code:
session check, heartbeat, result, expiry, delivery.

| Variable | Column |
|---|---|
| `account` | `trading_accounts.status` |
| `agent`, `session`, `seen`, `report` | `agents.revoked_at`, `session_id`, age of `last_seen_at`, `state` |
| `kind`, `owner`, `source`, `status`, `ttl` | `commands.type`, `agent_id`, the preview in `idempotency_key`, `status`, time until `expires_at` |
| `delivered` | `commands.delivery_session_id`, set together with `leased_at` |
| `result` | `command_results.overall_status` |
| `handed` | history: the sessions an execution was sent to |

Time is relative and moves in `Tick`. What a payload or a result says beyond
its kind and status is left out; two results of one command differ here only if
their status differs. `revoke` acts on *the* active command of the account; the
model acts on all, which is the same because of `OneInFlight`.

### Interlock, CommandQueueRefinement

`Interlock` is what the backend promises of executions: sending one opens it,
none other is sent until it is settled, a block exists only from the moment of
doubt to the settlement. `CommandQueueRefinement` gives the mapping
(`sent`: executions ever delivered, `open`: leased or uncertain, `blocked`:
`BLOCKED_UNCERTAIN`).

### MismatchLatch

`CommandQueue` with a record of the agents that polled under another login,
server or installation. It carries two properties that the documentation states
and the code does not have (section 6).

### EaAgent

One installation. OnTimer cannot be interrupted but the terminal can stop, so it
is cut at each call that leaves a trace: the poll, every write to disk, the
broker request. `phase` says where it is: `idle`, `polling`, `acknowledged`
(the acknowledgement was read), `remembered` (the id is in `recent.txt`),
`responded` (the journal entry is gone or was not touched; a command may be
there), `started` (the STARTED entry is on disk), `fatal`, `down`. The
server is unconstrained: a response may acknowledge anything and carry any
command.

The disk is unreliable in the ways that the code meets. `SaveFileText` refuses
only to write nothing, moves the new file over the old one, and reads it back
afterwards. A write that it reports as failed (`Save`, `Remember`,
`RecoveryFails`) may therefore have been left undone or done, or have left a part
of the text or an empty file: `Torn` is a journal that does not parse, `Empty` one
that is taken for none, and of `recent.txt` any of the ids may be gone. `OnInit`
ignores that a file could not be read: after `Overlook` the EA knows of no
journal, and `ComeUp` reads any part of `recent.txt`, so `known` (the variable
RecentIDs) is a part of `recent`. The history variable `lapsed` collects the
commands whose record the EA lost in one of these ways, and the properties say
what holds of all others.

What is taken for granted: a file that was read back with the right content
keeps it (`FileFlush` came before; an operating system that loses its write cache
with the power is outside the model). A torn journal keeps the EA down, as the
code asks for ("Reconcile before restarting"); that an operator deletes it is not
an action of its own, because it has the effect of a start that cannot read it.
A `FileDelete` that fails leaves the file. `recent` is a set; the code keeps the
newest 128 ids, and the models never have that many commands (section 7).

Serving a poll and reading its response are one action of `RiskSystem`. That
loses nothing: reading is local to the EA, and the response's travel time is
time before `Begin`, against a deadline that counts from before the request.

### RiskSystem

`EaAgent` and `CommandQueue`, instantiated on shared variables, plus `late`, the
polls that the EA has given up. `Serve`, `ServeUncommitted`, `ServeUnheard`,
`Refuse`, `GiveUp` and `ServeLate` are the fates of a poll. A poll answered
AGENT_SESSION_BUSY or with an HTTP error is `Refuse`: the EA's state does not tell
them apart.

`ServeUncommitted` is the answer to a poll whose transaction is then lost. The
dependency `session` (db.py) commits when FastAPI closes it, which is after the
response was sent; when the server or the database stops in between, the rows
stay as they were, and the EA has its command and its acknowledgement. In all
other cases commit and response are one action. Nobody can tell them apart: the
handler holds the lock of the account row until it commits, so every other handler
of the account, and the sweeper, sees the rows either before the poll or after its
end, and a response that is on its way meanwhile costs the EA time that its
deadline counts. `unleased` and `unstored` are histories: the commands that were
delivered and whose lease was lost, and the results that were acknowledged and
then lost.

The operator reconciles whenever `tools/reconcile.py` lets him, which is as soon
as the execution is uncertain, also before its deadline. A terminal that is
switched to another account is modelled in `CommandQueue` (`Mismatch`), not here.
`RInv`, at its end, is the inductive invariant of the composition (section 5).

### Outbox

The rows of the outbox and any number of workers. `deliver_once` is one
transaction that waits for Telegram, so it is cut there: `Send` takes and locks
a row, `Accepted` is Telegram's doing, `Done`, `Fail` and `Crash` end the
transaction. `Fail` after `Accepted` is a timeout that hides an acceptance. An
acceptance after the timeout has fired is not modelled.

### Planner, ReferencePlanner

The EA's planner and the one that the simulator uses, each translated from its
own source. Volumes and prices are integers: one unit is a fraction of a lot or
of a point, so volumes between two steps and entries between two ticks exist,
and the tolerances of 1e-9 in the code have nothing to absorb. What doubles
round differently from decimals is therefore not seen. Neither planner rounds the
target (volume times fraction), so the unit is taken small enough for every
fraction of a position to be a whole number (`CasesAssumption`: volumes are
multiples of `Parts`); the instance of the run counts in quarters of a step for
halves. The sort of the code is a strict order (rank, then ticket), so its result
is the sorted sequence, and its loops are folds over it; leaving a loop is a step
of the fold that adds nothing, which stays so for the rest because it depends on
the items alone. In `ReferencePlanner` the two loops are `closing` and
`protecting`, and `result` is the `Plan` that every return of the function builds.

### Executor

One evaluation: `MakePlan`, then for each item `ReadLive`, `Prepare` (quote,
limits, OrderCheck), `Reread`, `OrderSend`, the broker's answer and `Evidence`,
then `Report`. `account` is the truth at the broker; `seen` and `request` are
what the code holds in `live` and `request`. `Refuse` stands for every code
returned before a request was sent, among them a stale quote and a refusal of
OrderCheck, which may come at any time; `allowed` stands for deadline, bound
account and permissions. Between any two actions the trader may change a
position (`Meddle`) and the market or the permissions may move (`Move`). The
broker is external: it fills a request by one deal, rejects it for good, or
leaves the EA without an answer while `flight` may still be filled (`FilledLate`)
or dropped (`Lapse`). The terminal may show a position as it was before the deal.

With several deals for one request the code would attribute only the returned
one and report less than was closed; that is outside the model.

### Onboarding

Transactions that run at the same time, each cut at every row lock it takes.

| Variable | Column |
|---|---|
| `code`, `issuer` | `pairing_codes`: none, valid, used, lapsed (expired), old (for the sweeper) or deleted; `user_id` |
| `owner`, `bound`, `revoked`, `selected` | `trading_accounts.user_id`, `agents.account_id`, `agents.revoked_at`, `users.selected_account_id` |
| `stored` | `telegram_updates` |
| `says`, `outstanding` | Telegram: the text of each update, and which it still repeats |
| `tx`, `lock` | the transactions under way with what they have read, and who holds which row |
| `by`, `runs` | history: the code of each agent; how many transactions handled each update |

`tx[t].at` is what a transaction does next, and `Wanted` the row it waits for.
A row that does not exist yet is locked by its key: an insertion waits for the
uncommitted insertion of the same key, and fails when that commits. What a
transaction writes becomes visible when it commits, so the writes of `pair` are
in `CommitPair` and those of the webhook in `CommitUpdate`. `pair` is `Pair`,
`LockCode`, `LockUser`, `FindAccount`, `CreateAccount` (unless found),
`InsertAgent`, `CommitPair`; `handle_update` is `Deliver`, `StoreUpdate`,
`LockHuman`, then `Link`, `Use` or `Queue`, then `CommitUpdate`. `Abort` is every
error and the end of the process; `LoseUpdate` is a commit that fails after
Telegram had its answer. The dashboard's operations take one lock each and are
one action. A transaction of the sweeper takes the accounts nobody holds
(`SKIP LOCKED`) and then deletes. The partial unique index on active agents is
left out on purpose: `Rightful` shows that the locks alone keep it.

### RateLimit

One key of `rate_limit`. The window is computed before the request waits for the
row (`Ask`), and compared with the row under its lock (`Admit`, `Refuse`).
`StepBack` sets the clock back.

### Requests

What the requests of one process wait for. `Path` is the route of a request
through loop, threads and pool: FastAPI runs synchronous dependencies and handlers
in a thread pool, carries a request from one to the next on its loop, and closes
the session there. A session holds its connection from its first query on.
`second` is the point at which `agent_auth`, with its own connection in hand,
calls `limit`, which opens another. `deliver_once` is a coroutine around a
synchronous session: `blocking` is the loop standing still while the pool is
asked. Threads, loop and pool are external; `TimeOut` and `GiveUp` are the pool's
`pool_timeout`.

### Simulator

`simulate_execute` (a fold of `execute` over the items) and the status that `tick`
gives an execution, on top of `ReferencePlanner`. `SimulatorAgrees` compares both
with the EA's planner and executor.

### Induction

What the proofs need about data and the library's induction theorems cannot give
here, because those take an operator as a parameter: induction over numbers and
finite sets stated for a *set* of values, functions defined by recursion over the
subsets of a finite set, and from these what a sum over a set is when an element
is removed, changed or renamed, what a fold computes step by step (`Folding`,
`FoldLoop`), and that a strict order ranks a finite set (`Ranking`). Everything is
proved from the well-founded induction over finite subsets in the library, whose
one instance without such a parameter is enough. No model uses this module.

### MC modules

`MCFrontDoor` runs `Onboarding` and `RateLimit` side by side, `MCProcess` does so
with `Outbox` and `Requests`: the pairs share no state, so a behaviour is one of
either, and the variable `part` says which. `MCFrontDoor` extends both, so that
their assumptions are checked with the instance.
`MCExecutor` builds the cases of `Executor`: previews of some thirty thousand
accounts for the planner, executions on a few. `MCCommandQueue`, `MCEaAgent` and
`MCRiskSystem` add symmetry (agents, sessions
and ids are only compared for equality) and views. A view drops what no guard
can read again: the session and age of a revoked agent, the remaining time of a
command that is over, the session a preview went to. Runs of liveness use
neither.

## 3. Runs

| Run | What it asks | Bounds |
|---|---|---|
| `queue` | the queue's safety, the refinement of `Interlock` | 2 installations, 2 sessions, 3 commands (a preview, its execution, the next operation), deadline 2 ticks, session and online windows one tick (their defaults are equal) |
| `queue_live` | does any command wait for ever? | 1 installation, 2 sessions, 2 commands |
| `mismatch_latch`, `mismatch_repair` | two promises about the latch, refuted | 1 and 2 installations, 4 commands |
| `ea` | the EA's safety against any server and its disk | 2 commands, 3 starts, deadline 1 tick; any number of failed writes and reads |
| `system` | safety of the whole path | 2 starts, a preview and its execution, 1 late poll, deadline 2, 1 transaction lost after its response, failures of the disk that concern the execution (`Bounds`) |
| `system_live` | does a result always arrive? | 2 starts, 2 commands, deadline 1, no late poll, 1 transaction lost, no failure of the disk (`Undamaged`) |
| `lost_commit` | is what the EA cleaned up stored? Refuted | `RiskSystem` with 1 start |
| `executor` | the plan, its execution, and the simulator's | a step of 4 units, a minimum of 2 steps and a maximum of 4; previews: 2 or 3 positions of both sides, volumes of 0 to 5 steps with one between two steps and one below the minimum, entries, stops, halves and wholes; executions: 2 positions, 2 quotes, 2 changes by the trader, FOK, IOC and neither |
| `negative_volume` | does the server take the volumes of a preview? Refuted | 1 position below the minimum |
| `outbox` | duplicates, truth of the rows, back-off, age limit, progress; is every request answered? | 2 workers, 3 messages of which the second cannot be opened, lifetime 4, send 1, back-off up to 3, 1 lost transaction; 3 requests of any kind and a worker, 2 threads, 2 connections |
| `front_door` | who speaks for an account, repeated updates, deadlock among locks; the quota | 2 transactions at a time, 2 codes, 1 account, 2 installations, 2 humans, 3 updates in 2 inboxes; 2 requests at once, limit 2, window 2, idle after 5, clock up to 6 and set back once |

Why these bounds. A violation of the queue's properties needs at most one
operation in flight, its successor, and a second agent or session to interfere;
the third command is there so that late events of a first operation meet a
second one. The EA keeps one journal entry, so a second command and a third
start are enough for a stale entry, a stale id and an interrupted recovery to
meet. The deadline of two ticks leaves room for an event before, at and after
it. The positions of `executor` are few because items are handled one after
another: one that is uncertain and one after it are enough for them to meet. Its evaluation ends, so deadlock is not checked there. In `front_door`
two transactions are enough for every conflict over one row; a circle of three
is excluded by the proof. The first inbox has a human who pairs twice and sends a
command, the second two humans after one account. It runs out of updates, codes
and time, so deadlock is not checked there either. As many
connections as threads, and fewer of each than requests, are what lets everybody
wait for everybody in `outbox`; the clock of the limiter goes through four
windows, so that a row can become idle and be met again. The
theorems remove the bounds for the safety properties that section 5 lists.

The properties, by what they guard:

* `BlockedIffUnresolved`, `ResolvedOnlyByEvidence`, `Final`: the uncertainty
  block is exact, and only the execution's own first result or an operator
  settles it;
* `OneInFlight`, `ConfirmedOnce`, `SentInTime`, `OneSessionPerExecution`,
  `NoOrphan`: one operation at a time, each execution confirmed once from an
  answered preview, sent only in time, to one session, through its own agent;
* `NothingWaitsForever`: a deadline that no retry extends;
* `EvaluatedOnce`, `OnRecord`, `Truthful`, `ResultStands`: over any restarts the
  EA evaluates a command once, keeps every broker request on record and a result
  until it is acknowledged, and never claims to know what it does not, except for
  what a failed write or an unreadable file has taken from it;
* `InterlockHeld`: while the EA may still ask the broker, its deadline is not later
  than the server's, and the server holds the account for that execution, unless an
  operator has settled it too early or its lease was lost after the response (and
  then the execution waits on the server, or is being repeated after a second
  failure; the result of the first time can overtake the second only with a
  deadline of three ticks, one more than the run has);
* `Accounted`: what the broker was asked is with the server, blocked for, or
  settled by an operator; after a lost lease the EA still has it in its journal;
* `HandedOver`: what the EA retires is stored by the server, or its account is
  held all the same;
* `ExecutedOnce`: one failure never makes an execution run twice; a lost lease and
  a lost record of the EA together can;
* `ResultHonest`: the stored result is what the evaluation came to or UNCERTAIN;
* `ResultArrives`: a waiting result reaches the server, unless a transaction was
  lost: a result whose lease was lost is refused COMMAND_NOT_LEASED for as long as
  the EA sends it;
* `PlansAgree`, `WorstFirst`, `JustEnough`: the two planners come to the same
  plan, a close takes from each position the most that limits and target leave,
  the worst first, and a breakeven stops at the position that reaches the target;
* `ConfirmedIsOurs`, `StatusIsHonest`, `OneRequestOpen`, `WithinTarget`,
  `NeverLoosens`: the executor confirms what its own deals closed, its status
  stays true when requests are filled late, it never has two requests open or
  closes more than was asked, and it undoes nothing the trader did, except after
  its last read of the position, for which MT5 has no compare-and-swap
  (docs/remaining-risks.md names it);
* `DuplicatesExplained`, `RowsTellTheTruth`, `BackedOff`, `NeverStale`,
  `NothingStuck`: the outbox;
* `SimulatorAgrees`: the simulated broker does to an account what the EA's plan
  says, and its status is the one the EA would report;
* `Rightful`: every agent was paired with a code of its account's owner, a code
  pairs one agent, an account has one agent that is not revoked;
* `AppliedOnce`: an update is handled by at most one transaction, whatever is
  repeated or lost; by none if its transaction is lost after the answer;
* `NoCircularWait`: no transactions wait for each other in a circle;
* `WithinQuota`: what a window of the limiter admits, exactly as far as that is
  bounded (section 6);
* `Answered`: every request is answered, by an error if need be.

## 4. Fairness

* `Tick`: time passes.
* `Sweep` (weak): `sweep_loop` runs every two seconds, survives exceptions, and
  the row it skips because of a lock is found on a later round.
* `Ask`, `Local` (weak): the timer of a running EA fires, and OnTimer runs to
  its end.
* `Serve` (strong): polls may be lost any number of times but not all of them.
  `ResultArrives` also allows the EA to stop, to become fatal or to be revoked.
* `Turn` (weak, per worker): `outbox_loop` survives every exception but its own
  cancellation.
* `Advance` or `TimeOut` of a request (strong): the loop runs its callbacks in
  turn, threads are granted in the order they were asked for, a handler ends, and
  a wait for the pool ends with a connection or with `pool_timeout`. Strong,
  because a thread or a connection may be free only from time to time.
* `Send` or `GiveUp`, and `Sent` (weak): the same for the outbox worker, whose
  call to Telegram has a timeout.

No fairness is assumed of the human, the operator, Telegram's acceptance or the
return of a stopped terminal.

## 5. Proofs

Every safety invariant and action property that a run checks is also a theorem,
except for the four that are refuted. TLAPS checks them for every value of the
constants that satisfies the named assumptions, which TLC evaluates for the
instances: finite bounds are numbers, `None` is no agent, session, position or id,
deadlines are positive, outcomes are the four statuses (`NoneAssumption` and its
like); steps, ticks and limits of a symbol are what a symbol has
(`VolumeAssumption`, `PriceAssumption`, `PartsAssumption`); an account is finite
and its positions have their own tickets, and a command is one that `ReadCommand`
accepts (`CasesAssumption`); a quote is a pair of prices (`MarketAssumption`).

* `CommandQueueProofs`: `IInv` is invariant, and with it `TypeOK`,
  `BlockedIffUnresolved`, `OneInFlight`, `OneSessionPerExecution`,
  `ConfirmedOnce`, `NoOrphan`; the action properties `Final`,
  `ResolvedOnlyByEvidence`, `SentInTime`; and `Spec => ImplementsInterlock`.
  None of these is inductive alone: the block is exact only if a status always
  agrees with lease, deadline and result (`Lifecycle`, `ResultKept`) and there
  is one active command (`Single`). The parts are stated of any rows and
  results, because a handler re-establishes them after each of its steps; one
  lemma per step, composed in one lemma per action.
* `EaAgentProofs`: `TypeOK`, `EvaluatedOnce`, `OnRecord`, `Truthful`,
  `ResultStands`, whatever the server answers and whatever the disk does. The
  strengthening is that memory and disk agree outside an evaluation, but for what
  has lapsed (`MemoryMatchesDisk`), and that whatever was evaluated and has not
  lapsed is known to the journal or the recent ids (`Known`): a command can pass
  the replay check only when the EA has no journal entry or has overlooked it.
* `OutboxProofs`: `DuplicatesExplained` and `RowsTellTheTruth` for any number of
  workers. The strengthening is an exact balance: what Telegram accepted is
  lost, in the hands of the one worker that holds the row, or in the row. For
  `BackedOff` and `NeverStale` a second invariant (`TimeInvariance`) keeps the
  clocks: a row that is held is due and was young when it was taken, and its age
  with the wait before it pays for the back-offs of all its attempts, a sum that
  grows by one term with each attempt.
* `ExecutorProofs`, in four parts.

  *The planner.* Its loops are folds; `CloseLoop` and `BeLoop` turn each into a
  list of values, one per row, over which induction over numbers works. From it
  come `PlanSound` (every position at most once, volumes that fit the target and
  the limits), `CloseBest` (each row gets the most that a deal may close of it
  within what the rows before it left of the target) and `BeEnough` (the nearest
  rows that can be protected, and just as many as the target needs). The partial
  sums of the loop are sums over the positions that come before a row, because the
  rows are ranked by a strict order. While a preview is made nothing changes
  (`StillShown`), so that its plan is still the plan of what is there; that gives
  `WorstFirst` and `JustEnough`.

  *The execution.* `OneRequestOpen`, and that a result other than UNCERTAIN leaves
  no request open (`NothingLeftOpen`), rest on an invariant of their own: an open
  request is being waited for or has ended uncertain, and nothing is executed
  after an uncertain item. The other properties are not inductive, and `IInv` ties
  the histories to the plan item by item: what is open belongs to an item that was
  sent and of which nothing was closed (`Open`), what was closed is part of the
  volume of such an item (`Shares`, `Answer`), a stop that was set is confirmed, in
  doubt or at work (`Moves`), and a request was safe for the position as it was
  read, and still is if the trader did not touch it (`AtWork`). With it
  `TypeOK`, `ConfirmedIsOurs`, `WithinTarget`, `NeverLoosens` (`TypeCorrect`,
  `Confirms`, `Targets`, `TightensOnly`) and `StatusIsHonest` (`Honest`): the sum
  of what the results confirm is the sum of what was closed, which is within what
  was planned, because each ticket is planned for once.

  *The two planners.* Rounding, stops, codes and the order of the rows are the same
  in both (`RoundedUp`, `SameStop`, `SameStopCode`, `SameOrder`: a sort by key and
  a selection by rank give the same list). The two loops then keep abreast row by
  row (`CloseAbreast`, `BeLevel`): what remains is the target less what the EA
  planned, and the items match. Those of a close may part in one place: the EA
  stops when less than a step remains, the reference goes on and lists positions
  that the limits exclude; from there neither plans anything more.
  `PlannersAgree` states it for any positions, quote and command, `SamePlans` of
  the executor's previews.

  *The simulator.* What it has done after some items is a set of positions, each
  as it was or as its own order left it (`DoneSoFar`); since no two orders are of
  one position and each can be done as it is (`AllDoable`, which the plan
  guarantees), every step confirms (`OneOrder`). `SimulatorDoes` is the outcome, and
  `SameOutcome` adds the status: an execution's status depends on what was confirmed
  and is protected, and that the simulator's shorter rule gives the same needs
  that something is asked for whenever something is there (`Asked`), which is where
  the unrounded target matters.
* `OnboardingProofs`: `Rightful`, `AppliedOnce` and `NoCircularWait` for any
  number of transactions. The strengthening is that what a transaction has read
  under a lock that it still holds is true: its code is valid and its issuer the
  human it works for (`Knows`), the locks it holds are those its stage has earned
  (`Earned`), its record fits its stage (`Shaped`), and an update that was handled
  without being stored is not repeated (`Counted`). `NoDeadlock` then follows from
  the order of the stages: update, code, human, account or its key, installation;
  in any set of transactions the one that is furthest waits for nobody else in
  the set. The sweeper holds accounts and then waits for old codes, which no
  transaction holds.
* `RiskSystemProofs`: `InterlockHeld`, `Accounted`, `HandedOver`, `ExecutedOnce`
  and `ResultHonest` for any number of starts, commands, lost polls, polls on
  their way, transactions lost after their response and failures of the EA's disk;
  and that the composition is a `CommandQueue` and an `EaAgent`
  (`Spec => Q!Spec`, `Spec => E!Spec`), so that whatever is proved of one of them
  holds in it. It uses the invariants and the lemmas of the two by name,
  instantiated with the constants of the composition. What is added to them
  (`RInv`) relates three places. A submission, waiting, on its way or stored, is
  of an evaluation that is over, and of an execution it says what an evaluation of
  it ended with, or UNCERTAIN (`Vouched`); that stays true of a late poll because
  outcomes are only added. An execution that the EA has received and whose lease
  was not lost was leased to it, in this very start if it is still at hand
  (`Issued`), and what was leased never gets out of sight (`Sighted`): it has a
  result, is outstanding, or was settled by the operator. What the EA retires has
  a result or was acknowledged in a lost transaction (`Retires`). `ExecutedOnce`
  needs that a lease of an execution stays with its session, so that a second
  delivery can only reach the start of the first one, and that this start still
  remembers what it evaluated (`Remembered`), whatever became of its files.
* `RateLimitProofs`: `WithinQuota` for any limit, length of a window and number
  of requests, if a row is kept for at least two windows and as many ticks as the
  clock may be behind (`Parameters`; 86400 seconds against 600, and the instance
  of the run is the tight one). What a window admitted is bounded by what its row
  counts of it (`Used`), and by a limit for each setback; the rest of the
  invariant says that a row that is deleted counts nothing that a waiting request
  could still ask for, since no request waits for longer than a window
  (`AskedInTime`, `AdmittedInTime`).

Only model-checked: liveness (`NothingWaitsForever`, `ResultArrives`,
`NothingStuck`, `Answered`), which the provers do not reach, and the modules
without theorems: `Requests`, whose one property is `Answered`, and `MismatchLatch`,
whose properties are refuted.

## 6. Where code and documentation disagree

* `mismatch_latch`: an execution that expires while the mismatch latch is set
  overwrites it with the uncertainty block, and the late result then sets the
  account ONLINE. The agent that mismatched is served again.
* `mismatch_repair`: revoking and pairing again does not lift the latch, because
  nothing resets the account status.
* `lost_commit`: the database session commits after the response was sent, so an
  acknowledgement can precede a commit that never happens. The EA then deletes
  its journal entry, and the result is lost; the account stays protected by the
  block that follows the lease (`HandedOver`).
* `negative_volume`: a close that takes less than all of a position below the
  symbol's minimum has a negative volume in the preview, which the server's
  schema refuses with the whole poll; the EA sends the same result for ever.

Things the models show that no document denies and that are therefore not
findings. The order of `lost_commit` also loses a lease: the EA executes what the
server holds as PENDING, the server lets it expire without a block and takes new
work, and refuses the result for ever (the exceptions of `InterlockHeld`,
`Accounted` and `ResultArrives`; each property fails without its exception). A
journal or a `recent.txt` that a failed write has emptied or cut, or that cannot
be read, makes the EA forget (the exceptions of `EvaluatedOnce`, `OnRecord` and
`ResultStands`). `tools/reconcile.py` settles an execution whose deadline has not
passed, which the EA may still be executing. A window of the limiter can admit its
quota more than once when its row goes back: after the clock was set back, or when
a request that computed its window before a boundary gets the row after one that
came later. (docs/agent-protocol.md:13 limits pairing to ten attempts in ten
minutes; a fixed window means ten between two multiples of ten minutes.) And the
outbox worker asks for its connection on the event loop, which therefore may stand
still for as long as `pool_timeout` when the pool is exhausted; `Answered` holds only because that wait ends.

## 7. Not modelled

* The contents of messages, plans and results; authentication (a request in the
  models is one that authenticated, or is refused).
* Rounding of doubles, the limit of 128 positions, and a contract that changes
  during an execution.
* Login, symbol mappings and the views of the dashboard: they read, or write a row
  of their own, and nothing waits for them. `history` (main.py) reads its rows
  without a lock and the clock afterwards, once per row, so that a row which has
  been leased or confirmed meanwhile can be shown as expired. It promises nothing
  beyond its glance, no handler reads what it shows, and the next glance corrects
  it.
* Web sessions and their deletion; the single steps of the sweeper's DELETE
  statements and the order in which two sweepers would take the rows (one backend
  runs one sweeper).
* Updates that are no private message: they leave nothing but their id.
* The cut of `recent.txt` to its newest 128 ids. An id is 36 characters and a
  separator; 129 of them are 37 characters too many, and the code drops the first
  37, one id with its separator. The models keep every id. What an id that was
  dropped would be needed for is to reject a replay, which the server sends only
  after its lease was lost behind the response: `ExecutedOnce`, for a command whose
  record the EA has lost in another way.
* Dashboard, deployment, migrations. A database that loses committed transactions
  and copies of a terminal's disk are outside the design.

## 8. What could follow

1. Pairing and the queue in one model, where they now meet only in the account
   lock that both respect.
2. Several deals for one request, which the executor does not attribute.
