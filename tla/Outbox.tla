------------------------------- MODULE Outbox -------------------------------
(***************************************************************************)
(* The notification outbox (backend/app/telegram.py): rows of              *)
(* telegram_outbox that the workers of all API processes deliver.          *)
(*                                                                         *)
(* deliver_once is one transaction, and it waits for Telegram while it     *)
(* holds the lock of its row.  It is cut where it waits: a row is taken,   *)
(* Telegram accepts the message or does not, the transaction commits or is *)
(* lost.  Telegram itself is only its acceptance of a message.             *)
(***************************************************************************)
EXTENDS Naturals, Functions

CONSTANTS
    Workers,      \* the loops outbox_loop, one in every API process
    MaxMessages,  \* bound: notifications
    Unreadable,   \* the sealed ones that the current bot token does not open
    Lifetime,     \* 600 seconds, in ticks
    SendTime,     \* request_timeout, in ticks
    BackoffCap,   \* the 60 seconds between two attempts, in ticks
    MaxCrashes    \* bound: transactions lost

ASSUME MaxMessagesAssumption == MaxMessages \in Nat
ASSUME LifetimeAssumption == Lifetime \in Nat
ASSUME SendTimeAssumption == SendTime \in Nat \ {0}
ASSUME BackoffCapAssumption == BackoffCap \in Nat \ {0}
ASSUME MaxCrashesAssumption == MaxCrashes \in Nat

\* Messages are numbered in the order of created_at; 0 is no message.
Ids == 1..MaxMessages

\* An age at which nothing is sent any more.
Old == Lifetime + SendTime + 1

VARIABLES
    stage,     \* sent_at and body: "new", "queued", "sent" or "expired"
    age,       \* the time since created_at, up to Old
    attempts,  \* telegram_outbox.attempts
    wait,      \* what is left until next_attempt
    holds,     \* the row whose lock a worker holds
    step,      \* where the worker is in deliver_once
    elapsed,   \* how long its send has taken
    received,  \* history: how often Telegram has accepted a message
    lost,      \* history: how often that acceptance did not reach the row
    crashes    \* bound

rowVars == <<stage, age, attempts, wait>>
workerVars == <<holds, step, elapsed>>
vars == <<rowVars, workerVars, received, lost, crashes>>

Init ==
    /\ stage = [m \in Ids |-> "new"]
    /\ age = [m \in Ids |-> 0]
    /\ attempts = [m \in Ids |-> 0]
    /\ wait = [m \in Ids |-> 0]
    /\ holds = [w \in Workers |-> 0]
    /\ step = [w \in Workers |-> "idle"]
    /\ elapsed = [w \in Workers |-> 0]
    /\ received = [m \in Ids |-> 0]
    /\ lost = [m \in Ids |-> 0]
    /\ crashes = 0

-----------------------------------------------------------------------------
\* notify, when its transaction commits.
Enqueue(m) ==
    /\ stage[m] = "new"
    /\ \A n \in 1..(m - 1) : stage[n] # "new"
    /\ stage' = [stage EXCEPT ![m] = "queued"]
    /\ UNCHANGED <<age, attempts, wait, workerVars, received, lost, crashes>>

\* Mutation of Free: the row is read without its lock.
FreeAlways(m) == TRUE

\* skip_locked
Free(m) == \A w \in Workers : holds[w] # m

Due(m) == stage[m] = "queued" /\ wait[m] = 0 /\ Free(m)

\* The row that deliver_once selects, as a set of at most one.
Oldest == {m \in Ids : Due(m) /\ \A n \in 1..(m - 1) : ~Due(n)}

\* Mutations of Stale: the age is not checked, or only once the body is open.
StaleNever(m) == FALSE
StaleIfReadable(m) == age[m] > Lifetime /\ m \notin Unreadable

Stale(m) == age[m] > Lifetime

Discard(w) ==
    /\ step[w] = "idle"
    /\ \E m \in Oldest :
         /\ Stale(m)
         /\ stage' = [stage EXCEPT ![m] = "expired"]
    /\ UNCHANGED <<age, attempts, wait, workerVars, received, lost, crashes>>

\* The message goes out.  The body is opened before the send and outside its
\* exception handler: one that cannot be opened ends the transaction with the
\* row unchanged and still the oldest, so such a row enables nothing here.
Send(w) ==
    /\ step[w] = "idle"
    /\ \E m \in Oldest :
         /\ ~Stale(m)
         /\ m \notin Unreadable
         /\ holds' = [holds EXCEPT ![w] = m]
    /\ step' = [step EXCEPT ![w] = "sending"]
    /\ UNCHANGED <<elapsed, rowVars, received, lost, crashes>>

\* Telegram accepts the message.
Accepted(w) ==
    /\ step[w] = "sending"
    /\ step' = [step EXCEPT ![w] = "accepted"]
    /\ received' = [received EXCEPT ![holds[w]] = @ + 1]
    /\ UNCHANGED <<holds, elapsed, rowVars, lost, crashes>>

Released(w) ==
    /\ holds' = [holds EXCEPT ![w] = 0]
    /\ step' = [step EXCEPT ![w] = "idle"]
    /\ elapsed' = [elapsed EXCEPT ![w] = 0]

\* Mutation of Done: the row says sent before Telegram has answered.
DoneEarly(w) ==
    /\ step[w] # "idle"
    /\ stage' = [stage EXCEPT ![holds[w]] = "sent"]
    /\ Released(w)
    /\ UNCHANGED <<age, attempts, wait, received, lost, crashes>>

\* send_message returns, and the transaction commits.
Done(w) ==
    /\ step[w] = "accepted"
    /\ stage' = [stage EXCEPT ![holds[w]] = "sent"]
    /\ Released(w)
    /\ UNCHANGED <<age, attempts, wait, received, lost, crashes>>

\* 2 ** min(attempts, 6)
Doubling(n) == <<2, 4, 8, 16, 32, 64>>[IF n < 6 THEN n ELSE 6]

\* Mutation of Backoff: it is not capped.
BackoffUncapped(n) == Doubling(n)

\* The delay after the n-th failed attempt.
Backoff(n) == IF Doubling(n) < BackoffCap THEN Doubling(n) ELSE BackoffCap

\* What the loss of the answer means for the history.
Loss(w) == lost' = [lost EXCEPT ![holds[w]] = @ + (IF step[w] = "accepted" THEN 1 ELSE 0)]

\* Mutation of Fail: the row is due again at once.
FailNow(w) ==
    /\ step[w] # "idle"
    /\ attempts' = [attempts EXCEPT ![holds[w]] = @ + 1]
    /\ Loss(w)
    /\ Released(w)
    /\ UNCHANGED <<stage, age, wait, received, crashes>>

\* send_message raises: an error of Telegram, or a timeout after which nobody
\* knows whether Telegram has the message.
Fail(w) ==
    /\ step[w] # "idle"
    /\ attempts' = [attempts EXCEPT ![holds[w]] = @ + 1]
    /\ wait' = [wait EXCEPT ![holds[w]] = Backoff(attempts[holds[w]] + 1)]
    /\ Loss(w)
    /\ Released(w)
    /\ UNCHANGED <<stage, age, received, crashes>>

\* The process or the database stops before the commit.
Crash(w) ==
    /\ step[w] # "idle"
    /\ crashes < MaxCrashes
    /\ crashes' = crashes + 1
    /\ Loss(w)
    /\ Released(w)
    /\ UNCHANGED <<rowVars, received>>

\* A send ends within its timeout.
Tick ==
    /\ \A w \in Workers : elapsed[w] < SendTime
    /\ elapsed' = [w \in Workers |-> IF step[w] = "idle" THEN 0 ELSE elapsed[w] + 1]
    /\ age' = [m \in Ids |-> IF stage[m] # "new" /\ age[m] < Old THEN age[m] + 1 ELSE age[m]]
    /\ wait' = [m \in Ids |-> IF wait[m] = 0 THEN 0 ELSE wait[m] - 1]
    /\ UNCHANGED <<stage, attempts, holds, step, received, lost, crashes>>

\* A turn of the loop: it always ends, whatever Telegram answers.
Turn(w) == Discard(w) \/ Send(w) \/ Done(w) \/ Fail(w)

Next ==
    \/ \E m \in Ids : Enqueue(m)
    \/ \E w \in Workers : Turn(w) \/ Accepted(w) \/ Crash(w)
    \/ Tick

Spec == Init /\ [][Next]_vars

\* The loop survives every exception but its own cancellation, and time passes.
Fairness == WF_vars(Tick) /\ \A w \in Workers : WF_vars(Turn(w))
FairSpec == Spec /\ Fairness
-----------------------------------------------------------------------------
(***************************************************************************)
(* Properties.                                                             *)
(***************************************************************************)
TypeOK ==
    /\ stage \in [Ids -> {"new", "queued", "sent", "expired"}]
    /\ age \in [Ids -> 0..Old]
    /\ attempts \in [Ids -> Nat]
    /\ wait \in [Ids -> 0..BackoffCap]
    /\ holds \in [Workers -> Ids \cup {0}]
    /\ step \in [Workers -> {"idle", "sending", "accepted"}]
    /\ elapsed \in [Workers -> 0..SendTime]
    /\ received \in [Ids -> Nat]
    /\ lost \in [Ids -> Nat]
    /\ crashes \in 0..MaxCrashes

\* A human sees a notification twice only if the answer to the first sending
\* was lost: any number of workers never duplicates one by itself.
DuplicatesExplained == \A m \in Ids : received[m] <= 1 + lost[m]

\* A row that says sent was received, and one that expired was never accepted
\* with its answer.
RowsTellTheTruth ==
    \A m \in Ids : /\ stage[m] = "sent" => received[m] > lost[m]
                   /\ stage[m] = "expired" => received[m] = lost[m]

\* Nothing reaches a human later than ten minutes and one send after the event.
\* A confirmation button that old would be misleading.
NeverStale ==
    [][\A m \in Ids : received'[m] # received[m] => age[m] <= Lifetime + SendTime]_vars

\* Failed attempts are spread out: together they take at least the time that
\* the back-off adds up to, whichever worker makes them.
Spent(n) == SumFunction([k \in 1..n |-> Backoff(k)])
BackedOff == \A m \in Ids : age[m] < Old => Spent(attempts[m]) <= age[m] + wait[m]

\* Every notification is sent or given up, even behind one that can never be
\* opened.
NothingStuck == \A m \in Ids : stage[m] = "queued" ~> stage[m] \in {"sent", "expired"}

-----------------------------------------------------------------------------
(***************************************************************************)
(* The inductive invariant: a row is in the hands of one worker at most,   *)
(* and every acceptance is either lost, or on its way, or in the row.      *)
(***************************************************************************)
Exclusive ==
    /\ \A w \in Workers : step[w] = "idle" <=> holds[w] = 0
    /\ \A w \in Workers : holds[w] # 0 => stage[holds[w]] = "queued"
    /\ \A v, w \in Workers : holds[v] # 0 /\ holds[v] = holds[w] => v = w

Landed(m) ==
    \/ stage[m] = "sent"
    \/ \E w \in Workers : holds[w] = m /\ step[w] = "accepted"

Balanced == \A m \in Ids : received[m] = IF Landed(m) THEN lost[m] + 1 ELSE lost[m]

IInv == TypeOK /\ Exclusive /\ Balanced
=============================================================================
