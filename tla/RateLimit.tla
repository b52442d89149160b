----------------------------- MODULE RateLimit -----------------------------
(***************************************************************************)
(* rate_limit (security.py) for one key: a fixed window, whose counter is  *)
(* one row.  A request computes its window before it waits for the row, so *)
(* the two are two steps; from the lock to the commit it is alone.  A      *)
(* refusal raises inside the transaction and takes its own count back.     *)
(* The row is deleted when it has been idle (maintenance.py).              *)
(***************************************************************************)
EXTENDS Naturals

CONSTANTS
    Requests,  \* what may be under way at once
    Limit,     \* how many a window admits
    Seconds,   \* the length of a window
    Unused,    \* the age at which the sweeper deletes the row: 86400 seconds,
               \* against windows of at most 600
    MaxClock,  \* bound: the last moment
    MaxSteps,  \* bound: how often the clock is set back, by one tick
    Absent     \* what is not there: a row, or a window to wait with

\* A row is kept for longer than a request waits and than the clock is ever
\* behind (86400 seconds against 600).
ASSUME Parameters ==
    /\ Limit \in Nat /\ Seconds \in Nat \ {0} /\ Unused \in Nat /\ MaxClock \in Nat /\ MaxSteps \in Nat
    /\ Unused >= MaxSteps + 2 * Seconds
    /\ Absent \notin Nat /\ Absent \notin [window : Nat, count : Nat, updated : Nat]

VARIABLES
    clock,     \* time.time()
    bucket,    \* the row: window, count and updated_at; or Absent
    asked,     \* the window that a waiting request has computed, or Absent
    admitted,  \* history: how many were admitted with the row at each window
    setback,   \* history: how often a request moved the row to an earlier window
    steps      \* how often the clock was set back

limitVars == <<clock, bucket, asked, admitted, setback, steps>>

Window(t) == t \div Seconds
Windows == 0..Window(MaxClock)

LimitInit ==
    /\ clock = 0
    /\ bucket = Absent
    /\ asked = [r \in Requests |-> Absent]
    /\ admitted = [w \in Windows |-> 0]
    /\ setback = 0 /\ steps = 0

\* The request computes its window and goes to wait for the row.
Ask(r) ==
    /\ asked[r] = Absent
    /\ asked' = [asked EXCEPT ![r] = Window(clock)]
    /\ UNCHANGED <<clock, bucket, admitted, setback, steps>>

\* The count in the request's window before it is counted; any other window,
\* an earlier one as well, begins anew.
Count(w) == IF bucket # Absent /\ bucket.window = w THEN bucket.count ELSE 0

Admit(r) ==
    /\ asked[r] # Absent
    /\ Count(asked[r]) < Limit
    /\ bucket' = [window |-> asked[r], count |-> Count(asked[r]) + 1, updated |-> clock]
    /\ admitted' = [admitted EXCEPT ![asked[r]] = @ + 1]
    /\ setback' = IF bucket # Absent /\ asked[r] < bucket.window THEN setback + 1 ELSE setback
    /\ asked' = [asked EXCEPT ![r] = Absent]
    /\ UNCHANGED <<clock, steps>>

\* RATE_LIMITED; or an internal error, when the sweeper deleted the row between
\* the insertion that found it and the lock.
Refuse(r) ==
    /\ asked[r] # Absent
    /\ Count(asked[r]) >= Limit \/ bucket = Absent
    /\ asked' = [asked EXCEPT ![r] = Absent]
    /\ UNCHANGED <<clock, bucket, admitted, setback, steps>>

\* Mutation of Forgotten: the row is deleted when it is a tick old.
ForgottenSoon == bucket # Absent /\ bucket.updated < clock

Forgotten == bucket # Absent /\ bucket.updated + Unused < clock

Prune == Forgotten /\ bucket' = Absent /\ UNCHANGED <<clock, asked, admitted, setback, steps>>

\* Time passes.  No request waits for longer than a window: the row is only
\* held for the length of a transaction.
Tick ==
    /\ clock < MaxClock
    /\ \A r \in Requests : asked[r] # Absent => Window(clock + 1) <= asked[r] + 1
    /\ clock' = clock + 1
    /\ UNCHANGED <<bucket, asked, admitted, setback, steps>>

StepBack ==
    /\ steps < MaxSteps /\ clock > 0
    /\ clock' = clock - 1
    /\ steps' = steps + 1
    /\ UNCHANGED <<bucket, asked, admitted, setback>>

LimitNext ==
    \/ \E r \in Requests : Ask(r) \/ Admit(r) \/ Refuse(r)
    \/ Prune \/ Tick \/ StepBack

LimitSpec == LimitInit /\ [][LimitNext]_limitVars

\* A window admits its quota, and once more for every time that the row went
\* back to an earlier window: because the clock was set back, or because a
\* request that had computed its window before a boundary got the row after a
\* later one.  A refusal costs nothing and retention forgives nothing.
WithinQuota == \A w \in Windows : admitted[w] <= Limit * (1 + setback)
=============================================================================
