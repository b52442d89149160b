---------------------------- MODULE OutboxProofs ----------------------------
(***************************************************************************)
(* Proofs about Outbox, for any number of workers and messages.            *)
(***************************************************************************)
EXTENDS Outbox, Induction

\* A delay fits its column.
LEMMA BackoffType == ASSUME NEW n \in Nat \ {0} PROVE Backoff(n) \in 0..BackoffCap
<1>1. (IF n < 6 THEN n ELSE 6) \in {1, 2, 3, 4, 5, 6}
  OBVIOUS
<1>2. Doubling(n) \in {2, 4, 8, 16, 32, 64}
  BY <1>1 DEF Doubling
<1> QED BY <1>2, BackoffCapAssumption DEF Backoff

\* The rows of a fresh database.
LEMMA InitIInv == Init => IInv
  BY LifetimeAssumption, SendTimeAssumption, BackoffCapAssumption, MaxCrashesAssumption
     DEF Init, IInv, TypeOK, Exclusive, Balanced, Landed, Old, Ids

\* A worker at work holds a queued row that no other worker holds.
LEMMA Holding ==
    ASSUME IInv, NEW w \in Workers, step[w] # "idle"
    PROVE  /\ holds[w] \in Ids
           /\ stage[holds[w]] = "queued"
           /\ \A v \in Workers : v # w => holds[v] # holds[w]
  BY DEF IInv, TypeOK, Exclusive, Ids

\* A row enters the queue.
LEMMA EnqueueIInv == ASSUME IInv, NEW m \in Ids, Enqueue(m) PROVE IInv'
<1>1. TypeOK'
  BY DEF Enqueue, IInv, TypeOK, workerVars
<1>2. Exclusive'
  BY DEF Enqueue, IInv, TypeOK, Exclusive, workerVars
<1>3. Balanced'
  BY DEF Enqueue, IInv, TypeOK, Exclusive, Balanced, Landed, workerVars
<1> QED BY <1>1, <1>2, <1>3 DEF IInv

\* A row is given up: nobody holds it.
LEMMA DiscardIInv == ASSUME IInv, NEW w \in Workers, Discard(w) PROVE IInv'
<1>1. PICK m \in Ids : /\ stage[m] = "queued" /\ \A v \in Workers : holds[v] # m
                       /\ stage' = [stage EXCEPT ![m] = "expired"]
  BY DEF Discard, Oldest, Due, Free
<1>2. UNCHANGED <<age, attempts, wait, holds, step, elapsed, received, lost, crashes>>
  BY DEF Discard, workerVars
<1>3. TypeOK'
  BY <1>1, <1>2 DEF IInv, TypeOK
<1>4. Exclusive'
  BY <1>1, <1>2 DEF IInv, TypeOK, Exclusive
<1>5. Balanced'
  BY <1>1, <1>2 DEF IInv, TypeOK, Balanced, Landed
<1> QED BY <1>3, <1>4, <1>5 DEF IInv

\* A row is locked for the first worker that takes it.
LEMMA SendIInv == ASSUME IInv, NEW w \in Workers, Send(w) PROVE IInv'
<1>1. PICK m \in Ids : /\ stage[m] = "queued" /\ \A v \in Workers : holds[v] # m
                       /\ holds' = [holds EXCEPT ![w] = m]
  BY DEF Send, Oldest, Due, Free
<1>2. /\ step[w] = "idle" /\ step' = [step EXCEPT ![w] = "sending"]
      /\ UNCHANGED <<stage, age, attempts, wait, elapsed, received, lost, crashes>>
  BY DEF Send, rowVars
<1>3. TypeOK'
  BY <1>1, <1>2 DEF IInv, TypeOK
<1>4. Exclusive'
  BY <1>1, <1>2 DEF IInv, TypeOK, Exclusive, Ids
<1>5. \A n \in Ids : Landed(n)' <=> Landed(n)
  BY <1>1, <1>2 DEF IInv, TypeOK, Exclusive, Landed
<1>6. Balanced'
  BY <1>2, <1>5 DEF IInv, Balanced
<1> QED BY <1>3, <1>4, <1>6 DEF IInv

\* An acceptance lands in the hands of the worker that sent the message.
LEMMA AcceptedIInv == ASSUME IInv, NEW w \in Workers, Accepted(w) PROVE IInv'
<1> DEFINE m == holds[w]
<1>1. m \in Ids /\ stage[m] = "queued" /\ \A v \in Workers : v # w => holds[v] # m
  BY Holding DEF Accepted
<1>2. /\ step[w] = "sending" /\ step' = [step EXCEPT ![w] = "accepted"]
      /\ received' = [received EXCEPT ![m] = @ + 1]
      /\ UNCHANGED <<holds, elapsed, stage, age, attempts, wait, lost, crashes>>
  BY DEF Accepted, rowVars
<1>3. TypeOK'
  BY <1>1, <1>2 DEF IInv, TypeOK
<1>4. Exclusive'
  BY <1>2 DEF IInv, TypeOK, Exclusive
<1>5. ~Landed(m) /\ Landed(m)'
  <2>1. ~Landed(m)
    BY <1>1, <1>2 DEF Landed
  <2>2. holds'[w] = m /\ step'[w] = "accepted"
    BY <1>2 DEF IInv, TypeOK
  <2> QED BY <2>1, <2>2 DEF Landed
<1>6. \A n \in Ids \ {m} : Landed(n)' <=> Landed(n)
  BY <1>2 DEF IInv, TypeOK, Landed
<1>7. Balanced'
  BY <1>1, <1>2, <1>5, <1>6 DEF IInv, TypeOK, Balanced
<1> QED BY <1>3, <1>4, <1>7 DEF IInv

\* A worker lets go of its row, which only its own acceptance can have landed.
LEMMA ReleasedIInv ==
    ASSUME IInv, NEW w \in Workers, step[w] # "idle", Released(w)
    PROVE  /\ holds' \in [Workers -> Ids \cup {0}]
           /\ step' \in [Workers -> {"idle", "sending", "accepted"}]
           /\ elapsed' \in [Workers -> 0..SendTime]
           /\ \A v \in Workers : holds'[v] = (IF v = w THEN 0 ELSE holds[v])
           /\ \A v \in Workers : step'[v] = (IF v = w THEN "idle" ELSE step[v])
           /\ Landed(holds[w]) <=> step[w] = "accepted"
<1>1. Landed(holds[w]) <=> step[w] = "accepted"
  <2>1. stage[holds[w]] # "sent"
    BY Holding
  <2>2. \A v \in Workers : holds[v] = holds[w] => v = w
    BY Holding
  <2> QED BY <2>1, <2>2 DEF Landed
<1>2. 0 \in Ids \cup {0} /\ 0 \in 0..SendTime
  BY SendTimeAssumption
<1> QED BY <1>1, <1>2 DEF Released, IInv, TypeOK

\* The row says sent once the message was accepted.
LEMMA DoneIInv == ASSUME IInv, NEW w \in Workers, Done(w) PROVE IInv'
<1> DEFINE m == holds[w]
<1>1. m \in Ids /\ \A v \in Workers : v # w => holds[v] # m
  BY Holding DEF Done
<1>2. /\ holds' \in [Workers -> Ids \cup {0}]
      /\ step' \in [Workers -> {"idle", "sending", "accepted"}]
      /\ elapsed' \in [Workers -> 0..SendTime]
      /\ \A v \in Workers : holds'[v] = (IF v = w THEN 0 ELSE holds[v])
      /\ \A v \in Workers : step'[v] = (IF v = w THEN "idle" ELSE step[v])
      /\ Landed(m)
  BY ReleasedIInv DEF Done
<1>3. /\ stage' = [stage EXCEPT ![m] = "sent"]
      /\ UNCHANGED <<age, attempts, wait, received, lost, crashes>>
  BY DEF Done
<1>4. TypeOK'
  BY <1>1, <1>2, <1>3 DEF IInv, TypeOK
<1>5. Exclusive'
  BY <1>1, <1>2, <1>3 DEF IInv, TypeOK, Exclusive
<1>6. \A n \in Ids : Landed(n)' <=> Landed(n)
  BY <1>1, <1>2, <1>3 DEF IInv, TypeOK, Landed
<1>7. Balanced'
  BY <1>3, <1>6 DEF IInv, Balanced
<1> QED BY <1>4, <1>5, <1>7 DEF IInv

\* A send that ends otherwise loses at most one acceptance, and keeps the row.
LEMMA LostIInv == ASSUME IInv, NEW w \in Workers, Fail(w) \/ Crash(w) PROVE IInv'
<1>1. PICK m \in Ids : /\ m = holds[w] /\ stage[m] = "queued"
                       /\ \A v \in Workers : v # w => holds[v] # m
  BY Holding DEF Fail, Crash
<1>2. /\ holds' \in [Workers -> Ids \cup {0}]
      /\ step' \in [Workers -> {"idle", "sending", "accepted"}]
      /\ elapsed' \in [Workers -> 0..SendTime]
      /\ \A v \in Workers : holds'[v] = (IF v = w THEN 0 ELSE holds[v])
      /\ \A v \in Workers : step'[v] = (IF v = w THEN "idle" ELSE step[v])
      /\ Landed(m) <=> step[w] = "accepted"
  BY <1>1, ReleasedIInv DEF Fail, Crash
<1>3. /\ lost' = [lost EXCEPT ![m] = @ + (IF step[w] = "accepted" THEN 1 ELSE 0)]
      /\ UNCHANGED <<stage, age, received>>
  BY <1>1 DEF Fail, Crash, Loss, rowVars
<1>4. \A n \in Ids : lost'[n] = IF n = m /\ step[w] = "accepted" THEN lost[n] + 1 ELSE lost[n]
  BY <1>1, <1>3 DEF IInv, TypeOK
<1>5. attempts' \in [Ids -> Nat] /\ wait' \in [Ids -> 0..BackoffCap] /\ crashes' \in 0..MaxCrashes
  <2>1. CASE Fail(w)
    <3>1. attempts[m] + 1 \in Nat \ {0}
      BY <1>1 DEF IInv, TypeOK
    <3>2. Backoff(attempts[m] + 1) \in 0..BackoffCap
      BY <3>1, BackoffType
    <3> QED BY <1>1, <2>1, <3>1, <3>2 DEF Fail, IInv, TypeOK
  <2>2. CASE Crash(w)
    BY <2>2, MaxCrashesAssumption DEF Crash, IInv, TypeOK, rowVars
  <2> QED BY <2>1, <2>2
<1>6. lost' \in [Ids -> Nat]
  <2>1. (IF step[w] = "accepted" THEN 1 ELSE 0) \in Nat
    OBVIOUS
  <2>2. lost[m] + (IF step[w] = "accepted" THEN 1 ELSE 0) \in Nat
    BY <1>1, <2>1 DEF IInv, TypeOK
  <2> QED BY <1>3, <2>2 DEF IInv, TypeOK
<1>7. TypeOK'
  BY <1>2, <1>3, <1>5, <1>6 DEF IInv, TypeOK
<1>8. Exclusive'
  BY <1>2, <1>3 DEF IInv, TypeOK, Exclusive
<1>9. ~Landed(m)'
  <2>1. stage'[m] # "sent" /\ m # 0
    BY <1>1, <1>3 DEF Ids
  <2>2. \A v \in Workers : holds'[v] # m
    BY <1>1, <1>2, <2>1
  <2> QED BY <2>1, <2>2 DEF Landed
<1>10. \A n \in Ids \ {m} : Landed(n)' <=> Landed(n)
  <2> SUFFICES ASSUME NEW n \in Ids, n # m PROVE Landed(n)' <=> Landed(n)
    OBVIOUS
  <2>1. ASSUME NEW v \in Workers
        PROVE  holds'[v] = n /\ step'[v] = "accepted" <=> holds[v] = n /\ step[v] = "accepted"
    <3>1. CASE v = w
      BY <1>1, <1>2, <3>1 DEF Ids
    <3>2. CASE v # w
      BY <1>2, <3>2
    <3> QED BY <3>1, <3>2
  <2> QED BY <1>3, <2>1 DEF Landed
<1>11. Balanced'
  <2> SUFFICES ASSUME NEW n \in Ids
               PROVE  received'[n] = IF Landed(n)' THEN lost'[n] + 1 ELSE lost'[n]
    BY DEF Balanced
  <2>1. received'[n] = IF Landed(n) THEN lost[n] + 1 ELSE lost[n]
    BY <1>3 DEF IInv, Balanced
  <2>2. CASE n = m
    BY <1>2, <1>4, <1>9, <2>1, <2>2
  <2>3. CASE n # m
    BY <1>4, <1>10, <2>1, <2>3
  <2> QED BY <2>2, <2>3
<1> QED BY <1>7, <1>8, <1>11 DEF IInv

\* Time passes.
LEMMA TickIInv == ASSUME IInv, Tick PROVE IInv'
<1>1. UNCHANGED <<stage, attempts, holds, step, received, lost, crashes>>
  BY DEF Tick
<1>2. elapsed' \in [Workers -> 0..SendTime]
  BY SendTimeAssumption DEF Tick, IInv, TypeOK
<1>3. age' \in [Ids -> 0..Old]
  BY LifetimeAssumption, SendTimeAssumption DEF Tick, IInv, TypeOK, Old
<1>4. wait' \in [Ids -> 0..BackoffCap]
  BY BackoffCapAssumption DEF Tick, IInv, TypeOK
<1>5. TypeOK'
  BY <1>1, <1>2, <1>3, <1>4 DEF IInv, TypeOK
<1>6. Exclusive' /\ Balanced'
  BY <1>1 DEF IInv, Exclusive, Balanced, Landed
<1> QED BY <1>5, <1>6 DEF IInv

\* Every step preserves the invariant.
LEMMA NextIInv == IInv /\ [Next]_vars => IInv'
<1> SUFFICES ASSUME IInv, [Next]_vars PROVE IInv'
  OBVIOUS
<1>1. CASE UNCHANGED vars
  BY <1>1 DEF vars, rowVars, workerVars, IInv, TypeOK, Exclusive, Balanced, Landed
<1>2. CASE Next
  BY <1>2, EnqueueIInv, DiscardIInv, SendIInv, AcceptedIInv, DoneIInv, LostIInv, TickIInv
     DEF Next, Turn
<1> QED BY <1>1, <1>2

\* Every acceptance is lost, on its way, or in the row, in every reachable state.
THEOREM Invariance == Spec => []IInv
  BY InitIInv, NextIInv, PTL DEF Spec

\* However many workers share the outbox, a message is accepted twice only
\* when the answer to an earlier acceptance was lost.
THEOREM NoSpontaneousDuplicates == Spec => []DuplicatesExplained
<1>1. IInv => DuplicatesExplained
  BY DEF IInv, TypeOK, Balanced, DuplicatesExplained
<1> QED BY <1>1, Invariance, PTL

\* sent means received, and expired means that no answer ever came.
THEOREM Truth == Spec => []RowsTellTheTruth
<1>1. IInv => RowsTellTheTruth
  BY DEF IInv, TypeOK, Exclusive, Balanced, Landed, RowsTellTheTruth
<1> QED BY <1>1, Invariance, PTL

(***************************************************************************)
(* Time.                                                                   *)
(***************************************************************************)

\* A row that a worker holds was due and not stale when it was taken, and is
\* older by no more than what its send has taken.
Timely ==
    \A w \in Workers : holds[w] # 0 => /\ wait[holds[w]] = 0
                                       /\ age[holds[w]] <= Lifetime + elapsed[w]

\* A row that is not in the queue yet has no past.
Unborn == \A m \in Ids : stage[m] = "new" => attempts[m] = 0 /\ wait[m] = 0

TInv == Timely /\ Unborn /\ BackedOff

\* The delays add up, one attempt after another.
LEMMA SpentAdds ==
    /\ Spent(0) = 0
    /\ \A n \in Nat : /\ Spent(n) \in Nat
                      /\ Spent(n + 1) = Spent(n) + Backoff(n + 1)
<1> DEFINE f(n) == [k \in 1..n |-> Backoff(k)]
<1>1. ASSUME NEW n \in Nat
      PROVE  /\ Spent(n) = SumFunctionOnSet(f(n), 1..n)
             /\ IsFiniteSet(1..n)
             /\ \A k \in 1..n : f(n)[k] = Backoff(k) /\ f(n)[k] \in Nat
  <2>1. \A k \in 1..n : Backoff(k) \in Nat
    <3>1. \A k \in 1..n : k \in Nat \ {0} OBVIOUS
    <3>2. \A k \in 1..n : Backoff(k) \in 0..BackoffCap BY <3>1, BackoffType
    <3> QED BY <3>2, BackoffCapAssumption
  <2>2. IsFiniteSet(1..n) BY FS_Interval
  <2> QED BY <2>1, <2>2 DEF Spent, SumFunction
<1> HIDE DEF f
<1>2. ASSUME NEW n \in Nat PROVE Spent(n) \in Nat BY <1>1, SumNatural
<1>3. Spent(0) = 0
  <2>1. 1..0 = {} OBVIOUS
  <2>2. \A k \in 1..0 : f(0)[k] \in Int BY <2>1
  <2>3. SumFunctionOnSet(f(0), {}) = 0 BY <1>1, <2>2, SumUnfolds
  <2> QED BY <1>1, <2>1, <2>3
<1>4. ASSUME NEW n \in Nat PROVE Spent(n + 1) = Spent(n) + Backoff(n + 1)
  <2> DEFINE S == 1..(n + 1)
             g == f(n + 1)
  <2>1. n + 1 \in Nat /\ n + 1 \in S /\ S \ {n + 1} = 1..n /\ n \in Nat OBVIOUS
  <2>2. /\ Spent(n + 1) = SumFunctionOnSet(g, S) /\ IsFiniteSet(S)
        /\ \A k \in S : g[k] = Backoff(k) /\ g[k] \in Nat
    BY <1>1, <2>1
  <2>3. \A k \in 1..n : k \in S OBVIOUS
  <2> HIDE DEF S, g
  <2>4. /\ SumFunctionOnSet(g, S \ {n + 1}) \in Int
        /\ SumFunctionOnSet(g, S) = g[n + 1] + SumFunctionOnSet(g, S \ {n + 1})
    <3>1. \A k \in S : g[k] \in Int BY <2>2
    <3> QED BY <2>1, <2>2, <3>1, SumRemove
  <2>5. SumFunctionOnSet(f(n), 1..n) = SumFunctionOnSet(g, 1..n)
    <3>1. \A k \in 1..n : f(n)[k] \in Int /\ g[k] = f(n)[k] BY <1>1, <2>2, <2>3
    <3> QED BY <1>1, <3>1, SumSame
  <2>6. g[n + 1] = Backoff(n + 1) /\ g[n + 1] \in Nat BY <2>1, <2>2
  <2>7. Spent(n) = SumFunctionOnSet(f(n), 1..n) BY <1>1
  <2>8. SumFunctionOnSet(g, S \ {n + 1}) = Spent(n) BY <2>1, <2>5, <2>7
  <2>9. Spent(n + 1) = Backoff(n + 1) + SumFunctionOnSet(g, S \ {n + 1}) BY <2>2, <2>4, <2>6
  <2>10. Spent(n) \in Nat /\ Backoff(n + 1) \in Nat BY <1>2, <2>6
  <2>11. Spent(n + 1) = Backoff(n + 1) + Spent(n) BY <2>8, <2>9
  <2> HIDE DEF Spent, Backoff
  <2> QED BY <2>10, <2>11
<1> QED BY <1>2, <1>3, <1>4

\* A row is taken.
LEMMA SendTInv == ASSUME IInv, TInv, NEW w \in Workers, Send(w) PROVE TInv'
<1>1. PICK m \in Ids : /\ wait[m] = 0 /\ ~(age[m] > Lifetime) /\ holds' = [holds EXCEPT ![w] = m]
  BY DEF Send, Oldest, Due, Stale
<1>2. UNCHANGED <<stage, age, attempts, wait, elapsed>> BY DEF Send, rowVars
<1>3. Timely'
  <2> SUFFICES ASSUME NEW v \in Workers, holds'[v] # 0
               PROVE  wait[holds'[v]] = 0 /\ age[holds'[v]] <= Lifetime + elapsed[v]
    BY <1>2 DEF Timely
  <2>1. CASE v = w
    <3>1. holds'[v] = m BY <1>1, <2>1 DEF IInv, TypeOK
    <3>2. age[m] \in 0..Old /\ elapsed[v] \in 0..SendTime BY DEF IInv, TypeOK
    <3>3. age[m] \in Int /\ elapsed[v] \in Nat /\ Lifetime \in Nat
      BY <3>2, SendTimeAssumption, LifetimeAssumption DEF Old
    <3> QED BY <1>1, <3>1, <3>3
  <2>2. CASE v # w
    <3>1. holds'[v] = holds[v] BY <1>1, <2>2 DEF IInv, TypeOK
    <3> QED BY <3>1 DEF TInv, Timely
  <2> QED BY <2>1, <2>2
<1>4. Unborn' /\ BackedOff' BY <1>2 DEF TInv, Unborn, BackedOff
<1> QED BY <1>3, <1>4 DEF TInv

\* A worker lets go of its row.
LEMMA ReleasedTimely ==
    ASSUME IInv, TInv, NEW w \in Workers, step[w] # "idle", Released(w), age' = age,
           \A m \in Ids : m # holds[w] => wait'[m] = wait[m]
    PROVE  Timely'
<1>1. /\ \A v \in Workers : holds'[v] = (IF v = w THEN 0 ELSE holds[v])
      /\ \A v \in Workers : v # w => holds[v] # holds[w]
  BY ReleasedIInv, Holding
<1>2. \A v \in Workers : v # w => elapsed'[v] = elapsed[v]
  BY DEF Released, IInv, TypeOK
<1> SUFFICES ASSUME NEW v \in Workers, holds'[v] # 0
             PROVE  wait'[holds'[v]] = 0 /\ age[holds'[v]] <= Lifetime + elapsed'[v]
  BY DEF Timely
<1>3. v # w /\ holds'[v] = holds[v] /\ holds[v] # holds[w] /\ holds[v] \in Ids
  BY <1>1 DEF IInv, TypeOK
<1> QED BY <1>2, <1>3 DEF TInv, Timely

\* A failed attempt is followed by its delay.
LEMMA FailTInv == ASSUME IInv, TInv, NEW w \in Workers, Fail(w) PROVE TInv'
<1>1. PICK m \in Ids : m = holds[w] /\ stage[m] = "queued" BY Holding DEF Fail
<1>2. /\ step[w] # "idle" /\ Released(w) /\ UNCHANGED <<stage, age>>
      /\ attempts' = [attempts EXCEPT ![m] = @ + 1]
      /\ wait' = [wait EXCEPT ![m] = Backoff(attempts[m] + 1)]
  BY <1>1 DEF Fail
<1>3. /\ \A n \in Ids : n # m => attempts'[n] = attempts[n] /\ wait'[n] = wait[n]
      /\ attempts'[m] = attempts[m] + 1 /\ wait'[m] = Backoff(attempts[m] + 1)
      /\ attempts[m] \in Nat
  BY <1>1, <1>2 DEF IInv, TypeOK
<1>4. Timely' BY <1>1, <1>2, <1>3, ReleasedTimely
<1>5. Unborn' BY <1>1, <1>2, <1>3 DEF TInv, Unborn
<1>6. BackedOff'
  <2> SUFFICES ASSUME NEW n \in Ids, age[n] < Old PROVE Spent(attempts'[n]) <= age[n] + wait'[n]
    BY <1>2 DEF BackedOff, Spent, Backoff, Doubling
  <2>1. Spent(attempts[n]) <= age[n] + wait[n] BY DEF TInv, BackedOff
  <2>2. CASE n = m
    <3>1. wait[m] = 0 BY <1>1 DEF TInv, Timely, Ids
    <3>2. /\ Spent(attempts[m]) \in Nat
          /\ Spent(attempts[m] + 1) = Spent(attempts[m]) + Backoff(attempts[m] + 1)
      BY <1>3, SpentAdds
    <3>3. Backoff(attempts[m] + 1) \in Nat
      <4>1. attempts[m] + 1 \in Nat \ {0} BY <1>3
      <4>2. Backoff(attempts[m] + 1) \in 0..BackoffCap BY <4>1, BackoffType
      <4> QED BY <4>2, BackoffCapAssumption
    <3>4. age[m] \in Nat
      <4>1. age[m] \in 0..Old BY DEF IInv, TypeOK
      <4> QED BY <4>1
    <3> QED BY <1>3, <2>1, <2>2, <3>1, <3>2, <3>3, <3>4
  <2>3. CASE n # m BY <1>3, <2>1, <2>3
  <2> QED BY <2>2, <2>3
<1> QED BY <1>4, <1>5, <1>6 DEF TInv

\* The other ends of a turn leave delays and attempts alone.
LEMMA EndTInv == ASSUME IInv, TInv, NEW w \in Workers, Done(w) \/ Crash(w) PROVE TInv'
<1>1. /\ step[w] # "idle" /\ Released(w) /\ UNCHANGED <<age, attempts, wait>>
      /\ stage' = stage \/ stage' = [stage EXCEPT ![holds[w]] = "sent"]
  BY DEF Done, Crash, rowVars
<1>2. Timely' BY <1>1, ReleasedTimely
<1>3. \A m \in Ids : stage'[m] = "new" => stage[m] = "new" BY <1>1 DEF IInv, TypeOK
<1>4. Unborn' BY <1>1, <1>3 DEF TInv, Unborn
<1>5. BackedOff' BY <1>1 DEF TInv, BackedOff
<1> QED BY <1>2, <1>4, <1>5 DEF TInv

\* Time passes.
LEMMA TickTInv == ASSUME IInv, TInv, Tick PROVE TInv'
<1>1. /\ elapsed' = [w \in Workers |-> IF step[w] = "idle" THEN 0 ELSE elapsed[w] + 1]
      /\ age' = [m \in Ids |-> IF stage[m] # "new" /\ age[m] < Old THEN age[m] + 1 ELSE age[m]]
      /\ wait' = [m \in Ids |-> IF wait[m] = 0 THEN 0 ELSE wait[m] - 1]
      /\ UNCHANGED <<stage, attempts, holds>>
  BY DEF Tick
<1>2. \A m \in Ids : age[m] \in Nat /\ wait[m] \in Nat /\ attempts[m] \in Nat
  <2>1. \A m \in Ids : age[m] \in 0..Old /\ wait[m] \in 0..BackoffCap /\ attempts[m] \in Nat
    BY DEF IInv, TypeOK
  <2> QED BY <2>1
<1>3. Timely'
  <2> SUFFICES ASSUME NEW w \in Workers, holds[w] # 0
               PROVE  wait'[holds[w]] = 0 /\ age'[holds[w]] <= Lifetime + elapsed'[w]
    BY <1>1 DEF Timely
  <2>1. holds[w] \in Ids /\ step[w] # "idle" BY DEF IInv, TypeOK, Exclusive
  <2>2. wait[holds[w]] = 0 /\ age[holds[w]] <= Lifetime + elapsed[w] BY DEF TInv, Timely
  <2>3. elapsed[w] \in Nat /\ Lifetime \in Nat
    <3>1. elapsed[w] \in 0..SendTime BY DEF IInv, TypeOK
    <3> QED BY <3>1, LifetimeAssumption
  <2>4. elapsed'[w] = elapsed[w] + 1 BY <1>1, <2>1
  <2>5. age'[holds[w]] <= age[holds[w]] + 1 /\ age'[holds[w]] \in Nat BY <1>1, <1>2, <2>1
  <2>6. wait'[holds[w]] = 0 BY <1>1, <2>1, <2>2
  <2> QED BY <1>2, <2>1, <2>2, <2>3, <2>4, <2>5, <2>6
<1>4. Unborn' BY <1>1 DEF TInv, Unborn
<1>5. BackedOff'
  <2> SUFFICES ASSUME NEW m \in Ids, age'[m] < Old PROVE Spent(attempts[m]) <= age'[m] + wait'[m]
    BY <1>1 DEF BackedOff, Spent, Backoff, Doubling
  <2>1. CASE stage[m] = "new"
    <3>1. attempts[m] = 0 BY <2>1 DEF TInv, Unborn
    <3>2. age'[m] \in Nat /\ wait'[m] \in Nat BY <1>1, <1>2
    <3> QED BY <3>1, <3>2, SpentAdds
  <2>2. CASE stage[m] # "new"
    <3>1. age[m] < Old
      <4>1. ~(age[m] < Old) => age'[m] = age[m] BY <1>1
      <4> QED BY <4>1
    <3>2. Spent(attempts[m]) <= age[m] + wait[m] /\ Spent(attempts[m]) \in Nat
      BY <1>2, <3>1, SpentAdds DEF TInv, BackedOff
    <3>3. age'[m] = age[m] + 1 /\ wait'[m] \in Nat /\ wait'[m] + 1 >= wait[m] BY <1>1, <1>2, <2>2, <3>1
    <3> QED BY <1>2, <3>2, <3>3
  <2> QED BY <2>1, <2>2
<1> QED BY <1>3, <1>4, <1>5 DEF TInv

\* Delays, ages and sends stay in step.
THEOREM TimeInvariance == Spec => []TInv
<1>1. Init => TInv
  <2> SUFFICES ASSUME Init PROVE TInv OBVIOUS
  <2>1. Timely /\ Unborn BY DEF Init, Timely, Unborn
  <2>2. BackedOff BY SpentAdds DEF Init, BackedOff
  <2> QED BY <2>1, <2>2 DEF TInv
<1>2. IInv /\ TInv /\ [Next]_vars => TInv'
  <2> SUFFICES ASSUME IInv, TInv, [Next]_vars PROVE TInv' OBVIOUS
  <2>1. CASE UNCHANGED <<age, attempts, wait, holds, elapsed>> /\ \A m \in Ids : stage'[m] = "new" => stage[m] = "new"
    BY <2>1 DEF TInv, Timely, Unborn, BackedOff
  <2>2. CASE UNCHANGED vars BY <2>1, <2>2 DEF vars, rowVars, workerVars
  <2>3. CASE \E m \in Ids : Enqueue(m)
    <3>1. PICK m \in Ids : Enqueue(m) BY <2>3
    <3>2. UNCHANGED <<age, attempts, wait, holds, elapsed>> /\ stage' = [stage EXCEPT ![m] = "queued"]
      BY <3>1 DEF Enqueue, workerVars
    <3>3. \A n \in Ids : stage'[n] = "new" => stage[n] = "new" BY <3>2 DEF IInv, TypeOK
    <3> QED BY <2>1, <3>2, <3>3
  <2>4. CASE \E w \in Workers : Discard(w)
    <3>1. PICK w \in Workers : Discard(w) BY <2>4
    <3>2. PICK m \in Ids : stage' = [stage EXCEPT ![m] = "expired"] BY <3>1 DEF Discard, Oldest
    <3>3. UNCHANGED <<age, attempts, wait, holds, elapsed>> BY <3>1 DEF Discard, workerVars
    <3>4. \A n \in Ids : stage'[n] = "new" => stage[n] = "new" BY <3>2 DEF IInv, TypeOK
    <3> QED BY <2>1, <3>3, <3>4
  <2>5. CASE \E w \in Workers : Accepted(w) BY <2>1, <2>5 DEF Accepted, rowVars
  <2> QED BY <2>2, <2>3, <2>4, <2>5, SendTInv, FailTInv, EndTInv, TickTInv DEF Next, Turn
<1> QED BY <1>1, <1>2, Invariance, PTL DEF Spec

\* Attempts are spread out, whichever workers make them.
THEOREM SpreadOut == Spec => []BackedOff
<1>1. TInv => BackedOff BY DEF TInv
<1> QED BY <1>1, TimeInvariance, PTL

\* Nothing reaches a human later than its lifetime and one send.
THEOREM InTime == Spec => NeverStale
<1>1. ASSUME IInv, TInv, [Next]_vars, NEW m \in Ids, received'[m] # received[m]
      PROVE  age[m] <= Lifetime + SendTime
  <2>1. PICK w \in Workers : Accepted(w)
    BY <1>1 DEF Next, Turn, vars, Enqueue, Discard, Send, Done, Fail, Crash, Tick
  <2>2. m = holds[w] /\ holds[w] # 0
    <3>1. step[w] = "sending" /\ received' = [received EXCEPT ![holds[w]] = @ + 1] BY <2>1 DEF Accepted
    <3>2. holds[w] # 0 BY <1>1, <3>1 DEF IInv, Exclusive
    <3> QED BY <1>1, <3>1, <3>2 DEF IInv, TypeOK
  <2>3. age[m] <= Lifetime + elapsed[w] BY <1>1, <2>2 DEF TInv, Timely
  <2>4. elapsed[w] \in 0..SendTime /\ age[m] \in 0..Old BY <1>1 DEF IInv, TypeOK
  <2>5. SendTime \in Nat /\ Lifetime \in Nat /\ elapsed[w] \in Nat /\ elapsed[w] <= SendTime /\ age[m] \in Nat
    BY <2>4, SendTimeAssumption, LifetimeAssumption
  <2> QED BY <2>3, <2>5
<1>2. IInv /\ TInv /\ [Next]_vars
        => [\A m \in Ids : received'[m] # received[m] => age[m] <= Lifetime + SendTime]_vars
  BY <1>1
<1> QED BY <1>2, Invariance, TimeInvariance, PTL DEF Spec, NeverStale
=============================================================================
