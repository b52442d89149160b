-------------------------- MODULE RateLimitProofs --------------------------
(***************************************************************************)
(* What a window of the limiter admits, for any number of requests, any    *)
(* length of a window and any clock that is set back a bounded number of   *)
(* times.                                                                  *)
(***************************************************************************)
EXTENDS RateLimit, TLAPS

-----------------------------------------------------------------------------
(***************************************************************************)
(* Arithmetic.                                                             *)
(***************************************************************************)

\* When a window begins, in ticks.
Start(w) == w * Seconds

\* A window begins when the one before it has run its length.
LEMMA Starts ==
    /\ \A w \in Nat : Start(w) \in Nat /\ Start(w + 1) = Start(w) + Seconds
                      /\ Start(w + 2) = Start(w) + 2 * Seconds
    /\ \A v, w \in Nat : v <= w => Start(v) <= Start(w)
<1>1. Seconds \in Nat
  BY Parameters
<1>2. ASSUME NEW w \in Nat
      PROVE  Start(w) \in Nat /\ Start(w + 1) = Start(w) + Seconds
             /\ Start(w + 2) = Start(w) + 2 * Seconds
  BY <1>1 DEF Start
<1>3. ASSUME NEW v \in Nat, NEW w \in Nat, v <= w PROVE Start(v) <= Start(w)
  <2>1. PICK d \in Nat : w = v + d
    <3>1. w - v \in Nat /\ w = v + (w - v)
      BY <1>3
    <3> QED BY <3>1
  <2>2. w * Seconds = v * Seconds + d * Seconds /\ d * Seconds \in Nat /\ v * Seconds \in Nat
    BY <1>1, <2>1
  <2> QED BY <2>2 DEF Start
<1> QED BY <1>2, <1>3

\* What is below a number is below every greater one.
LEMMA Below ==
    \A a, b, e \in Nat : a <= b => (e <= a => e <= b) /\ (e < a => e < b)
  OBVIOUS

\* A moment lies in its window.
LEMMA InWindow ==
    ASSUME NEW t \in Nat
    PROVE  Window(t) \in Nat /\ Start(Window(t)) <= t /\ t < Start(Window(t)) + Seconds
<1>1. Seconds \in Nat /\ Seconds > 0
  BY Parameters
<1>2. t \div Seconds \in Nat /\ t % Seconds \in 0..(Seconds - 1)
      /\ t = (Seconds * (t \div Seconds)) + (t % Seconds)
  BY <1>1
<1> DEFINE d == t \div Seconds
           m == t % Seconds
<1>3. d \in Nat /\ m \in 0..(Seconds - 1) /\ t = (Seconds * d) + m
  BY <1>2
<1> HIDE DEF d, m
<1>4. d * Seconds <= t /\ t < d * Seconds + Seconds
  BY <1>1, <1>3
<1> QED BY <1>3, <1>4 DEF Window, Start, d

\* Windows are numbers.
LEMMA WindowNumbers == ASSUME NEW w \in Windows PROVE w \in Nat
<1>1. Window(MaxClock) \in Nat
  BY InWindow, Parameters
<1> QED BY <1>1 DEF Windows

\* What n setbacks add to the quota of a window.
Quota(n) == Limit * n

\* Every setback adds one limit.
LEMMA Quotas ==
    \A n \in Nat : /\ Quota(n) \in Nat /\ Quota(n + 1) = Quota(n) + Limit
                   /\ Limit * (1 + n) = Quota(n) + Limit
  BY Parameters DEF Quota

-----------------------------------------------------------------------------
(***************************************************************************)
(* The inductive invariant.                                                *)
(***************************************************************************)
Buckets == [window : Nat, count : Nat, updated : Nat]

TypeOK ==
    /\ clock \in Nat
    /\ bucket = Absent \/ bucket \in Buckets
    /\ asked \in [Requests -> Nat \cup {Absent}]
    /\ admitted \in [Windows -> Nat]
    /\ setback \in Nat /\ steps \in 0..MaxSteps

\* A request that waits asked for a window that had begun, as far as the clock
\* was ever ahead, and is at most one window late.
AskedInTime ==
    \A r \in Requests : asked[r] # Absent =>
        Start(asked[r]) <= clock + steps /\ clock < Start(asked[r]) + 2 * Seconds

\* A window of which something was admitted had begun by the last admission,
\* and when the row is gone it is long over.
AdmittedInTime ==
    \A w \in Windows : admitted[w] > 0 =>
        /\ Start(w) <= clock + steps
        /\ bucket # Absent => Start(w) <= bucket.updated + steps
        /\ bucket = Absent => Start(w) + Unused < clock + steps

\* What is left of the quota of a window: all of it after the row's window,
\* what the row does not count in it, nothing before it.
Used(w) ==
    IF bucket = Absent \/ w < bucket.window THEN Limit
    ELSE IF w = bucket.window THEN bucket.count
    ELSE 0

Counted ==
    /\ bucket # Absent => bucket.count <= Limit
    /\ \A w \in Windows : admitted[w] <= Quota(setback) + Used(w)

LInv == TypeOK /\ AskedInTime /\ AdmittedInTime /\ Counted

-----------------------------------------------------------------------------
\* It holds at first.
LEMMA InitLInv == ASSUME LimitInit PROVE LInv
<1>1. TypeOK /\ AskedInTime /\ AdmittedInTime
  BY Parameters DEF LimitInit, TypeOK, AskedInTime, AdmittedInTime
<1>2. Counted
  BY Quotas, Parameters DEF LimitInit, Counted, Used
<1> QED BY <1>1, <1>2 DEF LInv

\* A request computes the window of the moment.
LEMMA AskLInv == ASSUME LInv, NEW r \in Requests, Ask(r) PROVE LInv'
<1> USE DEF LInv
<1>1. /\ UNCHANGED <<clock, bucket, admitted, setback, steps>>
      /\ asked' = [asked EXCEPT ![r] = Window(clock)]
  BY DEF Ask
<1>2. clock \in Nat /\ steps \in Nat
  BY DEF TypeOK
<1>3. Window(clock) \in Nat /\ Start(Window(clock)) <= clock
      /\ clock < Start(Window(clock)) + Seconds /\ Start(Window(clock)) \in Nat
  BY <1>2, InWindow, Starts
<1>4. TypeOK'
  BY <1>1, <1>3 DEF TypeOK
<1>5. AskedInTime'
  <2> SUFFICES ASSUME NEW q \in Requests, asked'[q] # Absent
               PROVE  Start(asked'[q]) <= clock + steps /\ clock < Start(asked'[q]) + 2 * Seconds
    BY <1>1 DEF AskedInTime, Start
  <2>1. CASE q = r
    <3>1. asked'[q] = Window(clock)
      BY <1>1, <2>1 DEF TypeOK
    <3>2. Seconds \in Nat
      BY Parameters
    <3> QED BY <1>2, <1>3, <3>1, <3>2
  <2>2. CASE q # r
    BY <1>1, <2>2 DEF TypeOK, AskedInTime
  <2> QED BY <2>1, <2>2
<1>6. AdmittedInTime'
  BY <1>1 DEF AdmittedInTime, Windows, Start, Window
<1>7. Counted'
  BY <1>1 DEF Counted, Used, Windows, Quota, Window
<1> QED BY <1>4, <1>5, <1>6, <1>7

\* A request is refused.
LEMMA RefuseLInv == ASSUME LInv, NEW r \in Requests, Refuse(r) PROVE LInv'
<1> USE DEF LInv
<1>1. /\ UNCHANGED <<clock, bucket, admitted, setback, steps>>
      /\ asked' = [asked EXCEPT ![r] = Absent]
  BY DEF Refuse
<1>2. TypeOK'
  BY <1>1 DEF TypeOK
<1>3. AskedInTime'
  BY <1>1 DEF TypeOK, AskedInTime, Start
<1>4. AdmittedInTime'
  BY <1>1 DEF AdmittedInTime, Windows, Start, Window
<1>5. Counted'
  BY <1>1 DEF Counted, Used, Windows, Quota, Window
<1> QED BY <1>2, <1>3, <1>4, <1>5

\* When the row is gone, nothing was ever admitted of the window that a request
\* waits for, nor of a later one.
LEMMA NothingBefore ==
    ASSUME LInv, NEW r \in Requests, asked[r] # Absent, bucket = Absent,
           NEW w \in Windows, asked[r] <= w
    PROVE  admitted[w] = 0
<1>1. asked[r] \in Nat /\ clock < Start(asked[r]) + 2 * Seconds
  BY DEF LInv, TypeOK, AskedInTime
<1>2. w \in Nat /\ Start(asked[r]) <= Start(w) /\ Start(w) \in Nat /\ Start(asked[r]) \in Nat
  BY <1>1, Starts, WindowNumbers
<1>3. admitted[w] > 0 => Start(w) + Unused < clock + steps
  BY DEF LInv, AdmittedInTime
<1>4. steps \in 0..MaxSteps /\ clock \in Nat /\ admitted[w] \in Nat
  BY DEF LInv, TypeOK
<1> QED BY <1>1, <1>2, <1>3, <1>4, Parameters

\* A request is admitted: in the row's window, in a later one, or in an earlier
\* one, which sets the row back.
LEMMA AdmitLInv == ASSUME LInv, NEW r \in Requests, Admit(r) PROVE LInv'
<1> USE DEF LInv
<1> DEFINE v == asked[r]
           n == Count(v) + 1
<1>1. /\ v # Absent /\ Count(v) < Limit
      /\ bucket' = [window |-> v, count |-> n, updated |-> clock]
      /\ admitted' = [admitted EXCEPT ![v] = @ + 1]
      /\ setback' = IF bucket # Absent /\ v < bucket.window THEN setback + 1 ELSE setback
      /\ asked' = [asked EXCEPT ![r] = Absent]
      /\ UNCHANGED <<clock, steps>>
  BY DEF Admit
<1>2. v \in Nat /\ Count(v) \in Nat /\ clock \in Nat /\ steps \in Nat /\ setback \in Nat
  BY <1>1 DEF TypeOK, Count, Buckets
<1>3. bucket' \in Buckets /\ bucket' # Absent
      /\ bucket'.window = v /\ bucket'.count = n /\ bucket'.updated = clock
  BY <1>1, <1>2, Parameters DEF Buckets
<1>4. Start(v) <= clock + steps /\ Start(v) \in Nat
  BY <1>1, <1>2, Starts DEF AskedInTime
<1> HIDE DEF v, n
<1>5. TypeOK'
  <2>1. asked' \in [Requests -> Nat \cup {Absent}]
    BY <1>1 DEF TypeOK
  <2>2. admitted' \in [Windows -> Nat]
    <3>1. admitted \in [Windows -> Nat] /\ admitted' = [admitted EXCEPT ![v] = @ + 1]
      BY <1>1 DEF TypeOK
    <3>2. v \in Windows => admitted[v] + 1 \in Nat
      BY <3>1
    <3> QED BY <3>1, <3>2
  <2> QED BY <1>1, <1>2, <1>3, <2>1, <2>2 DEF TypeOK, Windows, Window, Buckets
<1>6. AskedInTime'
  BY <1>1 DEF TypeOK, AskedInTime, Start
<1>7. AdmittedInTime'
  <2> SUFFICES ASSUME NEW w \in Windows, admitted'[w] > 0 PROVE Start(w) <= clock + steps
    BY <1>1, <1>3 DEF AdmittedInTime, Windows, Start, Window
  <2>1. CASE w = v
    BY <1>4, <2>1
  <2>2. CASE w # v
    BY <1>1, <2>2 DEF TypeOK, AdmittedInTime
  <2> QED BY <2>1, <2>2
<1>8. Counted'
  <2>1. n <= Limit /\ n \in Nat
    BY <1>1, <1>2, Parameters DEF n
  <2>2. ASSUME NEW w \in Windows
        PROVE  admitted'[w] <= Quota(setback') + (IF w < v THEN Limit ELSE IF w = v THEN n ELSE 0)
    <3>1. /\ w \in Nat /\ admitted[w] \in Nat /\ admitted[w] <= Quota(setback) + Used(w)
          /\ admitted'[w] = IF w = v THEN admitted[w] + 1 ELSE admitted[w]
      BY <1>1, WindowNumbers DEF TypeOK, Counted
    <3>2. /\ Quota(setback) \in Nat /\ Quota(setback + 1) = Quota(setback) + Limit
          /\ Limit \in Nat
      BY <1>2, Quotas, Parameters
    <3>3. CASE bucket = Absent
      <4>1. setback' = setback /\ n = 1 /\ (v <= w => admitted[w] = 0)
        BY <1>1, <3>3, NothingBefore DEF n, v, Count
      <4> QED BY <1>2, <3>1, <3>2, <3>3, <4>1 DEF Used
    <3>4. CASE bucket # Absent
      <4>1. /\ bucket.window \in Nat /\ bucket.count \in Nat /\ bucket.count <= Limit
            /\ n = IF bucket.window = v THEN bucket.count + 1 ELSE 1
        BY <3>4 DEF TypeOK, Buckets, Counted, n, Count
      <4>2. CASE v < bucket.window
        <5>1. setback' = setback + 1 /\ Used(w) <= Limit /\ Used(w) \in Nat /\ n = 1
          BY <1>1, <1>2, <3>1, <3>2, <3>4, <4>1, <4>2 DEF Used
        <5> QED BY <1>2, <3>1, <3>2, <5>1
      <4>3. CASE v = bucket.window
        <5>1. setback' = setback /\ n = bucket.count + 1
          BY <1>1, <1>2, <3>4, <4>1, <4>3
        <5> QED BY <1>2, <3>1, <3>2, <3>4, <4>1, <4>3, <5>1 DEF Used
      <4>4. CASE v > bucket.window
        <5>1. setback' = setback /\ n = 1
          BY <1>1, <1>2, <3>4, <4>1, <4>4
        <5> QED BY <1>2, <3>1, <3>2, <3>4, <4>1, <4>4, <5>1 DEF Used
      <4> QED BY <1>2, <4>1, <4>2, <4>3, <4>4
    <3> QED BY <3>3, <3>4
  <2> QED BY <1>3, <2>1, <2>2 DEF Counted, Used, Windows, Quota, Window
<1> QED BY <1>5, <1>6, <1>7, <1>8

\* An idle row is deleted.
LEMMA PruneLInv == ASSUME LInv, Prune PROVE LInv'
<1> USE DEF LInv
<1>1. /\ bucket # Absent /\ bucket.updated + Unused < clock /\ bucket' = Absent
      /\ UNCHANGED <<clock, asked, admitted, setback, steps>>
  BY DEF Prune, Forgotten
<1>2. /\ bucket \in Buckets /\ bucket.updated \in Nat /\ bucket.window \in Nat
      /\ bucket.count \in Nat /\ clock \in Nat /\ steps \in Nat /\ setback \in Nat
  BY <1>1 DEF TypeOK, Buckets
<1>3. TypeOK'
  BY <1>1 DEF TypeOK
<1>4. AskedInTime'
  BY <1>1 DEF AskedInTime, Start
<1>5. AdmittedInTime'
  <2> SUFFICES ASSUME NEW w \in Windows, admitted[w] > 0
               PROVE  Start(w) <= clock + steps /\ Start(w) + Unused < clock + steps
    BY <1>1 DEF AdmittedInTime, Windows, Start, Window
  <2>1. Start(w) <= bucket.updated + steps /\ Start(w) \in Nat /\ Unused \in Nat
    BY <1>1, Starts, WindowNumbers, Parameters DEF AdmittedInTime
  <2> QED BY <1>1, <1>2, <2>1
<1>6. Counted'
  <2> SUFFICES ASSUME NEW w \in Windows PROVE admitted[w] <= Quota(setback) + Limit
    BY <1>1 DEF Counted, Used, Windows, Quota, Window
  <2>1. admitted[w] <= Quota(setback) + Used(w) /\ admitted[w] \in Nat
        /\ Quota(setback) \in Nat /\ Limit \in Nat
    BY <1>2, Quotas, Parameters DEF Counted, TypeOK
  <2>2. Used(w) \in Nat /\ Used(w) <= Limit
    BY <1>1, <1>2, <2>1 DEF Used, Counted
  <2> QED BY <2>1, <2>2
<1> QED BY <1>3, <1>4, <1>5, <1>6

\* The clock goes on, or is set back.
LEMMA ClockLInv == ASSUME LInv, Tick \/ StepBack PROVE LInv'
<1> USE DEF LInv
<1>1. /\ UNCHANGED <<bucket, asked, admitted, setback>>
      /\ clock' \in Nat /\ steps' \in 0..MaxSteps /\ clock' + steps' >= clock + steps
      /\ steps' >= steps /\ clock \in Nat /\ steps \in Nat /\ steps' \in Nat
  BY Parameters DEF Tick, StepBack, TypeOK
<1>2. /\ clock \in Nat /\ steps \in Nat /\ clock' \in Nat /\ steps' \in Nat
      /\ clock + steps <= clock' + steps' /\ steps <= steps'
  BY <1>1
<1>3. clock + steps \in Nat /\ clock' + steps' \in Nat
  <2> \A a, b \in Nat : a + b \in Nat
    OBVIOUS
  <2> QED BY <1>2, Zenon
<1>4. TypeOK'
  BY <1>1 DEF TypeOK, Windows, Window
<1>5. AskedInTime'
  <2> SUFFICES ASSUME NEW r \in Requests, asked[r] # Absent
               PROVE  Start(asked[r]) <= clock' + steps'
                      /\ clock' < Start(asked[r]) + 2 * Seconds
    BY <1>1 DEF AskedInTime, Start
  <2>1. /\ asked[r] \in Nat /\ Start(asked[r]) \in Nat /\ Seconds \in Nat
        /\ Start(asked[r]) <= clock + steps /\ clock < Start(asked[r]) + 2 * Seconds
    BY Starts, Parameters DEF TypeOK, AskedInTime
  <2>2. clock' < Start(asked[r]) + 2 * Seconds
    <3>1. CASE StepBack
      BY <1>1, <2>1, <3>1 DEF StepBack
    <3>2. CASE Tick
      <4>1. clock' = clock + 1 /\ Window(clock') <= asked[r] + 1
        BY <3>2 DEF Tick
      <4>2. Window(clock') \in Nat /\ clock' < Start(Window(clock')) + Seconds
        BY <1>1, InWindow
      <4>3. Start(Window(clock')) <= Start(asked[r] + 1) /\ Start(Window(clock')) \in Nat
            /\ Start(asked[r] + 1) = Start(asked[r]) + Seconds
        <5>1. /\ asked[r] + 1 \in Nat /\ Window(clock') \in Nat /\ Window(clock') <= asked[r] + 1
              /\ asked[r] \in Nat
          BY <2>1, <4>1, <4>2
        <5> QED BY <5>1, Starts
      <4> QED BY <1>1, <2>1, <4>2, <4>3
    <3> QED BY <3>1, <3>2
  <2>3. Start(asked[r]) <= clock' + steps'
    BY <1>2, <1>3, <2>1, Below
  <2> QED BY <2>2, <2>3
<1>6. AdmittedInTime'
  <2> SUFFICES ASSUME NEW w \in Windows, admitted[w] > 0
               PROVE  /\ Start(w) <= clock' + steps'
                      /\ bucket # Absent => Start(w) <= bucket.updated + steps'
                      /\ bucket = Absent => Start(w) + Unused < clock' + steps'
    BY <1>1 DEF AdmittedInTime, Windows, Start, Window
  <2>1. Start(w) \in Nat /\ Unused \in Nat
    BY Starts, WindowNumbers, Parameters
  <2>2. bucket # Absent => bucket.updated \in Nat
    BY DEF TypeOK, Buckets
  <2>3. /\ Start(w) <= clock + steps
        /\ bucket # Absent => Start(w) <= bucket.updated + steps
        /\ bucket = Absent => Start(w) + Unused < clock + steps
    BY DEF AdmittedInTime
  <2>4. Start(w) <= clock' + steps'
    BY <1>2, <1>3, <2>1, <2>3, Below
  <2>5. bucket # Absent => Start(w) <= bucket.updated + steps'
    BY <1>2, <2>1, <2>2, <2>3
  <2>6. bucket = Absent => Start(w) + Unused < clock' + steps'
    <3>1. Start(w) + Unused \in Nat
      BY <2>1
    <3> QED BY <1>2, <1>3, <2>3, <3>1, Below
  <2> QED BY <2>4, <2>5, <2>6
<1>7. Counted'
  BY <1>1 DEF Counted, Used, Windows, Quota, Window
<1> QED BY <1>4, <1>5, <1>6, <1>7

-----------------------------------------------------------------------------
(***************************************************************************)
(* The theorems.                                                           *)
(***************************************************************************)

\* Every step keeps it.
LEMMA NextLInv == LInv /\ [LimitNext]_limitVars => LInv'
<1> SUFFICES ASSUME LInv, [LimitNext]_limitVars PROVE LInv'
  OBVIOUS
<1>1. CASE UNCHANGED limitVars
  BY <1>1 DEF limitVars, LInv, TypeOK, AskedInTime, AdmittedInTime, Counted, Used, Windows, Window,
              Start, Quota, Buckets
<1>2. CASE LimitNext
  BY <1>2, AskLInv, RefuseLInv, AdmitLInv, PruneLInv, ClockLInv DEF LimitNext
<1> QED BY <1>1, <1>2

\* What was admitted of a window is what the row counts of it, and a row that
\* is deleted counts nothing that could still be asked for.
THEOREM Invariance == LimitSpec => []LInv
<1>1. LimitInit => LInv
  BY InitLInv
<1>2. LInv /\ [LimitNext]_limitVars => LInv'
  BY NextLInv
<1> QED BY <1>1, <1>2, PTL DEF LimitSpec

\* A window admits its quota, and once more for every setback of its row.
THEOREM QuotaKept == LimitSpec => []WithinQuota
<1>1. LInv => WithinQuota
  <2> SUFFICES ASSUME LInv, NEW w \in Windows PROVE admitted[w] <= Limit * (1 + setback)
    BY DEF WithinQuota
  <2>1. /\ admitted[w] <= Quota(setback) + Used(w) /\ admitted[w] \in Nat
        /\ Quota(setback) \in Nat /\ Limit \in Nat /\ Limit * (1 + setback) = Quota(setback) + Limit
    BY Quotas, Parameters DEF LInv, Counted, TypeOK
  <2>2. Used(w) \in Nat /\ Used(w) <= Limit
    BY <2>1 DEF LInv, TypeOK, Buckets, Used, Counted
  <2> QED BY <2>1, <2>2
<1>2. LimitSpec => []LInv
  BY Invariance
<1> QED BY <1>1, <1>2, PTL
=============================================================================
