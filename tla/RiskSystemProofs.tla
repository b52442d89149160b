-------------------------- MODULE RiskSystemProofs --------------------------
(***************************************************************************)
(* Proofs about RiskSystem.  What is proved of the command queue alone and *)
(* of the EA alone is used here with the constants of the composition: P   *)
(* is the queue with its theorems, and F is the EA with its own.           *)
(***************************************************************************)
EXTENDS RiskSystem, TLAPS

P == INSTANCE CommandQueueProofs WITH
        Agents <- {Agent}, Sessions <- 1..MaxBoots, Outcomes <- E!Statuses
F == INSTANCE EaAgentProofs WITH Commands <- 1..MaxCommands, MaxTtl <- Ttl

-----------------------------------------------------------------------------
(***************************************************************************)
(* One definition under two names.                                         *)
(***************************************************************************)

\* What a poll is made of.
LEMMA SameSteps ==
    /\ Q!Ids = P!Ids /\ Q!NoResult = P!NoResult /\ Q!NoSubmission = P!NoSubmission
    /\ Q!Submissions = P!Submissions /\ Q!Reports = P!Reports /\ Q!Rows = P!Rows
    /\ \A w : Q!Expire(w) = P!Expire(w) /\ Q!Online(w) = P!Online(w)
    /\ \A w, m : Q!Receive(w, m) = P!Receive(w, m)
    /\ \A w, a : Q!Waiting(w, a) = P!Waiting(w, a)
    /\ \A c, r : Q!Permitted(c, r) = P!Permitted(c, r)
    /\ \A w, c, s : Q!Foreign(w, c, s) = P!Foreign(w, c, s)
    /\ \A c : Q!Executing(c) = P!Executing(c) /\ Q!Outstanding(c) = P!Outstanding(c)
<1>1. /\ Q!Ids = P!Ids /\ Q!NoResult = P!NoResult /\ Q!NoSubmission = P!NoSubmission
      /\ Q!Submissions = P!Submissions /\ Q!Reports = P!Reports /\ Q!Rows = P!Rows
  BY DEF Q!Ids, P!Ids, Q!NoResult, P!NoResult, Q!NoSubmission, P!NoSubmission, Q!Submissions,
         P!Submissions, Q!Reports, P!Reports, Q!Rows, P!Rows
<1>2. \A w : Q!Expire(w) = P!Expire(w) /\ Q!Online(w) = P!Online(w)
  BY DEF Q!Expire, P!Expire, Q!Online, P!Online, Q!Doubtful, P!Doubtful, Q!Due, P!Due, Q!Executing,
         P!Executing, Q!Ids, P!Ids, Q!ACTIVE, P!ACTIVE, Q!Pending, P!Pending
<1>3. \A w, m : Q!Receive(w, m) = P!Receive(w, m)
  BY DEF Q!Receive, P!Receive, Q!Accept, P!Accept, Q!Settled, P!Settled, Q!SettledAccount,
         P!SettledAccount, Q!Executing, P!Executing, Q!NoSubmission, P!NoSubmission,
         Q!NoResult, P!NoResult
<1>4. \A w, a : Q!Waiting(w, a) = P!Waiting(w, a)
  BY DEF Q!Waiting, P!Waiting, Q!Ids, P!Ids, Q!Pending, P!Pending
<1>5. /\ \A c, r : Q!Permitted(c, r) = P!Permitted(c, r)
      /\ \A w, c, s : Q!Foreign(w, c, s) = P!Foreign(w, c, s)
      /\ \A c : Q!Executing(c) = P!Executing(c) /\ Q!Outstanding(c) = P!Outstanding(c)
  BY DEF Q!Permitted, P!Permitted, Q!Foreign, P!Foreign, Q!Executing, P!Executing, Q!Outstanding,
         P!Outstanding
<1> QED BY <1>1, <1>2, <1>3, <1>4, <1>5

\* A poll.
LEMMA SamePoll ==
    /\ \A a, s, r, m : Q!Poll(a, s, r, m) = P!Poll(a, s, r, m)
    /\ \A a, m : Q!Acceptable(a, m) = P!Acceptable(a, m)
<1>1. \A w, a, s, r : Q!Dispatch(w, a, s, r) = P!Dispatch(w, a, s, r)
  BY SameSteps DEF Q!Dispatch, P!Dispatch, Q!Withhold, P!Withhold, Q!Disown, P!Disown, Q!Lease, P!Lease,
         Q!Redeliver, P!Redeliver, Q!Hand, P!Hand, Q!Write, P!Write
<1>2. \A a, s, r, m : Q!Heard(a, s) = P!Heard(a, s) /\ Q!Acceptable(a, m) = P!Acceptable(a, m)
                     /\ Q!Heartbeat(a, s, r) = P!Heartbeat(a, s, r)
  BY DEF Q!Heard, P!Heard, Q!Acceptable, P!Acceptable, Q!Heartbeat, P!Heartbeat, Q!NoResult, P!NoResult
<1> QED BY SameSteps, <1>1, <1>2 DEF Q!Poll, P!Poll, Q!commandVars, P!commandVars

\* The handlers of the human and of the operator, the sweeper and time.
LEMMA SameHandlers ==
    /\ \A a, s : Q!Pair(a, s) = P!Pair(a, s)
    /\ \A a : Q!RequestPreview(a) = P!RequestPreview(a) /\ Q!Revoke(a) = P!Revoke(a)
    /\ \A p, a : Q!Confirm(p, a) = P!Confirm(p, a)
    /\ \A p : Q!Cancel(p) = P!Cancel(p) /\ Q!Reconcile(p) = P!Reconcile(p)
    /\ Q!Sweep = P!Sweep /\ Q!Tick = P!Tick /\ Q!Init = P!Init
<1>1. /\ \A a, s : Q!Pair(a, s) = P!Pair(a, s)
      /\ Q!Tick = P!Tick
  BY DEF Q!Pair, P!Pair, Q!Tick, P!Tick, Q!commandVars, P!commandVars, Q!Ids, P!Ids, Q!Stale, P!Stale
<1>2. \A a : Q!RequestPreview(a) = P!RequestPreview(a)
  BY SameSteps DEF Q!RequestPreview, P!RequestPreview, Q!Available, P!Available, Q!Idle, P!Idle, Q!Active,
         P!Active, Q!ACTIVE, P!ACTIVE, Q!Pending, P!Pending, Q!Create, P!Create, Q!Write,
         P!Write, Q!agentVars, P!agentVars
<1>3. \A a : Q!Revoke(a) = P!Revoke(a)
  BY DEF Q!Revoke, P!Revoke, Q!Revoked, P!Revoked, Q!Kept, P!Kept, Q!Withdrawn, P!Withdrawn, Q!Active,
         P!Active, Q!Executing, P!Executing, Q!ACTIVE, P!ACTIVE, Q!Pending, P!Pending, Q!Ids,
         P!Ids, Q!Rows, P!Rows, Q!Expire, P!Expire, Q!Doubtful, P!Doubtful, Q!Due, P!Due,
         Q!Write, P!Write, Q!commandVars, P!commandVars
<1>4. \A p, a : Q!Confirm(p, a) = P!Confirm(p, a)
  BY SameSteps DEF Q!Confirm, P!Confirm, Q!Confirmable, P!Confirmable, Q!Available, P!Available, Q!Create,
         P!Create, Q!Write, P!Write, Q!agentVars, P!agentVars
<1>5. /\ \A p : Q!Cancel(p) = P!Cancel(p) /\ Q!Reconcile(p) = P!Reconcile(p)
      /\ Q!Sweep = P!Sweep
  BY SameSteps DEF Q!Cancel, P!Cancel, Q!Reconcile, P!Reconcile, Q!Confirmable, P!Confirmable, Q!Sweep, P!Sweep,
         Q!Due, P!Due, Q!ACTIVE, P!ACTIVE, Q!Pending, P!Pending, Q!Write, P!Write,
         Q!commandVars, P!commandVars, Q!agentVars, P!agentVars
<1>6. Q!Init = P!Init
  BY DEF Q!Init, P!Init, Q!Ids, P!Ids, Q!Stale, P!Stale, Q!NoResult, P!NoResult
<1> QED BY <1>1, <1>2, <1>3, <1>4, <1>5, <1>6

\* The invariant of the queue, now and next.
LEMMA SameQueueInvariant == Q!IInv = P!IInv /\ Q!IInv' = P!IInv'
<1>1. Q!IInv = P!IInv
  BY DEF Q!IInv, P!IInv, Q!TypeOK, P!TypeOK, Q!AccountStatus, P!AccountStatus, Q!CommandStatus,
         P!CommandStatus, Q!ACTIVE, P!ACTIVE, Q!Pending, P!Pending, Q!Terminal, P!Terminal,
         Q!Reports, P!Reports, Q!Kinds, P!Kinds, Q!Stale, P!Stale, Q!Ids, P!Ids, Q!NoResult,
         P!NoResult, Q!Consistent, P!Consistent, Q!BlockMatches, P!BlockMatches, Q!Single,
         P!Single, Q!Lifecycle, P!Lifecycle, Q!ResultKept, P!ResultKept, Q!Owned, P!Owned,
         Q!Active, P!Active, Q!Executing, P!Executing, Q!Provenance, P!Provenance, Q!Rows,
         P!Rows
<1>2. Q!IInv' = P!IInv'
  BY DEF Q!IInv, P!IInv, Q!TypeOK, P!TypeOK, Q!AccountStatus, P!AccountStatus, Q!CommandStatus,
         P!CommandStatus, Q!ACTIVE, P!ACTIVE, Q!Pending, P!Pending, Q!Terminal, P!Terminal,
         Q!Reports, P!Reports, Q!Kinds, P!Kinds, Q!Stale, P!Stale, Q!Ids, P!Ids, Q!NoResult,
         P!NoResult, Q!Consistent, P!Consistent, Q!BlockMatches, P!BlockMatches, Q!Single,
         P!Single, Q!Lifecycle, P!Lifecycle, Q!ResultKept, P!ResultKept, Q!Owned, P!Owned,
         Q!Active, P!Active, Q!Executing, P!Executing, Q!Provenance, P!Provenance, Q!Rows,
         P!Rows
<1> QED BY <1>1, <1>2

\* The invariant of the EA, now and next.
LEMMA SameAgentInvariant == E!IInv = F!IInv /\ E!IInv' = F!IInv'
<1>1. E!IInv = F!IInv
  BY DEF E!IInv, F!IInv, E!TypeOK, F!TypeOK, E!Phases, F!Phases, E!Entries, F!Entries, E!Pendings,
         F!Pendings, E!Tasks, F!Tasks, E!Statuses, F!Statuses, E!NoResult, F!NoResult,
         E!JournalShape, F!JournalShape, E!MemoryMatchesDisk, F!MemoryMatchesDisk, E!Listening,
         F!Listening, E!Record, F!Record, E!Known, F!Known, E!Truthful, F!Truthful, E!Entry,
         F!Entry
<1>2. E!IInv' = F!IInv'
  BY DEF E!IInv, F!IInv, E!TypeOK, F!TypeOK, E!Phases, F!Phases, E!Entries, F!Entries, E!Pendings,
         F!Pendings, E!Tasks, F!Tasks, E!Statuses, F!Statuses, E!NoResult, F!NoResult,
         E!JournalShape, F!JournalShape, E!MemoryMatchesDisk, F!MemoryMatchesDisk, E!Listening,
         F!Listening, E!Record, F!Record, E!Known, F!Known, E!Truthful, F!Truthful, E!Entry,
         F!Entry
<1> QED BY <1>1, <1>2

\* The steps of the EA.
LEMMA SameAgent ==
    /\ E!Init = F!Init /\ E!Start = F!Start /\ E!Ask = F!Ask /\ E!Fail = F!Fail
    /\ E!Crash = F!Crash /\ E!Tick = F!Tick /\ E!Local = F!Local
    /\ \A ack, t : E!Respond(ack, t) = F!Respond(ack, t)
    /\ E!Tasks = F!Tasks /\ E!Statuses = F!Statuses /\ E!Empty = F!Empty
<1>1. /\ E!Init = F!Init
      /\ E!Tasks = F!Tasks /\ E!Statuses = F!Statuses /\ E!Empty = F!Empty
  BY DEF E!Init, F!Init, E!Empty, F!Empty, E!Entry, F!Entry, E!NoPending, F!NoPending, E!NoTask,
         F!NoTask, E!NoResult, F!NoResult, E!Tasks, F!Tasks, E!Statuses, F!Statuses
<1>2. E!Start = F!Start
  BY DEF E!Start, F!Start, E!Resume, F!Resume, E!Overlook, F!Overlook, E!RecoveryFails,
         F!RecoveryFails, E!ComeUp, F!ComeUp, E!Dropped, F!Dropped, E!Recovered, F!Recovered,
         E!Interrupted, F!Interrupted, E!Empty, F!Empty, E!Torn, F!Torn, E!Entry, F!Entry,
         E!NoPending, F!NoPending, E!NoResult, F!NoResult
<1>3. /\ E!Ask = F!Ask /\ E!Fail = F!Fail /\ E!Crash = F!Crash /\ E!Tick = F!Tick
      /\ \A ack, t : E!Respond(ack, t) = F!Respond(ack, t)
  BY DEF E!Ask, F!Ask, E!Fail, F!Fail, E!Crash, F!Crash, E!Tick, F!Tick, E!Respond, F!Respond,
         E!disk, F!disk, E!history, F!history, E!NoPending, F!NoPending, E!NoTask, F!NoTask,
         E!NoResult, F!NoResult
<1>4. /\ E!Remember = F!Remember /\ E!Forget = F!Forget /\ E!Skip = F!Skip
      /\ E!OrderSend = F!OrderSend
  BY DEF E!Remember, F!Remember, E!Dropped, F!Dropped, E!Forget, F!Forget, E!Skip, F!Skip, E!OrderSend, F!OrderSend, E!Fresh,
         F!Fresh, E!InTime, F!InTime, E!Empty, F!Empty, E!Entry, F!Entry, E!NoResult,
         F!NoResult, E!NoPending, F!NoPending, E!NoTask, F!NoTask, E!disk, F!disk, E!history,
         F!history
<1>5. E!Begin = F!Begin
  BY DEF E!Begin, F!Begin, E!Fresh, F!Fresh, E!Record, F!Record, E!Save, F!Save, E!Dropped,
         F!Dropped, E!Empty, F!Empty, E!Torn, F!Torn, E!Entry, F!Entry, E!NoResult, F!NoResult
<1>6. \A r : E!Finish(r) = F!Finish(r)
  BY DEF E!Finish, F!Finish, E!Results, F!Results, E!Statuses, F!Statuses, E!Save, F!Save, E!Dropped,
         F!Dropped, E!Empty, F!Empty, E!Torn, F!Torn, E!Entry, F!Entry, E!NoTask, F!NoTask,
         E!NoResult, F!NoResult
<1>7. E!Local = F!Local
  BY <1>1, <1>4, <1>5, <1>6 DEF E!Local, F!Local
<1> QED BY <1>1, <1>2, <1>3, <1>7

-----------------------------------------------------------------------------
(***************************************************************************)
(* The steps of the queue, as the EA's side sees them.                     *)
(***************************************************************************)

\* The constants are what the theorems of the queue and of the EA assume.
LEMMA Constants ==
    /\ MaxCommands \in Nat /\ Ttl \in Nat \ {0} /\ MaxBoots \in Nat
    /\ OnlineWindow \in Nat /\ BusyWindow \in Nat
    /\ E!Statuses \subseteq {"SUCCEEDED", "PARTIAL", "FAILED", "UNCERTAIN"}
    /\ None \notin {Agent} /\ None \notin 1..MaxBoots /\ None \notin 1..MaxCommands
  BY BootsAssumption, CommandsAssumption, TtlAssumption, WindowAssumption, NoneAssumption
     DEF E!Statuses

\* InSight by its name in the queue's proofs.
LEMMA SameInSight == \A c : (InSight(c) <=> P!InSight(c)) /\ (InSight(c)' <=> P!InSight(c)')
  BY DEF InSight, P!InSight, Q!NoResult, P!NoResult, Q!Outstanding, P!Outstanding,
         Q!Executing, P!Executing

\* The steps of the queue's proofs, command by command: results and leases
\* stay, and what was leased stays in sight.
LEMMA MovesSighted ==
    ASSUME Q!IInv, Q!IInv', Sighted, \A c \in Q!Ids : P!Moves(c)
    PROVE  /\ Sighted'
           /\ \A c \in Q!Ids : /\ result[c] # Q!NoResult => result'[c] = result[c]
                               /\ delivered[c] # None => delivered'[c] = delivered[c]
<1>1. P!IInv /\ P!IInv'
  BY SameQueueInvariant
<1>2. ASSUME NEW c \in Q!Ids
      PROVE  /\ result[c] # Q!NoResult => result'[c] = result[c]
             /\ delivered'[c] # delivered[c] => status[c] = "PENDING"
             /\ Q!Executing(c)' /\ ~Q!Executing(c) => status'[c] = "PENDING"
             /\ status'[c] = "UNCERTAIN" /\ Q!Executing(c) => status[c] \in {"LEASED", "UNCERTAIN"}
             /\ status'[c] \in {"SUCCEEDED", "PARTIAL", "FAILED"} /\ Q!Executing(c) =>
                  status[c] \in {status'[c], "LEASED", "UNCERTAIN"}
             /\ InSight(c) => InSight(c)'
  <2>1. P!Moves(c) /\ c \in P!Ids
    BY SameSteps
  <2>2. P!InSight(c) => P!InSight(c)'
    BY <1>1, <2>1, P!MovesInSight, Constants
  <2>3. /\ result[c] # Q!NoResult => result'[c] = result[c]
        /\ delivered'[c] # delivered[c] => status[c] = "PENDING"
        /\ Q!Executing(c)' /\ ~Q!Executing(c) => status'[c] = "PENDING"
    BY <2>1 DEF P!Moves, P!NoResult, Q!NoResult, P!Executing, Q!Executing
  <2>4. /\ status'[c] = "UNCERTAIN" /\ Q!Executing(c) => status[c] \in {"LEASED", "UNCERTAIN"}
        /\ status'[c] \in {"SUCCEEDED", "PARTIAL", "FAILED"} /\ Q!Executing(c) =>
             status[c] \in {status'[c], "LEASED", "UNCERTAIN"}
    BY <2>1 DEF P!Moves, P!Onward, P!Executing, Q!Executing
  <2> QED BY <2>2, <2>3, <2>4, SameInSight
<1>3. \A c \in Q!Ids : status[c] = "PENDING" => delivered[c] = None
  BY DEF Q!IInv, Q!Consistent, Q!Lifecycle, Q!Rows
<1>4. ASSUME NEW c \in 1..created', Q!Executing(c)'
      PROVE  status'[c] \in {"PENDING", "EXPIRED"} \/ InSight(c)'
  <2>1. c \in Q!Ids
    BY Constants DEF Q!IInv, Q!TypeOK, Q!Ids
  <2>2. /\ status'[c] \in {"PENDING", "LEASED", "UNCERTAIN", "EXPIRED"} \cup Q!Terminal
        /\ status'[c] \in {"LEASED", "UNCERTAIN"} => Q!Outstanding(c)'
    <3>1. status'[c] \in Q!CommandStatus /\ created' \in 0..MaxCommands
      BY <2>1 DEF Q!IInv, Q!TypeOK
    <3>2. ~(c > created')
      BY <3>1, Constants
    <3>3. status'[c] # "NEW" /\ status'[c] # "AWAITING_CONFIRMATION"
      BY <1>4, <2>1, <3>2 DEF Q!IInv, Q!Consistent, Q!Lifecycle, Q!Rows, Q!Ids
    <3> QED BY <1>4, <3>1, <3>3 DEF Q!CommandStatus, Q!ACTIVE, Q!Pending, Q!Terminal, Q!Outstanding,
               Q!Executing
  <2>3. CASE ~Q!Executing(c)
    BY <1>2, <1>4, <2>1, <2>3
  <2>4. CASE Q!Executing(c)
    <3>1. c \in 1..created
      BY <2>1, <2>4 DEF Q!IInv, Q!Provenance, Q!Ids, Q!TypeOK
    <3>2. status[c] \in {"PENDING", "EXPIRED"} \/ InSight(c)
      BY <2>4, <3>1 DEF Sighted
    <3>3. CASE InSight(c)
      BY <1>2, <2>1, <3>3
    <3>4. CASE status[c] \in {"PENDING", "EXPIRED"}
      <4>1. status'[c] \notin {"UNCERTAIN", "SUCCEEDED", "PARTIAL", "FAILED"}
        BY <1>2, <2>1, <2>4, <3>4
      <4> QED BY <2>2, <4>1 DEF Q!Terminal, InSight
    <3> QED BY <3>2, <3>3, <3>4
  <2> QED BY <2>3, <2>4
<1>5. Sighted'
  BY <1>4 DEF Sighted, InSight, Q!Outstanding, Q!Executing, Q!NoResult
<1> QED BY <1>2, <1>3, <1>5

\* A poll stores the result it carries and nothing else, and leases to its own
\* session only.
LEMMA PollStep ==
    ASSUME Q!IInv, Sighted, NEW s \in 1..MaxBoots, NEW r \in Q!Reports, NEW m \in Q!Submissions,
           Q!Poll(Agent, s, r, m)
    PROVE  /\ Q!IInv' /\ Sighted'
           /\ UNCHANGED <<created, kind, ttl>>
           /\ result' = IF m = Q!NoSubmission THEN result
                        ELSE [result EXCEPT ![m.command] = m.status]
           /\ \A c \in Q!Ids : /\ result[c] # Q!NoResult => result'[c] = result[c]
                               /\ delivered[c] # None => delivered'[c] = delivered[c]
                               /\ delivered'[c] \in {delivered[c], s}
<1>1. P!IInv /\ P!Poll(Agent, s, r, m) /\ r \in P!Reports /\ m \in P!Submissions /\ Agent \in {Agent}
  BY SameQueueInvariant, SamePoll, SameSteps
<1>2. P!IInv'
  BY <1>1, P!PollIInv, Constants
<1>3. ASSUME NEW c \in Q!Ids PROVE P!Moves(c) /\ delivered'[c] \in {delivered[c], s}
  <2>1. c \in P!Ids
    BY SameSteps
  <2> QED BY <1>1, <2>1, P!PollMoves, P!PollLeases, Constants
<1>4. /\ UNCHANGED <<created, kind, ttl>>
      /\ result' = IF m = Q!NoSubmission THEN result
                   ELSE [result EXCEPT ![m.command] = m.status]
  BY DEF Q!Poll, Q!commandVars
<1> QED BY <1>2, <1>3, <1>4, MovesSighted, SameQueueInvariant

\* A handler other than a poll.
Handles ==
    \/ Q!Sweep
    \/ \E s \in 1..MaxBoots : Q!Pair(Agent, s)
    \/ Q!RequestPreview(Agent) \/ Q!Revoke(Agent)
    \/ \E p \in Q!Ids : Q!Cancel(p) \/ Q!Confirm(p, Agent) \/ Q!Reconcile(p)

\* It touches neither results nor leases nor what it finds.
LEMMA HandlerStep ==
    ASSUME Q!IInv, Sighted, Handles
    PROVE  /\ Q!IInv' /\ Sighted'
           /\ UNCHANGED <<result, delivered>>
           /\ \A c \in 1..created : c \in 1..created' /\ ttl'[c] = ttl[c] /\ kind'[c] = kind[c]
<1>1. /\ P!IInv
      /\ \/ P!Sweep
         \/ \E a \in {Agent}, s \in 1..MaxBoots : P!Pair(a, s)
         \/ \E a \in {Agent} : P!RequestPreview(a) \/ P!Revoke(a)
         \/ \E p \in P!Ids : P!Cancel(p) \/ P!Reconcile(p) \/ \E a \in {Agent} : P!Confirm(p, a)
  BY SameQueueInvariant, SameSteps, SameHandlers DEF Handles
<1>2. P!Next
  BY <1>1 DEF P!Next, P!Matching
<1>3. P!IInv'
  BY <1>1, <1>2, P!NextIInv, Constants
<1>4. ASSUME NEW c \in Q!Ids PROVE P!Moves(c)
  <2>1. c \in P!Ids
    BY SameSteps
  <2> QED BY <1>1, <1>2, <2>1, P!NextMoves, Constants
<1>5. ASSUME NEW c \in 1..created
      PROVE  c \in 1..created' /\ ttl'[c] = ttl[c] /\ kind'[c] = kind[c]
  BY <1>1, P!HandlerFrame, Constants
<1>6. UNCHANGED <<result, delivered>>
  BY DEF Handles, Q!Sweep, Q!Pair, Q!RequestPreview, Q!Revoke, Q!Cancel, Q!Confirm, Q!Reconcile
<1> QED BY <1>3, <1>4, <1>5, <1>6, MovesSighted, SameQueueInvariant

\* Time takes the same from every deadline.
LEMMA TickStep ==
    ASSUME Q!IInv, Q!Tick
    PROVE  /\ Q!IInv'
           /\ UNCHANGED <<result, status, delivered, created, kind>>
           /\ \A c \in Q!Ids : ttl'[c] = IF ttl[c] = 0 THEN 0 ELSE ttl[c] - 1
<1>1. P!IInv /\ P!Tick
  BY SameQueueInvariant, SameHandlers
<1>2. P!IInv'
  BY <1>1, P!TickIInv, Constants
<1> QED BY <1>2, SameQueueInvariant DEF Q!Tick

\* The command in the response to a poll is leased by it, an execution to the
\* session of the poll.
LEMMA DeliveredIsLeased ==
    ASSUME Q!IInv, NEW q, q.session \in 1..MaxBoots, q.result \in Q!Submissions,
           NEW r \in Q!Reports, Q!Poll(Agent, q.session, r, q.result), NEW c \in Delivery(q, r)
    PROVE  /\ c \in Q!Ids /\ status'[c] = "LEASED"
           /\ Q!Executing(c) => delivered'[c] = q.session
<1> DEFINE x == P!Expire(P!Receive(P!Online(P!Rows), q.result))
<1>1. P!IInv /\ P!Poll(Agent, q.session, r, q.result) /\ r \in P!Reports /\ q.result \in P!Submissions
  BY SameQueueInvariant, SamePoll, SameSteps
<1>2. /\ c \in P!Waiting(x, Agent) /\ x.account # "BLOCKED_UNCERTAIN"
      /\ P!Permitted(c, r) /\ ~P!Foreign(x, c, q.session)
  BY SameSteps DEF Delivery
<1>3. /\ c \in P!Ids /\ status'[c] = "LEASED"
      /\ P!Executing(c) => delivered'[c] = q.session
  <2> Agent \in {Agent}
    OBVIOUS
  <2> QED BY <1>1, <1>2, P!PollDelivers, Constants
<1> QED BY <1>3, SameSteps

\* When the poll is rolled back, the command in its response is what it was
\* before: waiting for its first lease, or leased to this session.
LEMMA DeliveredStood ==
    ASSUME Q!IInv, NEW q, q.result \in Q!Submissions, agent[Agent] = "PAIRED",
           q.result # Q!NoSubmission => Q!Acceptable(Agent, q.result),
           NEW r \in Q!Reports, NEW c \in Delivery(q, r)
    PROVE  /\ c \in Q!Ids
           /\ \/ status[c] = "PENDING"
              \/ status[c] = "LEASED" /\ (Q!Executing(c) => delivered[c] = q.session)
<1> DEFINE x == P!Expire(P!Receive(P!Online(P!Rows), q.result))
<1>1. /\ P!IInv /\ q.result \in P!Submissions /\ Agent \in {Agent}
      /\ q.result # P!NoSubmission => P!Acceptable(Agent, q.result)
  BY SameQueueInvariant, SamePoll, SameSteps
<1>2. c \in P!Waiting(x, Agent) /\ ~P!Foreign(x, c, q.session)
  BY SameSteps DEF Delivery
<1>3. c \in P!Ids /\ status[c] \in P!Pending /\ x.status[c] = status[c]
  BY <1>1, <1>2, P!WaitingStood, Constants
<1> QED BY <1>2, <1>3, SameSteps DEF P!Foreign, P!Pending

-----------------------------------------------------------------------------
(***************************************************************************)
(* What the two sides keep for each other.                                 *)
(***************************************************************************)

\* A step of the EA.
AgentMoves ==
    \/ E!Start \/ E!Ask \/ E!Fail \/ E!Crash \/ E!Tick \/ E!Local
    \/ \E ack \in 1..MaxCommands \cup {None}, t \in E!Tasks : E!Respond(ack, t)
    \/ UNCHANGED agentVars

\* The EA stands by what it has evaluated, and counts its starts.
AgentKeeps ==
    /\ E!IInv'
    /\ boot' \in {boot, boot + 1}
    /\ \A c \in Q!Ids : (Closed(c) => Closed(c)') /\ outcome[c] \subseteq outcome'[c]

\* The queue keeps what is known of it, and stores only what the EA stands by.
QueueKeeps ==
    /\ Q!IInv' /\ Sighted'
    /\ \A c \in 1..created : c \in 1..created' /\ kind'[c] = kind[c]
    /\ \A c \in Q!Ids : /\ result[c] # Q!NoResult => result'[c] = result[c]
                        /\ result'[c] # result[c] => Closed(c) /\ Honest(c, result'[c])
                        /\ delivered[c] # None => delivered'[c] = delivered[c]
                        /\ delivered'[c] \in {delivered[c]} \cup 1..boot

\* Every step but the passing of time leaves the deadlines as they are.
TimeStands == \A c \in 1..created : ttl'[c] = ttl[c]

\* What was lost stays lost.
LostGrows == unleased \subseteq unleased' /\ unstored \subseteq unstored'

\* The types that the lemmas below need most.
LEMMA Typed ==
    ASSUME RInv
    PROVE  /\ created \in Nat /\ 1..created \subseteq Q!Ids /\ Q!Ids = 1..MaxCommands
           /\ boot \in Nat /\ boot <= MaxBoots
           /\ task \in E!Tasks /\ task.id \in Q!Ids \cup {None}
           /\ journal.id \in Q!Ids \cup {None} /\ pending.id \in Q!Ids \cup {None}
           /\ recent \subseteq Q!Ids /\ asked \subseteq Q!Ids
           /\ \A c \in Q!Ids : evaluated[c] \in Nat
<1>1. created \in 0..MaxCommands
  BY DEF RInv, Q!IInv, Q!TypeOK
<1>2. /\ boot \in 0..MaxBoots /\ task \in E!Tasks /\ journal \in E!Entries /\ pending \in E!Pendings
      /\ recent \subseteq 1..MaxCommands /\ asked \subseteq 1..MaxCommands
      /\ evaluated \in [1..MaxCommands -> Nat]
  BY DEF RInv, E!IInv, E!TypeOK
<1> QED BY <1>1, <1>2, Constants DEF Q!Ids, E!Tasks, E!Entries, E!Pendings

\* An evaluation that has ended was counted; one that begins is counted anew.
LEMMA ClosedKept ==
    ASSUME RInv, AgentMoves, NEW c \in Q!Ids, Closed(c)
    PROVE  Closed(c)'
<1>1. evaluated[c] \in Nat /\ evaluated[c] > 0
  BY Typed DEF Closed
<1>2. CASE E!Begin
  <2>1. /\ phase = "responded" /\ task' = task
        /\ evaluated' = IF journal' = E!Record THEN [evaluated EXCEPT ![task.id] = @ + 1]
                                               ELSE evaluated
        /\ phase' = "started" => journal' = E!Record
    BY <1>2 DEF E!Begin, E!Save
  <2>2. evaluated \in [1..MaxCommands -> Nat] /\ c \in 1..MaxCommands
    BY Typed DEF RInv, E!IInv, E!TypeOK
  <2>3. evaluated'[c] = IF journal' = E!Record /\ c = task.id THEN evaluated[c] + 1 ELSE evaluated[c]
    BY <2>1, <2>2
  <2> QED BY <1>1, <2>1, <2>3 DEF Closed
<1>3. CASE ~E!Begin
  <2>1. evaluated' = evaluated
    BY <1>3 DEF AgentMoves, agentVars, E!Start, E!Ask, E!Fail, E!Crash, E!Tick, E!Local, E!Respond,
           E!Remember, E!Forget, E!Skip, E!OrderSend, E!Finish, E!history
  <2>2. phase' = "started" => phase = "started" /\ task'.id = task.id
    <3>1. CASE E!Tick
      BY <3>1, Typed DEF E!Tick, E!Tasks
    <3>2. CASE ~E!Tick
      BY <1>3, <3>2 DEF AgentMoves, agentVars, E!Start, E!Resume, E!Overlook, E!RecoveryFails, E!ComeUp,
           E!Ask, E!Fail, E!Crash, E!Local, E!Respond, E!Remember, E!Forget, E!Skip, E!OrderSend,
           E!Finish, E!Save
    <3> QED BY <3>1, <3>2
  <2> QED BY <1>1, <2>1, <2>2 DEF Closed
<1> QED BY <1>2, <1>3

\* A step of the EA keeps what the server relies on.
LEMMA AgentKept == ASSUME RInv, AgentMoves PROVE AgentKeeps
<1>1. E!IInv /\ F!IInv
  BY SameAgentInvariant DEF RInv
<1>2. [F!Next]_(F!vars)
  <2>1. CASE UNCHANGED agentVars
    BY <2>1 DEF agentVars, F!vars, F!disk, F!history
  <2>2. CASE ~UNCHANGED agentVars
    BY <2>2, SameAgent DEF AgentMoves, F!Next
  <2> QED BY <2>1, <2>2
<1>3. E!IInv'
  BY <1>1, <1>2, F!NextIInv, Constants, SameAgentInvariant
<1>4. boot' \in {boot, boot + 1}
  BY DEF AgentMoves, agentVars, E!Start, E!Ask, E!Fail, E!Crash, E!Tick, E!Local, E!Respond,
         E!Remember, E!Forget, E!Skip, E!Begin, E!OrderSend, E!Finish
<1>5. ASSUME NEW c \in Q!Ids PROVE outcome[c] \subseteq outcome'[c]
  <2>1. CASE outcome' = outcome
    BY <2>1
  <2>2. ASSUME NEW r \in E!Statuses, E!Finish(r) PROVE outcome[c] \subseteq outcome'[c]
    BY <1>1, <2>2 DEF E!Finish, E!IInv, E!TypeOK, Q!Ids
  <2> QED BY <2>1, <2>2 DEF AgentMoves, agentVars, E!Start, E!Ask, E!Fail, E!Crash, E!Tick, E!Local,
         E!Respond, E!Remember, E!Forget, E!Skip, E!Begin, E!OrderSend, E!history
<1> QED BY <1>3, <1>4, <1>5, ClosedKept DEF AgentKeeps

\* What the EA has evaluated was created.
LEMMA ClosedExists == ASSUME RInv, NEW c \in Q!Ids, Closed(c) PROVE c \in 1..created
<1>1. evaluated[c] > 0 /\ c \in 1..MaxCommands
  BY Typed DEF Closed
<1>2. c <= created
  BY <1>1 DEF RInv, Agreed
<1> QED BY <1>1, <1>2, Typed, Constants

\* A submission that the EA stood by is one that it still stands by.
LEMMA VouchedKept ==
    ASSUME RInv, AgentKeeps, QueueKeeps, NEW m \in Q!Submissions, Vouched(m) PROVE Vouched(m)'
<1>1. CASE m = Q!NoSubmission
  BY <1>1 DEF Vouched, Q!NoSubmission, Q!NoResult
<1>2. CASE m # Q!NoSubmission
  <2>1. m.command \in Q!Ids /\ Closed(m.command) /\ Honest(m.command, m.status)
    BY <1>2 DEF Vouched, Q!Submissions
  <2>2. Closed(m.command)' /\ outcome[m.command] \subseteq outcome'[m.command]
    BY <2>1 DEF AgentKeeps
  <2>3. kind'[m.command] = kind[m.command]
    BY <2>1, ClosedExists DEF QueueKeeps
  <2> QED BY <2>1, <2>2, <2>3 DEF Vouched, Honest, Q!Executing
<1> QED BY <1>1, <1>2

\* What is stored stays what the EA stands by.
LEMMA StoredKept == ASSUME RInv, AgentKeeps, QueueKeeps PROVE StoredVouched'
<1>1. ASSUME NEW c \in Q!Ids, result'[c] # Q!NoResult
      PROVE  Closed(c)' /\ Honest(c, result[c])'
  <2>1. Closed(c) /\ Honest(c, result'[c])
    BY <1>1 DEF RInv, StoredVouched, QueueKeeps
  <2>2. Closed(c)' /\ outcome[c] \subseteq outcome'[c]
    BY <2>1 DEF AgentKeeps
  <2>3. kind'[c] = kind[c]
    BY <2>1, ClosedExists DEF QueueKeeps
  <2> QED BY <2>1, <2>2, <2>3 DEF Honest, Q!Executing
<1> QED BY <1>1 DEF StoredVouched, Q!Ids, Q!NoResult

\* What OnTimer sends is what the journal says.
LEMMA RequestVouched ==
    ASSUME RInv, phase = "polling"
    PROVE  /\ boot \in 1..MaxBoots /\ Request.session = boot /\ Request.result \in Q!Submissions
           /\ Vouched(Request.result)
           /\ pending.id # None => Request.result = [command |-> pending.id, status |-> pending.result]
                                  /\ Request.result # Q!NoSubmission
                                  /\ pending.result # Q!NoResult
<1>1. boot \in 1..MaxBoots /\ Request.session = boot
  BY DEF RInv, Waits, Request
<1>2. CASE pending.id = None
  BY <1>1, <1>2 DEF Request, Vouched, Q!Submissions
<1>3. CASE pending.id # None
  <2>1. /\ journal.state = "DONE" /\ journal.id = pending.id /\ journal.result = pending.result
        /\ journal.id \in Q!Ids /\ journal.result \in E!Statuses /\ Closed(journal.id)
    BY <1>3, Typed DEF RInv, Waits, E!Phases
  <2>2. Request.result = [command |-> pending.id, status |-> pending.result]
    BY <1>3 DEF Request
  <2>3. Request.result \in Q!Submissions /\ Request.result # Q!NoSubmission
    BY <2>1, <2>2, Constants DEF Q!Submissions, Q!NoSubmission, Q!Ids
  <2>4. Honest(journal.id, journal.result)
    <3>1. journal.execution = Q!Executing(journal.id)
      BY <1>3, <2>1 DEF RInv, Agreed
    <3> QED BY <2>1, <3>1 DEF RInv, E!IInv, E!Truthful, Honest
  <2>5. Vouched(Request.result)
    BY <2>1, <2>2, <2>4 DEF Vouched
  <2> QED BY <1>1, <2>1, <2>2, <2>3, <2>5 DEF Q!NoResult, E!Statuses
<1> QED BY <1>2, <1>3


-----------------------------------------------------------------------------
(***************************************************************************)
(* The EA's half of the invariant, part by part, whatever the server        *)
(* does meanwhile.                                                         *)
(***************************************************************************)
AgentSide == Agreed /\ Waits /\ Retires /\ Issued /\ Remembered /\ Timely /\ ExecutedOnce

\* What the server may do meanwhile.
Aside == AgentKeeps /\ QueueKeeps /\ TimeStands /\ UNCHANGED lost

LEMMA AckedKept ==
    ASSUME RInv, QueueKeeps, LostGrows, NEW c \in Q!Ids, Acked(c) PROVE Acked(c)'
BY DEF Acked, QueueKeeps, LostGrows, Q!NoResult

\* The EA learns of a command only from a response.
LEMMA AgreedKept ==
    ASSUME RInv, QueueKeeps, unleased' \subseteq unleased \cup 1..created',
           recent' \subseteq recent \cup ({journal.id} \ {None}),
           asked' = asked \/ (asked' = asked \cup {task.id} /\ task.id # None /\ task.execution),
           \/ journal'.id = None
           \/ journal'.id = journal.id /\ journal'.execution = journal.execution
           \/ journal'.id = task.id /\ journal'.execution = task.execution,
           \/ task'.id = None
           \/ task'.id = task.id /\ task'.execution = task.execution
           \/ task'.id \in 1..created' /\ task'.execution = Q!Executing(task.id)',
           \A c \in Q!Ids : evaluated'[c] > 0 => evaluated[c] > 0 \/ c = task.id
    PROVE  Agreed'
<1>1. \A c \in 1..created : c \in 1..created' /\ (Q!Executing(c)' <=> Q!Executing(c))
  BY DEF QueueKeeps, Q!Executing
<1>2. Agreed
  BY DEF RInv
<1>3. recent' \subseteq 1..created' /\ unleased' \subseteq 1..created'
  BY <1>1, <1>2 DEF Agreed
<1>4. created' \in Nat
  BY DEF QueueKeeps, Q!IInv, Q!TypeOK
<1>5. ASSUME NEW c \in Q!Ids, evaluated'[c] > 0 PROVE c <= created'
  <2>1. c \in 1..created
    <3>1. CASE evaluated[c] > 0
      BY <1>2, <3>1, Typed DEF Agreed
    <3>2. CASE c = task.id
      BY <1>2, <3>2, Typed, Constants DEF Agreed
    <3> QED BY <1>5, <3>1, <3>2
  <2> QED BY <1>1, <1>4, <2>1
<1>6. ASSUME NEW c \in asked' PROVE Q!Executing(c)'
  <2>1. c \in 1..created /\ Q!Executing(c)
    <3>1. CASE c \in asked
      <4>1. evaluated[c] > 0 /\ c \in Q!Ids
        <5>1. c \in 1..MaxCommands
          BY <3>1, Typed
        <5> QED BY <3>1, <5>1, Typed DEF RInv, E!IInv, E!Known
      <4> QED BY <1>2, <3>1, <4>1, Typed DEF Agreed
    <3>2. CASE c \notin asked
      BY <1>2, <1>6, <3>2 DEF Agreed
    <3> QED BY <3>1, <3>2
  <2> QED BY <1>1, <2>1
<1>7. journal'.id # None =>
        journal'.id \in 1..created' /\ journal'.execution = Q!Executing(journal.id)'
  <2>1. ASSUME journal'.id # None
        PROVE  journal'.id \in 1..created /\ journal'.execution = Q!Executing(journal'.id)
    BY <1>2, <2>1 DEF Agreed
  <2> QED BY <1>1, <2>1 DEF Q!Executing
<1>8. task'.id # None =>
        task'.id \in 1..created' /\ task'.execution = Q!Executing(task.id)'
  <2>1. ASSUME task'.id # None, task'.id = task.id, task'.execution = task.execution
        PROVE  task'.id \in 1..created /\ task'.execution = Q!Executing(task'.id)
    BY <1>2, <2>1 DEF Agreed
  <2> QED BY <1>1, <2>1 DEF Q!Executing
<1> QED BY <1>3, <1>5, <1>6, <1>7, <1>8 DEF Agreed, Q!Ids, Q!Executing

\* Leases are given only to starts that have happened, and are not taken back.
LEMMA IssuedKept ==
    ASSUME RInv, AgentKeeps, QueueKeeps, LostGrows,
           \/ task'.id = None \/ (task'.id = task.id /\ boot' = boot)
           \/ delivered'[task'.id] = boot' \/ task'.id \in unleased' \/ ~Q!Executing(task.id)',
           \A c \in Q!Ids : evaluated'[c] > 0 => evaluated[c] > 0 \/ c = task.id
    PROVE  Issued'
<1>1. Issued /\ Agreed /\ Waits
  BY DEF RInv
<1>2. task.id # None => boot \in 1..MaxBoots
  BY <1>1 DEF Waits
<1>3. ASSUME NEW c \in Q!Ids, delivered'[c] # None PROVE delivered'[c] <= boot'
  <2>1. delivered'[c] \in 1..MaxBoots
    BY <1>3 DEF QueueKeeps, Q!IInv, Q!TypeOK
  <2>2. delivered'[c] <= boot
    BY <1>1, <1>3, Typed DEF Issued, QueueKeeps
  <2> QED BY <2>1, <2>2, Typed, Constants DEF AgentKeeps
<1>4. ASSUME NEW c \in 1..created', Q!Executing(c)', c \notin unleased'
      PROVE  /\ evaluated'[c] > 0 => delivered'[c] # None
             /\ task'.id = c => delivered'[c] = boot'
  <2>1. c \in Q!Ids /\ c \in Nat /\ c # None
    BY Constants DEF QueueKeeps, Q!IInv, Q!TypeOK, Q!Ids
  <2> DEFINE Same == task'.id = task.id /\ boot' = boot
  <2>2. evaluated'[c] > 0 \/ (task'.id = c /\ Same) =>
          c \in 1..created /\ Q!Executing(c) /\ c \notin unleased
    <3>1. evaluated'[c] > 0 \/ (task'.id = c /\ Same) => evaluated[c] > 0 \/ task.id = c
      BY <2>1
    <3>2. evaluated[c] > 0 \/ task.id = c => c \in 1..created
      BY <1>1, <2>1, Typed DEF Agreed, Q!Ids
    <3> QED BY <1>4, <3>1, <3>2 DEF QueueKeeps, LostGrows, Q!Executing
  <2>3. task.id = c /\ c \in 1..created /\ Q!Executing(c) /\ c \notin unleased =>
          delivered[c] = boot /\ delivered'[c] = boot /\ boot # None
    BY <1>1, <1>2, <2>1, Constants DEF Issued, QueueKeeps
  <2>4. evaluated[c] > 0 /\ c \in 1..created /\ Q!Executing(c) /\ c \notin unleased =>
          delivered'[c] # None
    BY <1>1, <2>1 DEF Issued, QueueKeeps
  <2>5. task'.id = c => Same \/ delivered'[c] = boot'
    BY <1>4, <2>1 DEF Q!Executing
  <2> QED BY <2>1, <2>2, <2>3, <2>4, <2>5
<1> QED BY <1>3, <1>4 DEF Issued, Q!Executing, Q!Ids

\* What the EA knows of a command it has evaluated it forgets only when it stops.
LEMMA RememberedKept ==
    ASSUME RInv, QueueKeeps, LostGrows, boot' = boot,
           \A c \in Q!Ids : evaluated'[c] > 0 =>
               evaluated[c] > 0 \/ (phase' = "started" /\ task'.id = c) \/ phase' = "fatal",
           \A c \in Q!Ids :
               c \in known \/ pending.id = c \/ (phase = "started" /\ task.id = c)
                   \/ phase \in {"down", "fatal"} =>
               c \in known' \/ pending'.id = c \/ (phase' = "started" /\ task'.id = c)
                   \/ phase' \in {"down", "fatal"}
    PROVE  Remembered'
<1> SUFFICES ASSUME NEW c \in 1..created', Q!Executing(c)', c \notin unleased', evaluated'[c] > 0,
                    delivered'[c] = boot'
             PROVE  \/ c \in known' \/ pending'.id = c
                    \/ phase' = "started" /\ task'.id = c
                    \/ phase' \in {"down", "fatal"}
  BY DEF Remembered, Q!Executing
<1>1. c \in Q!Ids
  BY Constants DEF QueueKeeps, Q!IInv, Q!TypeOK, Q!Ids
<1> SUFFICES ASSUME evaluated[c] > 0
             PROVE  \/ c \in known' \/ pending'.id = c
                    \/ phase' = "started" /\ task'.id = c
                    \/ phase' \in {"down", "fatal"}
  BY <1>1
<1>2. c \in 1..created
  BY <1>1, Typed, Constants DEF RInv, Agreed, Q!Ids
<1>3. Q!Executing(c) /\ c \notin unleased
  BY <1>2 DEF QueueKeeps, LostGrows, Q!Executing
<1>4. delivered[c] = boot
  BY <1>1, <1>2, <1>3 DEF RInv, Issued, QueueKeeps
<1> QED BY <1>1, <1>2, <1>3, <1>4 DEF RInv, Remembered

\* The deadline stands on both sides.
LEMMA TimelyKept ==
    ASSUME RInv, TimeStands,
           task' = task \/ task'.id = None \/ task'.left <= ttl'[task'.id]
    PROVE  Timely'
BY DEF RInv, Timely, TimeStands, Agreed

\* No evaluation, no second one.
LEMMA ExecutedOnceKept ==
    ASSUME RInv, AgentKeeps, QueueKeeps, LostGrows, evaluated' = evaluated
    PROVE  ExecutedOnce'
<1> SUFFICES ASSUME NEW c \in Q!Ids, Q!Executing(c)', evaluated'[c] > 1
             PROVE  c \in unleased' /\ c \in lapsed'
  BY DEF ExecutedOnce, Q!Executing, Q!Ids
<1>1. c \in 1..created
  BY Typed, Constants DEF RInv, Agreed, Q!Ids
<1>2. Q!Executing(c)
  BY <1>1 DEF QueueKeeps, Q!Executing
<1>3. c \in unleased
  BY <1>2 DEF RInv, ExecutedOnce
<1>4. c \in lapsed'
  BY Typed DEF AgentKeeps, E!IInv, E!Known, Q!Ids
<1> QED BY <1>3, <1>4 DEF LostGrows

\* A journal that is left alone, or lost, says no more than before.
LEMMA WaitsKept ==
    ASSUME RInv, AgentKeeps, boot' = boot \/ boot' \in 1..MaxBoots, phase = "down" => phase' = "down",
           journal' = journal \/ journal'.state # "DONE",
           phase' \in {"down", "idle", "polling"} => task'.id = None,
           pending'.id # None /\ phase' \in E!Phases \ {"fatal"} =>
               phase # "fatal" /\ journal' = journal /\ pending' = pending
    PROVE  Waits'
<1>1. phase' # "down" => boot' \in 1..MaxBoots
  BY DEF RInv, Waits
<1>2. journal'.state = "DONE" => journal'.result \in E!Statuses /\ Closed(journal.id)'
  <2> SUFFICES ASSUME journal'.state = "DONE"
               PROVE  journal'.result \in E!Statuses /\ Closed(journal.id)'
    OBVIOUS
  <2>1. journal' = journal /\ journal.result \in E!Statuses /\ Closed(journal.id)
    BY DEF RInv, Waits
  <2>2. journal.id \in Q!Ids
    BY <2>1, Typed DEF RInv, E!IInv, E!JournalShape
  <2> QED BY <2>1, <2>2 DEF AgentKeeps, Closed
<1>3. pending'.id # None /\ phase' \in E!Phases \ {"fatal"} =>
        journal'.state = "DONE" /\ pending' = [id |-> journal'.id, result |-> journal'.result]
  <2> SUFFICES ASSUME pending'.id # None, phase' \in E!Phases \ {"fatal"}
               PROVE  journal.state = "DONE" /\ pending = [id |-> journal.id, result |-> journal.result]
    OBVIOUS
  <2>1. phase \in E!Phases
    BY DEF RInv, E!IInv, E!TypeOK
  <2> QED BY <2>1 DEF RInv, Waits
<1> QED BY <1>1, <1>2, <1>3 DEF Waits, Closed, E!Statuses, E!Phases

-----------------------------------------------------------------------------
(***************************************************************************)
(* The steps of the EA that do not read a response.                        *)
(***************************************************************************)

\* The EA stands still.
LEMMA StillKept == ASSUME RInv, Aside, UNCHANGED agentVars PROVE AgentSide'
<1>1. LostGrows /\ AgentKeeps /\ QueueKeeps /\ TimeStands /\ unleased' = unleased
  BY DEF Aside, lost, LostGrows
<1>2. Agreed'
  BY <1>1, AgreedKept DEF agentVars
<1>3. Waits'
  BY <1>1, WaitsKept DEF agentVars, RInv, Waits
<1>4. Retires'
  BY <1>1, AckedKept, Typed DEF agentVars, RInv, Retires, Acked, E!IInv, E!MemoryMatchesDisk
<1>5. Issued' /\ Timely'
  BY <1>1, IssuedKept, TimelyKept DEF agentVars
<1>6. Remembered'
  BY <1>1, RememberedKept DEF agentVars
<1>7. ExecutedOnce'
  BY <1>1, ExecutedOnceKept DEF agentVars
<1> QED BY <1>2, <1>3, <1>4, <1>5, <1>6, <1>7 DEF AgentSide

\* The EA starts: what it has evaluated was leased to an earlier start.
LEMMA StartKept == ASSUME RInv, Aside, E!Start PROVE AgentSide'
<1>1. LostGrows /\ AgentKeeps /\ QueueKeeps /\ TimeStands /\ unleased' = unleased
  BY DEF Aside, lost, LostGrows
<1>2. /\ phase = "down" /\ boot' = boot + 1 /\ boot' \in 1..MaxBoots /\ task.id = None
      /\ recent' = recent /\ task' = task /\ evaluated' = evaluated /\ asked' = asked
  BY Typed, Constants DEF E!Start, RInv, Waits
<1>3. /\ phase' \in {"idle", "down"}
      /\ journal' \in {journal, E!Recovered, E!Torn, E!Empty}
      /\ journal' = E!Recovered \/ journal' = journal \/ journal'.id = None
      /\ journal'.state = "DONE" => journal' = journal \/ journal' = E!Recovered
      /\ \/ phase' = "down" /\ pending' = pending /\ journal.state = "STARTED"
         \/ phase' = "idle" /\ pending'.id = None
         \/ /\ phase' = "idle" /\ pending' = [id |-> E!Recovered.id, result |-> E!Recovered.result]
            /\ journal' = E!Recovered /\ journal.state # "TORN"
  BY <1>2 DEF E!Start, E!Resume, E!Overlook, E!RecoveryFails, E!ComeUp, E!NoPending, E!Empty, E!Torn,
              E!Entry
<1>4. /\ E!Recovered.id = journal.id /\ E!Recovered.execution = journal.execution
      /\ journal.state = "STARTED" => /\ E!Recovered.state = "DONE"
                                      /\ E!Recovered.result \in E!Statuses
                                      /\ journal.id # None
      /\ journal.state # "STARTED" => E!Recovered = journal
  BY DEF E!Recovered, E!Entry, E!Interrupted, E!Statuses, RInv, E!IInv, E!JournalShape
<1>5. Agreed'
  BY <1>1, <1>2, <1>3, <1>4, AgreedKept
<1>6. Waits'
  <2>1. phase' # "down" => boot' \in 1..MaxBoots
    BY <1>2
  <2>2. task'.id = None
    BY <1>2
  <2>3. journal'.state = "DONE" => journal'.result \in E!Statuses /\ Closed(journal.id)'
    <3> SUFFICES ASSUME journal'.state = "DONE"
                 PROVE  journal'.result \in E!Statuses /\ Closed(journal.id)'
      OBVIOUS
    <3>1. journal'.result \in E!Statuses /\ journal'.id = journal.id
      BY <1>3, <1>4 DEF RInv, Waits
    <3>2. journal.state \notin {"EMPTY", "TORN"}
      BY <1>3, <1>4
    <3>3. evaluated[journal.id] > 0
      BY <3>2 DEF RInv, E!IInv, E!JournalShape
    <3> QED BY <1>2, <1>3, <3>1, <3>3 DEF Closed
  <2>4. pending'.id # None =>
          journal'.state = "DONE" /\ pending' = [id |-> journal'.id, result |-> journal'.result]
    <3>1. CASE phase' = "down"
      <4>1. pending' = pending /\ journal.state = "STARTED" /\ phase \in E!Phases \ {"fatal"}
        BY <1>2, <1>3, <3>1 DEF E!Phases
      <4> QED BY <4>1 DEF RInv, Waits
    <3>2. CASE phase' = "idle" /\ pending'.id # None
      <4>1. /\ pending' = [id |-> E!Recovered.id, result |-> E!Recovered.result]
            /\ journal' = E!Recovered /\ journal.state # "TORN"
        BY <1>3, <3>2
      <4>2. journal.id # None
        BY <1>4, <3>2, <4>1
      <4>3. journal.state \in {"STARTED", "DONE"}
        BY <4>2 DEF RInv, E!IInv, E!JournalShape, E!TypeOK, E!Entries
      <4> QED BY <1>4, <4>1, <4>3
    <3> QED BY <1>3, <3>1, <3>2
  <2> QED BY <2>1, <2>2, <2>3, <2>4 DEF Waits, Closed, E!Statuses, E!Phases
<1>7. Retires'
  BY <1>1, <1>2, <1>3, AckedKept, Typed DEF RInv, Retires, Acked
<1>8. Issued' /\ Timely' /\ ExecutedOnce'
  BY <1>1, <1>2, IssuedKept, TimelyKept, ExecutedOnceKept
<1>9. Remembered'
  <2>1. ASSUME NEW c \in 1..created', delivered'[c] = boot' PROVE FALSE
    <3>1. c \in Q!Ids
      BY <1>1, Constants DEF QueueKeeps, Q!IInv, Q!TypeOK, Q!Ids
    <3>2. delivered'[c] \in {delivered[c]} \cup 1..boot
      BY <1>1, <3>1 DEF QueueKeeps
    <3>3. delivered[c] # None => delivered[c] <= boot
      BY <3>1 DEF RInv, Issued
    <3>4. delivered[c] # boot + 1
      BY <1>2, <3>3, Typed, Constants
    <3> QED BY <1>2, <2>1, <3>2, <3>4, Typed
  <2> QED BY <2>1 DEF Remembered
<1> QED BY <1>5, <1>6, <1>7, <1>8, <1>9 DEF AgentSide

\* The EA polls, gives up a poll, leaves a command alone or stops.
LEMMA PauseKept ==
    ASSUME RInv, Aside, E!Ask \/ E!Fail \/ E!Skip \/ E!Crash PROVE AgentSide'
<1>1. LostGrows /\ AgentKeeps /\ QueueKeeps /\ TimeStands /\ unleased' = unleased
  BY DEF Aside, lost, LostGrows
<1>2. /\ UNCHANGED <<boot, journal, recent, evaluated, asked>>
      /\ task' = task \/ task'.id = None
      /\ phase' \in {"idle", "polling", "down"}
      /\ phase' # "down" => known' = known /\ pending' = pending /\ phase \in {"idle", "polling", "responded"}
      /\ phase' = "down" => pending'.id = None
  BY DEF E!Ask, E!Fail, E!Skip, E!Crash, E!disk, E!history, E!NoTask, E!NoPending
<1>3. task'.id = None
  BY DEF E!Ask, E!Fail, E!Skip, E!Crash, E!NoTask, RInv, Waits
<1>4. Agreed'
  BY <1>1, <1>2, <1>3, AgreedKept
<1>5. Waits'
  BY <1>1, <1>2, <1>3, WaitsKept
<1>6. Retires'
  BY <1>1, <1>2, AckedKept, Typed DEF RInv, Retires, Acked
<1>7. Issued' /\ Timely' /\ ExecutedOnce'
  BY <1>1, <1>2, <1>3, IssuedKept, TimelyKept, ExecutedOnceKept
<1>8. Remembered'
  BY <1>1, <1>2, RememberedKept
<1> QED BY <1>4, <1>5, <1>6, <1>7, <1>8 DEF AgentSide

\* The acknowledged id is kept ...
LEMMA RememberKept == ASSUME RInv, Aside, E!Remember PROVE AgentSide'
<1>1. LostGrows /\ AgentKeeps /\ QueueKeeps /\ TimeStands /\ unleased' = unleased
  BY DEF Aside, lost, LostGrows
<1>2. /\ phase = "acknowledged" /\ phase' \in {"remembered", "fatal"}
      /\ UNCHANGED <<boot, journal, pending, task, evaluated, asked>>
      /\ known \subseteq known'
  BY DEF E!Remember
<1>3. /\ known \subseteq recent /\ pending.id # None
      /\ pending.id = journal.id
  <2>1. /\ known \subseteq recent /\ pending.id # None
        /\ pending.id = journal.id \/ pending.id = None
    BY <1>2 DEF RInv, E!IInv, E!MemoryMatchesDisk, E!Listening
  <2> QED BY <2>1
<1>4. recent' \subseteq recent \cup {pending.id}
  BY <1>3 DEF E!Remember
<1>5. Agreed'
  BY <1>1, <1>2, <1>3, <1>4, AgreedKept
<1>6. Waits'
  BY <1>1, <1>2, WaitsKept
<1>7. Retires'
  <2>1. \A c \in recent' : c \in Q!Ids /\ Acked(c)
    BY <1>2, <1>3, <1>4, Typed DEF RInv, Retires
  <2>2. pending.id \in Q!Ids /\ Acked(pending.id)
    BY <1>2, <1>3, Typed DEF RInv, Retires
  <2> QED BY <1>1, <1>2, <2>1, <2>2, AckedKept DEF Retires, Acked
<1>8. Issued' /\ Timely' /\ ExecutedOnce'
  <2>1. task.id = None \/ boot' = boot
    BY <1>2
  <2> QED BY <1>1, <1>2, IssuedKept, TimelyKept, ExecutedOnceKept
<1>9. Remembered'
  BY <1>1, <1>2, RememberedKept
<1> QED BY <1>5, <1>6, <1>7, <1>8, <1>9 DEF AgentSide

\* ... before its journal entry goes.
LEMMA ForgetKept == ASSUME RInv, Aside, E!Forget PROVE AgentSide'
<1>1. LostGrows /\ AgentKeeps /\ QueueKeeps /\ TimeStands /\ unleased' = unleased
  BY DEF Aside, lost, LostGrows
<1>2. /\ phase = "remembered"
      /\ UNCHANGED <<boot, recent, known, task, evaluated, asked>>
      /\ \/ /\ phase' = "responded" /\ pending'.id = None
            /\ journal'.state # "DONE" /\ journal'.id = None
         \/ phase' = "fatal" /\ journal' = journal /\ pending' = pending
  BY DEF E!Forget, E!history, E!Empty, E!Entry, E!NoPending
<1>3. pending.id \in known
  BY <1>2 DEF RInv, E!IInv, E!MemoryMatchesDisk
<1>4. Agreed'
  BY <1>1, <1>2, AgreedKept
<1>5. Waits'
  BY <1>1, <1>2, WaitsKept
<1>6. Retires'
  BY <1>1, <1>2, AckedKept, Typed DEF RInv, Retires, Acked
<1>7. Issued' /\ Timely' /\ ExecutedOnce'
  BY <1>1, <1>2, IssuedKept, TimelyKept, ExecutedOnceKept
<1>8. Remembered'
  BY <1>1, <1>2, <1>3, RememberedKept
<1> QED BY <1>4, <1>5, <1>6, <1>7, <1>8 DEF AgentSide

\* The broker is asked.
LEMMA OrderKept == ASSUME RInv, Aside, E!OrderSend PROVE AgentSide'
<1>1. LostGrows /\ AgentKeeps /\ QueueKeeps /\ TimeStands /\ unleased' = unleased
  BY DEF Aside, lost, LostGrows
<1>2. /\ phase = "started" /\ task.execution
      /\ asked' = asked \cup {task.id}
      /\ UNCHANGED <<phase, boot, journal, recent, known, pending, task, evaluated>>
  BY DEF E!OrderSend, E!disk
<1>3. task.id # None
  BY <1>2 DEF RInv, E!IInv, E!MemoryMatchesDisk
<1>4. Agreed'
  BY <1>1, <1>2, <1>3, AgreedKept
<1>5. Waits'
  BY <1>1, <1>2, WaitsKept DEF RInv, Waits
<1>6. Retires'
  BY <1>1, <1>2, AckedKept, Typed DEF RInv, Retires, Acked
<1>7. Issued' /\ Timely' /\ ExecutedOnce'
  BY <1>1, <1>2, IssuedKept, TimelyKept, ExecutedOnceKept
<1>8. Remembered'
  BY <1>1, <1>2, RememberedKept
<1> QED BY <1>4, <1>5, <1>6, <1>7, <1>8 DEF AgentSide

\* An evaluation begins: a second one only of a command whose first the EA has
\* lost, and only when its lease was lost as well.
LEMMA BeginKept == ASSUME RInv, Aside, E!Begin PROVE AgentSide'
<1>1. LostGrows /\ AgentKeeps /\ QueueKeeps /\ TimeStands /\ unleased' = unleased
  BY DEF Aside, lost, LostGrows
<1>2. /\ phase = "responded" /\ phase' \in {"started", "fatal"}
      /\ task.id # None /\ pending.id = None /\ task.id \notin known
      /\ UNCHANGED <<boot, recent, known, pending, task, asked>>
      /\ journal' \in {journal, E!Record, E!Torn, E!Empty}
      /\ phase' = "started" => journal' = E!Record
      /\ evaluated' = IF journal' = E!Record THEN [evaluated EXCEPT ![task.id] = @ + 1] ELSE evaluated
  BY DEF E!Begin, E!Save, E!Fresh
<1>3. /\ E!Record.state = "STARTED" /\ E!Record.id = task.id /\ E!Record.execution = task.execution
      /\ E!Torn.id = None /\ E!Torn.state = "TORN" /\ E!Empty.id = None /\ E!Empty.state = "EMPTY"
  BY DEF E!Record, E!Torn, E!Empty, E!Entry
<1>4. evaluated \in [1..MaxCommands -> Nat] /\ task.id \in 1..MaxCommands
  BY <1>2, Typed DEF RInv, E!IInv, E!TypeOK
<1>5. \A c \in Q!Ids : evaluated'[c] > 0 =>
        evaluated[c] > 0 \/ (c = task.id /\ journal' = E!Record)
  BY <1>2, <1>4 DEF Q!Ids
<1>6. Agreed'
  BY <1>1, <1>2, <1>3, <1>5, AgreedKept
<1>7. Waits'
  BY <1>1, <1>2, <1>3, WaitsKept
<1>8. Retires'
  BY <1>1, <1>2, AckedKept, Typed DEF RInv, Retires, Acked
<1>9. Issued' /\ Timely'
  BY <1>1, <1>2, <1>5, IssuedKept, TimelyKept
<1>10. Remembered'
  BY <1>1, <1>2, <1>5, RememberedKept
<1>11. ExecutedOnce'
  <2> SUFFICES ASSUME NEW c \in Q!Ids, Q!Executing(c)', evaluated'[c] > 1
               PROVE  c \in unleased' /\ c \in lapsed'
    BY DEF ExecutedOnce, Q!Executing, Q!Ids
  <2>1. c \in lapsed'
    BY <1>1, Typed DEF AgentKeeps, E!IInv, E!Known, Q!Ids
  <2>2. evaluated[c] > 1 \/ (c = task.id /\ evaluated[c] > 0)
    BY <1>2, <1>4, Typed DEF Q!Ids
  <2>3. evaluated[c] > 0
    BY <2>2, Typed
  <2>4. c \in 1..created
    BY <2>3, Typed, Constants DEF RInv, Agreed, Q!Ids
  <2>5. Q!Executing(c)
    BY <1>1, <2>4 DEF QueueKeeps, Q!Executing
  <2>6. CASE evaluated[c] > 1
    BY <1>1, <2>1, <2>5, <2>6 DEF RInv, ExecutedOnce
  <2>7. CASE c = task.id /\ c \notin unleased
    <3>1. delivered[c] = boot
      BY <2>4, <2>5, <2>7 DEF RInv, Issued
    <3>2. c \in known \/ pending.id = c \/ phase \in {"started", "down", "fatal"}
      BY <2>3, <2>4, <2>5, <2>7, <3>1 DEF RInv, Remembered
    <3> QED BY <1>2, <2>7, <3>2
  <2> QED BY <1>1, <2>1, <2>2, <2>6, <2>7
<1> QED BY <1>6, <1>7, <1>8, <1>9, <1>10, <1>11 DEF AgentSide

\* An evaluation ends.
LEMMA FinishKept ==
    ASSUME RInv, Aside, NEW r \in E!Statuses, E!Finish(r) PROVE AgentSide'
<1> DEFINE e == E!Entry("DONE", task.id, task.execution, r)
<1>1. LostGrows /\ AgentKeeps /\ QueueKeeps /\ TimeStands /\ unleased' = unleased
  BY DEF Aside, lost, LostGrows
<1>2. /\ phase = "started" /\ phase' \in {"idle", "fatal"}
      /\ journal' \in {journal, e, E!Torn, E!Empty}
      /\ phase' = "idle" => journal' = e
      /\ pending' = IF phase' = "idle" THEN [id |-> task.id, result |-> r] ELSE pending
      /\ task'.id = None
      /\ UNCHANGED <<boot, recent, known, evaluated, asked>>
  BY DEF E!Finish, E!Save, E!NoTask
<1>3. /\ e.state = "DONE" /\ e.id = task.id /\ e.execution = task.execution /\ e.result = r
      /\ E!Torn.id = None /\ E!Torn.state = "TORN" /\ E!Empty.id = None /\ E!Empty.state = "EMPTY"
  BY DEF E!Torn, E!Empty, E!Entry
<1>4. task.id # None /\ journal.state = "STARTED" /\ journal.id = task.id
  BY <1>2 DEF RInv, E!IInv, E!MemoryMatchesDisk, E!Record, E!Entry
<1>5. pending.id = None
  BY <1>2, <1>4 DEF RInv, Waits, E!Phases
<1>6. Agreed'
  BY <1>1, <1>2, <1>3, AgreedKept
<1>7. Waits'
  <2>1. phase' # "down" => boot' \in 1..MaxBoots
    BY <1>2 DEF RInv, Waits
  <2>2. journal'.state = "DONE" => journal'.result \in E!Statuses /\ Closed(journal.id)'
    <3> SUFFICES ASSUME journal'.state = "DONE"
                 PROVE  journal'.result \in E!Statuses /\ Closed(journal.id)'
      OBVIOUS
    <3>1. journal' = e
      BY <1>2, <1>3, <1>4
    <3>2. evaluated[task.id] > 0
      BY <1>4 DEF RInv, E!IInv, E!JournalShape
    <3> QED BY <1>2, <1>3, <3>1, <3>2 DEF Closed
  <2>3. pending'.id # None /\ phase' \in E!Phases \ {"fatal"} =>
          journal'.state = "DONE" /\ pending' = [id |-> journal'.id, result |-> journal'.result]
    BY <1>2, <1>3, <1>5
  <2> QED BY <1>2, <2>1, <2>2, <2>3 DEF Waits, Closed, E!Statuses, E!Phases
<1>8. Retires'
  BY <1>1, <1>2, AckedKept, Typed DEF RInv, Retires, Acked
<1>9. Issued' /\ Timely' /\ ExecutedOnce'
  BY <1>1, <1>2, IssuedKept, TimelyKept, ExecutedOnceKept
<1>10. Remembered'
  <2>1. \A c \in Q!Ids : pending.id # c
    BY <1>5, Constants DEF Q!Ids
  <2> QED BY <1>1, <1>2, <2>1, RememberedKept
<1> QED BY <1>6, <1>7, <1>8, <1>9, <1>10 DEF AgentSide

\* Any step of the EA's own.
LEMMA LocalKept == ASSUME RInv, Aside, E!Local PROVE AgentSide'
<1>1. ASSUME NEW r \in E!Statuses, E!Finish(r) PROVE AgentSide'
  BY <1>1, FinishKept
<1> QED BY <1>1, RememberKept, ForgetKept, PauseKept, BeginKept, OrderKept DEF E!Local

\* Time passes on both sides alike.
LEMMA TickKept ==
    ASSUME RInv, AgentKeeps, QueueKeeps, UNCHANGED lost, Q!Tick, E!Tick PROVE AgentSide'
<1>1. LostGrows /\ unleased' = unleased
  BY DEF lost, LostGrows
<1>2. /\ UNCHANGED <<phase, boot, journal, recent, known, pending, evaluated, asked>>
      /\ task' = IF task.left = 0 THEN task ELSE [task EXCEPT !.left = @ - 1]
      /\ task \in E!Tasks
  BY Typed DEF E!Tick, E!disk, E!history
<1>3. /\ task'.id = task.id /\ task'.execution = task.execution
      /\ task'.left = IF task.left = 0 THEN 0 ELSE task.left - 1
  BY <1>2 DEF E!Tasks
<1>4. Agreed'
  BY <1>1, <1>2, <1>3, AgreedKept
<1>5. Waits'
  BY <1>1, <1>2, <1>3, WaitsKept DEF RInv, Waits
<1>6. Retires'
  BY <1>1, <1>2, AckedKept, Typed DEF RInv, Retires, Acked, E!IInv,
     E!MemoryMatchesDisk
<1>7. Issued' /\ ExecutedOnce'
  BY <1>1, <1>2, <1>3, IssuedKept, ExecutedOnceKept
<1>8. Remembered'
  BY <1>1, <1>2, <1>3, RememberedKept
<1>9. Timely'
  <2> SUFFICES ASSUME task.id # None, task.execution PROVE task'.left <= ttl'[task.id]
    BY <1>3 DEF Timely
  <2>1. task.id \in Q!Ids /\ task.left <= ttl[task.id]
    BY Typed DEF RInv, Timely
  <2>2. ttl'[task.id] = IF ttl[task.id] = 0 THEN 0 ELSE ttl[task.id] - 1
    BY <2>1, TickStep DEF RInv
  <2>3. ttl[task.id] \in Nat /\ task.left \in Nat
    BY <1>2, <2>1, Constants DEF RInv, Q!IInv, Q!TypeOK, E!Tasks
  <2> QED BY <1>3, <2>1, <2>2, <2>3
<1> QED BY <1>4, <1>5, <1>6, <1>7, <1>8, <1>9 DEF AgentSide

\* The EA reads a response: what is in it was leased to this start of the EA,
\* or its lease is lost, and what it acknowledges is stored, or lost as well.
LEMMA RespondKept ==
    ASSUME RInv, AgentKeeps, QueueKeeps, TimeStands, LostGrows,
           unleased' \subseteq unleased \cup 1..created',
           NEW ack, NEW t \in E!Tasks, E!Respond(ack, t),
           t.id # None => /\ t.id \in 1..created' /\ t.execution = (kind'[t.id] = "EXECUTION")
                          /\ t.left <= ttl'[t.id]
                          /\ t.execution => delivered'[t.id] = boot \/ t.id \in unleased',
           pending.id # None /\ ack = pending.id => Acked(pending.id)'
    PROVE  AgentSide'
<1>1. /\ phase = "polling"
      /\ phase' = IF pending.id # None /\ ack = pending.id THEN "acknowledged" ELSE "responded"
      /\ task' = IF t.left > age THEN [t EXCEPT !.left = @ - age] ELSE [t EXCEPT !.left = 0]
      /\ UNCHANGED <<boot, journal, recent, known, pending, evaluated, asked>>
  BY DEF E!Respond, E!disk, E!history
<1>2. /\ task'.id = t.id /\ task'.execution = t.execution
      /\ task'.left <= t.left /\ task'.left \in Nat
  <2>1. age \in Nat /\ t.left \in Nat
    BY Constants DEF RInv, E!IInv, E!TypeOK, E!Tasks
  <2> QED BY <1>1, <2>1 DEF E!Tasks
<1>3. Agreed'
  BY <1>1, <1>2, AgreedKept DEF Q!Executing
<1>4. Waits'
  BY <1>1, WaitsKept
<1>5. Retires'
  <2>1. phase' \in {"acknowledged", "remembered"} => Acked(pending.id)'
    BY <1>1 DEF Acked
  <2>2. ASSUME NEW c \in recent' PROVE Acked(c)'
    BY <1>1, <2>2, AckedKept, Typed DEF RInv, Retires
  <2> QED BY <2>1, <2>2 DEF Retires, Acked
<1>6. Issued'
  BY <1>1, <1>2, IssuedKept DEF Q!Executing
<1>7. Timely'
  <2> SUFFICES ASSUME task'.id # None PROVE task'.left <= ttl'[task'.id]
    BY DEF Timely
  <2>1. t.id # None /\ t.left <= ttl'[t.id] /\ t.id \in 1..created'
    BY <1>2
  <2>2. ttl'[t.id] \in Nat /\ t.left \in Nat
    BY <2>1, Constants DEF QueueKeeps, Q!IInv, Q!TypeOK, Q!Ids, E!Tasks
  <2> QED BY <1>2, <2>1, <2>2
<1>8. Remembered'
  BY <1>1, RememberedKept
<1>9. ExecutedOnce'
  BY <1>1, ExecutedOnceKept
<1> QED BY <1>3, <1>4, <1>5, <1>6, <1>7, <1>8, <1>9 DEF AgentSide

-----------------------------------------------------------------------------
(***************************************************************************)
(* Polls.                                                                  *)
(***************************************************************************)

\* The acknowledgement that the EA waits for is that of what it sent.
LEMMA AcknowledgementSent == ASSUME RInv, phase = "polling" PROVE Acknowledgement(Request) = pending.id
<1>1. CASE pending.id = None
  BY <1>1 DEF Acknowledgement, Request
<1>2. CASE pending.id # None
  BY <1>2, RequestVouched DEF Acknowledgement
<1> QED BY <1>1, <1>2

\* What a response says of its command.
LEMMA ContentSound ==
    ASSUME RInv, NEW d, d \subseteq 1..created
    PROVE  /\ Content(d) \in E!Tasks
           /\ Content(d).id # None => /\ Content(d).id \in d
                                      /\ Content(d).execution = Q!Executing(Content(d).id)
                                      /\ Content(d).left = ttl[Content(d).id]
<1>1. CASE d = {}
  <2>1. Content(d) = [id |-> None, execution |-> FALSE, left |-> 0]
    BY <1>1 DEF Content, E!NoTask
  <2> QED BY <2>1, Constants DEF E!Tasks
<1>2. CASE d # {}
  <2>1. PICK c \in d : Content(d) = [id |-> c, execution |-> Q!Executing(c), left |-> ttl[c]]
    BY <1>2 DEF Content
  <2>2. c \in 1..MaxCommands /\ ttl[c] \in 0..Ttl
    BY Typed DEF RInv, Q!IInv, Q!TypeOK
  <2> QED BY <2>1, <2>2 DEF E!Tasks, Q!Executing
<1> QED BY <1>1, <1>2

\* A poll that is committed.
LEMMA PollKeeps ==
    ASSUME RInv, NEW s \in 1..boot, NEW r \in Q!Reports, NEW m \in Q!Submissions, Vouched(m),
           Q!Poll(Agent, s, r, m)
    PROVE  QueueKeeps /\ TimeStands
<1>1. s \in 1..MaxBoots /\ Q!IInv /\ Sighted
  BY Typed, Constants DEF RInv
<1>2. /\ Q!IInv' /\ Sighted'
      /\ UNCHANGED <<created, kind, ttl>>
      /\ result' = IF m = Q!NoSubmission THEN result ELSE [result EXCEPT ![m.command] = m.status]
      /\ \A c \in Q!Ids : /\ result[c] # Q!NoResult => result'[c] = result[c]
                          /\ delivered[c] # None => delivered'[c] = delivered[c]
                          /\ delivered'[c] \in {delivered[c], s}
  BY <1>1, PollStep
<1>3. ASSUME NEW c \in Q!Ids, result'[c] # result[c] PROVE Closed(c) /\ Honest(c, result'[c])
  <2>1. result \in [Q!Ids -> E!Statuses \cup {Q!NoResult}]
    BY <1>1 DEF Q!IInv, Q!TypeOK
  <2>2. m # Q!NoSubmission /\ c = m.command /\ result'[c] = m.status
    BY <1>2, <1>3, <2>1
  <2> QED BY <2>2 DEF Vouched
<1> QED BY <1>2, <1>3 DEF QueueKeeps, TimeStands

\* Another handler.
LEMMA HandlerKeeps == ASSUME RInv, Handles PROVE QueueKeeps /\ TimeStands
  BY HandlerStep DEF RInv, QueueKeeps, TimeStands

\* The server stands still.
LEMMA StillKeeps == ASSUME RInv, UNCHANGED queueVars PROVE QueueKeeps /\ TimeStands
<1>1. /\ UNCHANGED <<account, status, result, delivered, handed, agent, session, seen, report>>
      /\ UNCHANGED <<created, kind, owner, source, ttl>>
  BY DEF queueVars
<1>2. Q!IInv'
  BY <1>1 DEF RInv, Q!IInv, Q!TypeOK, Q!Consistent, Q!BlockMatches, Q!Single, Q!Lifecycle, Q!ResultKept,
         Q!Owned, Q!Active, Q!Executing, Q!Provenance, Q!Rows
<1>3. Sighted'
  BY <1>1 DEF RInv, Sighted, InSight, Q!Outstanding, Q!Executing
<1> QED BY <1>1, <1>2, <1>3 DEF QueueKeeps, TimeStands

\* Time passes on the server.
LEMMA TickKeeps == ASSUME RInv, Q!Tick PROVE QueueKeeps
<1>1. /\ Q!IInv' /\ UNCHANGED <<result, status, delivered, created, kind>>
  BY TickStep DEF RInv
<1>2. Sighted'
  BY <1>1 DEF RInv, Sighted, InSight, Q!Outstanding, Q!Executing
<1> QED BY <1>1, <1>2 DEF QueueKeeps

\* A command that waits has been created.
LEMMA WaitingExists ==
    ASSUME RInv, NEW c \in Q!Ids, status[c] # "NEW" PROVE c \in 1..created
<1>1. ~(c > created) /\ c \in 1..MaxCommands /\ created \in 0..MaxCommands
  BY DEF RInv, Q!IInv, Q!Consistent, Q!Lifecycle, Q!Rows, Q!TypeOK, Q!Ids
<1> QED BY <1>1, Constants

\* The response to a committed poll is heard.
LEMMA ServeKept ==
    ASSUME RInv, NEW r \in Q!Reports, Serve(r)
    PROVE  QueueKeeps /\ TimeStands /\ AgentKeeps /\ AgentSide'
<1> DEFINE d == Delivery(Request, r)
           ack == Acknowledgement(Request)
<1>1. /\ phase = "polling" /\ Q!Poll(Agent, boot, r, Request.result)
      /\ E!Respond(ack, Content(d)) /\ unleased' = unleased /\ unstored' = unstored
  BY DEF Serve, Hear, lost
<1>2. /\ boot \in 1..MaxBoots /\ Request.session = boot /\ Request.result \in Q!Submissions
      /\ Vouched(Request.result)
      /\ pending.id # None => Request.result = [command |-> pending.id, status |-> pending.result]
                              /\ Request.result # Q!NoSubmission /\ pending.result # Q!NoResult
  BY <1>1, RequestVouched
<1>3. QueueKeeps /\ TimeStands
  <2>1. boot \in 1..boot
    BY <1>2, Constants
  <2> QED BY <1>1, <1>2, <2>1, PollKeeps
<1>4. UNCHANGED <<created, kind, ttl>>
  BY <1>1 DEF Q!Poll, Q!commandVars
<1>5. ASSUME NEW c \in d
      PROVE  c \in 1..created /\ (Q!Executing(c) => delivered'[c] = boot)
  <2>1. /\ c \in Q!Ids /\ status'[c] = "LEASED"
        /\ Q!Executing(c) => delivered'[c] = boot
    BY <1>1, <1>2, DeliveredIsLeased DEF RInv
  <2>2. ~(c > created')
    BY <1>3, <2>1 DEF QueueKeeps, Q!IInv, Q!Consistent, Q!Lifecycle, Q!Rows
  <2> QED BY <1>4, <2>1, <2>2, Typed, Constants
<1>6. /\ Content(d) \in E!Tasks
      /\ Content(d).id # None => /\ Content(d).id \in d
                                 /\ Content(d).execution = Q!Executing(Content(d).id)
                                 /\ Content(d).left = ttl[Content(d).id]
  BY <1>5, ContentSound
<1>7. ack = pending.id /\ pending.id \in 1..MaxCommands \cup {None}
  BY <1>1, AcknowledgementSent, Typed
<1>8. AgentKeeps
  BY <1>1, <1>6, <1>7, AgentKept DEF AgentMoves
<1>9. pending.id # None => Acked(pending.id)'
  <2> SUFFICES ASSUME pending.id # None PROVE result'[pending'.id] # Q!NoResult
    BY DEF Acked, Q!NoResult
  <2>1. pending.id \in Q!Ids /\ result \in [Q!Ids -> E!Statuses \cup {Q!NoResult}]
    BY Typed DEF RInv, Q!IInv, Q!TypeOK
  <2>2. Request.result.command = pending.id /\ Request.result.status = pending.result
    BY <1>2
  <2>3. result' = [result EXCEPT ![pending.id] = pending.result]
    BY <1>1, <1>2, <2>2 DEF Q!Poll
  <2>4. pending' = pending
    BY <1>1 DEF E!Respond
  <2> QED BY <1>2, <2>1, <2>3, <2>4
<1>10. Content(d).id # None =>
         /\ Content(d).id \in 1..created'
         /\ Content(d).execution = (kind'[Content(d).id] = "EXECUTION")
         /\ Content(d).left <= ttl'[Content(d).id]
         /\ Content(d).execution => delivered'[Content(d).id] = boot
  <2> SUFFICES ASSUME Content(d).id # None
               PROVE  /\ Content(d).id \in 1..created'
                      /\ Content(d).execution = (kind'[Content(d).id] = "EXECUTION")
                      /\ Content(d).left <= ttl'[Content(d).id]
                      /\ Content(d).execution => delivered'[Content(d).id] = boot
    OBVIOUS
  <2>1. PICK c \in d : Content(d).id = c /\ Content(d).left = ttl[c]
                       /\ Content(d).execution = (kind[c] = "EXECUTION")
    BY <1>6 DEF Q!Executing
  <2>2. c \in 1..created /\ ttl[c] \in Nat
    BY <1>5, <2>1, Typed, Constants DEF RInv, Q!IInv, Q!TypeOK
  <2>3. ttl[c] <= ttl'[c] /\ kind'[c] = kind[c] /\ c \in 1..created'
    BY <1>4, <2>2
  <2> HIDE DEF d
  <2> QED BY <1>5, <2>1, <2>2, <2>3 DEF Q!Executing
<1>11. LostGrows
  BY <1>1 DEF LostGrows
<1>12. AgentSide'
  <2> HIDE DEF d, ack
  <2> QED BY <1>1, <1>3, <1>6, <1>7, <1>8, <1>9, <1>10, <1>11, RespondKept
<1> QED BY <1>3, <1>8, <1>12

\* The response to a poll is heard, and the poll is rolled back.
LEMMA ServeUncommittedKept ==
    ASSUME RInv, NEW r \in Q!Reports, ServeUncommitted(r)
    PROVE  QueueKeeps /\ TimeStands /\ AgentKeeps /\ AgentSide'
<1> DEFINE d == Delivery(Request, r)
           ack == Acknowledgement(Request)
<1>1. /\ phase = "polling" /\ agent[Agent] = "PAIRED"
      /\ Request.result # Q!NoSubmission => Q!Acceptable(Agent, Request.result)
      /\ E!Respond(ack, Content(d))
      /\ unleased' = unleased \cup {c \in d : status[c] = "PENDING"}
      /\ unstored' = unstored \cup {c \in Q!Ids : c = pending.id /\ result[c] = Q!NoResult}
      /\ UNCHANGED queueVars
  BY DEF ServeUncommitted, Hear, Q!Heard
<1>2. /\ Request.session = boot /\ Request.result \in Q!Submissions
      /\ pending.id # None => Request.result = [command |-> pending.id, status |-> pending.result]
                              /\ Request.result # Q!NoSubmission /\ pending.result # Q!NoResult
  BY <1>1, RequestVouched
<1>3. QueueKeeps /\ TimeStands
  BY <1>1, StillKeeps
<1>4. UNCHANGED <<created, kind, ttl, status, delivered, result>>
  BY <1>1 DEF queueVars
<1>5. ASSUME NEW c \in d
      PROVE  /\ c \in 1..created
             /\ Q!Executing(c) => delivered'[c] = boot \/ c \in unleased'
  <2>1. /\ c \in Q!Ids
        /\ \/ status[c] = "PENDING"
           \/ status[c] = "LEASED" /\ (Q!Executing(c) => delivered[c] = boot)
    BY <1>1, <1>2, DeliveredStood DEF RInv
  <2> QED BY <1>1, <1>4, <2>1, WaitingExists
<1>6. /\ Content(d) \in E!Tasks
      /\ Content(d).id # None => /\ Content(d).id \in d
                                 /\ Content(d).execution = Q!Executing(Content(d).id)
                                 /\ Content(d).left = ttl[Content(d).id]
  BY <1>5, ContentSound
<1>7. ack = pending.id /\ pending.id \in 1..MaxCommands \cup {None}
  BY <1>1, AcknowledgementSent, Typed
<1>8. AgentKeeps
  BY <1>1, <1>6, <1>7, AgentKept DEF AgentMoves
<1>9. pending.id # None => Acked(pending.id)'
  <2> SUFFICES ASSUME pending.id # None
               PROVE  \/ result[pending.id] # Q!NoResult
                      \/ pending.id \in unstored' /\ delivered[pending.id] # None
    <3>1. pending' = pending
      BY <1>1 DEF E!Respond
    <3> QED BY <1>4, <3>1 DEF Acked, Q!NoResult
  <2>1. pending.id \in Q!Ids
    BY Typed
  <2>2. \/ result[pending.id] = pending.result
        \/ result[pending.id] = Q!NoResult /\ delivered[pending.id] # None
    BY <1>1, <1>2 DEF Q!Acceptable
  <2> QED BY <1>1, <1>2, <2>1, <2>2
<1>10. Content(d).id # None =>
         /\ Content(d).id \in 1..created'
         /\ Content(d).execution = (kind'[Content(d).id] = "EXECUTION")
         /\ Content(d).left <= ttl'[Content(d).id]
         /\ Content(d).execution => delivered'[Content(d).id] = boot \/ Content(d).id \in unleased'
  <2> SUFFICES ASSUME Content(d).id # None
               PROVE  /\ Content(d).id \in 1..created'
                      /\ Content(d).execution = (kind'[Content(d).id] = "EXECUTION")
                      /\ Content(d).left <= ttl'[Content(d).id]
                      /\ Content(d).execution =>
                           delivered'[Content(d).id] = boot \/ Content(d).id \in unleased'
    OBVIOUS
  <2>1. PICK c \in d : Content(d).id = c /\ Content(d).left = ttl[c]
                       /\ Content(d).execution = (kind[c] = "EXECUTION")
    BY <1>6 DEF Q!Executing
  <2>2. c \in 1..created /\ ttl[c] \in Nat
    BY <1>5, <2>1, Typed, Constants DEF RInv, Q!IInv, Q!TypeOK
  <2>3. ttl[c] <= ttl'[c] /\ kind'[c] = kind[c] /\ c \in 1..created'
    BY <1>4, <2>2
  <2> HIDE DEF d
  <2> QED BY <1>5, <2>1, <2>2, <2>3 DEF Q!Executing
<1>11. LostGrows /\ unleased' \subseteq unleased \cup 1..created'
  BY <1>1, <1>4, <1>5 DEF LostGrows
<1>12. AgentSide'
  <2> HIDE DEF d, ack
  <2> QED BY <1>1, <1>3, <1>6, <1>7, <1>8, <1>9, <1>10, <1>11, RespondKept
<1> QED BY <1>3, <1>8, <1>12

-----------------------------------------------------------------------------
(***************************************************************************)
(* The two sides together.                                                 *)
(***************************************************************************)

\* A poll that is given up carries what the EA stands by.
LEMMA LateKept ==
    ASSUME RInv, AgentKeeps, QueueKeeps,
           late' \subseteq late \/ (phase = "polling" /\ late' = late \cup {Request})
    PROVE  LateVouched'
<1>1. ASSUME NEW q \in late'
      PROVE  q.session \in 1..boot /\ q.result \in Q!Submissions /\ Vouched(q.result)
  <2>1. CASE q \in late
    BY <2>1 DEF RInv, LateVouched
  <2>2. CASE phase = "polling" /\ q = Request
    BY <2>2, RequestVouched, Constants
  <2> QED BY <1>1, <2>1, <2>2
<1>2. 1..boot \subseteq 1..boot'
  BY Typed, Constants DEF AgentKeeps
<1>3. ASSUME NEW q \in late'
      PROVE  q.session \in 1..boot' /\ q.result \in Q!Submissions /\ Vouched(q.result)'
  BY <1>1, <1>2, <1>3, VouchedKept
<1> QED BY <1>3 DEF LateVouched, Vouched, Q!Submissions, Q!NoSubmission, Q!NoResult, Q!Ids, E!Statuses

\* The invariant, from its halves.
LEMMA BothKept ==
    ASSUME RInv, AgentKeeps, QueueKeeps, AgentSide',
           late' \subseteq late \/ (phase = "polling" /\ late' = late \cup {Request})
    PROVE  RInv'
<1>1. LateVouched' /\ StoredVouched'
  BY LateKept, StoredKept
<1>2. Q!IInv' /\ E!IInv' /\ Sighted'
  BY DEF QueueKeeps, AgentKeeps
<1> QED BY <1>1, <1>2 DEF RInv, AgentSide

\* Initially nothing is on its way.
LEMMA InitRInv == Init => RInv
<1> SUFFICES ASSUME Init PROVE RInv
  OBVIOUS
<1>1. Q!IInv
  BY P!InitIInv, Constants, SameHandlers, SameQueueInvariant DEF Init
<1>2. E!IInv
  BY F!InitIInv, Constants, SameAgent, SameAgentInvariant DEF Init
<1>3. LateVouched /\ StoredVouched
  BY DEF Init, Q!Init, LateVouched, StoredVouched
<1>4. Agreed /\ Waits /\ Retires /\ Timely /\ ExecutedOnce
  BY DEF Init, E!Init, E!Empty, E!Entry, E!NoTask, E!NoPending, Agreed, Waits, Retires, Timely,
         ExecutedOnce, Q!Ids
<1>5. Issued /\ Sighted /\ Remembered
  BY Constants DEF Init, Q!Init, Issued, Sighted, Remembered
<1> QED BY <1>1, <1>2, <1>3, <1>4, <1>5 DEF RInv

\* The EA starts.
LEMMA StartRInv == ASSUME RInv, PairAgent \/ Restart PROVE RInv'
<1>1. E!Start /\ late' = late /\ UNCHANGED lost
  BY DEF PairAgent, Restart
<1>2. AgentKeeps
  BY <1>1, AgentKept DEF AgentMoves
<1>3. QueueKeeps /\ TimeStands
  <2>1. CASE PairAgent
    <3>1. boot + 1 \in 1..MaxBoots
      BY <1>1, Typed, Constants DEF E!Start
    <3>2. Handles
      BY <2>1, <3>1 DEF PairAgent, Handles
    <3> QED BY <3>2, HandlerKeeps
  <2>2. CASE Restart
    BY <2>2, StillKeeps DEF Restart
  <2> QED BY <2>1, <2>2
<1>4. AgentSide'
  BY <1>1, <1>2, <1>3, StartKept DEF Aside
<1> QED BY <1>1, <1>2, <1>3, <1>4, BothKept

\* A poll is sent, or comes to nothing, or is still under way when it is given
\* up or the terminal stops.
LEMMA AskRInv == ASSUME RInv, Ask \/ Refuse \/ GiveUp \/ Crash PROVE RInv'
<1>1. /\ E!Ask \/ E!Fail \/ E!Crash
      /\ UNCHANGED queueVars /\ UNCHANGED lost
      /\ late' = late \/ (phase = "polling" /\ late' = late \cup {Request})
  BY DEF Ask, Refuse, GiveUp, Crash, Linger, E!Fail
<1>2. AgentKeeps
  BY <1>1, AgentKept DEF AgentMoves
<1>3. QueueKeeps /\ TimeStands
  BY <1>1, StillKeeps
<1>4. AgentSide'
  BY <1>1, <1>2, <1>3, PauseKept DEF Aside
<1> QED BY <1>1, <1>2, <1>3, <1>4, BothKept

\* A poll is answered, and committed or not.
LEMMA ServeRInv ==
    ASSUME RInv, NEW r \in Q!Reports, Serve(r) \/ ServeUncommitted(r) PROVE RInv'
<1>1. late' = late
  BY DEF Serve, ServeUncommitted
<1> QED BY <1>1, ServeKept, ServeUncommittedKept, BothKept

\* A poll is processed, and its response is lost.
LEMMA ServeUnheardRInv == ASSUME RInv, NEW r \in Q!Reports, ServeUnheard(r) PROVE RInv'
<1>1. /\ phase = "polling" /\ Q!Poll(Agent, boot, r, Request.result) /\ E!Fail
      /\ late' = late /\ UNCHANGED lost
  BY DEF ServeUnheard
<1>2. boot \in 1..boot /\ Request.result \in Q!Submissions /\ Vouched(Request.result)
  BY <1>1, RequestVouched, Constants
<1>3. QueueKeeps /\ TimeStands
  BY <1>1, <1>2, PollKeeps
<1>4. AgentKeeps
  BY <1>1, AgentKept DEF AgentMoves
<1>5. AgentSide'
  BY <1>1, <1>3, <1>4, PauseKept DEF Aside
<1> QED BY <1>1, <1>3, <1>4, <1>5, BothKept

\* A poll is processed after the EA has given it up.
LEMMA ServeLateRInv ==
    ASSUME RInv, NEW r \in Q!Reports, NEW q \in late, ServeLate(q, r) PROVE RInv'
<1>1. /\ Q!Poll(Agent, q.session, r, q.result)
      /\ UNCHANGED agentVars /\ UNCHANGED lost /\ late' \subseteq late
  BY DEF ServeLate
<1>2. q.session \in 1..boot /\ q.result \in Q!Submissions /\ Vouched(q.result)
  BY DEF RInv, LateVouched
<1>3. QueueKeeps /\ TimeStands
  BY <1>1, <1>2, PollKeeps
<1>4. AgentKeeps
  BY <1>1, AgentKept DEF AgentMoves
<1>5. AgentSide'
  BY <1>1, <1>3, <1>4, StillKept DEF Aside
<1> QED BY <1>1, <1>3, <1>4, <1>5, BothKept

\* What the EA does of its own.
LEMMA LocalRInv == ASSUME RInv, Local PROVE RInv'
<1>1. E!Local /\ UNCHANGED queueVars /\ late' = late /\ UNCHANGED lost
  BY DEF Local
<1>2. AgentKeeps
  BY <1>1, AgentKept DEF AgentMoves
<1>3. QueueKeeps /\ TimeStands
  BY <1>1, StillKeeps
<1>4. AgentSide'
  BY <1>1, <1>2, <1>3, LocalKept DEF Aside
<1> QED BY <1>1, <1>2, <1>3, <1>4, BothKept

\* The human, the sweeper and the operator.
LEMMA HandlerRInv == ASSUME RInv, Human \/ Sweep \/ \E c \in Q!Ids : Reconcile(c) PROVE RInv'
<1>1. UNCHANGED agentVars /\ late' = late /\ UNCHANGED lost /\ Handles
  BY DEF Human, Sweep, Reconcile, Handles
<1>2. QueueKeeps /\ TimeStands
  BY <1>1, HandlerKeeps
<1>3. AgentKeeps
  BY <1>1, AgentKept DEF AgentMoves
<1>4. AgentSide'
  BY <1>1, <1>2, <1>3, StillKept DEF Aside
<1> QED BY <1>1, <1>2, <1>3, <1>4, BothKept

\* Time.
LEMMA TickRInv == ASSUME RInv, Tick PROVE RInv'
<1>1. Q!Tick /\ E!Tick /\ late' = late /\ UNCHANGED lost
  BY DEF Tick
<1>2. QueueKeeps /\ AgentKeeps
  BY <1>1, TickKeeps, AgentKept DEF AgentMoves
<1>3. AgentSide'
  BY <1>1, <1>2, TickKept
<1> QED BY <1>1, <1>2, <1>3, BothKept

\* Every step keeps it.
LEMMA NextRInv == RInv /\ [Next]_vars => RInv'
<1> SUFFICES ASSUME RInv, [Next]_vars PROVE RInv'
  OBVIOUS
<1>1. CASE UNCHANGED vars
  <2>1. UNCHANGED queueVars /\ UNCHANGED agentVars /\ late' = late /\ UNCHANGED lost
    BY <1>1 DEF vars
  <2>2. QueueKeeps /\ TimeStands /\ AgentKeeps
    BY <2>1, StillKeeps, AgentKept DEF AgentMoves
  <2>3. AgentSide'
    BY <2>1, <2>2, StillKept DEF Aside
  <2> QED BY <2>1, <2>2, <2>3, BothKept
<1>2. CASE Next
  BY <1>2, StartRInv, AskRInv, ServeRInv, ServeUnheardRInv, ServeLateRInv, LocalRInv, HandlerRInv,
     TickRInv DEF Next
<1> QED BY <1>1, <1>2

-----------------------------------------------------------------------------
(***************************************************************************)
(* The theorems.                                                           *)
(***************************************************************************)

\* What travels between the EA and the server is what the EA has done, and what
\* the EA may do is what the server has leased, save where a transaction or a
\* record was lost.
THEOREM Invariance == Spec => []RInv
  BY InitRInv, NextRInv, PTL DEF Spec

\* It takes a lost transaction and a lost record to execute a command twice,
\* over all polls, restarts and expiries.
THEOREM TwiceNeedsTwoFailures == Spec => []ExecutedOnce
<1>1. RInv => ExecutedOnce
  BY DEF RInv
<1> QED BY <1>1, Invariance, PTL

\* While the EA may send a broker request, the account is held for it, save
\* after a lost lease or an early reconciliation.
THEOREM HeldWhileTheBrokerIsAsked == Spec => []InterlockHeld
<1>1. RInv => InterlockHeld
  <2> SUFFICES ASSUME RInv, phase = "started", task.execution, task.left > 0
               PROVE  /\ task.left <= ttl[task.id]
                      /\ \/ Q!Outstanding(task.id)
                         \/ status[task.id] = "CANCELLED"
                         \/ /\ task.id \in unleased
                            /\ status[task.id] = "PENDING" \/ task.id \in lapsed
    BY DEF InterlockHeld
  <2>1. task.id # None
    BY DEF RInv, E!IInv, E!MemoryMatchesDisk
  <2>2. /\ task.id \in 1..created /\ task.id \in Q!Ids /\ Q!Executing(task.id)
        /\ task.left <= ttl[task.id]
    BY <2>1, Typed DEF RInv, Agreed, Timely
  <2>3. status[task.id] # "EXPIRED"
    <3>1. task.left \in Nat
      BY Typed, Constants DEF E!Tasks
    <3>2. ttl[task.id] # 0
      BY <2>2, <3>1
    <3> QED BY <2>2, <3>2 DEF RInv, Q!IInv, Q!Consistent, Q!Lifecycle, Q!Rows
  <2>4. status[task.id] = "PENDING" \/ InSight(task.id)
    BY <2>2, <2>3 DEF RInv, Sighted
  <2>5. result[task.id] # Q!NoResult => task.id \in unleased /\ task.id \in lapsed
    <3> SUFFICES ASSUME result[task.id] # Q!NoResult
                 PROVE  task.id \in unleased /\ task.id \in lapsed
      OBVIOUS
    <3>1. Closed(task.id)
      BY <2>2 DEF RInv, StoredVouched
    <3>2. evaluated[task.id] > 1
      BY <3>1 DEF Closed
    <3> QED BY <2>2, <3>2 DEF RInv, ExecutedOnce
  <2>6. status[task.id] = "PENDING" => task.id \in unleased
    <3>1. status[task.id] = "PENDING" => delivered[task.id] = None
      BY <2>2 DEF RInv, Q!IInv, Q!Consistent, Q!Lifecycle, Q!Rows
    <3>2. boot \in 1..MaxBoots
      BY DEF RInv, Waits
    <3> QED BY <2>2, <3>1, <3>2, Constants DEF RInv, Issued
  <2> QED BY <2>2, <2>4, <2>5, <2>6 DEF InSight
<1> QED BY <1>1, Invariance, PTL

\* A lease that was given is what keeps the command in sight.
LEMMA LeasedInSight ==
    ASSUME RInv, NEW c \in 1..created, Q!Executing(c), delivered[c] # None PROVE InSight(c)
<1>1. c \in Q!Ids
  BY Typed
<1>2. status[c] \notin {"PENDING", "EXPIRED"}
  BY <1>1 DEF RInv, Q!IInv, Q!Consistent, Q!Lifecycle, Q!Rows
<1> QED BY <1>2 DEF RInv, Sighted

\* Nothing that the broker was asked to do escapes both the server and the EA,
\* unless both have lost it.
THEOREM NothingUnaccounted == Spec => []Accounted
<1>1. RInv => Accounted
  <2> SUFFICES ASSUME RInv, NEW c \in asked
               PROVE  \/ InSight(c)
                      \/ c \in unleased /\ (journal.id = c \/ c \in lapsed)
    BY DEF Accounted, InSight
  <2>1. c \in Q!Ids /\ Q!Executing(c) /\ evaluated[c] > 0
    BY Typed DEF RInv, Agreed, E!IInv, E!Known, Q!Ids
  <2>2. c \in 1..created
    BY <2>1, Typed, Constants DEF RInv, Agreed, Q!Ids
  <2>3. CASE c \notin unleased
    BY <2>1, <2>2, <2>3, LeasedInSight DEF RInv, Issued
  <2>4. CASE c \in recent
    <3>1. result[c] # Q!NoResult \/ delivered[c] # None
      BY <2>4 DEF RInv, Retires, Acked
    <3> QED BY <2>1, <2>2, <3>1, LeasedInSight DEF InSight
  <2>5. journal.id = c \/ c \in recent \/ c \in lapsed
    BY <2>1, Typed DEF RInv, E!IInv, E!Known, Q!Ids
  <2> QED BY <2>3, <2>4, <2>5
<1> QED BY <1>1, Invariance, PTL

\* The EA lets go of a result only when the server has it, or holds the account
\* in its place because the result was lost after its acknowledgement.
THEOREM HandOver == Spec => []HandedOver
<1>1. RInv => HandedOver
  <2> SUFFICES ASSUME RInv, NEW c \in recent, result[c] = Q!NoResult
               PROVE  /\ c \in unstored
                      /\ Q!Executing(c) => Q!Outstanding(c) \/ status[c] = "CANCELLED"
    BY DEF HandedOver
  <2>1. c \in unstored /\ delivered[c] # None /\ c \in 1..created
    BY DEF RInv, Retires, Acked, Agreed
  <2> QED BY <2>1, LeasedInSight DEF InSight
<1> QED BY <1>1, Invariance, PTL

\* The server never stores of an execution what the EA does not stand by.
THEOREM ResultsHonest == Spec => []ResultHonest
<1>1. RInv => ResultHonest
  BY DEF RInv, StoredVouched, Honest, ResultHonest
<1> QED BY <1>1, Invariance, PTL

\* The composition asks nothing of the queue that CommandQueue does not know,
\* so whatever is proved of the queue alone holds within the whole system.
THEOREM ImplementsQueue == Spec => Q!Spec
<1>1. Init => Q!Init
  BY DEF Init
<1>2. RInv /\ [Next]_vars => [Q!Next]_(Q!vars)
  <2> SUFFICES ASSUME RInv, [Next]_vars PROVE [Q!Next]_(Q!vars)
    OBVIOUS
  <2>1. CASE UNCHANGED queueVars
    BY <2>1 DEF queueVars, Q!vars, Q!agentVars, Q!commandVars
  <2>2. CASE PairAgent
    <3>1. boot + 1 \in 1..MaxBoots
      BY <2>2, Typed, Constants DEF PairAgent, E!Start
    <3> QED BY <2>2, <3>1 DEF PairAgent, Q!Next, Q!Matching
  <2>3. ASSUME NEW r \in Q!Reports, Serve(r) \/ ServeUnheard(r) PROVE Q!Next
    <3>1. boot \in 1..MaxBoots /\ Request.result \in Q!Submissions
          /\ Q!Poll(Agent, boot, r, Request.result)
      BY <2>3, RequestVouched DEF Serve, ServeUnheard
    <3> QED BY <3>1 DEF Q!Next, Q!Matching
  <2>4. ASSUME NEW r \in Q!Reports, NEW q \in late, ServeLate(q, r) PROVE Q!Next
    <3>1. q.session \in 1..MaxBoots /\ q.result \in Q!Submissions
          /\ Q!Poll(Agent, q.session, r, q.result)
      BY <2>4, Typed, Constants DEF ServeLate, RInv, LateVouched
    <3> QED BY <3>1 DEF Q!Next, Q!Matching
  <2>5. CASE Human \/ Sweep \/ (\E c \in Q!Ids : Reconcile(c)) \/ Tick
    BY <2>5 DEF Human, Sweep, Reconcile, Tick, Q!Next, Q!Matching
  <2>6. CASE Restart \/ Ask \/ Refuse \/ GiveUp \/ Crash \/ Local
                     \/ \E r \in Q!Reports : ServeUncommitted(r)
    BY <2>1, <2>6 DEF Restart, Ask, Refuse, GiveUp, Crash, Local, ServeUncommitted
  <2>7. CASE UNCHANGED vars
    BY <2>1, <2>7 DEF vars
  <2> QED BY <2>2, <2>3, <2>4, <2>5, <2>6, <2>7 DEF Next
<1> QED BY <1>1, <1>2, Invariance, PTL DEF Spec, Q!Spec

\* A response that the composition gives is one that EaAgent allows for.
LEMMA HearsResponse ==
    ASSUME RInv, NEW r \in Q!Reports, Serve(r) \/ ServeUncommitted(r) PROVE E!Next
<1>1. phase = "polling" /\ Hear(r)
  BY DEF Serve, ServeUncommitted
<1>2. Acknowledgement(Request) \in 1..MaxCommands \cup {None}
  BY <1>1, AcknowledgementSent, Typed
<1>3. Delivery(Request, r) \subseteq 1..created
  <2>1. CASE Serve(r)
    <3> SUFFICES ASSUME NEW c \in Delivery(Request, r) PROVE c \in 1..created
      OBVIOUS
    <3>1. Q!Poll(Agent, Request.session, r, Request.result) /\ created' = created
      BY <1>1, <2>1, RequestVouched DEF Serve, Q!Poll, Q!commandVars
    <3>2. c \in Q!Ids /\ status'[c] = "LEASED" /\ Q!IInv'
      BY <1>1, <2>1, <3>1, RequestVouched, DeliveredIsLeased, ServeKept DEF RInv, QueueKeeps
    <3>3. ~(c > created')
      BY <3>2 DEF Q!IInv, Q!Consistent, Q!Lifecycle, Q!Rows
    <3> QED BY <3>1, <3>2, <3>3, Typed, Constants
  <2>2. CASE ServeUncommitted(r)
    <3> SUFFICES ASSUME NEW c \in Delivery(Request, r) PROVE c \in 1..created
      OBVIOUS
    <3>1. c \in Q!Ids /\ status[c] # "NEW"
      BY <1>1, <2>2, RequestVouched, DeliveredStood DEF ServeUncommitted, Q!Heard, RInv
    <3> QED BY <3>1, WaitingExists
  <2> QED BY <2>1, <2>2
<1>4. Content(Delivery(Request, r)) \in E!Tasks
  BY <1>3, ContentSound
<1> QED BY <1>1, <1>2, <1>4 DEF Hear, E!Next

\* ... and nothing of the EA that EaAgent does not know.
THEOREM ImplementsAgent == Spec => E!Spec
<1>1. Init => E!Init
  BY DEF Init
<1>2. RInv /\ [Next]_vars => [E!Next]_(E!vars)
  <2> SUFFICES ASSUME RInv, [Next]_vars PROVE [E!Next]_(E!vars)
    OBVIOUS
  <2>1. CASE UNCHANGED agentVars
    BY <2>1 DEF agentVars, E!vars, E!disk, E!history
  <2>2. ASSUME NEW r \in Q!Reports, Serve(r) \/ ServeUncommitted(r) PROVE E!Next
    BY <2>2, HearsResponse
  <2>3. ASSUME NEW r \in Q!Reports, ServeUnheard(r) PROVE E!Next
    BY <2>3 DEF ServeUnheard, E!Next
  <2>4. CASE PairAgent \/ Restart \/ Ask \/ Refuse \/ GiveUp \/ Crash \/ Local \/ Tick
    BY <2>4 DEF PairAgent, Restart, Ask, Refuse, GiveUp, Crash, Local, Tick, E!Next
  <2>5. CASE Human \/ Sweep \/ (\E c \in Q!Ids : Reconcile(c))
                   \/ \E r \in Q!Reports, q \in late : ServeLate(q, r)
    BY <2>1, <2>5 DEF Human, Sweep, Reconcile, ServeLate
  <2>6. CASE UNCHANGED vars
    BY <2>1, <2>6 DEF vars
  <2> QED BY <2>2, <2>3, <2>4, <2>5, <2>6 DEF Next
<1> QED BY <1>1, <1>2, Invariance, PTL DEF Spec, E!Spec
=============================================================================
