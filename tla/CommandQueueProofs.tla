-------------------------- MODULE CommandQueueProofs --------------------------
(***************************************************************************)
(* Proofs about CommandQueue, for every set of agents and sessions, every  *)
(* number of commands and every choice of the time windows.                *)
(*                                                                         *)
(* A handler is a chain of steps from Rows to Rows; each step has a lemma  *)
(* that it preserves Consistent, and the proof of an action composes them. *)
(***************************************************************************)
EXTENDS CommandQueueRefinement, TLAPS

RowsType == [account : AccountStatus, status : [Ids -> CommandStatus]]

-----------------------------------------------------------------------------
(***************************************************************************)
(* The steps of a handler.                                                 *)
(***************************************************************************)

\* What expire does to one command.
LEMMA ExpireStatus ==
    ASSUME NEW w \in RowsType, NEW c \in Ids
    PROVE  Expire(w).status[c] = IF Doubtful(w, c) THEN "UNCERTAIN"
                                 ELSE IF Due(w, c) THEN "EXPIRED" ELSE w.status[c]
  BY DEF Expire, RowsType

\* What expire does to the account.
LEMMA ExpireAccount ==
    ASSUME NEW w \in RowsType
    PROVE  Expire(w).account = IF \E c \in Ids : Doubtful(w, c)
                               THEN "BLOCKED_UNCERTAIN" ELSE w.account
  BY DEF Expire

\* expire writes statuses that the columns may hold.
LEMMA ExpireType ==
    ASSUME NEW w \in RowsType PROVE Expire(w) \in RowsType
  BY DEF Expire, RowsType, AccountStatus, CommandStatus, ACTIVE, Pending, Terminal

\* expire neither activates a command nor loses an unresolved execution.
LEMMA ExpireConsistent ==
    ASSUME TypeOK, NEW w \in RowsType, NEW res, Consistent(w, res)
    PROVE  Consistent(Expire(w), res)
<1> DEFINE x == Expire(w)
<1> HIDE DEF x
<1>1. \A c \in Ids : x.status[c] = IF Doubtful(w, c) THEN "UNCERTAIN"
                                 ELSE IF Due(w, c) THEN "EXPIRED" ELSE w.status[c]
  BY ExpireStatus DEF x
<1>2. x.account = IF \E c \in Ids : Doubtful(w, c) THEN "BLOCKED_UNCERTAIN" ELSE w.account
  BY ExpireAccount DEF x
<1>3. \A c \in Active(x) : c \in Active(w)
  BY <1>1 DEF Active, Due, Doubtful, ACTIVE, Pending
<1>4. BlockMatches(x)
  <2>1. CASE \E c \in Ids : Doubtful(w, c)
    BY <1>1, <1>2, <2>1 DEF BlockMatches, Doubtful
  <2>2. CASE ~ \E c \in Ids : Doubtful(w, c)
    BY <1>1, <1>2, <2>2 DEF BlockMatches, Consistent, Due
  <2> QED BY <2>1, <2>2
<1>5. Single(x)
  BY <1>3 DEF Single, Consistent
<1>6. Lifecycle(x, res)
  BY <1>1 DEF Lifecycle, Consistent, Due, Doubtful, ACTIVE, Pending
<1>7. ResultKept(x, res)
  BY <1>1 DEF ResultKept, Lifecycle, Consistent, Due, Doubtful, ACTIVE, Pending
<1>8. Owned(x)
  BY <1>1, <1>3 DEF Owned, Consistent, Due, Doubtful, Active, ACTIVE, Pending
<1> QED BY <1>4, <1>5, <1>6, <1>7, <1>8 DEF Consistent, x

\* The heartbeat does not touch the block.
LEMMA OnlineConsistent ==
    ASSUME NEW w \in RowsType, NEW res, Consistent(w, res)
    PROVE  Online(w) \in RowsType /\ Consistent(Online(w), res)
<1> DEFINE x == Online(w)
<1>1. x \in RowsType /\ x.status = w.status
  BY DEF Online, RowsType, AccountStatus
<1>2. x.account = "BLOCKED_UNCERTAIN" <=> w.account = "BLOCKED_UNCERTAIN"
  BY DEF Online, RowsType
<1> HIDE DEF x
<1>3. Consistent(x, res)
  BY <1>1, <1>2 DEF Consistent, BlockMatches, Single, Lifecycle, ResultKept, Owned, Active
<1> QED BY <1>1, <1>3 DEF x

\* A first result settles the one command in flight, or one that has expired.
LEMMA AcceptConsistent ==
    ASSUME TypeOK, NEW w \in RowsType, w.status = status, Consistent(w, result),
           NEW a \in Agents, NEW m \in [command : Ids, status : Outcomes],
           Acceptable(a, m), result[m.command] = NoResult, agent[a] = "PAIRED"
    PROVE  /\ Accept(w, m) \in RowsType
           /\ Consistent(Accept(w, m), [result EXCEPT ![m.command] = m.status])
<1> DEFINE x == Accept(w, m)
           c == m.command
           res == [result EXCEPT ![m.command] = m.status]
<1>1. /\ c \in Ids
      /\ m.status \in {"SUCCEEDED", "PARTIAL", "FAILED", "UNCERTAIN"}
      /\ owner[c] = a
      /\ w.status[c] \in {"LEASED", "UNCERTAIN", "EXPIRED"}
      /\ delivered[c] # None
      /\ result[c] = NoResult
  BY OutcomesAssumption DEF Acceptable, NoResult
<1>2. x.status = [w.status EXCEPT ![c] = Settled(m)] /\ x.account = SettledAccount(w, m)
  BY DEF Accept
<1>3. Settled(m) \in CommandStatus /\ Settled(m) # "NEW" /\ Settled(m) \notin Pending
  BY <1>1 DEF Settled, CommandStatus, ACTIVE, Pending, Terminal
<1>4. x \in RowsType
  BY <1>1, <1>3 DEF Accept, SettledAccount, RowsType, AccountStatus
<1>5. \A d \in Ids : /\ x.status[d] = IF d = c THEN Settled(m) ELSE w.status[d]
                     /\ res[d] = IF d = c THEN m.status ELSE result[d]
  BY <1>1, <1>2 DEF RowsType, TypeOK
<1>6. Executing(c) => w.status[c] # "EXPIRED"
  BY <1>1 DEF Consistent, Lifecycle
<1>7. ~Executing(c) => w.status[c] # "UNCERTAIN"
  BY <1>1 DEF Consistent, Lifecycle, NoResult
<1>8. w.status[c] = "EXPIRED" => ttl[c] = 0
  BY <1>1 DEF Consistent, Lifecycle
<1>9. c \in Active(x) => c \in Active(w)
  BY <1>1, <1>3, <1>5, <1>6, <1>8 DEF Active, Settled, ACTIVE, Pending
<1> HIDE DEF x, c, res
<1>10. \A d \in Active(x) : d \in Active(w)
  BY <1>5, <1>9 DEF Active
<1>11. BlockMatches(x)
  <2>1. CASE Executing(c)
    <3>1. \A d \in Ids : d # c => ~(Executing(d) /\ w.status[d] = "UNCERTAIN")
      BY <1>1, <1>6, <2>1 DEF Consistent, Single, Active, ACTIVE, Pending
    <3>2. Settled(m) = m.status
      BY <2>1 DEF Settled, c
    <3>3. m.status # "UNCERTAIN" => x.account # "BLOCKED_UNCERTAIN"
      BY <1>1, <1>2, <2>1, <3>2 DEF SettledAccount, c
    <3>4. m.status = "UNCERTAIN" => x.account = "BLOCKED_UNCERTAIN"
      BY <1>1, <1>2, <2>1, <3>2 DEF SettledAccount, c
    <3> QED BY <1>1, <1>5, <2>1, <3>1, <3>2, <3>3, <3>4 DEF BlockMatches
  <2>2. CASE ~Executing(c)
    <3>1. CASE w.status[c] = "EXPIRED"
      <4>1. Settled(m) = "EXPIRED" /\ x.account = w.account
        BY <1>2, <1>8, <2>2, <3>1 DEF Settled, SettledAccount, c
      <4> QED BY <1>5, <2>2, <4>1 DEF BlockMatches, Consistent
    <3>2. CASE w.status[c] = "LEASED"
      <4>1. \A d \in Ids : ~(Executing(d) /\ w.status[d] = "UNCERTAIN")
        BY <1>1, <2>2, <3>2 DEF Consistent, Single, Active, ACTIVE, Pending
      <4>2. w.account # "BLOCKED_UNCERTAIN" /\ x.account = w.account
        BY <1>2, <2>2, <4>1 DEF SettledAccount, BlockMatches, Consistent, c
      <4> QED BY <1>5, <2>2, <4>1, <4>2 DEF BlockMatches
    <3> QED BY <1>1, <1>7, <2>2, <3>1, <3>2
  <2> QED BY <2>1, <2>2
<1>12. Single(x)
  BY <1>10 DEF Single, Consistent
<1>13. Lifecycle(x, res)
  <2>1. Lifecycle(w, result)
    BY DEF Consistent
  <2>2. ASSUME NEW d \in Ids, d # c
        PROVE  x.status[d] = w.status[d] /\ res[d] = result[d]
    BY <1>5, <2>2
  <2>3. x.status[c] = Settled(m) /\ res[c] = m.status
    BY <1>1, <1>5
  <2>4. ~ (c > created)
    BY <1>1, <2>1 DEF Lifecycle
  <2>5. Executing(c) => Settled(m) = m.status
    BY DEF Settled, c
  <2>6. ~Executing(c) => /\ Settled(m) = "EXPIRED" => ttl[c] = 0
                         /\ Settled(m) = "AWAITING_CONFIRMATION" => m.status = "SUCCEEDED"
                         /\ Settled(m) = "UNCERTAIN" => m.status = "UNCERTAIN"
    BY <1>1 DEF Settled, c
  <2> QED BY <1>1, <1>3, <2>1, <2>2, <2>3, <2>4, <2>5, <2>6 DEF Lifecycle, Pending
<1>14. ResultKept(x, res)
  BY <1>1, <1>5 DEF ResultKept, Consistent, Settled, c
<1>15. Owned(x)
  BY <1>1, <1>5, <1>10 DEF Owned, Consistent, Active
<1> QED BY <1>4, <1>11, <1>12, <1>13, <1>14, <1>15 DEF Consistent, x, res


\* A poll that carries a result, or none, up to its call of expire.
LEMMA ReceiveConsistent ==
    ASSUME TypeOK, Consistent(Rows, result),
           NEW a \in Agents, agent[a] = "PAIRED",
           NEW m \in Submissions, m # NoSubmission => Acceptable(a, m),
           NEW res, res = IF m = NoSubmission THEN result
                          ELSE [result EXCEPT ![m.command] = m.status]
    PROVE  /\ Receive(Online(Rows), m) \in RowsType
           /\ Consistent(Receive(Online(Rows), m), res)
           /\ res \in [Ids -> Outcomes \cup {NoResult}]
<1> DEFINE w == Online(Rows)
<1>1. Rows \in RowsType /\ Rows.status = status
  BY DEF Rows, RowsType, TypeOK
<1>2. w \in RowsType /\ Consistent(w, result) /\ w.status = status
  BY <1>1, OnlineConsistent DEF Online
<1> HIDE DEF w
<1>3. CASE m = NoSubmission
  BY <1>2, <1>3 DEF Receive, TypeOK, w
<1>4. CASE m # NoSubmission
  <2>1. m \in [command : Ids, status : Outcomes] /\ Acceptable(a, m)
    BY <1>4 DEF Submissions
  <2>2. res = [result EXCEPT ![m.command] = m.status] /\ res \in [Ids -> Outcomes \cup {NoResult}]
    BY <1>4, <2>1 DEF TypeOK
  <2>3. CASE result[m.command] = NoResult
    <3>1. /\ Accept(w, m) \in RowsType
          /\ Consistent(Accept(w, m), [result EXCEPT ![m.command] = m.status])
      BY <1>2, <2>1, <2>3, AcceptConsistent
    <3>2. Receive(w, m) = Accept(w, m)
      BY <1>4, <2>3 DEF Receive
    <3> QED BY <2>2, <3>1, <3>2 DEF w
  <2>4. CASE result[m.command] # NoResult
    <3>1. res = result
      BY <2>1, <2>2, <2>4 DEF Acceptable, TypeOK
    <3> QED BY <1>2, <1>4, <2>2, <2>4, <3>1 DEF Receive, w
  <2> QED BY <2>3, <2>4
<1> QED BY <1>3, <1>4

\* Rows and results that a handler writes back keep what was proved of them,
\* when the handler changes nothing else that Consistent reads.
LEMMA WriteConsistent ==
    ASSUME NEW w \in RowsType, NEW res, Consistent(w, res), Write(w), result' = res,
           UNCHANGED <<created, kind, owner, ttl, delivered, agent>>
    PROVE  /\ Consistent(Rows, result)'
           /\ account' \in AccountStatus /\ status' \in [Ids -> CommandStatus]
  BY DEF Write, Rows, RowsType, Consistent, BlockMatches, Single, Lifecycle, ResultKept,
         Owned, Active, Executing

\* What an execution was confirmed from stays as it was, as long as commands
\* that succeeded, and their results, stay.
LEMMA ProvenanceKept ==
    ASSUME TypeOK, Provenance,
           UNCHANGED <<created, kind, owner, source>>,
           \A c \in Ids : status[c] = "SUCCEEDED" => status'[c] = "SUCCEEDED",
           \A c \in Ids : result[c] # NoResult => result'[c] = result[c]
    PROVE  Provenance'
<1>1. ASSUME NEW c \in Ids, Executing(c)
      PROVE  /\ source[c] \in Ids
             /\ status'[source[c]] = "SUCCEEDED"
             /\ result'[source[c]] = "SUCCEEDED"
  <2>1. source[c] \in 1..(c - 1) /\ status[source[c]] = "SUCCEEDED" /\ result[source[c]] = "SUCCEEDED"
    BY <1>1 DEF Provenance
  <2>2. source[c] \in Ids
    BY <2>1, MaxCommandsAssumption DEF Ids
  <2> QED BY <2>1, <2>2 DEF NoResult
<1> QED BY <1>1 DEF Provenance, Executing

\* The rows that a handler reads have the types of their columns.
LEMMA RowsTyped == ASSUME TypeOK PROVE Rows \in RowsType
  BY DEF Rows, RowsType, TypeOK

\* expire leaves alone what is over.
LEMMA ExpireKeepsOver ==
    ASSUME NEW w \in RowsType, NEW c \in Ids, w.status[c] \in Terminal
    PROVE  Expire(w).status[c] = w.status[c]
  BY ExpireStatus DEF Doubtful, Due, ACTIVE, Pending, Terminal

\* ... and creates no command and no waiting preview.
LEMMA ExpireKeepsNew ==
    ASSUME NEW w \in RowsType, NEW c \in Ids
    PROVE  /\ Expire(w).status[c] = "NEW" <=> w.status[c] = "NEW"
           /\ Expire(w).status[c] = "AWAITING_CONFIRMATION" => w.status[c] = "AWAITING_CONFIRMATION"
  BY ExpireStatus DEF Doubtful, Due, ACTIVE, Pending, Terminal

\* The dispatch of a poll: what it leases was pending and was never sent, and
\* what it redelivers or disowns was leased.
LEMMA DispatchConsistent ==
    ASSUME TypeOK, NEW w \in RowsType, NEW res, Consistent(w, res), result' = res,
           NEW a \in Agents, NEW s \in Sessions, NEW r \in Reports, Dispatch(w, a, s, r),
           UNCHANGED <<agent, created, kind, owner, ttl>>,
           \A c \in Ids : handed[c] \subseteq {delivered[c]}
    PROVE  /\ Consistent(Rows, result)'
           /\ account' \in AccountStatus /\ status' \in [Ids -> CommandStatus]
           /\ delivered' \in [Ids -> Sessions \cup {None}]
           /\ handed' \in [Ids -> SUBSET Sessions]
           /\ \A c \in Ids : handed'[c] \subseteq {delivered'[c]}
<1>1. CASE Withhold(w, a, r)
  <2>1. Write(w) /\ UNCHANGED <<delivered, handed>>
    BY <1>1 DEF Withhold
  <2> QED BY <2>1, WriteConsistent DEF TypeOK
<1>2. ASSUME NEW c \in Waiting(w, a), Disown(w, c, s)
      PROVE  /\ Consistent(Rows, result)'
             /\ account' \in AccountStatus /\ status' \in [Ids -> CommandStatus]
             /\ UNCHANGED <<delivered, handed>>
  <2> DEFINE x == [account |-> "BLOCKED_UNCERTAIN",
                   status  |-> [w.status EXCEPT ![c] = "UNCERTAIN"]]
  <2>1. c \in Ids /\ w.status[c] = "LEASED" /\ Executing(c) /\ Write(x) /\ UNCHANGED <<delivered, handed>>
    BY <1>2 DEF Disown, Foreign, Waiting
  <2>2. x \in RowsType
    BY <2>1 DEF RowsType, AccountStatus, CommandStatus, ACTIVE
  <2>3. \A d \in Ids : x.status[d] = IF d = c THEN "UNCERTAIN" ELSE w.status[d]
    BY <2>1 DEF RowsType
  <2>4. x.account = "BLOCKED_UNCERTAIN"
    OBVIOUS
  <2> HIDE DEF x
  <2>5. Consistent(x, res)
    <3>1. BlockMatches(x)
      BY <2>1, <2>3, <2>4 DEF BlockMatches
    <3>2. Single(x)
      BY <2>1, <2>3 DEF Consistent, Single, Active, ACTIVE, Pending
    <3>3. Lifecycle(x, res)
      BY <2>1, <2>3 DEF Consistent, Lifecycle
    <3>4. ResultKept(x, res)
      BY <2>1, <2>3 DEF Consistent, Lifecycle, ResultKept
    <3>5. Owned(x)
      BY <2>1, <2>3 DEF Consistent, Owned, Active, ACTIVE, Pending
    <3> QED BY <3>1, <3>2, <3>3, <3>4, <3>5 DEF Consistent
  <2> QED BY <2>1, <2>2, <2>5, WriteConsistent
<1>3. ASSUME NEW c \in Waiting(w, a), Lease(w, c, s)
      PROVE  /\ Consistent(Rows, result)'
             /\ account' \in AccountStatus /\ status' \in [Ids -> CommandStatus]
             /\ delivered' \in [Ids -> Sessions \cup {None}]
             /\ handed' \in [Ids -> SUBSET Sessions]
             /\ \A d \in Ids : handed'[d] \subseteq {delivered'[d]}
  <2>1. /\ c \in Ids /\ w.status[c] = "PENDING"
        /\ account' = w.account
        /\ status' = [w.status EXCEPT ![c] = "LEASED"]
        /\ delivered' = [delivered EXCEPT ![c] = s]
        /\ Hand(c, s)
    BY <1>3 DEF Lease, Waiting, Write
  <2>2. \A d \in Ids : /\ status'[d] = IF d = c THEN "LEASED" ELSE w.status[d]
                       /\ delivered'[d] = IF d = c THEN s ELSE delivered[d]
    BY <2>1 DEF RowsType, TypeOK
  <2>3. account' \in AccountStatus /\ status' \in [Ids -> CommandStatus]
    BY <2>1 DEF RowsType, CommandStatus, ACTIVE, Pending
  <2>4. delivered[c] = None /\ res[c] = NoResult /\ s # None
    BY <2>1, NoneAssumption DEF Consistent, Lifecycle
  <2>5. handed[c] = {}
    BY <2>1, <2>4, NoneAssumption DEF TypeOK
  <2>6. /\ delivered' \in [Ids -> Sessions \cup {None}]
        /\ handed' \in [Ids -> SUBSET Sessions]
        /\ \A d \in Ids : handed'[d] \subseteq {delivered'[d]}
    BY <2>1, <2>2, <2>5 DEF Hand, TypeOK
  <2>7. /\ \A d \in Ids : Executing(d)' <=> Executing(d)
        /\ Rows'.status = status' /\ Rows'.account = w.account
        /\ result' = res
    BY <2>1 DEF Executing, Rows
  <2>8. BlockMatches(Rows)'
    BY <2>1, <2>2, <2>7 DEF Consistent, BlockMatches
  <2>9. Single(Rows)'
    BY <2>1, <2>2, <2>7 DEF Consistent, Single, Active, ACTIVE, Pending
  <2>10. Lifecycle(Rows, result)'
    BY <2>1, <2>2, <2>4, <2>7 DEF Consistent, Lifecycle
  <2>11. ResultKept(Rows, result)'
    BY <2>1, <2>2, <2>4, <2>7 DEF Consistent, ResultKept
  <2>12. Owned(Rows)'
    BY <2>1, <2>2, <2>7 DEF Consistent, Owned, Active, ACTIVE, Pending
  <2> QED BY <2>3, <2>6, <2>8, <2>9, <2>10, <2>11, <2>12 DEF Consistent
<1>4. ASSUME NEW c \in Waiting(w, a), Redeliver(w, c, s)
      PROVE  /\ Write(w) /\ delivered' = delivered
             /\ handed' \in [Ids -> SUBSET Sessions]
             /\ \A d \in Ids : handed'[d] \subseteq {delivered'[d]}
  <2>1. c \in Ids /\ Write(w) /\ delivered' = delivered /\ Hand(c, s)
    BY <1>4 DEF Redeliver, Waiting
  <2>2. Executing(c) => delivered[c] = s
    BY <1>4 DEF Redeliver, Foreign
  <2> QED BY <2>1, <2>2 DEF Hand, TypeOK
<1>5. ASSUME NEW c \in Waiting(w, a), Redeliver(w, c, s)
      PROVE  /\ Consistent(Rows, result)'
             /\ account' \in AccountStatus /\ status' \in [Ids -> CommandStatus]
  BY <1>4, <1>5, WriteConsistent
<1> QED BY <1>1, <1>2, <1>3, <1>4, <1>5 DEF Dispatch, TypeOK

-----------------------------------------------------------------------------
(***************************************************************************)
(* The actions, one lemma each.                                            *)
(***************************************************************************)

\* An account nobody has used satisfies the invariant.
LEMMA InitIInv == Init => IInv
<1> SUFFICES ASSUME Init PROVE IInv
  OBVIOUS
<1>1. TypeOK
  BY MaxCommandsAssumption, WindowAssumption, TtlAssumption
     DEF Init, TypeOK, AccountStatus, CommandStatus, Reports, Kinds, Stale
<1>2. Consistent(Rows, result)
  BY MaxCommandsAssumption DEF Init, Consistent, BlockMatches, Single, Lifecycle, ResultKept, Owned, Active,
      ACTIVE, Pending, Rows, Executing, Ids, NoResult
<1>3. Provenance /\ \A c \in Ids : handed[c] \subseteq {delivered[c]}
  BY DEF Init, Provenance, Executing
<1> QED BY <1>1, <1>2, <1>3 DEF IInv

\* A handler that only rewrites Rows, keeping what is over.
LEMMA RewriteIInv ==
    ASSUME IInv, NEW w \in RowsType, Consistent(w, result), Write(w),
           \A c \in Ids : status[c] = "SUCCEEDED" => w.status[c] = "SUCCEEDED",
           UNCHANGED <<result, delivered, handed, agentVars, commandVars>>
    PROVE  IInv'
<1>1. /\ Consistent(Rows, result)'
      /\ account' \in AccountStatus /\ status' \in [Ids -> CommandStatus]
  BY WriteConsistent DEF commandVars, agentVars
<1>2. TypeOK'
  BY <1>1 DEF IInv, TypeOK, commandVars, agentVars
<1>3. Provenance'
  BY ProvenanceKept DEF IInv, commandVars, Write
<1> QED BY <1>1, <1>2, <1>3 DEF IInv

\* What every handler knows after its call of expire.
LEMMA Expired ==
    ASSUME IInv
    PROVE  /\ Expire(Rows) \in RowsType
           /\ Consistent(Expire(Rows), result)
           /\ \A c \in Ids : status[c] = "SUCCEEDED" => Expire(Rows).status[c] = "SUCCEEDED"
<1>1. Rows \in RowsType /\ Rows.status = status /\ TypeOK /\ Consistent(Rows, result)
  BY RowsTyped DEF IInv, Rows
<1>2. Expire(Rows) \in RowsType /\ Consistent(Expire(Rows), result)
  BY <1>1, ExpireType, ExpireConsistent
<1>3. ASSUME NEW c \in Ids, status[c] = "SUCCEEDED"
      PROVE  Expire(Rows).status[c] = "SUCCEEDED"
  BY <1>1, <1>3, ExpireKeepsOver DEF Terminal
<1> QED BY <1>2, <1>3

\* The sweeper only expires.
LEMMA SweepIInv == IInv /\ Sweep => IInv'
  BY Expired, RewriteIInv DEF Sweep

\* A cancelled preview frees the account; it never blocked it.
LEMMA CancelIInv == ASSUME IInv, NEW p \in Ids, Cancel(p) PROVE IInv'
<1> DEFINE w == Expire(Rows)
           x == [w EXCEPT !.status[p] = "CANCELLED"]
<1>1. w \in RowsType /\ Consistent(w, result)
      /\ \A c \in Ids : status[c] = "SUCCEEDED" => w.status[c] = "SUCCEEDED"
  BY Expired
<1>2. /\ w.status[p] = "AWAITING_CONFIRMATION" /\ Write(x)
      /\ UNCHANGED <<result, delivered, handed, agentVars, commandVars>>
  BY DEF Cancel, Confirmable
<1> HIDE DEF w
<1>3. x \in RowsType /\ x.account = w.account
      /\ \A c \in Ids : x.status[c] = IF c = p THEN "CANCELLED" ELSE w.status[c]
  BY <1>1 DEF RowsType, CommandStatus, Terminal
<1> HIDE DEF x
<1>4. Consistent(x, result)
  BY <1>1, <1>2, <1>3 DEF Consistent, BlockMatches, Single, Lifecycle, ResultKept, Owned, Active,
      ACTIVE, Pending
<1>5. \A c \in Ids : status[c] = "SUCCEEDED" => x.status[c] = "SUCCEEDED"
  BY <1>1, <1>2, <1>3
<1> QED BY <1>2, <1>3, <1>4, <1>5, RewriteIInv

\* The operator lifts the block together with the one execution that caused
\* it, because there is never a second one.
LEMMA ReconcileIInv == ASSUME IInv, NEW c \in Ids, Reconcile(c) PROVE IInv'
<1> DEFINE w == Expire(Rows)
           x == [account |-> "OFFLINE", status |-> [w.status EXCEPT ![c] = "CANCELLED"]]
<1>1. w \in RowsType /\ Consistent(w, result)
      /\ \A d \in Ids : status[d] = "SUCCEEDED" => w.status[d] = "SUCCEEDED"
  BY Expired
<1>2. /\ w.status[c] = "UNCERTAIN" /\ Write(x)
      /\ UNCHANGED <<result, delivered, handed, agentVars, commandVars>>
  BY DEF Reconcile
<1> HIDE DEF w
<1>3. x \in RowsType /\ x.account = "OFFLINE"
      /\ \A d \in Ids : x.status[d] = IF d = c THEN "CANCELLED" ELSE w.status[d]
  BY <1>1 DEF RowsType, CommandStatus, Terminal, AccountStatus
<1> HIDE DEF x
<1>4. BlockMatches(x)
  BY <1>1, <1>2, <1>3 DEF Consistent, BlockMatches, Single, Active, ACTIVE
<1>5. Consistent(x, result)
  BY <1>1, <1>2, <1>3, <1>4 DEF Consistent, Single, Lifecycle, ResultKept, Owned, Active,
      ACTIVE, Pending
<1>6. \A d \in Ids : status[d] = "SUCCEEDED" => x.status[d] = "SUCCEEDED"
  BY <1>1, <1>2, <1>3
<1> QED BY <1>2, <1>3, <1>5, <1>6, RewriteIInv

\* The mismatch latch never overwrites a block.
LEMMA MismatchIInv == ASSUME IInv, NEW a \in Agents, Mismatch(a) PROVE IInv'
<1> DEFINE x == [account |-> account', status |-> status]
<1>1. x \in RowsType /\ x.status = status
      /\ (x.account = "BLOCKED_UNCERTAIN" <=> account = "BLOCKED_UNCERTAIN")
  BY DEF Mismatch, RowsType, AccountStatus, IInv, TypeOK
<1>2. UNCHANGED <<status, result, delivered, handed, agentVars, commandVars>>
  BY DEF Mismatch
<1>3. /\ account' \in AccountStatus
      /\ account' = "BLOCKED_UNCERTAIN" <=> account = "BLOCKED_UNCERTAIN"
  BY <1>1 DEF RowsType
<1>4. TypeOK'
  BY <1>2, <1>3 DEF IInv, TypeOK, agentVars, commandVars
<1>5. Consistent(Rows, result)'
  BY <1>2, <1>3 DEF IInv, Consistent, BlockMatches, Single, Lifecycle, ResultKept, Owned, Active,
      Rows, Executing, agentVars, commandVars
<1>6. Provenance'
  BY <1>2 DEF IInv, Provenance, Executing, commandVars
<1> QED BY <1>2, <1>4, <1>5, <1>6 DEF IInv

\* Time only brings deadlines nearer; what expired stays expired.
LEMMA TickIInv == IInv /\ Tick => IInv'
<1> SUFFICES ASSUME IInv, Tick PROVE IInv'
  OBVIOUS
<1>1. UNCHANGED <<account, status, result, delivered, handed, agent, session, report,
                  created, kind, owner, source>>
  BY DEF Tick
<1>2. ttl' \in [Ids -> 0..Ttl] /\ \A c \in Ids : ttl[c] = 0 => ttl'[c] = 0
  BY TtlAssumption DEF Tick, IInv, TypeOK
<1>3. seen' \in [Agents -> 0..Stale]
  BY WindowAssumption DEF Tick, IInv, TypeOK, Stale
<1>4. TypeOK'
  BY <1>1, <1>2, <1>3 DEF IInv, TypeOK
<1>5. Consistent(Rows, result)'
  BY <1>1, <1>2 DEF IInv, Consistent, BlockMatches, Single, Lifecycle, ResultKept, Owned, Active,
      Rows, Executing
<1>6. Provenance'
  BY <1>1 DEF IInv, Provenance, Executing
<1> QED BY <1>1, <1>4, <1>5, <1>6 DEF IInv

\* A new agent finds no work in progress of an older one.
LEMMA PairIInv == ASSUME IInv, NEW a \in Agents, NEW s \in Sessions, Pair(a, s) PROVE IInv'
<1>1. /\ agent' = [agent EXCEPT ![a] = "PAIRED"] /\ session' = [session EXCEPT ![a] = s]
      /\ UNCHANGED <<account, status, result, delivered, handed, seen, report, commandVars>>
  BY DEF Pair
<1>2. TypeOK'
  BY <1>1 DEF IInv, TypeOK, commandVars
<1>3. \A b \in Agents : agent[b] = "PAIRED" => agent'[b] = "PAIRED"
  BY <1>1 DEF IInv, TypeOK
<1>4. Consistent(Rows, result)'
  BY <1>1, <1>3 DEF IInv, Consistent, BlockMatches, Single, Lifecycle, ResultKept, Owned, Active,
      Rows, Executing, commandVars
<1>5. Provenance'
  BY <1>1 DEF IInv, Provenance, Executing, commandVars
<1> QED BY <1>1, <1>2, <1>4, <1>5 DEF IInv

\* A revocation leaves no work behind but the execution that it declares
\* uncertain.
LEMMA RevokeIInv == ASSUME IInv, NEW a \in Agents, Revoke(a) PROVE IInv'
<1> DEFINE w == Expire(Rows)
           x == Revoked(w)
<1>1. w \in RowsType /\ Consistent(w, result)
      /\ \A c \in Ids : status[c] = "SUCCEEDED" => w.status[c] = "SUCCEEDED"
  BY Expired
<1>2. /\ Write(x) /\ agent' = [agent EXCEPT ![a] = "REVOKED"]
      /\ UNCHANGED <<result, delivered, handed, session, seen, report, commandVars>>
  BY DEF Revoke
<1> HIDE DEF w
<1>3. \A c \in Ids : x.status[c] = IF c \in Kept(w) THEN "UNCERTAIN"
                                   ELSE IF c \in Active(w) THEN "CANCELLED" ELSE w.status[c]
  BY DEF Revoked, Withdrawn
<1>4. x.account = IF Kept(w) = {} THEN w.account ELSE "BLOCKED_UNCERTAIN"
  BY DEF Revoked
<1>5. x \in RowsType
  BY <1>1 DEF Revoked, RowsType, AccountStatus, CommandStatus, ACTIVE, Terminal
<1> HIDE DEF x
<1>6. \A c \in Ids : c \in Kept(w) <=> Executing(c) /\ w.status[c] \in {"LEASED", "UNCERTAIN"}
  BY DEF Kept, Active, ACTIVE, Pending
<1>7. \A c \in Active(x) : c \in Kept(w)
  BY <1>3 DEF Active, ACTIVE, Pending
<1>8. BlockMatches(x)
  <2>1. CASE Kept(w) = {}
    BY <1>1, <1>3, <1>4, <1>6, <2>1 DEF Consistent, BlockMatches
  <2>2. CASE Kept(w) # {}
    BY <1>3, <1>4, <1>6, <2>2 DEF BlockMatches, Kept, Active
  <2> QED BY <2>1, <2>2
<1>9. Single(x)
  BY <1>1, <1>7 DEF Consistent, Single, Kept
<1>10. Lifecycle(x, result)
  BY <1>1, <1>3, <1>6 DEF Consistent, Lifecycle, Active, ACTIVE, Pending
<1>11. ResultKept(x, result)
  BY <1>1, <1>3, <1>6 DEF Consistent, Lifecycle, ResultKept, Active, ACTIVE, Pending
<1>12. \A c \in Active(x) : owner[c] \in Agents /\ Executing(c) /\ x.status[c] = "UNCERTAIN"
  BY <1>1, <1>3, <1>7 DEF Consistent, Owned, Kept, Active
<1>13. /\ account' = x.account /\ status' = x.status
  BY <1>2 DEF Write
<1>14. TypeOK'
  BY <1>2, <1>5, <1>13 DEF IInv, TypeOK, RowsType, commandVars
<1>15. Consistent(Rows, result)'
  <2>1. Owned(Rows)'
    BY <1>2, <1>12, <1>13 DEF Owned, Rows, Active, Executing, commandVars
  <2> QED BY <1>2, <1>8, <1>9, <1>10, <1>11, <1>13, <2>1
          DEF Consistent, BlockMatches, Single, Lifecycle, ResultKept, Active, Rows, Executing,
              commandVars
<1>16. \A c \in Ids : status[c] = "SUCCEEDED" => status'[c] = "SUCCEEDED"
  BY <1>1, <1>3, <1>6, <1>13 DEF Active, ACTIVE, Pending
<1>17. Provenance'
  BY <1>2, <1>16, ProvenanceKept DEF IInv, commandVars
<1> QED BY <1>2, <1>14, <1>15, <1>17 DEF IInv

\* A new command takes the first unused id: nothing refers to it yet.
LEMMA FreshId ==
    ASSUME IInv, NEW c \in Ids, c = created + 1
    PROVE  /\ c > created
           /\ status[c] = "NEW" /\ delivered[c] = None /\ result[c] = NoResult
           /\ ~Executing(c) /\ source[c] = 0
           /\ \A d \in Ids : source[d] # c
<1>1. created \in Nat /\ c \in Nat /\ c > created
  BY MaxCommandsAssumption DEF IInv, TypeOK, Ids
<1>2. status[c] = "NEW"
  BY <1>1 DEF IInv, Consistent, Lifecycle, Rows
<1>3. delivered[c] = None /\ result[c] = NoResult
  BY <1>2 DEF IInv, Consistent, Lifecycle, Rows
<1>4. ~Executing(c)
  BY <1>1 DEF IInv, Provenance, Ids
<1>5. ASSUME NEW d \in Ids, source[d] = c PROVE FALSE
  <2>1. Executing(d)
    BY <1>1, <1>5 DEF IInv, Provenance
  <2>2. d <= created /\ c \in 1..(d - 1)
    BY <1>5, <2>1 DEF IInv, Provenance
  <2> QED BY <1>1, <2>2 DEF Ids
<1> QED BY <1>1, <1>2, <1>3, <1>4, <1>5 DEF IInv, Provenance

\* The columns of a new command have their types.
LEMMA CreateTyped ==
    ASSUME IInv, NEW c \in Ids, c = created + 1, NEW k \in Kinds, NEW a \in Agents,
           NEW p \in 0..MaxCommands, Create(c, k, a, p)
    PROVE  /\ created' \in 0..MaxCommands
           /\ kind' \in [Ids -> Kinds]
           /\ owner' \in [Ids -> Agents \cup {None}]
           /\ source' \in [Ids -> 0..MaxCommands]
           /\ ttl' \in [Ids -> 0..Ttl]
<1>1. created' \in 0..MaxCommands
  BY MaxCommandsAssumption DEF Create, Ids
<1>2. kind' \in [Ids -> Kinds]
  BY DEF Create, IInv, TypeOK
<1>3. owner' \in [Ids -> Agents \cup {None}]
  BY DEF Create, IInv, TypeOK
<1>4. source' \in [Ids -> 0..MaxCommands]
  BY DEF Create, IInv, TypeOK
<1>5. ttl' \in [Ids -> 0..Ttl]
  <2>1. Ttl \in 0..Ttl
    BY TtlAssumption
  <2> QED BY <2>1 DEF Create, IInv, TypeOK
<1> QED BY <1>1, <1>2, <1>3, <1>4, <1>5

\* A preview enters an idle account, and so stays alone.
LEMMA RequestPreviewIInv == ASSUME IInv, NEW a \in Agents, RequestPreview(a) PROVE IInv'
<1> DEFINE w == Expire(Rows)
           c == created + 1
<1>1. w \in RowsType /\ Consistent(w, result)
      /\ \A d \in Ids : status[d] = "SUCCEEDED" => w.status[d] = "SUCCEEDED"
  BY Expired
<1>2. /\ c \in Ids /\ agent[a] = "PAIRED" /\ Active(w) = {}
      /\ Create(c, "PREVIEW", a, 0)
      /\ account' = w.account /\ status' = [w.status EXCEPT ![c] = "PENDING"]
      /\ UNCHANGED <<result, delivered, handed, agentVars>>
  BY DEF RequestPreview, Available, Idle, Write
<1>3. /\ c > created /\ delivered[c] = None /\ result[c] = NoResult
      /\ ~Executing(c) /\ source[c] = 0
      /\ \A d \in Ids : source[d] # c
  BY <1>2, FreshId
<1> HIDE DEF w
<1>4. /\ created' = c
      /\ kind' = [kind EXCEPT ![c] = "PREVIEW"] /\ owner' = [owner EXCEPT ![c] = a]
      /\ source' = [source EXCEPT ![c] = 0] /\ ttl' = [ttl EXCEPT ![c] = Ttl]
  BY <1>2 DEF Create
<1>5. created \in Nat /\ c = created + 1
  BY MaxCommandsAssumption DEF IInv, TypeOK
<1> HIDE DEF c
<1>6. TypeOK'
  <2>1. /\ account' \in AccountStatus /\ status' \in [Ids -> CommandStatus]
    BY <1>1, <1>2 DEF RowsType, CommandStatus, ACTIVE, Pending
  <2>2. /\ created' \in 0..MaxCommands /\ kind' \in [Ids -> Kinds]
        /\ owner' \in [Ids -> Agents \cup {None}] /\ source' \in [Ids -> 0..MaxCommands]
        /\ ttl' \in [Ids -> 0..Ttl]
    BY <1>2, CreateTyped, MaxCommandsAssumption DEF Kinds, c
  <2> QED BY <1>2, <2>1, <2>2 DEF IInv, TypeOK, agentVars
<1>7. \A d \in Ids :
        /\ Executing(d)' <=> Executing(d)
        /\ source'[d] = source[d]
        /\ status'[d] = IF d = c THEN "PENDING" ELSE w.status[d]
        /\ owner'[d] = IF d = c THEN a ELSE owner[d]
        /\ ttl'[d] = IF d = c THEN Ttl ELSE ttl[d]
        /\ d # c => (d > created' <=> d > created)
        /\ ~(c > created')
  BY <1>1, <1>2, <1>3, <1>4, <1>5, MaxCommandsAssumption DEF IInv, TypeOK, Executing, RowsType, Ids
<1>8. /\ Rows'.status = status' /\ Rows'.account = w.account
      /\ UNCHANGED <<result, delivered, handed, agent>>
  BY <1>2 DEF Rows, agentVars
<1>9. w.status[c] = "NEW"
  BY <1>1, <1>2, <1>3 DEF Consistent, Lifecycle
<1>10. Consistent(Rows, result)'
  <2>1. BlockMatches(Rows)'
    BY <1>1, <1>2, <1>7, <1>8, <1>9 DEF Consistent, BlockMatches
  <2>2. Single(Rows)'
    BY <1>2, <1>7, <1>8 DEF Single, Active
  <2>3. Lifecycle(Rows, result)'
    BY <1>1, <1>2, <1>3, <1>7, <1>8 DEF Consistent, Lifecycle
  <2>4. ResultKept(Rows, result)'
    BY <1>1, <1>2, <1>3, <1>7, <1>8 DEF Consistent, ResultKept
  <2>5. Owned(Rows)'
    BY <1>2, <1>7, <1>8 DEF Owned, Active
  <2> QED BY <2>1, <2>2, <2>3, <2>4, <2>5 DEF Consistent
<1>11. Provenance'
  <2>1. ASSUME NEW d \in Ids, Executing(d)
        PROVE  /\ d <= created /\ source[d] \in 1..(d - 1) /\ source[d] \in Ids /\ d # c
               /\ ~Executing(source[d]) /\ owner[source[d]] = owner[d]
               /\ status[source[d]] = "SUCCEEDED" /\ w.status[source[d]] = "SUCCEEDED"
               /\ result[source[d]] = "SUCCEEDED" /\ source[d] # c
               /\ \A e \in Ids : source[e] = source[d] => e = d
    BY <1>1, <1>2, <1>3, <1>5, <2>1, MaxCommandsAssumption DEF IInv, Provenance, Ids
  <2>2. \A d \in Ids : Executing(d) => d <= created'
    BY <1>4, <1>5, <2>1 DEF Ids
  <2>3. \A d \in Ids : Executing(d)' <=> source'[d] # 0
    BY <1>7 DEF IInv, Provenance
  <2>4. ASSUME NEW d \in Ids, Executing(d)'
        PROVE  /\ d <= created' /\ source'[d] \in 1..(d - 1) /\ ~Executing(source[d])'
               /\ source'[d] = source[d]
               /\ status'[source[d]] = "SUCCEEDED" /\ result'[source[d]] = "SUCCEEDED"
               /\ owner'[source[d]] = owner'[d]
               /\ \A e \in Ids : source'[e] = source'[d] => e = d
    BY <1>2, <1>7, <1>8, <2>1, <2>2, <2>4
  <2> QED BY <2>3, <2>4 DEF Provenance, Executing
<1> QED BY <1>2, <1>6, <1>10, <1>11 DEF IInv

\* The confirmed preview gives up its place to the one execution that names
\* it as its source.
LEMMA ConfirmIInv ==
    ASSUME IInv, NEW p \in Ids, NEW a \in Agents, Confirm(p, a) PROVE IInv'
<1> DEFINE w == Expire(Rows)
           c == created + 1
<1>1. w \in RowsType /\ Consistent(w, result)
      /\ \A d \in Ids : status[d] = "SUCCEEDED" => w.status[d] = "SUCCEEDED"
  BY Expired
<1>2. /\ c \in Ids /\ agent[a] = "PAIRED" /\ owner[p] = a
      /\ w.status[p] = "AWAITING_CONFIRMATION"
      /\ \A d \in Ids : source[d] # p
      /\ Create(c, "EXECUTION", a, p)
      /\ account' = w.account
      /\ status' = [w.status EXCEPT ![p] = "SUCCEEDED", ![c] = "PENDING"]
      /\ UNCHANGED <<result, delivered, handed, agentVars>>
  BY DEF Confirm, Available, Confirmable, Write
<1>3. /\ c > created /\ delivered[c] = None /\ result[c] = NoResult
      /\ ~Executing(c) /\ source[c] = 0
      /\ \A d \in Ids : source[d] # c
  BY <1>2, FreshId
<1>4. p <= created /\ ~Executing(p) /\ result[p] = "SUCCEEDED"
  <2>1. ~(p > created) /\ ~Executing(p) /\ result[p] = "SUCCEEDED"
    BY <1>1, <1>2 DEF Consistent, Lifecycle
  <2> QED BY <2>1, MaxCommandsAssumption DEF Ids, IInv, TypeOK
<1> HIDE DEF w
<1>5. /\ created' = c
      /\ kind' = [kind EXCEPT ![c] = "EXECUTION"] /\ owner' = [owner EXCEPT ![c] = a]
      /\ source' = [source EXCEPT ![c] = p] /\ ttl' = [ttl EXCEPT ![c] = Ttl]
  BY <1>2 DEF Create
<1>6. created \in Nat /\ c = created + 1
  BY MaxCommandsAssumption DEF IInv, TypeOK
<1> HIDE DEF c
<1>7. TypeOK'
  <2>1. account' \in AccountStatus /\ status' \in [Ids -> CommandStatus]
    BY <1>1, <1>2 DEF RowsType, CommandStatus, ACTIVE, Pending, Terminal
  <2>2. /\ created' \in 0..MaxCommands /\ kind' \in [Ids -> Kinds]
        /\ owner' \in [Ids -> Agents \cup {None}] /\ source' \in [Ids -> 0..MaxCommands]
        /\ ttl' \in [Ids -> 0..Ttl]
    BY <1>2, CreateTyped DEF Kinds, Ids, c
  <2> QED BY <1>2, <2>1, <2>2 DEF IInv, TypeOK, agentVars
<1>8. p # c
  BY <1>3, <1>4, <1>6 DEF Ids
<1>9. \A d \in Ids :
        /\ Executing(d)' <=> (d = c \/ Executing(d))
        /\ source'[d] = IF d = c THEN p ELSE source[d]
        /\ status'[d] = IF d = c THEN "PENDING" ELSE IF d = p THEN "SUCCEEDED" ELSE w.status[d]
        /\ owner'[d] = IF d = c THEN a ELSE owner[d]
        /\ ttl'[d] = IF d = c THEN Ttl ELSE ttl[d]
        /\ d # c => (d > created' <=> d > created)
        /\ ~(c > created')
  BY <1>1, <1>2, <1>5, <1>6, MaxCommandsAssumption DEF IInv, TypeOK, Executing, RowsType, Ids
<1>10. /\ Rows'.status = status' /\ Rows'.account = w.account
       /\ UNCHANGED <<result, delivered, handed, agent>>
  BY <1>2 DEF Rows, agentVars
<1>11. w.status[c] = "NEW" /\ \A d \in Active(w) : d = p
  <2>1. w.status[c] = "NEW"
    BY <1>1, <1>2, <1>3 DEF Consistent, Lifecycle
  <2>2. p \in Active(w)
    BY <1>2 DEF Active, ACTIVE
  <2> QED BY <1>1, <2>1, <2>2 DEF Consistent, Single
<1>12. Consistent(Rows, result)'
  <2>1. BlockMatches(Rows)'
    BY <1>1, <1>2, <1>4, <1>9, <1>10, <1>11 DEF Consistent, BlockMatches
  <2>2. \A d \in Active(Rows)' : d = c
    BY <1>2, <1>9, <1>10, <1>11 DEF Active, ACTIVE, Pending
  <2>3. Lifecycle(Rows, result)'
    BY <1>1, <1>2, <1>3, <1>4, <1>9, <1>10 DEF Consistent, Lifecycle
  <2>4. ResultKept(Rows, result)'
    BY <1>1, <1>2, <1>3, <1>4, <1>9, <1>10 DEF Consistent, ResultKept
  <2>5. Owned(Rows)'
    BY <1>2, <1>9, <1>10, <2>2 DEF Owned
  <2>6. Single(Rows)'
    BY <2>2 DEF Single
  <2> QED BY <2>1, <2>3, <2>4, <2>5, <2>6 DEF Consistent
<1>13. Provenance'
  <2>1. ASSUME NEW d \in Ids, Executing(d)
        PROVE  /\ d <= created /\ source[d] \in 1..(d - 1) /\ source[d] \in Ids
               /\ source[d] # c /\ source[d] # p /\ d # c
               /\ ~Executing(source[d]) /\ owner[source[d]] = owner[d]
               /\ status[source[d]] = "SUCCEEDED" /\ w.status[source[d]] = "SUCCEEDED"
               /\ result[source[d]] = "SUCCEEDED"
               /\ \A e \in Ids : source[e] = source[d] => e = d
    BY <1>1, <1>2, <1>3, <1>6, <2>1, MaxCommandsAssumption DEF IInv, Provenance, Ids
  <2>2. p \in 1..(c - 1) /\ p # 0
    BY <1>4, <1>6 DEF Ids
  <2>3. \A d \in Ids : (Executing(d) => d <= created') /\ c <= created'
    BY <1>5, <1>6, <2>1 DEF Ids
  <2>4. \A d \in Ids : Executing(d)' <=> source'[d] # 0
    BY <1>9, <2>2 DEF IInv, Provenance
  <2>5. ASSUME NEW d \in Ids, Executing(d)', d # c
        PROVE  /\ d <= created' /\ source'[d] \in 1..(d - 1) /\ ~Executing(source[d])'
               /\ source'[d] = source[d]
               /\ status'[source[d]] = "SUCCEEDED" /\ result'[source[d]] = "SUCCEEDED"
               /\ owner'[source[d]] = owner'[d]
               /\ \A e \in Ids : source'[e] = source'[d] => e = d
    BY <1>2, <1>9, <1>10, <2>1, <2>3, <2>5
  <2>6. /\ source'[c] = p /\ ~Executing(p)' /\ status'[p] = "SUCCEEDED"
        /\ result'[p] = "SUCCEEDED" /\ owner'[p] = owner'[c]
        /\ \A e \in Ids : source'[e] = p => e = c
    BY <1>2, <1>4, <1>8, <1>9, <1>10
  <2> QED BY <1>2, <2>2, <2>3, <2>4, <2>5, <2>6 DEF Provenance, Executing
<1> QED BY <1>2, <1>7, <1>10, <1>12, <1>13 DEF IInv

\* Neither a result nor a dispatch touches a command that is over, and a
\* stored result is not replaced.
LEMMA ReceiveKeepsOver ==
    ASSUME TypeOK, NEW a \in Agents, NEW m \in Submissions,
           m # NoSubmission => Acceptable(a, m), NEW c \in Ids, status[c] \in Terminal
    PROVE  Receive(Online(Rows), m).status[c] = status[c]
<1>1. Online(Rows).status = status
  BY DEF Online, Rows
<1>2. CASE m = NoSubmission \/ result[m.command] # NoResult
  BY <1>1, <1>2 DEF Receive
<1>3. CASE m # NoSubmission /\ result[m.command] = NoResult
  <2>1. m.command \in Ids /\ m.status \in Outcomes
    BY <1>3 DEF Submissions
  <2>2. status[m.command] \in {"LEASED", "UNCERTAIN", "EXPIRED"}
    BY <1>3, <2>1, OutcomesAssumption DEF Acceptable, NoResult
  <2>3. c # m.command
    BY <2>2 DEF Terminal
  <2>4. Receive(Online(Rows), m).status = [status EXCEPT ![m.command] = Settled(m)]
    BY <1>1, <1>3 DEF Receive, Accept
  <2> QED BY <2>1, <2>3, <2>4 DEF TypeOK
<1> QED BY <1>2, <1>3

\* A stored result is only ever received again unchanged.
LEMMA ReceiveKeepsResults ==
    ASSUME TypeOK, NEW a \in Agents, NEW m \in Submissions,
           m # NoSubmission => Acceptable(a, m), NEW c \in Ids, result[c] # NoResult
    PROVE  (IF m = NoSubmission THEN result
            ELSE [result EXCEPT ![m.command] = m.status])[c] = result[c]
  BY DEF Acceptable, Submissions, TypeOK

\* The dispatch leases and disowns only what is still pending.
LEMMA DispatchKeepsOver ==
    ASSUME NEW w \in RowsType, NEW a \in Agents, NEW s, NEW r, Dispatch(w, a, s, r),
           NEW c \in Ids, w.status[c] \in Terminal
    PROVE  status'[c] = w.status[c]
<1>1. CASE Withhold(w, a, r)
  BY <1>1 DEF Withhold, Write
<1>2. ASSUME NEW d \in Waiting(w, a), Disown(w, d, s) \/ Lease(w, d, s) \/ Redeliver(w, d, s)
      PROVE  status'[c] = w.status[c]
  <2>1. d \in Ids /\ d # c
    BY DEF Waiting, Pending, Terminal
  <2>2. CASE Disown(w, d, s)
    BY <2>1, <2>2 DEF Disown, Write, RowsType
  <2>3. CASE Lease(w, d, s)
    BY <2>1, <2>3 DEF Lease, Write, RowsType
  <2>4. CASE Redeliver(w, d, s)
    BY <2>4 DEF Redeliver, Write
  <2> QED BY <1>2, <2>2, <2>3, <2>4
<1> QED BY <1>1, <1>2 DEF Dispatch

\* A poll changes neither what is over nor a stored result.
LEMMA PollKeepsOver ==
    ASSUME TypeOK, Consistent(Rows, result),
           NEW a \in Agents, NEW s \in Sessions, NEW r \in Reports, NEW m \in Submissions,
           Poll(a, s, r, m), NEW c \in Ids
    PROVE  /\ status[c] \in Terminal => status'[c] = status[c]
           /\ result[c] # NoResult => result'[c] = result[c]
<1> DEFINE w == Receive(Online(Rows), m)
<1>1. /\ agent[a] = "PAIRED"
      /\ m # NoSubmission => Acceptable(a, m)
      /\ result' = IF m = NoSubmission THEN result
                   ELSE [result EXCEPT ![m.command] = m.status]
      /\ Dispatch(Expire(w), a, s, r)
  BY DEF Poll, Heard
<1>2. w \in RowsType /\ Expire(w) \in RowsType
  BY <1>1, ReceiveConsistent, ExpireType
<1>3. result[c] # NoResult => result'[c] = result[c]
  BY <1>1, ReceiveKeepsResults
<1>4. ASSUME status[c] \in Terminal PROVE status'[c] = status[c]
  <2>1. w.status[c] = status[c]
    BY <1>1, <1>4, ReceiveKeepsOver
  <2>2. Expire(w).status[c] = status[c]
    BY <1>2, <1>4, <2>1, ExpireKeepsOver
  <2> QED BY <1>1, <1>2, <1>4, <2>2, DispatchKeepsOver
<1> QED BY <1>3, <1>4

\* A poll: heartbeat, result, expiry and dispatch, one after the other.
LEMMA PollIInv ==
    ASSUME IInv, NEW a \in Agents, NEW s \in Sessions, NEW r \in Reports, NEW m \in Submissions,
           Poll(a, s, r, m)
    PROVE  IInv'
<1> DEFINE w == Receive(Online(Rows), m)
           res == IF m = NoSubmission THEN result ELSE [result EXCEPT ![m.command] = m.status]
<1>1. /\ agent[a] = "PAIRED"
      /\ m # NoSubmission => Acceptable(a, m)
      /\ Heartbeat(a, s, r)
      /\ result' = res
      /\ Dispatch(Expire(w), a, s, r)
      /\ UNCHANGED commandVars
  BY DEF Poll, Heard
<1>2. w \in RowsType /\ Consistent(w, res) /\ res \in [Ids -> Outcomes \cup {NoResult}]
  BY <1>1, ReceiveConsistent DEF IInv
<1>3. Expire(w) \in RowsType /\ Consistent(Expire(w), res)
  BY <1>2, ExpireType, ExpireConsistent DEF IInv
<1>4. UNCHANGED <<agent, created, kind, owner, source, ttl>>
  BY <1>1 DEF Heartbeat, commandVars
<1> HIDE DEF res
<1>5. /\ Consistent(Rows, result)'
      /\ account' \in AccountStatus /\ status' \in [Ids -> CommandStatus]
      /\ delivered' \in [Ids -> Sessions \cup {None}]
      /\ handed' \in [Ids -> SUBSET Sessions]
      /\ \A c \in Ids : handed'[c] \subseteq {delivered'[c]}
  BY <1>1, <1>3, <1>4, DispatchConsistent DEF IInv
<1>6. /\ session' \in [Agents -> Sessions \cup {None}]
      /\ seen' \in [Agents -> 0..Stale]
      /\ report' \in [Agents -> Reports]
  <2>1. 0 \in 0..Stale
    BY WindowAssumption DEF Stale
  <2> QED BY <1>1, <2>1 DEF Heartbeat, IInv, TypeOK
<1>7. TypeOK'
  BY <1>1, <1>2, <1>4, <1>5, <1>6 DEF IInv, TypeOK
<1>8. Provenance'
  <2>1. \A c \in Ids : /\ status[c] = "SUCCEEDED" => status'[c] = "SUCCEEDED"
                       /\ result[c] # NoResult => result'[c] = result[c]
    BY PollKeepsOver DEF IInv, Terminal
  <2> QED BY <1>4, <2>1, ProvenanceKept DEF IInv
<1> QED BY <1>5, <1>7, <1>8 DEF IInv

\* The invariant is inductive.
LEMMA NextIInv == IInv /\ [Next]_vars => IInv'
<1> SUFFICES ASSUME IInv, [Next]_vars PROVE IInv'
  OBVIOUS
<1>1. CASE UNCHANGED vars
  BY <1>1 DEF vars, agentVars, commandVars, IInv, TypeOK, Consistent, BlockMatches, Single,
      Lifecycle, ResultKept, Owned, Active, Rows, Executing, Provenance
<1>2. CASE Next
  BY <1>2, PairIInv, RequestPreviewIInv, ConfirmIInv, CancelIInv, MismatchIInv, PollIInv,
      RevokeIInv, SweepIInv, ReconcileIInv, TickIInv DEF Next, Matching
<1> QED BY <1>1, <1>2

-----------------------------------------------------------------------------
(***************************************************************************)
(* What one step of the system does to one command.                        *)
(***************************************************************************)

\* The status x of a command may become y while its execution stays where it is:
\* nothing over moves, only what is pending is leased, and only what was sent
\* becomes uncertain.
Onward(c, x, y) ==
    /\ x \in Terminal => y = x
    /\ y = "LEASED" => x \in Pending
    /\ Executing(c) /\ y = "UNCERTAIN" => x \in {"LEASED", "UNCERTAIN"}
    /\ Executing(c) /\ y \in {"SUCCEEDED", "PARTIAL", "FAILED"} => x \in {y, "LEASED", "UNCERTAIN"}

Evidence(c) ==
    \/ status'[c] \in {"LEASED", "UNCERTAIN"}
    \/ result[c] = NoResult /\ status'[c] = result'[c] /\ result'[c] # "UNCERTAIN"
    \/ status'[c] = "CANCELLED" /\ account' = "OFFLINE" /\ UNCHANGED <<result, agent>>

Moves(c) ==
    /\ Onward(c, status[c], status'[c])
    /\ result[c] # NoResult => result'[c] = result[c]
    /\ Executing(c) => Executing(c)'
    /\ Executing(c)' /\ ~Executing(c) => status'[c] = "PENDING"
    /\ delivered'[c] # delivered[c] => status[c] = "PENDING" /\ status'[c] = "LEASED"
    /\ Outstanding(c) => Evidence(c)

\* expire moves a command onward and keeps what is outstanding.
LEMMA ExpireOnward ==
    ASSUME NEW w \in RowsType, NEW c \in Ids
    PROVE  /\ Onward(c, w.status[c], Expire(w).status[c])
           /\ Executing(c) /\ w.status[c] \in {"LEASED", "UNCERTAIN"}
                => Expire(w).status[c] \in {"LEASED", "UNCERTAIN"}
           /\ Expire(w).status[c] \in Pending => w.status[c] = Expire(w).status[c]
  BY ExpireStatus DEF Doubtful, Due, ACTIVE, Pending, Terminal, Onward

\* A handler that writes Rows back and creates no command.
LEMMA RewriteMoves ==
    ASSUME NEW w \in RowsType, Write(w), NEW c \in Ids,
           Onward(c, status[c], w.status[c]),
           Outstanding(c) => w.status[c] \in {"LEASED", "UNCERTAIN"},
           UNCHANGED <<result, delivered, kind>>
    PROVE  Moves(c)
  BY DEF Write, Moves, Evidence, Executing

\* A revocation moves commands only as Moves allows.
LEMMA RevokeMoves == ASSUME IInv, NEW a \in Agents, Revoke(a), NEW c \in Ids PROVE Moves(c)
<1> DEFINE w == Expire(Rows)
           x == Revoked(w)
<1>1. Write(x) /\ UNCHANGED <<result, delivered, kind>>
  BY DEF Revoke, commandVars
<1>2. Rows \in RowsType /\ Rows.status = status /\ w \in RowsType
  BY RowsTyped, Expired DEF Rows, IInv
<1>3. /\ Onward(c, status[c], w.status[c])
      /\ Executing(c) /\ status[c] \in {"LEASED", "UNCERTAIN"}
           => w.status[c] \in {"LEASED", "UNCERTAIN"}
      /\ w.status[c] \in Pending => status[c] = w.status[c]
  BY <1>2, ExpireOnward
<1> HIDE DEF w
<1>4. x.status[c] = IF Executing(c) /\ w.status[c] \in {"LEASED", "UNCERTAIN"} THEN "UNCERTAIN"
                    ELSE IF w.status[c] \in ACTIVE THEN "CANCELLED" ELSE w.status[c]
  BY DEF Revoked, Withdrawn, Kept, Active, ACTIVE, Pending
<1>5. x \in RowsType
  BY <1>2 DEF Revoked, RowsType, AccountStatus, CommandStatus, ACTIVE, Terminal
<1> HIDE DEF x
<1>6. Onward(c, status[c], x.status[c])
  BY <1>3, <1>4 DEF Onward, ACTIVE, Pending, Terminal
<1>7. Outstanding(c) => x.status[c] \in {"LEASED", "UNCERTAIN"}
  BY <1>3, <1>4 DEF Outstanding
<1> QED BY <1>1, <1>5, <1>6, <1>7, RewriteMoves

\* Sweep, Cancel and Reconcile: expire, and at most one command is closed.
LEMMA CloseMoves ==
    ASSUME IInv, NEW c \in Ids, Sweep \/ (\E p \in Ids : Cancel(p) \/ Reconcile(p))
    PROVE  Moves(c)
<1> DEFINE w == Expire(Rows)
<1>1. Rows \in RowsType /\ Rows.status = status /\ w \in RowsType
  BY RowsTyped, Expired DEF Rows, IInv
<1>2. /\ Onward(c, status[c], w.status[c])
      /\ Executing(c) /\ status[c] \in {"LEASED", "UNCERTAIN"}
           => w.status[c] \in {"LEASED", "UNCERTAIN"}
  BY <1>1, ExpireOnward
<1>3. CASE Sweep
  <2>1. Write(w) /\ UNCHANGED <<result, delivered, kind>>
    BY <1>3 DEF Sweep, commandVars
  <2> QED BY <1>1, <1>2, <2>1, RewriteMoves DEF Outstanding
<1>4. ASSUME NEW p \in Ids, Cancel(p) PROVE Moves(c)
  <2> DEFINE x == [w EXCEPT !.status[p] = "CANCELLED"]
  <2>1. Write(x) /\ UNCHANGED <<result, delivered, kind>> /\ w.status[p] = "AWAITING_CONFIRMATION"
    BY <1>4 DEF Cancel, Confirmable, commandVars
  <2> HIDE DEF w
  <2>2. x \in RowsType /\ x.status[c] = IF c = p THEN "CANCELLED" ELSE w.status[c]
    BY <1>1 DEF RowsType, CommandStatus, Terminal
  <2> HIDE DEF x
  <2>3. Onward(c, status[c], x.status[c])
    BY <1>2, <2>1, <2>2 DEF Onward, Terminal
  <2>4. Outstanding(c) => x.status[c] \in {"LEASED", "UNCERTAIN"}
    BY <1>2, <2>1, <2>2 DEF Outstanding
  <2> QED BY <2>1, <2>2, <2>3, <2>4, RewriteMoves
<1>5. ASSUME NEW p \in Ids, Reconcile(p) PROVE Moves(c)
  <2>1. /\ account' = "OFFLINE" /\ status' = [w.status EXCEPT ![p] = "CANCELLED"]
        /\ w.status[p] = "UNCERTAIN"
        /\ UNCHANGED <<result, delivered, kind, agent>>
    BY <1>5 DEF Reconcile, Write, commandVars, agentVars
  <2> HIDE DEF w
  <2>2. status'[c] = IF c = p THEN "CANCELLED" ELSE w.status[c]
    BY <1>1, <2>1 DEF RowsType
  <2>3. Onward(c, status[c], status'[c])
    BY <1>2, <2>1, <2>2 DEF Onward, Terminal
  <2>4. Outstanding(c) => Evidence(c)
    BY <1>2, <2>1, <2>2 DEF Outstanding, Evidence
  <2> QED BY <2>1, <2>3, <2>4 DEF Moves, Executing
<1> QED BY <1>3, <1>4, <1>5

\* RequestPreview and Confirm: expire, one new command, one consumed preview.
LEMMA CreateMoves ==
    ASSUME IInv, NEW c \in Ids, NEW a \in Agents,
           RequestPreview(a) \/ (\E p \in Ids : Confirm(p, a))
    PROVE  Moves(c)
<1> DEFINE w == Expire(Rows)
           n == created + 1
<1>1. Rows \in RowsType /\ Rows.status = status /\ w \in RowsType
  BY RowsTyped, Expired DEF Rows, IInv
<1>2. /\ Onward(c, status[c], w.status[c])
      /\ Executing(c) /\ status[c] \in {"LEASED", "UNCERTAIN"}
           => w.status[c] \in {"LEASED", "UNCERTAIN"}
  BY <1>1, ExpireOnward
<1>3. n \in Ids => ~Executing(n) /\ status[n] = "NEW"
  BY FreshId
<1>4. CASE RequestPreview(a)
  <2>1. /\ n \in Ids
        /\ status' = [w.status EXCEPT ![n] = "PENDING"]
        /\ kind' = [kind EXCEPT ![n] = "PREVIEW"]
        /\ UNCHANGED <<result, delivered>>
    BY <1>4 DEF RequestPreview, Write, Create
  <2> HIDE DEF w, n
  <2>2. /\ status'[c] = IF c = n THEN "PENDING" ELSE w.status[c]
        /\ Executing(c)' <=> Executing(c)
    BY <1>1, <1>3, <2>1 DEF RowsType, Executing, IInv, TypeOK
  <2>3. Onward(c, status[c], status'[c])
    BY <1>2, <1>3, <2>1, <2>2 DEF Onward, Terminal, Pending
  <2>4. Outstanding(c) => Evidence(c)
    BY <1>2, <1>3, <2>1, <2>2 DEF Outstanding, Evidence
  <2> QED BY <2>1, <2>2, <2>3, <2>4 DEF Moves
<1>5. ASSUME NEW p \in Ids, Confirm(p, a) PROVE Moves(c)
  <2>1. /\ n \in Ids /\ w.status[p] = "AWAITING_CONFIRMATION"
        /\ status' = [w.status EXCEPT ![p] = "SUCCEEDED", ![n] = "PENDING"]
        /\ kind' = [kind EXCEPT ![n] = "EXECUTION"]
        /\ UNCHANGED <<result, delivered>>
    BY <1>5 DEF Confirm, Confirmable, Write, Create
  <2>2. ~Executing(p)
    BY <2>1, Expired DEF Consistent, Lifecycle
  <2> HIDE DEF w, n
  <2>3. /\ status'[c] = IF c = n THEN "PENDING" ELSE IF c = p THEN "SUCCEEDED" ELSE w.status[c]
        /\ Executing(c)' <=> (c = n \/ Executing(c))
    BY <1>1, <1>3, <2>1 DEF RowsType, Executing, IInv, TypeOK
  <2>4. Onward(c, status[c], status'[c])
    BY <1>2, <1>3, <2>1, <2>3, <2>2 DEF Onward, Terminal, Pending
  <2>5. Outstanding(c) => Evidence(c)
    BY <1>2, <1>3, <2>1, <2>3 DEF Outstanding, Evidence
  <2> QED BY <1>3, <2>1, <2>3, <2>4, <2>5 DEF Moves
<1> QED BY <1>4, <1>5

\* A poll moves commands only as Moves allows.
LEMMA PollMoves ==
    ASSUME IInv, NEW a \in Agents, NEW s \in Sessions, NEW r \in Reports, NEW m \in Submissions,
           Poll(a, s, r, m), NEW c \in Ids
    PROVE  Moves(c)
<1> DEFINE w == Receive(Online(Rows), m)
           x == Expire(w)
<1>1. /\ agent[a] = "PAIRED"
      /\ m # NoSubmission => Acceptable(a, m)
      /\ result' = IF m = NoSubmission THEN result
                   ELSE [result EXCEPT ![m.command] = m.status]
      /\ Dispatch(x, a, s, r)
      /\ kind' = kind
  BY DEF Poll, Heard, commandVars
<1>2. w \in RowsType /\ x \in RowsType /\ Consistent(x, result')
  <2>1. w \in RowsType /\ Consistent(w, result')
    BY <1>1, ReceiveConsistent DEF IInv
  <2> QED BY <2>1, ExpireType, ExpireConsistent DEF IInv
<1>3. /\ Onward(c, w.status[c], x.status[c])
      /\ Executing(c) /\ w.status[c] \in {"LEASED", "UNCERTAIN"}
           => x.status[c] \in {"LEASED", "UNCERTAIN"}
      /\ x.status[c] \in Pending => w.status[c] = x.status[c]
  BY <1>2, ExpireOnward
<1>4. Online(Rows).status = status
  BY DEF Online, Rows
<1>5. /\ Onward(c, status[c], w.status[c])
      /\ w.status[c] \in Pending => status[c] = w.status[c]
      /\ Outstanding(c) => \/ w.status[c] \in {"LEASED", "UNCERTAIN"}
                           \/ /\ result[c] = NoResult /\ w.status[c] = result'[c]
                              /\ w.status[c] \in Terminal
  <2>1. CASE m = NoSubmission \/ result[m.command] # NoResult
    BY <1>4, <2>1 DEF Receive, Onward, Pending, Outstanding, Terminal
  <2>2. CASE m # NoSubmission /\ result[m.command] = NoResult
    <3>1. /\ m.command \in Ids /\ m.status \in {"SUCCEEDED", "PARTIAL", "FAILED", "UNCERTAIN"}
          /\ status[m.command] \in {"LEASED", "UNCERTAIN", "EXPIRED"}
          /\ delivered[m.command] # None
      BY <1>1, <2>2, OutcomesAssumption DEF Acceptable, NoResult, Submissions
    <3>2. w.status[c] = IF c = m.command THEN Settled(m) ELSE status[c]
      BY <1>4, <2>2, <3>1 DEF Receive, Accept, IInv, TypeOK
    <3>3. c = m.command => result'[c] = m.status
      BY <1>1, <2>2 DEF IInv, TypeOK
    <3>4. Executing(m.command) => status[m.command] # "EXPIRED"
      BY <3>1 DEF IInv, Consistent, Lifecycle, Rows
    <3>5. Executing(m.command) => Settled(m) = m.status
      BY DEF Settled
    <3>6. Settled(m) \in {"EXPIRED", "AWAITING_CONFIRMATION"} \cup {m.status}
      BY DEF Settled
    <3> QED BY <2>2, <3>1, <3>2, <3>3, <3>4, <3>5, <3>6
            DEF Onward, Outstanding, Pending, Terminal
  <2> QED BY <2>1, <2>2
<1>6. result[c] # NoResult => result'[c] = result[c]
  BY PollKeepsOver DEF IInv
<1> HIDE DEF w, x
<1>7. CASE Withhold(x, a, r)
  <2>1. status' = x.status /\ delivered' = delivered
    BY <1>7 DEF Withhold, Write
  <2> QED BY <1>1, <1>3, <1>5, <1>6, <2>1 DEF Moves, Onward, Evidence, Executing, Terminal, Pending,
          Outstanding
<1>8. ASSUME NEW d \in Waiting(x, a), Disown(x, d, s) PROVE Moves(c)
  <2>1. d \in Ids /\ x.status[d] = "LEASED" /\ Executing(d)
        /\ status' = [x.status EXCEPT ![d] = "UNCERTAIN"] /\ delivered' = delivered
    BY <1>8 DEF Disown, Foreign, Waiting, Write
  <2>2. status'[c] = IF c = d THEN "UNCERTAIN" ELSE x.status[c]
    BY <1>2, <2>1 DEF RowsType
  <2> QED BY <1>1, <1>3, <1>5, <1>6, <2>1, <2>2 DEF Moves, Onward, Evidence, Executing, Terminal,
          Pending, Outstanding
<1>9. ASSUME NEW d \in Waiting(x, a), Lease(x, d, s) PROVE Moves(c)
  <2>1. d \in Ids /\ x.status[d] = "PENDING"
        /\ status' = [x.status EXCEPT ![d] = "LEASED"] /\ delivered' = [delivered EXCEPT ![d] = s]
    BY <1>9 DEF Lease, Waiting, Write
  <2>2. /\ status'[c] = IF c = d THEN "LEASED" ELSE x.status[c]
        /\ c # d => delivered'[c] = delivered[c]
    BY <1>2, <2>1 DEF RowsType, IInv, TypeOK
  <2> QED BY <1>1, <1>3, <1>5, <1>6, <2>1, <2>2 DEF Moves, Onward, Evidence, Executing, Terminal,
          Pending, Outstanding
<1>10. ASSUME NEW d \in Waiting(x, a), Redeliver(x, d, s) PROVE Moves(c)
  <2>1. status' = x.status /\ delivered' = delivered
    BY <1>10 DEF Redeliver, Write
  <2> QED BY <1>1, <1>3, <1>5, <1>6, <2>1 DEF Moves, Onward, Evidence, Executing, Terminal, Pending,
          Outstanding
<1> QED BY <1>1, <1>7, <1>8, <1>9, <1>10 DEF Dispatch

\* Every step moves commands only as Moves allows.
LEMMA NextMoves == ASSUME IInv, [Next]_vars, NEW c \in Ids PROVE Moves(c)
<1>1. CASE UNCHANGED <<status, result, delivered, kind>>
  BY <1>1 DEF Moves, Onward, Evidence, Executing, Outstanding, Pending
<1>2. CASE Next
  <2>1. ASSUME NEW a \in Agents, NEW s \in Sessions, Pair(a, s) PROVE Moves(c)
    BY <1>1, <2>1 DEF Pair, commandVars
  <2>2. ASSUME NEW a \in Agents, Mismatch(a) PROVE Moves(c)
    BY <1>1, <2>2 DEF Mismatch, commandVars
  <2>3. CASE Tick
    BY <1>1, <2>3 DEF Tick
  <2> QED BY <1>2, <2>1, <2>2, <2>3, PollMoves, CreateMoves, CloseMoves, RevokeMoves DEF Next, Matching
<1> QED BY <1>1, <1>2 DEF vars, commandVars

-----------------------------------------------------------------------------
(***************************************************************************)
(* What the EA's side may rely on (RiskSystem).                            *)
(***************************************************************************)

\* A poll leases only to its own session.
LEMMA PollLeases ==
    ASSUME IInv, NEW a \in Agents, NEW s \in Sessions, NEW r \in Reports, NEW m \in Submissions,
           Poll(a, s, r, m), NEW c \in Ids
    PROVE  delivered'[c] \in {delivered[c], s}
<1> DEFINE x == Expire(Receive(Online(Rows), m))
<1>1. Dispatch(x, a, s, r)
  BY DEF Poll
<1> HIDE DEF x
<1> QED BY <1>1 DEF Dispatch, Withhold, Disown, Lease, Redeliver, IInv, TypeOK

\* A command that a poll may deliver was already waiting before it.
LEMMA WaitingStood ==
    ASSUME IInv, NEW a \in Agents, NEW m \in Submissions, m # NoSubmission => Acceptable(a, m),
           agent[a] = "PAIRED",
           NEW x, x = Expire(Receive(Online(Rows), m)), NEW c \in Waiting(x, a)
    PROVE  c \in Ids /\ status[c] \in Pending /\ x.status[c] = status[c]
<1> DEFINE w == Receive(Online(Rows), m)
<1>1. w \in RowsType
  BY ReceiveConsistent DEF IInv
<1>2. c \in Ids /\ x.status[c] \in Pending /\ w.status[c] = x.status[c]
  BY <1>1, ExpireOnward DEF Waiting
<1>3. Online(Rows).status = status
  BY DEF Online, Rows
<1>4. CASE m = NoSubmission \/ result[m.command] # NoResult
  BY <1>2, <1>3, <1>4 DEF Receive
<1>5. CASE m # NoSubmission /\ result[m.command] = NoResult
  <2>1. m.command \in Ids /\ m.status \in {"SUCCEEDED", "PARTIAL", "FAILED", "UNCERTAIN"}
    BY <1>5, OutcomesAssumption DEF Submissions
  <2>2. w.status[c] = IF c = m.command THEN Settled(m) ELSE status[c]
    BY <1>2, <1>3, <1>5, <2>1 DEF Receive, Accept, IInv, TypeOK
  <2>3. Settled(m) \notin Pending
    BY <2>1 DEF Settled, Pending
  <2> QED BY <1>2, <2>2, <2>3
<1> QED BY <1>4, <1>5

\* The command that the response carries is leased, and an execution to this
\* session.
LEMMA PollDelivers ==
    ASSUME IInv, NEW a \in Agents, NEW s \in Sessions, NEW r \in Reports, NEW m \in Submissions,
           Poll(a, s, r, m),
           NEW x, x = Expire(Receive(Online(Rows), m)),
           NEW c \in Waiting(x, a),
           x.account # "BLOCKED_UNCERTAIN", Permitted(c, r), ~Foreign(x, c, s)
    PROVE  /\ c \in Ids /\ status'[c] = "LEASED"
           /\ Executing(c) => delivered'[c] = s
<1>1. (m # NoSubmission => Acceptable(a, m)) /\ agent[a] = "PAIRED" /\ Dispatch(x, a, s, r)
  BY DEF Poll, Heard
<1>2. x \in RowsType
  <2>1. Receive(Online(Rows), m) \in RowsType
    BY <1>1, ReceiveConsistent DEF IInv
  <2> QED BY <2>1, ExpireType
<1>3. PICK d \in Waiting(x, a) : Disown(x, d, s) \/ Lease(x, d, s) \/ Redeliver(x, d, s)
  BY <1>1 DEF Dispatch, Withhold
<1>4. c \in Ids /\ d \in Ids /\ c <= d /\ d <= c
  BY <1>3 DEF Waiting
<1>5. c = d
  BY <1>4, MaxCommandsAssumption DEF Ids
<1> QED BY <1>2, <1>3, <1>4, <1>5
        DEF Disown, Lease, Redeliver, Foreign, Write, RowsType, IInv, TypeOK

\* What was sent stays in sight: it has a result, or is outstanding, or an
\* operator has closed it.
InSight(c) == result[c] # NoResult \/ Outstanding(c) \/ status[c] = "CANCELLED"

LEMMA MovesInSight == ASSUME IInv, IInv', NEW c \in Ids, Moves(c), InSight(c) PROVE InSight(c)'
<1>1. NoResult \notin CommandStatus /\ result'[c] \in Outcomes \cup {NoResult} /\ status'[c] \in CommandStatus
  BY DEF IInv, TypeOK, CommandStatus, ACTIVE, Pending, Terminal, NoResult
<1>2. CASE result[c] # NoResult
  BY <1>2 DEF Moves, InSight
<1>3. CASE Outstanding(c)
  BY <1>1, <1>3 DEF Moves, Evidence, InSight, Outstanding, Executing
<1>4. CASE status[c] = "CANCELLED"
  BY <1>4 DEF Moves, Onward, Terminal, InSight
<1> QED BY <1>2, <1>3, <1>4 DEF InSight

\* A handler other than a poll keeps what was created and every result.
LEMMA HandlerFrame ==
    ASSUME IInv, NEW c \in 1..created,
           \/ Sweep
           \/ \E a \in Agents, s \in Sessions : Pair(a, s)
           \/ \E a \in Agents : RequestPreview(a) \/ Revoke(a)
           \/ \E p \in Ids : Cancel(p) \/ Reconcile(p) \/ \E a \in Agents : Confirm(p, a)
    PROVE  c \in 1..created' /\ result' = result /\ ttl'[c] = ttl[c] /\ kind'[c] = kind[c]
<1>1. created \in Nat /\ c # created + 1 /\ c \in Ids
  BY MaxCommandsAssumption DEF IInv, TypeOK, Ids
<1>2. ASSUME NEW k, NEW a, NEW p, Create(created + 1, k, a, p)
      PROVE  c \in 1..created' /\ ttl'[c] = ttl[c] /\ kind'[c] = kind[c]
  BY <1>1, <1>2 DEF Create, IInv, TypeOK
<1> QED BY <1>2 DEF Sweep, Pair, RequestPreview, Revoke, Cancel, Reconcile, Confirm, commandVars

-----------------------------------------------------------------------------
(***************************************************************************)
(* The theorems.                                                           *)
(***************************************************************************)

\* In every reachable state the account, its commands, their leases, deadlines
\* and results fit together.
THEOREM Invariance == Spec => []IInv
  BY InitIInv, NextIInv, PTL DEF Spec

\* Every variable keeps its type.
THEOREM TypeCorrect == Spec => []TypeOK
<1>1. IInv => TypeOK
  BY DEF IInv
<1> QED BY <1>1, Invariance, PTL

\* The account is blocked exactly while one of its executions is unresolved.
THEOREM BlockIsExact == Spec => []BlockedIffUnresolved
<1>1. IInv => BlockedIffUnresolved
  BY DEF IInv, Consistent, BlockMatches, BlockedIffUnresolved, Rows
<1> QED BY <1>1, Invariance, PTL

\* At most one command of the account is in flight, without the help of the
\* database index.
THEOREM OneOperation == Spec => []OneInFlight
<1>1. IInv => OneInFlight
  BY DEF IInv, Consistent, Single, OneInFlight
<1> QED BY <1>1, Invariance, PTL

\* An execution is only ever sent to one session.
THEOREM OneSession == Spec => []OneSessionPerExecution
<1>1. IInv => OneSessionPerExecution
  BY DEF IInv, OneSessionPerExecution
<1> QED BY <1>1, Invariance, PTL

\* Every execution was confirmed once, from its own answered preview.
THEOREM ConfirmedProvenance == Spec => []ConfirmedOnce
<1>1. IInv => ConfirmedOnce
  <2> SUFFICES ASSUME IInv PROVE ConfirmedOnce
    OBVIOUS
  <2>1. 1..created \subseteq Ids
    BY MaxCommandsAssumption DEF IInv, TypeOK, Ids
  <2>2. ASSUME NEW c \in Ids, Executing(c) PROVE kind[source[c]] = "PREVIEW"
    <3>1. source[c] \in 1..(c - 1) /\ ~Executing(source[c])
      BY <2>2 DEF IInv, Provenance
    <3>2. source[c] \in Ids
      BY <3>1, MaxCommandsAssumption DEF Ids
    <3> QED BY <3>1, <3>2 DEF IInv, TypeOK, Kinds, Executing
  <2> QED BY <2>1, <2>2 DEF IInv, Provenance, ConfirmedOnce
<1> QED BY <1>1, Invariance, PTL

\* Only an unresolved execution outlives the agent it was delivered to.
THEOREM NoOrphans == Spec => []NoOrphan
<1>1. IInv => NoOrphan
  BY DEF IInv, Consistent, Owned, NoOrphan, Rows
<1> QED BY <1>1, Invariance, PTL

\* A command that is over stays so, and a stored result is never replaced.
THEOREM FinalIsFinal == Spec => Final
<1>1. IInv /\ [Next]_vars => [\A c \in Ids : /\ Over(c) => status'[c] = status[c]
                                             /\ result[c] # NoResult => result'[c] = result[c]]_vars
  BY NextMoves DEF Moves, Onward, Over
<1> QED BY <1>1, Invariance, PTL DEF Spec, Final

\* An execution that was sent is resolved by its own result or an operator only.
THEOREM ResolvedByEvidence == Spec => ResolvedOnlyByEvidence
<1>1. ASSUME IInv, [Next]_vars, NEW c \in Ids, Outstanding(c)
      PROVE  \/ Outstanding(c)'
             \/ result[c] = NoResult /\ status'[c] = result'[c] /\ result'[c] # "UNCERTAIN"
             \/ status'[c] = "CANCELLED" /\ account' = "OFFLINE" /\ UNCHANGED <<result, agent>>
  BY <1>1, NextMoves DEF Moves, Evidence, Outstanding, Executing
<1>2. IInv /\ [Next]_vars =>
        [\A c \in Ids : Outstanding(c) =>
          \/ Outstanding(c)'
          \/ result[c] = NoResult /\ status'[c] = result'[c] /\ result'[c] # "UNCERTAIN"
          \/ status'[c] = "CANCELLED" /\ account' = "OFFLINE" /\ UNCHANGED <<result, agent>>]_vars
  BY <1>1
<1> QED BY <1>2, Invariance, PTL DEF Spec, ResolvedOnlyByEvidence

\* A poll that sends an execution to a new session.
LEMMA PollSendsInTime ==
    ASSUME IInv, NEW a \in Agents, NEW s \in Sessions, NEW r \in Reports, NEW m \in Submissions,
           Poll(a, s, r, m), NEW c \in Ids, handed'[c] # handed[c]
    PROVE  /\ ttl[c] > 0 /\ status'[c] = "LEASED" /\ agent[owner[c]] = "PAIRED"
           /\ account' = "ONLINE"
           /\ report'[owner[c]] = "live" /\ seen'[owner[c]] = 0
<1> DEFINE w == Receive(Online(Rows), m)
           x == Expire(w)
<1>1. /\ agent[a] = "PAIRED" /\ account # "ACCOUNT_MISMATCH"
      /\ m # NoSubmission => Acceptable(a, m)
      /\ Dispatch(x, a, s, r)
  BY DEF Poll, Heard
<1>2. w \in RowsType /\ x \in RowsType
  <2>1. w \in RowsType
    BY <1>1, ReceiveConsistent DEF IInv
  <2> QED BY <2>1, ExpireType
<1>3. Online(Rows).account \in {"ONLINE", "BLOCKED_UNCERTAIN"}
  BY DEF Online, Rows
<1>4. w.account \in {"ONLINE", "BLOCKED_UNCERTAIN"}
  BY <1>3 DEF Receive, Accept, SettledAccount
<1>5. x.account \in {"ONLINE", "BLOCKED_UNCERTAIN"}
  BY <1>2, <1>4, ExpireAccount
<1>6. \A d \in Ids : x.status[d] \in Pending => ttl[d] > 0
  BY <1>2, ExpireStatus DEF Due, Doubtful, ACTIVE, Pending, IInv, TypeOK
<1> HIDE DEF w, x
<1>7. PICK d \in Waiting(x, a) :
        /\ x.account # "BLOCKED_UNCERTAIN"
        /\ Permitted(d, r)
        /\ Lease(x, d, s) \/ Redeliver(x, d, s)
  BY <1>1 DEF Dispatch, Withhold, Disown
<1>8. d \in Ids /\ owner[d] = a /\ x.status[d] \in Pending /\ Hand(d, s)
  BY <1>7 DEF Lease, Redeliver, Waiting
<1>9. d = c /\ Executing(d)
  BY <1>8 DEF Hand, IInv, TypeOK
<1>10. status'[c] = "LEASED" /\ account' = x.account
  BY <1>2, <1>7, <1>8, <1>9 DEF Lease, Redeliver, Write, RowsType
<1>11. r = "live" /\ report'[a] = r /\ seen'[a] = 0
  BY <1>7, <1>9 DEF Permitted, Poll, Heartbeat, IInv, TypeOK
<1> QED BY <1>1, <1>5, <1>6, <1>7, <1>8, <1>9, <1>10, <1>11

\* An execution is sent to a session only while it is alive, only through the
\* paired agent it was created for, and only in answer to a poll that reports
\* execution enabled.
THEOREM NothingSentLate == Spec => SentInTime
<1>1. ASSUME IInv, [Next]_vars, NEW c \in Ids, handed'[c] # handed[c]
      PROVE  ttl[c] > 0 /\ status'[c] = "LEASED" /\ agent[owner[c]] = "PAIRED"
                        /\ account' = "ONLINE"
                        /\ report'[owner[c]] = "live" /\ seen'[owner[c]] = 0
  <2>1. PICK a \in Agents, s \in Sessions, r \in Reports, m \in Submissions : Poll(a, s, r, m)
    BY <1>1 DEF Next, Matching, vars, Pair, RequestPreview, Confirm, Cancel, Mismatch, Revoke, Sweep,
        Reconcile, Tick
  <2> QED BY <1>1, <2>1, PollSendsInTime
<1>2. IInv /\ [Next]_vars =>
        [\A c \in Ids : handed'[c] # handed[c] =>
          ttl[c] > 0 /\ status'[c] = "LEASED" /\ agent[owner[c]] = "PAIRED"
                     /\ account' = "ONLINE"
                     /\ report'[owner[c]] = "live" /\ seen'[owner[c]] = 0]_vars
  BY <1>1
<1> QED BY <1>2, Invariance, PTL DEF Spec, SentInTime

\* A step of the queue is a step of the interlock, or none.
LEMMA NextInterlock == IInv /\ IInv' /\ [Next]_vars => [I!Next]_(I!vars)
<1> SUFFICES ASSUME IInv, IInv', [Next]_vars PROVE [I!Next]_(I!vars)
  OBVIOUS
<1> DEFINE blocked == account = "BLOCKED_UNCERTAIN"
<1>1. \A c \in Ids : Moves(c)
  BY NextMoves
<1>2. blocked <=> \E c \in OpenExecutions : status[c] = "UNCERTAIN"
  BY DEF IInv, Consistent, BlockMatches, Rows, OpenExecutions
<1>3. blocked' <=> \E c \in OpenExecutions' : status'[c] = "UNCERTAIN"
  BY DEF IInv, Consistent, BlockMatches, Rows, OpenExecutions
<1>4. /\ \A c, d \in Ids : status[c] \in ACTIVE /\ status[d] \in ACTIVE => c = d
      /\ \A c, d \in Ids : status'[c] \in ACTIVE /\ status'[d] \in ACTIVE => c = d
  BY DEF IInv, Consistent, Single, Active, Rows
<1>5. \A c \in Ids : /\ status[c] = "PENDING" => delivered[c] = None
                     /\ status'[c] = "PENDING" => delivered'[c] = None
                     /\ status'[c] = "LEASED" => delivered'[c] # None
  BY DEF IInv, Consistent, Lifecycle, Rows
<1>6. CASE \E c \in Ids : Executing(c) /\ status[c] = "PENDING" /\ status'[c] = "LEASED"
  <2>1. PICK c \in Ids : Executing(c) /\ status[c] = "PENDING" /\ status'[c] = "LEASED"
    BY <1>6
  <2>2. OpenExecutions = {} /\ c \notin SentExecutions
    BY <1>4, <1>5, <2>1 DEF OpenExecutions, SentExecutions, ACTIVE, Pending
  <2>3. OpenExecutions' = {c}
    BY <1>1, <1>4, <2>1 DEF OpenExecutions, ACTIVE, Pending, Moves, Executing
  <2>4. SentExecutions' = SentExecutions \cup {c}
    <3>1. \A d \in Ids : d # c => delivered'[d] = delivered[d]
      BY <1>1, <1>4, <2>1 DEF Moves, ACTIVE, Pending
    <3>2. \A d \in Ids : Executing(d)' /\ ~Executing(d) => delivered'[d] = None
      BY <1>1, <1>5 DEF Moves
    <3>3. \A d \in Ids : Executing(d) => Executing(d)'
      BY <1>1 DEF Moves
    <3> QED BY <1>5, <2>1, <3>1, <3>2, <3>3 DEF SentExecutions, Executing
  <2>5. ~blocked /\ ~blocked'
    BY <1>2, <1>3, <2>1, <2>2, <2>3
  <2>6. I!Send(c)
    BY <2>2, <2>3, <2>4, <2>5 DEF I!Send
  <2> QED BY <2>6 DEF I!Next
<1>7. CASE ~ \E c \in Ids : Executing(c) /\ status[c] = "PENDING" /\ status'[c] = "LEASED"
  <2>1. OpenExecutions' \subseteq OpenExecutions
    BY <1>1, <1>7 DEF OpenExecutions, Moves, Onward, Pending, Executing
  <2>2. SentExecutions' = SentExecutions
    <3>1. \A d \in Ids : Executing(d)' /\ ~Executing(d) => delivered'[d] = None
      BY <1>1, <1>5 DEF Moves
    <3>2. \A d \in Ids : Executing(d) => Executing(d)' /\ delivered'[d] = delivered[d]
      BY <1>1, <1>7 DEF Moves
    <3> QED BY <3>1, <3>2 DEF SentExecutions, Executing
  <2>3. CASE OpenExecutions' = OpenExecutions
    <3>1. CASE blocked' = blocked
      BY <2>2, <2>3, <3>1 DEF I!vars
    <3>2. CASE blocked' /\ ~blocked
      <4>1. OpenExecutions # {}
        BY <1>3, <2>3, <3>2
      <4> QED BY <2>2, <2>3, <3>2, <4>1 DEF I!Next, I!Doubt
    <3>3. CASE blocked /\ ~blocked'
      <4>1. PICK c \in OpenExecutions : status[c] = "UNCERTAIN"
        BY <1>2, <3>3
      <4>2. c \in Ids /\ status'[c] = "LEASED"
        BY <1>3, <2>3, <3>3, <4>1 DEF OpenExecutions
      <4> QED BY <1>1, <4>1, <4>2 DEF Moves, Onward, Pending
    <3> QED BY <3>1, <3>2, <3>3
  <2>4. CASE OpenExecutions' # OpenExecutions
    <3>1. PICK c \in OpenExecutions : c \notin OpenExecutions'
      BY <2>1, <2>4
    <3>2. OpenExecutions' = {}
      BY <1>4, <2>1, <3>1 DEF OpenExecutions, ACTIVE, Pending
    <3>3. ~blocked'
      BY <1>3, <3>2
    <3> QED BY <2>2, <3>1, <3>2, <3>3 DEF I!Next, I!Settle
  <2> QED BY <2>3, <2>4
<1> QED BY <1>6, <1>7

\* The command queue implements the interlock.
THEOREM Refinement == Spec => ImplementsInterlock
<1>1. Init => I!Init
  BY DEF Init, I!Init, SentExecutions, OpenExecutions, Executing
<1>2. IInv /\ IInv' /\ [Next]_vars => [I!Next]_(I!vars)
  BY NextInterlock
<1> QED BY <1>1, <1>2, Invariance, PTL DEF Spec, I!Spec, ImplementsInterlock

=============================================================================
