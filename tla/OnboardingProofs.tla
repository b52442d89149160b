-------------------------- MODULE OnboardingProofs --------------------------
(***************************************************************************)
(* Proofs about Onboarding, for any number of humans, codes, accounts,     *)
(* installations, updates and transactions, whatever the updates say.      *)
(***************************************************************************)
EXTENDS Onboarding, TLAPS

Stages == {"idle", "code", "update", "codes"} \cup Pairing \cup Handling

Steps == [at : Stages, code : Codes \cup {None}, user : Humans \cup {None},
          account : Accounts \cup {None}, installation : Installations \cup {None},
          update : Updates \cup {None}, applies : BOOLEAN]

\* An empty database.
LEMMA InitIInv == Init => IInv
<1> SUFFICES ASSUME Init PROVE IInv
  OBVIOUS
<1>1. TypeOK
  BY NoneAssumption, MessageAssumption DEF Init, TypeOK, Idle
<1>2. ASSUME NEW t \in Transactions PROVE Shaped(t) /\ Knows(t) /\ Earned(t)
  <2>1. tx[t].at = "idle" /\ tx[t].code = None /\ tx[t].update = None
    BY DEF Init, Idle
  <2>2. \A r \in Rows : lock[r] # t
    BY NoneAssumption DEF Init
  <2>3. Shaped(t) /\ Knows(t)
    BY <2>1 DEF Shaped, Knows, Pairing, Handling
  <2>4. Earned(t)
    BY <2>2 DEF Earned, Rows
  <2> QED BY <2>3, <2>4
<1>3. Recorded /\ Rightful
  BY NoneAssumption DEF Init, Recorded, Rightful, ActiveAgents
<1>4. ASSUME NEW u \in Updates PROVE Counted(u)
  BY DEF Init, Counted
<1> QED BY <1>1, <1>2, <1>3, <1>4 DEF IInv

\* What the other transactions know, when t changes no row but takes and gives
\* back locks.
LEMMA Others ==
    ASSUME IInv, NEW t \in Transactions, NEW s \in Transactions \ {t},
           UNCHANGED <<rows, says>>, tx'[s] = tx[s],
           \A r \in Rows : lock'[r] = s <=> lock[r] = s,
           \A v \in Transactions \ {t} : tx'[v] = tx[v],
           \/ tx'[t].code = None \/ code[tx'[t].code] # "none"
           \/ tx'[t].code = tx[t].code \/ tx'[t].code # tx[s].code
    PROVE  Shaped(s)' /\ Knows(s)' /\ Earned(s)'
<1>1. Shaped(s) /\ Knows(s) /\ Earned(s)
  BY DEF IInv
<1>2. Shaped(s)'
  BY <1>1 DEF Shaped, rows
<1>3. Earned(s)'
  BY <1>1 DEF Earned, Rows
<1>4. Knows(s)'
  <2>1. tx[s].at \in Pairing => <<"code", tx[s].code>> \in Rows
    BY <1>1 DEF Shaped, Rows
  <2>2. tx[s].at \in Pairing => <<"account", tx[s].account>> \in Rows /\ <<"agent", tx[s].installation>> \in Rows
    BY <1>1 DEF Shaped, Rows
  <2>3. tx[s].at \in Handling => <<"update", tx[s].update>> \in Rows
    BY <1>1 DEF Shaped, Rows
  <2>4. ActiveAgents(tx[s].account)' = ActiveAgents(tx[s].account)
    BY DEF ActiveAgents, rows
  <2>5. tx[s].at = "handled" /\ tx[s].code # None =>
          \A v \in Transactions \ {s} : tx'[v].code # tx[s].code
    BY <1>1 DEF Knows
  <2> QED BY <1>1, <2>1, <2>2, <2>3, <2>4, <2>5 DEF Knows, rows, Pairing
<1> QED BY <1>2, <1>3, <1>4

\* A step of t that changes no row keeps the invariant when t knows enough
\* after it.
LEMMA Local ==
    ASSUME IInv, NEW t \in Transactions, NEW x,
           UNCHANGED <<rows, says, by, runs>>, outstanding' \subseteq outstanding,
           tx' = [tx EXCEPT ![t] = x],
           x \in Steps,
           \/ x.code = None \/ code[x.code] # "none"
           \/ x.code = tx[t].code \/ \A s \in Transactions : tx[s].code # x.code,
           x.update = None \/ x.update = tx[t].update \/ x.update \in outstanding,
           lock' \in [Rows -> Transactions \cup {None}],
           \A s \in Transactions \ {t}, r \in Rows : lock'[r] = s <=> lock[r] = s,
           Shaped(t)', Knows(t)', Earned(t)'
    PROVE  IInv'
<1> tx \in [Transactions -> Steps]
  BY DEF IInv, TypeOK, Stages, Steps
<1>1. tx'[t] = x /\ \A s \in Transactions \ {t} : tx'[s] = tx[s]
  OBVIOUS
<1>2. TypeOK'
  BY DEF IInv, TypeOK, Stages, Steps, rows
<1>3. ASSUME NEW s \in Transactions PROVE Shaped(s)' /\ Knows(s)' /\ Earned(s)'
  BY <1>1, Others
<1>4. Recorded' /\ Rightful'
  BY DEF IInv, Recorded, Rightful, ActiveAgents, rows
<1>5. ASSUME NEW u \in Updates PROVE Counted(u)'
  BY <1>1, NoneAssumption DEF IInv, Counted, rows
<1> QED BY <1>2, <1>3, <1>4, <1>5 DEF IInv

\* What a transaction is.
LEMMA StepsType == ASSUME IInv PROVE tx \in [Transactions -> Steps]
  BY DEF IInv, TypeOK, Stages, Steps

\* Go takes the locks that were wanted and free, for t alone.
LEMMA Taken ==
    ASSUME IInv, NEW t \in Transactions, NEW x, Go(t, x)
    PROVE  /\ tx' = [tx EXCEPT ![t] = x]
           /\ lock' \in [Rows -> Transactions \cup {None}]
           /\ \A r \in Rows : lock'[r] = IF r \in Wanted(t) THEN t ELSE lock[r]
           /\ \A s \in Transactions \ {t}, r \in Rows : lock'[r] = s <=> lock[r] = s
<1>1. \A r \in Wanted(t) : lock[r] = None
  BY DEF Go, Granted
<1>2. \A r \in Rows : lock'[r] = IF r \in Wanted(t) THEN t ELSE lock[r]
  BY DEF Go
<1>3. lock \in [Rows -> Transactions \cup {None}]
  BY DEF IInv, TypeOK
<1>4. lock' \in [Rows -> Transactions \cup {None}]
  BY <1>3 DEF Go
<1>5. \A s \in Transactions \ {t}, r \in Rows : lock'[r] = s <=> lock[r] = s
  BY <1>1, <1>2, NoneAssumption
<1> QED BY <1>2, <1>4, <1>5 DEF Go

\* End gives back the locks of t, and no others.
LEMMA Returned ==
    ASSUME IInv, NEW t \in Transactions, End(t)
    PROVE  /\ tx' = [tx EXCEPT ![t] = Idle]
           /\ lock' \in [Rows -> Transactions \cup {None}]
           /\ \A r \in Rows : lock'[r] # t
           /\ \A s \in Transactions \ {t}, r \in Rows : lock'[r] = s <=> lock[r] = s
<1>1. lock \in [Rows -> Transactions \cup {None}]
  BY DEF IInv, TypeOK
<1>2. \A r \in Rows : lock'[r] = IF lock[r] = t THEN None ELSE lock[r]
  BY DEF End
<1>3. lock' \in [Rows -> Transactions \cup {None}]
  BY <1>1 DEF End
<1> QED BY <1>2, <1>3, NoneAssumption DEF End

\* A transaction that is idle and holds nothing has nothing to know.
LEMMA Nothing ==
    ASSUME IInv, NEW t \in Transactions, tx'[t] = Idle, \A r \in Rows : lock'[r] # t
    PROVE  Shaped(t)' /\ Knows(t)' /\ Earned(t)'
<1>1. Shaped(t)' /\ Knows(t)'
  BY DEF Shaped, Knows, Idle, Pairing, Handling
<1>2. Earned(t)'
  BY DEF Earned, Rows
<1> QED BY <1>1, <1>2

\* A transaction that ends without a trace.
LEMMA Ended ==
    ASSUME IInv, NEW t \in Transactions, End(t),
           UNCHANGED <<rows, says, by, runs>>, outstanding' \subseteq outstanding
    PROVE  IInv'
<1>1. Idle \in Steps
  BY DEF Idle, Steps, Stages
<1>2. tx' = [tx EXCEPT ![t] = Idle] /\ tx'[t] = Idle
  BY Returned, StepsType
<1>3. Idle.code = None /\ Idle.update = None
  BY DEF Idle
<1> QED BY <1>1, <1>2, <1>3, Returned, Nothing, Local

\* A refusal, an error, and the end of the process.
LEMMA RollbackIInv == ASSUME IInv, NEW t \in Transactions, Rollback(t) PROVE IInv'
  BY Ended DEF Rollback

\* A step of t that reads, and locks what it wants.
LEMMA Advanced ==
    ASSUME IInv, NEW t \in Transactions, NEW x \in Steps, Go(t, x),
           UNCHANGED <<rows, says, outstanding, by, runs>>,
           x.code = tx[t].code, x.update = tx[t].update,
           Shaped(t)', Knows(t)', Earned(t)'
    PROVE  IInv'
  BY Taken, Local

\* A request of an installation.
LEMMA PairIInv ==
    ASSUME IInv, NEW t \in Transactions, NEW c \in Codes, NEW a \in Accounts, NEW i \in Installations,
           Pair(t, c, a, i)
    PROVE  IInv'
<1> DEFINE x == [Idle EXCEPT !.at = "code", !.code = c, !.account = a, !.installation = i]
<1>1. x \in Steps /\ x.at = "code" /\ x.code = c /\ x.account = a /\ x.installation = i /\ x.update = None
  BY DEF Idle, Steps, Stages
<1>2. tx' = [tx EXCEPT ![t] = x] /\ tx'[t] = x /\ code[c] # "none" /\ UNCHANGED <<rows, says, outstanding, lock, by, runs>>
  BY StepsType DEF Pair
<1> HIDE DEF x
<1>3. Shaped(t)' /\ Knows(t)'
  BY <1>1, <1>2 DEF Shaped, Knows, Pairing, Handling, rows
<1>4. Earned(t)'
  <2>1. tx[t].at = "idle" /\ Earned(t)
    BY DEF Pair, IInv
  <2>2. \A r \in Rows : lock[r] # t
    BY <2>1 DEF Earned, Rows, Pairing, Handling
  <2> QED BY <1>2, <2>2 DEF Earned, Rows
<1>5. lock' \in [Rows -> Transactions \cup {None}]
  BY <1>2 DEF IInv, TypeOK
<1> QED BY <1>1, <1>2, <1>3, <1>4, <1>5, Local

\* The code is locked and valid, or the request is refused.
LEMMA LockCodeIInv == ASSUME IInv, NEW t \in Transactions, LockCode(t) PROVE IInv'
<1> SUFFICES ASSUME code[tx[t].code] = "valid",
                    Go(t, [tx[t] EXCEPT !.at = "user", !.user = issuer[tx[t].code]]),
                    UNCHANGED <<rows, says, outstanding, by, runs>>
             PROVE  IInv'
  BY RollbackIInv DEF LockCode
<1> DEFINE x == [tx[t] EXCEPT !.at = "user", !.user = issuer[tx[t].code]]
<1>1. tx[t].at = "code" /\ tx[t].code \in Codes /\ Shaped(t) /\ Earned(t) /\ tx[t] \in Steps
  BY StepsType DEF LockCode, IInv, Shaped
<1>2. issuer[tx[t].code] \in Humans
  BY <1>1 DEF IInv, Recorded
<1>3. /\ x \in Steps /\ x.at = "user" /\ x.user = issuer[tx[t].code] /\ x.code = tx[t].code
      /\ x.account = tx[t].account /\ x.installation = tx[t].installation /\ x.update = tx[t].update
  BY <1>1, <1>2 DEF Steps, Stages, Pairing
<1>4. tx'[t] = x
  BY Taken, StepsType
<1> HIDE DEF x
<1>5. Shaped(t)'
  BY <1>1, <1>3, <1>4 DEF Shaped, rows, Pairing, Handling
<1>6. Wanted(t) = {<<"code", tx[t].code>>} /\ <<"code", tx[t].code>> \in Rows
  BY <1>1 DEF Wanted, Rows
<1>7. \A r \in Rows : lock'[r] = IF r = <<"code", tx[t].code>> THEN t ELSE lock[r]
  BY <1>6, Taken
<1>8. Knows(t)'
  BY <1>3, <1>4, <1>6, <1>7 DEF Knows, rows, Pairing, Handling
<1>9. \A r \in Rows : lock[r] # t
  BY <1>1 DEF Earned, Rows, Pairing, Handling
<1>10. Earned(t)'
  BY <1>1, <1>3, <1>4, <1>7, <1>9 DEF Earned, Rows, Pairing
<1>11. Go(t, x)
  BY DEF x
<1> QED BY <1>3, <1>5, <1>8, <1>10, <1>11, Advanced

\* The human who asked for the code is locked.
LEMMA LockUserIInv == ASSUME IInv, NEW t \in Transactions, LockUser(t) PROVE IInv'
<1> DEFINE x == [tx[t] EXCEPT !.at = "account"]
<1>1. /\ tx[t].at = "user" /\ Go(t, x) /\ UNCHANGED <<rows, says, outstanding, by, runs>>
      /\ Shaped(t) /\ Knows(t) /\ Earned(t) /\ tx[t] \in Steps
  BY StepsType DEF LockUser, IInv
<1>2. /\ x \in Steps /\ x.at = "account" /\ x.user = tx[t].user /\ x.code = tx[t].code
      /\ x.account = tx[t].account /\ x.installation = tx[t].installation /\ x.update = tx[t].update
  BY <1>1 DEF Steps, Stages, Pairing
<1>3. tx'[t] = x
  BY <1>1, Taken, StepsType
<1> HIDE DEF x
<1>4. Shaped(t)'
  BY <1>1, <1>2, <1>3 DEF Shaped, rows, Pairing, Handling
<1>5. Wanted(t) = {<<"user", tx[t].user>>}
  BY <1>1 DEF Wanted
<1>6. \A r \in Rows : lock'[r] = IF r = <<"user", tx[t].user>> THEN t ELSE lock[r]
  BY <1>1, <1>5, Taken
<1>7. Knows(t)'
  <2>1. <<"code", tx[t].code>> \in Rows
    BY <1>1 DEF Shaped, Rows, Pairing
  <2> QED BY <2>1, <1>1, <1>2, <1>3, <1>6 DEF Knows, rows, Pairing, Handling
<1>8. Earned(t)'
  BY <1>1, <1>2, <1>3, <1>6 DEF Earned, Rows, Pairing, Handling
<1> QED BY <1>1, <1>2, <1>4, <1>7, <1>8, Advanced

\* An account that exists is locked once it is the human's and has no agent.
LEMMA FindAccountIInv == ASSUME IInv, NEW t \in Transactions, FindAccount(t) PROVE IInv'
<1> DEFINE a == tx[t].account
           x == [tx[t] EXCEPT !.at = IF owner[a] = None THEN "create" ELSE "agent"]
<1> SUFFICES ASSUME owner[a] = None \/ (owner[a] = tx[t].user /\ ActiveAgents(a) = {}),
                    Go(t, x), UNCHANGED <<rows, says, outstanding, by, runs>>
             PROVE  IInv'
  BY RollbackIInv DEF FindAccount
<1>1. /\ tx[t].at = "account" /\ a \in Accounts
      /\ Shaped(t) /\ Knows(t) /\ Earned(t) /\ tx[t] \in Steps
  BY StepsType DEF FindAccount, IInv, Shaped, Pairing
<1>2. /\ x \in Steps /\ x.user = tx[t].user /\ x.code = tx[t].code
      /\ x.account = a /\ x.installation = tx[t].installation /\ x.update = tx[t].update
      /\ x.at = IF owner[a] = None THEN "create" ELSE "agent"
  BY <1>1 DEF Steps, Stages, Pairing
<1>3. tx'[t] = x
  BY Taken, StepsType
<1>4. Go(t, x)
  OBVIOUS
<1> HIDE DEF x
<1>5. Shaped(t)'
  BY <1>1, <1>2, <1>3 DEF Shaped, rows, Pairing, Handling
<1>6. Wanted(t) = {<<"account", b>> : b \in {a} \cap {b \in Accounts : owner[b] # None}}
  BY <1>1 DEF Wanted
<1>7. \A r \in Rows : lock'[r] = IF r = <<"account", a>> /\ owner[a] # None THEN t ELSE lock[r]
  BY <1>1, <1>4, <1>6, Taken
<1>8. Knows(t)'
  <2>1. <<"code", tx[t].code>> \in Rows /\ <<"account", a>> \in Rows
    BY <1>1 DEF Shaped, Rows, Pairing
  <2>2. \A b \in Accounts : ActiveAgents(b)' = ActiveAgents(b)
    BY DEF ActiveAgents, rows
  <2> QED BY <2>1, <2>2, <1>1, <1>2, <1>3, <1>7 DEF Knows, rows, Pairing, Handling
<1>9. Earned(t)'
  BY <1>1, <1>2, <1>3, <1>7 DEF Earned, Rows, Pairing, Handling
<1> QED BY <1>2, <1>4, <1>5, <1>8, <1>9, Advanced

\* A new account has no agent, because every agent's account exists.
LEMMA CreateAccountIInv == ASSUME IInv, NEW t \in Transactions, CreateAccount(t) PROVE IInv'
<1> DEFINE a == tx[t].account
           x == [tx[t] EXCEPT !.at = "agent"]
<1> SUFFICES ASSUME owner[a] = None, Go(t, x), UNCHANGED <<rows, says, outstanding, by, runs>>
             PROVE  IInv'
  BY RollbackIInv DEF CreateAccount
<1>1. /\ tx[t].at = "create" /\ a \in Accounts
      /\ Shaped(t) /\ Knows(t) /\ Earned(t) /\ tx[t] \in Steps
  BY StepsType DEF CreateAccount, IInv, Shaped, Pairing
<1>2. /\ x \in Steps /\ x.user = tx[t].user /\ x.code = tx[t].code /\ x.at = "agent"
      /\ x.account = a /\ x.installation = tx[t].installation /\ x.update = tx[t].update
  BY <1>1 DEF Steps, Stages, Pairing
<1>3. tx'[t] = x
  BY Taken, StepsType
<1>4. Go(t, x)
  OBVIOUS
<1> HIDE DEF x
<1>5. Shaped(t)'
  BY <1>1, <1>2, <1>3 DEF Shaped, rows, Pairing, Handling
<1>6. Wanted(t) = {<<"account", b>> : b \in {a} \cap {b \in Accounts : owner[b] = None}}
  BY <1>1 DEF Wanted
<1>7. \A r \in Rows : lock'[r] = IF r = <<"account", a>> THEN t ELSE lock[r]
  BY <1>1, <1>4, <1>6, Taken
<1>8. Knows(t)'
  <2>1. <<"code", tx[t].code>> \in Rows /\ <<"account", a>> \in Rows
    BY <1>1 DEF Shaped, Rows, Pairing
  <2>2. \A b \in Accounts : owner[b] = None => ActiveAgents(b)' = {}
    BY NoneAssumption DEF ActiveAgents, rows, IInv, Rightful
  <2> QED BY <2>1, <2>2, <1>1, <1>2, <1>3, <1>7 DEF Knows, rows, Pairing, Handling
<1>9. Earned(t)'
  BY <1>1, <1>2, <1>3, <1>7 DEF Earned, Rows, Pairing, Handling
<1> QED BY <1>2, <1>4, <1>5, <1>8, <1>9, Advanced

\* The installation's key is free and becomes the transaction's.
LEMMA InsertAgentIInv == ASSUME IInv, NEW t \in Transactions, InsertAgent(t) PROVE IInv'
<1> DEFINE i == tx[t].installation
           x == [tx[t] EXCEPT !.at = "paired"]
<1> SUFFICES ASSUME bound[i] = None, Go(t, x), UNCHANGED <<rows, says, outstanding, by, runs>>
             PROVE  IInv'
  BY RollbackIInv DEF InsertAgent
<1>1. /\ tx[t].at = "agent" /\ i \in Installations
      /\ Shaped(t) /\ Knows(t) /\ Earned(t) /\ tx[t] \in Steps
  BY StepsType DEF InsertAgent, IInv, Shaped, Pairing
<1>2. /\ x \in Steps /\ x.user = tx[t].user /\ x.code = tx[t].code /\ x.at = "paired"
      /\ x.account = tx[t].account /\ x.installation = i /\ x.update = tx[t].update
  BY <1>1 DEF Steps, Stages, Pairing
<1>3. tx'[t] = x
  BY Taken, StepsType
<1>4. Go(t, x)
  OBVIOUS
<1> HIDE DEF x
<1>5. Shaped(t)'
  BY <1>1, <1>2, <1>3 DEF Shaped, rows, Pairing, Handling
<1>6. Wanted(t) = {<<"agent", j>> : j \in {i} \cap {j \in Installations : bound[j] = None}}
  BY <1>1 DEF Wanted
<1>7. \A r \in Rows : lock'[r] = IF r = <<"agent", i>> THEN t ELSE lock[r]
  BY <1>1, <1>4, <1>6, Taken
<1>8. Knows(t)'
  <2>1. <<"code", tx[t].code>> \in Rows /\ <<"account", tx[t].account>> \in Rows /\ <<"agent", i>> \in Rows
    BY <1>1 DEF Shaped, Rows, Pairing
  <2>2. \A b \in Accounts : ActiveAgents(b)' = ActiveAgents(b)
    BY DEF ActiveAgents, rows
  <2>3. lock[<<"code", tx[t].code>>] = t /\ lock[<<"account", tx[t].account>>] = t
    BY <1>1 DEF Knows, Pairing
  <2>4. /\ lock'[<<"code", tx[t].code>>] = t /\ lock'[<<"account", tx[t].account>>] = t
        /\ lock'[<<"agent", i>>] = t
    BY <2>1, <2>3, <1>7
  <2>5. /\ code[tx[t].code] \in {"valid", "lapsed"} /\ tx[t].user = issuer[tx[t].code]
        /\ owner[tx[t].account] \in {None, tx[t].user} /\ ActiveAgents(tx[t].account) = {}
    BY <1>1 DEF Knows, Pairing
  <2>6. tx[t].account \in Accounts
    BY <1>1 DEF Shaped, Pairing
  <2> QED BY <2>2, <2>4, <2>5, <2>6, <1>2, <1>3 DEF Knows, rows, Handling
<1>9. Earned(t)'
  BY <1>1, <1>2, <1>3, <1>7 DEF Earned, Rows, Pairing, Handling
<1> QED BY <1>2, <1>4, <1>5, <1>8, <1>9, Advanced

\* A delivery of an update that Telegram has no answer for.
LEMMA DeliverIInv ==
    ASSUME IInv, NEW t \in Transactions, NEW u \in Updates, Deliver(t, u) PROVE IInv'
<1> DEFINE x == [Idle EXCEPT !.at = "update", !.update = u, !.user = says[u].human]
<1>1. says[u].human \in Humans
  BY DEF IInv, TypeOK, Messages
<1>2. x \in Steps /\ x.at = "update" /\ x.code = None /\ x.update = u /\ x.user = says[u].human
  BY <1>1 DEF Idle, Steps, Stages
<1>3. /\ tx' = [tx EXCEPT ![t] = x] /\ tx'[t] = x /\ u \in outstanding
      /\ UNCHANGED <<rows, says, outstanding, lock, by, runs>>
  BY StepsType DEF Deliver
<1> HIDE DEF x
<1>4. Shaped(t)' /\ Knows(t)'
  BY <1>2, <1>3 DEF Shaped, Knows, Pairing, Handling, rows
<1>5. Earned(t)'
  <2>1. tx[t].at = "idle" /\ Earned(t)
    BY DEF Deliver, IInv
  <2>2. \A r \in Rows : lock[r] # t
    BY <2>1 DEF Earned, Rows, Pairing, Handling
  <2> QED BY <1>3, <2>2 DEF Earned, Rows
<1>6. lock' \in [Rows -> Transactions \cup {None}]
  BY <1>3 DEF IInv, TypeOK
<1> QED BY <1>2, <1>3, <1>4, <1>5, <1>6, Local

\* The update is the transaction's, or was handled already.
LEMMA StoreUpdateIInv == ASSUME IInv, NEW t \in Transactions, StoreUpdate(t) PROVE IInv'
<1> DEFINE u == tx[t].update
           x == [tx[t] EXCEPT !.at = "human"]
<1> SUFFICES ASSUME u \notin stored, Go(t, x), UNCHANGED <<rows, says, outstanding, by, runs>>
             PROVE  IInv'
  BY Ended DEF StoreUpdate
<1>1. /\ tx[t].at = "update" /\ u \in Updates
      /\ Shaped(t) /\ Earned(t) /\ tx[t] \in Steps
  BY StepsType DEF StoreUpdate, IInv, Shaped
<1>2. /\ x \in Steps /\ x.user = tx[t].user /\ x.code = tx[t].code /\ x.at = "human"
      /\ x.account = tx[t].account /\ x.update = u
  BY <1>1 DEF Steps, Stages, Handling
<1>3. tx'[t] = x
  BY Taken, StepsType
<1>4. Go(t, x)
  OBVIOUS
<1> HIDE DEF x
<1>5. Shaped(t)'
  BY <1>1, <1>2, <1>3 DEF Shaped, rows, Pairing, Handling
<1>6. Wanted(t) = {<<"update", v>> : v \in {u} \ stored}
  BY <1>1 DEF Wanted
<1>7. \A r \in Rows : lock'[r] = IF r = <<"update", u>> THEN t ELSE lock[r]
  BY <1>1, <1>4, <1>6, Taken
<1>8. Knows(t)'
  BY <1>1, <1>2, <1>3, <1>7 DEF Knows, rows, Rows, Pairing, Handling
<1>9. Earned(t)'
  BY <1>1, <1>2, <1>3, <1>7 DEF Earned, Rows, Pairing, Handling
<1> QED BY <1>2, <1>4, <1>5, <1>8, <1>9, Advanced

\* What the message asks for, of the account that is selected.
LEMMA LockHumanIInv == ASSUME IInv, NEW t \in Transactions, LockHuman(t) PROVE IInv'
<1> DEFINE u == tx[t].update
           m == says[u]
           y == IF m.verb = "command" /\ selected[m.human] # None THEN "queue" ELSE m.verb
           a == IF m.verb = "command" THEN selected[m.human] ELSE m.account
           x == [tx[t] EXCEPT !.at = y, !.account = a]
<1>1. /\ tx[t].at = "human" /\ Go(t, x) /\ UNCHANGED <<rows, says, outstanding, by, runs>>
      /\ Shaped(t) /\ Knows(t) /\ Earned(t) /\ tx[t] \in Steps
  BY StepsType DEF LockHuman, IInv
<1>2. u \in Updates /\ m \in Messages
  BY <1>1 DEF Shaped, Handling, IInv, TypeOK
<1>3. /\ y \in {"link", "use", "queue", "command"} /\ a \in Accounts \cup {None}
      /\ y \in {"use", "queue"} => a \in Accounts
      /\ y \in {"link", "use"} => m.verb = y
      /\ y \in {"queue", "command"} => m.verb = "command"
  BY <1>2 DEF Messages, IInv, TypeOK
<1>4. tx'[t] = x
  BY <1>1, Taken, StepsType
<1> HIDE DEF y, a
<1>5. /\ x \in Steps /\ x.at = y /\ x.account = a /\ x.user = tx[t].user
      /\ x.code = tx[t].code /\ x.update = u
  BY <1>1, <1>3 DEF Steps, Stages, Handling
<1> HIDE DEF x
<1>6. Shaped(t)'
  BY <1>1, <1>3, <1>4, <1>5 DEF Shaped, rows, Pairing, Handling
<1>7. Wanted(t) = {<<"user", tx[t].user>>}
  BY <1>1 DEF Wanted
<1>8. \A r \in Rows : lock'[r] = IF r = <<"user", tx[t].user>> THEN t ELSE lock[r]
  BY <1>1, <1>7, Taken
<1>9. Knows(t)'
  <2>1. <<"update", u>> \in Rows
    BY <1>2 DEF Rows
  <2> QED BY <2>1, <1>1, <1>3, <1>4, <1>5, <1>8 DEF Knows, rows, Pairing, Handling
<1>10. Earned(t)'
  BY <1>1, <1>3, <1>4, <1>5, <1>8 DEF Earned, Rows, Pairing, Handling
<1> QED BY <1>1, <1>5, <1>6, <1>9, <1>10, Advanced

\* A step of a message in hand that locks at most an account.
LEMMA HandledIInv ==
    ASSUME IInv, NEW t \in Transactions, NEW x \in Steps,
           tx[t].at \in {"link", "use", "queue", "command"}, x.at = "handled",
           x.user = tx[t].user, x.update = tx[t].update,
           says[x.update].verb = "use" /\ x.applies => x.account \in Accounts /\ owner[x.account] = x.user,
           x.code # None => code[x.code] = "none" /\ \A s \in Transactions : tx[s].code # x.code,
           tx' = [tx EXCEPT ![t] = x],
           lock' = [r \in Rows |-> IF r \in Wanted(t) THEN t ELSE lock[r]],
           tx[t].at = "queue" => Granted(t),
           UNCHANGED <<rows, says, outstanding, by, runs>>
    PROVE  IInv'
<1>1. Shaped(t) /\ Knows(t) /\ Earned(t) /\ tx'[t] = x
  BY StepsType DEF IInv
<1>2. x.update \in Updates /\ <<"update", x.update>> \in Rows
  BY <1>1 DEF Shaped, Handling, Rows
<1>3. tx[t].at # "queue" => Wanted(t) = {}
  BY DEF Wanted
<1>4. Wanted(t) \subseteq {<<"account", tx[t].account>>}
  BY <1>3 DEF Wanted
<1>5. Granted(t)
  BY <1>3 DEF Granted
<1>6. Go(t, x)
  BY <1>5 DEF Go
<1>7. Shaped(t)'
  BY <1>1, <1>2 DEF Shaped, rows, Pairing, Handling
<1>8. Knows(t)'
  <2>1. lock[<<"update", x.update>>] = t /\ x.update \notin stored
    BY <1>1 DEF Knows, Handling
  <2>2. lock'[<<"update", x.update>>] = t
    BY <2>1, <1>2
  <2>3. x.code # None => \A s \in Transactions \ {t} : tx'[s].code # x.code
    BY StepsType
  <2> QED BY <2>1, <2>2, <2>3, <1>1 DEF Knows, rows, Pairing
<1>9. Earned(t)'
  BY <1>1, <1>4 DEF Earned, Rows, Pairing, Handling
<1>10. x.code = None \/ \A s \in Transactions : tx[s].code # x.code
  OBVIOUS
<1> QED BY <1>6, <1>7, <1>8, <1>9, <1>10, Taken, Local

\* A fresh code, or none.
LEMMA LinkIInv == ASSUME IInv, NEW t \in Transactions, Link(t) PROVE IInv'
<1>1. /\ tx[t].at = "link" /\ Shaped(t) /\ Earned(t) /\ tx[t] \in Steps /\ tx[t].code = None
      /\ UNCHANGED <<rows, says, outstanding, lock, by, runs>>
  BY StepsType DEF Link, IInv, Shaped, Handling
<1>2. lock' = [r \in Rows |-> IF r \in Wanted(t) THEN t ELSE lock[r]]
  BY <1>1 DEF Wanted, IInv, TypeOK
<1>3. says[tx[t].update].verb = "link"
  BY <1>1 DEF Shaped
<1>4. ASSUME NEW c \in Codes, code[c] = "none", \A s \in Transactions : tx[s].code # c,
             tx' = [tx EXCEPT ![t].at = "handled", ![t].code = c, ![t].applies = TRUE]
      PROVE  IInv'
  <2> DEFINE x == [tx[t] EXCEPT !.at = "handled", !.code = c, !.applies = TRUE]
  <2>1. /\ x \in Steps /\ x.at = "handled" /\ x.user = tx[t].user /\ x.update = tx[t].update
        /\ x.code = c /\ tx' = [tx EXCEPT ![t] = x]
    BY <1>1, <1>4, StepsType DEF Steps, Stages, Handling
  <2> HIDE DEF x
  <2>2. /\ tx[t].at \in {"link", "use", "queue", "command"} /\ tx[t].at # "queue"
        /\ says[x.update].verb # "use"
    BY <1>1, <1>3, <2>1
  <2>3. x.code # None => code[x.code] = "none" /\ \A s \in Transactions : tx[s].code # x.code
    BY <1>4, <2>1
  <2>4. UNCHANGED <<rows, says, outstanding, by, runs>>
    BY <1>1
  <2> QED BY <1>2, <2>1, <2>2, <2>3, <2>4, HandledIInv
<1>5. ASSUME tx' = [tx EXCEPT ![t].at = "handled"] PROVE IInv'
  <2> DEFINE x == [tx[t] EXCEPT !.at = "handled"]
  <2>1. /\ x \in Steps /\ x.at = "handled" /\ x.user = tx[t].user /\ x.update = tx[t].update
        /\ x.code = None /\ tx' = [tx EXCEPT ![t] = x]
    BY <1>1, <1>5, StepsType DEF Steps, Stages, Handling
  <2> HIDE DEF x
  <2> QED BY <1>1, <1>2, <1>3, <2>1, HandledIInv
<1> QED BY <1>4, <1>5 DEF Link

\* An account is selected only for its owner.
LEMMA UseIInv == ASSUME IInv, NEW t \in Transactions, Use(t) PROVE IInv'
<1> DEFINE b == (owner[tx[t].account] = tx[t].user)
           x == [tx[t] EXCEPT !.at = "handled", !.applies = b]
<1>1. /\ tx[t].at = "use" /\ Shaped(t) /\ tx[t] \in Steps /\ tx[t].code = None
      /\ tx[t].account \in Accounts
      /\ UNCHANGED <<rows, says, outstanding, lock, by, runs>>
  BY StepsType DEF Use, IInv, Shaped, Handling
<1>2. lock' = [r \in Rows |-> IF r \in Wanted(t) THEN t ELSE lock[r]]
  BY <1>1 DEF Wanted, IInv, TypeOK
<1>3. tx' = [tx EXCEPT ![t].at = "handled", ![t].applies = b] /\ b \in BOOLEAN
  BY DEF Use
<1>4. b => owner[tx[t].account] = tx[t].user
  OBVIOUS
<1> HIDE DEF b
<1>5. /\ x \in Steps /\ x.at = "handled" /\ x.user = tx[t].user /\ x.update = tx[t].update
      /\ x.code = None /\ x.account = tx[t].account /\ tx' = [tx EXCEPT ![t] = x]
  BY <1>1, <1>3, StepsType DEF Steps, Stages, Handling
<1>6. x.applies => b
  BY <1>1, <1>3 DEF Steps
<1> HIDE DEF x
<1> QED BY <1>1, <1>2, <1>4, <1>5, <1>6, HandledIInv

\* A command is queued under the lock of its account, or refused.
LEMMA QueueIInv == ASSUME IInv, NEW t \in Transactions, Queue(t) PROVE IInv'
<1>1. /\ tx[t].at \in {"queue", "command"} /\ tx[t].code = None /\ tx[t] \in Steps
      /\ says[tx[t].update].verb = "command" /\ UNCHANGED <<rows, says, outstanding, by, runs>>
  BY StepsType DEF Queue, IInv, Shaped, Handling
<1>2. ASSUME tx[t].at = "queue", Go(t, [tx[t] EXCEPT !.at = "handled", !.applies = TRUE]) PROVE IInv'
  <2> DEFINE x == [tx[t] EXCEPT !.at = "handled", !.applies = TRUE]
  <2>1. /\ x \in Steps /\ x.at = "handled" /\ x.user = tx[t].user /\ x.update = tx[t].update
        /\ x.code = None
    BY <1>1 DEF Steps, Stages, Handling
  <2>2. Go(t, x)
    BY <1>2
  <2> HIDE DEF x
  <2> QED BY <1>1, <2>1, <2>2, HandledIInv DEF Go
<1>3. ASSUME UNCHANGED lock, tx' = [tx EXCEPT ![t].at = "handled"] PROVE IInv'
  <2> DEFINE x == [tx[t] EXCEPT !.at = "handled"]
  <2>1. /\ x \in Steps /\ x.at = "handled" /\ x.user = tx[t].user /\ x.update = tx[t].update
        /\ x.code = None /\ tx' = [tx EXCEPT ![t] = x] /\ tx'[t] = x
    BY <1>1, <1>3, StepsType DEF Steps, Stages, Handling
  <2> HIDE DEF x
  <2>2. Shaped(t) /\ Knows(t) /\ Earned(t) /\ tx[t].update \in Updates
    BY <1>1 DEF IInv, Shaped, Handling
  <2>3. Shaped(t)'
    BY <1>1, <2>1, <2>2 DEF Shaped, rows, Pairing, Handling
  <2>4. Knows(t)'
    BY <1>1, <1>3, <2>1, <2>2 DEF Knows, rows, Pairing, Handling
  <2>5. Earned(t)'
    BY <1>1, <1>3, <2>1, <2>2 DEF Earned, Pairing, Handling
  <2>6. lock' \in [Rows -> Transactions \cup {None}]
    BY <1>3 DEF IInv, TypeOK
  <2> QED BY <1>1, <1>3, <2>1, <2>3, <2>4, <2>5, <2>6, Local
<1> QED BY <1>2, <1>3 DEF Queue

\* The sweeper takes accounts that nobody holds.
LEMMA SweepIInv ==
    ASSUME IInv, NEW t \in Transactions, NEW S \in SUBSET Accounts, Sweep(t, S)
    PROVE  IInv'
<1> DEFINE x == [tx[t] EXCEPT !.at = "codes"]
<1>1. /\ tx[t].at = "idle" /\ Shaped(t) /\ Earned(t) /\ tx[t] \in Steps
      /\ tx' = [tx EXCEPT ![t] = x] /\ UNCHANGED <<rows, says, outstanding, by, runs>>
  BY StepsType DEF Sweep, IInv
<1>2. x \in Steps /\ x.at = "codes" /\ x.code = None /\ x.update = None
  BY <1>1 DEF Shaped, Steps, Stages
<1>3. tx'[t] = x
  BY <1>1, StepsType
<1> HIDE DEF x
<1>4. Shaped(t)' /\ Knows(t)'
  BY <1>2, <1>3 DEF Shaped, Knows, Pairing, Handling
<1>5. \A r \in Rows : lock[r] # t
  BY <1>1 DEF Earned, Rows, Pairing, Handling
<1>6. \A r \in Rows : lock'[r] = IF r \in {"account"} \X S THEN t ELSE lock[r]
  BY DEF Sweep
<1>7. Earned(t)'
  BY <1>2, <1>3, <1>5, <1>6 DEF Earned, Rows
<1>8. lock' \in [Rows -> Transactions \cup {None}]
  BY DEF Sweep, IInv, TypeOK
<1>9. \A s \in Transactions \ {t}, r \in Rows : lock'[r] = s <=> lock[r] = s
  <2>1. \A r \in {"account"} \X S : lock[r] = None
    BY DEF Sweep
  <2> QED BY <2>1, <1>6, NoneAssumption
<1> QED BY <1>1, <1>2, <1>4, <1>7, <1>8, <1>9, Local

\* The transaction that pairs has all of its facts at its commit.
LEMMA CommitPairIInv == ASSUME IInv, NEW t \in Transactions, CommitPair(t) PROVE IInv'
<1> PICK c \in Codes, h \in Humans, a \in Accounts, i \in Installations :
      c = tx[t].code /\ h = tx[t].user /\ a = tx[t].account /\ i = tx[t].installation
  <2>1. tx[t].code \in Codes /\ code[tx[t].code] # "none" /\ tx[t].account \in Accounts /\ tx[t].installation \in Installations
    BY DEF CommitPair, IInv, Shaped, Pairing
  <2>2. tx[t].user = issuer[tx[t].code]
    BY DEF CommitPair, IInv, Knows, Pairing
  <2> QED BY <2>1, <2>2 DEF IInv, Recorded
<1>1. /\ code' = [code EXCEPT ![c] = "used"] /\ owner' = [owner EXCEPT ![a] = h]
      /\ bound' = [bound EXCEPT ![i] = a] /\ by' = [by EXCEPT ![i] = c]
      /\ selected' = [selected EXCEPT ![h] = IF @ = None THEN a ELSE @]
      /\ UNCHANGED <<issuer, revoked, stored, says, outstanding, runs>> /\ End(t) /\ tx[t].at = "paired"
  BY DEF CommitPair
<1>2. /\ code[c] \in {"valid", "lapsed"} /\ h = issuer[c] /\ owner[a] \in {None, h}
      /\ ActiveAgents(a) = {} /\ bound[i] = None
      /\ lock[<<"code", c>>] = t /\ lock[<<"account", a>>] = t /\ lock[<<"agent", i>>] = t
  BY <1>1 DEF IInv, Knows, Pairing
<1>3. /\ tx'[t] = Idle /\ \A s \in Transactions \ {t} : tx'[s] = tx[s]
      /\ tx' \in [Transactions -> Steps]
  <2>1. Idle \in Steps
    BY DEF Idle, Steps, Stages
  <2> QED BY <1>1, <2>1, Returned, StepsType
<1>4. /\ \A d \in Codes : code'[d] = IF d = c THEN "used" ELSE code[d]
      /\ \A b \in Accounts : owner'[b] = IF b = a THEN h ELSE owner[b]
      /\ \A j \in Installations : bound'[j] = IF j = i THEN a ELSE bound[j]
  BY <1>1 DEF IInv, TypeOK
<1>5. TypeOK'
  BY <1>1, <1>3, Returned DEF IInv, TypeOK, Stages, Steps
<1>6. \A j \in Installations : by[j] # c
  BY <1>2, NoneAssumption DEF IInv, Recorded
<1>7. Recorded'
  BY <1>1, <1>2, <1>6, NoneAssumption DEF IInv, TypeOK, Recorded
<1>8. Rightful'
  <2>1. \A j \in Installations : bound'[j] # None =>
          by'[j] # None /\ owner'[bound'[j]] # None /\ owner'[bound'[j]] = issuer'[by'[j]]
    <3> SUFFICES ASSUME NEW j \in Installations, bound'[j] # None
                 PROVE  by'[j] # None /\ owner'[bound'[j]] # None /\ owner'[bound'[j]] = issuer'[by'[j]]
      OBVIOUS
    <3>1. CASE j = i
      BY <1>1, <1>2, <3>1, NoneAssumption DEF IInv, TypeOK
    <3>2. CASE j # i
      BY <1>1, <1>2, <3>2 DEF IInv, TypeOK, Rightful
    <3> QED BY <3>1, <3>2
  <2>2. \A j, k \in Installations : by'[j] # None /\ by'[j] = by'[k] => j = k
    BY <1>1, <1>6 DEF IInv, TypeOK, Rightful
  <2>3. \A b \in Accounts, j, k \in Installations : {j, k} \subseteq ActiveAgents(b)' => j = k
    <3>1. ActiveAgents(a)' \subseteq {i}
      BY <1>1, <1>2 DEF ActiveAgents, IInv, TypeOK
    <3>2. \A b \in Accounts \ {a} : ActiveAgents(b)' = ActiveAgents(b)
      BY <1>1, <1>2, NoneAssumption DEF ActiveAgents, IInv, TypeOK
    <3> QED BY <3>1, <3>2 DEF IInv, Rightful
  <2>4. \A g \in Humans : selected'[g] # None => owner'[selected'[g]] = g
    BY <1>1, <1>2, NoneAssumption DEF IInv, TypeOK, Rightful
  <2> QED BY <2>1, <2>2, <2>3, <2>4 DEF Rightful
<1>9. ASSUME NEW s \in Transactions PROVE Shaped(s)' /\ Knows(s)' /\ Earned(s)'
  <2>1. CASE s = t
    BY <1>1, <1>3, <2>1, Returned, Nothing
  <2> SUFFICES ASSUME s # t PROVE Shaped(s)' /\ Knows(s)' /\ Earned(s)'
    BY <2>1
  <2>2. Shaped(s) /\ Knows(s) /\ Earned(s) /\ tx'[s] = tx[s]
    BY <1>3 DEF IInv
  <2>3. \A r \in Rows : lock'[r] = s <=> lock[r] = s
    BY <1>1, Returned
  <2>4. Shaped(s)'
    BY <1>1, <2>2 DEF Shaped, IInv, TypeOK
  <2>5. Earned(s)'
    BY <2>2, <2>3 DEF Earned, Rows
  <2>6. Knows(s)'
    <3>1. tx[s].at \in Pairing =>
            /\ lock'[<<"code", tx[s].code>>] = s /\ code'[tx[s].code] \in {"valid", "lapsed"}
            /\ tx[s].user = issuer'[tx[s].code]
      <4> SUFFICES ASSUME tx[s].at \in Pairing
                   PROVE  /\ lock'[<<"code", tx[s].code>>] = s /\ code'[tx[s].code] \in {"valid", "lapsed"}
                          /\ tx[s].user = issuer'[tx[s].code]
        OBVIOUS
      <4>1. tx[s].code \in Codes /\ <<"code", tx[s].code>> \in Rows
        BY <2>2 DEF Shaped, Rows
      <4>2. lock[<<"code", tx[s].code>>] = s /\ tx[s].code # c
        BY <1>2, <2>2 DEF Knows
      <4>3. code[tx[s].code] \in {"valid", "lapsed"} /\ tx[s].user = issuer[tx[s].code]
        BY <2>2 DEF Knows
      <4> QED BY <4>1, <4>2, <4>3, <1>1, <1>4, <2>3
    <3>2. tx[s].at \in {"agent", "paired"} =>
            /\ lock'[<<"account", tx[s].account>>] = s /\ owner'[tx[s].account] \in {None, tx[s].user}
            /\ \A j \in Installations : bound'[j] = tx[s].account => j \in revoked
      <4> SUFFICES ASSUME tx[s].at \in {"agent", "paired"}
                   PROVE  /\ lock'[<<"account", tx[s].account>>] = s /\ owner'[tx[s].account] \in {None, tx[s].user}
                          /\ \A j \in Installations : bound'[j] = tx[s].account => j \in revoked
        OBVIOUS
      <4>1. tx[s].account \in Accounts /\ <<"account", tx[s].account>> \in Rows
        BY <2>2 DEF Shaped, Rows, Pairing
      <4>2. lock[<<"account", tx[s].account>>] = s /\ tx[s].account # a
        BY <1>2, <2>2 DEF Knows
      <4>3. \A j \in Installations : bound[j] = tx[s].account => j \in revoked
        BY <2>2 DEF Knows, ActiveAgents
      <4>4. owner[tx[s].account] \in {None, tx[s].user}
        BY <2>2 DEF Knows
      <4> QED BY <4>1, <4>2, <4>3, <4>4, <1>4, <2>3
    <3>3. tx[s].at = "paired" =>
            lock'[<<"agent", tx[s].installation>>] = s /\ bound'[tx[s].installation] = None
      <4> SUFFICES ASSUME tx[s].at = "paired"
                   PROVE  lock'[<<"agent", tx[s].installation>>] = s /\ bound'[tx[s].installation] = None
        OBVIOUS
      <4>1. tx[s].installation \in Installations /\ <<"agent", tx[s].installation>> \in Rows
        BY <2>2 DEF Shaped, Rows, Pairing
      <4>2. lock[<<"agent", tx[s].installation>>] = s /\ tx[s].installation # i
        BY <1>2, <2>2 DEF Knows
      <4>3. bound[tx[s].installation] = None
        BY <2>2 DEF Knows
      <4> QED BY <4>1, <4>2, <4>3, <1>4, <2>3
    <3>4. tx[s].at \in Handling => lock'[<<"update", tx[s].update>>] = s /\ tx[s].update \notin stored
      BY <2>2, <2>3 DEF Shaped, Knows, Rows
    <3>5. tx[s].at = "handled" /\ says[tx[s].update].verb = "use" /\ tx[s].applies =>
            tx[s].account \in Accounts /\ owner'[tx[s].account] = tx[s].user
      <4> SUFFICES ASSUME tx[s].at = "handled", says[tx[s].update].verb = "use", tx[s].applies
                   PROVE  tx[s].account \in Accounts /\ owner'[tx[s].account] = tx[s].user
        OBVIOUS
      <4>1. tx[s].account \in Accounts /\ owner[tx[s].account] = tx[s].user
        BY <2>2 DEF Knows
      <4>2. tx[s].user # None
        BY <2>2, NoneAssumption DEF Shaped, Handling, IInv, TypeOK, Messages
      <4> QED BY <4>1, <4>2, <1>1, <1>2 DEF IInv, TypeOK
    <3>6. tx[s].at = "handled" /\ tx[s].code # None =>
            code'[tx[s].code] = "none" /\ \A v \in Transactions \ {s} : tx'[v].code # tx[s].code
      <4>1. Idle.code = None
        BY DEF Idle
      <4>2. \A v \in Transactions : tx'[v].code \in {None, tx[v].code}
        BY <4>1, <1>3
      <4>3. tx[s].at = "handled" /\ tx[s].code # None => code[tx[s].code] = "none" /\ tx[s].code # c
        BY <2>2 DEF Knows
      <4>4. tx[s].code \in Codes \cup {None}
        BY DEF IInv, TypeOK
      <4>5. tx[s].at = "handled" /\ tx[s].code # None => \A v \in Transactions \ {s} : tx[v].code # tx[s].code
        BY <2>2 DEF Knows
      <4> QED BY <4>2, <4>3, <4>4, <4>5, <1>4
    <3> QED BY <3>1, <3>2, <3>3, <3>4, <3>5, <3>6, <1>1, <2>2 DEF Knows, ActiveAgents
  <2> QED BY <2>4, <2>5, <2>6
<1>10. ASSUME NEW u \in Updates PROVE Counted(u)'
  BY <1>1, <1>3, NoneAssumption DEF IInv, Counted, Idle
<1> QED BY <1>5, <1>7, <1>8, <1>9, <1>10 DEF IInv

\* An update's transaction leaves its row, its effect, and one run.
LEMMA CommitUpdateIInv == ASSUME IInv, NEW t \in Transactions, CommitUpdate(t) PROVE IInv'
<1> DEFINE u == tx[t].update
           d == tx[t].code
<1>1. /\ tx[t].at = "handled" /\ End(t) /\ stored' = stored \cup {u}
      /\ runs' = [runs EXCEPT ![u] = @ + 1]
      /\ code' = [c \in Codes |-> IF c = d THEN "valid" ELSE code[c]]
      /\ issuer' = [c \in Codes |-> IF c = d THEN tx[t].user ELSE issuer[c]]
      /\ selected' = IF says[u].verb = "use" /\ tx[t].applies
                     THEN [selected EXCEPT ![tx[t].user] = tx[t].account] ELSE selected
      /\ outstanding' \subseteq outstanding /\ UNCHANGED <<owner, bound, revoked, says, by>>
  BY DEF CommitUpdate
<1>2. /\ u \in Updates /\ tx[t].user = says[u].human /\ lock[<<"update", u>>] = t /\ u \notin stored
      /\ says[u].verb = "use" /\ tx[t].applies => tx[t].account \in Accounts /\ owner[tx[t].account] = tx[t].user
      /\ d # None => code[d] = "none"
  BY <1>1 DEF IInv, Shaped, Knows, Handling
<1>3. tx[t].user \in Humans /\ tx[t].user # None
  BY <1>2, NoneAssumption DEF IInv, TypeOK, Messages
<1>4. /\ tx'[t] = Idle /\ \A s \in Transactions \ {t} : tx'[s] = tx[s]
      /\ tx' \in [Transactions -> Steps]
  <2>1. Idle \in Steps
    BY DEF Idle, Steps, Stages
  <2> QED BY <1>1, <2>1, Returned, StepsType
<1>5. runs[u] = 0
  <2>1. runs[u] \in Nat
    BY <1>2 DEF IInv, TypeOK
  <2>2. runs[u] <= 1 /\ runs[u] # 1
    BY <1>2 DEF IInv, Counted
  <2> QED BY <2>1, <2>2
<1>6. selected' \in [Humans -> Accounts \cup {None}]
  BY <1>1, <1>2, <1>3 DEF IInv, TypeOK
<1>7. TypeOK'
  <2>1. runs' \in [Updates -> Nat]
    BY <1>1, <1>2, <1>5 DEF IInv, TypeOK
  <2>2. /\ code' \in [Codes -> {"none", "valid", "used", "lapsed", "old", "deleted"}]
        /\ issuer' \in [Codes -> Humans \cup {None}]
    BY <1>1, <1>3 DEF IInv, TypeOK
  <2>3. stored' \subseteq Updates /\ outstanding' \subseteq Updates
    BY <1>1, <1>2 DEF IInv, TypeOK
  <2> QED BY <1>1, <1>4, <1>6, <2>1, <2>2, <2>3, Returned DEF IInv, TypeOK, Stages, Steps
<1>8. /\ \A c \in Codes : code[c] # "none" => code'[c] = code[c] /\ issuer'[c] = issuer[c]
      /\ \A c \in Codes : code'[c] # "none" => issuer'[c] \in Humans
      /\ \A c \in Codes \ {d} : code'[c] = code[c]
  BY <1>1, <1>2, <1>3, NoneAssumption DEF IInv, Recorded
<1>9. Recorded'
  <2>1. ASSUME NEW i \in Installations, by[i] # None
        PROVE  code'[by[i]] \in {"used", "old", "deleted"} /\ bound[i] # None
    BY <1>8, <2>1 DEF IInv, TypeOK, Recorded
  <2> QED BY <1>1, <1>8, <2>1 DEF Recorded
<1>10. Rightful'
  <2>1. \A i \in Installations : bound'[i] # None =>
          by'[i] # None /\ owner'[bound'[i]] # None /\ owner'[bound'[i]] = issuer'[by'[i]]
    <3> SUFFICES ASSUME NEW i \in Installations, bound[i] # None
                 PROVE  by[i] # None /\ owner[bound[i]] # None /\ owner[bound[i]] = issuer'[by[i]]
      BY <1>1
    <3>1. by[i] # None /\ owner[bound[i]] # None /\ owner[bound[i]] = issuer[by[i]]
      BY DEF IInv, Rightful
    <3>2. by[i] \in Codes /\ code[by[i]] # "none"
      BY <3>1 DEF IInv, TypeOK, Recorded
    <3> QED BY <1>8, <3>1, <3>2
  <2>2. \A i, j \in Installations : by'[i] # None /\ by'[i] = by'[j] => i = j
    BY <1>1 DEF IInv, Rightful
  <2>3. \A a \in Accounts, i, j \in Installations : {i, j} \subseteq ActiveAgents(a)' => i = j
    BY <1>1 DEF IInv, Rightful, ActiveAgents
  <2>4. \A h \in Humans : selected'[h] # None => owner'[selected'[h]] = h
    BY <1>1, <1>2, <1>3 DEF IInv, TypeOK, Rightful
  <2> QED BY <2>1, <2>2, <2>3, <2>4 DEF Rightful
<1>11. ASSUME NEW s \in Transactions PROVE Shaped(s)' /\ Knows(s)' /\ Earned(s)'
  <2>1. CASE s = t
    BY <1>1, <1>4, <2>1, Returned, Nothing
  <2> SUFFICES ASSUME s # t PROVE Shaped(s)' /\ Knows(s)' /\ Earned(s)'
    BY <2>1
  <2>2. Shaped(s) /\ Knows(s) /\ Earned(s) /\ tx'[s] = tx[s] /\ tx[s] \in Steps
    BY <1>4, StepsType DEF IInv
  <2>3. \A r \in Rows : lock'[r] = s <=> lock[r] = s
    BY <1>1, Returned
  <2>4. Shaped(s)'
    BY <1>1, <1>8, <2>2 DEF Shaped
  <2>5. Earned(s)'
    BY <2>2, <2>3 DEF Earned, Rows
  <2>6. Knows(s)'
    <3>1. tx[s].at \in Pairing =>
            /\ lock'[<<"code", tx[s].code>>] = s /\ code'[tx[s].code] \in {"valid", "lapsed"}
            /\ tx[s].user = issuer'[tx[s].code]
      <4> SUFFICES ASSUME tx[s].at \in Pairing
                   PROVE  /\ lock'[<<"code", tx[s].code>>] = s /\ code'[tx[s].code] \in {"valid", "lapsed"}
                          /\ tx[s].user = issuer'[tx[s].code]
        OBVIOUS
      <4>1. tx[s].code \in Codes /\ code[tx[s].code] # "none" /\ <<"code", tx[s].code>> \in Rows
        BY <2>2 DEF Shaped, Rows
      <4>2. /\ lock[<<"code", tx[s].code>>] = s /\ code[tx[s].code] \in {"valid", "lapsed"}
            /\ tx[s].user = issuer[tx[s].code]
        BY <2>2 DEF Knows
      <4> QED BY <4>1, <4>2, <1>8, <2>3
    <3>2. tx[s].at \in {"agent", "paired"} =>
            /\ lock'[<<"account", tx[s].account>>] = s /\ owner[tx[s].account] \in {None, tx[s].user}
            /\ ActiveAgents(tx[s].account) = {}
      <4>1. tx[s].at \in {"agent", "paired"} => <<"account", tx[s].account>> \in Rows
        BY <2>2 DEF Shaped, Rows, Pairing
      <4> QED BY <4>1, <2>2, <2>3 DEF Knows
    <3>3. tx[s].at = "paired" =>
            lock'[<<"agent", tx[s].installation>>] = s /\ bound[tx[s].installation] = None
      <4>1. tx[s].at = "paired" => <<"agent", tx[s].installation>> \in Rows
        BY <2>2 DEF Shaped, Rows, Pairing
      <4> QED BY <4>1, <2>2, <2>3 DEF Knows
    <3>4. tx[s].at \in Handling => lock'[<<"update", tx[s].update>>] = s /\ tx[s].update \notin stored'
      <4> SUFFICES ASSUME tx[s].at \in Handling
                   PROVE  lock'[<<"update", tx[s].update>>] = s /\ tx[s].update \notin stored'
        OBVIOUS
      <4>1. <<"update", tx[s].update>> \in Rows
        BY <2>2 DEF Shaped, Rows
      <4>2. lock[<<"update", tx[s].update>>] = s /\ tx[s].update \notin stored
        BY <2>2 DEF Knows
      <4>3. tx[s].update # u
        BY <1>2, <4>2
      <4> QED BY <4>1, <4>2, <4>3, <1>1, <2>3
    <3>5. tx[s].at = "handled" /\ says[tx[s].update].verb = "use" /\ tx[s].applies =>
            tx[s].account \in Accounts /\ owner[tx[s].account] = tx[s].user
      BY <2>2 DEF Knows
    <3>6. tx[s].at = "handled" /\ tx[s].code # None =>
            code'[tx[s].code] = "none" /\ \A v \in Transactions \ {s} : tx'[v].code # tx[s].code
      <4> SUFFICES ASSUME tx[s].at = "handled", tx[s].code # None
                   PROVE  code'[tx[s].code] = "none" /\ \A v \in Transactions \ {s} : tx'[v].code # tx[s].code
        OBVIOUS
      <4>1. code[tx[s].code] = "none" /\ \A v \in Transactions \ {s} : tx[v].code # tx[s].code
        BY <2>2 DEF Knows
      <4>2. tx[s].code \in Codes /\ tx[s].code # d
        BY <4>1, <2>2 DEF Steps
      <4>3. \A v \in Transactions : tx'[v].code \in {None, tx[v].code}
        BY <1>4 DEF Idle
      <4> QED BY <4>1, <4>2, <4>3, <1>8
    <3>7. ActiveAgents(tx[s].account)' = ActiveAgents(tx[s].account)
      BY <1>1, <2>2 DEF ActiveAgents
    <3> QED BY <3>1, <3>2, <3>3, <3>4, <3>5, <3>6, <3>7, <1>1, <2>2 DEF Knows
  <2> QED BY <2>4, <2>5, <2>6
<1>12. ASSUME NEW v \in Updates PROVE Counted(v)'
  <2>1. CASE v = u
    BY <1>1, <1>2, <1>5, <2>1 DEF IInv, TypeOK, Counted
  <2>2. CASE v # u
    <3>1. runs'[v] = runs[v] /\ (v \in stored' <=> v \in stored)
      BY <1>1, <2>2 DEF IInv, TypeOK
    <3>2. \A s \in Transactions : tx'[s].update \in {None, tx[s].update}
      BY <1>4 DEF Idle
    <3> QED BY <3>1, <3>2, <1>1, NoneAssumption DEF IInv, Counted
  <2> QED BY <2>1, <2>2
<1> QED BY <1>7, <1>9, <1>10, <1>11, <1>12 DEF IInv

\* The dashboard selects an account for its owner.
LEMMA SelectAccountIInv ==
    ASSUME IInv, NEW h \in Humans, NEW a \in Accounts, SelectAccount(h, a)
    PROVE  IInv'
<1>1. /\ owner[a] = h /\ selected' = [selected EXCEPT ![h] = a]
      /\ UNCHANGED <<code, issuer, owner, bound, revoked, stored, says, outstanding, tx, lock, by, runs>>
  BY DEF SelectAccount
<1>2. TypeOK'
  BY <1>1 DEF IInv, TypeOK
<1>3. ASSUME NEW s \in Transactions PROVE Shaped(s)' /\ Knows(s)' /\ Earned(s)'
  BY <1>1 DEF IInv, Shaped, Knows, Earned, ActiveAgents
<1>4. Rightful'
  BY <1>1 DEF IInv, TypeOK, Rightful, ActiveAgents
<1>5. Recorded' /\ \A u \in Updates : Counted(u)'
  BY <1>1 DEF IInv, Recorded, Counted
<1> QED BY <1>2, <1>3, <1>4, <1>5 DEF IInv

\* A revoked agent is one agent less.
LEMMA RevokeIInv == ASSUME IInv, NEW i \in Installations, Revoke(i) PROVE IInv'
<1>1. /\ revoked' = revoked \cup {i}
      /\ UNCHANGED <<code, issuer, owner, bound, selected, stored, says, outstanding, tx, lock, by, runs>>
  BY DEF Revoke
<1>2. TypeOK'
  BY <1>1 DEF IInv, TypeOK
<1>3. \A a \in Accounts : ActiveAgents(a)' \subseteq ActiveAgents(a)
  BY <1>1 DEF ActiveAgents
<1>4. ASSUME NEW s \in Transactions PROVE Shaped(s)' /\ Knows(s)' /\ Earned(s)'
  <2>1. Shaped(s) /\ Knows(s) /\ Earned(s)
    BY DEF IInv
  <2>2. Shaped(s)' /\ Earned(s)'
    BY <1>1, <2>1 DEF Shaped, Earned
  <2>3. tx[s].at \in {"agent", "paired"} => ActiveAgents(tx[s].account)' = {}
    BY <1>1, <2>1 DEF Knows, ActiveAgents
  <2> QED BY <1>1, <2>1, <2>2, <2>3 DEF Knows
<1>5. Rightful'
  BY <1>1, <1>3 DEF IInv, Rightful
<1>6. Recorded' /\ \A u \in Updates : Counted(u)'
  BY <1>1 DEF IInv, Recorded, Counted
<1> QED BY <1>2, <1>4, <1>5, <1>6 DEF IInv

\* A code ages, or is deleted: not one that a transaction has found valid.
LEMMA Aged ==
    ASSUME IInv, code' \in [Codes -> {"none", "valid", "used", "lapsed", "old", "deleted"}],
           \A c \in Codes : \/ code'[c] = code[c]
                            \/ code[c] = "valid" /\ code'[c] = "lapsed"
                            \/ /\ code[c] \in {"used", "old"} /\ code'[c] \in {"old", "deleted"}
                            \/ /\ code[c] = "lapsed" /\ code'[c] = "old" /\ lock[<<"code", c>>] = None,
           UNCHANGED <<issuer, owner, bound, revoked, selected, stored, says, outstanding, by, runs>>,
           NEW s \in Transactions, tx'[s] = tx[s], \A r \in Rows : lock'[r] = s <=> lock[r] = s,
           \A v \in Transactions : tx'[v].code \in {None, tx[v].code}
    PROVE  Shaped(s)' /\ Knows(s)' /\ Earned(s)'
<1>1. Shaped(s) /\ Knows(s) /\ Earned(s) /\ tx[s] \in Steps
  BY StepsType DEF IInv
<1>2. Shaped(s)'
  BY <1>1 DEF Shaped
<1>3. Earned(s)'
  BY <1>1 DEF Earned, Rows
<1>4. Knows(s)'
  <2>1. tx[s].at \in Pairing =>
          lock'[<<"code", tx[s].code>>] = s /\ code'[tx[s].code] \in {"valid", "lapsed"}
    <3> SUFFICES ASSUME tx[s].at \in Pairing
                 PROVE  lock'[<<"code", tx[s].code>>] = s /\ code'[tx[s].code] \in {"valid", "lapsed"}
      OBVIOUS
    <3>1. tx[s].code \in Codes /\ <<"code", tx[s].code>> \in Rows
      BY <1>1 DEF Shaped, Rows
    <3>2. lock[<<"code", tx[s].code>>] = s /\ code[tx[s].code] \in {"valid", "lapsed"}
      BY <1>1 DEF Knows
    <3> QED BY <3>1, <3>2, NoneAssumption
  <2>2. /\ tx[s].at \in Pairing => <<"account", tx[s].account>> \in Rows /\ <<"agent", tx[s].installation>> \in Rows
        /\ tx[s].at \in Handling => <<"update", tx[s].update>> \in Rows
    BY <1>1 DEF Shaped, Rows
  <2>3. tx[s].at = "handled" /\ tx[s].code # None =>
          code'[tx[s].code] = "none" /\ \A v \in Transactions \ {s} : tx'[v].code # tx[s].code
    <3>1. tx[s].code # None => tx[s].code \in Codes
      BY <1>1 DEF Steps
    <3> QED BY <1>1, <3>1 DEF Knows
  <2>4. ActiveAgents(tx[s].account)' = ActiveAgents(tx[s].account)
    BY DEF ActiveAgents
  <2> QED BY <1>1, <2>1, <2>2, <2>3, <2>4 DEF Knows, Pairing
<1> QED BY <1>2, <1>3, <1>4

\* The rows about a code are true of it as it ages.
LEMMA AgedRows ==
    ASSUME IInv, \A c \in Codes : \/ code'[c] = code[c]
                                  \/ code[c] = "valid" /\ code'[c] = "lapsed"
                                  \/ /\ code[c] \in {"used", "old"} /\ code'[c] \in {"old", "deleted"}
                                  \/ /\ code[c] = "lapsed" /\ code'[c] = "old" /\ lock[<<"code", c>>] = None,
           UNCHANGED <<issuer, owner, bound, revoked, selected, by>>
    PROVE  Recorded' /\ Rightful'
<1>1. Rightful'
  BY DEF IInv, Rightful, ActiveAgents
<1>2. \A i \in Installations : by[i] # None => by[i] \in Codes
  BY DEF IInv, TypeOK
<1>3. Recorded'
  BY <1>2 DEF IInv, Recorded
<1> QED BY <1>1, <1>3

\* A code expires, or is old once nobody works with it.
LEMMA LapseIInv == ASSUME IInv, NEW c \in Codes, Lapse(c) PROVE IInv'
<1>1. /\ code' \in [Codes -> {"none", "valid", "used", "lapsed", "old", "deleted"}]
      /\ \A b \in Codes : \/ code'[b] = code[b]
                          \/ code[b] = "valid" /\ code'[b] = "lapsed"
                          \/ /\ code[b] \in {"used", "old"} /\ code'[b] \in {"old", "deleted"}
                          \/ /\ code[b] = "lapsed" /\ code'[b] = "old" /\ lock[<<"code", b>>] = None
      /\ UNCHANGED <<issuer, owner, bound, revoked, selected, stored, says, outstanding, tx, lock, by, runs>>
  <2>1. code \in [Codes -> {"none", "valid", "used", "lapsed", "old", "deleted"}]
    BY DEF IInv, TypeOK
  <2>2. CASE code[c] = "valid" /\ code' = [code EXCEPT ![c] = "lapsed"]
    <3>1. \A b \in Codes : code'[b] = IF b = c THEN "lapsed" ELSE code[b]
      BY <2>1, <2>2
    <3>2. code' \in [Codes -> {"none", "valid", "used", "lapsed", "old", "deleted"}]
      BY <2>1, <2>2
    <3> QED BY <2>2, <3>1, <3>2 DEF Lapse
  <2>3. CASE /\ code[c] \in {"used", "lapsed"} /\ lock[<<"code", c>>] = None
             /\ code' = [code EXCEPT ![c] = "old"]
    <3>1. \A b \in Codes : code'[b] = IF b = c THEN "old" ELSE code[b]
      BY <2>1, <2>3
    <3>2. code' \in [Codes -> {"none", "valid", "used", "lapsed", "old", "deleted"}]
      BY <2>1, <2>3
    <3> QED BY <2>3, <3>1, <3>2 DEF Lapse
  <2> QED BY <2>2, <2>3 DEF Lapse
<1>2. TypeOK'
  BY <1>1 DEF IInv, TypeOK
<1>3. ASSUME NEW s \in Transactions PROVE Shaped(s)' /\ Knows(s)' /\ Earned(s)'
  BY <1>1, Aged
<1>4. Recorded' /\ Rightful'
  BY <1>1, AgedRows
<1>5. \A u \in Updates : Counted(u)'
  BY <1>1 DEF IInv, Counted
<1> QED BY <1>2, <1>3, <1>4, <1>5 DEF IInv

\* The sweeper deletes codes that are old.
LEMMA CommitSweepIInv == ASSUME IInv, NEW t \in Transactions, CommitSweep(t) PROVE IInv'
<1>1. /\ code' = [c \in Codes |-> IF c \in Discarded THEN "deleted" ELSE code[c]] /\ End(t)
      /\ UNCHANGED <<issuer, owner, bound, revoked, selected, stored, says, outstanding, by, runs>>
  BY DEF CommitSweep
<1>2. code' \in [Codes -> {"none", "valid", "used", "lapsed", "old", "deleted"}]
  BY <1>1 DEF IInv, TypeOK
<1>3. \A c \in Codes : \/ code'[c] = code[c]
                       \/ code[c] = "valid" /\ code'[c] = "lapsed"
                       \/ /\ code[c] \in {"used", "old"} /\ code'[c] \in {"old", "deleted"}
                       \/ /\ code[c] = "lapsed" /\ code'[c] = "old" /\ lock[<<"code", c>>] = None
  <2>1. \A c \in Codes : code'[c] = IF code[c] = "old" THEN "deleted" ELSE code[c]
    BY <1>1 DEF Discarded
  <2> QED BY <2>1
<1>4. /\ tx'[t] = Idle /\ \A s \in Transactions \ {t} : tx'[s] = tx[s]
      /\ tx' \in [Transactions -> Steps]
  <2>1. Idle \in Steps
    BY DEF Idle, Steps, Stages
  <2> QED BY <1>1, <2>1, Returned, StepsType
<1>5. /\ \A s \in Transactions : tx'[s].code \in {None, tx[s].code}
      /\ \A s \in Transactions : tx'[s].update \in {None, tx[s].update}
  BY <1>4 DEF Idle
<1>6. TypeOK'
  BY <1>1, <1>2, <1>4, Returned DEF IInv, TypeOK, Stages, Steps
<1>7. ASSUME NEW s \in Transactions PROVE Shaped(s)' /\ Knows(s)' /\ Earned(s)'
  <2>1. CASE s = t
    BY <1>1, <1>4, <2>1, Returned, Nothing
  <2>2. CASE s # t
    <3>1. tx'[s] = tx[s] /\ \A r \in Rows : lock'[r] = s <=> lock[r] = s
      BY <1>1, <1>4, <2>2, Returned
    <3> QED BY <1>1, <1>2, <1>3, <1>5, <3>1, Aged
  <2> QED BY <2>1, <2>2
<1>8. Recorded' /\ Rightful'
  BY <1>1, <1>3, AgedRows
<1>9. ASSUME NEW u \in Updates PROVE Counted(u)'
  BY <1>1, <1>5, NoneAssumption DEF IInv, Counted
<1> QED BY <1>6, <1>7, <1>8, <1>9 DEF IInv

\* An update that is forgotten will not be delivered again.
LEMMA PruneUpdateIInv == ASSUME IInv, NEW u \in Updates, PruneUpdate(u) PROVE IInv'
<1>1. /\ u \in stored /\ u \notin outstanding /\ \A t \in Transactions : tx[t].update # u
      /\ stored' = stored \ {u}
      /\ UNCHANGED <<code, issuer, owner, bound, revoked, selected, says, outstanding, tx, lock, by, runs>>
  BY DEF PruneUpdate
<1>2. TypeOK'
  BY <1>1 DEF IInv, TypeOK
<1>3. ASSUME NEW s \in Transactions PROVE Shaped(s)' /\ Knows(s)' /\ Earned(s)'
  <2>1. Shaped(s) /\ Knows(s) /\ Earned(s)
    BY DEF IInv
  <2> QED BY <1>1, <2>1 DEF Shaped, Knows, Earned, ActiveAgents
<1>4. Recorded' /\ Rightful'
  BY <1>1 DEF IInv, Recorded, Rightful, ActiveAgents
<1>5. ASSUME NEW v \in Updates PROVE Counted(v)'
  BY <1>1 DEF IInv, Counted
<1> QED BY <1>2, <1>3, <1>4, <1>5 DEF IInv

\* A stutter.
LEMMA StutterIInv == ASSUME IInv, UNCHANGED vars PROVE IInv'
<1>1. TypeOK'
  BY DEF vars, rows, IInv, TypeOK
<1>2. ASSUME NEW s \in Transactions PROVE Shaped(s)' /\ Knows(s)' /\ Earned(s)'
  BY DEF vars, rows, IInv, Shaped, Knows, Earned, ActiveAgents
<1>3. Recorded' /\ Rightful' /\ \A u \in Updates : Counted(u)'
  BY DEF vars, rows, IInv, Recorded, Rightful, ActiveAgents, Counted
<1> QED BY <1>1, <1>2, <1>3 DEF IInv

\* Every step preserves the invariant.
LEMMA NextIInv == IInv /\ [Next]_vars => IInv'
<1> SUFFICES ASSUME IInv, [Next]_vars PROVE IInv'
  OBVIOUS
<1>1. ASSUME NEW t \in Transactions, Paired(t) PROVE IInv'
  BY <1>1, PairIInv, LockCodeIInv, LockUserIInv, FindAccountIInv, CreateAccountIInv, InsertAgentIInv,
     CommitPairIInv DEF Paired
<1>2. ASSUME NEW t \in Transactions, Handled(t) PROVE IInv'
  <2>1. CASE LoseUpdate(t)
    BY <2>1, Ended DEF LoseUpdate
  <2> QED BY <1>2, <2>1, DeliverIInv, StoreUpdateIInv, LockHumanIInv, LinkIInv, UseIInv, QueueIInv,
             CommitUpdateIInv DEF Handled
<1>3. ASSUME NEW t \in Transactions, Swept(t) PROVE IInv'
  BY <1>3, SweepIInv, CommitSweepIInv DEF Swept
<1>4. ASSUME NEW t \in Transactions, Abort(t) PROVE IInv'
  BY <1>4, RollbackIInv DEF Abort
<1> QED BY <1>1, <1>2, <1>3, <1>4, SelectAccountIInv, RevokeIInv, PruneUpdateIInv, LapseIInv, StutterIInv DEF Next

\* What a transaction knows is true, in every reachable state.
THEOREM Invariance == Spec => []IInv
  BY InitIInv, NextIInv, PTL DEF Spec

\* However pairings, revocations, selections and retention interleave, every
\* agent was paired with a code of its account's owner, a code pairs one agent,
\* an account has one agent that is not revoked, and a selection is the human's.
THEOREM Rightfulness == Spec => []Rightful
<1>1. IInv => Rightful
  BY DEF IInv
<1> QED BY <1>1, Invariance, PTL

\* However often an update is delivered, its message is handled at most once.
THEOREM OneRun == Spec => []AppliedOnce
<1>1. IInv => AppliedOnce
  BY DEF IInv, Counted, AppliedOnce
<1> QED BY <1>1, Invariance, PTL

\* Whom a transaction waits for, holding a row, is further on than it is.
LEMMA Blocked ==
    ASSUME IInv, NEW t \in Transactions, NEW s \in Transactions, NEW r \in Wanted(t), lock[r] = s
    PROVE  \/ tx[t].at = "update" /\ tx[s].at \in Handling
           \/ tx[t].at = "code" /\ tx[s].at \in Pairing
           \/ tx[t].at \in {"user", "human"} /\ tx[s].at \in (Pairing \ {"user"}) \cup (Handling \ {"human"})
           \/ tx[t].at \in {"account", "create", "queue"} /\ tx[s].at \in {"agent", "paired", "handled", "codes"}
           \/ tx[t].at = "agent" /\ tx[s].at = "paired"
<1>1. Earned(s) /\ Knows(s) /\ Shaped(t)
  BY DEF IInv
<1>2. tx[t].user \in Humans \cup {None}
  BY DEF IInv, TypeOK
<1>3. tx[t].at \in {"user", "human"} => tx[t].user \in Humans
  <2>1. tx[t].at = "user" => tx[t].user \in Humans
    <3> SUFFICES ASSUME tx[t].at = "user" PROVE tx[t].user \in Humans
      OBVIOUS
    <3>1. tx[t].code \in Codes /\ code[tx[t].code] # "none"
      BY <1>1 DEF Shaped, Pairing
    <3>2. tx[t].user = issuer[tx[t].code]
      BY DEF IInv, Knows, Pairing
    <3> QED BY <3>1, <3>2 DEF IInv, Recorded
  <2>2. tx[t].at = "human" => tx[t].user \in Humans
    BY <1>1 DEF Shaped, Handling, IInv, TypeOK, Messages
  <2> QED BY <2>1, <2>2
<1>4. CASE tx[t].at = "code"
  BY <1>1, <1>4 DEF Wanted, Shaped, Earned
<1>5. CASE tx[t].at \in {"user", "human"}
  BY <1>1, <1>3, <1>5 DEF Wanted, Earned
<1>6. CASE tx[t].at \in {"account", "create", "queue"}
  BY <1>1, <1>6 DEF Wanted, Earned, Shaped
<1>7. CASE tx[t].at = "agent"
  BY <1>1, <1>7 DEF Wanted, Earned
<1>8. CASE tx[t].at = "update"
  BY <1>1, <1>8 DEF Wanted, Earned, Shaped
<1>9. tx[t].at # "codes"
  <2>1. SUFFICES ASSUME tx[t].at = "codes" PROVE FALSE
    OBVIOUS
  <2>2. PICK c \in Codes : code[c] = "old" /\ r = <<"code", c>>
    BY <2>1 DEF Wanted, Discarded
  <2>3. tx[s].at \in Pairing /\ tx[s].code = c
    BY <1>1, <2>2 DEF Earned
  <2> QED BY <1>1, <2>2, <2>3 DEF Knows
<1> QED BY <1>4, <1>5, <1>6, <1>7, <1>8, <1>9 DEF Wanted

\* Transactions never deadlock: the database never has to abort one to free
\* the others.
THEOREM NoDeadlock == Spec => []NoCircularWait
<1>1. IInv => NoCircularWait
  <2> SUFFICES ASSUME IInv, NEW S \in (SUBSET Transactions) \ {{}}
               PROVE  \E t \in S : \A r \in Wanted(t) : lock[r] \notin S \ {t}
    BY DEF NoCircularWait
  <2> SUFFICES ASSUME \A t \in S : \E r \in Wanted(t) : lock[r] \in S \ {t} PROVE FALSE
    OBVIOUS
  <2>1. \A t \in S : tx[t].at \in {"update", "code", "user", "human", "account", "create", "queue", "agent"}
    BY Blocked
  <2>2. \A t \in S : tx[t].at # "agent"
    BY <2>1, Blocked
  <2>3. \A t \in S : tx[t].at \notin {"account", "create", "queue"}
    BY <2>1, <2>2, Blocked
  <2>4. \A t \in S : tx[t].at \notin {"user", "human"}
    BY <2>1, <2>2, <2>3, Blocked DEF Pairing, Handling
  <2>5. \A t \in S : tx[t].at # "code"
    BY <2>1, <2>2, <2>3, <2>4, Blocked DEF Pairing
  <2>6. \A t \in S : tx[t].at # "update"
    BY <2>1, <2>2, <2>3, <2>4, <2>5, Blocked DEF Handling
  <2>7. PICK t \in S : TRUE
    OBVIOUS
  <2> QED BY <2>1, <2>2, <2>3, <2>4, <2>5, <2>6, <2>7
<1> QED BY <1>1, Invariance, PTL
=============================================================================
