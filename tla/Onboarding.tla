----------------------------- MODULE Onboarding -----------------------------
(***************************************************************************)
(* Who an account belongs to and who may speak for it: the transactions of *)
(* pair (service.py), of the Telegram webhook (telegram.py) and of the     *)
(* sweeper (maintenance.py), cut at every row lock that they take, and the *)
(* requests of the dashboard, which take one lock each.  PostgreSQL keeps  *)
(* a lock until the transaction ends; to insert a row waits for an         *)
(* uncommitted row with the same key, so the lock of a row that does not   *)
(* exist yet is the lock on its key.  What a transaction writes is visible *)
(* when it commits.  The partial unique index on active agents is left     *)
(* out: what is shown here, the locks ensure on their own.                 *)
(***************************************************************************)
EXTENDS Naturals, FiniteSets

CONSTANTS
    Humans, Codes, Accounts, Installations, Transactions,
    Updates,   \* by update_id
    Inboxes,   \* bound: what the updates may say
    None

ASSUME NoneAssumption ==
    None \notin Humans \cup Codes \cup Accounts \cup Installations \cup Updates \cup Transactions

Messages == [human : Humans, verb : {"link", "command"}, account : {None}]
            \cup [human : Humans, verb : {"use"}, account : Accounts]

ASSUME MessageAssumption == Inboxes \subseteq [Updates -> Messages]

VARIABLES
    code, issuer,      \* pairing_codes: its state, and who asked for it
    owner,             \* trading_accounts.user_id; None: no such account
    bound, revoked,    \* agents: account_id by installation, and who has revoked_at
    selected,          \* users.selected_account_id
    stored,            \* telegram_updates
    says, outstanding, \* Telegram: what the updates say, and those that it
                       \* has no good answer for
    tx, lock,          \* the transactions under way, and who holds which row
    by, runs           \* history: the code of each agent; commits of each update

rows == <<code, issuer, owner, bound, revoked, selected, stored>>
vars == <<rows, says, outstanding, tx, lock, by, runs>>

Rows == ({"code"} \X Codes) \cup ({"user"} \X Humans) \cup ({"account"} \X Accounts)
        \cup ({"agent"} \X Installations) \cup ({"update"} \X Updates)

\* "at" is what a transaction does next.
Idle == [at |-> "idle", code |-> None, user |-> None, account |-> None,
         installation |-> None, update |-> None, applies |-> FALSE]

Init ==
    /\ code = [c \in Codes |-> "none"] /\ issuer = [c \in Codes |-> None]
    /\ owner = [a \in Accounts |-> None]
    /\ bound = [i \in Installations |-> None] /\ revoked = {}
    /\ selected = [h \in Humans |-> None]
    /\ stored = {}
    /\ says \in Inboxes /\ outstanding = Updates
    /\ tx = [t \in Transactions |-> Idle] /\ lock = [r \in Rows |-> None]
    /\ by = [i \in Installations |-> None] /\ runs = [u \in Updates |-> 0]

ActiveAgents(a) == {i \in Installations : bound[i] = a /\ i \notin revoked}

-----------------------------------------------------------------------------
\* Mutation of Discarded: codes are deleted as soon as they are of no use.
DiscardedAtOnce == {c \in Codes : code[c] \in {"used", "lapsed", "old"}}

\* The codes that the sweeper deletes.
Discarded == {c \in Codes : code[c] = "old"}

\* The row on whose lock the next step of t depends.  An insertion that finds
\* a committed row fails at once.
Wanted(t) ==
    LET x == tx[t]
    IN  CASE x.at = "code" -> {<<"code", x.code>>}
          [] x.at = "user" -> {<<"user", x.user>>}
          [] x.at = "account" -> {<<"account", a>> : a \in {x.account} \cap {a \in Accounts : owner[a] # None}}
          [] x.at = "create" -> {<<"account", a>> : a \in {x.account} \cap {a \in Accounts : owner[a] = None}}
          [] x.at = "agent" -> {<<"agent", i>> : i \in {x.installation} \cap {i \in Installations : bound[i] = None}}
          [] x.at = "update" -> {<<"update", u>> : u \in {x.update} \ stored}
          [] x.at = "human" -> {<<"user", x.user>>}
          [] x.at = "queue" -> {<<"account", x.account>>}
          [] x.at = "codes" -> {<<"code", c>> : c \in Discarded}
          [] OTHER -> {}

Granted(t) == \A r \in Wanted(t) : lock[r] = None

Go(t, x) ==
    /\ Granted(t)
    /\ tx' = [tx EXCEPT ![t] = x]
    /\ lock' = [r \in Rows |-> IF r \in Wanted(t) THEN t ELSE lock[r]]

\* A commit or a rollback.
End(t) ==
    /\ tx' = [tx EXCEPT ![t] = Idle]
    /\ lock' = [r \in Rows |-> IF lock[r] = t THEN None ELSE lock[r]]

Rollback(t) == End(t) /\ UNCHANGED <<rows, says, outstanding, by, runs>>

\* Any error, and the end of the process; Telegram gets no good answer.
Abort(t) == tx[t].at # "idle" /\ Rollback(t)

-----------------------------------------------------------------------------
Pair(t, c, a, i) ==
    /\ tx[t].at = "idle" /\ code[c] # "none"
    /\ tx' = [tx EXCEPT ![t] = [Idle EXCEPT !.at = "code", !.code = c, !.account = a, !.installation = i]]
    /\ UNCHANGED <<rows, says, outstanding, lock, by, runs>>

\* Mutation of LockCode: the code is read without a lock.
LockCodeNot(t) ==
    /\ tx[t].at = "code"
    /\ code[tx[t].code] = "valid"
    /\ tx' = [tx EXCEPT ![t].at = "user", ![t].user = issuer[tx[t].code]]
    /\ UNCHANGED <<rows, says, outstanding, lock, by, runs>>

\* A code that is used, expired or deleted is refused.
LockCode(t) ==
    /\ tx[t].at = "code"
    /\ IF code[tx[t].code] = "valid"
       THEN /\ Go(t, [tx[t] EXCEPT !.at = "user", !.user = issuer[tx[t].code]])
            /\ UNCHANGED <<rows, says, outstanding, by, runs>>
       ELSE Granted(t) /\ Rollback(t)

LockUser(t) ==
    /\ tx[t].at = "user"
    /\ Go(t, [tx[t] EXCEPT !.at = "account"])
    /\ UNCHANGED <<rows, says, outstanding, by, runs>>

\* The account is another's, or has an agent; a blocked one is an Abort.
FindAccount(t) ==
    LET a == tx[t].account
    IN  /\ tx[t].at = "account"
        /\ IF owner[a] = None \/ (owner[a] = tx[t].user /\ ActiveAgents(a) = {})
           THEN /\ Go(t, [tx[t] EXCEPT !.at = IF owner[a] = None THEN "create" ELSE "agent"])
                /\ UNCHANGED <<rows, says, outstanding, by, runs>>
           ELSE Granted(t) /\ Rollback(t)

\* PAIRING_CONFLICT, when the account has appeared since it was not found.
CreateAccount(t) ==
    /\ tx[t].at = "create"
    /\ IF owner[tx[t].account] = None
       THEN /\ Go(t, [tx[t] EXCEPT !.at = "agent"])
            /\ UNCHANGED <<rows, says, outstanding, by, runs>>
       ELSE Rollback(t)

\* INSTALLATION_ALREADY_PAIRED or PAIRING_CONFLICT.
InsertAgent(t) ==
    /\ tx[t].at = "agent"
    /\ IF bound[tx[t].installation] = None
       THEN /\ Go(t, [tx[t] EXCEPT !.at = "paired"])
            /\ UNCHANGED <<rows, says, outstanding, by, runs>>
       ELSE Rollback(t)

CommitPair(t) ==
    LET x == tx[t]
    IN  /\ x.at = "paired"
        /\ code' = [code EXCEPT ![x.code] = "used"]
        /\ owner' = [owner EXCEPT ![x.account] = x.user]
        /\ bound' = [bound EXCEPT ![x.installation] = x.account]
        /\ by' = [by EXCEPT ![x.installation] = x.code]
        /\ selected' = [selected EXCEPT ![x.user] = IF @ = None THEN x.account ELSE @]
        /\ End(t)
        /\ UNCHANGED <<issuer, revoked, stored, says, outstanding, runs>>

-----------------------------------------------------------------------------
\* Telegram repeats an update until it is answered, and may do so while an
\* earlier delivery is under way.
Deliver(t, u) ==
    /\ tx[t].at = "idle" /\ u \in outstanding
    /\ tx' = [tx EXCEPT ![t] = [Idle EXCEPT !.at = "update", !.update = u, !.user = says[u].human]]
    /\ UNCHANGED <<rows, says, outstanding, lock, by, runs>>

\* Mutation of StoreUpdate: the id is looked up, and inserted with the rest.
StoreUpdateLate(t) ==
    /\ tx[t].at = "update" /\ tx[t].update \notin stored
    /\ tx' = [tx EXCEPT ![t].at = "human"]
    /\ UNCHANGED <<rows, says, outstanding, lock, by, runs>>

\* A repeated update is answered and nothing else.
StoreUpdate(t) ==
    /\ tx[t].at = "update"
    /\ IF tx[t].update \in stored
       THEN /\ End(t)
            /\ outstanding' = outstanding \ {tx[t].update}
            /\ UNCHANGED <<rows, says, by, runs>>
       ELSE /\ Go(t, [tx[t] EXCEPT !.at = "human"])
            /\ UNCHANGED <<rows, says, outstanding, by, runs>>

\* get_user, and what the message asks for.
LockHuman(t) ==
    LET m == says[tx[t].update]
    IN  /\ tx[t].at = "human"
        /\ Go(t, [tx[t] EXCEPT
                    !.at = IF m.verb = "command" /\ selected[m.human] # None THEN "queue" ELSE m.verb,
                    !.account = IF m.verb = "command" THEN selected[m.human] ELSE m.account])
        /\ UNCHANGED <<rows, says, outstanding, by, runs>>

\* pairing_code: a fresh code, or RATE_LIMITED.
Link(t) ==
    /\ tx[t].at = "link"
    /\ \/ \E c \in Codes :
            /\ code[c] = "none" /\ \A s \in Transactions : tx[s].code # c
            /\ tx' = [tx EXCEPT ![t].at = "handled", ![t].code = c, ![t].applies = TRUE]
       \/ tx' = [tx EXCEPT ![t].at = "handled"]
    /\ UNCHANGED <<rows, says, outstanding, lock, by, runs>>

Use(t) ==
    /\ tx[t].at = "use"
    /\ tx' = [tx EXCEPT ![t].at = "handled", ![t].applies = (owner[tx[t].account] = tx[t].user)]
    /\ UNCHANGED <<rows, says, outstanding, lock, by, runs>>

\* request_preview and confirm work under the account's lock; what they do is
\* in CommandQueue.  An error goes back to the savepoint, which gives the lock
\* back.  "command": no account is selected.
Queue(t) ==
    /\ \/ tx[t].at = "queue" /\ Go(t, [tx[t] EXCEPT !.at = "handled", !.applies = TRUE])
       \/ /\ tx[t].at = "command" \/ (tx[t].at = "queue" /\ Granted(t))
          /\ tx' = [tx EXCEPT ![t].at = "handled"] /\ UNCHANGED lock
    /\ UNCHANGED <<rows, says, outstanding, by, runs>>

\* The row of the update, the notification, and the effect unless refused;
\* the answer may get lost on its way to Telegram.
CommitUpdate(t) ==
    LET x == tx[t]  m == says[x.update]
    IN  /\ x.at = "handled"
        /\ stored' = stored \cup {x.update}
        /\ runs' = [runs EXCEPT ![x.update] = @ + 1]
        /\ code' = [c \in Codes |-> IF c = x.code THEN "valid" ELSE code[c]]
        /\ issuer' = [c \in Codes |-> IF c = x.code THEN x.user ELSE issuer[c]]
        /\ selected' = IF m.verb = "use" /\ x.applies
                       THEN [selected EXCEPT ![x.user] = x.account] ELSE selected
        /\ outstanding' \in {outstanding, outstanding \ {x.update}}
        /\ End(t)
        /\ UNCHANGED <<owner, bound, revoked, says, by>>

\* The answer is sent before the session commits, and the commit fails.
LoseUpdate(t) ==
    /\ tx[t].at = "handled"
    /\ End(t)
    /\ outstanding' = outstanding \ {tx[t].update}
    /\ UNCHANGED <<rows, says, by, runs>>

-----------------------------------------------------------------------------
\* The dashboard: one lock each, and so one step.
SelectAccount(h, a) ==
    /\ owner[a] = h /\ lock[<<"user", h>>] = None
    /\ selected' = [selected EXCEPT ![h] = a]
    /\ UNCHANGED <<code, issuer, owner, bound, revoked, stored, says, outstanding, tx, lock, by, runs>>

Revoke(i) ==
    /\ bound[i] # None /\ lock[<<"account", bound[i]>>] = None
    /\ revoked' = revoked \cup {i}
    /\ UNCHANGED <<code, issuer, owner, bound, selected, stored, says, outstanding, tx, lock, by, runs>>

\* The sweeper takes the accounts that nobody holds, and then deletes.
Sweep(t, S) ==
    /\ tx[t].at = "idle"
    /\ \A a \in S : owner[a] # None /\ lock[<<"account", a>>] = None
    /\ tx' = [tx EXCEPT ![t].at = "codes"]
    /\ lock' = [r \in Rows |-> IF r \in {"account"} \X S THEN t ELSE lock[r]]
    /\ UNCHANGED <<rows, says, outstanding, by, runs>>

CommitSweep(t) ==
    /\ tx[t].at = "codes" /\ Granted(t)
    /\ code' = [c \in Codes |-> IF c \in Discarded THEN "deleted" ELSE code[c]]
    /\ End(t)
    /\ UNCHANGED <<issuer, owner, bound, revoked, selected, stored, says, outstanding, by, runs>>

\* Retention keeps an update for a week; Telegram repeats it for a day.
PruneUpdate(u) ==
    /\ u \in stored \ outstanding /\ \A t \in Transactions : tx[t].update # u
    /\ stored' = stored \ {u}
    /\ UNCHANGED <<code, issuer, owner, bound, revoked, selected, says, outstanding, tx, lock, by, runs>>

\* A code expires after ten minutes and is old a day later, by when no
\* transaction holds it that found it valid.
Lapse(c) ==
    /\ \/ code[c] = "valid" /\ code' = [code EXCEPT ![c] = "lapsed"]
       \/ /\ code[c] \in {"used", "lapsed"} /\ lock[<<"code", c>>] = None
          /\ code' = [code EXCEPT ![c] = "old"]
    /\ UNCHANGED <<issuer, owner, bound, revoked, selected, stored, says, outstanding, tx, lock, by, runs>>

-----------------------------------------------------------------------------
Paired(t) ==
    \/ \E c \in Codes, a \in Accounts, i \in Installations : Pair(t, c, a, i)
    \/ LockCode(t) \/ LockUser(t) \/ FindAccount(t) \/ CreateAccount(t) \/ InsertAgent(t) \/ CommitPair(t)

Handled(t) ==
    \/ \E u \in Updates : Deliver(t, u)
    \/ StoreUpdate(t) \/ LockHuman(t) \/ Link(t) \/ Use(t) \/ Queue(t) \/ CommitUpdate(t) \/ LoseUpdate(t)

Swept(t) == (\E S \in SUBSET Accounts : Sweep(t, S)) \/ CommitSweep(t)

Next ==
    \/ \E t \in Transactions : Paired(t) \/ Handled(t) \/ Swept(t) \/ Abort(t)
    \/ \E h \in Humans, a \in Accounts : SelectAccount(h, a)
    \/ \E i \in Installations : Revoke(i)
    \/ \E u \in Updates : PruneUpdate(u)
    \/ \E c \in Codes : Lapse(c)

Spec == Init /\ [][Next]_vars

-----------------------------------------------------------------------------
\* Whoever speaks for an account does so by right: every agent was paired with
\* a code that the account's owner asked for, no code paired two agents, no
\* account has two agents that are not revoked, and what a human has selected
\* is the human's.
Rightful ==
    /\ \A i \in Installations : bound[i] # None =>
         by[i] # None /\ owner[bound[i]] # None /\ owner[bound[i]] = issuer[by[i]]
    /\ \A i, j \in Installations : by[i] # None /\ by[i] = by[j] => i = j
    /\ \A a \in Accounts, i, j \in Installations : {i, j} \subseteq ActiveAgents(a) => i = j
    /\ \A h \in Humans : selected[h] # None => owner[selected[h]] = h

\* However often Telegram delivers an update, and however its deliveries
\* overlap, its message is handled at most once: what it asks for is done, or
\* refused with a notification, by one transaction.  (It is not handled at all
\* when that transaction is lost after Telegram had its answer.)
AppliedOnce == \A u \in Updates : runs[u] <= 1 /\ (u \in stored => runs[u] = 1)

\* No transactions wait for each other in a circle: locks are taken in the
\* order update, code, human, account, installation; the sweeper, which waits
\* for codes while it holds accounts, waits only for those that nobody works
\* on any more.
NoCircularWait ==
    \A S \in (SUBSET Transactions) \ {{}} :
        \E t \in S : \A r \in Wanted(t) : lock[r] \notin S \ {t}

-----------------------------------------------------------------------------
(***************************************************************************)
(* The inductive invariant: what a transaction knows is still true because *)
(* of the locks that it holds, and whoever holds a lock has come that far. *)
(***************************************************************************)
Pairing == {"user", "account", "create", "agent", "paired"}
Handling == {"human", "link", "use", "queue", "command", "handled"}

TypeOK ==
    /\ code \in [Codes -> {"none", "valid", "used", "lapsed", "old", "deleted"}]
    /\ issuer \in [Codes -> Humans \cup {None}]
    /\ owner \in [Accounts -> Humans \cup {None}]
    /\ bound \in [Installations -> Accounts \cup {None}]
    /\ revoked \subseteq Installations
    /\ selected \in [Humans -> Accounts \cup {None}]
    /\ stored \subseteq Updates /\ outstanding \subseteq Updates
    /\ says \in [Updates -> Messages]
    /\ tx \in [Transactions -> [at : {"idle", "code", "update", "codes"} \cup Pairing \cup Handling,
                                code : Codes \cup {None}, user : Humans \cup {None},
                                account : Accounts \cup {None}, installation : Installations \cup {None},
                                update : Updates \cup {None}, applies : BOOLEAN]]
    /\ lock \in [Rows -> Transactions \cup {None}]
    /\ by \in [Installations -> Codes \cup {None}]
    /\ runs \in [Updates -> Nat]

\* The fields that a stage needs are filled.
Shaped(t) ==
    LET x == tx[t]
    IN  /\ x.at \in {"idle", "codes"} => x.code = None /\ x.update = None
        /\ x.at \in {"code"} \cup Pairing =>
             /\ x.code \in Codes /\ code[x.code] # "none" /\ x.update = None
             /\ x.account \in Accounts /\ x.installation \in Installations
        /\ x.at \in {"update"} \cup Handling => x.update \in Updates /\ x.user = says[x.update].human
        /\ x.at \in {"link", "use"} => says[x.update].verb = x.at
        /\ x.at \in {"queue", "command"} => says[x.update].verb = "command"
        /\ x.at \in {"use", "queue"} => x.account \in Accounts
        /\ x.at \in {"update"} \cup (Handling \ {"handled"}) => x.code = None

\* What t has read under a lock that it still holds.
Knows(t) ==
    LET x == tx[t]
    IN  /\ x.at \in Pairing =>
             lock[<<"code", x.code>>] = t /\ code[x.code] \in {"valid", "lapsed"} /\ x.user = issuer[x.code]
        /\ x.at \in {"agent", "paired"} =>
             lock[<<"account", x.account>>] = t /\ owner[x.account] \in {None, x.user}
             /\ ActiveAgents(x.account) = {}
        /\ x.at = "paired" => lock[<<"agent", x.installation>>] = t /\ bound[x.installation] = None
        /\ x.at \in Handling => lock[<<"update", x.update>>] = t /\ x.update \notin stored
        /\ x.at = "handled" /\ says[x.update].verb = "use" /\ x.applies =>
             x.account \in Accounts /\ owner[x.account] = x.user
        /\ x.at = "handled" /\ x.code # None =>
             code[x.code] = "none" /\ \A s \in Transactions \ {t} : tx[s].code # x.code

\* Whoever holds a row has asked for it.
Earned(t) ==
    LET x == tx[t]
    IN  /\ \A c \in Codes : lock[<<"code", c>>] = t => x.at \in Pairing /\ x.code = c
        /\ \A h \in Humans : lock[<<"user", h>>] = t => x.at \in (Pairing \ {"user"}) \cup (Handling \ {"human"})
        /\ \A a \in Accounts : lock[<<"account", a>>] = t => x.at \in {"agent", "paired", "handled", "codes"}
        /\ \A i \in Installations : lock[<<"agent", i>>] = t => x.at = "paired"
        /\ \A u \in Updates : lock[<<"update", u>>] = t => x.at \in Handling

Recorded ==
    /\ \A c \in Codes : code[c] # "none" => issuer[c] \in Humans
    /\ \A i \in Installations : by[i] # None => code[by[i]] \in {"used", "old", "deleted"} /\ bound[i] # None

Counted(u) ==
    /\ runs[u] <= 1 /\ (u \in stored => runs[u] = 1)
    /\ u \notin stored /\ runs[u] = 1 => u \notin outstanding /\ \A t \in Transactions : tx[t].update # u

IInv ==
    /\ TypeOK
    /\ \A t \in Transactions : Shaped(t) /\ Knows(t) /\ Earned(t)
    /\ Recorded
    /\ Rightful
    /\ \A u \in Updates : Counted(u)
=============================================================================
