------------------------------ MODULE Requests ------------------------------
(***************************************************************************)
(* What the requests of one backend process wait for: the event loop, its  *)
(* worker threads, and the connections of the pool (db.py).  Dependencies  *)
(* and handlers run in threads; the loop carries a request from one to the *)
(* next.  A session takes its connection at its first query and keeps it   *)
(* until the request is closed; limit opens and closes one of its own,     *)
(* which the second time an agent needs on top of the one it holds.  The   *)
(* outbox worker asks for its connection on the loop itself (deliver_once  *)
(* is a coroutine around a synchronous session), so nothing else runs      *)
(* there until it has one.                                                 *)
(*                                                                         *)
(* Row locks are in Onboarding: who waits for one holds a connection, and  *)
(* who holds one is in a handler that asks for no other connection.        *)
(***************************************************************************)
EXTENDS Naturals, FiniteSets, Sequences

CONSTANTS
    Clients,      \* what may have a request under way
    Threads,      \* worker threads of the server
    Connections   \* pool_size and max_overflow of the engine

VARIABLES
    kind,    \* the route of the request
    at,      \* how far it has come on its path; 0 when it is answered
    outbox   \* deliver_once: "asleep", "blocking" the loop, or "sending"

vars == <<kind, at, outbox>>

\* The path of a request: queued on the loop; its source address limited;
\* its session opened by the first query; the agent limited; authorized,
\* back on the loop; in its handler; closed.
Path ==
    [poll      |-> <<"queued", "limiting", "opening", "second", "authorized", "handling", "closing">>,
     dashboard |-> <<"queued", "opening", "authorized", "handling", "closing">>,
     pair      |-> <<"queued", "limiting", "opening", "handling", "closing">>,
     webhook   |-> <<"queued", "opening", "handling", "closing">>]
Kinds == DOMAIN Path

Stage(r) == IF at[r] = 0 THEN "answered" ELSE Path[kind[r]][at[r]]

Asking == {"limiting", "opening", "second"}
OnLoop == {"queued", "authorized", "closing"}

InThread == {r \in Clients : Stage(r) \in Asking \cup {"handling"}}
Holding == {r \in Clients : Stage(r) \in {"second", "authorized", "handling", "closing"}}
Free == Cardinality(Holding) + (IF outbox = "sending" THEN 1 ELSE 0) < Connections

Init ==
    /\ kind = [r \in Clients |-> "poll"]
    /\ at = [r \in Clients |-> 0]
    /\ outbox = "asleep"

Arrive(r, k) ==
    /\ at[r] = 0
    /\ kind' = [kind EXCEPT ![r] = k]
    /\ at' = [at EXCEPT ![r] = 1]
    /\ UNCHANGED outbox

Advance(r) ==
    /\ at[r] # 0
    /\ Stage(r) \in OnLoop => outbox # "blocking"
    /\ Stage(r) \in {"queued", "authorized"} => Cardinality(InThread) < Threads
    /\ Stage(r) \in Asking => Free
    /\ at' = [at EXCEPT ![r] = IF Stage(r) = "closing" THEN 0 ELSE @ + 1]
    /\ UNCHANGED <<kind, outbox>>

\* An error ends the request; the session that is open is closed on the loop.
Fail(r) ==
    /\ Stage(r) \in Asking
    /\ at' = [at EXCEPT ![r] = IF r \in Holding THEN Len(Path[kind[r]]) ELSE 0]
    /\ UNCHANGED <<kind, outbox>>

\* RATE_LIMITED or INVALID_AGENT_TOKEN.
Reject(r) == Free /\ Fail(r)

\* Mutation of TimeOut: whoever asks the pool waits for as long as it takes.
TimeOutNever(r) == FALSE

\* The pool gives up a wait after pool_timeout, 30 seconds.
TimeOut(r) == ~Free /\ Fail(r)

\* deliver_once wakes on the loop, gets its connection and sends, or gives up.
Wake == outbox = "asleep" /\ outbox' = "blocking" /\ UNCHANGED <<kind, at>>
Send == outbox = "blocking" /\ Free /\ outbox' = "sending" /\ UNCHANGED <<kind, at>>
GiveUp == outbox = "blocking" /\ ~Free /\ outbox' = "asleep" /\ UNCHANGED <<kind, at>>
Sent == outbox = "sending" /\ outbox' = "asleep" /\ UNCHANGED <<kind, at>>

Next ==
    \/ \E r \in Clients, k \in Kinds : Arrive(r, k)
    \/ \E r \in Clients : Advance(r) \/ Reject(r) \/ TimeOut(r)
    \/ Wake \/ Send \/ GiveUp \/ Sent

Spec == Init /\ [][Next]_vars

\* The loop takes its callbacks in turn, threads are granted in the order they
\* were asked for, a handler and a send end, and a wait for the pool is over
\* when a connection is free or the time is up.
Fairness ==
    /\ \A r \in Clients : SF_vars(Advance(r) \/ TimeOut(r))
    /\ WF_vars(Send \/ GiveUp) /\ WF_vars(Sent)

\* Every request is answered, by an error if need be: connections, threads and
\* the loop can all wait for each other, but no such wait outlasts the pool's.
Answered == \A r \in Clients : at[r] # 0 ~> at[r] = 0
=============================================================================
