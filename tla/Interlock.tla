------------------------------ MODULE Interlock ------------------------------
(***************************************************************************)
(* What the backend promises of the executions of one trading account.     *)
(* Sending an execution to a terminal opens it, and no other execution is  *)
(* sent until it is settled.  The interlock closes when its outcome comes  *)
(* into doubt and opens again only when it is settled: there is no block   *)
(* without an open execution, and none survives it.                        *)
(***************************************************************************)
CONSTANT Executions

VARIABLES
    sent,     \* the executions that a terminal has ever been given
    open,     \* those whose outcome the backend does not know
    blocked   \* the interlock

vars == <<sent, open, blocked>>

Init == sent = {} /\ open = {} /\ blocked = FALSE

\* An execution leaves the backend for the first time.
Send(c) ==
    /\ c \notin sent /\ open = {} /\ ~blocked
    /\ sent' = sent \cup {c}
    /\ open' = {c}
    /\ UNCHANGED blocked

\* The deadline, a revocation, another session or the agent's own word.
Doubt ==
    /\ open # {}
    /\ blocked' = TRUE
    /\ UNCHANGED <<sent, open>>

\* The result of the open execution, or an operator's evidence.
Settle ==
    /\ open # {}
    /\ open' = {}
    /\ blocked' = FALSE
    /\ UNCHANGED sent

Next == (\E c \in Executions : Send(c)) \/ Doubt \/ Settle

Spec == Init /\ [][Next]_vars
=============================================================================
