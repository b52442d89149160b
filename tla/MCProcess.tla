----------------------------- MODULE MCProcess -----------------------------
(***************************************************************************)
(* The two things that happen in a backend process whether or not a human  *)
(* asks for them, on small instances: the outbox workers with their rows,  *)
(* and what requests and a worker wait for.  They share no state that      *)
(* either reads, so that a behaviour is one of either.                     *)
(***************************************************************************)
EXTENDS Outbox

CONSTANTS Clients, Threads, Connections   \* of Requests

VARIABLES
    part,   \* which of the two
    kind, at, outbox

requestVars == <<kind, at, outbox>>

R == INSTANCE Requests

ProcessInit == part \in {"outbox", "requests"} /\ Init /\ R!Init

ProcessNext ==
    /\ UNCHANGED part
    /\ \/ part = "outbox" /\ Next /\ UNCHANGED requestVars
       \/ part = "requests" /\ R!Next /\ UNCHANGED vars

\* The fairness of either, for the one that the behaviour is of; nothing of
\* Requests is enabled in the other's.
ProcessSpec ==
    /\ ProcessInit /\ [][ProcessNext]_<<part, vars, requestVars>>
    /\ WF_vars(part = "outbox" /\ Tick)
    /\ \A w \in Workers : WF_vars(part = "outbox" /\ Turn(w))
    /\ R!Fairness

\* Every request is answered, by an error if need be (Answered of Requests).
Answered == R!Answered
=============================================================================
