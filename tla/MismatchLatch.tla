---------------------------- MODULE MismatchLatch ----------------------------
(***************************************************************************)
(* The account-mismatch latch over the life of a pairing: CommandQueue with *)
(* a record of the agents that have polled under another login, server or  *)
(* installation.  An agent never leaves that record, because only a new    *)
(* pairing - which makes a new agent - is said to lift the latch.          *)
(***************************************************************************)
EXTENDS CommandQueue

VARIABLE switched   \* history: the agents that have polled with a mismatch

LatchInit == Init /\ switched = {}

LatchNext ==
    \/ Matching /\ UNCHANGED switched
    \/ \E a \in Agents : Mismatch(a) /\ switched' = switched \cup {a}

LatchSpec == LatchInit /\ [][LatchNext]_<<vars, switched>>

\* docs/agent-protocol.md: a mismatch latches the account, which then delivers
\* no command, even after the terminal has been switched back.
MismatchStaysLatched ==
    [][\A c \in Ids : handed'[c] # handed[c] => owner[c] \notin switched]_<<vars, switched>>

\* docs/operations-runbook.md: switching back does not clear the latch, revoking
\* and re-pairing does; an agent that never mismatched is not refused.
RepairLiftsLatch ==
    account = "ACCOUNT_MISMATCH" => \A a \in Agents : agent[a] = "PAIRED" => a \in switched
=============================================================================
