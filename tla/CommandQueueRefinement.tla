------------------------ MODULE CommandQueueRefinement ------------------------
(***************************************************************************)
(* The command queue implements Interlock.                                 *)
(***************************************************************************)
EXTENDS CommandQueue

SentExecutions == {c \in Ids : Executing(c) /\ delivered[c] # None}
OpenExecutions == {c \in Ids : Executing(c) /\ status[c] \in {"LEASED", "UNCERTAIN"}}

I == INSTANCE Interlock WITH
        Executions <- Ids,
        sent <- SentExecutions,
        open <- OpenExecutions,
        blocked <- (account = "BLOCKED_UNCERTAIN")

\* Whatever the handlers do in whatever order, the account behaves as the
\* interlock: one open execution at a time, each sent as new at most once, and
\* a block exactly from the moment of doubt to the moment it is settled.
ImplementsInterlock == I!Spec
=============================================================================
