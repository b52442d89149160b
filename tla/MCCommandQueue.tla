--------------------------- MODULE MCCommandQueue ---------------------------
(***************************************************************************)
(* CommandQueue on a small instance: two installations of the agent, two   *)
(* EA starts, and enough commands for an execution, its preview and the    *)
(* next operation to meet.                                                 *)
(***************************************************************************)
EXTENDS CommandQueueRefinement, TLC

\* Agents and sessions are only ever compared for equality.
Symmetry == Permutations(Agents) \cup Permutations(Sessions)

\* Nothing reads the session, age and report of a revoked agent, what was left
\* of the deadline of a command that is over, nor which session a preview went to.
LiveAgent(f, a) == IF agent[a] = "REVOKED" THEN None ELSE f[a]
View ==
    <<account, status, result, handed, agent, created, kind, owner, source,
      [a \in Agents |-> <<LiveAgent(session, a), LiveAgent(seen, a), LiveAgent(report, a)>>],
      [c \in Ids |-> IF Executing(c) \/ delivered[c] = None THEN delivered[c] ELSE {}],
      [c \in Ids |-> IF status[c] \in Terminal THEN 0 ELSE ttl[c]]>>
=============================================================================
