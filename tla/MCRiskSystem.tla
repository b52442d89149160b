---------------------------- MODULE MCRiskSystem ----------------------------
(***************************************************************************)
(* RiskSystem on a small instance: a preview and its execution, an EA that *)
(* is started twice, and one poll that outlives its caller.                *)
(***************************************************************************)
EXTENDS RiskSystem

Executions == {c \in Q!Ids : Q!Executing(c)}

\* The view leaves out what neither an enabled step nor a checked property can
\* read: the heartbeat, as far as it is too old to count or the agent revoked;
\* what was left of the deadline of a command that is over; the session that a
\* command was leased to, once it is not the lease of an execution any more;
\* the memory of an EA that is blocked, and the disk of one that is never
\* started again; and the history of previews.
Heartbeat ==
    LET revoked == agent[Agent] = "REVOKED"
    IN  <<IF revoked THEN None ELSE seen[Agent],
          IF revoked \/ seen[Agent] >= BusyWindow THEN None ELSE session[Agent],
          IF revoked \/ seen[Agent] > OnlineWindow THEN None ELSE report[Agent]>>

Leases ==
    [c \in Q!Ids |->
        IF delivered[c] = None \/ (Q!Executing(c) /\ status[c] = "LEASED") THEN delivered[c]
                                                                           ELSE {}]

Over == boot = MaxBoots /\ phase \in {"down", "fatal"}
Installation ==
    <<boot, IF Over THEN "down" ELSE phase,
      IF Over \/ phase = "fatal" THEN None ELSE <<known, pending, task, age>>,
      IF Over THEN journal.id ELSE journal, recent>>

View ==
    <<account, status, result, agent, created, kind, source, Heartbeat, Leases,
      [c \in Q!Ids |-> IF status[c] \in Q!Terminal THEN 0 ELSE ttl[c]],
      Installation, late, asked, unstored, [c \in Executions |-> <<evaluated[c], outcome[c]>>],
      lapsed \cap Executions, unleased \cap Executions>>

\* Bounds on the data: the queue treats an execution that ends with PARTIAL or
\* FAILED as one that SUCCEEDED.
FewResults ==
    /\ \A c \in Q!Ids : "PARTIAL" \notin outcome[c]
    /\ \A c \in Executions : "FAILED" \notin outcome[c]

\* Bounds on the failures: one transaction is lost after its response, and a
\* record or a lease is lost where an execution is concerned (EaAgent by itself
\* is checked with every failure of the disk).
Bounds ==
    /\ FewResults
    /\ Cardinality(unleased \cup unstored) <= 1
    /\ lapsed \cup unleased # {} => (lapsed \cup unleased) \cap Executions # {}

\* The bounds of the liveness run, in which nothing is lost from the disk.
Undamaged == FewResults /\ Cardinality(unleased \cup unstored) <= 1 /\ lapsed = {}
=============================================================================
