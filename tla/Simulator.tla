----------------------------- MODULE Simulator -----------------------------
(***************************************************************************)
(* The protocol simulator's broker and its results: simulate_execute       *)
(* (domain.py) and the status that tick gives an execution                 *)
(* (fake_agent.py).  The reference planner makes the plan.                 *)
(***************************************************************************)
EXTENDS ReferencePlanner

\* What becomes of the item of a plan.
ItemCode(positions, m, action, reject, item) ==
    LET p == CHOOSE p \in positions : p.ticket = item.ticket
        stop == validate_stop(p, m, item.stop)
    IN  IF item.code # "ELIGIBLE" THEN item.code
        ELSE IF item.ticket \notin {q.ticket : q \in positions} THEN "POSITION_DISAPPEARED"
        ELSE IF item.ticket \in reject THEN "BROKER_REJECTED"
        ELSE IF action = "be" /\ stop # "ELIGIBLE" THEN stop
        ELSE IF action = "close" /\ p.volume < item.volume THEN "POSITION_CHANGED"
        ELSE "CONFIRMED"

\* The position of a confirmed item afterwards.
Changed(p, action, item) ==
    IF action = "be" THEN {[p EXCEPT !.sl = item.stop]}
    ELSE {q \in {[p EXCEPT !.volume = @ - item.volume]} : q.volume > 0}

\* One item more.
execute(acc, m, action, reject, item) ==
    LET code == ItemCode(acc.positions, m, action, reject, item)
        of == {p \in acc.positions : p.ticket = item.ticket}
    IN  IF code # "CONFIRMED" THEN acc
        ELSE [positions |-> (acc.positions \ of) \cup UNION {Changed(p, action, item) : p \in of},
              confirmed |-> acc.confirmed + item.volume]

simulate_execute(positions, m, items, action, reject) ==
    FoldLeft(LAMBDA acc, item : execute(acc, m, action, reject, item),
             [positions |-> positions, confirmed |-> 0], items)

\* Mutation of Outcome: the plan is what was asked for.
OutcomeOfPlan(total, target, achieved, confirmed) ==
    IF total > 0 /\ confirmed > 0 /\ achieved >= confirmed THEN "SUCCEEDED"
    ELSE IF confirmed > 0 THEN "PARTIAL" ELSE "FAILED"

\* The status of an execution that is enabled and not told to be uncertain;
\* what a break-even has achieved is all that is protected by now.
Outcome(total, target, achieved, confirmed) ==
    IF total > 0 /\ achieved >= target THEN "SUCCEEDED"
    ELSE IF confirmed > 0 THEN "PARTIAL" ELSE "FAILED"
=============================================================================
