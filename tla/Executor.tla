------------------------------ MODULE Executor ------------------------------
(***************************************************************************)
(* The evaluation of one command by the expert advisor: MakePlan, then     *)
(* ExecuteItem for one position after another, then BuildResult            *)
(* (Planner.mqh, Executor.mqh), against a broker and a trader who go on.   *)
(*                                                                         *)
(* The code is single-threaded, but every read of the terminal sees a      *)
(* later account.  There is one action for every such read that matters:   *)
(* the position, the quote, the position again, the request, the evidence. *)
(*                                                                         *)
(* Outside the code, modelled from how the code uses it: the broker.  It   *)
(* fills a request by one deal, rejects it for good, or leaves the EA      *)
(* without an answer while the request may still be filled.  A close is    *)
(* never filled beyond the position it is bound to.                        *)
(***************************************************************************)
EXTENDS Planner

CONSTANTS
    Cases,       \* what to begin with: account (a function from tickets to layers),
                 \* command (close, side, part, preview) and filling mode
    Quotes,      \* the quotes the market may show: bid and ask
    Levels,      \* the stops and targets the trader may set
    MaxMeddling, \* bound: how often the trader changes a position meanwhile
    None

\* A command is one that ReadCommand accepts; the unit of volumes is small enough
\* for every fraction of a position that is planned for.
ASSUME CasesAssumption ==
    \A c \in Cases :
        /\ IsFiniteSet(DOMAIN c.account)
        /\ c.account \in [DOMAIN c.account -> Positions]
        /\ \A t \in DOMAIN c.account : c.account[t].ticket = t /\ c.account[t].volume % Parts = 0
        /\ c.command \in [close : BOOLEAN, side : Sides \cup {"AUTO", "BOTH"}, part : 1..Parts, preview : BOOLEAN]
        /\ c.command.side # IF c.command.close THEN "AUTO" ELSE "BOTH"
ASSUME MarketAssumption == Quotes \subseteq [bid : Nat, ask : Nat] /\ Levels \subseteq Nat
ASSUME NoneAssumption ==
    None \notin Positions \cup [ticket : Nat, volume : Nat, sl : Nat, tp : Nat]

VARIABLES
    account,  \* the open positions at the broker; volume 0 once closed
    quote,    \* the market
    command,  \* the command
    filling,  \* the symbol's filling mode
    allowed,  \* before the deadline, on the bound account, permitted to trade
    pc,       \* where the evaluation is
    plan,     \* the plan
    results,  \* code and confirmed volume of the items dealt with so far
    seen,     \* the layer that ExecuteItem read first (live)
    request,  \* the request it made of it
    flight,   \* the request that the broker may still fill
    deal,     \* the answer: what the deal closed, or 0
    status,   \* the status of the result
    closed,   \* history: per ticket, the volume closed by requests of the EA
    moved,    \* history: the tickets whose stop a request of the EA has set
    touched,  \* history: the tickets the trader changed since the last read
    meddled   \* history: how often the trader changed a position

market == <<account, quote, allowed, touched, meddled>>
fixed == <<command, filling>>
vars == <<market, fixed, pc, plan, results, seen, request, flight, deal, status, closed, moved>>

Tickets == DOMAIN account
Layers == {account[t] : t \in {u \in Tickets : account[u].volume > 0}}
Confirmed == SumFunction([i \in DOMAIN results |-> results[i].volume])
Uncertain == \E i \in DOMAIN results : results[i].code = "EXECUTION_UNCERTAIN"

Init ==
    /\ \E c \in Cases : account = c.account /\ command = c.command /\ filling = c.filling
    /\ quote \in Quotes
    /\ allowed = TRUE
    /\ pc = "planning"
    /\ plan = NoPlan("OK", command.side)
    /\ results = <<>>
    /\ seen = None /\ request = None /\ flight = None
    /\ deal = 0
    /\ status = None
    /\ closed = [t \in Tickets |-> 0]
    /\ moved = {} /\ touched = {}
    /\ meddled = 0

\* MakePlan; without a recent quote there is no plan.
MakePlan ==
    /\ pc = "planning"
    /\ plan' \in {PlanLayers(command, quote, Layers), NoPlan("SYMBOL_NOT_FOUND_OR_STALE", command.side)}
    /\ pc' = "item"
    /\ UNCHANGED <<market, fixed, results, seen, request, flight, deal, status, closed, moved>>

-----------------------------------------------------------------------------
(* The loop of BuildResult. *)

Current == plan.items[Len(results) + 1]

\* Mutation of Done: the request stays behind.
DoneKeeps(code, v) ==
    /\ results' = Append(results, [code |-> code, volume |-> v])
    /\ pc' = "item"
    /\ seen' = None /\ deal' = 0 /\ UNCHANGED request

\* An item is dealt with: its code, and the volume it confirms.
Done(code, v) ==
    /\ results' = Append(results, [code |-> code, volume |-> v])
    /\ pc' = "item"
    /\ seen' = None /\ request' = None /\ deal' = 0

\* Mutation of Executable: the items after an uncertain one are executed, too.
ExecutableStill == ~command.preview /\ Current.code = "ELIGIBLE"

Executable == ~command.preview /\ Current.code = "ELIGIBLE" /\ ~Uncertain

Pass ==
    /\ pc = "item"
    /\ Len(results) < Len(plan.items)
    /\ ~Executable
    /\ Done(IF Current.code = "ELIGIBLE" /\ Uncertain THEN "SKIPPED_AFTER_UNCERTAIN" ELSE Current.code, 0)
    /\ UNCHANGED <<market, fixed, plan, flight, status, closed, moved>>

-----------------------------------------------------------------------------
(* ExecuteItem.  "REFUSED" stands for the codes of its checks, after which *)
(* nothing was sent.                                                       *)

Refuse ==
    /\ Done("REFUSED", 0)
    /\ UNCHANGED <<market, fixed, plan, flight, status, closed, moved>>

\* Whether the position is still the one that was planned for.
AsPlanned(p) == p.volume = Current.layer.volume

\* The deadline, the account, the permissions, and the position.
ReadLive ==
    /\ pc = "item"
    /\ Len(results) < Len(plan.items)
    /\ Executable
    /\ LET p == account[Current.layer.ticket]
       IN IF allowed /\ AsPlanned(p)
          THEN /\ seen' = p
               /\ pc' = "read"
               /\ UNCHANGED <<market, fixed, plan, results, request, flight, deal, status, closed, moved>>
          ELSE Refuse

\* The request for what was read: the whole stop, or a volume that leaves
\* nothing or at least the minimum.
Acceptable ==
    IF command.close
    THEN /\ Current.volume \in Minimum..Min({seen.volume, Maximum})
         /\ Current.volume % Step = 0
         /\ seen.volume - Current.volume \notin 1..(Minimum - 1)
         /\ filling # "NONE"
    ELSE /\ StopCode(seen, quote, StopFor(seen)) = "ELIGIBLE"
         /\ seen.sl > 0 => IF seen.side = "BUY" THEN StopFor(seen) >= seen.sl
                                                ELSE StopFor(seen) <= seen.sl

\* The quote, the limits, and OrderCheck, which may refuse anything.
Prepare ==
    /\ pc = "read"
    /\ \/ /\ Acceptable
          /\ request' = [ticket |-> seen.ticket, volume |-> IF command.close THEN Current.volume ELSE 0,
                         sl |-> IF command.close THEN seen.sl ELSE StopFor(seen), tp |-> seen.tp]
          /\ pc' = "prepared"
          /\ UNCHANGED <<market, fixed, plan, results, seen, flight, deal, status, closed, moved>>
       \/ Refuse

\* Mutation of Unchanged: the stop and the target are not compared again.
UnchangedVolume(p) == p.volume = seen.volume

\* The second read must find the position as the first one did.
Unchanged(p) == p = seen

Reread ==
    /\ pc = "prepared"
    /\ LET p == account[seen.ticket]
       IN IF Unchanged(p)
          THEN /\ pc' = "reread"
               /\ touched' = touched \ {seen.ticket}
               /\ UNCHANGED <<account, quote, allowed, meddled, fixed, plan, results, seen, request,
                              flight, deal, status, closed, moved>>
          ELSE Refuse

\* The deadline, the account, the permissions and the quote again; then the
\* request goes out.  The quote may be too old here, too.
OrderSend ==
    /\ pc = "reread"
    /\ \/ /\ allowed
          /\ command.close \/ StopCode(seen, quote, request.sl) = "ELIGIBLE"
          /\ flight' = request
          /\ pc' = "sent"
          /\ UNCHANGED <<market, fixed, plan, results, seen, request, deal, status, closed, moved>>
       \/ Refuse

-----------------------------------------------------------------------------
(* The broker. *)

\* What a request may close: all of it or nothing, unless it may be partial.
Fills == IF ~command.close THEN {0}
         ELSE IF filling = "FOK" THEN {flight.volume}
         ELSE {v \in 1..flight.volume : v % Step = 0}

\* The broker fills the request on the position as it is by now.
Fill(v) ==
    /\ flight # None
    /\ v \in Fills
    /\ LET p == account[flight.ticket]
       IN /\ p.volume > 0 /\ p.volume >= flight.volume
          /\ account' = [account EXCEPT ![flight.ticket] =
                IF command.close THEN [p EXCEPT !.volume = @ - v]
                                 ELSE [p EXCEPT !.sl = flight.sl, !.tp = flight.tp]]
    /\ closed' = [closed EXCEPT ![flight.ticket] = @ + v]
    /\ moved' = IF command.close THEN moved ELSE moved \cup {flight.ticket}
    /\ flight' = None
    /\ UNCHANGED <<quote, allowed, touched, meddled, fixed, plan, results, seen, request, status>>

\* ... and says so (DONE or DONE_PARTIAL), ...
Filled(v) == pc = "sent" /\ pc' = "answered" /\ Fill(v) /\ deal' = v

\* ... or does so when the EA no longer waits.
FilledLate(v) == pc # "sent" /\ Fill(v) /\ UNCHANGED <<pc, deal>>

Lapse ==
    /\ pc # "sent" /\ flight # None
    /\ flight' = None
    /\ UNCHANGED <<market, fixed, pc, plan, results, seen, request, deal, status, closed, moved>>

\* There is nothing to change (NO_CHANGES).
NothingToDo ==
    /\ pc = "sent" /\ ~command.close
    /\ account[flight.ticket].sl = flight.sl /\ account[flight.ticket].tp = flight.tp
    /\ account[flight.ticket].volume > 0
    /\ pc' = "answered"
    /\ flight' = None
    /\ UNCHANGED <<market, fixed, plan, results, seen, request, deal, status, closed, moved>>

\* A definitive rejection.
Rejected ==
    /\ pc = "sent"
    /\ flight' = None
    /\ Done("BROKER_REJECTED", 0)
    /\ UNCHANGED <<market, fixed, plan, status, closed, moved>>

\* No answer, or one that is neither an acceptance nor a definitive rejection.
Unanswered ==
    /\ pc = "sent"
    /\ Done("EXECUTION_UNCERTAIN", 0)
    /\ UNCHANGED <<market, fixed, plan, flight, status, closed, moved>>

-----------------------------------------------------------------------------
(* The evidence after an acceptance. *)

Worse(p, a, b) == p.sl > 0 /\ IF p.side = "BUY" THEN a < b ELSE a > b

StopSeen(after) ==
    /\ after.volume > 0
    /\ Protected(after, request.sl)
    /\ after.tp = seen.tp
    /\ ~Worse(seen, after.sl, seen.sl)

CloseSeen(after) ==
    /\ after.volume <= seen.volume - deal
    /\ after.volume > 0 => after.sl = seen.sl /\ after.tp = seen.tp

\* Mutation of Attributed: whatever is gone of the position counts.
AttributedByPosition(after) == seen.volume - after.volume

\* The volume of the returned deal, never the change of the position.
Attributed(after) == deal

\* The terminal may still show the position as it was, and the deal's record
\* may be missing.
Evidence ==
    /\ pc = "answered"
    /\ \E after \in {account[seen.ticket], seen}, recorded \in BOOLEAN :
         IF command.close
         THEN IF recorded /\ deal > 0 /\ CloseSeen(after)
              THEN Done(IF Attributed(after) < Current.volume THEN "CONFIRMED_PARTIAL" ELSE "CONFIRMED",
                        Attributed(after))
              ELSE Done("EXECUTION_UNCERTAIN", 0)
         ELSE IF StopSeen(after) THEN Done("CONFIRMED", after.volume)
              ELSE Done("EXECUTION_UNCERTAIN", 0)
    /\ UNCHANGED <<market, fixed, plan, flight, status, closed, moved>>

-----------------------------------------------------------------------------
(* The result. *)

\* Mutation of Status: only what was planned counts, not what was asked for.
StatusOfPlan(protected) ==
    IF Uncertain THEN "UNCERTAIN"
    ELSE IF command.preview THEN IF plan.code = "OK" THEN "SUCCEEDED" ELSE "FAILED"
    ELSE IF Confirmed >= plan.planned THEN "SUCCEEDED"
    ELSE IF Confirmed > 0 THEN "PARTIAL" ELSE "FAILED"

\* protected is the protected volume after an execution of a break-even.
Status(protected) ==
    LET short == IF Confirmed > 0 THEN "PARTIAL" ELSE "FAILED"
    IN CASE Uncertain -> "UNCERTAIN"
         [] ~Uncertain /\ ~command.preview /\ ~command.close /\ plan.total > 0 ->
              IF protected >= plan.target THEN "SUCCEEDED" ELSE short
         [] ~Uncertain /\ ~command.preview /\ command.close
                /\ Confirmed > 0 /\ Confirmed < plan.target -> "PARTIAL"
         [] OTHER ->
              IF ~command.preview /\ plan.planned > 0 /\ Confirmed < plan.planned THEN short
              ELSE IF plan.code = "OK" THEN "SUCCEEDED" ELSE "FAILED"

\* BuildResult plans a break-even again to see what is protected by now.
Report ==
    /\ pc = "item"
    /\ Len(results) = Len(plan.items)
    /\ \E p \in {PlanLayers(command, quote, Layers), NoPlan("SYMBOL_NOT_FOUND_OR_STALE", command.side)} :
         status' = Status(IF p.code = "OK" THEN p.already ELSE 0)
    /\ pc' = "done"
    /\ UNCHANGED <<market, fixed, plan, results, seen, request, flight, deal, closed, moved>>

-----------------------------------------------------------------------------
(* The others.  Before the plan any account is a possible beginning; after *)
(* it a preview reads nothing more.                                        *)

Busy == ~command.preview /\ pc # "planning" /\ (pc # "done" \/ flight # None)

\* The trader closes part of a position, or moves its stop or its target.
Meddle(t) ==
    /\ Busy
    /\ meddled < MaxMeddling
    /\ account[t].volume > 0
    /\ \/ \E v \in {u \in 0..(account[t].volume - 1) : u % Step = 0} :
            account' = [account EXCEPT ![t].volume = v]
       \/ \E level \in Levels \ {account[t].sl} : account' = [account EXCEPT ![t].sl = level]
       \/ \E level \in Levels \ {account[t].tp} : account' = [account EXCEPT ![t].tp = level]
    /\ meddled' = meddled + 1
    /\ touched' = touched \cup {t}
    /\ UNCHANGED <<quote, allowed, fixed, pc, plan, results, seen, request, flight, deal, status, closed, moved>>

\* The market moves, or the deadline passes, the account changes, trading stops.
Move ==
    /\ Busy
    /\ \/ quote' \in Quotes /\ allowed' = allowed
       \/ quote' = quote /\ allowed' = FALSE
    /\ UNCHANGED <<account, touched, meddled, fixed, pc, plan, results, seen, request, flight, deal, status, closed, moved>>

Next ==
    \/ MakePlan \/ Pass \/ ReadLive \/ Prepare \/ Reread \/ OrderSend
    \/ \E v \in 0..Maximum : Filled(v) \/ FilledLate(v)
    \/ Lapse \/ NothingToDo \/ Rejected \/ Unanswered
    \/ Evidence \/ Report
    \/ \E t \in Tickets : Meddle(t)
    \/ Move

Spec == Init /\ [][Next]_vars
-----------------------------------------------------------------------------
(***************************************************************************)
(* Properties.                                                             *)
(***************************************************************************)
Codes == {"ELIGIBLE", "VOLUME_CONSTRAINT", "ALREADY_PROTECTED", "STOP_LEVEL_INVALID",
          "SKIPPED_NOT_ENOUGH_DISTANCE", "FREEZE_LEVEL", "SKIPPED_AFTER_UNCERTAIN", "REFUSED",
          "BROKER_REJECTED", "EXECUTION_UNCERTAIN", "CONFIRMED", "CONFIRMED_PARTIAL"}

TypeOK ==
    /\ \A t \in Tickets : account[t].volume \in Nat /\ account[t].sl \in Nat /\ account[t].tp \in Nat
    /\ quote \in Quotes
    /\ pc \in {"planning", "item", "read", "prepared", "reread", "sent", "answered", "done"}
    /\ Len(results) <= Len(plan.items)
    /\ \A i \in DOMAIN results : results[i].code \in Codes /\ results[i].volume \in Nat
    /\ seen # None <=> pc \in {"read", "prepared", "reread", "sent", "answered"}
    /\ request # None <=> pc \in {"prepared", "reread", "sent", "answered"}
    /\ status \in {None, "SUCCEEDED", "PARTIAL", "FAILED", "UNCERTAIN"}
    /\ closed \in [Tickets -> Nat]
    /\ moved \cup touched \subseteq Tickets

\* The volume a result confirms for a position is the volume that the EA's own
\* deals closed of it, whatever the trader closed meanwhile; of an uncertain
\* item it confirms nothing (Executor.mqh, the attribution to the exit deal).
ConfirmedIsOurs ==
    command.close =>
        \A i \in DOMAIN results :
            LET ours == closed[plan.items[i].layer.ticket]
            IN results[i].volume = IF results[i].code = "EXECUTION_UNCERTAIN" THEN 0 ELSE ours

\* What the status of an execution says stays true of the account, late fills
\* included: SUCCEEDED means that all that was asked for is closed by the EA,
\* FAILED that nothing of it changed anything, and only UNCERTAIN leaves a
\* request that may still be filled (BuildResult).
StatusIsHonest ==
    pc = "done" /\ ~command.preview =>
        /\ status = "SUCCEEDED" /\ command.close => SumFunction(closed) >= plan.target
        /\ status = "PARTIAL" /\ command.close => SumFunction(closed) \in 1..(plan.target - 1)
        /\ status = "FAILED" => SumFunction(closed) = 0 /\ moved = {}
        /\ status # "UNCERTAIN" => flight = None

\* The EA never sends a request while an earlier one may still be filled (the
\* stop after an uncertain response).
OneRequestOpen == [][flight' # None /\ flight' # flight => flight = None]_vars

\* What the EA changes of a position never loosens its stop, never touches its
\* target, and leaves no remainder below the minimum, partial fills aside,
\* unless the trader changed that position after the last read of it: MT5 has
\* no compare-and-swap.
NeverLoosens ==
    [][meddled' = meddled =>
        \A t \in Tickets \ touched :
            /\ account'[t].tp = account[t].tp
            /\ ~Worse(account[t], account'[t].sl, account[t].sl)
            /\ account'[t].volume # account[t].volume /\ filling = "FOK" =>
                   account'[t].volume \notin 1..(Minimum - 1)]_vars

\* All in all a close never takes more than was asked for, what may still be
\* filled included, and a preview or a break-even never closes anything.
WithinTarget ==
    SumFunction(closed) + (IF flight = None THEN 0 ELSE flight.volume) <=
        IF command.close /\ ~command.preview THEN plan.target ELSE 0

(* Properties of the plan, seen before anything is executed. *)
Rows == {p \in Layers : command.side \in {"AUTO", "BOTH", p.side}}
Fresh == pc = "item" /\ results = <<>> /\ meddled = 0 /\ plan.code \in {"OK", "NO_ELIGIBLE_POSITIONS"}
         /\ command.preview
Given(p) == SumFunction([i \in {j \in Eligible(plan.items) : plan.items[j].layer = p} |-> plan.items[i].volume])

\* A close gives every position, the worst price first, the most that a deal
\* may close of it within what is left of the target.
WorstFirst ==
    Fresh /\ command.close =>
        \A p \in Rows :
            LET left == plan.target - SumFunction([o \in {r \in Rows : Before(r, p, quote, TRUE)} |-> Given(o)])
                deals == {v \in Minimum..Maximum : /\ v % Step = 0 /\ v <= p.volume
                                                   /\ p.volume - v \notin 1..(Minimum - 1)}
            IN Given(p) = Max({0} \cup {v \in deals : v <= left})

\* A break-even stops at the position that reaches the target: without the
\* farthest of the chosen ones it would be missed, and it is only missed when
\* every position that can be protected is chosen, nearer ones before others.
JustEnough ==
    Fresh /\ ~command.close =>
        LET able == {p \in Rows : StopCode(p, quote, StopFor(p)) = "ELIGIBLE"}
            chosen == {p \in able : Given(p) > 0}
            reached(s) == plan.already + Volume(s) >= plan.target
            last == {p \in chosen : \A o \in chosen \ {p} : Before(o, p, quote, FALSE)}
        IN /\ reached(chosen) \/ chosen = able
           /\ chosen # {} => ~reached(chosen \ last)
           /\ \A p \in chosen, o \in able \ chosen : Before(p, o, quote, FALSE)

\* The backend's planner, and the broker that its simulator puts behind it.
Reference == INSTANCE Simulator

Action == IF command.close THEN "close" ELSE "be"
ReferencePlan == Reference!plan(Layers, quote, command.side, command.part, Action)

\* What the reference planner says where the EA has the item i.
Entry(i) == [ticket |-> i.layer.ticket, code |-> i.code, stop |-> i.stop,
             volume |-> IF i.code = "VOLUME_CONSTRAINT" THEN 0 ELSE i.volume]

\* Its list may go on with positions that the limits on volumes exclude.
Matches(items, theirs) ==
    /\ Len(items) <= Len(theirs)
    /\ \A i \in 1..Len(theirs) :
         IF i <= Len(items) THEN theirs[i] = Entry(items[i]) ELSE theirs[i].code = "VOLUME_CONSTRAINT"

\* The EA and the reference planner of the backend come to the same plan, up to
\* the positions that a close leaves alone because of the limits on volumes:
\* the EA says what is left of the target for them, and stops listing them
\* when that is less than a step.
PlansAgree ==
    command.preview /\ pc = "item" /\ results = <<>> /\ plan.code # "SYMBOL_NOT_FOUND_OR_STALE" =>
        /\ [plan EXCEPT !.items = <<>>] = [ReferencePlan EXCEPT !.items = <<>>]
        /\ Matches(plan.items, ReferencePlan.items)

\* The simulator, which every test of the whole path runs in place of the EA,
\* does what a plan says: of each position the volume that was given to it is
\* closed, or its stop set, and nothing when the broker rejects all; and it
\* would give an execution of the EA, however it went, the EA's own status,
\* where a break-even that finds no quote at the end counts nothing protected.
SimulatorAgrees ==
    LET after(reject) == Reference!simulate_execute(Layers, quote, ReferencePlan.items, Action, reject)
        closing(p) == {q \in {[p EXCEPT !.volume = @ - Given(p)]} : q.volume > 0}
        protecting(p) == {[p EXCEPT !.sl = IF Given(p) > 0 THEN StopFor(p) ELSE @]}
        achieved == IF command.close THEN {Confirmed}
                    ELSE {0, Volume({p \in Rows : Protected(p, StopFor(p))})}
    IN  /\ Fresh =>
             /\ after({}).positions =
                  UNION {IF command.close THEN closing(p) ELSE protecting(p) : p \in Layers}
             /\ after({}).confirmed = plan.planned
             /\ after(Tickets) = [positions |-> Layers, confirmed |-> 0]
        /\ pc = "done" /\ ~command.preview /\ status # "UNCERTAIN" =>
             \E a \in achieved : status = Reference!Outcome(plan.total, plan.target, a, Confirmed)

\* The server takes the volumes of a result's rows, which are the planned ones
\* in a preview, only when they are not negative (schemas.py, PositionResult).
VolumesAccepted ==
    pc = "done" =>
        \A i \in DOMAIN results :
            (IF command.preview THEN plan.items[i].volume ELSE results[i].volume) >= 0
=============================================================================
