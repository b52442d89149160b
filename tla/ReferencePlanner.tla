-------------------------- MODULE ReferencePlanner --------------------------
(***************************************************************************)
(* The reference planner of the backend (domain.py), which the simulator   *)
(* runs in place of the EA, on the same integers as Planner.               *)
(***************************************************************************)
EXTENDS Integers, FiniteSets, Sequences, SequencesExt

CONSTANTS Step, Minimum, Maximum, Tick, Stops, Freeze, Buffer, Parts

Lots(layers) == SumFunction([p \in layers |-> p.volume])
Gap(a, b) == IF a < b THEN b - a ELSE a - b
Whole(v, unit) == (v \div unit) * unit

threshold(p) ==
    LET raw == p.entry + (IF p.side = "BUY" THEN 1 ELSE -1) * Buffer
    IN IF p.side = "BUY" THEN Whole(raw + Tick - 1, Tick) ELSE Whole(raw, Tick)

protected(p, stop) == p.sl > 0 /\ (IF p.side = "BUY" THEN p.sl >= stop ELSE p.sl <= stop)

validate_stop(p, m, stop) ==
    LET price == IF p.side = "BUY" THEN m.bid ELSE m.ask
        distance == IF p.side = "BUY" THEN price - stop ELSE stop - price
    IN IF protected(p, stop) THEN "ALREADY_PROTECTED"
       ELSE IF stop <= 0 THEN "STOP_LEVEL_INVALID"
       ELSE IF distance <= 0 \/ distance < Stops THEN "SKIPPED_NOT_ENOUGH_DISTANCE"
       ELSE IF \/ distance <= Freeze
               \/ p.sl # 0 /\ Gap(price, p.sl) <= Freeze
               \/ p.tp # 0 /\ Gap(price, p.tp) <= Freeze
            THEN "FREEZE_LEVEL" ELSE "ELIGIBLE"

\* The loops of plan: what remains of the target, and the items so far.
CloseStep(acc, p) ==
    LET floored == Whole(Min({p.volume, acc.remaining, Maximum}), Step)
        amount == IF 0 < p.volume - floored /\ p.volume - floored < Minimum
                  THEN Whole(p.volume - Minimum, Step) ELSE floored
    IN IF acc.remaining <= 0 THEN acc
       ELSE IF amount < Minimum
       THEN [acc EXCEPT !.items = Append(@, [ticket |-> p.ticket, code |-> "VOLUME_CONSTRAINT", volume |-> 0, stop |-> 0])]
       ELSE [remaining |-> acc.remaining - amount,
             items |-> Append(acc.items, [ticket |-> p.ticket, code |-> "ELIGIBLE", volume |-> amount, stop |-> 0])]

BeStep(m, acc, p) ==
    LET code == validate_stop(p, m, threshold(p))
        item == [ticket |-> p.ticket, code |-> code, volume |-> p.volume, stop |-> threshold(p)]
    IN IF code # "ALREADY_PROTECTED" /\ acc.remaining <= 0 THEN acc
       ELSE [remaining |-> acc.remaining - (IF code = "ELIGIBLE" THEN p.volume ELSE 0),
             items |-> Append(acc.items, item)]

closing(rows, target) == FoldLeft(CloseStep, [remaining |-> target, items |-> <<>>], rows)
protecting(rows, m, missing) ==
    FoldLeft(LAMBDA acc, p : BeStep(m, acc, p), [remaining |-> missing, items |-> <<>>], rows)

key(p, m, action) ==
    IF action = "close" THEN IF p.side = "BUY" THEN m.bid - p.entry ELSE p.entry - m.ask
    ELSE Gap(IF p.side = "BUY" THEN m.bid ELSE m.ask, p.entry)

\* The rows by their keys.
precedes(a, b, m, action) ==
    \/ key(a, m, action) < key(b, m, action)
    \/ key(a, m, action) = key(b, m, action) /\ a.ticket < b.ticket
sorted(rows, m, action) ==
    [i \in 1..Cardinality(rows) |->
        CHOOSE p \in rows : Cardinality({o \in rows : precedes(o, p, m, action)}) = i - 1]

result(code, side, rows, target, already, planned, items) ==
    [code |-> code, side |-> side, total |-> Lots(rows), target |-> target, already |-> already,
     planned |-> planned, buy |-> Lots({p \in rows : p.side = "BUY"}), items |-> items]

plan(positions, m, side, part, action) ==
    LET sides == {p.side : p \in positions}
        chosen == IF side = "AUTO" /\ sides # {} THEN CHOOSE s \in sides : TRUE ELSE side
        rows == IF chosen = "BOTH" THEN positions ELSE {p \in positions : p.side = chosen}
        target == (Lots(rows) * part) \div Parts
        already == IF action = "close" THEN 0 ELSE Lots({p \in rows : protected(p, threshold(p))})
        done == IF action = "close" THEN closing(sorted(rows, m, action), target)
                ELSE protecting(sorted(rows, m, action), m, target - already)
        planned == target - already - done.remaining
    IN IF action = "be" /\ side \in {"AUTO", "BOTH"} /\ Cardinality(sides) > 1
       THEN result("AMBIGUOUS_SIDE", "AUTO", {}, 0, 0, 0, <<>>)
       ELSE IF rows = {} THEN result("NO_POSITIONS", chosen, {}, 0, 0, 0, <<>>)
       ELSE result(IF planned > 0 \/ (action = "be" /\ already >= target)
                   THEN "OK" ELSE "NO_ELIGIBLE_POSITIONS", chosen, rows, target, already, planned, done.items)
=============================================================================
