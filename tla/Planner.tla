------------------------------ MODULE Planner ------------------------------
(***************************************************************************)
(* The planner of the expert advisor (Planner.mqh): which positions of a   *)
(* symbol a command acts on, in which order, and with what volume or stop. *)
(*                                                                         *)
(* Volumes and prices are integers: a volume counts some fraction of a     *)
(* lot and a price some fraction of a point, so the tolerances of 1e-9 in  *)
(* the code, which absorb rounding of doubles, have nothing to do here.    *)
(* The positions are those of the command's symbol.                        *)
(***************************************************************************)
EXTENDS Integers, FiniteSets, Sequences, SequencesExt

CONSTANTS
    Step, Minimum, Maximum,  \* volume step, least and greatest volume of a deal
    Tick,                    \* price step of a stop
    Stops, Freeze,           \* least distance of a stop, distance of the freeze
    Buffer,                  \* BEBufferPoints, as a price
    Parts                    \* a fraction is a number of these parts

ASSUME VolumeAssumption ==
    /\ {Step, Minimum, Maximum} \subseteq Nat \ {0}
    /\ Minimum <= Maximum
ASSUME PriceAssumption == Tick \in Nat \ {0} /\ {Stops, Freeze, Buffer} \subseteq Nat
ASSUME PartsAssumption == Parts \in Nat \ {0}

Abs(x) == IF x < 0 THEN -x ELSE x
Volume(layers) == SumFunction([p \in layers |-> p.volume])

\* What the terminal says of a position.
Sides == {"BUY", "SELL"}
Positions == [ticket : Nat, side : Sides, volume : Nat, entry : Nat, sl : Nat, tp : Nat]

-----------------------------------------------------------------------------
(* Stops. *)

\* Mutation of StopFor: the stop is rounded to the tick below on both sides.
StopBelow(p) == ((p.entry + IF p.side = "BUY" THEN Buffer ELSE -Buffer) \div Tick) * Tick

\* The entry plus the buffer, rounded away from the loss.
StopFor(p) ==
    IF p.side = "BUY" THEN -((-(p.entry + Buffer)) \div Tick) * Tick
                      ELSE ((p.entry - Buffer) \div Tick) * Tick

Protected(p, stop) == p.sl > 0 /\ IF p.side = "BUY" THEN p.sl >= stop ELSE p.sl <= stop

\* The price at which p would be closed now.
Price(p, q) == IF p.side = "BUY" THEN q.bid ELSE q.ask
Room(p, q, stop) == IF p.side = "BUY" THEN q.bid - stop ELSE stop - q.ask

Frozen(p, q, stop) ==
    \/ Room(p, q, stop) <= Freeze
    \/ \E level \in {p.sl, p.tp} : level > 0 /\ Abs(Price(p, q) - level) <= Freeze

StopCode(p, q, stop) ==
    CASE Protected(p, stop) -> "ALREADY_PROTECTED"
      [] ~Protected(p, stop) /\ stop <= 0 -> "STOP_LEVEL_INVALID"
      [] OTHER ->
           IF Room(p, q, stop) <= 0 \/ Room(p, q, stop) < Stops
           THEN "SKIPPED_NOT_ENOUGH_DISTANCE"
           ELSE IF Frozen(p, q, stop) THEN "FREEZE_LEVEL" ELSE "ELIGIBLE"

-----------------------------------------------------------------------------
(* Volumes. *)

Floored(v) == (v \div Step) * Step

\* Mutation of CloseVolume: the minimum that must remain is not looked at.
CloseVolumeDust(p, left) == Floored(Min({p.volume, left, Maximum}))

\* Mutation of CloseVolume: what is left to be closed is not looked at.
CloseVolumeWhole(p, left) == Floored(Min({p.volume, Maximum}))

\* What to close of p when left is still to be closed.
CloseVolume(p, left) ==
    LET amount == Floored(Min({p.volume, left, Maximum}))
    IN IF p.volume - amount \in 1..(Minimum - 1) THEN Floored(p.volume - Minimum) ELSE amount

Item(p, code, v, stop) == [layer |-> p, code |-> code, volume |-> v, stop |-> stop]
Eligible(items) == {i \in DOMAIN items : items[i].code = "ELIGIBLE"}
Planned(items) == SumFunction([i \in Eligible(items) |-> items[i].volume])

-----------------------------------------------------------------------------
(* Plans.  A command says what to do, to which side and to what fraction. *)

\* Profit per lot for a close, distance of the entry otherwise; least first.
Rank(p, q, close) ==
    IF close THEN IF p.side = "BUY" THEN q.bid - p.entry ELSE p.entry - q.ask
             ELSE Abs(Price(p, q) - p.entry)

Before(a, b, q, close) ==
    \/ Rank(a, q, close) < Rank(b, q, close)
    \/ Rank(a, q, close) = Rank(b, q, close) /\ a.ticket < b.ticket

\* How many come before p.
Place(p, layers, q, close) == Cardinality({o \in layers : Before(o, p, q, close)})

Ranked(layers, q, close) ==
    [i \in 1..Cardinality(layers) |-> CHOOSE p \in layers : Place(p, layers, q, close) = i - 1]

\* The bodies of the two loops over the rows.
CloseStep(items, p, target) ==
    LET left == target - Planned(items)
        v == CloseVolume(p, left)
    IN IF left < Step THEN items
       ELSE Append(items, Item(p, IF v >= Minimum THEN "ELIGIBLE" ELSE "VOLUME_CONSTRAINT", v, 0))

\* Mutation of BeStep: what is already protected does not count.
BeStepAnew(items, p, q, already, target) ==
    LET code == StopCode(p, q, StopFor(p))
    IN IF code # "ALREADY_PROTECTED" /\ Planned(items) >= target THEN items
       ELSE Append(items, Item(p, code, p.volume, StopFor(p)))

BeStep(items, p, q, already, target) ==
    LET code == StopCode(p, q, StopFor(p))
    IN IF code # "ALREADY_PROTECTED" /\ already + Planned(items) >= target THEN items
       ELSE Append(items, Item(p, code, p.volume, StopFor(p)))

CloseItems(rows, target) == FoldLeft(LAMBDA items, p : CloseStep(items, p, target), <<>>, rows)
BeItems(rows, q, already, target) ==
    FoldLeft(LAMBDA items, p : BeStep(items, p, q, already, target), <<>>, rows)

Plan(code, side, rows, target, already, items) ==
    [code |-> code, side |-> side, total |-> Volume(rows), target |-> target,
     already |-> already, planned |-> Planned(items),
     buy |-> Volume({p \in rows : p.side = "BUY"}), items |-> items]

NoPlan(code, side) == Plan(code, side, {}, 0, 0, <<>>)

PlanLayers(c, q, layers) ==
    LET rows == {p \in layers : c.side \in {"AUTO", "BOTH", p.side}}
        target == (Volume(rows) * c.part) \div Parts
        already == IF c.close THEN 0
                   ELSE Volume({p \in rows : Protected(p, StopFor(p))})
        items == IF c.close THEN CloseItems(Ranked(rows, q, TRUE), target)
                 ELSE BeItems(Ranked(rows, q, FALSE), q, already, target)
        idle == Planned(items) <= 0 /\ (c.close \/ already < target)
    IN CASE ~c.close /\ c.side = "AUTO" /\ {p.side : p \in layers} = {"BUY", "SELL"} ->
              NoPlan("AMBIGUOUS_SIDE", c.side)
         [] rows = {} -> NoPlan("NO_POSITIONS", c.side)
         [] OTHER -> Plan(IF idle THEN "NO_ELIGIBLE_POSITIONS" ELSE "OK",
                          IF c.side = "AUTO" THEN (CHOOSE p \in rows : TRUE).side ELSE c.side,
                          rows, target, already, items)
=============================================================================
