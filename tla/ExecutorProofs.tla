--------------------------- MODULE ExecutorProofs ---------------------------
(***************************************************************************)
(* What holds of plans and of their execution for every account, command,  *)
(* market, broker and trader: the planner's volumes and items, then the    *)
(* executor's requests, and last what a result says.                       *)
(***************************************************************************)
EXTENDS Executor, Induction

(***************************************************************************)
(* Volumes.                                                                *)
(***************************************************************************)

\* The least of three numbers is one of them and none is smaller.
LEMMA MinOfThree ==
    ASSUME NEW a \in Int, NEW b \in Int, NEW c \in Int
    PROVE  /\ Min({a, b, c}) \in {a, b, c}
           /\ Min({a, b, c}) <= a /\ Min({a, b, c}) <= b /\ Min({a, b, c}) <= c
<1> DEFINE S == {a, b, c}
<1>1. \E x \in S : \A y \in S : x <= y
  <2>1. CASE a <= b /\ a <= c BY <2>1
  <2>2. CASE b <= a /\ b <= c BY <2>2
  <2>3. CASE c <= a /\ c <= b BY <2>3
  <2> QED BY <2>1, <2>2, <2>3
<1>2. Min(S) \in S /\ \A y \in S : Min(S) <= y
  BY <1>1 DEF Min
<1> QED BY <1>2

\* Division by the volume step.
LEMMA StepDivision ==
    ASSUME NEW v \in Int, NEW k \in Int, k > 0
    PROVE  /\ v \div k \in Int
           /\ v % k \in 0..(k - 1)
           /\ v = (k * (v \div k)) + (v % k)
<1>1. v \div k \in Int /\ v % k \in Int OBVIOUS
<1>2. v % k >= 0 /\ v % k < k OBVIOUS
<1>3. v = (k * (v \div k)) + (v % k) OBVIOUS
<1> QED BY <1>1, <1>2, <1>3

\* Rounding to the volume step never rounds up, and loses less than a step.
LEMMA FlooredFits ==
    ASSUME NEW v \in Int
    PROVE  Floored(v) \in Int /\ Floored(v) <= v /\ v < Floored(v) + Step
<1>1. Step \in Int /\ Step > 0 BY VolumeAssumption
<1> DEFINE d == v \div Step
           m == v % Step
<1>2. d \in Int /\ m \in 0..(Step - 1) /\ v = (Step * d) + m
  BY <1>1, StepDivision
<1>3. Floored(v) = d * Step BY DEF Floored
<1> HIDE DEF d, m
<1>4. d * Step \in Int /\ d * Step <= v /\ v < (d * Step) + Step
  BY <1>1, <1>2
<1> QED BY <1>3, <1>4

\* What the planner closes of a position, when a deal may be that small at all,
\* is within the position, within what is left to be closed and within the
\* greatest deal, and it leaves nothing or at least the minimum.
THEOREM CloseVolumeFits ==
    ASSUME NEW p, p.volume \in Nat, NEW left \in Int,
           CloseVolume(p, left) >= Minimum
    PROVE  /\ CloseVolume(p, left) \in Minimum..Maximum
           /\ CloseVolume(p, left) <= left
           /\ CloseVolume(p, left) <= p.volume
           /\ p.volume - CloseVolume(p, left) \notin 1..(Minimum - 1)
<1> DEFINE amount == Floored(Min({p.volume, left, Maximum}))
<1>1. /\ amount \in Int
      /\ amount <= p.volume /\ amount <= left /\ amount <= Maximum
  <2>0. p.volume \in Int /\ Maximum \in Int BY VolumeAssumption
  <2>1. /\ Min({p.volume, left, Maximum}) \in Int
        /\ Min({p.volume, left, Maximum}) <= p.volume
        /\ Min({p.volume, left, Maximum}) <= left
        /\ Min({p.volume, left, Maximum}) <= Maximum
    BY <2>0, MinOfThree
  <2> DEFINE w == Min({p.volume, left, Maximum})
  <2>2. Floored(w) \in Int /\ Floored(w) <= w
    BY <2>1, FlooredFits
  <2> HIDE DEF w
  <2> QED BY <2>0, <2>1, <2>2 DEF w
<1>2. /\ Floored(p.volume - Minimum) \in Int
      /\ Floored(p.volume - Minimum) <= p.volume - Minimum
  BY FlooredFits, VolumeAssumption
<1>3. CloseVolume(p, left) = IF p.volume - amount \in 1..(Minimum - 1)
                             THEN Floored(p.volume - Minimum) ELSE amount
  BY DEF CloseVolume
<1> HIDE DEF amount
<1>4. CASE p.volume - amount \in 1..(Minimum - 1)
  BY <1>1, <1>2, <1>3, <1>4, VolumeAssumption
<1>5. CASE p.volume - amount \notin 1..(Minimum - 1)
  BY <1>1, <1>3, <1>5, VolumeAssumption
<1> QED BY <1>4, <1>5

\* What the planner would close of a position, whether a deal may be that
\* small or not.
LEMMA CloseVolumeType ==
    ASSUME NEW p, p.volume \in Nat, NEW left \in Int
    PROVE  CloseVolume(p, left) \in Int
<1>1. p.volume \in Int /\ Maximum \in Int /\ Minimum \in Int BY VolumeAssumption
<1> DEFINE w == Min({p.volume, left, Maximum})
<1>2. w \in Int
  <2>1. w \in {p.volume, left, Maximum}
    BY <1>1, MinOfThree
  <2> HIDE DEF w
  <2> QED BY <1>1, <2>1
<1>3. Floored(w) \in Int /\ Floored(p.volume - Minimum) \in Int
  BY <1>1, <1>2, FlooredFits
<1> QED BY <1>3 DEF CloseVolume

\* A stop is a price.
LEMMA StopForType == ASSUME NEW p \in Positions PROVE StopFor(p) \in Int
<1>1. p.entry \in Int /\ Buffer \in Int /\ Tick \in Int /\ Tick > 0
  BY PriceAssumption DEF Positions
<1> DEFINE a == -(p.entry + Buffer)
           b == p.entry - Buffer
<1>2. a \in Int /\ b \in Int
  BY <1>1
<1> HIDE DEF a, b
<1>3. a \div Tick \in Int /\ b \div Tick \in Int
  BY <1>1, <1>2, StepDivision
<1> DEFINE x == a \div Tick
           y == b \div Tick
<1>4. x \in Int /\ y \in Int
  BY <1>3
<1>5. StopFor(p) = IF p.side = "BUY" THEN -x * Tick ELSE y * Tick
  BY DEF StopFor, a, b
<1> HIDE DEF x, y
<1>6. -x * Tick \in Int /\ y * Tick \in Int
  BY <1>1, <1>4
<1> QED BY <1>5, <1>6

-----------------------------------------------------------------------------
(***************************************************************************)
(* Items and their sum.                                                    *)
(***************************************************************************)
ItemCodes == {"ELIGIBLE", "VOLUME_CONSTRAINT", "ALREADY_PROTECTED", "STOP_LEVEL_INVALID",
              "SKIPPED_NOT_ENOUGH_DISTANCE", "FREEZE_LEVEL"}
Items == [layer : Positions, code : ItemCodes, volume : Int, stop : Int]

\* The code of a stop is one of an item.
LEMMA StopCodeType == ASSUME NEW p, NEW q, NEW stop PROVE StopCode(p, q, stop) \in ItemCodes
  BY DEF StopCode, ItemCodes

\* The domain of the sum.
LEMMA EligibleSet ==
    ASSUME NEW items \in Seq(Items)
    PROVE  /\ DOMAIN items = 1..Len(items) /\ Len(items) \in Nat
           /\ Eligible(items) = {i \in 1..Len(items) : items[i].code = "ELIGIBLE"}
           /\ IsFiniteSet(Eligible(items))
           /\ \A i \in 1..Len(items) : items[i] \in Items /\ items[i].volume \in Int
                                       /\ items[i].layer \in Positions
<1>1. DOMAIN items = 1..Len(items) /\ Len(items) \in Nat
  OBVIOUS
<1>2. Eligible(items) = {i \in 1..Len(items) : items[i].code = "ELIGIBLE"}
  BY <1>1 DEF Eligible
<1>3. IsFiniteSet(1..Len(items))
  BY <1>1, FS_Interval
<1>4. IsFiniteSet(Eligible(items))
  BY <1>2, <1>3, FS_Subset
<1>5. ASSUME NEW i \in 1..Len(items)
      PROVE  items[i] \in Items /\ items[i].volume \in Int /\ items[i].layer \in Positions
  <2>1. items[i] \in Items
    BY <1>1
  <2> QED BY <2>1 DEF Items
<1> QED BY <1>1, <1>2, <1>4, <1>5

\* The planned volume as a sum over a set.
LEMMA PlannedSum ==
    ASSUME NEW items \in Seq(Items), NEW f, \A i \in 1..Len(items) : f[i] = items[i].volume
    PROVE  Planned(items) = SumFunctionOnSet(f, Eligible(items)) /\ Planned(items) \in Int
<1> DEFINE g == [i \in Eligible(items) |-> items[i].volume]
           S == Eligible(items)
<1>1. Planned(items) = SumFunctionOnSet(g, S)
  BY DEF Planned, SumFunction
<1>2. IsFiniteSet(S) /\ \A i \in S : g[i] \in Int /\ f[i] = g[i]
  BY EligibleSet
<1> HIDE DEF g, S
<1>3. SumFunctionOnSet(g, S) = SumFunctionOnSet(f, S) /\ SumFunctionOnSet(g, S) \in Int
  BY <1>2, SumSame
<1> QED BY <1>1, <1>3 DEF S

\* Nothing is planned of no items.
LEMMA PlannedEmpty == <<>> \in Seq(Items) /\ Planned(<<>>) = 0
<1>1. <<>> \in Seq(Items) /\ Len(<<>>) = 0
  OBVIOUS
<1>2. Eligible(<<>>) = {}
  <2>1. Eligible(<<>>) = {i \in 1..Len(<<>>) : <<>>[i].code = "ELIGIBLE"}
    BY <1>1, EligibleSet
  <2>2. 1..0 = {}
    OBVIOUS
  <2> QED BY <1>1, <2>1, <2>2
<1> DEFINE g == [i \in {} |-> 0]
<1>3. Planned(<<>>) = SumFunctionOnSet(g, {})
  <2>1. \A i \in 1..Len(<<>>) : g[i] = <<>>[i].volume
    BY <1>1
  <2> HIDE DEF g
  <2> QED BY <1>1, <1>2, <2>1, PlannedSum
<1>4. SumFunctionOnSet(g, {}) = 0
  <2>1. IsFiniteSet({})
    BY FS_EmptySet
  <2> QED BY <2>1, SumUnfolds
<1> QED BY <1>1, <1>3, <1>4

\* A list with one item more.
LEMMA Appended ==
    ASSUME NEW items \in Seq(Items), NEW it \in Items
    PROVE  /\ Append(items, it) \in Seq(Items)
           /\ Len(Append(items, it)) = Len(items) + 1 /\ Len(items) \in Nat
           /\ \A i \in 1..Len(items) : Append(items, it)[i] = items[i]
           /\ Append(items, it)[Len(items) + 1] = it
           /\ Planned(items) \in Int
           /\ Planned(Append(items, it)) =
                Planned(items) + (IF it.code = "ELIGIBLE" THEN it.volume ELSE 0)
<1> DEFINE n == Len(items)
           t == Append(items, it)
           f == [i \in 1..(n + 1) |-> t[i].volume]
<1>1. /\ t \in Seq(Items) /\ Len(t) = n + 1 /\ n \in Nat
      /\ \A i \in 1..n : t[i] = items[i]
      /\ t[n + 1] = it
  OBVIOUS
<1>2. \A i \in 1..(n + 1) : f[i] = t[i].volume
  OBVIOUS
<1> HIDE DEF t, f
<1>3. (\A i \in 1..n : f[i] = items[i].volume) /\ f[n + 1] = it.volume /\ it.volume \in Int
      /\ \A i \in 1..(n + 1) : f[i] \in Int
  <2>1. \A i \in 1..n : f[i] = items[i].volume /\ items[i].volume \in Int
    BY <1>1, <1>2, EligibleSet
  <2>2. n + 1 \in 1..(n + 1) /\ it.volume \in Int
    BY <1>1 DEF Items
  <2>3. \A i \in 1..(n + 1) : i = n + 1 \/ i \in 1..n
    BY <1>1
  <2> QED BY <1>1, <1>2, <2>1, <2>2, <2>3
<1>4. Planned(t) = SumFunctionOnSet(f, Eligible(t))
  BY <1>1, <1>2, PlannedSum
<1>5. Planned(items) = SumFunctionOnSet(f, Eligible(items)) /\ Planned(items) \in Int
  BY <1>3, PlannedSum
<1>6. /\ Eligible(t) = {i \in 1..(n + 1) : t[i].code = "ELIGIBLE"} /\ IsFiniteSet(Eligible(t))
      /\ Eligible(items) = {i \in 1..n : items[i].code = "ELIGIBLE"}
  BY <1>1, EligibleSet
<1>7. CASE it.code = "ELIGIBLE"
  <2> DEFINE S == Eligible(t)
  <2>1. n + 1 \in S /\ S \ {n + 1} = Eligible(items)
    BY <1>1, <1>6, <1>7
  <2>2. IsFiniteSet(S) /\ \A i \in S : f[i] \in Int
    BY <1>3, <1>6
  <2> HIDE DEF S
  <2>3. SumFunctionOnSet(f, S) = f[n + 1] + SumFunctionOnSet(f, S \ {n + 1})
    BY <2>1, <2>2, SumRemove
  <2>4. Planned(t) = it.volume + Planned(items)
    BY <1>3, <1>4, <1>5, <2>1, <2>3 DEF S
  <2> QED BY <1>1, <1>3, <1>5, <1>7, <2>4 DEF t
<1>8. CASE it.code # "ELIGIBLE"
  <2>1. Eligible(t) = Eligible(items)
    BY <1>1, <1>6, <1>8
  <2> QED BY <1>1, <1>4, <1>5, <1>8, <2>1 DEF t
<1> QED BY <1>7, <1>8

\* A sum is a number.
LEMMA PlannedType == ASSUME NEW items \in Seq(Items) PROVE Planned(items) \in Int
<1> DEFINE f == [i \in 1..Len(items) |-> items[i].volume]
<1>1. \A i \in 1..Len(items) : f[i] = items[i].volume
  OBVIOUS
<1> QED BY <1>1, PlannedSum

\* One round of the loop adds at most one item.
LEMMA CloseStepType ==
    ASSUME NEW items \in Seq(Items), NEW p \in Positions, NEW target \in Int
    PROVE  CloseStep(items, p, target) \in Seq(Items)
<1> DEFINE left == target - Planned(items)
           v == CloseVolume(p, left)
           it == Item(p, IF v >= Minimum THEN "ELIGIBLE" ELSE "VOLUME_CONSTRAINT", v, 0)
<1>1. left \in Int
  BY PlannedType
<1>2. v \in Int
  BY <1>1, CloseVolumeType DEF Positions
<1>3. it \in Items
  <2> HIDE DEF v
  <2> QED BY <1>2 DEF Item, Items, ItemCodes
<1>4. CloseStep(items, p, target) = IF left < Step THEN items ELSE Append(items, it)
  BY DEF CloseStep
<1> HIDE DEF it, left
<1>5. Append(items, it) \in Seq(Items)
  BY <1>3
<1> QED BY <1>4, <1>5

\* One round of the loop of a break-even adds at most one item, too.
LEMMA BeStepType ==
    ASSUME NEW items \in Seq(Items), NEW p \in Positions, NEW q, NEW already, NEW target
    PROVE  BeStep(items, p, q, already, target) \in Seq(Items)
<1> DEFINE it == Item(p, StopCode(p, q, StopFor(p)), p.volume, StopFor(p))
<1>1. it \in Items
  <2>1. StopFor(p) \in Int /\ StopCode(p, q, StopFor(p)) \in ItemCodes /\ p.volume \in Int
    BY StopForType, StopCodeType DEF Positions
  <2> QED BY <2>1 DEF Item, Items
<1>2. BeStep(items, p, q, already, target) \in {items, Append(items, it)}
  BY DEF BeStep
<1> HIDE DEF it
<1>3. Append(items, it) \in Seq(Items)
  BY <1>1
<1> QED BY <1>2, <1>3

\* The items of a close, row by row.
CloseRun(loop, n, rows, target) ==
    /\ loop \in [0..n -> Seq(Items)]
    /\ loop[0] = <<>>
    /\ \A k \in 1..n : loop[k] = CloseStep(loop[k - 1], rows[k], target)
    /\ CloseItems(rows, target) = loop[n]

\* The loop computes them.
LEMMA CloseLoop ==
    ASSUME NEW n \in Nat, NEW rows \in [1..n -> Positions], NEW target \in Int
    PROVE  \E loop : CloseRun(loop, n, rows, target)
<1> DEFINE H == [k \in 1..n |-> [v \in Seq(Items) |-> CloseStep(v, rows[k], target)]]
<1>1. H \in [1..n -> [Seq(Items) -> Seq(Items)]]
      /\ \A k \in 1..n, v \in Seq(Items) : H[k][v] = CloseStep(v, rows[k], target)
  BY CloseStepType
<1>2. <<>> \in Seq(Items)
  BY PlannedEmpty
<1> HIDE DEF H
<1>3. PICK g \in [SUBSET (1..n) -> Seq(Items)] : \A s \in SUBSET (1..n) :
          g[s] = IF s = {} THEN <<>> ELSE H[Max(s)][g[s \ {Max(s)}]]
  <2>1. H \in [1..n -> [Seq(Items) -> Seq(Items)]]
    BY <1>1
  <2>2. \E g \in [SUBSET (1..n) -> Seq(Items)] : FoldsTo(g, n, <<>>, H)
    BY <1>2, <2>1, Folding, Zenon
  <2> QED BY <2>2 DEF FoldsTo
<1> DEFINE P(h) == h = [s \in SUBSET (DOMAIN rows) |->
                          IF s = {} THEN <<>> ELSE CloseStep(h[s \ {Max(s)}], rows[Max(s)], target)]
           h == CHOOSE x : P(x)
<1>4. CloseItems(rows, target) = h[DOMAIN rows]
  BY DEF CloseItems, FoldLeft, MapThenFoldSet
<1>5. P(g)
  <2>1. ASSUME NEW s \in SUBSET (1..n), s # {}
        PROVE  g[s] = CloseStep(g[s \ {Max(s)}], rows[Max(s)], target)
    <3>1. Max(s) \in 1..n /\ g[s \ {Max(s)}] \in Seq(Items)
      BY <2>1, Greatest
    <3> QED BY <1>1, <1>3, <2>1, <3>1
  <2>2. g = [s \in SUBSET (1..n) |->
               IF s = {} THEN <<>> ELSE CloseStep(g[s \ {Max(s)}], rows[Max(s)], target)]
    BY <1>3, <2>1
  <2>3. DOMAIN rows = 1..n
    OBVIOUS
  <2> QED BY <2>2, <2>3
<1>6. P(h)
  <2> HIDE DEF P
  <2> QED BY <1>5
<1> HIDE DEF h
<1>7. \A s \in SUBSET (1..n) :
          h[s] = IF s = {} THEN <<>> ELSE CloseStep(h[s \ {Max(s)}], rows[Max(s)], target)
  BY <1>6
<1>8. PICK loop : Runs(loop, n, <<>>, Seq(Items), H, h[1..n])
  <2>1. FoldsWithin(h, n, <<>>, Seq(Items), H)
    BY <1>1, <1>2, <1>7, Greatest DEF FoldsWithin
  <2> QED BY <2>1, FoldLoop, Zenon
<1>9. loop \in [0..n -> Seq(Items)] /\ loop[0] = <<>> /\ loop[n] = h[1..n]
  BY <1>8 DEF Runs
<1>10. ASSUME NEW k \in 1..n PROVE loop[k] = CloseStep(loop[k - 1], rows[k], target)
  <2>1. k - 1 \in 0..n
    OBVIOUS
  <2> QED BY <1>1, <1>8, <2>1 DEF Runs
<1>11. DOMAIN rows = 1..n
  OBVIOUS
<1>12. CloseRun(loop, n, rows, target)
  BY <1>4, <1>9, <1>10, <1>11 DEF CloseRun
<1> QED BY <1>12
\* The items of a break-even, row by row.
BeRun(loop, n, rows, q, already, target) ==
    /\ loop \in [0..n -> Seq(Items)]
    /\ loop[0] = <<>>
    /\ \A k \in 1..n : loop[k] = BeStep(loop[k - 1], rows[k], q, already, target)
    /\ BeItems(rows, q, already, target) = loop[n]

\* The loop computes them.
LEMMA BeLoop ==
    ASSUME NEW n \in Nat, NEW rows \in [1..n -> Positions], NEW q, NEW already, NEW target
    PROVE  \E loop : BeRun(loop, n, rows, q, already, target)
<1> DEFINE H == [k \in 1..n |-> [v \in Seq(Items) |-> BeStep(v, rows[k], q, already, target)]]
<1>1. H \in [1..n -> [Seq(Items) -> Seq(Items)]]
      /\ \A k \in 1..n, v \in Seq(Items) : H[k][v] = BeStep(v, rows[k], q, already, target)
  BY BeStepType
<1>2. <<>> \in Seq(Items)
  BY PlannedEmpty
<1> HIDE DEF H
<1>3. PICK g \in [SUBSET (1..n) -> Seq(Items)] : \A s \in SUBSET (1..n) :
          g[s] = IF s = {} THEN <<>> ELSE H[Max(s)][g[s \ {Max(s)}]]
  <2>1. H \in [1..n -> [Seq(Items) -> Seq(Items)]]
    BY <1>1
  <2>2. \E g \in [SUBSET (1..n) -> Seq(Items)] : FoldsTo(g, n, <<>>, H)
    BY <1>2, <2>1, Folding, Zenon
  <2> QED BY <2>2 DEF FoldsTo
<1> DEFINE P(h) == h = [s \in SUBSET (DOMAIN rows) |->
                          IF s = {} THEN <<>> ELSE BeStep(h[s \ {Max(s)}], rows[Max(s)], q, already, target)]
           h == CHOOSE x : P(x)
<1>4. BeItems(rows, q, already, target) = h[DOMAIN rows]
  BY DEF BeItems, FoldLeft, MapThenFoldSet
<1>5. P(g)
  <2>1. ASSUME NEW s \in SUBSET (1..n), s # {}
        PROVE  g[s] = BeStep(g[s \ {Max(s)}], rows[Max(s)], q, already, target)
    <3>1. Max(s) \in 1..n /\ g[s \ {Max(s)}] \in Seq(Items)
      BY <2>1, Greatest
    <3> QED BY <1>1, <1>3, <2>1, <3>1
  <2>2. g = [s \in SUBSET (1..n) |->
               IF s = {} THEN <<>> ELSE BeStep(g[s \ {Max(s)}], rows[Max(s)], q, already, target)]
    BY <1>3, <2>1
  <2>3. DOMAIN rows = 1..n
    OBVIOUS
  <2> QED BY <2>2, <2>3
<1>6. P(h)
  <2> HIDE DEF P
  <2> QED BY <1>5
<1> HIDE DEF h
<1>7. \A s \in SUBSET (1..n) :
          h[s] = IF s = {} THEN <<>> ELSE BeStep(h[s \ {Max(s)}], rows[Max(s)], q, already, target)
  BY <1>6
<1>8. PICK loop : Runs(loop, n, <<>>, Seq(Items), H, h[1..n])
  <2>1. FoldsWithin(h, n, <<>>, Seq(Items), H)
    BY <1>1, <1>2, <1>7, Greatest DEF FoldsWithin
  <2> QED BY <2>1, FoldLoop, Zenon
<1>9. loop \in [0..n -> Seq(Items)] /\ loop[0] = <<>> /\ loop[n] = h[1..n]
  BY <1>8 DEF Runs
<1>10. ASSUME NEW k \in 1..n PROVE loop[k] = BeStep(loop[k - 1], rows[k], q, already, target)
  <2>1. k - 1 \in 0..n
    OBVIOUS
  <2> QED BY <1>1, <1>8, <2>1 DEF Runs
<1>11. DOMAIN rows = 1..n
  OBVIOUS
<1>12. BeRun(loop, n, rows, q, already, target)
  BY <1>4, <1>9, <1>10, <1>11 DEF BeRun
<1> QED BY <1>12

-----------------------------------------------------------------------------
(***************************************************************************)
(* What the two loops make.                                                *)
(***************************************************************************)

\* Every item is of a row up to k, and no two items are of one position.
Listing(items, rows, k) ==
    /\ items \in Seq(Items)
    /\ \A i \in 1..Len(items) : \E j \in 1..k : items[i].layer = rows[j]
    /\ \A i, j \in 1..Len(items) : items[i].layer.ticket = items[j].layer.ticket => i = j

\* The positions of a list of rows are different ones.
Apart(rows, n) == \A i, j \in 1..n : rows[i].ticket = rows[j].ticket => i = j

\* One item more, of the next row.
LEMMA ListingGrows ==
    ASSUME NEW n \in Nat, NEW rows, Apart(rows, n), NEW k \in 1..n,
           NEW items, Listing(items, rows, k - 1)
    PROVE  /\ Listing(items, rows, k)
           /\ \A it \in Items : it.layer = rows[k] => Listing(Append(items, it), rows, k)
<1>1. k - 1 \in Nat /\ \A j \in 1..(k - 1) : j \in 1..k /\ j \in 1..n /\ j # k
  OBVIOUS
<1>2. Listing(items, rows, k)
  BY <1>1 DEF Listing
<1>3. ASSUME NEW it \in Items, it.layer = rows[k] PROVE Listing(Append(items, it), rows, k)
  <2> DEFINE m == Len(items)
             t == Append(items, it)
  <2>1. /\ t \in Seq(Items) /\ m \in Nat /\ Len(t) = m + 1
        /\ \A i \in 1..m : t[i] = items[i]
        /\ t[m + 1] = it
    BY Appended DEF Listing
  <2> HIDE DEF t
  <2>2. \A i \in 1..(m + 1) : i = m + 1 \/ i \in 1..m
    BY <2>1
  <2>3. ASSUME NEW i \in 1..m PROVE t[i].layer.ticket # it.layer.ticket
    <3>1. PICK j \in 1..(k - 1) : items[i].layer = rows[j]
      BY DEF Listing
    <3> QED BY <1>1, <1>3, <2>1, <3>1 DEF Apart
  <2>4. ASSUME NEW i \in 1..(m + 1) PROVE \E j \in 1..k : t[i].layer = rows[j]
    <3>1. CASE i = m + 1
      <4>1. k \in 1..k
        BY <1>1
      <4> QED BY <1>3, <2>1, <3>1, <4>1
    <3>2. CASE i \in 1..m
      BY <1>2, <2>1, <3>2 DEF Listing
    <3> QED BY <2>2, <3>1, <3>2
  <2>5. ASSUME NEW i \in 1..(m + 1), NEW j \in 1..(m + 1), t[i].layer.ticket = t[j].layer.ticket
        PROVE  i = j
    <3>1. CASE i \in 1..m /\ j \in 1..m
      BY <2>1, <2>5, <3>1 DEF Listing
    <3>2. CASE ~(i \in 1..m /\ j \in 1..m)
      BY <2>1, <2>2, <2>3, <2>5, <3>2
    <3> QED BY <3>1, <3>2
  <2> QED BY <2>1, <2>4, <2>5 DEF Listing, t
<1> QED BY <1>2, <1>3

\* The items of a close: their volumes fit, and together they stay within the
\* target.
LEMMA CloseItemsSound ==
    ASSUME NEW n \in Nat, NEW rows \in [1..n -> Positions], Apart(rows, n), NEW target \in Nat
    PROVE  LET items == CloseItems(rows, target)
           IN /\ Listing(items, rows, n)
              /\ Planned(items) <= target
              /\ \A i \in Eligible(items) : items[i].volume >= Minimum
<1> DEFINE Good(items, k) ==
             /\ Listing(items, rows, k)
             /\ Planned(items) <= target
             /\ \A i \in 1..Len(items) : items[i].code = "ELIGIBLE" => items[i].volume >= Minimum
<1>1. PICK loop : CloseRun(loop, n, rows, target)
  <2>1. target \in Int
    OBVIOUS
  <2> QED BY <2>1, CloseLoop, Zenon
<1> USE <1>1 DEF CloseRun
<1>2. Good(loop[0], 0)
  <2>1. Len(<<>>) = 0 /\ <<>> \in Seq(Items) /\ Planned(<<>>) = 0
    BY PlannedEmpty
  <2> QED BY <1>1, <2>1 DEF Listing
<1>3. ASSUME NEW k \in 1..n, Good(loop[k - 1], k - 1) PROVE Good(loop[k], k)
  <2> DEFINE items == loop[k - 1]
             p == rows[k]
             left == target - Planned(items)
             v == CloseVolume(p, left)
             it == Item(p, IF v >= Minimum THEN "ELIGIBLE" ELSE "VOLUME_CONSTRAINT", v, 0)
  <2>1. items \in Seq(Items) /\ p \in Positions /\ p.volume \in Nat /\ Listing(items, rows, k - 1)
    BY <1>3 DEF Listing, Positions
  <2>2. loop[k] = IF left < Step THEN items ELSE Append(items, it)
    BY <1>1 DEF CloseStep
  <2>3. Planned(items) \in Int /\ left \in Int
    BY <2>1, PlannedType
  <2>4. v \in Int /\ (v >= Minimum => v <= left)
    BY <2>1, <2>3, CloseVolumeType, CloseVolumeFits
  <2>5. Listing(items, rows, k) /\ \A i \in Items : i.layer = rows[k] => Listing(Append(items, i), rows, k)
    BY <2>1, ListingGrows
  <2> HIDE DEF v
  <2>6. it \in Items /\ it.layer = rows[k] /\ it.volume = v
        /\ (it.code = "ELIGIBLE" <=> v >= Minimum)
    BY <2>1, <2>4 DEF Item, Items, ItemCodes
  <2>7. CASE left < Step
    BY <1>3, <2>2, <2>5, <2>7
  <2>8. CASE ~(left < Step)
    <3> DEFINE t == Append(items, it)
    <3> HIDE DEF it, left
    <3>1. /\ Len(t) = Len(items) + 1 /\ Len(items) \in Nat
          /\ \A i \in 1..Len(items) : t[i] = items[i]
          /\ t[Len(items) + 1] = it
          /\ Planned(t) = Planned(items) + (IF it.code = "ELIGIBLE" THEN it.volume ELSE 0)
      BY <2>1, <2>6, Appended
    <3>2. loop[k] = t
      BY <2>2, <2>8
    <3>3. Listing(t, rows, k)
      BY <2>5, <2>6
    <3>4. Planned(t) <= target
      <4>1. left = target - Planned(items) /\ target \in Int
        BY DEF left
      <4>2. CASE it.code = "ELIGIBLE"
        <5>1. v \in Int /\ v <= left /\ Planned(t) = Planned(items) + v
          BY <2>4, <2>6, <3>1, <4>2
        <5> QED BY <2>3, <4>1, <5>1
      <4>3. CASE it.code # "ELIGIBLE"
        BY <1>3, <2>3, <3>1, <4>3
      <4> QED BY <4>2, <4>3
    <3>5. ASSUME NEW i \in 1..Len(t), t[i].code = "ELIGIBLE" PROVE t[i].volume >= Minimum
      <4>1. i = Len(items) + 1 \/ i \in 1..Len(items)
        <5>1. \A l \in Nat : \A j \in 1..(l + 1) : j = l + 1 \/ j \in 1..l
          OBVIOUS
        <5> QED BY <3>1, <5>1
      <4> QED BY <1>3, <2>6, <3>1, <3>5, <4>1
    <3> HIDE DEF t
    <3> QED BY <3>2, <3>3, <3>4, <3>5
  <2> QED BY <2>7, <2>8
<1>4. Good(loop[n], n)
  <2> DEFINE S == {k \in Nat : k <= n => Good(loop[k], k)}
  <2>1. 0 \in S
    BY <1>2
  <2>2. ASSUME NEW k \in Nat, k \in S PROVE k + 1 \in S
    <3> SUFFICES ASSUME k + 1 <= n PROVE Good(loop[k + 1], k + 1)
      OBVIOUS
    <3>1. k + 1 \in 1..n /\ (k + 1) - 1 = k /\ Good(loop[k], k)
      BY <2>2
    <3> HIDE DEF Good
    <3> QED BY <1>3, <3>1
  <2> HIDE DEF S, Good
  <2>3. Nat \subseteq S
    BY <2>1, <2>2, NumberInduction
  <2> QED BY <2>3 DEF S
<1>5. \A i \in Eligible(loop[n]) : i \in 1..Len(loop[n]) /\ loop[n][i].code = "ELIGIBLE"
  BY EligibleSet
<1> QED BY <1>1, <1>4, <1>5

(***************************************************************************)
(* Plans.                                                                  *)
(***************************************************************************)

\* What a terminal shows: positions with tickets of their own, and a quote.
Shown(layers, q) ==
    /\ IsFiniteSet(layers) /\ layers \subseteq Positions
    /\ \A a, b \in layers : a.ticket = b.ticket => a = b
    /\ q \in [bid : Nat, ask : Nat]

\* The order in which a planner goes through the positions is a line.
LEMMA RankLines ==
    ASSUME NEW layers, NEW q, Shown(layers, q), NEW close
    PROVE  Lines({e \in layers \X layers : Before(e[1], e[2], q, close)}, layers)
<1> DEFINE r(a) == Rank(a, q, close)
           R == {e \in layers \X layers : Before(e[1], e[2], q, close)}
<1>1. ASSUME NEW a \in layers PROVE r(a) \in Int /\ a.ticket \in Int
  <2>1. a.entry \in Int /\ a.ticket \in Int /\ q.bid \in Int /\ q.ask \in Int
    BY DEF Shown, Positions
  <2>2. Price(a, q) - a.entry \in Int /\ q.bid - a.entry \in Int /\ a.entry - q.ask \in Int
    BY <2>1 DEF Price
  <2>3. \A x \in Int : Abs(x) \in Int
    BY DEF Abs
  <2> QED BY <2>1, <2>2, <2>3 DEF Rank
<1>2. \A a, b \in layers : <<a, b>> \in R <=> r(a) < r(b) \/ (r(a) = r(b) /\ a.ticket < b.ticket)
  BY DEF Before
<1> HIDE DEF r, R
<1>3. ASSUME NEW a \in layers PROVE <<a, a>> \notin R
  BY <1>1, <1>2
<1>4. ASSUME NEW a \in layers, NEW b \in layers, a # b PROVE <<a, b>> \in R \/ <<b, a>> \in R
  <2>1. a.ticket # b.ticket
    BY <1>4 DEF Shown
  <2> QED BY <1>1, <1>2, <2>1
<1>5. ASSUME NEW a \in layers, NEW b \in layers, NEW c \in layers, <<a, b>> \in R, <<b, c>> \in R
      PROVE  <<a, c>> \in R
  BY <1>1, <1>2, <1>5
<1> QED BY <1>3, <1>4, <1>5 DEF Lines, R

\* Every position is in the list once, in its place.
LEMMA RankedRows ==
    ASSUME NEW layers, NEW q, Shown(layers, q), NEW close
    PROVE  LET n == Cardinality(layers)
               rows == Ranked(layers, q, close)
           IN /\ n \in Nat /\ rows \in [1..n -> Positions] /\ Apart(rows, n)
              /\ \A i \in 1..n : rows[i] \in layers
              /\ \A p \in layers : \E i \in 1..n : rows[i] = p
              /\ \A i, j \in 1..n : i < j => Before(rows[i], rows[j], q, close)
<1> DEFINE n == Cardinality(layers)
           rows == Ranked(layers, q, close)
           R == {e \in layers \X layers : Before(e[1], e[2], q, close)}
           at(p) == Ahead(p, R, layers)
<1>1. IsFiniteSet(layers) /\ Lines(R, layers)
  BY RankLines DEF Shown
<1>2. ASSUME NEW p \in layers PROVE Place(p, layers, q, close) = at(p)
  <2>1. {o \in layers : Before(o, p, q, close)} = {o \in layers : <<o, p>> \in R}
    OBVIOUS
  <2> QED BY <2>1 DEF Place, Ahead
<1>3. \A a, b \in layers : <<a, b>> \in R <=> Before(a, b, q, close)
  OBVIOUS
<1> HIDE DEF R
<1>4. /\ n \in Nat
      /\ \A p \in layers : at(p) \in 0..(n - 1)
      /\ \A a, b \in layers : <<a, b>> \in R <=> at(a) < at(b)
      /\ \A i \in 0..(n - 1) : \E p \in layers : at(p) = i
  BY <1>1, Ranking, Zenon
<1> HIDE DEF at, n
<1>5. ASSUME NEW i \in 1..n PROVE rows[i] \in layers /\ at(rows[i]) = i - 1
  <2>1. i - 1 \in 0..(n - 1)
    BY <1>4
  <2>2. \E p \in layers : Place(p, layers, q, close) = i - 1
    BY <1>2, <1>4, <2>1
  <2>3. rows[i] = CHOOSE p \in layers : Place(p, layers, q, close) = i - 1
    BY DEF Ranked, n
  <2> HIDE DEF rows
  <2> QED BY <1>2, <2>2, <2>3
<1>6. DOMAIN rows = 1..n /\ rows = [i \in 1..n |-> rows[i]]
  BY DEF Ranked, n
<1> HIDE DEF rows
<1>7. rows \in [1..n -> Positions]
  BY <1>5, <1>6 DEF Shown
<1>8. ASSUME NEW i \in 1..n, NEW j \in 1..n, rows[i].ticket = rows[j].ticket PROVE i = j
  <2>1. rows[i] = rows[j]
    BY <1>5, <1>8 DEF Shown
  <2>2. i - 1 = j - 1
    BY <1>5, <2>1
  <2> QED BY <1>4, <2>2
<1>9. ASSUME NEW p \in layers PROVE \E i \in 1..n : rows[i] = p
  <2>1. at(p) \in 0..(n - 1)
    BY <1>4
  <2>2. at(p) + 1 \in 1..n /\ (at(p) + 1) - 1 = at(p)
    BY <1>4, <2>1
  <2> DEFINE i == at(p) + 1
  <2>3. i \in 1..n /\ rows[i] \in layers /\ at(rows[i]) = at(p)
    BY <1>5, <2>2
  <2>4. ~(<<p, rows[i]>> \in R) /\ ~(<<rows[i], p>> \in R)
    BY <1>4, <2>1, <2>3
  <2>5. rows[i] = p
    BY <1>1, <2>3, <2>4 DEF Lines
  <2> QED BY <2>3, <2>5
<1>10. ASSUME NEW i \in 1..n, NEW j \in 1..n, i < j PROVE Before(rows[i], rows[j], q, close)
  <2>1. at(rows[i]) = i - 1 /\ at(rows[j]) = j - 1 /\ i - 1 < j - 1
    BY <1>4, <1>5, <1>10
  <2>2. rows[i] \in layers /\ rows[j] \in layers
    BY <1>5
  <2>3. <<rows[i], rows[j]>> \in R
    BY <1>4, <2>1, <2>2
  <2> QED BY <1>3, <2>2, <2>3
<1> QED BY <1>4, <1>5, <1>7, <1>8, <1>9, <1>10 DEF Apart, n, rows

\* The items of a break-even: each stands for its whole position.
LEMMA BeItemsSound ==
    ASSUME NEW n \in Nat, NEW rows \in [1..n -> Positions], Apart(rows, n),
           NEW q, NEW already, NEW target
    PROVE  LET items == BeItems(rows, q, already, target)
           IN /\ Listing(items, rows, n)
              /\ \A i \in 1..Len(items) : items[i].volume = items[i].layer.volume
<1> DEFINE Good(items, k) ==
             /\ Listing(items, rows, k)
             /\ \A i \in 1..Len(items) : items[i].volume = items[i].layer.volume
<1>1. PICK loop : BeRun(loop, n, rows, q, already, target)
  BY BeLoop, Zenon
<1> USE <1>1 DEF BeRun
<1>2. Good(loop[0], 0)
  <2>1. Len(<<>>) = 0 /\ <<>> \in Seq(Items)
    BY PlannedEmpty
  <2> QED BY <1>1, <2>1 DEF Listing
<1>3. ASSUME NEW k \in 1..n, Good(loop[k - 1], k - 1) PROVE Good(loop[k], k)
  <2> DEFINE items == loop[k - 1]
             p == rows[k]
             it == Item(p, StopCode(p, q, StopFor(p)), p.volume, StopFor(p))
             t == Append(items, it)
  <2>1. items \in Seq(Items) /\ p \in Positions /\ Listing(items, rows, k - 1)
    BY <1>3 DEF Listing
  <2>2. loop[k] \in {items, t}
    BY <1>1 DEF BeStep
  <2>3. Listing(items, rows, k) /\ \A i \in Items : i.layer = rows[k] => Listing(Append(items, i), rows, k)
    BY <2>1, ListingGrows
  <2>4. it \in Items /\ it.layer = rows[k] /\ it.volume = it.layer.volume
    <3>1. StopFor(p) \in Int /\ StopCode(p, q, StopFor(p)) \in ItemCodes /\ p.volume \in Int
      BY <2>1, StopForType, StopCodeType DEF Positions
    <3> QED BY <2>1, <3>1 DEF Item, Items
  <2> HIDE DEF it
  <2>5. /\ Len(t) = Len(items) + 1 /\ Len(items) \in Nat
        /\ \A i \in 1..Len(items) : t[i] = items[i]
        /\ t[Len(items) + 1] = it
    BY <2>1, <2>4, Appended
  <2>6. Listing(t, rows, k)
    BY <2>3, <2>4
  <2> HIDE DEF t
  <2>7. \A i \in 1..Len(t) : i = Len(items) + 1 \/ i \in 1..Len(items)
    <3>1. \A l \in Nat : \A j \in 1..(l + 1) : j = l + 1 \/ j \in 1..l
      OBVIOUS
    <3> QED BY <2>5, <3>1
  <2>8. Good(t, k)
    BY <1>3, <2>4, <2>5, <2>6, <2>7
  <2> QED BY <1>3, <2>2, <2>3, <2>8
<1>4. Good(loop[n], n)
  <2> DEFINE S == {k \in Nat : k <= n => Good(loop[k], k)}
  <2>1. 0 \in S
    BY <1>2
  <2>2. ASSUME NEW k \in Nat, k \in S PROVE k + 1 \in S
    <3> SUFFICES ASSUME k + 1 <= n PROVE Good(loop[k + 1], k + 1)
      OBVIOUS
    <3>1. k + 1 \in 1..n /\ (k + 1) - 1 = k /\ Good(loop[k], k)
      BY <2>2
    <3> HIDE DEF Good
    <3> QED BY <1>3, <3>1
  <2> HIDE DEF S, Good
  <2>3. Nat \subseteq S
    BY <2>1, <2>2, NumberInduction
  <2> QED BY <2>3 DEF S
<1> QED BY <1>1, <1>4

\* The volume of some positions.
LEMMA VolumeType ==
    ASSUME NEW layers, IsFiniteSet(layers), layers \subseteq Positions
    PROVE  /\ Volume(layers) \in Nat
           /\ \A p \in layers : p.volume <= Volume(layers)
<1> DEFINE f == [p \in layers |-> p.volume]
<1>1. Volume(layers) = SumFunctionOnSet(f, layers)
  BY DEF Volume, SumFunction
<1>2. \A p \in layers : f[p] \in Nat /\ f[p] = p.volume
  BY DEF Positions
<1> HIDE DEF f
<1>3. SumFunctionOnSet(f, layers) \in Nat /\ \A p \in layers : f[p] <= SumFunctionOnSet(f, layers)
  BY <1>2, SumNatural
<1> QED BY <1>1, <1>2, <1>3

\* What a plan is, made of some positions.
Sound(p, c, layers) ==
    /\ p.items \in Seq(Items)
    /\ \A i \in 1..Len(p.items) : p.items[i].layer \in layers
    /\ \A i, j \in 1..Len(p.items) : p.items[i].layer.ticket = p.items[j].layer.ticket => i = j
    /\ p.target \in Nat
    /\ p.planned = Planned(p.items)
    /\ p.total > 0 \/ p.items = <<>>
    /\ c.close => /\ p.planned <= p.target
                  /\ \A i \in Eligible(p.items) : p.items[i].volume >= Minimum
    /\ ~c.close => \A i \in 1..Len(p.items) : p.items[i].volume = p.items[i].layer.volume

\* The code of a plan for a close says whether anything is planned.
Rated(p, c) == c.close => (p.code = "OK" <=> p.planned > 0)

\* A plan of nothing.
LEMMA NoPlanSound ==
    ASSUME NEW code, NEW side, NEW c, NEW layers
    PROVE  /\ Sound(NoPlan(code, side), c, layers)
           /\ code # "OK" => Rated(NoPlan(code, side), c)
           /\ NoPlan(code, side).items = <<>>
<1> DEFINE p == NoPlan(code, side)
<1>1. Planned(<<>>) = 0 /\ <<>> \in Seq(Items) /\ Len(<<>>) = 0
  BY PlannedEmpty
<1>2. p.items = <<>> /\ p.target = 0 /\ p.planned = 0 /\ p.code = code
  BY <1>1 DEF NoPlan, Plan
<1>3. Eligible(<<>>) = {}
  <2>1. Eligible(<<>>) = {i \in 1..Len(<<>>) : <<>>[i].code = "ELIGIBLE"}
    BY <1>1, EligibleSet
  <2>2. 1..0 = {}
    OBVIOUS
  <2> QED BY <1>1, <2>1, <2>2
<1>4. \A i \in 1..0 : FALSE
  OBVIOUS
<1> HIDE DEF p
<1> QED BY <1>1, <1>2, <1>3, <1>4 DEF Sound, Rated, p

\* A fraction of a volume.
LEMMA Fraction == ASSUME NEW v \in Nat, NEW part \in Nat PROVE (v * part) \div Parts \in Nat
<1>1. Parts \in Int /\ Parts > 0
  BY PartsAssumption
<1>2. v * part \in Nat
  OBVIOUS
<1> DEFINE w == v * part
<1>3. \A a \in Nat, b \in Int : b > 0 => a \div b \in Nat
  OBVIOUS
<1> HIDE DEF w
<1> QED BY <1>1, <1>2, <1>3 DEF w

\* Whatever is shown, the plan that is made of it is sound.
THEOREM PlanSound ==
    ASSUME NEW layers, NEW q, Shown(layers, q), \A p \in layers : p.volume > 0,
           NEW c, c.close \in BOOLEAN, c.part \in Nat
    PROVE  Sound(PlanLayers(c, q, layers), c, layers) /\ Rated(PlanLayers(c, q, layers), c)
<1> DEFINE rows == {p \in layers : c.side \in {"AUTO", "BOTH", p.side}}
           n == Cardinality(rows)
           target == (Volume(rows) * c.part) \div Parts
           already == IF c.close THEN 0 ELSE Volume({p \in rows : Protected(p, StopFor(p))})
           items == IF c.close THEN CloseItems(Ranked(rows, q, TRUE), target)
                    ELSE BeItems(Ranked(rows, q, FALSE), q, already, target)
           idle == Planned(items) <= 0 /\ (c.close \/ already < target)
           code == IF idle THEN "NO_ELIGIBLE_POSITIONS" ELSE "OK"
           full(side) == Plan(code, side, rows, target, already, items)
<1>1. \/ PlanLayers(c, q, layers) = NoPlan("AMBIGUOUS_SIDE", c.side)
      \/ PlanLayers(c, q, layers) = NoPlan("NO_POSITIONS", c.side)
      \/ rows # {} /\ \E side : PlanLayers(c, q, layers) = full(side)
  BY Zenon DEF PlanLayers
<1>2. CASE PlanLayers(c, q, layers) = NoPlan("AMBIGUOUS_SIDE", c.side)
  BY <1>2, NoPlanSound
<1>3. CASE PlanLayers(c, q, layers) = NoPlan("NO_POSITIONS", c.side)
  BY <1>3, NoPlanSound
<1>4. CASE rows # {} /\ \E side : PlanLayers(c, q, layers) = full(side)
  <2>1. rows \in SUBSET layers /\ rows # {}
    BY <1>4
  <2> HIDE DEF rows
  <2>2. IsFiniteSet(rows)
    BY <2>1, FS_Subset DEF Shown
  <2>3. Shown(rows, q)
    BY <2>1, <2>2 DEF Shown
  <2>4. Volume(rows) \in Nat /\ Volume(rows) > 0
    <3>1. Volume(rows) \in Nat /\ \A p \in rows : p.volume <= Volume(rows)
      BY <2>3, VolumeType DEF Shown
    <3>2. PICK p \in rows : p.volume > 0 /\ p.volume \in Nat
      BY <2>1, <2>3 DEF Shown, Positions
    <3> QED BY <3>1, <3>2
  <2>5. target \in Nat
    BY <2>4, Fraction
  <2>6. PICK side : PlanLayers(c, q, layers) = full(side)
    BY <1>4
  <2> HIDE DEF target, already
  <2>7. ASSUME NEW close \in BOOLEAN
        PROVE  LET r == Ranked(rows, q, close)
               IN n \in Nat /\ r \in [1..n -> Positions] /\ Apart(r, n) /\ \A i \in 1..n : r[i] \in rows
    BY <2>3, RankedRows
  <2>8. ASSUME NEW r, \A i \in 1..n : r[i] \in rows, Listing(items, r, n)
        PROVE  /\ items \in Seq(Items)
               /\ \A i \in 1..Len(items) : items[i].layer \in layers
               /\ \A i, j \in 1..Len(items) : items[i].layer.ticket = items[j].layer.ticket => i = j
    <3> HIDE DEF items, n
    <3> QED BY <2>1, <2>8 DEF Listing
  <2>9. /\ items \in Seq(Items)
        /\ \A i \in 1..Len(items) : items[i].layer \in layers
        /\ \A i, j \in 1..Len(items) : items[i].layer.ticket = items[j].layer.ticket => i = j
        /\ c.close => Planned(items) <= target /\ \A i \in Eligible(items) : items[i].volume >= Minimum
        /\ ~c.close => \A i \in 1..Len(items) : items[i].volume = items[i].layer.volume
    <3>1. CASE c.close
      <4> DEFINE r == Ranked(rows, q, TRUE)
      <4>1. n \in Nat /\ r \in [1..n -> Positions] /\ Apart(r, n) /\ \A i \in 1..n : r[i] \in rows
        BY <2>7
      <4> HIDE DEF r, n
      <4>2. /\ Listing(CloseItems(r, target), r, n)
            /\ Planned(CloseItems(r, target)) <= target
            /\ \A i \in Eligible(CloseItems(r, target)) : CloseItems(r, target)[i].volume >= Minimum
        BY <2>5, <4>1, CloseItemsSound
      <4>3. items = CloseItems(r, target)
        BY <3>1 DEF r
      <4> HIDE DEF items
      <4> QED BY <2>8, <3>1, <4>1, <4>2, <4>3
    <3>2. CASE ~c.close
      <4> DEFINE r == Ranked(rows, q, FALSE)
      <4>1. n \in Nat /\ r \in [1..n -> Positions] /\ Apart(r, n) /\ \A i \in 1..n : r[i] \in rows
        BY <2>7
      <4> HIDE DEF r, n
      <4>2. /\ Listing(BeItems(r, q, already, target), r, n)
            /\ \A i \in 1..Len(BeItems(r, q, already, target)) :
                  BeItems(r, q, already, target)[i].volume = BeItems(r, q, already, target)[i].layer.volume
        BY <4>1, BeItemsSound
      <4>3. items = BeItems(r, q, already, target)
        BY <3>2 DEF r
      <4> HIDE DEF items
      <4> QED BY <2>8, <3>2, <4>1, <4>2, <4>3
    <3> QED BY <3>1, <3>2
  <2> HIDE DEF items
  <2>10. Planned(items) \in Int
    BY <2>9, PlannedType
  <2> DEFINE p == full(side)
  <2>11. /\ p.items = items /\ p.target = target /\ p.planned = Planned(items) /\ p.total = Volume(rows)
         /\ p.code = code
    BY DEF Plan
  <2>12. c.close => (p.code = "OK" <=> Planned(items) > 0)
    BY <2>10, <2>11
  <2> HIDE DEF p
  <2>13. Sound(p, c, layers) /\ Rated(p, c)
    BY <2>4, <2>5, <2>9, <2>11, <2>12 DEF Sound, Rated
  <2> QED BY <2>6, <2>13 DEF p
<1> QED BY <1>1, <1>2, <1>3, <1>4

(***************************************************************************)
(* Requests.                                                               *)
(***************************************************************************)

\* The results are a list, whatever they hold.
Listed == results \in Seq({results[i] : i \in 1..Len(results)})

\* A request that the broker may still fill is the one being waited for, or
\* one that ended uncertain; and nothing is executed after an uncertain item.
Doubt ==
    /\ flight # None => pc = "sent" \/ (Uncertain /\ pc \in {"item", "done"})
    /\ pc \in {"read", "prepared", "reread", "sent", "answered"} => ~Uncertain
    /\ pc = "done" /\ Uncertain => status = "UNCERTAIN"

RequestInv == Listed /\ Doubt

\* Appending to a list.
LEMMA Appending ==
    ASSUME NEW s, s \in Seq({s[i] : i \in 1..Len(s)}), NEW r
    PROVE  LET t == Append(s, r)
           IN /\ t \in Seq({t[i] : i \in 1..Len(t)})
              /\ DOMAIN s = 1..Len(s) /\ DOMAIN t = 1..(Len(s) + 1) /\ Len(s) \in Nat
              /\ \A i \in 1..Len(s) : t[i] = s[i]
              /\ t[Len(s) + 1] = r
<1> DEFINE S == {s[i] : i \in 1..Len(s)}
           R == S \cup {r}
           t == Append(s, r)
<1>1. s \in Seq(S) /\ Len(s) \in Nat /\ DOMAIN s = 1..Len(s) /\ \A i \in 1..Len(s) : s[i] \in R
  OBVIOUS
<1>2. s \in Seq(R)
  <2>1. s = [i \in 1..Len(s) |-> s[i]] BY <1>1
  <2> QED BY <1>1, <2>1
<1>3. /\ t \in Seq(R) /\ Len(t) = Len(s) + 1 /\ DOMAIN t = 1..(Len(s) + 1)
      /\ \A i \in 1..Len(s) : t[i] = s[i]
      /\ t[Len(s) + 1] = r
  BY <1>1, <1>2
<1>4. t \in Seq({t[i] : i \in 1..Len(t)})
  <2> HIDE DEF t, R, S
  <2>1. Len(t) \in Nat /\ t = [i \in 1..Len(t) |-> t[i]] BY <1>3
  <2> QED BY <2>1
<1> QED BY <1>1, <1>3, <1>4

\* Dealing with an item keeps the list, and what it was uncertain about.
LEMMA DoneAdds ==
    ASSUME Listed, NEW code, NEW v, Done(code, v)
    PROVE  /\ Listed'
           /\ Uncertain' <=> (Uncertain \/ code = "EXECUTION_UNCERTAIN")
           /\ pc' = "item"
<1> DEFINE r == [code |-> code, volume |-> v]
           n == Len(results)
<1>1. results' = Append(results, r) /\ pc' = "item" BY DEF Done
<1>2. /\ results' \in Seq({(results')[i] : i \in 1..Len(results')})
      /\ DOMAIN results = 1..n /\ DOMAIN results' = 1..(n + 1) /\ n \in Nat
      /\ \A i \in 1..n : (results')[i] = results[i]
      /\ (results')[n + 1] = r
  BY <1>1, Appending DEF Listed
<1>3. Listed' BY <1>2 DEF Listed
<1>4. r.code = code OBVIOUS
<1>5. Uncertain => Uncertain' BY <1>2 DEF Uncertain
<1>6. code = "EXECUTION_UNCERTAIN" => Uncertain' BY <1>2, <1>4 DEF Uncertain
<1>7. Uncertain' => Uncertain \/ code = "EXECUTION_UNCERTAIN"
  <2> SUFFICES ASSUME Uncertain' PROVE Uncertain \/ code = "EXECUTION_UNCERTAIN" OBVIOUS
  <2>1. PICK i \in 1..(n + 1) : (results')[i].code = "EXECUTION_UNCERTAIN" BY <1>2 DEF Uncertain
  <2>2. i \in 1..n \/ i = n + 1 BY <1>2, <2>1
  <2> QED BY <1>2, <1>4, <2>1, <2>2 DEF Uncertain
<1> QED BY <1>1, <1>3, <1>5, <1>6, <1>7

\* Where the results stay, so does what is uncertain.
LEMMA Kept == ASSUME results' = results, Listed
              PROVE  Listed' /\ (Uncertain' <=> Uncertain)
BY DEF Listed, Uncertain

THEOREM RequestInvariance == Spec => []RequestInv
<1>1. Init => RequestInv
  <2> SUFFICES ASSUME Init PROVE RequestInv OBVIOUS
  <2>1. results = <<>> /\ pc = "planning" /\ flight = None BY DEF Init
  <2>2. Listed /\ ~Uncertain BY <2>1 DEF Listed, Uncertain
  <2> QED BY <2>1, <2>2 DEF RequestInv, Doubt
<1>2. RequestInv /\ [Next]_vars => RequestInv'
  <2> SUFFICES ASSUME RequestInv, [Next]_vars PROVE RequestInv' OBVIOUS
  <2> USE DEF RequestInv, Doubt
  <2>0. ASSUME NEW code, NEW v, Done(code, v), UNCHANGED <<flight, status>>,
               flight = None \/ Uncertain \/ code = "EXECUTION_UNCERTAIN"
        PROVE  RequestInv'
    BY <2>0, DoneAdds
  <2>1. CASE MakePlan BY <2>1, Kept DEF MakePlan
  <2>2. CASE Pass
    <3>1. pc = "item" BY <2>2 DEF Pass
    <3> QED BY <2>0, <2>2, <3>1 DEF Pass
  <2>3. CASE ReadLive
    <3>1. pc = "item" /\ ~Uncertain /\ flight = None BY <2>3 DEF ReadLive, Executable
    <3>2. CASE Refuse BY <2>0, <3>1, <3>2 DEF Refuse
    <3>3. CASE ~Refuse
      <4>1. pc' = "read" /\ UNCHANGED <<results, flight, status>> BY <2>3, <3>3 DEF ReadLive
      <4> QED BY <3>1, <4>1, Kept
    <3> QED BY <3>2, <3>3
  <2>4. CASE Prepare
    <3>1. pc = "read" /\ ~Uncertain /\ flight = None BY <2>4 DEF Prepare
    <3>2. CASE Refuse BY <2>0, <3>1, <3>2 DEF Refuse
    <3>3. CASE ~Refuse
      <4>1. pc' = "prepared" /\ UNCHANGED <<results, flight, status>> BY <2>4, <3>3 DEF Prepare
      <4> QED BY <3>1, <4>1, Kept
    <3> QED BY <3>2, <3>3
  <2>5. CASE Reread
    <3>1. pc = "prepared" /\ ~Uncertain /\ flight = None BY <2>5 DEF Reread
    <3>2. CASE Refuse BY <2>0, <3>1, <3>2 DEF Refuse
    <3>3. CASE ~Refuse
      <4>1. pc' = "reread" /\ UNCHANGED <<results, flight, status>> BY <2>5, <3>3 DEF Reread
      <4> QED BY <3>1, <4>1, Kept
    <3> QED BY <3>2, <3>3
  <2>6. CASE OrderSend
    <3>1. pc = "reread" /\ ~Uncertain /\ flight = None BY <2>6 DEF OrderSend
    <3>2. CASE Refuse BY <2>0, <3>1, <3>2 DEF Refuse
    <3>3. CASE ~Refuse
      <4>1. pc' = "sent" /\ UNCHANGED <<results, status>> BY <2>6, <3>3 DEF OrderSend
      <4> QED BY <3>1, <4>1, Kept
    <3> QED BY <3>2, <3>3
  <2>7. CASE \E v \in 0..Maximum : Filled(v)
    BY <2>7, Kept DEF Filled, Fill
  <2>8. CASE \E v \in 0..Maximum : FilledLate(v)
    BY <2>8, Kept DEF FilledLate, Fill
  <2>9. CASE Lapse BY <2>9, Kept DEF Lapse
  <2>10. CASE NothingToDo BY <2>10, Kept DEF NothingToDo
  <2>11. CASE Rejected
    <3>1. pc = "sent" /\ ~Uncertain /\ flight' = None /\ Done("BROKER_REJECTED", 0) BY <2>11 DEF Rejected
    <3> QED BY <3>1, DoneAdds
  <2>12. CASE Unanswered BY <2>0, <2>12 DEF Unanswered
  <2>13. CASE Evidence
    <3>1. pc = "answered" /\ flight = None /\ UNCHANGED <<flight, status>> BY <2>13 DEF Evidence
    <3>2. PICK code, v : Done(code, v) BY <2>13 DEF Evidence
    <3> QED BY <2>0, <3>1, <3>2
  <2>14. CASE Report
    <3>1. pc = "item" /\ pc' = "done" /\ UNCHANGED <<results, flight>> BY <2>14 DEF Report
    <3>2. Uncertain => status' = "UNCERTAIN" BY <2>14 DEF Report, Status
    <3> QED BY <3>1, <3>2, Kept
  <2>15. CASE \E t \in Tickets : Meddle(t) BY <2>15, Kept DEF Meddle
  <2>16. CASE Move BY <2>16, Kept DEF Move
  <2>17. CASE UNCHANGED vars BY <2>17, Kept DEF vars
  <2> QED BY <2>1, <2>2, <2>3, <2>4, <2>5, <2>6, <2>7, <2>8, <2>9, <2>10, <2>11, <2>12,
             <2>13, <2>14, <2>15, <2>16, <2>17 DEF Next
<1> QED BY <1>1, <1>2, PTL DEF Spec

\* The EA never sends a request while an earlier one may still be filled,
\* whatever broker, market and trader do.
THEOREM OneRequest == Spec => OneRequestOpen
<1>1. RequestInv /\ [Next]_vars => [flight' # None /\ flight' # flight => flight = None]_vars
  <2> SUFFICES ASSUME RequestInv, Next, flight' # None, flight' # flight PROVE flight = None
    OBVIOUS
  <2>1. CASE OrderSend BY <2>1 DEF OrderSend, RequestInv, Doubt
  <2>2. CASE ~OrderSend
    BY <2>2 DEF Next, MakePlan, Pass, ReadLive, Prepare, Reread, Refuse, Filled, FilledLate, Fill,
                Lapse, NothingToDo, Rejected, Unanswered, Evidence, Report, Meddle, Move
  <2> QED BY <2>1, <2>2
<1> QED BY <1>1, RequestInvariance, PTL DEF Spec, OneRequestOpen

\* A result other than UNCERTAIN leaves no request that may still be filled.
THEOREM NothingLeftOpen == Spec => [](pc = "done" /\ status # "UNCERTAIN" => flight = None)
<1>1. RequestInv => (pc = "done" /\ status # "UNCERTAIN" => flight = None)
  BY DEF RequestInv, Doubt
<1> QED BY <1>1, RequestInvariance, PTL

(***************************************************************************)
(* The inductive invariant.                                                *)
(***************************************************************************)
Requests == [ticket : Nat, volume : Nat, sl : Nat, tp : Nat]
Outcomes == [code : Codes, volume : Nat]
Stages == {"read", "prepared", "reread", "sent", "answered"}

Typed ==
    /\ IsFiniteSet(Tickets)
    /\ account \in [Tickets -> Positions]
    /\ \A t \in Tickets : account[t].ticket = t
    /\ quote \in Quotes
    /\ command \in [close : BOOLEAN, side : Sides \cup {"AUTO", "BOTH"}, part : Nat, preview : BOOLEAN]
    /\ pc \in {"planning", "item", "done"} \cup Stages
    /\ results \in Seq(Outcomes)
    /\ Len(results) <= Len(plan.items)
    /\ seen \in Positions \cup {None} /\ (seen # None <=> pc \in Stages)
    /\ request \in Requests \cup {None} /\ (request # None <=> pc \in Stages \ {"read"})
    /\ flight \in Requests \cup {None}
    /\ deal \in Nat
    /\ status \in {None, "SUCCEEDED", "PARTIAL", "FAILED", "UNCERTAIN"}
    /\ closed \in [Tickets -> Nat]
    /\ moved \subseteq Tickets /\ touched \subseteq Tickets
    /\ meddled \in Nat

\* The positions that may be planned for.
Known == {p \in Positions : p.ticket \in Tickets /\ p.volume > 0}

\* The plan stays what it was made.
Planning ==
    /\ Sound(plan, command, Known)
    /\ pc = "planning" => plan.items = <<>>
    /\ pc # "planning" => Rated(plan, command)

TicketOf(i) == plan.items[i].layer.ticket

\* What the EA may ask for of a position that it has read.
Safe(p, r) ==
    IF command.close THEN p.volume - r.volume \notin 1..(Minimum - 1)
                     ELSE p.tp = r.tp /\ ~Worse(p, r.sl, p.sl)

\* What is known of the item at work, from one read to the next.
AtWork ==
    /\ pc \in Stages => /\ ~command.preview
                        /\ Len(results) < Len(plan.items)
                        /\ Current.code = "ELIGIBLE"
                        /\ seen.ticket = Current.layer.ticket
    /\ pc \in Stages \ {"read"} =>
         /\ request.ticket = seen.ticket
         /\ request.volume = IF command.close THEN Current.volume ELSE 0
    /\ pc = "prepared" => Safe(seen, request)
    /\ pc = "reread" /\ request.ticket \notin touched => Safe(account[request.ticket], request)

\* A request that may still be filled belongs to an item of which nothing was
\* closed so far: the one that was just sent, or one that ended uncertain.
Open ==
    flight # None =>
        /\ ~command.preview
        /\ flight.ticket \notin touched => Safe(account[flight.ticket], flight)
        /\ \E i \in Eligible(plan.items) :
             /\ flight.ticket = TicketOf(i)
             /\ flight.volume = IF command.close THEN plan.items[i].volume ELSE 0
             /\ \/ i = Len(results) + 1 /\ pc = "sent"
                \/ i <= Len(results) /\ results[i].code = "EXECUTION_UNCERTAIN"
        /\ closed[flight.ticket] = 0

\* Whatever was closed is part of the volume of an item that was sent.
Shares ==
    \A t \in Tickets : closed[t] > 0 =>
        /\ command.close /\ ~command.preview
        /\ \E i \in Eligible(plan.items) :
             /\ t = TicketOf(i)
             /\ closed[t] <= plan.items[i].volume
             /\ i <= Len(results) \/ (i = Len(results) + 1 /\ pc = "answered")

\* What was answered is what was closed.
Answer == command.close /\ pc = "answered" => closed[Current.layer.ticket] = deal

\* A stop that was set is on its way into the results, or confirmed, or in doubt.
Moves ==
    moved # {} => /\ ~command.close
                  /\ Uncertain \/ pc = "answered" \/ \E i \in 1..Len(results) : results[i].volume > 0

IInv == Typed /\ Planning /\ AtWork /\ Open /\ Shares /\ Answer /\ Moves /\ ConfirmedIsOurs

\* What the types say of the lists.
LEMMA Lists ==
    ASSUME Typed, Planning
    PROVE  /\ DOMAIN results = 1..Len(results) /\ Len(results) \in Nat
           /\ \A i \in 1..Len(results) : results[i] \in Outcomes
           /\ DOMAIN plan.items = 1..Len(plan.items) /\ Len(plan.items) \in Nat
           /\ \A i \in 1..Len(plan.items) :
                /\ plan.items[i] \in Items
                /\ TicketOf(i) \in Tickets
                /\ \A j \in 1..Len(plan.items) : TicketOf(i) = TicketOf(j) => i = j
           /\ Eligible(plan.items) = {i \in 1..Len(plan.items) : plan.items[i].code = "ELIGIBLE"}
<1>1. results \in Seq(Outcomes) BY DEF Typed
<1>2. DOMAIN results = 1..Len(results) /\ Len(results) \in Nat /\ \A i \in 1..Len(results) : results[i] \in Outcomes
  BY <1>1
<1>3. /\ plan.items \in Seq(Items)
      /\ \A i \in 1..Len(plan.items) : TicketOf(i) \in Tickets
      /\ \A i, j \in 1..Len(plan.items) : TicketOf(i) = TicketOf(j) => i = j
  BY DEF Planning, Sound, Known, TicketOf
<1>4. /\ DOMAIN plan.items = 1..Len(plan.items) /\ Len(plan.items) \in Nat
      /\ \A i \in 1..Len(plan.items) : plan.items[i] \in Items
      /\ Eligible(plan.items) = {i \in 1..Len(plan.items) : plan.items[i].code = "ELIGIBLE"}
  BY <1>3, EligibleSet
<1> QED BY <1>2, <1>3, <1>4

\* Nothing is closed of an item that was not sent yet.
LEMMA Untouched ==
    ASSUME IInv, Len(results) < Len(plan.items), pc # "answered"
    PROVE  closed[Current.layer.ticket] = 0 /\ Current.layer.ticket = TicketOf(Len(results) + 1)
<1> DEFINE n == Len(results)
           t == TicketOf(n + 1)
<1>1. t = Current.layer.ticket BY DEF TicketOf, Current
<1>2. n \in Nat /\ Len(plan.items) \in Nat /\ n + 1 \in 1..Len(plan.items) BY Lists DEF IInv
<1>3. t \in Tickets /\ closed[t] \in Nat BY <1>2, Lists DEF IInv, Typed
<1>4. closed[t] > 0 => FALSE
  <2> SUFFICES ASSUME closed[t] > 0 PROVE FALSE OBVIOUS
  <2>1. PICK i \in Eligible(plan.items) : t = TicketOf(i) /\ i <= n BY <1>3 DEF IInv, Shares
  <2>2. i \in 1..Len(plan.items) BY <2>1, Lists DEF IInv
  <2>3. i = n + 1 BY <1>2, <2>1, <2>2, Lists DEF IInv
  <2> QED BY <1>2, <2>1, <2>3
<1> QED BY <1>1, <1>3, <1>4

\* An item is dealt with.
LEMMA DoneInv ==
    ASSUME IInv, RequestInv, NEW code \in Codes, NEW v \in Nat, Done(code, v),
           pc # "planning", Len(results) < Len(plan.items),
           UNCHANGED <<market, fixed, plan, status, closed, moved>>,
           flight' = None \/ flight' = flight,
           pc = "sent" /\ flight' # None => code = "EXECUTION_UNCERTAIN",
           command.close => v = IF code = "EXECUTION_UNCERTAIN" THEN 0 ELSE closed[Current.layer.ticket],
           pc = "answered" /\ ~command.close => code = "EXECUTION_UNCERTAIN" \/ v > 0
    PROVE  IInv'
<1> DEFINE r == [code |-> code, volume |-> v]
           n == Len(results)
<1> USE DEF IInv
<1>0. UNCHANGED <<account, quote, allowed, touched, meddled, command, plan, status, closed, moved>>
  BY DEF market, fixed
<1>1. results' = Append(results, r) /\ pc' = "item" /\ seen' = None /\ request' = None /\ deal' = 0
  BY DEF Done
<1>2. results \in Seq(Outcomes) /\ r \in Outcomes BY DEF Typed, Outcomes
<1>3. /\ r.code = code /\ r.volume = v
      /\ n \in Nat /\ DOMAIN results = 1..n /\ Len(plan.items) \in Nat
      /\ n + 1 \in 1..Len(plan.items)
  BY Lists
<1> HIDE DEF r
<1>4. /\ results' \in Seq(Outcomes) /\ Len(results') = n + 1 /\ DOMAIN results' = 1..(n + 1)
      /\ \A i \in 1..n : (results')[i] = results[i]
      /\ (results')[n + 1] = r
  BY <1>1, <1>2
<1>5. \A i \in 1..(n + 1) : i \in 1..n \/ i = n + 1 BY <1>3
<1>6. Uncertain' <=> (Uncertain \/ code = "EXECUTION_UNCERTAIN") BY DoneAdds DEF RequestInv
<1>7. Tickets' = Tickets /\ Known' = Known BY <1>0 DEF Tickets, Known
<1>t. Typed'
  BY <1>0, <1>1, <1>3, <1>4, <1>7 DEF Typed, Stages
<1>p. Planning'
  BY <1>0, <1>1, <1>7 DEF Planning
<1>w. AtWork'
  BY <1>1 DEF AtWork, Stages
<1>o. Open'
  <2> SUFFICES ASSUME flight' # None PROVE Open' BY DEF Open
  <2>1. flight' = flight OBVIOUS
  <2>2. PICK i \in Eligible(plan.items) :
             /\ flight.ticket = TicketOf(i)
             /\ flight.volume = IF command.close THEN plan.items[i].volume ELSE 0
             /\ \/ i = n + 1 /\ pc = "sent"
                \/ i <= n /\ results[i].code = "EXECUTION_UNCERTAIN"
    BY <2>1 DEF Open
  <2>3. i \in 1..Len(plan.items) BY <2>2, Lists
  <2>4. i <= n + 1 /\ (results')[i].code = "EXECUTION_UNCERTAIN"
    <3>1. CASE i = n + 1 /\ pc = "sent" BY <1>3, <1>4, <3>1
    <3>2. CASE i <= n /\ results[i].code = "EXECUTION_UNCERTAIN"
      <4>1. i \in 1..n BY <1>3, <2>3, <3>2
      <4> QED BY <1>3, <1>4, <3>2, <4>1
    <3> QED BY <2>2, <3>1, <3>2
  <2>5. /\ ~command.preview
        /\ flight.ticket \notin touched => Safe(account[flight.ticket], flight)
        /\ closed[flight.ticket] = 0
    BY <2>1 DEF Open
  <2>6. (flight.ticket \notin touched => Safe(account[flight.ticket], flight))'
    BY <1>0, <2>1, <2>5 DEF Safe
  <2>7. i \in Eligible(plan.items)' /\ TicketOf(i)' = TicketOf(i) BY <1>0 DEF TicketOf
  <2> QED BY <1>0, <1>4, <2>1, <2>2, <2>4, <2>5, <2>6, <2>7 DEF Open
<1>s. Shares'
  <2> SUFFICES ASSUME NEW t \in Tickets, closed[t] > 0 PROVE
        /\ command.close /\ ~command.preview
        /\ \E i \in Eligible(plan.items) : t = TicketOf(i) /\ closed[t] <= plan.items[i].volume /\ i <= n + 1
    BY <1>0, <1>4, <1>7 DEF Shares, TicketOf
  <2>1. /\ command.close /\ ~command.preview
        /\ \E i \in Eligible(plan.items) : t = TicketOf(i) /\ closed[t] <= plan.items[i].volume
                                           /\ (i <= n \/ i = n + 1)
    BY DEF Shares
  <2>2. \A i \in Eligible(plan.items) : i \in Nat BY Lists
  <2> QED BY <1>3, <2>1, <2>2
<1>a. Answer'
  BY <1>1 DEF Answer
<1>m. Moves'
  <2> SUFFICES ASSUME moved # {} PROVE ~command.close /\ (Uncertain' \/ \E i \in 1..(n + 1) : (results')[i].volume > 0)
    BY <1>0, <1>4 DEF Moves
  <2>1. ~command.close /\ (Uncertain \/ pc = "answered" \/ \E i \in 1..n : results[i].volume > 0)
    BY DEF Moves
  <2>2. n + 1 \in 1..(n + 1) /\ 1..n \subseteq 1..(n + 1) BY <1>3
  <2> QED BY <1>3, <1>4, <1>6, <2>1, <2>2
<1>c. ConfirmedIsOurs'
  <2> SUFFICES ASSUME command.close, NEW i \in 1..(n + 1)
               PROVE  (results')[i].volume =
                        IF (results')[i].code = "EXECUTION_UNCERTAIN" THEN 0 ELSE closed[plan.items[i].layer.ticket]
    BY <1>0, <1>4 DEF ConfirmedIsOurs
  <2>1. CASE i \in 1..n BY <1>3, <1>4, <2>1 DEF ConfirmedIsOurs
  <2>2. CASE i = n + 1 BY <1>3, <1>4, <2>2 DEF Current
  <2> QED BY <1>5, <2>1, <2>2
<1> QED BY <1>t, <1>p, <1>w, <1>o, <1>s, <1>a, <1>m, <1>c

\* What stays true of the results where they stay as they are.
LEMMA Quiet ==
    ASSUME IInv, RequestInv, UNCHANGED <<plan, command, results, closed, moved, deal>>, Tickets' = Tickets,
           pc # "planning", pc' # "planning", pc = "answered" => pc' = "answered",
           command.close /\ pc' = "answered" => pc = "answered"
    PROVE  Planning' /\ Shares' /\ Answer' /\ Moves' /\ ConfirmedIsOurs'
<1> USE DEF IInv
<1>1. Known' = Known BY DEF Known
<1>2. Planning' BY <1>1 DEF Planning
<1>3. Shares' BY DEF Shares, TicketOf
<1>4. Answer' BY DEF Answer, Current
<1>5. Moves'
  <2>1. Uncertain' <=> Uncertain BY DEF Uncertain
  <2> QED BY <2>1 DEF Moves
<1>6. ConfirmedIsOurs' BY DEF ConfirmedIsOurs
<1> QED BY <1>2, <1>3, <1>4, <1>5, <1>6

(***************************************************************************)
(* Every step keeps it.                                                    *)
(***************************************************************************)

\* A stop that is accepted is a price, and tightens what there is.
LEMMA EligibleStop ==
    ASSUME NEW p, NEW q, NEW stop, StopCode(p, q, stop) = "ELIGIBLE"
    PROVE  ~(stop <= 0)
<1> SUFFICES ASSUME stop <= 0 PROVE FALSE OBVIOUS
<1>1. CASE Protected(p, stop)
  <2>1. StopCode(p, q, stop) = "ALREADY_PROTECTED" BY <1>1 DEF StopCode
  <2> QED BY <2>1
<1>2. CASE ~Protected(p, stop)
  <2>1. StopCode(p, q, stop) = "STOP_LEVEL_INVALID" BY <1>2 DEF StopCode
  <2> QED BY <2>1
<1> QED BY <1>1, <1>2

\* What is open can be planned for.
LEMMA ShownNow == ASSUME Typed PROVE Shown(Layers, quote) /\ \A p \in Layers : p.volume > 0
<1> DEFINE T == {u \in Tickets : account[u].volume > 0}
           f == [t \in T |-> account[t]]
           L == {account[t] : t \in T}
<1>1. IsFiniteSet(T) BY FS_Subset DEF Typed
<1>2. f \in Surjection(T, L) BY DEF Surjection
<1>3. Layers = L BY DEF Layers
<1>4. /\ L \subseteq Positions
      /\ \A a, b \in L : a.ticket = b.ticket => a = b
      /\ \A p \in L : p.volume > 0
  BY DEF Typed
<1> HIDE DEF f, L
<1>5. IsFiniteSet(L) BY <1>1, <1>2, FS_Surjection
<1>6. quote \in [bid : Nat, ask : Nat] BY MarketAssumption DEF Typed
<1> QED BY <1>3, <1>4, <1>5, <1>6 DEF Shown

\* The plan is made.
LEMMA MakePlanInv == ASSUME IInv, RequestInv, MakePlan PROVE IInv'
<1> USE DEF IInv
<1>1. /\ pc = "planning" /\ pc' = "item"
      /\ UNCHANGED <<account, quote, allowed, touched, meddled, command, filling, results, seen, request,
                     flight, deal, status, closed, moved>>
      /\ plan' \in {PlanLayers(command, quote, Layers), NoPlan("SYMBOL_NOT_FOUND_OR_STALE", command.side)}
  BY DEF MakePlan, market, fixed
<1>2. flight = None BY <1>1 DEF RequestInv, Doubt
<1>3. plan.items = <<>> /\ Len(plan.items) = 0 BY <1>1 DEF Planning
<1>4. results = <<>> /\ Len(results) = 0 /\ DOMAIN results = {}
  <2>1. Len(results) \in Nat /\ DOMAIN results = 1..Len(results) BY Lists
  <2>2. Len(results) = 0 BY <1>3, <2>1 DEF Typed
  <2>3. DOMAIN results = {} BY <2>1, <2>2
  <2> QED BY <2>2, <2>3 DEF Typed
<1>5. \A t \in Tickets : closed[t] = 0
  <2>1. ASSUME NEW t \in Tickets, closed[t] > 0 PROVE FALSE
    <3>1. PICK i \in Eligible(plan.items) : TRUE BY <2>1 DEF Shares
    <3>2. i \in 1..0 BY <1>3, <3>1, Lists
    <3> QED BY <3>2
  <2> QED BY <2>1 DEF Typed
<1>6. moved = {}
  <2>1. ~Uncertain BY <1>4 DEF Uncertain
  <2>2. \A i \in 1..0 : FALSE OBVIOUS
  <2> QED BY <1>1, <1>4, <2>1, <2>2 DEF Moves
<1>7. Layers \subseteq Known /\ Known' = Known /\ Tickets' = Tickets /\ \A p \in Layers : p.volume > 0
  BY <1>1 DEF Layers, Known, Typed, Tickets
<1>8. Shown(Layers, quote) BY ShownNow
<1>9. Sound(plan', command, Layers) /\ Rated(plan', command)
  <2>1. command.close \in BOOLEAN /\ command.part \in Nat BY DEF Typed
  <2>2. CASE plan' = PlanLayers(command, quote, Layers) BY <1>7, <1>8, <2>1, <2>2, PlanSound
  <2>3. CASE plan' = NoPlan("SYMBOL_NOT_FOUND_OR_STALE", command.side) BY <2>3, NoPlanSound
  <2> QED BY <1>1, <2>2, <2>3
<1>10. Planning' BY <1>1, <1>7, <1>9 DEF Planning, Sound
<1>11. Len((plan').items) \in Nat BY <1>9 DEF Sound
<1>12. Typed' BY <1>1, <1>4, <1>7, <1>11 DEF Typed, Stages
<1>13. AtWork' /\ Open' /\ Answer' BY <1>1, <1>2 DEF AtWork, Open, Answer, Stages
<1>14. Shares' BY <1>1, <1>5, <1>7 DEF Shares
<1>15. Moves' /\ ConfirmedIsOurs' BY <1>1, <1>4, <1>6 DEF Moves, ConfirmedIsOurs
<1> QED BY <1>10, <1>12, <1>13, <1>14, <1>15

\* An item is passed over.
LEMMA PassInv == ASSUME IInv, RequestInv, Pass PROVE IInv'
<1> DEFINE code == IF Current.code = "ELIGIBLE" /\ Uncertain THEN "SKIPPED_AFTER_UNCERTAIN" ELSE Current.code
<1>1. /\ pc = "item" /\ Len(results) < Len(plan.items) /\ Done(code, 0)
      /\ UNCHANGED <<market, fixed, plan, flight, status, closed, moved>>
  BY DEF Pass
<1>2. Current.code \in ItemCodes
  <2>1. Len(results) + 1 \in 1..Len(plan.items) BY <1>1, Lists DEF IInv
  <2> QED BY <2>1, Lists DEF IInv, Current, Items
<1>3. code \in Codes /\ code # "EXECUTION_UNCERTAIN" BY <1>2 DEF ItemCodes, Codes
<1> HIDE DEF code
<1>4. closed[Current.layer.ticket] = 0 BY <1>1, Untouched
<1> QED BY <1>1, <1>3, <1>4, DoneInv

\* Nothing was sent.
LEMMA RefuseInv ==
    ASSUME IInv, RequestInv, pc \in {"item", "read", "prepared", "reread"},
           Len(results) < Len(plan.items), Refuse
    PROVE  IInv'
<1>1. Done("REFUSED", 0) /\ UNCHANGED <<market, fixed, plan, flight, status, closed, moved>> BY DEF Refuse
<1>2. "REFUSED" \in Codes BY DEF Codes
<1>3. closed[Current.layer.ticket] = 0 BY Untouched
<1> QED BY <1>1, <1>2, <1>3, DoneInv

\* The first read.
LEMMA ReadLiveInv == ASSUME IInv, RequestInv, ReadLive PROVE IInv'
<1> DEFINE p == account[Current.layer.ticket]
<1>1. pc = "item" /\ Len(results) < Len(plan.items) /\ Executable BY DEF ReadLive
<1>2. CASE Refuse BY <1>1, <1>2, RefuseInv
<1>3. CASE ~Refuse
  <2>1. /\ seen' = p /\ pc' = "read"
        /\ UNCHANGED <<account, quote, allowed, touched, meddled, command, filling, plan, results, request,
                       flight, deal, status, closed, moved>>
    BY <1>3 DEF ReadLive, market, fixed
  <2>2. flight = None BY <1>1 DEF Executable, RequestInv, Doubt
  <2>3. Current.layer.ticket \in Tickets
    <3>1. Len(results) + 1 \in 1..Len(plan.items) BY <1>1, Lists DEF IInv
    <3> QED BY <3>1, Lists DEF IInv, Current, TicketOf
  <2>4. p \in Positions /\ p # None /\ p.ticket = Current.layer.ticket
    BY <2>3, NoneAssumption DEF IInv, Typed
  <2>5. Tickets' = Tickets BY <2>1 DEF Tickets
  <2>6. Planning' /\ Shares' /\ Answer' /\ Moves' /\ ConfirmedIsOurs' BY <1>1, <2>1, <2>5, Quiet
  <2>7. request = None BY <1>1 DEF IInv, Typed, Stages
  <2> HIDE DEF p
  <2>8. Typed' BY <2>1, <2>4, <2>5, <2>7 DEF IInv, Typed, Stages
  <2>9. AtWork' BY <1>1, <2>1, <2>4 DEF AtWork, Executable, Current, Stages
  <2>10. Open' BY <2>1, <2>2 DEF Open
  <2> QED BY <2>6, <2>8, <2>9, <2>10 DEF IInv
<1> QED BY <1>2, <1>3

\* The request is made.
LEMMA PrepareInv == ASSUME IInv, RequestInv, Prepare PROVE IInv'
<1>1. pc = "read" BY DEF Prepare
<1>2. Len(results) < Len(plan.items) /\ ~command.preview /\ Current.code = "ELIGIBLE" /\ seen.ticket = Current.layer.ticket
  BY <1>1 DEF IInv, AtWork, Stages
<1>3. CASE Refuse BY <1>1, <1>2, <1>3, RefuseInv
<1>4. CASE ~Refuse
  <2>1. /\ Acceptable /\ pc' = "prepared"
        /\ request' = [ticket |-> seen.ticket, volume |-> IF command.close THEN Current.volume ELSE 0,
                       sl |-> IF command.close THEN seen.sl ELSE StopFor(seen), tp |-> seen.tp]
        /\ UNCHANGED <<account, quote, allowed, touched, meddled, command, filling, plan, results, seen,
                       flight, deal, status, closed, moved>>
    BY <1>4 DEF Prepare, market, fixed
  <2>2. flight = None BY <1>1 DEF RequestInv, Doubt
  <2>3. Tickets' = Tickets BY <2>1 DEF Tickets
  <2>4. Planning' /\ Shares' /\ Answer' /\ Moves' /\ ConfirmedIsOurs' BY <1>1, <2>1, <2>3, Quiet
  <2>5. seen \in Positions /\ seen # None BY <1>1 DEF IInv, Typed, Stages
  <2>6. command.close => Current.volume \in Nat /\ seen.volume - Current.volume \notin 1..(Minimum - 1)
    <3> SUFFICES ASSUME command.close PROVE Current.volume \in Nat /\ seen.volume - Current.volume \notin 1..(Minimum - 1)
      OBVIOUS
    <3>1. /\ Current.volume \in Minimum..Min({seen.volume, Maximum})
          /\ seen.volume - Current.volume \notin 1..(Minimum - 1)
      BY <2>1 DEF Acceptable
    <3> DEFINE m == Min({seen.volume, Maximum})
    <3> HIDE DEF m
    <3>2. Minimum \in Nat /\ Current.volume \in Minimum..m BY <3>1, VolumeAssumption DEF m
    <3> QED BY <3>1, <3>2
  <2>7. ~command.close => /\ StopFor(seen) \in Nat
                          /\ seen.sl > 0 => IF seen.side = "BUY" THEN StopFor(seen) >= seen.sl
                                                                 ELSE StopFor(seen) <= seen.sl
    <3> SUFFICES ASSUME ~command.close
                 PROVE  /\ StopFor(seen) \in Nat
                        /\ seen.sl > 0 => IF seen.side = "BUY" THEN StopFor(seen) >= seen.sl
                                                                 ELSE StopFor(seen) <= seen.sl
      OBVIOUS
    <3>1. /\ StopCode(seen, quote, StopFor(seen)) = "ELIGIBLE"
          /\ seen.sl > 0 => IF seen.side = "BUY" THEN StopFor(seen) >= seen.sl
                                                 ELSE StopFor(seen) <= seen.sl
      BY <2>1 DEF Acceptable
    <3>2. StopFor(seen) \in Int /\ ~(StopFor(seen) <= 0) BY <2>5, <3>1, StopForType, EligibleStop
    <3> QED BY <3>1, <3>2
  <2>8. request' \in Requests /\ request' # None
    <3>1. seen.ticket \in Nat /\ seen.sl \in Nat /\ seen.tp \in Nat BY <2>5 DEF Positions
    <3>2. request' \in Requests BY <2>1, <2>6, <2>7, <3>1 DEF Requests
    <3> QED BY <3>2, NoneAssumption DEF Requests
  <2>9. /\ (request').ticket = seen.ticket
        /\ (request').volume = IF command.close THEN Current.volume ELSE 0
        /\ (request').sl = IF command.close THEN seen.sl ELSE StopFor(seen)
        /\ (request').tp = seen.tp
    BY <2>1
  <2>10. Safe(seen, request)'
    <3>1. CASE command.close BY <2>1, <2>6, <2>9, <3>1 DEF Safe
    <3>2. CASE ~command.close
      <4>1. ~Worse(seen, StopFor(seen), seen.sl) BY <2>5, <2>7, <3>2 DEF Worse, Positions
      <4> QED BY <2>1, <2>9, <3>2, <4>1 DEF Safe, Worse
    <3> QED BY <3>1, <3>2
  <2>11. Typed' BY <1>1, <2>1, <2>3, <2>5, <2>8 DEF IInv, Typed, Stages
  <2>12. AtWork' BY <1>2, <2>1, <2>9, <2>10 DEF AtWork, Current, Stages
  <2>13. Open' BY <2>1, <2>2 DEF Open
  <2> QED BY <2>4, <2>11, <2>12, <2>13 DEF IInv
<1> QED BY <1>3, <1>4

\* The second read.
LEMMA RereadInv == ASSUME IInv, RequestInv, Reread PROVE IInv'
<1>1. pc = "prepared" BY DEF Reread
<1>2. /\ Len(results) < Len(plan.items) /\ ~command.preview /\ Current.code = "ELIGIBLE"
      /\ seen.ticket = Current.layer.ticket /\ request.ticket = seen.ticket
      /\ request.volume = IF command.close THEN Current.volume ELSE 0
      /\ Safe(seen, request)
  BY <1>1 DEF IInv, AtWork, Stages
<1>3. CASE Refuse BY <1>1, <1>2, <1>3, RefuseInv
<1>4. CASE ~Refuse
  <2>1. /\ account[seen.ticket] = seen /\ pc' = "reread"
        /\ touched' = touched \ {seen.ticket}
        /\ UNCHANGED <<account, quote, allowed, meddled, command, filling, plan, results, seen, request,
                       flight, deal, status, closed, moved>>
    BY <1>4 DEF Reread, Unchanged, fixed
  <2>2. flight = None BY <1>1 DEF RequestInv, Doubt
  <2>3. Tickets' = Tickets BY <2>1 DEF Tickets
  <2>4. Planning' /\ Shares' /\ Answer' /\ Moves' /\ ConfirmedIsOurs' BY <1>1, <2>1, <2>3, Quiet
  <2>5. seen # None /\ request # None BY <1>1 DEF IInv, Typed, Stages
  <2>6. Typed' BY <2>1, <2>3, <2>5 DEF IInv, Typed, Stages
  <2>7. Safe(account[request.ticket], request)' BY <1>2, <2>1 DEF Safe
  <2>8. AtWork' BY <1>2, <2>1, <2>7 DEF AtWork, Current, Stages
  <2>9. Open' BY <2>1, <2>2 DEF Open
  <2> QED BY <2>4, <2>6, <2>8, <2>9 DEF IInv
<1> QED BY <1>3, <1>4

\* The request goes out.
LEMMA OrderSendInv == ASSUME IInv, RequestInv, OrderSend PROVE IInv'
<1>1. pc = "reread" BY DEF OrderSend
<1>2. /\ Len(results) < Len(plan.items) /\ ~command.preview /\ Current.code = "ELIGIBLE"
      /\ seen.ticket = Current.layer.ticket /\ request.ticket = seen.ticket
      /\ request.volume = IF command.close THEN Current.volume ELSE 0
      /\ request.ticket \notin touched => Safe(account[request.ticket], request)
  BY <1>1 DEF IInv, AtWork, Stages
<1>3. CASE Refuse BY <1>1, <1>2, <1>3, RefuseInv
<1>4. CASE ~Refuse
  <2>1. /\ flight' = request /\ pc' = "sent"
        /\ UNCHANGED <<account, quote, allowed, touched, meddled, command, filling, plan, results, seen, request,
                       deal, status, closed, moved>>
    BY <1>4 DEF OrderSend, market, fixed
  <2>3. Tickets' = Tickets BY <2>1 DEF Tickets
  <2>4. Planning' /\ Shares' /\ Answer' /\ Moves' /\ ConfirmedIsOurs' BY <1>1, <2>1, <2>3, Quiet
  <2>5. seen # None /\ request # None BY <1>1 DEF IInv, Typed, Stages
  <2>6. Typed' BY <2>1, <2>3, <2>5 DEF IInv, Typed, Stages
  <2>8. AtWork' BY <1>2, <2>1 DEF AtWork, Current, Stages
  <2>9. Open'
    <3>1. closed[Current.layer.ticket] = 0 /\ Current.layer.ticket = TicketOf(Len(results) + 1)
      BY <1>1, <1>2, Untouched
    <3>2. Len(results) + 1 \in Eligible(plan.items)
      <4>1. Len(results) + 1 \in 1..Len(plan.items) BY <1>2, Lists DEF IInv
      <4> QED BY <1>2, <4>1, Lists DEF IInv, Current
    <3>3. PICK i \in Eligible(plan.items) : i = Len(results) + 1 BY <3>2
    <3>4. /\ Current = plan.items[i] /\ Len(results)' = Len(results) /\ Eligible(plan.items)' = Eligible(plan.items)
          /\ TicketOf(i)' = TicketOf(i) /\ TicketOf(i) = Current.layer.ticket
      BY <2>1, <3>1, <3>3 DEF Current, TicketOf
    <3>5. (flight.ticket \notin touched => Safe(account[flight.ticket], flight))'
      BY <1>2, <2>1 DEF Safe
    <3>7. (flight').ticket = TicketOf(i) /\ (flight').volume = IF command.close THEN plan.items[i].volume ELSE 0
      BY <1>2, <2>1, <3>4
    <3> QED BY <1>2, <2>1, <3>1, <3>3, <3>4, <3>5, <3>7 DEF Open
  <2> QED BY <2>4, <2>6, <2>8, <2>9 DEF IInv
<1> QED BY <1>3, <1>4

\* What is open, by the item it belongs to.
LEMMA OpenItem ==
    ASSUME IInv, RequestInv, flight # None
    PROVE  /\ flight \in Requests /\ flight.ticket \in Tickets /\ closed[flight.ticket] = 0
           /\ ~command.preview
           /\ pc \in {"sent", "item", "done"} /\ (pc # "sent" => Uncertain)
           /\ \E i \in 1..Len(plan.items) :
                /\ i \in Eligible(plan.items) /\ flight.ticket = TicketOf(i)
                /\ flight.volume = IF command.close THEN plan.items[i].volume ELSE 0
                /\ pc = "sent" => i = Len(results) + 1
                /\ pc # "sent" => i \in 1..Len(results) /\ results[i].code = "EXECUTION_UNCERTAIN"
<1>1. PICK i \in Eligible(plan.items) :
         /\ flight.ticket = TicketOf(i)
         /\ flight.volume = IF command.close THEN plan.items[i].volume ELSE 0
         /\ \/ i = Len(results) + 1 /\ pc = "sent"
            \/ i <= Len(results) /\ results[i].code = "EXECUTION_UNCERTAIN"
  BY DEF IInv, Open
<1>2. i \in 1..Len(plan.items) /\ TicketOf(i) \in Tickets /\ DOMAIN results = 1..Len(results) /\ Len(results) \in Nat
  BY Lists DEF IInv
<1>3. i <= Len(results) => i \in 1..Len(results) BY <1>2
<1>4. pc = "sent" => i = Len(results) + 1
  <2>1. pc = "sent" => ~Uncertain BY DEF RequestInv, Doubt
  <2> QED BY <1>1, <1>2, <1>3, <2>1 DEF Uncertain
<1>5. /\ flight \in Requests /\ closed[flight.ticket] = 0 /\ ~command.preview BY DEF IInv, Open, Typed
<1>6. pc \in {"sent", "item", "done"} /\ (pc # "sent" => Uncertain) BY DEF RequestInv, Doubt
<1> QED BY <1>1, <1>2, <1>3, <1>4, <1>5, <1>6

\* What a fill may close.
LEMMA FillsType ==
    ASSUME IInv, RequestInv, flight # None, NEW v \in Fills
    PROVE  v \in Nat /\ v <= flight.volume /\ (~command.close => v = 0)
<1>1. flight.volume \in Nat BY OpenItem DEF Requests
<1>2. CASE ~command.close BY <1>1, <1>2 DEF Fills
<1>3. CASE command.close /\ filling = "FOK" BY <1>1, <1>3 DEF Fills
<1>4. CASE command.close /\ filling # "FOK"
  <2>1. v \in 1..flight.volume BY <1>4 DEF Fills
  <2> QED BY <1>1, <1>4, <2>1
<1> QED BY <1>2, <1>3, <1>4

\* The broker fills the request, and the EA hears of it or does not.
LEMMA FillInv ==
    ASSUME IInv, RequestInv, NEW v, Filled(v) \/ FilledLate(v)
    PROVE  IInv'
<1> DEFINE u == flight.ticket
           p == account[u]
<1>1. /\ flight # None /\ v \in Fills
      /\ p.volume > 0 /\ p.volume >= flight.volume
      /\ account' = [account EXCEPT ![u] = IF command.close THEN [p EXCEPT !.volume = @ - v]
                                                            ELSE [p EXCEPT !.sl = flight.sl, !.tp = flight.tp]]
      /\ closed' = [closed EXCEPT ![u] = @ + v]
      /\ moved' = IF command.close THEN moved ELSE moved \cup {u}
      /\ flight' = None
      /\ UNCHANGED <<quote, allowed, touched, meddled, command, filling, plan, results, seen, request, status>>
      /\ (pc = "sent" /\ pc' = "answered" /\ deal' = v) \/ (pc # "sent" /\ pc' = pc /\ deal' = deal)
  BY DEF Filled, FilledLate, Fill, fixed
<1>2. v \in Nat /\ v <= flight.volume /\ (~command.close => v = 0) BY <1>1, FillsType
<1>3. /\ flight \in Requests /\ u \in Tickets /\ closed[u] = 0 /\ ~command.preview
      /\ pc \in {"sent", "item", "done"} /\ (pc # "sent" => Uncertain)
  BY <1>1, OpenItem
<1>4. PICK i \in 1..Len(plan.items) :
                /\ i \in Eligible(plan.items) /\ u = TicketOf(i)
                /\ flight.volume = IF command.close THEN plan.items[i].volume ELSE 0
                /\ pc = "sent" => i = Len(results) + 1
                /\ pc # "sent" => i \in 1..Len(results) /\ results[i].code = "EXECUTION_UNCERTAIN"
  BY <1>1, OpenItem, Zenon
<1>5. p \in Positions /\ p.ticket = u /\ account \in [Tickets -> Positions] /\ closed \in [Tickets -> Nat]
  BY <1>3 DEF IInv, Typed
<1>6. account' \in [Tickets -> Positions] /\ Tickets' = Tickets /\ \A t \in Tickets : (account')[t].ticket = t
  <2>1. [p EXCEPT !.volume = p.volume - v] \in Positions /\ [p EXCEPT !.volume = p.volume - v].ticket = u
    <3>1. p.volume - v \in Nat BY <1>1, <1>2, <1>3, <1>5 DEF Positions, Requests
    <3> QED BY <1>5, <3>1 DEF Positions
  <2>2. [p EXCEPT !.sl = flight.sl, !.tp = flight.tp] \in Positions /\ [p EXCEPT !.sl = flight.sl, !.tp = flight.tp].ticket = u
    BY <1>3, <1>5 DEF Positions, Requests
  <2> DEFINE w == IF command.close THEN [p EXCEPT !.volume = p.volume - v]
                                   ELSE [p EXCEPT !.sl = flight.sl, !.tp = flight.tp]
  <2>3. w \in Positions /\ w.ticket = u BY <2>1, <2>2
  <2>4. account' = [account EXCEPT ![u] = w] BY <1>1
  <2> HIDE DEF w
  <2>5. account' \in [Tickets -> Positions] /\ DOMAIN account' = Tickets BY <1>3, <1>5, <2>3, <2>4
  <2>6. \A t \in Tickets : (account')[t].ticket = t BY <1>3, <1>5, <2>3, <2>4 DEF IInv, Typed
  <2> QED BY <2>5, <2>6 DEF Tickets
<1>7. closed' \in [Tickets -> Nat] /\ (closed')[u] = v /\ \A t \in Tickets : t # u => (closed')[t] = closed[t]
  BY <1>1, <1>2, <1>3, <1>5
<1>8. moved' \subseteq Tickets BY <1>1, <1>3 DEF IInv, Typed
<1>9. Len(results) \in Nat /\ DOMAIN results = 1..Len(results) /\ Len(plan.items) \in Nat
      /\ \A j \in 1..Len(plan.items) : TicketOf(j) = u => j = i
  BY <1>4, Lists DEF IInv
<1>10. v > 0 => command.close /\ v <= plan.items[i].volume BY <1>2, <1>4
<1> HIDE DEF u, p
<1>t. Typed' BY <1>1, <1>2, <1>3, <1>6, <1>7, <1>8 DEF IInv, Typed, Stages
<1>p. Planning'
  <2>1. Known' = Known BY <1>6 DEF Known
  <2>2. pc # "planning" /\ pc' # "planning" BY <1>1, <1>3
  <2> QED BY <1>1, <2>1, <2>2 DEF IInv, Planning
<1>w. AtWork' BY <1>1, <1>3 DEF IInv, AtWork, Current, Stages
<1>o. Open' BY <1>1 DEF Open
<1>s. Shares'
  <2> SUFFICES ASSUME NEW t \in Tickets, (closed')[t] > 0 PROVE
        /\ command.close /\ ~command.preview
        /\ \E k \in Eligible(plan.items) : /\ t = TicketOf(k) /\ (closed')[t] <= plan.items[k].volume
                                           /\ k <= Len(results) \/ (k = Len(results) + 1 /\ pc' = "answered")
    BY <1>1, <1>6 DEF Shares, TicketOf
  <2>1. CASE t = u BY <1>1, <1>3, <1>4, <1>7, <1>9, <1>10, <2>1
  <2>2. CASE t # u
    <3>1. closed[t] > 0 /\ (closed')[t] = closed[t] BY <1>7, <2>2
    <3> QED BY <1>3, <3>1 DEF IInv, Shares
  <2> QED BY <2>1, <2>2
<1>a. Answer'
  <2> SUFFICES ASSUME command.close, pc' = "answered" PROVE (closed')[Current.layer.ticket] = deal'
    BY <1>1 DEF Answer, Current
  <2>1. pc = "sent" /\ deal' = v BY <1>1, <1>3
  <2>2. u = Current.layer.ticket BY <1>4, <2>1 DEF TicketOf, Current
  <2> QED BY <1>7, <2>1, <2>2
<1>m. Moves'
  <2>1. Uncertain' <=> Uncertain BY <1>1 DEF Uncertain
  <2>2. CASE command.close BY <1>1, <2>2 DEF IInv, Moves
  <2>3. CASE ~command.close BY <1>1, <1>3, <2>1, <2>3 DEF Moves
  <2> QED BY <2>2, <2>3
<1>c. ConfirmedIsOurs'
  <2> SUFFICES ASSUME command.close, NEW k \in 1..Len(results)
               PROVE  results[k].volume =
                        IF results[k].code = "EXECUTION_UNCERTAIN" THEN 0 ELSE (closed')[TicketOf(k)]
    BY <1>1, <1>9 DEF ConfirmedIsOurs, TicketOf
  <2>1. results[k].volume = IF results[k].code = "EXECUTION_UNCERTAIN" THEN 0 ELSE closed[TicketOf(k)]
    BY <1>9 DEF IInv, ConfirmedIsOurs, TicketOf
  <2>2. k \in 1..Len(plan.items)
    <3>1. Len(results) <= Len(plan.items) BY DEF IInv, Typed
    <3> QED BY <1>9, <3>1
  <2>3. CASE TicketOf(k) = u
    <3>1. k = i BY <1>9, <2>2, <2>3
    <3>2. pc # "sent" BY <1>4, <1>9, <3>1
    <3> QED BY <1>4, <2>1, <3>1, <3>2
  <2>4. CASE TicketOf(k) # u
    <3>1. TicketOf(k) \in Tickets BY <2>2, Lists DEF IInv
    <3> QED BY <1>7, <2>1, <2>4, <3>1
  <2> QED BY <2>3, <2>4
<1> QED BY <1>t, <1>p, <1>w, <1>o, <1>s, <1>a, <1>m, <1>c DEF IInv

\* The request lapses, or there was nothing to do.
LEMMA GoneInv == ASSUME IInv, RequestInv, Lapse \/ NothingToDo PROVE IInv'
<1>1. /\ flight' = None
      /\ UNCHANGED <<account, quote, allowed, touched, meddled, command, filling, plan, results, seen, request,
                     deal, status, closed, moved>>
      /\ (pc # "sent" /\ flight # None /\ pc' = pc) \/ (pc = "sent" /\ pc' = "answered" /\ ~command.close)
  BY DEF Lapse, NothingToDo, market, fixed
<1>2. pc = "sent" \/ pc \in {"item", "done"} BY <1>1 DEF RequestInv, Doubt
<1>3. Tickets' = Tickets BY <1>1 DEF Tickets
<1>4. Planning' /\ Shares' /\ Answer' /\ Moves' /\ ConfirmedIsOurs' BY <1>1, <1>2, <1>3, Quiet
<1>5. Typed' BY <1>1, <1>2, <1>3 DEF IInv, Typed, Stages
<1>6. AtWork' BY <1>1, <1>2 DEF IInv, AtWork, Current, Stages
<1>7. Open' BY <1>1 DEF Open
<1> QED BY <1>4, <1>5, <1>6, <1>7 DEF IInv

\* The broker rejects the request, or does not answer.
LEMMA UnansweredInv == ASSUME IInv, RequestInv, Rejected \/ Unanswered PROVE IInv'
<1>1. pc = "sent" /\ UNCHANGED <<market, fixed, plan, status, closed, moved>> BY DEF Rejected, Unanswered
<1>2. Len(results) < Len(plan.items) BY <1>1 DEF IInv, AtWork, Stages
<1>3. closed[Current.layer.ticket] = 0 BY <1>1, <1>2, Untouched
<1>4. {"BROKER_REJECTED", "EXECUTION_UNCERTAIN"} \subseteq Codes BY DEF Codes
<1>5. CASE Rejected
  <2>1. flight' = None /\ Done("BROKER_REJECTED", 0) BY <1>5 DEF Rejected
  <2> QED BY <1>1, <1>2, <1>3, <1>4, <2>1, DoneInv
<1>6. CASE Unanswered
  <2>1. flight' = flight /\ Done("EXECUTION_UNCERTAIN", 0) BY <1>6 DEF Unanswered
  <2> QED BY <1>1, <1>2, <1>3, <1>4, <2>1, DoneInv
<1> QED BY <1>5, <1>6

\* The evidence after an acceptance.
LEMMA EvidenceInv == ASSUME IInv, RequestInv, Evidence PROVE IInv'
<1>1. pc = "answered" /\ UNCHANGED <<market, fixed, plan, flight, status, closed, moved>> BY DEF Evidence
<1>2. Len(results) < Len(plan.items) /\ seen.ticket = Current.layer.ticket BY <1>1 DEF IInv, AtWork, Stages
<1>3. deal \in Nat /\ (command.close => closed[Current.layer.ticket] = deal) BY <1>1 DEF IInv, Typed, Answer
<1>4. {"CONFIRMED", "CONFIRMED_PARTIAL", "EXECUTION_UNCERTAIN"} \subseteq Codes BY DEF Codes
<1>5. seen \in Positions /\ account[seen.ticket] \in Positions
  <2>1. Current.layer.ticket \in Tickets
    <3>1. Len(results) + 1 \in 1..Len(plan.items) BY <1>2, Lists DEF IInv
    <3> QED BY <3>1, Lists DEF IInv, Current, TicketOf
  <2> QED BY <1>1, <1>2, <2>1 DEF IInv, Typed, Stages
<1>6. CASE Done("EXECUTION_UNCERTAIN", 0) BY <1>1, <1>2, <1>4, <1>6, DoneInv
<1>7. CASE command.close /\ \E code \in {"CONFIRMED", "CONFIRMED_PARTIAL"} : Done(code, deal)
  <2>1. PICK code \in {"CONFIRMED", "CONFIRMED_PARTIAL"} : Done(code, deal) BY <1>7
  <2> QED BY <1>1, <1>2, <1>3, <1>4, <1>7, <2>1, DoneInv
<1>8. CASE ~command.close /\ \E after \in Positions : after.volume > 0 /\ Done("CONFIRMED", after.volume)
  <2>1. PICK after \in Positions : after.volume > 0 /\ Done("CONFIRMED", after.volume) BY <1>8
  <2>2. after.volume \in Nat BY DEF Positions
  <2> QED BY <1>1, <1>2, <1>4, <1>8, <2>1, <2>2, DoneInv
<1>9. PICK after \in {account[seen.ticket], seen}, recorded \in BOOLEAN :
         IF command.close
         THEN IF recorded /\ deal > 0 /\ CloseSeen(after)
              THEN Done(IF Attributed(after) < Current.volume THEN "CONFIRMED_PARTIAL" ELSE "CONFIRMED",
                        Attributed(after))
              ELSE Done("EXECUTION_UNCERTAIN", 0)
         ELSE IF StopSeen(after) THEN Done("CONFIRMED", after.volume)
              ELSE Done("EXECUTION_UNCERTAIN", 0)
  BY DEF Evidence
<1>10. Attributed(after) = deal /\ after \in Positions BY <1>5 DEF Attributed
<1>11. StopSeen(after) => after.volume > 0 BY DEF StopSeen
<1> QED BY <1>6, <1>7, <1>8, <1>9, <1>10, <1>11

\* The result is made.
LEMMA ReportInv == ASSUME IInv, RequestInv, Report PROVE IInv'
<1>1. /\ pc = "item" /\ pc' = "done"
      /\ UNCHANGED <<account, quote, allowed, touched, meddled, command, filling, plan, results, seen, request,
                     flight, deal, closed, moved>>
      /\ \E protected : status' = Status(protected)
  BY DEF Report, market, fixed
<1>2. Tickets' = Tickets BY <1>1 DEF Tickets
<1>3. Planning' /\ Shares' /\ Answer' /\ Moves' /\ ConfirmedIsOurs' BY <1>1, <1>2, Quiet
<1>4. status' \in {"SUCCEEDED", "PARTIAL", "FAILED", "UNCERTAIN"}
  <2>1. PICK protected : status' = Status(protected) BY <1>1
  <2> QED BY <2>1 DEF Status
<1>5. Typed' BY <1>1, <1>2, <1>4 DEF IInv, Typed, Stages
<1>6. AtWork' BY <1>1 DEF AtWork, Stages
<1>7. Open' BY <1>1 DEF IInv, Open, TicketOf, Safe
<1> QED BY <1>3, <1>5, <1>6, <1>7 DEF IInv

\* The trader changes a position.
LEMMA MeddleInv == ASSUME IInv, RequestInv, NEW t \in Tickets, Meddle(t) PROVE IInv'
<1>1. /\ pc # "planning" /\ touched' = touched \cup {t} /\ meddled' = meddled + 1
      /\ UNCHANGED <<quote, allowed, command, filling, pc, plan, results, seen, request, flight, deal, status, closed, moved>>
      /\ \/ \E v \in {u \in 0..(account[t].volume - 1) : u % Step = 0} : account' = [account EXCEPT ![t].volume = v]
         \/ \E level \in Levels \ {account[t].sl} : account' = [account EXCEPT ![t].sl = level]
         \/ \E level \in Levels \ {account[t].tp} : account' = [account EXCEPT ![t].tp = level]
  BY DEF Meddle, Busy, fixed
<1>2. account[t] \in Positions /\ account[t].ticket = t /\ account \in [Tickets -> Positions]
  BY DEF IInv, Typed
<1>3. PICK w : w \in Positions /\ w.ticket = t /\ account' = [account EXCEPT ![t] = w]
  <2>1. CASE \E v \in {u \in 0..(account[t].volume - 1) : u % Step = 0} : account' = [account EXCEPT ![t].volume = v]
    <3>1. PICK v \in 0..(account[t].volume - 1) : account' = [account EXCEPT ![t].volume = v] BY <2>1
    <3>2. v \in Nat BY <1>2 DEF Positions
    <3>3. [account[t] EXCEPT !.volume = v] \in Positions /\ [account[t] EXCEPT !.volume = v].ticket = t
      BY <1>2, <3>2 DEF Positions
    <3> QED BY <3>1, <3>3
  <2>2. CASE \E level \in Levels \ {account[t].sl} : account' = [account EXCEPT ![t].sl = level]
    <3>1. PICK level \in Levels : account' = [account EXCEPT ![t].sl = level] BY <2>2
    <3>2. level \in Nat BY MarketAssumption
    <3>3. [account[t] EXCEPT !.sl = level] \in Positions /\ [account[t] EXCEPT !.sl = level].ticket = t
      BY <1>2, <3>2 DEF Positions
    <3> QED BY <3>1, <3>3
  <2>3. CASE \E level \in Levels \ {account[t].tp} : account' = [account EXCEPT ![t].tp = level]
    <3>1. PICK level \in Levels : account' = [account EXCEPT ![t].tp = level] BY <2>3
    <3>2. level \in Nat BY MarketAssumption
    <3>3. [account[t] EXCEPT !.tp = level] \in Positions /\ [account[t] EXCEPT !.tp = level].ticket = t
      BY <1>2, <3>2 DEF Positions
    <3> QED BY <3>1, <3>3
  <2> QED BY <1>1, <2>1, <2>2, <2>3
<1>4. account' \in [Tickets -> Positions] /\ Tickets' = Tickets /\ \A u \in Tickets : (account')[u].ticket = u
  <2>1. account' \in [Tickets -> Positions] /\ DOMAIN account' = Tickets BY <1>2, <1>3
  <2>2. \A u \in Tickets : (account')[u].ticket = u BY <1>2, <1>3 DEF IInv, Typed
  <2> QED BY <2>1, <2>2 DEF Tickets
<1>5. \A u \in Tickets : u # t => (account')[u] = account[u] BY <1>2, <1>3
<1>6. Planning' /\ Shares' /\ Answer' /\ Moves' /\ ConfirmedIsOurs' BY <1>1, <1>4, Quiet
<1>7. Typed' BY <1>1, <1>4 DEF IInv, Typed
<1>8. AtWork'
  <2>1. pc = "reread" /\ request.ticket \notin touched' => Safe(account[request.ticket], request)'
    <3> SUFFICES ASSUME pc = "reread", request.ticket \notin touched' PROVE Safe(account[request.ticket], request)'
      OBVIOUS
    <3>1. request.ticket = seen.ticket /\ seen.ticket = Current.layer.ticket /\ Len(results) < Len(plan.items)
          /\ request.ticket # t /\ request.ticket \notin touched /\ Safe(account[request.ticket], request)
      BY <1>1 DEF IInv, AtWork, Stages
    <3>2. request.ticket \in Tickets
      <4>1. Len(results) + 1 \in 1..Len(plan.items) BY <3>1, Lists DEF IInv
      <4> QED BY <3>1, <4>1, Lists DEF IInv, Current, TicketOf
    <3>3. (account')[request.ticket] = account[request.ticket] BY <1>5, <3>1, <3>2
    <3> QED BY <1>1, <3>1, <3>3 DEF Safe
  <2>2. pc = "prepared" => Safe(seen, request)' BY <1>1 DEF IInv, AtWork, Safe
  <2> QED BY <1>1, <2>1, <2>2 DEF IInv, AtWork, Current, Stages
<1>9. Open'
  <2> SUFFICES ASSUME flight # None PROVE Open' BY <1>1 DEF Open
  <2>1. flight.ticket \in Tickets BY OpenItem
  <2>2. flight.ticket \notin touched' => Safe(account[flight.ticket], flight)'
    <3> SUFFICES ASSUME flight.ticket \notin touched' PROVE Safe(account[flight.ticket], flight)' OBVIOUS
    <3>1. (account')[flight.ticket] = account[flight.ticket] BY <1>1, <1>5, <2>1
    <3>2. Safe(account[flight.ticket], flight) BY <1>1 DEF IInv, Open
    <3> QED BY <1>1, <3>1, <3>2 DEF Safe
  <2> QED BY <1>1, <2>2 DEF IInv, Open, TicketOf
<1> QED BY <1>6, <1>7, <1>8, <1>9 DEF IInv

\* The market moves.
LEMMA MoveInv == ASSUME IInv, RequestInv, Move PROVE IInv'
<1>1. /\ pc # "planning"
      /\ UNCHANGED <<account, touched, meddled, command, filling, pc, plan, results, seen, request, flight, deal, status, closed, moved>>
      /\ quote' \in Quotes
  BY DEF Move, Busy, fixed, IInv, Typed
<1>2. Tickets' = Tickets BY <1>1 DEF Tickets
<1>3. Planning' /\ Shares' /\ Answer' /\ Moves' /\ ConfirmedIsOurs' BY <1>1, <1>2, Quiet
<1>4. Typed' BY <1>1, <1>2 DEF IInv, Typed
<1>5. AtWork' BY <1>1 DEF IInv, AtWork, Current, Stages, Safe
<1>6. Open' BY <1>1 DEF IInv, Open, TicketOf, Safe
<1> QED BY <1>3, <1>4, <1>5, <1>6 DEF IInv

(***************************************************************************)
(* The theorems.                                                           *)
(***************************************************************************)

\* Whatever broker, market and trader do, the invariant holds.
THEOREM Invariance == Spec => []IInv
<1>1. Init => IInv
  <2> SUFFICES ASSUME Init PROVE IInv OBVIOUS
  <2>1. PICK c \in Cases : account = c.account /\ command = c.command BY DEF Init
  <2>2. /\ quote \in Quotes /\ pc = "planning" /\ plan = NoPlan("OK", command.side)
        /\ results = <<>> /\ seen = None /\ request = None /\ flight = None /\ deal = 0 /\ status = None
        /\ closed = [t \in Tickets |-> 0] /\ moved = {} /\ touched = {} /\ meddled = 0
    BY DEF Init
  <2>3. Sound(plan, command, Known) /\ plan.items = <<>> BY <2>2, NoPlanSound
  <2>4. Len(<<>>) = 0 /\ <<>> \in Seq(Outcomes) /\ DOMAIN results = {} BY <2>2
  <2>5. Typed
    <3>1. command.part \in Nat BY <2>1, CasesAssumption, PartsAssumption
    <3> QED BY <2>1, <2>2, <2>3, <2>4, <3>1, CasesAssumption DEF Typed, Stages, Tickets
  <2>6. Planning BY <2>2, <2>3 DEF Planning
  <2>7. AtWork /\ Open /\ Shares /\ Answer /\ Moves /\ ConfirmedIsOurs
    BY <2>2, <2>4 DEF AtWork, Open, Shares, Answer, Moves, ConfirmedIsOurs, Stages
  <2> QED BY <2>5, <2>6, <2>7 DEF IInv
<1>2. IInv /\ RequestInv /\ [Next]_vars => IInv'
  <2> SUFFICES ASSUME IInv, RequestInv, [Next]_vars PROVE IInv' OBVIOUS
  <2>1. CASE UNCHANGED vars
    <3>1. UNCHANGED <<account, quote, allowed, touched, meddled, command, filling, pc, plan, results, seen, request,
                      flight, deal, status, closed, moved>>
      BY <2>1 DEF vars, market, fixed
    <3>2. Typed' /\ Planning' BY <3>1 DEF IInv, Typed, Planning, Tickets, Known
    <3>3. AtWork' /\ Open' BY <3>1 DEF IInv, AtWork, Open, Current, TicketOf, Safe
    <3>4. Shares' /\ Answer' BY <3>1 DEF IInv, Shares, Answer, Tickets, Current, TicketOf
    <3>5. Moves' /\ ConfirmedIsOurs' BY <3>1 DEF IInv, Moves, ConfirmedIsOurs, Uncertain
    <3> QED BY <3>2, <3>3, <3>4, <3>5 DEF IInv
  <2>2. CASE Next
    BY <2>2, MakePlanInv, PassInv, ReadLiveInv, PrepareInv, RereadInv, OrderSendInv, FillInv, GoneInv,
       UnansweredInv, EvidenceInv, ReportInv, MeddleInv, MoveInv DEF Next
  <2> QED BY <2>1, <2>2
<1> QED BY <1>1, <1>2, RequestInvariance, PTL DEF Spec

\* Every variable has its type; an item is at work exactly between its first
\* read and its evidence.
THEOREM TypeCorrect == Spec => []TypeOK
<1>1. IInv => TypeOK
  <2> SUFFICES ASSUME IInv PROVE TypeOK OBVIOUS
  <2>1. \A t \in Tickets : account[t].volume \in Nat /\ account[t].sl \in Nat /\ account[t].tp \in Nat
    BY DEF IInv, Typed, Positions
  <2>2. \A i \in DOMAIN results : results[i].code \in Codes /\ results[i].volume \in Nat
    BY Lists DEF IInv, Outcomes
  <2> QED BY <2>1, <2>2 DEF IInv, Typed, TypeOK, Stages
<1> QED BY <1>1, Invariance, PTL

\* What a result confirms is what the EA's own deals closed, however broker and
\* trader interleave with it.
THEOREM Confirms == Spec => []ConfirmedIsOurs
<1>1. IInv => ConfirmedIsOurs BY DEF IInv
<1> QED BY <1>1, Invariance, PTL

\* Only a position that the trader changed since the last read of it may have
\* its stop loosened, its target changed or a remainder left.
THEOREM TightensOnly == Spec => NeverLoosens
<1> DEFINE Kind(t) == /\ account'[t].tp = account[t].tp
                      /\ ~Worse(account[t], account'[t].sl, account[t].sl)
                      /\ account'[t].volume # account[t].volume /\ filling = "FOK" =>
                             account'[t].volume \notin 1..(Minimum - 1)
<1>1. ASSUME IInv, RequestInv, [Next]_vars, meddled' = meddled, NEW t \in Tickets \ touched PROVE Kind(t)
  <2>1. account[t] \in Positions /\ account \in [Tickets -> Positions] /\ meddled \in Nat
    BY <1>1 DEF IInv, Typed
  <2>2. ~Worse(account[t], account[t].sl, account[t].sl) BY <2>1 DEF Worse, Positions
  <2>3. CASE account'[t] = account[t] BY <2>2, <2>3
  <2>4. CASE account'[t] # account[t]
    <3>1. ~\E u \in Tickets : Meddle(u) BY <1>1, <2>1 DEF Meddle
    <3>2. PICK v : Filled(v) \/ FilledLate(v)
      BY <1>1, <2>4, <3>1 DEF Next, vars, market, MakePlan, Pass, ReadLive, Prepare, Reread, Refuse, OrderSend,
                 Lapse, NothingToDo, Rejected, Unanswered, Evidence, Report, Move
    <3> DEFINE p == account[flight.ticket]
    <3>3. /\ flight # None /\ v \in Fills
          /\ account' = [account EXCEPT ![flight.ticket] = IF command.close THEN [p EXCEPT !.volume = @ - v]
                                                   ELSE [p EXCEPT !.sl = flight.sl, !.tp = flight.tp]]
      BY <3>2 DEF Filled, FilledLate, Fill
    <3>4. flight.ticket = t BY <2>1, <2>4, <3>3
    <3>5. Safe(account[t], flight) BY <1>1, <3>3, <3>4 DEF IInv, Open
    <3>6. v \in Nat BY <1>1, <3>3, FillsType
    <3>7. CASE command.close
      <4>1. account'[t] = [account[t] EXCEPT !.volume = account[t].volume - v] BY <2>1, <3>3, <3>4, <3>7
      <4>2. /\ account'[t].tp = account[t].tp /\ account'[t].sl = account[t].sl
            /\ account'[t].volume = account[t].volume - v
        BY <2>1, <4>1 DEF Positions
      <4>3. filling = "FOK" => v = flight.volume BY <3>3, <3>7 DEF Fills
      <4>4. account[t].volume - flight.volume \notin 1..(Minimum - 1) BY <3>5, <3>7 DEF Safe
      <4> QED BY <2>2, <4>2, <4>3, <4>4
    <3>8. CASE ~command.close
      <4>1. account'[t] = [account[t] EXCEPT !.sl = flight.sl, !.tp = flight.tp] BY <2>1, <3>3, <3>4, <3>8
      <4>2. /\ account'[t].tp = flight.tp /\ account'[t].sl = flight.sl
            /\ account'[t].volume = account[t].volume
        BY <2>1, <4>1 DEF Positions
      <4> QED BY <3>5, <3>8, <4>2 DEF Safe
    <3> QED BY <3>7, <3>8
  <2> QED BY <2>3, <2>4
<1>2. IInv /\ RequestInv /\ [Next]_vars => [meddled' = meddled => \A t \in Tickets \ touched : Kind(t)]_vars
  BY <1>1
<1> QED BY <1>2, Invariance, RequestInvariance, PTL DEF Spec, NeverLoosens

\* The sums of what was closed.
LEMMA ClosedSum ==
    ASSUME IInv
    PROVE  /\ SumFunction(closed) = SumFunctionOnSet(closed, Tickets)
           /\ SumFunction(closed) \in Nat
           /\ \A t \in Tickets : closed[t] <= SumFunction(closed)
           /\ SumFunction(closed) > 0 => \E t \in Tickets : closed[t] > 0
<1>1. IsFiniteSet(Tickets) /\ \A t \in Tickets : closed[t] \in Nat BY DEF IInv, Typed
<1>2. SumFunction(closed) = SumFunctionOnSet(closed, Tickets) BY DEF SumFunction, IInv, Typed
<1> QED BY <1>1, <1>2, SumNatural

\* What is planned, item by item.
LEMMA PlannedFits ==
    ASSUME IInv
    PROVE  /\ plan.planned \in Int
           /\ \A g : (\A i \in Eligible(plan.items) : g[i] \in Nat /\ g[i] <= plan.items[i].volume)
                     => SumFunctionOnSet(g, Eligible(plan.items)) <= plan.planned
<1> DEFINE S == Eligible(plan.items)
           f == [i \in 1..Len(plan.items) |-> plan.items[i].volume]
<1>1. plan.items \in Seq(Items) /\ plan.planned = Planned(plan.items) BY DEF IInv, Planning, Sound
<1>2. \A i \in 1..Len(plan.items) : f[i] = plan.items[i].volume /\ plan.items[i].volume \in Int
  BY <1>1, EligibleSet
<1> HIDE DEF f
<1>3. plan.planned = SumFunctionOnSet(f, S) /\ plan.planned \in Int BY <1>1, <1>2, PlannedSum
<1>4. IsFiniteSet(S) /\ S \subseteq 1..Len(plan.items) BY <1>1, EligibleSet
<1> HIDE DEF S
<1>5. ASSUME NEW g, \A i \in S : g[i] \in Nat /\ g[i] <= plan.items[i].volume
      PROVE  SumFunctionOnSet(g, S) <= plan.planned
  <2>1. \A i \in S : g[i] \in Int /\ f[i] \in Int /\ g[i] <= f[i] BY <1>2, <1>4, <1>5
  <2> QED BY <1>3, <1>4, <2>1, SumAtMost
<1> QED BY <1>3, <1>5 DEF S

\* A close takes what was asked for and no more, and nothing else closes
\* anything, whatever may still be filled.
THEOREM Targets == Spec => []WithinTarget
<1>1. ASSUME IInv, RequestInv PROVE WithinTarget
  <2> USE <1>1
  <2> DEFINE open == IF flight = None THEN 0 ELSE flight.volume
             S == Eligible(plan.items)
  <2>1. CASE command.close /\ ~command.preview
    <3> DEFINE used == [t \in Tickets |-> closed[t] + IF flight # None /\ flight.ticket = t THEN flight.volume ELSE 0]
               m == [i \in S |-> TicketOf(i)]
               f == [i \in S |-> used[m[i]]]
    <3>1. IsFiniteSet(Tickets) /\ \A t \in Tickets : closed[t] \in Nat /\ used[t] \in Nat
      <4>1. \A t \in Tickets : closed[t] \in Nat BY DEF IInv, Typed
      <4>2. flight # None => flight.volume \in Nat BY OpenItem DEF Requests
      <4> QED BY <4>1, <4>2 DEF IInv, Typed
    <3>2. SumFunctionOnSet(used, Tickets) = SumFunction(closed) + open
      <4>1. SumFunction(closed) = SumFunctionOnSet(closed, Tickets) /\ SumFunction(closed) \in Nat BY ClosedSum
      <4>2. CASE flight = None
        <5>1. \A t \in Tickets : closed[t] \in Int /\ used[t] = closed[t] BY <3>1, <4>2
        <5> HIDE DEF used
        <5> QED BY <3>1, <4>1, <4>2, <5>1, SumSame
      <4>3. CASE flight # None
        <5>1. flight.volume \in Nat /\ flight.ticket \in Tickets BY <4>3, OpenItem DEF Requests
        <5>2. PICK x \in Tickets : x = flight.ticket BY <5>1
        <5>3. used[x] = closed[x] + flight.volume BY <4>3, <5>2
        <5>4. \A t \in Tickets \ {x} : used[t] = closed[t]
          <6>1. \A t \in Tickets \ {x} : used[t] = closed[t] + 0 BY <5>2
          <6> HIDE DEF used
          <6> QED BY <3>1, <6>1
        <5>5. \A t \in Tickets : closed[t] \in Int /\ used[t] \in Int BY <3>1
        <5> HIDE DEF used
        <5>6. SumFunctionOnSet(used, Tickets) = SumFunctionOnSet(closed, Tickets) + (used[x] - closed[x])
          BY <3>1, <5>2, <5>4, <5>5, SumChange
        <5> QED BY <3>1, <4>1, <4>3, <5>1, <5>2, <5>3, <5>6
      <4> QED BY <4>2, <4>3
    <3>3. \A t \in Tickets : used[t] # 0 => \E i \in S : TicketOf(i) = t /\ used[t] <= plan.items[i].volume
      <4> SUFFICES ASSUME NEW t \in Tickets, used[t] # 0
                   PROVE  \E i \in S : TicketOf(i) = t /\ used[t] <= plan.items[i].volume
        OBVIOUS
      <4>1. CASE flight # None /\ flight.ticket = t
        <5>1. closed[t] = 0 /\ flight.volume \in Nat BY <4>1, OpenItem DEF Requests
        <5>2. used[t] = flight.volume BY <4>1, <5>1
        <5>3. PICK i \in S : t = TicketOf(i) /\ flight.volume = plan.items[i].volume
          BY <2>1, <4>1, OpenItem
        <5>4. plan.items[i].volume \in Nat BY <5>1, <5>3
        <5> HIDE DEF used
        <5> QED BY <5>1, <5>2, <5>3, <5>4
      <4>2. CASE ~(flight # None /\ flight.ticket = t)
        <5>1. used[t] = closed[t] /\ closed[t] > 0 BY <3>1, <4>2
        <5> HIDE DEF used
        <5> QED BY <5>1 DEF IInv, Shares
      <4> QED BY <4>1, <4>2
    <3>4. S \subseteq 1..Len(plan.items) /\ IsFiniteSet(S)
          /\ \A i \in S : TicketOf(i) \in Tickets /\ \A j \in S : TicketOf(i) = TicketOf(j) => i = j
      <4>1. plan.items \in Seq(Items) BY DEF IInv, Planning, Sound
      <4>2. S \subseteq 1..Len(plan.items) /\ IsFiniteSet(S) BY <4>1, EligibleSet
      <4> HIDE DEF S
      <4> QED BY <4>2, Lists DEF IInv
    <3> HIDE DEF used
    <3>5. \A i \in S : used[TicketOf(i)] <= plan.items[i].volume \/ used[TicketOf(i)] = 0
      <4> HIDE DEF S
      <4> QED BY <3>3, <3>4
    <3>6. \A i \in S : f[i] \in Nat /\ f[i] <= plan.items[i].volume
      <4>1. \A i \in S : plan.items[i].volume >= Minimum /\ plan.items[i].volume \in Int
        <5>1. \A i \in 1..Len(plan.items) : plan.items[i].volume \in Int BY Lists DEF IInv, Items
        <5> QED BY <2>1, <3>4, <5>1 DEF IInv, Planning, Sound
      <4> QED BY <3>1, <3>4, <3>5, <4>1, VolumeAssumption
    <3>7. SumFunctionOnSet(f, S) = SumFunctionOnSet(used, Tickets)
      <4>1. m \in [S -> Tickets] /\ \A x, y \in S : m[x] = m[y] => x = y BY <3>4
      <4>0. IsFiniteSet(S) /\ IsFiniteSet(Tickets) BY <3>1, <3>4
      <4>2. \A x \in S : f[x] \in Int /\ used[m[x]] = f[x] BY <3>6
      <4>3. \A t \in Tickets : used[t] \in Int BY <3>1
      <4>4. \A t \in Tickets : used[t] # 0 => \E i \in S : m[i] = t BY <3>3
      <4> HIDE DEF f, m, S
      <4> QED BY <4>0, <4>1, <4>2, <4>3, <4>4, SumReindexed
    <3>8. SumFunctionOnSet(f, S) <= plan.planned BY <3>6, PlannedFits
    <3>9. plan.planned <= plan.target /\ plan.planned \in Int /\ plan.target \in Nat
      BY <2>1, PlannedFits DEF IInv, Planning, Sound
    <3>10. SumFunction(closed) \in Nat /\ open \in Nat
      <4>1. flight # None => flight.volume \in Nat BY OpenItem DEF Requests
      <4> QED BY <4>1, ClosedSum
    <3> HIDE DEF f, S, open
    <3>11. SumFunction(closed) + open <= plan.target BY <3>2, <3>7, <3>8, <3>9, <3>10
    <3> QED BY <2>1, <3>11 DEF WithinTarget, open
  <2>2. CASE ~(command.close /\ ~command.preview)
    <3>1. \A t \in Tickets : ~(closed[t] > 0) BY <2>2 DEF IInv, Shares
    <3>2. SumFunction(closed) = 0 BY <3>1, ClosedSum
    <3>3. open = 0 BY <2>2, OpenItem
    <3> QED BY <2>2, <3>2, <3>3 DEF WithinTarget
  <2> QED BY <2>1, <2>2
<1> QED BY <1>1, Invariance, RequestInvariance, PTL

\* What the results confirm.
LEMMA ConfirmedSum ==
    ASSUME IInv
    PROVE  /\ Confirmed \in Nat
           /\ \A i \in 1..Len(results) : results[i].volume <= Confirmed
           /\ (\A i \in 1..Len(results) : results[i].volume = 0) => Confirmed = 0
           /\ \A f : (\A i \in 1..Len(results) : f[i] = results[i].volume)
                     => Confirmed = SumFunctionOnSet(f, 1..Len(results))
<1> DEFINE S == 1..Len(results)
           h == [i \in DOMAIN results |-> results[i].volume]
<1>1. DOMAIN results = S /\ Len(results) \in Nat /\ \A i \in S : results[i].volume \in Nat
  BY Lists DEF IInv, Outcomes
<1>2. Confirmed = SumFunctionOnSet(h, S) BY <1>1 DEF Confirmed, SumFunction
<1>3. \A i \in S : h[i] = results[i].volume /\ h[i] \in Nat BY <1>1
<1>4. IsFiniteSet(S) BY <1>1, FS_Interval
<1> HIDE DEF h, S
<1>5. SumFunctionOnSet(h, S) \in Nat /\ (\A i \in S : h[i] <= SumFunctionOnSet(h, S))
      /\ (SumFunctionOnSet(h, S) > 0 => \E i \in S : h[i] > 0)
  BY <1>3, <1>4, SumNatural
<1>6. ASSUME NEW f, \A i \in S : f[i] = results[i].volume PROVE SumFunctionOnSet(h, S) = SumFunctionOnSet(f, S)
  <2>1. \A i \in S : h[i] \in Int /\ f[i] = h[i] BY <1>3, <1>6
  <2> QED BY <1>4, <2>1, SumSame
<1>7. (\A i \in S : results[i].volume = 0) => Confirmed = 0 BY <1>2, <1>3, <1>5
<1> QED BY <1>2, <1>3, <1>5, <1>6, <1>7 DEF S

\* When every item is dealt with and none is in doubt, the results of a close
\* confirm all that was closed.
LEMMA AllConfirmed ==
    ASSUME IInv, pc = "item", Len(results) = Len(plan.items), ~Uncertain, command.close
    PROVE  Confirmed = SumFunction(closed)
<1> DEFINE S == 1..Len(results)
           m == [i \in S |-> TicketOf(i)]
           f == [i \in S |-> results[i].volume]
<1>1. /\ DOMAIN results = S /\ Len(results) \in Nat /\ \A i \in S : results[i].volume \in Nat
      /\ \A i \in S : TicketOf(i) \in Tickets /\ \A j \in S : TicketOf(i) = TicketOf(j) => i = j
  BY Lists DEF IInv, Outcomes
<1>2. \A i \in S : results[i].volume = closed[TicketOf(i)]
  BY <1>1 DEF IInv, ConfirmedIsOurs, Uncertain, TicketOf
<1>3. IsFiniteSet(S) /\ IsFiniteSet(Tickets) BY <1>1, FS_Interval DEF IInv, Typed
<1>4. m \in [S -> Tickets] /\ \A x, y \in S : m[x] = m[y] => x = y BY <1>1
<1>5. \A x \in S : f[x] \in Int /\ closed[m[x]] = f[x] BY <1>1, <1>2
<1>6. \A t \in Tickets : closed[t] \in Int BY DEF IInv, Typed
<1>7. \A t \in Tickets : closed[t] # 0 => \E i \in S : m[i] = t
  <2> SUFFICES ASSUME NEW t \in Tickets, closed[t] # 0 PROVE \E i \in S : m[i] = t OBVIOUS
  <2>1. closed[t] > 0 BY DEF IInv, Typed
  <2>2. PICK i \in Eligible(plan.items) : t = TicketOf(i) BY <2>1 DEF IInv, Shares
  <2>3. i \in S BY <2>2, Lists DEF IInv
  <2> QED BY <2>2, <2>3
<1>8. Confirmed = SumFunctionOnSet(f, S)
  <2>1. \A i \in S : f[i] = results[i].volume OBVIOUS
  <2> HIDE DEF f
  <2> QED BY <2>1, ConfirmedSum
<1>9. SumFunctionOnSet(f, S) = SumFunctionOnSet(closed, Tickets)
  <2> HIDE DEF f, m, S
  <2> QED BY <1>3, <1>4, <1>5, <1>6, <1>7, SumReindexed
<1> QED BY <1>8, <1>9, ClosedSum

\* What was closed was planned.
LEMMA ClosedPlanned == ASSUME IInv, SumFunction(closed) > 0 PROVE plan.planned > 0 /\ command.close
<1>1. PICK t \in Tickets : closed[t] > 0 BY ClosedSum
<1>2. command.close BY <1>1 DEF IInv, Shares
<1>3. PICK k \in Eligible(plan.items) : t = TicketOf(k) BY <1>1 DEF IInv, Shares
<1> DEFINE S == Eligible(plan.items)
           g == [i \in S |-> plan.items[i].volume]
<1>4. plan.items \in Seq(Items) BY DEF IInv, Planning, Sound
<1>5. IsFiniteSet(S) /\ \A i \in S : plan.items[i].volume \in Int BY <1>4, EligibleSet
<1>6. \A i \in S : plan.items[i].volume >= Minimum BY <1>2 DEF IInv, Planning, Sound
<1>7. \A i \in S : g[i] \in Nat /\ g[i] > 0 /\ g[i] <= plan.items[i].volume BY <1>5, <1>6, VolumeAssumption
<1>8. k \in S BY <1>3
<1> HIDE DEF g, S
<1>9. SumFunctionOnSet(g, S) \in Nat /\ g[k] <= SumFunctionOnSet(g, S)
  <2>1. \A i \in S : g[i] \in Nat BY <1>7
  <2>2. SumFunctionOnSet(g, S) \in Nat /\ \A i \in S : g[i] <= SumFunctionOnSet(g, S) BY <1>5, <2>1, SumNatural
  <2> QED BY <1>8, <2>2
<1>10. SumFunctionOnSet(g, S) <= plan.planned /\ plan.planned \in Int BY <1>7, PlannedFits DEF S
<1>11. g[k] > 0 /\ g[k] \in Nat BY <1>7, <1>8
<1> QED BY <1>2, <1>9, <1>10, <1>11

\* The result says what is so.
LEMMA ReportHonest ==
    ASSUME IInv, RequestInv, Report, ~command.preview
    PROVE  StatusIsHonest'
<1>1. /\ pc = "item" /\ pc' = "done" /\ Len(results) = Len(plan.items)
      /\ UNCHANGED <<command, plan, results, flight, closed, moved>>
  BY DEF Report, fixed
<1>2. PICK protected : status' = Status(protected) BY DEF Report
<1> DEFINE C == Confirmed
           total == SumFunction(closed)
           short == IF C > 0 THEN "PARTIAL" ELSE "FAILED"
<1>3. SUFFICES /\ status' = "SUCCEEDED" /\ command.close => total >= plan.target
               /\ status' = "PARTIAL" /\ command.close => total \in 1..(plan.target - 1)
               /\ status' = "FAILED" => total = 0 /\ moved = {}
               /\ status' # "UNCERTAIN" => flight = None
  BY <1>1 DEF StatusIsHonest
<1>4. C \in Nat /\ total \in Nat /\ plan.target \in Nat /\ plan.planned \in Int
  BY ConfirmedSum, ClosedSum, PlannedFits DEF IInv, Planning, Sound
<1>5. CASE Uncertain
  <2>1. status' = "UNCERTAIN" BY <1>2, <1>5 DEF Status
  <2> QED BY <2>1
<1>6. CASE ~Uncertain /\ command.close
  <2>1. C = total BY <1>1, <1>6, AllConfirmed
  <2>2. plan.planned <= plan.target /\ (plan.code = "OK" <=> plan.planned > 0)
    BY <1>1, <1>6 DEF IInv, Planning, Sound, Rated
  <2>3. total > 0 => plan.planned > 0 BY ClosedPlanned
  <2>4. moved = {} BY <1>6 DEF IInv, Moves
  <2>5. flight = None BY <1>1, <1>6 DEF RequestInv, Doubt
  <2>6. CASE C > 0 /\ C < plan.target
    <3>1. status' = "PARTIAL" BY <1>2, <1>6, <2>6 DEF Status
    <3> HIDE DEF C, total
    <3> QED BY <1>4, <2>1, <2>5, <2>6, <3>1
  <2>7. CASE ~(C > 0 /\ C < plan.target)
    <3>1. status' = IF plan.planned > 0 /\ C < plan.planned THEN short
                    ELSE IF plan.code = "OK" THEN "SUCCEEDED" ELSE "FAILED"
      BY <1>2, <1>6, <2>7 DEF Status
    <3> HIDE DEF C, total
    <3> QED BY <1>4, <2>1, <2>2, <2>3, <2>4, <2>5, <2>7, <3>1
  <2> QED BY <2>6, <2>7
<1>7. CASE ~Uncertain /\ ~command.close
  <2>1. total = 0 BY <1>4, <1>7, ClosedPlanned
  <2>2. flight = None BY <1>1, <1>7 DEF RequestInv, Doubt
  <2>3. moved # {} => C > 0 /\ plan.total > 0
    <3> SUFFICES ASSUME moved # {} PROVE C > 0 /\ plan.total > 0 OBVIOUS
    <3>1. PICK i \in 1..Len(results) : results[i].volume > 0 BY <1>1, <1>7 DEF IInv, Moves
    <3>2. C > 0
      <4>1. results[i].volume <= C /\ results[i].volume \in Nat BY ConfirmedSum, Lists DEF IInv, Outcomes
      <4> HIDE DEF C
      <4> QED BY <1>4, <3>1, <4>1
    <3>3. plan.items # <<>>
      <4>1. Len(<<>>) = 0 /\ \A j \in 1..0 : FALSE OBVIOUS
      <4> QED BY <1>1, <3>1, <4>1
    <3>4. plan.total > 0 BY <3>3 DEF IInv, Planning, Sound
    <3> QED BY <3>2, <3>4
  <2>4. CASE plan.total > 0
    <3>1. status' = IF protected >= plan.target THEN "SUCCEEDED" ELSE short
      BY <1>2, <1>7, <2>4 DEF Status
    <3> HIDE DEF C, total
    <3> QED BY <1>7, <2>1, <2>2, <2>3, <3>1
  <2>5. CASE ~(plan.total > 0)
    <3> HIDE DEF C, total
    <3> QED BY <1>7, <2>1, <2>2, <2>3, <2>5
  <2> QED BY <2>4, <2>5
<1> QED BY <1>5, <1>6, <1>7

\* What a status says of an execution stays true, late fills included.
THEOREM Honest == Spec => []StatusIsHonest
<1>1. Init => StatusIsHonest BY DEF Init, StatusIsHonest
<1>2. ASSUME IInv, RequestInv, StatusIsHonest, [Next]_vars PROVE StatusIsHonest'
  <2>1. CASE Report
    <3>1. CASE command.preview BY <2>1, <3>1 DEF Report, fixed, StatusIsHonest
    <3>2. CASE ~command.preview BY <1>2, <2>1, <3>2, ReportHonest
    <3> QED BY <3>1, <3>2
  <2>2. CASE \E v \in 0..Maximum : Filled(v) \/ FilledLate(v)
    <3>1. PICK v \in 0..Maximum : Filled(v) \/ FilledLate(v) BY <2>2
    <3>2. CASE Filled(v) BY <3>2 DEF Filled, StatusIsHonest
    <3>3. CASE FilledLate(v)
      <4>1. flight # None /\ pc' = pc /\ status' = status BY <3>3 DEF FilledLate, Fill
      <4>2. pc = "done" => status = "UNCERTAIN" BY <1>2, <4>1 DEF RequestInv, Doubt
      <4> QED BY <4>1, <4>2 DEF StatusIsHonest
    <3> QED BY <3>1, <3>2, <3>3
  <2>3. CASE UNCHANGED <<command, pc, plan, flight, status, closed, moved>>
    BY <1>2, <2>3 DEF StatusIsHonest
  <2>4. CASE Lapse BY <1>2, <2>4 DEF Lapse, fixed, StatusIsHonest
  <2>5. CASE pc' # "done" BY <2>5 DEF StatusIsHonest
  <2>6. \/ Report \/ (\E v \in 0..Maximum : Filled(v) \/ FilledLate(v)) \/ Lapse \/ pc' # "done"
        \/ UNCHANGED <<command, pc, plan, flight, status, closed, moved>>
    BY <1>2 DEF Next, vars, market, fixed, MakePlan, Pass, ReadLive, Prepare, Reread, Refuse, Done, OrderSend,
                NothingToDo, Rejected, Unanswered, Evidence, Meddle, Move
  <2> QED BY <2>1, <2>2, <2>3, <2>4, <2>5, <2>6
<1> QED BY <1>1, <1>2, Invariance, RequestInvariance, PTL DEF Spec

-----------------------------------------------------------------------------
(***************************************************************************)
(* What a plan gives to each position.                                     *)
(***************************************************************************)

\* What a list of items gives to a position (Given, of any list).
GivenIn(items, p) ==
    SumFunction([i \in {j \in Eligible(items) : items[j].layer = p} |-> items[i].volume])

\* The eligible item of a position, if there is one, gives it v.
Gets(items, p, v) ==
    \/ \E i \in 1..Len(items) : /\ items[i].code = "ELIGIBLE" /\ items[i].layer = p
                                /\ items[i].volume = v
    \/ v = 0 /\ \A i \in 1..Len(items) : items[i].layer = p => items[i].code # "ELIGIBLE"

\* That is what the position is given.
LEMMA GetsGiven ==
    ASSUME NEW items \in Seq(Items), NEW p, NEW v \in Int, Gets(items, p, v),
           \A i, j \in 1..Len(items) : items[i].layer.ticket = items[j].layer.ticket => i = j
    PROVE  GivenIn(items, p) = v
<1> DEFINE E == {j \in Eligible(items) : items[j].layer = p}
           f == [i \in E |-> items[i].volume]
<1>1. /\ IsFiniteSet(E) /\ E \subseteq 1..Len(items)
      /\ E = {j \in 1..Len(items) : items[j].code = "ELIGIBLE" /\ items[j].layer = p}
  BY EligibleSet, FS_Subset
<1>2. \A i \in E : f[i] \in Int /\ f[i] = items[i].volume
  BY <1>1, EligibleSet
<1>3. GivenIn(items, p) = SumFunctionOnSet(f, E)
  BY DEF GivenIn, SumFunction
<1> HIDE DEF E, f
<1>4. SumFunctionOnSet(f, {}) = 0
  BY <1>1, <1>2, SumUnfolds
<1>5. CASE \E i \in 1..Len(items) : /\ items[i].code = "ELIGIBLE" /\ items[i].layer = p
                                    /\ items[i].volume = v
  <2>1. PICK i \in E : items[i].volume = v
    BY <1>1, <1>5
  <2>2. E \ {i} = {}
    BY <1>1
  <2>3. SumFunctionOnSet(f, E) = f[i] + SumFunctionOnSet(f, E \ {i})
    <3>1. \A x \in E : f[x] \in Int
      BY <1>2
    <3> QED BY <1>1, <3>1, SumRemove
  <2>4. f[i] = v
    BY <1>2, <2>1
  <2>5. SumFunctionOnSet(f, E \ {i}) = 0
    BY <1>4, <2>2
  <2>6. SumFunctionOnSet(f, E) = v + 0
    BY <2>3, <2>4, <2>5
  <2>7. v + 0 = v
    OBVIOUS
  <2> QED BY <1>3, <2>6, <2>7
<1>6. CASE v = 0 /\ \A i \in 1..Len(items) : items[i].layer = p => items[i].code # "ELIGIBLE"
  <2>1. E = {}
    BY <1>1, <1>6
  <2> QED BY <1>3, <1>4, <1>6, <2>1
<1> QED BY <1>5, <1>6 DEF Gets

\* One item more changes what its own position gets, and nothing else.
LEMMA GetsGrows ==
    ASSUME NEW n \in Nat, NEW rows, Apart(rows, n), NEW k \in 1..n,
           NEW items, Listing(items, rows, k - 1), NEW it \in Items, it.layer = rows[k]
    PROVE  /\ Gets(items, rows[k], 0)
           /\ Gets(Append(items, it), rows[k], IF it.code = "ELIGIBLE" THEN it.volume ELSE 0)
           /\ \A j \in 1..(k - 1) : \A v : Gets(items, rows[j], v) => Gets(Append(items, it), rows[j], v)
<1> DEFINE m == Len(items)
           t == Append(items, it)
<1>1. /\ m \in Nat /\ Len(t) = m + 1
      /\ \A i \in 1..m : t[i] = items[i]
      /\ t[m + 1] = it
  BY Appended DEF Listing
<1> HIDE DEF t
<1>2. /\ \A i \in 1..(m + 1) : i = m + 1 \/ i \in 1..m
      /\ \A i \in 1..m : i \in 1..(m + 1)
      /\ m + 1 \in 1..(m + 1)
  BY <1>1
<1>3. \A j \in 1..(k - 1) : j \in 1..n /\ j # k
  OBVIOUS
<1>4. ASSUME NEW j \in 1..(k - 1) PROVE rows[j] # rows[k]
  BY <1>3 DEF Apart
<1>5. \A i \in 1..m : items[i].layer # rows[k]
  BY <1>4 DEF Listing
<1>6. Gets(items, rows[k], 0)
  BY <1>5 DEF Gets
<1>7. Gets(t, rows[k], IF it.code = "ELIGIBLE" THEN it.volume ELSE 0)
  <2>1. CASE it.code = "ELIGIBLE"
    BY <1>1, <1>2, <2>1 DEF Gets
  <2>2. CASE it.code # "ELIGIBLE"
    BY <1>1, <1>2, <1>5, <2>2 DEF Gets
  <2> QED BY <2>1, <2>2
<1>8. ASSUME NEW j \in 1..(k - 1), NEW v, Gets(items, rows[j], v) PROVE Gets(t, rows[j], v)
  BY <1>1, <1>2, <1>4, <1>8 DEF Gets
<1> QED BY <1>6, <1>7, <1>8 DEF t

-----------------------------------------------------------------------------
\* A volume that may be closed of p when left is still to be closed.
DealOf(p, left, v) ==
    /\ v \in Minimum..Maximum /\ v % Step = 0 /\ v <= p.volume
    /\ p.volume - v \notin 1..(Minimum - 1) /\ v <= left

\* Nothing that is a number of steps lies between a floored volume and the volume.
LEMMA FlooredGreatest ==
    ASSUME NEW v \in Int, NEW u \in Int, u % Step = 0, u <= v
    PROVE  u <= Floored(v)
<1>1. Step \in Nat /\ Step > 0
  BY VolumeAssumption
<1> DEFINE a == u \div Step
           b == v \div Step
           r == v % Step
<1>2. a \in Int /\ u = Step * a
  BY <1>1, StepDivision
<1>3. b \in Int /\ r \in 0..(Step - 1) /\ v = (Step * b) + r
  BY <1>1, StepDivision
<1>4. Floored(v) = b * Step
  BY DEF Floored
<1> HIDE DEF a, b, r
<1>5. a <= b
  <2> SUFFICES ASSUME a >= b + 1 PROVE FALSE
    BY <1>2, <1>3
  <2>1. PICK d \in Nat : a = (b + 1) + d
    <3>1. a - (b + 1) \in Nat /\ a = (b + 1) + (a - (b + 1))
      BY <1>2, <1>3
    <3> QED BY <3>1
  <2>2. Step * a = Step * b + Step + Step * d /\ Step * d \in Nat /\ Step * b \in Int
    BY <1>1, <1>3, <2>1
  <2> QED BY <1>1, <1>2, <1>3, <2>2
<1>6. PICK d \in Nat : b = a + d
  <2>1. b - a \in Nat /\ b = a + (b - a)
    BY <1>2, <1>3, <1>5
  <2> QED BY <2>1
<1>7. b * Step = Step * a + Step * d /\ Step * d \in Nat /\ Step * a \in Int
  BY <1>1, <1>2, <1>6
<1> QED BY <1>2, <1>4, <1>7

\* A floored volume is a number of steps.
LEMMA FlooredSteps == ASSUME NEW v \in Int PROVE Floored(v) % Step = 0
<1>1. Step \in Nat /\ Step > 0
  BY VolumeAssumption
<1>2. v \div Step \in Int
  BY <1>1, StepDivision
<1> DEFINE b == v \div Step
           u == b * Step
           c == u \div Step
           r == u % Step
<1>3. c \in Int /\ r \in 0..(Step - 1) /\ u = (Step * c) + r
  <2>1. u \in Int
    BY <1>1, <1>2
  <2> HIDE DEF u
  <2> QED BY <1>1, <2>1, StepDivision
<1>4. Floored(v) % Step = r
  BY DEF Floored
<1>5. b \in Int /\ b * Step = (Step * c) + r
  BY <1>2, <1>3
<1> HIDE DEF b, c, r, u
<1>6. b = c
  <2>1. CASE b >= c + 1
    <3>1. PICK d \in Nat : b = (c + 1) + d
      <4>1. b - (c + 1) \in Nat /\ b = (c + 1) + (b - (c + 1))
        BY <1>3, <1>5, <2>1
      <4> QED BY <4>1
    <3>2. b * Step = Step * c + Step + Step * d /\ Step * d \in Nat /\ Step * c \in Int
      BY <1>1, <1>3, <3>1
    <3> QED BY <1>1, <1>3, <1>5, <3>2
  <2>2. CASE c >= b + 1
    <3>1. PICK d \in Nat : c = (b + 1) + d
      <4>1. c - (b + 1) \in Nat /\ c = (b + 1) + (c - (b + 1))
        BY <1>3, <1>5, <2>2
      <4> QED BY <4>1
    <3>2. Step * c = b * Step + Step + Step * d /\ Step * d \in Nat /\ b * Step \in Int
      BY <1>1, <1>5, <3>1
    <3> QED BY <1>1, <1>3, <1>5, <3>2
  <2> QED BY <1>3, <1>5, <2>1, <2>2
<1>7. b * Step = Step * c
  BY <1>1, <1>3, <1>6
<1>8. Step * c \in Int
  BY <1>1, <1>3
<1> QED BY <1>3, <1>4, <1>5, <1>7, <1>8

\* No volume that may be closed of a position is greater than the planner's, and
\* the planner's may be closed unless it is below the minimum.
LEMMA CloseVolumeGreatest ==
    ASSUME NEW p, p.volume \in Nat, NEW left \in Int
    PROVE  /\ \A v : DealOf(p, left, v) => v <= CloseVolume(p, left)
           /\ CloseVolume(p, left) >= Minimum => DealOf(p, left, CloseVolume(p, left))
<1> DEFINE least == Min({p.volume, left, Maximum})
           amount == Floored(least)
           w == Floored(p.volume - Minimum)
<1>1. Minimum \in Nat /\ Minimum > 0 /\ Maximum \in Nat /\ Step \in Nat /\ Step > 0
  BY VolumeAssumption
<1>2. least \in Int /\ least \in {p.volume, left, Maximum}
      /\ least <= p.volume /\ least <= left /\ least <= Maximum
  <2>1. p.volume \in Int /\ left \in Int /\ Maximum \in Int
    BY <1>1
  <2> QED BY <2>1, MinOfThree
<1>3. p.volume - Minimum \in Int
  BY <1>1
<1> HIDE DEF least
<1>4. amount \in Int /\ amount <= least /\ amount % Step = 0
      /\ \A v \in Int : v % Step = 0 /\ v <= least => v <= amount
  BY <1>2, FlooredFits, FlooredSteps, FlooredGreatest
<1>5. w \in Int /\ w <= p.volume - Minimum /\ w % Step = 0
      /\ \A v \in Int : v % Step = 0 /\ v <= p.volume - Minimum => v <= w
  BY <1>3, FlooredFits, FlooredSteps, FlooredGreatest
<1>6. CloseVolume(p, left) = IF p.volume - amount \in 1..(Minimum - 1) THEN w ELSE amount
  BY DEF CloseVolume, least
<1> HIDE DEF amount, w
<1>7. ASSUME NEW v, DealOf(p, left, v) PROVE v <= amount
  <2>1. v \in Int /\ v <= least /\ v % Step = 0
    BY <1>1, <1>2, <1>7 DEF DealOf
  <2> QED BY <1>4, <2>1
<1>8. CASE p.volume - amount \in 1..(Minimum - 1)
  <2>1. ASSUME NEW v, DealOf(p, left, v) PROVE v <= w
    <3>1. v \in Int /\ v <= amount /\ v % Step = 0 /\ p.volume - v \notin 1..(Minimum - 1)
          /\ v <= p.volume
      BY <1>1, <1>7, <2>1 DEF DealOf
    <3>2. v <= p.volume - Minimum
      BY <1>1, <1>4, <1>8, <3>1
    <3> QED BY <1>5, <3>1, <3>2
  <2>2. ASSUME w >= Minimum PROVE DealOf(p, left, w)
    <3>1. w < amount
      BY <1>1, <1>4, <1>5, <1>8
    <3>2. w <= Maximum /\ w <= left /\ w <= p.volume /\ p.volume - w >= Minimum
      BY <1>1, <1>2, <1>4, <1>5, <3>1
    <3> QED BY <1>1, <1>5, <2>2, <3>2 DEF DealOf
  <2> QED BY <1>6, <1>8, <2>1, <2>2
<1>9. CASE p.volume - amount \notin 1..(Minimum - 1)
  <2>1. ASSUME amount >= Minimum PROVE DealOf(p, left, amount)
    <3>1. amount <= Maximum /\ amount <= left /\ amount <= p.volume
      BY <1>1, <1>2, <1>4
    <3> QED BY <1>1, <1>4, <1>9, <2>1, <3>1 DEF DealOf
  <2> QED BY <1>6, <1>7, <1>9, <2>1
<1> QED BY <1>8, <1>9

\* A positive number of steps is a step at least.
LEMMA WholeStep == ASSUME NEW u \in Int, u % Step = 0, u > 0 PROVE u >= Step
<1>1. Step \in Nat /\ Step > 0
  BY VolumeAssumption
<1> DEFINE a == u \div Step
<1>2. a \in Int /\ u = Step * a
  BY <1>1, StepDivision
<1> HIDE DEF a
<1>3. a >= 1
  <2> SUFFICES ASSUME a <= 0 PROVE FALSE
    BY <1>2
  <2>1. PICK d \in Nat : d = -a
    BY <1>2
  <2>2. Step * a = -(Step * d) /\ Step * d \in Nat
    BY <1>1, <1>2, <2>1
  <2> QED BY <1>2, <2>2
<1>4. PICK d \in Nat : a = 1 + d
  <2>1. a - 1 \in Nat /\ a = 1 + (a - 1)
    BY <1>2, <1>3
  <2> QED BY <2>1
<1>5. Step * a = Step + Step * d /\ Step * d \in Nat
  BY <1>1, <1>4
<1> QED BY <1>1, <1>2, <1>5

\* The most that a deal may close of p, or nothing.
Best(p, left, v) ==
    /\ v \in Int
    /\ v = 0 \/ DealOf(p, left, v)
    /\ \A u : DealOf(p, left, u) => u <= v

\* A close gives every row the most within what the rows before it have left;
\* s adds up what is given.
CloseShares(s, items, n, rows, target) ==
    /\ s \in [0..n -> Int] /\ s[0] = 0 /\ s[n] = Planned(items)
    /\ \A k \in 1..n : /\ Gets(items, rows[k], s[k] - s[k - 1])
                       /\ Best(rows[k], target - s[k - 1], s[k] - s[k - 1])

\* Its loop does so.
LEMMA CloseGives ==
    ASSUME NEW n \in Nat, NEW rows \in [1..n -> Positions], Apart(rows, n), NEW target \in Nat
    PROVE  \E s : CloseShares(s, CloseItems(rows, target), n, rows, target)
<1>1. PICK loop : CloseRun(loop, n, rows, target)
  <2>1. target \in Int
    OBVIOUS
  <2> QED BY <2>1, CloseLoop, Zenon
<1>2. /\ loop[0] = <<>> /\ loop[n] = CloseItems(rows, target)
      /\ \A k \in 0..n : loop[k] \in Seq(Items)
      /\ \A k \in 1..n : loop[k] = CloseStep(loop[k - 1], rows[k], target)
  BY <1>1 DEF CloseRun
<1> DEFINE s == [k \in 0..n |-> Planned(loop[k])]
           x(k) == s[k] - s[k - 1]
           Good(k) == /\ Listing(loop[k], rows, k)
                      /\ \A j \in 1..k : /\ Gets(loop[k], rows[j], x(j))
                                         /\ Best(rows[j], target - s[j - 1], x(j))
<1>3. s \in [0..n -> Int] /\ \A k \in 0..n : s[k] = Planned(loop[k])
  BY <1>2, PlannedType
<1>4. s[0] = 0 /\ s[n] = Planned(CloseItems(rows, target))
  BY <1>2, <1>3, PlannedEmpty
<1>5. Good(0)
  <2>1. Len(<<>>) = 0 /\ <<>> \in Seq(Items)
    BY PlannedEmpty
  <2> QED BY <1>2, <2>1 DEF Listing
<1> HIDE DEF s
<1>6. ASSUME NEW k \in 1..n, Good(k - 1) PROVE Good(k)
  <2> DEFINE items == loop[k - 1]
             p == rows[k]
             left == target - Planned(items)
             v == CloseVolume(p, left)
             it == Item(p, IF v >= Minimum THEN "ELIGIBLE" ELSE "VOLUME_CONSTRAINT", v, 0)
  <2>1. /\ items \in Seq(Items) /\ p \in Positions /\ p.volume \in Nat
        /\ Listing(items, rows, k - 1)
    BY <1>6 DEF Listing, Positions
  <2>2. loop[k] = IF left < Step THEN items ELSE Append(items, it)
    BY <1>2 DEF CloseStep
  <2>3. Planned(items) \in Int /\ left \in Int
    BY <2>1, PlannedType
  <2>4. /\ v \in Int
        /\ \A u : DealOf(p, left, u) => u <= v
        /\ v >= Minimum => DealOf(p, left, v)
    BY <2>1, <2>3, CloseVolumeType, CloseVolumeGreatest
  <2>5. k - 1 \in 0..n /\ k \in 0..n
    OBVIOUS
  <2>6. left = target - s[k - 1] /\ x(k) = Planned(loop[k]) - Planned(items)
    BY <1>3, <2>5
  <2> HIDE DEF v
  <2>7. it \in Items /\ it.layer = rows[k] /\ it.volume = v
        /\ (it.code = "ELIGIBLE" <=> v >= Minimum)
    BY <2>1, <2>4 DEF Item, Items, ItemCodes
  <2> HIDE DEF it
  <2>8. /\ Gets(items, p, 0)
        /\ Gets(Append(items, it), p, IF it.code = "ELIGIBLE" THEN it.volume ELSE 0)
        /\ \A j \in 1..(k - 1) : \A w : Gets(items, rows[j], w) => Gets(Append(items, it), rows[j], w)
        /\ Listing(items, rows, k) /\ Listing(Append(items, it), rows, k)
    BY <2>1, <2>7, GetsGrows, ListingGrows
  <2>9. Planned(Append(items, it)) = Planned(items) + (IF it.code = "ELIGIBLE" THEN it.volume ELSE 0)
    BY <2>1, <2>7, Appended
  <2>10. /\ Minimum \in Nat /\ Minimum > 0
         /\ \A u : DealOf(p, left, u) => u \in Int /\ u >= Minimum /\ u <= left /\ u % Step = 0
    BY VolumeAssumption DEF DealOf
  <2> DEFINE y == IF left < Step \/ ~(v >= Minimum) THEN 0 ELSE v
  <2>11. Gets(loop[k], p, y) /\ Listing(loop[k], rows, k) /\ Planned(loop[k]) = Planned(items) + y
         /\ \A j \in 1..(k - 1) : \A w : Gets(items, rows[j], w) => Gets(loop[k], rows[j], w)
    <3>1. CASE left < Step
      <4>1. loop[k] = items /\ y = 0 /\ Planned(items) = Planned(items) + 0
        BY <2>2, <2>3, <3>1
      <4> QED BY <2>8, <4>1
    <3>2. CASE ~(left < Step)
      <4>1. loop[k] = Append(items, it) /\ y = IF it.code = "ELIGIBLE" THEN it.volume ELSE 0
        BY <2>2, <2>7, <3>2
      <4> HIDE DEF y, left
      <4> QED BY <2>8, <2>9, <4>1
    <3> QED BY <3>1, <3>2
  <2>12. Best(p, left, y)
    <3>1. CASE left < Step
      <4>1. ASSUME NEW u, DealOf(p, left, u) PROVE FALSE
        <5>1. u \in Int /\ u % Step = 0 /\ u > 0 /\ u <= left
          BY <2>10, <4>1
        <5>2. u >= Step /\ Step \in Nat
          BY <5>1, WholeStep, VolumeAssumption
        <5> QED BY <2>3, <3>1, <5>1, <5>2
      <4> QED BY <3>1, <4>1 DEF Best
    <3>2. CASE ~(left < Step) /\ v >= Minimum
      BY <2>4, <3>2 DEF Best
    <3>3. CASE ~(left < Step) /\ ~(v >= Minimum)
      <4>1. ASSUME NEW u, DealOf(p, left, u) PROVE FALSE
        BY <2>4, <2>10, <3>3, <4>1
      <4> QED BY <3>3, <4>1 DEF Best
    <3> QED BY <3>1, <3>2, <3>3
  <2>13. x(k) = y
    <3>1. y \in Int
      BY <2>4
    <3> HIDE DEF y, x
    <3> QED BY <2>3, <2>6, <2>11, <3>1
  <2>14. ASSUME NEW j \in 1..k PROVE Gets(loop[k], rows[j], x(j)) /\ Best(rows[j], target - s[j - 1], x(j))
    <3>1. CASE j = k
      <4> HIDE DEF x, y
      <4> QED BY <2>6, <2>11, <2>12, <2>13, <3>1
    <3>2. CASE j # k
      <4>1. j \in 1..(k - 1)
        BY <3>2
      <4> HIDE DEF x
      <4> QED BY <1>6, <2>11, <4>1
    <3> QED BY <3>1, <3>2
  <2> QED BY <2>11, <2>14
<1>7. Good(n)
  <2> DEFINE S == {k \in Nat : k <= n => Good(k)}
  <2>1. 0 \in S
    BY <1>5
  <2>2. ASSUME NEW k \in Nat, k \in S PROVE k + 1 \in S
    <3> SUFFICES ASSUME k + 1 <= n PROVE Good(k + 1)
      OBVIOUS
    <3>1. k + 1 \in 1..n /\ (k + 1) - 1 = k /\ Good(k)
      BY <2>2
    <3> HIDE DEF Good
    <3> QED BY <1>6, <3>1
  <2> HIDE DEF S, Good
  <2>3. Nat \subseteq S
    BY <2>1, <2>2, NumberInduction
  <2> QED BY <2>3 DEF S
<1>8. CloseShares(s, CloseItems(rows, target), n, rows, target)
  BY <1>2, <1>3, <1>4, <1>7 DEF CloseShares
<1> QED BY <1>8

\* A break-even gives every row that can be protected its whole volume until the
\* target is reached, and the others nothing.
BeShares(s, items, n, rows, q, already, target) ==
    /\ s \in [0..n -> Int] /\ s[0] = 0 /\ s[n] = Planned(items)
    /\ \A k \in 1..n :
         /\ Gets(items, rows[k], s[k] - s[k - 1])
         /\ s[k] - s[k - 1] =
              IF StopCode(rows[k], q, StopFor(rows[k])) = "ELIGIBLE" /\ already + s[k - 1] < target
              THEN rows[k].volume ELSE 0

\* Its loop does so.
LEMMA BeGives ==
    ASSUME NEW n \in Nat, NEW rows \in [1..n -> Positions], Apart(rows, n), NEW q,
           NEW already \in Int, NEW target \in Int
    PROVE  \E s : BeShares(s, BeItems(rows, q, already, target), n, rows, q, already, target)
<1>1. PICK loop : BeRun(loop, n, rows, q, already, target)
  BY BeLoop, Zenon
<1>2. /\ loop[0] = <<>> /\ loop[n] = BeItems(rows, q, already, target)
      /\ \A k \in 0..n : loop[k] \in Seq(Items)
      /\ \A k \in 1..n : loop[k] = BeStep(loop[k - 1], rows[k], q, already, target)
  BY <1>1 DEF BeRun
<1> DEFINE s == [k \in 0..n |-> Planned(loop[k])]
           x(k) == s[k] - s[k - 1]
           able(k) == StopCode(rows[k], q, StopFor(rows[k])) = "ELIGIBLE"
           share(k) == IF able(k) /\ already + s[k - 1] < target THEN rows[k].volume ELSE 0
           Good(k) == /\ Listing(loop[k], rows, k)
                      /\ \A j \in 1..k : Gets(loop[k], rows[j], x(j)) /\ x(j) = share(j)
<1>3. s \in [0..n -> Int] /\ \A k \in 0..n : s[k] = Planned(loop[k])
  BY <1>2, PlannedType
<1>4. s[0] = 0 /\ s[n] = Planned(BeItems(rows, q, already, target))
  BY <1>2, <1>3, PlannedEmpty
<1>5. Good(0)
  <2>1. Len(<<>>) = 0 /\ <<>> \in Seq(Items)
    BY PlannedEmpty
  <2> QED BY <1>2, <2>1 DEF Listing
<1> HIDE DEF s
<1>6. ASSUME NEW k \in 1..n, Good(k - 1) PROVE Good(k)
  <2> DEFINE items == loop[k - 1]
             p == rows[k]
             code == StopCode(p, q, StopFor(p))
             it == Item(p, code, p.volume, StopFor(p))
             full == already + Planned(items) >= target
  <2>1. /\ items \in Seq(Items) /\ p \in Positions /\ p.volume \in Int
        /\ Listing(items, rows, k - 1)
    <3>1. p \in Positions /\ Listing(items, rows, k - 1)
      BY <1>6
    <3>2. p.volume \in Nat
      BY <3>1 DEF Positions
    <3>3. items \in Seq(Items) /\ Listing(items, rows, k - 1)
      BY <3>1 DEF Listing
    <3>4. p.volume \in Int
      BY <3>2
    <3> QED BY <3>1, <3>3, <3>4
  <2>2. loop[k] = IF code # "ALREADY_PROTECTED" /\ full THEN items ELSE Append(items, it)
    BY <1>2 DEF BeStep
  <2>3. Planned(items) \in Int
    BY <2>1, PlannedType
  <2>4. k - 1 \in 0..n /\ k \in 0..n
    OBVIOUS
  <2>5. Planned(items) = s[k - 1] /\ x(k) = Planned(loop[k]) - Planned(items)
    BY <1>3, <2>4
  <2>6. it \in Items /\ it.layer = rows[k] /\ it.volume = p.volume /\ it.code = code
    <3>1. StopFor(p) \in Int /\ code \in ItemCodes
      BY <2>1, StopForType, StopCodeType
    <3> HIDE DEF code
    <3> QED BY <2>1, <3>1 DEF Item, Items
  <2>7. share(k) = IF code = "ELIGIBLE" /\ ~full THEN p.volume ELSE 0
    <3>1. already + s[k - 1] < target <=> ~full
      BY <1>3, <2>3, <2>5
    <3> HIDE DEF full
    <3> QED BY <3>1
  <2> HIDE DEF it, full, code
  <2>8. /\ Gets(items, p, 0)
        /\ Gets(Append(items, it), p, IF it.code = "ELIGIBLE" THEN it.volume ELSE 0)
        /\ \A j \in 1..(k - 1) : \A w : Gets(items, rows[j], w) => Gets(Append(items, it), rows[j], w)
        /\ Listing(items, rows, k) /\ Listing(Append(items, it), rows, k)
    BY <2>1, <2>6, GetsGrows, ListingGrows
  <2>9. Planned(Append(items, it)) = Planned(items) + (IF it.code = "ELIGIBLE" THEN it.volume ELSE 0)
    BY <2>1, <2>6, Appended
  <2> DEFINE y == IF code = "ELIGIBLE" /\ ~full THEN p.volume ELSE 0
  <2>10. Gets(loop[k], p, y) /\ Listing(loop[k], rows, k) /\ Planned(loop[k]) = Planned(items) + y
         /\ \A j \in 1..(k - 1) : \A w : Gets(items, rows[j], w) => Gets(loop[k], rows[j], w)
    <3>1. CASE code # "ALREADY_PROTECTED" /\ full
      <4>1. loop[k] = items /\ y = 0 /\ Planned(items) = Planned(items) + 0
        BY <2>2, <2>3, <3>1
      <4> QED BY <2>8, <4>1
    <3>2. CASE ~(code # "ALREADY_PROTECTED" /\ full)
      <4>1. loop[k] = Append(items, it) /\ y = IF it.code = "ELIGIBLE" THEN it.volume ELSE 0
        BY <2>2, <2>6, <3>2
      <4> HIDE DEF y
      <4> QED BY <2>8, <2>9, <4>1
    <3> QED BY <3>1, <3>2
  <2>11. x(k) = y /\ share(k) = y
    <3>1. y \in Int
      BY <2>1
    <3>2. share(k) = y
      BY <2>7
    <3> HIDE DEF y, x, share
    <3> QED BY <2>3, <2>5, <2>10, <3>1, <3>2
  <2>12. ASSUME NEW j \in 1..k PROVE Gets(loop[k], rows[j], x(j)) /\ x(j) = share(j)
    <3>1. CASE j = k
      <4> HIDE DEF x, y, share
      <4> QED BY <2>10, <2>11, <3>1
    <3>2. CASE j # k
      <4>1. j \in 1..(k - 1)
        BY <3>2
      <4> HIDE DEF x, share
      <4> QED BY <1>6, <2>10, <4>1
    <3> QED BY <3>1, <3>2
  <2> QED BY <2>10, <2>12
<1>7. Good(n)
  <2> DEFINE S == {k \in Nat : k <= n => Good(k)}
  <2>1. 0 \in S
    BY <1>5
  <2>2. ASSUME NEW k \in Nat, k \in S PROVE k + 1 \in S
    <3> SUFFICES ASSUME k + 1 <= n PROVE Good(k + 1)
      OBVIOUS
    <3>1. k + 1 \in 1..n /\ (k + 1) - 1 = k /\ Good(k)
      BY <2>2
    <3> HIDE DEF Good
    <3> QED BY <1>6, <3>1
  <2> HIDE DEF S, Good
  <2>3. Nat \subseteq S
    BY <2>1, <2>2, NumberInduction
  <2> QED BY <2>3 DEF S
<1>8. BeShares(s, BeItems(rows, q, already, target), n, rows, q, already, target)
  BY <1>2, <1>3, <1>4, <1>7 DEF BeShares
<1> QED BY <1>8

\* s adds up f over the rows.
AddsUp(s, f, rows, n) ==
    /\ s \in [0..n -> Int] /\ s[0] = 0
    /\ \A k \in 1..n : f[rows[k]] = s[k] - s[k - 1]

\* What comes before a row adds up to s there.
RunningSums(s, f, rows, n, layers, q, close) ==
    /\ \A k \in 1..n :
         SumFunctionOnSet(f, {o \in layers : Before(o, rows[k], q, close)}) = s[k - 1]
    /\ SumFunctionOnSet(f, layers) = s[n]
    /\ \A p \in layers : f[p] \in Int

\* It does so in the planner's order.
LEMMA PrefixSums ==
    ASSUME NEW layers, NEW q, Shown(layers, q), NEW close,
           NEW n, n = Cardinality(layers), NEW rows, rows = Ranked(layers, q, close),
           NEW s, NEW f, AddsUp(s, f, rows, n)
    PROVE  RunningSums(s, f, rows, n, layers, q, close)
<1> USE DEF AddsUp
<1>1. /\ n \in Nat /\ rows \in [1..n -> Positions] /\ Apart(rows, n)
      /\ \A i \in 1..n : rows[i] \in layers
      /\ \A p \in layers : \E i \in 1..n : rows[i] = p
      /\ \A i, j \in 1..n : i < j => Before(rows[i], rows[j], q, close)
  <2> DEFINE m == Cardinality(layers)
             line == Ranked(layers, q, close)
  <2>1. /\ m \in Nat /\ line \in [1..m -> Positions] /\ Apart(line, m)
        /\ \A i \in 1..m : line[i] \in layers
        /\ \A p \in layers : \E i \in 1..m : line[i] = p
        /\ \A i, j \in 1..m : i < j => Before(line[i], line[j], q, close)
    BY RankedRows
  <2>2. n = m /\ rows = line
    OBVIOUS
  <2> HIDE DEF m, line
  <2> QED BY <2>1, <2>2
<1>2. /\ \A a \in layers : ~Before(a, a, q, close)
      /\ \A a, b \in layers : ~(Before(a, b, q, close) /\ Before(b, a, q, close))
  <2> DEFINE R == {e \in layers \X layers : Before(e[1], e[2], q, close)}
  <2>1. Lines(R, layers)
    BY RankLines
  <2>2. \A a, b \in layers : <<a, b>> \in R <=> Before(a, b, q, close)
    OBVIOUS
  <2> HIDE DEF R
  <2> QED BY <2>1, <2>2 DEF Lines
<1> DEFINE B(k) == {rows[j] : j \in 1..k}
<1>3. ASSUME NEW p \in layers PROVE f[p] \in Int
  <2>1. PICK k \in 1..n : rows[k] = p
    BY <1>1
  <2>2. s[k] \in Int /\ s[k - 1] \in Int
    <3>1. k \in 0..n /\ k - 1 \in 0..n
      BY <1>1
    <3> QED BY <3>1
  <2> QED BY <2>1, <2>2
<1>4. ASSUME NEW k \in 0..n PROVE B(k) \subseteq layers /\ IsFiniteSet(B(k))
  <2>1. B(k) \subseteq layers
    <3>1. \A j \in 1..k : j \in 1..n
      BY <1>1
    <3> QED BY <1>1, <3>1
  <2> HIDE DEF B
  <2> QED BY <2>1, FS_Subset DEF Shown
<1>5. ASSUME NEW k \in 1..n PROVE rows[k] \in B(k) /\ B(k) \ {rows[k]} = B(k - 1)
  BY <1>1 DEF Apart
<1>6. B(0) = {} /\ B(n) = layers
  BY <1>1
<1>7. ASSUME NEW k \in 1..n PROVE {o \in layers : Before(o, rows[k], q, close)} = B(k - 1)
  <2>1. ASSUME NEW j \in 1..n PROVE Before(rows[j], rows[k], q, close) <=> j \in 1..(k - 1)
    <3>1. j < k \/ j = k \/ k < j
      BY <1>1
    <3>2. j < k <=> j \in 1..(k - 1)
      BY <1>1
    <3> QED BY <1>1, <1>2, <3>1, <3>2
  <2>2. \A j \in 1..(k - 1) : j \in 1..n
    BY <1>1
  <2> QED BY <1>1, <2>1, <2>2
<1> HIDE DEF B
<1>8. ASSUME NEW k \in 0..n PROVE SumFunctionOnSet(f, B(k)) = s[k]
  <2> DEFINE S == {i \in Nat : i <= n => SumFunctionOnSet(f, B(i)) = s[i]}
  <2>1. 0 \in S
    <3>1. \A x \in layers : f[x] \in Int
      BY <1>3
    <3>2. SumFunctionOnSet(f, {}) = 0
      <4>1. IsFiniteSet(layers)
        BY DEF Shown
      <4> QED BY <3>1, <4>1, SumUnfolds
    <3> QED BY <1>6, <3>2
  <2>2. ASSUME NEW i \in Nat, i \in S PROVE i + 1 \in S
    <3> SUFFICES ASSUME i + 1 <= n PROVE SumFunctionOnSet(f, B(i + 1)) = s[i + 1]
      OBVIOUS
    <3>1. i + 1 \in 1..n /\ (i + 1) - 1 = i /\ i + 1 \in 0..n /\ i \in 0..n
      BY <1>1
    <3>2. SumFunctionOnSet(f, B(i)) = s[i]
      BY <2>2, <3>1
    <3>3. rows[i + 1] \in B(i + 1) /\ B(i + 1) \ {rows[i + 1]} = B(i) /\ IsFiniteSet(B(i + 1))
          /\ B(i + 1) \subseteq layers
      BY <1>4, <1>5, <3>1
    <3>4. \A x \in B(i + 1) : f[x] \in Int
      BY <1>3, <3>3
    <3>5. PICK x \in B(i + 1) : x = rows[i + 1]
      BY <3>3
    <3>6. SumFunctionOnSet(f, B(i + 1)) = f[x] + SumFunctionOnSet(f, B(i + 1) \ {x})
      <4> DEFINE T == B(i + 1)
      <4>1. IsFiniteSet(T) /\ x \in T /\ \A y \in T : f[y] \in Int
        BY <3>3, <3>4
      <4> HIDE DEF T
      <4>2. SumFunctionOnSet(f, T) = f[x] + SumFunctionOnSet(f, T \ {x})
        BY <4>1, SumRemove
      <4> QED BY <4>2 DEF T
    <3>7. f[x] = s[i + 1] - s[i] /\ s[i + 1] \in Int /\ s[i] \in Int
      BY <3>1, <3>5
    <3>8. SumFunctionOnSet(f, B(i + 1)) = f[x] + s[i]
      BY <3>2, <3>3, <3>5, <3>6
    <3> QED BY <3>7, <3>8
  <2>3. k \in Nat /\ k <= n
    BY <1>1
  <2> HIDE DEF S
  <2>4. Nat \subseteq S
    BY <2>1, <2>2, NumberInduction
  <2> QED BY <2>3, <2>4 DEF S
<1>9. ASSUME NEW k \in 1..n
      PROVE  SumFunctionOnSet(f, {o \in layers : Before(o, rows[k], q, close)}) = s[k - 1]
  <2>1. k - 1 \in 0..n
    BY <1>1
  <2> QED BY <1>7, <1>8, <2>1
<1>10. SumFunctionOnSet(f, layers) = s[n]
  <2>1. n \in 0..n
    BY <1>1
  <2> QED BY <1>6, <1>8, <2>1
<1> QED BY <1>3, <1>9, <1>10 DEF RunningSums

\* A running sum of natural numbers never falls.
LEMMA Rising ==
    ASSUME NEW n \in Nat, NEW s \in [0..n -> Int], \A k \in 1..n : s[k - 1] <= s[k]
    PROVE  \A i, j \in 0..n : i <= j => s[i] <= s[j]
<1> SUFFICES ASSUME NEW i \in 0..n PROVE \A j \in 0..n : i <= j => s[i] <= s[j]
  OBVIOUS
<1> DEFINE S == {d \in Nat : i + d <= n => s[i] <= s[i + d]}
<1>1. 0 \in S
  BY i + 0 = i, s[i] \in Int
<1>2. ASSUME NEW d \in Nat, d \in S PROVE d + 1 \in S
  <2> SUFFICES ASSUME i + (d + 1) <= n PROVE s[i] <= s[i + (d + 1)]
    OBVIOUS
  <2> DEFINE k == i + (d + 1)
  <2>1. k \in 1..n /\ k - 1 = i + d /\ i + d <= n /\ k - 1 \in 0..n /\ k \in 0..n
    OBVIOUS
  <2>2. s[i] <= s[k - 1] /\ s[k - 1] <= s[k]
    BY <1>2, <2>1
  <2>3. s[i] \in Int /\ s[k - 1] \in Int /\ s[k] \in Int
    BY <2>1
  <2> HIDE DEF k
  <2>4. s[i] <= s[k]
    BY <2>2, <2>3
  <2> QED BY <2>4 DEF k
<1> HIDE DEF S
<1>3. Nat \subseteq S
  BY <1>1, <1>2, NumberInduction
<1>4. ASSUME NEW j \in 0..n, i <= j PROVE s[i] <= s[j]
  <2>1. j - i \in Nat /\ i + (j - i) = j /\ j <= n
    BY <1>4
  <2>2. j - i \in S
    BY <1>3, <2>1
  <2> QED BY <2>1, <2>2 DEF S
<1> QED BY <1>4

\* A close gives every position, the worst price first, the most that a deal may
\* close of it within what the positions before it have left of the target.
THEOREM CloseBest ==
    ASSUME NEW layers, NEW q, Shown(layers, q), NEW target \in Nat, NEW p \in layers
    PROVE  LET items == CloseItems(Ranked(layers, q, TRUE), target)
               before == {o \in layers : Before(o, p, q, TRUE)}
           IN Best(p, target - SumFunction([o \in before |-> GivenIn(items, o)]), GivenIn(items, p))
<1> DEFINE n == Cardinality(layers)
           rows == Ranked(layers, q, TRUE)
           items == CloseItems(rows, target)
           before == {o \in layers : Before(o, p, q, TRUE)}
           f == [o \in layers |-> GivenIn(items, o)]
           g == [o \in before |-> GivenIn(items, o)]
<1>1. /\ n \in Nat /\ rows \in [1..n -> Positions] /\ Apart(rows, n)
      /\ \A i \in 1..n : rows[i] \in layers
      /\ \A o \in layers : \E i \in 1..n : rows[i] = o
  <2>1. ASSUME NEW close
        PROVE  LET r == Ranked(layers, q, close)
               IN /\ n \in Nat /\ r \in [1..n -> Positions] /\ Apart(r, n)
                  /\ \A i \in 1..n : r[i] \in layers
                  /\ \A o \in layers : \E i \in 1..n : r[i] = o
    BY RankedRows
  <2> HIDE DEF n
  <2> QED BY <2>1
<1>2. n = Cardinality(layers) /\ rows = Ranked(layers, q, TRUE)
  OBVIOUS
<1> HIDE DEF n, rows
<1>3. PICK s : CloseShares(s, items, n, rows, target)
  BY <1>1, CloseGives, Zenon
<1>4. /\ items \in Seq(Items)
      /\ \A i, j \in 1..Len(items) : items[i].layer.ticket = items[j].layer.ticket => i = j
  BY <1>1, CloseItemsSound DEF Listing
<1> HIDE DEF items
<1>5. ASSUME NEW k \in 1..n PROVE f[rows[k]] = s[k] - s[k - 1]
  <2>1. k \in 0..n /\ k - 1 \in 0..n
    BY <1>1
  <2>2. s[k] - s[k - 1] \in Int /\ Gets(items, rows[k], s[k] - s[k - 1])
    BY <1>3, <2>1 DEF CloseShares
  <2>3. GivenIn(items, rows[k]) = s[k] - s[k - 1]
    BY <1>4, <2>2, GetsGiven
  <2> QED BY <1>1, <2>3
<1>6. PICK k \in 1..n : rows[k] = p
  BY <1>1
<1>7. \A o \in before : o \in layers /\ g[o] = f[o]
  OBVIOUS
<1>8. f[p] = GivenIn(items, p)
  OBVIOUS
<1> HIDE DEF f
<1>9. /\ SumFunctionOnSet(f, before) = s[k - 1]
      /\ \A o \in layers : f[o] \in Int
  <2>1. AddsUp(s, f, rows, n)
    BY <1>3, <1>5 DEF AddsUp, CloseShares
  <2>2. RunningSums(s, f, rows, n, layers, q, TRUE)
    BY <1>2, <2>1, PrefixSums, Zenon
  <2> QED BY <1>6, <2>2 DEF RunningSums
<1>10. SumFunction(g) = s[k - 1]
  <2>1. IsFiniteSet(before)
    BY FS_Subset DEF Shown
  <2>2. SumFunction(g) = SumFunctionOnSet(g, before)
    BY DEF SumFunction
  <2>3. \A o \in before : f[o] \in Int /\ g[o] = f[o]
    BY <1>7, <1>9
  <2> HIDE DEF before, g
  <2>4. SumFunctionOnSet(f, before) = SumFunctionOnSet(g, before)
    BY <2>1, <2>3, SumSame
  <2> QED BY <1>9, <2>2, <2>4
<1>11. Best(p, target - s[k - 1], GivenIn(items, p))
  BY <1>3, <1>5, <1>6, <1>8 DEF CloseShares
<1> HIDE DEF g, before
<1>12. Best(p, target - SumFunction(g), GivenIn(items, p))
  BY <1>10, <1>11
<1> QED BY <1>12 DEF g, before, items, rows

\* A break-even stops at the position that reaches the target: without the
\* farthest of the chosen ones it would be missed, and it is only missed when all
\* that can be protected are chosen, nearer ones before others.
THEOREM BeEnough ==
    ASSUME NEW layers, NEW q, Shown(layers, q), \A p \in layers : p.volume > 0,
           NEW already \in Int, NEW target \in Int
    PROVE  LET items == BeItems(Ranked(layers, q, FALSE), q, already, target)
               able == {p \in layers : StopCode(p, q, StopFor(p)) = "ELIGIBLE"}
               chosen == {p \in able : GivenIn(items, p) > 0}
               last == {p \in chosen : \A o \in chosen \ {p} : Before(o, p, q, FALSE)}
           IN /\ already + Volume(chosen) >= target \/ chosen = able
              /\ chosen # {} => ~(already + Volume(chosen \ last) >= target)
              /\ \A p \in chosen, o \in able \ chosen : Before(p, o, q, FALSE)
<1> DEFINE n == Cardinality(layers)
           rows == Ranked(layers, q, FALSE)
           items == BeItems(rows, q, already, target)
           able == {p \in layers : StopCode(p, q, StopFor(p)) = "ELIGIBLE"}
           chosen == {p \in able : GivenIn(items, p) > 0}
           last == {p \in chosen : \A o \in chosen \ {p} : Before(o, p, q, FALSE)}
           f == [o \in layers |-> GivenIn(items, o)]
           ahead(k) == {o \in layers : Before(o, rows[k], q, FALSE)}
<1>1. /\ n \in Nat /\ rows \in [1..n -> Positions] /\ Apart(rows, n)
      /\ \A i \in 1..n : rows[i] \in layers
      /\ \A o \in layers : \E i \in 1..n : rows[i] = o
      /\ \A i, j \in 1..n : i < j => Before(rows[i], rows[j], q, FALSE)
  BY RankedRows
<1>2. n = Cardinality(layers) /\ rows = Ranked(layers, q, FALSE)
  OBVIOUS
<1>3. \A a, b \in layers : ~(Before(a, b, q, FALSE) /\ Before(b, a, q, FALSE))
  <2> DEFINE R == {e \in layers \X layers : Before(e[1], e[2], q, FALSE)}
  <2>1. Lines(R, layers)
    BY RankLines
  <2>2. \A a, b \in layers : <<a, b>> \in R <=> Before(a, b, q, FALSE)
    OBVIOUS
  <2> HIDE DEF R
  <2> QED BY <2>1, <2>2 DEF Lines
<1> HIDE DEF n, rows
<1>4. PICK s : BeShares(s, items, n, rows, q, already, target)
  BY <1>1, BeGives, Zenon
<1>5. /\ items \in Seq(Items)
      /\ \A i, j \in 1..Len(items) : items[i].layer.ticket = items[j].layer.ticket => i = j
  BY <1>1, BeItemsSound DEF Listing
<1> HIDE DEF items
<1>6. ASSUME NEW k \in 1..n PROVE f[rows[k]] = s[k] - s[k - 1]
  <2>1. k \in 0..n /\ k - 1 \in 0..n
    BY <1>1
  <2>2. s[k] - s[k - 1] \in Int /\ Gets(items, rows[k], s[k] - s[k - 1])
    BY <1>4, <2>1 DEF BeShares
  <2>3. GivenIn(items, rows[k]) = s[k] - s[k - 1]
    BY <1>5, <2>2, GetsGiven
  <2> QED BY <1>1, <2>3
<1>7. /\ \A p \in layers : f[p] = GivenIn(items, p)
      /\ able \subseteq layers /\ chosen \subseteq able
      /\ \A p \in layers : p \in able <=> StopCode(p, q, StopFor(p)) = "ELIGIBLE"
      /\ \A p \in able : p \in chosen <=> f[p] > 0
  OBVIOUS
<1>8. \A p \in layers : p.volume \in Nat /\ p.volume > 0
  BY DEF Shown, Positions
<1> HIDE DEF f
<1>9. /\ \A k \in 1..n : SumFunctionOnSet(f, ahead(k)) = s[k - 1]
      /\ SumFunctionOnSet(f, layers) = s[n]
  <2>1. AddsUp(s, f, rows, n)
    BY <1>4, <1>6 DEF AddsUp, BeShares
  <2>2. RunningSums(s, f, rows, n, layers, q, FALSE)
    BY <1>2, <2>1, PrefixSums, Zenon
  <2> QED BY <2>2 DEF RunningSums
<1>10. ASSUME NEW k \in 1..n
       PROVE  /\ s[k] \in Int /\ s[k - 1] \in Int /\ s[k - 1] <= s[k]
              /\ rows[k] \in able => (rows[k] \in chosen <=> already + s[k - 1] < target)
              /\ rows[k] \notin chosen => f[rows[k]] = 0
              /\ rows[k] \in chosen => f[rows[k]] = rows[k].volume
  <2>1. k \in 0..n /\ k - 1 \in 0..n
    BY <1>1
  <2>2. s[k] \in Int /\ s[k - 1] \in Int
    BY <1>4, <2>1 DEF BeShares
  <2>3. rows[k] \in layers /\ rows[k].volume \in Nat /\ rows[k].volume > 0
    BY <1>1, <1>8
  <2>4. f[rows[k]] = s[k] - s[k - 1]
        /\ f[rows[k]] = IF rows[k] \in able /\ already + s[k - 1] < target THEN rows[k].volume ELSE 0
    BY <1>4, <1>6, <1>7, <2>3 DEF BeShares
  <2> HIDE DEF able, chosen
  <2> QED BY <1>7, <2>2, <2>3, <2>4
<1>11. \A i, j \in 0..n : i <= j => s[i] <= s[j]
  <2>1. \A k \in 1..n : s[k - 1] <= s[k]
    BY <1>10
  <2> QED BY <1>1, <1>4, <2>1, Rising DEF BeShares
<1>12. \A p \in layers : /\ f[p] \in Int
                         /\ p \notin chosen => f[p] = 0
                         /\ p \in chosen => f[p] = p.volume
  <2> SUFFICES ASSUME NEW p \in layers
               PROVE  /\ f[p] \in Int
                      /\ p \notin chosen => f[p] = 0
                      /\ p \in chosen => f[p] = p.volume
    OBVIOUS
  <2>1. PICK k \in 1..n : rows[k] = p
    BY <1>1
  <2> HIDE DEF chosen
  <2> QED BY <1>8, <1>10, <2>1
<1> HIDE DEF able, chosen
<1>13. ASSUME NEW T \in SUBSET chosen, NEW U \in SUBSET layers, T \subseteq U, U \cap chosen = T
       PROVE  Volume(T) = SumFunctionOnSet(f, U)
  <2> DEFINE v == [p \in T |-> p.volume]
  <2>1. Volume(T) = SumFunctionOnSet(v, T)
    BY DEF Volume, SumFunction
  <2>2. \A p \in T : v[p] = f[p] /\ f[p] \in Int
    BY <1>7, <1>12
  <2>3. IsFiniteSet(U) /\ IsFiniteSet(T)
    BY <1>13, FS_Subset DEF Shown
  <2> HIDE DEF v
  <2>4. SumFunctionOnSet(f, T) = SumFunctionOnSet(v, T)
    BY <2>2, <2>3, SumSame
  <2>5. SumFunctionOnSet(f, U) = SumFunctionOnSet(f, T)
    <3>1. \A x \in U : f[x] \in Int
      BY <1>12
    <3>2. \A x \in U \ T : f[x] = 0
      BY <1>12, <1>13
    <3> QED BY <1>13, <2>3, <3>1, <3>2, SumSupport
  <2> QED BY <2>1, <2>4, <2>5
<1>14. already + Volume(chosen) >= target \/ chosen = able
  <2> SUFFICES ASSUME chosen # able PROVE already + Volume(chosen) >= target
    OBVIOUS
  <2>1. PICK o \in able : o \notin chosen
    BY <1>7
  <2>2. PICK k \in 1..n : rows[k] = o
    BY <1>1, <1>7
  <2>3. Volume(chosen) = s[n]
    <3>1. chosen \in SUBSET chosen /\ layers \in SUBSET layers /\ chosen \subseteq layers
          /\ layers \cap chosen = chosen
      BY <1>7
    <3> QED BY <1>9, <1>13, <3>1
  <2>4. ~(already + s[k - 1] < target) /\ s[k - 1] \in Int
    BY <1>10, <2>1, <2>2
  <2>5. k - 1 \in 0..n /\ n \in 0..n /\ k - 1 <= n
    BY <1>1
  <2>6. s[k - 1] <= s[n] /\ s[n] \in Int
    BY <1>4, <1>11, <2>5 DEF BeShares
  <2> QED BY <2>3, <2>4, <2>6
<1>15. ASSUME chosen # {} PROVE ~(already + Volume(chosen \ last) >= target)
  <2> DEFINE K == {j \in 1..n : rows[j] \in chosen}
  <2>1. K \in SUBSET (1..n) /\ K # {}
    <3>1. PICK p \in chosen : p \in layers
      BY <1>7, <1>15
    <3>2. PICK j \in 1..n : rows[j] = p
      BY <1>1, <3>1
    <3> QED BY <3>1, <3>2
  <2> DEFINE k == Max(K)
  <2>2. k \in K /\ \A j \in K : j <= k
    <3> HIDE DEF K
    <3> QED BY <1>1, <2>1, Greatest
  <2> HIDE DEF k
  <2>3. k \in 1..n /\ rows[k] \in chosen
    BY <2>2
  <2>4. ASSUME NEW o \in chosen \ {rows[k]} PROVE Before(o, rows[k], q, FALSE) /\ o \in layers
    <3>1. PICK j \in 1..n : rows[j] = o
      BY <1>1, <1>7
    <3>2. j \in K /\ j # k
      BY <2>4, <3>1
    <3>3. j < k
      BY <2>2, <2>3, <3>2
    <3> QED BY <1>1, <1>7, <2>3, <3>1, <3>3
  <2>5. last = {rows[k]}
    <3>1. rows[k] \in last
      BY <2>3, <2>4
    <3>2. ASSUME NEW p \in last, p # rows[k] PROVE FALSE
      <4>1. p \in chosen /\ Before(rows[k], p, q, FALSE)
        BY <2>3, <3>2
      <4>2. Before(p, rows[k], q, FALSE) /\ p \in layers /\ rows[k] \in layers
        BY <1>1, <2>3, <2>4, <3>2, <4>1
      <4> QED BY <1>3, <4>1, <4>2
    <3> QED BY <3>1, <3>2
  <2>6. Volume(chosen \ last) = s[k - 1]
    <3> DEFINE T == chosen \ {rows[k]}
    <3>1. T \in SUBSET chosen /\ ahead(k) \in SUBSET layers /\ T \subseteq ahead(k)
      BY <2>4
    <3>2. ahead(k) \cap chosen = T
      <4>1. ~Before(rows[k], rows[k], q, FALSE)
        BY <1>1, <1>3, <2>3
      <4> QED BY <3>1, <4>1
    <3> HIDE DEF T, ahead
    <3>3. Volume(T) = SumFunctionOnSet(f, ahead(k))
      BY <1>13, <3>1, <3>2
    <3> QED BY <1>9, <2>3, <2>5, <3>3 DEF T
  <2>7. already + s[k - 1] < target /\ s[k - 1] \in Int
    BY <1>7, <1>10, <2>3
  <2> QED BY <2>6, <2>7
<1>16. ASSUME NEW p \in chosen, NEW o \in able \ chosen PROVE Before(p, o, q, FALSE)
  <2>1. PICK i \in 1..n : rows[i] = p
    BY <1>1, <1>7
  <2>2. PICK j \in 1..n : rows[j] = o
    BY <1>1, <1>7
  <2>3. already + s[i - 1] < target /\ ~(already + s[j - 1] < target)
        /\ s[i - 1] \in Int /\ s[j - 1] \in Int
    BY <1>7, <1>10, <2>1, <2>2
  <2>4. i - 1 \in 0..n /\ j - 1 \in 0..n
    BY <1>1
  <2>5. ~(j - 1 <= i - 1)
    <3> SUFFICES ASSUME j - 1 <= i - 1 PROVE FALSE
      OBVIOUS
    <3>1. s[j - 1] <= s[i - 1]
      BY <1>11, <2>4
    <3> QED BY <2>3, <3>1
  <2>6. i < j
    BY <2>5
  <2> QED BY <1>1, <2>1, <2>2, <2>6
<1> QED BY <1>14, <1>15, <1>16 DEF able, chosen, last, items, rows

\* What a plan that came about says.
FullPlan(p, c, q, rows) ==
    /\ p.target = (Volume(rows) * c.part) \div Parts
    /\ c.close => p.items = CloseItems(Ranked(rows, q, TRUE), p.target)
    /\ ~c.close => /\ p.already = Volume({r \in rows : Protected(r, StopFor(r))})
                   /\ p.items = BeItems(Ranked(rows, q, FALSE), q, p.already, p.target)

\* The planner makes such a plan, unless it says why not.
LEMMA PlanIs ==
    ASSUME NEW c, NEW q, NEW layers, NEW p, p = PlanLayers(c, q, layers),
           p.code \in {"OK", "NO_ELIGIBLE_POSITIONS"}
    PROVE  FullPlan(p, c, q, {r \in layers : c.side \in {"AUTO", "BOTH", r.side}})
<1> DEFINE rows == {r \in layers : c.side \in {"AUTO", "BOTH", r.side}}
           target == (Volume(rows) * c.part) \div Parts
           already == IF c.close THEN 0 ELSE Volume({r \in rows : Protected(r, StopFor(r))})
           items == IF c.close THEN CloseItems(Ranked(rows, q, TRUE), target)
                    ELSE BeItems(Ranked(rows, q, FALSE), q, already, target)
           idle == Planned(items) <= 0 /\ (c.close \/ already < target)
           code == IF idle THEN "NO_ELIGIBLE_POSITIONS" ELSE "OK"
           full(side) == Plan(code, side, rows, target, already, items)
<1>1. \/ PlanLayers(c, q, layers) = NoPlan("AMBIGUOUS_SIDE", c.side)
      \/ PlanLayers(c, q, layers) = NoPlan("NO_POSITIONS", c.side)
      \/ \E side : PlanLayers(c, q, layers) = full(side)
  BY Zenon DEF PlanLayers
<1>2. \A x, side : NoPlan(x, side).code = x
  BY DEF NoPlan, Plan
<1>3. PICK side : p = full(side)
  <2> HIDE DEF full
  <2> QED BY <1>1, <1>2
<1> HIDE DEF rows, target, items, already, code
<1>4. p.target = target /\ p.already = already /\ p.items = items
  BY <1>3 DEF Plan
<1>5. c.close => items = CloseItems(Ranked(rows, q, TRUE), target)
  BY DEF items
<1>6. ~c.close => /\ already = Volume({r \in rows : Protected(r, StopFor(r))})
                  /\ items = BeItems(Ranked(rows, q, FALSE), q, already, target)
  BY DEF items, already
<1>7. FullPlan(p, c, q, rows)
  BY <1>4, <1>5, <1>6 DEF FullPlan, target
<1> QED BY <1>7 DEF rows

\* A preview's plan is one of what it still shows.
StillShown ==
    command.preview /\ pc = "item" =>
        plan \in {PlanLayers(command, quote, Layers), NoPlan("SYMBOL_NOT_FOUND_OR_STALE", command.side)}

\* While a preview is made nothing changes.
LEMMA StillShownKept == ASSUME IInv, RequestInv, StillShown, [Next]_vars PROVE StillShown'
<1> SUFFICES ASSUME command'.preview, pc' = "item"
             PROVE  plan' \in {PlanLayers(command, quote, Layers), NoPlan("SYMBOL_NOT_FOUND_OR_STALE", command.side)}'
  BY DEF StillShown
<1>1. command' = command
  BY DEF Next, vars, fixed, market, MakePlan, Pass, ReadLive, Prepare, Reread, OrderSend, Refuse, Done, Filled,
         FilledLate, Fill, Lapse, NothingToDo, Rejected, Unanswered, Evidence, Report, Meddle, Move
<1>2. command.preview /\ flight = None /\ pc \notin Stages
  BY <1>1 DEF IInv, AtWork, Open
<1>3. CASE pc = "planning"
  <2>1. MakePlan
    BY <1>2, <1>3 DEF Next, vars, Pass, ReadLive, Prepare, Reread, OrderSend, Filled, FilledLate, Fill, Lapse,
       NothingToDo, Rejected, Unanswered, Evidence, Report, Meddle, Move, Busy
  <2> QED BY <2>1 DEF MakePlan, market, fixed, Layers, Tickets
<1>4. CASE pc # "planning"
  <2>1. UNCHANGED <<account, quote, command, plan>> /\ pc = "item"
    BY <1>2, <1>4 DEF Next, vars, fixed, market, MakePlan, Pass, ReadLive, Executable, Prepare, Reread, OrderSend,
       Filled, FilledLate, Fill, Lapse, NothingToDo, Rejected, Unanswered, Evidence, Report, Meddle, Move, Busy,
       Stages
  <2> QED BY <1>2, <2>1 DEF StillShown, Layers, Tickets
<1> QED BY <1>3, <1>4

\* It is always so.
LEMMA PreviewShown == Spec => [](IInv /\ StillShown)
<1>1. Init => StillShown BY DEF Init, StillShown
<1>2. IInv /\ RequestInv /\ StillShown /\ [Next]_vars => StillShown' BY StillShownKept
<1>3. Spec => []IInv BY Invariance
<1>4. Spec => []RequestInv BY RequestInvariance
<1> QED BY <1>1, <1>2, <1>3, <1>4, PTL DEF Spec

\* A fresh plan of a preview.
LEMMA FreshPlan ==
    ASSUME IInv, StillShown, Fresh
    PROVE  /\ Shown(Rows, quote) /\ \A p \in Rows : p.volume > 0
           /\ plan.target \in Nat
           /\ command.close => plan.items = CloseItems(Ranked(Rows, quote, TRUE), plan.target)
           /\ ~command.close =>
                /\ plan.already \in Int
                /\ plan.items = BeItems(Ranked(Rows, quote, FALSE), quote, plan.already, plan.target)
<1>1. plan = PlanLayers(command, quote, Layers)
      /\ plan.code \in {"OK", "NO_ELIGIBLE_POSITIONS"}
  <2>1. NoPlan("SYMBOL_NOT_FOUND_OR_STALE", command.side).code = "SYMBOL_NOT_FOUND_OR_STALE"
    BY DEF NoPlan, Plan
  <2>2. plan \in {PlanLayers(command, quote, Layers), NoPlan("SYMBOL_NOT_FOUND_OR_STALE", command.side)}
        /\ plan.code \in {"OK", "NO_ELIGIBLE_POSITIONS"}
    BY DEF StillShown, Fresh
  <2> QED BY <2>1, <2>2
<1>2. Shown(Layers, quote) /\ \A p \in Layers : p.volume > 0 BY ShownNow DEF IInv
<1>3. Rows = {r \in Layers : command.side \in {"AUTO", "BOTH", r.side}} BY DEF Rows
<1>4. /\ plan.target = (Volume(Rows) * command.part) \div Parts
      /\ command.close => plan.items = CloseItems(Ranked(Rows, quote, TRUE), plan.target)
      /\ ~command.close =>
           /\ plan.already = Volume({r \in Rows : Protected(r, StopFor(r))})
           /\ plan.items = BeItems(Ranked(Rows, quote, FALSE), quote, plan.already, plan.target)
  <2> DEFINE c == command
             q == quote
             layers == Layers
             p == plan
  <2>1. p = PlanLayers(c, q, layers) /\ p.code \in {"OK", "NO_ELIGIBLE_POSITIONS"} BY <1>1
  <2> HIDE DEF c, q, layers, p
  <2>2. FullPlan(p, c, q, {r \in layers : c.side \in {"AUTO", "BOTH", r.side}})
    BY <2>1, PlanIs, Zenon
  <2>3. FullPlan(plan, command, quote, Rows)
    BY <1>3, <2>2 DEF c, q, layers, p
  <2> QED BY <2>3 DEF FullPlan
<1>5. Rows \subseteq Layers BY <1>3
<1> HIDE DEF Rows
<1>6. Shown(Rows, quote) /\ \A p \in Rows : p.volume > 0
  <2>1. IsFiniteSet(Rows) BY <1>2, <1>5, FS_Subset DEF Shown
  <2> QED BY <1>2, <1>5, <2>1 DEF Shown
<1>7. Volume(Rows) \in Nat BY <1>6, VolumeType DEF Shown
<1>8. plan.target \in Nat
  <2>1. command.part \in Nat BY DEF IInv, Typed
  <2> QED BY <1>4, <1>7, <2>1, Fraction
<1>9. ~command.close => plan.already \in Int
  <2> DEFINE A == {r \in Rows : Protected(r, StopFor(r))}
  <2>1. A \subseteq Rows OBVIOUS
  <2> HIDE DEF A
  <2>2. IsFiniteSet(A) /\ A \subseteq Positions BY <1>6, <2>1, FS_Subset DEF Shown
  <2>3. Volume(A) \in Nat BY <2>2, VolumeType
  <2>4. ~command.close => plan.already = Volume(A) BY <1>4 DEF A
  <2>5. Volume(A) \in Int BY <2>3
  <2> QED BY <2>4, <2>5
<1> QED BY <1>4, <1>6, <1>8, <1>9

\* A close gives every position, the worst price first, the most that a deal may
\* close of it within what is left of the target.
THEOREM Worst == Spec => []WorstFirst
<1>1. ASSUME IInv, StillShown, Fresh, command.close, NEW p \in Rows
      PROVE  LET left == plan.target - SumFunction([o \in {r \in Rows : Before(r, p, quote, TRUE)} |-> Given(o)])
                 deals == {v \in Minimum..Maximum : /\ v % Step = 0 /\ v <= p.volume
                                                    /\ p.volume - v \notin 1..(Minimum - 1)}
             IN Given(p) = Max({0} \cup {v \in deals : v <= left})
  <2> DEFINE before == {r \in Rows : Before(r, p, quote, TRUE)}
             left == plan.target - SumFunction([o \in before |-> Given(o)])
             deals == {v \in Minimum..Maximum : /\ v % Step = 0 /\ v <= p.volume
                                                /\ p.volume - v \notin 1..(Minimum - 1)}
             S == {0} \cup {v \in deals : v <= left}
  <2>1. Best(p, left, Given(p))
    <3> DEFINE q == quote
               layers == Rows
               target == plan.target
    <3>1. Shown(layers, q) /\ target \in Nat /\ plan.items = CloseItems(Ranked(layers, q, TRUE), target)
          /\ p \in layers
      BY <1>1, FreshPlan
    <3>2. \A o : Given(o) = GivenIn(plan.items, o) BY DEF Given, GivenIn
    <3> HIDE DEF q, layers, target
    <3>3. LET items == CloseItems(Ranked(layers, q, TRUE), target)
              ahead == {o \in layers : Before(o, p, q, TRUE)}
          IN Best(p, target - SumFunction([o \in ahead |-> GivenIn(items, o)]), GivenIn(items, p))
      BY <3>1, CloseBest, Zenon
    <3>4. Best(p, target - SumFunction([o \in {r \in layers : Before(r, p, q, TRUE)} |-> GivenIn(plan.items, o)]),
               GivenIn(plan.items, p))
      BY <3>1, <3>3
    <3>5. Best(p, target - SumFunction([o \in {r \in layers : Before(r, p, q, TRUE)} |-> Given(o)]), Given(p))
      BY <3>2, <3>4
    <3> QED BY <3>5 DEF q, layers, target
  <2> HIDE DEF left
  <2>2. \A v : v \in S <=> v = 0 \/ DealOf(p, left, v) BY DEF DealOf
  <2>3. S \subseteq Nat BY VolumeAssumption
  <2> HIDE DEF S
  <2>4. Given(p) \in S /\ \A v \in S : v <= Given(p)
    <3>1. \A v : DealOf(p, left, v) => v \in Nat BY <2>2, <2>3
    <3>2. Given(p) \in Nat BY <2>1, <2>2, <2>3 DEF Best
    <3> QED BY <2>1, <2>2, <3>1, <3>2 DEF Best
  <2>5. Given(p) = Max(S)
    <3>1. Max(S) \in S /\ \A v \in S : v <= Max(S)
      <4>1. \E m \in S : \A v \in S : v <= m BY <2>4
      <4> QED BY <4>1 DEF Max
    <3>2. \A m, g \in S : (\A v \in S : v <= m) /\ (\A v \in S : v <= g) => g = m
      <4>1. \A m, g \in Nat : m <= g /\ g <= m => g = m OBVIOUS
      <4> QED BY <2>3, <4>1, Zenon
    <3> QED BY <2>4, <3>1, <3>2, Zenon
  <2> QED BY <2>5 DEF S, left
<1>2. IInv /\ StillShown => WorstFirst BY <1>1 DEF WorstFirst
<1> QED BY <1>2, PreviewShown, PTL

\* A break-even chooses no more positions than the target takes, the nearest
\* first, and all that can be protected when that is not enough.
THEOREM Enough == Spec => []JustEnough
<1>1. ASSUME IInv, StillShown, Fresh, ~command.close
      PROVE  LET able == {p \in Rows : StopCode(p, quote, StopFor(p)) = "ELIGIBLE"}
                 chosen == {p \in able : Given(p) > 0}
                 reached(s) == plan.already + Volume(s) >= plan.target
                 last == {p \in chosen : \A o \in chosen \ {p} : Before(o, p, quote, FALSE)}
             IN /\ reached(chosen) \/ chosen = able
                /\ chosen # {} => ~reached(chosen \ last)
                /\ \A p \in chosen, o \in able \ chosen : Before(p, o, quote, FALSE)
  <2> DEFINE q == quote
             layers == Rows
             target == plan.target
             already == plan.already
  <2>1. /\ Shown(layers, q) /\ \A p \in layers : p.volume > 0
        /\ target \in Int /\ already \in Int
        /\ plan.items = BeItems(Ranked(layers, q, FALSE), q, already, target)
    <3>1. target \in Nat BY <1>1, FreshPlan
    <3>2. already \in Int BY <1>1, FreshPlan
    <3>3. plan.items = BeItems(Ranked(layers, q, FALSE), q, already, target) BY <1>1, FreshPlan, Zenon
    <3>4. Shown(layers, q) /\ \A p \in layers : p.volume > 0 BY <1>1, FreshPlan, Zenon
    <3>5. target \in Int BY <3>1
    <3> QED BY <3>2, <3>3, <3>4, <3>5
  <2>2. \A o : GivenIn(plan.items, o) = Given(o) BY DEF Given, GivenIn
  <2> HIDE DEF q, layers, target, already
  <2> DEFINE items == BeItems(Ranked(layers, q, FALSE), q, already, target)
             able == {p \in layers : StopCode(p, q, StopFor(p)) = "ELIGIBLE"}
             picked == {p \in able : GivenIn(items, p) > 0}
             chosen == {p \in able : Given(p) > 0}
             last(s) == {p \in s : \A o \in s \ {p} : Before(o, p, q, FALSE)}
  <2>3. /\ already + Volume(picked) >= target \/ picked = able
        /\ picked # {} => ~(already + Volume(picked \ last(picked)) >= target)
        /\ \A p \in picked, o \in able \ picked : Before(p, o, q, FALSE)
    BY <2>1, BeEnough, Zenon
  <2>4. picked = chosen
    <3>1. \A o : GivenIn(items, o) = Given(o) BY <2>1, <2>2
    <3> HIDE DEF items
    <3> QED BY <3>1
  <2> HIDE DEF picked, chosen, last
  <2>5. /\ already + Volume(chosen) >= target \/ chosen = able
        /\ chosen # {} => ~(already + Volume(chosen \ last(chosen)) >= target)
        /\ \A p \in chosen, o \in able \ chosen : Before(p, o, q, FALSE)
    BY <2>3, <2>4
  <2> QED BY <2>5 DEF chosen, last, able, q, layers, target, already
<1>2. IInv /\ StillShown => JustEnough BY <1>1 DEF JustEnough
<1> QED BY <1>2, PreviewShown, PTL
-----------------------------------------------------------------------------
(***************************************************************************)
(* The reference planner of the backend: the same helpers, the same order  *)
(* of rows, then its two loops beside those of the EA, step by step.       *)
(***************************************************************************)

\* Rounding up is rounding down from the other side.
LEMMA RoundedUp ==
    ASSUME NEW x \in Int, NEW k \in Nat \ {0}
    PROVE  (x + k - 1) \div k = -((-x) \div k)
<1> DEFINE a == (x + k - 1) \div k
           b == (-x) \div k
           r == (x + k - 1) % k
           t == (-x) % k
<1>1. a \in Int /\ r \in 0..(k - 1) /\ x + k - 1 = a * k + r
  <2>1. x + k - 1 \in Int
    OBVIOUS
  <2> QED BY <2>1, StepDivision
<1>2. b \in Int /\ t \in 0..(k - 1) /\ -x = b * k + t
  <2>1. -x \in Int
    OBVIOUS
  <2> QED BY <2>1, StepDivision
<1> HIDE DEF a, b, r, t
<1>3. (a + b) * k < k /\ (a + b) * k > -k
  <2>1. (a + b) * k = a * k + b * k
    BY <1>1, <1>2
  <2> QED BY <1>1, <1>2, <2>1
<1>4. a + b < 1
  <2>1. CASE a + b >= 1
    <3>1. (a + b) * k >= k
      BY <1>1, <1>2, <2>1
    <3> QED BY <1>1, <1>2, <1>3, <3>1
  <2> QED BY <1>1, <1>2, <2>1
<1>5. a + b > -1
  <2>1. CASE a + b <= -1
    <3>1. (a + b) * k <= -k
      BY <1>1, <1>2, <2>1
    <3> QED BY <1>1, <1>2, <1>3, <3>1
  <2> QED BY <1>1, <1>2, <2>1
<1>6. a = -b
  BY <1>1, <1>2, <1>4, <1>5
<1> QED BY <1>6 DEF a, b

\* The two agree on the stop of a position, ...
LEMMA SameStop ==
    ASSUME NEW p \in Positions
    PROVE  Reference!threshold(p) = StopFor(p)
<1>1. p.entry \in Nat /\ p.side \in Sides /\ Buffer \in Nat /\ Tick \in Nat \ {0}
  BY PriceAssumption DEF Positions
<1>2. CASE p.side = "BUY"
  <2>1. p.entry + 1 * Buffer = p.entry + Buffer
    BY <1>1
  <2>2. (p.entry + Buffer + Tick - 1) \div Tick = -((-(p.entry + Buffer)) \div Tick)
    <3>1. p.entry + Buffer \in Int
      BY <1>1
    <3> QED BY <1>1, <3>1, RoundedUp
  <2> DEFINE c == (-(p.entry + Buffer)) \div Tick
  <2>3. Reference!threshold(p) = (-c) * Tick
    BY <1>2, <2>1, <2>2 DEF Reference!threshold, Reference!Whole
  <2>4. StopFor(p) = -(c * Tick)
    BY <1>2 DEF StopFor
  <2>5. c \in Int
    <3>1. -(p.entry + Buffer) \in Int
      BY <1>1
    <3> QED BY <1>1, <3>1, StepDivision
  <2> HIDE DEF c
  <2>6. (-c) * Tick = -(c * Tick)
    BY <1>1, <2>5
  <2> QED BY <2>3, <2>4, <2>6
<1>3. CASE p.side = "SELL"
  <2>1. p.entry + (-1) * Buffer = p.entry - Buffer
    BY <1>1
  <2> QED BY <1>3, <2>1 DEF Reference!threshold, Reference!Whole, StopFor
<1> QED BY <1>1, <1>2, <1>3 DEF Sides

\* ... on whether it is protected, ...
LEMMA SameProtected ==
    ASSUME NEW p, NEW stop
    PROVE  Reference!protected(p, stop) = Protected(p, stop)
BY DEF Reference!protected, Protected

\* ... and on whether the stop may be set.
LEMMA SameStopCode ==
    ASSUME NEW p \in Positions, NEW q \in [bid : Nat, ask : Nat], NEW stop \in Int
    PROVE  Reference!validate_stop(p, q, stop) = StopCode(p, q, stop)
<1>1. /\ p.sl \in Nat /\ p.tp \in Nat /\ q.bid \in Nat /\ q.ask \in Nat /\ Stops \in Nat /\ Freeze \in Nat
  BY PriceAssumption DEF Positions
<1> DEFINE price == IF p.side = "BUY" THEN q.bid ELSE q.ask
           distance == IF p.side = "BUY" THEN price - stop ELSE stop - price
<1>2. price = Price(p, q) /\ distance = Room(p, q, stop) /\ price \in Nat
  BY <1>1 DEF Price, Room
<1>3. \A level \in Nat : Reference!Gap(price, level) = Abs(price - level)
  BY <1>2 DEF Reference!Gap, Abs
<1>4. Frozen(p, q, stop) <=>
         \/ distance <= Freeze
         \/ p.sl # 0 /\ Reference!Gap(price, p.sl) <= Freeze
         \/ p.tp # 0 /\ Reference!Gap(price, p.tp) <= Freeze
  <2>1. \A level \in Nat : level # 0 <=> level > 0
    OBVIOUS
  <2>2. Frozen(p, q, stop) <=> \/ distance <= Freeze
                               \/ \E level \in {p.sl, p.tp} : level > 0 /\ Abs(price - level) <= Freeze
    BY <1>2 DEF Frozen
  <2> HIDE DEF price, distance
  <2> QED BY <1>1, <1>3, <2>1, <2>2
<1>5. Reference!validate_stop(p, q, stop) =
        IF Protected(p, stop) THEN "ALREADY_PROTECTED"
        ELSE IF stop <= 0 THEN "STOP_LEVEL_INVALID"
        ELSE IF distance <= 0 \/ distance < Stops THEN "SKIPPED_NOT_ENOUGH_DISTANCE"
        ELSE IF Frozen(p, q, stop) THEN "FREEZE_LEVEL" ELSE "ELIGIBLE"
  <2> DEFINE fr == \/ distance <= Freeze
                   \/ p.sl # 0 /\ Reference!Gap(price, p.sl) <= Freeze
                   \/ p.tp # 0 /\ Reference!Gap(price, p.tp) <= Freeze
  <2>1. Reference!validate_stop(p, q, stop) =
        IF Protected(p, stop) THEN "ALREADY_PROTECTED"
        ELSE IF stop <= 0 THEN "STOP_LEVEL_INVALID"
        ELSE IF distance <= 0 \/ distance < Stops THEN "SKIPPED_NOT_ENOUGH_DISTANCE"
        ELSE IF fr THEN "FREEZE_LEVEL" ELSE "ELIGIBLE"
    BY SameProtected DEF Reference!validate_stop
  <2> HIDE DEF fr, distance
  <2> QED BY <1>4, <2>1 DEF fr
<1> HIDE DEF price, distance
<1> QED BY <1>2, <1>5 DEF StopCode

\* The sums of volumes are the same.
LEMMA SameVolume ==
    ASSUME NEW S
    PROVE  Reference!Lots(S) = Volume(S)
BY DEF Reference!Lots, Volume, Reference!SumFunction, SumFunction, Reference!SumFunctionOnSet, SumFunctionOnSet,
       Reference!FoldFunctionOnSet, FoldFunctionOnSet, Reference!MapThenFoldSet, MapThenFoldSet

\* And the order of the rows is.
LEMMA SameOrder ==
    ASSUME NEW rows \in SUBSET Positions, NEW q \in [bid : Nat, ask : Nat], NEW close \in BOOLEAN
    PROVE  Reference!sorted(rows, q, IF close THEN "close" ELSE "be") = Ranked(rows, q, close)
<1> DEFINE action == IF close THEN "close" ELSE "be"
<1>1. action = "close" <=> close
  OBVIOUS
<1>2. ASSUME NEW p \in rows
      PROVE  Reference!key(p, q, action) = Rank(p, q, close)
  <2>1. p.entry \in Nat /\ q.bid \in Nat /\ q.ask \in Nat
    BY DEF Positions
  <2> DEFINE price == IF p.side = "BUY" THEN q.bid ELSE q.ask
  <2>2. price = Price(p, q) /\ price \in Nat
    BY <2>1 DEF Price
  <2>3. Reference!Gap(price, p.entry) = Abs(price - p.entry)
    <3> HIDE DEF price
    <3> QED BY <2>1, <2>2 DEF Reference!Gap, Abs
  <2> QED BY <1>1, <2>2, <2>3 DEF Reference!key, Rank
<1> HIDE DEF action
<1>3. \A a, b \in rows : Reference!precedes(a, b, q, action) <=> Before(a, b, q, close)
  BY <1>2 DEF Reference!precedes, Before
<1>4. \A p \in rows : {o \in rows : Reference!precedes(o, p, q, action)} = {o \in rows : Before(o, p, q, close)}
  BY <1>3
<1>0. \A S : Reference!Cardinality(S) = Cardinality(S)
  BY DEF Reference!Cardinality, Cardinality
<1>5. \A p \in rows : Cardinality({o \in rows : Reference!precedes(o, p, q, action)}) = Place(p, rows, q, close)
  BY <1>4 DEF Place
<1> DEFINE F(i) == CHOOSE p \in rows : Reference!Cardinality({o \in rows : Reference!precedes(o, p, q, action)}) = i - 1
           G(i) == CHOOSE p \in rows : Place(p, rows, q, close) = i - 1
<1>6. \A i : F(i) = G(i)
  BY <1>0, <1>5
<1>7. Reference!sorted(rows, q, action) = Ranked(rows, q, close)
  <2>1. Reference!sorted(rows, q, action) = [i \in 1..Reference!Cardinality(rows) |-> F(i)]
    BY DEF Reference!sorted
  <2>2. Ranked(rows, q, close) = [i \in 1..Cardinality(rows) |-> G(i)]
    BY DEF Ranked
  <2> HIDE DEF F, G
  <2> QED BY <1>0, <1>6, <2>1, <2>2
<1> QED BY <1>7 DEF action

\* What the reference planner's loops carry along.
Entries == [ticket : Nat, code : ItemCodes, volume : Int, stop : Int]
Carried == [remaining : Int, items : Seq(Entries)]

\* The first rows of a close.
RefCloseRun(loop, n, rows, target) ==
    /\ loop \in [0..n -> Carried]
    /\ loop[0] = [remaining |-> target, items |-> <<>>]
    /\ \A k \in 1..n : loop[k] = Reference!CloseStep(loop[k - 1], rows[k])
    /\ Reference!closing(rows, target) = loop[n]

\* One more entry.
LEMMA MoreEntries ==
    ASSUME NEW items \in Seq(Entries), NEW e \in Entries
    PROVE  /\ Append(items, e) \in Seq(Entries)
           /\ Len(Append(items, e)) = Len(items) + 1 /\ Len(items) \in Nat
           /\ Append(items, e)[Len(items) + 1] = e
           /\ \A i \in 1..Len(items) : Append(items, e)[i] = items[i]
OBVIOUS

\* A row of a close takes what is carried along to what is carried along.
LEMMA RefCloseStepType ==
    ASSUME NEW acc \in Carried, NEW p \in Positions
    PROVE  Reference!CloseStep(acc, p) \in Carried
<1> DEFINE floored == Reference!Whole(Reference!Min({p.volume, acc.remaining, Maximum}), Step)
           amount == IF 0 < p.volume - floored /\ p.volume - floored < Minimum
                     THEN Reference!Whole(p.volume - Minimum, Step) ELSE floored
           constrained == [ticket |-> p.ticket, code |-> "VOLUME_CONSTRAINT", volume |-> 0, stop |-> 0]
           eligible == [ticket |-> p.ticket, code |-> "ELIGIBLE", volume |-> amount, stop |-> 0]
<1>1. /\ p.ticket \in Nat /\ p.volume \in Nat /\ acc.remaining \in Int /\ acc.items \in Seq(Entries)
      /\ Step \in Nat \ {0} /\ Minimum \in Nat /\ Maximum \in Nat
  BY VolumeAssumption DEF Positions, Carried
<1>2. amount \in Int
  <2>1. \A v \in Int : Reference!Whole(v, Step) \in Int
    <3> TAKE v \in Int
    <3>1. v \div Step \in Int
      BY <1>1, StepDivision
    <3> QED BY <1>1, <3>1 DEF Reference!Whole
  <2>2. Reference!Min({p.volume, acc.remaining, Maximum}) \in Int
    <3>1. Reference!Min({p.volume, acc.remaining, Maximum}) = Min({p.volume, acc.remaining, Maximum})
      BY DEF Reference!Min, Min
    <3>2. p.volume \in Int /\ acc.remaining \in Int /\ Maximum \in Int
      BY <1>1
    <3>3. Min({p.volume, acc.remaining, Maximum}) \in {p.volume, acc.remaining, Maximum}
      BY <3>2, MinOfThree
    <3> QED BY <3>1, <3>2, <3>3
  <2>3. floored \in Int
    BY <2>1, <2>2
  <2>4. Reference!Whole(p.volume - Minimum, Step) \in Int
    BY <1>1, <2>1
  <2> HIDE DEF floored
  <2> QED BY <2>3, <2>4
<1>3. constrained \in Entries /\ eligible \in Entries
  <2> HIDE DEF amount
  <2> QED BY <1>1, <1>2 DEF Entries, ItemCodes
<1>4. Reference!CloseStep(acc, p) =
        IF acc.remaining <= 0 THEN acc
        ELSE IF amount < Minimum THEN [acc EXCEPT !.items = Append(@, constrained)]
        ELSE [remaining |-> acc.remaining - amount, items |-> Append(acc.items, eligible)]
  BY DEF Reference!CloseStep
<1> HIDE DEF amount, constrained, eligible
<1>5. Append(acc.items, constrained) \in Seq(Entries) /\ Append(acc.items, eligible) \in Seq(Entries)
  BY <1>1, <1>3, MoreEntries
<1>6. [acc EXCEPT !.items = Append(@, constrained)] \in Carried
  BY <1>5 DEF Carried
<1>7. [remaining |-> acc.remaining - amount, items |-> Append(acc.items, eligible)] \in Carried
  BY <1>1, <1>2, <1>5 DEF Carried
<1> QED BY <1>4, <1>6, <1>7

\* The loop carries it along.
LEMMA RefCloseLoop ==
    ASSUME NEW n \in Nat, NEW rows \in [1..n -> Positions], NEW target \in Int
    PROVE  \E loop : RefCloseRun(loop, n, rows, target)
<1> DEFINE H == [k \in 1..n |-> [v \in Carried |-> Reference!CloseStep(v, rows[k])]]
           base == [remaining |-> target, items |-> <<>>]
<1>1. H \in [1..n -> [Carried -> Carried]]
      /\ \A k \in 1..n, v \in Carried : H[k][v] = Reference!CloseStep(v, rows[k])
  BY RefCloseStepType
<1>2. base \in Carried
  <2>1. <<>> \in Seq(Entries)
    OBVIOUS
  <2> QED BY <2>1 DEF Carried
<1> HIDE DEF H
<1>3. PICK g \in [SUBSET (1..n) -> Carried] : \A s \in SUBSET (1..n) :
          g[s] = IF s = {} THEN base ELSE H[Max(s)][g[s \ {Max(s)}]]
  <2>1. H \in [1..n -> [Carried -> Carried]]
    BY <1>1
  <2> HIDE DEF base
  <2>2. \E g \in [SUBSET (1..n) -> Carried] : FoldsTo(g, n, base, H)
    BY <1>2, <2>1, Folding, Zenon
  <2> QED BY <2>2 DEF FoldsTo
<1> DEFINE P(h) == h = [s \in SUBSET (DOMAIN rows) |->
                          IF s = {} THEN base ELSE Reference!CloseStep(h[s \ {Max(s)}], rows[Max(s)])]
           h == CHOOSE x : P(x)
<1>4. Reference!closing(rows, target) = h[DOMAIN rows]
  BY DEF Reference!closing, Reference!FoldLeft, Reference!MapThenFoldSet, Reference!Max, Max
<1>5. P(g)
  <2>1. ASSUME NEW s \in SUBSET (1..n), s # {}
        PROVE  g[s] = Reference!CloseStep(g[s \ {Max(s)}], rows[Max(s)])
    <3>1. Max(s) \in 1..n /\ g[s \ {Max(s)}] \in Carried
      BY <2>1, Greatest
    <3> QED BY <1>1, <1>3, <2>1, <3>1
  <2>2. g = [s \in SUBSET (1..n) |->
               IF s = {} THEN base ELSE Reference!CloseStep(g[s \ {Max(s)}], rows[Max(s)])]
    <3> HIDE DEF base
    <3> QED BY <1>3, <2>1
  <2>3. DOMAIN rows = 1..n
    OBVIOUS
  <2> QED BY <2>2, <2>3
<1>6. P(h)
  <2> HIDE DEF P
  <2> QED BY <1>5
<1> HIDE DEF h
<1>7. \A s \in SUBSET (1..n) :
          h[s] = IF s = {} THEN base ELSE Reference!CloseStep(h[s \ {Max(s)}], rows[Max(s)])
  BY <1>6
<1> HIDE DEF base
<1>8. PICK loop : Runs(loop, n, base, Carried, H, h[1..n])
  <2>1. FoldsWithin(h, n, base, Carried, H)
    BY <1>1, <1>2, <1>7, Greatest DEF FoldsWithin
  <2> QED BY <2>1, FoldLoop, Zenon
<1>9. loop \in [0..n -> Carried] /\ loop[0] = base /\ loop[n] = h[1..n]
  BY <1>8 DEF Runs
<1>10. ASSUME NEW k \in 1..n PROVE loop[k] = Reference!CloseStep(loop[k - 1], rows[k])
  <2>1. k - 1 \in 0..n
    OBVIOUS
  <2> QED BY <1>1, <1>8, <2>1 DEF Runs
<1>11. DOMAIN rows = 1..n
  OBVIOUS
<1>12. RefCloseRun(loop, n, rows, target)
  BY <1>4, <1>9, <1>10, <1>11 DEF RefCloseRun, base
<1> QED BY <1>12

\* Two lists that match go on matching when the same is added to both, ...
LEMMA MatchesBoth ==
    ASSUME NEW items \in Seq(Items), NEW theirs \in Seq(Entries), NEW it \in Items, NEW e \in Entries,
           Matches(items, theirs), Len(items) = Len(theirs), e = Entry(it)
    PROVE  Matches(Append(items, it), Append(theirs, e))
           /\ Len(Append(items, it)) = Len(Append(theirs, e))
<1> DEFINE s == Append(items, it)
           t == Append(theirs, e)
           n == Len(items)
<1>1. /\ Len(s) = n + 1 /\ n \in Nat /\ s[n + 1] = it /\ \A i \in 1..n : s[i] = items[i]
  BY Appended
<1>2. /\ Len(t) = n + 1 /\ t[n + 1] = e /\ \A i \in 1..n : t[i] = theirs[i]
  BY MoreEntries
<1>3. \A i \in 1..n : theirs[i] = Entry(items[i])
  BY <1>1 DEF Matches
<1> HIDE DEF s, t, n
<1>4. \A i \in 1..(n + 1) : i = n + 1 \/ i \in 1..n
  BY <1>1
<1>5. \A i \in 1..(n + 1) : t[i] = Entry(s[i])
  BY <1>1, <1>2, <1>3, <1>4
<1>6. Matches(s, t)
  BY <1>1, <1>2, <1>5 DEF Matches
<1> QED BY <1>1, <1>2, <1>6 DEF s, t

\* ... and when a position that the limits exclude is added to the second.
LEMMA MatchesMore ==
    ASSUME NEW items \in Seq(Items), NEW theirs \in Seq(Entries), NEW e \in Entries,
           Matches(items, theirs), e.code = "VOLUME_CONSTRAINT"
    PROVE  Matches(items, Append(theirs, e))
<1> DEFINE t == Append(theirs, e)
           n == Len(theirs)
<1>1. /\ Len(t) = n + 1 /\ n \in Nat /\ t[n + 1] = e /\ \A i \in 1..n : t[i] = theirs[i]
  BY MoreEntries
<1>2. Len(items) \in Nat
  OBVIOUS
<1> HIDE DEF t
<1>3. \A i \in 1..(n + 1) : i = n + 1 \/ i \in 1..n
  BY <1>1
<1>4. Len(items) <= n /\ \A i \in 1..n :
        IF i <= Len(items) THEN theirs[i] = Entry(items[i]) ELSE theirs[i].code = "VOLUME_CONSTRAINT"
  BY DEF Matches
<1> HIDE DEF n
<1>5. ASSUME NEW i \in 1..(n + 1)
      PROVE  IF i <= Len(items) THEN t[i] = Entry(items[i]) ELSE t[i].code = "VOLUME_CONSTRAINT"
  <2>1. CASE i \in 1..n
    BY <1>1, <1>4, <2>1
  <2>2. CASE i = n + 1
    <3>1. ~(i <= Len(items))
      BY <1>1, <1>2, <1>4, <2>2
    <3> QED BY <1>1, <2>2, <3>1
  <2> QED BY <1>3, <2>1, <2>2
<1>6. Len(items) <= n + 1
  BY <1>1, <1>2, <1>4
<1> QED BY <1>1, <1>5, <1>6 DEF Matches, t

\* What the two planners have after the same rows of a close.
Abreast(items, acc, target) ==
    /\ items \in Seq(Items) /\ acc \in Carried
    /\ acc.remaining = target - Planned(items)
    /\ Matches(items, acc.items)
    /\ Len(items) = Len(acc.items) \/ target - Planned(items) < Step

\* One row more.
LEMMA CloseAbreast ==
    ASSUME NEW items, NEW acc, NEW target \in Int, Abreast(items, acc, target), NEW p \in Positions
    PROVE  Abreast(CloseStep(items, p, target), Reference!CloseStep(acc, p), target)
<1> DEFINE left == target - Planned(items)
           floored == Reference!Whole(Reference!Min({p.volume, acc.remaining, Maximum}), Step)
           amount == IF 0 < p.volume - floored /\ p.volume - floored < Minimum
                     THEN Reference!Whole(p.volume - Minimum, Step) ELSE floored
           constrained == [ticket |-> p.ticket, code |-> "VOLUME_CONSTRAINT", volume |-> 0, stop |-> 0]
           eligible == [ticket |-> p.ticket, code |-> "ELIGIBLE", volume |-> amount, stop |-> 0]
           v == CloseVolume(p, left)
           it == Item(p, IF v >= Minimum THEN "ELIGIBLE" ELSE "VOLUME_CONSTRAINT", v, 0)
           w == Min({p.volume, left, Maximum})
<1>1. /\ p.ticket \in Nat /\ p.volume \in Nat /\ Step \in Nat \ {0} /\ Minimum \in Nat \ {0} /\ Maximum \in Nat \ {0}
  BY VolumeAssumption DEF Positions
<1>2. /\ items \in Seq(Items) /\ acc \in Carried /\ acc.items \in Seq(Entries)
      /\ acc.remaining = left /\ left \in Int /\ Planned(items) \in Int
  BY PlannedType DEF Abreast, Carried
<1>3. /\ w \in {p.volume, left, Maximum} /\ w <= p.volume /\ w <= left /\ w <= Maximum /\ w \in Int
  <2>1. p.volume \in Int /\ left \in Int /\ Maximum \in Int
    BY <1>1, <1>2
  <2> HIDE DEF left
  <2>2. /\ w \in {p.volume, left, Maximum} /\ w <= p.volume /\ w <= left /\ w <= Maximum
    BY <2>1, MinOfThree
  <2> HIDE DEF w
  <2> QED BY <2>1, <2>2
<1>4. \A x : Reference!Whole(x, Step) = Floored(x)
  BY DEF Reference!Whole, Floored
<1>5. floored = Floored(w) /\ floored \in Int
  <2>1. Reference!Min({p.volume, acc.remaining, Maximum}) = w
    BY <1>2 DEF Reference!Min, Min
  <2> HIDE DEF w
  <2> QED BY <1>3, <1>4, <2>1, FlooredFits
<1>6. v = amount /\ amount \in Int
  <2>1. v = IF p.volume - Floored(w) \in 1..(Minimum - 1) THEN Floored(p.volume - Minimum) ELSE Floored(w)
    BY DEF CloseVolume
  <2>2. p.volume - Floored(w) \in 1..(Minimum - 1) <=> 0 < p.volume - floored /\ p.volume - floored < Minimum
    <3> HIDE DEF floored
    <3> QED BY <1>1, <1>5
  <2>3. Floored(p.volume - Minimum) \in Int
    BY <1>1, FlooredFits
  <2> HIDE DEF floored, w, v
  <2> QED BY <1>4, <1>5, <2>1, <2>2, <2>3
<1>7. Reference!CloseStep(acc, p) =
        IF acc.remaining <= 0 THEN acc
        ELSE IF amount < Minimum THEN [acc EXCEPT !.items = Append(@, constrained)]
        ELSE [remaining |-> acc.remaining - amount, items |-> Append(acc.items, eligible)]
  BY DEF Reference!CloseStep
<1>8. CloseStep(items, p, target) = IF left < Step THEN items ELSE Append(items, it)
  BY DEF CloseStep
<1>9. left < Step /\ left > 0 => amount < Minimum
  <2> SUFFICES ASSUME left < Step, left > 0 PROVE amount < Minimum
    OBVIOUS
  <2> HIDE DEF left, w, floored
  <2>1. w \in 0..(Step - 1)
    BY <1>1, <1>2, <1>3
  <2>2. Floored(w) = 0
    <3>1. w \div Step = 0
      BY <1>1, <2>1
    <3> QED BY <1>1, <3>1 DEF Floored
  <2>3. Floored(p.volume - Minimum) <= p.volume - Minimum /\ Floored(p.volume - Minimum) \in Int
    BY <1>1, FlooredFits
  <2> QED BY <1>1, <1>4, <1>5, <2>2, <2>3
<1>10. it \in Items /\ constrained \in Entries /\ eligible \in Entries
  <2> HIDE DEF v, amount
  <2> QED BY <1>1, <1>6 DEF Item, Items, ItemCodes, Entries
<1>11. it.code = (IF v >= Minimum THEN "ELIGIBLE" ELSE "VOLUME_CONSTRAINT") /\ it.volume = v
       /\ Entry(it) = IF v >= Minimum THEN eligible ELSE constrained
  <2> HIDE DEF v, amount
  <2> QED BY <1>6 DEF Item, Entry
<1>12. constrained.code = "VOLUME_CONSTRAINT"
  OBVIOUS
<1>13. Append(acc.items, constrained) \in Seq(Entries) /\ Append(acc.items, eligible) \in Seq(Entries)
  <2> HIDE DEF eligible, constrained
  <2> QED BY <1>2, <1>10, MoreEntries
<1> HIDE DEF left, amount, v, it, constrained, eligible, w, floored
<1>14. CASE left <= 0
  <2>1. left < Step
    BY <1>1, <1>2, <1>14
  <2> QED BY <1>2, <1>7, <1>8, <1>14, <2>1
<1>15. CASE left > 0 /\ left < Step
  <2> DEFINE new == [acc EXCEPT !.items = Append(@, constrained)]
  <2>1. CloseStep(items, p, target) = items /\ Reference!CloseStep(acc, p) = new
    BY <1>1, <1>2, <1>7, <1>8, <1>9, <1>15
  <2>2. new \in Carried /\ new.remaining = acc.remaining /\ new.items = Append(acc.items, constrained)
    BY <1>2, <1>13 DEF Carried
  <2> HIDE DEF new
  <2>3. Matches(items, new.items)
    BY <1>2, <1>10, <1>12, <2>2, MatchesMore DEF Abreast
  <2> QED BY <1>2, <1>15, <2>1, <2>2, <2>3 DEF Abreast, left
<1>16. CASE left >= Step
  <2> DEFINE s == Append(items, it)
  <2>1. /\ CloseStep(items, p, target) = s
        /\ s \in Seq(Items) /\ Planned(s) = Planned(items) + (IF it.code = "ELIGIBLE" THEN it.volume ELSE 0)
    BY <1>1, <1>2, <1>8, <1>10, <1>16, Appended
  <2>2. Len(items) = Len(acc.items) /\ Matches(items, acc.items)
    BY <1>1, <1>2, <1>16 DEF Abreast, left
  <2>3. \A e \in Entries : e = Entry(it) => /\ Matches(s, Append(acc.items, e))
                                            /\ Len(s) = Len(Append(acc.items, e))
    BY <1>2, <1>10, <2>2, MatchesBoth
  <2> HIDE DEF s
  <2>4. CASE amount < Minimum
    <3> DEFINE new == [acc EXCEPT !.items = Append(@, constrained)]
    <3>1. Reference!CloseStep(acc, p) = new
      BY <1>1, <1>2, <1>7, <1>16, <2>4
    <3>2. new \in Carried /\ new.remaining = acc.remaining /\ new.items = Append(acc.items, constrained)
      BY <1>2, <1>13 DEF Carried
    <3>3. Entry(it) = constrained /\ it.code # "ELIGIBLE"
      BY <1>1, <1>6, <1>11, <2>4
    <3>4. Planned(s) = Planned(items)
      BY <1>2, <2>1, <3>3
    <3> HIDE DEF new
    <3> QED BY <1>2, <1>10, <2>1, <2>3, <3>1, <3>2, <3>3, <3>4 DEF Abreast, left
  <2>5. CASE amount >= Minimum
    <3> DEFINE new == [remaining |-> acc.remaining - amount, items |-> Append(acc.items, eligible)]
    <3>1. Reference!CloseStep(acc, p) = new
      BY <1>1, <1>2, <1>6, <1>7, <1>16, <2>5
    <3>2. new \in Carried /\ new.remaining = acc.remaining - amount /\ new.items = Append(acc.items, eligible)
      BY <1>2, <1>6, <1>13 DEF Carried
    <3>3. Entry(it) = eligible /\ it.code = "ELIGIBLE" /\ it.volume = amount
      BY <1>1, <1>6, <1>11, <2>5
    <3>4. Planned(s) = Planned(items) + amount
      BY <2>1, <3>3
    <3>5. target - Planned(s) = acc.remaining - amount
      BY <1>2, <1>6, <3>4 DEF left
    <3> HIDE DEF new
    <3> QED BY <1>10, <2>1, <2>3, <3>1, <3>2, <3>3, <3>5 DEF Abreast
  <2> QED BY <1>1, <1>6, <2>4, <2>5
<1> QED BY <1>1, <1>2, <1>14, <1>15, <1>16

\* What the loops make of the same rows of a close matches.
LEMMA CloseMatches ==
    ASSUME NEW n \in Nat, NEW rows \in [1..n -> Positions], NEW target \in Int
    PROVE  Abreast(CloseItems(rows, target), Reference!closing(rows, target), target)
<1>1. PICK mine : CloseRun(mine, n, rows, target)
  BY CloseLoop
<1>2. PICK theirs : RefCloseRun(theirs, n, rows, target)
  BY RefCloseLoop
<1> DEFINE S == {k \in Nat : k <= n => Abreast(mine[k], theirs[k], target)}
<1>3. 0 \in S
  <2>1. <<>> \in Seq(Items) /\ <<>> \in Seq(Entries) /\ Len(<<>>) = 0 /\ Planned(<<>>) = 0
    BY PlannedEmpty
  <2>2. 0 \in 0..n /\ mine[0] = <<>> /\ theirs[0] \in Carried
        /\ theirs[0].remaining = target /\ theirs[0].items = <<>>
    BY <1>1, <1>2 DEF CloseRun, RefCloseRun
  <2>3. Matches(<<>>, <<>>)
    BY <2>1 DEF Matches
  <2>4. Abreast(mine[0], theirs[0], target)
    BY <2>1, <2>2, <2>3 DEF Abreast
  <2> QED BY <2>4
<1>4. ASSUME NEW j \in Nat, j \in S PROVE j + 1 \in S
  <2> SUFFICES ASSUME j + 1 <= n PROVE Abreast(mine[j + 1], theirs[j + 1], target)
    OBVIOUS
  <2>1. Abreast(mine[j], theirs[j], target) /\ j + 1 \in 1..n /\ (j + 1) - 1 = j
    BY <1>4
  <2>2. /\ mine[j + 1] = CloseStep(mine[j], rows[j + 1], target)
        /\ theirs[j + 1] = Reference!CloseStep(theirs[j], rows[j + 1])
    BY <1>1, <1>2, <2>1 DEF CloseRun, RefCloseRun
  <2>3. rows[j + 1] \in Positions
    BY <2>1
  <2> QED BY <2>1, <2>2, <2>3, CloseAbreast
<1> HIDE DEF S
<1>5. n \in S
  BY <1>3, <1>4, NumberInduction
<1>6. Abreast(mine[n], theirs[n], target)
  BY <1>5 DEF S
<1> QED BY <1>1, <1>2, <1>6 DEF CloseRun, RefCloseRun

\* The first rows of a break-even.
RefBeRun(loop, n, rows, q, missing) ==
    /\ loop \in [0..n -> Carried]
    /\ loop[0] = [remaining |-> missing, items |-> <<>>]
    /\ \A k \in 1..n : loop[k] = Reference!BeStep(q, loop[k - 1], rows[k])
    /\ Reference!protecting(rows, q, missing) = loop[n]

\* A row of a break-even takes what is carried along to what is carried along.
LEMMA RefBeStepType ==
    ASSUME NEW q \in [bid : Nat, ask : Nat], NEW acc \in Carried, NEW p \in Positions
    PROVE  Reference!BeStep(q, acc, p) \in Carried
<1> DEFINE stop == StopFor(p)
           code == StopCode(p, q, stop)
           e == [ticket |-> p.ticket, code |-> code, volume |-> p.volume, stop |-> stop]
           rest == acc.remaining - (IF code = "ELIGIBLE" THEN p.volume ELSE 0)
<1>1. p.ticket \in Nat /\ p.volume \in Nat /\ acc.remaining \in Int /\ acc.items \in Seq(Entries)
  BY DEF Positions, Carried
<1>2. stop \in Int /\ code \in ItemCodes
  BY StopForType, StopCodeType
<1>3. Reference!threshold(p) = stop /\ Reference!validate_stop(p, q, stop) = code
  BY <1>2, SameStop, SameStopCode
<1>4. Reference!BeStep(q, acc, p) = IF code # "ALREADY_PROTECTED" /\ acc.remaining <= 0 THEN acc
                                   ELSE [remaining |-> rest, items |-> Append(acc.items, e)]
  <2> HIDE DEF stop, code
  <2> QED BY <1>3 DEF Reference!BeStep
<1> HIDE DEF stop, code
<1>5. e \in Entries /\ rest \in Int
  BY <1>1, <1>2 DEF Entries
<1> HIDE DEF e, rest
<1>6. Append(acc.items, e) \in Seq(Entries)
  BY <1>1, <1>5, MoreEntries
<1>7. [remaining |-> rest, items |-> Append(acc.items, e)] \in Carried
  BY <1>5, <1>6 DEF Carried
<1> QED BY <1>4, <1>7

\* The loop carries it along.
LEMMA RefBeLoop ==
    ASSUME NEW n \in Nat, NEW rows \in [1..n -> Positions], NEW q \in [bid : Nat, ask : Nat], NEW missing \in Int
    PROVE  \E loop : RefBeRun(loop, n, rows, q, missing)
<1> DEFINE H == [k \in 1..n |-> [v \in Carried |-> Reference!BeStep(q, v, rows[k])]]
           base == [remaining |-> missing, items |-> <<>>]
<1>1. H \in [1..n -> [Carried -> Carried]]
      /\ \A k \in 1..n, v \in Carried : H[k][v] = Reference!BeStep(q, v, rows[k])
  BY RefBeStepType
<1>2. base \in Carried
  <2>1. <<>> \in Seq(Entries)
    OBVIOUS
  <2> QED BY <2>1 DEF Carried
<1> HIDE DEF H
<1>3. PICK g \in [SUBSET (1..n) -> Carried] : \A s \in SUBSET (1..n) :
          g[s] = IF s = {} THEN base ELSE H[Max(s)][g[s \ {Max(s)}]]
  <2>1. H \in [1..n -> [Carried -> Carried]]
    BY <1>1
  <2> HIDE DEF base
  <2>2. \E g \in [SUBSET (1..n) -> Carried] : FoldsTo(g, n, base, H)
    BY <1>2, <2>1, Folding, Zenon
  <2> QED BY <2>2 DEF FoldsTo
<1> DEFINE P(h) == h = [s \in SUBSET (DOMAIN rows) |->
                          IF s = {} THEN base ELSE Reference!BeStep(q, h[s \ {Max(s)}], rows[Max(s)])]
           h == CHOOSE x : P(x)
<1>4. Reference!protecting(rows, q, missing) = h[DOMAIN rows]
  BY DEF Reference!protecting, Reference!FoldLeft, Reference!MapThenFoldSet, Reference!Max, Max
<1>5. P(g)
  <2>1. ASSUME NEW s \in SUBSET (1..n), s # {}
        PROVE  g[s] = Reference!BeStep(q, g[s \ {Max(s)}], rows[Max(s)])
    <3>1. Max(s) \in 1..n /\ g[s \ {Max(s)}] \in Carried
      BY <2>1, Greatest
    <3> QED BY <1>1, <1>3, <2>1, <3>1
  <2>2. g = [s \in SUBSET (1..n) |->
               IF s = {} THEN base ELSE Reference!BeStep(q, g[s \ {Max(s)}], rows[Max(s)])]
    <3> HIDE DEF base
    <3> QED BY <1>3, <2>1
  <2>3. DOMAIN rows = 1..n
    OBVIOUS
  <2> QED BY <2>2, <2>3
<1>6. P(h)
  <2> HIDE DEF P
  <2> QED BY <1>5
<1> HIDE DEF h
<1>7. \A s \in SUBSET (1..n) :
          h[s] = IF s = {} THEN base ELSE Reference!BeStep(q, h[s \ {Max(s)}], rows[Max(s)])
  BY <1>6
<1> HIDE DEF base
<1>8. PICK loop : Runs(loop, n, base, Carried, H, h[1..n])
  <2>1. FoldsWithin(h, n, base, Carried, H)
    BY <1>1, <1>2, <1>7, Greatest DEF FoldsWithin
  <2> QED BY <2>1, FoldLoop, Zenon
<1>9. loop \in [0..n -> Carried] /\ loop[0] = base /\ loop[n] = h[1..n]
  BY <1>8 DEF Runs
<1>10. ASSUME NEW k \in 1..n PROVE loop[k] = Reference!BeStep(q, loop[k - 1], rows[k])
  <2>1. k - 1 \in 0..n
    OBVIOUS
  <2> QED BY <1>1, <1>8, <2>1 DEF Runs
<1>11. DOMAIN rows = 1..n
  OBVIOUS
<1>12. RefBeRun(loop, n, rows, q, missing)
  BY <1>4, <1>9, <1>10, <1>11 DEF RefBeRun, base
<1> QED BY <1>12

\* What the two planners have after the same rows of a break-even.
Level(items, acc, already, target) ==
    /\ items \in Seq(Items) /\ acc \in Carried
    /\ acc.remaining = target - already - Planned(items)
    /\ Matches(items, acc.items)
    /\ Len(items) = Len(acc.items)

\* One row more.
LEMMA BeLevel ==
    ASSUME NEW items, NEW acc, NEW q \in [bid : Nat, ask : Nat], NEW already \in Int, NEW target \in Int,
           Level(items, acc, already, target), NEW p \in Positions
    PROVE  Level(BeStep(items, p, q, already, target), Reference!BeStep(q, acc, p), already, target)
<1> DEFINE stop == StopFor(p)
           code == StopCode(p, q, stop)
           e == [ticket |-> p.ticket, code |-> code, volume |-> p.volume, stop |-> stop]
           it == Item(p, code, p.volume, stop)
           share == IF code = "ELIGIBLE" THEN p.volume ELSE 0
           new == [remaining |-> acc.remaining - share, items |-> Append(acc.items, e)]
           s == Append(items, it)
<1>1. /\ p.ticket \in Nat /\ p.volume \in Nat /\ acc.remaining \in Int /\ acc.items \in Seq(Entries)
      /\ items \in Seq(Items) /\ Planned(items) \in Int /\ acc.remaining = target - already - Planned(items)
  BY PlannedType DEF Positions, Carried, Level
<1>2. stop \in Int /\ code \in ItemCodes /\ code # "VOLUME_CONSTRAINT"
  <2>1. StopCode(p, q, stop) # "VOLUME_CONSTRAINT"
    BY DEF StopCode
  <2> QED BY <2>1, StopForType, StopCodeType
<1>3. Reference!threshold(p) = stop /\ Reference!validate_stop(p, q, stop) = code
  BY <1>2, SameStop, SameStopCode
<1>4. Reference!BeStep(q, acc, p) = IF code # "ALREADY_PROTECTED" /\ acc.remaining <= 0 THEN acc ELSE new
  <2> HIDE DEF stop, code
  <2> QED BY <1>3 DEF Reference!BeStep
<1>5. BeStep(items, p, q, already, target) =
        IF code # "ALREADY_PROTECTED" /\ already + Planned(items) >= target THEN items ELSE s
  BY DEF BeStep
<1> HIDE DEF stop, code
<1>6. acc.remaining <= 0 <=> already + Planned(items) >= target
  BY <1>1
<1>7. it \in Items /\ e \in Entries /\ e = Entry(it) /\ it.code = code /\ it.volume = p.volume /\ share \in Int
  BY <1>1, <1>2 DEF Item, Items, Entries, Entry
<1> HIDE DEF it, e, share
<1>8. s \in Seq(Items) /\ Planned(s) = Planned(items) + share
  BY <1>1, <1>7, Appended DEF share
<1>9. Matches(s, Append(acc.items, e)) /\ Len(s) = Len(Append(acc.items, e)) /\ Append(acc.items, e) \in Seq(Entries)
  BY <1>1, <1>7, MatchesBoth, MoreEntries DEF Level
<1> HIDE DEF s
<1>10. new \in Carried /\ new.remaining = acc.remaining - share /\ new.items = Append(acc.items, e)
  BY <1>1, <1>7, <1>9 DEF Carried
<1> HIDE DEF new
<1>11. acc.remaining - share = target - already - Planned(s)
  BY <1>1, <1>7, <1>8
<1>12. Level(s, new, already, target)
  BY <1>8, <1>9, <1>10, <1>11 DEF Level
<1> QED BY <1>4, <1>5, <1>6, <1>12

\* What the loops make of the same rows of a break-even matches.
LEMMA BeMatches ==
    ASSUME NEW n \in Nat, NEW rows \in [1..n -> Positions], NEW q \in [bid : Nat, ask : Nat],
           NEW already \in Int, NEW target \in Int
    PROVE  Level(BeItems(rows, q, already, target), Reference!protecting(rows, q, target - already), already, target)
<1>1. PICK mine : BeRun(mine, n, rows, q, already, target)
  BY BeLoop
<1>2. PICK theirs : RefBeRun(theirs, n, rows, q, target - already)
  <2>1. target - already \in Int
    OBVIOUS
  <2> QED BY <2>1, RefBeLoop
<1> DEFINE S == {k \in Nat : k <= n => Level(mine[k], theirs[k], already, target)}
<1>3. 0 \in S
  <2>1. <<>> \in Seq(Items) /\ <<>> \in Seq(Entries) /\ Len(<<>>) = 0 /\ Planned(<<>>) = 0
    BY PlannedEmpty
  <2>2. 0 \in 0..n /\ mine[0] = <<>> /\ theirs[0] \in Carried
        /\ theirs[0].remaining = target - already /\ theirs[0].items = <<>>
    BY <1>1, <1>2 DEF BeRun, RefBeRun
  <2>3. Matches(<<>>, <<>>)
    BY <2>1 DEF Matches
  <2>4. Level(mine[0], theirs[0], already, target)
    BY <2>1, <2>2, <2>3 DEF Level
  <2> QED BY <2>4
<1>4. ASSUME NEW j \in Nat, j \in S PROVE j + 1 \in S
  <2> SUFFICES ASSUME j + 1 <= n PROVE Level(mine[j + 1], theirs[j + 1], already, target)
    OBVIOUS
  <2>1. Level(mine[j], theirs[j], already, target) /\ j + 1 \in 1..n /\ (j + 1) - 1 = j
    BY <1>4
  <2>2. /\ mine[j + 1] = BeStep(mine[j], rows[j + 1], q, already, target)
        /\ theirs[j + 1] = Reference!BeStep(q, theirs[j], rows[j + 1])
    BY <1>1, <1>2, <2>1 DEF BeRun, RefBeRun
  <2>3. rows[j + 1] \in Positions
    BY <2>1
  <2> QED BY <2>1, <2>2, <2>3, BeLevel
<1> HIDE DEF S
<1>5. n \in S
  BY <1>3, <1>4, NumberInduction
<1>6. Level(mine[n], theirs[n], already, target)
  BY <1>5 DEF S
<1> QED BY <1>1, <1>2, <1>6 DEF BeRun, RefBeRun

\* Two plans that agree.
Agree(mine, theirs) ==
    /\ [mine EXCEPT !.items = <<>>] = [theirs EXCEPT !.items = <<>>]
    /\ Matches(mine.items, theirs.items) /\ theirs.items \in Seq(Entries)

\* A plan and a result that say the same agree if their items match.
LEMMA SameResult ==
    ASSUME NEW code, NEW side, NEW rows, NEW target, NEW already, NEW items, NEW entries,
           Matches(items, entries), entries \in Seq(Entries)
    PROVE  Agree(Plan(code, side, rows, target, already, items),
                 Reference!result(code, side, rows, target, already, Planned(items), entries))
<1>1. /\ Reference!Lots(rows) = Volume(rows)
      /\ Reference!Lots({p \in rows : p.side = "BUY"}) = Volume({p \in rows : p.side = "BUY"})
  BY SameVolume
<1> DEFINE v == Planned(items)
           t == Volume(rows)
           b == Volume({p \in rows : p.side = "BUY"})
           r(list) == [code |-> code, side |-> side, total |-> t, target |-> target, already |-> already,
                       planned |-> v, buy |-> b, items |-> list]
<1>2. Plan(code, side, rows, target, already, items) = r(items)
  BY DEF Plan
<1>3. Reference!result(code, side, rows, target, already, v, entries) = r(entries)
  BY <1>1 DEF Reference!result
<1> HIDE DEF v, t, b
<1>4. \A list : [r(list) EXCEPT !.items = <<>>] = r(<<>>) /\ r(list).items = list
  OBVIOUS
<1>5. Agree(r(items), r(entries))
  <2> HIDE DEF r
  <2> QED BY <1>4 DEF Agree
<1> QED BY <1>2, <1>3, <1>5 DEF v

\* The sides of some positions: more than one means both.
LEMMA SidesOf ==
    ASSUME NEW sides \in SUBSET Sides
    PROVE  Reference!Cardinality(sides) > 1 <=> sides = {"BUY", "SELL"}
<1>1. Reference!Cardinality(sides) = Cardinality(sides)
  BY DEF Reference!Cardinality, Cardinality
<1>2. sides \in {{}, {"BUY"}, {"SELL"}, {"BUY", "SELL"}}
  BY DEF Sides
<1>3. Cardinality({}) = 0 /\ Cardinality({"BUY"}) = 1 /\ Cardinality({"SELL"}) = 1
  BY FS_EmptySet, FS_Singleton
<1>4. Cardinality({"BUY", "SELL"}) = 2
  <2>1. {"BUY"} \cup {"SELL"} = {"BUY", "SELL"} /\ "SELL" \notin {"BUY"}
    OBVIOUS
  <2>2. IsFiniteSet({"BUY"})
    BY FS_Singleton
  <2>3. Cardinality({"BUY"} \cup {"SELL"}) = Cardinality({"BUY"}) + 1
    BY <2>1, <2>2, FS_AddElement
  <2> QED BY <1>3, <2>1, <2>3
<1>5. {"BUY", "SELL"} # {} /\ {"BUY", "SELL"} # {"BUY"} /\ {"BUY", "SELL"} # {"SELL"}
  OBVIOUS
<1> QED BY <1>1, <1>2, <1>3, <1>4, <1>5

\* Both planners choose the same rows, and name the same side.
RowsOf(c, layers) == {p \in layers : c.side \in {"AUTO", "BOTH", p.side}}
RefSide(c, layers) ==
    IF c.side = "AUTO" /\ {p.side : p \in layers} # {} THEN CHOOSE s \in {p.side : p \in layers} : TRUE ELSE c.side
RefRows(c, layers) ==
    IF RefSide(c, layers) = "BOTH" THEN layers ELSE {p \in layers : p.side = RefSide(c, layers)}

LEMMA SameRows ==
    ASSUME NEW layers \in SUBSET Positions, NEW c, c.side \in Sides \cup {"AUTO", "BOTH"},
           c.side = "AUTO" => {p.side : p \in layers} # {"BUY", "SELL"}
    PROVE  /\ RefRows(c, layers) = RowsOf(c, layers)
           /\ RowsOf(c, layers) = {} => RefSide(c, layers) = c.side
           /\ RowsOf(c, layers) # {} => RefSide(c, layers) =
                IF c.side = "AUTO" THEN (CHOOSE p \in RowsOf(c, layers) : TRUE).side ELSE c.side
<1> DEFINE sides == {p.side : p \in layers}
<1>1. \A p \in layers : p.side \in Sides /\ p.side \in sides
  BY DEF Positions
<1>2. CASE c.side = "BOTH"
  BY <1>2 DEF RowsOf, RefSide, RefRows
<1>3. CASE c.side \in Sides
  <2>1. RefSide(c, layers) = c.side /\ c.side # "BOTH" /\ c.side # "AUTO"
    BY <1>3 DEF RefSide, Sides
  <2>2. RowsOf(c, layers) = {p \in layers : p.side = c.side}
    BY <2>1 DEF RowsOf
  <2> QED BY <2>1, <2>2 DEF RefRows
<1>4. CASE c.side = "AUTO"
  <2>1. RowsOf(c, layers) = layers
    BY <1>4 DEF RowsOf
  <2>2. CASE sides = {}
    <3>1. layers = {}
      BY <1>1, <2>2
    <3>2. RefSide(c, layers) = c.side
      BY <1>4, <2>2 DEF RefSide
    <3> QED BY <2>1, <3>1, <3>2 DEF RefRows
  <2>3. CASE sides # {}
    <3>1. PICK s \in Sides : sides = {s}
      <4>1. sides \in SUBSET Sides
        BY <1>1
      <4>2. sides \in {{"BUY"}, {"SELL"}}
        <5> HIDE DEF sides
        <5>1. sides # {"BUY", "SELL"}
          BY <1>4 DEF sides
        <5> QED BY <2>3, <4>1, <5>1 DEF Sides
      <4> QED BY <4>2 DEF Sides
    <3>2. RefSide(c, layers) = s
      <4>1. (CHOOSE x \in sides : TRUE) = s
        <5> HIDE DEF sides
        <5> QED BY <3>1
      <4> QED BY <1>4, <2>3, <4>1 DEF RefSide
    <3>3. \A p \in layers : p.side = s
      BY <1>1, <3>1
    <3>4. layers # {} /\ (CHOOSE p \in layers : TRUE) \in layers
      BY <2>3
    <3>5. s # "BOTH"
      BY DEF Sides
    <3>6. (CHOOSE p \in layers : TRUE).side = s
      BY <3>3, <3>4
    <3>7. RefRows(c, layers) = layers
      BY <3>2, <3>3, <3>5 DEF RefRows
    <3> QED BY <1>4, <2>1, <3>2, <3>4, <3>6, <3>7
  <2> QED BY <2>2, <2>3
<1> QED BY <1>2, <1>3, <1>4

\* The two planners come to the same plan of whatever is shown.
THEOREM PlannersAgree ==
    ASSUME NEW layers, NEW q, Shown(layers, q),
           NEW c, c.close \in BOOLEAN, c.part \in Nat, c.side \in Sides \cup {"AUTO", "BOTH"},
           c.side # IF c.close THEN "AUTO" ELSE "BOTH"
    PROVE  Agree(PlanLayers(c, q, layers),
                 Reference!plan(layers, q, c.side, c.part, IF c.close THEN "close" ELSE "be"))
<1> DEFINE action == IF c.close THEN "close" ELSE "be"
           sides == {p.side : p \in layers}
           rows == RowsOf(c, layers)
           chosen == RefSide(c, layers)
           target == (Volume(rows) * c.part) \div Parts
           already == IF c.close THEN 0 ELSE Volume({p \in rows : Protected(p, StopFor(p))})
           items == IF c.close THEN CloseItems(Ranked(rows, q, TRUE), target)
                    ELSE BeItems(Ranked(rows, q, FALSE), q, already, target)
           idle == Planned(items) <= 0 /\ (c.close \/ already < target)
           RR == RefRows(c, layers)
           tt == (Reference!Lots(RR) * c.part) \div Parts
           aa == IF action = "close" THEN 0
                 ELSE Reference!Lots({p \in RR : Reference!protected(p, Reference!threshold(p))})
           done == IF action = "close" THEN Reference!closing(Reference!sorted(RR, q, action), tt)
                   ELSE Reference!protecting(Reference!sorted(RR, q, action), q, tt - aa)
           planned == tt - aa - done.remaining
           mixed == action = "be" /\ c.side \in {"AUTO", "BOTH"} /\ Reference!Cardinality(sides) > 1
           theirs == Reference!plan(layers, q, c.side, c.part, action)
           mine == PlanLayers(c, q, layers)
<1>1. theirs = IF mixed THEN Reference!result("AMBIGUOUS_SIDE", "AUTO", {}, 0, 0, 0, <<>>)
               ELSE IF RR = {} THEN Reference!result("NO_POSITIONS", chosen, {}, 0, 0, 0, <<>>)
               ELSE Reference!result(IF planned > 0 \/ (action = "be" /\ aa >= tt)
                                     THEN "OK" ELSE "NO_ELIGIBLE_POSITIONS",
                                     chosen, RR, tt, aa, planned, done.items)
  BY DEF Reference!plan, RefSide, RefRows
<1>2. mine = CASE ~c.close /\ c.side = "AUTO" /\ sides = {"BUY", "SELL"} -> NoPlan("AMBIGUOUS_SIDE", c.side)
               [] rows = {} -> NoPlan("NO_POSITIONS", c.side)
               [] OTHER -> Plan(IF idle THEN "NO_ELIGIBLE_POSITIONS" ELSE "OK",
                                IF c.side = "AUTO" THEN (CHOOSE p \in rows : TRUE).side ELSE c.side,
                                rows, target, already, items)
  BY DEF PlanLayers, RowsOf
<1>3. layers \in SUBSET Positions /\ IsFiniteSet(layers) /\ q \in [bid : Nat, ask : Nat]
      /\ rows \in SUBSET layers /\ rows \in SUBSET Positions /\ IsFiniteSet(rows) /\ Shown(rows, q)
  <2>1. rows \in SUBSET layers
    BY DEF RowsOf
  <2>2. IsFiniteSet(rows)
    BY <2>1, FS_Subset DEF Shown
  <2> QED BY <2>1, <2>2 DEF Shown
<1>4. action = "close" <=> c.close
  OBVIOUS
<1>5. mixed <=> ~c.close /\ c.side = "AUTO" /\ sides = {"BUY", "SELL"}
  <2>1. sides \in SUBSET Sides
    BY <1>3 DEF Positions
  <2>2. Reference!Cardinality(sides) > 1 <=> sides = {"BUY", "SELL"}
    <3> HIDE DEF sides
    <3> QED BY <2>1, SidesOf
  <2> HIDE DEF sides
  <2> QED BY <2>2
<1>6. Planned(<<>>) = 0 /\ Matches(<<>>, <<>>) /\ <<>> \in Seq(Entries)
  <2>1. Len(<<>>) = 0 /\ Planned(<<>>) = 0
    BY PlannedEmpty
  <2> QED BY <2>1 DEF Matches
<1>7. \A code, side : Agree(NoPlan(code, side), Reference!result(code, side, {}, 0, 0, 0, <<>>))
  <2> TAKE code, side
  <2>1. Agree(Plan(code, side, {}, 0, 0, <<>>), Reference!result(code, side, {}, 0, 0, Planned(<<>>), <<>>))
    BY <1>6, SameResult
  <2> QED BY <1>6, <2>1 DEF NoPlan
<1>8. CASE mixed
  <2>1. theirs = Reference!result("AMBIGUOUS_SIDE", "AUTO", {}, 0, 0, 0, <<>>)
    BY <1>1, <1>8
  <2>2. c.side = "AUTO"
    BY <1>5, <1>8
  <2>3. mine = NoPlan("AMBIGUOUS_SIDE", "AUTO")
    <3>1. ~c.close /\ c.side = "AUTO" /\ sides = {"BUY", "SELL"}
      BY <1>5, <1>8
    <3>2. rows # {}
      <4>1. layers # {}
        BY <3>1
      <4> QED BY <3>1, <4>1 DEF RowsOf
    <3> HIDE DEF sides, rows, target, already, items, idle, mine
    <3> QED BY <1>2, <3>1, <3>2
  <2>4. Agree(mine, theirs)
    <3> HIDE DEF mine, theirs
    <3> QED BY <1>7, <2>1, <2>3
  <2> QED BY <2>4
<1>9. CASE ~mixed
  <2>1. /\ RR = rows
        /\ rows = {} => chosen = c.side
        /\ rows # {} => chosen = IF c.side = "AUTO" THEN (CHOOSE p \in rows : TRUE).side ELSE c.side
    <3>1. c.side = "AUTO" => sides # {"BUY", "SELL"}
      BY <1>5, <1>9
    <3> QED BY <1>3, <3>1, SameRows
  <2>2. CASE rows = {}
    <3>1. theirs = Reference!result("NO_POSITIONS", c.side, {}, 0, 0, 0, <<>>)
      <4> HIDE DEF theirs, mixed, RR, chosen, planned, done, aa, tt, rows
      <4> QED BY <1>1, <1>9, <2>1, <2>2
    <3>2. mine = NoPlan("NO_POSITIONS", c.side)
      <4>1. ~(~c.close /\ c.side = "AUTO" /\ sides = {"BUY", "SELL"})
        BY <1>5, <1>9
      <4> HIDE DEF sides, rows, target, already, items, idle, mine
      <4> QED BY <1>2, <2>2, <4>1
    <3>3. Agree(mine, theirs)
      <4> HIDE DEF mine, theirs
      <4> QED BY <1>7, <3>1, <3>2
    <3> QED BY <3>3
  <2>3. CASE rows # {}
    <3>1. tt = target
      BY <2>1, SameVolume
    <3>2. aa = already
      <4> DEFINE G == {p \in rows : Reference!protected(p, Reference!threshold(p))}
      <4>1. G = {p \in rows : Protected(p, StopFor(p))}
        BY <1>3, SameStop, SameProtected
      <4>2. Reference!Lots(G) = Volume({p \in rows : Protected(p, StopFor(p))})
        BY <4>1, SameVolume
      <4> QED BY <1>4, <2>1, <4>2
    <3>3. Reference!sorted(RR, q, action) = Ranked(rows, q, c.close)
      BY <1>3, <2>1, SameOrder
    <3>4. target \in Int /\ already \in Int
      <4>1. Volume(rows) \in Nat
        BY <1>3, VolumeType
      <4>2. target \in Nat
        <5> DEFINE v == Volume(rows)
        <5> HIDE DEF v
        <5>1. v \in Nat BY <4>1 DEF v
        <5>2. (v * c.part) \div Parts \in Nat
          BY <5>1, Fraction
        <5> QED BY <5>2 DEF v
      <4>3. Volume({p \in rows : Protected(p, StopFor(p))}) \in Nat
        <5> DEFINE G == {p \in rows : Protected(p, StopFor(p))}
        <5>1. G \in SUBSET rows
          OBVIOUS
        <5> HIDE DEF G
        <5>2. IsFiniteSet(G) /\ G \subseteq Positions
          BY <1>3, <5>1, FS_Subset
        <5>3. Volume(G) \in Nat
          BY <5>2, VolumeType
        <5> QED BY <5>3 DEF G
      <4> HIDE DEF target
      <4> QED BY <4>2, <4>3
    <3>5. done = IF c.close THEN Reference!closing(Ranked(rows, q, TRUE), target)
                 ELSE Reference!protecting(Ranked(rows, q, FALSE), q, target - already)
      <4> HIDE DEF tt, aa, target, already, rows, RR, action
      <4>1. CASE c.close
        <5>1. c.close = TRUE
          BY <4>1
        <5> QED BY <1>4, <3>1, <3>2, <3>3, <4>1, <5>1
      <4>2. CASE ~c.close
        <5>1. c.close = FALSE
          BY <4>2
        <5> QED BY <1>4, <3>1, <3>2, <3>3, <4>2, <5>1
      <4> QED BY <4>1, <4>2
    <3> HIDE DEF target, already, tt, aa, done, RR, chosen, mixed, theirs, mine, sides, rows, action
    <3>6. /\ items \in Seq(Items)
          /\ done.remaining = target - already - Planned(items)
          /\ Matches(items, done.items) /\ done.items \in Seq(Entries)
      <4>0. Cardinality(rows) \in Nat
            /\ \A close : Ranked(rows, q, close) \in [1..Cardinality(rows) -> Positions]
        BY <1>3, RankedRows
      <4>1. CASE c.close
        <5>1. Abreast(CloseItems(Ranked(rows, q, TRUE), target), Reference!closing(Ranked(rows, q, TRUE), target), target)
          BY <3>4, <4>0, CloseMatches
        <5>2. already = 0
          BY <4>1 DEF already
        <5>3. done = Reference!closing(Ranked(rows, q, TRUE), target) /\ items = CloseItems(Ranked(rows, q, TRUE), target)
          BY <3>5, <4>1
        <5>4. /\ items \in Seq(Items) /\ done.remaining = target - Planned(items)
              /\ Matches(items, done.items) /\ done.items \in Seq(Entries)
          BY <5>1, <5>3 DEF Abreast, Carried
        <5>5. target - already = target
          BY <3>4, <5>2
        <5> QED BY <5>4, <5>5
      <4>2. CASE ~c.close
        <5>1. Level(BeItems(Ranked(rows, q, FALSE), q, already, target),
                    Reference!protecting(Ranked(rows, q, FALSE), q, target - already), already, target)
          BY <1>3, <3>4, <4>0, BeMatches
        <5>3. done = Reference!protecting(Ranked(rows, q, FALSE), q, target - already)
              /\ items = BeItems(Ranked(rows, q, FALSE), q, already, target)
          BY <3>5, <4>2
        <5> QED BY <5>1, <5>3 DEF Level, Carried
      <4> QED BY <4>1, <4>2
    <3> HIDE DEF items
    <3>7. planned = Planned(items) /\ Planned(items) \in Int
      <4>1. Planned(items) \in Int
        BY <3>6, PlannedType
      <4> QED BY <3>1, <3>2, <3>4, <3>6, <4>1
    <3> HIDE DEF planned
    <3>8. idle <=> ~(planned > 0 \/ (action = "be" /\ aa >= tt))
      <4>1. action = "be" <=> ~c.close
        BY DEF action
      <4> QED BY <3>1, <3>2, <3>4, <3>7, <4>1
    <3> HIDE DEF idle
    <3>9. theirs = Reference!result(IF idle THEN "NO_ELIGIBLE_POSITIONS" ELSE "OK",
                                    chosen, rows, target, already, Planned(items), done.items)
      BY <1>1, <1>9, <2>1, <2>3, <3>1, <3>2, <3>7, <3>8
    <3>10. mine = Plan(IF idle THEN "NO_ELIGIBLE_POSITIONS" ELSE "OK", chosen, rows, target, already, items)
      <4>1. ~(~c.close /\ c.side = "AUTO" /\ sides = {"BUY", "SELL"})
        BY <1>5, <1>9
      <4> QED BY <1>2, <2>1, <2>3, <4>1
    <3>11. Agree(mine, theirs)
      BY <3>6, <3>9, <3>10, SameResult
    <3> QED BY <3>11 DEF mine, theirs, action
  <2> QED BY <2>2, <2>3
<1> QED BY <1>8, <1>9

\* A command is one that ReadCommand accepts.
Commanded ==
    /\ command \in [close : BOOLEAN, side : Sides \cup {"AUTO", "BOTH"}, part : Nat, preview : BOOLEAN]
    /\ command.side # IF command.close THEN "AUTO" ELSE "BOTH"

\* It stays one.
LEMMA StaysCommanded == Spec => []Commanded
<1>1. Init => Commanded
  BY CasesAssumption, PartsAssumption DEF Init, Commanded
<1>2. Commanded /\ [Next]_vars => Commanded'
  <2> SUFFICES ASSUME Commanded, [Next]_vars PROVE Commanded'
    OBVIOUS
  <2>1. command' = command
    BY DEF Next, vars, fixed, market, MakePlan, Pass, ReadLive, Prepare, Reread, OrderSend, Refuse, Done, Filled,
           FilledLate, Fill, Lapse, NothingToDo, Rejected, Unanswered, Evidence, Report, Meddle, Move
  <2> QED BY <2>1 DEF Commanded
<1> QED BY <1>1, <1>2, PTL DEF Spec

\* The plan of a preview agrees with the reference plan of what is shown.
LEMMA AgreesNow ==
    ASSUME IInv, StillShown, Commanded,
           command.preview, pc = "item", plan.code # "SYMBOL_NOT_FOUND_OR_STALE"
    PROVE  Agree(plan, ReferencePlan) /\ plan = PlanLayers(command, quote, Layers)
<1>1. plan = PlanLayers(command, quote, Layers)
  <2>1. NoPlan("SYMBOL_NOT_FOUND_OR_STALE", command.side).code = "SYMBOL_NOT_FOUND_OR_STALE"
    BY DEF NoPlan, Plan
  <2> QED BY <2>1 DEF StillShown
<1> DEFINE q == quote
           layers == Layers
           c == command
<1>2. Shown(layers, q)
  BY ShownNow DEF IInv
<1>3. /\ c.close \in BOOLEAN /\ c.part \in Nat /\ c.side \in Sides \cup {"AUTO", "BOTH"}
      /\ c.side # IF c.close THEN "AUTO" ELSE "BOTH"
  BY DEF Commanded
<1>4. ReferencePlan = Reference!plan(layers, q, c.side, c.part, IF c.close THEN "close" ELSE "be")
  BY DEF ReferencePlan, Action
<1>5. plan = PlanLayers(c, q, layers)
  BY <1>1
<1> HIDE DEF q, layers, c
<1>6. Agree(PlanLayers(c, q, layers),
            Reference!plan(layers, q, c.side, c.part, IF c.close THEN "close" ELSE "be"))
  BY <1>2, <1>3, PlannersAgree
<1>7. Agree(plan, ReferencePlan)
  BY <1>4, <1>5, <1>6
<1> QED BY <1>1, <1>7

\* The EA and the reference planner come to the same plan of whatever is shown.
THEOREM SamePlans == Spec => []PlansAgree
<1>1. IInv /\ StillShown /\ Commanded => PlansAgree
  BY AgreesNow DEF PlansAgree, Agree
<1> QED BY <1>1, PreviewShown, StaysCommanded, PTL
-----------------------------------------------------------------------------
(***************************************************************************)
(* The simulator: its loop over the items, what it does of a plan that     *)
(* fits the positions, and the status it gives.                            *)
(***************************************************************************)

\* A position after the simulator changed it, and what its execution carries along.
Wide == [ticket : Nat, side : Sides, volume : Int, entry : Nat, sl : Int, tp : Nat]
States == [positions : SUBSET Wide, confirmed : Int]

\* A changed position.
LEMMA ChangedType ==
    ASSUME NEW p \in Wide, NEW action, NEW e \in Entries
    PROVE  /\ Reference!Changed(p, action, e) \subseteq Wide
           /\ \A r \in Reference!Changed(p, action, e) : r.ticket = p.ticket
<1> DEFINE a == [p EXCEPT !.sl = e.stop]
           b == [p EXCEPT !.volume = @ - e.volume]
<1>1. /\ p.ticket \in Nat /\ p.side \in Sides /\ p.volume \in Int /\ p.entry \in Nat /\ p.sl \in Int /\ p.tp \in Nat
      /\ e.stop \in Int /\ e.volume \in Int
      /\ p = [ticket |-> p.ticket, side |-> p.side, volume |-> p.volume, entry |-> p.entry, sl |-> p.sl, tp |-> p.tp]
  BY DEF Wide, Entries
<1>2. a \in Wide /\ a.ticket = p.ticket
  BY <1>1 DEF Wide
<1>3. b \in Wide /\ b.ticket = p.ticket
  BY <1>1 DEF Wide
<1>4. Reference!Changed(p, action, e) = IF action = "be" THEN {a} ELSE {q \in {b} : q.volume > 0}
  BY DEF Reference!Changed
<1> HIDE DEF a, b
<1> QED BY <1>2, <1>3, <1>4

\* One item more.
LEMMA ExecuteType ==
    ASSUME NEW acc \in States, NEW m, NEW action, NEW reject, NEW e \in Entries
    PROVE  Reference!execute(acc, m, action, reject, e) \in States
<1> DEFINE of == {p \in acc.positions : p.ticket = e.ticket}
           new == (acc.positions \ of) \cup UNION {Reference!Changed(p, action, e) : p \in of}
           sum == acc.confirmed + e.volume
           code == Reference!ItemCode(acc.positions, m, action, reject, e)
<1>1. acc.positions \subseteq Wide /\ acc.confirmed \in Int /\ e.volume \in Int
  BY DEF States, Entries
<1>2. new \subseteq Wide /\ sum \in Int
  BY <1>1, ChangedType
<1>3. Reference!execute(acc, m, action, reject, e) =
        IF code # "CONFIRMED" THEN acc ELSE [positions |-> new, confirmed |-> sum]
  BY DEF Reference!execute
<1> HIDE DEF new, sum, code
<1> QED BY <1>2, <1>3 DEF States

\* The first items of an execution.
SimRun(loop, layers, m, items, action, reject) ==
    /\ loop \in [0..Len(items) -> States]
    /\ loop[0] = [positions |-> layers, confirmed |-> 0]
    /\ \A k \in 1..Len(items) : loop[k] = Reference!execute(loop[k - 1], m, action, reject, items[k])
    /\ loop[Len(items)] = Reference!simulate_execute(layers, m, items, action, reject)

\* The loop carries it along.
LEMMA SimLoop ==
    ASSUME NEW items \in Seq(Entries), NEW layers \in SUBSET Positions, NEW m, NEW action, NEW reject
    PROVE  \E loop : SimRun(loop, layers, m, items, action, reject)
<1> DEFINE n == Len(items)
           H == [k \in 1..n |-> [v \in States |-> Reference!execute(v, m, action, reject, items[k])]]
           base == [positions |-> layers, confirmed |-> 0]
<1>0. n \in Nat /\ DOMAIN items = 1..n /\ \A k \in 1..n : items[k] \in Entries
  OBVIOUS
<1>1. H \in [1..n -> [States -> States]]
      /\ \A k \in 1..n, v \in States : H[k][v] = Reference!execute(v, m, action, reject, items[k])
  BY <1>0, ExecuteType
<1>2. base \in States
  <2>1. Positions \subseteq Wide
    BY DEF Positions, Wide
  <2> QED BY <2>1 DEF States
<1> HIDE DEF H, n
<1>3. PICK g \in [SUBSET (1..n) -> States] : \A s \in SUBSET (1..n) :
          g[s] = IF s = {} THEN base ELSE H[Max(s)][g[s \ {Max(s)}]]
  <2>1. H \in [1..n -> [States -> States]]
    BY <1>1
  <2> HIDE DEF base
  <2>2. \E g \in [SUBSET (1..n) -> States] : FoldsTo(g, n, base, H)
    BY <1>0, <1>2, <2>1, Folding, Zenon
  <2> QED BY <2>2 DEF FoldsTo
<1> DEFINE P(h) == h = [s \in SUBSET (DOMAIN items) |->
                          IF s = {} THEN base
                          ELSE Reference!execute(h[s \ {Max(s)}], m, action, reject, items[Max(s)])]
           h == CHOOSE x : P(x)
<1>4. Reference!simulate_execute(layers, m, items, action, reject) = h[DOMAIN items]
  BY DEF Reference!simulate_execute, Reference!FoldLeft, Reference!MapThenFoldSet, Reference!Max, Max
<1>5. P(g)
  <2>1. ASSUME NEW s \in SUBSET (1..n), s # {}
        PROVE  g[s] = Reference!execute(g[s \ {Max(s)}], m, action, reject, items[Max(s)])
    <3>1. Max(s) \in 1..n /\ g[s \ {Max(s)}] \in States
      BY <1>0, <2>1, Greatest
    <3> QED BY <1>1, <1>3, <2>1, <3>1
  <2>2. g = [s \in SUBSET (1..n) |->
               IF s = {} THEN base
               ELSE Reference!execute(g[s \ {Max(s)}], m, action, reject, items[Max(s)])]
    <3> HIDE DEF base
    <3> QED BY <1>3, <2>1
  <2> QED BY <1>0, <2>2
<1>6. P(h)
  <2> HIDE DEF P
  <2> QED BY <1>5
<1> HIDE DEF h
<1>7. \A s \in SUBSET (1..n) :
          h[s] = IF s = {} THEN base ELSE Reference!execute(h[s \ {Max(s)}], m, action, reject, items[Max(s)])
  BY <1>0, <1>6
<1> HIDE DEF base
<1>8. PICK loop : Runs(loop, n, base, States, H, h[1..n])
  <2>1. FoldsWithin(h, n, base, States, H)
    BY <1>0, <1>1, <1>2, <1>7, Greatest DEF FoldsWithin
  <2> QED BY <2>1, FoldLoop, Zenon
<1>9. loop \in [0..n -> States] /\ loop[0] = base /\ loop[n] = h[1..n]
  BY <1>8 DEF Runs
<1>10. ASSUME NEW k \in 1..n PROVE loop[k] = Reference!execute(loop[k - 1], m, action, reject, items[k])
  <2>1. k - 1 \in 0..n
    BY <1>0
  <2> QED BY <1>1, <1>8, <2>1 DEF Runs
<1>11. SimRun(loop, layers, m, items, action, reject)
  BY <1>0, <1>4, <1>9, <1>10 DEF SimRun, base, n
<1> QED BY <1>11

\* An item that the simulator's broker can do as it is: of which position, and
\* what it asks of it.
Doable(e, p, m, action) ==
    /\ p.ticket = e.ticket
    /\ IF action = "be" THEN Reference!validate_stop(p, m, e.stop) = "ELIGIBLE" ELSE e.volume <= p.volume

\* The eligible ones of the first k items.
Orders(items, k) == {i \in 1..k : items[i].code = "ELIGIBLE"}

\* Every eligible item can be done, each of another position.
AllDoable(items, layers, m, action) ==
    /\ \A p, r \in layers : p.ticket = r.ticket => p = r
    /\ \A i \in Orders(items, Len(items)) : \E p \in layers : Doable(items[i], p, m, action)
    /\ \A i, j \in Orders(items, Len(items)) : items[i].ticket = items[j].ticket => i = j

\* A broker that rejects every position leaves all as it was.
LEMMA RejectsAll ==
    ASSUME NEW items \in Seq(Entries), NEW layers \in SUBSET Positions, NEW m, NEW action,
           AllDoable(items, layers, m, action), NEW reject, \A p \in layers : p.ticket \in reject
    PROVE  Reference!simulate_execute(layers, m, items, action, reject) = [positions |-> layers, confirmed |-> 0]
<1> DEFINE n == Len(items)
           base == [positions |-> layers, confirmed |-> 0]
<1>1. PICK loop : SimRun(loop, layers, m, items, action, reject)
  BY SimLoop
<1>2. n \in Nat
  OBVIOUS
<1>3. ASSUME NEW k \in 1..n PROVE Reference!execute(base, m, action, reject, items[k]) = base
  <2> DEFINE e == items[k]
             code == Reference!ItemCode(layers, m, action, reject, e)
  <2>1. code # "CONFIRMED"
    <3>1. CASE e.code # "ELIGIBLE"
      <4>0. e \in Entries
        OBVIOUS
      <4>1. e.code \in ItemCodes
        BY <4>0 DEF Entries
      <4>2. e.code # "CONFIRMED"
        BY <4>1 DEF ItemCodes
      <4>3. code = e.code
        BY <3>1 DEF Reference!ItemCode
      <4> QED BY <4>2, <4>3
    <3>2. CASE e.code = "ELIGIBLE"
      <4>1. k \in Orders(items, Len(items))
        BY <3>2 DEF Orders
      <4>2. e.ticket \in reject
        BY <4>1 DEF AllDoable, Doable
      <4>3. code \in {"POSITION_DISAPPEARED", "BROKER_REJECTED"}
        BY <3>2, <4>2 DEF Reference!ItemCode
      <4> QED BY <4>3
    <3> QED BY <3>1, <3>2
  <2>2. base.positions = layers
    OBVIOUS
  <2> HIDE DEF base
  <2> QED BY <2>1, <2>2 DEF Reference!execute
<1> DEFINE S == {k \in Nat : k <= n => loop[k] = base}
<1>4. 0 \in S
  BY <1>1 DEF SimRun
<1>5. ASSUME NEW j \in Nat, j \in S PROVE j + 1 \in S
  <2> SUFFICES ASSUME j + 1 <= n PROVE loop[j + 1] = base
    OBVIOUS
  <2>1. loop[j] = base /\ j + 1 \in 1..n /\ (j + 1) - 1 = j
    BY <1>2, <1>5
  <2>2. loop[j + 1] = Reference!execute(loop[j], m, action, reject, items[j + 1])
    BY <1>1, <2>1 DEF SimRun
  <2> HIDE DEF base
  <2> QED BY <1>3, <2>1, <2>2
<1> HIDE DEF S
<1>6. n \in S
  BY <1>2, <1>4, <1>5, NumberInduction
<1> QED BY <1>1, <1>6 DEF S, SimRun

\* The orders about a position, and what they leave of it.
Hits(items, k, p) == {i \in Orders(items, k) : items[i].ticket = p.ticket}
After(items, hits, p, action) ==
    IF hits = {} THEN {p} ELSE UNION {Reference!Changed(p, action, items[i]) : i \in hits}
Left(items, k, p, action) == After(items, Hits(items, k, p), p, action)

\* What the first k items come to, if all of them are done.
DoneSoFar(items, k, layers, action) ==
    [positions |-> UNION {Left(items, k, p, action) : p \in layers},
     confirmed |-> SumFunctionOnSet([i \in 1..Len(items) |-> items[i].volume], Orders(items, k))]

\* What is left of a position has its ticket.
LEMMA LeftTicket ==
    ASSUME NEW items \in Seq(Entries), NEW k \in 0..Len(items), NEW p \in Positions, NEW action,
           NEW r \in Left(items, k, p, action)
    PROVE  r.ticket = p.ticket
<1>1. p \in Wide
  BY DEF Positions, Wide
<1>2. \A i \in Hits(items, k, p) : items[i] \in Entries
  BY DEF Hits, Orders
<1>3. CASE Hits(items, k, p) = {}
  BY <1>3 DEF Left, After
<1>4. CASE Hits(items, k, p) # {}
  <2>1. PICK i \in Hits(items, k, p) : r \in Reference!Changed(p, action, items[i])
    BY <1>4 DEF Left, After
  <2> QED BY <1>1, <1>2, <2>1, ChangedType
<1> QED BY <1>3, <1>4

\* An item that is no order changes nothing.
LEMMA NoOrder ==
    ASSUME NEW items \in Seq(Entries), NEW k \in 1..Len(items), items[k].code # "ELIGIBLE",
           NEW acc, NEW m, NEW action, NEW reject, NEW layers
    PROVE  /\ Reference!execute(acc, m, action, reject, items[k]) = acc
           /\ DoneSoFar(items, k, layers, action) = DoneSoFar(items, k - 1, layers, action)
<1>0. items[k] \in Entries
  OBVIOUS
<1>1. items[k].code \in ItemCodes
  BY <1>0 DEF Entries
<1>2. items[k].code # "CONFIRMED"
  BY <1>1 DEF ItemCodes
<1>3. Reference!ItemCode(acc.positions, m, action, reject, items[k]) = items[k].code
  BY DEF Reference!ItemCode
<1>4. Reference!execute(acc, m, action, reject, items[k]) = acc
  BY <1>2, <1>3 DEF Reference!execute
<1>5. Orders(items, k) = Orders(items, k - 1)
  BY DEF Orders
<1>6. \A p : Hits(items, k, p) = Hits(items, k - 1, p)
  BY <1>5 DEF Hits
<1>7. \A p : Left(items, k, p, action) = Left(items, k - 1, p, action)
  BY <1>6 DEF Left
<1>8. DoneSoFar(items, k, layers, action) = DoneSoFar(items, k - 1, layers, action)
  BY <1>5, <1>7 DEF DoneSoFar
<1> QED BY <1>4, <1>8

\* An order is done as it is.
LEMMA OneOrder ==
    ASSUME NEW items \in Seq(Entries), NEW k \in 1..Len(items), items[k].code = "ELIGIBLE",
           NEW m, NEW action \in {"be", "close"}, NEW layers \in SUBSET Positions, AllDoable(items, layers, m, action)
    PROVE  Reference!execute(DoneSoFar(items, k - 1, layers, action), m, action, {}, items[k])
             = DoneSoFar(items, k, layers, action)
<1> DEFINE e == items[k]
           n == Len(items)
           before(p) == Left(items, k - 1, p, action)
           after(p) == Left(items, k, p, action)
           pos == UNION {before(p) : p \in layers}
           of == {r \in pos : r.ticket = e.ticket}
           f == [i \in 1..n |-> items[i].volume]
<1>0. n \in Nat /\ e \in Entries
  OBVIOUS
<1>1. n \in Nat /\ e \in Entries /\ e.volume \in Int /\ k - 1 \in 0..n /\ k \in 0..n
  BY <1>0 DEF Entries
<1>2. k \in Orders(items, n) /\ k \in Orders(items, k) /\ Orders(items, k) \subseteq Orders(items, n)
      /\ Orders(items, k) \ {k} = Orders(items, k - 1)
  BY <1>1 DEF Orders
<1>3. PICK p \in layers : Doable(e, p, m, action)
  BY <1>2 DEF AllDoable
<1>4. p.ticket = e.ticket /\ \A r \in layers : r.ticket = e.ticket => r = p
  BY <1>3 DEF AllDoable, Doable
<1>5. Hits(items, k - 1, p) = {} /\ Hits(items, k, p) = {k}
  <2>1. \A i \in Orders(items, k) : items[i].ticket = e.ticket => i = k
    BY <1>2 DEF AllDoable
  <2> QED BY <1>2, <1>4, <2>1 DEF Hits
<1>6. before(p) = {p} /\ after(p) = Reference!Changed(p, action, e)
  BY <1>5 DEF Left, After
<1>7. \A r \in layers \ {p} : after(r) = before(r)
  <2> TAKE r \in layers \ {p}
  <2>1. r.ticket # e.ticket
    BY <1>4
  <2>2. Hits(items, k, r) = Hits(items, k - 1, r)
    BY <1>2, <2>1 DEF Hits
  <2> QED BY <2>2 DEF Left
<1>8. \A r \in layers : \A x \in before(r) : x.ticket = r.ticket
  BY <1>1, LeftTicket
<1> HIDE DEF before, after
<1>9. of = {p}
  BY <1>4, <1>6, <1>8
<1> DEFINE rest == UNION {before(r) : r \in layers \ {p}}
           all == UNION {after(r) : r \in layers}
           done == UNION {Reference!Changed(r, action, e) : r \in of}
<1>10. pos \ of = rest
  BY <1>4, <1>6, <1>8, <1>9
<1>11. all = rest \cup after(p)
  <2>1. ASSUME NEW x PROVE x \in all <=> x \in rest \/ x \in after(p)
    <3>1. x \in all <=> \E r \in layers : x \in after(r)
      OBVIOUS
    <3>2. x \in rest <=> \E r \in layers \ {p} : x \in before(r)
      OBVIOUS
    <3> HIDE DEF all, rest
    <3> QED BY <1>7, <3>1, <3>2
  <2> HIDE DEF all, rest
  <2> QED BY <2>1
<1>12. (pos \ of) \cup done = all
  <2>1. done = Reference!Changed(p, action, e)
    <3> HIDE DEF of
    <3> QED BY <1>9
  <2> HIDE DEF rest, all, done, pos, of
  <2> QED BY <1>6, <1>10, <1>11, <2>1
<1>13. Reference!ItemCode(pos, m, action, {}, e) = "CONFIRMED"
  <2>1. (CHOOSE r \in pos : r.ticket = e.ticket) = p
    BY <1>9
  <2>2. e.ticket \in {r.ticket : r \in pos}
    BY <1>9
  <2>3. action = "be" => Reference!validate_stop(p, m, e.stop) = "ELIGIBLE"
    BY <1>3 DEF Doable
  <2>4. action = "close" => ~(p.volume < e.volume)
    <3>1. action = "close" => e.volume <= p.volume
      BY <1>3 DEF Doable
    <3>2. p.volume \in Int /\ e.volume \in Int
      BY <1>1 DEF Positions
    <3> QED BY <3>1, <3>2
  <2>5. e.code = "ELIGIBLE"
    OBVIOUS
  <2> HIDE DEF pos, e
  <2> QED BY <2>1, <2>2, <2>3, <2>4, <2>5 DEF Reference!ItemCode
<1>14. SumFunctionOnSet(f, Orders(items, k - 1)) + e.volume = SumFunctionOnSet(f, Orders(items, k))
  <2>1. IsFiniteSet(Orders(items, k))
    <3>1. IsFiniteSet(1..k)
      BY <1>1, FS_Interval
    <3>2. Orders(items, k) \subseteq 1..k
      BY DEF Orders
    <3> QED BY <3>1, <3>2, FS_Subset
  <2>2. \A i \in Orders(items, k) : f[i] \in Int
    <3>1. \A i \in 1..n : items[i] \in Entries
      OBVIOUS
    <3>2. \A i \in 1..n : items[i].volume \in Int
      BY <3>1 DEF Entries
    <3>3. Orders(items, k) \subseteq 1..n
      BY <1>2 DEF Orders
    <3> QED BY <3>2, <3>3
  <2>3. f[k] = e.volume
    OBVIOUS
  <2> HIDE DEF f, e
  <2>4. /\ SumFunctionOnSet(f, Orders(items, k) \ {k}) \in Int
        /\ SumFunctionOnSet(f, Orders(items, k)) = f[k] + SumFunctionOnSet(f, Orders(items, k) \ {k})
    BY <1>2, <2>1, <2>2, SumRemove
  <2> DEFINE a == SumFunctionOnSet(f, Orders(items, k - 1))
             b == SumFunctionOnSet(f, Orders(items, k))
  <2>5. a \in Int /\ b = e.volume + a /\ e.volume \in Int
    BY <1>1, <1>2, <2>3, <2>4 DEF e
  <2> HIDE DEF a, b
  <2>6. a + e.volume = b
    BY <2>5
  <2> QED BY <2>6 DEF a, b
<1> DEFINE acc == DoneSoFar(items, k - 1, layers, action)
<1>15. acc.positions = pos /\ acc.confirmed = SumFunctionOnSet(f, Orders(items, k - 1))
  BY DEF DoneSoFar, before
<1>16. DoneSoFar(items, k, layers, action)
         = [positions |-> all, confirmed |-> SumFunctionOnSet(f, Orders(items, k))]
  BY DEF DoneSoFar, after
<1> HIDE DEF acc, pos, of, f, e, rest, all, done
<1>17. Reference!execute(acc, m, action, {}, e)
         = [positions |-> (pos \ of) \cup done, confirmed |-> acc.confirmed + e.volume]
  BY <1>13, <1>15 DEF Reference!execute, of, done
<1> QED BY <1>12, <1>14, <1>15, <1>16, <1>17 DEF e, acc

\* A broker that rejects nothing does all of it.
LEMMA DoesAll ==
    ASSUME NEW items \in Seq(Entries), NEW layers \in SUBSET Positions, NEW m, NEW action \in {"be", "close"},
           AllDoable(items, layers, m, action)
    PROVE  Reference!simulate_execute(layers, m, items, action, {}) = DoneSoFar(items, Len(items), layers, action)
<1> DEFINE n == Len(items)
           now(k) == DoneSoFar(items, k, layers, action)
<1>1. PICK loop : SimRun(loop, layers, m, items, action, {})
  BY SimLoop
<1>2. n \in Nat
  OBVIOUS
<1> DEFINE S == {k \in Nat : k <= n => loop[k] = now(k)}
<1>3. 0 \in S
  <2>1. Orders(items, 0) = {}
    BY DEF Orders
  <2>2. \A p : Left(items, 0, p, action) = {p}
    BY <2>1 DEF Left, Hits, After
  <2>3. UNION {Left(items, 0, p, action) : p \in layers} = layers
    BY <2>2
  <2>4. SumFunctionOnSet([i \in 1..n |-> items[i].volume], {}) = 0
    <3>1. IsFiniteSet({})
      BY FS_EmptySet
    <3> QED BY <3>1, SumUnfolds
  <2>5. now(0) = [positions |-> layers, confirmed |-> 0]
    BY <2>1, <2>3, <2>4 DEF DoneSoFar
  <2>6. loop[0] = [positions |-> layers, confirmed |-> 0]
    BY <1>1 DEF SimRun
  <2> QED BY <2>5, <2>6
<1>4. ASSUME NEW j \in Nat, j \in S PROVE j + 1 \in S
  <2> SUFFICES ASSUME j + 1 <= n PROVE loop[j + 1] = now(j + 1)
    OBVIOUS
  <2>1. loop[j] = now(j) /\ j + 1 \in 1..n /\ (j + 1) - 1 = j
    BY <1>2, <1>4
  <2>2. loop[j + 1] = Reference!execute(loop[j], m, action, {}, items[j + 1])
    BY <1>1, <2>1 DEF SimRun
  <2>3. CASE items[j + 1].code = "ELIGIBLE"
    <3>1. Reference!execute(now((j + 1) - 1), m, action, {}, items[j + 1]) = now(j + 1)
      BY <2>1, <2>3, OneOrder
    <3> HIDE DEF now
    <3> QED BY <2>1, <2>2, <3>1
  <2>4. CASE items[j + 1].code # "ELIGIBLE"
    <3>1. Reference!execute(loop[j], m, action, {}, items[j + 1]) = loop[j] /\ now(j + 1) = now((j + 1) - 1)
      BY <2>1, <2>4, NoOrder
    <3> HIDE DEF now
    <3> QED BY <2>1, <2>2, <3>1
  <2> QED BY <2>3, <2>4
<1> HIDE DEF S
<1>5. n \in S
  BY <1>2, <1>3, <1>4, NumberInduction
<1> QED BY <1>1, <1>5 DEF S, SimRun

\* What the simulator needs to know of the EA's items: each of another position,
\* within its volume, or with its stop.
Fitting(items, layers, q, action) ==
    /\ items \in Seq(Items)
    /\ \A i \in 1..Len(items) : items[i].layer \in layers
    /\ \A i, j \in 1..Len(items) : items[i].layer.ticket = items[j].layer.ticket => i = j
    /\ \A i \in 1..Len(items) :
         items[i].code = "ELIGIBLE" =>
             LET p == items[i].layer
             IN IF action = "be"
                THEN /\ items[i].stop = StopFor(p) /\ items[i].volume = p.volume
                     /\ StopCode(p, q, StopFor(p)) = "ELIGIBLE"
                ELSE Minimum <= items[i].volume /\ items[i].volume <= p.volume

\* A close asks for no more than a position has.
LEMMA CloseFitting ==
    ASSUME NEW layers, NEW q, Shown(layers, q), NEW target \in Nat
    PROVE  Fitting(CloseItems(Ranked(layers, q, TRUE), target), layers, q, "close")
<1> DEFINE n == Cardinality(layers)
           rows == Ranked(layers, q, TRUE)
           items == CloseItems(rows, target)
<1>1. /\ n \in Nat /\ rows \in [1..n -> Positions] /\ Apart(rows, n)
      /\ \A i \in 1..n : rows[i] \in layers
  <2>1. ASSUME NEW close
        PROVE  LET r == Ranked(layers, q, close)
               IN /\ n \in Nat /\ r \in [1..n -> Positions] /\ Apart(r, n)
                  /\ \A i \in 1..n : r[i] \in layers
    BY RankedRows
  <2> HIDE DEF n
  <2> QED BY <2>1
<1> HIDE DEF n, rows
<1>2. Listing(items, rows, n) /\ \A i \in Eligible(items) : items[i].volume >= Minimum
  BY <1>1, CloseItemsSound
<1>3. PICK s : CloseShares(s, items, n, rows, target)
  BY <1>1, CloseGives, Zenon
<1> HIDE DEF items
<1>4. /\ items \in Seq(Items)
      /\ \A i \in 1..Len(items) : \E k \in 1..n : items[i].layer = rows[k]
      /\ \A i, j \in 1..Len(items) : items[i].layer.ticket = items[j].layer.ticket => i = j
  BY <1>2 DEF Listing
<1>5. ASSUME NEW i \in 1..Len(items), items[i].code = "ELIGIBLE"
      PROVE  Minimum <= items[i].volume /\ items[i].volume <= items[i].layer.volume
  <2>1. PICK k \in 1..n : items[i].layer = rows[k]
    BY <1>4
  <2> DEFINE v == s[k] - s[k - 1]
             p == rows[k]
             left == target - s[k - 1]
  <2>2. Gets(items, p, v) /\ Best(p, left, v)
    BY <1>3 DEF CloseShares
  <2> HIDE DEF v, left
  <2>3. items[i].volume = v
    BY <1>4, <1>5, <2>1, <2>2 DEF Gets
  <2>4. p \in Positions /\ p.volume \in Nat
    BY <1>1 DEF Positions
  <2>5. v <= p.volume
    BY <2>2, <2>4 DEF Best, DealOf
  <2>6. Minimum <= items[i].volume
    <3>1. i \in Eligible(items) /\ items[i].volume \in Int
      BY <1>4, <1>5, EligibleSet
    <3> QED BY <1>2, <3>1, VolumeAssumption
  <2> QED BY <2>1, <2>3, <2>5, <2>6
<1>6. \A i \in 1..Len(items) : items[i].layer \in layers
  BY <1>1, <1>4
<1>7. Fitting(items, layers, q, "close")
  BY <1>4, <1>5, <1>6 DEF Fitting
<1> QED BY <1>7 DEF items, rows

\* A break-even's items have the code and the stop of their positions.
LEMMA BeFitting ==
    ASSUME NEW layers, NEW q, Shown(layers, q), NEW already \in Int, NEW target \in Int
    PROVE  Fitting(BeItems(Ranked(layers, q, FALSE), q, already, target), layers, q, "be")
<1> DEFINE n == Cardinality(layers)
           rows == Ranked(layers, q, FALSE)
           items == BeItems(rows, q, already, target)
           good(i) == i.stop = StopFor(i.layer) /\ i.code = StopCode(i.layer, q, StopFor(i.layer))
           G == {i \in Items : good(i)}
<1>1. /\ n \in Nat /\ rows \in [1..n -> Positions] /\ Apart(rows, n)
      /\ \A i \in 1..n : rows[i] \in layers
  <2>1. ASSUME NEW close
        PROVE  LET r == Ranked(layers, q, close)
               IN /\ n \in Nat /\ r \in [1..n -> Positions] /\ Apart(r, n)
                  /\ \A i \in 1..n : r[i] \in layers
    BY RankedRows
  <2> HIDE DEF n
  <2> QED BY <2>1
<1> HIDE DEF n, rows
<1>2. Listing(items, rows, n) /\ \A i \in 1..Len(items) : items[i].volume = items[i].layer.volume
  BY <1>1, BeItemsSound
<1>3. PICK loop : BeRun(loop, n, rows, q, already, target)
  BY <1>1, BeLoop, Zenon
<1> DEFINE S == {k \in Nat : k <= n => loop[k] \in Seq(G)}
<1>4. 0 \in S
  <2>1. loop[0] = <<>>
    BY <1>1, <1>3 DEF BeRun
  <2>2. <<>> \in Seq(G)
    OBVIOUS
  <2> QED BY <2>1, <2>2
<1>5. ASSUME NEW j \in Nat, j \in S PROVE j + 1 \in S
  <2> SUFFICES ASSUME j + 1 <= n PROVE loop[j + 1] \in Seq(G)
    OBVIOUS
  <2>1. loop[j] \in Seq(G) /\ j + 1 \in 1..n /\ (j + 1) - 1 = j
    BY <1>1, <1>5
  <2> DEFINE p == rows[j + 1]
             it == Item(p, StopCode(p, q, StopFor(p)), p.volume, StopFor(p))
  <2>2. it \in G
    <3>1. p \in Positions
      BY <1>1, <2>1
    <3>2. StopFor(p) \in Int /\ StopCode(p, q, StopFor(p)) \in ItemCodes /\ p.volume \in Int
      BY <3>1, StopForType, StopCodeType DEF Positions
    <3> HIDE DEF p
    <3>3. it \in Items
      BY <3>1, <3>2 DEF Item, Items
    <3>4. it.stop = StopFor(p) /\ it.layer = p /\ it.code = StopCode(p, q, StopFor(p))
      BY DEF Item
    <3> HIDE DEF it
    <3> QED BY <3>3, <3>4
  <2>3. loop[j + 1] \in {loop[j], Append(loop[j], it)}
    <3>1. loop[j + 1] = BeStep(loop[j], p, q, already, target)
      BY <1>3, <2>1 DEF BeRun
    <3> QED BY <3>1 DEF BeStep
  <2> HIDE DEF it, G
  <2>4. Append(loop[j], it) \in Seq(G)
    BY <2>1, <2>2
  <2> QED BY <2>1, <2>3, <2>4
<1> HIDE DEF S
<1>6. n \in S
  BY <1>1, <1>4, <1>5, NumberInduction
<1>7. items \in Seq(G)
  BY <1>1, <1>3, <1>6 DEF S, BeRun
<1> HIDE DEF items
<1>8. \A i \in 1..Len(items) : good(items[i])
  <2> TAKE i \in 1..Len(items)
  <2>1. items[i] \in G
    <3> HIDE DEF G
    <3> QED BY <1>7
  <2> QED BY <2>1
<1>9. /\ items \in Seq(Items)
      /\ \A i \in 1..Len(items) : items[i].layer \in layers
      /\ \A i, j \in 1..Len(items) : items[i].layer.ticket = items[j].layer.ticket => i = j
  BY <1>1, <1>2 DEF Listing
<1>10. Fitting(items, layers, q, "be")
  BY <1>2, <1>8, <1>9 DEF Fitting
<1> QED BY <1>10 DEF items, rows

\* What an order about an item of the EA is.
LEMMA EntryOf ==
    ASSUME NEW layers, NEW q, Shown(layers, q), NEW action \in {"be", "close"},
           NEW items, Fitting(items, layers, q, action),
           NEW theirs \in Seq(Entries), Matches(items, theirs)
    PROVE  /\ Orders(theirs, Len(theirs)) = {i \in 1..Len(items) : items[i].code = "ELIGIBLE"}
           /\ Len(items) <= Len(theirs)
           /\ \A i \in Orders(theirs, Len(theirs)) :
                /\ i \in 1..Len(items) /\ i \in 1..Len(theirs) /\ items[i].code = "ELIGIBLE"
                /\ items[i].layer \in layers /\ items[i].layer \in Positions
                /\ theirs[i].ticket = items[i].layer.ticket
                /\ theirs[i].stop = items[i].stop /\ theirs[i].volume = items[i].volume
                /\ items[i].volume \in Int /\ items[i].stop \in Int
<1>1. items \in Seq(Items) /\ Len(items) \in Nat /\ Len(theirs) \in Nat /\ Len(items) <= Len(theirs)
      /\ \A i \in 1..Len(items) : items[i] \in Items /\ items[i].layer \in layers
  BY DEF Fitting, Matches
<1>2. \A i \in 1..Len(items) : items[i].volume \in Int /\ items[i].stop \in Int /\ items[i].layer \in Positions
  BY <1>1 DEF Items
<1>3. ASSUME NEW i \in 1..Len(items)
      PROVE  /\ i \in 1..Len(theirs)
             /\ theirs[i].ticket = items[i].layer.ticket /\ theirs[i].code = items[i].code
             /\ theirs[i].stop = items[i].stop
             /\ items[i].code = "ELIGIBLE" => theirs[i].volume = items[i].volume
  <2>1. theirs[i] = Entry(items[i])
    BY <1>1 DEF Matches
  <2> QED BY <1>1, <2>1 DEF Entry
<1>4. ASSUME NEW i \in 1..Len(theirs), theirs[i].code = "ELIGIBLE" PROVE i \in 1..Len(items)
  BY <1>1, <1>4 DEF Matches
<1>5. Orders(theirs, Len(theirs)) = {i \in 1..Len(items) : items[i].code = "ELIGIBLE"}
  BY <1>3, <1>4 DEF Orders
<1>6. ASSUME NEW i \in Orders(theirs, Len(theirs))
      PROVE  /\ i \in 1..Len(items) /\ items[i].code = "ELIGIBLE"
  BY <1>5
<1> QED BY <1>1, <1>2, <1>3, <1>5, <1>6

\* So the simulator can do all of it.
LEMMA FittingDoable ==
    ASSUME NEW layers, NEW q, Shown(layers, q), NEW action \in {"be", "close"},
           NEW items, Fitting(items, layers, q, action),
           NEW theirs \in Seq(Entries), Matches(items, theirs)
    PROVE  AllDoable(theirs, layers, q, action)
<1>1. ASSUME NEW i \in Orders(theirs, Len(theirs)) PROVE \E p \in layers : Doable(theirs[i], p, q, action)
  <2> DEFINE p == items[i].layer
  <2>1. /\ i \in 1..Len(items) /\ items[i].code = "ELIGIBLE" /\ p \in layers /\ p \in Positions
        /\ theirs[i].ticket = p.ticket /\ theirs[i].stop = items[i].stop /\ theirs[i].volume = items[i].volume
        /\ items[i].stop \in Int
    BY EntryOf
  <2>2. CASE action = "be"
    <3>1. theirs[i].stop = StopFor(p) /\ StopCode(p, q, StopFor(p)) = "ELIGIBLE" /\ StopFor(p) \in Int
      BY <2>1, <2>2 DEF Fitting
    <3> DEFINE stop == StopFor(p)
    <3>2. Reference!validate_stop(p, q, stop) = "ELIGIBLE"
      <4>1. q \in [bid : Nat, ask : Nat]
        BY DEF Shown
      <4>2. p \in Positions /\ stop \in Int /\ StopCode(p, q, stop) = "ELIGIBLE"
        BY <2>1, <3>1
      <4> HIDE DEF p, stop
      <4> QED BY <4>1, <4>2, SameStopCode
    <3> HIDE DEF p, stop
    <3>3. theirs[i].stop = stop
      BY <3>1 DEF stop
    <3>4. Doable(theirs[i], p, q, action)
      BY <2>1, <2>2, <3>2, <3>3 DEF Doable
    <3> QED BY <2>1, <3>4
  <2>3. CASE action = "close"
    <3>1. theirs[i].volume <= p.volume
      BY <2>1, <2>3 DEF Fitting
    <3> HIDE DEF p
    <3>2. Doable(theirs[i], p, q, action)
      BY <2>1, <2>3, <3>1 DEF Doable
    <3> QED BY <2>1, <3>2
  <2> QED BY <2>2, <2>3
<1>2. \A i, j \in Orders(theirs, Len(theirs)) : theirs[i].ticket = theirs[j].ticket => i = j
  <2>1. \A i \in Orders(theirs, Len(theirs)) : i \in 1..Len(items) /\ theirs[i].ticket = items[i].layer.ticket
    BY EntryOf
  <2> QED BY <2>1 DEF Fitting
<1>3. \A p, r \in layers : p.ticket = r.ticket => p = r
  BY DEF Shown
<1> QED BY <1>1, <1>2, <1>3 DEF AllDoable

\* What becomes of a position that is given v.
Yield(p, v, action) ==
    IF action = "be" THEN {[p EXCEPT !.sl = IF v > 0 THEN StopFor(p) ELSE @]}
    ELSE {r \in {[p EXCEPT !.volume = @ - v]} : r.volume > 0}

\* A position with nothing given to it stays as it is.
LEMMA NothingYields ==
    ASSUME NEW p \in Positions, p.volume > 0, NEW action
    PROVE  Yield(p, 0, action) = {p}
<1>1. /\ p.volume \in Nat /\ p.volume - 0 = p.volume
      /\ p = [ticket |-> p.ticket, side |-> p.side, volume |-> p.volume, entry |-> p.entry, sl |-> p.sl, tp |-> p.tp]
  BY DEF Positions
<1> DEFINE a == [p EXCEPT !.volume = @ - 0]
           b == [p EXCEPT !.sl = IF 0 > 0 THEN StopFor(p) ELSE @]
<1>2. a = p
  BY <1>1
<1>3. b = p
  BY <1>1
<1>4. Yield(p, 0, action) = IF action = "be" THEN {b} ELSE {r \in {a} : r.volume > 0}
  BY DEF Yield
<1> HIDE DEF a, b
<1> QED BY <1>2, <1>3, <1>4

\* What the orders leave of a position is what follows from what is given to it.
LEMMA LeftYields ==
    ASSUME NEW layers, NEW q, Shown(layers, q), \A p \in layers : p.volume > 0, NEW action \in {"be", "close"},
           NEW items, Fitting(items, layers, q, action),
           NEW theirs \in Seq(Entries), Matches(items, theirs), NEW p \in layers
    PROVE  Left(theirs, Len(theirs), p, action) = Yield(p, GivenIn(items, p), action)
<1> DEFINE hits == Hits(theirs, Len(theirs), p)
<1>1. /\ Orders(theirs, Len(theirs)) = {i \in 1..Len(items) : items[i].code = "ELIGIBLE"}
      /\ \A i \in Orders(theirs, Len(theirs)) : items[i].layer \in layers /\ theirs[i].ticket = items[i].layer.ticket
  BY EntryOf
<1>2. hits = {i \in 1..Len(items) : items[i].code = "ELIGIBLE" /\ items[i].layer = p}
  BY <1>1 DEF Hits, Shown
<1>3. /\ items \in Seq(Items) /\ p \in Positions /\ p.volume > 0
      /\ \A i, j \in 1..Len(items) : items[i].layer.ticket = items[j].layer.ticket => i = j
  BY DEF Fitting, Shown
<1>4. Left(theirs, Len(theirs), p, action) = After(theirs, hits, p, action)
  BY DEF Left
<1> HIDE DEF hits
<1>5. CASE hits = {}
  <2>1. Gets(items, p, 0)
    BY <1>2, <1>5 DEF Gets
  <2>2. GivenIn(items, p) = 0
    BY <1>3, <2>1, GetsGiven
  <2>3. After(theirs, hits, p, action) = {p}
    BY <1>5 DEF After
  <2> QED BY <1>3, <1>4, <2>2, <2>3, NothingYields
<1>6. CASE hits # {}
  <2>1. PICK i \in hits : TRUE
    BY <1>6
  <2>2. hits = {i} /\ i \in 1..Len(items) /\ items[i].code = "ELIGIBLE" /\ items[i].layer = p
    BY <1>2, <1>3, <2>1
  <2> DEFINE v == items[i].volume
             e == theirs[i]
  <2>3. v \in Int /\ e.volume = v /\ e.stop = items[i].stop
    BY <1>1, <2>2, EntryOf
  <2>4. Gets(items, p, v)
    BY <2>2 DEF Gets
  <2>5. GivenIn(items, p) = v
    <3> HIDE DEF v
    <3> QED BY <1>3, <2>3, <2>4, GetsGiven
  <2>6. After(theirs, hits, p, action) = Reference!Changed(p, action, e)
    BY <2>2 DEF After
  <2>7. Reference!Changed(p, action, e) = Yield(p, v, action)
    <3>1. CASE action = "be"
      <4>1. e.stop = StopFor(p) /\ v > 0
        <5>1. items[i].stop = StopFor(p) /\ v = p.volume
          BY <2>2, <3>1 DEF Fitting
        <5> QED BY <1>3, <2>3, <5>1
      <4> HIDE DEF e, v
      <4> QED BY <3>1, <4>1 DEF Reference!Changed, Yield
    <3>2. CASE action = "close"
      <4> HIDE DEF e, v
      <4> QED BY <3>2, <2>3 DEF Reference!Changed, Yield
    <3> QED BY <3>1, <3>2
  <2> HIDE DEF v, e
  <2> QED BY <1>4, <2>5, <2>6, <2>7
<1> QED BY <1>5, <1>6

\* The simulator does what the EA planned.
LEMMA SimulatorDoes ==
    ASSUME NEW layers, NEW q, Shown(layers, q), \A p \in layers : p.volume > 0, NEW action \in {"be", "close"},
           NEW items, Fitting(items, layers, q, action),
           NEW theirs \in Seq(Entries), Matches(items, theirs)
    PROVE  /\ Reference!simulate_execute(layers, q, theirs, action, {})
                = [positions |-> UNION {Yield(p, GivenIn(items, p), action) : p \in layers},
                   confirmed |-> Planned(items)]
           /\ \A reject : (\A p \in layers : p.ticket \in reject) =>
                Reference!simulate_execute(layers, q, theirs, action, reject)
                  = [positions |-> layers, confirmed |-> 0]
<1>1. AllDoable(theirs, layers, q, action) /\ layers \in SUBSET Positions
  BY FittingDoable DEF Shown
<1>2. Reference!simulate_execute(layers, q, theirs, action, {}) = DoneSoFar(theirs, Len(theirs), layers, action)
  BY <1>1, DoesAll
<1>3. \A p \in layers : Left(theirs, Len(theirs), p, action) = Yield(p, GivenIn(items, p), action)
  BY LeftYields
<1> DEFINE A == UNION {Left(theirs, Len(theirs), p, action) : p \in layers}
           B == UNION {Yield(p, GivenIn(items, p), action) : p \in layers}
           f == [i \in 1..Len(theirs) |-> theirs[i].volume]
           sum == SumFunctionOnSet(f, Orders(theirs, Len(theirs)))
<1>4. A = B
  BY <1>3
<1>5. sum = Planned(items)
  <2>1. items \in Seq(Items)
    BY DEF Fitting
  <2>2. Orders(theirs, Len(theirs)) = Eligible(items)
    <3>1. Orders(theirs, Len(theirs)) = {i \in 1..Len(items) : items[i].code = "ELIGIBLE"}
      BY EntryOf
    <3>2. Eligible(items) = {i \in 1..Len(items) : items[i].code = "ELIGIBLE"}
      BY <2>1, EligibleSet
    <3> QED BY <3>1, <3>2
  <2> DEFINE g == [i \in 1..Len(items) |-> items[i].volume]
  <2>3. \A i \in 1..Len(items) : g[i] = items[i].volume
    OBVIOUS
  <2>4. \A i \in Eligible(items) : i \in 1..Len(items) /\ i \in 1..Len(theirs) /\ theirs[i].volume = items[i].volume
                                   /\ items[i].volume \in Int
    BY <2>2, EntryOf
  <2>5. \A i \in Eligible(items) : f[i] \in Int /\ g[i] = f[i]
    BY <2>4
  <2>6. IsFiniteSet(Eligible(items))
    BY <2>1, EligibleSet
  <2> HIDE DEF f, g
  <2>7. Planned(items) = SumFunctionOnSet(g, Eligible(items))
    BY <2>1, <2>3, PlannedSum
  <2>8. SumFunctionOnSet(f, Eligible(items)) = SumFunctionOnSet(g, Eligible(items))
    BY <2>5, <2>6, SumSame
  <2> QED BY <2>2, <2>7, <2>8
<1>6. DoneSoFar(theirs, Len(theirs), layers, action) = [positions |-> A, confirmed |-> sum]
  BY DEF DoneSoFar
<1> HIDE DEF A, sum
<1>7. Reference!simulate_execute(layers, q, theirs, action, {}) = [positions |-> B, confirmed |-> Planned(items)]
  <2> HIDE DEF B
  <2> QED BY <1>2, <1>4, <1>5, <1>6
<1>8. ASSUME NEW reject, \A p \in layers : p.ticket \in reject
      PROVE  Reference!simulate_execute(layers, q, theirs, action, reject) = [positions |-> layers, confirmed |-> 0]
  BY <1>1, <1>8, RejectsAll
<1> QED BY <1>7, <1>8

\* The items of a fresh plan of a preview are ones that the simulator can do.
LEMMA FreshFitting == ASSUME IInv, StillShown, Fresh PROVE Fitting(plan.items, Layers, quote, Action)
<1> DEFINE q == quote
           rows == Rows
           target == plan.target
           already == plan.already
<1>1. /\ Shown(rows, q) /\ target \in Nat
      /\ command.close => plan.items = CloseItems(Ranked(rows, q, TRUE), target)
      /\ ~command.close => /\ already \in Int
                           /\ plan.items = BeItems(Ranked(rows, q, FALSE), q, already, target)
  BY FreshPlan
<1>2. rows \subseteq Layers
  BY DEF Rows
<1> HIDE DEF q, rows, target, already
<1>3. Fitting(plan.items, rows, q, Action)
  <2>1. CASE command.close
    <3>1. Fitting(CloseItems(Ranked(rows, q, TRUE), target), rows, q, "close")
      BY <1>1, CloseFitting
    <3> QED BY <1>1, <2>1, <3>1 DEF Action
  <2>2. CASE ~command.close
    <3>0. target \in Nat /\ already \in Int
      BY <1>1, <2>2
    <3> target \in Int
      BY <3>0
    <3>1. Fitting(BeItems(Ranked(rows, q, FALSE), q, already, target), rows, q, "be")
      BY <1>1, <3>0, BeFitting
    <3> QED BY <1>1, <2>2, <3>1 DEF Action
  <2> QED BY <2>1, <2>2
<1>4. \A i \in 1..Len(plan.items) : plan.items[i].layer \in Layers
  BY <1>2, <1>3 DEF Fitting
<1> QED BY <1>3, <1>4 DEF Fitting, q

\* What the simulator does with the reference plan.
Simulation ==
    LET after(reject) == Reference!simulate_execute(Layers, quote, ReferencePlan.items, Action, reject)
    IN /\ after({}).positions = UNION {Yield(p, Given(p), Action) : p \in Layers}
       /\ after({}).confirmed = plan.planned
       /\ after(Tickets) = [positions |-> Layers, confirmed |-> 0]

\* It does what a fresh plan says.
LEMMA FreshSimulated == ASSUME IInv, StillShown, Commanded, Fresh PROVE Simulation
<1>1. Agree(plan, ReferencePlan)
  <2>1. command.preview /\ pc = "item" /\ plan.code # "SYMBOL_NOT_FOUND_OR_STALE"
    BY DEF Fresh
  <2> QED BY <2>1, AgreesNow
<1> DEFINE layers == Layers
           q == quote
           items == plan.items
           theirs == ReferencePlan.items
           action == Action
           tickets == Tickets
           after(reject) == Reference!simulate_execute(layers, q, theirs, action, reject)
<1>2. Shown(layers, q) /\ \A p \in layers : p.volume > 0
  BY ShownNow DEF IInv
<1>3. Fitting(items, layers, q, action)
  BY FreshFitting
<1>4. theirs \in Seq(Entries) /\ Matches(items, theirs)
  BY <1>1 DEF Agree
<1>5. action \in {"be", "close"}
  BY DEF Action
<1>6. \A p \in layers : p.ticket \in tickets
  BY DEF Layers, IInv, Typed
<1>7. plan.planned = Planned(items)
  BY DEF IInv, Planning, Sound
<1>8. \A p : GivenIn(items, p) = Given(p)
  BY DEF Given, GivenIn
<1> HIDE DEF layers, q, items, theirs, action, tickets
<1>9. /\ after({}) = [positions |-> UNION {Yield(p, GivenIn(items, p), action) : p \in layers},
                      confirmed |-> Planned(items)]
      /\ after(tickets) = [positions |-> layers, confirmed |-> 0]
  BY <1>2, <1>3, <1>4, <1>5, <1>6, SimulatorDoes
<1> HIDE DEF after
<1>10. /\ after({}).positions = UNION {Yield(p, Given(p), action) : p \in layers}
       /\ after({}).confirmed = plan.planned
       /\ after(tickets) = [positions |-> layers, confirmed |-> 0]
  BY <1>7, <1>8, <1>9
<1> QED BY <1>10 DEF Simulation, after, layers, q, theirs, action, tickets

-----------------------------------------------------------------------------
\* Whole parts of something that is there are at least one part of it.
LEMMA PartOfWhole ==
    ASSUME NEW v \in Nat, NEW u \in Nat, u > 0, u % Parts = 0, u <= v, NEW part \in Nat \ {0}
    PROVE  (v * part) \div Parts > 0
<1>1. Parts \in Int /\ Parts > 0
  BY PartsAssumption
<1> DEFINE a == u \div Parts
           w == v * part
           b == w \div Parts
           r == w % Parts
<1>2. a \in Int /\ u = Parts * a
  BY <1>1, StepDivision
<1>3. w \in Nat /\ w >= v
  OBVIOUS
<1>4. b \in Int /\ w = Parts * b + r /\ r \in Int /\ r < Parts
  <2> HIDE DEF w
  <2> QED BY <1>1, <1>3, StepDivision
<1> HIDE DEF a, w, b, r
<1>5. a >= 1
  <2>1. a <= 0 => Parts * a <= 0
    BY <1>1, <1>2
  <2> QED BY <1>2, <2>1
<1>6. u >= Parts
  <2>1. Parts * a >= Parts
    BY <1>1, <1>2, <1>5
  <2> QED BY <1>2, <2>1
<1>7. w >= Parts
  BY <1>1, <1>3, <1>6
<1>8. b > 0
  <2>1. b <= 0 => Parts * b <= 0
    BY <1>1, <1>4
  <2>2. Parts * b > 0
    <3> DEFINE z == Parts * b
    <3>1. z \in Int
      BY <1>1, <1>4
    <3> HIDE DEF z
    <3>2. z > 0
      BY <1>1, <1>3, <1>4, <1>7, <3>1 DEF z
    <3> QED BY <3>2 DEF z
  <2> QED BY <1>1, <1>4, <2>1, <2>2
<1> QED BY <1>8 DEF b, w

\* If there is anything, something of it is asked for.
Asks(p) ==
    /\ p.total > 0 => p.target > 0
    /\ ~(p.total > 0) => p.code # "OK"

\* A plan of nothing asks for nothing.
LEMMA NoPlanAsks == ASSUME NEW code, code # "OK", NEW side PROVE Asks(NoPlan(code, side))
<1>1. Volume({}) = 0
  <2>1. IsFiniteSet({})
    BY FS_EmptySet
  <2> DEFINE f == [p \in {} |-> p.volume]
  <2>2. Volume({}) = SumFunctionOnSet(f, {})
    BY DEF Volume, SumFunction
  <2> HIDE DEF f
  <2>3. SumFunctionOnSet(f, {}) = 0
    BY <2>1, SumUnfolds
  <2> QED BY <2>2, <2>3
<1>2. NoPlan(code, side).total = 0 /\ NoPlan(code, side).code = code
  BY <1>1 DEF NoPlan, Plan
<1> QED BY <1>2 DEF Asks

\* A plan asks for something.
LEMMA PlanAsks ==
    ASSUME NEW layers, NEW q, Shown(layers, q), \A p \in layers : p.volume > 0 /\ p.volume % Parts = 0,
           NEW c, c.part \in Nat \ {0}
    PROVE  Asks(PlanLayers(c, q, layers))
<1> DEFINE rows == {p \in layers : c.side \in {"AUTO", "BOTH", p.side}}
           target == (Volume(rows) * c.part) \div Parts
           already == IF c.close THEN 0 ELSE Volume({p \in rows : Protected(p, StopFor(p))})
           items == IF c.close THEN CloseItems(Ranked(rows, q, TRUE), target)
                    ELSE BeItems(Ranked(rows, q, FALSE), q, already, target)
           idle == Planned(items) <= 0 /\ (c.close \/ already < target)
           code == IF idle THEN "NO_ELIGIBLE_POSITIONS" ELSE "OK"
           full(side) == Plan(code, side, rows, target, already, items)
<1>1. \/ PlanLayers(c, q, layers) = NoPlan("AMBIGUOUS_SIDE", c.side)
      \/ PlanLayers(c, q, layers) = NoPlan("NO_POSITIONS", c.side)
      \/ rows # {} /\ \E side : PlanLayers(c, q, layers) = full(side)
  BY Zenon DEF PlanLayers
<1>2. CASE PlanLayers(c, q, layers) = NoPlan("AMBIGUOUS_SIDE", c.side)
  BY <1>2, NoPlanAsks
<1>3. CASE PlanLayers(c, q, layers) = NoPlan("NO_POSITIONS", c.side)
  BY <1>3, NoPlanAsks
<1>4. CASE rows # {} /\ \E side : PlanLayers(c, q, layers) = full(side)
  <2>1. PICK side : PlanLayers(c, q, layers) = full(side)
    BY <1>4
  <2>2. PICK p \in rows : TRUE
    BY <1>4
  <2>3. rows \subseteq layers
    OBVIOUS
  <2>4. PlanLayers(c, q, layers).total = Volume(rows) /\ PlanLayers(c, q, layers).target = target
    <3> HIDE DEF rows, target, already, items, code
    <3> QED BY <2>1 DEF Plan
  <2> HIDE DEF rows
  <2>5. IsFiniteSet(rows) /\ rows \subseteq Positions
    BY <2>3, FS_Subset DEF Shown
  <2>6. Volume(rows) \in Nat /\ p.volume <= Volume(rows)
    BY <2>5, VolumeType
  <2>7. p.volume \in Nat /\ p.volume > 0 /\ p.volume % Parts = 0
    BY <2>3, <2>5 DEF Positions
  <2> DEFINE v == Volume(rows)
             u == p.volume
  <2>8. (v * c.part) \div Parts > 0
    <3>1. v \in Nat /\ u \in Nat /\ u <= v /\ u > 0 /\ u % Parts = 0
      BY <2>6, <2>7
    <3> HIDE DEF v, u
    <3> QED BY <3>1, PartOfWhole
  <2>9. Volume(rows) > 0
    BY <2>6, <2>7
  <2> HIDE DEF v, u
  <2>10. target > 0
    BY <2>8 DEF v
  <2> HIDE DEF target
  <2> QED BY <2>4, <2>9, <2>10 DEF Asks
<1> QED BY <1>1, <1>2, <1>3, <1>4

\* What is planned asks for something; before that whatever is there does.
Asked ==
    IF pc = "planning" THEN command.part \in Nat \ {0} /\ \A t \in Tickets : account[t].volume % Parts = 0
                       ELSE Asks(plan)

\* It stays so.
LEMMA AskedKept == ASSUME IInv, RequestInv, Asked, [Next]_vars PROVE Asked'
<1>1. command' = command
  BY DEF Next, vars, fixed, market, MakePlan, Pass, ReadLive, Prepare, Reread, OrderSend, Refuse, Done, Filled,
         FilledLate, Fill, Lapse, NothingToDo, Rejected, Unanswered, Evidence, Report, Meddle, Move
<1>2. CASE pc = "planning"
  <2>1. flight = None
    BY <1>2 DEF RequestInv, Doubt
  <2>2. MakePlan \/ UNCHANGED <<pc, account, plan>>
    BY <1>2, <2>1 DEF Next, vars, market, Pass, ReadLive, Prepare, Reread, OrderSend, Filled, FilledLate, Fill, Lapse,
       NothingToDo, Rejected, Unanswered, Evidence, Report, Meddle, Move, Busy
  <2>3. CASE MakePlan
    <3>1. pc' = "item" /\ plan' \in {PlanLayers(command, quote, Layers), NoPlan("SYMBOL_NOT_FOUND_OR_STALE", command.side)}
      BY <2>3 DEF MakePlan
    <3> DEFINE layers == Layers
               q == quote
               c == command
    <3>2. Shown(layers, q) /\ \A p \in layers : p.volume > 0 /\ p.volume % Parts = 0
      BY <1>2, ShownNow DEF IInv, Asked, Layers
    <3>3. c.part \in Nat \ {0}
      BY <1>2 DEF Asked
    <3> HIDE DEF layers, q, c
    <3>4. Asks(PlanLayers(c, q, layers))
      BY <3>2, <3>3, PlanAsks
    <3>5. Asks(NoPlan("SYMBOL_NOT_FOUND_OR_STALE", command.side))
      BY NoPlanAsks
    <3>6. Asks(plan')
      BY <3>1, <3>4, <3>5 DEF layers, q, c
    <3> QED BY <3>1, <3>6 DEF Asked, Asks
  <2>4. CASE UNCHANGED <<pc, account, plan>>
    BY <1>1, <2>4 DEF Asked, Asks, Tickets
  <2> QED BY <2>2, <2>3, <2>4
<1>3. CASE pc # "planning"
  <2>1. plan' = plan /\ pc' # "planning"
    BY <1>3 DEF Next, vars, fixed, market, MakePlan, Pass, ReadLive, Prepare, Reread, OrderSend, Refuse, Done, Filled,
       FilledLate, Fill, Lapse, NothingToDo, Rejected, Unanswered, Evidence, Report, Meddle, Move
  <2> QED BY <1>3, <2>1 DEF Asked, Asks
<1> QED BY <1>2, <1>3

\* What an execution may have achieved in the simulator's terms.
Achieved ==
    IF command.close THEN {Confirmed} ELSE {0, Volume({p \in Rows : Protected(p, StopFor(p))})}

\* The simulator would have said the same.
Tells ==
    pc = "done" /\ ~command.preview /\ status # "UNCERTAIN" =>
        \E a \in Achieved : status = Reference!Outcome(plan.total, plan.target, a, Confirmed)

\* What the second plan of a break-even finds protected.
LEMMA ProtectedNow ==
    ASSUME NEW p, ~command.close,
           p \in {PlanLayers(command, quote, Layers), NoPlan("SYMBOL_NOT_FOUND_OR_STALE", command.side)}
    PROVE  (IF p.code = "OK" THEN p.already ELSE 0) \in Achieved
<1>1. CASE p.code # "OK"
  BY <1>1 DEF Achieved
<1>2. CASE p.code = "OK"
  <2>1. NoPlan("SYMBOL_NOT_FOUND_OR_STALE", command.side).code = "SYMBOL_NOT_FOUND_OR_STALE"
    BY DEF NoPlan, Plan
  <2>2. p = PlanLayers(command, quote, Layers)
    BY <1>2, <2>1
  <2> DEFINE c == command
             q == quote
             layers == Layers
  <2>3. p = PlanLayers(c, q, layers) /\ p.code \in {"OK", "NO_ELIGIBLE_POSITIONS"}
    BY <1>2, <2>2
  <2> HIDE DEF c, q, layers
  <2>4. FullPlan(p, c, q, {r \in layers : c.side \in {"AUTO", "BOTH", r.side}})
    BY <2>3, PlanIs, Zenon
  <2>5. FullPlan(p, command, quote, Rows)
    BY <2>4 DEF c, q, layers, Rows
  <2>6. p.already = Volume({r \in Rows : Protected(r, StopFor(r))})
    BY <2>5 DEF FullPlan
  <2> QED BY <1>2, <2>6 DEF Achieved
<1> QED BY <1>1, <1>2

\* The result says what the simulator would have said.
LEMMA ReportTells ==
    ASSUME IInv, RequestInv, Asked, Report, ~command.preview
    PROVE  Tells'
<1>1. /\ pc = "item" /\ pc' = "done" /\ Len(results) = Len(plan.items)
      /\ UNCHANGED <<account, quote, command, plan, results>>
  BY DEF Report, fixed, market
<1>2. PICK p \in {PlanLayers(command, quote, Layers), NoPlan("SYMBOL_NOT_FOUND_OR_STALE", command.side)} :
        status' = Status(IF p.code = "OK" THEN p.already ELSE 0)
  BY DEF Report
<1> DEFINE C == Confirmed
           protected == IF p.code = "OK" THEN p.already ELSE 0
           short == IF C > 0 THEN "PARTIAL" ELSE "FAILED"
           total == plan.total
           target == plan.target
           planned == plan.planned
           says(a) == Reference!Outcome(total, target, a, C)
<1>3. Achieved' = Achieved /\ C' = C
  BY <1>1 DEF Achieved, Confirmed, Rows, Layers, Tickets
<1>4. SUFFICES ASSUME ~Uncertain PROVE \E a \in Achieved : status' = says(a)
  <2>1. CASE Uncertain
    <3>1. status' = "UNCERTAIN"
      BY <1>2, <2>1 DEF Status
    <3> QED BY <3>1 DEF Tells
  <2>2. CASE ~Uncertain
    <3>1. \E a \in Achieved : status' = says(a)
      BY <2>2
    <3> QED BY <1>1, <1>3, <3>1 DEF Tells
  <2> QED BY <2>1, <2>2
<1>5. C \in Nat /\ target \in Nat /\ planned \in Int /\ Asks(plan)
  BY <1>1, ConfirmedSum, PlannedFits DEF IInv, Planning, Sound, Asked
<1>6. ~(total > 0) => planned = 0 /\ C = 0
  <2> SUFFICES ASSUME ~(total > 0) PROVE planned = 0 /\ C = 0
    OBVIOUS
  <2>1. plan.items = <<>> /\ planned = Planned(plan.items)
    BY DEF IInv, Planning, Sound
  <2>2. planned = 0
    BY <2>1, PlannedEmpty
  <2>3. Len(results) = 0
    <3>1. Len(<<>>) = 0
      OBVIOUS
    <3> QED BY <1>1, <2>1, <3>1
  <2>4. \A i \in 1..Len(results) : results[i].volume = 0
    <3>1. \A i \in 1..0 : FALSE
      OBVIOUS
    <3> QED BY <2>3, <3>1
  <2> QED BY <2>2, <2>4, ConfirmedSum
<1>7. /\ \A a : total > 0 /\ a >= target => says(a) = "SUCCEEDED"
      /\ \A a : ~(total > 0 /\ a >= target) => says(a) = short
  BY DEF Reference!Outcome
<1>8. CASE ~command.close /\ total > 0
  <2>1. status' = IF protected >= target THEN "SUCCEEDED" ELSE short
    BY <1>1, <1>2, <1>4, <1>8 DEF Status
  <2>2. protected \in Achieved
    BY <1>2, <1>8, ProtectedNow
  <2> HIDE DEF protected, C, total, target, says
  <2>3. status' = says(protected)
    BY <1>7, <1>8, <2>1
  <2> QED BY <2>2, <2>3
<1>9. CASE ~command.close /\ ~(total > 0)
  <2>1. status' = IF planned > 0 /\ C < planned THEN short
                  ELSE IF plan.code = "OK" THEN "SUCCEEDED" ELSE "FAILED"
    BY <1>1, <1>2, <1>4, <1>9 DEF Status
  <2>2. plan.code # "OK"
    BY <1>5, <1>9 DEF Asks
  <2>3. status' = "FAILED" /\ short = "FAILED"
    <3> HIDE DEF C, planned, total
    <3> QED BY <1>6, <1>9, <2>1, <2>2
  <2>4. 0 \in Achieved
    BY <1>9 DEF Achieved
  <2>5. says(0) = short
    <3> HIDE DEF says, short, total
    <3> QED BY <1>7, <1>9
  <2> QED BY <2>3, <2>4, <2>5
<1>10. CASE command.close
  <2>1. C \in Achieved
    BY <1>10 DEF Achieved
  <2>2. planned <= target /\ (plan.code = "OK" <=> planned > 0)
    BY <1>1, <1>10 DEF IInv, Planning, Sound, Rated
  <2>3. total > 0 => target > 0
    BY <1>5 DEF Asks
  <2>4. C > 0 => planned > 0
    <3>1. C = SumFunction(closed)
      BY <1>1, <1>4, <1>10, AllConfirmed
    <3> HIDE DEF C
    <3> QED BY <3>1, ClosedPlanned
  <2>5. CASE C > 0 /\ C < target
    <3>1. status' = "PARTIAL"
      BY <1>1, <1>2, <1>4, <1>10, <2>5 DEF Status
    <3> HIDE DEF C, target, total, says
    <3>2. says(C) = "PARTIAL"
      BY <1>5, <1>7, <2>5
    <3> QED BY <2>1, <3>1, <3>2
  <2>6. CASE ~(C > 0 /\ C < target)
    <3>1. status' = IF planned > 0 /\ C < planned THEN short
                    ELSE IF plan.code = "OK" THEN "SUCCEEDED" ELSE "FAILED"
      BY <1>1, <1>2, <1>4, <1>10, <2>6 DEF Status
    <3> HIDE DEF C, target, total, says, planned
    <3>2. CASE C = 0
      <4>1. status' = "FAILED" /\ short = "FAILED"
        BY <1>5, <2>2, <3>1, <3>2
      <4>2. ~(total > 0 /\ C >= target)
        BY <1>5, <2>3, <3>2
      <4>3. says(C) = short
        BY <1>7, <4>2
      <4> QED BY <2>1, <4>1, <4>3
    <3>3. CASE C > 0
      <4>1. C >= target /\ planned > 0 /\ total > 0
        BY <1>5, <1>6, <2>4, <2>6, <3>3
      <4>2. status' = "SUCCEEDED"
        BY <1>5, <2>2, <3>1, <4>1
      <4>3. says(C) = "SUCCEEDED"
        BY <1>7, <4>1
      <4> QED BY <2>1, <4>2, <4>3
    <3> QED BY <1>5, <3>2, <3>3
  <2> QED BY <2>5, <2>6
<1> QED BY <1>8, <1>9, <1>10

\* Nothing changes what was said.
LEMMA TellsKept == ASSUME IInv, RequestInv, Asked, Tells, [Next]_vars PROVE Tells'
<1>1. CASE Report
  <2>1. CASE command.preview
    BY <1>1, <2>1 DEF Report, fixed, Tells
  <2>2. CASE ~command.preview
    BY <1>1, <2>2, ReportTells
  <2> QED BY <2>1, <2>2
<1>2. CASE ~Report
  <2> SUFFICES ASSUME pc' = "done", ~command'.preview, status' # "UNCERTAIN" PROVE Tells'
    BY DEF Tells
  <2>1. pc = "done" /\ status' = status /\ command' = command
    BY <1>2 DEF Next, vars, fixed, market, MakePlan, Pass, ReadLive, Prepare, Reread, OrderSend, Refuse, Done, Filled,
       FilledLate, Fill, Lapse, NothingToDo, Rejected, Unanswered, Evidence, Meddle, Move
  <2>2. flight = None
    BY <2>1 DEF RequestInv, Doubt
  <2>3. UNCHANGED <<account, quote, command, plan, results>>
    BY <1>2, <2>1, <2>2 DEF Next, vars, fixed, market, MakePlan, Pass, ReadLive, Prepare, Reread, OrderSend, Filled,
       FilledLate, Fill, Lapse, NothingToDo, Rejected, Unanswered, Evidence, Meddle, Move, Busy
  <2>4. Achieved' = Achieved /\ Confirmed' = Confirmed
    BY <2>3 DEF Achieved, Confirmed, Rows, Layers, Tickets
  <2> QED BY <2>1, <2>3, <2>4 DEF Tells
<1> QED BY <1>1, <1>2

\* The simulator does what a plan says, and says what the EA says.
LEMMA TellsNow == ASSUME Fresh => Simulation, Tells PROVE SimulatorAgrees
<1>1. Achieved = IF command.close THEN {Confirmed} ELSE {0, Volume({p \in Rows : Protected(p, StopFor(p))})}
  BY DEF Achieved
<1> DEFINE closing(p) == {q \in {[p EXCEPT !.volume = @ - Given(p)]} : q.volume > 0}
           protecting(p) == {[p EXCEPT !.sl = IF Given(p) > 0 THEN StopFor(p) ELSE @]}
           after(reject) == Reference!simulate_execute(Layers, quote, ReferencePlan.items, Action, reject)
<1>2. ASSUME NEW p PROVE Yield(p, Given(p), Action) = IF command.close THEN closing(p) ELSE protecting(p)
  <2>1. CASE command.close
    <3>1. Action = "close"
      BY <2>1 DEF Action
    <3> QED BY <2>1, <3>1 DEF Yield
  <2>2. CASE ~command.close
    <3>1. Action = "be"
      BY <2>2 DEF Action
    <3> QED BY <2>2, <3>1 DEF Yield
  <2> QED BY <2>1, <2>2
<1>3. UNION {Yield(p, Given(p), Action) : p \in Layers}
        = UNION {IF command.close THEN closing(p) ELSE protecting(p) : p \in Layers}
  <2> HIDE DEF closing, protecting
  <2> QED BY <1>2
<1>4. Fresh => /\ after({}).positions = UNION {IF command.close THEN closing(p) ELSE protecting(p) : p \in Layers}
               /\ after({}).confirmed = plan.planned
               /\ after(Tickets) = [positions |-> Layers, confirmed |-> 0]
  <2> HIDE DEF closing, protecting
  <2> QED BY <1>3 DEF Simulation
<1>5. pc = "done" /\ ~command.preview /\ status # "UNCERTAIN" =>
        \E a \in Achieved : status = Reference!Outcome(plan.total, plan.target, a, Confirmed)
  BY DEF Tells
<1> HIDE DEF closing, protecting, after
<1> QED BY <1>1, <1>4, <1>5 DEF SimulatorAgrees, closing, protecting, after

\* The simulator stands for the EA: it does what a fresh plan says, and gives an
\* execution the EA's own status.
THEOREM SameOutcome == Spec => []SimulatorAgrees
<1>1. Init => Asked
  <2> SUFFICES ASSUME Init PROVE Asked
    OBVIOUS
  <2>1. PICK c \in Cases : account = c.account /\ command = c.command
    BY DEF Init
  <2>2. pc = "planning"
    BY DEF Init
  <2> QED BY <2>1, <2>2, CasesAssumption, PartsAssumption DEF Asked, Tickets
<1>2. Init => Tells
  BY DEF Init, Tells
<1>3. IInv /\ RequestInv /\ Asked /\ [Next]_vars => Asked'
  BY AskedKept
<1>4. IInv /\ RequestInv /\ Asked /\ Tells /\ [Next]_vars => Tells'
  BY TellsKept
<1>5. IInv /\ StillShown /\ Commanded /\ Tells => SimulatorAgrees
  BY FreshSimulated, TellsNow
<1> QED BY <1>1, <1>2, <1>3, <1>4, <1>5, PreviewShown, RequestInvariance, StaysCommanded, PTL DEF Spec
=============================================================================
