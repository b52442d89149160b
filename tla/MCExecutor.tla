----------------------------- MODULE MCExecutor -----------------------------
(***************************************************************************)
(* Executor on small instances: previews of many accounts, for the plan,   *)
(* and executions on few, for everything that may happen meanwhile.        *)
(* A lot step is 4 units, the least volume two steps, a fraction a half or *)
(* the whole; 10 is a volume between two steps, 4 one below the least.     *)
(***************************************************************************)
EXTENDS Executor

Commands(close, sides, preview) ==
    [close : {close}, side : sides, part : 1..2, preview : {preview}]

With(accounts, commands, modes) ==
    [account : accounts, command : commands, filling : modes]

Layer(t, side, v, entry, sl) ==
    [ticket |-> t, side |-> side, volume |-> v, entry |-> entry, sl |-> sl, tp |-> 0]
LayersOf(t, sides, volumes, entries, sls) ==
    {Layer(t, s, v, e, l) : s \in sides, v \in volumes, e \in entries, l \in sls}
Pairs(A, B) == {<<a, b>> : a \in A, b \in B}
Triples(A, B, C) == {<<a, b, c>> : a \in A, b \in B, c \in C}

Both == {"BUY", "SELL"}
AnyLayer(t) == LayersOf(t, Both, {0, 4, 10, 12, 20}, {11, 24}, {0})

ClosePreviews ==
    With(Triples(AnyLayer(1), AnyLayer(2), LayersOf(3, {"BUY"}, {8, 16}, {11}, {0})),
         Commands(TRUE, {"BUY", "BOTH"}, TRUE), {"FOK"})
BePreviews ==
    With(Pairs(LayersOf(1, Both, {0, 8, 12}, {9, 18, 25}, {0, 12, 19}),
               LayersOf(2, Both, {8, 12}, {9, 16, 25}, {0, 12, 24})),
         Commands(FALSE, {"AUTO", "BUY", "SELL"}, TRUE), {"FOK"})
LayeredPreviews ==
    With(Triples(LayersOf(1, {"BUY"}, {8, 12}, {9, 15}, {0, 17}),
                 LayersOf(2, {"BUY"}, {8, 20}, {9, 12}, {0, 17}),
                 LayersOf(3, {"BUY"}, {8, 12}, {12, 19}, {0})),
         Commands(FALSE, {"AUTO"}, TRUE), {"FOK"})
Closes ==
    With(Pairs(LayersOf(1, Both, {12, 20}, {11}, {0}), LayersOf(2, {"BUY"}, {8}, {12}, {8})),
         Commands(TRUE, {"BOTH"}, FALSE), {"FOK", "IOC", "NONE"})
Protections ==
    With(Pairs(LayersOf(1, {"BUY"}, {8}, {9}, {0, 8}), LayersOf(2, {"BUY"}, {12}, {11}, {8}))
         \cup Pairs(LayersOf(1, {"SELL"}, {8}, {28}, {0, 29}), LayersOf(2, {"SELL"}, {8}, {26}, {0})),
         Commands(FALSE, {"AUTO"}, FALSE), {"FOK"})

AllCases == ClosePreviews \cup BePreviews \cup LayeredPreviews \cup Closes \cup Protections
\* A position below the least volume, as a partial fill may leave it.
Remainder == With({<<Layer(1, "BUY", 8, 11, 0)>>}, Commands(TRUE, {"BOTH"}, TRUE), {"FOK"})
TwoQuotes == {[bid |-> 20, ask |-> 21], [bid |-> 15, ask |-> 16]}
=============================================================================
