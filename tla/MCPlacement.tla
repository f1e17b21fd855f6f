---------------------------- MODULE MCPlacement -----------------------------
(* A start region whose town hall takes a corner, and one more expansion.   *)
EXTENDS Placement

MCTiles == [e \in {"start", "natural"} |->
              IF e = "start" THEN (0 .. 8) \X (0 .. 11) ELSE (9 .. 13) \X (0 .. 5)]
MCSite == [e \in {"start", "natural"} |-> IF e = "start" THEN <<4, 7>> ELSE <<9, 0>>]
MCSize == [depot |-> 2, barracks |-> 3, hall |-> 5]
MCLimit == [depot |-> 1, barracks |-> 2, hall |-> 1]
=============================================================================
