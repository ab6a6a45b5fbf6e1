---------------------------- MODULE MCStockLevels ----------------------------
(* StockLevels on small instances.                                          *)
EXTENDS StockLevels, TLC

RequestSymmetry == Permutations(Requests)

RaceSymmetry == Permutations(Requests) \cup Permutations(Levels)
UnitQuantities == 0 .. 1
SmallQuantities == 0 .. 2
SmallAdjustments == {-2, -1, 0, 1}

=============================================================================
