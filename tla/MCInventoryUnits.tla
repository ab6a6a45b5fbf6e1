-------------------------- MODULE MCInventoryUnits --------------------------
(* InventoryUnits on small instances.                                       *)
EXTENDS InventoryUnits, TLC

UnitSymmetry == Permutations(Units) \cup Permutations(Codes) \cup Permutations(Clerks)

=============================================================================
