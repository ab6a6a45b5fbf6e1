----------------------------- MODULE MCInventory -----------------------------
(* Inventory on a small instance: every unit is of one item at one location. *)
EXTENDS Inventory

OneSite == [code \in Codes |-> CHOOSE s \in Sites : TRUE]
UnitQuantities == 0 .. 1
UnitAdjustments == {-1, 1}

=============================================================================
