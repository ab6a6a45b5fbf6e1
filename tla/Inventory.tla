------------------------------ MODULE Inventory ------------------------------
(***************************************************************************)
(* InventoryUnits and StockLedger in one database: the two tables that say *)
(* what is in stock.  The only code that would relate them is the second   *)
(* half of create_inventory_unit.                                          *)
(***************************************************************************)
EXTENDS InventoryUnits, StockLedger

CONSTANT SiteOf   \* the item and location a unit with this code is created for

InventoryInit == UnitInit /\ LedgerInit

InventoryNext ==
    \/ UnitNext /\ UNCHANGED stock
    \/ LedgerStep /\ UNCHANGED unitVars

InventorySpec == InventoryInit /\ [][InventoryNext]_<<unitVars, stock>>

\* What the stock levels say is on hand at a site: nothing without a level, or
\* with one whose column was emptied.
OnHandAt(site) ==
    IF NoLevelFor(site) THEN 0
    ELSE LET l == CHOOSE k \in DOMAIN stock : stock[k].site = site
         IN  IF stock[l].onHand = Blank THEN 0 ELSE stock[l].onHand

\* _update_stock_levels_for_unit_creation: "Update stock levels when a new
\* inventory unit is created."  The request that created a unit ends with one
\* more on hand.
CreationIsCounted ==
    [][\A r \in Clerks :
          CountUnit(r) =>
              LET site == SiteOf[units[desk[r].id].code]
              IN  OnHandAt(site)' = OnHandAt(site) + 1]_<<unitVars, stock>>

=============================================================================
