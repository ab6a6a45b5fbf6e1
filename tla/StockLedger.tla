----------------------------- MODULE StockLedger -----------------------------
(***************************************************************************)
(* The StockLevel rows of app/modules/inventory and the arithmetic of the  *)
(* StockLevel methods, with every operation in one atomic step.            *)
(*                                                                         *)
(* This is what the inventory API promises a client that is alone: the     *)
(* module StockLevels has the same rows under concurrent sessions and is   *)
(* compared with this specification.                                       *)
(***************************************************************************)
EXTENDS Integers

CONSTANTS
    Levels,       \* ids of StockLevel rows
    Sites,        \* (item_id, location_id) pairs
    Quantities,   \* quantities a request may name
    Adjustments,  \* signed amounts of StockAdjustment.adjustment
    MaxQuantity,  \* largest number a String(10) quantity column holds
    Blank         \* the empty text, which is no number

ASSUME LedgerAssumption ==
    /\ MaxQuantity \in Nat
    /\ Quantities \subseteq 0 .. MaxQuantity
    /\ Adjustments \subseteq Int
    /\ Blank \notin Int

VARIABLE stock    \* the stock_levels table: a row for each id in its domain

\* A quantity column holds text: the schemas' validate_numeric_string lets in
\* what int() reads as a number >= 0, and the empty string.
Text == Int \cup {Blank}

Row == [site : Sites, onHand : Text, available : Text, reserved : Text]

\* The numbers among a row's quantities.
Numbers(row) == {row.onHand, row.available, row.reserved} \ {Blank}

\* No row of the table is for this item and location.
NoLevelFor(site) == \A l \in DOMAIN stock : stock[l].site # site

\* Mutant: a constraint of the table that is not there.
Unconstrained(x) == TRUE

\* The unique index idx_stock_level_item_location lets a row in.
IndexAdmits(site) == NoLevelFor(site)

\* The three quantities fit their columns.
Fits(row) == \A n \in Numbers(row) : n <= MaxQuantity

NewRow(site, onHand, available, reserved) ==
    [site |-> site, onHand |-> onHand,
     available |-> available, reserved |-> reserved]

\* StockLevelRepository.create: the constructor refuses a blank on_hand and sets
\* the other two columns from it; a field that is not blank (the default "0" is
\* not) then replaces what the constructor set.
CreatedRow(site, onHand, available, reserved) ==
    NewRow(site, onHand, IF available = Blank THEN onHand ELSE available,
           IF reserved = Blank THEN 0 ELSE reserved)

----------------------------------------------------------------------------
(* StockLevel.adjust_quantity, reserve_quantity and release_reservation:   *)
(* when they do not raise, and the row they leave.  int() of a blank column *)
(* they read raises; one they only write may be blank.                     *)

CanAdjust(row, amount) ==
    /\ Blank \notin {row.onHand, row.reserved}
    /\ row.onHand + amount >= 0

\* Mutant: units that come in are not made available.
AdjustedOnHandOnly(row, amount) == [row EXCEPT !.onHand = @ + amount]

Adjusted(row, amount) ==
    LET left == row.onHand + amount - row.reserved
    IN  NewRow(row.site, row.onHand + amount, IF left > 0 THEN left ELSE 0,
               row.reserved)

\* Mutant: nothing compares the quantity with what is available.
CanReserveAnything(row, quantity) ==
    Blank \notin {row.available, row.reserved} /\ quantity >= 1

CanReserve(row, quantity) ==
    /\ Blank \notin {row.available, row.reserved}
    /\ quantity >= 1 /\ quantity <= row.available

Reserved(row, quantity) ==
    NewRow(row.site, row.onHand, row.available - quantity, row.reserved + quantity)

CanRelease(row, quantity) ==
    /\ Blank \notin {row.available, row.reserved}
    /\ quantity >= 1 /\ quantity <= row.reserved

Released(row, quantity) ==
    NewRow(row.site, row.onHand, row.available + quantity, row.reserved - quantity)

----------------------------------------------------------------------------
Store(l, row) == Fits(row) /\ stock' = [stock EXCEPT ![l] = row]

AdjustStep(l) ==
    \E a \in Adjustments :
        CanAdjust(stock[l], a) /\ Store(l, Adjusted(stock[l], a))

ReserveStep(l) ==
    \E q \in Quantities :
        CanReserve(stock[l], q) /\ Store(l, Reserved(stock[l], q))

ReleaseStep(l) ==
    \E q \in Quantities :
        CanRelease(stock[l], q) /\ Store(l, Released(stock[l], q))

\* PUT /stock/{id}: any of the quantities is set to a number >= 0 or emptied.
\* The repository assigns the columns without StockLevel._validate.
PutStep(l) ==
    LET Put(c) == Quantities \cup {Blank, stock[l][c]}
    IN  \E onHand \in Put("onHand"), available \in Put("available"),
           reserved \in Put("reserved") :
            Store(l, NewRow(stock[l].site, onHand, available, reserved))

\* POST /stock: the unique index on (item_id, location_id) refuses a second row.
CreateStep(l) ==
    /\ l \notin DOMAIN stock
    /\ \E site \in Sites, h \in Quantities, a, s \in Quantities \cup {Blank} :
          /\ IndexAdmits(site)
          /\ stock' = [k \in DOMAIN stock \cup {l} |->
                          IF k = l THEN CreatedRow(site, h, a, s) ELSE stock[k]]

LedgerInit == stock = [l \in {} |-> 0]

LedgerStep ==
    \/ \E l \in Levels : CreateStep(l)
    \/ \E l \in DOMAIN stock :
          AdjustStep(l) \/ ReserveStep(l) \/ ReleaseStep(l) \/ PutStep(l)

\* The atomic specification.
Ledger == LedgerInit /\ [][LedgerStep]_stock

=============================================================================
