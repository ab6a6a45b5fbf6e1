--------------------------- MODULE InventoryUnits ---------------------------
(***************************************************************************)
(* The inventory_units table under concurrent requests: creation, PUT, the *)
(* status endpoint with its transition table, rent, return and sell.       *)
(*                                                                         *)
(* Every operation but creation loads a unit, decides on the status it     *)
(* loaded and commits.  PUT sets any status: InventoryUnitUpdate has the   *)
(* field, and update_inventory_unit does not consult the table.            *)
(***************************************************************************)
EXTENDS OrmSession

CONSTANTS
    Units,      \* ids of InventoryUnit rows
    Codes,      \* values of unit_code
    Clerks      \* the requests being served at once

VARIABLES
    units,      \* the table: a row for each id in its domain
    desk        \* what each request's session has read

unitVars == <<units, desk>>

Statuses == {"AVAILABLE", "RENTED", "SOLD", "MAINTENANCE", "DAMAGED", "RETIRED"}

UnitRow == [code : Codes, status : Statuses]

Sessions ==
    [kind : {"idle"}]
        \cup [kind : {"unit"}, id : Units, seen : Statuses]
        \cup [kind : {"create"}, code : Codes]
        \cup [kind : {"count"}, id : Units]

AtDesk == [kind |-> "idle"]

\* Mutant: a sold unit can be put back on the shelf.
TransitionsWithBuyBack ==
    [AVAILABLE   |-> {"RENTED", "SOLD", "MAINTENANCE", "DAMAGED", "RETIRED"},
     RENTED      |-> {"AVAILABLE", "MAINTENANCE", "DAMAGED"},
     SOLD        |-> {"AVAILABLE"},
     MAINTENANCE |-> {"AVAILABLE", "DAMAGED", "RETIRED"},
     DAMAGED     |-> {"MAINTENANCE", "RETIRED"},
     RETIRED     |-> {}]

\* Mutant: a status that is not one of InventoryUnitStatus.
TransitionsToRepair == [TransitionsWithBuyBack EXCEPT !.DAMAGED = {"REPAIR"}]

\* InventoryService._validate_status_transition.
Transitions ==
    [AVAILABLE   |-> {"RENTED", "SOLD", "MAINTENANCE", "DAMAGED", "RETIRED"},
     RENTED      |-> {"AVAILABLE", "MAINTENANCE", "DAMAGED"},
     SOLD        |-> {},
     MAINTENANCE |-> {"AVAILABLE", "DAMAGED", "RETIRED"},
     DAMAGED     |-> {"MAINTENANCE", "RETIRED"},
     RETIRED     |-> {}]

----------------------------------------------------------------------------
UnitInit ==
    /\ units = [u \in {} |-> AtDesk]
    /\ desk = [r \in Clerks |-> AtDesk]

CodeIsFree(code) == \A u \in DOMAIN units : units[u].code # code

\* Mutant: unit_code is not unique.
AnyCode(code) == TRUE

\* The unique constraint on unit_code lets a row in.
CodeAdmitted(code) == CodeIsFree(code)

\* create_inventory_unit finds no unit with the code.
CheckCode(r) ==
    /\ desk[r] = AtDesk
    /\ \E code \in Codes :
          /\ CodeIsFree(code)
          /\ desk' = [desk EXCEPT ![r] = [kind |-> "create", code |-> code]]
    /\ UNCHANGED units

\* InventoryUnitRepository.create inserts the unit, in the status the client
\* chose, and commits it.
InsertUnit(r) ==
    /\ desk[r].kind = "create"
    /\ CodeAdmitted(desk[r].code)
    /\ \E u \in Units \ DOMAIN units, s \in Statuses :
          /\ units' = [v \in DOMAIN units \cup {u} |->
                          IF v = u THEN [code |-> desk[r].code, status |-> s]
                                   ELSE units[v]]
          /\ desk' = [desk EXCEPT ![r] = [kind |-> "count", id |-> u]]

\* _update_stock_levels_for_unit_creation.  Its first expression, UUID(unit.item_id),
\* raises: UUIDType has already made item_id a UUID, and UUID() takes only text.
\* The rollback finds nothing to undo, the unit was committed before.
CountUnit(r) ==
    /\ desk[r].kind = "count"
    /\ desk' = [desk EXCEPT ![r] = AtDesk]
    /\ UNCHANGED units

\* InventoryUnitRepository.get_by_id of a unit that exists.
LoadUnit(r) ==
    /\ desk[r] = AtDesk
    /\ \E u \in DOMAIN units :
          desk' = [desk EXCEPT ![r] = [kind |-> "unit", id |-> u, seen |-> units[u].status]]
    /\ UNCHANGED units

\* The request's unit is committed with this status and the request ends.
CommitStatus(r, status) ==
    /\ units' = [units EXCEPT ![desk[r].id].status = Written(@, desk[r].seen, status)]
    /\ desk' = [desk EXCEPT ![r] = AtDesk]

\* Mutant: the status of the loaded unit is not looked at.
SawUnit(r, status) == desk[r].kind = "unit"

\* The request loaded a unit in this status.
Saw(r, status) == desk[r].kind = "unit" /\ desk[r].seen = status

\* update_unit_status after its load.
UpdateStatus(r) ==
    /\ desk[r].kind = "unit"
    /\ \E s \in Transitions[desk[r].seen] : CommitStatus(r, s)

\* rent_out_unit, return_unit_from_rent and sell_unit after their loads.
RentOut(r) == Saw(r, "AVAILABLE") /\ CommitStatus(r, "RENTED")

ReturnFromRent(r) == Saw(r, "RENTED") /\ CommitStatus(r, "AVAILABLE")

Sell(r) == Saw(r, "AVAILABLE") /\ CommitStatus(r, "SOLD")

\* update_inventory_unit: the status of the client, or the one it has.
PutUnit(r) ==
    /\ desk[r].kind = "unit"
    /\ \E s \in Statuses : CommitStatus(r, s)

\* The request is refused or fails: the session is rolled back.
Abandon(r) ==
    /\ desk[r] # AtDesk
    /\ desk' = [desk EXCEPT ![r] = AtDesk]
    /\ UNCHANGED units

DeskStep(r) ==
    \/ CheckCode(r) \/ InsertUnit(r) \/ CountUnit(r) \/ LoadUnit(r)
    \/ UpdateStatus(r) \/ RentOut(r) \/ ReturnFromRent(r) \/ Sell(r) \/ Abandon(r)

UnitNext == \E r \in Clerks : DeskStep(r) \/ PutUnit(r)

UnitSpec == UnitInit /\ [][UnitNext]_unitVars

\* The endpoints that consult a unit's status before they change it.
DeskSpec == UnitInit /\ [][\E r \in Clerks : DeskStep(r)]_unitVars

----------------------------------------------------------------------------
\* Rows and sessions hold what they should.
UnitTypeOK ==
    /\ DOMAIN units \subseteq Units
    /\ units \in [DOMAIN units -> UnitRow]
    /\ desk \in [Clerks -> Sessions]
    /\ \A r \in Clerks : desk[r].kind \in {"unit", "count"} => desk[r].id \in DOMAIN units

\* Two units never share a code, although the check and the INSERT of
\* create_inventory_unit are two steps.
UniqueCodes ==
    \A u, v \in DOMAIN units : units[u].code = units[v].code => u = v

\* The request has loaded a unit and its status is still the one it loaded.
UpToDate(r) == desk[r].kind = "unit" /\ units[desk[r].id].status = desk[r].seen

\* Only PUT and overlapping requests break the rules of a unit's life: a request
\* that is up to date leaves a sold or retired unit alone, and rents or sells
\* only a unit that is available, whichever of the endpoints it came through.
UpToDateIsLawful ==
    [][\A r \in Clerks :
          UpToDate(r) /\ DeskStep(r) =>
              LET u == desk[r].id
              IN  /\ units[u].status \in {"SOLD", "RETIRED"} => units' = units
                  /\ units'[u].status \in {"RENTED", "SOLD"} =>
                         units[u].status \in {"AVAILABLE", units'[u].status}]_unitVars

\* InventoryUnit.rent_out: "Unit is not available for rental".  Said of the unit
\* when the rental is committed.
RentsAvailable ==
    [][\A r \in Clerks :
          RentOut(r) => units[desk[r].id].status = "AVAILABLE"]_unitVars

=============================================================================
