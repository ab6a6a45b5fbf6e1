------------------------ MODULE InventoryUnitsProofs ------------------------
(***************************************************************************)
(* What InventoryUnits guarantees for any number of units and requests.    *)
(*                                                                         *)
(* UnitTypeOK is inductive; UniqueCodes needs it, because an INSERT is     *)
(* checked against the rows that are there when it runs.  What a request   *)
(* that is up to date may do to its unit follows from the transition table *)
(* and from UnitTypeOK, which says that its unit exists.  If no two        *)
(* requests are at work on a unit (OneClerkPerUnit), all are up to date.   *)
(***************************************************************************)
EXTENDS InventoryUnits, TLAPS

UnitInv == UnitTypeOK /\ UniqueCodes

\* The transition table names every status and leads only to statuses.
LEMMA TransitionsType == Transitions \in [Statuses -> SUBSET Statuses]
  BY DEF Transitions, Statuses

\* The initial states satisfy the invariant.
LEMMA UnitInitInv == UnitInit => UnitInv
  BY DEF UnitInit, UnitInv, UnitTypeOK, UniqueCodes, AtDesk, Sessions

\* A commit of a status keeps the invariant.
LEMMA CommitStatusInv ==
    ASSUME UnitInv, NEW r \in Clerks, desk[r].kind = "unit",
           NEW s \in Statuses, CommitStatus(r, s)
    PROVE  UnitInv'
  <1> DEFINE u == desk[r].id
             new == Written(units[u].status, desk[r].seen, s)
  <1>1. u \in DOMAIN units /\ units[u] \in UnitRow
    BY DEF UnitInv, UnitTypeOK
  <1>2. new \in Statuses
    BY <1>1 DEF Written, UnitRow
  <1>3. units' = [units EXCEPT ![u] = [units[u] EXCEPT !.status = new]]
    BY DEF CommitStatus
  <1>4. [units[u] EXCEPT !.status = new] \in UnitRow
    BY <1>1, <1>2 DEF UnitRow
  <1> HIDE DEF new
  <1>5. DOMAIN units' = DOMAIN units
    BY <1>3
  <1>6. units' \in [DOMAIN units -> UnitRow]
    BY <1>3, <1>4 DEF UnitInv, UnitTypeOK
  <1>7. \A v \in DOMAIN units : units'[v].code = units[v].code
    BY <1>1, <1>3 DEF UnitInv, UnitTypeOK, UnitRow
  <1>8. desk' = [desk EXCEPT ![r] = AtDesk]
    BY DEF CommitStatus
  <1>9. UnitTypeOK'
    <2>1. desk' \in [Clerks -> Sessions]
      BY <1>8 DEF UnitInv, UnitTypeOK, Sessions, AtDesk
    <2>2. \A p \in Clerks :
              desk'[p].kind \in {"unit", "count"} => desk'[p].id \in DOMAIN units
      BY <1>8 DEF UnitInv, UnitTypeOK, AtDesk
    <2> QED
      BY <1>5, <1>6, <2>1, <2>2 DEF UnitInv, UnitTypeOK
  <1>10. UniqueCodes'
    BY <1>5, <1>7 DEF UnitInv, UniqueCodes
  <1> QED
    BY <1>9, <1>10 DEF UnitInv

\* A step that writes no unit keeps the invariant if the new session is well
\* formed and names a unit that exists.
LEMMA DeskOnlyInv ==
    ASSUME UnitInv, NEW r \in Clerks, UNCHANGED units,
           NEW s \in Sessions, desk' = [desk EXCEPT ![r] = s],
           s.kind \in {"unit", "count"} => s.id \in DOMAIN units
    PROVE  UnitInv'
  BY DEF UnitInv, UnitTypeOK, UniqueCodes

\* The INSERT of a unit keeps the invariant.
LEMMA InsertUnitInv ==
    ASSUME UnitInv, NEW r \in Clerks, InsertUnit(r)
    PROVE  UnitInv'
  <1>1. desk[r].code \in Codes /\ CodeIsFree(desk[r].code)
    BY DEF InsertUnit, CodeAdmitted, UnitInv, UnitTypeOK, Sessions
  <1>2. PICK u \in Units \ DOMAIN units, s \in Statuses :
            /\ units' = [v \in DOMAIN units \cup {u} |->
                            IF v = u THEN [code |-> desk[r].code, status |-> s]
                                     ELSE units[v]]
            /\ desk' = [desk EXCEPT ![r] = [kind |-> "count", id |-> u]]
    BY DEF InsertUnit
  <1>3. DOMAIN units' = DOMAIN units \cup {u}
    BY <1>2
  <1>4. \A v \in DOMAIN units' :
            units'[v] = IF v = u THEN [code |-> desk[r].code, status |-> s] ELSE units[v]
    BY <1>2
  <1>5. [code |-> desk[r].code, status |-> s] \in UnitRow
    BY <1>1 DEF UnitRow
  <1>6. units' \in [DOMAIN units' -> UnitRow]
    BY <1>2, <1>5 DEF UnitInv, UnitTypeOK
  <1>7. UnitTypeOK'
    <2>1. desk' \in [Clerks -> Sessions]
      BY <1>2 DEF UnitInv, UnitTypeOK, Sessions
    <2>2. \A p \in Clerks :
              desk'[p].kind \in {"unit", "count"} => desk'[p].id \in DOMAIN units'
      BY <1>2, <1>3 DEF UnitInv, UnitTypeOK
    <2> QED
      BY <1>2, <1>3, <1>6, <2>1, <2>2 DEF UnitInv, UnitTypeOK
  <1>8. UniqueCodes'
    BY <1>1, <1>3, <1>4 DEF UnitInv, UniqueCodes, CodeIsFree
  <1> QED
    BY <1>7, <1>8 DEF UnitInv

\* Every step of every request keeps the invariant.
LEMMA UnitNextInv == UnitInv /\ [UnitNext]_unitVars => UnitInv'
  <1> SUFFICES ASSUME UnitInv, [UnitNext]_unitVars PROVE UnitInv'
    OBVIOUS
  <1>1. CASE UNCHANGED unitVars
    BY <1>1 DEF unitVars, UnitInv, UnitTypeOK, UniqueCodes
  <1>2. ASSUME NEW r \in Clerks, CheckCode(r) \/ CountUnit(r) \/ LoadUnit(r) \/ Abandon(r)
        PROVE  UnitInv'
    <2>1. AtDesk \in Sessions /\ AtDesk.kind = "idle"
      BY DEF AtDesk, Sessions
    <2>2. CASE CheckCode(r)
      BY <2>2, DeskOnlyInv DEF CheckCode, Sessions
    <2>3. CASE LoadUnit(r)
      <3>1. PICK u \in DOMAIN units :
                desk' = [desk EXCEPT ![r] = [kind |-> "unit", id |-> u, seen |-> units[u].status]]
        BY <2>3 DEF LoadUnit
      <3>2. [kind |-> "unit", id |-> u, seen |-> units[u].status] \in Sessions
        BY DEF UnitInv, UnitTypeOK, UnitRow, Sessions
      <3> QED
        BY <2>3, <3>1, <3>2, DeskOnlyInv DEF LoadUnit
    <2>4. CASE CountUnit(r) \/ Abandon(r)
      BY <2>1, <2>4, DeskOnlyInv DEF CountUnit, Abandon
    <2> QED
      BY <1>2, <2>2, <2>3, <2>4
  <1>3. ASSUME NEW r \in Clerks, InsertUnit(r) PROVE UnitInv'
    BY <1>3, InsertUnitInv
  <1>4. ASSUME NEW r \in Clerks,
               UpdateStatus(r) \/ RentOut(r) \/ ReturnFromRent(r) \/ Sell(r) \/ PutUnit(r)
        PROVE  UnitInv'
    <2>1. desk[r].kind = "unit" /\ desk[r].seen \in Statuses
      BY <1>4 DEF UpdateStatus, RentOut, ReturnFromRent, Sell, PutUnit, Saw,
                  UnitInv, UnitTypeOK, Sessions
    <2>2. \E s \in Statuses : CommitStatus(r, s)
      BY <1>4, <2>1, TransitionsType
         DEF UpdateStatus, RentOut, ReturnFromRent, Sell, PutUnit, Statuses
    <2> QED
      BY <2>1, <2>2, CommitStatusInv
  <1> QED
    BY <1>1, <1>2, <1>3, <1>4 DEF UnitNext, DeskStep

\* The invariant holds in every reachable state.
LEMMA UnitInvariant == UnitSpec => []UnitInv
  BY UnitInitInv, UnitNextInv, PTL DEF UnitSpec

\* Rows and sessions hold what they should, and a session's unit exists.
THEOREM UnitTypeCorrect == UnitSpec => []UnitTypeOK
  <1>1. UnitInv => UnitTypeOK
    BY DEF UnitInv
  <1> QED
    BY <1>1, UnitInvariant, PTL

\* However many requests create units at once, no code is given twice.
THEOREM CodesAreUnique == UnitSpec => []UniqueCodes
  <1>1. UnitInv => UniqueCodes
    BY DEF UnitInv
  <1> QED
    BY <1>1, UnitInvariant, PTL

----------------------------------------------------------------------------
\* An up-to-date request moves its unit along the transition table.
LEMMA UpToDateStep ==
    ASSUME UnitInv, NEW r \in Clerks, UpToDate(r), DeskStep(r)
    PROVE  units'[desk[r].id].status
               \in {units[desk[r].id].status} \cup Transitions[units[desk[r].id].status]
  <1> DEFINE u == desk[r].id
             now == units[u].status
  <1>1. desk[r].kind = "unit" /\ now = desk[r].seen /\ now \in Statuses
    BY DEF UpToDate, UnitInv, UnitTypeOK, Sessions
  <1>2. u \in DOMAIN units /\ units[u] \in UnitRow
    BY <1>1 DEF UnitInv, UnitTypeOK
  <1>3. CASE UNCHANGED units
    BY <1>3
  <1>4. CASE \E s \in Transitions[now] : CommitStatus(r, s)
    <2>1. PICK s \in Transitions[now] : CommitStatus(r, s)
      BY <1>4
    <2>2. units' = [units EXCEPT ![u].status = Written(@, desk[r].seen, s)]
      BY <2>1 DEF CommitStatus
    <2>3. units'[u] = [units[u] EXCEPT !.status = Written(now, desk[r].seen, s)]
      BY <1>2, <2>2 DEF UnitInv, UnitTypeOK
    <2>4. units'[u].status = s \/ units'[u].status = now
      BY <1>2, <2>3 DEF Written, UnitRow
    <2> QED
      BY <2>4
  <1>5. (UNCHANGED units) \/ \E s \in Transitions[now] : CommitStatus(r, s)
    <2>1. CASE UpdateStatus(r)
      BY <1>1, <2>1 DEF UpdateStatus
    <2>2. CASE RentOut(r) \/ ReturnFromRent(r) \/ Sell(r)
      BY <1>1, <2>2 DEF RentOut, ReturnFromRent, Sell, Saw, Transitions
    <2>3. CASE CheckCode(r) \/ CountUnit(r) \/ LoadUnit(r) \/ Abandon(r)
      BY <2>3 DEF CheckCode, CountUnit, LoadUnit, Abandon
    <2>4. ~ InsertUnit(r)
      BY <1>1 DEF InsertUnit
    <2> QED
      BY <2>1, <2>2, <2>3, <2>4 DEF DeskStep
  <1> QED
    BY <1>3, <1>4, <1>5

\* An up-to-date request writes nothing at all if its unit is sold or retired.
LEMMA FinalUnitsStay ==
    ASSUME UnitInv, NEW r \in Clerks, UpToDate(r), DeskStep(r),
           units[desk[r].id].status \in {"SOLD", "RETIRED"}
    PROVE  units' = units
  <1>1. desk[r].kind = "unit" /\ desk[r].seen \in {"SOLD", "RETIRED"}
    BY DEF UpToDate
  <1>2. Transitions[desk[r].seen] = {}
    BY <1>1 DEF Transitions
  <1> QED
    BY <1>1, <1>2 DEF DeskStep, CheckCode, InsertUnit, CountUnit, LoadUnit, Abandon,
                      UpdateStatus, RentOut, ReturnFromRent, Sell, Saw

\* UpToDateIsLawful for any instance.
THEOREM LawWhenUpToDate == UnitSpec => UpToDateIsLawful
  <1> DEFINE Lawful(r) ==
                 LET u == desk[r].id
                 IN  /\ units[u].status \in {"SOLD", "RETIRED"} => units' = units
                     /\ units'[u].status \in {"RENTED", "SOLD"} =>
                            units[u].status \in {"AVAILABLE", units'[u].status}
  <1>1. ASSUME UnitInv, [UnitNext]_unitVars, NEW r \in Clerks, UpToDate(r), DeskStep(r)
        PROVE  Lawful(r)
    <2> DEFINE u == desk[r].id
               now == units[u].status
    <2>1. u \in DOMAIN units /\ now \in Statuses
      BY <1>1 DEF UpToDate, UnitInv, UnitTypeOK, UnitRow
    <2>2. units'[u].status \in {now} \cup Transitions[now]
      BY <1>1, UpToDateStep
    <2>3. now \in {"SOLD", "RETIRED"} => units' = units
      BY <1>1, FinalUnitsStay
    <2>4. units'[u].status \in {"RENTED", "SOLD"} => now \in {"AVAILABLE", units'[u].status}
      BY <2>1, <2>2 DEF Transitions, Statuses
    <2> QED
      BY <2>3, <2>4
  <1>2. UnitInv /\ [UnitNext]_unitVars =>
            [\A r \in Clerks : UpToDate(r) /\ DeskStep(r) => Lawful(r)]_unitVars
    BY <1>1
  <1> QED
    BY <1>2, UnitInvariant, PTL DEF UnitSpec, UpToDateIsLawful

----------------------------------------------------------------------------
\* No two requests have loaded the same unit at once: what a lock taken by the
\* SELECT, which the code does not ask for, would make true.
OneClerkPerUnit ==
    \A p, q \in Clerks :
        p # q /\ desk[p].kind = "unit" /\ desk[q].kind = "unit" =>
            desk[p].id # desk[q].id

\* Every request that has loaded a unit is up to date.
AllUpToDate == \A r \in Clerks : desk[r].kind = "unit" => UpToDate(r)

\* A request leaves the units it has not loaded, and the other requests.
LEMMA OthersKeepUnits ==
    ASSUME UnitInv, NEW r \in Clerks, DeskStep(r) \/ PutUnit(r)
    PROVE  /\ \A u \in DOMAIN units :
                 /\ u \in DOMAIN units'
                 /\ units'[u] # units[u] => desk[r].kind = "unit" /\ desk[r].id = u
           /\ \A p \in Clerks : p # r => desk'[p] = desk[p]
           /\ desk'[r].kind = "unit" =>
                 \E u \in DOMAIN units :
                    /\ desk'[r].id = u /\ desk'[r].seen = units[u].status
                    /\ units' = units
  <1>1. CASE CheckCode(r) \/ CountUnit(r) \/ LoadUnit(r) \/ Abandon(r)
    <2>1. PICK s : /\ desk' = [desk EXCEPT ![r] = s] /\ units' = units
                   /\ s.kind = "unit" => \E u \in DOMAIN units :
                                            s.id = u /\ s.seen = units[u].status
      BY <1>1 DEF CheckCode, CountUnit, LoadUnit, Abandon, AtDesk
    <2> QED
      BY <2>1 DEF UnitInv, UnitTypeOK
  <1>2. CASE InsertUnit(r)
    <2>1. PICK u \in Units \ DOMAIN units, s \in Statuses :
              /\ units' = [v \in DOMAIN units \cup {u} |->
                              IF v = u THEN [code |-> desk[r].code, status |-> s]
                                       ELSE units[v]]
              /\ desk' = [desk EXCEPT ![r] = [kind |-> "count", id |-> u]]
      BY <1>2 DEF InsertUnit
    <2> QED
      BY <2>1 DEF UnitInv, UnitTypeOK
  <1>3. CASE UpdateStatus(r) \/ RentOut(r) \/ ReturnFromRent(r) \/ Sell(r) \/ PutUnit(r)
    <2>1. desk[r].kind = "unit" /\ \E s : CommitStatus(r, s)
      BY <1>3 DEF UpdateStatus, RentOut, ReturnFromRent, Sell, PutUnit, Saw
    <2>2. PICK s : CommitStatus(r, s)
      BY <2>1
    <2> QED
      BY <2>1, <2>2 DEF CommitStatus, AtDesk, UnitInv, UnitTypeOK
  <1> QED
    BY <1>1, <1>2, <1>3 DEF DeskStep

LEMMA UpToDateStays ==
    UnitInv /\ AllUpToDate /\ OneClerkPerUnit /\ [UnitNext]_unitVars => AllUpToDate'
  <1> SUFFICES ASSUME UnitInv, AllUpToDate, OneClerkPerUnit, [UnitNext]_unitVars
               PROVE  AllUpToDate'
    OBVIOUS
  <1>1. CASE UNCHANGED unitVars
    BY <1>1 DEF unitVars, AllUpToDate, UpToDate
  <1>2. ASSUME NEW r \in Clerks, DeskStep(r) \/ PutUnit(r),
               NEW p \in Clerks, desk'[p].kind = "unit"
        PROVE  UpToDate(p)'
    <2>1. CASE p = r
      BY <1>2, <2>1, OthersKeepUnits DEF UpToDate
    <2>2. CASE p # r
      <3>1. desk'[p] = desk[p] /\ desk[p].id \in DOMAIN units
        BY <1>2, <2>2, OthersKeepUnits DEF UnitInv, UnitTypeOK
      <3>2. PICK u \in DOMAIN units : u = desk[p].id
        BY <3>1
      <3>3. units'[u] = units[u]
        BY <1>2, <2>2, <3>1, <3>2, OthersKeepUnits DEF OneClerkPerUnit
      <3> QED
        BY <1>2, <3>1, <3>2, <3>3 DEF AllUpToDate, UpToDate
    <2> QED
      BY <2>1, <2>2
  <1> QED
    BY <1>1, <1>2 DEF UnitNext, AllUpToDate

\* "Unit is not available for rental" holds of the unit as it is when the rental
\* is committed, if no two requests hold one unit, PUT included.
THEOREM ExclusiveRentals == UnitSpec /\ []OneClerkPerUnit => RentsAvailable
  <1>1. UnitInit => AllUpToDate
    BY DEF UnitInit, AllUpToDate, AtDesk
  <1>2. AllUpToDate /\ [UnitNext]_unitVars =>
            [\A r \in Clerks :
                RentOut(r) => units[desk[r].id].status = "AVAILABLE"]_unitVars
    BY DEF AllUpToDate, UpToDate, RentOut, Saw
  <1> QED
    BY <1>1, <1>2, UpToDateStays, UnitInvariant, PTL DEF UnitSpec, RentsAvailable

\* A unit keeps its status or takes one that _validate_status_transition allows.
StatusesFollowTable ==
    [][\A u \in DOMAIN units :
          units'[u].status \in {units[u].status} \cup Transitions[units[u].status]]_unitVars

\* Then a unit's whole life follows the transition table, as long as it is not
\* PUT: however many requests are at work on different units or creating some.
THEOREM ExclusiveLives == DeskSpec /\ []OneClerkPerUnit => StatusesFollowTable
  <1>1. UnitInit => AllUpToDate
    BY DEF UnitInit, AllUpToDate, AtDesk
  <1>2. [\E r \in Clerks : DeskStep(r)]_unitVars => [UnitNext]_unitVars
    BY DEF UnitNext
  <1>3. ASSUME UnitInv, AllUpToDate, NEW r \in Clerks, DeskStep(r), NEW u \in DOMAIN units
        PROVE  units'[u].status \in {units[u].status} \cup Transitions[units[u].status]
    <2>1. CASE units'[u] = units[u]
      BY <2>1
    <2>2. CASE units'[u] # units[u]
      <3>1. desk[r].kind = "unit" /\ desk[r].id = u
        BY <1>3, <2>2, OthersKeepUnits
      <3> QED
        BY <1>3, <3>1, UpToDateStep DEF AllUpToDate
    <2> QED
      BY <2>1, <2>2
  <1>4. UnitInv /\ AllUpToDate /\ [\E r \in Clerks : DeskStep(r)]_unitVars =>
            [\A u \in DOMAIN units :
                units'[u].status \in
                    {units[u].status} \cup Transitions[units[u].status]]_unitVars
    BY <1>3
  <1>5. DeskSpec => UnitSpec
    BY <1>2, PTL DEF DeskSpec, UnitSpec
  <1> QED
    BY <1>1, <1>2, <1>4, <1>5, UpToDateStays, UnitInvariant, PTL
       DEF DeskSpec, StatusesFollowTable

=============================================================================
