----------------------------- MODULE StockLevels -----------------------------
(***************************************************************************)
(* InventoryService's stock operations as concurrent requests run them: a  *)
(* SELECT that loads the row, then, after other requests may have          *)
(* committed, the method of StockLevel and the COMMIT.  Nothing locks the  *)
(* row and nothing checks that it is still the one that was loaded.        *)
(*                                                                         *)
(* What a request will do with its row is chosen when it commits: nothing  *)
(* it does before depends on it.                                           *)
(***************************************************************************)
EXTENDS StockLedger, OrmSession

CONSTANT Requests   \* the requests being served at once

VARIABLE sess       \* what each request's session has read

vars == <<stock, sess>>

Idle == [kind |-> "idle"]

Loaded == [kind : {"level"}, id : Levels, seen : Row]

Creating == [kind : {"create"}, site : Sites]

----------------------------------------------------------------------------
Init == LedgerInit /\ sess = [r \in Requests |-> Idle]

\* StockLevelRepository.get_by_id of a row that exists.
Load(r) ==
    /\ sess[r] = Idle
    /\ \E l \in DOMAIN stock :
          sess' = [sess EXCEPT ![r] = [kind |-> "level", id |-> l, seen |-> stock[l]]]
    /\ UNCHANGED stock

\* Mutant: quantity_reserved is left out of the UPDATE.
FlushWithoutReserved(db, seen, row, respelt) ==
    [db EXCEPT !.onHand = Written(@, seen.onHand, row.onHand),
               !.available = Written(@, seen.available, row.available)]

\* Mutant: the UPDATE names every column, changed or not.
FlushWholeRow(db, seen, row, respelt) == [row EXCEPT !.site = db.site]

\* The UPDATE of session.commit() names the columns whose text changed: those
\* with another number, and those in `respelt', where the number is the one
\* loaded and the spelling is not ("05" became "5").
Flush(db, seen, row, respelt) ==
    LET Column(c) == IF c \in respelt THEN row[c] ELSE Written(db[c], seen[c], row[c])
    IN  [site |-> db.site, onHand |-> Column("onHand"),
         available |-> Column("available"), reserved |-> Column("reserved")]

\* The request's row, changed to `row' by assigning the columns `assigned', is
\* committed and the request ends.
Commit(r, row, assigned) ==
    /\ Fits(row)
    /\ sess' = [sess EXCEPT ![r] = Idle]
    /\ \E respelt \in SUBSET {c \in assigned : row[c] = sess[r].seen[c]} :
          stock' = [stock EXCEPT ![sess[r].id] = Flush(@, sess[r].seen, row, respelt)]

\* adjust_stock after its load.
Adjust(r) ==
    /\ sess[r].kind = "level"
    /\ \E a \in Adjustments :
          /\ CanAdjust(sess[r].seen, a)
          /\ Commit(r, Adjusted(sess[r].seen, a), {"onHand", "available"})

ReserveQuantity(r, q) ==
    /\ sess[r].kind = "level"
    /\ CanReserve(sess[r].seen, q)
    /\ Commit(r, Reserved(sess[r].seen, q), {"available", "reserved"})

\* reserve_stock after its load.
Reserve(r) == \E q \in Quantities : ReserveQuantity(r, q)

\* release_stock_reservation after its load.
Release(r) ==
    /\ sess[r].kind = "level"
    /\ \E q \in Quantities :
          /\ CanRelease(sess[r].seen, q)
          /\ Commit(r, Released(sess[r].seen, q), {"available", "reserved"})

\* update_stock_level after its load: each column is left, set to a number or
\* emptied.  The repository's own SELECT finds the object already in the session
\* and leaves its attributes as first loaded.
Put(r) ==
    /\ sess[r].kind = "level"
    /\ LET seen == sess[r].seen
           Set(c) == Quantities \cup {Blank, seen[c]}
       IN  \E onHand \in Set("onHand"), available \in Set("available"),
              reserved \in Set("reserved") :
               LET row == NewRow(seen.site, onHand, available, reserved)
               IN  Commit(r, row, {c \in {"onHand", "available", "reserved"} :
                                      row[c] \in Quantities})

\* create_stock_level finds no level for the item and location.
CheckAbsent(r) ==
    /\ sess[r] = Idle
    /\ \E site \in Sites :
          /\ NoLevelFor(site)
          /\ sess' = [sess EXCEPT ![r] = [kind |-> "create", site |-> site]]
    /\ UNCHANGED stock

\* create_stock_level's INSERT.  The index lets it in only if no other request
\* created the level since the check.
Create(r) ==
    /\ sess[r].kind = "create"
    /\ IndexAdmits(sess[r].site)
    /\ \E l \in Levels \ DOMAIN stock, h \in Quantities, a, s \in Quantities \cup {Blank} :
          stock' = [k \in DOMAIN stock \cup {l} |->
                       IF k = l THEN CreatedRow(sess[r].site, h, a, s) ELSE stock[k]]
    /\ sess' = [sess EXCEPT ![r] = Idle]

\* The method raised, the database refused the statement, or the client went
\* away: get_session rolls back and nothing is written.
RollBack(r) ==
    /\ sess[r] # Idle
    /\ sess' = [sess EXCEPT ![r] = Idle]
    /\ UNCHANGED stock

Next ==
    \E r \in Requests :
        \/ Load(r) \/ Adjust(r) \/ Reserve(r) \/ Release(r) \/ Put(r)
        \/ CheckAbsent(r) \/ Create(r) \/ RollBack(r)

Spec == Init /\ [][Next]_vars

----------------------------------------------------------------------------
(* Levels that were created with every unit available, then used through   *)
(* the adjust, reserve and release endpoints only.                         *)

AccountInit ==
    /\ stock \in [Levels -> {NewRow(site, q, q, 0) : site \in Sites, q \in Quantities}]
    /\ \A k, l \in Levels : stock[k].site = stock[l].site => k = l
    /\ sess = [r \in Requests |-> Idle]

AccountNext ==
    \E r \in Requests :
        Load(r) \/ Adjust(r) \/ Reserve(r) \/ Release(r) \/ RollBack(r)

AccountSpec == AccountInit /\ [][AccountNext]_vars

----------------------------------------------------------------------------
\* The table and the sessions hold what they should, and every number fits its
\* String(10) column.
TypeOK ==
    /\ DOMAIN stock \subseteq Levels
    /\ stock \in [DOMAIN stock -> Row]
    /\ \A l \in DOMAIN stock : \A n \in Numbers(stock[l]) : n <= MaxQuantity
    /\ sess \in [Requests -> {Idle} \cup Loaded \cup Creating]

\* A quantity that is a number is never negative, whatever requests overlap: the
\* checks of StockLevel run on a stale row, yet each column that is written
\* was computed from a row that passed them.  (PUT may empty any column.)
NonNegative == \A l \in DOMAIN stock : \A n \in Numbers(stock[l]) : n >= 0

\* StockLevel._validate: "All quantity fields must be valid numbers".
QuantitiesAreNumbers ==
    \A l \in DOMAIN stock :
        Blank \notin {stock[l].onHand, stock[l].available, stock[l].reserved}

\* An item has at most one level at a location, although create_stock_level
\* checks for it before the INSERT and two requests may both find none.
OneLevelPerSite ==
    \A k, l \in DOMAIN stock : stock[k].site = stock[l].site => k = l

\* A request whose row nobody changed since it loaded it does exactly what the
\* atomic operation of the same name does: overlapping requests are the only
\* thing that can make the service depart from StockLedger.
Fresh(r) ==
    IF sess[r].kind = "level" THEN stock[sess[r].id] = sess[r].seen ELSE TRUE

Atomic(r) ==
    LET l == sess[r].id
    IN  /\ Adjust(r) => AdjustStep(l)
        /\ Reserve(r) => ReserveStep(l)
        /\ Release(r) => ReleaseStep(l)
        /\ Put(r) => PutStep(l)

FreshCommitIsAtomic ==
    [][\A r \in Requests : sess[r].kind = "level" /\ Fresh(r) => Atomic(r)]_vars

\* A reservation or a release of one request never undoes an adjustment
\* another one committed after the first had loaded the row: of on_hand the
\* UPDATE says nothing.
ReservationKeepsOnHand ==
    [][\A r \in Requests :
          Reserve(r) \/ Release(r) =>
              \A l \in DOMAIN stock : stock'[l].onHand = stock[l].onHand]_vars

\* StockLevel.reserve_quantity: "Cannot reserve more than available quantity".
\* Said of the row the reservation is committed to, not of the one it read.
ReserveWithinAvailable ==
    [][\A r \in Requests, q \in Quantities :
          ReserveQuantity(r, q) => q <= stock[sess[r].id].available]_vars

\* Every unit on hand is available or reserved.
Counted(row) ==
    /\ Blank \notin {row.onHand, row.available, row.reserved}
    /\ row.available + row.reserved >= row.onHand

\* Adjusting, reserving and releasing drop no unit from both counts: a level
\* whose units were all counted keeps them counted, through the clamp at zero of
\* StockLevel.adjust_quantity too, if nobody changed it since it was loaded.
\* (PUT sets the three columns at will.)
NoStockVanishes ==
    [][\A r \in Requests :
          Fresh(r) /\ (Adjust(r) \/ Reserve(r) \/ Release(r)) =>
              \A l \in DOMAIN stock : Counted(stock[l]) => Counted(stock'[l])]_vars

\* What is available and what is reserved does not exceed what is on hand.
NoStockAppears ==
    \A l \in DOMAIN stock :
        stock[l].available + stock[l].reserved <= stock[l].onHand

=============================================================================
