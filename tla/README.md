# Verification of the rental-management backend

This directory holds TLA+ specifications of the FastAPI backend under `src/app`,
the TLC configurations that check them on small instances, and TLAPS proofs of
the theorems that hold for every instance. `src/d` and `src/legacy_code` are
older copies of the application that `app/` does not import; they are not
modelled (`legacy_code` is quoted once, for a rule it states).

Contents: 1 the system, 2 the modules, 3 how the models correspond to the code,
4 the runs, 5 the proofs, 6 what the runs found, 7 what is not modelled, 8 the
plan.

## 1. The system

The program is one ASGI service (`app/main.py`) over one relational database and
one Redis. Every HTTP request runs in a coroutine of its own, and several worker
processes may serve at once. Components do not send each other messages: they
meet in the tables and in the cache.

| Component | State it keeps | Operations that change it | What is hard |
|-----------|----------------|---------------------------|--------------|
| Session layer (`db/session.py`, `db/base.py`) | one `AsyncSession` per request | load, UPDATE of the changed columns, COMMIT, ROLLBACK on an exception | no row lock, no version column, `expire_on_commit=False`: two requests interleave between SELECT and COMMIT |
| Stock levels (`inventory`) | on hand, available, reserved per (item, location) | create, PUT, adjust, reserve, release | checks on a stale row, rows merged column by column, clamping at zero, check-then-insert |
| Inventory units (`inventory`) | code and status per unit | create, PUT, status, rent, return, sell | double rental, final statuses that are left, a creation that fails half way |
| Transactions (`transactions`) | header (status, payment status, totals, paid amount) and lines | create, PUT, delete, status, pay, refund, cancel, overdue, rental return, add line, line discount | payments that overwrite each other, totals computed from an older set of lines, a commit between two commits |
| Rental returns (`rentals`) | returns, their lines, inspection reports | create, PUT, status, finalize, cancel, lines, inspections | one active return per rental, finalized returns that change, handlers that commit and then raise |
| Permission cache (`auth/rbac_service.py`, `auth/rbac_cache.py`, `core/cache.py`) | grants in the database, permission sets in Redis with a lifetime | grant, revoke, extend, cleanup, roles, bulk calls, lookups through the cache | a read that fills the cache after an invalidation, invalidations that are lost, grants decided on older reads |
| Role hierarchy (`auth/rbac_service.py`) | parent-child links between roles | add, remove, read inherited permissions | a check for cycles that takes several queries, with no lock |
| Category tree (`master_data/categories`) | parent, path, level, leaf flag per category | create, rename, (de)activate, move | paths of descendants looked for with LIKE, cycle checks on stale paths, several commits per request |
| Rate limiter (`core/middleware.py`, `core/cache.py`) | a counter with a lifetime per client | count, admit or refuse | the lifetime is renewed by every request, two commands that are not one |
| Expiry notifications (`auth/notification_service.py`) | notification records | none that runs (section 7) | |
| Users and tokens, items, customers, suppliers, brands, locations, units of measurement, settings, audit log, analytics, backups | single rows | create, update, soft delete | little: no transition rules between rows (backups and reports: a status without guards) |

What makes each component correct:

* stock levels: numbers never negative, a level unique per site, a request
  alone does what the operation's name says, no unit drops out of the counts;
* units: a code names one unit, a unit is rented or sold only when available, a
  sold or retired unit stays so;
* transactions: the paid amount is the money taken, payments stay within the
  balance, refunds within what was paid, totals are those of the lines, closed
  transactions keep their books;
* rental returns: at most one active return per transaction, a completed or
  cancelled return never changes, stored totals are those of the lines;
* permission cache: what a request is allowed is what the tables say, and a
  grant rests on permissions that granter and grantee have;
* role hierarchy: no cycle, a role inherits from its ancestors and nobody else;
* category tree: no cycle, siblings differ in name, a path is the path of the
  parent plus the name, a parent is not a leaf;
* rate limiter: at most N requests in a window, and a client that waits is
  admitted again.

`PROJECT.json` lists under "hazards" the lines where each of these could go wrong.

## 2. The modules

| Module | What it is |
|--------|------------|
| `OrmSession` | `Written`/`Merged`: what the UPDATE of a session does to a column and to a row |
| `StockLedger` | the `StockLevel` methods and the table, every operation one atomic step: the abstract specification |
| `StockLevels` | the same operations as concurrent requests, load and commit apart; EXTENDS `StockLedger`, `OrmSession` |
| `InventoryUnits` | units under concurrent requests |
| `Inventory` | `InventoryUnits` and `StockLedger` in one database: what creating a unit does to the counts |
| `Transactions` | headers, lines and money under concurrent requests |
| `RentalReturns` | returns and their lines under concurrent requests; EXTENDS `OrmSession` |
| `PermissionAnswers` | what a request may be told when it asks for a user's permissions while they change: an abstract specification |
| `RbacPermissions` | grants, roles, Redis and the lookups, statement by statement; implements `PermissionAnswers` |
| `RoleHierarchy` | the links between roles and the two walks over them, query by query |
| `CategoryTree` | the category rows and the commits of a request, with failures between them |
| `RateLimiter` | one client's counter, two commands and time |
| `MC...` | sets for the constants and symmetry, where the configuration cannot give them itself |
| `...Proofs` | one per module with theorems: the theorems and their proofs |

## 3. How the models correspond to the code

**A request.** A handler of the service is: SELECT the row, check and compute on
the Python object, COMMIT. In the models that is two actions (`Load`, then the
operation) because the service awaits the database in between and any other
request may commit there. Everything between two awaits is one step. The `sess`
(or `desk`) variable holds what the request has loaded. Which operation the
request is, and its arguments, are chosen when it commits: nothing it does
earlier depends on them, and it makes the state smaller.

**The commit.** SQLAlchemy's UPDATE names the columns whose value differs from
the loaded one. `Written(db, seen, new)` is that rule for a column: `db` stays if
`new = seen`. So two overlapping commits can leave a row that neither computed,
and this is modelled as it happens, not as a whole-row overwrite.

**An exception.** A check that raises, a constraint that refuses, a client that
goes away: `get_session` rolls back and nothing since the last commit is
written. `RollBack`, `Abandon`, `Refuse` stand for all of them. Handlers that
commit more than once (`create_inventory_unit`, `add_transaction_line`) have one
action per commit, and `Fail` may strike between them.

**`UUID(x)` of an id.** `UUIDType.process_result_value` (`db/base.py:37`) returns a
`UUID` for every id column, and `UUID(a_uuid)` raises. Where a service writes
`UUID(row.some_id)` after a commit, the handler ends there with an error: the
models stop where the code stops (`CountUnit`, `DiscountLine`), and
`update_transaction_line` and `delete_transaction_line`, which raise first, are
no action at all.

### Stock levels

`stock` maps the ids in use to rows of site, on hand, available and reserved.
A site is an (item, location) pair. Quantities are `String(10)` columns holding
text: what `int()` reads is abstracted to the number, the width is kept as
`MaxQuantity` (`Fits`), and the empty text is the value `Blank`, which the update
schema lets in, `Put` stores and `CreatedRow` gives a meaning of its own. A method
that reads a blank with `int()` raises (`CanAdjust`, `CanReserve`, `CanRelease`);
`adjust_quantity` does not read `available` and so replaces a blank there. Another
spelling of the number that was loaded is a column of the UPDATE all the same
(`respelt` in `Flush`). `quantity_on_order`, minimum, maximum and reorder point
take part in no decision and are left out. `Adjust`, `Reserve`, `Release`, `Put`,
`CheckAbsent`/`Create` are the write endpoints; the unique index is
`IndexAdmits`, checked again at the INSERT. There is no endpoint that deletes a level.

### Inventory units

`units` maps ids to code and status. `UpdateStatus` follows `Transitions`, the
dictionary of `_validate_status_transition`; `RentOut`, `ReturnFromRent` and `Sell`
check the loaded status; `PutUnit` sets any status, as `InventoryUnitUpdate` lets
it. Creation is `CheckCode`, `InsertUnit` (commits) and `CountUnit` (raises).
`is_active` is true of every unit: no route deletes one.

### Transactions

`hdr` maps numbers to headers, `line` maps ids to lines, and `cash` is a history
variable: the money the customer handed over less the money handed back, which
the code does not store. Amounts are whole numbers (the code's `Decimal`s are only
added and compared). `SALE` stands for every type but `RENTAL`, `PRODUCT` also for
`SERVICE`, `FEE` for every line type `calculate_totals` ignores. Operations are one
action each; adding a line is `AddLine` (commits the line), `ReadLines` (SELECT and
sum) and `StoreTotals` (commits the header loaded before the line). A rental cannot
be POSTed (the schema's validator asks for fields declared after the one it
validates), so `RENTAL` arises by PUT.

### Rental returns

`ret` and `line` are the two tables, `work` what each request holds. `alone` is a
history variable: the requests nobody has committed past since they began. A
request reads the return (`ReadReturn`) and commits it (`CommitReturn`);
`finalize_return` reads the lines in a second statement; adding a line reads the
return, reads its lines, commits the line (`InsertLine`) and commits the totals
(`Recalculate`), which are those of the lines already in the session's identity
map plus the new ones: `Total`. Creation is `CheckActive` and `InsertReturn`.
`SetFee` is `assess_damage` and `calculate_fees`: both commit the line and then raise
at `UUID(line.rental_return_id)`, as `update_return_line` and `delete_return_line` do
before they write anything. Every step can be the last of its request (`Abandon`).
A return's deletion only clears `is_active`: it can still be read and changed.

### Permissions

`member`, `has` and `direct` are the association tables; a row of `direct` carries
whether its expiry is null, ahead or past. `cached` and `codes` are the two kinds of
Redis keys, `Redis` whether a command succeeds: `CacheManager` swallows the errors,
a failed read is a miss, a failed write or delete is lost. A lookup is `AskCache`,
`ReadRoles`, `ReadDirect`, `Fill`; a grant looks up the caller, then the other user,
then the code (`AskCode`, `ReadCode`), the existing row (`FindRow`), inserts and
invalidates (`Drop`). A cached list makes the request raise (`CacheHit`), because it
is turned back into `Permission()`, whose `__init__` requires three arguments. An
exception ends one code of a bulk call and the next goes on (`NextCode`).
`Subject` is whose permissions a lookup is about: first the caller's, then the other
user's. `EditMember` and `EditHas` are the role endpoints of `AuthService`, which know of no
cache. `asked` and `quiet` are history: the question of each lookup under way, and
the grants during which no table has changed.

### Role hierarchy

`links` holds the rows of `role_hierarchy`, `passing` those with
`inherit_permissions`. `add_role_hierarchy` walks down from the child, one query per
role (`Descend`), then looks for the pair and inserts it (`Insert`: one step, since the
primary key refuses a pair that came first). `get_role_inherited_permissions` walks
up (`Ascend`). `seen` and `ahead` are the visited set and the roles the recursion has
still to enter; the order of the depth-first walk is left open. `late` is history:
whether the links changed during the walk.

### Category tree

A path is the sequence of names between its slashes, `MaxPath` the length of its
column. `Create` marks the parent and `Insert` inserts; `Move` marks the old parent,
`Place` moves, `Mark` marks the new one: each is a commit, and `Fail` may strike
between them. Both ways of updating descendants look for them under the path the
category has just been given, where those below it are not. The search is
`path LIKE '<new path>/%'`, and nobody escapes the `_` and `%` of a name: `Like` gives
what each name matches, a set of pieces of paths, since a wildcard matches a slash
too, and `Matches` lines a pattern up with a path name by name. What is found
(`Descendants`) is given the new path in place of as many of its names (`Rebased`):
in the same commit by a move (`Repathed`), in a commit each by a rename (`Repath`).
For a proper descendant of a row that has that path already this changes nothing;
for another row it does. Every endpoint raises when it builds its response, from
`child_count`, after its commits; deletion raises at the same place before it
changes anything, so no category is ever deleted.

### Rate limiter

`Increment` is INCR, `Decide` is EXPIRE and the answer. `Tick` is time passing in
units of which a window has `Window`; a counter that reaches its lifetime is gone.
`admitted` (history) holds the numbers let in during the last window and how long
ago, `backoff` what is left of the client's Retry-After. Either command may fail,
which lets the request in, and the server may stop between them (`Stop`).

## 4. The runs

`pass` runs explore the whole state space of their instance; deadlock is checked
(a request can always begin).

| Run | Instance | Shows |
|-----|----------|-------|
| `stock_races` | 2 requests, 2 ids, 1 site, quantities 0 and 1 and blanks, columns up to 2, adjustments -2 to 1 | types and column widths, no negative number, one level per site, a fresh row is changed as in the ledger, counts are kept, `on_hand` is never overwritten by a reservation |
| `stock_serial` | 1 request, 2 ids, 2 sites | the two-step service implements `StockLedger` |
| `unit_races` | 2 requests, 2 units, 2 codes, PUT included | codes stay unique; an up-to-date request is lawful |
| `unit_uncounted` (violation) | 1 request, units and levels together | a created unit is counted nowhere |
| `txn_races` | 2 requests, 1 transaction, 2 lines, line discounts, failures between commits | paid never negative; payments and stored totals leave each other's columns; a closed transaction gets lines and totals only from a request that read it open; totals part from the lines in three ways only |
| `txn_serial` | 1 request, any opening status, PUT to any status, 2 lines of every kind, line discounts, failures, amounts 1 and 2 | books balance, nothing is given back that was not taken, cancelled is final, payments within the balance |
| `return_races` | 2 requests, 1 rental, 2 returns, 2 lines of 1 unit, fee 1, 3 statuses by PUT and PATCH | a second active return, a changed closed return and outdated stored totals each need an overtaken request |
| `rbac_races` | 2 requests, a caller and another user, 2 permissions of which one requires the other, 1 role, one call of every kind, edits of 2 role rows, Redis failing at will | a lookup answers what the tables held while it ran (`PermissionAnswers`); an undisturbed grant is backed |
| `rbac_retry` | 2 requests, a grant that expires, and lookups and revocations that fill the cache it reads, Redis failing at will, fairness | once other calls have ceased, a repeated grant takes effect again and again, or its own expired row blocks it |
| `role_links` | 2 requests, 3 roles, a ring of three, a chord and a loop to link, fairness | a link not overtaken by another makes no cycle; gathered roles are the ancestors; walks end |
| `category_moves` | 3 categories, an ordinary name and a wildcard, paths of 3 names, failures between commits | siblings differ, levels match, in which ways alone a right leaf flag goes wrong, moves keep the tree while paths are current, and what alone makes paths wrong |
| `rate_window` | 3 requests, limit 2, window 3, Redis failing at will, restarts, fairness | no window lets in more than the limit; a refused client gets in again |

The larger ones are `return_races` (2.0 million states), `category_moves` (1.8
million) and `rbac_races` (0.6 million, with a refinement), a few minutes each;
`txn_races` has 263,000, `role_links` 222,000, `rbac_retry` 65,000, `rate_window`
50,000 and `stock_races` 8,000.

**Bounds.** Every hazard here needs two requests on one row: a third can only
repeat what the second does, because a request's commit depends on its own load
and the current row alone. A second id is needed for uniqueness and for "leaves
the others alone"; a second line for totals read between two lines. Quantities
0 and 1 with adjustments reach zero, the boundary `MaxQuantity` (2) and a value over
it; adjustments of both signs reach the clamp at zero, and one of 0 a column that is
respelt only. Amounts 1 and 2
against a line of 2 give a partial, a full and an excessive payment. `MaxQuantity`
is a column width, not a bound of the model. Nothing else is bounded there: `cash`,
`paid` and totals stay finite because the balance and the number of lines do.
Returns need two ids for a second active return and two lines for a total that
misses one; one fee suffices, since what can go wrong is that it is missing or
counted twice. Permissions need two users (caller and other), a permission with a
requirement, and a role that can bring it; each call of `EveryCall` is on the same
pair, where calls collide. In `rbac_retry` the second request is what makes the first one's
lookups be cached by somebody else. Three roles are the shortest ring that is not two
opposite links; the chord gives those too. Three categories make a parent, a child
and a grandchild, so that a stale path can be below another, and the third root or
sibling that a name collides with. Of the two names one is `%`, the pattern that
matches most, and the other matches itself: that is a rename of a category without
children which finds a stranger, and one which does not. Three requests over a limit of two with a window
of three ticks let one request be counted before, during and after the counter's
end. `Limit`, `Window` and `MaxPath` are the code's 100, 60 seconds and 500 characters
made small; the theorems hold for every value. The counter is capped at `Limit` + 1,
which stands for every number over the limit.

`RaceSymmetry`, `UnitSymmetry`, `TxnSymmetry`, `ReturnSymmetry`, `RequestSymmetry` and
`Interchangeable` permute constants that no definition distinguishes; runs with
symmetry check no liveness property.

**Fairness and liveness.** An HTTP client may always go away, so stock, units,
transactions, returns and categories promise nothing eventually. Where something
must happen, the fairness is weak and on single actors:

* `RateLimiter`: Redis counts time down (`Tick`), a request that is being served is
  answered, and a client sends another once its Retry-After is over. `RefusedGetsIn`
  is said of clients that do not hurry and of a server that is not stopped in
  mid-request for ever; the renewed lifetime refuses others for as long as they keep
  trying.
* `RbacPermissions`: Redis drops keys at their lifetime, which no hit renews; requests
  are served to their end and each grant is asked for again. Nothing makes cleanup
  run: it is a route an administrator may call, and no scheduler of the repository
  does. A grant need not get through at once, since a cached list makes it raise, and
  while other calls go on to cache those lists it need not get through at all
  (`RbacStarved.cfg`); `GrantsGetThrough` is about the time when the grant is backed
  and no other call is at work, and says that it takes effect infinitely often or
  finds its own row, which has expired and which only a cleanup or a revocation
  removes (`Blocked`), infinitely often.
* `RoleHierarchy`: a request that has begun is served. The visited set ends its walk.

**Refinement.** `stock_serial` checks `StockLevels` against `StockLedger` (one request at
a time; the proof is of any number of requests that hold different levels), `rbac_races` checks `RbacPermissions` against `PermissionAnswers`
(`Lookup == INSTANCE PermissionAnswers WITH held <- ..., answer <- Told`), with any
number of requests; both are proved too.

**Mutants.** Each property of a passing run is broken by a change to one mapped
definition, written beside it and marked `Mutant:`; `PROJECT.json` pairs them.

## 5. The proofs

For every value of the constants:

| Theorem | Says | Argument |
|---------|------|----------|
| `TypeCorrect`, `NeverNegative`, `UniqueLevels` | `Spec => []TypeOK`, `[]NonNegative`, `[]OneLevelPerSite` | `IInv` = the three together with "every row a session has loaded is sound and its id exists" |
| `ReservationsSpareOnHand` | `Spec => ReservationKeepsOnHand` | the row committed has the `on_hand` of the row loaded |
| `FreshIsAtomic` | `Spec => FreshCommitIsAtomic` | flushing over an unchanged row stores the row computed |
| `CountsAreKept` | `Spec => NoStockVanishes` | from `FreshIsAtomic` and arithmetic on the ledger's steps |
| `ExclusiveRefinement`, `ExclusiveReservations` | with `[]Exclusive`: `Spec => Ledger`, `ReserveWithinAvailable` | a commit to another level leaves a session's row as it was loaded, so every session stays fresh; a step maps to a ledger step or a stutter |
| `UnitTypeCorrect`, `CodesAreUnique` | `UnitSpec => []UnitTypeOK`, `[]UniqueCodes` | `UnitInv`, their conjunction |
| `LawWhenUpToDate` | `UnitSpec => UpToDateIsLawful` | an up-to-date request moves its unit along `Transitions`, which has no way out of SOLD and RETIRED and only one into SOLD and RENTED |
| `ExclusiveRentals`, `ExclusiveLives` | with `[]OneClerkPerUnit`: `UnitSpec => RentsAvailable`, `DeskSpec => StatusesFollowTable` | all requests stay up to date, then as for `LawWhenUpToDate`; `DeskSpec` is the service without PUT, which sets any status |
| `NeverOwed` | `Spec => []PaidNonNegative` | `PaidInv`: the headers of all sessions are solvent too |
| `PaymentsLeaveTotals` | `Spec => PaymentsSpareTotals` | `ColumnInv`: every header has its columns and totals under way have the payment and status they were loaded with; an UPDATE keeps the columns its request did not change (`UntouchedColumn`) |
| `TxnTypeCorrect` | `Spec => []TypeOK` | `TypeInv`: every header and line in a table or a session has its columns, and a sum over lines is an integer (`TotalInt`) |
| `ClosedBooksKept` | `Spec => ClosedBooksStay` | `ColumnInv` again, which has a request that added a line have read its transaction open, and what one more line does to the lines of each transaction (`AddsToOne`). The property is about the lines a transaction has and its stored total: `apply_line_discount`, which does not look at the status, changes an amount in a closed transaction but neither of those |
| `BooksBalanceExclusively`, `NeverOutOfPocketExclusively`, `CancelledStays`, `PaidWithinBalance` | with `[]Exclusive`: `[]BooksBalance`, `[]NeverOutOfPocket`, `CancelledIsFinal`, `PaymentWithinBalance` | `SerialInv`: `PaidInv`, paid equals cash, and a session's header is the one in the table |
| `TotalsAccounted` | `Spec => TotalsStayTrue`: with any number of overlapping requests, failures and discounts, totals that are those of the lines or about to be stop being so only by a failure between the two commits, by a request that stores totals although it was overtaken, or by a line discount | `TypeInv` and arithmetic on sums: totals computed from the lines are those of the lines until a line changes (`ReadAccounted`), storing them over totals nobody has changed leaves them whole (`StoreAccounted`), other steps touch neither (`AccountedStays`) |
| `AddedLineCounts` | an added line adds its amount to the sum of its kind, and nothing to the others | the sum over a set with one element more (`TotalRemove`) |
| `ReturnsTypeCorrect`, `SecondReturnOnlyByRace`, `ClosedReturnsStay`, `StoredTotalsCurrent` | `Spec => []TypeOK`, `SecondReturnNeedsRace`, `ClosedStaysClosed`, `StoredTotalsAreCurrent` | `Inv`: what a request holds is sound whoever has committed since, and fresh as long as nobody has; sums of fees are cardinalities, so a total splits into lines read and lines not read |
| `ExclusiveReturns`, `ExclusiveClosing`, `ExclusiveTotals` | with `[]OneRequestPerReturn`: `Spec => []OneActiveReturn`; closed returns and their lines stay; stored totals are those of the lines | `FreshStays`: a commit to one return leaves what requests hold of the others fresh, so the step lemmas of the row above apply to every request, overtaken or not |
| `RbacTypeCorrect`, `LookupsImplementAnswers` | `Spec => []TypeOK`, `Spec => Lookup!Spec` | `Inv`: the question of a lookup under way is bounded by the tables and by what was read so far. The cache is no part of it |
| `QuietGrantsHold` | `Spec => QuietGrantsAreBacked` | `Quiet`: what a grant has read and decided, with no change since it began, is so in the tables |
| `HierarchyTypeCorrect`, `LoneLinksAreSafe`, `GatheredIsInherited` | `Spec => []TypeOK`, `LoneLinksMakeNoCycle`, `[]GatheredAreInherited` | `Inv`: all that is next to a role met is met or ahead; the walk down from the child never meets the parent, the walk up only ancestors |
| `CheckedLinksAreAcyclic` | with `[]OneCheck`: `Spec => []HierarchyIsAcyclic` | only an insertion overtakes a check, and the one that checks is the only one that inserts; then as for `LoneLinksAreSafe` |
| `WalksGetOn` | every query of a walk ends it or is about a role not met before | `Onward`: what is ahead of a walk has not been met. It bounds the queries by the roles, on cyclic and changing links too; that they are made is fairness |
| `CategoryTypeCorrect`, `SiblingNames`, `FlagsStayRight`, `CurrentMovesAreSafe` | `Spec => []TypeOK`, `[]SiblingsDiffer`, `FlagsGoWrong`, `CurrentMovesKeepTree` | `Inv`: rows are right and what is still to be done is what was checked when the request began, a parent marked for the child to come included; a path that is rewritten keeps its length (`RebasedPath`), so its level stays right; with current paths, descendants have longer paths that begin with the ancestor's |
| `PathsStay` | `Spec => ChildlessChangesKeepPaths`, whatever names match as patterns | a step that is no rename, move or rewriting changes flags only; a rename changes the path for certain (`RenamedPath`), so what is renamed has no child after it; a row that is found by a pattern and is below it is given the path it has (`NotMisled`) |
| `ChildlessChangesKeepTree` | as long as no request gives another path to what has children (`OnlyChildless`) or to what is found without being below (`NobodyMisled`): `[](AllCurrent /\ IsTree)` | the same, and `CurrentIsTree`: where paths are current a parent's is shorter, so from a set of categories in a cycle the one with the shortest path could be taken, whose parent has a shorter one |
| `PlainNamesKeepTree` | where every name matches nothing but itself (`Plain`), `OnlyChildless` alone is enough | `PlainMatches`: names that match one name each line up one by one, so what a plain path matches is below it. The other hypothesis cannot be done without: `CategoryMisled.cfg` has a single rename to a wildcard break a stranger's path |
| `RateTypeCorrect`, `RateBounded` | `Spec => []TypeOK`, `[]WindowBound` | `Inv`: a counter outlives by a window the last request it let in, and gives no number up to the limit twice; so those let in within a window have different numbers up to `Limit` |

The strengthenings are needed for one reason each time: what a request commits
was computed from a row it loaded earlier, so an invariant of the table is
inductive only if it is said of the loaded rows as well.

**Exclusion.** Some promises fail when requests overlap: section 6 has the
counterexamples. The theorems with a hypothesis `[]Exclusive`, `[]OneClerkPerUnit`,
`[]OneRequestPerReturn` or `[]OneCheck` say how little would mend that. Each is a
predicate on states: no two requests hold the same row (transaction, level, unit,
return) for a decision, or check a link. The code does not ensure it; a row lock
taken by the SELECT (`FOR UPDATE`) and held to the last commit would, and so would one
lock around `add_role_hierarchy`. They restrict nothing else: requests for other rows,
creations, removals, readers and failures interleave freely. With a single request
they hold in every behavior, which makes TLC's `stock_serial` and `txn_serial` instances
of them. `OneRequestPerReturn` excludes more than requests for one return: creations
for one rental, and writes to a line whose return is being worked on.

Assumptions: `LedgerAssumption` (the quantities a request names are naturals up to
`MaxQuantity`, as the schemas' validators and the column say, or `Blank`, which is no
number; adjustments are integers), `TxnAssumption`
(amounts and discounted totals are integers; openings, lines and what a PUT sets
have the types of their columns), those of
`RentalReturns` (fees are naturals, statuses are statuses, lines are finitely many),
`RbacAssumption` (calls have the shape of their endpoint), `PairsAssumption`,
`CategoryAssumption` (a name matches some set of pieces of paths, any set: not even
itself is asked for) and `RateAssumption` (limit and window are positive).

Only model-checked: the properties that rest on fairness (`GrantsGetThrough`,
`WalksEnd`, `RefusedGetsIn`), which the prover does not reach; every invariant and
action property of a passing run is a theorem, some of them under an exclusion above.
The library's induction rules cannot be used here, as they take an operator for an
argument. Where an argument is by induction all the same (sums over lines, the
shortest path) it is made with a minimal counterexample: a smallest set, by
`MinimalSubset`, or a smallest number, by the well-foundedness of `<`.

## 6. What the runs found

`unit_uncounted` is part of the standard runs: `create_inventory_unit` commits the
unit and then fails before it counts it, for every unit, against
`inventory/service.py:492` ("Update stock levels when a new inventory unit is
created.").

The following configurations also end in a counterexample. Each states what a
message or a comment of the code says; `tlc -config <cfg> <module>` shows it.

| Configuration | Module, property | What it shows | The code says |
|---------------|------------------|---------------|---------------|
| `StockOverReserve.cfg` | `MCStockLevels`, `ReserveWithinAvailable` | two overlapping requests reserve more than is available | `inventory/models.py:642` "Cannot reserve more than available quantity" |
| `StockBlank.cfg` | `MCStockLevels`, `QuantitiesAreNumbers` | a PUT stores an empty quantity, which later adjustments and reservations of the level stumble over | `inventory/models.py:587` "All quantity fields must be valid numbers" |
| `StockAppears.cfg` | `MCStockLevels`, `NoStockAppears` | one request at a time: an adjustment below the reserved quantity clamps available at 0, a later release makes units available that are not there | `legacy_code/domain/entities/stock_level.py:90` "Quantity mismatch: on_hand" |
| `UnitDoubleRent.cfg` | `MCInventoryUnits`, `RentsAvailable` | two requests that both loaded an available unit rent it | `inventory/models.py:430` "Unit is not available for rental" |
| `TxnOverpaid.cfg` | `MCTransactions`, `PaymentWithinBalance` | two overlapping payments together exceed the balance | `transactions/service.py:191` "Payment amount exceeds balance due" |
| `TxnDiscounted.cfg` | `MCTransactions`, `TotalsMatchLines` | `apply_line_discount` commits the line and fails before the totals, for every line | `transactions/service.py:389` "Recalculate transaction totals" |
| `TxnRefundCancelled.cfg` | `MCTransactions`, `RefundedIsFinal` | a refunded transaction is cancelled | `transactions/models.py:316` no transition from REFUNDED |
| `ReturnsUnbilled.cfg` | `MCRentalReturns`, `FeesAreTotalled` | an assessed fee is in no total when its request has ended | `rentals/service.py:335` "Recalculate return totals" |
| `RbacBulk.cfg` | `MCRbacPermissions`, `BulkGrantsGetThrough` | a bulk grant of a code and one that requires it never grants both, however often it is repeated at the same pace: the first code's lookups are cached and make the second raise | `auth/rbac_service.py:1246` "Grant multiple permissions to a user at once." |
| `RbacStarved.cfg` | `MCRbacPermissions`, `GrantsOutlastLookups` | a grant that is backed and asked for again and again never takes effect, Redis working and every key dropped in time, because other lookups keep caching the lists that make it raise | `auth/rbac_service.py:152` "Grant a permission to a user with validation." |
| `RbacExpired.cfg` | `MCRbacPermissions`, `RefusedOnlyWhenHeld` | a permission whose grant has expired is refused although the user does not have it, until a cleanup | `auth/rbac_service.py:203` "User already has permission" |
| `CategoryStale.cfg` | `MCCategoryTree`, `DescendantsFollow` | a category with a child is moved, and the child keeps its old path | `master_data/categories/repository.py:561` "Update paths for all descendants when parent is moved." |
| `CategoryMisled.cfg` | `MCCategoryTree`, `NobodyIsMisled` | a root without children is renamed to a wildcard, and another root's child is given a path below it | `master_data/categories/service.py:778` "Update descendant paths after category rename." |
| `CategoryFlags.cfg` | `MCCategoryTree`, `FlagsAreRight` | a parent whose only child has been moved away, with no failure, is still no leaf | `master_data/categories/service.py:761` "Update parent category leaf status based on children." |
| `RateRefused.cfg` | `RateLimiter`, `RefusedOnlyAtLimit` | a client that never sends more than the limit in a window is refused, because each request renews the counter's lifetime | `core/middleware.py:226` "Maximum {self.requests_per_minute} requests per minute allowed" |

The same causes show in ways no configuration lists: two overlapping refunds of one
payment, a line added to a transaction cancelled meanwhile, a line of a closed transaction that is
discounted, totals stored from an
older set of lines, a sold unit revived by an overlapping request or by PUT, a
negative total when discounts exceed the subtotal, two active returns from two
overlapping creations, opposite role links added at once (`HierarchyIsAcyclic` fails),
a category moved below itself (`is_descendant_of` is strict) or, after a rename of its
parent, below its own descendant. The properties that pass say where each of them is
confined: to one request at a time, to requests that nobody overtook, to paths that
are current; and the theorems on exclusion in section 5 say that
`ReserveWithinAvailable`, `RentsAvailable`, `PaymentWithinBalance`, `OneActiveReturn` and
`HierarchyIsAcyclic` hold as soon as requests for the same row exclude each other.

Two things that look like defects protect something. A cached permission list is
never served, because reading it raises: `AnswersAreCurrent` holds only for that
reason, and its mutant, which serves the list, is refuted through every one of the
stale-cache hazards (a fill after an invalidation, role changes, lost deletes,
expiry). And the limiter's renewed lifetime, which refuses clients that keep trying,
is also what makes the limit hold in every window and not only in aligned ones.

## 7. What is not modelled

* The components of section 1 without a module, for the reasons in `PROJECT.json`:
  mostly single-row writes without transition rules, and read-only reports.
* Expiry notifications: `NotificationService` is called by `notification_routes`
  alone, and all of those raise at `current_user["user_id"]`, `current_user` being a
  `TokenData` object. For the same reason the first half of `rbac_routes` (lines 92
  to 377) never reaches the service; grants come through the bulk and temporary
  permission routes.
* In `Transactions`: returned quantities (`process_line_return`), rental dates
  (`update_rental_period`), notes, deposits and the customer's `can_transact`
  check, a guard the model leaves open. No decision on a header reads them.
* In `RentalReturns`: inspection reports, whose status no return reads; quantities,
  notes and dates; the deposit refund, which nothing sets. Returns change neither
  the transaction nor the unit they are about, so they compose with neither.
* In `RbacPermissions`: user type elevation, audit entries, `is_active` of
  permissions, listings and cache statistics. Cleanup is one statement in the model
  (the SELECT before it only counts). A call over several roles is one call per role,
  without the common invalidation at the end.
* In `CategoryTree`: overlapping requests, display order, search, import and export;
  names that contain a slash.
* Relationships between mapped classes whose foreign keys are commented out
  (`transactions/models.py:122`, `:142`, and others) keep SQLAlchemy from configuring
  its mappers as the repository stands. The models describe the handlers given a
  configured mapper.
* The isolation level is the database's default, READ COMMITTED; with SERIALIZABLE
  some of the overlapping commits would be refused. A SELECT that finds one row or
  reads the lines of one transaction is one step.

## 8. The plan

What is left, in this order:

1. `CategoryTree` with two requests: opposite moves, a parent marked by one request
   and given a child by another.
2. Line returns in `Transactions` (`returned_quantity`, computed from the loaded value
   and written back) and inspection reports in `RentalReturns`.
3. Backups: a status that four endpoints overwrite.
