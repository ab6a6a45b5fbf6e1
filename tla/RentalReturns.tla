--------------------------- MODULE RentalReturns ---------------------------
(***************************************************************************)
(* RentalService: returns of rental transactions and their lines, under    *)
(* concurrent requests.                                                    *)
(*                                                                         *)
(* A request reads a return (and then, for finalize and add line, the      *)
(* lines), decides on what it read and commits the columns it changed.     *)
(* Adding a line commits twice: the line, and then the totals.  No line is *)
(* ever changed or removed through its own PUT and DELETE, which raise at  *)
(* UUID(existing_line.rental_return_id) before they write.                 *)
(*                                                                         *)
(* The damage fee stands for the late fee too, which is set and summed in  *)
(* the same places.  The refund is left out: total_deposit_release is      *)
(* never set, so the refund computed from it is always zero.               *)
(***************************************************************************)
EXTENDS Integers, FiniteSets, OrmSession

CONSTANTS
    Txns,           \* the rental transactions
    Returns,        \* ids of RentalReturn rows
    Lines,          \* ids of RentalReturnLine rows
    Units,          \* inventory units
    Statuses,       \* statuses a client names, of ReturnStatus
    Fees,           \* fees a client sets on a line
    Requests        \* the requests being served at once

VARIABLES
    ret,            \* the rental_returns table: a row for each id in its domain
    line,           \* the rental_return_lines table
    work,           \* what each request has read and is about to do
    alone           \* the requests in work that no other has committed past
                    \* since they read

vars == <<ret, line, work, alone>>

ReturnStatus == {"PENDING", "INITIATED", "IN_INSPECTION", "PARTIALLY_COMPLETED",
                 "COMPLETED", "CANCELLED"}

\* PENDING stands for every ReturnLineStatus but PROCESSED.
LineStatus == {"PENDING", "PROCESSED"}

Closed == {"COMPLETED", "CANCELLED"}

\* Ids are UUIDs, of which there are finitely many; the schemas have ge=0.
ASSUME ReturnsAssumption ==
    /\ Statuses \subseteq ReturnStatus
    /\ Fees \subseteq Nat
    /\ IsFiniteSet(Lines)

ReturnRow == [txn : Txns, status : ReturnStatus, active : BOOLEAN, fees : Nat]

LineRow == [ret : Returns, unit : Units, status : LineStatus, fee : Nat]

Idle == [op |-> "idle"]

Work ==
    [op : {"idle"}]
        \cup [op : {"create"}, txn : Txns]
        \cup [op : {"return", "finalize"}, id : Returns, seen : ReturnRow]
        \cup [op : {"add"}, id : Returns, seen : ReturnRow, unit : Units]
        \cup [op : {"insert"}, id : Returns, seen : ReturnRow, unit : Units,
              read : SUBSET Lines, fees : Nat]
        \cup [op : {"total"}, id : Returns, seen : ReturnRow,
              read : SUBSET Lines, fees : Nat]
        \cup [op : {"write"}, id : Returns, seen : ReturnRow, new : ReturnRow]
        \cup [op : {"line"}, id : Lines, seen : LineRow]

----------------------------------------------------------------------------
\* Mutant: a cancelled return can be taken up again.
CanTransitionOrReopen(from, to) ==
    \/ from = "INITIATED" /\ to \in {"IN_INSPECTION", "CANCELLED"}
    \/ from = "IN_INSPECTION" /\ to \in {"PARTIALLY_COMPLETED", "COMPLETED", "CANCELLED"}
    \/ from = "PARTIALLY_COMPLETED" /\ to \in {"IN_INSPECTION", "COMPLETED", "CANCELLED"}
    \/ from = "CANCELLED" /\ to = "INITIATED"

\* RentalReturn.can_transition_to.
CanTransition(from, to) ==
    \/ from = "INITIATED" /\ to \in {"IN_INSPECTION", "CANCELLED"}
    \/ from = "IN_INSPECTION" /\ to \in {"PARTIALLY_COMPLETED", "COMPLETED", "CANCELLED"}
    \/ from = "PARTIALLY_COMPLETED" /\ to \in {"IN_INSPECTION", "COMPLETED", "CANCELLED"}

\* get_by_transaction, less the completed and cancelled ones.
OpenReturns(t) ==
    {i \in DOMAIN ret : ret[i].txn = t /\ ret[i].active /\ ret[i].status \notin Closed}

\* The lines the relationship loads.
LinesOf(i) == {l \in DOMAIN line : line[l].ret = i}

\* The fees of these lines, counted unit by unit, so that what is known of the
\* size of finite sets is known of them.
FeeUnits(ls) == UNION {{l} \X (1 .. line[l].fee) : l \in ls}

SumFees(ls) == Cardinality(FeeUnits(ls))

\* Mutant: fees are taken off the total.
TotalLess(w) == SumFees(LinesOf(w.id) \ w.read) - w.fees

\* Mutant: the totals of the lines read before are added to all lines.
TotalTwice(w) == w.fees + SumFees(LinesOf(w.id))

\* calculate_totals after a line was added.  The lines read before the INSERT
\* stay in the session as they were read, only the others come from the table.
Total(w) == w.fees + SumFees(LinesOf(w.id) \ w.read)

\* The session of q holds w.
Holds(q, w) == work' = [work EXCEPT ![q] = w]

\* q reads and holds w: no commit has passed it yet.
Reads(q, w) ==
    /\ Holds(q, w)
    /\ alone' = alone \cup {q}
    /\ UNCHANGED <<ret, line>>

\* q commits and is done: every other request now works on older data.
Commits(q) ==
    /\ Holds(q, Idle)
    /\ alone' = {}

----------------------------------------------------------------------------
Init ==
    /\ ret = [i \in {} |-> Idle]
    /\ line = [l \in {} |-> Idle]
    /\ work = [q \in Requests |-> Idle]
    /\ alone = {}

\* Mutant: nobody looks for an active return.
AnyTransaction(t) == TRUE

\* create_rental_return finds no active return.
Returnable(t) == OpenReturns(t) = {}

\* create_rental_return up to the check.
CheckActive(q) ==
    /\ work[q] = Idle
    /\ \E t \in Txns :
          /\ Returnable(t)
          /\ Reads(q, [op |-> "create", txn |-> t])

\* RentalReturnRepository.create, with the status the client chose.
InsertReturn(q) ==
    /\ work[q].op = "create"
    /\ \E i \in Returns \ DOMAIN ret, s \in Statuses :
          ret' = [j \in DOMAIN ret \cup {i} |->
                     IF j = i THEN [txn |-> work[q].txn, status |-> s,
                                    active |-> TRUE, fees |-> 0]
                              ELSE ret[j]]
    /\ Commits(q)
    /\ UNCHANGED line

\* RentalReturnRepository.get_by_id of a return that exists.
ReadReturn(q) ==
    /\ work[q] = Idle
    /\ \E i \in DOMAIN ret :
          Reads(q, [op |-> "return", id |-> i, seen |-> ret[i]])

\* The columns of new that differ from those read are committed.
Save(q, new) ==
    /\ ret' = [ret EXCEPT ![work[q].id] = Merged(@, work[q].seen, new)]
    /\ Commits(q)
    /\ UNCHANGED line

\* update_rental_return: PUT with any status.
Put(q) ==
    LET row == work[q].seen
    IN  /\ work[q].op = "return"
        /\ row.status \notin Closed
        /\ \E s \in Statuses : Save(q, [row EXCEPT !.status = s])

\* update_return_status.
UpdateStatus(q) ==
    LET row == work[q].seen
    IN  /\ work[q].op = "return"
        /\ \E s \in Statuses :
              /\ CanTransition(row.status, s)
              /\ Save(q, [row EXCEPT !.status = s])

\* cancel_return, of a return that is cancelled already too.
Cancel(q) ==
    LET row == work[q].seen
    IN  /\ work[q].op = "return"
        /\ row.status # "COMPLETED"
        /\ Save(q, [row EXCEPT !.status = "CANCELLED"])

\* delete_rental_return hides the return; it can still be worked on by its id.
Delete(q) ==
    LET row == work[q].seen
    IN  /\ work[q].op = "return"
        /\ row.status \in {"PENDING", "INITIATED"}
        /\ Save(q, [row EXCEPT !.active = FALSE])

\* The COMMIT that ends finalize_return and add_return_line.
CommitReturn(q) == work[q].op = "write" /\ Save(q, work[q].new)

\* finalize_return: the SELECT of the return.
ReadForFinalize(q) ==
    /\ work[q] = Idle
    /\ \E i \in DOMAIN ret :
          Reads(q, [op |-> "finalize", id |-> i, seen |-> ret[i]])

\* finalize_return: the SELECT of the lines, the checks and calculate_totals.
Finalize(q) ==
    LET w == work[q]
        ls == LinesOf(w.id)
    IN  /\ w.op = "finalize"
        /\ ls # {}
        /\ \A l \in ls : line[l].status = "PROCESSED"
        /\ CanTransition(w.seen.status, "COMPLETED")
        /\ Holds(q, [op |-> "write", id |-> w.id, seen |-> w.seen,
                     new |-> [w.seen EXCEPT !.status = "COMPLETED", !.fees = SumFees(ls)]])
        /\ UNCHANGED <<ret, line, alone>>

\* add_return_line: the return is read and found open, the unit exists.
ReadForLine(q) ==
    /\ work[q] = Idle
    /\ \E i \in DOMAIN ret, u \in Units :
          /\ ret[i].status \notin Closed
          /\ Reads(q, [op |-> "add", id |-> i, seen |-> ret[i], unit |-> u])

\* add_return_line reads the lines.  Its search for the unit among them compares
\* a UUID with text and finds nothing.
ReadLines(q) ==
    LET w == work[q]
        ls == LinesOf(w.id)
    IN  /\ w.op = "add"
        /\ Holds(q, [op |-> "insert", id |-> w.id, seen |-> w.seen, unit |-> w.unit,
                     read |-> ls, fees |-> SumFees(ls)])
        /\ UNCHANGED <<ret, line, alone>>

\* RentalReturnLineRepository.create; the fees of a new line are zero.
InsertLine(q) ==
    LET w == work[q]
    IN  /\ w.op = "insert"
        /\ \E l \in Lines \ DOMAIN line, s \in LineStatus :
              /\ line' = [k \in DOMAIN line \cup {l} |->
                             IF k = l THEN [ret |-> w.id, unit |-> w.unit,
                                            status |-> s, fee |-> 0]
                                      ELSE line[k]]
              /\ Holds(q, [op |-> "total", id |-> w.id, seen |-> w.seen,
                           read |-> w.read \cup {l}, fees |-> w.fees])
        /\ alone' = alone \cap {q}
        /\ UNCHANGED ret

\* _recalculate_return_totals.  The return is the object read at the start, a
\* second SELECT does not refresh it; the COMMIT follows.
Recalculate(q) ==
    LET w == work[q]
    IN  /\ w.op = "total"
        /\ Holds(q, [op |-> "write", id |-> w.id, seen |-> w.seen,
                     new |-> [w.seen EXCEPT !.fees = Total(w)]])
        /\ UNCHANGED <<ret, line, alone>>

\* RentalReturnLineRepository.get_by_id of a line that exists.
ReadLine(q) ==
    /\ work[q] = Idle
    /\ \E l \in DOMAIN line :
          Reads(q, [op |-> "line", id |-> l, seen |-> line[l]])

SaveLine(q, new) ==
    /\ line' = [line EXCEPT ![work[q].id] = Merged(@, work[q].seen, new)]
    /\ Commits(q)
    /\ UNCHANGED ret

\* update_line_status, whatever the status of the return.
UpdateLineStatus(q) ==
    /\ work[q].op = "line"
    /\ \E s \in LineStatus : SaveLine(q, [work[q].seen EXCEPT !.status = s])

\* assess_damage and calculate_fees, whatever the status of the return.  Once
\* the line is committed UUID(line.rental_return_id) raises: the totals of the
\* return are not recalculated.
SetFee(q) ==
    /\ work[q].op = "line"
    /\ \E f \in Fees : SaveLine(q, [work[q].seen EXCEPT !.fee = f])

\* A check raises, the client goes away or the worker dies: what is not
\* committed is rolled back.
Abandon(q) ==
    /\ work[q] # Idle
    /\ Holds(q, Idle)
    /\ alone' = alone \ {q}
    /\ UNCHANGED <<ret, line>>

Serve(q) ==
    \/ CheckActive(q) \/ InsertReturn(q)
    \/ ReadReturn(q) \/ Put(q) \/ UpdateStatus(q) \/ Cancel(q) \/ Delete(q)
    \/ ReadForFinalize(q) \/ Finalize(q) \/ CommitReturn(q)
    \/ ReadForLine(q) \/ ReadLines(q) \/ InsertLine(q) \/ Recalculate(q)
    \/ ReadLine(q) \/ UpdateLineStatus(q) \/ SetFee(q)
    \/ Abandon(q)

Next == \E q \in Requests : Serve(q)

Spec == Init /\ [][Next]_vars

----------------------------------------------------------------------------
\* Tables and sessions hold what they should.
TypeOK ==
    /\ DOMAIN ret \subseteq Returns
    /\ ret \in [DOMAIN ret -> ReturnRow]
    /\ DOMAIN line \subseteq Lines
    /\ line \in [DOMAIN line -> LineRow]
    /\ \A l \in DOMAIN line : line[l].ret \in DOMAIN ret
    /\ work \in [Requests -> Work]
    /\ alone \subseteq Requests

\* create_rental_return: "Active return already exists for this rental
\* transaction".
OneActiveReturn == \A t \in Txns : \A i, j \in OpenReturns(t) : i = j

\* The step is one of a request that another one has committed past.
OvertakenStep ==
    \E q \in Requests \ alone : work[q] # Idle /\ work'[q] # work[q]

\* A rental gets a second active return only from a request that was overtaken
\* between its check and its INSERT, or that writes an old status over a newer
\* one: no sequence of requests does it, PUT, deletion and failures included.
SecondReturnNeedsRace == [][OneActiveReturn => OneActiveReturn' \/ OvertakenStep]_vars

\* A completed or cancelled return keeps its status, its totals and its set of
\* lines unless a request writes that was overtaken by the one that closed it.
ClosedStaysClosed ==
    [][\A i \in DOMAIN ret :
          ret[i].status \in Closed /\ ~OvertakenStep =>
              ret'[i] = ret[i] /\ LinesOf(i)' = LinesOf(i)]_vars

\* Totals that finalize or a new line stores are those of the return's lines at
\* that moment, fees assessed since the last total included, unless the request
\* was overtaken.
StoredTotalsAreCurrent ==
    [][\A i \in DOMAIN ret :
          ret'[i].fees # ret[i].fees /\ ~OvertakenStep =>
              ret'[i].fees = SumFees(LinesOf(i))]_vars

\* assess_damage and calculate_fees: "Recalculate return totals".  Said of the
\* states in which no request is being served.
FeesAreTotalled ==
    (\A q \in Requests : work[q] = Idle) =>
        \A i \in DOMAIN ret : ret[i].fees = SumFees(LinesOf(i))

=============================================================================
