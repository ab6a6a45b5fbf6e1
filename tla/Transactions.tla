---------------------------- MODULE Transactions ----------------------------
(***************************************************************************)
(* TransactionService: transaction headers, their lines, payments, refunds *)
(* and totals, under concurrent requests.                                  *)
(*                                                                         *)
(* A request loads the header, decides on what it loaded and commits the   *)
(* columns it changed.  Adding a line takes three database steps: the line *)
(* is committed, the lines are read back and summed, and the sums are      *)
(* committed into the header that was loaded before all that.              *)
(*                                                                         *)
(* update_transaction_line and delete_transaction_line change nothing:     *)
(* UUID(existing_line.transaction_id) raises, the id being a UUID already. *)
(***************************************************************************)
EXTENDS Integers, FiniteSetsExt, OrmSession

CONSTANTS
    Txns,         \* transaction numbers
    LineIds,      \* ids of TransactionLine rows
    Requests,     \* the requests being served at once
    Openings,     \* the type, status and payment status of a POST
    Edits,        \* the columns among those that a PUT sets, with their values
    LineInputs,   \* the kind and total of a line that is added
    Discounted,   \* totals apply_line_discount leaves a line with
    Amounts       \* amounts of payments and refunds

VARIABLES
    hdr,          \* the transaction_headers table, by number
    line,         \* the transaction_lines table, by id
    sess,         \* what each request's session has read
    cash          \* money taken for each transaction, less money given back

vars == <<hdr, line, sess, cash>>

Statuses == {"DRAFT", "PENDING", "CONFIRMED", "IN_PROGRESS", "COMPLETED",
             "CANCELLED", "REFUNDED"}

PayStatuses == {"PENDING", "PAID", "PARTIALLY_PAID", "OVERDUE", "REFUNDED", "CANCELLED"}

\* SALE stands for every transaction type that is not RENTAL.
Types == {"SALE", "RENTAL"}

\* PRODUCT stands for SERVICE too, FEE for every type calculate_totals ignores.
Kinds == {"PRODUCT", "DISCOUNT", "TAX", "FEE"}

\* What the schemas of the requests let through.
ASSUME TxnAssumption ==
    /\ Openings \subseteq [type : Types, status : Statuses, pay : PayStatuses]
    /\ \A e \in Edits :
          /\ DOMAIN e \subseteq {"type", "status", "pay"}
          /\ "type" \in DOMAIN e => e.type \in Types
          /\ "status" \in DOMAIN e => e.status \in Statuses
          /\ "pay" \in DOMAIN e => e.pay \in PayStatuses
    /\ LineInputs \subseteq [kind : Kinds, amount : Int]
    /\ Discounted \subseteq Int
    /\ Amounts \subseteq Int

Header == [type : Types, status : Statuses, pay : PayStatuses, active : BOOLEAN,
           subtotal : Int, discount : Int, tax : Int, total : Int, paid : Int]

Line == [txn : Txns, kind : Kinds, amount : Int]

Sessions ==
    [kind : {"idle"}]
        \cup [kind : {"header", "recalculate"}, txn : Txns, seen : Header]
        \cup [kind : {"totals"}, txn : Txns, seen : Header, new : Header]

Idle == [kind |-> "idle"]

Final == {"COMPLETED", "CANCELLED", "REFUNDED"}

----------------------------------------------------------------------------
(* TransactionHeader.                                                      *)

\* can_transition_to.
Transitions ==
    [DRAFT       |-> {"PENDING", "CANCELLED"},
     PENDING     |-> {"CONFIRMED", "CANCELLED"},
     CONFIRMED   |-> {"IN_PROGRESS", "CANCELLED"},
     IN_PROGRESS |-> {"COMPLETED", "CANCELLED"},
     COMPLETED   |-> {"REFUNDED"},
     CANCELLED   |-> {},
     REFUNDED    |-> {}]

\* balance_due.
Balance(row) == IF row.total > row.paid THEN row.total - row.paid ELSE 0

\* Mutant: a payment is not compared with the balance due.
CanPayAnything(row, amount) == amount > 0 /\ row.status \in {"PENDING", "CONFIRMED"}

CanPay(row, amount) ==
    /\ amount > 0
    /\ amount <= Balance(row)
    /\ row.status \in {"PENDING", "CONFIRMED"}

\* apply_payment.
Paid(row, amount) ==
    LET paid == row.paid + amount
    IN  [row EXCEPT !.paid = paid,
                    !.pay = IF paid >= row.total THEN "PAID"
                            ELSE IF paid > 0 THEN "PARTIALLY_PAID" ELSE @]

\* Mutant: a refund is not compared with what was paid.
CanRefundAnything(row, amount) == amount > 0 /\ row.status = "COMPLETED"

CanRefund(row, amount) ==
    amount > 0 /\ amount <= row.paid /\ row.status = "COMPLETED"

\* Mutant: the refund is not taken off the paid amount.
RefundedInFull(row, amount) == [row EXCEPT !.status = "REFUNDED", !.pay = "REFUNDED"]

\* process_refund.
Refunded(row, amount) ==
    [row EXCEPT !.paid = @ - amount, !.status = "REFUNDED", !.pay = "REFUNDED"]

\* Mutant: a payment status that is not one of PaymentStatus.
CancelledVoid(row) == [row EXCEPT !.status = "CANCELLED", !.pay = "VOID"]

\* cancel_transaction.
Cancelled(row) == [row EXCEPT !.status = "CANCELLED", !.pay = "CANCELLED"]

\* Mutant: a cancelled transaction can be marked as overdue.
CanMarkUnpaid(row) == row.pay # "PAID"

CanMarkOverdue(row) == row.pay # "PAID" /\ row.status # "CANCELLED"

\* The lines of a transaction, as its relationship loads them.
LinesOf(t) == {l \in DOMAIN line : line[l].txn = t}

SumOf(t, kind) ==
    MapThenSumSet(LAMBDA l : line[l].amount, {l \in LinesOf(t) : line[l].kind = kind})

Magnitude(n) == IF n < 0 THEN -n ELSE n

\* calculate_totals.
Totalled(row, t) ==
    LET subtotal == SumOf(t, "PRODUCT")
        discount == Magnitude(SumOf(t, "DISCOUNT"))
        tax == SumOf(t, "TAX")
    IN  [row EXCEPT !.subtotal = subtotal, !.discount = discount, !.tax = tax,
                    !.total = subtotal - discount + tax]

----------------------------------------------------------------------------
Init ==
    /\ hdr = [t \in {} |-> Idle]
    /\ line = [l \in {} |-> Idle]
    /\ sess = [r \in Requests |-> Idle]
    /\ cash = [t \in Txns |-> 0]

\* create_transaction.  The number is unique; the status and the payment status
\* are whatever the client asked for.
Create(r) ==
    /\ sess[r] = Idle
    /\ \E t \in Txns \ DOMAIN hdr, o \in Openings :
          hdr' = [n \in DOMAIN hdr \cup {t} |->
                     IF n = t
                     THEN [type |-> o.type, status |-> o.status, pay |-> o.pay,
                           active |-> TRUE, subtotal |-> 0, discount |-> 0, tax |-> 0,
                           total |-> 0, paid |-> 0]
                     ELSE hdr[n]]
    /\ UNCHANGED <<line, sess, cash>>

\* TransactionHeaderRepository.get_by_id, which finds deleted headers too.
Load(r) ==
    /\ sess[r] = Idle
    /\ \E t \in DOMAIN hdr :
          sess' = [sess EXCEPT ![r] = [kind |-> "header", txn |-> t, seen |-> hdr[t]]]
    /\ UNCHANGED <<hdr, line, cash>>

\* The header the request loaded is committed as `new' and the request ends,
\* having taken `money' from the customer.
Save(r, new, money) ==
    /\ hdr' = [hdr EXCEPT ![sess[r].txn] = Merged(@, sess[r].seen, new)]
    /\ cash' = [cash EXCEPT ![sess[r].txn] = @ + money]
    /\ sess' = [sess EXCEPT ![r] = Idle]
    /\ UNCHANGED line

HasHeader(r) == sess[r].kind = "header"

\* update_transaction_status.
UpdateStatus(r) ==
    /\ HasHeader(r)
    /\ \E s \in Transitions[sess[r].seen.status] :
          Save(r, [sess[r].seen EXCEPT !.status = s], 0)

\* apply_payment.
ApplyPayment(r, amount) ==
    /\ HasHeader(r)
    /\ CanPay(sess[r].seen, amount)
    /\ Save(r, Paid(sess[r].seen, amount), amount)

\* process_refund.
ProcessRefund(r, amount) ==
    /\ HasHeader(r)
    /\ CanRefund(sess[r].seen, amount)
    /\ Save(r, Refunded(sess[r].seen, amount), -amount)

\* cancel_transaction.
Cancel(r) ==
    /\ HasHeader(r)
    /\ sess[r].seen.status \notin {"COMPLETED", "CANCELLED"}
    /\ Save(r, Cancelled(sess[r].seen), 0)

\* mark_transaction_overdue.
MarkOverdue(r) ==
    /\ HasHeader(r)
    /\ CanMarkOverdue(sess[r].seen)
    /\ Save(r, [sess[r].seen EXCEPT !.pay = "OVERDUE"], 0)

\* complete_rental_return.
CompleteRentalReturn(r) ==
    /\ HasHeader(r)
    /\ sess[r].seen.type = "RENTAL" /\ sess[r].seen.status = "IN_PROGRESS"
    /\ Save(r, [sess[r].seen EXCEPT !.status = "COMPLETED"], 0)

\* Mutant: a transaction that was completed or cancelled still takes lines.
OpenUnlessRefunded(row) == row.status # "REFUNDED"

\* The guard of update_transaction and of add_transaction_line.
Open(row) == row.status \notin Final

\* update_transaction: the columns the client names, with no regard to
\* can_transition_to.
Put(r) ==
    /\ HasHeader(r)
    /\ Open(sess[r].seen)
    /\ \E e \in Edits :
          Save(r, [c \in DOMAIN sess[r].seen |->
                      IF c \in DOMAIN e THEN e[c] ELSE sess[r].seen[c]], 0)

\* delete_transaction.
Delete(r) ==
    /\ HasHeader(r)
    /\ sess[r].seen.status \in {"DRAFT", "PENDING"}
    /\ Save(r, [sess[r].seen EXCEPT !.active = FALSE], 0)

\* add_transaction_line commits the line...
AddLine(r) ==
    /\ HasHeader(r)
    /\ Open(sess[r].seen)
    /\ \E l \in LineIds \ DOMAIN line, i \in LineInputs :
          line' = [k \in DOMAIN line \cup {l} |->
                      IF k = l
                      THEN [txn |-> sess[r].txn, kind |-> i.kind, amount |-> i.amount]
                      ELSE line[k]]
    /\ sess' = [sess EXCEPT ![r] =
                   [kind |-> "recalculate", txn |-> sess[r].txn, seen |-> sess[r].seen]]
    /\ UNCHANGED <<hdr, cash>>

\* Mutant: the lines are read and the totals are not recalculated.
SkipTotals(r) ==
    /\ sess[r].kind = "recalculate"
    /\ sess' = [sess EXCEPT ![r] =
                   [kind |-> "totals", txn |-> sess[r].txn, seen |-> sess[r].seen,
                    new |-> sess[r].seen]]
    /\ UNCHANGED <<hdr, line, cash>>

\* ... _recalculate_transaction_totals reads the lines back and sums them: the
\* header object is still the one loaded first ...
ReadLines(r) ==
    /\ sess[r].kind = "recalculate"
    /\ sess' = [sess EXCEPT ![r] =
                   [kind |-> "totals", txn |-> sess[r].txn, seen |-> sess[r].seen,
                    new |-> Totalled(sess[r].seen, sess[r].txn)]]
    /\ UNCHANGED <<hdr, line, cash>>

\* ... and commits the totals.
StoreTotals(r) == sess[r].kind = "totals" /\ Save(r, sess[r].new, 0)

\* apply_line_discount commits the line, whatever the status of its transaction,
\* then raises at UUID(line.transaction_id) and never recalculates.
DiscountLine(r) ==
    /\ sess[r] = Idle
    /\ \E l \in DOMAIN line, a \in Discounted :
          line' = [line EXCEPT ![l].amount = IF line[l].kind = "DISCOUNT" THEN -Magnitude(a) ELSE a]
    /\ UNCHANGED <<hdr, sess, cash>>

\* The request is refused: its session is rolled back.
Refuse(r) ==
    /\ HasHeader(r)
    /\ sess' = [sess EXCEPT ![r] = Idle]
    /\ UNCHANGED <<hdr, line, cash>>

\* The database or the worker fails between the commit of a line and the commit
\* of the totals.
Fail(r) ==
    /\ sess[r].kind \in {"recalculate", "totals"}
    /\ sess' = [sess EXCEPT ![r] = Idle]
    /\ UNCHANGED <<hdr, line, cash>>

Pay(r) == \E a \in Amounts : ApplyPayment(r, a)

Refund(r) == \E a \in Amounts : ProcessRefund(r, a)

Serve(r) ==
    \/ Create(r) \/ Load(r) \/ UpdateStatus(r) \/ Pay(r) \/ Refund(r)
    \/ Cancel(r) \/ MarkOverdue(r) \/ CompleteRentalReturn(r)
    \/ Put(r) \/ Delete(r) \/ AddLine(r) \/ ReadLines(r) \/ StoreTotals(r)
    \/ DiscountLine(r) \/ Refuse(r)

Next == \E r \in Requests : Serve(r) \/ Fail(r)

Spec == Init /\ [][Next]_vars

\* No failure strikes a request between two of its commits.
SmoothSpec == Init /\ [][\E r \in Requests : Serve(r)]_vars

----------------------------------------------------------------------------
\* Tables and sessions hold what they should; a line or a session names a
\* transaction that exists.
TypeOK ==
    /\ DOMAIN hdr \subseteq Txns /\ DOMAIN line \subseteq LineIds
    /\ hdr \in [DOMAIN hdr -> Header]
    /\ line \in [DOMAIN line -> Line]
    /\ sess \in [Requests -> Sessions]
    /\ cash \in [Txns -> Int]
    /\ \A l \in DOMAIN line : line[l].txn \in DOMAIN hdr
    /\ \A r \in Requests : sess[r].kind # "idle" => sess[r].txn \in DOMAIN hdr

\* paid_amount is never negative, although payments and refunds that overlap
\* compute it from stale headers and overwrite each other's result.
PaidNonNegative == \A t \in DOMAIN hdr : hdr[t].paid >= 0

\* A payment or a refund leaves the totals that a line added meanwhile has
\* stored, and storing totals leaves the payments made meanwhile.
PaymentsSpareTotals ==
    [][\A r \in Requests :
          LET t == sess[r].txn
          IN  /\ Pay(r) \/ Refund(r) => hdr'[t].total = hdr[t].total
              /\ StoreTotals(r) => /\ hdr'[t].paid = hdr[t].paid
                                   /\ hdr'[t].status = hdr[t].status]_vars

\* What the header says was paid is what was taken less what was given back.
BooksBalance == \A t \in DOMAIN hdr : hdr[t].paid = cash[t]

\* A cancelled transaction stays cancelled, and its payment with it.
CancelledIsFinal ==
    [][\A t \in DOMAIN hdr :
          hdr[t].status = "CANCELLED" /\ hdr[t].pay = "CANCELLED" => hdr'[t] = hdr[t]]_vars

\* TransactionService.apply_payment: "Payment amount exceeds balance due".  Said
\* of the header the payment is committed to and of the money taken for it.
PaymentWithinBalance ==
    [][\A r \in Requests, a \in Amounts :
          ApplyPayment(r, a) =>
              LET t == sess[r].txn IN cash[t] + a <= hdr[t].total]_vars

\* No transaction ever gives back more than was taken for it: process_refund
\* takes a refund off the paid amount, and refunds only once.
NeverOutOfPocket == \A t \in DOMAIN hdr : cash[t] >= 0

\* add_transaction_line: "Cannot add lines to completed, cancelled, or refunded
\* transactions".  A closed transaction gets a line, or another total, only from
\* a request that read the header while it was open: the status that forbids it
\* may be newer than the one that was checked, by two commits of the request.
ClosedBooksStay ==
    [][\A t \in DOMAIN hdr :
          hdr[t].status \in Final =>
              \/ hdr'[t].total = hdr[t].total /\ LinesOf(t)' = LinesOf(t)
              \/ \E r \in Requests : /\ AddLine(r) \/ StoreTotals(r)
                                    /\ sess[r].txn = t
                                    /\ sess[r].seen.status \notin Final]_vars

\* TransactionHeader.calculate_totals: "Recalculate transaction totals from
\* lines."  The totals of a transaction are those of its lines, unless a request
\* that added one is still at work.
TotalsMatchLines ==
    \A t \in DOMAIN hdr :
        \/ \E r \in Requests : sess[r].kind \in {"recalculate", "totals"} /\ sess[r].txn = t
        \/ hdr[t] = Totalled(hdr[t], t)

\* The totals of t are those of its lines, or a request is about to make them so.
Accounted(t) ==
    \/ hdr[t] = Totalled(hdr[t], t)
    \/ \E r \in Requests :
          \/ sess[r].kind = "recalculate" /\ sess[r].txn = t
          \/ /\ sess[r].kind = "totals" /\ sess[r].txn = t
             /\ sess[r].new = Totalled(sess[r].new, t)

\* Since the request loaded its header another one has stored totals, or since it
\* read the lines one was added or discounted.
Overtaken(r) ==
    LET t == sess[r].txn
    IN  \/ \E c \in {"subtotal", "discount", "tax", "total"} :
              hdr[t][c] # sess[r].seen[c]
        \/ sess[r].new # Totalled(sess[r].new, t)

\* Totals that are right, or about to be, go wrong in three ways only: a request
\* fails between its line and its totals, one stores the totals it computed
\* although it was overtaken, and a line is discounted.
TotalsStayTrue ==
    [][\A t \in DOMAIN hdr :
          Accounted(t) =>
              \/ Accounted(t)'
              \/ \E r \in Requests :
                    /\ Fail(r) \/ (StoreTotals(r) /\ Overtaken(r))
                    /\ sess[r].txn = t
              \/ \E r \in Requests, l \in LinesOf(t) :
                    DiscountLine(r) /\ line'[l] # line[l]]_vars

\* TransactionHeader.can_transition_to has no transition from REFUNDED.
RefundedIsFinal ==
    [][\A t \in DOMAIN hdr :
          hdr[t].status = "REFUNDED" => hdr'[t].status = "REFUNDED"]_vars

=============================================================================
