------------------------- MODULE TransactionsProofs -------------------------
(***************************************************************************)
(* What holds of headers, lines and paid_amount for any number of          *)
(* transactions and requests, and of the books when no two requests are at *)
(* work on one transaction at once (Exclusive).                            *)
(*                                                                         *)
(* PaidNonNegative is not inductive: the header a request commits was      *)
(* computed from one it loaded before, so PaidInv says the same of every   *)
(* header a session holds.  SerialInv adds that a session's header is the  *)
(* one in the table, which only an overlapping request could make false.   *)
(* ColumnInv is about the columns of headers, which an UPDATE keeps unless *)
(* its request changed them, and about the status a request that adds a    *)
(* line has read.  TypeInv adds rows and sessions to TypeOK; that sums of  *)
(* lines are integers needs what a fold adds up to, which is shown of a    *)
(* smallest set that would break the equation.                             *)
(***************************************************************************)
EXTENDS Transactions, FiniteSetTheorems, TLAPS

\* A header that has a paid_amount, and one that is not negative.
Solvent(row) == "paid" \in DOMAIN row /\ row.paid \in Nat

\* Every header of the table and of the sessions is solvent.
PaidInv ==
    /\ \A t \in DOMAIN hdr : Solvent(hdr[t])
    /\ DOMAIN sess = Requests
    /\ \A r \in Requests :
          /\ sess[r].kind \in {"header", "recalculate", "totals"} =>
                 sess[r].txn \in DOMAIN hdr /\ Solvent(sess[r].seen)
          /\ sess[r].kind = "totals" => Solvent(sess[r].new)

\* apply_payment leaves a solvent header when it does not raise.
LEMMA PaidSolvent ==
    ASSUME NEW row, Solvent(row), NEW a \in Int, CanPay(row, a)
    PROVE  Solvent(Paid(row, a))
  <1>1. a > 0
    BY DEF CanPay
  <1>2. Paid(row, a).paid = row.paid + a /\ DOMAIN Paid(row, a) = DOMAIN row
    BY DEF Paid, Solvent
  <1> QED
    BY <1>1, <1>2 DEF Solvent

\* process_refund leaves a solvent header when it does not raise.
LEMMA RefundSolvent ==
    ASSUME NEW row, Solvent(row), NEW a \in Int, CanRefund(row, a)
    PROVE  Solvent(Refunded(row, a))
  <1>1. a > 0 /\ a <= row.paid
    BY DEF CanRefund
  <1>2. Refunded(row, a).paid = row.paid - a /\ DOMAIN Refunded(row, a) = DOMAIN row
    BY DEF Refunded, Solvent
  <1> QED
    BY <1>1, <1>2 DEF Solvent

\* An UPDATE takes paid_amount from the table or from the request.
LEMMA MergedSolvent ==
    ASSUME NEW db, Solvent(db), NEW seen, NEW new, Solvent(new)
    PROVE  Solvent(Merged(db, seen, new))
  BY DEF Solvent, Merged, Written

\* A commit of a solvent header keeps the invariant.
LEMMA SaveInv ==
    ASSUME PaidInv, NEW r \in Requests,
           sess[r].kind \in {"header", "recalculate", "totals"},
           NEW new, Solvent(new), NEW money, Save(r, new, money)
    PROVE  PaidInv'
  <1> DEFINE t == sess[r].txn
             merged == Merged(hdr[t], sess[r].seen, new)
  <1>1. t \in DOMAIN hdr
    BY DEF PaidInv
  <1>2. Solvent(merged)
    BY <1>1, MergedSolvent DEF PaidInv
  <1>3. hdr' = [hdr EXCEPT ![t] = merged] /\ sess' = [sess EXCEPT ![r] = Idle]
    BY DEF Save
  <1> HIDE DEF merged
  <1>4. DOMAIN hdr' = DOMAIN hdr /\ \A n \in DOMAIN hdr : Solvent(hdr'[n])
    BY <1>1, <1>2, <1>3 DEF PaidInv
  <1>5. /\ DOMAIN sess' = Requests
        /\ \A p \in Requests : sess'[p] = IF p = r THEN Idle ELSE sess[p]
    BY <1>3 DEF PaidInv
  <1> QED
    BY <1>4, <1>5 DEF PaidInv, Idle, Solvent

\* A step that writes no header keeps the invariant if the new session holds
\* what the old one held.
LEMMA SessionInv ==
    ASSUME PaidInv, NEW r \in Requests, UNCHANGED hdr,
           NEW s, sess' = [sess EXCEPT ![r] = s],
           s.kind \in {"header", "recalculate", "totals"} =>
               s.txn \in DOMAIN hdr /\ Solvent(s.seen),
           s.kind = "totals" => Solvent(s.new)
    PROVE  PaidInv'
  BY DEF PaidInv, Solvent

\* calculate_totals leaves paid_amount alone.
LEMMA TotalledSolvent ==
    ASSUME NEW row, Solvent(row), NEW t
    PROVE  Solvent(Totalled(row, t))
  BY DEF Totalled, Solvent

\* No header and no session exists at first.
LEMMA InitInv == Init => PaidInv
  BY DEF Init, PaidInv, Idle, Solvent

\* Every step of a request keeps the invariant.
LEMMA NextInv == ASSUME PaidInv, Next PROVE PaidInv'
  <1>1. PICK r \in Requests : Serve(r) \/ Fail(r)
    BY DEF Next
  <1> DEFINE seen == sess[r].seen
  <1>2. sess[r].kind \in {"header", "recalculate", "totals"} =>
            sess[r].txn \in DOMAIN hdr /\ Solvent(seen)
    BY DEF PaidInv
  <1>3. CASE Create(r)
    <2>1. PICK t \in Txns \ DOMAIN hdr, o \in Openings :
             hdr' = [n \in DOMAIN hdr \cup {t} |->
                        IF n = t
                        THEN [type |-> o.type, status |-> o.status, pay |-> o.pay,
                              active |-> TRUE, subtotal |-> 0, discount |-> 0, tax |-> 0,
                              total |-> 0, paid |-> 0]
                        ELSE hdr[n]]
      BY <1>3 DEF Create
    <2>2. DOMAIN hdr \subseteq DOMAIN hdr'
      BY <2>1
    <2>3. \A n \in DOMAIN hdr' : Solvent(hdr'[n])
      BY <2>1 DEF PaidInv, Solvent
    <2>4. sess' = sess
      BY <1>3 DEF Create
    <2> QED
      BY <2>2, <2>3, <2>4 DEF PaidInv, Solvent
  <1>4. CASE Load(r)
    <2>1. PICK t \in DOMAIN hdr :
             sess' = [sess EXCEPT ![r] = [kind |-> "header", txn |-> t, seen |-> hdr[t]]]
      BY <1>4 DEF Load
    <2>2. Solvent(hdr[t]) /\ UNCHANGED hdr
      BY <1>4 DEF Load, PaidInv
    <2> QED
      BY <2>1, <2>2, SessionInv
  <1>5. CASE UpdateStatus(r)
    <2>1. PICK s \in Transitions[seen.status] : Save(r, [seen EXCEPT !.status = s], 0)
      BY <1>5 DEF UpdateStatus
    <2>2. HasHeader(r) /\ Solvent(seen)
      BY <1>2, <1>5 DEF UpdateStatus, HasHeader
    <2>3. Solvent([seen EXCEPT !.status = s])
      BY <2>2 DEF Solvent
    <2> QED
      BY <2>1, <2>2, <2>3, SaveInv DEF HasHeader
  <1>6. CASE Pay(r)
    <2>1. PICK a \in Amounts : ApplyPayment(r, a)
      BY <1>6 DEF Pay
    <2>2. a \in Int
      BY TxnAssumption DEF TxnAssumption
    <2>3. HasHeader(r) /\ CanPay(seen, a) /\ Save(r, Paid(seen, a), a)
      BY <2>1 DEF ApplyPayment
    <2>4. Solvent(Paid(seen, a))
      BY <1>2, <2>2, <2>3, PaidSolvent DEF HasHeader
    <2> QED
      BY <2>3, <2>4, SaveInv DEF HasHeader
  <1>7. CASE Refund(r)
    <2>1. PICK a \in Amounts : ProcessRefund(r, a)
      BY <1>7 DEF Refund
    <2>2. a \in Int
      BY TxnAssumption DEF TxnAssumption
    <2>3. HasHeader(r) /\ CanRefund(seen, a) /\ Save(r, Refunded(seen, a), -a)
      BY <2>1 DEF ProcessRefund
    <2>4. Solvent(Refunded(seen, a))
      BY <1>2, <2>2, <2>3, RefundSolvent DEF HasHeader
    <2> QED
      BY <2>3, <2>4, SaveInv DEF HasHeader
  <1>8. CASE Cancel(r)
    <2>1. HasHeader(r) /\ Save(r, Cancelled(seen), 0)
      BY <1>8 DEF Cancel
    <2>2. Solvent(Cancelled(seen))
      BY <1>2, <2>1 DEF HasHeader, Cancelled, Solvent
    <2> QED
      BY <2>1, <2>2, SaveInv DEF HasHeader
  <1>9. CASE MarkOverdue(r)
    <2>1. HasHeader(r) /\ Save(r, [seen EXCEPT !.pay = "OVERDUE"], 0)
      BY <1>9 DEF MarkOverdue
    <2>2. Solvent([seen EXCEPT !.pay = "OVERDUE"])
      BY <1>2, <2>1 DEF HasHeader, Solvent
    <2> QED
      BY <2>1, <2>2, SaveInv DEF HasHeader
  <1>10. CASE CompleteRentalReturn(r)
    <2>1. HasHeader(r) /\ Save(r, [seen EXCEPT !.status = "COMPLETED"], 0)
      BY <1>10 DEF CompleteRentalReturn
    <2>2. Solvent([seen EXCEPT !.status = "COMPLETED"])
      BY <1>2, <2>1 DEF HasHeader, Solvent
    <2> QED
      BY <2>1, <2>2, SaveInv DEF HasHeader
  <1>11. CASE Put(r)
    <2>1. PICK e \in Edits :
             Save(r, [c \in DOMAIN seen |-> IF c \in DOMAIN e THEN e[c] ELSE seen[c]], 0)
      BY <1>11 DEF Put
    <2>2. HasHeader(r) /\ "paid" \notin DOMAIN e
      BY <1>11, TxnAssumption DEF Put, TxnAssumption
    <2>3. Solvent([c \in DOMAIN seen |-> IF c \in DOMAIN e THEN e[c] ELSE seen[c]])
      BY <1>2, <2>2 DEF HasHeader, Solvent
    <2> QED
      BY <2>1, <2>2, <2>3, SaveInv DEF HasHeader
  <1>12. CASE Delete(r)
    <2>1. HasHeader(r) /\ Save(r, [seen EXCEPT !.active = FALSE], 0)
      BY <1>12 DEF Delete
    <2>2. Solvent([seen EXCEPT !.active = FALSE])
      BY <1>2, <2>1 DEF HasHeader, Solvent
    <2> QED
      BY <2>1, <2>2, SaveInv DEF HasHeader
  <1>13. CASE AddLine(r)
    <2>1. /\ HasHeader(r) /\ UNCHANGED hdr
          /\ sess' = [sess EXCEPT ![r] =
                         [kind |-> "recalculate", txn |-> sess[r].txn, seen |-> seen]]
      BY <1>13 DEF AddLine
    <2>2. sess[r].txn \in DOMAIN hdr /\ Solvent(seen)
      BY <1>2, <2>1 DEF HasHeader
    <2> HIDE DEF seen
    <2> QED
      BY <2>1, <2>2, SessionInv
  <1>14. CASE ReadLines(r)
    <2>1. /\ sess[r].kind = "recalculate" /\ UNCHANGED hdr
          /\ sess' = [sess EXCEPT ![r] =
                         [kind |-> "totals", txn |-> sess[r].txn, seen |-> seen,
                          new |-> Totalled(seen, sess[r].txn)]]
      BY <1>14 DEF ReadLines
    <2>2. sess[r].txn \in DOMAIN hdr /\ Solvent(seen)
      BY <1>2, <2>1
    <2>3. Solvent(Totalled(seen, sess[r].txn))
      BY <2>2, TotalledSolvent
    <2> HIDE DEF seen
    <2> QED
      BY <2>1, <2>2, <2>3, SessionInv
  <1>15. CASE StoreTotals(r)
    <2>1. sess[r].kind = "totals" /\ Save(r, sess[r].new, 0)
      BY <1>15 DEF StoreTotals
    <2>2. Solvent(sess[r].new)
      BY <2>1 DEF PaidInv
    <2> QED
      BY <2>1, <2>2, SaveInv
  <1>16. CASE DiscountLine(r)
    BY <1>16 DEF DiscountLine, PaidInv, Solvent
  <1>17. CASE Refuse(r)
    BY <1>17, SessionInv DEF Refuse, Idle
  <1>18. CASE Fail(r)
    BY <1>18, SessionInv DEF Fail, Idle
  <1> QED
    BY <1>1, <1>3, <1>4, <1>5, <1>6, <1>7, <1>8, <1>9, <1>10, <1>11, <1>12,
       <1>13, <1>14, <1>15, <1>16, <1>17, <1>18 DEF Serve

\* PaidInv holds in every reachable state.
LEMMA PaidInvariant == Spec => []PaidInv
  <1>1. PaidInv /\ UNCHANGED vars => PaidInv'
    BY DEF vars, PaidInv, Solvent
  <1> QED
    BY <1>1, InitInv, NextInv, PTL DEF Spec

\* TransactionHeader.paid_amount is never negative, whatever payments, refunds,
\* lines and status changes overlap.
THEOREM NeverOwed == Spec => []PaidNonNegative
  <1>1. PaidInv => PaidNonNegative
    BY DEF PaidInv, PaidNonNegative, Solvent
  <1> QED
    BY <1>1, PaidInvariant, PTL

----------------------------------------------------------------------------
(* One request at a time on each transaction.                              *)

\* The sessions that hold a header.
AtWork(r) == sess[r].kind \in {"header", "recalculate", "totals"}

\* No two requests are at work on the same transaction: what loading the header
\* FOR UPDATE, and keeping the lock until the last commit, would give.  With a
\* single request it always holds.
Exclusive ==
    \A p, q \in Requests : AtWork(p) /\ AtWork(q) /\ sess[p].txn = sess[q].txn => p = q

\* The header says what was taken, and a session's header is the one in the
\* table: nobody commits it between a load and the commit that follows.  A
\* request that has added a line did so to an open transaction.
SerialInv ==
    /\ PaidInv
    /\ DOMAIN hdr \subseteq Txns /\ cash \in [Txns -> Int]
    /\ \A t \in DOMAIN hdr : cash[t] = hdr[t].paid
    /\ \A t \in Txns \ DOMAIN hdr : cash[t] = 0
    /\ \A r \in Requests :
          /\ AtWork(r) => sess[r].seen = hdr[sess[r].txn]
          /\ sess[r].kind \in {"recalculate", "totals"} => Open(sess[r].seen)
          /\ sess[r].kind = "totals" => sess[r].new.paid = sess[r].seen.paid

\* A commit that changes paid_amount by the money it takes keeps the invariant.
LEMMA SerialSave ==
    ASSUME Exclusive, SerialInv, PaidInv',
           NEW r \in Requests, AtWork(r), NEW money \in Int,
           NEW new, new.paid = sess[r].seen.paid + money, Save(r, new, money)
    PROVE  SerialInv'
  <1> DEFINE t == sess[r].txn
             merged == Merged(hdr[t], sess[r].seen, new)
  <1>1. /\ t \in DOMAIN hdr /\ t \in Txns /\ sess[r].seen = hdr[t]
        /\ "paid" \in DOMAIN hdr[t] /\ hdr[t].paid \in Int
    BY DEF SerialInv, PaidInv, Solvent, AtWork
  <1>2. merged.paid = hdr[t].paid + money
    BY <1>1 DEF Merged, Written
  <1>3. /\ hdr' = [hdr EXCEPT ![t] = merged]
        /\ cash' = [cash EXCEPT ![t] = cash[t] + money]
        /\ sess' = [sess EXCEPT ![r] = Idle]
    BY DEF Save
  <1> HIDE DEF merged
  <1>4. \A p \in Requests : sess'[p] = IF p = r THEN Idle ELSE sess[p]
    BY <1>3 DEF PaidInv, SerialInv
  <1>5. DOMAIN hdr' = DOMAIN hdr /\ cash' \in [Txns -> Int]
    BY <1>1, <1>3 DEF SerialInv
  <1>6. \A n \in DOMAIN hdr' : cash'[n] = hdr'[n].paid
    BY <1>1, <1>2, <1>3, <1>5 DEF SerialInv
  <1>7. \A n \in Txns \ DOMAIN hdr' : cash'[n] = 0
    BY <1>1, <1>3, <1>5 DEF SerialInv
  <1>8. ASSUME NEW p \in Requests, AtWork(p)'
        PROVE  sess'[p].seen = hdr'[sess'[p].txn]
    <2>1. sess'[p] = sess[p] /\ AtWork(p) /\ p # r
      BY <1>4, <1>8 DEF AtWork, Idle
    <2>2. sess[p].txn # t /\ sess[p].txn \in DOMAIN hdr /\ sess[p].seen = hdr[sess[p].txn]
      BY <2>1 DEF Exclusive, SerialInv, PaidInv, AtWork
    <2> QED
      BY <1>3, <2>1, <2>2
  <1>9. \A p \in Requests :
            /\ sess'[p].kind \in {"recalculate", "totals"} => Open(sess'[p].seen)
            /\ sess'[p].kind = "totals" => sess'[p].new.paid = sess'[p].seen.paid
    BY <1>4 DEF SerialInv, Idle
  <1> QED
    BY <1>5, <1>6, <1>7, <1>8, <1>9 DEF SerialInv, AtWork, Open

\* A step that writes neither headers nor cash keeps the invariant if the new
\* session is idle, or holds the header in the table.
LEMMA SerialSession ==
    ASSUME SerialInv, PaidInv',
           NEW r \in Requests, UNCHANGED <<hdr, cash>>,
           NEW s, sess' = [sess EXCEPT ![r] = s],
           s.kind \in {"header", "recalculate", "totals"} => s.seen = hdr[s.txn],
           s.kind \in {"recalculate", "totals"} => Open(s.seen),
           s.kind = "totals" => s.new.paid = s.seen.paid
    PROVE  SerialInv'
  <1>1. \A p \in Requests : sess'[p] = IF p = r THEN s ELSE sess[p]
    BY DEF SerialInv, PaidInv
  <1> QED
    BY <1>1 DEF SerialInv, PaidInv, AtWork, Open

\* The operations that commit a header they loaded: how much money each takes.
LEMMA SavingStep ==
    ASSUME SerialInv, NEW r \in Requests,
           \/ UpdateStatus(r) \/ Pay(r) \/ Refund(r) \/ Cancel(r) \/ MarkOverdue(r)
           \/ CompleteRentalReturn(r) \/ Put(r) \/ Delete(r) \/ StoreTotals(r)
    PROVE  /\ AtWork(r)
           /\ \E money \in Int : \E new :
                 new.paid = sess[r].seen.paid + money /\ Save(r, new, money)
  <1> DEFINE seen == sess[r].seen
  <1>1. AtWork(r)
    BY DEF UpdateStatus, Pay, ApplyPayment, Refund, ProcessRefund, Cancel, MarkOverdue,
           CompleteRentalReturn, Put, Delete, StoreTotals, HasHeader, AtWork
  <1>2. "paid" \in DOMAIN seen /\ seen.paid \in Int /\ seen.paid + 0 = seen.paid
    BY <1>1 DEF SerialInv, PaidInv, Solvent, AtWork
  <1>3. ASSUME NEW a \in Int PROVE Paid(seen, a).paid = seen.paid + a
    BY <1>2 DEF Paid
  <1>4. ASSUME NEW a \in Int PROVE Refunded(seen, a).paid = seen.paid + (-a)
    BY <1>2 DEF Refunded
  <1>5. CASE UpdateStatus(r)
    <2>1. PICK s \in Transitions[seen.status] : Save(r, [seen EXCEPT !.status = s], 0)
      BY <1>5 DEF UpdateStatus
    <2> QED
      BY <1>1, <1>2, <2>1
  <1>6. CASE Pay(r)
    <2>1. PICK a \in Amounts : Save(r, Paid(seen, a), a)
      BY <1>6 DEF Pay, ApplyPayment
    <2> QED
      BY <1>1, <1>3, <2>1, TxnAssumption DEF TxnAssumption
  <1>7. CASE Refund(r)
    <2>1. PICK a \in Amounts : Save(r, Refunded(seen, a), -a)
      BY <1>7 DEF Refund, ProcessRefund
    <2>2. a \in Int /\ -a \in Int
      BY TxnAssumption DEF TxnAssumption
    <2> QED
      BY <1>1, <1>4, <2>1, <2>2
  <1>8. CASE Cancel(r)
    <2>1. Cancelled(seen).paid = seen.paid + 0
      BY <1>2 DEF Cancelled
    <2> QED
      BY <1>1, <1>8, <2>1 DEF Cancel
  <1>9. CASE MarkOverdue(r) \/ CompleteRentalReturn(r) \/ Delete(r)
    BY <1>1, <1>2, <1>9 DEF MarkOverdue, CompleteRentalReturn, Delete
  <1>10. CASE Put(r)
    <2>1. PICK e \in Edits :
             Save(r, [c \in DOMAIN seen |-> IF c \in DOMAIN e THEN e[c] ELSE seen[c]], 0)
      BY <1>10 DEF Put
    <2>2. "paid" \notin DOMAIN e
      BY TxnAssumption DEF TxnAssumption
    <2>3. [c \in DOMAIN seen |-> IF c \in DOMAIN e THEN e[c] ELSE seen[c]].paid
              = seen.paid + 0
      BY <1>2, <2>2
    <2> QED
      BY <1>1, <2>1, <2>3
  <1>11. CASE StoreTotals(r)
    BY <1>1, <1>2, <1>11 DEF StoreTotals, SerialInv
  <1> QED
    BY <1>5, <1>6, <1>7, <1>8, <1>9, <1>10, <1>11

\* Without a second request on a transaction every step keeps the invariant.
LEMMA SerialNext ==
    ASSUME Exclusive, SerialInv, Next
    PROVE  SerialInv'
  <1>1. PICK r \in Requests : Serve(r) \/ Fail(r)
    BY DEF Next
  <1>2. PaidInv'
    BY NextInv DEF SerialInv
  <1> DEFINE seen == sess[r].seen
  <1>3. CASE Create(r)
    <2>1. PICK t \in Txns \ DOMAIN hdr, o \in Openings :
             hdr' = [n \in DOMAIN hdr \cup {t} |->
                        IF n = t
                        THEN [type |-> o.type, status |-> o.status, pay |-> o.pay,
                              active |-> TRUE, subtotal |-> 0, discount |-> 0, tax |-> 0,
                              total |-> 0, paid |-> 0]
                        ELSE hdr[n]]
      BY <1>3 DEF Create
    <2>2. DOMAIN hdr' = DOMAIN hdr \cup {t} /\ cash' = cash /\ sess' = sess
      BY <1>3, <2>1 DEF Create
    <2>3. hdr'[t].paid = 0 /\ \A n \in DOMAIN hdr : hdr'[n] = hdr[n]
      BY <2>1
    <2>4. \A p \in Requests : AtWork(p) => sess[p].txn \in DOMAIN hdr
      BY DEF SerialInv, PaidInv, AtWork
    <2> QED
      BY <1>2, <2>2, <2>3, <2>4 DEF SerialInv, AtWork, Open
  <1>4. CASE Load(r)
    <2>1. PICK t \in DOMAIN hdr :
             sess' = [sess EXCEPT ![r] = [kind |-> "header", txn |-> t, seen |-> hdr[t]]]
      BY <1>4 DEF Load
    <2> QED
      BY <1>2, <1>4, <2>1, SerialSession DEF Load
  <1>5. CASE \/ UpdateStatus(r) \/ Pay(r) \/ Refund(r) \/ Cancel(r) \/ MarkOverdue(r)
             \/ CompleteRentalReturn(r) \/ Put(r) \/ Delete(r) \/ StoreTotals(r)
    BY <1>2, <1>5, SavingStep, SerialSave
  <1>6. CASE AddLine(r)
    <2>1. /\ AtWork(r) /\ Open(seen) /\ UNCHANGED <<hdr, cash>>
          /\ sess' = [sess EXCEPT ![r] =
                         [kind |-> "recalculate", txn |-> sess[r].txn, seen |-> seen]]
      BY <1>6 DEF AddLine, HasHeader, AtWork
    <2>2. seen = hdr[sess[r].txn]
      BY <2>1 DEF SerialInv
    <2> HIDE DEF seen
    <2> QED
      BY <1>2, <2>1, <2>2, SerialSession
  <1>7. CASE ReadLines(r)
    <2>1. /\ AtWork(r) /\ Open(seen) /\ UNCHANGED <<hdr, cash>>
          /\ sess' = [sess EXCEPT ![r] =
                         [kind |-> "totals", txn |-> sess[r].txn, seen |-> seen,
                          new |-> Totalled(seen, sess[r].txn)]]
      BY <1>7 DEF ReadLines, AtWork, SerialInv
    <2>2. seen = hdr[sess[r].txn] /\ Solvent(seen)
      BY <2>1 DEF SerialInv, PaidInv, AtWork
    <2>3. Totalled(seen, sess[r].txn).paid = seen.paid
      BY <2>2 DEF Totalled, Solvent
    <2> HIDE DEF seen
    <2> QED
      BY <1>2, <2>1, <2>2, <2>3, SerialSession
  <1>8. CASE DiscountLine(r)
    BY <1>2, <1>8 DEF DiscountLine, SerialInv, AtWork, Open
  <1>9. CASE Refuse(r) \/ Fail(r)
    BY <1>2, <1>9, SerialSession DEF Refuse, Fail, Idle
  <1> QED
    BY <1>1, <1>3, <1>4, <1>5, <1>6, <1>7, <1>8, <1>9 DEF Serve

\* SerialInv holds in every reachable state of a service that serves one request
\* at a time on each transaction, failures between two of its commits included.
LEMMA SerialInvariant == Spec /\ []Exclusive => []SerialInv
  <1>1. Init => SerialInv
    BY InitInv DEF Init, SerialInv, AtWork, Idle
  <1>2. SerialInv /\ UNCHANGED vars => SerialInv'
    BY DEF vars, SerialInv, PaidInv, Solvent, AtWork, Open
  <1>3. Exclusive /\ SerialInv /\ Next => SerialInv'
    BY SerialNext
  <1> QED
    BY <1>1, <1>2, <1>3, PTL DEF Spec

\* Served one at a time on each transaction, requests leave paid_amount equal to
\* the money taken less the money given back, even when some fail half way.
THEOREM BooksBalanceExclusively == Spec /\ []Exclusive => []BooksBalance
  <1>1. SerialInv => BooksBalance
    BY DEF SerialInv, BooksBalance
  <1> QED
    BY <1>1, SerialInvariant, PTL

\* Served one at a time on each transaction, requests never give back more than
\* was taken.
THEOREM NeverOutOfPocketExclusively == Spec /\ []Exclusive => []NeverOutOfPocket
  <1>1. SerialInv => NeverOutOfPocket
    BY DEF SerialInv, PaidInv, Solvent, NeverOutOfPocket
  <1> QED
    BY <1>1, SerialInvariant, PTL

\* Served one at a time on each transaction, requests leave a cancelled
\* transaction cancelled.
THEOREM CancelledStays == Spec /\ []Exclusive => CancelledIsFinal
  <1>1. ASSUME SerialInv, NEW r \in Requests, Serve(r) \/ Fail(r), NEW t \in DOMAIN hdr,
               hdr[t].status = "CANCELLED", hdr[t].pay = "CANCELLED"
        PROVE  hdr'[t] = hdr[t]
    <2> DEFINE seen == sess[r].seen
    <2>1. CASE Create(r)
      BY <1>1, <2>1 DEF Create
    <2>2. CASE \/ Load(r) \/ AddLine(r) \/ ReadLines(r) \/ DiscountLine(r)
               \/ Refuse(r) \/ Fail(r)
      BY <2>2 DEF Load, AddLine, ReadLines, DiscountLine, Refuse, Fail
    <2>3. CASE \/ UpdateStatus(r) \/ Pay(r) \/ Refund(r) \/ Cancel(r) \/ MarkOverdue(r)
               \/ CompleteRentalReturn(r) \/ Put(r) \/ Delete(r) \/ StoreTotals(r)
      <3>1. AtWork(r) /\ \E money \in Int : \E new : Save(r, new, money)
        BY <1>1, <2>3, SavingStep
      <3>2. seen = hdr[sess[r].txn]
        BY <1>1, <3>1 DEF SerialInv
      <3>3. seen.status # "CANCELLED"
        <4>1. CASE UpdateStatus(r)
          BY <4>1 DEF UpdateStatus, Transitions
        <4>2. CASE Pay(r) \/ Refund(r)
          BY <4>2 DEF Pay, ApplyPayment, CanPay, Refund, ProcessRefund, CanRefund
        <4>3. CASE Cancel(r) \/ MarkOverdue(r) \/ CompleteRentalReturn(r) \/ Delete(r)
          BY <4>3 DEF Cancel, MarkOverdue, CanMarkOverdue, CompleteRentalReturn, Delete
        <4>4. CASE Put(r)
          BY <4>4 DEF Put, Open, Final
        <4>5. CASE StoreTotals(r)
          BY <1>1, <4>5 DEF StoreTotals, SerialInv, Open, Final
        <4> QED
          BY <2>3, <4>1, <4>2, <4>3, <4>4, <4>5
      <3>4. t # sess[r].txn
        BY <1>1, <3>2, <3>3
      <3> QED
        BY <3>1, <3>4 DEF Save
    <2> QED
      BY <1>1, <2>1, <2>2, <2>3 DEF Serve
  <1>2. SerialInv /\ [Next]_vars =>
            [\A t \in DOMAIN hdr :
                hdr[t].status = "CANCELLED" /\ hdr[t].pay = "CANCELLED" =>
                    hdr'[t] = hdr[t]]_vars
    BY <1>1 DEF Next
  <1> QED
    BY <1>2, SerialInvariant, PTL DEF Spec, CancelledIsFinal

----------------------------------------------------------------------------
(* What an UPDATE leaves alone.                                            *)

\* A header with the columns that the totals and payments are about.
Formed(row) == {"status", "total", "paid"} \subseteq DOMAIN row

\* Every header is formed, what is to be stored as totals leaves the payment and
\* the status as they were when the header was loaded, and a request that has
\* added a line read a header that was open.
ColumnInv ==
    /\ PaidInv
    /\ \A t \in DOMAIN hdr : Formed(hdr[t])
    /\ \A r \in Requests :
          /\ AtWork(r) => Formed(sess[r].seen)
          /\ sess[r].kind = "totals" =>
                sess[r].new.paid = sess[r].seen.paid
                    /\ sess[r].new.status = sess[r].seen.status
          /\ sess[r].kind \in {"recalculate", "totals"} => Open(sess[r].seen)

\* A commit leaves a header with the columns it has.
LEMMA SaveColumns ==
    ASSUME ColumnInv, PaidInv', NEW r \in Requests, AtWork(r),
           NEW new, NEW money, Save(r, new, money)
    PROVE  ColumnInv'
  <1> DEFINE t == sess[r].txn
             merged == Merged(hdr[t], sess[r].seen, new)
  <1>1. t \in DOMAIN hdr /\ hdr' = [hdr EXCEPT ![t] = merged]
        /\ sess' = [sess EXCEPT ![r] = Idle]
    BY DEF Save, ColumnInv, PaidInv, AtWork
  <1>2. Formed(merged)
    BY <1>1 DEF Merged, Formed, ColumnInv
  <1> HIDE DEF merged
  <1>3. \A n \in DOMAIN hdr' : Formed(hdr'[n])
    BY <1>1, <1>2 DEF ColumnInv
  <1>4. \A p \in Requests : sess'[p] = IF p = r THEN Idle ELSE sess[p]
    BY <1>1 DEF ColumnInv, PaidInv
  <1> QED
    BY <1>3, <1>4 DEF ColumnInv, AtWork, Formed, Open, Idle

\* A step that writes no header keeps the invariant if the new session does.
LEMMA SessionColumns ==
    ASSUME ColumnInv, PaidInv', NEW r \in Requests, UNCHANGED hdr,
           NEW s, sess' = [sess EXCEPT ![r] = s],
           s.kind \in {"header", "recalculate", "totals"} => Formed(s.seen),
           s.kind = "totals" => s.new.paid = s.seen.paid /\ s.new.status = s.seen.status,
           s.kind \in {"recalculate", "totals"} => Open(s.seen)
    PROVE  ColumnInv'
  <1>1. \A p \in Requests : sess'[p] = IF p = r THEN s ELSE sess[p]
    BY DEF ColumnInv, PaidInv
  <1> QED
    BY <1>1 DEF ColumnInv, AtWork, Formed, Open

\* The operations that commit a header they loaded.
LEMMA SavesSomething ==
    ASSUME NEW r \in Requests,
           \/ UpdateStatus(r) \/ Pay(r) \/ Refund(r) \/ Cancel(r) \/ MarkOverdue(r)
           \/ CompleteRentalReturn(r) \/ Put(r) \/ Delete(r) \/ StoreTotals(r)
    PROVE  AtWork(r) /\ \E new, money : Save(r, new, money)
  BY DEF UpdateStatus, Pay, ApplyPayment, Refund, ProcessRefund, Cancel, MarkOverdue,
         CompleteRentalReturn, Put, Delete, StoreTotals, HasHeader, AtWork

LEMMA NextColumns ==
    ASSUME ColumnInv, Next
    PROVE  ColumnInv'
  <1>1. PICK r \in Requests : Serve(r) \/ Fail(r)
    BY DEF Next
  <1>2. PaidInv'
    BY NextInv DEF ColumnInv
  <1> DEFINE seen == sess[r].seen
  <1>3. CASE Create(r)
    <2>1. PICK t \in Txns \ DOMAIN hdr, o \in Openings :
             hdr' = [n \in DOMAIN hdr \cup {t} |->
                        IF n = t
                        THEN [type |-> o.type, status |-> o.status, pay |-> o.pay,
                              active |-> TRUE, subtotal |-> 0, discount |-> 0, tax |-> 0,
                              total |-> 0, paid |-> 0]
                        ELSE hdr[n]]
      BY <1>3 DEF Create
    <2>2. \A n \in DOMAIN hdr' : Formed(hdr'[n])
      BY <2>1 DEF ColumnInv, Formed
    <2>3. sess' = sess
      BY <1>3 DEF Create
    <2> QED
      BY <1>2, <2>2, <2>3 DEF ColumnInv, AtWork, Formed, Open
  <1>4. CASE Load(r)
    <2>1. PICK t \in DOMAIN hdr :
             sess' = [sess EXCEPT ![r] = [kind |-> "header", txn |-> t, seen |-> hdr[t]]]
      BY <1>4 DEF Load
    <2>2. Formed(hdr[t]) /\ UNCHANGED hdr
      BY <1>4 DEF Load, ColumnInv
    <2> QED
      BY <1>2, <2>1, <2>2, SessionColumns
  <1>5. CASE \/ UpdateStatus(r) \/ Pay(r) \/ Refund(r) \/ Cancel(r) \/ MarkOverdue(r)
             \/ CompleteRentalReturn(r) \/ Put(r) \/ Delete(r) \/ StoreTotals(r)
    BY <1>2, <1>5, SavesSomething, SaveColumns
  <1>6. CASE AddLine(r)
    <2>1. /\ AtWork(r) /\ UNCHANGED hdr
          /\ sess' = [sess EXCEPT ![r] =
                         [kind |-> "recalculate", txn |-> sess[r].txn, seen |-> seen]]
      BY <1>6 DEF AddLine, HasHeader, AtWork
    <2>2. Formed(seen) /\ Open(seen)
      BY <1>6, <2>1 DEF ColumnInv, AddLine
    <2> HIDE DEF seen
    <2> QED
      BY <1>2, <2>1, <2>2, SessionColumns
  <1>7. CASE ReadLines(r)
    <2> DEFINE new == Totalled(seen, sess[r].txn)
    <2>1. /\ AtWork(r) /\ UNCHANGED hdr
          /\ sess' = [sess EXCEPT ![r] =
                         [kind |-> "totals", txn |-> sess[r].txn, seen |-> seen, new |-> new]]
      BY <1>7 DEF ReadLines, AtWork
    <2>2. Formed(seen) /\ Open(seen)
      BY <1>7, <2>1 DEF ColumnInv, ReadLines
    <2>3. new.paid = seen.paid /\ new.status = seen.status
      BY <2>2 DEF Totalled, Formed
    <2> HIDE DEF seen, new
    <2> QED
      BY <1>2, <2>1, <2>2, <2>3, SessionColumns
  <1>8. CASE DiscountLine(r)
    BY <1>2, <1>8 DEF DiscountLine, ColumnInv, AtWork, Formed, Open
  <1>9. CASE Refuse(r) \/ Fail(r)
    BY <1>2, <1>9, SessionColumns DEF Refuse, Fail, Idle
  <1> QED
    BY <1>1, <1>3, <1>4, <1>5, <1>6, <1>7, <1>8, <1>9 DEF Serve

LEMMA ColumnInvariant == Spec => []ColumnInv
  <1>1. Init => ColumnInv
    BY InitInv DEF Init, ColumnInv, AtWork, Idle
  <1>2. ColumnInv /\ UNCHANGED vars => ColumnInv'
    BY DEF vars, ColumnInv, PaidInv, Solvent, AtWork, Formed, Open
  <1> QED
    BY <1>1, <1>2, NextColumns, PTL DEF Spec

\* A column that the request did not change keeps what others committed.
LEMMA UntouchedColumn ==
    ASSUME ColumnInv, NEW r \in Requests, AtWork(r), NEW new, NEW money,
           Save(r, new, money), NEW c \in {"status", "total", "paid"},
           new[c] = sess[r].seen[c]
    PROVE  hdr'[sess[r].txn][c] = hdr[sess[r].txn][c]
  <1> DEFINE t == sess[r].txn
             merged == Merged(hdr[t], sess[r].seen, new)
  <1>1. t \in DOMAIN hdr /\ c \in DOMAIN hdr[t]
    BY DEF ColumnInv, PaidInv, AtWork, Formed
  <1>2. hdr'[t] = merged
    BY <1>1 DEF Save
  <1>3. merged[c] = hdr[t][c]
    BY <1>1 DEF Merged, Written
  <1> QED
    BY <1>2, <1>3

\* Payments and refunds on one side and the totals of lines on the other leave
\* each other's columns alone, however many requests overlap.
THEOREM PaymentsLeaveTotals == Spec => PaymentsSpareTotals
  <1>1. ASSUME ColumnInv, NEW r \in Requests
        PROVE  LET t == sess[r].txn
               IN  /\ Pay(r) \/ Refund(r) => hdr'[t].total = hdr[t].total
                   /\ StoreTotals(r) => /\ hdr'[t].paid = hdr[t].paid
                                        /\ hdr'[t].status = hdr[t].status
    <2> DEFINE seen == sess[r].seen
               t == sess[r].txn
    <2>1. ASSUME Pay(r) \/ Refund(r) PROVE hdr'[t].total = hdr[t].total
      <3>1. AtWork(r)
        BY <2>1, SavesSomething
      <3>2. Formed(seen)
        BY <1>1, <3>1 DEF ColumnInv
      <3>3. \A a : Paid(seen, a)["total"] = seen["total"]
                    /\ Refunded(seen, a)["total"] = seen["total"]
        BY <3>2 DEF Paid, Refunded, Formed
      <3>4. \E a, money : Save(r, Paid(seen, a), money) \/ Save(r, Refunded(seen, a), money)
        BY <2>1 DEF Pay, ApplyPayment, Refund, ProcessRefund
      <3> QED
        BY <1>1, <3>1, <3>3, <3>4, UntouchedColumn
    <2>2. ASSUME StoreTotals(r)
          PROVE  hdr'[t].paid = hdr[t].paid /\ hdr'[t].status = hdr[t].status
      <3>1. AtWork(r) /\ Save(r, sess[r].new, 0)
        BY <2>2 DEF StoreTotals, AtWork
      <3>2. sess[r].new["paid"] = seen["paid"] /\ sess[r].new["status"] = seen["status"]
        BY <1>1, <2>2 DEF StoreTotals, ColumnInv
      <3> QED
        BY <1>1, <3>1, <3>2, UntouchedColumn
    <2> QED
      BY <2>1, <2>2
  <1>2. ColumnInv /\ [Next]_vars =>
            [\A r \in Requests :
                LET t == sess[r].txn
                IN  /\ Pay(r) \/ Refund(r) => hdr'[t].total = hdr[t].total
                    /\ StoreTotals(r) => /\ hdr'[t].paid = hdr[t].paid
                                         /\ hdr'[t].status = hdr[t].status]_vars
    BY <1>1
  <1> QED
    BY <1>2, ColumnInvariant, PTL DEF Spec, PaymentsSpareTotals

----------------------------------------------------------------------------
(* Sums over the lines of a transaction.                                   *)

\* The row a sum takes first.
Pick(S) == CHOOSE l \in S : TRUE

\* sum maps every set of these rows to the sum of their amounts.
Sums(sum, rows, S) ==
    sum = [T \in SUBSET S |->
              IF T = {} THEN 0 ELSE rows[Pick(T)].amount + sum[T \ {Pick(T)}]]

\* The sum of the amounts of some rows, as MapThenSumSet defines it.
Total(rows, S) == (CHOOSE sum : Sums(sum, rows, S))[S]

\* Among subsets of a finite set there is one that has no other of them in it:
\* what follows uses it in place of induction.
LEMMA MinimalSubset ==
    ASSUME NEW S, IsFiniteSet(S), NEW F \in SUBSET SUBSET S, F # {}
    PROVE  \E T \in F : \A U \in F : U \subseteq T => U = T
  <1>1. IsWellFoundedOn(StrictSubsetOrdering(S), SUBSET S)
    BY FS_StrictSubsetOrderingWellFounded, FS_FiniteSubsetsOfFinite
  <1>2. \E T \in F : \A U \in F : ~ (<<U, T>> \in StrictSubsetOrdering(S))
    BY <1>1, WFMin
  <1> QED
    BY <1>2 DEF StrictSubsetOrdering

\* Two functions that sum agree where both are defined.
LEMMA SumsAgree ==
    ASSUME NEW rows, NEW S, IsFiniteSet(S), NEW A \in SUBSET S, NEW B \in SUBSET S,
           NEW f, Sums(f, rows, A), NEW g, Sums(g, rows, B),
           NEW T \in SUBSET (A \cap B)
    PROVE  f[T] = g[T]
  <1> DEFINE F == {U \in SUBSET (A \cap B) : f[U] # g[U]}
  <1>1. SUFFICES ASSUME F # {} PROVE FALSE
    OBVIOUS
  <1>2. F \in SUBSET SUBSET S
    OBVIOUS
  <1>3. PICK U \in F : \A V \in F : V \subseteq U => V = U
    <2> HIDE DEF F
    <2> QED
      BY <1>1, <1>2, MinimalSubset
  <1> DEFINE V == U \ {Pick(U)}
  <1>4. U \subseteq A /\ U \subseteq B /\ f[U] # g[U]
    OBVIOUS
  <1>5. f[U] = IF U = {} THEN 0 ELSE rows[Pick(U)].amount + f[V]
    BY <1>4 DEF Sums
  <1>6. g[U] = IF U = {} THEN 0 ELSE rows[Pick(U)].amount + g[V]
    BY <1>4 DEF Sums
  <1>7. U # {} => Pick(U) \in U
    BY DEF Pick
  <1>8. U # {} => f[V] = g[V]
    BY <1>3, <1>4, <1>7
  <1> HIDE DEF V, F
  <1> QED
    BY <1>4, <1>5, <1>6, <1>8

\* The functions that the sums of two sets are taken from agree.
LEMMA TotalOfSums ==
    ASSUME NEW rows, NEW S, IsFiniteSet(S), NEW f, Sums(f, rows, S),
           NEW T \in SUBSET S, NEW g, Sums(g, rows, T)
    PROVE  Total(rows, T) = f[T]
  <1> DEFINE h == CHOOSE sum : Sums(sum, rows, T)
  <1>1. Sums(h, rows, T)
    OBVIOUS
  <1> HIDE DEF h
  <1>2. h[T] = f[T]
    BY <1>1, SumsAgree
  <1> QED
    BY <1>2 DEF Total, h

\* A function that sums exists for every finite set.
LEMMA SumsExist ==
    ASSUME NEW rows, NEW S, IsFiniteSet(S)
    PROVE  \E sum : Sums(sum, rows, S)
  <1> DEFINE F == {T \in SUBSET S : ~ \E sum : Sums(sum, rows, T)}
  <1>1. SUFFICES ASSUME F # {} PROVE FALSE
    OBVIOUS
  <1>2. F \in SUBSET SUBSET S
    OBVIOUS
  <1>3. PICK T \in F : \A U \in F : U \subseteq T => U = T
    <2> HIDE DEF F
    <2> QED
      BY <1>1, <1>2, MinimalSubset
  <1>4. T \subseteq S /\ ~ \E sum : Sums(sum, rows, T)
    OBVIOUS
  <1>5. \A U \in SUBSET T : U # T => \E sum : Sums(sum, rows, U)
    BY <1>3, <1>4
  <1> HIDE DEF F
  <1> DEFINE h == [U \in SUBSET T |->
                      IF U = {} THEN 0
                      ELSE rows[Pick(U)].amount + Total(rows, U \ {Pick(U)})]
  <1>6. ASSUME NEW U \in SUBSET T, U # T PROVE h[U] = Total(rows, U)
    <2>1. PICK f : Sums(f, rows, U)
      BY <1>5, <1>6
    <2>2. IsFiniteSet(U)
      BY <1>4, FS_Subset
    <2>3. Total(rows, U) = f[U]
      BY <2>1, <2>2, TotalOfSums
    <2>4. f[U] = IF U = {} THEN 0 ELSE rows[Pick(U)].amount + f[U \ {Pick(U)}]
      BY <2>1 DEF Sums
    <2>5. ASSUME U # {} PROVE f[U \ {Pick(U)}] = Total(rows, U \ {Pick(U)})
      <3> DEFINE V == U \ {Pick(U)}
      <3>1. V \in SUBSET U /\ V \in SUBSET T /\ V # T
        BY <1>6, <2>5 DEF Pick
      <3>2. PICK g : Sums(g, rows, V)
        BY <1>5, <3>1
      <3> HIDE DEF V
      <3>3. f[V] = Total(rows, V)
        BY <2>1, <2>2, <3>1, <3>2, TotalOfSums
      <3> QED
        BY <3>3 DEF V
    <2>6. h[U] = IF U = {} THEN 0 ELSE rows[Pick(U)].amount + Total(rows, U \ {Pick(U)})
      OBVIOUS
    <2> HIDE DEF h
    <2> QED
      BY <2>3, <2>4, <2>5, <2>6
  <1>7. \A U \in SUBSET T : U # {} => /\ U \ {Pick(U)} \in SUBSET T
                                        /\ U \ {Pick(U)} # T
    BY DEF Pick
  <1>8. \A U \in SUBSET T : U # {} => Total(rows, U \ {Pick(U)}) = h[U \ {Pick(U)}]
    BY <1>6, <1>7
  <1>9. h = [U \in SUBSET T |->
                IF U = {} THEN 0 ELSE rows[Pick(U)].amount + h[U \ {Pick(U)}]]
    BY <1>8
  <1> QED
    BY <1>4, <1>9 DEF Sums

\* The sum of no rows is 0, that of others the first amount and the rest.
LEMMA TotalDef ==
    ASSUME NEW rows, NEW S, IsFiniteSet(S)
    PROVE  Total(rows, S) =
              IF S = {} THEN 0
              ELSE rows[Pick(S)].amount + Total(rows, S \ {Pick(S)})
  <1>1. PICK f : Sums(f, rows, S)
    BY SumsExist
  <1>2. Total(rows, S) = f[S]
    BY <1>1, TotalOfSums
  <1>3. f[S] = IF S = {} THEN 0 ELSE rows[Pick(S)].amount + f[S \ {Pick(S)}]
    BY <1>1 DEF Sums
  <1>4. Total(rows, S \ {Pick(S)}) = f[S \ {Pick(S)}]
    <2> DEFINE V == S \ {Pick(S)}
    <2>1. V \in SUBSET S /\ IsFiniteSet(V)
      BY FS_Subset
    <2>2. PICK g : Sums(g, rows, V)
      BY <2>1, SumsExist
    <2> HIDE DEF V
    <2>3. Total(rows, V) = f[V]
      BY <1>1, <2>1, <2>2, TotalOfSums
    <2> QED
      BY <2>3 DEF V
  <1> QED
    BY <1>2, <1>3, <1>4

\* A sum of integers is one.
LEMMA TotalType ==
    ASSUME NEW rows, NEW S, IsFiniteSet(S), \A l \in S : rows[l].amount \in Int
    PROVE  Total(rows, S) \in Int
  <1> DEFINE F == {T \in SUBSET S : Total(rows, T) \notin Int}
  <1>1. SUFFICES ASSUME F # {} PROVE FALSE
    OBVIOUS
  <1>2. F \in SUBSET SUBSET S
    OBVIOUS
  <1>3. PICK T \in F : \A U \in F : U \subseteq T => U = T
    <2> HIDE DEF F
    <2> QED
      BY <1>1, <1>2, MinimalSubset
  <1>4. IsFiniteSet(T) /\ Total(rows, T) \notin Int
    BY FS_Subset
  <1>5. T = {} \/ Pick(T) \in T
    BY DEF Pick
  <1>6. T # {} => Total(rows, T \ {Pick(T)}) \in Int
    BY <1>3, <1>5
  <1>7. T # {} => rows[Pick(T)].amount \in Int
    BY <1>5
  <1>8. Total(rows, T) =
            IF T = {} THEN 0 ELSE rows[Pick(T)].amount + Total(rows, T \ {Pick(T)})
    BY <1>4, TotalDef
  <1> HIDE DEF F
  <1> QED
    BY <1>4, <1>6, <1>7, <1>8

\* The sums of rows with the same amounts are the same.
LEMMA TotalSame ==
    ASSUME NEW rows, NEW others, NEW S, IsFiniteSet(S),
           \A l \in S : rows[l].amount = others[l].amount
    PROVE  Total(rows, S) = Total(others, S)
  <1> DEFINE F == {T \in SUBSET S : Total(rows, T) # Total(others, T)}
  <1>1. SUFFICES ASSUME F # {} PROVE FALSE
    OBVIOUS
  <1>2. F \in SUBSET SUBSET S
    OBVIOUS
  <1>3. PICK T \in F : \A U \in F : U \subseteq T => U = T
    <2> HIDE DEF F
    <2> QED
      BY <1>1, <1>2, MinimalSubset
  <1>4. IsFiniteSet(T) /\ Total(rows, T) # Total(others, T)
    BY FS_Subset
  <1>5. T = {} \/ Pick(T) \in T
    BY DEF Pick
  <1>6. T # {} => Total(rows, T \ {Pick(T)}) = Total(others, T \ {Pick(T)})
    BY <1>3, <1>5
  <1>7. T # {} => rows[Pick(T)].amount = others[Pick(T)].amount
    BY <1>5
  <1>8. \A r : Total(r, T) =
            IF T = {} THEN 0 ELSE r[Pick(T)].amount + Total(r, T \ {Pick(T)})
    BY <1>4, TotalDef
  <1> HIDE DEF F
  <1> QED
    BY <1>4, <1>6, <1>7, <1>8

\* Any row can be taken out of a sum first.
LEMMA TotalRemove ==
    ASSUME NEW rows, NEW S, IsFiniteSet(S), \A l \in S : rows[l].amount \in Int,
           NEW x \in S
    PROVE  Total(rows, S) = rows[x].amount + Total(rows, S \ {x})
  <1> DEFINE F == {T \in SUBSET S :
                      \E l \in T : Total(rows, T) # rows[l].amount + Total(rows, T \ {l})}
  <1>1. SUFFICES ASSUME F # {} PROVE FALSE
    OBVIOUS
  <1>2. F \in SUBSET SUBSET S
    OBVIOUS
  <1>3. PICK T \in F : \A U \in F : U \subseteq T => U = T
    <2> HIDE DEF F
    <2> QED
      BY <1>1, <1>2, MinimalSubset
  <1>4. PICK l \in T : Total(rows, T) # rows[l].amount + Total(rows, T \ {l})
    BY <1>3
  <1> DEFINE p == Pick(T)
  <1>5. p \in T
    BY DEF Pick
  <1>6. IsFiniteSet(T) /\ T \in SUBSET S
    BY FS_Subset
  <1>7. Total(rows, T) = rows[p].amount + Total(rows, T \ {p})
    BY <1>5, <1>6, TotalDef
  <1>8. p # l
    BY <1>4, <1>7
  <1> DEFINE rest == Total(rows, (T \ {l}) \ {p})
  <1>9. Total(rows, T \ {p}) = rows[l].amount + rest
    <2>1. T \ {p} \in SUBSET S /\ T \ {p} \notin F
      BY <1>3, <1>5, <1>6
    <2>2. (T \ {p}) \ {l} = (T \ {l}) \ {p}
      OBVIOUS
    <2> QED
      BY <1>8, <2>1, <2>2
  <1>10. Total(rows, T \ {l}) = rows[p].amount + rest
    <2>1. T \ {l} \in SUBSET S /\ T \ {l} \notin F
      BY <1>3, <1>6
    <2> QED
      BY <1>5, <1>8, <2>1
  <1>11. rows[p].amount \in Int /\ rows[l].amount \in Int /\ rest \in Int
    <2>1. IsFiniteSet((T \ {l}) \ {p}) /\ (T \ {l}) \ {p} \in SUBSET S
      BY <1>6, FS_Subset
    <2> QED
      BY <1>5, <1>6, <2>1, TotalType
  <1> HIDE DEF rest
  <1>12. rows[l].amount + Total(rows, T \ {l}) = rows[p].amount + Total(rows, T \ {p})
    BY <1>9, <1>10, <1>11
  <1> QED
    BY <1>4, <1>7, <1>12

\* calculate_totals sums by Total.
LEMMA SumOfIsTotal ==
    ASSUME NEW t, NEW kind
    PROVE  SumOf(t, kind) = Total(line, {l \in LinesOf(t) : line[l].kind = kind})
  BY DEF SumOf, MapThenSumSet, MapThenFoldSet, Total, Sums, Pick

----------------------------------------------------------------------------
(* Types.                                                                  *)

\* The lines are finitely many, so that their sums are integers.
TypeInv == TypeOK /\ IsFiniteSet(DOMAIN line)

\* The sums of the lines of a transaction are integers.
LEMMA SumType ==
    ASSUME TypeInv, NEW t, NEW kind
    PROVE  SumOf(t, kind) \in Int
  <1> DEFINE S == {l \in LinesOf(t) : line[l].kind = kind}
  <1>1. S \subseteq DOMAIN line
    BY DEF LinesOf
  <1>2. IsFiniteSet(S) /\ \A l \in S : line[l].amount \in Int
    BY <1>1, FS_Subset DEF TypeInv, TypeOK, Line
  <1> HIDE DEF S
  <1>3. Total(line, S) \in Int
    BY <1>2, TotalType
  <1> QED
    BY <1>3, SumOfIsTotal DEF S

\* calculate_totals leaves a header.
LEMMA TotalledType ==
    ASSUME TypeInv, NEW row \in Header, NEW t
    PROVE  Totalled(row, t) \in Header
  <1> DEFINE products == SumOf(t, "PRODUCT")
             discounts == Magnitude(SumOf(t, "DISCOUNT"))
             taxes == SumOf(t, "TAX")
  <1>1. products \in Int /\ SumOf(t, "DISCOUNT") \in Int /\ taxes \in Int
    BY SumType
  <1>2. discounts \in Int
    BY <1>1 DEF Magnitude
  <1>3. Totalled(row, t) =
            [row EXCEPT !.subtotal = products, !.discount = discounts, !.tax = taxes,
                        !.total = products - discounts + taxes]
    BY DEF Totalled
  <1> HIDE DEF products, discounts, taxes
  <1>4. products - discounts + taxes \in Int
    BY <1>1, <1>2
  <1> DEFINE total == products - discounts + taxes
  <1> HIDE DEF total
  <1>5. [row EXCEPT !.subtotal = products, !.discount = discounts, !.tax = taxes,
                    !.total = total] \in Header
    BY <1>1, <1>2, <1>4 DEF Header, total
  <1> QED
    BY <1>3, <1>5 DEF total

\* An UPDATE of a header leaves a header.
LEMMA MergedType ==
    ASSUME NEW db \in Header, NEW seen \in Header, NEW new \in Header
    PROVE  Merged(db, seen, new) \in Header
  BY DEF Header, Merged, Written

\* What a session at work holds.
LEMMA SessionTyped ==
    ASSUME TypeInv, NEW r \in Requests, AtWork(r)
    PROVE  /\ sess[r].txn \in DOMAIN hdr /\ sess[r].seen \in Header
           /\ sess[r].kind = "totals" => sess[r].new \in Header
  BY DEF TypeInv, TypeOK, AtWork, Sessions

\* A commit of a header keeps the types.
LEMMA SaveType ==
    ASSUME TypeInv, NEW r \in Requests, AtWork(r),
           NEW new \in Header, NEW money \in Int, Save(r, new, money)
    PROVE  TypeInv'
  <1> DEFINE t == sess[r].txn
             merged == Merged(hdr[t], sess[r].seen, new)
  <1>1. t \in DOMAIN hdr /\ t \in Txns
    BY SessionTyped DEF TypeInv, TypeOK
  <1>2. merged \in Header
    BY <1>1, SessionTyped, MergedType DEF TypeInv, TypeOK
  <1>3. /\ hdr' = [hdr EXCEPT ![t] = merged] /\ cash' = [cash EXCEPT ![t] = cash[t] + money]
        /\ sess' = [sess EXCEPT ![r] = Idle] /\ line' = line
    BY DEF Save
  <1> HIDE DEF merged
  <1>4. DOMAIN hdr' = DOMAIN hdr /\ hdr' \in [DOMAIN hdr' -> Header]
    BY <1>1, <1>2, <1>3 DEF TypeInv, TypeOK
  <1>5. cash' \in [Txns -> Int]
    BY <1>1, <1>3 DEF TypeInv, TypeOK
  <1>6. sess' \in [Requests -> Sessions]
    BY <1>3 DEF TypeInv, TypeOK, Sessions, Idle
  <1>7. \A p \in Requests : sess'[p].kind # "idle" => sess'[p].txn \in DOMAIN hdr'
    BY <1>3, <1>4 DEF TypeInv, TypeOK, Idle
  <1> QED
    BY <1>3, <1>4, <1>5, <1>6, <1>7 DEF TypeInv, TypeOK

\* A step that writes no table keeps the types if the new session is one.
LEMMA SessionType ==
    ASSUME TypeInv, NEW r \in Requests, UNCHANGED <<hdr, line, cash>>,
           NEW s \in Sessions, sess' = [sess EXCEPT ![r] = s],
           s.kind # "idle" => s.txn \in DOMAIN hdr
    PROVE  TypeInv'
  BY DEF TypeInv, TypeOK

\* Headers with the same totals.
SameTotals(row, other) ==
    /\ row.subtotal = other.subtotal /\ row.discount = other.discount
    /\ row.tax = other.tax /\ row.total = other.total

\* The operations that commit a header they loaded: what they commit is one, and
\* has the totals it had unless they are what is stored.
LEMMA SavesHeader ==
    ASSUME TypeInv, NEW r \in Requests,
           \/ UpdateStatus(r) \/ Pay(r) \/ Refund(r) \/ Cancel(r) \/ MarkOverdue(r)
           \/ CompleteRentalReturn(r) \/ Put(r) \/ Delete(r) \/ StoreTotals(r)
    PROVE  \E new \in Header, money \in Int :
              Save(r, new, money) /\ (SameTotals(new, sess[r].seen) \/ StoreTotals(r))
  <1> DEFINE seen == sess[r].seen
  <1>1. seen \in Header /\ 0 \in Int
    BY SavesSomething, SessionTyped
  <1>2. CASE UpdateStatus(r)
    <2>1. PICK s \in Transitions[seen.status] : Save(r, [seen EXCEPT !.status = s], 0)
      BY <1>2 DEF UpdateStatus
    <2>2. s \in Statuses
      BY <1>1 DEF Header, Transitions, Statuses
    <2>3. /\ [seen EXCEPT !.status = s] \in Header
          /\ SameTotals([seen EXCEPT !.status = s], seen)
      BY <1>1, <2>2 DEF Header, SameTotals
    <2> QED
      BY <1>1, <2>1, <2>3
  <1>3. CASE Pay(r)
    <2>1. PICK a \in Amounts : Save(r, Paid(seen, a), a)
      BY <1>3 DEF Pay, ApplyPayment
    <2>2. a \in Int
      BY TxnAssumption DEF TxnAssumption
    <2>3. \A b \in Int, s \in PayStatuses : [seen EXCEPT !.paid = b, !.pay = s] \in Header
      BY <1>1 DEF Header
    <2>4. seen.paid + a \in Int /\ seen.pay \in PayStatuses
      BY <1>1, <2>2 DEF Header
    <2>5. Paid(seen, a) \in Header
      BY <2>3, <2>4 DEF Paid, PayStatuses
    <2>6. SameTotals(Paid(seen, a), seen)
      BY <1>1 DEF Paid, Header, SameTotals
    <2> QED
      BY <2>1, <2>2, <2>5, <2>6
  <1>4. CASE Refund(r)
    <2>1. PICK a \in Amounts : Save(r, Refunded(seen, a), -a)
      BY <1>4 DEF Refund, ProcessRefund
    <2>2. a \in Int /\ -a \in Int
      BY TxnAssumption DEF TxnAssumption
    <2>3. \A b \in Int :
              [seen EXCEPT !.paid = b, !.status = "REFUNDED", !.pay = "REFUNDED"] \in Header
      BY <1>1 DEF Header, Statuses, PayStatuses
    <2>4. seen.paid - a \in Int
      BY <1>1, <2>2 DEF Header
    <2>5. Refunded(seen, a) \in Header
      BY <2>3, <2>4 DEF Refunded
    <2>6. SameTotals(Refunded(seen, a), seen)
      BY <1>1 DEF Refunded, Header, SameTotals
    <2> QED
      BY <2>1, <2>2, <2>5, <2>6
  <1>5. CASE Cancel(r)
    <2>1. Cancelled(seen) \in Header /\ SameTotals(Cancelled(seen), seen)
      BY <1>1 DEF Cancelled, Header, Statuses, PayStatuses, SameTotals
    <2> QED
      BY <1>1, <1>5, <2>1 DEF Cancel
  <1>6. CASE MarkOverdue(r) \/ CompleteRentalReturn(r) \/ Delete(r)
    <2>1. /\ [seen EXCEPT !.pay = "OVERDUE"] \in Header
          /\ [seen EXCEPT !.status = "COMPLETED"] \in Header
          /\ [seen EXCEPT !.active = FALSE] \in Header
      BY <1>1 DEF Header, Statuses, PayStatuses
    <2>2. /\ SameTotals([seen EXCEPT !.pay = "OVERDUE"], seen)
          /\ SameTotals([seen EXCEPT !.status = "COMPLETED"], seen)
          /\ SameTotals([seen EXCEPT !.active = FALSE], seen)
      BY <1>1 DEF Header, SameTotals
    <2> QED
      BY <1>1, <1>6, <2>1, <2>2 DEF MarkOverdue, CompleteRentalReturn, Delete
  <1>7. CASE Put(r)
    <2>1. PICK e \in Edits :
             Save(r, [c \in DOMAIN seen |-> IF c \in DOMAIN e THEN e[c] ELSE seen[c]], 0)
      BY <1>7 DEF Put
    <2>2. /\ DOMAIN e \subseteq {"type", "status", "pay"}
          /\ "type" \in DOMAIN e => e.type \in Types
          /\ "status" \in DOMAIN e => e.status \in Statuses
          /\ "pay" \in DOMAIN e => e.pay \in PayStatuses
      BY TxnAssumption DEF TxnAssumption
    <2> DEFINE new == [c \in DOMAIN seen |-> IF c \in DOMAIN e THEN e[c] ELSE seen[c]]
    <2>3. new \in Header
      BY <1>1, <2>2 DEF Header
    <2>4. SameTotals(new, seen)
      BY <1>1, <2>2 DEF Header, SameTotals
    <2> HIDE DEF new
    <2> QED
      BY <1>1, <2>1, <2>3, <2>4 DEF new
  <1>8. CASE StoreTotals(r)
    BY <1>1, <1>8, SavesSomething, SessionTyped DEF StoreTotals
  <1> QED
    BY <1>2, <1>3, <1>4, <1>5, <1>6, <1>7, <1>8

\* Every step keeps the types.
LEMMA NextTypes == ASSUME TypeInv, Next PROVE TypeInv'
  <1>1. PICK r \in Requests : Serve(r) \/ Fail(r)
    BY DEF Next
  <1> DEFINE seen == sess[r].seen
  <1>2. CASE Create(r)
    <2>1. PICK t \in Txns \ DOMAIN hdr, o \in Openings :
             hdr' = [n \in DOMAIN hdr \cup {t} |->
                        IF n = t
                        THEN [type |-> o.type, status |-> o.status, pay |-> o.pay,
                              active |-> TRUE, subtotal |-> 0, discount |-> 0, tax |-> 0,
                              total |-> 0, paid |-> 0]
                        ELSE hdr[n]]
      BY <1>2 DEF Create
    <2>2. o.type \in Types /\ o.status \in Statuses /\ o.pay \in PayStatuses
      BY TxnAssumption DEF TxnAssumption
    <2>3. [type |-> o.type, status |-> o.status, pay |-> o.pay,
           active |-> TRUE, subtotal |-> 0, discount |-> 0, tax |-> 0,
           total |-> 0, paid |-> 0] \in Header
      BY <2>2 DEF Header
    <2>4. DOMAIN hdr' = DOMAIN hdr \cup {t} /\ hdr' \in [DOMAIN hdr' -> Header]
      BY <2>1, <2>3 DEF TypeInv, TypeOK
    <2>5. UNCHANGED <<line, sess, cash>>
      BY <1>2 DEF Create
    <2> QED
      BY <2>4, <2>5 DEF TypeInv, TypeOK
  <1>3. CASE Load(r)
    <2>1. PICK t \in DOMAIN hdr :
             sess' = [sess EXCEPT ![r] = [kind |-> "header", txn |-> t, seen |-> hdr[t]]]
      BY <1>3 DEF Load
    <2>2. [kind |-> "header", txn |-> t, seen |-> hdr[t]] \in Sessions
      BY DEF TypeInv, TypeOK, Sessions
    <2> QED
      BY <1>3, <2>1, <2>2, SessionType DEF Load
  <1>4. CASE \/ UpdateStatus(r) \/ Pay(r) \/ Refund(r) \/ Cancel(r) \/ MarkOverdue(r)
             \/ CompleteRentalReturn(r) \/ Put(r) \/ Delete(r) \/ StoreTotals(r)
    BY <1>4, SavesSomething, SavesHeader, SaveType
  <1>5. CASE AddLine(r)
    <2>1. PICK l \in LineIds \ DOMAIN line, i \in LineInputs :
             line' = [k \in DOMAIN line \cup {l} |->
                         IF k = l
                         THEN [txn |-> sess[r].txn, kind |-> i.kind, amount |-> i.amount]
                         ELSE line[k]]
      BY <1>5 DEF AddLine
    <2>2. /\ AtWork(r) /\ UNCHANGED <<hdr, cash>>
          /\ sess' = [sess EXCEPT ![r] =
                         [kind |-> "recalculate", txn |-> sess[r].txn, seen |-> seen]]
      BY <1>5 DEF AddLine, HasHeader, AtWork
    <2>3. sess[r].txn \in DOMAIN hdr /\ sess[r].txn \in Txns /\ seen \in Header
      BY <2>2, SessionTyped DEF TypeInv, TypeOK
    <2>4. i.kind \in Kinds /\ i.amount \in Int
      BY TxnAssumption DEF TxnAssumption
    <2>5. [txn |-> sess[r].txn, kind |-> i.kind, amount |-> i.amount] \in Line
      BY <2>3, <2>4 DEF Line
    <2>6. DOMAIN line' = DOMAIN line \cup {l} /\ line' \in [DOMAIN line' -> Line]
      BY <2>1, <2>5 DEF TypeInv, TypeOK
    <2>7. \A k \in DOMAIN line' : line'[k].txn \in DOMAIN hdr
      BY <2>1, <2>3 DEF TypeInv, TypeOK
    <2>8. IsFiniteSet(DOMAIN line')
      BY <2>6, FS_AddElement DEF TypeInv
    <2>9. [kind |-> "recalculate", txn |-> sess[r].txn, seen |-> seen] \in Sessions
      BY <2>3 DEF Sessions
    <2>10. sess' \in [Requests -> Sessions]
      BY <2>2, <2>9 DEF TypeInv, TypeOK
    <2>11. \A p \in Requests : sess'[p].kind # "idle" => sess'[p].txn \in DOMAIN hdr
      BY <2>2, <2>3 DEF TypeInv, TypeOK
    <2> QED
      BY <2>2, <2>6, <2>7, <2>8, <2>10, <2>11 DEF TypeInv, TypeOK
  <1>6. CASE ReadLines(r)
    <2> DEFINE new == Totalled(seen, sess[r].txn)
    <2>1. /\ AtWork(r) /\ UNCHANGED <<hdr, line, cash>>
          /\ sess' = [sess EXCEPT ![r] =
                         [kind |-> "totals", txn |-> sess[r].txn, seen |-> seen, new |-> new]]
      BY <1>6 DEF ReadLines, AtWork
    <2>2. sess[r].txn \in DOMAIN hdr /\ sess[r].txn \in Txns /\ seen \in Header
      BY <2>1, SessionTyped DEF TypeInv, TypeOK
    <2>3. new \in Header
      BY <2>2, TotalledType
    <2> HIDE DEF new, seen
    <2>4. [kind |-> "totals", txn |-> sess[r].txn, seen |-> seen, new |-> new] \in Sessions
      BY <2>2, <2>3 DEF Sessions
    <2> QED
      BY <2>1, <2>2, <2>4, SessionType
  <1>7. CASE DiscountLine(r)
    <2>1. PICK l \in DOMAIN line, a \in Discounted :
             line' = [line EXCEPT ![l].amount =
                         IF line[l].kind = "DISCOUNT" THEN -Magnitude(a) ELSE a]
      BY <1>7 DEF DiscountLine
    <2>2. a \in Int /\ -Magnitude(a) \in Int
      BY TxnAssumption DEF TxnAssumption, Magnitude
    <2>3. line[l] \in Line
      BY DEF TypeInv, TypeOK
    <2> DEFINE new == [line[l] EXCEPT !.amount =
                          IF line[l].kind = "DISCOUNT" THEN -Magnitude(a) ELSE a]
    <2>4. new \in Line /\ new.txn = line[l].txn
      BY <2>2, <2>3 DEF Line
    <2>5. line' = [line EXCEPT ![l] = new]
      BY <2>1
    <2> HIDE DEF new
    <2>6. /\ DOMAIN line' = DOMAIN line /\ line' \in [DOMAIN line -> Line]
          /\ \A k \in DOMAIN line : line'[k].txn = line[k].txn
      BY <2>4, <2>5 DEF TypeInv, TypeOK
    <2>7. UNCHANGED <<hdr, sess, cash>>
      BY <1>7 DEF DiscountLine
    <2> QED
      BY <2>6, <2>7 DEF TypeInv, TypeOK
  <1>8. CASE Refuse(r) \/ Fail(r)
    <2>1. Idle \in Sessions /\ Idle.kind = "idle"
      BY DEF Idle, Sessions
    <2> QED
      BY <1>8, <2>1, SessionType DEF Refuse, Fail
  <1> QED
    BY <1>1, <1>2, <1>3, <1>4, <1>5, <1>6, <1>7, <1>8 DEF Serve

LEMMA TypeInvariant == Spec => []TypeInv
  <1>1. Init => TypeInv
    BY FS_EmptySet DEF Init, TypeInv, TypeOK, Idle, Sessions
  <1>2. TypeInv /\ UNCHANGED vars => TypeInv'
    BY DEF vars, TypeInv, TypeOK
  <1> QED
    BY <1>1, <1>2, NextTypes, PTL DEF Spec

\* Tables and sessions hold what they should, and totals are integers, however
\* many requests overlap and fail.
THEOREM TxnTypeCorrect == Spec => []TypeOK
  <1>1. TypeInv => TypeOK
    BY DEF TypeInv
  <1> QED
    BY <1>1, TypeInvariant, PTL

\* Served one at a time on each transaction, no payment exceeds what is due of
\* the total in the table and of the money taken.
THEOREM PaidWithinBalance == Spec /\ []Exclusive => PaymentWithinBalance
  <1>1. ASSUME TypeInv, SerialInv, NEW r \in Requests, NEW a \in Amounts,
               ApplyPayment(r, a)
        PROVE  LET t == sess[r].txn IN cash[t] + a <= hdr[t].total
    <2> DEFINE t == sess[r].txn
               seen == sess[r].seen
    <2>1. AtWork(r) /\ CanPay(seen, a)
      BY <1>1 DEF ApplyPayment, HasHeader, AtWork
    <2>2. t \in DOMAIN hdr /\ seen = hdr[t] /\ cash[t] = seen.paid
      BY <1>1, <2>1, SessionTyped DEF SerialInv
    <2>3. seen.total \in Int /\ seen.paid \in Int
      BY <1>1, <2>1, SessionTyped DEF Header
    <2>4. a \in Int
      BY TxnAssumption DEF TxnAssumption
    <2> HIDE DEF seen, t
    <2>5. seen.paid + a <= seen.total
      BY <2>1, <2>3, <2>4 DEF CanPay, Balance
    <2> QED
      BY <2>2, <2>5 DEF t
  <1>2. TypeInv /\ SerialInv /\ [Next]_vars =>
            [\A r \in Requests, a \in Amounts :
                ApplyPayment(r, a) =>
                    LET t == sess[r].txn IN cash[t] + a <= hdr[t].total]_vars
    BY <1>1
  <1> QED
    BY <1>2, TypeInvariant, SerialInvariant, PTL DEF Spec, PaymentWithinBalance

----------------------------------------------------------------------------
(* The totals of a transaction and its lines.                              *)

\* Every line a transaction has counts in the sum of its kind, at the next state
\* as at this one.
LEMMA SumOfIsTotalNext ==
    ASSUME NEW t, NEW kind
    PROVE  SumOf(t, kind)' = Total(line', {l \in LinesOf(t)' : line'[l].kind = kind})
  BY DEF SumOf, MapThenSumSet, MapThenFoldSet, Total, Sums, Pick

\* The sums of a transaction whose lines stay as they are stay what they are.
LEMMA SumsStay ==
    ASSUME TypeInv, NEW t, LinesOf(t)' = LinesOf(t), \A l \in LinesOf(t) : line'[l] = line[l],
           NEW row
    PROVE  Totalled(row, t)' = Totalled(row, t)
  <1>1. ASSUME NEW kind PROVE SumOf(t, kind)' = SumOf(t, kind)
    <2> DEFINE S == {l \in LinesOf(t) : line[l].kind = kind}
    <2>1. {l \in LinesOf(t)' : line'[l].kind = kind} = S
      OBVIOUS
    <2>2. S \subseteq DOMAIN line
      BY DEF LinesOf
    <2>3. IsFiniteSet(S)
      BY <2>2, FS_Subset DEF TypeInv
    <2>4. \A l \in S : line'[l].amount = line[l].amount
      OBVIOUS
    <2>5. SumOf(t, kind)' = Total(line', S) /\ SumOf(t, kind) = Total(line, S)
      BY <2>1, SumOfIsTotal, SumOfIsTotalNext
    <2> HIDE DEF S
    <2>6. \A rows : (\A l \in S : line'[l].amount = rows[l].amount) =>
                        Total(line', S) = Total(rows, S)
      BY <2>3, TotalSame
    <2> QED
      BY <2>4, <2>5, <2>6
  <1>2. /\ SumOf(t, "PRODUCT")' = SumOf(t, "PRODUCT")
        /\ SumOf(t, "DISCOUNT")' = SumOf(t, "DISCOUNT")
        /\ SumOf(t, "TAX")' = SumOf(t, "TAX")
    BY <1>1
  <1> QED
    BY <1>2 DEF Totalled, Magnitude

\* The sum of one kind of line after a line is added: its amount more, if the
\* line is of that kind.
LEMMA SumAfterAdding ==
    ASSUME TypeInv, NEW t, NEW l, l \notin DOMAIN line, NEW new \in Line, new.txn = t,
           line' = [k \in DOMAIN line \cup {l} |-> IF k = l THEN new ELSE line[k]],
           NEW kind
    PROVE  SumOf(t, kind)' = SumOf(t, kind) + (IF new.kind = kind THEN new.amount ELSE 0)
  <1> DEFINE S == {k \in LinesOf(t) : line[k].kind = kind}
             N == {k \in LinesOf(t)' : line'[k].kind = kind}
  <1>1. /\ S \subseteq DOMAIN line /\ l \notin S
        /\ \A k \in S : line[k].amount \in Int
    BY DEF LinesOf, TypeInv, TypeOK, Line
  <1>2. N = IF new.kind = kind THEN S \cup {l} ELSE S
    BY DEF LinesOf
  <1>3. line'[l] = new /\ \A k \in S : line'[k] = line[k]
    BY <1>1
  <1>4. new.amount \in Int
    BY DEF Line
  <1>5. SumOf(t, kind)' = Total(line', N) /\ SumOf(t, kind) = Total(line, S)
    BY SumOfIsTotal, SumOfIsTotalNext
  <1>6. IsFiniteSet(S) /\ IsFiniteSet(S \cup {l})
    BY <1>1, FS_Subset, FS_AddElement DEF TypeInv
  <1> HIDE DEF S, N
  <1>7. Total(line, S) \in Int
    BY <1>1, <1>6, TotalType
  <1>8. PICK rows : rows = line'
    OBVIOUS
  <1>9. Total(rows, S) = Total(line, S)
    BY <1>3, <1>6, <1>8, TotalSame
  <1>10. Total(rows, S \cup {l}) = new.amount + Total(rows, S)
    <2>1. \A k \in S \cup {l} : rows[k].amount \in Int
      BY <1>1, <1>3, <1>4, <1>8
    <2>2. (S \cup {l}) \ {l} = S
      BY <1>1
    <2>3. Total(rows, S \cup {l}) = rows[l].amount + Total(rows, (S \cup {l}) \ {l})
      BY <1>6, <2>1, TotalRemove
    <2> QED
      BY <1>3, <1>8, <2>2, <2>3
  <1> QED
    BY <1>2, <1>4, <1>5, <1>7, <1>8, <1>9, <1>10

\* A line that add_transaction_line commits adds its amount to the sum of its
\* kind that calculate_totals takes, and nothing to the other sums.
THEOREM AddedLineCounts ==
    Spec => [][\A r \in Requests, t \in Txns : AddLine(r) /\ t = sess[r].txn =>
                  \E i \in LineInputs : \A kind \in Kinds :
                     SumOf(t, kind)' =
                         SumOf(t, kind) + (IF i.kind = kind THEN i.amount ELSE 0)]_vars
  <1>1. ASSUME TypeInv, NEW r \in Requests, NEW t \in Txns, AddLine(r), t = sess[r].txn
        PROVE  \E i \in LineInputs : \A kind \in Kinds :
                  SumOf(t, kind)' =
                      SumOf(t, kind) + (IF i.kind = kind THEN i.amount ELSE 0)
    <2>1. PICK l \in LineIds \ DOMAIN line, i \in LineInputs :
             line' = [k \in DOMAIN line \cup {l} |->
                         IF k = l
                         THEN [txn |-> sess[r].txn, kind |-> i.kind, amount |-> i.amount]
                         ELSE line[k]]
      BY <1>1 DEF AddLine
    <2> DEFINE new == [txn |-> t, kind |-> i.kind, amount |-> i.amount]
    <2>2. new \in Line /\ new.txn = t /\ new.kind = i.kind /\ new.amount = i.amount
      BY <1>1, TxnAssumption DEF TxnAssumption, Line
    <2>3. line' = [k \in DOMAIN line \cup {l} |-> IF k = l THEN new ELSE line[k]]
      BY <1>1, <2>1
    <2> HIDE DEF new
    <2>4. ASSUME NEW kind \in Kinds
          PROVE  SumOf(t, kind)' = SumOf(t, kind) + (IF i.kind = kind THEN i.amount ELSE 0)
      BY <1>1, <2>2, <2>3, SumAfterAdding
    <2> QED
      BY <2>4
  <1>2. TypeInv /\ [Next]_vars =>
            [\A r \in Requests, t \in Txns : AddLine(r) /\ t = sess[r].txn =>
                \E i \in LineInputs : \A kind \in Kinds :
                   SumOf(t, kind)' =
                       SumOf(t, kind) + (IF i.kind = kind THEN i.amount ELSE 0)]_vars
    BY <1>1
  <1> QED
    BY <1>2, TypeInvariant, PTL DEF Spec

\* Totalled depends on the totals of a header in no way.
LEMMA TotalledSame ==
    ASSUME NEW row \in Header, NEW other \in Header, NEW t,
           row = Totalled(row, t), SameTotals(other, row)
    PROVE  other = Totalled(other, t)
  <1> DEFINE products == SumOf(t, "PRODUCT")
             discounts == Magnitude(SumOf(t, "DISCOUNT"))
             taxes == SumOf(t, "TAX")
  <1>1. \A r : Totalled(r, t) =
                  [r EXCEPT !.subtotal = products, !.discount = discounts, !.tax = taxes,
                            !.total = products - discounts + taxes]
    BY DEF Totalled
  <1> DEFINE total == products - discounts + taxes
  <1> HIDE DEF products, discounts, taxes, total
  <1> DEFINE new == [row EXCEPT !.subtotal = products, !.discount = discounts,
                                !.tax = taxes, !.total = total]
  <1>2. /\ row.subtotal = products /\ row.discount = discounts
        /\ row.tax = taxes /\ row.total = total
    <2>1. row = new
      BY <1>1 DEF total
    <2>2. /\ new.subtotal = products /\ new.discount = discounts
          /\ new.tax = taxes /\ new.total = total
      BY DEF Header
    <2> HIDE DEF new
    <2> QED
      BY <2>1, <2>2
  <1>3. other = [other EXCEPT !.subtotal = products, !.discount = discounts,
                              !.tax = taxes, !.total = total]
    BY <1>2 DEF Header, SameTotals
  <1> QED
    BY <1>1, <1>3 DEF total

\* Totals that have been recalculated are those of the lines.
LEMMA TotalledTwice ==
    ASSUME NEW row \in Header, NEW t
    PROVE  Totalled(row, t) = Totalled(Totalled(row, t), t)
  <1> DEFINE products == SumOf(t, "PRODUCT")
             discounts == Magnitude(SumOf(t, "DISCOUNT"))
             taxes == SumOf(t, "TAX")
  <1>1. \A r : Totalled(r, t) =
                  [r EXCEPT !.subtotal = products, !.discount = discounts, !.tax = taxes,
                            !.total = products - discounts + taxes]
    BY DEF Totalled
  <1> DEFINE total == products - discounts + taxes
             new == [row EXCEPT !.subtotal = products, !.discount = discounts,
                                !.tax = taxes, !.total = total]
  <1> HIDE DEF products, discounts, taxes, total
  <1>2. new = [new EXCEPT !.subtotal = products, !.discount = discounts,
                          !.tax = taxes, !.total = total]
    BY DEF Header
  <1> HIDE DEF new
  <1>3. Totalled(row, t) = new /\ Totalled(new, t) = new
    BY <1>1, <1>2 DEF total, new
  <1> QED
    BY <1>3

\* An UPDATE leaves the totals that the request did not change, and stores the
\* ones it computed where nobody else has stored any.
LEMMA MergedTotals ==
    ASSUME NEW db \in Header, NEW seen \in Header, NEW new \in Header
    PROVE  /\ Merged(db, seen, new) \in Header
           /\ SameTotals(new, seen) => SameTotals(Merged(db, seen, new), db)
           /\ SameTotals(db, seen) => SameTotals(Merged(db, seen, new), new)
  <1>1. /\ Merged(db, seen, new).subtotal = Written(db.subtotal, seen.subtotal, new.subtotal)
        /\ Merged(db, seen, new).discount = Written(db.discount, seen.discount, new.discount)
        /\ Merged(db, seen, new).tax = Written(db.tax, seen.tax, new.tax)
        /\ Merged(db, seen, new).total = Written(db.total, seen.total, new.total)
    BY DEF Header, Merged
  <1> QED
    BY <1>1, MergedType DEF SameTotals, Written

\* The operations that commit a header they loaded: the totals of the others stay,
\* and those of this one too unless they are what is stored.
LEMMA SaveTotals ==
    ASSUME TypeInv, NEW r \in Requests,
           \/ UpdateStatus(r) \/ Pay(r) \/ Refund(r) \/ Cancel(r) \/ MarkOverdue(r)
           \/ CompleteRentalReturn(r) \/ Put(r) \/ Delete(r),
           NEW t \in DOMAIN hdr
    PROVE  hdr'[t] \in Header /\ SameTotals(hdr'[t], hdr[t]) /\ UNCHANGED line
  <1>1. PICK new \in Header, money \in Int :
            Save(r, new, money) /\ (SameTotals(new, sess[r].seen) \/ StoreTotals(r))
    BY SavesHeader
  <1>2. HasHeader(r)
    BY DEF UpdateStatus, Pay, ApplyPayment, Refund, ProcessRefund, Cancel, MarkOverdue,
           CompleteRentalReturn, Put, Delete
  <1>3. SameTotals(new, sess[r].seen)
    BY <1>1, <1>2 DEF HasHeader, StoreTotals
  <1>4. sess[r].txn \in DOMAIN hdr /\ sess[r].seen \in Header /\ hdr[t] \in Header
    BY <1>2, SessionTyped DEF HasHeader, AtWork, TypeInv, TypeOK
  <1>5. hdr' = [hdr EXCEPT ![sess[r].txn] = Merged(@, sess[r].seen, new)] /\ line' = line
    BY <1>1 DEF Save
  <1>6. CASE t = sess[r].txn
    BY <1>3, <1>4, <1>5, <1>6, MergedTotals
  <1>7. CASE t # sess[r].txn
    BY <1>4, <1>5, <1>7 DEF SameTotals
  <1> QED
    BY <1>5, <1>6, <1>7

\* A line that is added belongs to the transaction the request read.
LEMMA AddsToOne ==
    ASSUME NEW r \in Requests, AddLine(r)
    PROVE  /\ UNCHANGED hdr
           /\ \A t : t # sess[r].txn =>
                 LinesOf(t)' = LinesOf(t) /\ \A l \in LinesOf(t) : line'[l] = line[l]
  <1>1. PICK l \in LineIds \ DOMAIN line, i \in LineInputs :
          line' = [k \in DOMAIN line \cup {l} |->
                      IF k = l
                      THEN [txn |-> sess[r].txn, kind |-> i.kind, amount |-> i.amount]
                      ELSE line[k]]
    BY DEF AddLine
  <1>2. /\ DOMAIN line' = DOMAIN line \cup {l} /\ line'[l].txn = sess[r].txn
        /\ \A k \in DOMAIN line : line'[k] = line[k]
    BY <1>1
  <1> QED
    BY <1>2 DEF AddLine, LinesOf

\* Whatever overlaps, fails or is discounted: a closed transaction gets a line or
\* another total only from a request that read it while it was open.
THEOREM ClosedBooksKept == Spec => ClosedBooksStay
  <1> DEFINE Kept(t) == hdr'[t].total = hdr[t].total /\ LinesOf(t)' = LinesOf(t)
             Late(t) == \E r \in Requests : /\ AddLine(r) \/ StoreTotals(r)
                                            /\ sess[r].txn = t
                                            /\ sess[r].seen.status \notin Final
  <1>1. ASSUME TypeInv, ColumnInv, Next, NEW t \in DOMAIN hdr
        PROVE  Kept(t) \/ Late(t)
    <2>1. PICK r \in Requests : Serve(r) \/ Fail(r)
      BY <1>1 DEF Next
    <2>2. CASE Create(r) \/ Load(r) \/ ReadLines(r) \/ Refuse(r) \/ Fail(r)
      BY <2>2 DEF Create, Load, ReadLines, Refuse, Fail, LinesOf
    <2>3. CASE \/ UpdateStatus(r) \/ Pay(r) \/ Refund(r) \/ Cancel(r) \/ MarkOverdue(r)
               \/ CompleteRentalReturn(r) \/ Put(r) \/ Delete(r)
      BY <1>1, <2>3, SaveTotals DEF SameTotals, LinesOf
    <2>4. CASE DiscountLine(r)
      <3>1. PICK l \in DOMAIN line : \E a : line' = [line EXCEPT ![l].amount = a]
        BY <2>4 DEF DiscountLine
      <3>2. DOMAIN line' = DOMAIN line /\ \A k \in DOMAIN line : line'[k].txn = line[k].txn
        BY <1>1, <3>1 DEF TypeInv, TypeOK, Line
      <3> QED
        BY <2>4, <3>2 DEF DiscountLine, LinesOf
    <2>5. CASE AddLine(r)
      <3>1. sess[r].seen.status \notin Final
        BY <2>5 DEF AddLine, Open
      <3> QED
        BY <2>5, <3>1, AddsToOne
    <2>6. CASE StoreTotals(r)
      <3>1. sess[r].seen.status \notin Final
        BY <1>1, <2>6 DEF StoreTotals, ColumnInv, Open
      <3>2. t # sess[r].txn => Kept(t)
        BY <2>6 DEF StoreTotals, Save, LinesOf
      <3> QED
        BY <2>6, <3>1, <3>2
    <2> QED
      BY <2>1, <2>2, <2>3, <2>4, <2>5, <2>6 DEF Serve
  <1>2. TypeInv /\ ColumnInv /\ [Next]_vars =>
            [\A t \in DOMAIN hdr :
                hdr[t].status \in Final =>
                    \/ hdr'[t].total = hdr[t].total /\ LinesOf(t)' = LinesOf(t)
                    \/ \E r \in Requests : /\ AddLine(r) \/ StoreTotals(r)
                                          /\ sess[r].txn = t
                                          /\ sess[r].seen.status \notin Final]_vars
    BY <1>1
  <1> QED
    BY <1>2, TypeInvariant, ColumnInvariant, PTL DEF Spec, ClosedBooksStay

----------------------------------------------------------------------------
(* How the totals of a transaction and its lines part.                     *)

\* A step that leaves the lines and the totals of a transaction, and the sessions
\* that are about to store its totals, leaves it accounted for.
LEMMA AccountedStays ==
    ASSUME TypeInv, NEW t \in DOMAIN hdr, Accounted(t),
           LinesOf(t)' = LinesOf(t), \A l \in LinesOf(t) : line'[l] = line[l],
           hdr'[t] \in Header, SameTotals(hdr'[t], hdr[t]),
           \A p \in Requests :
              sess[p].kind \in {"recalculate", "totals"} /\ sess[p].txn = t => sess'[p] = sess[p]
    PROVE  Accounted(t)'
  <1>1. ASSUME NEW row PROVE Totalled(row, t)' = Totalled(row, t)
    BY SumsStay
  <1>2. CASE hdr[t] = Totalled(hdr[t], t)
    <2>1. PICK row \in Header : row = hdr'[t]
      OBVIOUS
    <2>2. hdr[t] \in Header
      BY DEF TypeInv, TypeOK
    <2>3. row = Totalled(row, t)
      BY <1>2, <2>1, <2>2, TotalledSame
    <2>4. hdr'[t] = Totalled(hdr[t], t)'
      BY <1>1, <2>1, <2>3
    <2> QED
      BY <2>4 DEF Accounted
  <1>3. ASSUME NEW p \in Requests, sess[p].kind = "recalculate", sess[p].txn = t
        PROVE  Accounted(t)'
    BY <1>3 DEF Accounted
  <1>4. ASSUME NEW p \in Requests, sess[p].kind = "totals", sess[p].txn = t,
               sess[p].new = Totalled(sess[p].new, t)
        PROVE  Accounted(t)'
    <2>1. PICK row : row = sess[p].new
      OBVIOUS
    <2>2. sess'[p] = sess[p]
      BY <1>4
    <2>3. sess'[p].new = Totalled(sess[p].new, t)'
      BY <1>1, <1>4, <2>1, <2>2
    <2> QED
      BY <1>4, <2>2, <2>3 DEF Accounted
  <1> QED
    BY <1>2, <1>3, <1>4 DEF Accounted

\* Sums read for totals are those of the lines until a line changes.
LEMMA ReadAccounted ==
    ASSUME TypeInv, NEW r \in Requests, ReadLines(r), NEW t, t = sess[r].txn
    PROVE  Accounted(t)'
  <1>1. PICK seen \in Header : seen = sess[r].seen
    BY SessionTyped DEF ReadLines, AtWork
  <1>2. sess'[r] = [kind |-> "totals", txn |-> t, seen |-> seen, new |-> Totalled(seen, t)]
    BY <1>1 DEF ReadLines, TypeInv, TypeOK
  <1>3. PICK row : row = sess'[r].new
    OBVIOUS
  <1>4. row = Totalled(row, t)
    BY <1>1, <1>2, <1>3, TotalledTwice
  <1>5. Totalled(row, t)' = Totalled(row, t)
    BY SumsStay DEF ReadLines, LinesOf
  <1>6. sess'[r].new = Totalled(sess[r].new, t)'
    BY <1>3, <1>4, <1>5
  <1> QED
    BY <1>2, <1>6 DEF Accounted

\* A request nobody overtook stores the totals of the lines.
LEMMA StoreAccounted ==
    ASSUME TypeInv, NEW r \in Requests, StoreTotals(r), ~ Overtaken(r), NEW t, t = sess[r].txn
    PROVE  Accounted(t)'
  <1> DEFINE seen == sess[r].seen
             new == sess[r].new
  <1>1. seen \in Header /\ new \in Header /\ t \in DOMAIN hdr /\ hdr[t] \in Header
    BY SessionTyped DEF StoreTotals, AtWork, TypeInv, TypeOK
  <1>2. SameTotals(hdr[t], seen) /\ new = Totalled(new, t)
    <2>1. \A c \in {"subtotal", "discount", "tax", "total"} : hdr[t][c] = seen[c]
      BY DEF Overtaken
    <2> QED
      BY <2>1 DEF Overtaken, SameTotals
  <1>3. hdr'[t] = Merged(hdr[t], seen, new) /\ line' = line
    BY <1>1 DEF StoreTotals, Save
  <1>4. hdr'[t] \in Header /\ SameTotals(hdr'[t], new)
    <2>1. PICK db \in Header, was \in Header, stored \in Header :
              db = hdr[t] /\ was = seen /\ stored = new
      BY <1>1
    <2>2. SameTotals(db, was) => SameTotals(Merged(db, was, stored), stored)
      BY MergedTotals
    <2>3. Merged(db, was, stored) \in Header
      BY MergedTotals
    <2>4. SameTotals(db, was) /\ hdr'[t] = Merged(db, was, stored)
      BY <1>2, <1>3, <2>1
    <2> QED
      BY <2>1, <2>2, <2>3, <2>4
  <1>5. PICK row \in Header : row = hdr'[t]
    BY <1>4
  <1>6. PICK stored \in Header : stored = new
    BY <1>1
  <1>7. row = Totalled(row, t)
    BY <1>2, <1>4, <1>5, <1>6, TotalledSame
  <1>8. Totalled(row, t)' = Totalled(row, t)
    BY <1>3, SumsStay DEF LinesOf
  <1>9. hdr'[t] = Totalled(hdr[t], t)'
    BY <1>5, <1>7, <1>8
  <1> QED
    BY <1>9 DEF Accounted

\* However many requests overlap, the totals of a transaction stop being those of
\* its lines only where a request fails between the two commits, where one that
\* was overtaken stores its totals, or where a line is discounted.
THEOREM TotalsAccounted == Spec => TotalsStayTrue
  <1> DEFINE Struck(t) == \E r \in Requests :
                             /\ Fail(r) \/ (StoreTotals(r) /\ Overtaken(r))
                             /\ sess[r].txn = t
             Reduced(t) == \E r \in Requests, l \in LinesOf(t) :
                              DiscountLine(r) /\ line'[l] # line[l]
  <1>1. ASSUME TypeInv, Next, NEW t \in DOMAIN hdr, Accounted(t)
        PROVE  Accounted(t)' \/ Struck(t) \/ Reduced(t)
    <2>1. PICK r \in Requests : Serve(r) \/ Fail(r)
      BY <1>1 DEF Next
    <2>2. hdr[t] \in Header /\ SameTotals(hdr[t], hdr[t])
      BY <1>1 DEF TypeInv, TypeOK, SameTotals
    <2>3. ASSUME hdr'[t] = hdr[t], UNCHANGED line,
                 sess[r].kind \in {"recalculate", "totals"} => sess[r].txn # t,
                 \A p \in Requests \ {r} : sess'[p] = sess[p]
          PROVE  Accounted(t)'
      <3>1. \A p \in Requests :
                sess[p].kind \in {"recalculate", "totals"} /\ sess[p].txn = t =>
                    sess'[p] = sess[p]
        BY <2>3
      <3>2. LinesOf(t)' = LinesOf(t) /\ \A l \in LinesOf(t) : line'[l] = line[l]
        BY <2>3 DEF LinesOf
      <3> QED
        BY <1>1, <2>2, <2>3, <3>1, <3>2, AccountedStays
    <2>4. CASE Create(r)
      <3>1. hdr'[t] = hdr[t] /\ UNCHANGED <<line, sess>> /\ sess[r].kind = "idle"
        BY <1>1, <2>4 DEF Create, Idle
      <3> QED
        BY <2>3, <3>1
    <2>5. CASE Load(r) \/ Refuse(r)
      <3>1. hdr'[t] = hdr[t] /\ UNCHANGED line /\ sess[r].kind \in {"idle", "header"}
        BY <2>5 DEF Load, Refuse, HasHeader, Idle
      <3>2. \A p \in Requests \ {r} : sess'[p] = sess[p]
        BY <1>1, <2>5 DEF Load, Refuse, TypeInv, TypeOK
      <3> QED
        BY <2>3, <3>1, <3>2
    <2>6. CASE \/ UpdateStatus(r) \/ Pay(r) \/ Refund(r) \/ Cancel(r) \/ MarkOverdue(r)
               \/ CompleteRentalReturn(r) \/ Put(r) \/ Delete(r)
      <3>1. hdr'[t] \in Header /\ SameTotals(hdr'[t], hdr[t]) /\ UNCHANGED line
        BY <1>1, <2>6, SaveTotals
      <3>2. HasHeader(r) /\ \E new, money : Save(r, new, money)
        BY <2>6 DEF UpdateStatus, Pay, ApplyPayment, Refund, ProcessRefund, Cancel,
                    MarkOverdue, CompleteRentalReturn, Put, Delete
      <3>3. \A p \in Requests :
                sess[p].kind \in {"recalculate", "totals"} /\ sess[p].txn = t =>
                    sess'[p] = sess[p]
        BY <3>2 DEF HasHeader, Save
      <3>4. LinesOf(t)' = LinesOf(t) /\ \A l \in LinesOf(t) : line'[l] = line[l]
        BY <3>1 DEF LinesOf
      <3> QED
        BY <1>1, <3>1, <3>3, <3>4, AccountedStays
    <2>7. CASE AddLine(r)
      <3>1. CASE sess[r].txn = t
        <4>1. sess'[r].kind = "recalculate" /\ sess'[r].txn = t
          BY <1>1, <2>7, <3>1 DEF AddLine, TypeInv, TypeOK
        <4> QED
          BY <4>1 DEF Accounted
      <3>2. CASE sess[r].txn # t
        <4>1. /\ UNCHANGED hdr /\ LinesOf(t)' = LinesOf(t)
              /\ \A l \in LinesOf(t) : line'[l] = line[l]
          BY <2>7, <3>2, AddsToOne
        <4>2. \A p \in Requests :
                  sess[p].kind \in {"recalculate", "totals"} /\ sess[p].txn = t =>
                      sess'[p] = sess[p]
          BY <2>7 DEF AddLine, HasHeader
        <4> QED
          BY <1>1, <2>2, <4>1, <4>2, AccountedStays
      <3> QED
        BY <3>1, <3>2
    <2>8. CASE ReadLines(r)
      <3>1. CASE sess[r].txn = t
        BY <1>1, <2>8, <3>1, ReadAccounted
      <3>2. CASE sess[r].txn # t
        BY <2>3, <2>8, <3>2 DEF ReadLines
      <3> QED
        BY <3>1, <3>2
    <2>9. CASE StoreTotals(r)
      <3>1. CASE sess[r].txn = t
        BY <1>1, <2>9, <3>1, StoreAccounted
      <3>2. CASE sess[r].txn # t
        BY <2>3, <2>9, <3>2 DEF StoreTotals, Save
      <3> QED
        BY <3>1, <3>2
    <2>10. CASE DiscountLine(r)
      <3>1. CASE \A l \in LinesOf(t) : line'[l] = line[l]
        <4>1. PICK l \in DOMAIN line : \E a : line' = [line EXCEPT ![l].amount = a]
          BY <2>10 DEF DiscountLine
        <4>2. DOMAIN line' = DOMAIN line /\ \A k \in DOMAIN line : line'[k].txn = line[k].txn
          BY <1>1, <4>1 DEF TypeInv, TypeOK, Line
        <4>3. LinesOf(t)' = LinesOf(t) /\ UNCHANGED <<hdr, sess>>
          BY <2>10, <4>2 DEF DiscountLine, LinesOf
        <4> QED
          BY <1>1, <2>2, <3>1, <4>3, AccountedStays
      <3> QED
        BY <2>10, <3>1
    <2>11. CASE Fail(r)
      <3>1. CASE sess[r].txn # t
        BY <2>3, <2>11, <3>1 DEF Fail
      <3> QED
        BY <2>11, <3>1
    <2> QED
      BY <2>1, <2>4, <2>5, <2>6, <2>7, <2>8, <2>9, <2>10, <2>11 DEF Serve
  <1>2. TypeInv /\ [Next]_vars =>
            [\A t \in DOMAIN hdr :
                Accounted(t) =>
                    \/ Accounted(t)'
                    \/ \E r \in Requests :
                          /\ Fail(r) \/ (StoreTotals(r) /\ Overtaken(r))
                          /\ sess[r].txn = t
                    \/ \E r \in Requests, l \in LinesOf(t) :
                          DiscountLine(r) /\ line'[l] # line[l]]_vars
    <2>1. ASSUME TypeInv, Next
          PROVE  \A t \in DOMAIN hdr :
                    Accounted(t) => Accounted(t)' \/ Struck(t) \/ Reduced(t)
      BY <1>1, <2>1
    <2> QED
      BY <2>1
  <1> QED
    BY <1>2, TypeInvariant, PTL DEF Spec, TotalsStayTrue

=============================================================================
