--------------------------- MODULE MCTransactions ---------------------------
(* Transactions on small instances.                                         *)
EXTENDS Transactions, TLC

TxnSymmetry == Permutations(Requests) \cup Permutations(LineIds)

Opening(status) == [type |-> "SALE", status |-> status, pay |-> "PENDING"]
PendingOpening == {Opening("PENDING")}
AnyOpening == [type : {"SALE"}, status : Statuses, pay : {"PENDING", "PAID"}]

NoEdits == {}
StatusEdits == {[status |-> s] : s \in Statuses} \cup {[type |-> "RENTAL"]}
SettleEdits == {[status |-> "COMPLETED"]}

ProductLine == {[kind |-> "PRODUCT", amount |-> 2]}
EveryKind == {[kind |-> k, amount |-> IF k = "DISCOUNT" THEN -1 ELSE 2] : k \in Kinds}

=============================================================================
