------------------------ MODULE RentalReturnsProofs ------------------------
(***************************************************************************)
(* What RentalReturns guarantees for any number of rentals, returns, lines *)
(* and requests.                                                           *)
(*                                                                         *)
(* The properties speak of steps of requests that were not overtaken, so   *)
(* the invariant says what such a request holds: the row it read is the    *)
(* one in the table, its rental has no other return, the fees it summed    *)
(* are those of the lines.  A commit takes every other request out of      *)
(* alone, and with it out of the invariant's reach.  If requests for the   *)
(* same return exclude each other (OneRequestPerReturn), all stay fresh,   *)
(* whatever is committed to other returns.                                 *)
(***************************************************************************)
EXTENDS RentalReturns, FiniteSetTheorems, TLAPS

OnReturn == {"return", "finalize", "add", "insert", "total", "write"}

\* What holds of a request's work whoever has committed since.
Sound(w) ==
    /\ w.op \in OnReturn => w.id \in DOMAIN ret
    /\ w.op = "line" => w.id \in DOMAIN line
    /\ w.op \in {"insert", "total"} => w.read \subseteq LinesOf(w.id)
    /\ w.op \in {"add", "insert", "total", "write"} => w.seen.status \notin Closed
    /\ w.op = "write" => w.new.txn = w.seen.txn /\ w.new.active = w.seen.active

\* What holds of it as long as nobody has.
Fresh(w) ==
    /\ w.op = "create" => OpenReturns(w.txn) = {}
    /\ w.op \in OnReturn => w.seen = ret[w.id]
    /\ w.op \in {"insert", "total"} => w.fees = SumFees(w.read)
    /\ w.op = "write" => w.new.fees = SumFees(LinesOf(w.id))

Inv ==
    /\ TypeOK
    /\ \A q \in Requests : Sound(work[q]) /\ (q \in alone => Fresh(work[q]))

----------------------------------------------------------------------------
(* Sums of fees.                                                           *)

\* The fees of lines of the table are finitely many units.
LEMMA FeeUnitsFinite ==
    ASSUME TypeOK, NEW ls, ls \subseteq DOMAIN line
    PROVE  IsFiniteSet(FeeUnits(ls))
  <1> DEFINE T == {{l} \X (1 .. line[l].fee) : l \in ls}
             f == [l \in ls |-> {l} \X (1 .. line[l].fee)]
  <1>1. IsFiniteSet(ls)
    <2>1. ls \in SUBSET Lines
      BY DEF TypeOK
    <2> QED
      BY <2>1, ReturnsAssumption, FS_Subset
  <1>2. f \in Surjection(ls, T)
    BY DEF Surjection
  <1>3. IsFiniteSet(T)
    BY <1>1, <1>2, FS_Surjection
  <1>4. ASSUME NEW l \in ls PROVE IsFiniteSet({l} \X (1 .. line[l].fee))
    <2>1. line[l].fee \in Nat
      BY DEF TypeOK, LineRow
    <2>2. \A n \in Nat : IsFiniteSet(1 .. n)
      BY FS_Interval
    <2>3. IsFiniteSet({l})
      BY FS_Singleton
    <2>4. IsFiniteSet(1 .. line[l].fee)
      BY <2>1, <2>2
    <2> QED
      BY <2>3, <2>4, FS_Product
  <1>5. \A t \in T : IsFiniteSet(t)
    BY <1>4
  <1> QED
    BY <1>3, <1>5, FS_UNION DEF FeeUnits

\* A sum of fees is a natural number.
LEMMA SumFeesNat ==
    ASSUME TypeOK, NEW ls, ls \subseteq DOMAIN line
    PROVE  SumFees(ls) \in Nat
  BY FeeUnitsFinite, FS_CardinalityType DEF SumFees

\* The fees of a set of lines are those of a part of it and of the rest.
LEMMA SumFeesSplit ==
    ASSUME TypeOK, NEW ls, ls \subseteq DOMAIN line, NEW part, part \subseteq ls
    PROVE  SumFees(ls) = SumFees(part) + SumFees(ls \ part)
  <1>1. FeeUnits(ls) = FeeUnits(part) \cup FeeUnits(ls \ part)
    BY DEF FeeUnits
  <1>2. FeeUnits(part) \cap FeeUnits(ls \ part) = {}
    BY DEF FeeUnits
  <1>3. IsFiniteSet(FeeUnits(part)) /\ IsFiniteSet(FeeUnits(ls \ part))
    BY FeeUnitsFinite
  <1>4. Cardinality(FeeUnits(part) \cap FeeUnits(ls \ part)) = 0
    BY <1>2, FS_EmptySet
  <1>5. /\ Cardinality(FeeUnits(part)) \in Nat
        /\ Cardinality(FeeUnits(ls \ part)) \in Nat
    BY <1>3, FS_CardinalityType
  <1>6. Cardinality(FeeUnits(part) \cup FeeUnits(ls \ part)) =
            Cardinality(FeeUnits(part)) + Cardinality(FeeUnits(ls \ part))
                - Cardinality(FeeUnits(part) \cap FeeUnits(ls \ part))
    BY <1>3, FS_Union
  <1>7. Cardinality(FeeUnits(part) \cup FeeUnits(ls \ part)) =
            Cardinality(FeeUnits(part)) + Cardinality(FeeUnits(ls \ part))
    BY <1>4, <1>5, <1>6
  <1> QED
    BY <1>1, <1>7 DEF SumFees

----------------------------------------------------------------------------
(* The invariant.                                                          *)

\* An UPDATE takes every column from the table or from the request.
LEMMA MergedReturn ==
    ASSUME NEW db \in ReturnRow, NEW seen \in ReturnRow, NEW new \in ReturnRow
    PROVE  /\ Merged(db, seen, new) \in ReturnRow
           /\ \A c \in {"txn", "status", "active", "fees"} :
                  Merged(db, seen, new)[c] = Written(db[c], seen[c], new[c])
  <1>1. DOMAIN db = {"txn", "status", "active", "fees"}
    BY DEF ReturnRow
  <1>2. \A c \in {"txn", "status", "active", "fees"} :
            Merged(db, seen, new)[c] = Written(db[c], seen[c], new[c])
    BY <1>1 DEF Merged
  <1>3. Merged(db, seen, new) =
            [txn |-> Written(db.txn, seen.txn, new.txn),
             status |-> Written(db.status, seen.status, new.status),
             active |-> Written(db.active, seen.active, new.active),
             fees |-> Written(db.fees, seen.fees, new.fees)]
    BY <1>1 DEF Merged
  <1> QED
    BY <1>2, <1>3 DEF ReturnRow, Written

\* The same for a line; its return is that of the table if the request kept it.
LEMMA MergedLine ==
    ASSUME NEW db \in LineRow, NEW seen \in LineRow, NEW new \in LineRow,
           new.ret = seen.ret
    PROVE  /\ Merged(db, seen, new) \in LineRow
           /\ Merged(db, seen, new).ret = db.ret
  <1>1. DOMAIN db = {"ret", "unit", "status", "fee"}
    BY DEF LineRow
  <1>2. Merged(db, seen, new) =
            [ret |-> Written(db.ret, seen.ret, new.ret),
             unit |-> Written(db.unit, seen.unit, new.unit),
             status |-> Written(db.status, seen.status, new.status),
             fee |-> Written(db.fee, seen.fee, new.fee)]
    BY <1>1 DEF Merged
  <1> QED
    BY <1>2 DEF LineRow, Written

\* A step that writes no table keeps the invariant if what the request holds
\* now is sound, and as fresh as what it held.
LEMMA HoldsInv ==
    ASSUME Inv, NEW q \in Requests, NEW w \in Work, Holds(q, w),
           UNCHANGED <<ret, line>>, alone' \subseteq alone \cup {q},
           Sound(w), Fresh(work[q]) => Fresh(w), Fresh(w) \/ alone' \subseteq alone
    PROVE  /\ Inv'
           /\ \A p \in Requests : Fresh(work[p]) => Fresh(work[p])'
  <1>1. work' \in [Requests -> Work] /\ alone' \subseteq Requests
    BY DEF Inv, TypeOK, Holds
  <1>2. TypeOK'
    BY <1>1 DEF Inv, TypeOK
  <1>3. ASSUME NEW p \in Requests
        PROVE  Sound(work[p])' /\ (p \in alone' => Fresh(work[p])')
    <2>1. work'[p] = IF p = q THEN w ELSE work[p]
      BY DEF Holds, Inv, TypeOK
    <2>2. Sound(work'[p]) /\ (p \in alone' => Fresh(work'[p]))
      BY <2>1 DEF Inv
    <2> QED
      BY <2>2 DEF Sound, Fresh, LinesOf, OpenReturns, SumFees, FeeUnits
  <1>4. ASSUME NEW p \in Requests, Fresh(work[p])
        PROVE  Fresh(work[p])'
    <2>1. Fresh(work'[p])
      BY <1>4 DEF Holds, Inv, TypeOK
    <2> QED
      BY <2>1 DEF Fresh, LinesOf, OpenReturns, SumFees, FeeUnits
  <1> QED
    BY <1>2, <1>3, <1>4 DEF Inv

\* The initial states satisfy the invariant.
LEMMA InitInv == Init => Inv
  BY DEF Init, Inv, TypeOK, Sound, Fresh, Idle, Work, OnReturn

\* The COMMIT of a return keeps the invariant.
LEMMA SaveInv ==
    ASSUME Inv, NEW q \in Requests, work[q].op \in {"return", "write"},
           NEW new \in ReturnRow, Save(q, new)
    PROVE  Inv'
  <1> DEFINE i == work[q].id
             row == Merged(ret[i], work[q].seen, new)
  <1>1. work[q] \in Work /\ i \in DOMAIN ret /\ work[q].seen \in ReturnRow
    BY DEF Inv, TypeOK, Work, Sound, OnReturn
  <1>2. row \in ReturnRow
    BY <1>1, MergedReturn DEF Inv, TypeOK
  <1>3. /\ ret' = [ret EXCEPT ![i] = row]
        /\ work' = [work EXCEPT ![q] = Idle]
        /\ alone' = {}
        /\ line' = line
    BY DEF Save, Commits, Holds
  <1> HIDE DEF row
  <1>4. DOMAIN ret' = DOMAIN ret /\ ret' \in [DOMAIN ret -> ReturnRow]
    BY <1>2, <1>3 DEF Inv, TypeOK
  <1>5. Idle \in Work
    BY DEF Idle, Work
  <1>6. TypeOK'
    BY <1>3, <1>4, <1>5 DEF Inv, TypeOK
  <1>7. ASSUME NEW p \in Requests PROVE Sound(work[p])'
    <2>1. work'[p] = IF p = q THEN Idle ELSE work[p]
      BY <1>3 DEF Inv, TypeOK
    <2>2. Sound(work'[p])
      BY <2>1 DEF Inv, Sound, Idle, OnReturn
    <2> QED
      BY <1>3, <1>4, <2>2 DEF Sound, LinesOf
  <1> QED
    BY <1>3, <1>6, <1>7 DEF Inv

\* The INSERT of a return keeps it.
LEMMA InsertReturnInv ==
    ASSUME Inv, NEW q \in Requests, InsertReturn(q)
    PROVE  Inv'
  <1>1. PICK i \in Returns \ DOMAIN ret, s \in Statuses :
            ret' = [j \in DOMAIN ret \cup {i} |->
                       IF j = i THEN [txn |-> work[q].txn, status |-> s,
                                      active |-> TRUE, fees |-> 0]
                                ELSE ret[j]]
    BY DEF InsertReturn
  <1>2. /\ work' = [work EXCEPT ![q] = Idle]
        /\ alone' = {}
        /\ line' = line
    BY DEF InsertReturn, Commits, Holds
  <1>3. work[q].txn \in Txns
    BY DEF InsertReturn, Inv, TypeOK, Work
  <1>4. [txn |-> work[q].txn, status |-> s, active |-> TRUE, fees |-> 0] \in ReturnRow
    BY <1>3, ReturnsAssumption DEF ReturnRow
  <1>5. DOMAIN ret' = DOMAIN ret \cup {i} /\ ret' \in [DOMAIN ret' -> ReturnRow]
    BY <1>1, <1>4 DEF Inv, TypeOK
  <1>6. Idle \in Work
    BY DEF Idle, Work
  <1>7. TypeOK'
    BY <1>2, <1>5, <1>6 DEF Inv, TypeOK
  <1>8. ASSUME NEW p \in Requests PROVE Sound(work[p])'
    <2>1. work'[p] = IF p = q THEN Idle ELSE work[p]
      BY <1>2 DEF Inv, TypeOK
    <2>2. Sound(work'[p])
      BY <2>1 DEF Inv, Sound, Idle, OnReturn
    <2> QED
      BY <1>2, <1>5, <2>2 DEF Sound, LinesOf
  <1> QED
    BY <1>2, <1>7, <1>8 DEF Inv

\* The COMMIT of a line that stays in its return keeps it.
LEMMA SaveLineInv ==
    ASSUME Inv, NEW q \in Requests, work[q].op = "line",
           NEW new \in LineRow, new.ret = work[q].seen.ret, SaveLine(q, new)
    PROVE  /\ Inv' /\ \A i : LinesOf(i)' = LinesOf(i)
           /\ \A k \in DOMAIN line : k # work[q].id => line'[k] = line[k]
  <1> DEFINE l == work[q].id
             row == Merged(line[l], work[q].seen, new)
  <1>1. work[q] \in Work /\ l \in DOMAIN line /\ work[q].seen \in LineRow
    BY DEF Inv, TypeOK, Work, Sound
  <1>2. row \in LineRow /\ row.ret = line[l].ret
    BY <1>1, MergedLine DEF Inv, TypeOK
  <1>3. /\ line' = [line EXCEPT ![l] = row]
        /\ work' = [work EXCEPT ![q] = Idle]
        /\ alone' = {}
        /\ ret' = ret
    BY DEF SaveLine, Commits, Holds
  <1> HIDE DEF row
  <1>4. /\ DOMAIN line' = DOMAIN line
        /\ line' \in [DOMAIN line -> LineRow]
        /\ \A k \in DOMAIN line : line'[k].ret = line[k].ret
    BY <1>1, <1>2, <1>3 DEF Inv, TypeOK
  <1>5. Idle \in Work
    BY DEF Idle, Work
  <1>6. TypeOK'
    BY <1>3, <1>4, <1>5 DEF Inv, TypeOK
  <1>7. \A i : LinesOf(i)' = LinesOf(i)
    BY <1>4 DEF LinesOf
  <1>8. ASSUME NEW p \in Requests PROVE Sound(work[p])'
    <2>1. work'[p] = IF p = q THEN Idle ELSE work[p]
      BY <1>3 DEF Inv, TypeOK
    <2>2. Sound(work'[p])
      BY <2>1 DEF Inv, Sound, Idle, OnReturn
    <2> QED
      BY <1>3, <1>4, <1>7, <2>2 DEF Sound
  <1> QED
    BY <1>3, <1>6, <1>7, <1>8 DEF Inv

\* The INSERT of a line keeps it, and gives a line to no other return.
LEMMA InsertLineInv ==
    ASSUME Inv, NEW q \in Requests, InsertLine(q)
    PROVE  /\ Inv' /\ \A i : i # work[q].id => LinesOf(i)' = LinesOf(i)
           /\ \A k \in DOMAIN line : line'[k] = line[k]
           /\ Fresh(work[q]) => Fresh(work[q])'
  <1> DEFINE w == work[q]
  <1>1. /\ w \in Work
        /\ w.op = "insert"
        /\ w.id \in DOMAIN ret
        /\ w.seen \in ReturnRow
        /\ w.unit \in Units
        /\ w.read \subseteq LinesOf(w.id)
        /\ w.seen.status \notin Closed
        /\ w.fees \in Nat
    BY DEF Inv, TypeOK, Work, Sound, OnReturn, InsertLine
  <1>2. PICK l \in Lines \ DOMAIN line, s \in LineStatus :
            /\ line' = [k \in DOMAIN line \cup {l} |->
                           IF k = l THEN [ret |-> w.id, unit |-> w.unit,
                                          status |-> s, fee |-> 0]
                                    ELSE line[k]]
            /\ Holds(q, [op |-> "total", id |-> w.id, seen |-> w.seen,
                         read |-> w.read \cup {l}, fees |-> w.fees])
    BY DEF InsertLine
  <1> DEFINE new == [op |-> "total", id |-> w.id, seen |-> w.seen,
                     read |-> w.read \cup {l}, fees |-> w.fees]
  <1>3. work' = [work EXCEPT ![q] = new] /\ alone' = alone \cap {q} /\ ret' = ret
    BY <1>2 DEF Holds, InsertLine
  <1>4. [ret |-> w.id, unit |-> w.unit, status |-> s, fee |-> 0] \in LineRow
    BY <1>1 DEF LineRow, Inv, TypeOK
  <1>5. /\ DOMAIN line' = DOMAIN line \cup {l}
        /\ line' \in [DOMAIN line' -> LineRow]
        /\ line'[l].ret = w.id /\ line'[l].fee = 0
        /\ \A k \in DOMAIN line : line'[k] = line[k]
    BY <1>2, <1>4 DEF Inv, TypeOK
  <1>6. new \in Work
    <2>1. w.read \cup {l} \subseteq Lines
      BY <1>1, <1>2 DEF LinesOf, Inv, TypeOK
    <2> QED
      BY <1>1, <2>1 DEF Work, Inv, TypeOK
  <1>7. TypeOK'
    BY <1>1, <1>3, <1>5, <1>6 DEF Inv, TypeOK
  <1>8. \A i : LinesOf(i)' = IF i = w.id THEN LinesOf(i) \cup {l} ELSE LinesOf(i)
    BY <1>5 DEF LinesOf
  <1>9. ASSUME NEW ls, ls = w.read \cup {l} PROVE SumFees(ls)' = SumFees(w.read)
    <2>1. w.read \subseteq DOMAIN line /\ l \notin DOMAIN line
      BY <1>1 DEF LinesOf
    <2>2. \A k \in w.read : line'[k].fee = line[k].fee
      BY <1>5, <2>1
    <2>3. {l} \X (1 .. line'[l].fee) = {}
      BY <1>5
    <2>4. FeeUnits(ls)' = UNION {{k} \X (1 .. line'[k].fee) : k \in w.read}
      BY <1>9, <2>3 DEF FeeUnits
    <2>5. FeeUnits(w.read) = UNION {{k} \X (1 .. line'[k].fee) : k \in w.read}
      BY <2>2 DEF FeeUnits
    <2> QED
      BY <2>4, <2>5 DEF SumFees
  <1>10. ASSUME Fresh(w) PROVE Fresh(work[q])'
    <2>1. work'[q] = new
      BY <1>3 DEF Inv, TypeOK
    <2>2. w.seen = ret[w.id] /\ w.fees = SumFees(w.read)
      BY <1>1, <1>10 DEF Fresh, OnReturn
    <2> QED
      BY <1>3, <1>9, <2>1, <2>2 DEF Fresh, OnReturn
  <1>11. ASSUME NEW p \in Requests
         PROVE  Sound(work[p])' /\ (p \in alone' => Fresh(work[p])')
    <2>1. CASE p = q
      <3>1. work'[q] = new
        BY <1>3 DEF Inv, TypeOK
      <3>2. Sound(work[q])'
        BY <1>1, <1>3, <1>8, <3>1 DEF Sound, OnReturn
      <3>3. ASSUME q \in alone' PROVE Fresh(work[q])'
        <4>1. q \in alone
          BY <1>3, <3>3
        <4> QED
          BY <1>10, <4>1 DEF Inv
      <3> QED
        BY <2>1, <3>2, <3>3
    <2>2. CASE p # q
      <3>1. work'[p] = work[p] /\ p \notin alone'
        BY <1>3, <2>2 DEF Inv, TypeOK
      <3>2. Sound(work[p])
        BY DEF Inv
      <3> QED
        BY <1>3, <1>5, <1>8, <3>1, <3>2 DEF Sound
    <2> QED
      BY <2>1, <2>2
  <1> QED
    BY <1>5, <1>7, <1>8, <1>10, <1>11 DEF Inv

\* A step that writes no table keeps the invariant.
LEMMA ReadStepInv ==
    ASSUME Inv, NEW q \in Requests,
           \/ CheckActive(q) \/ ReadReturn(q) \/ ReadForFinalize(q) \/ Finalize(q)
           \/ ReadForLine(q) \/ ReadLines(q) \/ Recalculate(q) \/ ReadLine(q)
           \/ Abandon(q)
    PROVE  /\ Inv' /\ UNCHANGED <<ret, line>>
           /\ \A p \in Requests : Fresh(work[p]) => Fresh(work[p])'
  <1> USE DEF OnReturn
  <1>t. /\ TypeOK
        /\ work[q] \in Work
        /\ \A i \in DOMAIN ret : i \in Returns /\ ret[i] \in ReturnRow
        /\ \A i : LinesOf(i) \subseteq DOMAIN line /\ LinesOf(i) \subseteq Lines
    BY DEF Inv, TypeOK, LinesOf
  <1>1. CASE CheckActive(q)
    <2>1. PICK t \in Txns : /\ Returnable(t)
                            /\ Reads(q, [op |-> "create", txn |-> t])
      BY <1>1 DEF CheckActive
    <2> DEFINE w == [op |-> "create", txn |-> t]
    <2>2. w \in Work /\ Sound(w) /\ Fresh(w)
      BY <2>1 DEF Work, Sound, Fresh, Returnable
    <2> QED
      BY <2>1, <2>2, HoldsInv DEF Reads
  <1>2. CASE ReadReturn(q)
    <2>1. PICK i \in DOMAIN ret : Reads(q, [op |-> "return", id |-> i, seen |-> ret[i]])
      BY <1>2 DEF ReadReturn
    <2> DEFINE w == [op |-> "return", id |-> i, seen |-> ret[i]]
    <2>2. w \in Work /\ Sound(w) /\ Fresh(w)
      BY <1>t DEF Work, Sound, Fresh
    <2> QED
      BY <2>1, <2>2, HoldsInv DEF Reads
  <1>3. CASE ReadForFinalize(q)
    <2>1. PICK i \in DOMAIN ret : Reads(q, [op |-> "finalize", id |-> i, seen |-> ret[i]])
      BY <1>3 DEF ReadForFinalize
    <2> DEFINE w == [op |-> "finalize", id |-> i, seen |-> ret[i]]
    <2>2. w \in Work /\ Sound(w) /\ Fresh(w)
      BY <1>t DEF Work, Sound, Fresh
    <2> QED
      BY <2>1, <2>2, HoldsInv DEF Reads
  <1>4. CASE Finalize(q)
    <2> DEFINE old == work[q]
               ls == LinesOf(old.id)
               w == [op |-> "write", id |-> old.id, seen |-> old.seen,
                     new |-> [old.seen EXCEPT !.status = "COMPLETED", !.fees = SumFees(ls)]]
    <2>1. old.op = "finalize" /\ Sound(old)
      BY <1>4 DEF Finalize, Inv
    <2>2. old.id \in Returns /\ old.seen \in ReturnRow /\ SumFees(ls) \in Nat
      BY <1>t, <2>1, SumFeesNat DEF Work, Sound
    <2>3. w.new \in ReturnRow
      BY <2>2 DEF ReturnRow, ReturnStatus
    <2>4. w \in Work
      BY <2>2, <2>3 DEF Work
    <2>5. old.seen.status \notin Closed
      BY <1>4 DEF Finalize, CanTransition, Closed
    <2>6. Sound(w)
      BY <2>1, <2>2, <2>5 DEF Sound, ReturnRow
    <2>7. Fresh(old) => Fresh(w)
      BY <2>1, <2>2 DEF Fresh, ReturnRow
    <2> QED
      BY <1>4, <2>4, <2>6, <2>7, HoldsInv DEF Finalize
  <1>5. CASE ReadForLine(q)
    <2>1. PICK i \in DOMAIN ret, u \in Units :
              /\ ret[i].status \notin Closed
              /\ Reads(q, [op |-> "add", id |-> i, seen |-> ret[i], unit |-> u])
      BY <1>5 DEF ReadForLine
    <2> DEFINE w == [op |-> "add", id |-> i, seen |-> ret[i], unit |-> u]
    <2>2. w \in Work /\ Sound(w) /\ Fresh(w)
      BY <1>t, <2>1 DEF Work, Sound, Fresh
    <2> QED
      BY <2>1, <2>2, HoldsInv DEF Reads
  <1>6. CASE ReadLines(q)
    <2> DEFINE old == work[q]
               ls == LinesOf(old.id)
               w == [op |-> "insert", id |-> old.id, seen |-> old.seen,
                     unit |-> old.unit, read |-> ls, fees |-> SumFees(ls)]
    <2>1. old.op = "add" /\ Sound(old)
      BY <1>6 DEF ReadLines, Inv
    <2>2. SumFees(ls) \in Nat
      BY <1>t, SumFeesNat
    <2>3. w \in Work
      BY <1>t, <2>1, <2>2 DEF Work
    <2>4. Sound(w) /\ (Fresh(old) => Fresh(w))
      BY <2>1 DEF Sound, Fresh
    <2> QED
      BY <1>6, <2>3, <2>4, HoldsInv DEF ReadLines
  <1>7. CASE Recalculate(q)
    <2> DEFINE old == work[q]
               ls == LinesOf(old.id)
               w == [op |-> "write", id |-> old.id, seen |-> old.seen,
                     new |-> [old.seen EXCEPT !.fees = Total(old)]]
    <2>1. /\ old.op = "total" /\ Sound(old)
          /\ old.seen \in ReturnRow /\ old.id \in Returns /\ old.fees \in Nat
      BY <1>7, <1>t DEF Recalculate, Inv, Work
    <2>2. SumFees(ls \ old.read) \in Nat /\ Total(old) \in Nat
      BY <1>t, <2>1, SumFeesNat DEF Total
    <2>3. w.new \in ReturnRow
      BY <2>1, <2>2 DEF ReturnRow
    <2>4. w \in Work
      BY <2>1, <2>3 DEF Work
    <2>5. Sound(w)
      BY <2>1 DEF Sound, ReturnRow
    <2>6. ASSUME Fresh(old) PROVE Fresh(w)
      <3>1. old.seen = ret[old.id] /\ old.fees = SumFees(old.read)
        BY <2>1, <2>6 DEF Fresh
      <3>2. old.read \subseteq ls
        BY <2>1 DEF Sound
      <3>3. SumFees(ls) = SumFees(old.read) + SumFees(ls \ old.read)
        BY <1>t, <3>2, SumFeesSplit
      <3> QED
        BY <2>1, <3>1, <3>3 DEF Fresh, Total, ReturnRow
    <2> QED
      BY <1>7, <2>4, <2>5, <2>6, HoldsInv DEF Recalculate
  <1>8. CASE ReadLine(q)
    <2>1. PICK l \in DOMAIN line : Reads(q, [op |-> "line", id |-> l, seen |-> line[l]])
      BY <1>8 DEF ReadLine
    <2> DEFINE w == [op |-> "line", id |-> l, seen |-> line[l]]
    <2>2. w \in Work /\ Sound(w) /\ Fresh(w)
      BY <1>t DEF Work, Sound, Fresh, TypeOK
    <2> QED
      BY <2>1, <2>2, HoldsInv DEF Reads
  <1>9. CASE Abandon(q)
    <2>1. Idle \in Work /\ Sound(Idle) /\ Fresh(Idle)
      BY DEF Idle, Work, Sound, Fresh
    <2> QED
      BY <1>9, <2>1, HoldsInv DEF Abandon
  <1> QED
    BY <1>1, <1>2, <1>3, <1>4, <1>5, <1>6, <1>7, <1>8, <1>9

\* What PUT, the status endpoint, cancel, delete, and the COMMIT after finalize
\* or a new line may make of a return: it keeps its transaction, it does not
\* come back from a deletion, and a closed one stays as it is.
Allowed(w, new) ==
    /\ w.op \in {"return", "write"}
    /\ new \in ReturnRow
    /\ new.txn = w.seen.txn
    /\ new.active => w.seen.active
    /\ w.seen.status \in Closed => new = w.seen
    /\ IF w.op = "write" THEN new = w.new ELSE new.fees = w.seen.fees

\* Every step that commits a return commits an allowed row.
LEMMA SavesAllowed ==
    ASSUME Inv, NEW q \in Requests,
           Put(q) \/ UpdateStatus(q) \/ Cancel(q) \/ Delete(q) \/ CommitReturn(q)
    PROVE  \E new : Allowed(work[q], new) /\ Save(q, new)
  <1> DEFINE row == work[q].seen
  <1>1. row \in ReturnRow
    BY DEF Inv, TypeOK, Work, Put, UpdateStatus, Cancel, Delete, CommitReturn
  <1>2. ASSUME NEW s \in ReturnStatus
        PROVE  LET new == [row EXCEPT !.status = s]
               IN  /\ new \in ReturnRow /\ new.txn = row.txn
                   /\ new.active = row.active /\ new.fees = row.fees
    BY <1>1 DEF ReturnRow
  <1>3. CASE Put(q)
    BY <1>2, <1>3, ReturnsAssumption DEF Put, Allowed
  <1>4. CASE UpdateStatus(q)
    <2>1. row.status \notin Closed
      BY <1>4 DEF UpdateStatus, CanTransition, Closed
    <2> QED
      BY <1>2, <1>4, <2>1, ReturnsAssumption DEF UpdateStatus, Allowed
  <1>5. CASE Cancel(q)
    <2>1. row.status \in Closed => [row EXCEPT !.status = "CANCELLED"] = row
      BY <1>1, <1>5 DEF Cancel, Closed, ReturnRow
    <2>2. "CANCELLED" \in ReturnStatus
      BY DEF ReturnStatus
    <2> QED
      BY <1>2, <1>5, <2>1, <2>2 DEF Cancel, Allowed
  <1>6. CASE Delete(q)
    <2> DEFINE new == [row EXCEPT !.active = FALSE]
    <2>1. /\ new \in ReturnRow /\ new.txn = row.txn
          /\ new.active = FALSE /\ new.fees = row.fees
      BY <1>1 DEF ReturnRow
    <2>2. row.status \notin Closed
      BY <1>6 DEF Delete, Closed
    <2> QED
      BY <1>6, <2>1, <2>2 DEF Delete, Allowed
  <1>7. CASE CommitReturn(q)
    <2>1. work[q].op = "write" /\ Sound(work[q]) /\ work[q].new \in ReturnRow
      BY <1>7 DEF CommitReturn, Inv, TypeOK, Work
    <2> QED
      BY <1>7, <2>1 DEF CommitReturn, Allowed, Sound
  <1> QED
    BY <1>3, <1>4, <1>5, <1>6, <1>7

\* Every step that commits a line keeps it in its return.
LEMMA LineSaves ==
    ASSUME Inv, NEW q \in Requests, UpdateLineStatus(q) \/ SetFee(q)
    PROVE  /\ work[q].op = "line"
           /\ \E new \in LineRow : new.ret = work[q].seen.ret /\ SaveLine(q, new)
  <1> DEFINE row == work[q].seen
  <1>1. row \in LineRow /\ work[q].op = "line"
    BY DEF Inv, TypeOK, Work, UpdateLineStatus, SetFee
  <1>2. CASE UpdateLineStatus(q)
    BY <1>1, <1>2 DEF UpdateLineStatus, LineRow
  <1>3. CASE SetFee(q)
    BY <1>1, <1>3, ReturnsAssumption DEF SetFee, LineRow
  <1> QED
    BY <1>1, <1>2, <1>3

\* Every step keeps the invariant.
LEMMA NextInv == Inv /\ [Next]_vars => Inv'
  <1> SUFFICES ASSUME Inv, [Next]_vars PROVE Inv'
    OBVIOUS
  <1>1. CASE UNCHANGED vars
    <2>1. TypeOK'
      BY <1>1 DEF vars, Inv, TypeOK
    <2>2. ASSUME NEW p \in Requests
          PROVE  Sound(work[p])' /\ (p \in alone' => Fresh(work[p])')
      <3>1. Sound(work'[p]) /\ (p \in alone' => Fresh(work'[p]))
        BY <1>1 DEF vars, Inv
      <3> QED
        BY <1>1, <3>1 DEF vars, Sound, Fresh, LinesOf, OpenReturns, SumFees, FeeUnits
    <2> QED
      BY <2>1, <2>2 DEF Inv
  <1>2. ASSUME NEW q \in Requests, Serve(q) PROVE Inv'
    <2>1. CASE Put(q) \/ UpdateStatus(q) \/ Cancel(q) \/ Delete(q) \/ CommitReturn(q)
      BY <2>1, SavesAllowed, SaveInv DEF Allowed
    <2>2. CASE UpdateLineStatus(q) \/ SetFee(q)
      BY <2>2, LineSaves, SaveLineInv
    <2>3. CASE InsertReturn(q)
      BY <2>3, InsertReturnInv
    <2>4. CASE InsertLine(q)
      BY <2>4, InsertLineInv
    <2> QED
      BY <1>2, <2>1, <2>2, <2>3, <2>4, ReadStepInv DEF Serve
  <1> QED
    BY <1>1, <1>2 DEF Next

\* Tables and sessions hold what they should for any number of rentals, returns,
\* lines and requests.
THEOREM ReturnsTypeCorrect == Spec => []TypeOK
  <1>1. Inv => TypeOK
    BY DEF Inv
  <1> QED
    BY InitInv, NextInv, <1>1, PTL DEF Spec

\* The invariant holds in every behavior.
LEMMA InvHolds == Spec => []Inv
  BY InitInv, NextInv, PTL DEF Spec

----------------------------------------------------------------------------
(* The action properties.                                                  *)

\* A request that commits and was not overtaken is fresh.
LEMMA CommitterFresh ==
    ASSUME Inv, NEW q \in Requests, work[q].op # "idle", work'[q] # work[q],
           ~OvertakenStep
    PROVE  Fresh(work[q])
  BY DEF OvertakenStep, Inv, Idle

\* A commit of an allowed row by a request that is fresh: the row is stored as it
\* was computed, from the row that is there, and the others stay.
LEMMA FreshSave ==
    ASSUME Inv, NEW q \in Requests, NEW new, Allowed(work[q], new), Save(q, new),
           Fresh(work[q])
    PROVE  /\ work[q].id \in DOMAIN ret /\ work[q].seen = ret[work[q].id]
           /\ DOMAIN ret' = DOMAIN ret
           /\ \A i \in DOMAIN ret : ret'[i] = IF i = work[q].id THEN new ELSE ret[i]
           /\ line' = line
  <1> DEFINE w == work[q]
  <1>1. w.op \in {"return", "write"} /\ new \in ReturnRow /\ Sound(w)
    BY DEF Allowed, Inv
  <1>2. work'[q] = Idle /\ line' = line
    BY DEF Save, Commits, Holds, Inv, TypeOK
  <1>3. w.id \in DOMAIN ret /\ w.seen = ret[w.id]
    BY <1>1 DEF Sound, Fresh, OnReturn
  <1>4. w.seen \in ReturnRow
    BY <1>3 DEF Inv, TypeOK
  <1>5. Merged(ret[w.id], w.seen, new) = new
    BY <1>1, <1>3, <1>4 DEF Merged, Written, ReturnRow
  <1>6. ret' = [ret EXCEPT ![w.id] = new]
    BY <1>5 DEF Save
  <1> QED
    BY <1>2, <1>3, <1>6 DEF Inv, TypeOK

\* Every step is one of these.
LEMMA StepKinds ==
    ASSUME Inv, NEW q \in Requests, Serve(q)
    PROVE  \/ UNCHANGED <<ret, line>>
           \/ InsertReturn(q)
           \/ \E new : Allowed(work[q], new) /\ Save(q, new)
           \/ InsertLine(q)
           \/ ret' = ret /\ \A i : LinesOf(i)' = LinesOf(i)
  <1>1. CASE UpdateLineStatus(q) \/ SetFee(q)
    <2>1. PICK new \in LineRow : new.ret = work[q].seen.ret /\ SaveLine(q, new)
      BY <1>1, LineSaves
    <2>2. work[q].op = "line"
      BY <1>1, LineSaves
    <2> QED
      BY <2>1, <2>2, SaveLineInv DEF SaveLine
  <1> QED
    BY <1>1, SavesAllowed, ReadStepInv DEF Serve

\* A step of a request that was not overtaken is one of a fresh request, or
\* leaves the returns and whose lines are whose.
LEMMA SpareStep ==
    ASSUME Inv, NEW q \in Requests, Serve(q), ~OvertakenStep
    PROVE  Fresh(work[q]) \/ (ret' = ret /\ \A i : LinesOf(i)' = LinesOf(i))
  <1>1. CASE InsertReturn(q)
    <2>1. work[q].op = "create" /\ work'[q] = Idle /\ Idle.op = "idle"
      BY <1>1 DEF InsertReturn, Commits, Holds, Inv, TypeOK, Idle
    <2> QED
      BY <2>1, CommitterFresh
  <1>2. ASSUME NEW new, Allowed(work[q], new), Save(q, new) PROVE Fresh(work[q])
    <2>1. work[q].op \in {"return", "write"} /\ work'[q] = Idle /\ Idle.op = "idle"
      BY <1>2 DEF Allowed, Save, Commits, Holds, Inv, TypeOK, Idle
    <2> QED
      BY <2>1, CommitterFresh
  <1>3. CASE InsertLine(q)
    <2>1. work[q].op = "insert" /\ work'[q].op = "total"
      BY <1>3 DEF InsertLine, Holds, Inv, TypeOK
    <2> QED
      BY <2>1, CommitterFresh
  <1> QED
    BY <1>1, <1>2, <1>3, StepKinds DEF LinesOf

\* What a fresh request writes leaves other rentals no return that was not open
\* before, and one that gets a return had none.
LEMMA OpenAfter ==
    ASSUME Inv, NEW q \in Requests, Serve(q), Fresh(work[q]), NEW u \in Txns
    PROVE  \/ OpenReturns(u)' \subseteq OpenReturns(u)
           \/ /\ work[q].op = "create" /\ work[q].txn = u /\ OpenReturns(u) = {}
              /\ \E i : OpenReturns(u)' = {i}
  <1>1. CASE ret' = ret
    BY <1>1 DEF OpenReturns
  <1>2. CASE InsertReturn(q)
    <2> DEFINE t == work[q].txn
    <2>1. work[q].op = "create" /\ OpenReturns(t) = {}
      BY <1>2 DEF InsertReturn, Fresh
    <2>2. PICK i \in Returns \ DOMAIN ret, s \in Statuses :
              ret' = [j \in DOMAIN ret \cup {i} |->
                         IF j = i THEN [txn |-> work[q].txn, status |-> s,
                                        active |-> TRUE, fees |-> 0]
                                  ELSE ret[j]]
      BY <1>2 DEF InsertReturn
    <2>3. ASSUME NEW j \in OpenReturns(u)'
          PROVE  IF u = t THEN j = i ELSE j \in OpenReturns(u)
      BY <2>1, <2>2, <2>3 DEF OpenReturns
    <2>4. CASE u = t /\ OpenReturns(u)' # {}
      BY <2>1, <2>3, <2>4
    <2> QED
      BY <2>3, <2>4
  <1>3. ASSUME NEW new, Allowed(work[q], new), Save(q, new)
        PROVE  OpenReturns(u)' \subseteq OpenReturns(u)
    <2>1. ASSUME NEW j \in OpenReturns(u)' PROVE j \in OpenReturns(u)
      <3> DEFINE i == work[q].id
      <3>1. /\ DOMAIN ret' = DOMAIN ret
            /\ \A k \in DOMAIN ret : ret'[k] = IF k = i THEN new ELSE ret[k]
            /\ work[q].seen = ret[i]
        BY <1>3, FreshSave
      <3>2. /\ new.txn = work[q].seen.txn
            /\ new.active => work[q].seen.active
            /\ work[q].seen.status \in Closed => new = work[q].seen
        BY <1>3 DEF Allowed
      <3> QED
        BY <2>1, <3>1, <3>2 DEF OpenReturns
    <2> QED
      BY <2>1
  <1> QED
    BY <1>1, <1>2, <1>3, StepKinds DEF InsertLine

\* So a fresh request leaves every rental with at most one open return.
LEMMA OneReturnStep ==
    ASSUME Inv, OneActiveReturn, NEW q \in Requests, Serve(q), Fresh(work[q])
    PROVE  OneActiveReturn'
  <1>1. ASSUME NEW u \in Txns, NEW i \in OpenReturns(u)', NEW j \in OpenReturns(u)'
        PROVE  i = j
    BY <1>1, OpenAfter DEF OneActiveReturn
  <1> QED
    BY <1>1 DEF OneActiveReturn

\* A step of a fresh request leaves the closed returns and their lines alone.
LEMMA ClosedStep ==
    ASSUME Inv, NEW q \in Requests, Serve(q), Fresh(work[q]),
           NEW i \in DOMAIN ret, ret[i].status \in Closed
    PROVE  ret'[i] = ret[i] /\ LinesOf(i)' = LinesOf(i)
  <1>1. CASE UNCHANGED <<ret, line>> \/ (ret' = ret /\ \A j : LinesOf(j)' = LinesOf(j))
    BY <1>1 DEF LinesOf
  <1>2. CASE InsertReturn(q)
    BY <1>2 DEF InsertReturn, LinesOf
  <1>3. ASSUME NEW new, Allowed(work[q], new), Save(q, new)
        PROVE  ret'[i] = ret[i] /\ LinesOf(i)' = LinesOf(i)
    <2>1. /\ ret'[i] = IF i = work[q].id THEN new ELSE ret[i]
          /\ work[q].seen = ret[work[q].id] /\ line' = line
      BY <1>3, FreshSave
    <2>2. work[q].seen.status \in Closed => new = work[q].seen
      BY <1>3 DEF Allowed
    <2> QED
      BY <2>1, <2>2 DEF LinesOf
  <1>4. CASE InsertLine(q)
    <2>1. work[q].op = "insert" /\ ret' = ret
      BY <1>4 DEF InsertLine
    <2>2. work[q].seen = ret[work[q].id] /\ work[q].seen.status \notin Closed
      BY <2>1 DEF Inv, Sound, Fresh, OnReturn
    <2>3. i # work[q].id
      BY <2>2
    <2> QED
      BY <1>4, <2>1, <2>3, InsertLineInv
  <1> QED
    BY <1>1, <1>2, <1>3, <1>4, StepKinds

\* A fresh request that changes a return's totals stores the fees of its lines.
LEMMA TotalsStep ==
    ASSUME Inv, NEW q \in Requests, Serve(q), Fresh(work[q]),
           NEW i \in DOMAIN ret, ret'[i].fees # ret[i].fees
    PROVE  ret'[i].fees = SumFees(LinesOf(i))
  <1>1. ret' # ret
    OBVIOUS
  <1>2. CASE InsertReturn(q)
    BY <1>2 DEF InsertReturn
  <1>3. ASSUME NEW new, Allowed(work[q], new), Save(q, new)
        PROVE  ret'[i].fees = SumFees(LinesOf(i))
    <2>1. /\ ret'[i] = IF i = work[q].id THEN new ELSE ret[i]
          /\ work[q].seen = ret[work[q].id]
      BY <1>3, FreshSave
    <2>2. i = work[q].id /\ new.fees # work[q].seen.fees
      BY <2>1
    <2>3. work[q].op = "write" /\ new = work[q].new
      BY <1>3, <2>2 DEF Allowed
    <2> QED
      BY <2>1, <2>2, <2>3 DEF Fresh
  <1> QED
    BY <1>1, <1>2, <1>3, StepKinds DEF InsertLine

\* Only an overtaken request gives a rental a second active return.
THEOREM SecondReturnOnlyByRace == Spec => SecondReturnNeedsRace
  <1>1. ASSUME Inv, OneActiveReturn, NEW q \in Requests, Serve(q), ~OvertakenStep
        PROVE  OneActiveReturn'
    <2>1. CASE ret' = ret
      BY <1>1, <2>1 DEF OneActiveReturn, OpenReturns
    <2> QED
      BY <1>1, <2>1, SpareStep, OneReturnStep
  <1>2. Inv /\ [Next]_vars => [OneActiveReturn => OneActiveReturn' \/ OvertakenStep]_vars
    BY <1>1 DEF Next
  <1> QED
    BY InvHolds, <1>2, PTL DEF Spec, SecondReturnNeedsRace

\* Only an overtaken request changes a completed or cancelled return.
THEOREM ClosedReturnsStay == Spec => ClosedStaysClosed
  <1>1. Inv /\ [Next]_vars =>
            [\A i \in DOMAIN ret :
                ret[i].status \in Closed /\ ~OvertakenStep =>
                    ret'[i] = ret[i] /\ LinesOf(i)' = LinesOf(i)]_vars
    BY SpareStep, ClosedStep DEF Next
  <1> QED
    BY InvHolds, <1>1, PTL DEF Spec, ClosedStaysClosed

\* Totals stored by a request that was not overtaken are those of the lines.
THEOREM StoredTotalsCurrent == Spec => StoredTotalsAreCurrent
  <1>1. Inv /\ [Next]_vars =>
            [\A i \in DOMAIN ret :
                ret'[i].fees # ret[i].fees /\ ~OvertakenStep =>
                    ret'[i].fees = SumFees(LinesOf(i))]_vars
    BY SpareStep, TotalsStep DEF Next
  <1> QED
    BY InvHolds, <1>1, PTL DEF Spec, StoredTotalsAreCurrent

----------------------------------------------------------------------------
(* What locks would give: alone counts a commit to any return as passing a *)
(* request, here only requests for the same return are kept apart.         *)

\* No two requests create a return of the same rental, no two work on the same
\* return, and none writes a line of a return another one works on: what locks on
\* the rental and on the return, which the code does not take, would make true.
OneRequestPerReturn ==
    \A p, q \in Requests : p # q =>
        /\ work[p].op = "create" /\ work[q].op = "create" => work[p].txn # work[q].txn
        /\ work[p].op \in OnReturn /\ work[q].op \in OnReturn => work[p].id # work[q].id
        /\ work[p].op \in OnReturn /\ work[q].op = "line" =>
               line[work[q].id].ret # work[p].id

AllFresh == \A q \in Requests : Fresh(work[q])

\* A commit to other returns and their lines leaves a request fresh.
LEMMA ElsewhereStaysFresh ==
    ASSUME Inv, NEW p \in Requests, Fresh(work[p]), work'[p] = work[p],
           \A u \in Txns : work[p].op = "create" /\ u = work[p].txn =>
               OpenReturns(u)' \subseteq OpenReturns(u),
           \A i : work[p].op \in OnReturn /\ i = work[p].id =>
               /\ ret'[i] = ret[i] /\ LinesOf(i)' = LinesOf(i)
               /\ \A l \in LinesOf(i) : line'[l] = line[l]
    PROVE  Fresh(work[p])'
  <1>0. PICK w \in Work : w = work[p]
    BY DEF Inv, TypeOK
  <1>1. CASE w.op \notin OnReturn
    <2>1. CASE w.op = "create"
      <3>1. OpenReturns(w.txn)' \subseteq OpenReturns(w.txn)
        BY <1>0, <2>1 DEF Work
      <3> QED
        BY <1>0, <2>1, <3>1 DEF Fresh, OnReturn
    <2> QED
      BY <1>0, <1>1, <2>1 DEF Fresh, OnReturn
  <1>2. CASE w.op \in OnReturn
    <2>1. PICK i : i = w.id
      OBVIOUS
    <2>2. /\ ret'[i] = ret[i] /\ LinesOf(i)' = LinesOf(i)
          /\ \A l \in LinesOf(i) : line'[l] = line[l]
      BY <1>0, <1>2, <2>1
    <2>3. ASSUME NEW ls, ls \subseteq LinesOf(i) PROVE SumFees(ls)' = SumFees(ls)
      <3>1. \A l \in ls : line'[l] = line[l]
        BY <2>2, <2>3
      <3>2. FeeUnits(ls)' = FeeUnits(ls)
        BY <3>1 DEF FeeUnits
      <3> QED
        BY <3>2 DEF SumFees
    <2>4. w.op \in {"insert", "total"} => SumFees(w.read)' = SumFees(w.read)
      BY <1>0, <2>1, <2>3 DEF Inv, Sound
    <2>5. PICK ls : ls = LinesOf(i)
      OBVIOUS
    <2>6. SumFees(LinesOf(i))' = SumFees(LinesOf(i))
      BY <2>2, <2>3, <2>5
    <2> QED
      BY <1>0, <1>2, <2>1, <2>2, <2>4, <2>6 DEF Fresh, OnReturn
  <1> QED
    BY <1>1, <1>2

\* While OneRequestPerReturn holds, every request stays fresh.
LEMMA FreshStays ==
    Inv /\ AllFresh /\ OneRequestPerReturn /\ [Next]_vars => AllFresh'
  <1> SUFFICES ASSUME Inv, AllFresh, OneRequestPerReturn, [Next]_vars
               PROVE  AllFresh'
    OBVIOUS
  <1>1. CASE UNCHANGED vars
    BY <1>1 DEF vars, AllFresh, Fresh, LinesOf, OpenReturns, SumFees, FeeUnits
  <1>2. ASSUME NEW q \in Requests, Serve(q), NEW p \in Requests
        PROVE  Fresh(work[p])'
    <2>0. /\ Fresh(work[p]) /\ Fresh(work[q]) /\ Sound(work[p]) /\ Sound(work[q])
          /\ Idle.op = "idle" /\ work[p] \in Work /\ work[q] \in Work
      BY DEF AllFresh, Inv, TypeOK, Idle
    <2>1. CASE \/ CheckActive(q) \/ ReadReturn(q) \/ ReadForFinalize(q) \/ Finalize(q)
               \/ ReadForLine(q) \/ ReadLines(q) \/ Recalculate(q) \/ ReadLine(q)
               \/ Abandon(q)
      BY <2>0, <2>1, ReadStepInv
    <2>2. CASE p = q /\ work'[q] = Idle
      BY <2>0, <2>2 DEF Fresh, OnReturn
    <2>3. ASSUME NEW u \in Txns, p # q, work[p].op = "create", u = work[p].txn
          PROVE  OpenReturns(u)' \subseteq OpenReturns(u)
      BY <1>2, <2>0, <2>3, OpenAfter DEF OneRequestPerReturn
    <2>4. CASE InsertReturn(q)
      <3>1. PICK r \in Returns \ DOMAIN ret, s \in Statuses :
                ret' = [j \in DOMAIN ret \cup {r} |->
                           IF j = r THEN [txn |-> work[q].txn, status |-> s,
                                          active |-> TRUE, fees |-> 0]
                                    ELSE ret[j]]
        BY <2>4 DEF InsertReturn
      <3>2. /\ work' = [work EXCEPT ![q] = Idle]
            /\ line' = line
        BY <2>4 DEF InsertReturn, Commits, Holds
      <3>3. CASE p # q
        <4>1. work'[p] = work[p]
          BY <3>2, <3>3 DEF Inv, TypeOK
        <4>2. \A i : work[p].op \in OnReturn /\ i = work[p].id =>
                  /\ ret'[i] = ret[i] /\ LinesOf(i)' = LinesOf(i)
                  /\ \A l \in LinesOf(i) : line'[l] = line[l]
          BY <2>0, <3>1, <3>2 DEF Sound, LinesOf
        <4> QED
          BY <2>0, <2>3, <3>3, <4>1, <4>2, ElsewhereStaysFresh
      <3> QED
        BY <2>2, <3>2, <3>3 DEF Inv, TypeOK
    <2>5. ASSUME NEW new, Allowed(work[q], new), Save(q, new)
          PROVE  Fresh(work[p])'
      <3>1. /\ \A i \in DOMAIN ret : ret'[i] = IF i = work[q].id THEN new ELSE ret[i]
            /\ line' = line
            /\ work' = [work EXCEPT ![q] = Idle]
        BY <2>0, <2>5, FreshSave DEF Save, Commits, Holds
      <3>2. work[q].op \in OnReturn
        BY <2>5 DEF Allowed, OnReturn
      <3>3. CASE p # q
        <4>1. work'[p] = work[p]
          BY <3>1, <3>3 DEF Inv, TypeOK
        <4>2. \A i : work[p].op \in OnReturn /\ i = work[p].id =>
                  /\ ret'[i] = ret[i] /\ LinesOf(i)' = LinesOf(i)
                  /\ \A l \in LinesOf(i) : line'[l] = line[l]
          BY <2>0, <3>1, <3>2, <3>3 DEF Sound, LinesOf, OneRequestPerReturn
        <4> QED
          BY <2>0, <2>3, <3>3, <4>1, <4>2, ElsewhereStaysFresh
      <3> QED
        BY <2>2, <3>1, <3>3 DEF Inv, TypeOK
    <2>6. CASE InsertLine(q)
      <3>1. /\ \A i : i # work[q].id => LinesOf(i)' = LinesOf(i)
            /\ \A k \in DOMAIN line : line'[k] = line[k]
            /\ Fresh(work[q])'
            /\ work[q].op \in OnReturn
            /\ ret' = ret
        BY <2>0, <2>6, InsertLineInv DEF InsertLine, OnReturn
      <3>2. CASE p # q
        <4>1. work'[p] = work[p]
          BY <2>6, <3>2 DEF InsertLine, Holds, Inv, TypeOK
        <4>2. \A i : work[p].op \in OnReturn /\ i = work[p].id =>
                  /\ ret'[i] = ret[i] /\ LinesOf(i)' = LinesOf(i)
                  /\ \A l \in LinesOf(i) : line'[l] = line[l]
          BY <3>1, <3>2 DEF LinesOf, OneRequestPerReturn
        <4> QED
          BY <2>0, <2>3, <3>2, <4>1, <4>2, ElsewhereStaysFresh
      <3> QED
        BY <3>1, <3>2
    <2>7. CASE UpdateLineStatus(q) \/ SetFee(q)
      <3>1. PICK new \in LineRow : new.ret = work[q].seen.ret /\ SaveLine(q, new)
        BY <2>7, LineSaves
      <3>2. work[q].op = "line"
        BY <2>7, LineSaves
      <3>3. /\ \A i : LinesOf(i)' = LinesOf(i)
            /\ \A k \in DOMAIN line : k # work[q].id => line'[k] = line[k]
            /\ work' = [work EXCEPT ![q] = Idle]
            /\ ret' = ret
        BY <3>1, <3>2, SaveLineInv DEF SaveLine, Commits, Holds
      <3>4. CASE p # q
        <4>1. work'[p] = work[p]
          BY <3>3, <3>4 DEF Inv, TypeOK
        <4>2. \A i : work[p].op \in OnReturn /\ i = work[p].id =>
                  /\ ret'[i] = ret[i] /\ LinesOf(i)' = LinesOf(i)
                  /\ \A l \in LinesOf(i) : line'[l] = line[l]
          BY <3>2, <3>3, <3>4 DEF LinesOf, OneRequestPerReturn
        <4> QED
          BY <2>0, <2>3, <3>4, <4>1, <4>2, ElsewhereStaysFresh
      <3> QED
        BY <2>2, <3>3, <3>4 DEF Inv, TypeOK
    <2> QED
      BY <1>2, <2>1, <2>4, <2>5, <2>6, <2>7, SavesAllowed DEF Serve
  <1> QED
    BY <1>1, <1>2 DEF Next, AllFresh

\* Every request is fresh in a behavior in which OneRequestPerReturn holds.
LEMMA AllFreshHolds == Spec /\ []OneRequestPerReturn => []AllFresh
  <1>1. Init => AllFresh
    BY DEF Init, AllFresh, Fresh, Idle, OnReturn
  <1> QED
    BY InvHolds, FreshStays, <1>1, PTL DEF Spec

\* create_rental_return keeps its promise of one active return per rental if
\* requests for the same return exclude each other, however those for other
\* returns interleave with them.
THEOREM ExclusiveReturns == Spec /\ []OneRequestPerReturn => []OneActiveReturn
  <1>1. Init => OneActiveReturn
    BY DEF Init, OneActiveReturn, OpenReturns
  <1>2. Inv /\ AllFresh /\ OneActiveReturn /\ [Next]_vars => OneActiveReturn'
    <2>1. ASSUME OneActiveReturn, UNCHANGED vars PROVE OneActiveReturn'
      BY <2>1 DEF vars, OneActiveReturn, OpenReturns
    <2> QED
      BY <2>1, OneReturnStep DEF Next, AllFresh
  <1> QED
    BY InvHolds, AllFreshHolds, <1>1, <1>2, PTL DEF Spec

\* A step leaves completed and cancelled returns, and their sets of lines, alone.
ClosedStays ==
    \A i \in DOMAIN ret :
        ret[i].status \in Closed => ret'[i] = ret[i] /\ LinesOf(i)' = LinesOf(i)

\* Then nothing changes a completed or cancelled return or gives it a line.
THEOREM ExclusiveClosing ==
    Spec /\ []OneRequestPerReturn => [][ClosedStays]_vars
  <1>1. Inv /\ AllFresh /\ [Next]_vars => [ClosedStays]_vars
    BY ClosedStep DEF Next, AllFresh, ClosedStays
  <1> QED
    BY InvHolds, AllFreshHolds, <1>1, PTL DEF Spec

\* Fees that a step stores in a return are those of its lines.
TotalsCurrent ==
    \A i \in DOMAIN ret :
        ret'[i].fees # ret[i].fees => ret'[i].fees = SumFees(LinesOf(i))

\* Then every total that is stored is that of the return's lines.
THEOREM ExclusiveTotals ==
    Spec /\ []OneRequestPerReturn => [][TotalsCurrent]_vars
  <1>1. Inv /\ AllFresh /\ [Next]_vars => [TotalsCurrent]_vars
    BY TotalsStep DEF Next, AllFresh, TotalsCurrent
  <1> QED
    BY InvHolds, AllFreshHolds, <1>1, PTL DEF Spec

=============================================================================
