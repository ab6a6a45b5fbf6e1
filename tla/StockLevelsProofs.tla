-------------------------- MODULE StockLevelsProofs --------------------------
(***************************************************************************)
(* What StockLevels guarantees for any number of requests, levels and      *)
(* sites, and any quantities.                                              *)
(*                                                                         *)
(* NonNegative is not inductive: a request writes a row it computed from   *)
(* one it loaded earlier, so the invariant must also say that every loaded *)
(* row passed the same test.  Then each column of an UPDATE is either one  *)
(* that StockLevel's method checked or the one already in the table.       *)
(*                                                                         *)
(* Requests that hold different levels (Exclusive) have fresh rows, and    *)
(* then the service implements the ledger.                                 *)
(***************************************************************************)
EXTENDS StockLevels, TLAPS

\* A row none of whose numbers is negative.
Sound(row) == row \in Row /\ \A n \in Numbers(row) : n >= 0

\* What a session loaded was a sound row of a level that still exists.
SessionsSound ==
    \A r \in Requests :
        sess[r].kind = "level" => sess[r].id \in DOMAIN stock /\ Sound(sess[r].seen)

IInv == TypeOK /\ NonNegative /\ OneLevelPerSite /\ SessionsSound

----------------------------------------------------------------------------
(* The methods of StockLevel.                                              *)

\* adjust_quantity leaves a sound row when it does not raise.
LEMMA AdjustedSound ==
    ASSUME NEW row \in Row, Sound(row), NEW a \in Int, CanAdjust(row, a)
    PROVE  Sound(Adjusted(row, a)) /\ Adjusted(row, a).site = row.site
  BY LedgerAssumption DEF Sound, Row, Text, Numbers, CanAdjust, Adjusted, NewRow

\* reserve_quantity leaves a sound row when it does not raise.
LEMMA ReservedSound ==
    ASSUME NEW row \in Row, Sound(row), NEW q \in Int, CanReserve(row, q)
    PROVE  /\ Sound(Reserved(row, q)) /\ Reserved(row, q).site = row.site
           /\ Reserved(row, q).onHand = row.onHand
  BY LedgerAssumption DEF Sound, Row, Text, Numbers, CanReserve, Reserved, NewRow

\* release_reservation leaves a sound row when it does not raise.
LEMMA ReleasedSound ==
    ASSUME NEW row \in Row, Sound(row), NEW q \in Int, CanRelease(row, q)
    PROVE  /\ Sound(Released(row, q)) /\ Released(row, q).site = row.site
           /\ Released(row, q).onHand = row.onHand
  BY LedgerAssumption DEF Sound, Row, Text, Numbers, CanRelease, Released, NewRow

\* A row made of a site and three columns, each a natural number or blank, is
\* sound.
LEMMA NewRowSound ==
    ASSUME NEW site \in Sites, NEW h \in Nat \cup {Blank}, NEW a \in Nat \cup {Blank},
           NEW s \in Nat \cup {Blank}
    PROVE  Sound(NewRow(site, h, a, s)) /\ NewRow(site, h, a, s).site = site
  BY DEF Sound, Row, Text, Numbers, NewRow

\* The row of a POST is sound and fits if its quantities fit.
LEMMA CreatedRowSound ==
    ASSUME NEW site \in Sites, NEW h \in Quantities, NEW a \in Quantities \cup {Blank},
           NEW s \in Quantities \cup {Blank}
    PROVE  LET row == CreatedRow(site, h, a, s)
           IN  Sound(row) /\ Fits(row) /\ row.site = site
  <1> DEFINE available == IF a = Blank THEN h ELSE a
             reserved == IF s = Blank THEN 0 ELSE s
  <1>1. /\ h \in 0 .. MaxQuantity /\ available \in 0 .. MaxQuantity
        /\ reserved \in 0 .. MaxQuantity /\ MaxQuantity \in Nat
    BY LedgerAssumption
  <1>2. CreatedRow(site, h, a, s) = NewRow(site, h, available, reserved)
    BY DEF CreatedRow
  <1> HIDE DEF available, reserved
  <1>3. /\ Sound(NewRow(site, h, available, reserved))
        /\ NewRow(site, h, available, reserved).site = site
    BY <1>1, NewRowSound
  <1>4. Fits(NewRow(site, h, available, reserved))
    BY <1>1 DEF Fits, Numbers, NewRow
  <1> QED
    BY <1>2, <1>3, <1>4

\* An UPDATE leaves each column as it was or as the request computed it.
LEMMA FlushSound ==
    ASSUME NEW db \in Row, Sound(db), Fits(db), NEW seen, NEW row \in Row, Sound(row), Fits(row),
           NEW respelt
    PROVE  LET flushed == Flush(db, seen, row, respelt)
           IN  Sound(flushed) /\ Fits(flushed) /\ flushed.site = db.site
  <1> DEFINE flushed == Flush(db, seen, row, respelt)
  <1>1. /\ flushed = [site |-> db.site, onHand |-> flushed.onHand,
                      available |-> flushed.available, reserved |-> flushed.reserved]
        /\ flushed.onHand \in {db.onHand, row.onHand}
        /\ flushed.available \in {db.available, row.available}
        /\ flushed.reserved \in {db.reserved, row.reserved}
    BY DEF Flush, Written
  <1> HIDE DEF flushed
  <1>2. flushed \in Row /\ flushed.site = db.site
    BY <1>1 DEF Row
  <1>3. Numbers(flushed) \subseteq Numbers(db) \cup Numbers(row)
    BY <1>1 DEF Numbers
  <1> QED
    BY <1>2, <1>3 DEF Sound, Fits, flushed

\* An UPDATE of a row nobody changed since it was loaded leaves exactly what
\* the request computed.
LEMMA FlushFresh ==
    ASSUME NEW db \in Row, NEW row \in Row, row.site = db.site, NEW respelt
    PROVE  Flush(db, db, row, respelt) = row
  BY DEF Row, Flush, Written

----------------------------------------------------------------------------
\* The empty table and the idle sessions satisfy the invariant.
LEMMA InitInv == Init => IInv
  BY DEF Init, LedgerInit, IInv, TypeOK, NonNegative, OneLevelPerSite,
         SessionsSound, Idle

\* A session that loaded a level holds the record Load made.
LEMMA LoadedSession ==
    ASSUME IInv, NEW r \in Requests, sess[r].kind = "level"
    PROVE  /\ sess[r].id \in DOMAIN stock /\ sess[r].id \in Levels
           /\ Sound(sess[r].seen)
  BY DEF IInv, TypeOK, SessionsSound

\* What PUT commits is a sound row made of quantities it may name, blanks and
\* the columns it leaves.
LEMMA PutRow ==
    ASSUME IInv, NEW r \in Requests, Put(r)
    PROVE  LET seen == sess[r].seen
               Set(c) == Quantities \cup {Blank, seen[c]}
           IN  \E onHand \in Set("onHand"), available \in Set("available"),
                  reserved \in Set("reserved") :
                   LET row == NewRow(seen.site, onHand, available, reserved)
                   IN  /\ Sound(row) /\ row.site = seen.site
                       /\ \E assigned : Commit(r, row, assigned)
  <1> DEFINE seen == sess[r].seen
             Set(c) == Quantities \cup {Blank, seen[c]}
  <1>1. Sound(seen) /\ seen.site \in Sites
    BY LoadedSession DEF Put, Sound, Row
  <1>2. PICK onHand \in Set("onHand"), available \in Set("available"),
             reserved \in Set("reserved") :
            \E assigned : Commit(r, NewRow(seen.site, onHand, available, reserved), assigned)
    BY DEF Put
  <1>3. /\ onHand \in Nat \cup {Blank} /\ available \in Nat \cup {Blank}
        /\ reserved \in Nat \cup {Blank}
    BY <1>1, LedgerAssumption DEF Sound, Row, Text, Numbers
  <1>4. /\ Sound(NewRow(seen.site, onHand, available, reserved))
        /\ NewRow(seen.site, onHand, available, reserved).site = seen.site
    BY <1>1, <1>3, NewRowSound
  <1> QED
    BY <1>2, <1>4

\* A commit of a sound row keeps the invariant.
LEMMA CommitInv ==
    ASSUME IInv, NEW r \in Requests, sess[r].kind = "level",
           NEW row, Sound(row), NEW assigned, Commit(r, row, assigned)
    PROVE  IInv'
  <1> DEFINE l == sess[r].id
  <1>0. PICK respelt :
            /\ stock' = [stock EXCEPT ![l] = Flush(stock[l], sess[r].seen, row, respelt)]
            /\ sess' = [sess EXCEPT ![r] = Idle]
    BY DEF Commit
  <1> DEFINE flushed == Flush(stock[l], sess[r].seen, row, respelt)
  <1>1. l \in DOMAIN stock /\ stock[l] \in Row
    BY LoadedSession DEF IInv, TypeOK
  <1>2. Sound(stock[l]) /\ Fits(stock[l])
    BY <1>1 DEF IInv, TypeOK, Fits, NonNegative, Sound
  <1>3. Sound(flushed) /\ Fits(flushed) /\ flushed.site = stock[l].site
    <2>1. Fits(row)
      BY DEF Commit
    <2>2. row \in Row
      BY DEF Sound
    <2> QED
      BY <1>1, <1>2, <2>1, <2>2, FlushSound
  <1>4. /\ stock' = [stock EXCEPT ![l] = flushed]
        /\ sess' = [sess EXCEPT ![r] = Idle]
    BY <1>0
  <1> HIDE DEF flushed
  <1>5. DOMAIN stock' = DOMAIN stock
    BY <1>4
  <1>6. \A k \in DOMAIN stock : stock'[k] = IF k = l THEN flushed ELSE stock[k]
    BY <1>1, <1>4
  <1>7. stock' \in [DOMAIN stock -> Row]
    BY <1>1, <1>3, <1>4 DEF IInv, TypeOK, Sound
  <1>8. TypeOK'
    <2>1. sess' \in [Requests -> {Idle} \cup Loaded \cup Creating]
      BY <1>4 DEF IInv, TypeOK
    <2>2. \A k \in DOMAIN stock : Fits(stock'[k])
      BY <1>3, <1>6 DEF IInv, TypeOK, Fits
    <2> QED
      BY <2>1, <2>2, <1>5, <1>7 DEF TypeOK, IInv, Fits, Row, Loaded, Creating, Idle
  <1>9. NonNegative'
    BY <1>3, <1>5, <1>6 DEF NonNegative, Sound, IInv
  <1>10. OneLevelPerSite'
    BY <1>3, <1>5, <1>6 DEF OneLevelPerSite, IInv
  <1>11. SessionsSound'
    <2>1. Idle.kind # "level"
      BY DEF Idle
    <2>2. \A p \in Requests : sess'[p] = IF p = r THEN Idle ELSE sess[p]
      BY <1>4 DEF IInv, TypeOK
    <2> QED
      BY <2>1, <2>2, <1>5 DEF SessionsSound, IInv, Sound
  <1> QED
    BY <1>8, <1>9, <1>10, <1>11 DEF IInv

\* An INSERT the unique index lets in keeps the invariant.
LEMMA CreateInv ==
    ASSUME IInv, NEW r \in Requests, Create(r)
    PROVE  IInv'
  <1>1. /\ sess[r] \in Creating /\ sess[r].site \in Sites
        /\ NoLevelFor(sess[r].site)
    BY DEF Create, IInv, TypeOK, Idle, Loaded, Creating, IndexAdmits
  <1>2. PICK l \in Levels \ DOMAIN stock, h \in Quantities,
             a \in Quantities \cup {Blank}, s \in Quantities \cup {Blank} :
            stock' = [k \in DOMAIN stock \cup {l} |->
                         IF k = l THEN CreatedRow(sess[r].site, h, a, s) ELSE stock[k]]
    BY DEF Create
  <1> DEFINE row == CreatedRow(sess[r].site, h, a, s)
  <1>3. Sound(row) /\ Fits(row) /\ row.site = sess[r].site
    BY <1>1, CreatedRowSound
  <1> HIDE DEF row
  <1>4. DOMAIN stock' = DOMAIN stock \cup {l}
    BY <1>2
  <1>5. \A k \in DOMAIN stock' : stock'[k] = IF k = l THEN row ELSE stock[k]
    BY <1>2 DEF row
  <1>6. stock' = [k \in DOMAIN stock' |-> stock'[k]]
    BY <1>2
  <1>7. \A k \in DOMAIN stock : k # l
    BY <1>2
  <1>8. sess' = [sess EXCEPT ![r] = Idle]
    BY DEF Create
  <1>9. TypeOK'
    <2>1. DOMAIN stock' \subseteq Levels
      BY <1>2, <1>4 DEF IInv, TypeOK
    <2>2. \A k \in DOMAIN stock' : stock'[k] \in Row /\ Fits(stock'[k])
      BY <1>3, <1>4, <1>5 DEF IInv, TypeOK, Fits, Sound
    <2>3. sess' \in [Requests -> {Idle} \cup Loaded \cup Creating]
      BY <1>8 DEF IInv, TypeOK
    <2> QED
      BY <1>6, <2>1, <2>2, <2>3 DEF TypeOK, Fits, Row, Loaded, Creating, Idle
  <1>10. NonNegative'
    BY <1>3, <1>4, <1>5 DEF NonNegative, Sound, IInv
  <1>11. OneLevelPerSite'
    BY <1>1, <1>3, <1>4, <1>5 DEF OneLevelPerSite, NoLevelFor, IInv
  <1>12. SessionsSound'
    <2>1. Idle.kind # "level"
      BY DEF Idle
    <2>2. \A p \in Requests : sess'[p] = IF p = r THEN Idle ELSE sess[p]
      BY <1>8 DEF IInv, TypeOK
    <2> QED
      BY <2>1, <2>2, <1>4 DEF SessionsSound, IInv, Sound
  <1> QED
    BY <1>9, <1>10, <1>11, <1>12 DEF IInv

\* A step that leaves the table alone keeps the invariant if the new session is
\* idle, waits to create a level, or has loaded a row of the table.
LEMMA SessionInv ==
    ASSUME IInv, NEW r \in Requests, UNCHANGED stock,
           NEW s, sess' = [sess EXCEPT ![r] = s],
           \/ s = Idle
           \/ s \in Creating
           \/ \E l \in DOMAIN stock : s = [kind |-> "level", id |-> l, seen |-> stock[l]]
    PROVE  IInv'
  <1>1. s \in {Idle} \cup Loaded \cup Creating
    BY DEF IInv, TypeOK, Loaded
  <1>2. s.kind = "level" => s.id \in DOMAIN stock /\ Sound(s.seen)
    BY DEF Idle, Creating, IInv, TypeOK, NonNegative, Sound
  <1>3. \A p \in Requests : sess'[p] = IF p = r THEN s ELSE sess[p]
    BY DEF IInv, TypeOK
  <1>4. sess' \in [Requests -> {Idle} \cup Loaded \cup Creating]
    BY <1>1 DEF IInv, TypeOK
  <1>5. TypeOK'
    BY <1>4 DEF IInv, TypeOK, Fits, Row, Loaded, Creating, Idle
  <1>6. NonNegative' /\ OneLevelPerSite'
    BY DEF IInv, NonNegative, OneLevelPerSite
  <1>7. SessionsSound'
    BY <1>2, <1>3 DEF SessionsSound, IInv, Sound
  <1> QED
    BY <1>5, <1>6, <1>7 DEF IInv

\* Every step of every request keeps the invariant.
LEMMA NextInv == IInv /\ [Next]_vars => IInv'
  <1> SUFFICES ASSUME IInv, [Next]_vars PROVE IInv'
    OBVIOUS
  <1>1. CASE UNCHANGED vars
    BY <1>1 DEF vars, IInv, TypeOK, NonNegative, OneLevelPerSite, SessionsSound,
               Sound, Fits, Row, Loaded, Creating, Idle
  <1>2. ASSUME NEW r \in Requests, Load(r) PROVE IInv'
    BY <1>2, SessionInv DEF Load
  <1>3. ASSUME NEW r \in Requests, Adjust(r) PROVE IInv'
    <2>1. PICK a \in Adjustments :
              /\ CanAdjust(sess[r].seen, a)
              /\ Commit(r, Adjusted(sess[r].seen, a), {"onHand", "available"})
      BY <1>3 DEF Adjust
    <2>2. sess[r].kind = "level" /\ Sound(sess[r].seen) /\ sess[r].seen \in Row
      BY <1>3, LoadedSession DEF Adjust, Sound
    <2>3. Sound(Adjusted(sess[r].seen, a))
      BY <2>1, <2>2, AdjustedSound, LedgerAssumption
    <2> QED
      BY <2>1, <2>2, <2>3, CommitInv
  <1>4. ASSUME NEW r \in Requests, Reserve(r) PROVE IInv'
    <2>1. PICK q \in Quantities :
              /\ CanReserve(sess[r].seen, q)
              /\ Commit(r, Reserved(sess[r].seen, q), {"available", "reserved"})
      BY <1>4 DEF Reserve, ReserveQuantity
    <2>2. sess[r].kind = "level" /\ Sound(sess[r].seen) /\ sess[r].seen \in Row
      BY <1>4, LoadedSession DEF Reserve, ReserveQuantity, Sound
    <2>3. Sound(Reserved(sess[r].seen, q))
      BY <2>1, <2>2, ReservedSound, LedgerAssumption
    <2> QED
      BY <2>1, <2>2, <2>3, CommitInv
  <1>5. ASSUME NEW r \in Requests, Release(r) PROVE IInv'
    <2>1. PICK q \in Quantities :
              /\ CanRelease(sess[r].seen, q)
              /\ Commit(r, Released(sess[r].seen, q), {"available", "reserved"})
      BY <1>5 DEF Release
    <2>2. sess[r].kind = "level" /\ Sound(sess[r].seen) /\ sess[r].seen \in Row
      BY <1>5, LoadedSession DEF Release, Sound
    <2>3. Sound(Released(sess[r].seen, q))
      BY <2>1, <2>2, ReleasedSound, LedgerAssumption
    <2> QED
      BY <2>1, <2>2, <2>3, CommitInv
  <1>6. ASSUME NEW r \in Requests, Put(r) PROVE IInv'
    <2> DEFINE seen == sess[r].seen
    <2>1. Sound(seen) /\ sess[r].kind = "level"
      BY <1>6, LoadedSession DEF Put
    <2>2. PICK row, assigned : Commit(r, row, assigned) /\ Sound(row)
      BY <1>6, <2>1, PutRow
    <2> QED
      BY <2>1, <2>2, CommitInv
  <1>7. ASSUME NEW r \in Requests, CheckAbsent(r) PROVE IInv'
    BY <1>7, SessionInv DEF CheckAbsent, Creating
  <1>8. ASSUME NEW r \in Requests, Create(r) PROVE IInv'
    BY <1>8, CreateInv
  <1>9. ASSUME NEW r \in Requests, RollBack(r) PROVE IInv'
    BY <1>9, SessionInv DEF RollBack
  <1> QED
    BY <1>1, <1>2, <1>3, <1>4, <1>5, <1>6, <1>7, <1>8, <1>9 DEF Next

\* The strengthened invariant holds in every reachable state.
LEMMA Invariant == Spec => []IInv
  BY InitInv, NextInv, PTL DEF Spec

\* Rows, sessions and column widths are right whatever the requests do.
THEOREM TypeCorrect == Spec => []TypeOK
  <1>1. IInv => TypeOK
    BY DEF IInv
  <1> QED
    BY <1>1, Invariant, PTL

\* No interleaving of the stock requests makes a quantity negative.
THEOREM NeverNegative == Spec => []NonNegative
  <1>1. IInv => NonNegative
    BY DEF IInv
  <1> QED
    BY <1>1, Invariant, PTL

\* No interleaving creates two levels of one item at one location.
THEOREM UniqueLevels == Spec => []OneLevelPerSite
  <1>1. IInv => OneLevelPerSite
    BY DEF IInv
  <1> QED
    BY <1>1, Invariant, PTL

----------------------------------------------------------------------------
(* A reservation names only its own columns.                               *)

\* Whatever was committed since a reservation or a release loaded its row, the
\* on_hand of every level stays what it is.
LEMMA ReservationStep ==
    ASSUME IInv, NEW r \in Requests, Reserve(r) \/ Release(r)
    PROVE  \A l \in DOMAIN stock : stock'[l].onHand = stock[l].onHand
  <1> DEFINE seen == sess[r].seen
  <1>1. sess[r].kind = "level"
    BY DEF Reserve, ReserveQuantity, Release
  <1>2. seen \in Row /\ Sound(seen)
    BY <1>1, LoadedSession DEF Sound
  <1>3. PICK row : Commit(r, row, {"available", "reserved"}) /\ row.onHand = seen.onHand
    <2>1. CASE Reserve(r)
      BY <2>1, <1>2, ReservedSound, LedgerAssumption DEF Reserve, ReserveQuantity
    <2>2. CASE Release(r)
      BY <2>2, <1>2, ReleasedSound, LedgerAssumption DEF Release
    <2> QED
      BY <2>1, <2>2
  <1>4. PICK respelt \in SUBSET {"available", "reserved"} :
            stock' = [stock EXCEPT ![sess[r].id] =
                         Flush(stock[sess[r].id], seen, row, respelt)]
    BY <1>3 DEF Commit
  <1>5. Flush(stock[sess[r].id], seen, row, respelt).onHand = stock[sess[r].id].onHand
    BY <1>3 DEF Flush, Written
  <1> QED
    BY <1>4, <1>5

\* ReservationKeepsOnHand for any instance.
THEOREM ReservationsSpareOnHand == Spec => ReservationKeepsOnHand
  <1>1. IInv /\ [Next]_vars =>
            [\A r \in Requests :
                Reserve(r) \/ Release(r) =>
                    \A l \in DOMAIN stock : stock'[l].onHand = stock[l].onHand]_vars
    BY ReservationStep
  <1> QED
    BY <1>1, Invariant, PTL DEF Spec, ReservationKeepsOnHand

----------------------------------------------------------------------------
(* Without a competing commit the service is the atomic ledger.            *)

\* Committing a row computed from the row that is still in the table stores it.
LEMMA FreshCommit ==
    ASSUME IInv, NEW r \in Requests, sess[r].kind = "level", Fresh(r),
           NEW row \in Row, row.site = sess[r].seen.site, NEW assigned,
           Commit(r, row, assigned)
    PROVE  Store(sess[r].id, row)
  <1>1. stock[sess[r].id] = sess[r].seen /\ sess[r].seen \in Row
    BY LoadedSession DEF Fresh, Sound
  <1>2. \A respelt : Flush(stock[sess[r].id], sess[r].seen, row, respelt) = row
    BY <1>1, FlushFresh
  <1> QED
    BY <1>2 DEF Commit, Store

\* A request whose row is fresh takes the ledger's step of the same name.
LEMMA FreshRequest ==
    ASSUME IInv, NEW r \in Requests, sess[r].kind = "level", Fresh(r)
    PROVE  Atomic(r)
  <1> DEFINE l == sess[r].id
             seen == sess[r].seen
  <1>1. /\ l \in DOMAIN stock /\ stock[l] = seen
        /\ seen \in Row /\ Sound(seen) /\ seen.site \in Sites
    BY LoadedSession DEF Fresh, Sound, Row
  <1>2. ASSUME Adjust(r) PROVE AdjustStep(l)
    <2>1. PICK a \in Adjustments :
              CanAdjust(seen, a) /\ Commit(r, Adjusted(seen, a), {"onHand", "available"})
      BY <1>2 DEF Adjust
    <2>2. Adjusted(seen, a) \in Row /\ Adjusted(seen, a).site = seen.site
      BY <1>1, <2>1, AdjustedSound, LedgerAssumption DEF Sound
    <2>3. Store(l, Adjusted(seen, a))
      BY <2>1, <2>2, FreshCommit
    <2> QED
      BY <1>1, <2>1, <2>3 DEF AdjustStep
  <1>3. ASSUME Reserve(r) PROVE ReserveStep(l)
    <2>1. PICK q \in Quantities :
              CanReserve(seen, q) /\ Commit(r, Reserved(seen, q), {"available", "reserved"})
      BY <1>3 DEF Reserve, ReserveQuantity
    <2>2. Reserved(seen, q) \in Row /\ Reserved(seen, q).site = seen.site
      BY <1>1, <2>1, ReservedSound, LedgerAssumption DEF Sound
    <2>3. Store(l, Reserved(seen, q))
      BY <2>1, <2>2, FreshCommit
    <2> QED
      BY <1>1, <2>1, <2>3 DEF ReserveStep
  <1>4. ASSUME Release(r) PROVE ReleaseStep(l)
    <2>1. PICK q \in Quantities :
              CanRelease(seen, q) /\ Commit(r, Released(seen, q), {"available", "reserved"})
      BY <1>4 DEF Release
    <2>2. Released(seen, q) \in Row /\ Released(seen, q).site = seen.site
      BY <1>1, <2>1, ReleasedSound, LedgerAssumption DEF Sound
    <2>3. Store(l, Released(seen, q))
      BY <2>1, <2>2, FreshCommit
    <2> QED
      BY <1>1, <2>1, <2>3 DEF ReleaseStep
  <1>5. ASSUME Put(r) PROVE PutStep(l)
    <2> DEFINE Set(c) == Quantities \cup {Blank, seen[c]}
    <2>1. PICK onHand \in Set("onHand"), available \in Set("available"),
               reserved \in Set("reserved") :
              LET row == NewRow(seen.site, onHand, available, reserved)
              IN  /\ Sound(row) /\ row.site = seen.site
                  /\ \E assigned : Commit(r, row, assigned)
      BY <1>5, PutRow
    <2>2. Store(l, NewRow(seen.site, onHand, available, reserved))
      BY <2>1, FreshCommit DEF Sound
    <2> QED
      BY <1>1, <2>2 DEF PutStep
  <1> QED
    BY <1>2, <1>3, <1>4, <1>5 DEF Atomic

\* FreshCommitIsAtomic for any instance: only a commit between a request's load
\* and its own can make the service depart from the ledger.
THEOREM FreshIsAtomic == Spec => FreshCommitIsAtomic
  <1>1. IInv /\ [Next]_vars =>
            [\A r \in Requests : sess[r].kind = "level" /\ Fresh(r) => Atomic(r)]_vars
    BY FreshRequest
  <1> QED
    BY <1>1, Invariant, PTL DEF Spec, FreshCommitIsAtomic

\* An atomic adjustment, reservation or release keeps a counted level counted.
LEMMA AtomicKeepsCount ==
    ASSUME stock \in [DOMAIN stock -> Row], NEW l \in DOMAIN stock,
           AdjustStep(l) \/ ReserveStep(l) \/ ReleaseStep(l),
           NEW k \in DOMAIN stock, Counted(stock[k])
    PROVE  Counted(stock'[k])
  <1>1. stock[l] \in Row
    OBVIOUS
  <1>2. PICK row : Store(l, row) /\ (Counted(stock[l]) => Counted(row))
    <2>1. CASE AdjustStep(l)
      <3>1. PICK a \in Adjustments : Store(l, Adjusted(stock[l], a))
        BY <2>1 DEF AdjustStep
      <3>2. Counted(stock[l]) => Counted(Adjusted(stock[l], a))
        BY <1>1, LedgerAssumption DEF Counted, Adjusted, NewRow, Row, Text
      <3> QED
        BY <3>1, <3>2
    <2>2. CASE ReserveStep(l)
      <3>1. PICK q \in Quantities : Store(l, Reserved(stock[l], q))
        BY <2>2 DEF ReserveStep
      <3>2. Counted(stock[l]) => Counted(Reserved(stock[l], q))
        BY <1>1, LedgerAssumption DEF Counted, Reserved, NewRow, Row, Text
      <3> QED
        BY <3>1, <3>2
    <2>3. CASE ReleaseStep(l)
      <3>1. PICK q \in Quantities : Store(l, Released(stock[l], q))
        BY <2>3 DEF ReleaseStep
      <3>2. Counted(stock[l]) => Counted(Released(stock[l], q))
        BY <1>1, LedgerAssumption DEF Counted, Released, NewRow, Row, Text
      <3> QED
        BY <3>1, <3>2
    <2> QED
      BY <2>1, <2>2, <2>3
  <1>3. stock' = [stock EXCEPT ![l] = row]
    BY <1>2 DEF Store
  <1>4. CASE k = l
    BY <1>2, <1>3, <1>4
  <1>5. CASE k # l
    BY <1>3, <1>5
  <1> QED
    BY <1>4, <1>5

\* NoStockVanishes for any instance.
THEOREM CountsAreKept == Spec => NoStockVanishes
  <1>1. ASSUME IInv, NEW r \in Requests, Fresh(r), Adjust(r) \/ Reserve(r) \/ Release(r),
               NEW k \in DOMAIN stock, Counted(stock[k])
        PROVE  Counted(stock'[k])
    <2>1. sess[r].kind = "level"
      BY <1>1 DEF Adjust, Reserve, ReserveQuantity, Release
    <2>2. sess[r].id \in DOMAIN stock /\ Atomic(r)
      BY <1>1, <2>1, LoadedSession, FreshRequest
    <2>3. stock \in [DOMAIN stock -> Row]
      BY <1>1 DEF IInv, TypeOK
    <2> QED
      BY <1>1, <2>2, <2>3, AtomicKeepsCount DEF Atomic
  <1>2. IInv /\ [Next]_vars =>
            [\A r \in Requests :
                Fresh(r) /\ (Adjust(r) \/ Reserve(r) \/ Release(r)) =>
                    \A l \in DOMAIN stock : Counted(stock[l]) => Counted(stock'[l])]_vars
    BY <1>1
  <1> QED
    BY <1>2, Invariant, PTL DEF Spec, NoStockVanishes

\* A step of a request whose row is fresh is a step of the ledger.
LEMMA FreshStep ==
    ASSUME IInv, NEW r \in Requests, Fresh(r),
           \/ Load(r) \/ Adjust(r) \/ Reserve(r) \/ Release(r) \/ Put(r)
           \/ CheckAbsent(r) \/ Create(r) \/ RollBack(r)
    PROVE  [LedgerStep]_stock
  <1>1. CASE Load(r) \/ CheckAbsent(r) \/ RollBack(r)
    BY <1>1 DEF Load, CheckAbsent, RollBack
  <1>2. CASE Adjust(r) \/ Reserve(r) \/ Release(r) \/ Put(r)
    <2>1. sess[r].kind = "level"
      BY <1>2 DEF Adjust, Reserve, ReserveQuantity, Release, Put
    <2>2. sess[r].id \in DOMAIN stock /\ Atomic(r)
      BY <2>1, LoadedSession, FreshRequest
    <2> QED
      BY <1>2, <2>2 DEF Atomic, LedgerStep
  <1>3. CASE Create(r)
    <2>1. sess[r].site \in Sites
      BY <1>3 DEF Create, IInv, TypeOK, Idle, Loaded, Creating
    <2>2. PICK k \in Levels \ DOMAIN stock : CreateStep(k)
      BY <1>3, <2>1 DEF Create, CreateStep
    <2> QED
      BY <2>2 DEF LedgerStep
  <1> QED
    BY <1>1, <1>2, <1>3

\* No two requests have loaded the same level at once: what a lock taken by the
\* SELECT, which the code does not ask for, would make true.
Exclusive ==
    \A p, q \in Requests :
        p # q /\ sess[p].kind = "level" /\ sess[q].kind = "level" =>
            sess[p].id # sess[q].id

AllFresh == \A r \in Requests : Fresh(r)

\* A request that commits or ends leaves every row but the one it had loaded.
LEMMA OthersKeepRows ==
    ASSUME IInv, NEW r \in Requests,
           \/ Load(r) \/ Adjust(r) \/ Reserve(r) \/ Release(r) \/ Put(r)
           \/ CheckAbsent(r) \/ Create(r) \/ RollBack(r),
           NEW l \in DOMAIN stock, ~(sess[r].kind = "level" /\ sess[r].id = l)
    PROVE  l \in DOMAIN stock' /\ stock'[l] = stock[l]
  <1>1. CASE Load(r) \/ CheckAbsent(r) \/ RollBack(r)
    BY <1>1 DEF Load, CheckAbsent, RollBack
  <1>2. CASE Adjust(r) \/ Reserve(r) \/ Release(r) \/ Put(r)
    <2>1. sess[r].kind = "level"
      BY <1>2 DEF Adjust, Reserve, ReserveQuantity, Release, Put
    <2>2. \E row, assigned : Commit(r, row, assigned)
      BY <1>2 DEF Adjust, Reserve, ReserveQuantity, Release, Put
    <2> QED
      BY <2>1, <2>2 DEF Commit
  <1>3. CASE Create(r)
    <2>1. PICK k \in Levels \ DOMAIN stock : \E row :
              stock' = [m \in DOMAIN stock \cup {k} |-> IF m = k THEN row ELSE stock[m]]
      BY <1>3 DEF Create
    <2> QED
      BY <2>1
  <1> QED
    BY <1>1, <1>2, <1>3

\* What the acting request is left with: nothing, or the row as the table has it.
LEMMA ActorStaysFresh ==
    ASSUME IInv, NEW r \in Requests,
           \/ Load(r) \/ Adjust(r) \/ Reserve(r) \/ Release(r) \/ Put(r)
           \/ CheckAbsent(r) \/ Create(r) \/ RollBack(r)
    PROVE  /\ Fresh(r)'
           /\ \A p \in Requests : p # r => sess'[p] = sess[p]
  <1>1. CASE Load(r)
    <2>1. PICK l \in DOMAIN stock :
              sess' = [sess EXCEPT ![r] = [kind |-> "level", id |-> l, seen |-> stock[l]]]
      BY <1>1 DEF Load
    <2>2. sess'[r] = [kind |-> "level", id |-> l, seen |-> stock[l]] /\ stock' = stock
      BY <1>1, <2>1 DEF Load, IInv, TypeOK
    <2> QED
      BY <2>1, <2>2 DEF Fresh
  <1>2. CASE CheckAbsent(r)
    <2>1. PICK s \in Sites : sess' = [sess EXCEPT ![r] = [kind |-> "create", site |-> s]]
      BY <1>2 DEF CheckAbsent
    <2>2. sess'[r].kind = "create"
      BY <2>1 DEF IInv, TypeOK
    <2> QED
      BY <2>1, <2>2 DEF Fresh
  <1>3. CASE Adjust(r) \/ Reserve(r) \/ Release(r) \/ Put(r) \/ Create(r) \/ RollBack(r)
    <2>1. sess' = [sess EXCEPT ![r] = Idle]
      BY <1>3 DEF Adjust, Reserve, ReserveQuantity, Release, Put, Create, RollBack, Commit
    <2>2. sess'[r] = Idle
      BY <2>1 DEF IInv, TypeOK
    <2> QED
      BY <2>1, <2>2 DEF Fresh, Idle
  <1> QED
    BY <1>1, <1>2, <1>3

\* While no two requests hold one level, every loaded row is the table's and
\* every step is one of the ledger.
LEMMA ExclusiveStep ==
    IInv /\ AllFresh /\ Exclusive /\ [Next]_vars => AllFresh' /\ [LedgerStep]_stock
  <1> SUFFICES ASSUME IInv, AllFresh, Exclusive, [Next]_vars
               PROVE  AllFresh' /\ [LedgerStep]_stock
    OBVIOUS
  <1>1. CASE UNCHANGED vars
    BY <1>1 DEF vars, AllFresh, Fresh
  <1>2. ASSUME NEW r \in Requests,
               \/ Load(r) \/ Adjust(r) \/ Reserve(r) \/ Release(r) \/ Put(r)
               \/ CheckAbsent(r) \/ Create(r) \/ RollBack(r)
        PROVE  AllFresh' /\ [LedgerStep]_stock
    <2>1. [LedgerStep]_stock
      BY <1>2, FreshStep DEF AllFresh
    <2>2. ASSUME NEW p \in Requests
          PROVE  Fresh(p)'
      <3>1. CASE p = r
        BY <1>2, <3>1, ActorStaysFresh
      <3>2. CASE p # r /\ sess[p].kind # "level"
        BY <1>2, <3>2, ActorStaysFresh DEF Fresh
      <3>3. CASE p # r /\ sess[p].kind = "level"
        <4>1. sess'[p] = sess[p] /\ sess[p].id \in DOMAIN stock
          BY <1>2, <3>3, ActorStaysFresh, LoadedSession
        <4>2. ~(sess[r].kind = "level" /\ sess[r].id = sess[p].id)
          BY <3>3 DEF Exclusive
        <4>3. PICK l \in DOMAIN stock : l = sess[p].id
          BY <4>1
        <4>4. stock'[l] = stock[l]
          BY <1>2, <4>2, <4>3, OthersKeepRows
        <4>5. stock[l] = sess[p].seen
          BY <3>3, <4>3 DEF AllFresh, Fresh
        <4> QED
          BY <4>1, <4>3, <4>4, <4>5 DEF Fresh
      <3> QED
        BY <3>1, <3>2, <3>3
    <2> QED
      BY <2>1, <2>2 DEF AllFresh
  <1> QED
    BY <1>1, <1>2 DEF Next

\* A service in which no two requests hold one level implements the ledger,
\* however many requests are at work on different levels or creating some.
THEOREM ExclusiveRefinement == Spec /\ []Exclusive => Ledger
  <1>1. Init => LedgerInit /\ AllFresh
    BY DEF Init, AllFresh, Fresh, Idle
  <1> QED
    BY <1>1, ExclusiveStep, Invariant, PTL DEF Spec, Ledger

\* Then no request reserves more than the table has available when it commits.
THEOREM ExclusiveReservations == Spec /\ []Exclusive => ReserveWithinAvailable
  <1>1. Init => AllFresh
    BY DEF Init, AllFresh, Fresh, Idle
  <1>2. IInv /\ AllFresh /\ [Next]_vars =>
            [\A r \in Requests, q \in Quantities :
                ReserveQuantity(r, q) => q <= stock[sess[r].id].available]_vars
    BY DEF ReserveQuantity, CanReserve, AllFresh, Fresh
  <1> QED
    BY <1>1, <1>2, ExclusiveStep, Invariant, PTL DEF Spec, ReserveWithinAvailable

=============================================================================
