------------------------- MODULE RateLimiterProofs -------------------------
(***************************************************************************)
(* The rate limiter admits at most Limit numbered requests in a window,    *)
(* whatever the limit, the window and the number of concurrent requests.   *)
(*                                                                         *)
(* A counter that is renewed at each of its requests is gone no earlier    *)
(* than a window after the last one let in (Fresh), so that all those let  *)
(* in during a window have been numbered by the same counter, and it gives *)
(* no number up to Limit twice (Unique).                                   *)
(***************************************************************************)
EXTENDS RateLimiter, FiniteSetTheorems, TLAPS

\* q has a number of the present counter.
Holds(q) == serving[q].at = "counted" /\ ~ serving[q].overtaken

Fresh ==
    /\ count = 0 => ttl = NoExpiry
    /\ ttl = NoExpiry => admitted = {}
    /\ \A a \in admitted : a[2] + ttl >= Window

Unique ==
    /\ \A a \in admitted : a[1] <= count
    /\ \A a, b \in admitted : a[1] = b[1] => a = b
    /\ \A q \in Requests : Holds(q) =>
        /\ serving[q].number <= count
        /\ \A a \in admitted : a[1] # serving[q].number
        /\ \A r \in Requests : Holds(r) /\ r # q /\ serving[q].number <= Limit =>
                serving[r].number # serving[q].number

Inv == TypeOK /\ Fresh /\ Unique

LEMMA ParametersFact == Limit \in Nat /\ Limit > 0 /\ Window \in Nat /\ Window > 0
  BY RateAssumption

LEMMA InitInv == Init => Inv
  BY ParametersFact DEF Init, Inv, TypeOK, Fresh, Unique, Holds, Serving, NoExpiry

\* A new number is one more than any given so far, or over the limit.
LEMMA IncrementKeeps ==
    ASSUME Inv, NEW q \in Requests, Increment(q)
    PROVE  Inv'
  <1>1. TypeOK
    BY DEF Inv
  <1>2. UNCHANGED <<ttl, admitted, backoff>>
    BY DEF Increment
  <1>3. CASE count' = count /\ Is(q, "admitted")
    <2>1. /\ serving' \in [Requests -> Serving]
          /\ \A r \in Requests : r # q => serving'[r] = serving[r]
          /\ serving'[q].at = "admitted"
      BY <1>1, <1>3 DEF Is, TypeOK, Serving
    <2>2. \A r \in Requests : Holds(r)' => r # q /\ Holds(r)
      BY <2>1 DEF Holds
    <2> QED
      BY <1>2, <1>3, <2>1, <2>2 DEF Inv, TypeOK, Fresh, Unique
  <1>4. CASE /\ count' = Incremented
             /\ serving' = [serving EXCEPT ![q] =
                    [at |-> "counted", number |-> Incremented, overtaken |-> FALSE]]
    <2>1. /\ Incremented \in 1..(Limit + 1) /\ Incremented >= count
          /\ Incremented <= Limit => Incremented = count + 1
      BY <1>1, ParametersFact DEF TypeOK, Incremented
    <2>2. [at |-> "counted", number |-> Incremented, overtaken |-> FALSE] \in Serving
      BY <2>1 DEF Serving
    <2>3. /\ serving' \in [Requests -> Serving]
          /\ \A r \in Requests : r # q => serving'[r] = serving[r]
          /\ serving'[q].at = "counted" /\ serving'[q].number = Incremented
      BY <1>1, <1>4, <2>2 DEF TypeOK
    <2>4. \A r \in Requests : r # q /\ Holds(r)' => Holds(r)
      BY <2>3 DEF Holds
    <2>5. TypeOK'
      BY <1>1, <1>2, <1>4, <2>1, <2>3, ParametersFact DEF TypeOK
    <2>6. Fresh'
      BY <1>1, <1>2, <1>4, <2>1 DEF Inv, Fresh, TypeOK
    <2>7. Unique'
      <3>1. \A a \in admitted' : a \in admitted /\ a[1] \in 1..Limit /\ a[1] <= count
        BY <1>1, <1>2 DEF Inv, Unique, TypeOK
      <3>2. \A a \in admitted' : a[1] <= count'
        BY <1>1, <1>4, <2>1, <3>1, ParametersFact DEF TypeOK
      <3>3. \A a, b \in admitted' : a[1] = b[1] => a = b
        BY <1>2 DEF Inv, Unique
      <3>4. ASSUME NEW r \in Requests, r # q, Holds(r)'
            PROVE  /\ Holds(r) /\ serving'[r].number = serving[r].number
                   /\ serving[r].number \in 1..(Limit + 1)
                   /\ serving[r].number <= count
                   /\ \A a \in admitted : a[1] # serving[r].number
        <4>1. Holds(r) /\ serving'[r] = serving[r]
          BY <2>3, <2>4, <3>4
        <4>2. serving[r] \in Serving /\ serving[r].at = "counted"
          BY <1>1, <4>1 DEF TypeOK, Holds
        <4> QED
          BY <4>1, <4>2 DEF Inv, Unique, Serving
      <3>5. Incremented <= Limit => \A a \in admitted : a[1] # Incremented
        BY <1>1, <2>1, <3>1, <1>2, ParametersFact DEF TypeOK
      <3>6. \A a \in admitted : a[1] # Incremented
        BY <2>1, <3>1, <3>5, <1>2, ParametersFact
      <3>7. ASSUME NEW r \in Requests, Holds(r)'
            PROVE  /\ serving'[r].number <= count'
                   /\ \A a \in admitted' : a[1] # serving'[r].number
        <4>1. CASE r = q
          BY <1>2, <1>4, <2>1, <2>3, <3>6, <4>1, ParametersFact
        <4>2. CASE r # q
          BY <1>1, <1>2, <1>4, <2>1, <3>4, <3>7, <4>2, ParametersFact DEF TypeOK
        <4> QED
          BY <4>1, <4>2
      <3>8. ASSUME NEW r \in Requests, NEW s \in Requests, Holds(r)', Holds(s)', s # r,
                   serving'[r].number <= Limit
            PROVE  serving'[s].number # serving'[r].number
        <4>1. CASE r # q /\ s # q
          <5>1. /\ Holds(r) /\ Holds(s) /\ serving[r].number <= Limit
                /\ serving'[r].number = serving[r].number
                /\ serving'[s].number = serving[s].number
            BY <3>4, <3>8, <4>1
          <5> QED
            BY <3>8, <5>1 DEF Inv, Unique
        <4>2. CASE r = q
          <5>1. serving'[r].number = count + 1
            BY <2>1, <2>3, <3>8, <4>2
          <5>2. serving'[s].number <= count /\ serving'[s].number \in Int
            BY <3>4, <3>8, <4>2
          <5> QED
            BY <1>1, <5>1, <5>2, ParametersFact DEF TypeOK
        <4>3. CASE s = q
          <5>1. serving'[r].number <= count /\ serving'[r].number \in Int
            BY <3>4, <3>8, <4>3
          <5>2. serving'[s].number = Incremented
            BY <2>3, <4>3
          <5> QED
            BY <1>1, <2>1, <3>8, <5>1, <5>2, ParametersFact DEF TypeOK
        <4> QED
          BY <4>1, <4>2, <4>3
      <3> QED
        BY <3>2, <3>3, <3>7, <3>8 DEF Unique
    <2> QED
      BY <2>5, <2>6, <2>7 DEF Inv
  <1> QED
    BY <1>3, <1>4 DEF Increment

\* The number of a request let in is one of the present counter, which has just
\* been given a full window.
LEMMA DecideKeeps ==
    ASSUME Inv, NEW q \in Requests, Decide(q)
    PROVE  Inv'
  <1> DEFINE n == serving[q].number
  <1>1. TypeOK /\ serving[q].at = "counted" /\ count' = count
    BY DEF Inv, Decide
  <1>2. n \in 1..(Limit + 1)
    BY <1>1 DEF TypeOK, Serving
  <1>3. PICK s \in {"admitted", "refused"} : Is(q, s)
    BY DEF Decide
  <1>4. /\ serving' \in [Requests -> Serving]
        /\ \A r \in Requests : r # q => serving'[r] = serving[r]
        /\ serving'[q].at # "counted"
    BY <1>1, <1>3 DEF Is, TypeOK, Serving
  <1>5. \A r \in Requests : Holds(r)' => r # q /\ Holds(r) /\ serving'[r] = serving[r]
    BY <1>4 DEF Holds
  <1>6. backoff' \in 0..Window
    BY <1>1, ParametersFact DEF Decide, TypeOK
  <1>7. ttl' \in 1..NoExpiry
    BY <1>1, ParametersFact DEF Decide, TypeOK, Renewed, NoExpiry
  <1>8. CASE admitted' = admitted
    <2>1. CASE ttl' = ttl
      BY <1>1, <1>4, <1>5, <1>6, <1>8, <2>1 DEF Inv, TypeOK, Fresh, Unique
    <2>2. CASE ttl' = Renewed
      <3>1. TypeOK'
        BY <1>1, <1>4, <1>6, <1>7, <1>8 DEF TypeOK
      <3>2. Unique'
        BY <1>1, <1>5, <1>8 DEF Inv, Unique
      <3>3. Fresh'
        <4>1. \A a \in admitted : a[2] \in Nat
          BY <1>1, ParametersFact DEF TypeOK
        <4> QED
          BY <1>1, <1>8, <2>2, <4>1, ParametersFact DEF Inv, Fresh, Renewed, NoExpiry
      <3> QED
        BY <3>1, <3>2, <3>3 DEF Inv
    <2> QED
      BY <2>1, <2>2 DEF Decide
  <1>9. CASE /\ ttl' = Renewed /\ ~ Over(n) /\ ~ serving[q].overtaken
             /\ admitted' = admitted \cup {<<n, 0>>}
    <2>1. n \in 1..Limit /\ Holds(q)
      BY <1>1, <1>2, <1>9, ParametersFact DEF Over, Holds
    <2>2. n <= count /\ \A a \in admitted : a[1] # n
      BY <2>1 DEF Inv, Unique
    <2>3. count # 0 /\ ttl' = Window
      BY <1>2, <1>9, <2>2, ParametersFact DEF Renewed
    <2>4. TypeOK'
      <3>1. <<n, 0>> \in (1..Limit) \X (0..(Window - 1))
        BY <2>1, ParametersFact
      <3> QED
        BY <1>1, <1>4, <1>6, <1>7, <1>9, <3>1 DEF TypeOK
    <2>5. Fresh'
      <3>1. \A a \in admitted' : a[2] \in Nat
        BY <2>4, ParametersFact DEF TypeOK
      <3> QED
        BY <1>1, <2>3, <3>1, ParametersFact DEF Fresh, NoExpiry
    <2>6. Unique'
      <3>1. \A a \in admitted' : a \in admitted \/ a = <<n, 0>>
        BY <1>9
      <3>2. \A a \in admitted' : a[1] <= count'
        BY <1>1, <2>2, <3>1 DEF Inv, Unique
      <3>3. \A a, b \in admitted' : a[1] = b[1] => a = b
        BY <2>2, <3>1 DEF Inv, Unique
      <3>4. ASSUME NEW r \in Requests, Holds(r)'
            PROVE  /\ serving'[r].number <= count'
                   /\ \A a \in admitted' : a[1] # serving'[r].number
                   /\ \A p \in Requests : Holds(p)' /\ p # r /\ serving'[r].number <= Limit =>
                        serving'[p].number # serving'[r].number
        <4>1. r # q /\ Holds(r) /\ serving'[r] = serving[r]
          BY <1>5, <3>4
        <4>2. serving[r].number # n
          BY <1>2, <2>1, <4>1, ParametersFact DEF Inv, Unique
        <4> QED
          BY <1>1, <1>5, <3>1, <4>1, <4>2 DEF Inv, Unique
      <3> QED
        BY <3>2, <3>3, <3>4 DEF Unique
    <2> QED
      BY <2>4, <2>5, <2>6 DEF Inv
  <1> QED
    BY <1>8, <1>9 DEF Decide

\* A request that is over, or was interrupted, holds no number.
LEMMA LeavingKeeps ==
    ASSUME Inv, UNCHANGED <<count, ttl, admitted, backoff>>,
           serving' \in [Requests -> Serving],
           \A q \in Requests : serving'[q] = serving[q] \/ serving'[q].at # "counted"
    PROVE  Inv'
  <1>1. \A q \in Requests : Holds(q)' => Holds(q) /\ serving'[q] = serving[q]
    BY DEF Holds
  <1> QED
    BY <1>1 DEF Inv, TypeOK, Fresh, Unique

\* A counter that goes has let nobody in for a window.
LEMMA TickKeeps ==
    ASSUME Inv, Tick
    PROVE  Inv'
  <1>1. TypeOK
    BY DEF Inv
  <1>2. backoff' \in 0..Window /\ ttl' \in 1..NoExpiry
    BY <1>1, ParametersFact DEF Tick, TypeOK, NoExpiry
  <1>3. \A a \in admitted' : \E b \in admitted :
            a = <<b[1], b[2] + 1>> /\ b[2] + 1 < Window
    BY DEF Tick
  <1>4. admitted' \subseteq (1..Limit) \X (0..(Window - 1))
    BY <1>1, <1>3, ParametersFact DEF TypeOK
  <1>5. CASE ttl = 1
    <2>1. count' = 0 /\ ttl' = NoExpiry /\ serving' = Overtaken
      BY <1>5 DEF Tick
    <2>2. admitted' = {}
      <3>1. \A b \in admitted : b[2] \in Nat /\ b[2] + 1 >= Window
        BY <1>1, <1>5, ParametersFact DEF Inv, Fresh, TypeOK
      <3> QED
        BY <1>3, <3>1, ParametersFact
    <2>3. serving' \in [Requests -> Serving] /\ \A q \in Requests : ~ Holds(q)'
      <3>1. \A q \in Requests : Overtaken[q] \in Serving
        BY <1>1 DEF Overtaken, TypeOK, Serving
      <3>2. \A q \in Requests : ~ (Overtaken[q].at = "counted" /\ ~ Overtaken[q].overtaken)
        BY <1>1 DEF Overtaken, TypeOK, Serving
      <3>3. Overtaken = [q \in Requests |-> Overtaken[q]]
        BY DEF Overtaken
      <3> QED
        BY <2>1, <3>1, <3>2, <3>3 DEF Holds
    <2> QED
      BY <1>2, <2>1, <2>2, <2>3, ParametersFact DEF Inv, TypeOK, Fresh, Unique, NoExpiry
  <1>6. CASE ttl # 1
    <2>1. UNCHANGED <<count, serving>>
      BY <1>6 DEF Tick
    <2>2. ttl' = IF ttl = NoExpiry THEN NoExpiry ELSE ttl - 1
      BY <1>6 DEF Tick
    <2>3. TypeOK'
      BY <1>1, <1>2, <1>4, <2>1 DEF TypeOK
    <2>4. ttl' = NoExpiry => ttl = NoExpiry
      BY <1>1, <2>2, ParametersFact DEF TypeOK, NoExpiry
    <2>5. Fresh'
      <3>1. count' = 0 => ttl' = NoExpiry
        BY <2>1, <2>2 DEF Inv, Fresh
      <3>2. ttl' = NoExpiry => admitted' = {}
        BY <1>3, <2>4 DEF Inv, Fresh
      <3>3. ASSUME NEW a \in admitted' PROVE a[2] + ttl' >= Window
        <4>1. PICK b \in admitted : a = <<b[1], b[2] + 1>> /\ b[2] + 1 < Window
          BY <1>3
        <4>2. ttl # NoExpiry /\ b[2] + ttl >= Window /\ b[2] \in Nat
          BY <1>1, <4>1, ParametersFact DEF Inv, Fresh, TypeOK
        <4> QED
          BY <1>1, <2>2, <4>1, <4>2, ParametersFact DEF TypeOK, NoExpiry
      <3> QED
        BY <3>1, <3>2, <3>3 DEF Fresh
    <2>6. Unique'
      <3>1. \A a \in admitted' : \E b \in admitted : a[1] = b[1] /\ a = <<b[1], b[2] + 1>>
        BY <1>3
      <3>2. \A a, b \in admitted' : a[1] = b[1] => a = b
        BY <3>1 DEF Inv, Unique
      <3>3. \A a \in admitted' : a[1] <= count'
        BY <2>1, <3>1 DEF Inv, Unique
      <3> QED
        BY <2>1, <3>1, <3>2, <3>3 DEF Inv, Unique, Holds
    <2> QED
      BY <2>3, <2>5, <2>6 DEF Inv
  <1> QED
    BY <1>5, <1>6

LEMMA NextInv == Inv /\ [Next]_vars => Inv'
  <1> SUFFICES ASSUME Inv, [Next]_vars PROVE Inv'
    OBVIOUS
  <1>1. TypeOK
    BY DEF Inv
  <1>2. CASE \E q \in Requests : Increment(q)
    BY <1>2, IncrementKeeps
  <1>3. CASE \E q \in Requests : Decide(q)
    BY <1>3, DecideKeeps
  <1>4. CASE (\E q \in Requests : Respond(q)) \/ Stop
    <2>1. /\ UNCHANGED <<count, ttl, admitted, backoff>>
          /\ serving' \in [Requests -> Serving]
          /\ \A q \in Requests : serving'[q] = serving[q] \/ serving'[q].at # "counted"
      BY <1>1, <1>4 DEF Respond, Stop, Is, TypeOK, Serving
    <2> QED
      BY <2>1, LeavingKeeps
  <1>5. CASE Tick
    BY <1>5, TickKeeps
  <1>6. CASE UNCHANGED vars
    BY <1>6 DEF vars, Inv, TypeOK, Fresh, Unique, Holds
  <1> QED
    BY <1>2, <1>3, <1>4, <1>5, <1>6 DEF Next

LEMMA RateInvariant == Spec => []Inv
  BY InitInv, NextInv, PTL DEF Spec

\* The counter, its time to live and what the requests are given keep their
\* types; nobody over the limit is let in with a number.
THEOREM RateTypeCorrect == Spec => []TypeOK
  <1>1. Inv => TypeOK
    BY DEF Inv
  <1> QED
    BY <1>1, RateInvariant, PTL

\* Requests let in have different numbers from 1 to Limit.
LEMMA AtMostLimit ==
    ASSUME Inv
    PROVE  WindowBound
  <1> DEFINE number == [a \in admitted |-> a[1]]
  <1>1. number \in Injection(admitted, 1..Limit)
    BY DEF Inv, Unique, TypeOK, Injection, IsInjective
  <1>2. IsFiniteSet(1..Limit) /\ Cardinality(1..Limit) = Limit
    BY FS_Interval, ParametersFact
  <1> QED
    BY <1>1, <1>2, FS_Injection DEF WindowBound

\* No more than Limit numbered requests are let in during any window.
THEOREM RateBounded == Spec => []WindowBound
  BY AtMostLimit, RateInvariant, PTL

=============================================================================
