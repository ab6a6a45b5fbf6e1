---------------------------- MODULE RateLimiter ----------------------------
(***************************************************************************)
(* RateLimitMiddleware and CacheManager.increment: one client's counter in *)
(* Redis.                                                                  *)
(*                                                                         *)
(* Each request increments the counter and then, in a second command, sets *)
(* its time to live to a full window, whether it is about to be refused or *)
(* not.  Between the two the key may expire, the server may be stopped or  *)
(* Redis may fail; a failure of either command counts as 0 and lets the    *)
(* request in.  Counters of different clients have nothing to do with each *)
(* other, and time passes in units of which a window has Window.           *)
(***************************************************************************)
EXTENDS Integers, FiniteSets

CONSTANTS
    Requests,       \* the requests of the client that can be served at once
    Limit,          \* requests_per_minute
    Window,         \* rate_limit_window
    Redis,          \* whether a command succeeds: TRUE, FALSE or either
    MayStop         \* whether the server may be stopped

ASSUME RateAssumption ==
    /\ Limit \in Nat \ {0} /\ Window \in Nat \ {0}
    /\ Redis \subseteq BOOLEAN /\ Redis # {}
    /\ MayStop \in BOOLEAN

VARIABLES
    count,          \* the counter, where 0 stands for no key and all numbers
                    \* over Limit for the first
    ttl,            \* its time to live; NoExpiry until EXPIRE is first run
    serving,        \* what each request is doing, with the number it was given
    admitted,       \* history: the numbers let in, and how long ago each was,
                    \* back to one window
    backoff         \* how long the client has yet to wait by its Retry-After

vars == <<count, ttl, serving, admitted, backoff>>

NoExpiry == Window + 1

\* A request is not there, between the two commands (and then overtaken or not
\* by the end of the counter it was numbered by), let in, or refused.
Serving ==
    [at : {"idle", "admitted", "refused"}]
        \cup [at : {"counted"}, number : 1..(Limit + 1), overtaken : BOOLEAN]

Is(q, s) == serving' = [serving EXCEPT ![q] = [at |-> s]]

Init ==
    /\ count = 0
    /\ ttl = NoExpiry
    /\ serving = [q \in Requests |-> [at |-> "idle"]]
    /\ admitted = {}
    /\ backoff = 0

Incremented == IF count > Limit THEN count ELSE count + 1

\* INCR, which creates a key without a time to live.
Increment(q) ==
    /\ serving[q].at = "idle"
    /\ \E up \in Redis :
        IF up
        THEN /\ count' = Incremented
             /\ serving' = [serving EXCEPT ![q] =
                    [at |-> "counted", number |-> Incremented, overtaken |-> FALSE]]
        ELSE /\ Is(q, "admitted")
             /\ UNCHANGED count
    /\ UNCHANGED <<ttl, admitted, backoff>>

\* Mutant: the time to live is not set.
NotRenewed == ttl

\* Mutant: the time to live is set only when the key has none.
SetOnce == IF count = 0 THEN NoExpiry ELSE IF ttl = NoExpiry THEN Window ELSE ttl

\* EXPIRE, which does nothing without a key.
Renewed == IF count = 0 THEN NoExpiry ELSE Window

\* Mutant: one request too many.
OverByOne(n) == n > Limit + 1

Over(n) == n > Limit

\* EXPIRE and the answer.
Decide(q) ==
    /\ serving[q].at = "counted"
    /\ LET s == serving[q] IN
       \E up \in Redis :
         /\ ttl' = IF up THEN Renewed ELSE ttl
         /\ IF up /\ Over(s.number)
            THEN /\ Is(q, "refused")
                 /\ backoff' = Window
                 /\ UNCHANGED admitted
            ELSE /\ Is(q, "admitted")
                 /\ admitted' = IF up /\ ~ s.overtaken
                                THEN admitted \cup {<<s.number, 0>>} ELSE admitted
                 /\ UNCHANGED backoff
    /\ UNCHANGED count

\* The response has been sent.
Respond(q) ==
    /\ serving[q].at \in {"admitted", "refused"}
    /\ Is(q, "idle")
    /\ UNCHANGED <<count, ttl, admitted, backoff>>

\* The requests that were numbered by a counter that is gone.
Overtaken ==
    [q \in Requests |-> IF serving[q].at = "counted"
                        THEN [serving[q] EXCEPT !.overtaken = TRUE] ELSE serving[q]]

\* Time passes, and the counter goes when its time to live is over.
Tick ==
    /\ ttl' = IF ttl \in {1, NoExpiry} THEN NoExpiry ELSE ttl - 1
    /\ IF ttl = 1
       THEN count' = 0 /\ serving' = Overtaken
       ELSE UNCHANGED <<count, serving>>
    /\ admitted' = {<<a[1], a[2] + 1>> : a \in {b \in admitted : b[2] + 1 < Window}}
    /\ backoff' = IF backoff = 0 THEN 0 ELSE backoff - 1

\* The server is stopped and started again; Redis keeps the counter.
Stop ==
    /\ MayStop
    /\ serving' = [q \in Requests |-> [at |-> "idle"]]
    /\ UNCHANGED <<count, ttl, admitted, backoff>>

Next ==
    \/ \E q \in Requests : Increment(q) \/ Decide(q) \/ Respond(q)
    \/ Tick
    \/ Stop

Spec == Init /\ [][Next]_vars

\* Redis counts time down, requests are served to their end, and the client
\* sends another once it may.
Fairness ==
    /\ WF_vars(Tick)
    /\ \A q \in Requests :
        /\ WF_vars(backoff = 0 /\ Increment(q))
        /\ WF_vars(Decide(q)) /\ WF_vars(Respond(q))

FairSpec == Spec /\ Fairness

----------------------------------------------------------------------------
TypeOK ==
    /\ count \in 0..(Limit + 1)
    /\ ttl \in 1..NoExpiry
    /\ serving \in [Requests -> Serving]
    /\ admitted \subseteq (1..Limit) \X (0..(Window - 1))
    /\ backoff \in 0..Window

\* "Maximum N requests per minute allowed": no more than Limit requests are let
\* in during a window, wherever it begins, those aside that Redis failed to
\* number and those whose counter expired between its two commands.
WindowBound == Cardinality(admitted) <= Limit

\* The client sends a request before its Retry-After is over.
Hurries == backoff > 0 /\ \E q \in Requests : Increment(q)

\* The server is stopped in the middle of a request.
Interrupts == \E q \in Requests : serving[q].at = "counted" /\ serving'[q].at = "idle"

\* A refused client is let in again once it keeps to its Retry-After and no
\* more requests are interrupted: nothing renews the time to live while the
\* client waits, and a counter that a stopped server has left without one gets
\* one from the next request.
RefusedGetsIn ==
    <>[][~ Hurries /\ ~ Interrupts]_vars =>
        \A q \in Requests :
            serving[q].at = "refused" ~> \E r \in Requests : serving[r].at = "admitted"

InFlight == {q \in Requests : serving[q].at = "counted"}

\* As the message has it, a request is numbered over the limit only when Limit
\* others have been let in within the window or are on their way.
RefusedOnlyAtLimit ==
    [][\A q \in Requests :
        serving[q].at = "idle" /\ serving'[q].at = "counted" /\ Over(serving'[q].number) =>
            Cardinality(admitted) + Cardinality(InFlight) >= Limit]_vars

=============================================================================
