------------------------- MODULE PermissionAnswers -------------------------
(***************************************************************************)
(* What a request may be told when it asks for the permissions of a user   *)
(* while the tables change: everything the user held all along from one    *)
(* source, and nothing the user did not hold at some moment since the      *)
(* question.  How the answer is found, by statements or from a cache, is   *)
(* not said here.                                                          *)
(***************************************************************************)
CONSTANTS
    Users,
    Perms,
    Requests

VARIABLES
    held,           \* what each user holds, by source
    asked,          \* the question each request has open, a set of at most one
    answer          \* the answer each request works with, likewise

vars == <<held, asked, answer>>

Sources == [role : SUBSET Perms, direct : SUBSET Perms]

Every(s) == s.role \cup s.direct

\* A question about who: what was held all along from each source, and what was
\* held at some moment, since it was asked.
Question == [who : Users, role : SUBSET Perms, direct : SUBSET Perms, ever : SUBSET Perms]

Asked(u, s) == [who |-> u, role |-> s.role, direct |-> s.direct, ever |-> Every(s)]

\* The question w once its user holds s.
Widened(w, s) ==
    [who |-> w.who, role |-> w.role \cap s.role, direct |-> w.direct \cap s.direct,
     ever |-> w.ever \cup Every(s)]

Answers(w, a) == w.role \cup w.direct \subseteq a /\ a \subseteq w.ever

Init ==
    /\ held \in [Users -> Sources]
    /\ asked = [q \in Requests |-> {}]
    /\ answer = [q \in Requests |-> {}]

Ask(q) ==
    /\ \E u \in Users : asked' = [asked EXCEPT ![q] = {Asked(u, held[u])}]
    /\ answer' = [answer EXCEPT ![q] = {}]
    /\ UNCHANGED held

Answer(q) ==
    /\ \E w \in asked[q], a \in SUBSET Perms :
        /\ Answers(w, a)
        /\ answer' = [answer EXCEPT ![q] = {a}]
    /\ asked' = [asked EXCEPT ![q] = {}]
    /\ UNCHANGED held

\* The answer was used, or the request gave up.
Finish(q) ==
    /\ asked' = [asked EXCEPT ![q] = {}]
    /\ answer' = [answer EXCEPT ![q] = {}]
    /\ UNCHANGED held

Change ==
    /\ held' \in [Users -> Sources]
    /\ asked' = [q \in Requests |-> {Widened(w, held'[w.who]) : w \in asked[q]}]
    /\ UNCHANGED answer

Next ==
    \/ \E q \in Requests : Ask(q) \/ Answer(q) \/ Finish(q)
    \/ Change

Spec == Init /\ [][Next]_vars

=============================================================================
