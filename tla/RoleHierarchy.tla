---------------------------- MODULE RoleHierarchy ----------------------------
(***************************************************************************)
(* The parent-child links between roles: RBACService.add_role_hierarchy,   *)
(* remove_role_hierarchy and get_role_inherited_permissions.               *)
(*                                                                         *)
(* Adding a link first walks down from the child, one query for each role  *)
(* it meets, to see that the parent is not below it; reading inherited     *)
(* permissions walks up in the same way.  Every query sees what is         *)
(* committed when it runs, and nothing locks the links during a walk.  The *)
(* walks are depth first; here their order is left open.                   *)
(***************************************************************************)

CONSTANTS
    Roles,      \* the roles, which exist throughout
    Requests,   \* the requests served at once
    Pairs       \* the pairs <<parent, child>> that clients ask to link

ASSUME PairsAssumption == Pairs \subseteq Roles \X Roles

VARIABLES
    links,      \* role_hierarchy: the pairs <<parent, child>> with a row
    passing,    \* those of them with inherit_permissions
    jobs        \* what each request is doing

vars == <<links, passing, jobs>>

\* A walk has met the roles in seen and has those in ahead before it.  It is
\* late (history) when the links it follows have changed since it began: when
\* another link has been added, for a walk that checks a link; when any link
\* has been added or removed, for one that gathers inherited permissions.
Job ==
    [at : {"idle"}]
        \cup [at : {"checking"}, link : Pairs, inherit : BOOLEAN,
              seen : SUBSET Roles, ahead : SUBSET Roles, late : BOOLEAN]
        \cup [at : {"gathering"}, of : Roles,
              seen : SUBSET Roles, ahead : SUBSET Roles, late : BOOLEAN]

Becomes(q, j) == jobs' = [jobs EXCEPT ![q] = j]

Ended(q) == Becomes(q, [at |-> "idle"])

Init ==
    /\ links = {}
    /\ passing = {}
    /\ jobs = [q \in Requests |-> [at |-> "idle"]]

\* Mutant: the columns are swapped.
BelowSwapped(r) == {s \in Roles : <<s, r>> \in links}

Below(r) == {s \in Roles : <<r, s>> \in links}

\* Mutant: the parents are followed whether they pass permissions on or not.
AnyAbove(r) == {s \in Roles : <<s, r>> \in links}

Above(r) == {s \in Roles : <<s, r>> \in passing}

\* Mutant: a role is met again.
NextAgain(j, more) == (j.ahead \ j.seen) \cup more

\* What is ahead when a walk has found the roles in more next to one it met.
NextAhead(j, more) == (j.ahead \cup more) \ j.seen

\* Mutant: a role may be linked to itself.
NeverRefused(pair) == FALSE

\* The walk down is over before it begins when it begins at its target.
Refused(pair) == pair[1] = pair[2]

Add(q, pair, inherit) ==
    /\ jobs[q].at = "idle"
    /\ ~ Refused(pair)
    /\ Becomes(q, [at |-> "checking", link |-> pair, inherit |-> inherit,
                   seen |-> {}, ahead |-> {pair[2]}, late |-> FALSE])
    /\ UNCHANGED <<links, passing>>

\* _has_path_to_role at one role.
Descend(q) ==
    /\ jobs[q].at = "checking"
    /\ \E r \in jobs[q].ahead :
         LET met == [jobs[q] EXCEPT !.seen = @ \cup {r}] IN
         IF met.link[1] \in Below(r)
         THEN Ended(q)
         ELSE Becomes(q, [met EXCEPT !.ahead = NextAhead(met, Below(r))])
    /\ UNCHANGED <<links, passing>>

\* The jobs of the others after a change that overtakes those of kind at.
Overtaken(q, kinds) ==
    [o \in Requests |->
        IF o # q /\ jobs[o].at \in kinds THEN [jobs[o] EXCEPT !.late = TRUE]
        ELSE IF o = q THEN [at |-> "idle"] ELSE jobs[o]]

\* The link is looked for, inserted and committed.  An insert that meets the
\* same pair, inserted by another since it was looked for, fails.
Insert(q) ==
    /\ jobs[q].at = "checking" /\ jobs[q].ahead = {}
    /\ LET pair == jobs[q].link IN
       IF pair \in links
       THEN /\ Ended(q)
            /\ UNCHANGED <<links, passing>>
       ELSE /\ links' = links \cup {pair}
            /\ passing' = IF jobs[q].inherit THEN passing \cup {pair} ELSE passing
            /\ jobs' = Overtaken(q, {"checking", "gathering"})

\* remove_role_hierarchy: the link is looked for, deleted and committed; a
\* delete that finds no row any more does nothing.
Remove(q, pair) ==
    /\ jobs[q].at = "idle"
    /\ pair \in links
    /\ links' = links \ {pair}
    /\ passing' = passing \ {pair}
    /\ jobs' = Overtaken(q, {"gathering"})

Gather(q, role) ==
    /\ jobs[q].at = "idle"
    /\ Becomes(q, [at |-> "gathering", of |-> role,
                   seen |-> {}, ahead |-> {role}, late |-> FALSE])
    /\ UNCHANGED <<links, passing>>

\* _collect_inherited_permissions at one role.
Ascend(q) ==
    /\ jobs[q].at = "gathering"
    /\ \E r \in jobs[q].ahead :
         LET met == [jobs[q] EXCEPT !.seen = @ \cup {r}]
         IN  Becomes(q, [met EXCEPT !.ahead = NextAhead(met, Above(r))])
    /\ UNCHANGED <<links, passing>>

\* The permissions of the roles met are the answer.
Answer(q) ==
    /\ jobs[q].at = "gathering" /\ jobs[q].ahead = {}
    /\ Ended(q)
    /\ UNCHANGED <<links, passing>>

Next ==
    \E q \in Requests :
        \/ \E pair \in Pairs : Remove(q, pair) \/ \E i \in BOOLEAN : Add(q, pair, i)
        \/ \E role \in Roles : Gather(q, role)
        \/ Descend(q) \/ Insert(q) \/ Ascend(q) \/ Answer(q)

Spec == Init /\ [][Next]_vars

\* A request that has begun is served to its end.
Fairness ==
    \A q \in Requests : WF_vars(Descend(q) \/ Insert(q) \/ Ascend(q) \/ Answer(q))

FairSpec == Spec /\ Fairness

----------------------------------------------------------------------------
\* No role is its own parent.
TypeOK ==
    /\ links \subseteq {p \in Pairs : p[1] # p[2]}
    /\ passing \subseteq links
    /\ jobs \in [Requests -> Job]

\* A set of links is without a cycle when every set of roles has one from
\* which no link leads back into the set.
Acyclic(E) ==
    \A S \in (SUBSET Roles) \ {{}} : \E r \in S : \A s \in S : <<r, s>> \notin E

\* "Check for circular dependency" does what it says as long as no other link
\* is added during the walk, links being removed or not: from a hierarchy
\* without a cycle, such an insert leads to one without a cycle.
LoneLinksMakeNoCycle ==
    [][\A q \in Requests :
        jobs[q].at = "checking" /\ ~ jobs[q].late /\ Insert(q) =>
            (Acyclic(links) => Acyclic(links'))]_vars

\* The roles from which a role has its permissions, itself included: the least
\* set with the role and the parents that pass permissions on to a role in it.
Heirs(role, S) == role \in S /\ \A p \in passing : p[2] \in S => p[1] \in S

Lineage(role) == {r \in Roles : \A S \in SUBSET Roles : Heirs(role, S) => r \in S}

\* get_role_inherited_permissions: "Get all permissions for a role including
\* inherited permissions from parent roles", those of no other role among them,
\* when the links stand still, be there a cycle in them or not.
GatheredAreInherited ==
    \A q \in Requests :
        jobs[q].at = "gathering" /\ ~ jobs[q].late /\ jobs[q].ahead = {} =>
            jobs[q].seen = Lineage(jobs[q].of)

\* Every walk comes to an end: in the cycles that two overlapping inserts can
\* leave, and however the links change under it.
WalksEnd ==
    \A q \in Requests : jobs[q].at # "idle" ~> jobs[q].at = "idle"

\* As "Circular dependency detected in role hierarchy" has it, there never is
\* a cycle.
HierarchyIsAcyclic == Acyclic(links)

=============================================================================
