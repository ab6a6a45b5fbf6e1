------------------------- MODULE RoleHierarchyProofs -------------------------
(***************************************************************************)
(* The two walks over the role hierarchy are right, whatever the roles,    *)
(* the requests and the links they ask for.                                *)
(*                                                                         *)
(* A walk keeps, of every role it has met, all the roles next to it        *)
(* (Closed); the walk down from a child never meets the parent it is       *)
(* looking for (Apart), the walk up meets only what is inherited (Within). *)
(* If links are checked one at a time (OneCheck), no walk is overtaken by  *)
(* another link.                                                           *)
(***************************************************************************)
EXTENDS RoleHierarchy, TLAPS

Met(q) == jobs[q].seen \cup jobs[q].ahead

\* The walk of a request that checks a link: the child is met and the parent is
\* not, and what is below a role that was met is met, unless it is late.
Apart(q) ==
    jobs[q].at = "checking" =>
        /\ jobs[q].link[2] \in Met(q) /\ jobs[q].link[1] \notin Met(q)
        /\ ~ jobs[q].late => \A r \in jobs[q].seen : Below(r) \subseteq Met(q)

\* The walk of a request that gathers permissions.
Within(q) ==
    jobs[q].at = "gathering" /\ ~ jobs[q].late =>
        /\ jobs[q].of \in Met(q) /\ Met(q) \subseteq Lineage(jobs[q].of)
        /\ \A r \in jobs[q].seen : Above(r) \subseteq Met(q)

Inv == TypeOK /\ \A q \in Requests : Apart(q) /\ Within(q)

LEMMA InitInv == Init => Inv
  BY DEF Init, Inv, TypeOK, Job, Apart, Within

\* What is above an inherited role is inherited.
LEMMA LineageClosed ==
    ASSUME TypeOK, NEW role \in Roles, NEW r \in Lineage(role)
    PROVE  Above(r) \subseteq Lineage(role)
  <1> SUFFICES ASSUME NEW s \in Above(r) PROVE s \in Lineage(role)
    OBVIOUS
  <1>1. s \in Roles /\ <<s, r>> \in passing
    BY DEF Above
  <1>2. \A S \in SUBSET Roles : Heirs(role, S) => s \in S
    BY <1>1 DEF Lineage, Heirs
  <1> QED
    BY <1>1, <1>2 DEF Lineage

\* A job that the step leaves alone keeps its walk, the links standing still.
LEMMA OthersKeep ==
    ASSUME NEW q \in Requests, NEW o \in Requests, Apart(o), Within(o),
           jobs'[o] = jobs[o], UNCHANGED <<links, passing>>
    PROVE  Apart(o)' /\ Within(o)'
  BY DEF Apart, Within, Met, Below, Above, Lineage, Heirs

LEMMA IdleKeeps ==
    ASSUME NEW o \in Requests, jobs'[o].at = "idle"
    PROVE  Apart(o)' /\ Within(o)'
  BY DEF Apart, Within

\* A job that becomes idle while the links stand still.
LEMMA EndedKeeps ==
    ASSUME Inv, NEW q \in Requests, Ended(q), UNCHANGED <<links, passing>>
    PROVE  Inv'
  <1>1. TypeOK'
    BY DEF Inv, TypeOK, Ended, Becomes, Job
  <1>2. \A o \in Requests : Apart(o)' /\ Within(o)'
    <2> TAKE o \in Requests
    <2>1. CASE o = q
      BY <2>1, IdleKeeps DEF Ended, Becomes, Inv, TypeOK
    <2>2. CASE o # q
      BY <2>2, OthersKeep DEF Ended, Becomes, Inv, TypeOK
    <2> QED
      BY <2>1, <2>2
  <1> QED
    BY <1>1, <1>2 DEF Inv

LEMMA AddKeeps ==
    ASSUME Inv, NEW q \in Requests, NEW pair \in Pairs, NEW i \in BOOLEAN,
           Add(q, pair, i)
    PROVE  Inv'
  <1> DEFINE j == [at |-> "checking", link |-> pair, inherit |-> i,
                   seen |-> {}, ahead |-> {pair[2]}, late |-> FALSE]
  <1>1. jobs' = [jobs EXCEPT ![q] = j] /\ pair[1] # pair[2]
        /\ UNCHANGED <<links, passing>>
    BY DEF Add, Becomes, Refused
  <1>2. pair[1] \in Roles /\ pair[2] \in Roles
    BY PairsAssumption
  <1>3. j \in Job
    BY <1>2 DEF Job
  <1>4. TypeOK'
    BY <1>1, <1>3 DEF Inv, TypeOK
  <1>5. \A o \in Requests : Apart(o)' /\ Within(o)'
    <2> TAKE o \in Requests
    <2>1. CASE o = q
      <3>1. jobs'[o] = j
        BY <1>1, <2>1 DEF Inv, TypeOK
      <3> QED
        BY <1>1, <3>1 DEF Apart, Within, Met
    <2>2. CASE o # q
      BY <1>1, <2>2, OthersKeep DEF Inv, TypeOK
    <2> QED
      BY <2>1, <2>2
  <1> QED
    BY <1>4, <1>5 DEF Inv

LEMMA GatherKeeps ==
    ASSUME Inv, NEW q \in Requests, NEW role \in Roles, Gather(q, role)
    PROVE  Inv'
  <1> DEFINE j == [at |-> "gathering", of |-> role,
                   seen |-> {}, ahead |-> {role}, late |-> FALSE]
  <1>1. jobs' = [jobs EXCEPT ![q] = j] /\ UNCHANGED <<links, passing>>
    BY DEF Gather, Becomes
  <1>2. j \in Job
    BY DEF Job
  <1>3. TypeOK'
    BY <1>1, <1>2 DEF Inv, TypeOK
  <1>4. \A o \in Requests : Apart(o)' /\ Within(o)'
    <2> TAKE o \in Requests
    <2>1. CASE o = q
      <3>1. jobs'[o] = j
        BY <1>1, <2>1 DEF Inv, TypeOK
      <3>2. role \in Lineage(role)'
        BY DEF Lineage, Heirs
      <3> QED
        BY <3>1, <3>2 DEF Apart, Within, Met
    <2>2. CASE o # q
      BY <1>1, <2>2, OthersKeep DEF Inv, TypeOK
    <2> QED
      BY <2>1, <2>2
  <1> QED
    BY <1>3, <1>4 DEF Inv

LEMMA DescendKeeps ==
    ASSUME Inv, NEW q \in Requests, Descend(q)
    PROVE  Inv'
  <1>1. jobs[q].at = "checking" /\ jobs[q] \in Job /\ UNCHANGED <<links, passing>>
    BY DEF Descend, Inv, TypeOK
  <1> DEFINE met(r) == [jobs[q] EXCEPT !.seen = @ \cup {r}]
  <1>2. PICK r \in jobs[q].ahead :
            IF met(r).link[1] \in Below(r)
            THEN Ended(q)
            ELSE Becomes(q, [met(r) EXCEPT !.ahead = NextAhead(met(r), Below(r))])
    BY DEF Descend
  <1> DEFINE j == [met(r) EXCEPT !.ahead = NextAhead(met(r), Below(r))]
  <1>3. CASE met(r).link[1] \in Below(r)
    BY <1>1, <1>2, <1>3, EndedKeeps
  <1>4. CASE met(r).link[1] \notin Below(r)
    <2>1. jobs' = [jobs EXCEPT ![q] = j]
      BY <1>2, <1>4 DEF Becomes
    <2>2. /\ jobs[q].seen \subseteq Roles /\ jobs[q].ahead \subseteq Roles
          /\ jobs[q] = [at |-> "checking", link |-> jobs[q].link,
                        inherit |-> jobs[q].inherit, seen |-> jobs[q].seen,
                        ahead |-> jobs[q].ahead, late |-> jobs[q].late]
          /\ jobs[q].link \in Pairs /\ jobs[q].inherit \in BOOLEAN
          /\ jobs[q].late \in BOOLEAN
      BY <1>1 DEF Job
    <2>3. /\ j.at = "checking" /\ j.link = jobs[q].link /\ j.late = jobs[q].late
          /\ j.seen = jobs[q].seen \cup {r}
          /\ j.ahead = (jobs[q].ahead \cup Below(r)) \ (jobs[q].seen \cup {r})
          /\ j.seen \cup j.ahead = Met(q) \cup Below(r)
      BY <2>2 DEF NextAhead, Met
    <2>4. j \in Job
      <3>1. Below(r) \subseteq Roles /\ r \in Roles
        BY <2>2 DEF Below
      <3>2. met(r) \in Job /\ met(r).at = "checking"
        BY <1>1, <3>1 DEF Job
      <3> HIDE DEF met
      <3>3. NextAhead(met(r), Below(r)) \in SUBSET Roles
        BY <3>1, <3>2 DEF NextAhead, Job
      <3> QED
        BY <3>2, <3>3 DEF Job
    <2>5. TypeOK'
      BY <1>1, <2>1, <2>4 DEF Inv, TypeOK
    <2>6. \A o \in Requests : Apart(o)' /\ Within(o)'
      <3> TAKE o \in Requests
      <3>1. CASE o = q
        <4>1. jobs'[q] = j /\ Met(q)' = Met(q) \cup Below(r)
          BY <2>1, <2>3 DEF Met, Inv, TypeOK
        <4>2. jobs[q].link[2] \in Met(q) /\ jobs[q].link[1] \notin Met(q)
              /\ (~ jobs[q].late => \A s \in jobs[q].seen : Below(s) \subseteq Met(q))
          BY <1>1 DEF Inv, Apart
        <4>3. jobs[q].link[1] \notin Below(r)
          BY <1>4, <2>2
        <4>4. \A s \in Roles : Below(s)' = Below(s)
          BY <1>1 DEF Below
        <4>5. ~ j.late => \A s \in j.seen : Below(s)' \subseteq Met(q) \cup Below(r)
          BY <2>3, <4>2, <1>1 DEF Below
        <4> HIDE DEF j
        <4>6. Apart(q)'
          BY <2>3, <4>1, <4>2, <4>3, <4>5 DEF Apart
        <4>7. Within(q)'
          BY <2>3, <4>1 DEF Within
        <4> QED
          BY <3>1, <4>6, <4>7
      <3>2. CASE o # q
        BY <1>1, <2>1, <3>2, OthersKeep DEF Inv, TypeOK
      <3> QED
        BY <3>1, <3>2
    <2> QED
      BY <2>5, <2>6 DEF Inv
  <1> QED
    BY <1>3, <1>4

LEMMA AscendKeeps ==
    ASSUME Inv, NEW q \in Requests, Ascend(q)
    PROVE  Inv'
  <1>1. jobs[q].at = "gathering" /\ jobs[q] \in Job /\ UNCHANGED <<links, passing>>
    BY DEF Ascend, Inv, TypeOK
  <1> DEFINE met(r) == [jobs[q] EXCEPT !.seen = @ \cup {r}]
  <1>2. PICK r \in jobs[q].ahead :
            Becomes(q, [met(r) EXCEPT !.ahead = NextAhead(met(r), Above(r))])
    BY DEF Ascend
  <1> DEFINE j == [met(r) EXCEPT !.ahead = NextAhead(met(r), Above(r))]
  <1>3. jobs' = [jobs EXCEPT ![q] = j]
    BY <1>2 DEF Becomes
  <1>4. /\ jobs[q].seen \subseteq Roles /\ jobs[q].ahead \subseteq Roles
        /\ jobs[q] = [at |-> "gathering", of |-> jobs[q].of, seen |-> jobs[q].seen,
                      ahead |-> jobs[q].ahead, late |-> jobs[q].late]
        /\ jobs[q].of \in Roles /\ jobs[q].late \in BOOLEAN
    BY <1>1 DEF Job
  <1>5. /\ j.at = "gathering" /\ j.of = jobs[q].of /\ j.late = jobs[q].late
        /\ j.seen = jobs[q].seen \cup {r}
        /\ j.seen \cup j.ahead = Met(q) \cup Above(r)
    BY <1>4 DEF NextAhead, Met
  <1>6. j \in Job
    <2>1. Above(r) \subseteq Roles /\ r \in Roles
      BY <1>4 DEF Above
    <2>2. met(r) \in Job /\ met(r).at = "gathering"
      BY <1>1, <2>1 DEF Job
    <2> HIDE DEF met
    <2>3. NextAhead(met(r), Above(r)) \in SUBSET Roles
      BY <2>1, <2>2 DEF NextAhead, Job
    <2> QED
      BY <2>2, <2>3 DEF Job
  <1>7. TypeOK'
    BY <1>1, <1>3, <1>6 DEF Inv, TypeOK
  <1>8. \A o \in Requests : Apart(o)' /\ Within(o)'
    <2> TAKE o \in Requests
    <2>1. CASE o = q
      <3>1. jobs'[q] = j /\ Met(q)' = Met(q) \cup Above(r)
        BY <1>3, <1>5 DEF Met, Inv, TypeOK
      <3> HIDE DEF j
      <3>2. Apart(q)'
        BY <1>5, <3>1 DEF Apart
      <3>3. Within(q)'
        <4> SUFFICES ASSUME ~ jobs[q].late
                     PROVE  Within(q)'
          BY <1>5, <3>1 DEF Within
        <4>1. /\ jobs[q].of \in Met(q) /\ Met(q) \subseteq Lineage(jobs[q].of)
              /\ \A s \in jobs[q].seen : Above(s) \subseteq Met(q)
          BY <1>1 DEF Inv, Within
        <4>2. Above(r) \subseteq Lineage(jobs[q].of)
          BY <1>4, <4>1, LineageClosed DEF Met, Inv
        <4>3. Met(q)' \subseteq Lineage(jobs[q].of)
          BY <3>1, <4>1, <4>2
        <4>4. /\ jobs'[q].of = jobs[q].of
              /\ jobs'[q].seen = jobs[q].seen \cup {r}
              /\ jobs[q].of \in Met(q)'
              /\ \A s \in jobs'[q].seen : Above(s) \subseteq Met(q)'
          BY <1>5, <3>1, <4>1
        <4>5. Lineage(jobs[q].of)' = Lineage(jobs[q].of)
          BY <1>1, <4>4 DEF Lineage, Heirs
        <4>6. \A s \in jobs'[q].seen : Above(s)' \subseteq Met(q)'
          BY <1>1, <4>4 DEF Above
        <4> QED
          BY <4>3, <4>4, <4>5, <4>6 DEF Within
      <3> QED
        BY <2>1, <3>2, <3>3
    <2>2. CASE o # q
      BY <1>1, <1>3, <2>2, OthersKeep DEF Inv, TypeOK
    <2> QED
      BY <2>1, <2>2
  <1> QED
    BY <1>7, <1>8 DEF Inv

\* What a change of the links leaves of the other jobs: each is as it was or has
\* become late.
LEMMA OvertakenJobs ==
    ASSUME Inv, NEW q \in Requests, NEW kinds \in SUBSET {"checking", "gathering"},
           jobs' = Overtaken(q, kinds)
    PROVE  /\ jobs' \in [Requests -> Job]
           /\ \A o \in Requests :
                /\ jobs'[o].at \in {jobs[o].at, "idle"}
                /\ o = q => jobs'[o].at = "idle"
                /\ o # q /\ jobs[o].at \notin kinds => jobs'[o] = jobs[o]
                /\ o # q /\ jobs[o].at \in kinds => jobs'[o].late
                /\ jobs'[o].at = "checking" =>
                    /\ jobs'[o].link = jobs[o].link
                    /\ Met(o)' = Met(o)
                    /\ jobs'[o].seen = jobs[o].seen
  <1> SUFFICES ASSUME NEW o \in Requests
               PROVE  /\ jobs'[o] \in Job
                      /\ jobs'[o].at \in {jobs[o].at, "idle"}
                      /\ o = q => jobs'[o].at = "idle"
                      /\ o # q /\ jobs[o].at \notin kinds => jobs'[o] = jobs[o]
                      /\ o # q /\ jobs[o].at \in kinds => jobs'[o].late
                      /\ jobs'[o].at = "checking" =>
                          /\ jobs'[o].link = jobs[o].link
                          /\ Met(o)' = Met(o)
                          /\ jobs'[o].seen = jobs[o].seen
    BY DEF Overtaken
  <1>1. jobs[o] \in Job
    BY DEF Inv, TypeOK
  <1>2. CASE o = q
    <2>1. jobs'[o] = [at |-> "idle"]
      BY <1>2 DEF Overtaken
    <2> QED
      BY <1>2, <2>1 DEF Job
  <1>3. CASE o # q /\ jobs[o].at \notin kinds
    <2>1. jobs'[o] = jobs[o]
      BY <1>3 DEF Overtaken
    <2> QED
      BY <1>1, <1>3, <2>1 DEF Met
  <1>4. CASE o # q /\ jobs[o].at \in kinds
    <2>1. jobs'[o] = [jobs[o] EXCEPT !.late = TRUE]
      BY <1>4 DEF Overtaken
    <2>2. jobs'[o] \in Job
      BY <1>1, <1>4, <2>1 DEF Job
    <2>3. jobs'[o].late /\ jobs'[o].at = jobs[o].at
      BY <1>1, <1>4, <2>1 DEF Job
    <2>4. jobs'[o].at = "checking" =>
              /\ jobs'[o].link = jobs[o].link /\ jobs'[o].seen = jobs[o].seen
              /\ jobs'[o].ahead = jobs[o].ahead
      BY <1>1, <2>1 DEF Job
    <2> QED
      BY <1>4, <2>2, <2>3, <2>4 DEF Met
  <1> QED
    BY <1>2, <1>3, <1>4

LEMMA InsertKeeps ==
    ASSUME Inv, NEW q \in Requests, Insert(q)
    PROVE  Inv'
  <1> DEFINE pair == jobs[q].link
  <1>1. jobs[q].at = "checking" /\ jobs[q] \in Job
    BY DEF Insert, Inv, TypeOK
  <1>2. CASE pair \in links
    BY <1>2, EndedKeeps DEF Insert
  <1>3. CASE pair \notin links
    <2>1. /\ links' = links \cup {pair}
          /\ passing' = IF jobs[q].inherit THEN passing \cup {pair} ELSE passing
          /\ jobs' = Overtaken(q, {"checking", "gathering"})
      BY <1>3 DEF Insert
    <2>2. pair \in Pairs /\ pair[1] # pair[2]
      BY <1>1 DEF Inv, Apart, Job
    <2>3. TypeOK'
      BY <2>1, <2>2, OvertakenJobs DEF Inv, TypeOK
    <2>4. \A o \in Requests : Apart(o)' /\ Within(o)'
      BY <2>1, OvertakenJobs DEF Inv, Apart, Within
    <2> QED
      BY <2>3, <2>4 DEF Inv
  <1> QED
    BY <1>2, <1>3

LEMMA RemoveKeeps ==
    ASSUME Inv, NEW q \in Requests, NEW pair \in Pairs, Remove(q, pair)
    PROVE  Inv'
  <1>1. /\ links' = links \ {pair} /\ passing' = passing \ {pair}
        /\ jobs' = Overtaken(q, {"gathering"})
    BY DEF Remove
  <1>2. TypeOK'
    BY <1>1, OvertakenJobs DEF Inv, TypeOK
  <1>3. \A r : Below(r)' \subseteq Below(r)
    BY <1>1 DEF Below
  <1>4. \A o \in Requests : Apart(o)' /\ Within(o)'
    <2> TAKE o \in Requests
    <2>1. Within(o)'
      BY <1>1, OvertakenJobs DEF Within
    <2>2. Apart(o)'
      <3> SUFFICES ASSUME jobs'[o].at = "checking" PROVE Apart(o)'
        BY DEF Apart
      <3>1. jobs'[o] = jobs[o] /\ Met(o)' = Met(o)
        BY <1>1, OvertakenJobs
      <3> QED
        BY <1>3, <3>1 DEF Inv, Apart
    <2> QED
      BY <2>1, <2>2
  <1> QED
    BY <1>2, <1>4 DEF Inv

LEMMA NextKeeps ==
    ASSUME Inv, [Next]_vars
    PROVE  Inv'
  <1>1. CASE UNCHANGED vars
    <2>1. TypeOK'
      BY <1>1 DEF Inv, TypeOK, vars
    <2>2. \A o \in Requests : Apart(o)' /\ Within(o)'
      BY <1>1, OthersKeep DEF Inv, vars
    <2> QED
      BY <2>1, <2>2 DEF Inv
  <1>2. ASSUME NEW q \in Requests, Answer(q) PROVE Inv'
    BY <1>2, EndedKeeps DEF Answer
  <1> QED
    BY <1>1, <1>2, AddKeeps, GatherKeeps, DescendKeeps, AscendKeeps, InsertKeeps,
       RemoveKeeps DEF Next

LEMMA SpecInv == Spec => []Inv
  <1> QED
    BY InitInv, NextKeeps, PTL DEF Spec

\* The type invariant: no role is ever its own parent.
THEOREM HierarchyTypeCorrect == Spec => []TypeOK
  <1>1. Inv => TypeOK
    BY DEF Inv
  <1> QED
    BY <1>1, SpecInv, PTL

\* A link from outside a set that has all that is below its roles, to a role of
\* the set, closes no cycle: a set of roles has a last one inside the set, which
\* keeps it, or is apart from it, and then the new link leads out of it.
LEMMA ClosedSetsBreakCycles ==
    ASSUME NEW E, Acyclic(E), NEW p \in Roles, NEW c \in Roles,
           NEW V \in SUBSET Roles, c \in V, p \notin V,
           \A r \in V : \A s \in Roles : <<r, s>> \in E => s \in V
    PROVE  Acyclic(E \cup {<<p, c>>})
  <1> SUFFICES ASSUME NEW S \in (SUBSET Roles) \ {{}}
               PROVE  \E r \in S : \A s \in S : <<r, s>> \notin E \cup {<<p, c>>}
    BY DEF Acyclic
  <1>1. CASE S \cap V = {}
    <2>1. PICK r \in S : \A s \in S : <<r, s>> \notin E
      BY DEF Acyclic
    <2>2. c \notin S
      BY <1>1
    <2> QED
      BY <2>1, <2>2
  <1>2. CASE S \cap V # {}
    <2>1. PICK r \in S \cap V : \A s \in S \cap V : <<r, s>> \notin E
      BY <1>2 DEF Acyclic
    <2>2. \A s \in S : <<r, s>> \notin E
      BY <2>1
    <2>3. r # p
      BY <2>1
    <2> QED
      BY <2>1, <2>2, <2>3
  <1> QED
    BY <1>1, <1>2

\* An insert whose walk no other insert came into keeps the hierarchy without a
\* cycle.
LEMMA LoneInsert ==
    ASSUME Inv, NEW q \in Requests, jobs[q].at = "checking", ~ jobs[q].late,
           Insert(q), Acyclic(links)
    PROVE  Acyclic(links')
  <1> DEFINE pair == jobs[q].link
  <1>1. jobs[q] \in Job /\ jobs[q].ahead = {}
    BY DEF Insert, Inv, TypeOK
  <1>2. pair \in Pairs /\ jobs[q].seen \in SUBSET Roles
    BY <1>1 DEF Job
  <1>3. pair = <<pair[1], pair[2]>> /\ pair[1] \in Roles /\ pair[2] \in Roles
    BY <1>2, PairsAssumption
  <1>4. /\ pair[2] \in jobs[q].seen /\ pair[1] \notin jobs[q].seen
        /\ \A r \in jobs[q].seen : Below(r) \subseteq jobs[q].seen
    BY <1>1 DEF Inv, Apart, Met
  <1>5. \A r \in jobs[q].seen : \A s \in Roles :
            <<r, s>> \in links => s \in jobs[q].seen
    BY <1>4 DEF Below
  <1>6. Acyclic(links \cup {<<pair[1], pair[2]>>})
    BY <1>2, <1>3, <1>4, <1>5, ClosedSetsBreakCycles
  <1>7. links' = links \/ links' = links \cup {pair}
    BY DEF Insert
  <1> QED
    BY <1>3, <1>6, <1>7

\* "Check for circular dependency": a link that no other link was added during
\* the check of makes no cycle.
THEOREM LoneLinksAreSafe == Spec => LoneLinksMakeNoCycle
  <1>1. Inv /\ [Next]_vars =>
            [\A q \in Requests :
                jobs[q].at = "checking" /\ ~ jobs[q].late /\ Insert(q) =>
                    (Acyclic(links) => Acyclic(links'))]_vars
    BY LoneInsert
  <1> QED
    BY <1>1, SpecInv, PTL DEF Spec, LoneLinksMakeNoCycle

\* One query of a walk: it ends the walk, or adds a role that was ahead to those
\* met and leaves everything else of the request.
LEMMA OneQuery ==
    ASSUME Inv, NEW q \in Requests, Descend(q) \/ Ascend(q)
    PROVE  /\ links' = links
           /\ \A o \in Requests : o # q => jobs'[o] = jobs[o]
           /\ \/ jobs'[q].at = "idle"
              \/ /\ jobs'[q].at = jobs[q].at /\ jobs'[q].late = jobs[q].late
                 /\ \E r \in jobs[q].ahead : jobs'[q].seen = jobs[q].seen \cup {r}
                 /\ jobs'[q].seen \cap jobs'[q].ahead = {}
  <1>1. /\ jobs[q] \in Job /\ jobs[q].at \in {"checking", "gathering"}
        /\ links' = links
    BY DEF Descend, Ascend, Inv, TypeOK
  <1> DEFINE met(r) == [jobs[q] EXCEPT !.seen = @ \cup {r}]
  <1>2. PICK r \in jobs[q].ahead : \E more :
            Ended(q) \/ Becomes(q, [met(r) EXCEPT !.ahead = NextAhead(met(r), more)])
    BY DEF Descend, Ascend
  <1>3. PICK more :
            Ended(q) \/ Becomes(q, [met(r) EXCEPT !.ahead = NextAhead(met(r), more)])
    BY <1>2
  <1>4. CASE Ended(q)
    BY <1>1, <1>4 DEF Ended, Becomes, Inv, TypeOK
  <1>5. CASE Becomes(q, [met(r) EXCEPT !.ahead = NextAhead(met(r), more)])
    <2>1. jobs'[q] = [met(r) EXCEPT !.ahead = NextAhead(met(r), more)]
      BY <1>5 DEF Becomes, Inv, TypeOK
    <2>2. /\ jobs'[q].seen = jobs[q].seen \cup {r}
          /\ jobs'[q].ahead = (jobs[q].ahead \cup more) \ (jobs[q].seen \cup {r})
          /\ jobs'[q].at = jobs[q].at /\ jobs'[q].late = jobs[q].late
      BY <1>1, <2>1 DEF NextAhead, Job
    <2>3. \A o \in Requests : o # q => jobs'[o] = jobs[o]
      BY <1>5 DEF Becomes, Inv, TypeOK
    <2> QED
      BY <1>1, <2>2, <2>3
  <1> QED
    BY <1>3, <1>4, <1>5

\* One link is checked at a time: what a lock around add_role_hierarchy, which
\* the code does not take, would make true.  Removals and readers go on.
OneCheck ==
    \A p, q \in Requests :
        jobs[p].at = "checking" /\ jobs[q].at = "checking" => p = q

\* No check has been overtaken.
Timely == \A q \in Requests : jobs[q].at = "checking" => ~ jobs[q].late

\* Removing links makes no cycle.
LEMMA FewerLinks ==
    ASSUME NEW E, NEW F, F \subseteq E, Acyclic(E)
    PROVE  Acyclic(F)
  BY DEF Acyclic

LEMMA OneCheckStep ==
    Inv /\ Timely /\ HierarchyIsAcyclic /\ OneCheck /\ [Next]_vars =>
        Timely' /\ HierarchyIsAcyclic'
  <1> SUFFICES ASSUME Inv, Timely, HierarchyIsAcyclic, OneCheck, [Next]_vars
               PROVE  Timely' /\ Acyclic(links')
    BY DEF HierarchyIsAcyclic
  <1>1. CASE UNCHANGED vars
    BY <1>1 DEF vars, Timely, HierarchyIsAcyclic
  <1>2. ASSUME NEW q \in Requests, NEW pair \in Pairs, Remove(q, pair)
        PROVE  Timely' /\ Acyclic(links')
    <2>1. links' = links \ {pair} /\ jobs' = Overtaken(q, {"gathering"})
      BY <1>2 DEF Remove
    <2>2. Acyclic(links')
      BY <2>1, FewerLinks DEF HierarchyIsAcyclic
    <2>3. Timely'
      BY <2>1, OvertakenJobs DEF Timely
    <2> QED
      BY <2>2, <2>3
  <1>3. ASSUME NEW q \in Requests, Insert(q)
        PROVE  Timely' /\ Acyclic(links')
    <2>1. jobs[q].at = "checking" /\ ~ jobs[q].late
      BY <1>3 DEF Insert, Timely
    <2>2. Acyclic(links')
      BY <1>3, <2>1, LoneInsert DEF HierarchyIsAcyclic
    <2>3. CASE Ended(q)
      BY <2>2, <2>3 DEF Ended, Becomes, Timely, Inv, TypeOK
    <2>4. CASE jobs' = Overtaken(q, {"checking", "gathering"})
      <3>1. \A o \in Requests : o # q => jobs[o].at # "checking"
        BY <2>1 DEF OneCheck
      <3>2. \A o \in Requests : jobs'[o].at # "checking"
        BY <2>4, <3>1, OvertakenJobs
      <3> QED
        BY <2>2, <3>2 DEF Timely
    <2> QED
      BY <1>3, <2>2, <2>3, <2>4 DEF Insert
  <1>4. ASSUME NEW q \in Requests, Descend(q) \/ Ascend(q)
        PROVE  Timely' /\ links' = links
    BY <1>4, OneQuery DEF Timely
  <1>5. ASSUME NEW q \in Requests, NEW role \in Roles, Gather(q, role)
        PROVE  Timely' /\ links' = links
    BY <1>5 DEF Gather, Becomes, Timely, Inv, TypeOK
  <1>6. ASSUME NEW q \in Requests, NEW pair \in Pairs, NEW i \in BOOLEAN, Add(q, pair, i)
        PROVE  Timely' /\ links' = links
    BY <1>6 DEF Add, Becomes, Timely, Inv, TypeOK
  <1>7. ASSUME NEW q \in Requests, Answer(q) PROVE Timely' /\ links' = links
    BY <1>7 DEF Answer, Ended, Becomes, Timely, Inv, TypeOK
  <1> QED
    BY <1>1, <1>2, <1>3, <1>4, <1>5, <1>6, <1>7 DEF Next, HierarchyIsAcyclic

\* "Circular dependency detected in role hierarchy" is never missed when links
\* are checked one at a time: there never is a cycle, whatever is removed, read
\* and abandoned meanwhile.
THEOREM CheckedLinksAreAcyclic == Spec /\ []OneCheck => []HierarchyIsAcyclic
  <1>1. Init => Timely /\ HierarchyIsAcyclic
    BY DEF Init, Timely, HierarchyIsAcyclic, Acyclic
  <1> QED
    BY <1>1, OneCheckStep, SpecInv, PTL DEF Spec

\* A walk up that the links stood still for ends with the roles that the role
\* has its permissions from, and no others.
THEOREM GatheredIsInherited == Spec => []GatheredAreInherited
  <1>1. ASSUME Inv, NEW q \in Requests, jobs[q].at = "gathering",
               ~ jobs[q].late, jobs[q].ahead = {}
        PROVE  jobs[q].seen = Lineage(jobs[q].of)
    <2>1. jobs[q] \in Job
      BY <1>1 DEF Inv, TypeOK
    <2>2. jobs[q].seen \in SUBSET Roles /\ jobs[q].of \in Roles
      BY <1>1, <2>1 DEF Job
    <2>3. /\ jobs[q].of \in jobs[q].seen
          /\ jobs[q].seen \subseteq Lineage(jobs[q].of)
          /\ \A r \in jobs[q].seen : Above(r) \subseteq jobs[q].seen
      BY <1>1 DEF Inv, Within, Met
    <2>4. \A p \in passing : p[1] \in Roles /\ p = <<p[1], p[2]>>
      BY <1>1, PairsAssumption DEF Inv, TypeOK
    <2>5. Heirs(jobs[q].of, jobs[q].seen)
      BY <2>3, <2>4 DEF Heirs, Above
    <2>6. Lineage(jobs[q].of) \subseteq jobs[q].seen
      BY <2>2, <2>5 DEF Lineage
    <2> QED
      BY <2>3, <2>6
  <1>2. Inv => GatheredAreInherited
    BY <1>1 DEF GatheredAreInherited
  <1> QED
    BY <1>2, SpecInv, PTL

\* A walk does not come back to a role it has met.
Onward(q) == jobs[q].at # "idle" => jobs[q].seen \cap jobs[q].ahead = {}

\* Every query of a walk either ends it or is about a role it has not met: on
\* any set of links, with cycles and changing under it, a walk takes no more
\* queries than there are roles.
QueriesMeetNewRoles ==
    [][\A q \in Requests :
          Descend(q) \/ Ascend(q) =>
              \/ jobs'[q].at = "idle"
              \/ \E r \in Roles \ jobs[q].seen : jobs'[q].seen = jobs[q].seen \cup {r}]_vars

LEMMA OnwardStep ==
    ASSUME Inv, \A q \in Requests : Onward(q), [Next]_vars
    PROVE  \A q \in Requests : Onward(q)'
  <1>1. CASE UNCHANGED vars
    BY <1>1 DEF vars, Onward
  <1>2. ASSUME NEW q \in Requests, Descend(q) \/ Ascend(q)
        PROVE  \A o \in Requests : Onward(o)'
    BY <1>2, OneQuery DEF Onward
  <1>3. ASSUME NEW q \in Requests, NEW j,
               jobs' = [jobs EXCEPT ![q] = j],
               j.at # "idle" => j.seen \cap j.ahead = {}
        PROVE  \A o \in Requests : Onward(o)'
    BY <1>3 DEF Onward, Inv, TypeOK
  <1>4. ASSUME NEW q \in Requests, NEW kinds \in SUBSET {"checking", "gathering"},
               jobs' = Overtaken(q, kinds)
        PROVE  \A o \in Requests : Onward(o)'
    <2> TAKE o \in Requests
    <2>1. jobs[o] \in Job
      BY DEF Inv, TypeOK
    <2>2. \/ jobs'[o] = [at |-> "idle"] \/ jobs'[o] = jobs[o]
          \/ jobs[o].at \in kinds /\ jobs'[o] = [jobs[o] EXCEPT !.late = TRUE]
      BY <1>4 DEF Overtaken
    <2>3. ASSUME jobs[o].at \in kinds, jobs'[o] = [jobs[o] EXCEPT !.late = TRUE]
          PROVE  jobs'[o].seen = jobs[o].seen /\ jobs'[o].ahead = jobs[o].ahead
                 /\ jobs[o].at # "idle"
      BY <2>1, <2>3 DEF Job
    <2> QED
      BY <2>2, <2>3 DEF Onward
  <1>5. ASSUME NEW q \in Requests, Ended(q) PROVE \A o \in Requests : Onward(o)'
    BY <1>5 DEF Ended, Becomes, Onward, Inv, TypeOK
  <1>6. ASSUME NEW q \in Requests, NEW pair \in Pairs, NEW i \in BOOLEAN, Add(q, pair, i)
        PROVE  \A o \in Requests : Onward(o)'
    BY <1>3, <1>6 DEF Add, Becomes
  <1>7. ASSUME NEW q \in Requests, NEW role \in Roles, Gather(q, role)
        PROVE  \A o \in Requests : Onward(o)'
    BY <1>3, <1>7 DEF Gather, Becomes
  <1>8. ASSUME NEW q \in Requests, NEW pair \in Pairs, Remove(q, pair)
        PROVE  \A o \in Requests : Onward(o)'
    BY <1>4, <1>8 DEF Remove
  <1>9. ASSUME NEW q \in Requests, Insert(q)
        PROVE  \A o \in Requests : Onward(o)'
    BY <1>4, <1>5, <1>9 DEF Insert
  <1>10. ASSUME NEW q \in Requests, Answer(q)
         PROVE  \A o \in Requests : Onward(o)'
    BY <1>5, <1>10 DEF Answer
  <1> QED
    BY <1>1, <1>2, <1>6, <1>7, <1>8, <1>9, <1>10 DEF Next

\* What WalksEnd rests on besides fairness: every query of a walk is about a
\* role not met before, so there are no more of them than roles.
THEOREM WalksGetOn == Spec => QueriesMeetNewRoles
  <1> DEFINE J == \A q \in Requests : Onward(q)
  <1>1. Init => J
    BY DEF Init, Onward
  <1>2. Inv /\ J /\ [Next]_vars => J'
    BY OnwardStep
  <1>3. Inv /\ J /\ [Next]_vars =>
            [\A q \in Requests :
                Descend(q) \/ Ascend(q) =>
                    \/ jobs'[q].at = "idle"
                    \/ \E r \in Roles \ jobs[q].seen :
                           jobs'[q].seen = jobs[q].seen \cup {r}]_vars
    <2> SUFFICES ASSUME Inv, J, NEW q \in Requests, Descend(q) \/ Ascend(q),
                        jobs'[q].at # "idle"
                 PROVE  \E r \in Roles \ jobs[q].seen :
                            jobs'[q].seen = jobs[q].seen \cup {r}
      OBVIOUS
    <2>1. jobs[q] \in Job /\ jobs[q].at \in {"checking", "gathering"}
      BY DEF Descend, Ascend, Inv, TypeOK
    <2>2. jobs[q].ahead \subseteq Roles \ jobs[q].seen
      BY <2>1 DEF Job, Onward
    <2> QED
      BY <2>2, OneQuery
  <1> QED
    BY <1>1, <1>2, <1>3, SpecInv, PTL DEF Spec, QueriesMeetNewRoles

=============================================================================
