-------------------------- MODULE RbacPermissions --------------------------
(***************************************************************************)
(* RBACService and RBACCache: direct grants, roles and the Redis cache of  *)
(* permissions, under concurrent requests.                                 *)
(*                                                                         *)
(* The permissions of a user are looked up in the cache, read from the     *)
(* tables in two statements when they are not there, and cached.  A lookup *)
(* that finds them raises: the list is turned back into Permission()       *)
(* objects, and Permission.__init__ requires a name, a resource and an     *)
(* action.  The same goes for a permission looked up by code.              *)
(*                                                                         *)
(* A call over several codes works through them in order, and an exception *)
(* or a refusal ends only the code at hand.  A call over one code is such  *)
(* a list of length one.  A call over several roles is modelled role by    *)
(* role: AssignRole and RemoveRole for all but the last.                   *)
(***************************************************************************)
EXTENDS Integers, Sequences

CONSTANTS
    Users,
    Perms,          \* permissions, which are their codes
    Roles,
    Requests,       \* the requests being served at once
    Calls,          \* the calls that clients make
    Needs,          \* PERMISSION_DEPENDENCIES: the codes each code requires
    Manages,        \* the pairs <<user, other>> whose types can_user_type_manage allows
    Approves,       \* the pairs <<user, code>> of an admin, or of a code of low risk
    Edits,          \* the rows of user_roles and role_permissions that AuthService edits
    SeedMember,     \* user_roles, role_permissions and user_permissions when
    SeedHas,        \* the service starts
    SeedDirect,
    Redis           \* whether a command succeeds: TRUE, FALSE or either

VARIABLES
    member,         \* user_roles
    has,            \* role_permissions
    direct,         \* user_permissions: whether there is a row, and its expiry
    cached,         \* the cached list of each user; {} stands for no key, as an
                    \* empty list is taken for a miss
    codes,          \* the codes with a permission_code key
    work,           \* what each request is doing
    asked,          \* history: the lookup each request has under way
    quiet           \* history: the grants no change has come between

tables == <<member, has, direct>>

keys == <<cached, codes>>

vars == <<tables, keys, work, asked, quiet>>

\* No row; expires_at null, in the future, in the past.
Row == {"none", "open", "live", "past"}

Call ==
    [op : {"grant", "extend"}, by : Users, user : Users, codes : Seq(Perms),
     until : {"open", "live"}]
        \cup [op : {"revoke"}, by : Users, user : Users, codes : Seq(Perms)]
        \cup [op : {"warm"}, user : Users, codes : {<<>>}]
        \cup [op : {"add_role", "drop_role"}, user : Users, role : Roles, codes : {<<>>}]
        \cup [op : {"give_role"}, role : Roles, codes : Seq(Perms)]

ASSUME RbacAssumption ==
    /\ \A c \in Calls :
        /\ c \in Call
        /\ c.op \in {"grant", "extend", "revoke", "give_role"} => c.codes # <<>>
    /\ Needs \in [Perms -> SUBSET Perms]
    /\ SeedMember \subseteq Users \X Roles
    /\ SeedHas \subseteq Roles \X Perms
    /\ SeedDirect \in [Users \X Perms -> Row]
    /\ Redis \subseteq BOOLEAN /\ Redis # {}

Idle == [pc |-> "idle"]

\* A request with a call: the codes left, the one at hand first; whether it
\* looks up the permissions of the caller or of the other user, and what it has
\* read of them.
Busy ==
    [pc : {"ask", "roles", "direct", "fill", "refill", "code", "name", "exists", "write", "drop"},
     call : Calls, left : Seq(Perms), side : {"by", "user"}, got : SUBSET Perms]

----------------------------------------------------------------------------
\* Mutant: the roles of the user are selected instead of their permissions.
RolesOf(u) == {r \in Roles : <<u, r>> \in member}

\* The permissions a user has through roles.
ByRole(u) == {p \in Perms : \E r \in Roles : <<u, r>> \in member /\ <<r, p>> \in has}

\* The permissions granted to a user that have not expired.
Direct(u) == {p \in Perms : direct[<<u, p>>] \in {"open", "live"}}

HeldBy(u) == [role |-> ByRole(u), direct |-> Direct(u)]

Held(u) == ByRole(u) \cup Direct(u)

\* What each request works with once its lookup is done.
Told == [q \in Requests |-> IF work[q].pc = "fill" THEN {work[q].got} ELSE {}]

Lookup == INSTANCE PermissionAnswers
    WITH held <- [u \in Users |-> HeldBy(u)], asked <- asked, answer <- Told

\* Mutant: what the code requires is looked for among the caller's permissions.
CallerOnly(w) == IF w.call.op = "grant" THEN w.call.by ELSE w.call.user

\* Whose permissions a request looks up.
Subject(w) == IF w.side = "by" THEN w.call.by ELSE w.call.user

\* The first step of a call, or of the next code of one.
Begin(c, left) ==
    [pc |-> CASE c.op \in {"grant", "warm"} -> "ask"
              [] c.op \in {"revoke", "extend", "give_role"} -> "code"
              [] OTHER -> "write",
     call |-> c, left |-> left, side |-> IF c.op = "grant" THEN "by" ELSE "user",
     got |-> {}]

\* The code at hand is done with: granted, refused or raised.
NextCode(w) ==
    IF w.left # <<>> /\ Tail(w.left) # <<>> THEN Begin(w.call, Tail(w.left)) ELSE Idle

\* The question that a lookup is, when it begins.
Question(w) == Lookup!Asked(Subject(w), HeldBy(Subject(w)))

\* q is at w; a lookup it begins is a question asked.
Moves(q, w) ==
    /\ work' = [work EXCEPT ![q] = w]
    /\ asked' = [asked EXCEPT ![q] =
            IF w.pc = "ask" THEN {Question(w)}
            ELSE IF w.pc \in {"roles", "direct"} THEN @ ELSE {}]

\* q goes on with its call at w, or is done with it.
Goes(q, w) ==
    /\ Moves(q, w)
    /\ quiet' = IF w = Idle THEN quiet \ {q} ELSE quiet

\* The tables have changed under everybody's eyes.
Changed ==
    /\ asked' = [q \in Requests |-> {Lookup!Widened(a, HeldBy(a.who)') : a \in asked[q]}]
    /\ quiet' = {}

----------------------------------------------------------------------------
Init ==
    /\ member = SeedMember
    /\ has = SeedHas
    /\ direct = SeedDirect
    /\ cached = [u \in Users |-> {}]
    /\ codes = {}
    /\ work = [q \in Requests |-> Idle]
    /\ asked = [q \in Requests |-> {}]
    /\ quiet = {}

\* A call comes in that is not refused for the types of its users.
Start(q, c) ==
    /\ work[q] = Idle
    /\ c.op \in {"grant", "revoke"} => <<c.by, c.user>> \in Manages
    /\ Moves(q, Begin(c, c.codes))
    /\ quiet' = IF c.op = "grant" THEN quiet \cup {q} ELSE quiet
    /\ UNCHANGED <<tables, keys>>

\* Mutant: a cached list is what the user is taken to hold.
CacheServes(w, found) == [w EXCEPT !.pc = "fill", !.got = found]

\* What becomes of a cached list: Permission() raises.
CacheHit(w, found) == NextCode(w)

\* get_user_all_permissions: the cache.
AskCache(q) ==
    /\ work[q].pc = "ask"
    /\ LET found == cached[Subject(work[q])] IN
       \E up \in Redis :
            IF up /\ found # {}
            THEN Goes(q, CacheHit(work[q], found))
            ELSE Goes(q, [work[q] EXCEPT !.pc = "roles"])
    /\ UNCHANGED <<tables, keys>>

ReadRoles(q) ==
    /\ work[q].pc = "roles"
    /\ Goes(q, [work[q] EXCEPT !.pc = "direct", !.got = ByRole(Subject(work[q]))])
    /\ UNCHANGED <<tables, keys>>

ReadDirect(q) ==
    /\ work[q].pc = "direct"
    /\ Goes(q, [work[q] EXCEPT !.pc = "fill", !.got = @ \cup Direct(Subject(work[q]))])
    /\ UNCHANGED <<tables, keys>>

\* Mutant: what the code requires is not looked at.
MayGrantAlone(w) == <<w.call.by, Head(w.left)>> \in Approves

\* The other user has what the code requires, and the caller's type is enough
\* for its risk.
MayGrant(w) ==
    /\ Needs[Head(w.left)] \subseteq w.got
    /\ <<w.call.by, Head(w.left)>> \in Approves

\* What a call does with the permissions it has looked up; can_grant_permission
\* looks at the caller's and then at the other user's.
Decide(w) ==
    CASE w.call.op = "warm" -> [w EXCEPT !.pc = "refill"]
      [] w.call.op = "grant" /\ w.side = "by" ->
            IF Head(w.left) \in w.got
            THEN [w EXCEPT !.pc = "ask", !.side = "user", !.got = {}]
            ELSE NextCode(w)
      [] OTHER ->
            IF MayGrant(w) THEN [w EXCEPT !.pc = "code", !.got = {}] ELSE NextCode(w)

\* The cache is set to what was read, which may be stale by now.
Fill(q) ==
    /\ work[q].pc = "fill"
    /\ \E up \in Redis :
        cached' = IF up THEN [cached EXCEPT ![Subject(work[q])] = work[q].got] ELSE cached
    /\ Goes(q, Decide(work[q]))
    /\ UNCHANGED <<tables, codes>>

\* warm_user_permissions_cache sets it again.
Refill(q) ==
    /\ work[q].pc = "refill"
    /\ \E up \in Redis :
        cached' = IF up THEN [cached EXCEPT ![Subject(work[q])] = work[q].got] ELSE cached
    /\ Goes(q, Idle)
    /\ UNCHANGED <<tables, codes>>

\* get_permission_by_code: a hit raises as well.
AskCode(q) ==
    /\ work[q].pc = "code"
    /\ \E up \in Redis :
        IF up /\ Head(work[q].left) \in codes
        THEN Goes(q, NextCode(work[q]))
        ELSE Goes(q, [work[q] EXCEPT !.pc = "name"])
    /\ UNCHANGED <<tables, keys>>

ReadCode(q) ==
    /\ work[q].pc = "name"
    /\ \E up \in Redis : codes' = IF up THEN codes \cup {Head(work[q].left)} ELSE codes
    /\ Goes(q, [work[q] EXCEPT !.pc = IF work[q].call.op = "give_role" THEN "write" ELSE "exists"])
    /\ UNCHANGED <<tables, cached>>

\* The rows with which a call goes on.  An expired one stands in a grant's way;
\* an extension looks at the types of the users only now.
Suits(c, row) ==
    CASE c.op = "grant" -> row = "none"
      [] c.op = "extend" -> row \in {"live", "past"} /\ <<c.by, c.user>> \in Manages
      [] OTHER -> row # "none"

FindRow(q) ==
    /\ work[q].pc = "exists"
    /\ LET w == work[q] IN
       Goes(q, IF Suits(w.call, direct[<<w.call.user, Head(w.left)>>])
               THEN [w EXCEPT !.pc = "write"]
               ELSE NextCode(w))
    /\ UNCHANGED <<tables, keys>>

\* A call that writes, at its statement and the commit.
Writes(q, op) == work[q].pc = "write" /\ work[q].call.op = op

Sets(q, row) ==
    direct' = [direct EXCEPT ![<<work[q].call.user, Head(work[q].left)>>] = row]

\* The INSERT fails on the primary key if another request's came first, and
\* every statement of the request after it fails too.
Insert(q) ==
    /\ Writes(q, "grant")
    /\ IF direct[<<work[q].call.user, Head(work[q].left)>>] = "none"
       THEN /\ Sets(q, work[q].call.until)
            /\ work' = [work EXCEPT ![q].pc = "drop"]
            /\ UNCHANGED <<member, has, keys>>
            /\ Changed
       ELSE /\ Goes(q, Idle)
            /\ UNCHANGED <<tables, keys>>

Delete(q) ==
    /\ Writes(q, "revoke")
    /\ Sets(q, "none")
    /\ work' = [work EXCEPT ![q].pc = "drop"]
    /\ UNCHANGED <<member, has, keys>>
    /\ Changed

\* The cache is left alone.
Extend(q) ==
    /\ Writes(q, "extend")
    /\ IF direct[<<work[q].call.user, Head(work[q].left)>>] = "none"
       THEN UNCHANGED direct
       ELSE Sets(q, work[q].call.until)
    /\ work' = [work EXCEPT ![q] = NextCode(work[q])]
    /\ UNCHANGED <<member, has, keys>>
    /\ Changed

\* bulk_assign_permissions_to_role, a commit for each code.
GiveRole(q) ==
    /\ Writes(q, "give_role")
    /\ has' = has \cup {<<work[q].call.role, Head(work[q].left)>>}
    /\ work' = [work EXCEPT ![q] = NextCode(work[q])]
    /\ UNCHANGED <<member, direct, keys>>
    /\ Changed

\* bulk_assign_roles_to_user and bulk_remove_roles_from_user.
AddRole(q) ==
    /\ Writes(q, "add_role")
    /\ member' = member \cup {<<work[q].call.user, work[q].call.role>>}
    /\ work' = [work EXCEPT ![q].pc = "drop"]
    /\ UNCHANGED <<has, direct, keys>>
    /\ Changed

DropRole(q) ==
    /\ Writes(q, "drop_role")
    /\ member' = member \ {<<work[q].call.user, work[q].call.role>>}
    /\ work' = [work EXCEPT ![q].pc = "drop"]
    /\ UNCHANGED <<has, direct, keys>>
    /\ Changed

\* invalidate_user_permissions, after the commit.
Drop(q) ==
    /\ work[q].pc = "drop"
    /\ \E up \in Redis :
        cached' = IF up THEN [cached EXCEPT ![work[q].call.user] = {}] ELSE cached
    /\ Goes(q, NextCode(work[q]))
    /\ UNCHANGED <<tables, codes>>

Step(q) ==
    \/ AskCache(q) \/ ReadRoles(q) \/ ReadDirect(q) \/ Fill(q) \/ Refill(q)
    \/ AskCode(q) \/ ReadCode(q) \/ FindRow(q)
    \/ Insert(q) \/ Delete(q) \/ Extend(q)
    \/ GiveRole(q) \/ AddRole(q) \/ DropRole(q) \/ Drop(q)

----------------------------------------------------------------------------
\* The role endpoints of AuthService, which know of no cache.
EditMember ==
    /\ \E k \in Edits \cap (Users \X Roles) :
        \/ k \notin member /\ member' = member \cup {k}
        \/ k \in member /\ member' = member \ {k}
    /\ UNCHANGED <<has, direct, keys, work>>
    /\ Changed

EditHas ==
    /\ \E k \in Edits \cap (Roles \X Perms) :
        \/ k \notin has /\ has' = has \cup {k}
        \/ k \in has /\ has' = has \ {k}
    /\ UNCHANGED <<member, direct, keys, work>>
    /\ Changed

\* cleanup_expired_permissions, which leaves the cache alone.  Only a route for
\* admins calls it: nothing runs it by itself.
Cleanup ==
    /\ \E k \in Users \X Perms : direct[k] = "past"
    /\ direct' = [k \in Users \X Perms |-> IF direct[k] = "past" THEN "none" ELSE direct[k]]
    /\ UNCHANGED <<member, has, keys, work>>
    /\ Changed

\* A granted permission expires.
Expire ==
    /\ \E k \in Users \X Perms :
        /\ direct[k] = "live"
        /\ direct' = [direct EXCEPT ![k] = "past"]
    /\ UNCHANGED <<member, has, keys, work>>
    /\ Changed

\* A key reaches its time to live, or an admin has it invalidated.
ForgetUser(u) ==
    /\ cached[u] # {}
    /\ cached' = [cached EXCEPT ![u] = {}]
    /\ UNCHANGED <<tables, codes, work, asked, quiet>>

ForgetCode(p) ==
    /\ p \in codes
    /\ codes' = codes \ {p}
    /\ UNCHANGED <<tables, cached, work, asked, quiet>>

\* clear_all_cache.
Clear ==
    /\ cached' = [u \in Users |-> {}]
    /\ codes' = {}
    /\ UNCHANGED <<tables, work, asked, quiet>>

Next ==
    \/ \E q \in Requests : Step(q) \/ \E c \in Calls : Start(q, c)
    \/ EditMember \/ EditHas \/ Cleanup \/ Expire
    \/ \E u \in Users : ForgetUser(u)
    \/ \E p \in Perms : ForgetCode(p)
    \/ Clear

Spec == Init /\ [][Next]_vars

\* Redis drops every key at its time to live, which no hit renews; requests are
\* run to their end and clients call again.
Fairness ==
    /\ \A q \in Requests : WF_vars(Step(q)) /\ WF_vars(\E c \in Calls : Start(q, c))
    /\ \A u \in Users : WF_vars(ForgetUser(u))
    /\ \A p \in Perms : WF_vars(ForgetCode(p))

FairSpec == Spec /\ Fairness

----------------------------------------------------------------------------
TypeOK ==
    /\ member \subseteq Users \X Roles
    /\ has \subseteq Roles \X Perms
    /\ direct \in [Users \X Perms -> Row]
    /\ cached \in [Users -> SUBSET Perms]
    /\ codes \subseteq Perms
    /\ work \in [Requests -> {Idle} \cup Busy]
    /\ asked \in [Requests -> SUBSET Lookup!Question]
    /\ quiet \subseteq Requests

\* Whatever a request decides on was read from the tables since it asked: it
\* misses nothing the user held all along from one source, and has nothing the
\* user did not hold in the meantime.  get_user_all_permissions implements
\* PermissionAnswers although changes of roles, expiry, extension and cleanup
\* leave the cache stale, a fill may come after the invalidation, and an
\* invalidation may be lost.  It does so because a hit raises: serving the
\* cached list (CacheServes) would break this.
AnswersAreCurrent == Lookup!Spec

\* A permission that is granted while nothing else changes is one the granter
\* holds, with everything it requires held by the grantee.
QuietGrantsAreBacked ==
    [][\A u \in Users, p \in Perms :
        direct[<<u, p>>] = "none" /\ direct'[<<u, p>>] # "none" =>
            \E q \in Requests :
                /\ Writes(q, "grant") /\ work[q].call.user = u /\ Head(work[q].left) = p
                /\ q \in quiet => p \in Held(work[q].call.by) /\ Needs[p] \subseteq Held(u)]_vars

CodesOf(c) == {c.codes[i] : i \in DOMAIN c.codes}

\* What a grant of these codes rests on.
Backed(c) == \A p \in CodesOf(c) : p \in Held(c.by) /\ Needs[p] \subseteq Held(c.user)

Granted(c) == CodesOf(c) \subseteq Held(c.user)

\* Nobody makes any other call.
Alone(c) == \A q \in Requests : work[q] # Idle => work[q].call = c

\* An expired grant of one of the codes has not been cleaned up.
Blocked(c) == \E p \in CodesOf(c) : direct[<<c.user, p>>] = "past"

\* Once other calls have ceased, a grant of one code that is repeated takes effect
\* again and again, unless its own expired row stands in the way: not for ever do
\* the lists and codes that others, or the attempts themselves, have cached make
\* it raise, and what one attempt caches does not make every other one raise.
GrantsGetThrough ==
    \A c \in Calls :
        c.op = "grant" /\ Len(c.codes) = 1 =>
            (<>[](Backed(c) /\ Alone(c)) => []<>(Granted(c) \/ Blocked(c)))

\* grant_permission_to_user: "User already has permission".
RefusedOnlyWhenHeld ==
    [][\A q \in Requests :
        FindRow(q) /\ work[q].call.op = "grant" /\ work'[q].pc # "write" =>
            Head(work[q].left) \in Direct(work[q].call.user)]_vars

\* A grant that is tried again and again takes effect although other calls go on.
GrantsOutlastLookups ==
    \A c \in Calls :
        c.op = "grant" =>
            (<>[]Backed(c) /\ []<>(\E q \in Requests : work[q] = Begin(c, c.codes))
                => []<>(Granted(c) \/ Blocked(c)))

\* As the docstring of bulk_grant_permissions has it, a call grants all of its
\* codes; here, that it does so in the end if it is repeated.
BulkGrantsGetThrough ==
    \A c \in Calls : c.op = "grant" => (<>[]Backed(c) => <>Granted(c))

=============================================================================
