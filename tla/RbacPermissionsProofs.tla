----------------------- MODULE RbacPermissionsProofs -----------------------
(***************************************************************************)
(* get_user_all_permissions implements PermissionAnswers, for any number   *)
(* of users, permissions, roles, requests and calls.                       *)
(*                                                                         *)
(* The invariant ties the question a request has open to the tables: what  *)
(* was held all along from a source is held from it now, and what is held  *)
(* now has been held at some moment.  After the first statement the same   *)
(* bounds hold of what was read.  The cache is no part of it.              *)
(*                                                                         *)
(* Grants with no change in between (Quiet) have read what the tables say. *)
(***************************************************************************)
EXTENDS RbacPermissions, SequenceTheorems, TLAPS

Coded == {"grant", "extend", "revoke", "give_role"}

\* The calls that can be at each step.
Fits(w) ==
    /\ w.pc \in {"ask", "roles", "direct", "fill"} =>
            w.call.op \in {"grant", "warm"} /\ (w.side = "by" => w.call.op = "grant")
    /\ w.pc = "refill" => w.call.op = "warm" /\ w.side = "user"
    /\ w.pc \in {"code", "name"} => w.call.op \in Coded
    /\ w.pc = "exists" => w.call.op \in {"grant", "extend", "revoke"}
    /\ w.pc = "write" => w.call.op # "warm"
    /\ w.pc = "drop" => w.call.op \in {"grant", "revoke", "add_role", "drop_role"}
    /\ w.call.op \in Coded => w.left # <<>>

Sound(w) == w = Idle \/ (w \in Busy /\ Fits(w))

\* A lookup under way.
Open(w) == w.pc \in {"ask", "roles", "direct"}

\* The question a, open at w, is bounded by the tables, and by what was read.
Tracks(a, w) ==
    /\ a.who = Subject(w)
    /\ a.role \subseteq ByRole(a.who)
    /\ a.direct \subseteq Direct(a.who)
    /\ Held(a.who) \subseteq a.ever
    /\ w.pc = "direct" => a.role \subseteq w.got /\ w.got \subseteq a.ever

Follows(q) ==
    /\ Open(work[q]) <=> asked[q] # {}
    /\ \A a \in asked[q] : Tracks(a, work[q])

Inv ==
    /\ TypeOK
    /\ \A q \in Requests : Sound(work[q]) /\ Follows(q)

----------------------------------------------------------------------------
(* Calls and their steps.                                                  *)

\* The tail of a list of codes is a list of codes.
LEMMA TailOfSome ==
    ASSUME NEW s \in Seq(Perms), s # <<>>
    PROVE  Tail(s) \in Seq(Perms)
  BY HeadTailProperties

\* What the fields of a call are.
LEMMA CallFields ==
    ASSUME NEW c \in Calls
    PROVE  /\ c.op \in Coded \cup {"warm", "add_role", "drop_role"}
           /\ c.op \in {"grant", "extend", "revoke"} => c.by \in Users
           /\ c.op # "give_role" => c.user \in Users
           /\ c.op \in {"add_role", "drop_role", "give_role"} => c.role \in Roles
           /\ c.op \in {"grant", "extend"} => c.until \in {"open", "live"}
           /\ c.codes \in Seq(Perms)
           /\ c.op \in Coded => c.codes # <<>>
  <1>1. c \in Call /\ (c.op \in Coded => c.codes # <<>>)
    BY RbacAssumption DEF Coded
  <1>2. <<>> \in Seq(Perms)
    OBVIOUS
  <1> QED
    BY <1>1, <1>2 DEF Call, Coded

\* A call begins with a step that fits it, and reads nothing yet.
LEMMA BeginSound ==
    ASSUME NEW c \in Calls, NEW left \in Seq(Perms), c.op \in Coded => left # <<>>
    PROVE  /\ Begin(c, left) \in Busy /\ Fits(Begin(c, left))
           /\ Begin(c, left).pc \in {"ask", "code", "write"}
           /\ c.op \notin {"grant", "warm"} => Begin(c, left).pc # "ask"
  <1>1. c.op \in Coded \cup {"warm", "add_role", "drop_role"}
    BY CallFields
  <1>2. CASE c.op = "grant"
    BY <1>2 DEF Begin, Busy, Fits, Coded
  <1>3. CASE c.op = "warm"
    BY <1>3 DEF Begin, Busy, Fits, Coded
  <1>4. CASE c.op \in {"revoke", "extend", "give_role"}
    BY <1>4 DEF Begin, Busy, Fits, Coded
  <1>5. CASE c.op \in {"add_role", "drop_role"}
    BY <1>5 DEF Begin, Busy, Fits, Coded
  <1> QED
    BY <1>1, <1>2, <1>3, <1>4, <1>5 DEF Coded

\* So does the next code, if there is one.
LEMMA NextSound ==
    ASSUME NEW w \in Busy, Fits(w)
    PROVE  /\ Sound(NextCode(w))
           /\ NextCode(w).pc \in {"idle", "ask", "code", "write"}
           /\ w.call.op \notin {"grant", "warm"} => NextCode(w).pc # "ask"
  <1>1. CASE w.left # <<>> /\ Tail(w.left) # <<>>
    <2>1. w.left \in Seq(Perms) /\ w.call \in Calls
      BY DEF Busy
    <2>2. Tail(w.left) \in Seq(Perms)
      BY <1>1, <2>1, TailOfSome
    <2> QED
      BY <1>1, <2>1, <2>2, BeginSound DEF NextCode, Sound
  <1>2. CASE ~ (w.left # <<>> /\ Tail(w.left) # <<>>)
    BY <1>2 DEF NextCode, Sound, Idle
  <1> QED
    BY <1>1, <1>2

\* Lookups are about users.
LEMMA SubjectUser ==
    ASSUME NEW w \in Busy, Fits(w), w.pc \in {"ask", "roles", "direct", "fill", "refill"}
    PROVE  Subject(w) \in Users
  <1>1. w.call \in Calls /\ w.side \in {"by", "user"}
    BY DEF Busy
  <1> QED
    BY <1>1, CallFields DEF Fits, Subject, Coded

\* What follows a lookup fits the call.
LEMMA DecideSound ==
    ASSUME NEW w \in Busy, Fits(w), w.pc = "fill"
    PROVE  /\ Sound(Decide(w))
           /\ Decide(w).pc \in {"idle", "ask", "code", "write", "refill"}
  <1>1. w.call.op \in {"grant", "warm"} /\ (w.side = "by" => w.call.op = "grant")
    BY DEF Fits
  <1>2. CASE w.call.op = "warm"
    <2>1. Decide(w) = [w EXCEPT !.pc = "refill"]
      BY <1>2 DEF Decide
    <2>2. w.side = "user"
      BY <1>1, <1>2 DEF Busy
    <2> QED
      BY <1>2, <2>1, <2>2 DEF Sound, Busy, Fits, Coded
  <1>3. CASE w.call.op = "grant"
    <2>1. \/ Decide(w) = [w EXCEPT !.pc = "ask", !.side = "user", !.got = {}]
          \/ Decide(w) = [w EXCEPT !.pc = "code", !.got = {}]
          \/ Decide(w) = NextCode(w)
      BY <1>3 DEF Decide
    <2>2. CASE Decide(w) = [w EXCEPT !.pc = "ask", !.side = "user", !.got = {}]
      BY <1>3, <2>2 DEF Sound, Busy, Fits, Coded
    <2>3. CASE Decide(w) = [w EXCEPT !.pc = "code", !.got = {}]
      BY <1>3, <2>3 DEF Sound, Busy, Fits, Coded
    <2> QED
      BY <2>1, <2>2, <2>3, NextSound
  <1> QED
    BY <1>1, <1>2, <1>3

----------------------------------------------------------------------------
(* Tables that do not change, and those that do.                           *)

\* What a user holds is a set of permissions from each source.
LEMMA HeldTypes ==
    \A u : HeldBy(u) \in Lookup!Sources /\ Held(u) = Lookup!Every(HeldBy(u))
  BY DEF HeldBy, Held, ByRole, Direct, Lookup!Sources, Lookup!Every

LEMMA HeldTypesNext ==
    \A u : HeldBy(u)' \in Lookup!Sources /\ Held(u)' = Lookup!Every(HeldBy(u)')
  BY DEF HeldBy, Held, ByRole, Direct, Lookup!Sources, Lookup!Every

\* While the tables stay, so does what everybody holds.
LEMMA TablesStay ==
    ASSUME UNCHANGED tables
    PROVE  \A u : /\ ByRole(u)' = ByRole(u) /\ Direct(u)' = Direct(u)
                  /\ HeldBy(u)' = HeldBy(u) /\ Held(u)' = Held(u)
  BY DEF tables, ByRole, Direct, HeldBy, Held

\* A move of one request leaves every open question bounded.
LEMMA MovesFollows ==
    ASSUME Inv, NEW q \in Requests, NEW w, Sound(w), Moves(q, w), UNCHANGED tables,
           w.pc = "roles" => work[q].pc = "ask" /\ Subject(w) = Subject(work[q]),
           w.pc = "direct" => /\ work[q].pc = "roles" /\ Subject(w) = Subject(work[q])
                              /\ w.got = ByRole(Subject(w))
    PROVE  /\ work' \in [Requests -> {Idle} \cup Busy]
           /\ asked' \in [Requests -> SUBSET Lookup!Question]
           /\ \A r \in Requests : (Sound(work[r]) /\ Follows(r))'
  <1>1. /\ work \in [Requests -> {Idle} \cup Busy]
        /\ asked \in [Requests -> SUBSET Lookup!Question]
    BY DEF Inv, TypeOK
  <1>2. w \in {Idle} \cup Busy
    BY DEF Sound
  <1>3. work' = [work EXCEPT ![q] = w] /\ work' \in [Requests -> {Idle} \cup Busy]
    BY <1>1, <1>2 DEF Moves
  <1>4. \A r \in Requests : Sound(work[r])'
    BY <1>1, <1>3 DEF Inv, Sound, Fits
  <1>5. w.pc = "ask" => Subject(w) \in Users
    BY <1>2, SubjectUser DEF Sound, Idle
  <1>6. w.pc = "ask" => Question(w) \in Lookup!Question
    BY <1>5, HeldTypes DEF Question, Lookup!Asked, Lookup!Question, Lookup!Sources, Lookup!Every
  <1>7. asked' \in [Requests -> SUBSET Lookup!Question]
    BY <1>1, <1>6 DEF Moves
  <1>8. ASSUME NEW r \in Requests, r # q PROVE Follows(r)'
    <2>1. work'[r] = work[r] /\ asked'[r] = asked[r]
      BY <1>1, <1>3, <1>8 DEF Moves
    <2>2. Follows(r)
      BY DEF Inv
    <2> QED
      BY <2>1, <2>2, TablesStay DEF Follows, Open, Tracks, Subject
  <1>9. Follows(q)'
    <2>1. work'[q] = w
      BY <1>1, <1>3
    <2>2. CASE w.pc = "ask"
      <3>1. asked'[q] = {Question(w)}
        BY <1>1, <2>2 DEF Moves
      <3>2. Tracks(Question(w), w)
        BY <2>2, HeldTypes DEF Tracks, Question, Lookup!Asked, HeldBy
      <3>3. \A a \in asked'[q] : Tracks(a, w)
        BY <3>1, <3>2
      <3> QED
        BY <2>1, <2>2, <3>1, <3>3, TablesStay DEF Follows, Open, Tracks, Subject
    <2>3. CASE w.pc = "roles"
      <3>1. asked'[q] = asked[q]
        BY <1>1, <2>3 DEF Moves
      <3>2. Follows(q)
        BY DEF Inv
      <3> QED
        BY <2>1, <2>3, <3>1, <3>2, TablesStay DEF Follows, Open, Tracks, Subject
    <2>4. CASE w.pc = "direct"
      <3>1. asked'[q] = asked[q]
        BY <1>1, <2>4 DEF Moves
      <3>2. Follows(q)
        BY DEF Inv
      <3>3. \A a \in asked[q] : Tracks(a, w)
        BY <2>4, <3>2 DEF Follows, Tracks, Held
      <3>4. asked[q] # {}
        BY <2>4, <3>2 DEF Follows, Open
      <3> QED
        BY <2>1, <2>4, <3>1, <3>3, <3>4, TablesStay DEF Follows, Open, Tracks, Subject
    <2>5. CASE w.pc \notin {"ask", "roles", "direct"}
      <3>1. asked'[q] = {}
        BY <1>1, <2>5 DEF Moves
      <3> QED
        BY <2>1, <2>5, <3>1 DEF Follows, Open
    <2> QED
      BY <2>2, <2>3, <2>4, <2>5
  <1> QED
    BY <1>3, <1>4, <1>7, <1>8, <1>9

\* A change of the tables widens every open question, and that is enough.
LEMMA ChangedFollows ==
    ASSUME Inv, Changed,
           work' \in [Requests -> {Idle} \cup Busy],
           \A r \in Requests : Sound(work[r])',
           \A r \in Requests :
                work'[r] = work[r] \/ (~ Open(work[r]) /\ ~ Open(work'[r]))
    PROVE  /\ asked' \in [Requests -> SUBSET Lookup!Question]
           /\ \A r \in Requests : Follows(r)'
  <1>1. asked \in [Requests -> SUBSET Lookup!Question]
    BY DEF Inv, TypeOK
  <1>2. ASSUME NEW r \in Requests
        PROVE  asked'[r] = {Lookup!Widened(a, HeldBy(a.who)') : a \in asked[r]}
    BY DEF Changed
  <1>3. ASSUME NEW a \in Lookup!Question
        PROVE  /\ Lookup!Widened(a, HeldBy(a.who)') \in Lookup!Question
               /\ Lookup!Widened(a, HeldBy(a.who)').who = a.who
               /\ Lookup!Widened(a, HeldBy(a.who)').role = a.role \cap ByRole(a.who)'
               /\ Lookup!Widened(a, HeldBy(a.who)').direct = a.direct \cap Direct(a.who)'
               /\ Lookup!Widened(a, HeldBy(a.who)').ever = a.ever \cup Held(a.who)'
    BY <1>3, HeldTypesNext
    DEF Lookup!Widened, Lookup!Question, Lookup!Sources, Lookup!Every, HeldBy, Held
  <1>4. ASSUME NEW r \in Requests PROVE Follows(r)'
    <2>1. Follows(r)
      BY DEF Inv
    <2>2. Open(work'[r]) <=> asked'[r] # {}
      BY <1>2, <2>1 DEF Follows
    <2>3. ASSUME NEW b \in asked'[r] PROVE Tracks(b, work[r])'
      <3>1. PICK a \in asked[r] : b = Lookup!Widened(a, HeldBy(a.who)')
        BY <1>2
      <3>2. a \in Lookup!Question
        BY <1>1
      <3>3. work'[r] = work[r] /\ Tracks(a, work[r])
        BY <2>1, <2>2, <2>3 DEF Follows
      <3> QED
        BY <1>3, <3>1, <3>2, <3>3 DEF Tracks, Subject
    <2> QED
      BY <2>2, <2>3 DEF Follows, Open
  <1>5. asked' \in [Requests -> SUBSET Lookup!Question]
    BY <1>1, <1>2, <1>3 DEF Changed
  <1> QED
    BY <1>4, <1>5

----------------------------------------------------------------------------
(* The steps.                                                              *)

\* What is known of a request with a call.
LEMMA AtWork ==
    ASSUME Inv, NEW q \in Requests, work[q] # Idle
    PROVE  work[q] \in Busy /\ Fits(work[q])
  BY DEF Inv, Sound

LEMMA StartKeeps ==
    ASSUME Inv, NEW q \in Requests, NEW c \in Calls, Start(q, c)
    PROVE  Inv'
  <1>1. /\ c.codes \in Seq(Perms) /\ (c.op \in Coded => c.codes # <<>>)
        /\ Moves(q, Begin(c, c.codes)) /\ UNCHANGED <<tables, keys>>
    BY CallFields DEF Start
  <1>2. /\ Sound(Begin(c, c.codes))
        /\ Begin(c, c.codes).pc \notin {"roles", "direct"}
    BY <1>1, BeginSound DEF Sound
  <1>3. /\ work' \in [Requests -> {Idle} \cup Busy]
        /\ asked' \in [Requests -> SUBSET Lookup!Question]
        /\ \A r \in Requests : (Sound(work[r]) /\ Follows(r))'
    BY <1>1, <1>2, MovesFollows
  <1>4. quiet' \subseteq Requests
    BY DEF Start, Inv, TypeOK
  <1> QED
    BY <1>1, <1>3, <1>4 DEF Inv, TypeOK, tables, keys

\* A step of a request that goes on with its call keeps the invariant if the
\* step is sound and the keys keep their types.
LEMMA GoesKeeps ==
    ASSUME Inv, NEW q \in Requests, NEW w, Sound(w), Goes(q, w), UNCHANGED tables,
           cached' \in [Users -> SUBSET Perms], codes' \subseteq Perms,
           w.pc = "roles" => work[q].pc = "ask" /\ Subject(w) = Subject(work[q]),
           w.pc = "direct" => /\ work[q].pc = "roles" /\ Subject(w) = Subject(work[q])
                              /\ w.got = ByRole(Subject(w))
    PROVE  Inv'
  <1>1. Moves(q, w) /\ quiet' \subseteq Requests
    BY DEF Goes, Inv, TypeOK
  <1>2. /\ work' \in [Requests -> {Idle} \cup Busy]
        /\ asked' \in [Requests -> SUBSET Lookup!Question]
        /\ \A r \in Requests : (Sound(work[r]) /\ Follows(r))'
    BY <1>1, MovesFollows
  <1> QED
    BY <1>1, <1>2 DEF Inv, TypeOK, tables

\* A step that changes the tables keeps it if they keep their types and no
\* lookup is touched.
LEMMA ChangedKeeps ==
    ASSUME Inv, Changed, UNCHANGED keys,
           member' \subseteq Users \X Roles, has' \subseteq Roles \X Perms,
           direct' \in [Users \X Perms -> Row],
           work' \in [Requests -> {Idle} \cup Busy],
           \A r \in Requests : Sound(work[r])',
           \A r \in Requests :
                work'[r] = work[r] \/ (~ Open(work[r]) /\ ~ Open(work'[r]))
    PROVE  Inv'
  <1>1. asked' \in [Requests -> SUBSET Lookup!Question] /\ \A r \in Requests : Follows(r)'
    BY ChangedFollows
  <1>2. quiet' \subseteq Requests
    BY DEF Changed
  <1> QED
    BY <1>1, <1>2 DEF Inv, TypeOK, keys

\* No step of the program to a state that begins a lookup starts from one that
\* writes, so that a writer moves from w to a sound v.
LEMMA WriterMoves ==
    ASSUME Inv, NEW q \in Requests, NEW v, work' = [work EXCEPT ![q] = v],
           Sound(v), ~ Open(v), ~ Open(work[q])
    PROVE  /\ work' \in [Requests -> {Idle} \cup Busy]
           /\ \A r \in Requests : Sound(work[r])'
           /\ \A r \in Requests :
                work'[r] = work[r] \/ (~ Open(work[r]) /\ ~ Open(work'[r]))
  <1>1. work \in [Requests -> {Idle} \cup Busy] /\ \A r \in Requests : Sound(work[r])
    BY DEF Inv, TypeOK
  <1>2. v \in {Idle} \cup Busy
    BY DEF Sound
  <1>3. \A r \in Requests : work'[r] = IF r = q THEN v ELSE work[r]
    BY <1>1
  <1>4. \A r \in Requests : Sound(work'[r])
    BY <1>1, <1>3
  <1> QED
    BY <1>1, <1>2, <1>3, <1>4 DEF Sound, Fits

LEMMA WritesKeep ==
    ASSUME Inv, NEW q \in Requests,
           Insert(q) \/ Delete(q) \/ Extend(q) \/ GiveRole(q) \/ AddRole(q) \/ DropRole(q)
    PROVE  Inv'
  <1> DEFINE w == work[q]
             dropping == [w EXCEPT !.pc = "drop"]
  <1>0. /\ cached \in [Users -> SUBSET Perms] /\ codes \subseteq Perms
        /\ member \subseteq Users \X Roles /\ has \subseteq Roles \X Perms
        /\ direct \in [Users \X Perms -> Row]
        /\ work \in [Requests -> {Idle} \cup Busy]
    BY DEF Inv, TypeOK
  <1>1. w.pc = "write" /\ w # Idle
    BY DEF Insert, Delete, Extend, GiveRole, AddRole, DropRole, Writes, Idle
  <1>2. w \in Busy /\ Fits(w) /\ ~ Open(w)
    BY <1>1, AtWork DEF Open
  <1>3. w.call \in Calls /\ w.left \in Seq(Perms)
    BY <1>2 DEF Busy
  <1>4. w.call.op \in Coded => Head(w.left) \in Perms
    <2>1. w.call.op \in Coded => w.left # <<>>
      BY <1>2 DEF Fits
    <2> QED
      BY <1>3, <2>1, HeadTailProperties
  <1>5. w.call.op \in {"grant", "revoke", "add_role", "drop_role"} =>
            Sound(dropping) /\ ~ Open(dropping)
    BY <1>1, <1>2 DEF Sound, Busy, Fits, Open
  <1>6. w.call.op \in {"extend", "give_role"} =>
            Sound(NextCode(w)) /\ ~ Open(NextCode(w))
    BY <1>2, NextSound DEF Open
  <1>7. CASE Insert(q)
    <2>1. w.call.op = "grant"
      BY <1>7 DEF Insert, Writes
    <2>2. CASE Goes(q, Idle) /\ UNCHANGED <<tables, keys>>
      <3>1. Sound(Idle) /\ Idle.pc = "idle"
        BY DEF Sound, Idle
      <3> QED
        BY <1>0, <2>2, <3>1, GoesKeeps DEF keys
    <2>3. CASE /\ Sets(q, w.call.until)
               /\ work' = [work EXCEPT ![q].pc = "drop"]
               /\ UNCHANGED <<member, has, keys>>
               /\ Changed
      <3>1. <<w.call.user, Head(w.left)>> \in Users \X Perms /\ w.call.until \in Row
        BY <1>3, <1>4, <2>1, CallFields DEF Coded, Row
      <3>2. direct' \in [Users \X Perms -> Row]
        BY <1>0, <2>3, <3>1 DEF Sets
      <3>3. work' = [work EXCEPT ![q] = dropping]
        BY <2>3
      <3>4. Sound(dropping) /\ ~ Open(dropping)
        BY <1>5, <2>1
      <3> HIDE DEF dropping, w
      <3> QED
        BY <1>0, <1>2, <2>3, <3>2, <3>3, <3>4, WriterMoves, ChangedKeeps DEF w
    <2> QED
      BY <1>7, <2>2, <2>3 DEF Insert
  <1>8. CASE Delete(q)
    <2>1. w.call.op = "revoke"
      BY <1>8 DEF Delete, Writes
    <2>2. <<w.call.user, Head(w.left)>> \in Users \X Perms
      BY <1>3, <1>4, <2>1, CallFields DEF Coded
    <2>3. direct' \in [Users \X Perms -> Row]
      BY <1>0, <1>8, <2>2 DEF Delete, Sets, Row
    <2>4. /\ work' = [work EXCEPT ![q] = dropping]
          /\ UNCHANGED <<member, has, keys>> /\ Changed
      BY <1>8 DEF Delete
    <2>5. Sound(dropping) /\ ~ Open(dropping)
      BY <1>5, <2>1
    <2> HIDE DEF dropping, w
    <2> QED
      BY <1>0, <1>2, <2>3, <2>4, <2>5, WriterMoves, ChangedKeeps DEF w
  <1>9. CASE Extend(q)
    <2>1. w.call.op = "extend"
      BY <1>9 DEF Extend, Writes
    <2>2. <<w.call.user, Head(w.left)>> \in Users \X Perms /\ w.call.until \in Row
      BY <1>3, <1>4, <2>1, CallFields DEF Coded, Row
    <2>3. direct' \in [Users \X Perms -> Row]
      BY <1>0, <1>9, <2>2 DEF Extend, Sets
    <2>4. /\ work' = [work EXCEPT ![q] = NextCode(w)]
          /\ UNCHANGED <<member, has, keys>> /\ Changed
      BY <1>9 DEF Extend
    <2>5. Sound(NextCode(w)) /\ ~ Open(NextCode(w))
      BY <1>6, <2>1
    <2> HIDE DEF w
    <2> QED
      BY <1>0, <1>2, <2>3, <2>4, <2>5, WriterMoves, ChangedKeeps DEF w
  <1>10. CASE GiveRole(q)
    <2>1. w.call.op = "give_role"
      BY <1>10 DEF GiveRole, Writes
    <2>2. has' \subseteq Roles \X Perms
      BY <1>0, <1>3, <1>4, <1>10, <2>1, CallFields DEF GiveRole, Coded
    <2>3. /\ work' = [work EXCEPT ![q] = NextCode(w)]
          /\ UNCHANGED <<member, direct, keys>> /\ Changed
      BY <1>10 DEF GiveRole
    <2>4. Sound(NextCode(w)) /\ ~ Open(NextCode(w))
      BY <1>6, <2>1
    <2> HIDE DEF w
    <2> QED
      BY <1>0, <1>2, <2>2, <2>3, <2>4, WriterMoves, ChangedKeeps DEF w
  <1>11. CASE AddRole(q) \/ DropRole(q)
    <2>1. w.call.op \in {"add_role", "drop_role"}
      BY <1>11 DEF AddRole, DropRole, Writes
    <2>2. w.call.user \in Users /\ w.call.role \in Roles
      BY <1>3, <2>1, CallFields
    <2>3. /\ member' \subseteq Users \X Roles
          /\ work' = [work EXCEPT ![q] = dropping]
          /\ UNCHANGED <<has, direct, keys>> /\ Changed
      <3>1. CASE AddRole(q)
        BY <1>0, <2>2, <3>1 DEF AddRole
      <3>2. CASE DropRole(q)
        BY <1>0, <3>2 DEF DropRole
      <3> QED
        BY <1>11, <3>1, <3>2
    <2>4. Sound(dropping) /\ ~ Open(dropping)
      BY <1>5, <2>1
    <2> HIDE DEF dropping, w
    <2> QED
      BY <1>0, <1>2, <2>3, <2>4, WriterMoves, ChangedKeeps DEF w
  <1> QED
    BY <1>7, <1>8, <1>9, <1>10, <1>11

LEMMA StepKeeps ==
    ASSUME Inv, NEW q \in Requests, Step(q)
    PROVE  Inv'
  <1> DEFINE w == work[q]
  <1>0. /\ cached \in [Users -> SUBSET Perms] /\ codes \subseteq Perms
        /\ member \subseteq Users \X Roles /\ has \subseteq Roles \X Perms
        /\ direct \in [Users \X Perms -> Row]
        /\ work \in [Requests -> {Idle} \cup Busy]
    BY DEF Inv, TypeOK
  <1>1. w \in Busy /\ Fits(w)
    <2>1. w # Idle
      BY DEF Step, AskCache, ReadRoles, ReadDirect, Fill, Refill, AskCode, ReadCode, FindRow,
             Writes, Insert, Delete, Extend, GiveRole, AddRole, DropRole, Drop, Idle
    <2> QED
      BY <2>1, AtWork
  <1>2. /\ Sound(NextCode(w)) /\ NextCode(w).pc \in {"idle", "ask", "code", "write"}
        /\ w.call.op \notin {"grant", "warm"} => NextCode(w).pc # "ask"
    BY <1>1, NextSound
  <1>3. CASE AskCache(q)
    <2>1. UNCHANGED <<tables, keys>> /\ w.pc = "ask"
      BY <1>3 DEF AskCache
    <2>2. CASE Goes(q, NextCode(w))
      BY <1>0, <1>2, <2>1, <2>2, GoesKeeps DEF keys
    <2>3. CASE Goes(q, [w EXCEPT !.pc = "roles"])
      <3>1. Sound([w EXCEPT !.pc = "roles"])
        BY <1>1, <2>1 DEF Sound, Busy, Fits
      <3>2. /\ [w EXCEPT !.pc = "roles"].pc = "roles"
            /\ Subject([w EXCEPT !.pc = "roles"]) = Subject(w)
        BY <1>1 DEF Subject, Busy
      <3> QED
        BY <1>0, <2>1, <2>3, <3>1, <3>2, GoesKeeps DEF keys
    <2> QED
      BY <1>3, <2>2, <2>3 DEF AskCache, CacheHit
  <1>4. CASE ReadRoles(q)
    <2> DEFINE v == [w EXCEPT !.pc = "direct", !.got = ByRole(Subject(w))]
    <2>1. UNCHANGED <<tables, keys>> /\ w.pc = "roles" /\ Goes(q, v)
      BY <1>4 DEF ReadRoles
    <2>2. ByRole(Subject(w)) \subseteq Perms
      BY DEF ByRole
    <2>3. v.pc = "direct" /\ Subject(v) = Subject(w) /\ v.got = ByRole(Subject(w))
      BY <1>1 DEF Subject, Busy
    <2>4. Sound(v)
      BY <1>1, <2>1, <2>2 DEF Sound, Busy, Fits
    <2> HIDE DEF v
    <2> QED
      BY <1>0, <2>1, <2>3, <2>4, GoesKeeps DEF keys
  <1>5. CASE ReadDirect(q)
    <2> DEFINE v == [w EXCEPT !.pc = "fill", !.got = w.got \cup Direct(Subject(w))]
    <2>1. UNCHANGED <<tables, keys>> /\ w.pc = "direct" /\ Goes(q, v)
      BY <1>5 DEF ReadDirect
    <2>2. Direct(Subject(w)) \subseteq Perms /\ w.got \subseteq Perms
      BY <1>1 DEF Direct, Busy
    <2>3. Sound(v) /\ v.pc = "fill"
      BY <1>1, <2>1, <2>2 DEF Sound, Busy, Fits
    <2> HIDE DEF v
    <2> QED
      BY <1>0, <2>1, <2>3, GoesKeeps DEF keys
  <1>6. CASE Fill(q)
    <2>1. UNCHANGED <<tables, codes>> /\ w.pc = "fill" /\ Goes(q, Decide(w))
      BY <1>6 DEF Fill
    <2>2. /\ Sound(Decide(w))
          /\ Decide(w).pc \in {"idle", "ask", "code", "write", "refill"}
      BY <1>1, <2>1, DecideSound
    <2>3. cached' \in [Users -> SUBSET Perms]
      BY <1>0, <1>1, <1>6 DEF Fill, Busy
    <2> QED
      BY <1>0, <2>1, <2>2, <2>3, GoesKeeps
  <1>7. CASE Refill(q)
    <2>1. UNCHANGED <<tables, codes>> /\ Goes(q, Idle)
      BY <1>7 DEF Refill
    <2>2. cached' \in [Users -> SUBSET Perms]
      BY <1>0, <1>1, <1>7 DEF Refill, Busy
    <2>3. Sound(Idle) /\ Idle.pc = "idle"
      BY DEF Sound, Idle
    <2> QED
      BY <1>0, <2>1, <2>2, <2>3, GoesKeeps
  <1>8. CASE AskCode(q)
    <2>1. UNCHANGED <<tables, keys>> /\ w.pc = "code"
      BY <1>8 DEF AskCode
    <2>2. CASE Goes(q, NextCode(w))
      BY <1>0, <1>2, <2>1, <2>2, GoesKeeps DEF keys
    <2>3. CASE Goes(q, [w EXCEPT !.pc = "name"])
      <3>1. Sound([w EXCEPT !.pc = "name"]) /\ [w EXCEPT !.pc = "name"].pc = "name"
        BY <1>1, <2>1 DEF Sound, Busy, Fits
      <3> QED
        BY <1>0, <2>1, <2>3, <3>1, GoesKeeps DEF keys
    <2> QED
      BY <1>8, <2>2, <2>3 DEF AskCode
  <1>9. CASE ReadCode(q)
    <2> DEFINE v == [w EXCEPT !.pc = IF w.call.op = "give_role" THEN "write" ELSE "exists"]
    <2>1. UNCHANGED <<tables, cached>> /\ w.pc = "name" /\ Goes(q, v)
      BY <1>9 DEF ReadCode
    <2>2. w.call.op \in Coded /\ w.left \in Seq(Perms) /\ w.left # <<>>
      BY <1>1, <2>1 DEF Fits, Busy
    <2>3. Head(w.left) \in Perms
      BY <2>2, HeadTailProperties
    <2>4. codes' \subseteq Perms
      BY <1>0, <1>9, <2>3 DEF ReadCode
    <2>5. Sound(v) /\ v.pc \in {"write", "exists"}
      BY <1>1, <2>1, <2>2 DEF Sound, Busy, Fits, Coded
    <2> HIDE DEF v
    <2> QED
      BY <1>0, <2>1, <2>4, <2>5, GoesKeeps
  <1>10. CASE FindRow(q)
    <2>1. UNCHANGED <<tables, keys>> /\ w.pc = "exists"
      BY <1>10 DEF FindRow
    <2>2. CASE Goes(q, NextCode(w))
      BY <1>0, <1>2, <2>1, <2>2, GoesKeeps DEF keys
    <2>3. CASE Goes(q, [w EXCEPT !.pc = "write"])
      <3>1. Sound([w EXCEPT !.pc = "write"]) /\ [w EXCEPT !.pc = "write"].pc = "write"
        BY <1>1, <2>1 DEF Sound, Busy, Fits
      <3> QED
        BY <1>0, <2>1, <2>3, <3>1, GoesKeeps DEF keys
    <2> QED
      BY <1>10, <2>2, <2>3 DEF FindRow
  <1>11. CASE Insert(q) \/ Delete(q) \/ Extend(q) \/ GiveRole(q) \/ AddRole(q) \/ DropRole(q)
    BY <1>11, WritesKeep
  <1>12. CASE Drop(q)
    <2>1. UNCHANGED <<tables, codes>> /\ w.pc = "drop" /\ Goes(q, NextCode(w))
      BY <1>12 DEF Drop
    <2>2. cached' \in [Users -> SUBSET Perms]
      BY <1>0, <1>12 DEF Drop
    <2> QED
      BY <1>0, <1>2, <2>1, <2>2, GoesKeeps
  <1> QED
    BY <1>3, <1>4, <1>5, <1>6, <1>7, <1>8, <1>9, <1>10, <1>11, <1>12 DEF Step

\* Everything that is not a step of a request.
LEMMA EnvironmentKeeps ==
    ASSUME Inv,
           \/ EditMember \/ EditHas \/ Cleanup \/ Expire \/ Clear
           \/ \E u \in Users : ForgetUser(u)
           \/ \E p \in Perms : ForgetCode(p)
    PROVE  Inv'
  <1>0. /\ cached \in [Users -> SUBSET Perms] /\ codes \subseteq Perms
        /\ member \subseteq Users \X Roles /\ has \subseteq Roles \X Perms
        /\ direct \in [Users \X Perms -> Row]
        /\ work \in [Requests -> {Idle} \cup Busy]
        /\ \A q \in Requests : Sound(work[q])
    BY DEF Inv, TypeOK
  <1>1. CASE EditMember \/ EditHas \/ Cleanup \/ Expire
    <2>1. UNCHANGED <<keys, work>> /\ Changed
      BY <1>1 DEF EditMember, EditHas, Cleanup, Expire
    <2>2. /\ member' \subseteq Users \X Roles /\ has' \subseteq Roles \X Perms
          /\ direct' \in [Users \X Perms -> Row]
      BY <1>0, <1>1 DEF EditMember, EditHas, Cleanup, Expire, Row
    <2>3. \A r \in Requests : work'[r] = work[r] /\ Sound(work[r])'
      BY <1>0, <2>1 DEF Sound, Fits
    <2> QED
      BY <1>0, <2>1, <2>2, <2>3, ChangedKeeps
  <1>2. ASSUME UNCHANGED <<tables, work, asked, quiet>>,
               cached' \in [Users -> SUBSET Perms], codes' \subseteq Perms
        PROVE  Inv'
    <2>1. \A q \in Requests : (Sound(work[q]) /\ Follows(q))'
      BY <1>2, TablesStay DEF Inv, Sound, Fits, Follows, Open, Tracks, Subject
    <2> QED
      BY <1>2, <2>1 DEF Inv, TypeOK, tables
  <1>3. CASE Clear
    BY <1>2, <1>3 DEF Clear
  <1>4. CASE \E u \in Users : ForgetUser(u)
    BY <1>0, <1>2, <1>4 DEF ForgetUser
  <1>5. CASE \E p \in Perms : ForgetCode(p)
    BY <1>0, <1>2, <1>5 DEF ForgetCode
  <1> QED
    BY <1>1, <1>3, <1>4, <1>5

LEMMA InitInv == Init => Inv
  <1> SUFFICES ASSUME Init PROVE Inv
    OBVIOUS
  <1>1. TypeOK
    BY RbacAssumption DEF Init, TypeOK
  <1>2. \A q \in Requests : work[q] = Idle /\ asked[q] = {}
    BY DEF Init
  <1>3. \A q \in Requests : Sound(work[q]) /\ Follows(q)
    BY <1>2 DEF Sound, Follows, Open, Idle
  <1> QED
    BY <1>1, <1>3 DEF Inv

LEMMA NextInv == Inv /\ [Next]_vars => Inv'
  <1> SUFFICES ASSUME Inv, [Next]_vars PROVE Inv'
    OBVIOUS
  <1>1. CASE \E q \in Requests : Step(q)
    BY <1>1, StepKeeps
  <1>2. CASE \E q \in Requests : \E c \in Calls : Start(q, c)
    BY <1>2, StartKeeps
  <1>3. CASE \/ EditMember \/ EditHas \/ Cleanup \/ Expire \/ Clear
             \/ \E u \in Users : ForgetUser(u)
             \/ \E p \in Perms : ForgetCode(p)
    BY <1>3, EnvironmentKeeps
  <1>4. CASE UNCHANGED vars
    <2>1. UNCHANGED <<tables, keys, work, asked, quiet>>
      BY <1>4 DEF vars
    <2>2. \A q \in Requests : (Sound(work[q]) /\ Follows(q))'
      BY <2>1, TablesStay DEF Inv, Sound, Fits, Follows, Open, Tracks, Subject
    <2> QED
      BY <2>1, <2>2 DEF Inv, TypeOK, tables, keys
  <1> QED
    BY <1>1, <1>2, <1>3, <1>4 DEF Next

LEMMA RbacInvariant == Spec => []Inv
  BY InitInv, NextInv, PTL DEF Spec

\* The tables, the cache and what the requests do keep their types.
THEOREM RbacTypeCorrect == Spec => []TypeOK
  <1>1. Inv => TypeOK
    BY DEF Inv
  <1> QED
    BY <1>1, RbacInvariant, PTL

----------------------------------------------------------------------------
(* Grants with no change in between.                                       *)

\* What a grant has looked up by now, and decided, is so in the tables.
Backing(w) ==
    /\ w # Idle /\ w.call.op = "grant"
    /\ w.pc \in {"direct", "fill"} => w.got \subseteq Held(Subject(w))
    /\ w.side = "user" /\ w.pc \in {"ask", "roles", "direct", "fill"} =>
            Head(w.left) \in Held(w.call.by)
    /\ w.pc \in {"code", "name", "exists", "write"} =>
            Head(w.left) \in Held(w.call.by) /\ Needs[Head(w.left)] \subseteq Held(w.call.user)

Quiet == \A q \in quiet : Backing(work[q])

\* The next code of a grant has nothing looked up yet.
LEMMA NextBacking ==
    ASSUME NEW w \in Busy, w.call.op = "grant"
    PROVE  NextCode(w) = Idle \/ Backing(NextCode(w))
  <1>1. NextCode(w) \in {Idle, Begin(w.call, Tail(w.left))}
    BY DEF NextCode
  <1>2. LET b == Begin(w.call, Tail(w.left))
        IN  b.pc = "ask" /\ b.call = w.call /\ b.side = "by"
    BY DEF Begin
  <1> QED
    BY <1>1, <1>2 DEF Backing, Idle

\* A move of one request that reads what is in the tables.
LEMMA MovesQuiet ==
    ASSUME Inv, Quiet, NEW q \in Requests, NEW v, Moves(q, v), UNCHANGED tables,
           quiet' \subseteq quiet \cup {q}, q \in quiet' => Backing(v)
    PROVE  Quiet'
  <1>1. \A r \in Requests : work'[r] = IF r = q THEN v ELSE work[r]
    BY DEF Moves, Inv, TypeOK
  <1>2. quiet \subseteq Requests
    BY DEF Inv, TypeOK
  <1>3. ASSUME NEW r \in quiet' PROVE Backing(work'[r])
    BY <1>1, <1>2, <1>3 DEF Quiet
  <1>4. ASSUME NEW r \in quiet', Backing(work'[r]) PROVE Backing(work[r])'
    BY <1>4, TablesStay DEF Backing, Subject
  <1> QED
    BY <1>3, <1>4 DEF Quiet

LEMMA GoesQuiet ==
    ASSUME Inv, Quiet, NEW q \in Requests, NEW v, Goes(q, v), UNCHANGED tables,
           q \in quiet => v = Idle \/ Backing(v)
    PROVE  Quiet'
  <1>1. Moves(q, v) /\ quiet' \subseteq quiet /\ (q \in quiet' => q \in quiet /\ v # Idle)
    BY DEF Goes
  <1> QED
    BY <1>1, MovesQuiet

LEMMA StepQuiet ==
    ASSUME Inv, Quiet, NEW q \in Requests, Step(q)
    PROVE  Quiet'
  <1> DEFINE w == work[q]
  <1>1. w \in Busy /\ Fits(w)
    <2>1. w # Idle
      BY DEF Step, AskCache, ReadRoles, ReadDirect, Fill, Refill, AskCode, ReadCode, FindRow,
             Writes, Insert, Delete, Extend, GiveRole, AddRole, DropRole, Drop, Idle
    <2> QED
      BY <2>1, AtWork
  <1>2. q \in quiet => Backing(w) /\ (NextCode(w) = Idle \/ Backing(NextCode(w)))
    BY <1>1, NextBacking DEF Quiet, Backing
  <1>3. CASE Changed
    BY <1>3 DEF Changed, Quiet
  <1>4. CASE UNCHANGED tables /\ (Goes(q, NextCode(w)) \/ Goes(q, Idle))
    BY <1>2, <1>4, GoesQuiet
  <1>5. ASSUME NEW pc \in {"roles", "name", "exists", "write"},
               UNCHANGED tables, Goes(q, [w EXCEPT !.pc = pc]),
               pc = "roles" => w.pc = "ask",
               pc # "roles" => w.pc \in {"code", "name", "exists"}
        PROVE  Quiet'
    <2> DEFINE v == [w EXCEPT !.pc = pc]
    <2>1. /\ v.pc = pc /\ v.call = w.call /\ v.left = w.left /\ v.side = w.side
          /\ v # Idle
      BY <1>1 DEF Busy, Idle
    <2> HIDE DEF v
    <2>2. Backing(w) => Backing(v)
      BY <1>5, <2>1 DEF Backing
    <2> QED
      BY <1>2, <1>5, <2>2, GoesQuiet DEF v
  <1>6. CASE AskCache(q)
    BY <1>4, <1>5, <1>6 DEF AskCache, CacheHit
  <1>7. CASE ReadRoles(q)
    <2> DEFINE v == [w EXCEPT !.pc = "direct", !.got = ByRole(Subject(w))]
    <2>1. w.pc = "roles" /\ UNCHANGED tables /\ Goes(q, v)
      BY <1>7 DEF ReadRoles
    <2>2. /\ v.pc = "direct" /\ v.call = w.call /\ v.left = w.left /\ v.side = w.side
          /\ v # Idle /\ Subject(v) = Subject(w) /\ v.got = ByRole(Subject(w))
      BY <1>1 DEF Busy, Idle, Subject
    <2> HIDE DEF v
    <2>3. Backing(w) => Backing(v)
      BY <2>1, <2>2 DEF Backing, Held
    <2> QED
      BY <1>2, <2>1, <2>3, GoesQuiet
  <1>8. CASE ReadDirect(q)
    <2> DEFINE v == [w EXCEPT !.pc = "fill", !.got = w.got \cup Direct(Subject(w))]
    <2>1. w.pc = "direct" /\ UNCHANGED tables /\ Goes(q, v)
      BY <1>8 DEF ReadDirect
    <2>2. /\ v.pc = "fill" /\ v.call = w.call /\ v.left = w.left /\ v.side = w.side
          /\ v # Idle /\ Subject(v) = Subject(w) /\ v.got = w.got \cup Direct(Subject(w))
      BY <1>1 DEF Busy, Idle, Subject
    <2> HIDE DEF v
    <2>3. Backing(w) => Backing(v)
      BY <2>1, <2>2 DEF Backing, Held
    <2> QED
      BY <1>2, <2>1, <2>3, GoesQuiet
  <1>9. CASE Fill(q)
    <2>1. w.pc = "fill" /\ UNCHANGED tables /\ Goes(q, Decide(w))
      BY <1>9 DEF Fill
    <2>2. ASSUME q \in quiet PROVE Decide(w) = Idle \/ Backing(Decide(w))
      <3>1. /\ w.call.op = "grant" /\ w.got \subseteq Held(Subject(w))
            /\ w.side = "user" => Head(w.left) \in Held(w.call.by)
        BY <1>2, <2>1, <2>2 DEF Backing
      <3>2. CASE w.side = "by" /\ Head(w.left) \in w.got
        <4> DEFINE v == [w EXCEPT !.pc = "ask", !.side = "user", !.got = {}]
        <4>1. Decide(w) = v
          BY <3>1, <3>2 DEF Decide
        <4>2. /\ v.pc = "ask" /\ v.call = w.call /\ v.left = w.left
              /\ v # Idle
          BY <1>1 DEF Busy, Idle
        <4>3. Head(w.left) \in Held(w.call.by)
          BY <3>1, <3>2 DEF Subject
        <4> HIDE DEF v
        <4> QED
          BY <3>1, <4>1, <4>2, <4>3 DEF Backing
      <3>3. CASE w.side # "by" /\ MayGrant(w)
        <4> DEFINE v == [w EXCEPT !.pc = "code", !.got = {}]
        <4>1. Decide(w) = v
          BY <3>1, <3>3 DEF Decide
        <4>2. /\ v.pc = "code" /\ v.call = w.call /\ v.left = w.left
              /\ v # Idle
          BY <1>1 DEF Busy, Idle
        <4>3. w.side = "user"
          BY <1>1, <3>3 DEF Busy
        <4>4. Needs[Head(w.left)] \subseteq Held(w.call.user)
          BY <3>1, <3>3, <4>3 DEF Subject, MayGrant
        <4> HIDE DEF v
        <4> QED
          BY <3>1, <4>1, <4>2, <4>3, <4>4 DEF Backing
      <3>4. CASE Decide(w) = NextCode(w)
        BY <1>2, <2>2, <3>4
      <3> QED
        BY <3>1, <3>2, <3>3, <3>4 DEF Decide
    <2> QED
      BY <2>1, <2>2, GoesQuiet
  <1>10. CASE Refill(q) \/ Drop(q)
    BY <1>4, <1>10 DEF Refill, Drop
  <1>11. CASE AskCode(q)
    BY <1>4, <1>5, <1>11 DEF AskCode
  <1>12. CASE ReadCode(q)
    <2>1. PICK pc \in {"exists", "write"} : Goes(q, [w EXCEPT !.pc = pc])
      BY <1>12 DEF ReadCode
    <2> QED
      BY <1>5, <1>12, <2>1 DEF ReadCode
  <1>13. CASE FindRow(q)
    BY <1>4, <1>5, <1>13 DEF FindRow
  <1>14. CASE Insert(q) \/ Delete(q) \/ Extend(q) \/ GiveRole(q) \/ AddRole(q) \/ DropRole(q)
    BY <1>3, <1>4, <1>14 DEF Insert, Delete, Extend, GiveRole, AddRole, DropRole
  <1> QED
    BY <1>6, <1>7, <1>8, <1>9, <1>10, <1>11, <1>12, <1>13, <1>14 DEF Step

LEMMA NextQuiet == Inv /\ Quiet /\ [Next]_vars => Quiet'
  <1> SUFFICES ASSUME Inv, Quiet, [Next]_vars PROVE Quiet'
    OBVIOUS
  <1>1. CASE \E q \in Requests : Step(q)
    BY <1>1, StepQuiet
  <1>2. CASE \E q \in Requests : \E c \in Calls : Start(q, c)
    <2>1. PICK q \in Requests, c \in Calls : Start(q, c)
      BY <1>2
    <2> DEFINE v == Begin(c, c.codes)
    <2>2. /\ work[q] = Idle /\ Moves(q, v) /\ UNCHANGED tables
          /\ quiet' = IF c.op = "grant" THEN quiet \cup {q} ELSE quiet
      BY <2>1 DEF Start
    <2>3. q \notin quiet
      BY <2>2 DEF Quiet, Backing
    <2>4. c.op = "grant" => Backing(v)
      <3> SUFFICES ASSUME c.op = "grant" PROVE Backing(v)
        OBVIOUS
      <3>1. v.pc = "ask" /\ v.call = c /\ v.side = "by"
        BY DEF Begin
      <3> HIDE DEF v
      <3> QED
        BY <3>1 DEF Backing, Idle
    <2> HIDE DEF v
    <2> QED
      BY <2>2, <2>3, <2>4, MovesQuiet
  <1>3. CASE EditMember \/ EditHas \/ Cleanup \/ Expire
    BY <1>3 DEF EditMember, EditHas, Cleanup, Expire, Changed, Quiet
  <1>4. CASE UNCHANGED <<tables, work, quiet>>
    <2>1. \A q \in quiet : Backing(work[q])'
      BY <1>4, TablesStay DEF Quiet, Backing, Subject
    <2> QED
      BY <1>4, <2>1 DEF Quiet
  <1>5. CASE Clear \/ (\E u \in Users : ForgetUser(u)) \/ (\E p \in Perms : ForgetCode(p))
    BY <1>4, <1>5 DEF Clear, ForgetUser, ForgetCode
  <1>6. CASE UNCHANGED vars
    BY <1>4, <1>6 DEF vars
  <1> QED
    BY <1>1, <1>2, <1>3, <1>5, <1>6 DEF Next

LEMMA QuietInvariant == Spec => []Quiet
  <1>1. Init => Quiet
    BY DEF Init, Quiet
  <1> QED
    BY <1>1, NextQuiet, RbacInvariant, PTL DEF Spec

\* A row of user_permissions comes to be by the INSERT of a grant of it only.
LEMMA RowsAreGranted ==
    ASSUME Inv, [Next]_vars, NEW u \in Users, NEW p \in Perms,
           direct[<<u, p>>] = "none", direct'[<<u, p>>] # "none"
    PROVE  \E q \in Requests :
              Writes(q, "grant") /\ work[q].call.user = u /\ Head(work[q].left) = p
  <1>0. direct \in [Users \X Perms -> Row] /\ <<u, p>> \in Users \X Perms
    BY DEF Inv, TypeOK
  <1>1. ASSUME NEW q \in Requests, NEW row, Sets(q, row),
               row = "none" \/ direct[<<work[q].call.user, Head(work[q].left)>>] # "none"
        PROVE  FALSE
    <2> DEFINE k == <<work[q].call.user, Head(work[q].left)>>
    <2>1. direct'[<<u, p>>] = IF k = <<u, p>> THEN row ELSE direct[<<u, p>>]
      BY <1>0, <1>1 DEF Sets
    <2> HIDE DEF k
    <2> QED
      BY <1>1, <2>1 DEF k
  <1>2. ASSUME NEW q \in Requests, Step(q)
        PROVE  Writes(q, "grant") /\ work[q].call.user = u /\ Head(work[q].left) = p
    <2>1. CASE Insert(q)
      <3> DEFINE k == <<work[q].call.user, Head(work[q].left)>>
      <3>1. Writes(q, "grant") /\ Sets(q, work[q].call.until)
        BY <2>1 DEF Insert, tables
      <3>2. k = <<u, p>>
        BY <1>0, <3>1 DEF Sets
      <3> QED
        BY <3>1, <3>2
    <2>2. CASE Delete(q)
      BY <1>1, <2>2 DEF Delete
    <2>3. CASE Extend(q)
      BY <1>1, <2>3 DEF Extend
    <2>4. CASE UNCHANGED direct
      BY <2>4
    <2> QED
      BY <1>2, <2>1, <2>2, <2>3, <2>4
      DEF Step, AskCache, ReadRoles, ReadDirect, Fill, Refill, AskCode, ReadCode, FindRow,
          GiveRole, AddRole, DropRole, Drop, tables
  <1>3. CASE Cleanup
    BY <1>0, <1>3 DEF Cleanup
  <1>4. CASE Expire
    BY <1>0, <1>4 DEF Expire
  <1>5. CASE UNCHANGED direct
    BY <1>5
  <1> QED
    BY <1>2, <1>3, <1>4, <1>5
    DEF Next, Start, EditMember, EditHas, ForgetUser, ForgetCode, Clear, vars, tables

\* What is granted while nothing else changes is backed by the tables, however
\* many requests there are, whatever is cached and whichever commands fail.
THEOREM QuietGrantsHold == Spec => QuietGrantsAreBacked
  <1>1. ASSUME Inv, Quiet, [Next]_vars, NEW u \in Users, NEW p \in Perms,
               direct[<<u, p>>] = "none", direct'[<<u, p>>] # "none"
        PROVE  \E q \in Requests :
                  /\ Writes(q, "grant") /\ work[q].call.user = u /\ Head(work[q].left) = p
                  /\ q \in quiet => p \in Held(work[q].call.by) /\ Needs[p] \subseteq Held(u)
    <2>1. PICK q \in Requests :
            Writes(q, "grant") /\ work[q].call.user = u /\ Head(work[q].left) = p
      BY <1>1, RowsAreGranted
    <2>2. q \in quiet => p \in Held(work[q].call.by) /\ Needs[p] \subseteq Held(u)
      BY <1>1, <2>1 DEF Quiet, Backing, Writes
    <2> QED
      BY <2>1, <2>2
  <1>2. Inv /\ Quiet /\ [Next]_vars =>
        [\A u \in Users, p \in Perms :
            direct[<<u, p>>] = "none" /\ direct'[<<u, p>>] # "none" =>
                \E q \in Requests :
                    /\ Writes(q, "grant") /\ work[q].call.user = u /\ Head(work[q].left) = p
                    /\ q \in quiet => p \in Held(work[q].call.by) /\ Needs[p] \subseteq Held(u)]_vars
    BY <1>1
  <1> QED
    BY <1>2, RbacInvariant, QuietInvariant, PTL DEF Spec, QuietGrantsAreBacked

----------------------------------------------------------------------------
(* The refinement.                                                         *)

\* What a request works with, by request.
LEMMA ToldAt ==
    ASSUME NEW q \in Requests
    PROVE  Told[q] = IF work[q].pc = "fill" THEN {work[q].got} ELSE {}
  BY DEF Told

\* While the tables stay, the abstract tables do.
LEMMA AbstractTablesStay ==
    ASSUME UNCHANGED tables
    PROVE  [u \in Users |-> HeldBy(u)]' = [u \in Users |-> HeldBy(u)]
  BY TablesStay

\* A move that reads nothing asks a question or ends one.
LEMMA MovesMaps ==
    ASSUME Inv, NEW q \in Requests, NEW w, Sound(w), Moves(q, w), UNCHANGED tables,
           w.pc \notin {"roles", "direct", "fill"}
    PROVE  Lookup!Ask(q) \/ Lookup!Finish(q)
  <1>1. /\ work \in [Requests -> {Idle} \cup Busy]
        /\ asked \in [Requests -> SUBSET Lookup!Question]
    BY DEF Inv, TypeOK
  <1>2. Told' = [Told EXCEPT ![q] = {}]
    <2>1. Told' = [r \in Requests |-> IF work'[r].pc = "fill" THEN {work'[r].got} ELSE {}]
      BY DEF Told
    <2>2. \A r \in Requests : work'[r] = IF r = q THEN w ELSE work[r]
      BY <1>1 DEF Moves
    <2>3. [Told EXCEPT ![q] = {}]
            = [r \in Requests |-> IF r = q THEN {}
                                  ELSE IF work[r].pc = "fill" THEN {work[r].got} ELSE {}]
      BY DEF Told
    <2> QED
      BY <2>1, <2>2, <2>3
  <1>3. [u \in Users |-> HeldBy(u)]' = [u \in Users |-> HeldBy(u)]
    BY AbstractTablesStay
  <1>4. CASE w.pc = "ask"
    <2>1. Subject(w) \in Users
      BY <1>4, SubjectUser DEF Sound, Idle
    <2>2. asked' = [asked EXCEPT ![q] = {Question(w)}]
      BY <1>4 DEF Moves
    <2>3. Question(w) = Lookup!Asked(Subject(w), [u \in Users |-> HeldBy(u)][Subject(w)])
      BY <2>1 DEF Question
    <2> QED
      BY <1>2, <1>3, <2>1, <2>2, <2>3 DEF Lookup!Ask
  <1>5. CASE w.pc # "ask"
    <2>1. asked' = [asked EXCEPT ![q] = {}]
      BY <1>5 DEF Moves
    <2> QED
      BY <1>2, <1>3, <2>1 DEF Lookup!Finish
  <1> QED
    BY <1>4, <1>5

\* A change of the tables is one of what is held.
LEMMA ChangedMaps ==
    ASSUME Inv, Changed, Told' = Told
    PROVE  Lookup!Change
  <1>1. [u \in Users |-> HeldBy(u)]' = [u \in Users |-> HeldBy(u)']
    OBVIOUS
  <1>2. [u \in Users |-> HeldBy(u)]' \in [Users -> Lookup!Sources]
    BY <1>1, HeldTypesNext
  <1>3. \A q \in Requests : \A a \in asked[q] : a.who \in Users
    BY DEF Inv, TypeOK, Lookup!Question
  <1>4. \A q \in Requests : \A a \in asked[q] :
            [u \in Users |-> HeldBy(u)]'[a.who] = HeldBy(a.who)'
    BY <1>1, <1>3
  <1>5. asked' = [q \in Requests |->
            {Lookup!Widened(a, [u \in Users |-> HeldBy(u)]'[a.who]) : a \in asked[q]}]
    BY <1>4 DEF Changed
  <1> QED
    BY <1>2, <1>5 DEF Lookup!Change

\* Whoever writes is not told anything then.
LEMMA WriterTold ==
    ASSUME Inv, NEW q \in Requests, NEW v, work' = [work EXCEPT ![q] = v],
           work[q].pc # "fill", v.pc # "fill"
    PROVE  Told' = Told
  <1>1. Told' = [r \in Requests |-> IF work'[r].pc = "fill" THEN {work'[r].got} ELSE {}]
    BY DEF Told
  <1>2. \A r \in Requests : work'[r] = IF r = q THEN v ELSE work[r]
    BY DEF Inv, TypeOK
  <1> QED
    BY <1>1, <1>2 DEF Told

LEMMA WritesMap ==
    ASSUME Inv, NEW q \in Requests,
           Insert(q) \/ Delete(q) \/ Extend(q) \/ GiveRole(q) \/ AddRole(q) \/ DropRole(q)
    PROVE  Lookup!Next
  <1> DEFINE w == work[q]
  <1>1. w.pc = "write" /\ w # Idle
    BY DEF Insert, Delete, Extend, GiveRole, AddRole, DropRole, Writes, Idle
  <1>2. w \in Busy /\ Fits(w)
    BY <1>1, AtWork
  <1>3. [w EXCEPT !.pc = "drop"].pc # "fill" /\ NextCode(w).pc # "fill"
    BY <1>2, NextSound DEF Busy
  <1>4. CASE Goes(q, Idle) /\ UNCHANGED tables
    <2>1. Moves(q, Idle)
      BY <1>4 DEF Goes
    <2>2. Sound(Idle) /\ Idle.pc = "idle"
      BY DEF Sound, Idle
    <2> QED
      BY <1>4, <2>1, <2>2, MovesMaps DEF Lookup!Next
  <1>5. CASE Changed /\ work' = [work EXCEPT ![q] = [w EXCEPT !.pc = "drop"]]
    BY <1>1, <1>3, <1>5, WriterTold, ChangedMaps DEF Lookup!Next
  <1>6. CASE Changed /\ work' = [work EXCEPT ![q] = NextCode(w)]
    BY <1>1, <1>3, <1>6, WriterTold, ChangedMaps DEF Lookup!Next
  <1> QED
    BY <1>4, <1>5, <1>6 DEF Insert, Delete, Extend, GiveRole, AddRole, DropRole

\* The second statement answers the question: the first read what was held
\* through roles all along, and what it read has been held at some moment.
LEMMA ReadDirectMaps ==
    ASSUME Inv, NEW q \in Requests, ReadDirect(q)
    PROVE  Lookup!Answer(q)
  <1> DEFINE w == work[q]
             a == w.got \cup Direct(Subject(w))
             v == [w EXCEPT !.pc = "fill", !.got = a]
  <1>1. /\ work \in [Requests -> {Idle} \cup Busy]
        /\ asked \in [Requests -> SUBSET Lookup!Question]
    BY DEF Inv, TypeOK
  <1>2. w.pc = "direct" /\ Moves(q, v) /\ UNCHANGED tables
    BY DEF ReadDirect, Goes
  <1>3. w \in Busy
    BY <1>2, AtWork DEF Idle
  <1>4. v.pc = "fill" /\ v.got = a
    BY <1>3 DEF Busy
  <1>5. a \in SUBSET Perms
    BY <1>3 DEF Busy, Direct
  <1>6. Follows(q)
    BY DEF Inv
  <1>7. PICK b \in asked[q] : Tracks(b, w)
    BY <1>2, <1>6 DEF Follows, Open
  <1>8. Lookup!Answers(b, a)
    BY <1>2, <1>7 DEF Lookup!Answers, Tracks, Held
  <1>9. asked' = [asked EXCEPT ![q] = {}]
    BY <1>2, <1>4 DEF Moves
  <1>10. Told' = [Told EXCEPT ![q] = {a}]
    <2>1. Told' = [r \in Requests |-> IF work'[r].pc = "fill" THEN {work'[r].got} ELSE {}]
      BY DEF Told
    <2>2. \A r \in Requests : work'[r] = IF r = q THEN v ELSE work[r]
      BY <1>1, <1>2 DEF Moves
    <2>3. [Told EXCEPT ![q] = {a}]
            = [r \in Requests |-> IF r = q THEN {a}
                                  ELSE IF work[r].pc = "fill" THEN {work[r].got} ELSE {}]
      BY DEF Told
    <2> HIDE DEF v
    <2> QED
      BY <1>4, <2>1, <2>2, <2>3
  <1>11. [u \in Users |-> HeldBy(u)]' = [u \in Users |-> HeldBy(u)]
    BY <1>2, AbstractTablesStay
  <1> HIDE DEF a, v, w
  <1> QED
    BY <1>5, <1>7, <1>8, <1>9, <1>10, <1>11 DEF Lookup!Answer

\* A step of a request that neither reads nor writes the tables.
LEMMA GoesMaps ==
    ASSUME Inv, NEW q \in Requests, NEW w, Sound(w), Goes(q, w), UNCHANGED tables,
           w.pc \notin {"roles", "direct", "fill"}
    PROVE  Lookup!Next
  <1>1. Moves(q, w)
    BY DEF Goes
  <1> QED
    BY <1>1, MovesMaps DEF Lookup!Next

\* Going on with a lookup changes nothing that the abstract specification sees.
LEMMA ReadsStutter ==
    ASSUME Inv, NEW q \in Requests, NEW v, Goes(q, v), UNCHANGED tables,
           v.pc \in {"roles", "direct"}, work[q].pc # "fill"
    PROVE  UNCHANGED Lookup!vars
  <1>1. work' = [work EXCEPT ![q] = v] /\ asked' = [asked EXCEPT ![q] = asked[q]]
    BY DEF Goes, Moves
  <1>2. asked' = asked
    BY <1>1 DEF Inv, TypeOK
  <1>3. Told' = Told
    BY <1>1, WriterTold
  <1>4. [u \in Users |-> HeldBy(u)]' = [u \in Users |-> HeldBy(u)]
    BY AbstractTablesStay
  <1> QED
    BY <1>2, <1>3, <1>4 DEF Lookup!vars

LEMMA StepMaps ==
    ASSUME Inv, NEW q \in Requests, Step(q)
    PROVE  [Lookup!Next]_(Lookup!vars)
  <1> DEFINE w == work[q]
  <1>1. w \in Busy /\ Fits(w)
    <2>1. w # Idle
      BY DEF Step, AskCache, ReadRoles, ReadDirect, Fill, Refill, AskCode, ReadCode, FindRow,
             Writes, Insert, Delete, Extend, GiveRole, AddRole, DropRole, Drop, Idle
    <2> QED
      BY <2>1, AtWork
  <1>2. Sound(NextCode(w)) /\ NextCode(w).pc \in {"idle", "ask", "code", "write"}
    BY <1>1, NextSound
  <1>3. CASE AskCache(q)
    <2>1. UNCHANGED tables /\ w.pc = "ask"
      BY <1>3 DEF AskCache
    <2>2. CASE Goes(q, NextCode(w))
      BY <1>2, <2>1, <2>2, GoesMaps
    <2>3. CASE Goes(q, [w EXCEPT !.pc = "roles"])
      <3>1. [w EXCEPT !.pc = "roles"].pc = "roles"
        BY <1>1 DEF Busy
      <3> QED
        BY <2>1, <2>3, <3>1, ReadsStutter
    <2> QED
      BY <1>3, <2>2, <2>3 DEF AskCache, CacheHit
  <1>4. CASE ReadRoles(q)
    <2> DEFINE v == [w EXCEPT !.pc = "direct", !.got = ByRole(Subject(w))]
    <2>1. UNCHANGED tables /\ w.pc = "roles" /\ Goes(q, v)
      BY <1>4 DEF ReadRoles
    <2>2. v.pc = "direct"
      BY <1>1 DEF Busy
    <2> HIDE DEF v
    <2> QED
      BY <2>1, <2>2, ReadsStutter
  <1>5. CASE ReadDirect(q)
    BY <1>5, ReadDirectMaps DEF Lookup!Next
  <1>6. CASE Fill(q)
    <2>1. UNCHANGED tables /\ w.pc = "fill" /\ Goes(q, Decide(w))
      BY <1>6 DEF Fill
    <2>2. Sound(Decide(w)) /\ Decide(w).pc \in {"idle", "ask", "code", "write", "refill"}
      BY <1>1, <2>1, DecideSound
    <2> QED
      BY <2>1, <2>2, GoesMaps
  <1>7. CASE Refill(q)
    <2>1. UNCHANGED tables /\ Goes(q, Idle)
      BY <1>7 DEF Refill
    <2>2. Sound(Idle) /\ Idle.pc = "idle"
      BY DEF Sound, Idle
    <2> QED
      BY <2>1, <2>2, GoesMaps
  <1>8. CASE AskCode(q)
    <2>1. UNCHANGED tables /\ w.pc = "code"
      BY <1>8 DEF AskCode
    <2>2. CASE Goes(q, NextCode(w))
      BY <1>2, <2>1, <2>2, GoesMaps
    <2>3. CASE Goes(q, [w EXCEPT !.pc = "name"])
      <3>1. Sound([w EXCEPT !.pc = "name"]) /\ [w EXCEPT !.pc = "name"].pc = "name"
        BY <1>1, <2>1 DEF Sound, Busy, Fits
      <3> QED
        BY <2>1, <2>3, <3>1, GoesMaps
    <2> QED
      BY <1>8, <2>2, <2>3 DEF AskCode
  <1>9. CASE ReadCode(q)
    <2> DEFINE v == [w EXCEPT !.pc = IF w.call.op = "give_role" THEN "write" ELSE "exists"]
    <2>1. UNCHANGED tables /\ w.pc = "name" /\ Goes(q, v)
      BY <1>9 DEF ReadCode
    <2>2. Sound(v) /\ v.pc \in {"write", "exists"}
      BY <1>1, <2>1 DEF Sound, Busy, Fits, Coded
    <2> HIDE DEF v
    <2> QED
      BY <2>1, <2>2, GoesMaps
  <1>10. CASE FindRow(q)
    <2>1. UNCHANGED tables /\ w.pc = "exists"
      BY <1>10 DEF FindRow
    <2>2. CASE Goes(q, NextCode(w))
      BY <1>2, <2>1, <2>2, GoesMaps
    <2>3. CASE Goes(q, [w EXCEPT !.pc = "write"])
      <3>1. Sound([w EXCEPT !.pc = "write"]) /\ [w EXCEPT !.pc = "write"].pc = "write"
        BY <1>1, <2>1 DEF Sound, Busy, Fits
      <3> QED
        BY <2>1, <2>3, <3>1, GoesMaps
    <2> QED
      BY <1>10, <2>2, <2>3 DEF FindRow
  <1>11. CASE Insert(q) \/ Delete(q) \/ Extend(q) \/ GiveRole(q) \/ AddRole(q) \/ DropRole(q)
    BY <1>11, WritesMap
  <1>12. CASE Drop(q)
    <2>1. UNCHANGED tables /\ Goes(q, NextCode(w))
      BY <1>12 DEF Drop
    <2> QED
      BY <1>2, <2>1, GoesMaps
  <1> QED
    BY <1>3, <1>4, <1>5, <1>6, <1>7, <1>8, <1>9, <1>10, <1>11, <1>12 DEF Step

LEMMA NextMaps == Inv /\ [Next]_vars => [Lookup!Next]_(Lookup!vars)
  <1> SUFFICES ASSUME Inv, [Next]_vars PROVE [Lookup!Next]_(Lookup!vars)
    OBVIOUS
  <1>1. CASE \E q \in Requests : Step(q)
    BY <1>1, StepMaps
  <1>2. CASE \E q \in Requests : \E c \in Calls : Start(q, c)
    <2>1. PICK q \in Requests, c \in Calls : Start(q, c)
      BY <1>2
    <2>2. /\ Moves(q, Begin(c, c.codes)) /\ UNCHANGED tables
          /\ c.codes \in Seq(Perms) /\ (c.op \in Coded => c.codes # <<>>)
      BY <2>1, CallFields DEF Start
    <2>3. /\ Sound(Begin(c, c.codes))
          /\ Begin(c, c.codes).pc \notin {"roles", "direct", "fill"}
      BY <2>2, BeginSound DEF Sound
    <2> QED
      BY <2>2, <2>3, MovesMaps DEF Lookup!Next
  <1>3. CASE EditMember \/ EditHas \/ Cleanup \/ Expire
    <2>1. UNCHANGED work /\ Changed
      BY <1>3 DEF EditMember, EditHas, Cleanup, Expire
    <2>2. Told' = Told
      BY <2>1 DEF Told
    <2> QED
      BY <2>1, <2>2, ChangedMaps DEF Lookup!Next
  <1>4. CASE UNCHANGED <<tables, work, asked>>
    <2>1. Told' = Told
      BY <1>4 DEF Told
    <2>2. [u \in Users |-> HeldBy(u)]' = [u \in Users |-> HeldBy(u)]
      BY <1>4, AbstractTablesStay
    <2> QED
      BY <1>4, <2>1, <2>2 DEF Lookup!vars
  <1>5. CASE Clear \/ (\E u \in Users : ForgetUser(u)) \/ (\E p \in Perms : ForgetCode(p))
    BY <1>4, <1>5 DEF Clear, ForgetUser, ForgetCode
  <1>6. CASE UNCHANGED vars
    BY <1>4, <1>6 DEF vars
  <1> QED
    BY <1>1, <1>2, <1>3, <1>5, <1>6 DEF Next

LEMMA InitMaps == Init => Lookup!Init
  <1> SUFFICES ASSUME Init PROVE Lookup!Init
    OBVIOUS
  <1>1. [u \in Users |-> HeldBy(u)] \in [Users -> Lookup!Sources]
    BY HeldTypes
  <1>2. Told = [q \in Requests |-> {}]
    BY DEF Init, Told, Idle
  <1> QED
    BY <1>1, <1>2 DEF Init, Lookup!Init

\* What a request is told of a user's permissions is current: the statements of
\* get_user_all_permissions, with a cache that lags behind the tables, implement
\* PermissionAnswers.
THEOREM LookupsImplementAnswers == Spec => AnswersAreCurrent
  BY InitMaps, NextMaps, RbacInvariant, PTL DEF Spec, AnswersAreCurrent, Lookup!Spec

=============================================================================
