------------------------- MODULE CategoryTreeProofs -------------------------
(***************************************************************************)
(* What the tree of categories keeps, for any number of categories and     *)
(* names: the shape of its rows, the names of siblings, leaf flags that are *)
(* right, no cycle as long as the paths are up to date, and paths that stay *)
(* so unless something with children is renamed or moved, or a new path is *)
(* a pattern for one that is not below it.                                 *)
(*                                                                         *)
(* What is still to be done is what was checked when the request began     *)
(* (JobOK): the commits in between touch nothing that it is about.  A path *)
(* that is rewritten keeps its length (RebasedPath).  A parent's path      *)
(* is shorter than its children's, so current paths leave no cycle.        *)
(***************************************************************************)
EXTENDS CategoryTree, WellFoundedInduction, TLAPS

RowOK(row) ==
    /\ row \in Category
    /\ row.level = Len(row.path) /\ row.level \in 1 .. MaxPath
    /\ row.level = 1 <=> row.parent = None

JobOK ==
    /\ job \in Job
    /\ job.at = "insert" =>
        /\ Exists(job.parent) /\ ~ Taken(job.name, job.parent, None)
        /\ job.parent # None => ~ cats[job.parent].leaf
    /\ job.at = "repath" =>
        /\ job.id \in DOMAIN cats /\ job.left \subseteq DOMAIN cats
        /\ \A d \in job.left : Matches(cats[job.id].path, cats[d].path)
    /\ job.at = "move" =>
        job.id \in DOMAIN cats /\ Exists(job.to) /\ MayMove(job.id, job.to)
    /\ job.at = "mark" => job.parent \in DOMAIN cats

RowsOK ==
    /\ DOMAIN cats \subseteq Ids
    /\ cats = [id \in DOMAIN cats |-> cats[id]]
    /\ \A id \in DOMAIN cats : RowOK(cats[id]) /\ Exists(cats[id].parent)

Inv == RowsOK /\ JobOK /\ SiblingsDiffer

LEMMA InitInv == Init => Inv
  BY DEF Init, Inv, RowsOK, JobOK, Job, Idle, SiblingsDiffer

LEMMA InvTypeOK == Inv => TypeOK
  BY DEF Inv, RowsOK, RowOK, JobOK, TypeOK

\* Leaf and active flags may change without disturbing anything else.
LEMMA FlagsKeep ==
    ASSUME RowsOK, SiblingsDiffer, NEW p \in DOMAIN cats, NEW b \in BOOLEAN,
           cats' = [cats EXCEPT ![p].leaf = b] \/ cats' = [cats EXCEPT ![p].active = b]
    PROVE  /\ RowsOK' /\ SiblingsDiffer' /\ DOMAIN cats' = DOMAIN cats
           /\ \A id \in DOMAIN cats :
                /\ cats'[id].name = cats[id].name /\ cats'[id].parent = cats[id].parent
                /\ cats'[id].path = cats[id].path /\ cats'[id].level = cats[id].level
  <1>1. /\ DOMAIN cats' = DOMAIN cats
        /\ cats' = [id \in DOMAIN cats' |-> cats'[id]]
        /\ \A id \in DOMAIN cats : id # p => cats'[id] = cats[id]
        /\ \/ cats'[p] = [cats[p] EXCEPT !.leaf = b]
           \/ cats'[p] = [cats[p] EXCEPT !.active = b]
    BY DEF RowsOK
  <1>2. cats[p] \in Category
    BY DEF RowsOK, RowOK
  <1>3. \A id \in DOMAIN cats :
            /\ cats'[id].name = cats[id].name /\ cats'[id].parent = cats[id].parent
            /\ cats'[id].path = cats[id].path /\ cats'[id].level = cats[id].level
    BY <1>1, <1>2 DEF Category
  <1>4. \A id \in DOMAIN cats : cats'[id] \in Category
    <2>1. cats'[p] \in Category
      BY <1>1, <1>2 DEF Category
    <2> QED
      BY <1>1, <2>1 DEF RowsOK, RowOK
  <1>5. RowsOK'
    BY <1>1, <1>3, <1>4 DEF RowsOK, RowOK, Exists
  <1>6. SiblingsDiffer'
    BY <1>1, <1>3 DEF SiblingsDiffer
  <1> QED
    BY <1>1, <1>3, <1>5, <1>6

LEMMA SameSequence ==
    ASSUME NEW s \in Seq(Names), NEW t \in Seq(Names), Len(s) = Len(t),
           \A i \in 1 .. Len(s) : s[i] = t[i]
    PROVE  s = t
  <1>1. s = [i \in 1 .. Len(s) |-> s[i]] /\ t = [i \in 1 .. Len(t) |-> t[i]]
    OBVIOUS
  <1> QED
    BY <1>1

\* What a row that matches is given: a path as long as it had, and the same one if
\* it is below.
LEMMA RebasedPath ==
    ASSUME NEW top \in Seq(Names), NEW path \in Seq(Names), Matches(top, path)
    PROVE  /\ Rebased(path, top) \in Seq(Names)
           /\ Len(Rebased(path, top)) = Len(path) /\ Len(top) < Len(path)
           /\ IsStrictPrefix(top, path) => Rebased(path, top) = path
  <1> DEFINE rest == SubSeq(path, Len(top) + 1, Len(path))
  <1>1. Len(top) \in Nat /\ Len(path) \in Nat /\ Len(top) < Len(path)
    BY DEF Matches
  <1>2. /\ rest \in Seq(Names) /\ Len(rest) = Len(path) - Len(top)
        /\ \A i \in 1 .. Len(rest) : rest[i] = path[Len(top) + i]
    BY <1>1
  <1> HIDE DEF rest
  <1>3. /\ top \o rest \in Seq(Names) /\ Len(top \o rest) = Len(path)
        /\ \A i \in 1 .. Len(path) :
              (top \o rest)[i] = IF i <= Len(top) THEN top[i] ELSE rest[i - Len(top)]
    BY <1>1, <1>2
  <1>4. ASSUME IsStrictPrefix(top, path) PROVE top \o rest = path
    <2>1. \A i \in 1 .. Len(top) : path[i] = top[i]
      BY <1>1, <1>4 DEF IsStrictPrefix, IsPrefix
    <2>2. \A i \in 1 .. Len(path) : (top \o rest)[i] = path[i]
      BY <1>1, <1>2, <1>3, <2>1
    <2> QED
      BY <1>3, <2>2, SameSequence
  <1> QED
    BY <1>1, <1>3, <1>4 DEF Rebased, rest

LEMMA CreateKeeps ==
    ASSUME Inv, NEW name \in Names, NEW p \in Parents, Create(name, p)
    PROVE  Inv'
  <1>1. /\ job' = [at |-> "insert", name |-> name, parent |-> p]
        /\ Exists(p) /\ ~ Taken(name, p, None)
        /\ cats' = IF p = None THEN cats ELSE [cats EXCEPT ![p].leaf = FALSE]
    BY DEF Create
  <1>2. job' \in Job
    BY <1>1 DEF Job
  <1>3. CASE p = None
    BY <1>1, <1>2, <1>3
       DEF Inv, RowsOK, RowOK, JobOK, SiblingsDiffer, Exists, Taken
  <1>4. CASE p # None
    <2>1. p \in DOMAIN cats /\ cats' = [cats EXCEPT ![p].leaf = FALSE]
      BY <1>1, <1>4 DEF Exists
    <2>2. /\ RowsOK' /\ SiblingsDiffer' /\ DOMAIN cats' = DOMAIN cats
          /\ \A id \in DOMAIN cats :
               cats'[id].name = cats[id].name /\ cats'[id].parent = cats[id].parent
      BY <2>1, FlagsKeep DEF Inv
    <2>3. ~ cats'[p].leaf
      BY <2>1 DEF Inv, RowsOK, RowOK, Category
    <2>4. JobOK'
      BY <1>1, <1>2, <2>1, <2>2, <2>3 DEF JobOK, Exists, Taken
    <2> QED
      BY <2>2, <2>4 DEF Inv
  <1> QED
    BY <1>3, <1>4

LEMMA NewRow ==
    ASSUME RowsOK, NEW name \in Names, NEW p \in Parents, Exists(p)
    PROVE  /\ PathBelow(p, name) \in Seq(Names) /\ LevelBelow(p) \in Nat
           /\ LevelBelow(p) = Len(PathBelow(p, name)) /\ LevelBelow(p) >= 1
           /\ LevelBelow(p) = 1 <=> p = None
  <1>1. CASE p = None
    BY <1>1 DEF PathBelow, LevelBelow
  <1>2. CASE p # None
    <2>1. /\ cats[p].path \in Seq(Names) /\ cats[p].level = Len(cats[p].path)
          /\ cats[p].level \in 1 .. MaxPath
      BY <1>2 DEF Exists, RowsOK, RowOK, Category
    <2> QED
      BY <1>2, <2>1, CategoryAssumption DEF PathBelow, LevelBelow
  <1> QED
    BY <1>1, <1>2

LEMMA InsertKeeps ==
    ASSUME Inv, NEW id \in Ids, Insert(id)
    PROVE  Inv'
  <1> DEFINE path == PathBelow(job.parent, job.name)
             row == [name |-> job.name, parent |-> job.parent, path |-> path,
                     level |-> LevelBelow(job.parent), leaf |-> TRUE, active |-> TRUE]
  <1>1. /\ job.at = "insert" /\ id \notin DOMAIN cats /\ job' = Idle
        /\ cats' = IF Len(path) > MaxPath THEN cats
                   ELSE [i \in DOMAIN cats \cup {id} |-> IF i = id THEN row ELSE cats[i]]
    BY DEF Insert
  <1>2. /\ job.name \in Names /\ job.parent \in Parents /\ Exists(job.parent)
        /\ ~ Taken(job.name, job.parent, None)
    BY <1>1 DEF Inv, JobOK, Job
  <1>3. JobOK'
    BY <1>1 DEF JobOK, Job, Idle
  <1>4. CASE Len(path) > MaxPath
    BY <1>1, <1>3, <1>4 DEF Inv, RowsOK, RowOK, SiblingsDiffer, Exists
  <1>5. CASE ~ Len(path) > MaxPath
    <2>1. /\ path \in Seq(Names) /\ LevelBelow(job.parent) \in Nat
          /\ LevelBelow(job.parent) = Len(path) /\ LevelBelow(job.parent) >= 1
          /\ LevelBelow(job.parent) = 1 <=> job.parent = None
      BY <1>2, NewRow DEF Inv
    <2> HIDE DEF path
    <2>2. RowOK(row)
      BY <1>2, <1>5, <2>1, CategoryAssumption DEF RowOK, Category
    <2>3. row.name = job.name /\ row.parent = job.parent
      OBVIOUS
    <2> HIDE DEF row
    <2>4. /\ DOMAIN cats' = DOMAIN cats \cup {id} /\ cats'[id] = row
          /\ cats' = [i \in DOMAIN cats' |-> cats'[i]]
          /\ \A i \in DOMAIN cats : cats'[i] = cats[i]
      BY <1>1, <1>5
    <2>5. RowsOK'
      <3>1. \A i \in DOMAIN cats' : RowOK(cats'[i])
        BY <2>2, <2>4 DEF Inv, RowsOK
      <3>2. \A i \in DOMAIN cats' : Exists(cats[i].parent)'
        BY <1>2, <2>3, <2>4 DEF Inv, RowsOK, Exists
      <3>3. DOMAIN cats' \subseteq Ids
        BY <2>4 DEF Inv, RowsOK
      <3> QED
        BY <2>4, <3>1, <3>2, <3>3 DEF RowsOK, RowOK
    <2>6. SiblingsDiffer'
      BY <1>1, <1>2, <2>3, <2>4, CategoryAssumption DEF Inv, RowsOK, SiblingsDiffer, Taken
    <2> QED
      BY <1>3, <2>5, <2>6 DEF Inv
  <1> QED
    BY <1>4, <1>5

LEMMA RenameKeeps ==
    ASSUME Inv, NEW id \in DOMAIN cats, NEW name \in Names, Rename(id, name)
    PROVE  Inv'
  <1> DEFINE row == [cats[id] EXCEPT !.name = name, !.path = Append(Front(@), name)]
  <1>1. /\ ~ Taken(name, cats[id].parent, id)
        /\ cats' = [cats EXCEPT ![id] = row]
        /\ \/ job' = Idle
           \/ \E left \in SUBSET Descendants(row.path) :
                 job' = [at |-> "repath", id |-> id, left |-> left]
    BY DEF Rename, Renamed
  <1>2. RowOK(cats[id])
    BY DEF Inv, RowsOK
  <1>3. /\ Append(Front(cats[id].path), name) \in Seq(Names)
        /\ Len(Append(Front(cats[id].path), name)) = Len(cats[id].path)
    <2>1. cats[id].path \in Seq(Names) /\ Len(cats[id].path) >= 1
      BY <1>2, CategoryAssumption DEF RowOK, Category
    <2>2. /\ Front(cats[id].path) \in Seq(Names)
          /\ Len(Front(cats[id].path)) = Len(cats[id].path) - 1
      BY <2>1 DEF Front
    <2> QED
      BY <2>1, <2>2
  <1>4. /\ RowOK(row) /\ row.name = name /\ row.parent = cats[id].parent
        /\ row.path \in Seq(Names) /\ Len(row.path) = Len(cats[id].path)
    BY <1>2, <1>3 DEF RowOK, Category
  <1> HIDE DEF row
  <1>5. /\ DOMAIN cats' = DOMAIN cats /\ cats'[id] = row
        /\ cats' = [i \in DOMAIN cats' |-> cats'[i]]
        /\ \A i \in DOMAIN cats : i # id => cats'[i] = cats[i]
    BY <1>1 DEF Inv, RowsOK
  <1>6. RowsOK'
    BY <1>4, <1>5 DEF Inv, RowsOK, RowOK, Exists
  <1>7. SiblingsDiffer'
    BY <1>1, <1>4, <1>5 DEF Inv, SiblingsDiffer, Taken
  <1>8. ASSUME NEW d \in Descendants(row.path)
        PROVE  d \in DOMAIN cats /\ d # id /\ Matches(row.path, cats'[d].path)
    <2>1. d \in DOMAIN cats /\ Matches(row.path, cats[d].path)
      BY DEF Descendants
    <2>2. Len(row.path) < Len(cats[d].path) /\ Len(row.path) \in Nat
      BY <1>4, <2>1 DEF Matches
    <2>3. d # id
      BY <1>4, <2>2
    <2> QED
      BY <1>5, <2>1, <2>3
  <1>9. JobOK'
    <2>1. CASE job' = Idle
      BY <2>1 DEF JobOK, Job, Idle
    <2>2. CASE job' # Idle
      <3>1. PICK left \in SUBSET Descendants(row.path) :
                job' = [at |-> "repath", id |-> id, left |-> left]
        BY <1>1, <2>2
      <3>2. left \subseteq DOMAIN cats /\ DOMAIN cats \subseteq Ids
        BY <1>8 DEF Inv, RowsOK
      <3>3. job' \in Job
        BY <3>1, <3>2 DEF Job
      <3>4. \A d \in left : Matches(cats'[id].path, cats'[d].path)
        BY <1>5, <1>8
      <3> QED
        BY <1>5, <3>1, <3>2, <3>3, <3>4 DEF JobOK
    <2> QED
      BY <2>1, <2>2
  <1> QED
    BY <1>6, <1>7, <1>9 DEF Inv

\* A path that is rewritten is another one of the same length.
LEMMA RepathEffect ==
    ASSUME Inv, NEW d \in Ids, Repath(d)
    PROVE  /\ job.at = "repath" /\ d \in job.left /\ d \in DOMAIN cats
           /\ job.id \in DOMAIN cats /\ job.id # d
           /\ cats[job.id].path \in Seq(Names) /\ cats[d].path \in Seq(Names)
           /\ Matches(cats[job.id].path, cats[d].path)
           /\ DOMAIN cats' = DOMAIN cats /\ cats' = [i \in DOMAIN cats' |-> cats'[i]]
           /\ \A i \in DOMAIN cats : i # d => cats'[i] = cats[i]
           /\ cats'[d] = [cats[d] EXCEPT !.path = Rebased(cats[d].path, cats[job.id].path)]
           /\ RowOK(cats'[d])
           /\ cats'[d].path = Rebased(cats[d].path, cats[job.id].path)
           /\ cats'[d].name = cats[d].name /\ cats'[d].parent = cats[d].parent
           /\ cats'[d].leaf = cats[d].leaf /\ cats'[d].active = cats[d].active
  <1> DEFINE new == Rebased(cats[d].path, cats[job.id].path)
  <1>1. /\ job.at = "repath" /\ d \in job.left
        /\ cats' = [cats EXCEPT ![d].path = new]
    BY DEF Repath
  <1>2. /\ job.id \in DOMAIN cats /\ d \in DOMAIN cats
        /\ Matches(cats[job.id].path, cats[d].path)
    BY <1>1 DEF Inv, JobOK
  <1>3. /\ cats[job.id].path \in Seq(Names) /\ cats[d].path \in Seq(Names)
        /\ cats[d] \in Category /\ RowOK(cats[d])
    BY <1>2 DEF Inv, RowsOK, RowOK, Category
  <1>4. /\ new \in Seq(Names) /\ Len(new) = Len(cats[d].path)
        /\ Len(cats[job.id].path) < Len(cats[d].path)
    BY <1>2, <1>3, RebasedPath
  <1>5. job.id # d
    BY <1>3, <1>4
  <1> HIDE DEF new
  <1>6. /\ DOMAIN cats' = DOMAIN cats /\ cats' = [i \in DOMAIN cats' |-> cats'[i]]
        /\ \A i \in DOMAIN cats : i # d => cats'[i] = cats[i]
        /\ cats'[d] = [cats[d] EXCEPT !.path = new]
    BY <1>1, <1>2 DEF Inv, RowsOK
  <1>7. /\ cats'[d].path = new /\ cats'[d].name = cats[d].name
        /\ cats'[d].parent = cats[d].parent /\ cats'[d].level = cats[d].level
        /\ cats'[d].leaf = cats[d].leaf /\ cats'[d].active = cats[d].active
        /\ cats'[d] \in Category
    BY <1>3, <1>4, <1>6 DEF Category
  <1>8. RowOK(cats'[d])
    BY <1>3, <1>4, <1>7 DEF RowOK
  <1> QED
    BY <1>1, <1>2, <1>3, <1>5, <1>6, <1>7, <1>8 DEF new

LEMMA RepathKeeps ==
    ASSUME Inv, NEW d \in Ids, Repath(d)
    PROVE  Inv'
  <1>1. /\ d \in job.left /\ d \in DOMAIN cats /\ job.id \in DOMAIN cats /\ job.id # d
        /\ DOMAIN cats' = DOMAIN cats /\ cats' = [i \in DOMAIN cats' |-> cats'[i]]
        /\ \A i \in DOMAIN cats : i # d => cats'[i] = cats[i]
        /\ RowOK(cats'[d]) /\ job.at = "repath"
        /\ cats'[d].name = cats[d].name /\ cats'[d].parent = cats[d].parent
    BY RepathEffect
  <1>2. RowsOK'
    <2>1. \A i \in DOMAIN cats' : RowOK(cats'[i])
      BY <1>1 DEF Inv, RowsOK
    <2>2. \A i \in DOMAIN cats' : Exists(cats[i].parent)'
      BY <1>1 DEF Inv, RowsOK, Exists
    <2> QED
      BY <1>1, <2>1, <2>2 DEF Inv, RowsOK, RowOK
  <1>3. SiblingsDiffer'
    BY <1>1 DEF Inv, SiblingsDiffer
  <1>4. JobOK'
    <2>1. CASE job' = Idle
      BY <2>1 DEF JobOK, Job, Idle
    <2>2. CASE job' # Idle
      <3>1. /\ job.id \in Ids /\ job.left \in SUBSET Ids
            /\ job = [at |-> "repath", id |-> job.id, left |-> job.left]
        BY <1>1 DEF Inv, JobOK, Job
      <3>2. job' = [at |-> "repath", id |-> job.id, left |-> job.left \ {d}]
        BY <2>2, <3>1 DEF Repath
      <3>3. job' \in Job
        BY <3>1, <3>2 DEF Job
      <3>4. \A i \in job.left \ {d} :
                i \in DOMAIN cats /\ Matches(cats'[job.id].path, cats'[i].path)
        BY <1>1 DEF Inv, JobOK
      <3> QED
        BY <1>1, <3>2, <3>3, <3>4 DEF JobOK
    <2> QED
      BY <2>1, <2>2
  <1> QED
    BY <1>2, <1>3, <1>4 DEF Inv

LEMMA SetActiveKeeps ==
    ASSUME Inv, NEW id \in DOMAIN cats, NEW b \in BOOLEAN, SetActive(id, b)
    PROVE  Inv'
  <1>1. RowsOK' /\ SiblingsDiffer'
    BY FlagsKeep DEF Inv, SetActive
  <1>2. JobOK'
    BY DEF SetActive, JobOK, Job, Idle
  <1> QED
    BY <1>1, <1>2 DEF Inv

LEMMA MoveKeeps ==
    ASSUME Inv, NEW id \in DOMAIN cats, NEW to \in Parents, Move(id, to)
    PROVE  Inv'
  <1>1. /\ job' = [at |-> "move", id |-> id, to |-> to] /\ Exists(to) /\ MayMove(id, to)
        /\ cats' = IF cats[id].parent = None THEN cats ELSE Remarked(cats[id].parent)
    BY DEF Move
  <1>2. id \in Ids /\ job' \in Job
    BY <1>1 DEF Inv, RowsOK, Job
  <1>3. CASE cats[id].parent = None
    BY <1>1, <1>2, <1>3
       DEF Inv, RowsOK, RowOK, JobOK, SiblingsDiffer, Exists, MayMove
  <1>4. CASE cats[id].parent # None
    <2>1. cats[id].parent \in DOMAIN cats
      BY <1>4 DEF Inv, RowsOK, Exists
    <2>2. /\ RowsOK' /\ SiblingsDiffer' /\ DOMAIN cats' = DOMAIN cats
          /\ \A i \in DOMAIN cats :
               cats'[i].parent = cats[i].parent /\ cats'[i].path = cats[i].path
      BY <1>1, <1>4, <2>1, FlagsKeep DEF Inv, Remarked
    <2>3. JobOK'
      BY <1>1, <1>2, <2>2 DEF JobOK, Exists, MayMove
    <2> QED
      BY <2>2, <2>3 DEF Inv
  <1> QED
    BY <1>3, <1>4

\* What happens to the others when a category is placed where its path is `top':
\* they may be given another path, if top matches theirs.
Rerouted(i, top) ==
    /\ RowOK(cats'[i])
    /\ cats'[i].name = cats[i].name /\ cats'[i].parent = cats[i].parent
    /\ cats'[i].leaf = cats[i].leaf /\ cats'[i].active = cats[i].active
    /\ cats'[i].path # cats[i].path =>
            Matches(top, cats[i].path) /\ cats'[i].path = Rebased(cats[i].path, top)

\* What a move that is not refused leaves behind.
LEMMA PlaceEffect ==
    ASSUME Inv, Place, cats' # cats
    PROVE  /\ job.id \in DOMAIN cats /\ job.to \in Parents /\ Exists(job.to)
           /\ ~ IndexForbids(cats[job.id].name, job.to, job.id)
           /\ Len(PathBelow(job.to, cats[job.id].name)) <= MaxPath
           /\ PathBelow(job.to, cats[job.id].name) \in Seq(Names)
           /\ DOMAIN cats' = DOMAIN cats /\ cats' = [i \in DOMAIN cats' |-> cats'[i]]
           /\ cats'[job.id] = Moved(cats[job.id], job.to)
           /\ \A i \in DOMAIN cats :
                  i # job.id => Rerouted(i, PathBelow(job.to, cats[job.id].name))
           /\ job' = IF job.to = None THEN Idle ELSE [at |-> "mark", parent |-> job.to]
  <1> DEFINE row == Moved(cats[job.id], job.to)
             top == PathBelow(job.to, cats[job.id].name)
  <1>1. job.at = "move" /\ job.id \in DOMAIN cats /\ job.to \in Parents /\ Exists(job.to)
    BY DEF Place, Inv, JobOK, Job
  <1>2. cats[job.id] \in Category
    BY <1>1 DEF Inv, RowsOK, RowOK
  <1>3. row.name = cats[job.id].name /\ row.path = top
    BY <1>2 DEF Moved, Category
  <1>4. top \in Seq(Names)
    BY <1>1, <1>2, NewRow DEF Inv, Category
  <1>5. /\ ~ IndexForbids(row.name, job.to, job.id) /\ ~ Len(row.path) > MaxPath
        /\ cats' = [Repathed(row.path) EXCEPT ![job.id] = row]
        /\ job' = IF job.to = None THEN Idle ELSE [at |-> "mark", parent |-> job.to]
    BY DEF Place
  <1> HIDE DEF row, top
  <1>6. /\ DOMAIN cats' = DOMAIN cats /\ cats' = [i \in DOMAIN cats' |-> cats'[i]]
        /\ cats'[job.id] = row
        /\ \A i \in DOMAIN cats : i # job.id => cats'[i] = Repathed(top)[i]
    BY <1>1, <1>3, <1>5 DEF Repathed
  <1>7. ASSUME NEW i \in DOMAIN cats, i # job.id PROVE Rerouted(i, top)
    <2> DEFINE new == Rebased(cats[i].path, top)
    <2>1. RowOK(cats[i]) /\ cats[i] \in Category /\ cats[i].path \in Seq(Names)
      BY DEF Inv, RowsOK, RowOK, Category
    <2>2. CASE i \notin Descendants(top)
      <3>1. cats'[i] = cats[i]
        BY <1>6, <1>7, <2>2 DEF Repathed
      <3> QED
        BY <2>1, <3>1 DEF Rerouted
    <2>3. CASE i \in Descendants(top)
      <3>1. Matches(top, cats[i].path)
        BY <2>3 DEF Descendants
      <3>2. new \in Seq(Names) /\ Len(new) = Len(cats[i].path)
        BY <1>4, <2>1, <3>1, RebasedPath
      <3>3. cats'[i] = [cats[i] EXCEPT !.path = new, !.level = Len(new)]
        BY <1>6, <1>7, <2>3 DEF Repathed
      <3> HIDE DEF new
      <3>4. /\ cats'[i] \in Category /\ cats'[i].path = new /\ cats'[i].level = Len(new)
            /\ cats'[i].name = cats[i].name /\ cats'[i].parent = cats[i].parent
            /\ cats'[i].leaf = cats[i].leaf /\ cats'[i].active = cats[i].active
        <4>1. Len(new) \in Nat
          BY <3>2
        <4>2. [cats[i] EXCEPT !.path = new] \in Category
          BY <2>1, <3>2 DEF Category
        <4> QED
          BY <2>1, <3>3, <4>1, <4>2 DEF Category
      <3>5. RowOK(cats'[i])
        BY <2>1, <3>2, <3>4 DEF RowOK
      <3> QED
        BY <3>1, <3>4, <3>5 DEF Rerouted, new
    <2> QED
      BY <2>2, <2>3
  <1>8. Len(top) <= MaxPath
    BY <1>3, <1>4, <1>5, CategoryAssumption
  <1> QED
    BY <1>1, <1>3, <1>4, <1>5, <1>6, <1>7, <1>8 DEF row, top

LEMMA PlaceKeeps ==
    ASSUME Inv, Place
    PROVE  Inv'
  <1>1. CASE cats' = cats
    <2>1. job' = Idle \/ (job' = [at |-> "mark", parent |-> job.to] /\ job.to # None)
      <3>1. \/ job' = Idle
            \/ job' = IF job.to = None THEN Idle ELSE [at |-> "mark", parent |-> job.to]
        BY Zenon DEF Place
      <3> QED
        BY <3>1
    <2>2. job.at = "move" /\ job \in Job /\ Exists(job.to)
      BY DEF Place, Inv, JobOK
    <2>3. JobOK'
      BY <1>1, <2>1, <2>2 DEF JobOK, Job, Idle, Exists, Inv, RowsOK
    <2> QED
      BY <1>1, <2>3 DEF Inv, RowsOK, RowOK, SiblingsDiffer, Exists
  <1>2. CASE cats' # cats
    <2> DEFINE id == job.id
               to == job.to
               row == Moved(cats[id], to)
    <2>1. /\ id \in DOMAIN cats /\ to \in Parents /\ Exists(to)
          /\ ~ IndexForbids(cats[id].name, to, id)
          /\ Len(PathBelow(to, cats[id].name)) <= MaxPath
          /\ DOMAIN cats' = DOMAIN cats /\ cats' = [i \in DOMAIN cats' |-> cats'[i]]
          /\ cats'[id] = row
          /\ \A i \in DOMAIN cats : i # id =>
                /\ RowOK(cats'[i]) /\ cats'[i].name = cats[i].name
                /\ cats'[i].parent = cats[i].parent
          /\ job' = IF to = None THEN Idle ELSE [at |-> "mark", parent |-> to]
      BY <1>2, PlaceEffect DEF Rerouted
    <2>2. RowOK(cats[id]) /\ cats[id] \in Category /\ cats[id].name \in Names
      BY <2>1 DEF Inv, RowsOK, RowOK, Category
    <2>3. /\ PathBelow(to, cats[id].name) \in Seq(Names) /\ LevelBelow(to) \in Nat
          /\ LevelBelow(to) = Len(PathBelow(to, cats[id].name)) /\ LevelBelow(to) >= 1
          /\ LevelBelow(to) = 1 <=> to = None
      BY <2>1, <2>2, NewRow DEF Inv
    <2>4. RowOK(row) /\ row.name = cats[id].name /\ row.parent = to
      <3>1. /\ row.name = cats[id].name /\ row.parent = to
            /\ row.path = PathBelow(to, cats[id].name) /\ row.level = LevelBelow(to)
        BY <2>2 DEF Moved, Category
      <3>2. [cats[id] EXCEPT !.parent = to] \in Category
        BY <2>1, <2>2 DEF Category
      <3>3. row \in Category
        BY <2>3, <3>1, <3>2 DEF Moved, Category
      <3> HIDE DEF row
      <3> QED
        BY <2>1, <2>3, <3>1, <3>3, CategoryAssumption DEF RowOK
    <2> HIDE DEF row
    <2>6. RowsOK'
      <3>1. \A i \in DOMAIN cats' : RowOK(cats'[i])
        BY <2>1, <2>4 DEF Inv, RowsOK
      <3>2. \A i \in DOMAIN cats' : Exists(cats[i].parent)'
        BY <2>1, <2>4 DEF Inv, RowsOK, Exists
      <3> QED
        BY <2>1, <3>1, <3>2 DEF Inv, RowsOK, RowOK
    <2>7. SiblingsDiffer'
      BY <2>1, <2>4 DEF Inv, SiblingsDiffer, IndexForbids, Taken
    <2>8. JobOK'
      BY <2>1 DEF JobOK, Job, Idle, Exists, Inv, RowsOK
    <2> QED
      BY <2>6, <2>7, <2>8 DEF Inv
  <1> QED
    BY <1>1, <1>2

LEMMA MarkKeeps ==
    ASSUME Inv, Mark
    PROVE  Inv'
  <1>1. job.parent \in DOMAIN cats
    BY DEF Mark, Inv, JobOK
  <1>2. RowsOK' /\ SiblingsDiffer'
    BY <1>1, FlagsKeep DEF Inv, Mark, Remarked
  <1>3. JobOK'
    BY DEF Mark, JobOK, Job, Idle
  <1> QED
    BY <1>2, <1>3 DEF Inv

LEMMA NextKeeps ==
    ASSUME Inv, [Next]_vars
    PROVE  Inv'
  <1>1. CASE UNCHANGED vars
    BY <1>1 DEF vars, Inv, RowsOK, RowOK, JobOK, SiblingsDiffer, Exists, Taken, MayMove
  <1>2. CASE Fail
    BY <1>2 DEF Fail, Inv, RowsOK, RowOK, JobOK, Job, Idle, SiblingsDiffer, Exists
  <1> QED
    BY <1>1, <1>2, CreateKeeps, InsertKeeps, RenameKeeps, RepathKeeps, SetActiveKeeps,
       MoveKeeps, PlaceKeeps, MarkKeeps DEF Next

LEMMA SpecInv == Spec => []Inv
  <1> QED
    BY InitInv, NextKeeps, PTL DEF Spec

\* The type invariant: levels count the names of paths, and only roots have one.
THEOREM CategoryTypeCorrect == Spec => []TypeOK
  <1> QED
    BY InvTypeOK, SpecInv, PTL

\* The names of the children of a category differ: renames and creations look,
\* moves are held to it by the index.
THEOREM SiblingNames == Spec => []SiblingsDiffer
  <1>1. Inv => SiblingsDiffer
    BY DEF Inv
  <1> QED
    BY <1>1, SpecInv, PTL

\* A flag stays as right as it is while the flags and the parents do.
LEMMA FlagsStay ==
    ASSUME NEW id, DOMAIN cats' = DOMAIN cats, cats'[id].leaf = cats[id].leaf,
           \A i \in DOMAIN cats :
              /\ (cats'[i].parent = id) <=> (cats[i].parent = id)
              /\ cats[i].parent = id => cats'[i].active = cats[i].active,
           RightlyFlagged(id)
    PROVE  RightlyFlagged(id)'
  <1>1. ActiveChildren(id)' = ActiveChildren(id)
    BY DEF ActiveChildren
  <1> QED
    BY <1>1 DEF RightlyFlagged

\* A flag that is computed is right, and no other one changes.
LEMMA RemarkedRight ==
    ASSUME RowsOK, NEW p \in DOMAIN cats, cats' = Remarked(p),
           NEW id \in DOMAIN cats, RightlyFlagged(id)
    PROVE  RightlyFlagged(id)'
  <1>1. cats' = [cats EXCEPT ![p].leaf = (ActiveChildren(p) = {})]
    BY DEF Remarked
  <1>2. /\ DOMAIN cats' = DOMAIN cats
        /\ \A i \in DOMAIN cats :
              cats'[i].parent = cats[i].parent /\ cats'[i].active = cats[i].active
        /\ \A i \in DOMAIN cats : i # p => cats'[i] = cats[i]
        /\ cats'[p].leaf = (ActiveChildren(p) = {})
    BY <1>1 DEF RowsOK, RowOK, Category
  <1>3. CASE id = p
    <2>1. ActiveChildren(p)' = ActiveChildren(p)
      BY <1>2 DEF ActiveChildren
    <2> QED
      BY <1>2, <1>3, <2>1 DEF RightlyFlagged
  <1>4. CASE id # p
    BY <1>2, <1>4, FlagsStay
  <1> QED
    BY <1>3, <1>4

\* FlagsGoWrong for any instance: whatever fails between the commits, a child is
\* inserted only below a category that was marked for it.
THEOREM FlagsStayRight == Spec => FlagsGoWrong
  <1> DEFINE Excused(id) ==
                \/ job'.at \in {"insert", "mark"} /\ job'.parent = id
                \/ Place /\ cats[job.id].parent = id
                \/ \E child \in ActiveChildren(id) : ~ cats'[child].active
                \/ \E child \in DOMAIN cats :
                      cats[child].parent = id /\ ~ cats[child].active /\ cats'[child].active
  <1>1. ASSUME Inv, [Next]_vars, NEW id \in DOMAIN cats, RightlyFlagged(id)
        PROVE  RightlyFlagged(id)' \/ Excused(id)
    <2>1. /\ id \in Ids /\ id # None
          /\ \A i \in DOMAIN cats : cats[i] \in Category
      BY <1>1, CategoryAssumption DEF Inv, RowsOK, RowOK
    <2>2. ASSUME UNCHANGED cats PROVE RightlyFlagged(id)'
      BY <1>1, <2>2 DEF RightlyFlagged, ActiveChildren
    <2>3. ASSUME NEW name \in Names, NEW p \in Parents, Create(name, p)
          PROVE  RightlyFlagged(id)' \/ Excused(id)
      <3>1. /\ job' = [at |-> "insert", name |-> name, parent |-> p]
            /\ cats' = IF p = None THEN cats ELSE [cats EXCEPT ![p].leaf = FALSE]
        BY <2>3 DEF Create
      <3>2. CASE p = id
        BY <3>1, <3>2
      <3>3. CASE p = None
        BY <2>2, <3>1, <3>3
      <3>4. CASE p # id /\ p # None
        <4>1. p \in DOMAIN cats
          BY <2>3, <3>4 DEF Create, Exists
        <4>2. /\ DOMAIN cats' = DOMAIN cats /\ cats'[id] = cats[id]
              /\ \A i \in DOMAIN cats :
                    cats'[i].parent = cats[i].parent /\ cats'[i].active = cats[i].active
          BY <2>1, <3>1, <3>4, <4>1 DEF Category
        <4> QED
          BY <1>1, <4>2, FlagsStay
      <3> QED
        BY <3>2, <3>3, <3>4
    <2>4. ASSUME NEW i \in Ids, Insert(i) PROVE RightlyFlagged(id)'
      <3> DEFINE row == [name |-> job.name, parent |-> job.parent,
                         path |-> PathBelow(job.parent, job.name),
                         level |-> LevelBelow(job.parent), leaf |-> TRUE, active |-> TRUE]
      <3>1. /\ job.at = "insert" /\ i \notin DOMAIN cats
            /\ \/ cats' = cats
               \/ cats' = [k \in DOMAIN cats \cup {i} |-> IF k = i THEN row ELSE cats[k]]
        BY <2>4 DEF Insert
      <3>2. job.parent # None => ~ cats[job.parent].leaf
        BY <1>1, <3>1 DEF Inv, JobOK
      <3>3. row.parent = job.parent /\ row.active
        OBVIOUS
      <3> HIDE DEF row
      <3>4. ASSUME cats' = [k \in DOMAIN cats \cup {i} |-> IF k = i THEN row ELSE cats[k]]
            PROVE  RightlyFlagged(id)'
        <4>1. /\ DOMAIN cats' = DOMAIN cats \cup {i} /\ cats'[i] = row
              /\ \A k \in DOMAIN cats : cats'[k] = cats[k]
          BY <3>1, <3>4
        <4>2. CASE job.parent = id
          <5>1. i \in ActiveChildren(id)'
            BY <3>3, <4>1, <4>2 DEF ActiveChildren
          <5>2. ~ cats'[id].leaf
            BY <2>1, <3>2, <4>1, <4>2
          <5> QED
            BY <5>1, <5>2 DEF RightlyFlagged
        <4>3. CASE job.parent # id
          <5>1. ActiveChildren(id)' = ActiveChildren(id)
            BY <3>3, <4>1, <4>3 DEF ActiveChildren
          <5> QED
            BY <1>1, <4>1, <5>1 DEF RightlyFlagged
        <4> QED
          BY <4>2, <4>3
      <3> QED
        BY <2>2, <3>1, <3>4
    <2>5. ASSUME NEW i \in DOMAIN cats, NEW name \in Names, Rename(i, name)
          PROVE  RightlyFlagged(id)'
      <3>1. cats' = [cats EXCEPT ![i] = Renamed(cats[i], name)]
        BY <2>5 DEF Rename
      <3>2. /\ DOMAIN cats' = DOMAIN cats
            /\ \A k \in DOMAIN cats :
                  /\ cats'[k].parent = cats[k].parent /\ cats'[k].active = cats[k].active
                  /\ cats'[k].leaf = cats[k].leaf
        BY <2>1, <3>1 DEF Renamed, Category
      <3> QED
        BY <1>1, <3>2, FlagsStay
    <2>6. ASSUME NEW d \in Ids, Repath(d) PROVE RightlyFlagged(id)'
      <3>1. /\ DOMAIN cats' = DOMAIN cats
            /\ \A k \in DOMAIN cats :
                  /\ cats'[k].parent = cats[k].parent /\ cats'[k].active = cats[k].active
                  /\ cats'[k].leaf = cats[k].leaf
        BY <1>1, <2>6, RepathEffect
      <3> QED
        BY <1>1, <3>1, FlagsStay
    <2>7. ASSUME NEW i \in DOMAIN cats, NEW b \in BOOLEAN, SetActive(i, b)
          PROVE  RightlyFlagged(id)' \/ Excused(id)
      <3>1. /\ DOMAIN cats' = DOMAIN cats /\ cats'[i].active = b
            /\ \A k \in DOMAIN cats : k # i => cats'[k] = cats[k]
            /\ \A k \in DOMAIN cats :
                  cats'[k].parent = cats[k].parent /\ cats'[k].leaf = cats[k].leaf
        BY <2>1, <2>7 DEF SetActive, Category
      <3>2. CASE cats[i].parent = id /\ b # cats[i].active
        <4>1. CASE cats[i].active
          BY <3>1, <3>2, <4>1 DEF ActiveChildren
        <4>2. CASE ~ cats[i].active
          <5>1. cats[i].active = FALSE
            BY <2>1, <4>2 DEF Category
          <5>2. b = TRUE
            BY <3>2, <5>1
          <5>3. cats'[i].active
            BY <3>1, <5>2
          <5> QED
            BY <3>2, <4>2, <5>3
        <4> QED
          BY <4>1, <4>2
      <3>3. CASE cats[i].parent # id \/ b = cats[i].active
        BY <1>1, <3>1, <3>3, FlagsStay
      <3> QED
        BY <3>2, <3>3
    <2>8. ASSUME NEW i \in DOMAIN cats, NEW to \in Parents, Move(i, to)
          PROVE  RightlyFlagged(id)'
      <3>1. CASE cats[i].parent = None
        BY <2>2, <2>8, <3>1 DEF Move
      <3>2. CASE cats[i].parent # None
        <4>1. cats[i].parent \in DOMAIN cats /\ cats' = Remarked(cats[i].parent)
          BY <1>1, <2>8, <3>2 DEF Move, Inv, RowsOK, Exists
        <4> QED
          BY <1>1, <4>1, RemarkedRight DEF Inv
      <3> QED
        BY <3>1, <3>2
    <2>9. CASE Place
      <3>1. CASE cats' = cats
        BY <2>2, <3>1
      <3>2. CASE cats' # cats
        <4>1. /\ job.id \in DOMAIN cats /\ DOMAIN cats' = DOMAIN cats
              /\ cats'[job.id] = Moved(cats[job.id], job.to)
              /\ \A k \in DOMAIN cats : k # job.id =>
                    /\ cats'[k].parent = cats[k].parent /\ cats'[k].active = cats[k].active
                    /\ cats'[k].leaf = cats[k].leaf
              /\ job' = IF job.to = None THEN Idle ELSE [at |-> "mark", parent |-> job.to]
          BY <1>1, <2>9, <3>2, PlaceEffect DEF Rerouted
        <4>2. /\ cats'[job.id].parent = job.to /\ cats'[job.id].active = cats[job.id].active
              /\ cats'[job.id].leaf = cats[job.id].leaf
          BY <2>1, <4>1 DEF Moved, Category
        <4>3. CASE cats[job.id].parent = id
          BY <2>9, <4>3
        <4>4. CASE job.to = id
          BY <2>1, <4>1, <4>4
        <4>5. CASE cats[job.id].parent # id /\ job.to # id
          <5>1. cats'[id].leaf = cats[id].leaf
            BY <4>1, <4>2
          <5>2. \A k \in DOMAIN cats :
                  /\ (cats'[k].parent = id) <=> (cats[k].parent = id)
                  /\ cats[k].parent = id => cats'[k].active = cats[k].active
            BY <4>1, <4>2, <4>5
          <5> QED
            BY <1>1, <4>1, <5>1, <5>2, FlagsStay
        <4> QED
          BY <4>3, <4>4, <4>5
      <3> QED
        BY <3>1, <3>2
    <2>10. CASE Mark
      <3>1. job.parent \in DOMAIN cats /\ cats' = Remarked(job.parent)
        BY <1>1, <2>10 DEF Mark, Inv, JobOK
      <3> QED
        BY <1>1, <3>1, RemarkedRight DEF Inv
    <2>11. CASE Fail \/ UNCHANGED vars
      BY <2>2, <2>11 DEF Fail, vars
    <2> HIDE DEF Excused
    <2> QED
      BY <1>1, <2>3, <2>4, <2>5, <2>6, <2>7, <2>8, <2>9, <2>10, <2>11 DEF Next
  <1>2. Inv /\ [Next]_vars =>
            [\A id \in DOMAIN cats :
                RightlyFlagged(id) /\ ~ RightlyFlagged(id)' =>
                    \/ job'.at \in {"insert", "mark"} /\ job'.parent = id
                    \/ Place /\ cats[job.id].parent = id
                    \/ \E child \in ActiveChildren(id) : ~ cats'[child].active
                    \/ \E child \in DOMAIN cats :
                          cats[child].parent = id /\ ~ cats[child].active
                              /\ cats'[child].active]_vars
    <2>1. ASSUME Inv, [Next]_vars
          PROVE  \A id \in DOMAIN cats : RightlyFlagged(id) => RightlyFlagged(id)' \/ Excused(id)
      <3> HIDE DEF Excused
      <3> QED
        BY <1>1, <2>1
    <2> QED
      BY <2>1
  <1> QED
    BY <1>2, SpecInv, PTL DEF Spec, FlagsGoWrong

\* A name added to a path leads below all that the path is below.
LEMMA LongerIsBelow ==
    ASSUME NEW p \in Seq(Names), NEW q \in Seq(Names), NEW name \in Names,
           q = p \/ IsBelow(q, p)
    PROVE  IsBelow(Append(q, name), p)
  <1>1. Append(q, name) \in Seq(Names) /\ Len(Append(q, name)) = Len(q) + 1
    OBVIOUS
  <1>2. \A i \in 1 .. Len(q) : Append(q, name)[i] = q[i]
    OBVIOUS
  <1>3. Len(p) <= Len(q) /\ \A i \in 1 .. Len(p) : q[i] = p[i]
    BY DEF IsBelow, IsStrictPrefix, IsPrefix
  <1> QED
    BY <1>1, <1>2, <1>3 DEF IsBelow, IsStrictPrefix, IsPrefix

\* The categories on a path at or below that of a category.
Under(id) == {i \in DOMAIN cats : i = id \/ IsBelow(cats[i].path, cats[id].path)}

\* As long as the paths are those of the tree, they tell what is below.
LEMMA UnderIsClosed ==
    ASSUME Inv, AllCurrent, NEW id \in DOMAIN cats, NEW i \in DOMAIN cats,
           cats[i].parent \in Under(id)
    PROVE  i \in Under(id)
  <1> DEFINE p == cats[i].parent
  <1>1. p \in DOMAIN cats /\ (p = id \/ IsBelow(cats[p].path, cats[id].path))
    BY DEF Under
  <1>2. /\ cats[id].path \in Seq(Names) /\ cats[p].path \in Seq(Names)
        /\ cats[i].name \in Names
    BY <1>1 DEF Inv, RowsOK, RowOK, Category
  <1>3. p # None
    BY <1>1, CategoryAssumption DEF Inv, RowsOK
  <1>4. cats[i].path = Append(cats[p].path, cats[i].name)
    BY <1>3 DEF AllCurrent, Current, PathBelow
  <1>5. IsBelow(Append(cats[p].path, cats[i].name), cats[id].path)
    BY <1>1, <1>2, LongerIsBelow
  <1> QED
    BY <1>4, <1>5 DEF Under

\* "Validate move operation to prevent cycles", for a move of a category that is
\* not to be its own parent, from a tree whose paths are up to date.  The
\* categories under the one that moves are closed under children, and the new
\* parent is not among them.
THEOREM CurrentMovesAreSafe == Spec => CurrentMovesKeepTree
  <1>1. ASSUME Inv, Place, AllCurrent, IsTree, job.id # job.to, cats' # cats
        PROVE  IsTree'
    <2> DEFINE id == job.id
               to == job.to
    <2>1. /\ id \in DOMAIN cats /\ DOMAIN cats' = DOMAIN cats
          /\ cats'[id] = Moved(cats[id], to)
          /\ \A i \in DOMAIN cats : i # id => cats'[i].parent = cats[i].parent
      BY <1>1, PlaceEffect DEF Rerouted
    <2>2. MayMove(id, to)
      BY <1>1 DEF Place, Inv, JobOK
    <2>3. \A i \in DOMAIN cats : cats[i] \in Category
      BY <1>1 DEF Inv, RowsOK, RowOK
    <2>4. cats'[id].parent = to
      BY <2>1, <2>3 DEF Moved, Category
    <2>5. \A i \in DOMAIN cats : i # id => cats'[i].parent = cats[i].parent
      BY <2>1
    <2>6. to \notin Under(id)
      <3>1. CASE to = None
        BY <1>1, <3>1, CategoryAssumption DEF Under, Inv, RowsOK
      <3>2. CASE to # None
        BY <1>1, <2>2, <3>2 DEF MayMove, Under
      <3> QED
        BY <3>1, <3>2
    <2> SUFFICES ASSUME NEW S \in SUBSET DOMAIN cats, S # {}
                 PROVE  \E i \in S : cats'[i].parent \notin S
      BY <2>1 DEF IsTree
    <2>7. CASE S \subseteq Under(id)
      <3>1. CASE id \in S
        BY <2>4, <2>6, <2>7, <3>1
      <3>2. CASE id \notin S
        <4>1. PICK i \in S : cats[i].parent \notin S
          BY <1>1 DEF IsTree
        <4> QED
          BY <2>5, <3>2, <4>1
      <3> QED
        BY <3>1, <3>2
    <2>8. CASE ~ (S \subseteq Under(id))
      <3>1. S \ Under(id) \in (SUBSET DOMAIN cats) \ {{}}
        BY <2>8
      <3>2. PICK i \in S \ Under(id) : cats[i].parent \notin S \ Under(id)
        BY <1>1, <3>1 DEF IsTree
      <3>3. cats[i].parent \notin Under(id)
        BY <1>1, <2>1, <3>2, UnderIsClosed
      <3>4. i # id
        BY <2>1, <3>2 DEF Under
      <3> QED
        BY <2>5, <3>2, <3>3, <3>4
    <2> QED
      BY <2>7, <2>8
  <1>2. ASSUME IsTree, cats' = cats PROVE IsTree'
    BY <1>2 DEF IsTree
  <1>3. Inv /\ [Next]_vars =>
            [Place /\ AllCurrent /\ IsTree /\ job.id # job.to => IsTree']_vars
    BY <1>1, <1>2
  <1> QED
    BY <1>3, SpecInv, PTL DEF Spec, CurrentMovesKeepTree

\* As long as flags only change, what the paths should be does not.
LEMMA FlagsKeepCurrent ==
    ASSUME RowsOK, AllCurrent, DOMAIN cats' = DOMAIN cats,
           \A i \in DOMAIN cats :
              /\ cats'[i].name = cats[i].name /\ cats'[i].parent = cats[i].parent
              /\ cats'[i].path = cats[i].path
    PROVE  AllCurrent'
  BY DEF RowsOK, AllCurrent, Current, PathBelow, Exists

\* A path that gets another name at its end is another path.
LEMMA RenamedPath ==
    ASSUME RowsOK, NEW id \in DOMAIN cats, Current(id), NEW name \in Names
    PROVE  LET old == cats[id].path
               new == Append(Front(old), name)
           IN  /\ name # cats[id].name => new # old
               /\ new = PathBelow(cats[id].parent, name)
  <1> DEFINE p == cats[id].parent
  <1>1. RowOK(cats[id]) /\ Exists(p) /\ cats[id].name \in Names
    BY DEF RowsOK, RowOK, Category
  <1>2. CASE p = None
    <2>1. cats[id].path = <<cats[id].name>>
      BY <1>2 DEF Current, PathBelow
    <2>2. Append(Front(cats[id].path), name) = <<name>>
      <3>1. <<cats[id].name>> \in Seq(Names) /\ Len(<<cats[id].name>>) = 1
        BY <1>1
      <3>2. Front(<<cats[id].name>>) \in Seq(Names) /\ Len(Front(<<cats[id].name>>)) = 0
        BY <3>1 DEF Front
      <3>3. Front(<<cats[id].name>>) = <<>>
        BY <3>2
      <3> QED
        BY <2>1, <3>3
    <2> QED
      BY <1>2, <2>1, <2>2 DEF PathBelow
  <1>3. CASE p # None
    <2> DEFINE s == cats[p].path
    <2>1. s \in Seq(Names)
      BY <1>1, <1>3 DEF Exists, RowsOK, RowOK, Category
    <2>2. cats[id].path = Append(s, cats[id].name) /\ PathBelow(p, name) = Append(s, name)
      BY <1>3 DEF Current, PathBelow
    <2> HIDE DEF s
    <2>3. Front(Append(s, cats[id].name)) = s
      BY <1>1, <2>1 DEF Front
    <2>4. name # cats[id].name => Append(s, name) # Append(s, cats[id].name)
      <3>1. /\ Append(s, name)[Len(s) + 1] = name
            /\ Append(s, cats[id].name)[Len(s) + 1] = cats[id].name
        BY <1>1, <2>1
      <3> QED
        BY <3>1
    <2> QED
      BY <2>2, <2>3, <2>4
  <1> QED
    BY <1>2, <1>3

\* Nobody with a current path is its own parent.
LEMMA NotOwnParent ==
    ASSUME RowsOK, NEW id \in DOMAIN cats, Current(id)
    PROVE  cats[id].parent # id
  <1> SUFFICES ASSUME cats[id].parent = id PROVE FALSE
    OBVIOUS
  <1>1. id # None /\ cats[id].path \in Seq(Names) /\ cats[id].name \in Names
    BY CategoryAssumption DEF RowsOK, RowOK, Category
  <1>2. cats[id].path = Append(cats[id].path, cats[id].name)
    BY <1>1 DEF Current, PathBelow
  <1>3. Len(Append(cats[id].path, cats[id].name)) = Len(cats[id].path) + 1
    BY <1>1
  <1>4. Len(cats[id].path) \in Nat
    BY <1>1
  <1> QED
    BY <1>2, <1>3, <1>4

\* What a request writes, as long as what it changes the path of has no child
\* after it.
OnlyChildless ==
    \A id, child \in DOMAIN cats :
        cats'[child].parent = id => cats'[id].path = cats[id].path

NobodyMisled == \A d \in DOMAIN cats : ~ Misled(d)

\* A path that is rewritten without misleading anybody stays what it was.
LEMMA NotMisled ==
    ASSUME NobodyMisled, NEW d \in DOMAIN cats, NEW id \in DOMAIN cats \ {d},
           cats[d].path \in Seq(Names), cats'[id].path \in Seq(Names),
           cats'[d].path # cats[d].path =>
              /\ Matches(cats'[id].path, cats[d].path)
              /\ cats'[d].path = Rebased(cats[d].path, cats'[id].path)
    PROVE  cats'[d].path = cats[d].path
  <1> SUFFICES ASSUME cats'[d].path # cats[d].path PROVE FALSE
    OBVIOUS
  <1>1. PICK top \in Seq(Names), path \in Seq(Names) : top = cats'[id].path /\ path = cats[d].path
    OBVIOUS
  <1>2. Matches(top, path) /\ cats'[d].path = Rebased(path, top)
    BY <1>1
  <1>3. ~ IsStrictPrefix(top, path)
    BY <1>1, <1>2, RebasedPath
  <1> QED
    BY <1>1, <1>2, <1>3 DEF NobodyMisled, Misled

LEMMA InsertKeepsPaths ==
    ASSUME Inv, AllCurrent, NEW id \in Ids, Insert(id)
    PROVE  AllCurrent'
  <1> DEFINE path == PathBelow(job.parent, job.name)
             row == [name |-> job.name, parent |-> job.parent, path |-> path,
                     level |-> LevelBelow(job.parent), leaf |-> TRUE, active |-> TRUE]
  <1>1. /\ id \notin DOMAIN cats /\ Exists(job.parent)
        /\ \/ cats' = cats
           \/ cats' = [i \in DOMAIN cats \cup {id} |-> IF i = id THEN row ELSE cats[i]]
    BY DEF Insert, Inv, JobOK
  <1>2. CASE cats' = cats
    BY <1>2 DEF AllCurrent, Current, PathBelow
  <1>3. CASE cats' = [i \in DOMAIN cats \cup {id} |-> IF i = id THEN row ELSE cats[i]]
    <2>1. /\ DOMAIN cats' = DOMAIN cats \cup {id} /\ cats'[id] = row
          /\ \A i \in DOMAIN cats : cats'[i] = cats[i]
      BY <1>1, <1>3
    <2>2. /\ row.path = PathBelow(job.parent, job.name)
          /\ row.parent = job.parent /\ row.name = job.name
      OBVIOUS
    <2> HIDE DEF row
    <2>3. \A i \in DOMAIN cats : Current(i)'
      BY <2>1 DEF AllCurrent, Current, PathBelow, Inv, RowsOK, Exists
    <2>4. Current(id)'
      BY <1>1, <2>1, <2>2 DEF Current, PathBelow, Exists
    <2> QED
      BY <2>1, <2>3, <2>4 DEF AllCurrent
  <1> QED
    BY <1>1, <1>2, <1>3

LEMMA RenameKeepsPaths ==
    ASSUME Inv, AllCurrent, OnlyChildless,
           NEW id \in DOMAIN cats, NEW name \in Names, Rename(id, name)
    PROVE  AllCurrent'
  <1> DEFINE row == Renamed(cats[id], name)
             new == Append(Front(cats[id].path), name)
  <1>1. /\ name # cats[id].name /\ DOMAIN cats' = DOMAIN cats /\ cats'[id] = row
        /\ \A i \in DOMAIN cats : i # id => cats'[i] = cats[i]
    BY DEF Rename, Inv, RowsOK
  <1>2. row.name = name /\ row.path = new /\ row.parent = cats[id].parent
    BY DEF Renamed, Inv, RowsOK, RowOK, Category
  <1>3. new # cats[id].path /\ new = PathBelow(cats[id].parent, name)
    BY <1>1, RenamedPath DEF Inv, AllCurrent
  <1>4. cats[id].parent # id
    BY NotOwnParent DEF Inv, AllCurrent
  <1> HIDE DEF row, new
  <1>5. Current(id)'
    BY <1>1, <1>2, <1>3, <1>4 DEF Current, PathBelow, Inv, RowsOK, Exists
  <1>6. \A i \in DOMAIN cats : cats'[i].parent # id
    BY <1>1, <1>2, <1>3 DEF OnlyChildless
  <1>7. ASSUME NEW i \in DOMAIN cats, i # id PROVE Current(i)'
    BY <1>1, <1>6, <1>7 DEF AllCurrent, Current, PathBelow, Inv, RowsOK, Exists
  <1> QED
    BY <1>1, <1>5, <1>7 DEF AllCurrent

LEMMA RepathKeepsPaths ==
    ASSUME Inv, AllCurrent, NobodyMisled, NEW d \in Ids, Repath(d)
    PROVE  AllCurrent'
  <1>1. /\ d \in DOMAIN cats /\ job.id \in DOMAIN cats /\ job.id # d
        /\ cats[job.id].path \in Seq(Names) /\ cats[d].path \in Seq(Names)
        /\ Matches(cats[job.id].path, cats[d].path)
        /\ DOMAIN cats' = DOMAIN cats
        /\ \A i \in DOMAIN cats : i # d => cats'[i] = cats[i]
        /\ cats'[d].path = Rebased(cats[d].path, cats[job.id].path)
        /\ cats'[d].name = cats[d].name /\ cats'[d].parent = cats[d].parent
    BY RepathEffect
  <1>2. PICK id \in DOMAIN cats : id = job.id
    BY <1>1
  <1>3. cats'[d].path = cats[d].path
    BY <1>1, <1>2, NotMisled
  <1> QED
    BY <1>1, <1>3, FlagsKeepCurrent DEF Inv

LEMMA PlaceKeepsPaths ==
    ASSUME Inv, AllCurrent, OnlyChildless, NobodyMisled, Place
    PROVE  AllCurrent'
  <1>1. CASE cats' = cats
    BY <1>1 DEF AllCurrent, Current, PathBelow
  <1>2. CASE cats' # cats
    <2>0. PICK id \in DOMAIN cats, to \in Parents : id = job.id /\ to = job.to
      BY <1>2, PlaceEffect
    <2> DEFINE row == Moved(cats[id], to)
               new == PathBelow(to, cats[id].name)
    <2>1. /\ id \in DOMAIN cats /\ Exists(to) /\ DOMAIN cats' = DOMAIN cats
          /\ cats'[id] = row /\ new \in Seq(Names)
          /\ \A i \in DOMAIN cats : i # id => Rerouted(i, new)
      BY <1>2, <2>0, PlaceEffect
    <2>2. \A i \in DOMAIN cats : cats[i] \in Category
      BY DEF Inv, RowsOK, RowOK
    <2>3. row.name = cats[id].name /\ row.parent = to /\ row.path = new
      BY <2>1, <2>2 DEF Moved, Category
    <2>4. \A i \in DOMAIN cats : i # id =>
            /\ cats'[i].name = cats[i].name /\ cats'[i].parent = cats[i].parent
            /\ cats'[i].path = cats[i].path
      <3>1. ASSUME NEW i \in DOMAIN cats, i # id PROVE cats'[i].path = cats[i].path
        <4>1. cats[i].path \in Seq(Names) /\ cats'[id].path = new
          BY <2>1, <2>2, <2>3 DEF Category
        <4>2. cats'[i].path # cats[i].path =>
                  /\ Matches(cats'[id].path, cats[i].path)
                  /\ cats'[i].path = Rebased(cats[i].path, cats'[id].path)
          BY <2>1, <3>1, <4>1 DEF Rerouted
        <4> HIDE DEF new, row
        <4> QED
          BY <2>1, <3>1, <4>1, <4>2, NotMisled
      <3> QED
        BY <2>1, <3>1 DEF Rerouted
    <2>5. to # id
      <3> SUFFICES ASSUME to = id PROVE FALSE
        OBVIOUS
      <3>1. cats'[id].path = cats[id].path
        BY <2>1, <2>3 DEF OnlyChildless
      <3>2. id # None
        BY <2>1, CategoryAssumption DEF Inv, RowsOK
      <3>3. cats[id].path = Append(cats[id].path, cats[id].name)
        BY <2>1, <2>3, <3>1, <3>2 DEF PathBelow
      <3>4. cats[id].path \in Seq(Names) /\ cats[id].name \in Names
        BY <2>1, <2>2 DEF Category
      <3>5. Len(Append(cats[id].path, cats[id].name)) = Len(cats[id].path) + 1
        BY <3>4
      <3>6. Len(cats[id].path) \in Nat
        BY <3>4
      <3> QED
        BY <3>3, <3>5, <3>6
    <2> HIDE DEF row
    <2>6. Current(id)'
      BY <2>1, <2>3, <2>4, <2>5 DEF Current, PathBelow, Exists
    <2>7. ASSUME NEW i \in DOMAIN cats, i # id PROVE Current(i)'
      <3>1. cats[i].parent = id => cats'[id].path = cats[id].path
        BY <2>1, <2>4, <2>7 DEF OnlyChildless
      <3>2. cats[i].path = PathBelow(cats[i].parent, cats[i].name) /\ Exists(cats[i].parent)
        BY DEF AllCurrent, Current, Inv, RowsOK
      <3>3. cats[i].parent # None => cats'[cats[i].parent].path = cats[cats[i].parent].path
        BY <2>1, <2>4, <3>1, <3>2 DEF Exists
      <3> QED
        BY <2>4, <2>7, <3>2, <3>3 DEF Current, PathBelow
    <2> QED
      BY <2>1, <2>6, <2>7 DEF AllCurrent
  <1> QED
    BY <1>1, <1>2

\* The paths stay those of the tree until something that has children is renamed
\* or moved, a category is moved below itself, or a new path misleads.
LEMMA ChildlessKeepPaths ==
    ASSUME Inv, [Next]_vars, AllCurrent, OnlyChildless, NobodyMisled
    PROVE  AllCurrent'
  <1>1. ASSUME NEW p \in DOMAIN cats, NEW b \in BOOLEAN,
               \/ cats' = [cats EXCEPT ![p].leaf = b]
               \/ cats' = [cats EXCEPT ![p].active = b]
        PROVE  AllCurrent'
    <2>1. /\ DOMAIN cats' = DOMAIN cats
          /\ \A id \in DOMAIN cats :
              /\ cats'[id].name = cats[id].name /\ cats'[id].parent = cats[id].parent
              /\ cats'[id].path = cats[id].path
      BY <1>1, FlagsKeep DEF Inv
    <2> QED
      BY <2>1, FlagsKeepCurrent DEF Inv
  <1>2. ASSUME cats' = cats PROVE AllCurrent'
    BY <1>2 DEF AllCurrent, Current, PathBelow
  <1>3. ASSUME NEW p \in DOMAIN cats, cats' = Remarked(p) PROVE AllCurrent'
    BY <1>1, <1>3 DEF Remarked
  <1>4. ASSUME NEW name \in Names, NEW p \in Parents, Create(name, p)
        PROVE  AllCurrent'
    BY <1>1, <1>2, <1>4 DEF Create, Exists
  <1>5. ASSUME NEW i \in DOMAIN cats, NEW b \in BOOLEAN, SetActive(i, b)
        PROVE  AllCurrent'
    BY <1>1, <1>5 DEF SetActive
  <1>6. ASSUME NEW i \in DOMAIN cats, NEW to \in Parents, Move(i, to)
        PROVE  AllCurrent'
    BY <1>2, <1>3, <1>6 DEF Move, Inv, RowsOK, Exists
  <1>7. CASE Mark
    BY <1>3, <1>7 DEF Mark, Inv, JobOK
  <1>8. CASE Fail \/ UNCHANGED vars
    BY <1>2, <1>8 DEF Fail, vars
  <1> QED
    BY <1>4, <1>5, <1>6, <1>7, <1>8, InsertKeepsPaths, RenameKeepsPaths,
       RepathKeepsPaths, PlaceKeepsPaths DEF Next

\* ChildlessChangesKeepPaths for any instance, whatever its names match.
THEOREM PathsStay == Spec => ChildlessChangesKeepPaths
  <1>1. ~ OnlyChildless =>
            \E id, child \in DOMAIN cats :
                cats'[child].parent = id /\ cats'[id].path # cats[id].path
    BY DEF OnlyChildless
  <1>2. Inv /\ [Next]_vars =>
            [AllCurrent =>
                \/ AllCurrent'
                \/ \E id, child \in DOMAIN cats :
                      cats'[child].parent = id /\ cats'[id].path # cats[id].path
                \/ \E d \in DOMAIN cats : Misled(d)]_vars
    BY ChildlessKeepPaths, <1>1 DEF NobodyMisled
  <1> QED
    BY <1>2, SpecInv, PTL DEF Spec, ChildlessChangesKeepPaths

\* Paths that are those of the tree are longer below than above, so that in any
\* set of categories one with the shortest path has its parent outside.
LEMMA CurrentIsTree == Inv /\ AllCurrent => IsTree
  <1> SUFFICES ASSUME Inv, AllCurrent, NEW S \in SUBSET DOMAIN cats, S # {}
               PROVE  \E id \in S : cats[id].parent \notin S
    BY DEF IsTree
  <1>1. \A id \in DOMAIN cats :
            /\ Len(cats[id].path) \in Nat /\ id # None
            /\ cats[id].parent \in DOMAIN cats =>
                 Len(cats[id].path) = Len(cats[cats[id].parent].path) + 1
    <2> TAKE id \in DOMAIN cats
    <2>1. /\ id # None /\ cats[id].path \in Seq(Names) /\ cats[id].name \in Names
      BY CategoryAssumption DEF Inv, RowsOK, RowOK, Category
    <2>2. ASSUME NEW p \in DOMAIN cats, p = cats[id].parent
          PROVE  Len(cats[id].path) = Len(cats[p].path) + 1
      <3>1. p # None /\ cats[p].path \in Seq(Names)
        BY CategoryAssumption DEF Inv, RowsOK, RowOK, Category
      <3>2. cats[id].path = Append(cats[p].path, cats[id].name)
        BY <2>2, <3>1 DEF AllCurrent, Current, PathBelow
      <3> QED
        BY <2>1, <3>1, <3>2
    <2> QED
      BY <2>1, <2>2
  <1> DEFINE length == {Len(cats[id].path) : id \in S}
  <1>2. length \subseteq Nat /\ length # {}
    BY <1>1
  <1>3. PICK n \in length : \A m \in length : ~ (<<m, n>> \in OpToRel(<, Nat))
    <2> HIDE DEF length
    <2> QED
      BY <1>2, NatLessThanWellFounded, WFMin
  <1>4. \A m \in length : ~ (m < n)
    BY <1>2, <1>3 DEF OpToRel
  <1>5. PICK id \in S : n = Len(cats[id].path)
    OBVIOUS
  <1>6. ASSUME cats[id].parent \in S PROVE FALSE
    <2>1. Len(cats[cats[id].parent].path) \in length
      BY <1>6
    <2>2. /\ Len(cats[cats[id].parent].path) \in Nat
          /\ Len(cats[id].path) = Len(cats[cats[id].parent].path) + 1
      BY <1>1, <1>6
    <2> QED
      BY <1>4, <1>5, <2>1, <2>2
  <1> QED
    BY <1>6

\* The categories are a tree, with the paths of that tree, as long as no request
\* gives another path to what has children, or to what its new path matches
\* without being above it: whatever is created, renamed, moved or fails half way
\* otherwise.
THEOREM ChildlessChangesKeepTree ==
    Spec /\ [][OnlyChildless /\ NobodyMisled]_vars => [](AllCurrent /\ IsTree)
  <1>1. Init => AllCurrent
    BY DEF Init, AllCurrent
  <1>2. Inv /\ AllCurrent /\ [Next]_vars /\ [OnlyChildless /\ NobodyMisled]_vars => AllCurrent'
    <2>1. ASSUME AllCurrent, UNCHANGED vars PROVE AllCurrent'
      BY <2>1 DEF vars, AllCurrent, Current, PathBelow
    <2> QED
      BY <2>1, ChildlessKeepPaths
  <1> QED
    BY <1>1, <1>2, CurrentIsTree, SpecInv, PTL DEF Spec

\* No category is ever deleted.
LEMMA RowsStay ==
    ASSUME Inv, Next
    PROVE  DOMAIN cats \subseteq DOMAIN cats'
  <1>1. ASSUME NEW name \in Names, NEW p \in Parents, Create(name, p)
        PROVE  DOMAIN cats \subseteq DOMAIN cats'
    BY <1>1 DEF Create
  <1>2. ASSUME NEW id \in Ids, Insert(id)
        PROVE  DOMAIN cats \subseteq DOMAIN cats'
    <2>1. \/ cats' = cats
          \/ DOMAIN cats' = DOMAIN cats \cup {id}
      BY <1>2 DEF Insert
    <2> QED
      BY <2>1
  <1>3. ASSUME NEW d \in Ids, Repath(d) PROVE DOMAIN cats \subseteq DOMAIN cats'
    BY <1>3 DEF Repath
  <1>4. ASSUME NEW id \in DOMAIN cats,
               \/ \E name \in Names : Rename(id, name)
               \/ \E active \in BOOLEAN : SetActive(id, active)
               \/ \E to \in Parents : Move(id, to)
        PROVE  DOMAIN cats \subseteq DOMAIN cats'
    BY <1>4 DEF Rename, SetActive, Move, Remarked
  <1>5. CASE Place
    BY <1>5, PlaceEffect
  <1>6. CASE Mark \/ Fail
    BY <1>6 DEF Mark, Fail, Remarked
  <1> QED
    BY <1>1, <1>2, <1>3, <1>4, <1>5, <1>6 DEF Next

----------------------------------------------------------------------------
(* Names that match nothing but themselves.                                *)

Plain == \A name \in Names : Like[name] \subseteq {<<name>>}

\* What a plain path matches is below it: by the first place where the names that
\* match are not one each.
LEMMA PlainMatches ==
    ASSUME Plain, NEW top \in Seq(Names), NEW path \in Seq(Names), Matches(top, path)
    PROVE  IsStrictPrefix(top, path)
  <1>1. PICK cut \in [1 .. Len(top) + 1 -> 1 .. Len(path)] :
            /\ cut[1] = 1
            /\ \A i \in 1 .. Len(top) :
                  /\ cut[i] < cut[i + 1]
                  /\ SubSeq(path, cut[i], cut[i + 1] - 1) \in Like[top[i]]
    BY DEF Matches
  <1>2. Len(top) \in Nat /\ Len(path) \in Nat /\ Len(top) < Len(path)
    BY DEF Matches
  <1>3. ASSUME NEW i \in 1 .. Len(top)
        PROVE  /\ cut[i] \in 1 .. Len(path) /\ cut[i + 1] \in 1 .. Len(path)
               /\ SubSeq(path, cut[i], cut[i + 1] - 1) = <<top[i]>>
               /\ cut[i + 1] = cut[i] + 1 /\ path[cut[i]] = top[i]
    <2>1. cut[i] \in 1 .. Len(path) /\ cut[i + 1] \in 1 .. Len(path)
      BY <1>1, <1>2
    <2>2. top[i] \in Names
      BY <1>2
    <2>3. SubSeq(path, cut[i], cut[i + 1] - 1) = <<top[i]>>
      BY <1>1, <2>2 DEF Plain
    <2>4. cut[i] < cut[i + 1]
      BY <1>1
    <2>5. PICK a \in 1 .. Len(path), b \in 1 .. Len(path) : a = cut[i] /\ b = cut[i + 1]
      BY <2>1
    <2>6. a \in Int /\ b \in Int /\ a < b
      BY <1>2, <2>4, <2>5
    <2>7. Len(SubSeq(path, a, b - 1)) = b - a /\ SubSeq(path, a, b - 1)[1] = path[a]
      BY <1>2, <2>6
    <2>8. SubSeq(path, a, b - 1) = <<top[i]>>
      BY <2>3, <2>5
    <2>9. Len(<<top[i]>>) = 1 /\ <<top[i]>>[1] = top[i]
      OBVIOUS
    <2>10. b - a = 1 /\ path[a] = top[i]
      BY <2>7, <2>8, <2>9
    <2>11. b = a + 1
      BY <2>6, <2>10
    <2> QED
      BY <2>1, <2>3, <2>5, <2>10, <2>11
  <1> DEFINE off == {i \in 1 .. Len(top) + 1 : cut[i] # i}
  <1>4. off = {}
    <2> SUFFICES ASSUME off # {} PROVE FALSE
      OBVIOUS
    <2>1. off \subseteq Nat
      BY <1>2
    <2>2. PICK n \in off : \A m \in off : ~ (<<m, n>> \in OpToRel(<, Nat))
      <3> HIDE DEF off
      <3> QED
        BY <2>1, NatLessThanWellFounded, WFMin
    <2>3. \A m \in off : ~ (m < n)
      BY <2>1, <2>2 DEF OpToRel
    <2>4. n \in 1 .. Len(top) + 1 /\ cut[n] # n /\ n # 1
      BY <1>1
    <2>5. n - 1 \in 1 .. Len(top) /\ n - 1 \notin off
      BY <1>2, <2>3, <2>4
    <2>6. cut[n - 1] = n - 1
      BY <1>2, <2>5
    <2>7. cut[(n - 1) + 1] = cut[n - 1] + 1
      BY <1>3, <2>5
    <2>8. (n - 1) + 1 = n
      BY <2>4, <1>2
    <2> QED
      BY <2>4, <2>6, <2>7, <2>8, <1>2
  <1>5. \A i \in 1 .. Len(top) : path[i] = top[i]
    <2> SUFFICES ASSUME NEW i \in 1 .. Len(top) PROVE path[i] = top[i]
      OBVIOUS
    <2>1. cut[i] = i
      BY <1>2, <1>4
    <2> QED
      BY <1>3, <2>1
  <1> QED
    BY <1>2, <1>5 DEF IsStrictPrefix, IsPrefix

\* Where names match nothing but themselves, only a change of something that has
\* children makes paths wrong.
THEOREM PlainNamesKeepTree ==
    ASSUME Plain
    PROVE  Spec /\ [][OnlyChildless]_vars => [](AllCurrent /\ IsTree)
  <1>1. ASSUME Inv, Inv', DOMAIN cats \subseteq DOMAIN cats' PROVE NobodyMisled
    <2> SUFFICES ASSUME NEW d \in DOMAIN cats, NEW id \in DOMAIN cats,
                        Matches(cats'[id].path, cats[d].path)
                 PROVE  IsStrictPrefix(cats'[id].path, cats[d].path)
      BY DEF NobodyMisled, Misled
    <2>1. PICK top \in Seq(Names), path \in Seq(Names) :
              top = cats'[id].path /\ path = cats[d].path
      BY <1>1 DEF Inv, RowsOK, RowOK, Category
    <2> QED
      BY <2>1, PlainMatches
  <1>2. ASSUME Inv, Next PROVE DOMAIN cats \subseteq DOMAIN cats'
    BY <1>2, RowsStay
  <1>3. Inv /\ Inv' /\ [Next]_vars /\ [OnlyChildless]_vars => [OnlyChildless /\ NobodyMisled]_vars
    BY <1>1, <1>2
  <1> QED
    BY <1>3, ChildlessChangesKeepTree, SpecInv, PTL DEF Spec

=============================================================================
