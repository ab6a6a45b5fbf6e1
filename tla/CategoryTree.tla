---------------------------- MODULE CategoryTree ----------------------------
(***************************************************************************)
(* CategoryService and CategoryRepository: the tree of categories, with    *)
(* the path, the level and the leaf flag that each row keeps of its place. *)
(*                                                                         *)
(* One request at a time.  Creating, renaming and moving take several      *)
(* commits, and a request can fail between them.  A path is the sequence of *)
(* its names, which contain no slash; where it is looked for with LIKE its *)
(* wildcards are not escaped.  Every endpoint raises when it builds        *)
(* its response, from child_count, which loads a relationship: by then its *)
(* work is committed.  can_delete raises there too, before anything is     *)
(* changed, or refuses a category that is inactive, so that no category is *)
(* ever deleted.                                                           *)
(***************************************************************************)
EXTENDS Integers, SequencesExt

CONSTANTS
    Ids,        \* ids of Category rows
    Names,
    None,       \* the parent of a root
    MaxPath,    \* the names that fit into a category_path of 500 characters
    Like        \* what each name matches as a pattern of LIKE: itself as a rule,
                \* more if it has a "_" or a "%", which match a slash too

ASSUME CategoryAssumption ==
    /\ None \notin Ids /\ MaxPath \in Nat \ {0}
    /\ Like \in [Names -> SUBSET Seq(Names)]

VARIABLES
    cats,       \* the categories table, by id
    job         \* what the request has left to do

vars == <<cats, job>>

Parents == Ids \cup {None}

Category ==
    [name : Names, parent : Parents, path : Seq(Names), level : Nat,
     leaf : BOOLEAN, active : BOOLEAN]

Job ==
    [at : {"idle"}]
        \cup [at : {"insert"}, name : Names, parent : Parents]
        \cup [at : {"repath"}, id : Ids, left : SUBSET Ids]
        \cup [at : {"move"}, id : Ids, to : Parents]
        \cup [at : {"mark"}, parent : Ids]

Idle == [at |-> "idle"]

Init ==
    /\ cats = [id \in {} |-> Idle]
    /\ job = Idle

Exists(p) == p = None \/ p \in DOMAIN cats

\* exists_by_name_and_parent.
Taken(name, parent, except) ==
    \E id \in DOMAIN cats \ {except} : cats[id].name = name /\ cats[id].parent = parent

\* Mutant: the index is not there.
NoIndex(name, parent, except) == FALSE

\* The unique index on name and parent, which has nothing to say about roots.
IndexForbids(name, parent, except) == parent # None /\ Taken(name, parent, except)

ActiveChildren(p) == {id \in DOMAIN cats : cats[id].parent = p /\ cats[id].active}

\* _update_parent_leaf_status.
Remarked(p) == [cats EXCEPT ![p].leaf = ActiveChildren(p) = {}]

\* Where a category with this name is put below a parent: its path and level.
PathBelow(p, name) == IF p = None THEN <<name>> ELSE Append(cats[p].path, name)

LevelBelow(p) == IF p = None THEN 1 ELSE cats[p].level + 1

\* path LIKE top || '/%': cut[i] is where what the i-th name of top matches begins,
\* and something is left after the last.
Matches(top, path) ==
    /\ Len(top) < Len(path)
    /\ \E cut \in [1 .. Len(top) + 1 -> 1 .. Len(path)] :
          /\ cut[1] = 1
          /\ \A i \in 1 .. Len(top) :
                /\ cut[i] < cut[i + 1]
                /\ SubSeq(path, cut[i], cut[i + 1] - 1) \in Like[top[i]]

\* get_descendants of a category whose path is top.
Descendants(top) == {id \in DOMAIN cats : cats[id].active /\ Matches(top, cats[id].path)}

\* As many names as top has are replaced by those.
Rebased(path, top) == top \o SubSeq(path, Len(top) + 1, Len(path))

\* Mutant: the parent is not marked.
CreateUnmarked(name, p) ==
    /\ job = Idle
    /\ Exists(p) /\ ~ Taken(name, p, None)
    /\ job' = [at |-> "insert", name |-> name, parent |-> p]
    /\ UNCHANGED cats

\* create_category marks the parent, in a commit of its own...
Create(name, p) ==
    /\ job = Idle
    /\ Exists(p) /\ ~ Taken(name, p, None)
    /\ cats' = IF p = None THEN cats ELSE [cats EXCEPT ![p].leaf = FALSE]
    /\ job' = [at |-> "insert", name |-> name, parent |-> p]

\* ... and inserts the category, unless its path is too long.
Insert(id) ==
    /\ job.at = "insert" /\ id \notin DOMAIN cats
    /\ LET path == PathBelow(job.parent, job.name)
           row == [name |-> job.name, parent |-> job.parent, path |-> path,
                   level |-> LevelBelow(job.parent), leaf |-> TRUE, active |-> TRUE]
       IN  cats' = IF Len(path) > MaxPath THEN cats
                   ELSE [i \in DOMAIN cats \cup {id} |-> IF i = id THEN row ELSE cats[i]]
    /\ job' = Idle

\* Mutant: the path keeps the old name.
RenamedOnly(row, name) == [row EXCEPT !.name = name]

Renamed(row, name) == [row EXCEPT !.name = name, !.path = Append(Front(@), name)]

\* update_category with a name commits the category.  Its descendants are looked
\* for under the path it was just given, where those below it are not, ...
Rename(id, name) ==
    /\ job = Idle
    /\ name # cats[id].name /\ ~ Taken(name, cats[id].parent, id)
    /\ LET row == Renamed(cats[id], name)
           left == {d \in Descendants(row.path) : Rebased(cats[d].path, row.path) # cats[d].path}
       IN  /\ cats' = [cats EXCEPT ![id] = row]
           /\ job' = IF left = {} THEN Idle ELSE [at |-> "repath", id |-> id, left |-> left]

\* ... and those that are found are committed one by one.
Repath(d) ==
    /\ job.at = "repath" /\ d \in job.left
    /\ cats' = [cats EXCEPT ![d].path = Rebased(@, cats[job.id].path)]
    /\ job' = IF job.left = {d} THEN Idle ELSE [job EXCEPT !.left = @ \ {d}]

\* update_category with is_active, bulk_activate and bulk_deactivate: no flag of
\* the parent follows.
SetActive(id, active) ==
    /\ job = Idle
    /\ cats' = [cats EXCEPT ![id].active = active]
    /\ UNCHANGED job

\* Mutant: the paths are compared the wrong way round.
IsAbove(path, ancestor) == IsStrictPrefix(path, ancestor)

\* is_descendant_of.
IsBelow(path, ancestor) == IsStrictPrefix(ancestor, path)

\* _validate_move_operation: moving to the root is always valid.
MayMove(id, to) ==
    to # None => ~ IsBelow(cats[to].path, cats[id].path) /\ to # cats[id].parent

\* move_category marks the old parent, in a commit of its own, ...
Move(id, to) ==
    /\ job = Idle
    /\ Exists(to) /\ MayMove(id, to)
    /\ cats' = IF cats[id].parent = None THEN cats ELSE Remarked(cats[id].parent)
    /\ job' = [at |-> "move", id |-> id, to |-> to]

\* Mutant: the category keeps its level.
MovedOnLevel(row, to) == [row EXCEPT !.parent = to, !.path = PathBelow(to, row.name)]

Moved(row, to) ==
    [row EXCEPT !.parent = to, !.path = PathBelow(to, row.name), !.level = LevelBelow(to)]

\* _update_descendant_paths, which looks for them under the new path as well.
Repathed(top) ==
    [id \in DOMAIN cats |->
        IF id \in Descendants(top)
        THEN [cats[id] EXCEPT !.path = Rebased(@, top), !.level = Len(Rebased(cats[id].path, top))]
        ELSE cats[id]]

\* ... moves the category, unless the index or the length forbids it, ...
Place ==
    /\ job.at = "move"
    /\ LET id == job.id
           to == job.to
           row == Moved(cats[id], to)
       IN  IF IndexForbids(row.name, to, id) \/ Len(row.path) > MaxPath
           THEN /\ job' = Idle
                /\ UNCHANGED cats
           ELSE /\ cats' = [Repathed(row.path) EXCEPT ![id] = row]
                /\ job' = IF to = None THEN Idle ELSE [at |-> "mark", parent |-> to]

\* ... and marks the new parent.
Mark ==
    /\ job.at = "mark"
    /\ cats' = Remarked(job.parent)
    /\ job' = Idle

\* The database or the worker fails between two commits.
Fail ==
    /\ job # Idle
    /\ job' = Idle
    /\ UNCHANGED cats

Next ==
    \/ \E p \in Parents, name \in Names : Create(name, p)
    \/ \E id \in Ids : Insert(id) \/ Repath(id)
    \/ \E id \in DOMAIN cats :
          \/ \E name \in Names : Rename(id, name)
          \/ \E active \in BOOLEAN : SetActive(id, active)
          \/ \E to \in Parents : Move(id, to)
    \/ Place \/ Mark \/ Fail

Spec == Init /\ [][Next]_vars

----------------------------------------------------------------------------
\* Rows hold what they should, every parent exists, and a path has as many names
\* as its level says, one for a root and more for the others.
TypeOK ==
    /\ DOMAIN cats \subseteq Ids
    /\ \A id \in DOMAIN cats :
        /\ cats[id] \in Category /\ Exists(cats[id].parent)
        /\ cats[id].level = Len(cats[id].path) /\ cats[id].level \in 1 .. MaxPath
        /\ cats[id].level = 1 <=> cats[id].parent = None
    /\ job \in Job

\* "Unique constraint: category name must be unique within parent": moves, which
\* do not look for the name, are held to it too.  Roots are not.
SiblingsDiffer ==
    \A i, j \in DOMAIN cats :
        cats[i].parent = cats[j].parent /\ cats[i].parent # None
            /\ cats[i].name = cats[j].name => i = j

\* The leaf flag, which is can_have_items, says what it should.
RightlyFlagged(id) == cats[id].leaf <=> ActiveChildren(id) = {}

\* "Update parent category leaf status based on children": a flag that is right
\* goes wrong only where the child or the new mark is still to come (and may fail
\* to), where a child is activated or deactivated, and where one is moved away,
\* the flag having been computed while it was still there.
FlagsGoWrong ==
    [][\A id \in DOMAIN cats :
        RightlyFlagged(id) /\ ~ RightlyFlagged(id)' =>
            \/ job'.at \in {"insert", "mark"} /\ job'.parent = id
            \/ Place /\ cats[job.id].parent = id
            \/ \E child \in ActiveChildren(id) : ~ cats'[child].active
            \/ \E child \in DOMAIN cats :
                  cats[child].parent = id /\ ~ cats[child].active /\ cats'[child].active]_vars

Current(id) == cats[id].path = PathBelow(cats[id].parent, cats[id].name)

AllCurrent == \A id \in DOMAIN cats : Current(id)

\* Every set of categories has one whose parent is outside.
IsTree == \A S \in (SUBSET DOMAIN cats) \ {{}} : \E id \in S : cats[id].parent \notin S

\* "Validate move operation to prevent cycles": as long as the paths are those of
\* the tree, comparing them keeps a category from being put below itself,
\* itself aside.
CurrentMovesKeepTree ==
    [][Place /\ AllCurrent /\ IsTree /\ job.id # job.to => IsTree']_vars

\* d is given another path because the path of another category, taken for a
\* pattern, matches its path without being above it.
Misled(d) ==
    /\ cats'[d].path # cats[d].path
    /\ \E top \in DOMAIN cats \ {d} :
          /\ Matches(cats'[top].path, cats[d].path)
          /\ ~ IsStrictPrefix(cats'[top].path, cats[d].path)

\* The paths stay those of the tree, whatever fails on the way, as long as what is
\* renamed or moved has no children and is not moved below itself, and its new
\* path is no pattern for that of a category which is not below.
ChildlessChangesKeepPaths ==
    [][AllCurrent =>
        \/ AllCurrent'
        \/ \E id, child \in DOMAIN cats :
              cats'[child].parent = id /\ cats'[id].path # cats[id].path
        \/ \E d \in DOMAIN cats : Misled(d)]_vars

\* "Update paths for all descendants when parent is moved."
DescendantsFollow ==
    [][Place /\ AllCurrent /\ job.id # job.to => AllCurrent']_vars

\* "Update descendant paths after category rename."  Nothing of the kind is due
\* where every path is right, as it is when what was renamed has no children.
NobodyIsMisled == [][\A d \in DOMAIN cats : Repath(d) => ~ AllCurrent]_vars

\* "Update old parent if needed" and "Update new parent if needed", with no
\* failure and no category activated or deactivated.
SteadySpec ==
    Init /\ [][Next /\ ~ Fail /\ \A id \in DOMAIN cats : cats'[id].active = cats[id].active]_vars

FlagsAreRight == job = Idle => \A id \in DOMAIN cats : RightlyFlagged(id)

=============================================================================
