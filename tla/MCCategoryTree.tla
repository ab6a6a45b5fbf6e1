--------------------------- MODULE MCCategoryTree ---------------------------
(* CategoryTree on a small instance.  The name x stands for one that consists *)
(* of a "%", which matches any part of a path; y is an ordinary name.         *)
EXTENDS CategoryTree, TLC

CONSTANTS x, y

McNames == {x, y}

Wildcard ==
    x :> UNION {[1 .. n -> McNames] : n \in 1 .. MaxPath} @@ y :> {<<y>>}

OrdinaryNames == [name \in McNames |-> {<<name>>}]

Interchangeable == Permutations(Ids)

=============================================================================
