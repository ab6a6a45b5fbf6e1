------------------------- MODULE MCRbacPermissions -------------------------
(* A caller g and another user u; permission p requires d. *)
EXTENDS RbacPermissions, TLC

CONSTANTS g, u, p, d, r

McUsers == {g, u}
McPerms == {p, d}
McNeeds == p :> {d} @@ d :> {}
McManages == {<<g, u>>}
McApproves == {g} \X McPerms

Grant(codes_) == [op |-> "grant", by |-> g, user |-> u, codes |-> codes_, until |-> "live"]

\* One call of every kind.
EveryCall ==
    {Grant(<<p>>),
     [op |-> "extend", by |-> g, user |-> u, codes |-> <<p>>, until |-> "live"],
     [op |-> "revoke", by |-> g, user |-> u, codes |-> <<p>>],
     [op |-> "warm", user |-> u, codes |-> <<>>],
     [op |-> "add_role", user |-> u, role |-> r, codes |-> <<>>],
     [op |-> "drop_role", user |-> u, role |-> r, codes |-> <<>>],
     [op |-> "give_role", role |-> r, codes |-> <<p>>]}

OneGrant == {Grant(<<p>>)}

\* The grant, and calls that cache what it looks up.
GrantAndLookups ==
    {Grant(<<p>>),
     [op |-> "warm", user |-> u, codes |-> <<>>],
     [op |-> "revoke", by |-> g, user |-> u, codes |-> <<p>>]}
BulkGrant == {Grant(<<d, p>>)}

\* The caller holds p; the role brings what p requires, and may
\* come to bring p.
CallerHoldsP == [k \in McUsers \X McPerms |-> IF k = <<g, p>> THEN "open" ELSE "none"]
RoleHasNeed == {<<r, d>>}
McEdits == {<<u, r>>, <<r, p>>}

\* The caller holds both permissions, and the other user what p requires.
CallerAndNeed == [k \in McUsers \X McPerms |-> IF k = <<u, p>> THEN "none" ELSE "open"]

\* The other user holds nothing.
CallerHolds == [k \in McUsers \X McPerms |-> IF k[1] = g THEN "open" ELSE "none"]

RequestSymmetry == Permutations(Requests)
=============================================================================
