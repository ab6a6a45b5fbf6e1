--------------------------- MODULE MCRoleHierarchy ---------------------------
(* RoleHierarchy on a small instance. *)
EXTENDS RoleHierarchy

CONSTANTS a, b, c

\* A ring of three, a chord against it and a role linked to itself.
MostPairs == {<<a, b>>, <<b, c>>, <<c, a>>, <<b, a>>, <<a, a>>}

=============================================================================
