----------------------------- MODULE OrmSession -----------------------------
(***************************************************************************)
(* What one request's AsyncSession does to a row it has loaded.            *)
(*                                                                         *)
(* app/db/session.py gives every request a session of its own, made with   *)
(* autoflush=False and expire_on_commit=False.  A service method loads a   *)
(* row, computes on the Python object, and commits.  SQLAlchemy's UPDATE   *)
(* names only the columns whose value differs from the one loaded, takes   *)
(* no lock before it and checks no version: the columns it names overwrite *)
(* what other requests committed meanwhile, the others keep it.            *)
(***************************************************************************)

\* Mutant: the UPDATE names every column, changed or not.
Overwritten(db, seen, new) == new

\* The value a column has in the database after the UPDATE: db before it,
\* seen when the row was loaded, new on the Python object at commit.
Written(db, seen, new) == IF new = seen THEN db ELSE new

\* The same for a whole row, column by column.
Merged(db, seen, new) == [c \in DOMAIN db |-> Written(db[c], seen[c], new[c])]

=============================================================================
