--------------------------- MODULE MCResolverCache ---------------------------
(* Small instances of ResolverCache for TLC. *)
EXTENDS ResolverCache

BothKinds == <<"channels", "users">>
UsersOnly == <<"users">>

\* Users change, channels do not: the kinds are treated alike.
UsersChange == [channels |-> 0, users |-> 1]
OneChange == [users |-> 1]
=============================================================================
