---------------------------- MODULE MCRoleEditor ----------------------------
(* Model-checking instance of RoleEditor: two role names, two Save clicks. *)
EXTENDS RoleEditor

CONSTANTS n1, n2

MCNames == {n1, n2}

=============================================================================
