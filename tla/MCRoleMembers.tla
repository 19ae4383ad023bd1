--------------------------- MODULE MCRoleMembers ---------------------------
(* TLC instance of RoleMembers: the users list with two members; the     *)
(* groups code is the same code with other hooks.                         *)
EXTENDS RoleMembers

CONSTANTS u1, u2

MCMembers == {u1, u2}
MCUsersOnly == {"user"}
=============================================================================
