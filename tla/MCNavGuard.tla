----------------------------- MODULE MCNavGuard -----------------------------
(* Model-checking instance of NavGuard: three route targets as model       *)
(* values, the page loaded at the first.                                   *)
EXTENDS NavGuard

CONSTANTS l1, l2, l3

MCLocations == {l1, l2, l3}

MCStart == l1

=============================================================================
