------------------------------ MODULE GuardSpec ------------------------------
(***************************************************************************)
(* What the unsaved-changes guard promises the form that uses it and the   *)
(* router it talks to, without React's machinery: a form is dirty or not, *)
(* the router is armed (navigations are captured) or not, a captured      *)
(* target waits in pending until the user discards or cancels.            *)
(*                                                                         *)
(* Arming and disarming are steps of their own, after the form changed    *)
(* its dirty flag: the guard follows the flag, it is not the flag. A      *)
(* navigation while armed is captured whatever the flag says; the         *)
(* location changes only by a navigation while disarmed or by a discard,  *)
(* which goes to the captured target.                                     *)
(***************************************************************************)
CONSTANTS Locations, NoLocation, Start

VARIABLES
    mounted,   \* a form using the guard is mounted
    dirty,     \* the form's dirty flag
    armed,     \* the router captures navigations
    pending,   \* the captured target, NoLocation when there is none
    location   \* the current location

gvars == <<mounted, dirty, armed, pending, location>>

(* The confirmation is visible. *)
Visible == dirty /\ pending # NoLocation

GInit ==
    /\ mounted = TRUE
    /\ dirty = FALSE
    /\ armed = FALSE
    /\ pending = NoLocation
    /\ location = Start

(* The form sets its dirty flag. *)
SetDirty(b) ==
    /\ mounted
    /\ dirty' = b
    /\ UNCHANGED <<mounted, armed, pending, location>>

(* The guard catches up with a dirty flag: it arms, or disarms. *)
Arm ==
    /\ mounted /\ dirty /\ ~armed
    /\ armed' = TRUE
    /\ UNCHANGED <<mounted, dirty, pending, location>>

Disarm ==
    /\ ~dirty /\ armed
    /\ armed' = FALSE
    /\ UNCHANGED <<mounted, dirty, pending, location>>

(* A navigation to l: captured while armed, made otherwise. *)
Navigate(l) ==
    /\ IF armed
         THEN pending' = l /\ UNCHANGED location
         ELSE location' = l /\ UNCHANGED pending
    /\ UNCHANGED <<mounted, dirty, armed>>

(* The user discards: disarm, go to the captured target, clean form. *)
Discard ==
    /\ Visible
    /\ location' = pending
    /\ pending' = NoLocation
    /\ armed' = FALSE
    /\ dirty' = FALSE
    /\ UNCHANGED mounted

(* The user cancels: the target is dropped, the form stays dirty and the *)
(* router armed.                                                          *)
Cancel ==
    /\ Visible
    /\ pending' = NoLocation
    /\ UNCHANGED <<mounted, dirty, armed, location>>

(* The form goes away, taking its guard with it. *)
Unmount ==
    /\ mounted
    /\ mounted' = FALSE
    /\ dirty' = FALSE
    /\ armed' = FALSE
    /\ pending' = NoLocation
    /\ UNCHANGED location

Mount ==
    /\ ~mounted
    /\ mounted' = TRUE
    /\ dirty' = FALSE
    /\ pending' = NoLocation
    /\ UNCHANGED <<armed, location>>

(* The page is reloaded where it is, with a fresh form and router. *)
Reload ==
    /\ mounted' = TRUE
    /\ dirty' = FALSE
    /\ armed' = FALSE
    /\ pending' = NoLocation
    /\ UNCHANGED location

GNext ==
    \/ \E b \in BOOLEAN : SetDirty(b)
    \/ Arm \/ Disarm
    \/ \E l \in Locations : Navigate(l)
    \/ Discard \/ Cancel
    \/ Unmount \/ Mount \/ Reload

SafeSpec == GInit /\ [][GNext]_gvars

(* The guard is not left behind its flag for ever. *)
GSpec == SafeSpec /\ WF_gvars(Arm \/ Disarm)

=============================================================================
