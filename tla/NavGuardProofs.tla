--------------------------- MODULE NavGuardProofs ---------------------------
(***************************************************************************)
(* Proofs about the navigation guard of NavGuard, for every set of         *)
(* locations: the type invariant and the ownership of the router's block  *)
(* slot, whatever onDiscard does; and, when the caller's onDiscard does    *)
(* not throw, that a settled guard intercepts navigation exactly while the *)
(* form is dirty, that closing the confirmation resolves it, and that the  *)
(* hook implements the safety part of GuardSpec.                           *)
(***************************************************************************)
EXTENDS NavGuard, TLAPS

(* The block slot is held only by an effect run that saw a dirty form, and *)
(* an effect run that saw a dirty form still holds it while the form stays *)
(* dirty. This is what InterceptsWhileDirty needs between a commit and the *)
(* effect flush that follows it.                                           *)
BlockTracksEffects ==
    mounted => /\ prompt => effDirty
               /\ effDirty /\ isDirty => prompt

IInv == TypeOK /\ InterceptorOwned /\ BlockTracksEffects

-----------------------------------------------------------------------------
(* A step of the guard keeps every variable in its type.                   *)
LEMMA TypeStep == TypeOK /\ [Next]_vars => TypeOK'
<1> USE GuardAssumption
<1> SUFFICES ASSUME TypeOK, [Next]_vars PROVE TypeOK'
  OBVIOUS
<1>1. ASSUME NEW b \in BOOLEAN, SetDirty(b) PROVE TypeOK'
  BY <1>1 DEF SetDirty, TypeOK
<1>2. CASE FlushEffects
  BY <1>2 DEF FlushEffects, TypeOK
<1>3. ASSUME NEW l \in Locations, Navigate(l) PROVE TypeOK'
  BY <1>3 DEF Navigate, TypeOK, OptLocation
<1>4. ASSUME NEW t \in DiscardThrows, Discard(t) PROVE TypeOK'
  BY <1>4 DEF Discard, TypeOK, OptLocation
<1>5. CASE Cancel
  BY <1>5 DEF Cancel, TypeOK, OptLocation
<1>6. CASE Unmount
  BY <1>6 DEF Unmount, TypeOK
<1>7. CASE Mount
  BY <1>7 DEF Mount, FreshGuard, TypeOK, OptLocation
<1>8. CASE PageUnload
  BY <1>8 DEF PageUnload, FreshGuard, TypeOK, OptLocation
<1>9. CASE UNCHANGED vars
  BY <1>9 DEF vars, TypeOK
<1>10. QED
  BY <1>1, <1>2, <1>3, <1>4, <1>5, <1>6, <1>7, <1>8, <1>9 DEF Next

(* Every reachable state is well typed: in particular a discard only ever *)
(* navigates to a recorded location, never to the null of nextLocation.   *)
LEMMA TypeCorrect == Spec => []TypeOK
<1>1. Init => TypeOK
  BY GuardAssumption DEF Init, TypeOK, OptLocation
<1>2. QED
  BY <1>1, TypeStep, PTL DEF Spec

-----------------------------------------------------------------------------
(* IInv is inductive when onDiscard cannot throw.                          *)
LEMMA IInvInductive ==
  ASSUME ~DiscardMayThrow
  PROVE  IInv /\ [Next]_vars => IInv'
<1> SUFFICES ASSUME IInv, [Next]_vars PROVE IInv'
  OBVIOUS
<1> USE DEF IInv, InterceptorOwned, BlockTracksEffects
<1>1. TypeOK'
  BY TypeStep
<1>2. ASSUME NEW b \in BOOLEAN, SetDirty(b) PROVE IInv'
  BY <1>1, <1>2 DEF SetDirty, Settled, TypeOK
<1>3. CASE FlushEffects
  BY <1>1, <1>3 DEF FlushEffects, TypeOK
<1>4. ASSUME NEW l \in Locations, Navigate(l) PROVE IInv'
  BY <1>1, <1>4 DEF Navigate
<1>5. ASSUME NEW t \in DiscardThrows, Discard(t) PROVE IInv'
  <2>1. t = FALSE
    BY <1>5 DEF DiscardThrows
  <2>2. QED
    BY <1>1, <1>5, <2>1 DEF Discard, TypeOK
<1>6. CASE Cancel
  BY <1>1, <1>6 DEF Cancel
<1>7. CASE Unmount
  BY <1>1, <1>7 DEF Unmount, TypeOK
<1>8. CASE Mount
  BY <1>1, <1>8 DEF Mount, FreshGuard, TypeOK
<1>9. CASE PageUnload
  BY <1>1, <1>9 DEF PageUnload, FreshGuard
<1>10. CASE UNCHANGED vars
  BY <1>1, <1>10 DEF vars
<1>11. QED
  BY <1>2, <1>3, <1>4, <1>5, <1>6, <1>7, <1>8, <1>9, <1>10 DEF Next

(* The block slot is held only by an effect run that saw a dirty form:    *)
(* the half of BlockTracksEffects that a throwing onDiscard cannot break. *)
BlockHeldByEffect == mounted => (prompt => effDirty)

OInv == TypeOK /\ InterceptorOwned /\ BlockHeldByEffect

(* OInv is inductive whatever onDiscard does: a discard that throws has    *)
(* already called and nulled unblockRef.current.                           *)
LEMMA OInvInductive == OInv /\ [Next]_vars => OInv'
<1> SUFFICES ASSUME OInv, [Next]_vars PROVE OInv'
  OBVIOUS
<1> USE DEF OInv, InterceptorOwned, BlockHeldByEffect
<1>1. TypeOK'
  BY TypeStep
<1>2. ASSUME NEW b \in BOOLEAN, SetDirty(b) PROVE OInv'
  BY <1>1, <1>2 DEF SetDirty
<1>3. CASE FlushEffects
  BY <1>1, <1>3 DEF FlushEffects, TypeOK
<1>4. ASSUME NEW l \in Locations, Navigate(l) PROVE OInv'
  BY <1>1, <1>4 DEF Navigate
<1>5. ASSUME NEW t \in DiscardThrows, Discard(t) PROVE OInv'
  BY <1>1, <1>5 DEF Discard, TypeOK
<1>6. CASE Cancel
  BY <1>1, <1>6 DEF Cancel
<1>7. CASE Unmount
  BY <1>1, <1>7 DEF Unmount, TypeOK
<1>8. CASE Mount
  BY <1>1, <1>8 DEF Mount, FreshGuard, TypeOK
<1>9. CASE PageUnload
  BY <1>1, <1>9 DEF PageUnload, FreshGuard
<1>10. CASE UNCHANGED vars
  BY <1>1, <1>10 DEF vars
<1>11. QED
  BY <1>2, <1>3, <1>4, <1>5, <1>6, <1>7, <1>8, <1>9, <1>10 DEF Next

(* The guard holds the router's block slot exactly when unblockRef holds   *)
(* its release function, and never after its component unmounted, even    *)
(* when the caller's onDiscard throws.                                     *)
THEOREM OwnershipSafety == Spec => []InterceptorOwned
<1>1. Init => OInv
  BY GuardAssumption DEF Init, OInv, TypeOK, OptLocation, InterceptorOwned,
     BlockHeldByEffect
<1>2. OInv /\ [Next]_vars => OInv'
  BY OInvInductive
<1>3. OInv => InterceptorOwned
  BY DEF OInv
<1>4. QED
  BY <1>1, <1>2, <1>3, PTL DEF Spec

(* When onDiscard does not throw, a mounted guard whose effects have run   *)
(* blocks navigation exactly while its form is dirty.                      *)
THEOREM InterceptionSafety ==
  ASSUME ~DiscardMayThrow
  PROVE  Spec => []InterceptsWhileDirty
<1>1. Init => IInv
  BY GuardAssumption DEF Init, IInv, TypeOK, OptLocation, InterceptorOwned,
     BlockTracksEffects
<1>2. IInv /\ [Next]_vars => IInv'
  BY IInvInductive
<1>3. IInv => InterceptsWhileDirty
  BY DEF IInv, TypeOK, BlockTracksEffects, InterceptsWhileDirty, Settled
<1>4. QED
  BY <1>1, <1>2, <1>3, PTL DEF Spec

-----------------------------------------------------------------------------
(* While isNavigating is set, nextLocation holds a real target: the block  *)
(* callback sets both, and every reset clears both.                       *)
NavTarget == isNavigating => nextLocation \in Locations

LEMMA NavTargetStep == TypeOK /\ NavTarget /\ [Next]_vars => NavTarget'
<1> SUFFICES ASSUME TypeOK, NavTarget, [Next]_vars PROVE NavTarget'
  OBVIOUS
<1> USE DEF NavTarget
<1>1. ASSUME NEW b \in BOOLEAN, SetDirty(b) PROVE NavTarget'
  BY <1>1 DEF SetDirty
<1>2. CASE FlushEffects
  BY <1>2 DEF FlushEffects
<1>3. ASSUME NEW l \in Locations, Navigate(l) PROVE NavTarget'
  BY <1>3 DEF Navigate
<1>4. ASSUME NEW t \in DiscardThrows, Discard(t) PROVE NavTarget'
  BY <1>4 DEF Discard
<1>5. CASE Cancel
  BY <1>5 DEF Cancel
<1>6. CASE Unmount
  BY <1>6 DEF Unmount
<1>7. CASE Mount \/ PageUnload
  BY <1>7 DEF Mount, PageUnload, FreshGuard
<1>8. CASE UNCHANGED vars
  BY <1>8 DEF vars
<1>9. QED
  BY <1>1, <1>2, <1>3, <1>4, <1>5, <1>6, <1>7, <1>8 DEF Next

(* The invariant the refinement rests on. *)
RInv == IInv /\ NavTarget

(* The abstract guard's variables, as the mapping gives them. *)
LEMMA GVarsMapped ==
  G!gvars = <<mounted, mounted /\ isDirty, prompt,
              IF mounted /\ isNavigating THEN nextLocation ELSE NoLocation,
              location>>
  BY DEF G!gvars

(* Under RInv every step of the hook is a step of GuardSpec or a stutter.  *)
LEMMA StepRefines ==
  ASSUME ~DiscardMayThrow
  PROVE  RInv /\ [Next]_vars => [G!GNext]_G!gvars
<1> SUFFICES ASSUME RInv, [Next]_vars PROVE [G!GNext]_G!gvars
  OBVIOUS
<1> USE GuardAssumption, GVarsMapped
    DEF RInv, IInv, TypeOK, InterceptorOwned, BlockTracksEffects, NavTarget
<1>1. ASSUME NEW b \in BOOLEAN, SetDirty(b) PROVE [G!GNext]_G!gvars
  <2>1. G!SetDirty(b)
    BY <1>1 DEF SetDirty, G!SetDirty
  <2>2. QED
    BY <2>1 DEF G!GNext
<1>2. CASE FlushEffects
  <2>1. CASE isDirty
    <3>1. G!Arm
      BY <1>2, <2>1 DEF FlushEffects, G!Arm
    <3>2. QED
      BY <3>1 DEF G!GNext
  <2>2. CASE ~isDirty /\ prompt
    <3>1. G!Disarm
      BY <1>2, <2>2 DEF FlushEffects, G!Disarm
    <3>2. QED
      BY <3>1 DEF G!GNext
  <2>3. CASE ~isDirty /\ ~prompt
    <3>1. UNCHANGED G!gvars
      BY <1>2, <2>3 DEF FlushEffects, G!gvars
    <3>2. QED
      BY <3>1
  <2>4. QED
    BY <2>1, <2>2, <2>3
<1>3. ASSUME NEW l \in Locations, Navigate(l) PROVE [G!GNext]_G!gvars
  <2>1. G!Navigate(l)
    BY <1>3 DEF Navigate, G!Navigate
  <2>2. QED
    BY <2>1 DEF G!GNext
<1>4. ASSUME NEW t \in DiscardThrows, Discard(t) PROVE [G!GNext]_G!gvars
  <2>1. t = FALSE
    BY <1>4 DEF DiscardThrows
  <2>2. G!Discard
    BY <1>4, <2>1 DEF Discard, ModalOpen, Settled, G!Discard, G!Visible
  <2>3. QED
    BY <2>2 DEF G!GNext
<1>5. CASE Cancel
  <2>1. G!Cancel
    BY <1>5 DEF Cancel, ModalOpen, G!Cancel, G!Visible
  <2>2. QED
    BY <2>1 DEF G!GNext
<1>6. CASE Unmount
  <2>1. G!Unmount
    BY <1>6 DEF Unmount, G!Unmount
  <2>2. QED
    BY <2>1 DEF G!GNext
<1>7. CASE Mount
  <2>1. G!Mount
    BY <1>7 DEF Mount, FreshGuard, G!Mount
  <2>2. QED
    BY <2>1 DEF G!GNext
<1>8. CASE PageUnload
  <2>1. G!Reload
    BY <1>8 DEF PageUnload, FreshGuard, G!Reload
  <2>2. QED
    BY <2>1 DEF G!GNext
<1>9. CASE UNCHANGED vars
  <2>1. UNCHANGED G!gvars
    BY <1>9 DEF vars, G!gvars
  <2>2. QED
    BY <2>1
<1>10. QED
  BY <1>1, <1>2, <1>3, <1>4, <1>5, <1>6, <1>7, <1>8, <1>9 DEF Next

(* When onDiscard does not throw, the hook implements the safety part of   *)
(* GuardSpec: a navigation while the block is held is captured, the        *)
(* location changes only by an unblocked navigation or by a discard to the *)
(* captured target, and cancel keeps the router armed.                     *)
THEOREM GuardImplementation ==
  ASSUME ~DiscardMayThrow
  PROVE  Spec => G!SafeSpec
<1>1. Init => RInv
  BY GuardAssumption DEF Init, RInv, IInv, TypeOK, OptLocation,
     InterceptorOwned, BlockTracksEffects, NavTarget
<1>2. RInv /\ [Next]_vars => RInv'
  BY IInvInductive, NavTargetStep DEF RInv, IInv
<1>3. Init => G!GInit
  BY DEF Init, G!GInit
<1>4. RInv /\ [Next]_vars => [G!GNext]_G!gvars
  BY StepRefines
<1>5. QED
  BY <1>1, <1>2, <1>3, <1>4, PTL DEF Spec, G!SafeSpec

-----------------------------------------------------------------------------
(* The step that ConfirmationResolved constrains, as a formula of its own. *)
Resolved ==
    ModalOpen /\ ~isNavigating' /\ ~PageUnload =>
        IF isDirty' THEN location' = location /\ prompt'
                    ELSE location' = nextLocation

(* Under RInv every step that closes the confirmation resolves it: a       *)
(* discard lands on the captured target, a cancel keeps the block, and a   *)
(* remount after the modal's owner unmounted is a page reload step.        *)
LEMMA ResolvedStep ==
  ASSUME ~DiscardMayThrow
  PROVE  RInv /\ [Next]_vars => [Resolved]_vars
<1> SUFFICES ASSUME RInv, [Next]_vars PROVE [Resolved]_vars
  OBVIOUS
<1> USE GuardAssumption
    DEF RInv, IInv, TypeOK, InterceptorOwned, BlockTracksEffects, NavTarget
<1>1. ASSUME NEW b \in BOOLEAN, SetDirty(b) PROVE Resolved
  BY <1>1 DEF SetDirty, Resolved, ModalOpen
<1>2. CASE FlushEffects
  BY <1>2 DEF FlushEffects, Resolved, ModalOpen
<1>3. ASSUME NEW l \in Locations, Navigate(l) PROVE Resolved
  BY <1>3 DEF Navigate, Resolved, ModalOpen
<1>4. ASSUME NEW t \in DiscardThrows, Discard(t) PROVE Resolved
  <2>1. t = FALSE
    BY <1>4 DEF DiscardThrows
  <2>2. SUFFICES ASSUME ModalOpen PROVE location' = nextLocation /\ ~isDirty'
    BY DEF Resolved
  <2>3. ~prompt' /\ ~isDirty'
    BY <1>4, <2>1 DEF Discard
  <2>4. nextLocation \in Locations
    BY <2>2 DEF ModalOpen
  <2>5. QED
    BY <1>4, <2>3, <2>4 DEF Discard
<1>5. CASE Cancel
  <2>1. prompt
    BY <1>5 DEF Cancel, Settled, ModalOpen
  <2>2. QED
    BY <1>5, <2>1 DEF Cancel, Resolved, ModalOpen
<1>6. CASE Unmount
  BY <1>6 DEF Unmount, Resolved, ModalOpen
<1>7. CASE Mount
  <2>1. ~mounted /\ ~prompt
    BY <1>7 DEF Mount
  <2>2. PageUnload
    BY <1>7, <2>1 DEF Mount, PageUnload
  <2>3. QED
    BY <2>2 DEF Resolved
<1>8. CASE PageUnload
  BY <1>8 DEF Resolved
<1>9. CASE UNCHANGED vars
  BY <1>9 DEF vars
<1>10. QED
  BY <1>1, <1>2, <1>3, <1>4, <1>5, <1>6, <1>7, <1>8, <1>9 DEF Next

(* When onDiscard does not throw, closing the confirmation resolves it:    *)
(* discardAndConfirmNavigation ends clean at the captured nextLocation,    *)
(* and cancelNavigation stays at the current location with the history    *)
(* block still installed.                                                  *)
THEOREM ConfirmationResolvedHolds ==
  ASSUME ~DiscardMayThrow
  PROVE  Spec => ConfirmationResolved
<1>1. Init => RInv
  BY GuardAssumption DEF Init, RInv, IInv, TypeOK, OptLocation,
     InterceptorOwned, BlockTracksEffects, NavTarget
<1>2. RInv /\ [Next]_vars => RInv'
  BY IInvInductive, NavTargetStep DEF RInv, IInv
<1>3. RInv /\ [Next]_vars => [Resolved]_vars
  BY ResolvedStep
<1>4. QED
  BY <1>1, <1>2, <1>3, PTL DEF Spec, ConfirmationResolved, Resolved

=============================================================================
