------------------------------ MODULE NavGuard ------------------------------
(***************************************************************************)
(* The unsaved-changes navigation guard, useFormNotSavedModal              *)
(* (src/frontend/web/components/hooks/useFormNotSavedModal.tsx), together  *)
(* with the two pieces of its environment it reads and writes: the         *)
(* router's single "block transitions" slot and the current location.     *)
(*                                                                         *)
(* React semantics kept by the model:                                      *)
(*  - the setState calls of one handler are batched and committed together *)
(*    (one action);                                                        *)
(*  - the two useEffect bodies (history.block and the beforeunload         *)
(*    listener, both depending on isDirty) run after the commit, as a      *)
(*    separate step FlushEffects; React flushes pending passive effects    *)
(*    before it renders again and before it dispatches a discrete user     *)
(*    event, so every action that sets React state or is a click requires *)
(*    Settled;                                                             *)
(*  - router navigations that do not come from a React event (browser      *)
(*    back/forward, pushes from timers or promises) and closing the tab    *)
(*    may happen at any time, effects pending or not.                      *)
(***************************************************************************)
EXTENDS Naturals

CONSTANTS
    Locations,       \* the route targets (path + query) a navigation may go to
    NoLocation,      \* the null of nextLocation
    Start,           \* the location the page is loaded at
    DiscardMayThrow  \* whether the caller's onDiscard callback may throw

ASSUME GuardAssumption ==
    /\ Start \in Locations
    /\ NoLocation \notin Locations
    /\ DiscardMayThrow \in BOOLEAN

VARIABLES
    mounted,       \* the component owning the hook is mounted
    isDirty,       \* useState isDirty
    isNavigating,  \* useState isNavigating
    nextLocation,  \* useState nextLocation (NoLocation for null)
    effDirty,      \* the isDirty value the two effects last ran with
    unblockRef,    \* unblockRef.current is non-null
    prompt,        \* the router's block slot holds the guard's callback
    location,      \* the router's current location
    unwarnedExit   \* history: the dirty form was left without any warning

vars == <<mounted, isDirty, isNavigating, nextLocation, effDirty,
          unblockRef, prompt, location, unwarnedExit>>

OptLocation == Locations \cup {NoLocation}

TypeOK ==
    /\ mounted \in BOOLEAN
    /\ isDirty \in BOOLEAN
    /\ isNavigating \in BOOLEAN
    /\ nextLocation \in OptLocation
    /\ effDirty \in BOOLEAN
    /\ unblockRef \in BOOLEAN
    /\ prompt \in BOOLEAN
    /\ location \in Locations
    /\ unwarnedExit \in BOOLEAN

(* <Modal isOpen={isDirty && isNavigating}> *)
ModalOpen == isDirty /\ isNavigating

(* No effect is waiting to run for the last committed isDirty. *)
Settled == ~mounted \/ effDirty = isDirty

(* The outcomes of the caller's onDiscard: TRUE when it throws.          *)
DiscardThrows == IF DiscardMayThrow THEN BOOLEAN ELSE {FALSE}

(* handleBeforeUnload is registered and the isDirty it closed over is true *)
UnloadArmed == mounted /\ effDirty

(* A fresh instance of the hook, as first rendered and effects run: the    *)
(* block effect returned early and the listener holds isDirty = false.     *)
FreshGuard ==
    /\ mounted' = TRUE
    /\ isDirty' = FALSE
    /\ isNavigating' = FALSE
    /\ nextLocation' = NoLocation
    /\ effDirty' = FALSE
    /\ unblockRef' = FALSE

Init ==
    /\ mounted = TRUE
    /\ isDirty = FALSE
    /\ isNavigating = FALSE
    /\ nextLocation = NoLocation
    /\ effDirty = FALSE
    /\ unblockRef = FALSE
    /\ prompt = FALSE
    /\ location = Start
    /\ unwarnedExit = FALSE

-----------------------------------------------------------------------------
(* The owning form calls the returned setter setIsDirty(b).                *)
SetDirty(b) ==
    /\ mounted
    /\ Settled
    /\ b # isDirty
    /\ isDirty' = b
    /\ UNCHANGED <<mounted, isNavigating, nextLocation, effDirty,
                   unblockRef, prompt, location, unwarnedExit>>

(* Mutant: the block effect installs the blocker without first running the *)
(* cleanup of the previous run, so leaving the dirty state keeps it.       *)
FlushEffectsNoCleanup ==
    /\ mounted
    /\ effDirty # isDirty
    /\ effDirty' = isDirty
    /\ IF isDirty THEN prompt' = TRUE /\ unblockRef' = TRUE
                  ELSE UNCHANGED <<prompt, unblockRef>>
    /\ UNCHANGED <<mounted, isDirty, isNavigating, nextLocation,
                   location, unwarnedExit>>

(* The passive effects of the last commit run. The block effect first runs *)
(* the cleanup of its previous run (which exists iff that run saw isDirty):*)
(* it calls unblockRef.current if set and nulls it; then, when isDirty, it *)
(* calls history.block and stores the unblock function. The beforeunload   *)
(* effect re-registers handleBeforeUnload closing over the new isDirty.    *)
FlushEffects ==
    /\ mounted
    /\ effDirty # isDirty
    /\ effDirty' = isDirty
    /\ IF isDirty
         THEN /\ prompt' = TRUE
              /\ unblockRef' = TRUE
         ELSE /\ prompt' = (prompt /\ ~unblockRef)
              /\ unblockRef' = FALSE
    /\ UNCHANGED <<mounted, isDirty, isNavigating, nextLocation,
                   location, unwarnedExit>>

(* A navigation to l reaches the router. If the guard's callback holds the *)
(* block slot it records the transition, sets isNavigating and returns     *)
(* false, vetoing it; otherwise the location changes.                      *)
Navigate(l) ==
    /\ l \in Locations
    /\ IF prompt
         THEN /\ nextLocation' = l
              /\ isNavigating' = TRUE
              /\ UNCHANGED <<location, unwarnedExit>>
         ELSE /\ location' = l
              /\ unwarnedExit' = (unwarnedExit \/ (mounted /\ isDirty /\ l # location))
              /\ UNCHANGED <<nextLocation, isNavigating>>
    /\ UNCHANGED <<mounted, isDirty, effDirty, unblockRef, prompt>>

(* Mutant: discardAndConfirmNavigation pushes the target before releasing  *)
(* the blocker, so its own blocker vetoes the push.                        *)
DiscardPushFirst(throws) ==
    /\ mounted
    /\ Settled
    /\ ModalOpen
    /\ prompt' = (prompt /\ ~unblockRef)
    /\ unblockRef' = FALSE
    /\ IF nextLocation # NoLocation /\ ~prompt
         THEN location' = nextLocation
         ELSE UNCHANGED location
    /\ IF throws
         THEN UNCHANGED <<isDirty, isNavigating, nextLocation>>
         ELSE /\ isDirty' = FALSE
              /\ isNavigating' = FALSE
              /\ nextLocation' = NoLocation
    /\ UNCHANGED <<mounted, effDirty, unwarnedExit>>

(* The user clicks "Yes, discard changes". The handler calls and nulls     *)
(* unblockRef.current, pushes nextLocation (which the released router now  *)
(* lets through), calls onDiscard, then sets isDirty, isNavigating and     *)
(* nextLocation back. When onDiscard throws, the three setState calls      *)
(* after it never run.                                                     *)
Discard(throws) ==
    /\ mounted
    /\ Settled
    /\ ModalOpen
    /\ prompt' = (prompt /\ ~unblockRef)
    /\ unblockRef' = FALSE
    /\ IF nextLocation # NoLocation /\ ~prompt'
         THEN location' = nextLocation
         ELSE UNCHANGED location
    /\ IF throws
         THEN UNCHANGED <<isDirty, isNavigating, nextLocation>>
         ELSE /\ isDirty' = FALSE
              /\ isNavigating' = FALSE
              /\ nextLocation' = NoLocation
    /\ UNCHANGED <<mounted, effDirty, unwarnedExit>>

(* Mutant: cancelNavigation first releases the blocker, as the discard     *)
(* handler does.                                                           *)
CancelUnblocking ==
    /\ mounted
    /\ Settled
    /\ ModalOpen
    /\ prompt' = (prompt /\ ~unblockRef)
    /\ unblockRef' = FALSE
    /\ isNavigating' = FALSE
    /\ nextLocation' = NoLocation
    /\ UNCHANGED <<mounted, isDirty, effDirty, location, unwarnedExit>>

(* The user clicks Cancel, or toggles the modal away. history.push of the  *)
(* current path+query either meets the guard's own blocker (whose callback *)
(* sets nextLocation and isNavigating, overwritten by the two setState     *)
(* calls that follow in the same batch) or lands on the same location.     *)
Cancel ==
    /\ mounted
    /\ Settled
    /\ ModalOpen
    /\ isNavigating' = FALSE
    /\ nextLocation' = NoLocation
    /\ UNCHANGED <<mounted, isDirty, effDirty, unblockRef, prompt,
                   location, unwarnedExit>>

(* Mutant: unmounting without running the block effect's cleanup.          *)
UnmountLeaking ==
    /\ mounted
    /\ Settled
    /\ mounted' = FALSE
    /\ UNCHANGED <<isDirty, isNavigating, nextLocation, effDirty,
                   unblockRef, prompt, location, unwarnedExit>>

(* The owner unmounts the hook's component: React runs the cleanups of the *)
(* last effect runs. The block cleanup exists iff that run saw isDirty.    *)
Unmount ==
    /\ mounted
    /\ Settled
    /\ mounted' = FALSE
    /\ IF effDirty
         THEN /\ prompt' = (prompt /\ ~unblockRef)
              /\ unblockRef' = FALSE
         ELSE UNCHANGED <<prompt, unblockRef>>
    /\ UNCHANGED <<isDirty, isNavigating, nextLocation, effDirty,
                   location, unwarnedExit>>

(* A form using the hook is mounted again: a new instance of its state.    *)
Mount ==
    /\ ~mounted
    /\ FreshGuard
    /\ UNCHANGED <<prompt, location, unwarnedExit>>

(* The tab is closed or reloaded. beforeunload runs the registered         *)
(* handler, which prompts iff the isDirty it closed over is true; the user *)
(* may leave anyway. The page is then loaded afresh at the same location,  *)
(* with a new history (no block) and a new instance of the hook.           *)
PageUnload ==
    /\ FreshGuard
    /\ prompt' = FALSE
    /\ unwarnedExit' = (unwarnedExit \/ (mounted /\ isDirty /\ ~UnloadArmed))
    /\ UNCHANGED location

Next ==
    \/ \E b \in BOOLEAN : SetDirty(b)
    \/ FlushEffects
    \/ \E l \in Locations : Navigate(l)
    \/ \E t \in DiscardThrows : Discard(t)
    \/ Cancel
    \/ Unmount
    \/ Mount
    \/ PageUnload

(* React always flushes pending passive effects; nothing else is owed.     *)
Spec == Init /\ [][Next]_vars /\ WF_vars(FlushEffects)

-----------------------------------------------------------------------------
(* The guard holds the router's single block slot exactly when its         *)
(* unblockRef holds the release function, and only while mounted: the     *)
(* discard handler, the effect cleanup and the unmount cleanup never lose  *)
(* or leak the interceptor (spec §3 InterceptHandle, P4).                  *)
InterceptorOwned ==
    /\ prompt <=> unblockRef
    /\ unblockRef => mounted

(* Once the effects have caught up, navigation is intercepted exactly when *)
(* the form is dirty (spec §4.1 items 1, 2, 6): no discard or save path    *)
(* leaves a dirty form unguarded or a clean form blocked.                  *)
InterceptsWhileDirty ==
    mounted /\ Settled => (prompt <=> isDirty)

(* Closing the confirmation: a step that hides it and leaves the form      *)
(* clean went to the captured target (spec P2); one that hides it and      *)
(* leaves the form dirty stayed put and kept the interceptor (spec P3).    *)
ConfirmationResolved ==
    [][ModalOpen /\ ~isNavigating' /\ ~PageUnload =>
         IF isDirty' THEN location' = location /\ prompt'
                     ELSE location' = nextLocation]_vars

(* A dirty form is eventually guarded by the router block (or is no longer *)
(* dirty, or gone): the block effect is not starved.                       *)
DirtyEventuallyIntercepted ==
    mounted /\ isDirty ~> (prompt \/ ~isDirty \/ ~mounted)

(* Spec §5: every navigation attempt and every tab close made while the    *)
(* mounted form is dirty is intercepted or warned about.                   *)
NoUnwarnedExit == ~unwarnedExit

(* The refinement mapping: the guard as GuardSpec sees it. The router is  *)
(* armed while the block slot holds the guard's callback; a target is      *)
(* pending while the mounted hook's isNavigating is set.                   *)
G == INSTANCE GuardSpec WITH
        dirty <- mounted /\ isDirty,
        armed <- prompt,
        pending <- IF mounted /\ isNavigating THEN nextLocation ELSE NoLocation

(* The hook implements GuardSpec: every step is a step of the abstract     *)
(* guard or leaves its state alone, and a dirty form is armed and a clean  *)
(* one disarmed in the end (spec §4.1).                                    *)
GuardRefinement == G!GSpec

(* Spec §3: nextLocation is set only while the confirmation is showing.    *)
PendingOnlyWhileConfirming ==
    nextLocation # NoLocation => ModalOpen

=============================================================================
