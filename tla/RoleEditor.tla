----------------------------- MODULE RoleEditor -----------------------------
(***************************************************************************)
(* The role details part of the CreateRole modal                           *)
(* (src/frontend/web/components/modals/CreateRole.tsx): Tab1 (name and    *)
(* description, their "changed" flags, save through the create or update  *)
(* mutation, the success effect that calls onComplete), TabValue's tab     *)
(* switch and close interceptor with their "Discard changes" confirms, and *)
(* the role as the server holds it.                                        *)
(*                                                                         *)
(* TabValue and Tab1 are components defined inside CreateRole's render     *)
(* function: every render of CreateRole gives them a new component type,   *)
(* so React unmounts and remounts them, and Tab1's local state and its     *)
(* mutation hooks start afresh (Remount). The description's value is      *)
(* abstracted away: only its "changed" flag steers the code.               *)
(***************************************************************************)
EXTENDS Naturals, FiniteSets

CONSTANTS
    Names,     \* role names the user may type
    Empty,     \* the empty name ''
    MaxSaves   \* bound on Save clicks over a behaviour

ASSUME EditorAssumption ==
    /\ Empty \notin Names
    /\ Names # {}
    /\ MaxSaves \in Nat \ {0}

(* Tabs of the edit view: Role, Members, Organisation, Project, Environment *)
Tabs == 0..4

NoDialog == [kind |-> "none"]
CloseDialog == [kind |-> "close"]
TabDialog(t) == [kind |-> "tab", to |-> t]
Dialogs == {NoDialog, CloseDialog} \cup {TabDialog(t) : t \in Tabs}

Requests == [id : 1..MaxSaves, kind : {"create", "edit"},
             name : Names, tracked : BOOLEAN]

VARIABLES
    isOpen,          \* the CreateRole modal is shown
    isEdit,          \* CreateRole's isEdit prop
    tab,             \* CreateRole's tab state
    roleName,        \* Tab1's roleName
    roleNameChanged, \* Tab1's roleNameChanged
    roleDescChanged, \* Tab1's roleDescChanged
    dialog,          \* the openConfirm dialog on screen
    inflight,        \* create/update requests sent and not yet answered
    serverName,      \* the role's name on the server (edit view)
    created,         \* roles created on the server
    saves,           \* Save clicks so far
    completed,       \* onComplete has been called for this modal
    lostEdit         \* history: unsaved edits of an edit view vanished
                     \* without the user confirming a discard

vars == <<isOpen, isEdit, tab, roleName, roleNameChanged, roleDescChanged,
          dialog, inflight, serverName, created, saves, completed, lostEdit>>

TypeOK ==
    /\ isOpen \in BOOLEAN
    /\ isEdit \in BOOLEAN
    /\ tab \in Tabs
    /\ roleName \in Names \cup {Empty}
    /\ roleNameChanged \in BOOLEAN
    /\ roleDescChanged \in BOOLEAN
    /\ dialog \in Dialogs
    /\ inflight \subseteq Requests
    /\ serverName \in Names
    /\ created \in 0..MaxSaves
    /\ saves \in 0..MaxSaves
    /\ completed \in BOOLEAN
    /\ lostEdit \in BOOLEAN

(* tabChanged() of Tab1's imperative handle *)
TabChanged == roleNameChanged \/ roleDescChanged

(* Tab1 is on screen and accepts input *)
Tab1Shown == isOpen /\ dialog = NoDialog /\ (~isEdit \/ tab = 0)

(* The name a freshly mounted Tab1 shows: the role's, once the edit view's *)
(* load effect has run, '' in the create view.                            *)
MountedName(edit) == IF edit THEN serverName ELSE Empty

(* A fresh Tab1: new useState values, new mutation hooks that track no     *)
(* request.                                                                *)
FreshTab1(edit) ==
    /\ roleName' = MountedName(edit)
    /\ roleNameChanged' = FALSE
    /\ roleDescChanged' = FALSE
    /\ inflight' = {[r EXCEPT !.tracked = FALSE] : r \in inflight}

Init ==
    /\ isOpen = TRUE
    /\ isEdit \in BOOLEAN
    /\ tab = 0
    /\ \E n \in Names : serverName = n
    /\ roleName = MountedName(isEdit)
    /\ roleNameChanged = FALSE
    /\ roleDescChanged = FALSE
    /\ dialog = NoDialog
    /\ inflight = {}
    /\ created = 0
    /\ saves = 0
    /\ completed = FALSE
    /\ lostEdit = FALSE

-----------------------------------------------------------------------------
(* onChange of the "Role name" input.                                      *)
EditName(n) ==
    /\ Tab1Shown
    /\ n # roleName
    /\ roleName' = n
    /\ roleNameChanged' = TRUE
    /\ UNCHANGED <<isOpen, isEdit, tab, roleDescChanged, dialog, inflight,
                   serverName, created, saves, completed, lostEdit>>

(* onChange of the "Role Description" input.                               *)
EditDesc ==
    /\ Tab1Shown
    /\ ~roleDescChanged
    /\ roleDescChanged' = TRUE
    /\ UNCHANGED <<isOpen, isEdit, tab, roleName, roleNameChanged, dialog,
                   inflight, serverName, created, saves, completed, lostEdit>>

(* Mutant: the Save button without the !roleName check.                  *)
SaveUnguarded ==
    /\ Tab1Shown
    /\ saves < MaxSaves
    /\ saves' = saves + 1
    /\ inflight' = {[r EXCEPT !.tracked = FALSE] : r \in inflight}
                   \cup {[id |-> saves + 1,
                          kind |-> IF isEdit THEN "edit" ELSE "create",
                          name |-> roleName, tracked |-> TRUE]}
    /\ UNCHANGED <<isOpen, isEdit, tab, roleName, roleNameChanged,
                   roleDescChanged, dialog, serverName, created, completed,
                   lostEdit>>

(* The Save button, disabled={isSaving || !roleName}. isSaving is never    *)
(* set to true, so only an empty name disables it. save() sends editRole   *)
(* or createRole; the mutation hook then tracks this request only.         *)
Save ==
    /\ Tab1Shown
    /\ roleName # Empty
    /\ saves < MaxSaves
    /\ saves' = saves + 1
    /\ inflight' = {[r EXCEPT !.tracked = FALSE] : r \in inflight}
                   \cup {[id |-> saves + 1,
                          kind |-> IF isEdit THEN "edit" ELSE "create",
                          name |-> roleName, tracked |-> TRUE]}
    /\ UNCHANGED <<isOpen, isEdit, tab, roleName, roleNameChanged,
                   roleDescChanged, dialog, serverName, created, completed,
                   lostEdit>>

(* The server answers request r with success. If the mounted Tab1's hook   *)
(* tracks r, isSuccess turns true and the success effect clears both       *)
(* changed flags, clears isSaving and calls onComplete.                    *)
Succeed(r) ==
    /\ r \in inflight
    /\ inflight' = inflight \ {r}
    /\ IF r.kind = "edit"
         THEN serverName' = r.name /\ UNCHANGED created
         ELSE created' = created + 1 /\ UNCHANGED serverName
    /\ IF r.tracked /\ isOpen
         THEN /\ roleNameChanged' = FALSE
              /\ roleDescChanged' = FALSE
              /\ completed' = TRUE
         ELSE UNCHANGED <<roleNameChanged, roleDescChanged, completed>>
    /\ UNCHANGED <<isOpen, isEdit, tab, roleName, dialog, saves, lostEdit>>

(* The server answers request r with an error: nothing in Tab1 reacts.    *)
Fail(r) ==
    /\ r \in inflight
    /\ inflight' = inflight \ {r}
    /\ UNCHANGED <<isOpen, isEdit, tab, roleName, roleNameChanged,
                   roleDescChanged, dialog, serverName, created, saves,
                   completed, lostEdit>>

(* CreateRole renders again for a reason outside Tab1 (a member list query *)
(* resolving, a member added or removed, the parent re-rendering): TabValue *)
(* and Tab1 are new component types, so Tab1 is remounted.                *)
Remount ==
    /\ isOpen
    /\ FreshTab1(isEdit)
    /\ lostEdit' = (lostEdit \/ (isEdit /\ TabChanged))
    /\ UNCHANGED <<isOpen, isEdit, tab, dialog, serverName, created, saves,
                   completed>>

(* Tabs' onChange, changeTab(newTab): if Tab1 reports changes and the tab  *)
(* differs, open the "Changing this tab will discard" confirm; otherwise   *)
(* setTab(newTab), which re-renders CreateRole and remounts Tab1 (setting  *)
(* the same tab is a bail-out with no render).                             *)
ChangeTab(t) ==
    /\ isOpen /\ isEdit /\ dialog = NoDialog
    /\ t \in Tabs
    /\ IF TabChanged /\ t # tab
         THEN /\ dialog' = TabDialog(t)
              /\ UNCHANGED <<tab, roleName, roleNameChanged, roleDescChanged,
                             inflight>>
         ELSE /\ t # tab
              /\ tab' = t
              /\ FreshTab1(isEdit)
              /\ UNCHANGED dialog
    /\ UNCHANGED <<isOpen, isEdit, serverName, created, saves, completed,
                   lostEdit>>

(* Mutant: onClosing consults roleNameChanged only.                        *)
CloseModalNameOnly ==
    /\ isOpen /\ dialog = NoDialog
    /\ IF isEdit /\ roleNameChanged
         THEN dialog' = CloseDialog /\ UNCHANGED isOpen
         ELSE isOpen' = FALSE /\ UNCHANGED dialog
    /\ UNCHANGED <<isEdit, tab, roleName, roleNameChanged, roleDescChanged,
                   inflight, serverName, created, saves, completed, lostEdit>>

(* The user closes the modal. In the edit view TabValue's mount effect     *)
(* installed setInterceptClose(ref.current.onClosing): with changes it     *)
(* opens the "Closing this will discard" confirm, else resolves true and   *)
(* the modal closes. The create view installs no interceptor.              *)
CloseModal ==
    /\ isOpen /\ dialog = NoDialog
    /\ IF isEdit /\ TabChanged
         THEN dialog' = CloseDialog /\ UNCHANGED isOpen
         ELSE isOpen' = FALSE /\ UNCHANGED dialog
    /\ UNCHANGED <<isEdit, tab, roleName, roleNameChanged, roleDescChanged,
                   inflight, serverName, created, saves, completed, lostEdit>>

(* "Ok" on a confirm: for the tab confirm, resolve(true) and setTab, which *)
(* remounts Tab1; for the close confirm, resolve(true) and the modal      *)
(* closes.                                                                 *)
ConfirmYes ==
    /\ isOpen /\ dialog # NoDialog
    /\ dialog' = NoDialog
    /\ IF dialog.kind = "tab"
         THEN /\ tab' = dialog.to
              /\ FreshTab1(isEdit)
              /\ UNCHANGED isOpen
         ELSE /\ isOpen' = FALSE
              /\ UNCHANGED <<tab, roleName, roleNameChanged, roleDescChanged,
                             inflight>>
    /\ UNCHANGED <<isEdit, serverName, created, saves, completed, lostEdit>>

(* "Cancel" on a confirm: resolve(false), nothing else.                    *)
ConfirmNo ==
    /\ isOpen /\ dialog # NoDialog
    /\ dialog' = NoDialog
    /\ UNCHANGED <<isOpen, isEdit, tab, roleName, roleNameChanged,
                   roleDescChanged, inflight, serverName, created, saves,
                   completed, lostEdit>>

(* The modal is opened again, for editing the role or creating one.      *)
Open(edit) ==
    /\ ~isOpen
    /\ isOpen' = TRUE
    /\ isEdit' = edit
    /\ tab' = 0
    /\ FreshTab1(edit)
    /\ completed' = FALSE
    /\ UNCHANGED <<dialog, serverName, created, saves, lostEdit>>

Next ==
    \/ \E n \in Names \cup {Empty} : EditName(n)
    \/ EditDesc
    \/ Save
    \/ \E r \in inflight : Succeed(r) \/ Fail(r)
    \/ Remount
    \/ \E t \in Tabs : ChangeTab(t)
    \/ CloseModal
    \/ ConfirmYes
    \/ ConfirmNo
    \/ \E e \in BOOLEAN : Open(e)

Spec == Init /\ [][Next]_vars

-----------------------------------------------------------------------------
(* Leaving the role's unsaved edits through the UI, by switching tab or    *)
(* closing the edit modal, only happens as the "Ok" of the matching        *)
(* "Discard changes" confirm (changeTab and onClosing).                    *)
DiscardOnlyConfirmed ==
    [][isOpen /\ isEdit /\ TabChanged =>
         /\ tab' # tab => dialog = TabDialog(tab')
         /\ ~isOpen' => dialog = CloseDialog]_vars

(* Unsaved edits of the edit view never vanish without the user having    *)
(* confirmed a discard: what the two confirms promise.                     *)
NoSilentDiscard == ~lostEdit

(* At most one create request is in flight: what the Save button's         *)
(* disabled={isSaving || ...} is there for.                                *)
SingleCreateInFlight ==
    Cardinality({r \in inflight : r.kind = "create"}) <= 1

(* In the edit view, once no save is in flight, a name that differs from  *)
(* the role's name on the server is flagged as unsaved (roleNameChanged,   *)
(* which drives the "unsaved" marker and both discard confirms). The      *)
(* success effect clears the flags of the request it answers, even for     *)
(* edits typed after that request was sent, and an earlier update answered *)
(* last leaves the server with the older name.                             *)
UnsavedEditFlagged ==
    isOpen /\ isEdit /\ inflight = {} =>
        roleName = serverName \/ roleNameChanged

=============================================================================
