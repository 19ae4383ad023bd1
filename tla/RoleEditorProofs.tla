-------------------------- MODULE RoleEditorProofs --------------------------
(***************************************************************************)
(* Proofs about the role details tab of RoleEditor, for every set of names *)
(* and every bound on saves: the type invariant, whose counter of created  *)
(* roles needs the requests in flight to be counted, and that unsaved      *)
(* edits are left through the UI only by the "Ok" of the matching confirm. *)
(***************************************************************************)
EXTENDS RoleEditor, FiniteSetTheorems, TLAPS

(* The ids of the create requests in flight. *)
CIds(S) == {r.id : r \in {q \in S : q.kind = "create"}}
CreateIds == CIds(inflight)

(* Every request in flight was sent by one of the saves so far, under an   *)
(* id of its own.                                                          *)
IdsSent == \A r \in inflight : r.id <= saves
IdsUnique == \A r, q \in inflight : r.id = q.id => r = q

(* A role is created only by a create request answered with success, and *)
(* each save sends one request: the roles created and the creates still in *)
(* flight together take no more than the saves.                            *)
CreatesCounted == created + Cardinality(CreateIds) <= saves

EInv == TypeOK /\ IdsSent /\ IdsUnique /\ CreatesCounted

(* Marking the requests of a set untracked keeps their ids and kinds.      *)
LEMMA UntrackKeepsIds ==
  ASSUME NEW S, S \subseteq Requests
  PROVE  LET U == {[r EXCEPT !.tracked = FALSE] : r \in S}
         IN  /\ U \subseteq Requests
             /\ \A q \in U : \E r \in S : q.id = r.id
             /\ (\A r, q \in S : r.id = q.id => r = q)
                  => \A r, q \in U : r.id = q.id => r = q
             /\ CIds(U) = CIds(S)
<1> DEFINE U == {[r EXCEPT !.tracked = FALSE] : r \in S}
<1>1. \A r \in S : /\ [r EXCEPT !.tracked = FALSE] \in Requests
                   /\ [r EXCEPT !.tracked = FALSE].id = r.id
                   /\ [r EXCEPT !.tracked = FALSE].kind = r.kind
  BY DEF Requests
<1>2. U \subseteq Requests
  BY <1>1
<1>3. \A q \in U : \E r \in S : q.id = r.id
  BY <1>1
<1>4. (\A r, q \in S : r.id = q.id => r = q)
        => \A r, q \in U : r.id = q.id => r = q
  <2> SUFFICES ASSUME \A r, q \in S : r.id = q.id => r = q,
                      NEW u \in U, NEW v \in U, u.id = v.id
               PROVE  u = v
    OBVIOUS
  <2>1. PICK r \in S : u = [r EXCEPT !.tracked = FALSE]
    OBVIOUS
  <2>2. PICK q \in S : v = [q EXCEPT !.tracked = FALSE]
    OBVIOUS
  <2>3. r.id = q.id
    BY <1>1, <2>1, <2>2
  <2>4. QED
    BY <2>1, <2>2, <2>3
<1>5. CIds(U) = CIds(S)
  <2>1. ASSUME NEW u \in U, u.kind = "create"
        PROVE  \E r \in S : r.kind = "create" /\ r.id = u.id
    <3>1. PICK r \in S : u = [r EXCEPT !.tracked = FALSE]
      OBVIOUS
    <3>2. QED
      BY <1>1, <2>1, <3>1
  <2>2. ASSUME NEW r \in S, r.kind = "create"
        PROVE  \E u \in U : u.kind = "create" /\ u.id = r.id
    <3>1. [r EXCEPT !.tracked = FALSE] \in U
      OBVIOUS
    <3>2. QED
      BY <1>1, <2>2, <3>1
  <2>3. CIds(U) \subseteq CIds(S)
    BY <2>1 DEF CIds
  <2>4. CIds(S) \subseteq CIds(U)
    BY <2>2 DEF CIds
  <2>5. QED
    BY <2>3, <2>4
<1>6. QED
  BY <1>2, <1>3, <1>4, <1>5

(* The create ids in flight are a finite set of naturals up to saves.     *)
LEMMA CreateIdsFinite ==
  ASSUME TypeOK, IdsSent
  PROVE  /\ CreateIds \subseteq 1..saves
         /\ IsFiniteSet(CreateIds)
         /\ Cardinality(CreateIds) \in Nat
<1>1. CreateIds \subseteq 1..saves
  BY DEF CreateIds, CIds, IdsSent, TypeOK, Requests
<1>2. IsFiniteSet(1..saves)
  BY FS_Interval DEF TypeOK
<1>3. IsFiniteSet(CreateIds)
  BY <1>1, <1>2, FS_Subset
<1>4. QED
  BY <1>1, <1>3, FS_CardinalityType

(* Answering request r takes its id out of the create ids exactly when r   *)
(* is a create.                                                            *)
LEMMA AnswerRemovesId ==
  ASSUME TypeOK, IdsUnique, NEW r \in inflight
  PROVE  CIds(inflight \ {r}) =
           IF r.kind = "create" THEN CreateIds \ {r.id} ELSE CreateIds
  BY DEF CIds, CreateIds, IdsUnique


-----------------------------------------------------------------------------
(* A step that leaves the requests, the saves and the created roles alone  *)
(* keeps the three counting invariants.                                    *)
LEMMA CountsUnchanged ==
  ASSUME IdsSent, IdsUnique, CreatesCounted,
         UNCHANGED <<inflight, saves, created>>
  PROVE  IdsSent' /\ IdsUnique' /\ CreatesCounted'
  BY DEF IdsSent, IdsUnique, CreatesCounted, CreateIds, CIds

(* A step that only marks every request untracked keeps them too.         *)
LEMMA CountsUntracked ==
  ASSUME TypeOK, IdsSent, IdsUnique, CreatesCounted,
         inflight' = {[r EXCEPT !.tracked = FALSE] : r \in inflight},
         UNCHANGED <<saves, created>>
  PROVE  IdsSent' /\ IdsUnique' /\ CreatesCounted' /\ inflight' \subseteq Requests
<1>1. /\ inflight' \subseteq Requests
      /\ \A q \in inflight' : \E r \in inflight : q.id = r.id
      /\ IdsUnique'
      /\ CIds(inflight') = CIds(inflight)
  BY UntrackKeepsIds DEF TypeOK, IdsUnique
<1>2. QED
  BY <1>1 DEF IdsSent, CreatesCounted, CreateIds

(* Every step of the editor keeps EInv.                                    *)
LEMMA EInvStep == EInv /\ [Next]_vars => EInv'
<1> SUFFICES ASSUME TypeOK, IdsSent, IdsUnique, CreatesCounted, [Next]_vars
             PROVE  EInv'
  BY DEF EInv
<1> USE EditorAssumption
<1>1. ASSUME NEW n \in Names \cup {Empty}, EditName(n) PROVE EInv'
  BY <1>1, CountsUnchanged DEF EditName, EInv, TypeOK
<1>2. CASE EditDesc
  BY <1>2, CountsUnchanged DEF EditDesc, EInv, TypeOK
<1>3. CASE Save
  <2> DEFINE new == [id |-> saves + 1,
                     kind |-> IF isEdit THEN "edit" ELSE "create",
                     name |-> roleName, tracked |-> TRUE]
             U == {[r EXCEPT !.tracked = FALSE] : r \in inflight}
  <2>1. /\ inflight' = U \cup {new}
        /\ saves' = saves + 1 /\ saves < MaxSaves
        /\ roleName # Empty
        /\ UNCHANGED <<isOpen, isEdit, tab, roleName, roleNameChanged,
                       roleDescChanged, dialog, serverName, created, completed,
                       lostEdit>>
    BY <1>3 DEF Save
  <2>2. /\ U \subseteq Requests
        /\ \A q \in U : \E r \in inflight : q.id = r.id
        /\ \A r, q \in U : r.id = q.id => r = q
        /\ CIds(U) = CIds(inflight)
    BY UntrackKeepsIds DEF TypeOK, IdsUnique
  <2>3. new \in Requests
    BY <2>1 DEF TypeOK, Requests
  <2>4. \A q \in U : q.id <= saves
    BY <2>2 DEF IdsSent, TypeOK, Requests
  <2>5. /\ new.id = saves + 1
        /\ \A q \in U : q.id \in Nat /\ q.id < new.id
    BY <2>2, <2>4 DEF TypeOK, Requests
  <2>6. TypeOK'
    <3>1. inflight' \subseteq Requests
      BY <2>1, <2>2, <2>3
    <3>2. saves' \in 0..MaxSaves
      BY <2>1 DEF TypeOK
    <3>3. QED
      BY <2>1, <3>1, <3>2 DEF TypeOK
  <2>7. IdsSent'
    <3> SUFFICES ASSUME NEW q \in inflight' PROVE q.id <= saves'
      BY DEF IdsSent
    <3>1. CASE q \in U
      BY <3>1, <2>1, <2>5 DEF TypeOK
    <3>2. CASE q = new
      BY <3>2, <2>1, <2>5 DEF TypeOK
    <3>3. QED
      BY <3>1, <3>2, <2>1
  <2>10. IdsUnique'
    <3> SUFFICES ASSUME NEW q \in inflight', NEW p \in inflight', q.id = p.id
                 PROVE  q = p
      BY DEF IdsUnique
    <3>1. CASE q \in U /\ p \in U
      BY <3>1, <2>2
    <3>2. CASE q = new /\ p = new
      BY <3>2
    <3>3. CASE q \in U /\ p = new
      BY <3>3, <2>5
    <3>4. CASE q = new /\ p \in U
      BY <3>4, <2>5
    <3>5. QED
      BY <3>1, <3>2, <3>3, <3>4, <2>1
  <2>8. CIds(inflight') \subseteq CIds(U) \cup {saves + 1}
    BY <2>1 DEF CIds
  <2>9. CreatesCounted'
    <3>1. IsFiniteSet(CreateIds) /\ Cardinality(CreateIds) \in Nat
      BY CreateIdsFinite
    <3>8. /\ IsFiniteSet(CreateIds \cup {saves + 1})
          /\ Cardinality(CreateIds \cup {saves + 1}) =
               IF saves + 1 \in CreateIds THEN Cardinality(CreateIds)
                                          ELSE Cardinality(CreateIds) + 1
      BY <3>1, FS_AddElement
    <3>2. /\ IsFiniteSet(CreateIds \cup {saves + 1})
          /\ Cardinality(CreateIds \cup {saves + 1}) <= Cardinality(CreateIds) + 1
      BY <3>1, <3>8
    <3>6. CIds(inflight') \subseteq CreateIds \cup {saves + 1}
      BY <2>2, <2>8 DEF CreateIds
    <3>3. /\ IsFiniteSet(CIds(inflight'))
          /\ Cardinality(CIds(inflight')) <= Cardinality(CreateIds \cup {saves + 1})
      BY <3>2, <3>6, FS_Subset
    <3>4. Cardinality(CIds(inflight')) \in Nat
      BY <3>3, FS_CardinalityType
    <3>7. CreateIds' = CIds(inflight')
      BY DEF CreateIds, CIds
    <3>10. created' = created /\ saves' = saves + 1
      BY <2>1
    <3>11. created \in Nat /\ saves \in Nat
      BY DEF TypeOK
    <3>12. created + Cardinality(CreateIds) <= saves
      BY DEF CreatesCounted
    <3>13. Cardinality(CreateIds \cup {saves + 1}) \in Nat
      BY <3>2, FS_CardinalityType
    <3>9. created' + Cardinality(CIds(inflight')) <= saves'
      BY <3>10, <3>11, <3>12, <3>13, <3>1, <3>2, <3>3, <3>4
    <3>5. QED
      BY <3>7, <3>9 DEF CreatesCounted
  <2>11. QED
    BY <2>6, <2>7, <2>10, <2>9 DEF EInv
<1>4. ASSUME NEW r \in inflight, Succeed(r) \/ Fail(r) PROVE EInv'
  <2>1. inflight' = inflight \ {r} /\ UNCHANGED saves
    BY <1>4 DEF Succeed, Fail
  <2>2. CIds(inflight') =
          IF r.kind = "create" THEN CreateIds \ {r.id} ELSE CreateIds
    BY <2>1, AnswerRemovesId
  <2>3. r.kind = "create" => r.id \in CreateIds
    BY DEF CreateIds, CIds
  <2>4. /\ IsFiniteSet(CreateIds) /\ Cardinality(CreateIds) \in Nat
        /\ IsFiniteSet(CreateIds \ {r.id})
        /\ Cardinality(CreateIds \ {r.id}) =
             IF r.id \in CreateIds THEN Cardinality(CreateIds) - 1
                                   ELSE Cardinality(CreateIds)
    BY CreateIdsFinite, FS_RemoveElement
  <2>11. Cardinality(CreateIds \ {r.id}) \in Nat
    BY <2>4, FS_CardinalityType
  <2>5. CreateIds' = CIds(inflight')
    BY DEF CreateIds, CIds
  <2>6. /\ inflight' \subseteq Requests
        /\ IdsSent' /\ IdsUnique'
    BY <2>1 DEF TypeOK, IdsSent, IdsUnique
  <2>7. CASE Succeed(r) /\ r.kind = "create"
    <3>1. created' = created + 1 /\ UNCHANGED serverName
      BY <2>7 DEF Succeed
    <3>2. CreatesCounted'
      BY <2>1, <2>2, <2>3, <2>4, <2>5, <2>7, <3>1 DEF CreatesCounted, TypeOK
    <3>5. Cardinality(CreateIds') \in Nat
      BY <2>2, <2>5, <2>7, <2>11
    <3>3. created' \in 0..MaxSaves
      BY <3>1, <3>2, <3>5, <2>1 DEF CreatesCounted, TypeOK
    <3>6. QED
      BY <2>6, <2>7, <3>1, <3>2, <3>3 DEF Succeed, EInv, TypeOK
  <2>8. CASE Succeed(r) /\ r.kind # "create"
    <3>1. serverName' = r.name /\ UNCHANGED created
      BY <2>8 DEF Succeed, TypeOK, Requests
    <3>2. CreatesCounted'
      BY <2>1, <2>2, <2>4, <2>5, <2>8, <3>1 DEF CreatesCounted, TypeOK
    <3>3. r.name \in Names
      BY DEF TypeOK, Requests
    <3>4. QED
      BY <2>6, <2>8, <3>1, <3>2, <3>3 DEF Succeed, EInv, TypeOK
  <2>9. CASE Fail(r)
    <3>1. CreatesCounted'
      BY <2>1, <2>2, <2>3, <2>4, <2>5, <2>9 DEF Fail, CreatesCounted, TypeOK
    <3>2. QED
      BY <2>6, <2>9, <3>1 DEF Fail, EInv, TypeOK
  <2>12. QED
    BY <1>4, <2>7, <2>8, <2>9
<1>5. CASE Remount
  BY <1>5, CountsUntracked DEF Remount, FreshTab1, MountedName, EInv, TypeOK
<1>6. ASSUME NEW t \in Tabs, ChangeTab(t) PROVE EInv'
  <2>1. CASE TabChanged /\ t # tab
    BY <1>6, <2>1, CountsUnchanged DEF ChangeTab, EInv, TypeOK, Dialogs
  <2>2. CASE ~(TabChanged /\ t # tab)
    BY <1>6, <2>2, CountsUntracked DEF ChangeTab, FreshTab1, MountedName,
       EInv, TypeOK
  <2>3. QED
    BY <2>1, <2>2
<1>7. CASE CloseModal
  BY <1>7, CountsUnchanged DEF CloseModal, EInv, TypeOK, Dialogs
<1>8. CASE ConfirmYes
  <2>1. CASE dialog.kind = "tab"
    <3>1. dialog.to \in Tabs
      BY <2>1 DEF TypeOK, Dialogs, NoDialog, CloseDialog, TabDialog
    <3>2. QED
      BY <1>8, <2>1, <3>1, CountsUntracked DEF ConfirmYes, FreshTab1,
         MountedName, EInv, TypeOK, Dialogs, NoDialog
  <2>2. CASE dialog.kind # "tab"
    BY <1>8, <2>2, CountsUnchanged DEF ConfirmYes, EInv, TypeOK, Dialogs,
       NoDialog
  <2>3. QED
    BY <2>1, <2>2
<1>9. CASE ConfirmNo
  BY <1>9, CountsUnchanged DEF ConfirmNo, EInv, TypeOK, Dialogs, NoDialog
<1>10. ASSUME NEW e \in BOOLEAN, Open(e) PROVE EInv'
  <2>1. /\ inflight' = {[r EXCEPT !.tracked = FALSE] : r \in inflight}
        /\ UNCHANGED <<saves, created>>
    BY <1>10 DEF Open, FreshTab1
  <2>2. IdsSent' /\ IdsUnique' /\ CreatesCounted' /\ inflight' \subseteq Requests
    BY <2>1, CountsUntracked
  <2>3. MountedName(e) \in Names \cup {Empty}
    BY DEF MountedName, TypeOK
  <2>4. /\ isOpen' = TRUE /\ isEdit' = e /\ tab' = 0
        /\ roleName' = MountedName(e)
        /\ roleNameChanged' = FALSE /\ roleDescChanged' = FALSE
        /\ completed' = FALSE
        /\ UNCHANGED <<dialog, serverName, created, saves, lostEdit>>
    BY <1>10 DEF Open, FreshTab1
  <2>7. tab' \in Tabs
    BY <2>4 DEF Tabs
  <2>5. TypeOK'
    BY <2>2, <2>3, <2>4, <2>7, Zenon DEF TypeOK
  <2>6. QED
    BY <2>2, <2>5 DEF EInv
<1>11. CASE UNCHANGED vars
  BY <1>11, CountsUnchanged DEF vars, EInv, TypeOK
<1>12. QED
  BY <1>1, <1>2, <1>3, <1>4, <1>5, <1>6, <1>7, <1>8, <1>9, <1>10, <1>11
  DEF Next


(* The initial states satisfy EInv: nothing is in flight, nothing saved.   *)
LEMMA EInvInit == Init => EInv
<1> SUFFICES ASSUME Init PROVE EInv
  OBVIOUS
<1> USE EditorAssumption
<1>1. CreateIds = {}
  BY DEF Init, CreateIds, CIds
<1>2. Cardinality(CreateIds) = 0
  BY <1>1, FS_EmptySet
<1>3. roleName \in Names \cup {Empty}
  BY DEF Init, MountedName
<1>6. /\ tab \in Tabs /\ dialog \in Dialogs /\ serverName \in Names
      /\ created \in 0..MaxSaves /\ saves \in 0..MaxSaves
  BY DEF Init, Tabs, Dialogs, NoDialog
<1>4. TypeOK
  BY <1>3, <1>6, Zenon DEF Init, TypeOK
<1>5. QED
  BY <1>2, <1>4 DEF Init, EInv, IdsSent, IdsUnique, CreatesCounted

(* Every reachable state of the role details tab is well typed; in        *)
(* particular the count of created roles (the createRole answers) stays   *)
(* within the Save clicks, which needs the creates in flight counted.      *)
THEOREM TypeCorrect == Spec => []TypeOK
<1>1. EInv => TypeOK
  BY DEF EInv
<1>2. QED
  BY EInvInit, EInvStep, <1>1, PTL DEF Spec

-----------------------------------------------------------------------------
(* changeTab and onClosing of the edit view leave unsaved edits only as    *)
(* the "Ok" of the matching confirm: every step of the editor that changes *)
(* the tab or closes the modal while Tab1 reports changes resolves the    *)
(* confirm for that tab or for closing.                                    *)
THEOREM DiscardOnlyConfirmedHolds == Spec => DiscardOnlyConfirmed
<1> DEFINE Leave == isOpen /\ isEdit /\ TabChanged =>
                      /\ tab' # tab => dialog = TabDialog(tab')
                      /\ ~isOpen' => dialog = CloseDialog
<1>1. TypeOK /\ [Next]_vars => [Leave]_vars
  <2> SUFFICES ASSUME TypeOK, [Next]_vars, isOpen, isEdit, TabChanged
               PROVE  /\ tab' # tab => dialog = TabDialog(tab')
                      /\ ~isOpen' => dialog = CloseDialog
    OBVIOUS
  <2>1. ASSUME NEW t \in Tabs, ChangeTab(t)
        PROVE  isOpen' /\ (tab' # tab => dialog = TabDialog(tab'))
    BY <2>1 DEF ChangeTab
  <2>2. CASE CloseModal
    BY <2>2 DEF CloseModal
  <2>3. CASE ConfirmYes
    <3>1. dialog \in Dialogs /\ dialog # NoDialog
      BY <2>3 DEF ConfirmYes, TypeOK
    <3>2. CASE dialog.kind = "tab"
      <4>1. PICK t \in Tabs : dialog = TabDialog(t)
        BY <3>1, <3>2 DEF Dialogs, NoDialog, CloseDialog, TabDialog
      <4>2. QED
        BY <2>3, <3>2, <4>1 DEF ConfirmYes, TabDialog
    <3>3. CASE dialog.kind # "tab"
      <4>1. dialog = CloseDialog
        BY <3>1, <3>3 DEF Dialogs, NoDialog, CloseDialog, TabDialog
      <4>2. QED
        BY <2>3, <3>3, <4>1 DEF ConfirmYes
    <3>4. QED
      BY <3>2, <3>3
  <2>5. QED
    BY <2>1, <2>2, <2>3 DEF Next, vars, EditName, EditDesc, Save, Succeed,
       Fail, Remount, ConfirmNo, Open
<1>2. QED
  BY <1>1, TypeCorrect, PTL DEF Spec, DiscardOnlyConfirmed

====
