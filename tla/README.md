# Formal models of the Flagsmith role-editor and unsaved-changes guard

TLA+ modules, TLC configurations and TLAPS proofs for the five source files
under `src/frontend/web/components/`. The slice is React UI code, so the
"concurrency" here is React's: batched state updates, passive effects that run
after a commit, components remounted by a re-render, and asynchronous
responses and router events interleaved with user clicks.

## 1. Inventory

| Component | Source | State | Operations |
|---|---|---|---|
| Navigation guard | `hooks/useFormNotSavedModal.tsx` | `isDirty`, `isNavigating`, `nextLocation` (useState), `unblockRef` (useRef), the router's block slot, the beforeunload listener | `setIsDirty` (by the owning form); the `history.block` effect and its cleanup; the block callback; `discardAndConfirmNavigation`; `cancelNavigation`; the beforeunload effect and handler; unmount |
| Role editor, details tab | `modals/CreateRole.tsx` (Tab1, TabValue) | `tab` (CreateRole), `roleName`, `roleDesc`, `roleNameChanged`, `roleDescChanged`, `isSaving` (Tab1), the create/update mutation hooks | edit name, edit description, `save`, the success effect (calls `onComplete`), `changeTab` with its confirm, the close interceptor `onClosing` with its confirm |
| Role members | `modals/CreateRole.tsx` (lines 89-270, 435-535) | `userSelected`, `groupSelected`, member list queries, add/remove mutations | `addUserOrGroup`, `removeUserOrGroup`, refetch effects, list-replace effects, concat-on-success effects |
| Permission tabs | `modals/CreateRole.tsx` (lines 237-244, 536-597) | `project`, `environments` | project filter, environment derivation; the lists themselves are external components |
| Feature save confirm | `saveFeatureWithValidation.ts` | none (reads the DOM) | run the save callback directly, or after a "Validation error" confirm |
| Icons | `Logo.tsx`, `svg/SparklesIcon.tsx` | none | rendering only |

How they interact. The guard is used by forms: a form calls `setIsDirty`,
and the guard talks to the router through `history.block` and `history.push`
and to the browser through `beforeunload`. CreateRole owns the members state
and the current tab. Its render defines TabValue and Tab1, so any change to
CreateRole's state or hook results gives them a new component type. React
then remounts them, and that resets Tab1's state and its mutation hooks. The
confirms use the global `openConfirm`. The close interceptor goes through
`setInterceptClose` of ModalDefault.

What is hard:
- **Effects run after the commit.** `history.block` and the beforeunload
  handler are installed one step after `isDirty` changes. Between the two,
  the guard is out of date.
- **Handlers that partly fail.** If `onDiscard` throws, the handler stops
  half-way through.
- **State that outlives its reason.** `isNavigating` and `nextLocation` can
  stay set after the dialog is gone.
- **Remounts.** They drop Tab1's edits, and they orphan Tab1's in-flight save.
- **Requests in flight.** There can be duplicate creates, and responses can
  arrive out of order.

What makes each component correct:
- **Guard:** it holds the block slot exactly while dirty. It never leaks the
  slot after unmount. A discard goes to the captured target. A cancel stays
  and keeps the block. Every exit from a dirty form is warned.
- **Editor:** unsaved edits are discarded only through a confirm. There is
  at most one save in flight. The server keeps the last name saved.
- **Members:** a remove deletes only the clicked member's row on the
  server, whatever `selected` held when it was clicked. It should also
  name the member's current row, so that the click takes effect; the code
  does not ensure this (`members_stale_id`). Once quiet, the shown lists
  should equal the server's assignments; the code does not achieve this
  either (`members_stale_refetch`).

## 2. Modules

| Module | Models | Notes |
|---|---|---|
| `NavGuard` | useFormNotSavedModal plus the router slot, location and tab close | The state is the three useState values, `effDirty` (the isDirty the effects last ran with), `unblockRef`, `prompt` (the router slot holds our callback), `location`, and a history variable `unwarnedExit`. |
| `MCNavGuard` | TLC instance | Three locations as model values. |
| `NavGuardProofs` | TLAPS proofs for NavGuard | |
| `RoleEditor` | Tab1 and TabValue of CreateRole, plus the server's copy of the role | The state is `tab`, `roleName`, both changed flags, `dialog` (openConfirm), `inflight` requests (each tracked or not by the mounted hook), `serverName`, `created`, `saves`, `completed`, and a history variable `lostEdit`. |
| `MCRoleEditor` | TLC instance | Two names, `MaxSaves = 2`. |
| `RoleEditorProofs` | TLAPS proofs for RoleEditor | |
| `RoleMembers` | the members tab of CreateRole (lines 76-270, 435-535) and the server's role rows | Every variable is a function of the kind, user or group: `server` rows, `nextId`, `selected` (userSelected / groupSelected, a sequence of rows), the list query's `loaded`, `list`, `fetching` and `snap` (what a served fetch read), the mutation calls in `inflight`, and for each hook the `latest` call and its `ok` (isSuccess). |
| `MCRoleMembers` | TLC instance | Two members as model values; `MaxOps` is set per run in the cfg. |
| `RoleMembersProofs` | proofs | The inductive invariant `MInv`, lemmas about `FirstEntry`, `FilterOut` and `SetToSeq`, and the members theorems. |
| `GuardSpec` | the abstract guard: what the hook promises | `mounted`, `dirty`, `armed`, `pending`, `location`. |

How NavGuard maps to the code:
- **SetDirty.** It is the form calling `setIsDirty`.
- **FlushEffects.** The block effect runs its previous cleanup, or installs
  `history.block`. The beforeunload effect re-registers its handler.
- **Navigate(l).** It is a router transition. If the guard holds the slot,
  the block callback records `l` and vetoes the transition. Otherwise the
  location changes.
- **Discard(throws).** It is `discardAndConfirmNavigation`, where the
  caller's `onDiscard` may throw if `DiscardMayThrow`.
- **Cancel.** It is `cancelNavigation`.
- **Unmount and Mount.** They are the effect cleanups, and a fresh instance
  of the hook.
- **PageUnload.** It is a tab close or reload. The handler prompts iff it
  closed over `isDirty = true`, and the page is then loaded afresh.

React semantics kept. The setState calls of one handler commit together. A
passive effect flush is its own step. React flushes pending effects before it
renders again and before it handles a discrete user event, so SetDirty,
Discard, Cancel and Unmount require `Settled`. Router transitions that do not
come from a React event (back/forward, pushes from promises) and tab closes
can happen while effects are pending.

How RoleEditor maps to the code:
- **EditName and EditDesc.** They are the two `onChange` handlers.
- **Save.** It is the button, `disabled={isSaving || !roleName}`, which calls
  `save()`. The new request becomes the only one the hook tracks, as RTK's
  `useMutation` tracks its latest call.
- **Succeed(r) and Fail(r).** They are the server's answer. On a tracked
  success, the success effect clears the flags and calls `onComplete`.
- **Remount.** It is any render of CreateRole not caused by Tab1 itself.
- **ChangeTab, CloseModal, ConfirmYes and ConfirmNo.** They are
  `changeTab`, the close interceptor and the two confirm buttons.
- **Open.** The modal is opened again, in the create or the edit view.

The description's value is abstracted to its changed flag.

How RoleMembers maps to the code:
- **AddMember(k, m).** It is `addUserOrGroup`, from the select's `onAdd`.
  `Call` is the mutation trigger: the hook now tracks this call only, and its
  isSuccess turns false. The refetch effect reacts to that change in the
  same step.
- **RemoveMember(k, m).** It is `removeUserOrGroup`. The row id is taken
  from the first entry of `selected` for the member (`usersAdded.find`).
  `FirstEntry` is SelectInSeq, the least matching position. The delete is
  sent, and every entry of the member is filtered out of `selected` at once.
  `FilterOut` is `Array.filter`: the j-th entry kept is the kept position
  with j kept positions at or before it (`Rank`). It is written without
  recursion so that the provers can reason about it, and TLC computes the
  same sequences as SelectSeq.
- **Serve(r), Reject(r) and Lost(r).** The server applies the call and
  answers success, rejects it, or applies it or not and the answer is lost.
  On a tracked success, `Succeeded` runs the refetch effect (deps: both
  isSuccess flags) and the concat effect (deps: isSuccess and data).
- **ServeFetch(k), ReceiveList(k) and FetchFails(k).** The list query: the
  server reads the rows when it serves the request. If the answer differs
  from the cached data, the list effect replaces `selected`.

RoleMembers takes four facts about RTK Query, which is not in this
repository, as environment assumptions:
- a mutation hook reports only its latest call;
- `refetch()` while the query is in flight starts nothing;
- equal data keeps its reference, so effects that depend on it do not
  re-run;
- a mutation may be applied and its answer still lost.

`Sequential` restricts the user to one request at a time per kind. That is
the behaviour the UI was tested with.

GuardSpec is the guard as its users see it:
- a form is dirty or not;
- the router is armed or not;
- a navigation while armed is captured into `pending`;
- Discard goes to `pending`, Cancel drops it;
- arming and disarming are steps of their own, under weak fairness.

NavGuard implements it under the mapping:
- `dirty` is `mounted /\ isDirty`;
- `armed` is `prompt` (the slot holds our block);
- `pending` is `nextLocation` while mounted and navigating.

The effect flush is the Arm or Disarm step. A page unload is a Reload.

Modelled from the spec, not the code, because the code is not in this
repository: the router's single block slot, which the spec describes in
section 6. Assumed about external components: `Tabs` keeps Tab1 as the
holder of `ref`. The project and environment permission lists receive the
same ref; see the hazards in `PROJECT.json`.

## 3. Runs

| Run | Checks | Result |
|---|---|---|
| `guard_safety` | InterceptorOwned, InterceptsWhileDirty, ConfirmationResolved, DirtyEventuallyIntercepted | pass (150 states) |
| `guard_missed_interception` | NoUnwarnedExit | violation |
| `guard_discard_throws` | InterceptsWhileDirty, with `DiscardMayThrow = TRUE` | violation |
| `guard_stale_pending` | PendingOnlyWhileConfirming | violation |
| `editor_safety` | TypeOK, DiscardOnlyConfirmed | pass (about 21,600 states) |
| `editor_silent_discard` | NoSilentDiscard | violation |
| `editor_double_create` | SingleCreateInFlight | violation |
| `editor_stale_flags` | UnsavedEditFlagged | violation |
| `guard_refinement` | GuardRefinement (GuardSpec with its fairness) | pass (150 states) |
| `members_faults` | DeleteTargetsMember, RemoveHitsClickedMember, concurrent clicks, failures, 3 calls | pass (4,481 states) |
| `members_stale_id` | RemoveNamesLiveRow, concurrent clicks, 4 calls | violation |
| `members_stale_refetch` | QuietShownMatchesServer, sequential user, 4 calls | violation |

What the violations show:
- **`guard_missed_interception`.** After `setIsDirty(true)` commits and
  before the effect installs the block, a back/forward navigation leaves the
  dirty form. This contradicts spec section 5. A tab close in the same window
  gets no prompt.
- **`guard_discard_throws`.** If `onDiscard` throws, the block has already
  been released and `isDirty` stays true. The effect never re-arms the
  block, so later navigations leave the dirty form unwarned. This
  contradicts spec sections 4.1 and 7.
- **`guard_stale_pending`.** After `setIsDirty(false)` commits, a navigation
  can still meet the block because its cleanup has not run yet. That
  navigation is silently vetoed, and its target is kept with no dialog. The
  same happens when the form calls `setIsDirty(false)` while the dialog
  shows. In both cases the dialog reappears at the next edit, for the old
  target. This contradicts spec section 3.
- **`editor_silent_discard`.** One edit followed by one CreateRole render
  is enough to lose the edit.
- **`editor_double_create`.** Two clicks on Save send two creates.
- **`editor_stale_flags`.** Save with name n1, type n2, and the save
  succeeds. The success effect clears the changed flags. The field shows n2,
  the server has n1, and nothing is flagged as unsaved, so a close skips the
  discard confirm. The same state follows from two updates answered out of
  order.
- **`members_stale_refetch`.** The refetch effect depends on the pair
  (userAdded, roleUserDeleted) and refetches when it changes with either
  flag true. A new call changes the pair by resetting one flag while the
  other is still true. So after one add and one remove, each later call
  refetches when it is made, before the server applies it. That call's
  success then finds the fetch in flight, and its own `refetch()` does
  nothing. The trace: add, remove, add, remove of the same user, waiting
  for every answer. The fetch started by the last remove read the row
  before the delete. Its answer lands after the delete and differs from the
  cache, so the list effect puts the member back into `selected`. The
  server has no row for the member, and nothing fetches again.
- **`members_stale_id`.** The user clicks "add u1" twice while the
  first list load is still pending. One add is answered and its row (id 1)
  is concatenated. The user removes u1, and the delete of row 1 is sent.
  The pending list load reads row 1 before the delete lands. The other add
  is not tracked by its hook: it creates row 2 with no concat and no
  refetch. The stale list answer then puts u1 back with id 1. The next
  remove of u1 sends id 1 while the server holds row 2. The server rejects
  the delete, but the member is filtered out of the modal and stays
  assigned. For groups, the code toasts "Group role was removed" without
  looking at the answer (CreateRole.tsx:207). With one click at a time, or
  with three calls, this does not happen.
- **A lost answer.** It breaks the same property without any concurrency.
  With `Sequential = TRUE` and `MayFail = TRUE`, the server applies an add
  and the answer is lost. No effect runs, nothing refetches, and the member
  is never shown. It is listed as a hazard rather than kept as a run.

Bounds.
- **Guard: three locations.** Two would let every target coincide with
  either the current location or the previous target. Three separates the
  current location, the captured target and a third navigation. The guard
  has no counters, so the state space is finite and explored in full.
- **Editor: two names and two saves.** Two names are needed for an edit to
  differ from the saved name. Two saves are needed for two requests to be in
  flight together. The editor's other state is finite.
- **Members: two members, three or four calls per kind.** Two members
  separate the clicked member from another one. Three calls allow an add,
  its delete and a re-add, so row ids differ from members. The sequential
  runs use four calls, because the stale refetch needs two adds and two
  removes. With three calls it never happens, and QuietShownMatchesServer
  passed there. The runs use the users list only. The groups code is the
  same code with other hooks, and the kinds share no state, so a second
  kind only multiplies the states. `members_faults` uses three calls. With
  concurrent clicks and lost answers, ids in `selected` already go stale
  there: a late list answer re-shows a removed member, who is removed a
  second time. DeleteTargetsMember is therefore tested where it can fail.
  A sequential user with no faults never holds a stale id before the
  fourth call, and the `members_stale_id` trace needs four calls.
  Every run stops at the call bound, so deadlock checking is off there.
  The proofs below hold for every bound.

Fairness. The guard specification has `WF_vars(FlushEffects)` and nothing
else. React always runs pending passive effects. Users, routers and servers
are not obliged to act. RoleEditor and RoleMembers have no fairness:
they state no liveness property. GuardSpec asks weak fairness of Arm or
Disarm. That is the abstract form of the effect flush.

Every property of a passing run has a mutant in `PROJECT.json`: a plausible
bug in the mapped code (dropping the cleanup, pushing before unblocking,
unblocking on cancel, leaking on unmount, dropping the `!roleName` check,
onClosing reading one flag, deleting the row of the first entry of
`selected`). TLC finds each of them.

## 4. Proofs (NavGuardProofs)

- `TypeCorrect`: `Spec => []TypeOK`, through the step lemma `TypeStep`.
- `OwnershipSafety`: `Spec => []InterceptorOwned`, for both values of
  `DiscardMayThrow`.
- `InterceptionSafety`: when `~DiscardMayThrow`,
  `Spec => []InterceptsWhileDirty`.

`InterceptsWhileDirty` is not inductive. After a discard, the block is
released but the effect has not run yet. During that window `effDirty` and
`isDirty` differ. So the proof uses the invariant
`IInv == TypeOK /\ InterceptorOwned /\ BlockTracksEffects`, where
`BlockTracksEffects` says that, while the component is mounted, the slot is
held only if the last effect run saw a dirty form, and a run that saw a
dirty form still holds the slot while the form stays dirty. TLC checked
`IInv` as an invariant of the `guard_safety` instance before the proof was
written. `IInvInductive` proves it preserved by every action, and the
theorems close with PTL.

The assumption `~DiscardMayThrow` is necessary for InterceptionSafety:
run `guard_discard_throws` is the counterexample without it. It is not
needed for OwnershipSafety. A discard whose onDiscard throws has already
called and nulled `unblockRef.current`, so the slot and the ref are
released together. That proof uses the weaker invariant
`OInv == TypeOK /\ InterceptorOwned /\ BlockHeldByEffect`. It keeps only
the first half of BlockTracksEffects: a mounted guard's slot is held only
if the last effect run saw a dirty form, which Unmount's cleanup needs.
`OInvInductive` proves it preserved by every action, with no assumption.
TLC checked `OInv` first, with `DiscardMayThrow = TRUE` (186 states).

`ConfirmationResolvedHolds`: when `~DiscardMayThrow`,
`Spec => ConfirmationResolved`. The step lemma `ResolvedStep` shows that,
under RInv (below), every step is a step of `Resolved` or a stutter:
- Discard releases the slot (InterceptorOwned) and pushes the captured
  target, which is a location (NavTarget), so the form ends clean there.
- Cancel is a settled, mounted step on a dirty form, so BlockTracksEffects
  gives that the block is held, and Cancel keeps it.
- A Mount while a modal is still "open" in an unmounted hook's state is
  also a PageUnload step, which the property excludes: an unmounted hook
  holds no slot.
- No other action clears isNavigating.

`GuardImplementation`: when `~DiscardMayThrow`, `Spec => G!SafeSpec`.
- The invariant is `RInv == IInv /\ NavTarget`, where NavTarget says a
  captured target is a location.
- `StepRefines` maps each step to an abstract one:
  - SetDirty, Navigate, Discard and Cancel map to their own abstract steps;
  - the effect flush maps to Arm, to Disarm, or to a stutter when the slot
    is already right;
  - Unmount and Mount map to their own abstract steps;
  - PageUnload maps to Reload.

The fairness half of GSpec is checked by `guard_refinement` only.

## 4b. Proofs (RoleEditorProofs)

- `TypeCorrect`: `Spec => []TypeOK`, for every set of names and every
  `MaxSaves`.
- `DiscardOnlyConfirmedHolds`: `Spec => DiscardOnlyConfirmed`, from
  TypeOK. Only ChangeTab, CloseModal and ConfirmYes can change the tab or
  close while changes are reported. The first two cannot, and ConfirmYes
  resolves the dialog for that tab or for closing.

TypeOK is not inductive. `created \in 0..MaxSaves` needs a count:
- `EInv` adds that every request in flight has an id up to `saves`
  (`IdsSent`);
- the ids are distinct (`IdsUnique`);
- `created` plus the number of creates in flight is at most `saves`
  (`CreatesCounted`).

`EInvStep` proves one case per action. The cardinality steps use
FS_AddElement, FS_RemoveElement and FS_Subset.

Only model-checked:
- the liveness properties `DirtyEventuallyIntercepted` and the fairness part
  of `GuardRefinement`, because TLAPS does not handle fairness or ENABLED;
- in RoleMembers, `QuietShownMatchesServer` and `RemoveNamesLiveRow`.
  Both are false (`members_stale_refetch`, `members_stale_id`), so there
  is nothing to prove.

## 4c. Proofs (RoleMembersProofs)

These hold for every set of kinds and members, every `MaxOps`, and every
value of `Sequential` and `MayFail`, so concurrent clicks and lost
answers are included.
- `MembersTypeCorrect`: `Spec => []TypeOK`.
- `DeleteTargetsMemberHolds`: `Spec => []DeleteTargetsMember`.
- `RemoveHitsClickedMemberHolds`: `Spec => RemoveHitsClickedMember`.

DeleteTargetsMember is not inductive, because it says nothing about where
the id of the next delete comes from. The inductive invariant `MInv`
therefore looks at every row of a kind that the client or the server
knows (`Known(k)`). These are the server's rows, the rows a served fetch
read, the entries of `selected`, and the rows named by pending deletes.
`MInv` adds to TypeOK that:
- every known row has an id below `nextId` (`Fresh`);
- two known rows with the same id belong to the same member (`IdsAgree`);
- the server's rows and the fetched rows are finite sets.

No action breaks these facts:
- the server numbers a created row with `nextId`, which no known row has;
- the concat appends exactly that row;
- a fetch reads server rows, and the list effect copies fetched rows into
  `selected`;
- the find gives a delete the id of an entry of `selected`;
- the filter only drops entries.

Then DeleteTargetsMember follows from IdsAgree. RemoveHitsClickedMember
follows from DeleteTargetsMember in the state before the step.

The operator lemmas:
- `FirstEntryFound`: SelectInSeq finds a matching position. It rests on
  `NatMinExists`, from `WFMin` and `NatLessThanWellFounded`.
- `FilterOutEntries`: the filter yields a sequence of input entries.
  Its lemma `RankOnto` proves the rank is onto `1..|K|`: the rank is
  strictly increasing, hence injective, and FS_Injection makes it onto.
- `SetToSeqType`: the bijection that FS_CardinalityType provides is a
  witness for SetToSeq's CHOOSE.

TLC checked `MInv` as an invariant before it was proved. It was checked on
the `members_faults` configuration, and on a sequential configuration
with both kinds and four calls (31,684 states).

The model was changed once for the proofs. The find and the filter were
first written with SelectSeq, which Sequences defines by a recursive
function about which the provers know nothing. The non-recursive forms
mean the same thing, and the run results did not change.

## 5. Plan for the next sittings

1. **RoleEditor liveness.** A tracked save is eventually followed by
   `onComplete`, assuming fairness on server answers. A remount orphans the
   save and breaks it.
2. **`CreateRoleSystem`.** It composes RoleEditor and RoleMembers: every
   members render becomes a cause of Tab1's `Remount`.
3. **Proofs.**
   - Liveness stays with TLC. Any further theorem would come from a
     new model, such as `CreateRoleSystem`.
   - A lost answer (hazard at CreateRole.tsx:166) as a run of its own,
     if a run slot frees up.

Not modelled:
- `saveFeatureWithValidation`. It is a stateless branch on a DOM lookup
  that runs the callback directly or from the global confirm's onYes.
  RoleEditor already models that confirm's behaviour. Whether the
  validation element is current depends on a component outside this
  repository.
- The permission tabs (project and environment lists). Their state lives in
  CollapsibleNestedRolePermissionsList and RolePermissionsList, which are
  not in this repository.
- How MyGroupsSelect calls `onAdd` and `onRemove`. It receives them without
  `isUser = false`. See the hazard at CreateRole.tsx:508.
- The icons, which are rendering only.
- The REST layer and the router internals, which are external; the spec
  lists them as out of scope.
- Message texts, toasts and layout.
