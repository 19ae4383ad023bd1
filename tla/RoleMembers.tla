---------------------------- MODULE RoleMembers ----------------------------
(***************************************************************************)
(* The members tab of the CreateRole modal                                 *)
(* (src/frontend/web/components/modals/CreateRole.tsx): the users and     *)
(* groups a role is assigned to, as the server holds them and as the      *)
(* modal shows them (userSelected / groupSelected), with the list queries, *)
(* the add and delete mutations and the effects that connect them.         *)
(*                                                                         *)
(* The users and the groups code are the same code twice, with different  *)
(* hooks; a kind k in Kinds stands for either. Every variable is a         *)
(* function of the kind.                                                   *)
(*                                                                         *)
(* Semantics of the data layer kept by the model (RTK Query, not in this   *)
(* repository):                                                            *)
(*  - a mutation hook's isSuccess and data are those of its latest call;   *)
(*  - refetch() while the same query is in flight starts nothing;          *)
(*  - a fetched result equal to the cached one keeps the cached reference, *)
(*    so effects depending on it do not run again;                         *)
(*  - the server reads the assignments when it serves a fetch, and applies *)
(*    a mutation before it answers; an answer may be lost after the        *)
(*    mutation was applied.                                                *)
(* An effect runs in the same step as the commit that triggers it: React   *)
(* flushes pending passive effects before it renders again and before it  *)
(* dispatches a click.                                                     *)
(***************************************************************************)
EXTENDS Naturals, Sequences, SequencesExt

CONSTANTS
    Kinds,       \* "user" and/or "group"
    Members,     \* the organisation's users (or groups) that may be assigned
    MaxOps,      \* bound on add/delete calls per kind, and on row ids
    Sequential,  \* the user waits for every request before the next click
    MayFail      \* requests may fail (network, server error)

ASSUME MembersAssumption ==
    /\ Kinds # {} /\ Members # {}
    /\ MaxOps \in Nat \ {0}
    /\ Sequential \in BOOLEAN /\ MayFail \in BOOLEAN

(* A role-user (role-group) row: the member and the row's id.             *)
Rows == [m : Members, id : 1..MaxOps]
Ops == {"add", "del"}
(* A mutation call: the member it is about and, for a delete, the row id  *)
(* it names (0 for an add).                                                *)
Requests == [op : Ops, k : Kinds, m : Members, id : 0..MaxOps,
             seq : 1..MaxOps]

VARIABLES
    server,    \* server[k]: the rows of the role on the server
    nextId,    \* nextId[k]: the id the server gives the next row
    selected,  \* selected[k]: userSelected / groupSelected
    loaded,    \* loaded[k]: the list query has data (isSuccess)
    list,      \* list[k]: the list query's data (userList.results)
    fetching,  \* fetching[k]: the list query's request: idle, sent, served
    snap,      \* snap[k]: the rows a served fetch read
    inflight,  \* mutation calls sent and not yet answered
    sent,      \* sent[k]: mutation calls of kind k so far
    latest,    \* latest[k][op]: seq of the op-hook's latest call (0: none)
    ok         \* ok[k][op]: isSuccess of the op-hook (userAdded, ...Deleted)

vars == <<server, nextId, selected, loaded, list, fetching, snap, inflight,
          sent, latest, ok>>

TypeOK ==
    /\ server \in [Kinds -> SUBSET Rows]
    /\ nextId \in [Kinds -> 1..(MaxOps + 1)]
    /\ selected \in [Kinds -> Seq(Rows)]
    /\ loaded \in [Kinds -> BOOLEAN]
    /\ list \in [Kinds -> SUBSET Rows]
    /\ fetching \in [Kinds -> {"idle", "sent", "served"}]
    /\ snap \in [Kinds -> SUBSET Rows]
    /\ inflight \subseteq Requests
    /\ sent \in [Kinds -> 0..MaxOps]
    /\ latest \in [Kinds -> [Ops -> 0..MaxOps]]
    /\ ok \in [Kinds -> [Ops -> BOOLEAN]]

(* usersAdded / groupsAdded: the members with an entry in selected.        *)
Shown(k) == {selected[k][i].m : i \in 1..Len(selected[k])}
Assigned(k) == {row.m : row \in server[k]}

Tracked(r) == r.seq = latest[r.k][r.op]
Quiet(k) == fetching[k] = "idle" /\ \A r \in inflight : r.k # k
CanClick(k) == Sequential => Quiet(k)

(* refetch(): a no-op while the query is in flight.                        *)
Refetch(k) == IF fetching[k] = "idle" THEN "sent" ELSE fetching[k]

(* The refetch effect, deps [added, deleted]: when the pair changes to     *)
(* newOk and either is true, refetch().                                    *)
RefetchEffect(k, newOk) ==
    fetching' = [fetching EXCEPT ![k] =
                   IF newOk # ok[k] /\ (newOk["add"] \/ newOk["del"])
                     THEN Refetch(k) ELSE @]

(* A new call on the op-hook of kind k: it now tracks the call, pending.   *)
Call(k, op, m, id) ==
    LET newOk == [ok[k] EXCEPT ![op] = FALSE]
    IN  /\ sent[k] < MaxOps
        /\ sent' = [sent EXCEPT ![k] = @ + 1]
        /\ inflight' = inflight \cup
                         {[op |-> op, k |-> k, m |-> m, id |-> id,
                           seq |-> sent[k] + 1]}
        /\ latest' = [latest EXCEPT ![k][op] = sent[k] + 1]
        /\ ok' = [ok EXCEPT ![k] = newOk]
        /\ RefetchEffect(k, newOk)

Init ==
    /\ server = [k \in Kinds |-> {}]
    /\ nextId = [k \in Kinds |-> 1]
    /\ selected = [k \in Kinds |-> <<>>]
    /\ loaded = [k \in Kinds |-> FALSE]
    /\ list = [k \in Kinds |-> {}]
    /\ fetching = [k \in Kinds |-> "sent"]
    /\ snap = [k \in Kinds |-> {}]
    /\ inflight = {}
    /\ sent = [k \in Kinds |-> 0]
    /\ latest = [k \in Kinds |-> [op \in Ops |-> 0]]
    /\ ok = [k \in Kinds |-> [op \in Ops |-> FALSE]]

-----------------------------------------------------------------------------
(* addUserOrGroup(id, isUser), from the select's onAdd: the select offers  *)
(* the members not shown. It calls the create mutation.                    *)
AddMember(k, m) ==
    /\ CanClick(k)
    /\ m \notin Shown(k)
    /\ Call(k, "add", m, 0)
    /\ UNCHANGED <<server, nextId, selected, loaded, list, snap>>

(* Array find on selected (the user_role_id usersAdded carries): the      *)
(* position of the first entry of member m in s.                           *)
FirstEntry(s, m) == SelectInSeq(s, LAMBDA e : e.m = m)

(* Array filter (v => v.user !== id): the positions K of the entries kept  *)
(* and, in their order, the kept entries; the j-th is the one with j kept  *)
(* positions at or before it.                                              *)
KeptAt(s, m) == {i \in 1..Len(s) : s[i].m # m}
Rank(K, i) == Cardinality({x \in K : x <= i})
FilterOut(s, m) ==
    [j \in 1..Cardinality(KeptAt(s, m)) |->
       s[CHOOSE i \in KeptAt(s, m) : Rank(KeptAt(s, m), i) = j]]

(* Mutant: removeUserOrGroup deletes the row of selected's first entry,   *)
(* whoever's it is.                                                        *)
RemoveMemberFirstEntry(k, m) ==
    /\ CanClick(k)
    /\ m \in Shown(k)
    /\ Call(k, "del", m, selected[k][1].id)
    /\ selected' = [selected EXCEPT ![k] = FilterOut(@, m)]
    /\ UNCHANGED <<server, nextId, loaded, list, snap>>

(* removeUserOrGroup(id, isUser), from a chip or the select's onRemove:    *)
(* the row id is the first entry of selected for the member (find on       *)
(* usersAdded); it calls the delete mutation with it and at once filters   *)
(* every entry of the member out of selected.                              *)
RemoveMember(k, m) ==
    /\ CanClick(k)
    /\ m \in Shown(k)
    /\ Call(k, "del", m, selected[k][FirstEntry(selected[k], m)].id)
    /\ selected' = [selected EXCEPT ![k] = FilterOut(@, m)]
    /\ UNCHANGED <<server, nextId, loaded, list, snap>>

(* The concat effect, deps [userAdded, usersData]: appends the row an add  *)
(* returned to selected (the selected of that render).                     *)
ConcatEffect(r, row) ==
    selected' = IF r.op = "add"
                  THEN [selected EXCEPT ![r.k] = Append(@, row)]
                  ELSE selected

(* The client learns that call r succeeded. If its hook tracks r, isSuccess *)
(* turns true and the refetch and concat effects run.                      *)
Succeeded(r, row) ==
    LET newOk == [ok[r.k] EXCEPT ![r.op] = TRUE]
    IN  /\ inflight' = inflight \ {r}
        /\ IF Tracked(r)
             THEN /\ ok' = [ok EXCEPT ![r.k] = newOk]
                  /\ RefetchEffect(r.k, newOk)
                  /\ ConcatEffect(r, row)
             ELSE UNCHANGED <<ok, fetching, selected>>

(* The server creates the row of an add for a member not yet assigned.     *)
CreateRow(r) ==
    /\ r.op = "add"
    /\ r.m \notin Assigned(r.k) /\ nextId[r.k] <= MaxOps
    /\ server' = [server EXCEPT ![r.k] =
                    @ \cup {[m |-> r.m, id |-> nextId[r.k]]}]
    /\ nextId' = [nextId EXCEPT ![r.k] = @ + 1]

(* The server deletes the row a delete names.                              *)
DeleteRow(r) ==
    /\ r.op = "del"
    /\ \E row \in server[r.k] :
         /\ row.id = r.id
         /\ server' = [server EXCEPT ![r.k] = @ \ {row}]
    /\ UNCHANGED nextId

(* The server applies call r and the client gets its success answer, the  *)
(* created row for an add.                                                 *)
Serve(r) ==
    /\ r \in inflight
    /\ \/ CreateRow(r)
          /\ Succeeded(r, [m |-> r.m, id |-> nextId[r.k]])
       \/ DeleteRow(r)
          /\ Succeeded(r, r)
    /\ UNCHANGED <<loaded, list, snap, sent, latest>>

(* The server rejects a call: an add of a member already assigned, a      *)
(* delete of a row that is gone. The hook's isSuccess stays false and no   *)
(* effect runs.                                                            *)
Reject(r) ==
    /\ r \in inflight
    /\ IF r.op = "add" THEN r.m \in Assigned(r.k)
                       ELSE \A row \in server[r.k] : row.id # r.id
    /\ inflight' = inflight \ {r}
    /\ UNCHANGED <<server, nextId, selected, loaded, list, fetching, snap,
                   sent, latest, ok>>

(* A call fails on the way: the client sees an error, whether or not the   *)
(* server applied it before the answer was lost.                           *)
Lost(r) ==
    /\ MayFail
    /\ r \in inflight
    /\ inflight' = inflight \ {r}
    /\ \/ UNCHANGED <<server, nextId>>
       \/ CreateRow(r)
       \/ DeleteRow(r)
    /\ UNCHANGED <<selected, loaded, list, fetching, snap, sent, latest, ok>>

(* The server serves the list query's request: it reads the rows.          *)
ServeFetch(k) ==
    /\ fetching[k] = "sent"
    /\ fetching' = [fetching EXCEPT ![k] = "served"]
    /\ snap' = [snap EXCEPT ![k] = server[k]]
    /\ UNCHANGED <<server, nextId, selected, loaded, list, inflight, sent,
                   latest, ok>>

(* The list query's answer arrives. When it differs from the cached data   *)
(* (or is the first), the list effect replaces selected by its rows.       *)
ReceiveList(k) ==
    /\ fetching[k] = "served"
    /\ fetching' = [fetching EXCEPT ![k] = "idle"]
    /\ IF ~loaded[k] \/ snap[k] # list[k]
         THEN /\ loaded' = [loaded EXCEPT ![k] = TRUE]
              /\ list' = [list EXCEPT ![k] = snap[k]]
              /\ selected' = [selected EXCEPT ![k] = SetToSeq(snap[k])]
         ELSE UNCHANGED <<loaded, list, selected>>
    /\ UNCHANGED <<server, nextId, snap, inflight, sent, latest, ok>>

(* The list request fails: the query keeps its data, no effect runs.       *)
FetchFails(k) ==
    /\ MayFail
    /\ fetching[k] # "idle"
    /\ fetching' = [fetching EXCEPT ![k] = "idle"]
    /\ UNCHANGED <<server, nextId, selected, loaded, list, snap, inflight,
                   sent, latest, ok>>

Next ==
    \/ \E k \in Kinds, m \in Members : AddMember(k, m) \/ RemoveMember(k, m)
    \/ \E r \in inflight : Serve(r) \/ Reject(r) \/ Lost(r)
    \/ \E k \in Kinds : ServeFetch(k) \/ ReceiveList(k) \/ FetchFails(k)

Spec == Init /\ [][Next]_vars

-----------------------------------------------------------------------------
(* Once nothing of the kind is in flight, list query included, the modal   *)
(* shows exactly the members the server has.                               *)
QuietShownMatchesServer ==
    \A k \in Kinds : loaded[k] /\ Quiet(k) => Shown(k) = Assigned(k)

(* removeUserOrGroup names the row to delete by the id it finds in        *)
(* userSelected, which may be older than the server's rows: whatever lists *)
(* arrived and whatever calls were answered meanwhile, the id a pending    *)
(* delete names is, on the server, a row of the clicked member or of no    *)
(* member at all.                                                          *)
DeleteTargetsMember ==
    \A r \in inflight :
        r.op = "del" => \A row \in server[r.k] : row.id = r.id => row.m = r.m

(* removeUserOrGroup finds the row id in userSelected. A remove click on *)
(* a member the server has assigned names that member's current row, so  *)
(* the delete can take effect. The property fails if the id is one the    *)
(* server already dropped: the delete is then rejected, but the member    *)
(* is filtered out of the modal (and "Group role was removed" is shown)  *)
(* while its current row stays on the server.                            *)
RemoveNamesLiveRow ==
    [][\A r \in inflight' \ inflight :
         r.op = "del" /\ r.m \in Assigned(r.k) =>
            \E row \in server[r.k] : row.id = r.id /\ row.m = r.m]_vars

(* A remove click only ever deletes the clicked member's assignment: every *)
(* row the server loses belongs to the member of a delete call answered in *)
(* that step, whatever rows selected held when the call was made.          *)
RemoveHitsClickedMember ==
    [][\A k \in Kinds : \A row \in server[k] \ server'[k] :
         \E r \in inflight \ inflight' : r.op = "del" /\ r.m = row.m]_vars

=============================================================================
