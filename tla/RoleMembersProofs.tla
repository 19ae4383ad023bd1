------------------------- MODULE RoleMembersProofs -------------------------
(***************************************************************************)
(* Proofs about the members tab (RoleMembers): the type invariant, that a  *)
(* pending delete only names a row of its own member (DeleteTargetsMember) *)
(* and that a server-side delete only removes the clicked member's row     *)
(* (RemoveHitsClickedMember), for every value of the constants.            *)
(*                                                                         *)
(* The argument: every row the modal or the server knows of -- on the      *)
(* server, in a served fetch, in selected, or named by a pending delete -- *)
(* carries an id below nextId, and two known rows with the same id are of  *)
(* the same member. The server numbers rows afresh, a delete takes its id  *)
(* from an entry of selected, and selected only ever holds rows the server *)
(* returned, so no step breaks that.                                       *)
(***************************************************************************)
EXTENDS RoleMembers, FiniteSetTheorems, WellFoundedInduction, TLAPS

(* The entries of selected[k], and the rows named by pending deletes.      *)
Entries(k) == {selected[k][i] : i \in 1..Len(selected[k])}
DelRows(k) == {[m |-> r.m, id |-> r.id] :
                 r \in {q \in inflight : q.k = k /\ q.op = "del"}}
(* Every row of kind k the client or the server holds.                     *)
Known(k) == server[k] \cup snap[k] \cup Entries(k) \cup DelRows(k)

IdsAgree(k) == \A a, b \in Known(k) : a.id = b.id => a.m = b.m
Fresh(k) == \A a \in Known(k) : a.id < nextId[k]

(* The inductive invariant.                                                *)
MInv ==
    /\ TypeOK
    /\ \A k \in Kinds :
         /\ IsFiniteSet(server[k]) /\ IsFiniteSet(snap[k])
         /\ IdsAgree(k) /\ Fresh(k)

-----------------------------------------------------------------------------
(* Lemmas about the array operations the model is built from.             *)

(* A non-empty set of naturals has a least element.                       *)
LEMMA NatMinExists ==
  ASSUME NEW S \in SUBSET Nat, S # {}
  PROVE  \E x \in S : \A y \in S : x <= y
<1>1. PICK x \in S : \A y \in S : <<y, x>> \notin OpToRel(<, Nat)
  BY WFMin, NatLessThanWellFounded, Zenon
<1>2. \A y \in S : ~(y < x)
  BY <1>1, Zenon DEF OpToRel
<1>. QED  BY <1>2

(* find: when s has an entry of member m, FirstEntry is the position of   *)
(* one.                                                                    *)
LEMMA FirstEntryFound ==
  ASSUME NEW R, NEW s \in Seq(R), NEW m, \E i \in 1..Len(s) : s[i].m = m
  PROVE  /\ FirstEntry(s, m) \in 1..Len(s)
         /\ s[FirstEntry(s, m)].m = m
<1> DEFINE I == {i \in 1..Len(s) : s[i].m = m}
<1>1. I \subseteq Nat /\ I # {}
  OBVIOUS
<1>2. \E x \in I : \A y \in I : x <= y
  BY <1>1, NatMinExists
<1>3. Min(I) \in I
  BY <1>2 DEF Min
<1>4. FirstEntry(s, m) = Min(I)
  BY <1>1 DEF FirstEntry, SelectInSeq
<1>. QED  BY <1>3, <1>4

(* In a finite set K of naturals, every j in 1..|K| is the rank of some   *)
(* element: the rank is strictly increasing, so it is a bijection onto    *)
(* 1..|K|.                                                                 *)
LEMMA RankOnto ==
  ASSUME NEW K \in SUBSET Nat, IsFiniteSet(K), NEW j \in 1..Cardinality(K)
  PROVE  \E i \in K : Rank(K, i) = j
<1> DEFINE n == Cardinality(K)
           f == [i \in K |-> Rank(K, i)]
<1>0. \A x \in K : x \in Nat
  OBVIOUS
<1>1. n \in Nat
  BY FS_CardinalityType
<1>2. \A i \in K : IsFiniteSet({x \in K : x <= i}) /\ Rank(K, i) \in 1..n
  <2> SUFFICES ASSUME NEW i \in K
               PROVE  IsFiniteSet({x \in K : x <= i}) /\ Rank(K, i) \in 1..n
    OBVIOUS
  <2> DEFINE B == {x \in K : x <= i}
  <2>1. IsFiniteSet(B) /\ Cardinality(B) <= n
    BY FS_Subset
  <2>2. Cardinality(B) \in Nat
    BY <2>1, FS_CardinalityType
  <2>3. Cardinality(B) # 0
    BY <2>1, FS_EmptySet
  <2>. QED  BY <1>1, <2>1, <2>2, <2>3 DEF Rank
<1>3. \A a, b \in K : a < b => Rank(K, a) < Rank(K, b)
  <2> SUFFICES ASSUME NEW a \in K, NEW b \in K, a < b
               PROVE  Rank(K, a) < Rank(K, b)
    OBVIOUS
  <2> DEFINE A == {x \in K : x <= a}
             B == {x \in K : x <= b}
  <2>1. A \subseteq B /\ b \in B /\ b \notin A
    <3>1. a \in Nat /\ b \in Nat
      BY <1>0
    <3>2. \A y \in K : y <= a => y <= b
      <4> SUFFICES ASSUME NEW y \in K, y <= a
                   PROVE  y <= b
        OBVIOUS
      <4>1. y \in Nat
        BY <1>0
      <4>. QED  BY <3>1, <4>1
    <3>3. A \subseteq B
      BY <3>2
    <3>4. b \in B /\ b \notin A
      BY <3>1
    <3>. QED  BY <3>3, <3>4
  <2>2. IsFiniteSet(B)
    BY <1>2
  <2>3. Cardinality(A) <= Cardinality(B)
        /\ (Cardinality(B) = Cardinality(A) => B = A)
    BY <2>1, <2>2, FS_Subset
  <2>4. Rank(K, a) = Cardinality(A) /\ Rank(K, b) = Cardinality(B)
    BY DEF Rank
  <2>. QED  BY <1>2, <2>1, <2>3, <2>4
<1>4. \A a, b \in K : Rank(K, a) = Rank(K, b) => a = b
  <2> SUFFICES ASSUME NEW a \in K, NEW b \in K, Rank(K, a) = Rank(K, b)
               PROVE  a = b
    OBVIOUS
  <2>1. a \in Nat /\ b \in Nat /\ Rank(K, a) \in Nat
    <3>1. a \in Nat /\ b \in Nat
      BY <1>0
    <3>2. Rank(K, a) \in 1..n
      BY <1>2
    <3>. QED  BY <1>1, <3>1, <3>2
  <2>2. ~(a < b) /\ ~(b < a)
    BY <1>3, <2>1
  <2>. QED  BY <2>1, <2>2
<1>5. f \in [K -> 1..n]
  BY <1>2
<1>6. f \in Injection(K, 1..n)
  BY <1>4, <1>5, Zenon DEF Injection, IsInjective
<1>7. IsFiniteSet(1..n) /\ Cardinality(1..n) = n
  BY <1>1, FS_Interval
<1>8. f \in Surjection(K, 1..n)
  BY <1>6, <1>7, FS_Injection
<1>. QED  BY <1>8 DEF Surjection

(* filter: the result is a sequence of entries of the input.              *)
LEMMA FilterOutEntries ==
  ASSUME NEW R, NEW s \in Seq(R), NEW m
  PROVE  /\ FilterOut(s, m) \in Seq(R)
         /\ \A j \in 1..Len(FilterOut(s, m)) :
              \E i \in 1..Len(s) : FilterOut(s, m)[j] = s[i]
<1> DEFINE K == KeptAt(s, m)
           c(j) == CHOOSE i \in K : Rank(K, i) = j
<1>1. K \subseteq 1..Len(s)
  BY DEF KeptAt
<1>2. IsFiniteSet(1..Len(s))
  BY FS_Interval
<1>3. IsFiniteSet(K)
  BY <1>1, <1>2, FS_Subset
<1>4. Cardinality(K) \in Nat
  BY <1>3, FS_CardinalityType
<1>5. \A j \in 1..Cardinality(K) : c(j) \in K
  BY <1>1, <1>3, RankOnto
<1>6. FilterOut(s, m) = [j \in 1..Cardinality(K) |-> s[c(j)]]
  BY DEF FilterOut
<1>7. FilterOut(s, m) \in [1..Cardinality(K) -> R]
  BY <1>1, <1>5, <1>6
<1>8. Len(FilterOut(s, m)) = Cardinality(K)
  BY <1>4, <1>7
<1>9. FilterOut(s, m) \in Seq(R)
  <2>1. \A n \in Nat : \A g \in [1..n -> R] : g \in Seq(R)
    OBVIOUS
  <2>. QED  BY <1>4, <1>7, <2>1
<1>10. \A j \in 1..Len(FilterOut(s, m)) :
         \E i \in 1..Len(s) : FilterOut(s, m)[j] = s[i]
  <2> SUFFICES ASSUME NEW p \in 1..Len(FilterOut(s, m))
               PROVE  \E i \in 1..Len(s) : FilterOut(s, m)[p] = s[i]
    OBVIOUS
  <2>1. p \in 1..Cardinality(K)
    BY <1>8
  <2>2. c(p) \in 1..Len(s)
    BY <1>1, <1>5, <2>1
  <2>3. FilterOut(s, m)[p] = s[c(p)]
    BY <1>6, <2>1
  <2>. QED  BY <2>2, <2>3
<1>. QED  BY <1>9, <1>10

(* SetToSeq: a sequence of elements of the (finite) set.                  *)
LEMMA SetToSeqType ==
  ASSUME NEW S, IsFiniteSet(S)
  PROVE  SetToSeq(S) \in Seq(S)
<1>1. Cardinality(S) \in Nat /\ ExistsBijection(1..Cardinality(S), S)
  BY FS_CardinalityType
<1>2. \E f \in [1..Cardinality(S) -> S] : IsInjective(f)
  BY <1>1 DEF ExistsBijection, Bijection, Injection
<1>3. SetToSeq(S) \in [1..Cardinality(S) -> S]
  BY <1>2 DEF SetToSeq
<1>. QED  BY <1>1, <1>3

-----------------------------------------------------------------------------
(* Lemmas about the rows every kind knows of.                              *)

(* Known rows carry natural ids.                                           *)
LEMMA KnownIds ==
  ASSUME TypeOK, NEW k \in Kinds
  PROVE  \A a \in Known(k) : a.id \in Nat
<1>1. server[k] \subseteq Rows /\ snap[k] \subseteq Rows
  BY DEF TypeOK
<1>2. Entries(k) \subseteq Rows
  BY DEF TypeOK, Entries
<1>3. DelRows(k) \subseteq [m : Members, id : 0..MaxOps]
  BY DEF TypeOK, DelRows, Requests
<1>. QED  BY <1>1, <1>2, <1>3, MembersAssumption DEF Known, Rows

(* A step that learns of no new row keeps ids agreeing and below nextId.   *)
LEMMA KnownSame ==
  ASSUME NEW k, IdsAgree(k), Fresh(k),
         Known(k)' \subseteq Known(k), nextId'[k] = nextId[k]
  PROVE  IdsAgree(k)' /\ Fresh(k)'
BY DEF IdsAgree, Fresh

(* A step that learns of one new row, numbered nextId, and moves nextId on *)
(* keeps ids agreeing and below nextId.                                    *)
LEMMA KnownGrow ==
  ASSUME NEW k, NEW x, IdsAgree(k), Fresh(k),
         \A a \in Known(k) : a.id \in Nat, nextId[k] \in Nat,
         Known(k)' \subseteq Known(k) \cup {[m |-> x, id |-> nextId[k]]},
         nextId'[k] = nextId[k] + 1
  PROVE  IdsAgree(k)' /\ Fresh(k)'
<1> DEFINE new == [m |-> x, id |-> nextId[k]]
<1>1. \A a \in Known(k) : a.id # new.id
  BY DEF Fresh
<1>2. IdsAgree(k)'
  BY <1>1 DEF IdsAgree
<1>3. Fresh(k)'
  BY DEF Fresh
<1>. QED  BY <1>2, <1>3

-----------------------------------------------------------------------------
(* The inductive invariant holds initially and is kept by every action.    *)

LEMMA MInvInit == Init => MInv
<1> SUFFICES ASSUME Init PROVE MInv
  OBVIOUS
<1>1. TypeOK
  BY MembersAssumption DEF Init, TypeOK
<1>2. \A k \in Kinds : Known(k) = {}
  BY DEF Init, Known, Entries, DelRows
<1>3. \A k \in Kinds : IsFiniteSet(server[k]) /\ IsFiniteSet(snap[k])
  BY FS_EmptySet DEF Init
<1>. QED  BY <1>1, <1>2, <1>3 DEF MInv, IdsAgree, Fresh

(* A mutation call: what it does to the types, and the rows a pending     *)
(* delete now names.                                                       *)
LEMMA CallStep ==
  ASSUME TypeOK, NEW k \in Kinds, NEW op \in Ops, NEW m \in Members,
         NEW id \in 0..MaxOps, Call(k, op, m, id)
  PROVE  /\ sent' \in [Kinds -> 0..MaxOps]
         /\ inflight' \subseteq Requests
         /\ latest' \in [Kinds -> [Ops -> 0..MaxOps]]
         /\ ok' \in [Kinds -> [Ops -> BOOLEAN]]
         /\ fetching' \in [Kinds -> {"idle", "sent", "served"}]
         /\ \A kk \in Kinds :
              DelRows(kk)' \subseteq
                DelRows(kk) \cup (IF op = "del" /\ kk = k
                                    THEN {[m |-> m, id |-> id]} ELSE {})
<1>1. sent[k] \in 0..(MaxOps - 1)
  BY MembersAssumption DEF TypeOK, Call
<1>2. sent' \in [Kinds -> 0..MaxOps]
  BY <1>1, MembersAssumption DEF TypeOK, Call
<1>3. inflight' \subseteq Requests
  BY <1>1, MembersAssumption DEF TypeOK, Call, Requests
<1>4. latest' \in [Kinds -> [Ops -> 0..MaxOps]]
  BY <1>1, MembersAssumption DEF TypeOK, Call
<1>5. ok' \in [Kinds -> [Ops -> BOOLEAN]]
  BY DEF TypeOK, Call
<1>6. fetching' \in [Kinds -> {"idle", "sent", "served"}]
  BY DEF TypeOK, Call, RefetchEffect, Refetch
<1>7. \A kk \in Kinds :
        DelRows(kk)' \subseteq
          DelRows(kk) \cup (IF op = "del" /\ kk = k
                              THEN {[m |-> m, id |-> id]} ELSE {})
  <2> SUFFICES ASSUME NEW kk \in Kinds, NEW q \in inflight',
                      q.k = kk, q.op = "del"
               PROVE  [m |-> q.m, id |-> q.id] \in
                        DelRows(kk) \cup (IF op = "del" /\ kk = k
                                            THEN {[m |-> m, id |-> id]} ELSE {})
    BY DEF DelRows
  <2>1. CASE q \in inflight
    BY <2>1 DEF DelRows
  <2>2. CASE q \notin inflight
    BY <2>2 DEF Call
  <2>. QED  BY <2>1, <2>2
<1>. QED  BY <1>2, <1>3, <1>4, <1>5, <1>6, <1>7

(* addUserOrGroup: a new add call; no row is learnt of.                   *)
LEMMA AddStep ==
  ASSUME MInv, NEW k \in Kinds, NEW m \in Members, AddMember(k, m)
  PROVE  MInv'
<1>0. TypeOK
  BY DEF MInv
<1>1. Call(k, "add", m, 0)
  BY DEF AddMember
<1>2. /\ sent' \in [Kinds -> 0..MaxOps]
      /\ inflight' \subseteq Requests
      /\ latest' \in [Kinds -> [Ops -> 0..MaxOps]]
      /\ ok' \in [Kinds -> [Ops -> BOOLEAN]]
      /\ fetching' \in [Kinds -> {"idle", "sent", "served"}]
      /\ \A kk \in Kinds : DelRows(kk)' \subseteq DelRows(kk)
  <2>1. "add" \in Ops /\ 0 \in 0..MaxOps
    BY MembersAssumption DEF Ops
  <2>. QED  BY <1>0, <1>1, <2>1, CallStep
<1>3. TypeOK'
  BY <1>0, <1>2 DEF TypeOK, AddMember
<1>4. \A kk \in Kinds :
        IsFiniteSet(server'[kk]) /\ IsFiniteSet(snap'[kk])
        /\ IdsAgree(kk)' /\ Fresh(kk)'
  <2> SUFFICES ASSUME NEW kk \in Kinds
               PROVE  IsFiniteSet(server'[kk]) /\ IsFiniteSet(snap'[kk])
                      /\ IdsAgree(kk)' /\ Fresh(kk)'
    OBVIOUS
  <2>1. IsFiniteSet(server[kk]) /\ IsFiniteSet(snap[kk])
        /\ IdsAgree(kk) /\ Fresh(kk)
    BY DEF MInv
  <2>2. Known(kk)' \subseteq Known(kk)
    BY <1>2 DEF AddMember, Known, Entries
  <2>3. IdsAgree(kk)' /\ Fresh(kk)'
    BY <2>1, <2>2, KnownSame DEF AddMember
  <2>. QED  BY <2>1, <2>3 DEF AddMember
<1>. QED  BY <1>3, <1>4 DEF MInv

------------------------------------------------------------------------
(* removeUserOrGroup: the delete names the row of the member's first      *)
(* entry, and the filter only drops entries.                               *)
LEMMA RemoveStep ==
  ASSUME MInv, NEW k \in Kinds, NEW m \in Members, RemoveMember(k, m)
  PROVE  MInv'
<1> DEFINE s == selected[k]
           e == s[FirstEntry(s, m)]
<1>0. TypeOK
  BY DEF MInv
<1>1. s \in Seq(Rows)
  BY <1>0 DEF TypeOK
<1>2. \E i \in 1..Len(s) : s[i].m = m
  BY DEF RemoveMember, Shown
<1>3. FirstEntry(s, m) \in 1..Len(s) /\ e.m = m
  BY <1>1, <1>2, FirstEntryFound
<1>4. e \in Rows /\ e \in Entries(k)
  BY <1>1, <1>3 DEF Entries
<1>5. e = [m |-> m, id |-> e.id] /\ e.id \in 0..MaxOps
  BY <1>3, <1>4 DEF Rows
<1>6. Call(k, "del", m, e.id)
  BY DEF RemoveMember
<1>7. /\ sent' \in [Kinds -> 0..MaxOps]
      /\ inflight' \subseteq Requests
      /\ latest' \in [Kinds -> [Ops -> 0..MaxOps]]
      /\ ok' \in [Kinds -> [Ops -> BOOLEAN]]
      /\ fetching' \in [Kinds -> {"idle", "sent", "served"}]
      /\ \A kk \in Kinds :
           DelRows(kk)' \subseteq
             DelRows(kk) \cup (IF kk = k THEN {[m |-> m, id |-> e.id]} ELSE {})
  <2>1. "del" \in Ops
    BY DEF Ops
  <2>. QED  BY <1>0, <1>5, <1>6, <2>1, CallStep
<1>8. /\ FilterOut(s, m) \in Seq(Rows)
      /\ \A j \in 1..Len(FilterOut(s, m)) :
           \E i \in 1..Len(s) : FilterOut(s, m)[j] = s[i]
  BY <1>1, FilterOutEntries
<1>9. selected' = [selected EXCEPT ![k] = FilterOut(s, m)]
  BY DEF RemoveMember
<1>10. TypeOK'
  BY <1>0, <1>7, <1>8, <1>9 DEF TypeOK, RemoveMember
<1>11. \A kk \in Kinds : Entries(kk)' \subseteq Entries(kk)
  <2> SUFFICES ASSUME NEW kk \in Kinds
               PROVE  Entries(kk)' \subseteq Entries(kk)
    OBVIOUS
  <2>1. CASE kk = k
    <3>1. selected'[k] = FilterOut(s, m)
      BY <1>0, <1>9 DEF TypeOK
    <3>2. SUFFICES ASSUME NEW j \in 1..Len(FilterOut(s, m))
                   PROVE  FilterOut(s, m)[j] \in Entries(k)
      BY <2>1, <3>1 DEF Entries
    <3>3. PICK i \in 1..Len(s) : FilterOut(s, m)[j] = s[i]
      BY <1>8
    <3>. QED  BY <3>3 DEF Entries
  <2>2. CASE kk # k
    BY <2>2, <1>0, <1>9 DEF TypeOK, Entries
  <2>. QED  BY <2>1, <2>2
<1>12. \A kk \in Kinds :
         IsFiniteSet(server'[kk]) /\ IsFiniteSet(snap'[kk])
         /\ IdsAgree(kk)' /\ Fresh(kk)'
  <2> SUFFICES ASSUME NEW kk \in Kinds
               PROVE  IsFiniteSet(server'[kk]) /\ IsFiniteSet(snap'[kk])
                      /\ IdsAgree(kk)' /\ Fresh(kk)'
    OBVIOUS
  <2>1. IsFiniteSet(server[kk]) /\ IsFiniteSet(snap[kk])
        /\ IdsAgree(kk) /\ Fresh(kk)
    BY DEF MInv
  <2>2. DelRows(kk)' \subseteq Known(kk)
    BY <1>4, <1>5, <1>7 DEF Known
  <2>3. Known(kk)' \subseteq Known(kk)
    BY <1>11, <2>2 DEF RemoveMember, Known
  <2>4. IdsAgree(kk)' /\ Fresh(kk)'
    BY <2>1, <2>3, KnownSame DEF RemoveMember
  <2>. QED  BY <2>1, <2>4 DEF RemoveMember
<1>. QED  BY <1>10, <1>12 DEF MInv

(* A pending call leaves (answered, rejected or lost): no row named by a   *)
(* pending delete is new.                                                  *)
LEMMA DelRowsShrink ==
  ASSUME inflight' \subseteq inflight, NEW kk
  PROVE  DelRows(kk)' \subseteq DelRows(kk)
BY DEF DelRows

(* A step that changes no row on the server, and in which selected and the *)
(* fetched rows only take rows already known.                              *)
LEMMA QuietKnown ==
  ASSUME MInv, server' = server, nextId' = nextId,
         inflight' \subseteq inflight,
         \A kk \in Kinds : snap'[kk] \subseteq Known(kk) /\ IsFiniteSet(snap'[kk]),
         \A kk \in Kinds : Entries(kk)' \subseteq Known(kk)
  PROVE  \A kk \in Kinds : IsFiniteSet(server'[kk]) /\ IsFiniteSet(snap'[kk])
                           /\ IdsAgree(kk)' /\ Fresh(kk)'
<1> SUFFICES ASSUME NEW kk \in Kinds
             PROVE  IsFiniteSet(server'[kk]) /\ IsFiniteSet(snap'[kk])
                    /\ IdsAgree(kk)' /\ Fresh(kk)'
  OBVIOUS
<1>1. IsFiniteSet(server[kk]) /\ IdsAgree(kk) /\ Fresh(kk)
  BY DEF MInv
<1>2. Known(kk)' \subseteq Known(kk)
  BY DelRowsShrink DEF Known
<1>3. IdsAgree(kk)' /\ Fresh(kk)'
  BY <1>1, <1>2, KnownSame
<1>. QED  BY <1>1, <1>3

(* The server creates the row of add call r, numbered nextId; selected may *)
(* take that row.                                                          *)
LEMMA CreateKnown ==
  ASSUME MInv, NEW r \in inflight, CreateRow(r),
         inflight' \subseteq inflight, snap' = snap,
         \A kk \in Kinds :
           Entries(kk)' \subseteq
             Entries(kk) \cup (IF kk = r.k
                                 THEN {[m |-> r.m, id |-> nextId[r.k]]} ELSE {})
  PROVE  \A kk \in Kinds : IsFiniteSet(server'[kk]) /\ IsFiniteSet(snap'[kk])
                           /\ IdsAgree(kk)' /\ Fresh(kk)'
<1> SUFFICES ASSUME NEW kk \in Kinds
             PROVE  IsFiniteSet(server'[kk]) /\ IsFiniteSet(snap'[kk])
                    /\ IdsAgree(kk)' /\ Fresh(kk)'
  OBVIOUS
<1> DEFINE new == [m |-> r.m, id |-> nextId[r.k]]
<1>0. TypeOK /\ r \in Requests
  BY DEF MInv, TypeOK
<1>1. IsFiniteSet(server[kk]) /\ IsFiniteSet(snap[kk])
      /\ IdsAgree(kk) /\ Fresh(kk)
  BY DEF MInv
<1>2. DelRows(kk)' \subseteq DelRows(kk)
  BY DelRowsShrink
<1>3. CASE kk = r.k
  <2>1. server'[kk] = server[kk] \cup {new} /\ nextId'[kk] = nextId[kk] + 1
    BY <1>0, <1>3 DEF CreateRow, TypeOK, Requests
  <2>2. IsFiniteSet(server'[kk])
    <3>1. IsFiniteSet(server[kk] \cup {new})
      BY <1>1, FS_AddElement
    <3>. QED  BY <2>1, <3>1, Zenon
  <2>3. Known(kk)' \subseteq Known(kk) \cup {new}
    BY <1>2, <1>3, <2>1 DEF Known
  <2>4. \A a \in Known(kk) : a.id \in Nat
    BY <1>0, KnownIds
  <2>5. nextId[kk] \in Nat
    BY <1>0, MembersAssumption DEF TypeOK
  <2>6. IdsAgree(kk)' /\ Fresh(kk)'
    BY <1>1, <1>3, <2>1, <2>3, <2>4, <2>5, KnownGrow
  <2>. QED  BY <1>1, <2>2, <2>6
<1>4. CASE kk # r.k
  <2>1. server'[kk] = server[kk] /\ nextId'[kk] = nextId[kk]
    BY <1>0, <1>4 DEF CreateRow, TypeOK, Requests
  <2>2. Known(kk)' \subseteq Known(kk)
    BY <1>2, <1>4, <2>1 DEF Known
  <2>3. IdsAgree(kk)' /\ Fresh(kk)'
    BY <1>1, <2>1, <2>2, KnownSame
  <2>. QED  BY <1>1, <2>1, <2>3
<1>. QED  BY <1>3, <1>4

(* The server deletes a row of delete call r; selected takes no row.       *)
LEMMA DeleteKnown ==
  ASSUME MInv, NEW r \in inflight, DeleteRow(r),
         inflight' \subseteq inflight, snap' = snap,
         \A kk \in Kinds : Entries(kk)' \subseteq Entries(kk)
  PROVE  \A kk \in Kinds : IsFiniteSet(server'[kk]) /\ IsFiniteSet(snap'[kk])
                           /\ IdsAgree(kk)' /\ Fresh(kk)'
<1> SUFFICES ASSUME NEW kk \in Kinds
             PROVE  IsFiniteSet(server'[kk]) /\ IsFiniteSet(snap'[kk])
                    /\ IdsAgree(kk)' /\ Fresh(kk)'
  OBVIOUS
<1>0. TypeOK /\ r \in Requests
  BY DEF MInv, TypeOK
<1>1. IsFiniteSet(server[kk]) /\ IsFiniteSet(snap[kk])
      /\ IdsAgree(kk) /\ Fresh(kk)
  BY DEF MInv
<1>2. server'[kk] \subseteq server[kk] /\ nextId' = nextId
  BY <1>0 DEF DeleteRow, TypeOK, Requests
<1>3. IsFiniteSet(server'[kk])
  BY <1>1, <1>2, FS_Subset
<1>4. Known(kk)' \subseteq Known(kk)
  BY <1>2, DelRowsShrink DEF Known
<1>5. IdsAgree(kk)' /\ Fresh(kk)'
  BY <1>1, <1>2, <1>4, KnownSame
<1>. QED  BY <1>1, <1>3, <1>5

(* The server creating a row keeps the server's rows and counters typed. *)
LEMMA CreateRowType ==
  ASSUME TypeOK, NEW r \in Requests, CreateRow(r)
  PROVE  /\ server' \in [Kinds -> SUBSET Rows]
         /\ nextId' \in [Kinds -> 1..(MaxOps + 1)]
<1>1. r.k \in Kinds /\ nextId[r.k] \in 1..MaxOps
  BY MembersAssumption DEF CreateRow, TypeOK, Requests
<1>2. [m |-> r.m, id |-> nextId[r.k]] \in Rows
  BY <1>1 DEF Rows, Requests
<1>3. server' \in [Kinds -> SUBSET Rows]
  BY <1>1, <1>2 DEF CreateRow, TypeOK
<1>4. nextId' \in [Kinds -> 1..(MaxOps + 1)]
  BY <1>1, MembersAssumption DEF CreateRow, TypeOK
<1>. QED  BY <1>3, <1>4

(* The types of what an answered call leaves in the client's hooks.      *)
LEMMA SucceededType ==
  ASSUME TypeOK, NEW r \in inflight, NEW row, Succeeded(r, row)
  PROVE  /\ inflight' \subseteq inflight
         /\ ok' \in [Kinds -> [Ops -> BOOLEAN]]
         /\ fetching' \in [Kinds -> {"idle", "sent", "served"}]
<1>1. r \in Requests
  BY DEF TypeOK
<1>2. inflight' \subseteq inflight
  BY DEF Succeeded
<1>3. CASE Tracked(r)
  <2>1. r.k \in Kinds /\ r.op \in Ops
    BY <1>1 DEF Requests
  <2>2. ok' \in [Kinds -> [Ops -> BOOLEAN]]
    <3>1. ok' = [ok EXCEPT ![r.k] = [ok[r.k] EXCEPT ![r.op] = TRUE]]
      BY <1>3, Zenon DEF Succeeded
    <3>. QED  BY <2>1, <3>1 DEF TypeOK
  <2>3. fetching' \in [Kinds -> {"idle", "sent", "served"}]
    <3> DEFINE newOk == [ok[r.k] EXCEPT ![r.op] = TRUE]
    <3>1. fetching' = [fetching EXCEPT ![r.k] =
                         IF newOk # ok[r.k] /\ (newOk["add"] \/ newOk["del"])
                           THEN Refetch(r.k) ELSE @]
      BY <1>3, Zenon DEF Succeeded, RefetchEffect
    <3>2. Refetch(r.k) \in {"idle", "sent", "served"}
          /\ fetching[r.k] \in {"idle", "sent", "served"}
      BY <2>1 DEF TypeOK, Refetch
    <3>. QED  BY <2>1, <3>1, <3>2 DEF TypeOK
  <2>. QED  BY <1>2, <2>2, <2>3
<1>4. CASE ~Tracked(r)
  BY <1>2, <1>4 DEF TypeOK, Succeeded
<1>. QED  BY <1>3, <1>4

(* Serve: the server applies a call and the client learns of its success; *)
(* for an add, selected may take the created row.                         *)
LEMMA ServeStep ==
  ASSUME MInv, NEW r \in inflight, Serve(r)
  PROVE  MInv'
<1>0. TypeOK /\ r \in Requests
  BY DEF MInv, TypeOK
<1>1. CASE CreateRow(r) /\ Succeeded(r, [m |-> r.m, id |-> nextId[r.k]])
  <2> DEFINE row == [m |-> r.m, id |-> nextId[r.k]]
  <2>1. row \in Rows /\ r.op = "add"
    BY <1>0, <1>1, MembersAssumption DEF CreateRow, TypeOK, Rows, Requests
  <2>2. \/ selected' = selected
        \/ selected' = [selected EXCEPT ![r.k] = Append(selected[r.k], row)]
    BY <1>1, <2>1 DEF Succeeded, ConcatEffect
  <2>3. /\ inflight' \subseteq inflight
        /\ ok' \in [Kinds -> [Ops -> BOOLEAN]]
        /\ fetching' \in [Kinds -> {"idle", "sent", "served"}]
    BY <1>0, <1>1, SucceededType
  <2>4. server' \in [Kinds -> SUBSET Rows]
        /\ nextId' \in [Kinds -> 1..(MaxOps + 1)]
    BY <1>0, <1>1, CreateRowType
  <2>5. selected' \in [Kinds -> Seq(Rows)]
    <3>1. r.k \in Kinds /\ selected[r.k] \in Seq(Rows)
      BY <1>0 DEF TypeOK, Requests
    <3>2. Append(selected[r.k], row) \in Seq(Rows)
      BY <2>1, <3>1
    <3>. QED  BY <1>0, <2>2, <3>1, <3>2 DEF TypeOK
  <2>6. TypeOK'
    BY <1>0, <2>3, <2>4, <2>5 DEF TypeOK, Serve
  <2>7. \A kk \in Kinds :
          Entries(kk)' \subseteq
            Entries(kk) \cup (IF kk = r.k THEN {row} ELSE {})
    <3> SUFFICES ASSUME NEW kk \in Kinds
                 PROVE  Entries(kk)' \subseteq
                          Entries(kk) \cup (IF kk = r.k THEN {row} ELSE {})
      OBVIOUS
    <3>1. CASE selected' = selected
      BY <3>1 DEF Entries
    <3>2. CASE selected' = [selected EXCEPT ![r.k] = Append(selected[r.k], row)]
      BY <1>0, <3>2 DEF TypeOK, Requests, Entries
    <3>. QED  BY <2>2, <3>1, <3>2
  <2>8. \A kk \in Kinds : IsFiniteSet(server'[kk]) /\ IsFiniteSet(snap'[kk])
                          /\ IdsAgree(kk)' /\ Fresh(kk)'
    BY <1>1, <2>3, <2>7, CreateKnown DEF Serve
  <2>. QED  BY <2>6, <2>8 DEF MInv
<1>2. CASE DeleteRow(r) /\ Succeeded(r, r)
  <2>1. selected' = selected
    BY <1>2 DEF DeleteRow, Succeeded, ConcatEffect
  <2>2. /\ inflight' \subseteq inflight
        /\ ok' \in [Kinds -> [Ops -> BOOLEAN]]
        /\ fetching' \in [Kinds -> {"idle", "sent", "served"}]
    BY <1>0, <1>2, SucceededType
  <2>3. server' \in [Kinds -> SUBSET Rows] /\ nextId' = nextId
    BY <1>0, <1>2 DEF DeleteRow, TypeOK, Requests
  <2>4. TypeOK'
    BY <1>0, <2>1, <2>2, <2>3 DEF TypeOK, Serve
  <2>5. \A kk \in Kinds : Entries(kk)' \subseteq Entries(kk)
    BY <2>1 DEF Entries
  <2>6. \A kk \in Kinds : IsFiniteSet(server'[kk]) /\ IsFiniteSet(snap'[kk])
                          /\ IdsAgree(kk)' /\ Fresh(kk)'
    BY <1>2, <2>2, <2>5, DeleteKnown DEF Serve
  <2>. QED  BY <2>4, <2>6 DEF MInv
<1>. QED  BY <1>1, <1>2 DEF Serve

(* Reject: a call leaves, nothing else changes.                          *)
LEMMA RejectStep ==
  ASSUME MInv, NEW r \in inflight, Reject(r)
  PROVE  MInv'
<1>1. TypeOK'
  BY DEF MInv, TypeOK, Reject
<1>2. \A kk \in Kinds : snap'[kk] \subseteq Known(kk) /\ IsFiniteSet(snap'[kk])
  BY DEF MInv, Reject, Known
<1>3. \A kk \in Kinds : Entries(kk)' \subseteq Known(kk)
  BY DEF Reject, Entries, Known
<1>. QED  BY <1>1, <1>2, <1>3, QuietKnown DEF MInv, Reject

(* Lost: a call leaves, applied on the server or not.                     *)
LEMMA LostStep ==
  ASSUME MInv, NEW r \in inflight, Lost(r)
  PROVE  MInv'
<1>0. TypeOK /\ r \in Requests
  BY DEF MInv, TypeOK
<1>1. /\ inflight' \subseteq inflight /\ snap' = snap
      /\ \A kk \in Kinds : Entries(kk)' = Entries(kk)
  BY DEF Lost, Entries
<1>2. CASE UNCHANGED <<server, nextId>>
  <2>1. TypeOK'
    BY <1>0, <1>1, <1>2 DEF TypeOK, Lost
  <2>2. \A kk \in Kinds : snap'[kk] \subseteq Known(kk) /\ IsFiniteSet(snap'[kk])
    BY <1>1 DEF MInv, Known
  <2>3. \A kk \in Kinds : Entries(kk)' \subseteq Known(kk)
    BY <1>1 DEF Known
  <2>. QED  BY <1>1, <1>2, <2>1, <2>2, <2>3, QuietKnown DEF MInv
<1>3. CASE CreateRow(r)
  <2>1. [m |-> r.m, id |-> nextId[r.k]] \in Rows
    BY <1>0, <1>3, MembersAssumption DEF CreateRow, TypeOK, Rows, Requests
  <2>2. TypeOK'
    <3>1. server' \in [Kinds -> SUBSET Rows]
          /\ nextId' \in [Kinds -> 1..(MaxOps + 1)]
      BY <1>0, <1>3, CreateRowType
    <3>. QED  BY <1>0, <1>1, <3>1 DEF TypeOK, Lost
  <2>3. \A kk \in Kinds : IsFiniteSet(server'[kk]) /\ IsFiniteSet(snap'[kk])
                          /\ IdsAgree(kk)' /\ Fresh(kk)'
    BY <1>1, <1>3, CreateKnown
  <2>. QED  BY <2>2, <2>3 DEF MInv
<1>4. CASE DeleteRow(r)
  <2>1. TypeOK'
    BY <1>0, <1>1, <1>4 DEF TypeOK, Lost, DeleteRow, Requests
  <2>2. \A kk \in Kinds : IsFiniteSet(server'[kk]) /\ IsFiniteSet(snap'[kk])
                          /\ IdsAgree(kk)' /\ Fresh(kk)'
    BY <1>1, <1>4, DeleteKnown
  <2>. QED  BY <2>1, <2>2 DEF MInv
<1>. QED  BY <1>2, <1>3, <1>4 DEF Lost

(* ServeFetch: the fetch reads the server's rows.                         *)
LEMMA ServeFetchStep ==
  ASSUME MInv, NEW k \in Kinds, ServeFetch(k)
  PROVE  MInv'
<1>1. TypeOK'
  BY DEF MInv, TypeOK, ServeFetch
<1>2. \A kk \in Kinds : snap'[kk] \subseteq Known(kk) /\ IsFiniteSet(snap'[kk])
  BY DEF MInv, TypeOK, ServeFetch, Known
<1>3. \A kk \in Kinds : Entries(kk)' \subseteq Known(kk)
  BY DEF ServeFetch, Entries, Known
<1>. QED  BY <1>1, <1>2, <1>3, QuietKnown DEF MInv, ServeFetch

(* ReceiveList: selected takes the fetched rows.                          *)
LEMMA ReceiveStep ==
  ASSUME MInv, NEW k \in Kinds, ReceiveList(k)
  PROVE  MInv'
<1>0. TypeOK /\ IsFiniteSet(snap[k])
  BY DEF MInv
<1>1. SetToSeq(snap[k]) \in Seq(snap[k])
  BY <1>0, SetToSeqType
<1>2. SetToSeq(snap[k]) \in Seq(Rows)
  <2>1. snap[k] \subseteq Rows
    BY <1>0 DEF TypeOK
  <2>. QED  BY <1>1, <2>1
<1>3. \/ selected' = selected
      \/ selected' = [selected EXCEPT ![k] = SetToSeq(snap[k])]
  BY DEF ReceiveList
<1>4. TypeOK'
  BY <1>0, <1>2, <1>3 DEF TypeOK, ReceiveList
<1>5. \A kk \in Kinds : Entries(kk)' \subseteq Known(kk)
  <2> SUFFICES ASSUME NEW kk \in Kinds
               PROVE  Entries(kk)' \subseteq Known(kk)
    OBVIOUS
  <2>1. CASE selected' = selected
    BY <2>1 DEF Entries, Known
  <2>2. CASE selected' = [selected EXCEPT ![k] = SetToSeq(snap[k])]
    <3>1. CASE kk = k
      <4>1. selected'[kk] = SetToSeq(snap[k])
        BY <1>0, <2>2, <3>1 DEF TypeOK
      <4>2. \A i \in 1..Len(SetToSeq(snap[k])) : SetToSeq(snap[k])[i] \in snap[kk]
        BY <1>1, <3>1
      <4>. QED  BY <4>1, <4>2 DEF Entries, Known
    <3>2. CASE kk # k
      <4>1. selected'[kk] = selected[kk]
        BY <1>0, <2>2, <3>2 DEF TypeOK
      <4>. QED  BY <4>1 DEF Entries, Known
    <3>. QED  BY <3>1, <3>2
  <2>. QED  BY <1>3, <2>1, <2>2
<1>6. \A kk \in Kinds : snap'[kk] \subseteq Known(kk) /\ IsFiniteSet(snap'[kk])
  BY DEF MInv, ReceiveList, Known
<1>. QED  BY <1>4, <1>5, <1>6, QuietKnown DEF MInv, ReceiveList

(* FetchFails: the fetch ends without data.                               *)
LEMMA FetchFailsStep ==
  ASSUME MInv, NEW k \in Kinds, FetchFails(k)
  PROVE  MInv'
<1>1. TypeOK'
  BY DEF MInv, TypeOK, FetchFails
<1>2. \A kk \in Kinds : snap'[kk] \subseteq Known(kk) /\ IsFiniteSet(snap'[kk])
  BY DEF MInv, FetchFails, Known
<1>3. \A kk \in Kinds : Entries(kk)' \subseteq Known(kk)
  BY DEF FetchFails, Entries, Known
<1>. QED  BY <1>1, <1>2, <1>3, QuietKnown DEF MInv, FetchFails

LEMMA MInvStep == MInv /\ [Next]_vars => MInv'
<1> SUFFICES ASSUME MInv, [Next]_vars PROVE MInv'
  OBVIOUS
<1>1. CASE \E k \in Kinds, m \in Members : AddMember(k, m) \/ RemoveMember(k, m)
  BY <1>1, AddStep, RemoveStep
<1>2. CASE \E r \in inflight : Serve(r) \/ Reject(r) \/ Lost(r)
  BY <1>2, ServeStep, RejectStep, LostStep
<1>3. CASE \E k \in Kinds : ServeFetch(k) \/ ReceiveList(k) \/ FetchFails(k)
  BY <1>3, ServeFetchStep, ReceiveStep, FetchFailsStep
<1>4. CASE UNCHANGED vars
  BY <1>4 DEF MInv, TypeOK, IdsAgree, Fresh, Known, Entries, DelRows, vars
<1>. QED  BY <1>1, <1>2, <1>3, <1>4 DEF Next

(* MInv is an invariant of the members tab.                                *)
LEMMA MInvHolds == Spec => []MInv
BY MInvInit, MInvStep, PTL DEF Spec

-----------------------------------------------------------------------------
(* The results.                                                            *)

(* Every variable of the members tab keeps its type in every reachable     *)
(* state: in particular selected is always a sequence of rows, so the find *)
(* and the filter of removeUserOrGroup and the list effect's map always    *)
(* apply to an array of role rows.                                         *)
THEOREM MembersTypeCorrect == Spec => []TypeOK
<1>1. MInv => TypeOK
  BY DEF MInv
<1>. QED  BY <1>1, MInvHolds, PTL

(* The row id removeUserOrGroup sends, taken from a userSelected that may *)
(* be stale, names on the server a row of the clicked member or no row at *)
(* all, for any number of members, kinds and calls.                        *)
LEMMA MInvDeleteTargets == MInv => DeleteTargetsMember
<1> SUFFICES ASSUME MInv, NEW r \in inflight, r.op = "del",
                    NEW row \in server[r.k], row.id = r.id
             PROVE  row.m = r.m
  BY DEF DeleteTargetsMember
<1>1. r \in Requests
  BY DEF MInv, TypeOK
<1>2. [m |-> r.m, id |-> r.id] \in Known(r.k) /\ row \in Known(r.k)
  BY <1>1 DEF DelRows, Known, Requests
<1>3. IdsAgree(r.k)
  BY <1>1 DEF MInv, Requests
<1>. QED  BY <1>2, <1>3 DEF IdsAgree

THEOREM DeleteTargetsMemberHolds == Spec => []DeleteTargetsMember
BY MInvHolds, MInvDeleteTargets, PTL

(* An add only adds rows to the server.                                   *)
LEMMA CreateKeepsRows ==
  ASSUME TypeOK, NEW r \in inflight, CreateRow(r)
  PROVE  \A k \in Kinds : server[k] \subseteq server'[k]
BY DEF TypeOK, CreateRow, Requests

(* A delete of call r, answered or lost, only removes a row of r's member. *)
LEMMA DeleteHitsMember ==
  ASSUME MInv, NEW r \in inflight, DeleteRow(r), inflight' = inflight \ {r},
         NEW k \in Kinds, NEW row \in server[k] \ server'[k]
  PROVE  \E q \in inflight \ inflight' : q.op = "del" /\ q.m = row.m
<1>1. r \in Requests /\ DeleteTargetsMember
  BY MInvDeleteTargets DEF MInv, TypeOK
<1>2. k = r.k /\ row.id = r.id /\ r.op = "del"
  BY <1>1 DEF DeleteRow, Requests
<1>3. row.m = r.m
  BY <1>1, <1>2 DEF DeleteTargetsMember
<1>. QED  BY <1>2, <1>3

(* A remove click only deletes the clicked member's row on the server,     *)
(* whatever selected held when the call was made and whatever arrived      *)
(* since: every row the server loses is of the member of a delete call     *)
(* answered (or lost) in that step.                                        *)
THEOREM RemoveHitsClickedMemberHolds == Spec => RemoveHitsClickedMember
<1> DEFINE Hit == \A k \in Kinds : \A row \in server[k] \ server'[k] :
                    \E r \in inflight \ inflight' : r.op = "del" /\ r.m = row.m
<1>1. MInv /\ [Next]_vars => [Hit]_vars
  <2> SUFFICES ASSUME MInv, [Next]_vars,
                      NEW k \in Kinds, NEW row \in server[k] \ server'[k]
               PROVE  \E r \in inflight \ inflight' :
                        r.op = "del" /\ r.m = row.m
    OBVIOUS
  <2>0. TypeOK
    BY DEF MInv
  <2>1. CASE \E r \in inflight : Serve(r)
    <3>1. PICK r \in inflight : Serve(r)
      BY <2>1
    <3>2. inflight' = inflight \ {r}
      BY <3>1 DEF Serve, Succeeded
    <3>3. CASE CreateRow(r)
      BY <2>0, <3>3, CreateKeepsRows
    <3>4. CASE DeleteRow(r)
      BY <3>2, <3>4, DeleteHitsMember
    <3>. QED  BY <3>1, <3>3, <3>4 DEF Serve
  <2>2. CASE \E r \in inflight : Lost(r)
    <3>1. PICK r \in inflight : Lost(r)
      BY <2>2
    <3>2. inflight' = inflight \ {r}
      BY <3>1 DEF Lost
    <3>3. CASE UNCHANGED <<server, nextId>>
      BY <3>3
    <3>4. CASE CreateRow(r)
      BY <2>0, <3>4, CreateKeepsRows
    <3>5. CASE DeleteRow(r)
      BY <3>2, <3>5, DeleteHitsMember
    <3>. QED  BY <3>1, <3>3, <3>4, <3>5 DEF Lost
  <2>3. CASE \E r \in inflight : Reject(r)
    BY <2>3 DEF Reject
  <2>4. CASE \E kk \in Kinds, m \in Members :
               AddMember(kk, m) \/ RemoveMember(kk, m)
    BY <2>4 DEF AddMember, RemoveMember
  <2>5. CASE \E kk \in Kinds :
               ServeFetch(kk) \/ ReceiveList(kk) \/ FetchFails(kk)
    BY <2>5 DEF ServeFetch, ReceiveList, FetchFails
  <2>6. CASE UNCHANGED vars
    BY <2>6 DEF vars
  <2>. QED  BY <2>1, <2>2, <2>3, <2>4, <2>5, <2>6 DEF Next
<1>. QED  BY <1>1, MInvHolds, PTL DEF Spec, RemoveHitsClickedMember

=====
