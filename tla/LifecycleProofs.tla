-------------------------- MODULE LifecycleProofs --------------------------
(***************************************************************************)
(* Proofs about EntityLifecycle, for every set of accounts, worlds and     *)
(* participants, every assignment of owners, homes and identities, and     *)
(* every bound.                                                            *)
(*                                                                         *)
(* Every step of Next works on one operation and one entity.  What such a  *)
(* step leaves alone is stated once (OnlyTouches), and three lemmas carry  *)
(* each part of the invariant over everything it leaves alone; the proof   *)
(* of an action is then about its own operation, entity and owner.         *)
(***************************************************************************)
EXTENDS LifecycleInvariant, TLAPS

OnlyTouches(id) ==
    /\ \A other \in Actions \ {id} :
        /\ other \in DOMAIN operations' <=> other \in DOMAIN operations
        /\ other \in DOMAIN operations => operations'[other] = operations[other]
    /\ \A f \in Entities \ {id.entity} :
        /\ f \in DOMAIN entities' <=> f \in DOMAIN entities
        /\ f \in DOMAIN entities => entities'[f] = entities[f]
        /\ Claimed(f)' <=> Claimed(f)
        /\ Claimed(f) => claims'[Identity[f]] = claims[Identity[f]]
        /\ index'[f] = index[f] /\ document'[f] = document[f]

-----------------------------------------------------------------------------
(***************************************************************************)
(* The operations and the rows.                                            *)
(***************************************************************************)
\* The part of OperationsShape that speaks of an operation and its entity.
OperationOf(id) ==
    /\ id \in DOMAIN operations => PhaseOf(id)
    /\ Live(id) => Holds(id) /\ entities[id.entity].phase = operations[id].phase
    /\ id.entity \in DOMAIN entities =>
        \/ entities[id.entity].phase = "active"
        \/ entities[id.entity].id = id /\ Live(id)

LEMMA OperationsNext ==
  ASSUME TypeOK, TypeOK', OperationsShape, NEW id \in Actions, OnlyTouches(id),
         id.entity \in DOMAIN entities =>
            entities[id.entity].phase = "active" \/ entities[id.entity].id = id,
         OperationOf(id)'
  PROVE  OperationsShape'
<1>1. ASSUME NEW other \in DOMAIN operations', other # id
      PROVE  /\ other \in DOMAIN operations /\ operations'[other] = operations[other]
             /\ Live(other)' <=> Live(other)
             /\ PhaseOf(other)'
  BY <1>1 DEF TypeOK, OperationTypes, RowTypes, TurnTypes, OnlyTouches, Live, Open, Blocked, PhaseOf, OperationsShape, PhaseShape
<1>2. PhaseShape'
  BY <1>1 DEF PhaseShape, OperationOf
<1>3. ASSUME NEW other \in DOMAIN operations', Live(other)'
      PROVE  Holds(other)' /\ entities'[other.entity].phase = operations'[other].phase
  <2>1. CASE other = id
    BY <1>3, <2>1 DEF OperationOf
  <2>2. CASE other # id
    <3>1. Live(other) /\ other \in DOMAIN operations /\ operations'[other] = operations[other]
      BY <1>1, <1>3, <2>2
    <3>2. Holds(other) /\ entities[other.entity].phase = operations[other].phase
      BY <3>1 DEF OperationsShape, RowNamesOperation
    <3>3. operations[other].phase # "active"
      BY <3>1 DEF Live, Open, Blocked, OpenPhases, TypeOK, OperationTypes, RowTypes, TurnTypes
    <3>4. other.entity # id.entity /\ other.entity \in Entities
      BY <2>2, <3>1, <3>2, <3>3 DEF Holds, TypeOK, OperationTypes, RowTypes, TurnTypes, Actions
    <3> QED
      BY <3>1, <3>2, <3>4 DEF OnlyTouches, Holds
  <2> QED
    BY <2>1, <2>2
<1>4. ASSUME NEW e \in DOMAIN entities'
      PROVE  entities'[e].phase = "active" \/ Live(entities[e].id)'
  <2>1. CASE e = id.entity
    BY <1>4, <2>1 DEF OperationOf
  <2>2. CASE e # id.entity
    <3>1. e \in DOMAIN entities /\ entities'[e] = entities[e] /\ e \in Entities
      BY <1>4, <2>2 DEF OnlyTouches, TypeOK, OperationTypes, RowTypes, TurnTypes
    <3>2. entities[e].phase = "active" \/ Live(entities[e].id)
      BY <3>1 DEF OperationsShape, RowNamesOperation
    <3>3. PICK x \in Actions \ {id} : x = entities[e].id
      BY <2>2, <3>1 DEF TypeOK, OperationTypes, RowTypes, TurnTypes
    <3>4. Live(x) => Live(x)'
      BY DEF OnlyTouches, Live, Open, Blocked
    <3> QED
      BY <3>1, <3>2, <3>3, <3>4
  <2> QED
    BY <2>1, <2>2
<1> QED
  BY <1>2, <1>3, <1>4 DEF OperationsShape, RowNamesOperation

-----------------------------------------------------------------------------
(***************************************************************************)
(* The entities, their owners and their homes.                             *)
(***************************************************************************)
\* What a step may do to an entity that others depend on.
Permitted(e) ==
    /\ Claimed(e)' => Claimed(e) \/ MayCreate(e)
    /\ BeingMade(e)' => BeingMade(e) \/ MayCreate(e)
    /\ e \in Bots /\ Claimed(e)' /\ Holds(Operation("delete", e, 0)) =>
        \/ Holds(Operation("delete", e, 0))'
        \/ index[Owner[e]] = "active" \/ BeingDeleted(Owner[e])
    /\ e \in Worlds /\ index[e] = "active" /\ index'[e] # "active" => ClaimsIn(e) = {}
    /\ e \in Accounts /\ index[e] = "active" /\ index'[e] # "active" =>
        /\ index'[e] = "deleting" /\ BeingDeleted(e)'
        /\ \A w \in Worlds : Owner[w] = e => \A i \in ClaimsIn(w) : Owner[claims[i].entity] = e
        /\ \A f \in Worlds \cup Bots : Owner[f] = e => ~BeingMade(f)
    /\ e \in Accounts /\ index[e] = "deleting" /\ index'[e] # "deleting" => Owned(e, Worlds) = {}
    /\ e \in Accounts /\ BeingDeleted(e) /\ ~BeingDeleted(e)' =>
        \A b \in Bots : Owner[b] = e /\ Claimed(b) => Holds(Operation("delete", b, 0))

LEMMA NamedOperation ==
  ASSUME NEW action \in {"create", "delete"}, NEW e \in Entities, NEW key \in Nat,
         NEW id, id = Operation(action, e, key)
  PROVE  id \in Actions /\ id.action = action /\ id.entity = e /\ id.key = key
  BY DEF Operation, Actions

LEMMA OwnersAreAccounts ==
  /\ \A e \in Worlds \cup Bots : Owner[e] \in Accounts /\ Owner[e] # e /\ e \notin Accounts
  /\ \A b \in Bots : Home[b] \in Worlds /\ Home[b] # b /\ Owner[Home[b]] \in Accounts
  BY EntitiesAssumption

LEMMA ClaimedAtHome ==
  ASSUME NEW b \in Bots, Claimed(b)
  PROVE  Identity[b] \in ClaimsIn(Home[b]) /\ claims[Identity[b]].entity = b
  BY DEF Claimed, ClaimsIn

LEMMA HomesNext ==
  ASSUME TypeOK, TypeOK', EntitiesShape, NEW e \in Entities, NEW id \in Actions, id.entity = e,
         OnlyTouches(id), Permitted(e), NEW b \in Bots
  PROVE  HomeShape(b)'
<1> DEFINE keeper == Owner[Home[b]]
<1> SUFFICES ASSUME Claimed(b)'
    PROVE  /\ index'[Home[b]] = "active"
           /\ index'[keeper] # "active" => index'[keeper] = "deleting" /\ Owner[b] = keeper
           /\ index'[Owner[b]] # "active" =>
                BeingDeleted(Owner[b])' \/ Holds(Operation("delete", b, 0))'
  BY DEF HomeShape
<1>0. /\ b \in Entities /\ Home[b] \in Worlds /\ Home[b] \in Entities
      /\ keeper \in Accounts /\ keeper \in Entities /\ Owner[b] \in Accounts /\ Owner[b] \in Entities
      /\ b \notin Accounts /\ b \notin Worlds /\ Home[b] \notin Accounts
  BY OwnersAreAccounts, EntitiesAssumption DEF Entities
<1>1. Claimed(b) \/ (b = e /\ MayCreate(b))
  BY <1>0 DEF Permitted, OnlyTouches
<1>2. CASE Claimed(b)
  <2>1. /\ index[Home[b]] = "active"
        /\ index[keeper] # "active" => index[keeper] = "deleting" /\ Owner[b] = keeper
        /\ index[Owner[b]] # "active" =>
                BeingDeleted(Owner[b]) \/ Holds(Operation("delete", b, 0))
    BY <1>2 DEF EntitiesShape, HomeShape
  <2>2. index'[Home[b]] = "active"
    BY <1>0, <1>2, <2>1, ClaimedAtHome DEF Permitted, OnlyTouches
  <2>3. index'[keeper] # "active" => index'[keeper] = "deleting" /\ Owner[b] = keeper
    <3>1. CASE keeper # e
      BY <1>0, <2>1, <3>1 DEF OnlyTouches
    <3>2. CASE keeper = e /\ index[e] = "active"
      BY <1>0, <1>2, <2>1, <3>2, ClaimedAtHome DEF Permitted
    <3>3. CASE keeper = e /\ index[e] # "active"
      <4>1. index[e] = "deleting" /\ Owner[b] = keeper /\ Home[b] \in Owned(e, Worlds)
        BY <1>0, <2>1, <3>3 DEF Owned
      <4> QED
        BY <1>0, <3>3, <4>1 DEF Permitted
    <3> QED
      BY <3>1, <3>2, <3>3
  <2>4. ASSUME index'[Owner[b]] # "active"
        PROVE  BeingDeleted(Owner[b])' \/ Holds(Operation("delete", b, 0))'
    <3>1. CASE Owner[b] = e
      <4>1. b # e /\ Operation("delete", b, 0).entity = b
        BY <1>0, <3>1 DEF Operation
      <4>2. Holds(Operation("delete", b, 0)) <=> Holds(Operation("delete", b, 0))'
        BY <1>0, <4>1 DEF Holds, OnlyTouches
      <4>3. CASE index[e] = "active"
        BY <1>0, <2>4, <3>1, <4>3 DEF Permitted
      <4>4. CASE index[e] # "active"
        BY <1>0, <1>2, <2>1, <3>1, <4>2, <4>4 DEF Permitted
      <4> QED
        BY <4>3, <4>4
    <3>2. CASE Owner[b] # e
      <4>1. index[Owner[b]] # "active" /\ (BeingDeleted(Owner[b])' <=> BeingDeleted(Owner[b]))
        BY <1>0, <2>4, <3>2 DEF OnlyTouches, BeingDeleted
      <4>2. CASE b = e
        BY <1>0, <2>1, <4>1, <4>2 DEF Permitted
      <4>3. CASE b # e
        <5>1. Operation("delete", b, 0).entity = b
          BY DEF Operation
        <5>2. Holds(Operation("delete", b, 0)) <=> Holds(Operation("delete", b, 0))'
          BY <1>0, <4>3, <5>1 DEF Holds, OnlyTouches
        <5> QED
          BY <2>1, <4>1, <5>2
      <4> QED
        BY <4>2, <4>3
    <3> QED
      BY <3>1, <3>2
  <2> QED
    BY <2>2, <2>3, <2>4
<1>3. CASE b = e /\ MayCreate(b)
  <2>1. index[Owner[b]] = "active" /\ index[Home[b]] = "active" /\ index[keeper] = "active"
    BY <1>0, <1>3 DEF MayCreate
  <2> QED
    BY <1>0, <1>3, <2>1 DEF OnlyTouches
<1> QED
  BY <1>1, <1>2, <1>3

LEMMA EntitiesNext ==
  ASSUME TypeOK, TypeOK', EntitiesShape, NEW id \in Actions,
         OnlyTouches(id), Permitted(id.entity), EntityShape(id.entity)'
  PROVE  EntitiesShape'
<1>0. id.entity \in Entities
  BY DEF Actions
<1>1. ASSUME NEW f \in Entities
      PROVE  EntityShape(f)'
  <2>1. CASE f = id.entity
    BY <2>1
  <2>2. CASE f # id.entity
    <3>1. EntityShape(f) /\ (BeingMade(f)' <=> BeingMade(f)) /\ (BeingDeleted(f)' <=> BeingDeleted(f))
      BY <2>2 DEF EntitiesShape, OnlyTouches, BeingMade, BeingDeleted
    <3> QED
      BY <2>2, <3>1 DEF EntityShape, OnlyTouches
  <2> QED
    BY <2>1, <2>2
<1>2. ASSUME NEW f \in Entities
      PROVE  OwnerShape(f)'
  <2> SUFFICES ASSUME f \notin Accounts, BeingMade(f)' PROVE index'[Owner[f]] = "active"
    BY DEF OwnerShape
  <2>1. Owner[f] \in Accounts /\ Owner[f] \in Entities /\ Owner[f] # f /\ f \in Worlds \cup Bots
    BY OwnersAreAccounts DEF Entities
  <2>2. index[Owner[f]] = "active"
    BY <2>1 DEF EntitiesShape, OwnerShape, OnlyTouches, BeingMade, Permitted, MayCreate
  <2>3. CASE Owner[f] = id.entity
    <3>1. BeingMade(f)
      BY <2>1, <2>3 DEF OnlyTouches, BeingMade
    <3> QED
      BY <2>1, <2>2, <2>3, <3>1 DEF Permitted
  <2> QED
    BY <2>1, <2>2, <2>3 DEF OnlyTouches
<1> QED
  BY <1>0, <1>1, <1>2, HomesNext DEF EntitiesShape

-----------------------------------------------------------------------------
(***************************************************************************)
(* The turns of the coordinators.                                          *)
(***************************************************************************)
LEMMA RunsItsOwn ==
  ASSUME TypeOK, NEW a \in Accounts, turn[a].stage # "idle"
  PROVE  /\ turn[a].id \in DOMAIN operations /\ turn[a].id \in Actions
         /\ turn[a].id.entity \in Entities /\ OwnerOf(turn[a].id.entity) = a
         /\ turn[a].id # NoOperation /\ turn[a].left \in 0..ChildBudget
         /\ turn[a].parent \in Actions \cup {NoOperation}
  BY EntitiesAssumption DEF TypeOK, OperationTypes, RowTypes, TurnTypes, Actions

\* What a coordinator runs is not disturbed by another's step.
LEMMA OtherTurns ==
  ASSUME TypeOK, TypeOK', NEW id \in Actions, OnlyTouches(id),
         NEW c \in Accounts, OwnerOf(id.entity) # c, TurnOf(c), turn'[c] = turn[c]
  PROVE  TurnOf(c)'
<1> SUFFICES ASSUME turn[c].stage # "idle"
    PROVE  StageShape(c)' /\ ParentShape(c)' /\ CascadeIsOver(c)'
  BY DEF TurnOf
<1>0. StageShape(c) /\ ParentShape(c) /\ CascadeIsOver(c)
  BY DEF TurnOf
<1> DEFINE own == turn[c].id
<1>1. /\ own \in DOMAIN operations /\ own \in Actions \ {id}
      /\ own.entity \in Entities \ {id.entity} /\ OwnerOf(own.entity) = c
  BY RunsItsOwn
<1>2. /\ own \in DOMAIN operations' /\ operations'[own] = operations[own]
      /\ index'[own.entity] = index[own.entity] /\ document'[own.entity] = document[own.entity]
  BY <1>1 DEF OnlyTouches
<1>3. StageShape(c)'
  BY <1>0, <1>2 DEF StageShape, Open
<1>4. ParentShape(c)'
  <2> SUFFICES ASSUME turn[c].parent # NoOperation
      PROVE  ParentShape(c)'
    BY DEF ParentShape
  <2>1. /\ turn[c].parent \in DOMAIN operations /\ Open(turn[c].parent)
        /\ turn[c].parent.action = "delete" /\ turn[c].parent.entity = c
        /\ own.entity \notin Accounts /\ turn[c].left > 0
    BY <1>0 DEF ParentShape
  <2>2. turn[c].parent \in Actions \ {id}
    BY <2>1 DEF TypeOK, OperationTypes, RowTypes, TurnTypes, OwnerOf
  <2> QED
    BY <2>1, <2>2 DEF OnlyTouches, ParentShape, Open
<1>5. Children(c)' = Children(c)
  <2>1. \A x \in Actions : OwnerOf(x.entity) = c => (x \in DOMAIN operations' <=> x \in DOMAIN operations)
                            /\ (x \in DOMAIN operations => operations'[x] = operations[x])
    BY DEF OnlyTouches
  <2>2. \A x \in DOMAIN operations : x \in Actions
    BY DEF TypeOK, OperationTypes, RowTypes, TurnTypes
  <2>3. \A x \in DOMAIN operations' : x \in Actions
    BY DEF TypeOK, OperationTypes, RowTypes, TurnTypes
  <2>4. \A x : x \in OpenOperations(c)' <=> x \in OpenOperations(c)
    BY <2>1, <2>2, <2>3 DEF OpenOperations, Open
  <2> QED
    BY <2>4 DEF Children
<1>6. \A f \in Worlds \cup Bots : Owner[f] = c => index'[f] = index[f]
  <2>1. \A f \in Worlds \cup Bots : Owner[f] = c => f \in Entities /\ OwnerOf(f) = c
    BY OwnersAreAccounts DEF Entities, OwnerOf
  <2> QED
    BY <2>1 DEF OnlyTouches
<1>7. Owned(c, Bots)' = Owned(c, Bots) /\ Owned(c, Worlds)' = Owned(c, Worlds)
  BY <1>6 DEF Owned
<1>8. CascadeIsOver(c)'
  BY <1>0, <1>5, <1>7 DEF CascadeIsOver, Targets
<1> QED
  BY <1>3, <1>4, <1>8

LEMMA TurnsNext ==
  ASSUME TypeOK, TypeOK', TurnShape, NEW id \in Actions, OnlyTouches(id),
         NEW a \in Accounts, OwnerOf(id.entity) = a,
         \A c \in Accounts \ {a} : turn'[c] = turn[c], TurnOf(a)'
  PROVE  TurnShape'
  BY OtherTurns DEF TurnShape

\* A run that ends or throws leaves its coordinator idle or with the account
\* deletion that it was a child of.
LEMMA HandsBack ==
  ASSUME TypeOK, TypeOK', NEW a \in Accounts, turn[a].stage # "idle", TurnOf(a),
         OnlyTouches(turn[a].id), Completed(a) \/ Thrown(a)
  PROVE  TurnOf(a)' /\ \A c \in Accounts \ {a} : turn'[c] = turn[c]
<1>1. CASE turn[a].parent = NoOperation
  BY <1>1 DEF Completed, Thrown, Enter, Idle, TurnOf, TypeOK, OperationTypes, RowTypes, TurnTypes
<1>2. CASE turn[a].parent # NoOperation
  <2>1. PICK p \in Actions \ {turn[a].id} :
            /\ p = turn[a].parent
            /\ p \in DOMAIN operations /\ Open(p) /\ p.action = "delete" /\ p.entity = a
    BY <1>2 DEF TurnOf, ParentShape, TypeOK, OperationTypes, RowTypes, TurnTypes
  <2>3. p \in DOMAIN operations' /\ Open(p)'
    BY <2>1 DEF OnlyTouches, Open
  <2>4. /\ turn'[a].id = p /\ turn'[a].parent = NoOperation
        /\ turn'[a].stage \in {"children", "setback"}
        /\ \A c \in Accounts \ {a} : turn'[c] = turn[c]
    BY <1>2, <2>1 DEF Completed, Thrown, Enter, TypeOK, OperationTypes, RowTypes, TurnTypes
  <2>6. StageShape(a)' /\ ParentShape(a)' /\ CascadeIsOver(a)'
    BY <2>1, <2>3, <2>4 DEF StageShape, Open, ParentShape, CascadeIsOver
  <2> QED
    BY <2>4, <2>6 DEF TurnOf
<1> QED
  BY <1>1, <1>2

LEMMA HandsBackType ==
  ASSUME TypeOK, NEW a \in Accounts, turn[a].stage # "idle", TurnOf(a), Completed(a) \/ Thrown(a)
  PROVE  /\ turn' \in [Accounts -> [stage : Stages, id : Actions \cup {NoOperation},
                              parent : Actions \cup {NoOperation}, left : 0..ChildBudget]]
         /\ turn'[a].stage # "idle" =>
                turn'[a].id \in DOMAIN operations /\ turn'[a].id.entity = a /\ turn'[a].id # turn[a].id
         /\ \A c \in Accounts \ {a} : turn'[c] = turn[c]
<1>1. CASE turn[a].parent = NoOperation
  BY <1>1, BoundsAssumption DEF Completed, Thrown, Enter, Idle, TypeOK, OperationTypes, RowTypes, TurnTypes, Stages
<1>2. CASE turn[a].parent # NoOperation
  <2>1. /\ turn[a].parent \in DOMAIN operations /\ turn[a].parent.entity = a
        /\ turn[a].id.entity \notin Accounts /\ turn[a].left > 0
    BY <1>2 DEF TurnOf, ParentShape
  <2>2. turn[a].left - 1 \in 0..ChildBudget /\ 0 \in 0..ChildBudget /\ turn[a].parent \in Actions
    BY <2>1, BoundsAssumption DEF TypeOK, OperationTypes, RowTypes, TurnTypes
  <2> QED
    BY <1>2, <2>1, <2>2 DEF Completed, Thrown, Enter, TypeOK, OperationTypes, RowTypes, TurnTypes, Stages
<1> QED
  BY <1>1, <1>2

-----------------------------------------------------------------------------
(***************************************************************************)
(* The kinds of steps.                                                     *)
(***************************************************************************)
\* A step of a coordinator that touches one operation of its owner's.
StepOf(a, id) ==
    /\ id \in Actions /\ OwnerOf(id.entity) = a /\ OnlyTouches(id)
    /\ \A c \in Accounts \ {a} : turn'[c] = turn[c]
    /\ TurnOf(a)'

LEMMA SameKeeps ==
  ASSUME LifecycleInvariant, UNCHANGED <<operations, entities, claims, index, document>>, NEW id
  PROVE  OnlyTouches(id) /\ OperationsShape' /\ EntitiesShape'
  BY DEF OnlyTouches, Claimed, LifecycleInvariant, OperationsShape, PhaseShape, PhaseOf,
         RowNamesOperation, Live, Open, Blocked, Holds, EntitiesShape, EntityShape, OwnerShape,
         HomeShape, BeingMade, BeingDeleted

LEMMA StepKeeps ==
  ASSUME LifecycleInvariant, TypeOK', OperationsShape', EntitiesShape',
         NEW a \in Accounts, NEW id, StepOf(a, id)
  PROVE  LifecycleInvariant'
  BY TurnsNext DEF LifecycleInvariant, StepOf

\* Only what the coordinators do changes.
LEMMA TurnStepKeeps ==
  ASSUME LifecycleInvariant, TypeOK', UNCHANGED <<operations, entities, claims, index, document>>,
         NEW a \in Accounts, \A c \in Accounts \ {a} : turn'[c] = turn[c], TurnOf(a)'
  PROVE  LifecycleInvariant'
<1> DEFINE id == Operation("delete", a, 0)
<1>1. id \in Actions /\ id.entity = a /\ OwnerOf(id.entity) = a
  BY DEF Operation, Actions, Entities, OwnerOf
<1>2. OnlyTouches(id) /\ OperationsShape' /\ EntitiesShape'
  BY SameKeeps
<1> HIDE DEF id
<1> QED
  BY <1>1, <1>2, TurnsNext DEF LifecycleInvariant

\* A live operation goes on in another phase, and its row with it.
Rephases(id) ==
    /\ DOMAIN operations' = DOMAIN operations
    /\ \A other \in DOMAIN operations \ {id} : operations'[other] = operations[other]
    /\ SetEntity(id, operations'[id].phase)
    /\ UNCHANGED <<claims, index, document>>

LEMMA RephaseKeeps ==
  ASSUME LifecycleInvariant, TypeOK', NEW id \in DOMAIN operations, Live(id), Rephases(id),
         Live(id)', PhaseOf(id)'
  PROVE  OnlyTouches(id) /\ OperationsShape' /\ EntitiesShape'
<1>0. TypeOK /\ OperationsShape /\ EntitiesShape /\ id \in Actions /\ id.entity \in Entities
  BY DEF LifecycleInvariant, TypeOK, OperationTypes, Actions
<1>1. Holds(id) /\ entities[id.entity].phase = operations[id].phase
  BY <1>0 DEF OperationsShape, RowNamesOperation
<1>2. entities' = [entities EXCEPT ![id.entity].phase = operations'[id].phase]
  BY <1>1 DEF Rephases, SetEntity
<1>3. OnlyTouches(id)
  BY <1>2 DEF OnlyTouches, Rephases, Claimed
<1>4. /\ Holds(id)' /\ entities'[id.entity].phase = operations'[id].phase
      /\ entities'[id.entity].id = id /\ entities[id.entity].id = id
  BY <1>0, <1>1, <1>2 DEF Holds, TypeOK, RowTypes
<1>5. entities'[id.entity].phase # "active" /\ entities[id.entity].phase # "active"
  <2>1. Open(id)' \/ operations'[id].phase = "terminal_failed"
    BY DEF Live, TypeOK, OperationTypes
  <2>2. Open(id) \/ operations[id].phase = "terminal_failed"
    BY <1>0 DEF Live, TypeOK, OperationTypes
  <2> QED
    BY <1>1, <1>4, <2>1, <2>2 DEF Open, OpenPhases
<1>6. OperationsShape'
  BY <1>0, <1>3, <1>4, OperationsNext DEF OperationOf
<1>7. /\ BeingMade(id.entity)' <=> BeingMade(id.entity)
      /\ BeingDeleted(id.entity)' <=> BeingDeleted(id.entity)
      /\ Holds(Operation("delete", id.entity, 0))' <=> Holds(Operation("delete", id.entity, 0))
  BY <1>1, <1>4, <1>5 DEF Holds, BeingMade, BeingDeleted, Operation
<1>8. Permitted(id.entity)
  BY <1>7 DEF Permitted, Rephases, Claimed
<1>9. EntityShape(id.entity)'
  BY <1>0, <1>7 DEF EntitiesShape, EntityShape, Rephases, Claimed
<1> QED
  BY <1>0, <1>3, <1>6, <1>8, <1>9, EntitiesNext

\* A live operation writes a document or an index row.
Writes(id) ==
    /\ UNCHANGED <<operations, entities, claims>>
    /\ \A f \in Entities \ {id.entity} : index'[f] = index[f] /\ document'[f] = document[f]
    /\ id.action = "create" =>
        index'[id.entity] \in {"none", "pending"} /\ document'[id.entity] \in {"none", "live"}
    /\ id.action = "delete" =>
        /\ index'[id.entity] \in {"deleting", "deleted"}
        /\ document'[id.entity] \in {"live", "tombstone"}
    /\ id.entity \in Accounts /\ index'[id.entity] # index[id.entity] => Owned(id.entity, Worlds) = {}

LEMMA LiveRow ==
  ASSUME LifecycleInvariant, NEW id \in DOMAIN operations, Live(id)
  PROVE  /\ Holds(id) /\ entities[id.entity].id = id /\ entities[id.entity].phase # "active"
         /\ entities[id.entity].phase = operations[id].phase
         /\ id \in Actions /\ id.entity \in Entities
         /\ BeingMade(id.entity) <=> id.action = "create"
         /\ BeingDeleted(id.entity) <=> id.action = "delete"
         /\ index[id.entity] # "active" /\ Claimed(id.entity)
<1>1. Holds(id) /\ entities[id.entity].phase = operations[id].phase /\ id \in Actions
  BY DEF LifecycleInvariant, TypeOK, OperationTypes, OperationsShape, RowNamesOperation
<1>2. entities[id.entity].phase # "active" /\ id.entity \in Entities
  BY <1>1 DEF LifecycleInvariant, TypeOK, OperationTypes, Live, Open, Blocked, OpenPhases, Actions
<1>3. /\ BeingMade(id.entity) <=> id.action = "create"
      /\ BeingDeleted(id.entity) <=> id.action = "delete"
      /\ id.action \in {"create", "delete"}
  BY <1>1, <1>2 DEF Holds, BeingMade, BeingDeleted, Actions
<1>4. index[id.entity] # "active" /\ Claimed(id.entity)
  BY <1>2, <1>3 DEF LifecycleInvariant, EntitiesShape, EntityShape
<1> QED
  BY <1>1, <1>2, <1>3, <1>4 DEF Holds

LEMMA WriteKeeps ==
  ASSUME LifecycleInvariant, TypeOK', NEW id \in DOMAIN operations, Live(id), Writes(id)
  PROVE  OnlyTouches(id) /\ OperationsShape' /\ EntitiesShape'
<1>0. TypeOK /\ OperationsShape /\ EntitiesShape /\ id \in Actions /\ id.entity \in Entities
  BY LiveRow DEF LifecycleInvariant
<1>1. OnlyTouches(id)
  BY DEF OnlyTouches, Writes, Claimed
<1>2. OperationsShape'
  BY <1>0 DEF Writes, OperationsShape, PhaseShape, PhaseOf, RowNamesOperation, Live, Open, Blocked, Holds
<1>3. /\ BeingMade(id.entity)' <=> BeingMade(id.entity)
      /\ BeingDeleted(id.entity)' <=> BeingDeleted(id.entity)
      /\ Holds(Operation("delete", id.entity, 0))' <=> Holds(Operation("delete", id.entity, 0))
      /\ Claimed(id.entity)' <=> Claimed(id.entity)
      /\ claims' = claims
  BY DEF Writes, Holds, BeingMade, BeingDeleted, Claimed
<1>4. Permitted(id.entity)
  BY <1>3, LiveRow DEF Permitted, Writes
<1>5. EntityShape(id.entity)'
  BY <1>0, <1>3, LiveRow DEF EntitiesShape, EntityShape, Writes, Actions
<1> QED
  BY <1>0, <1>1, <1>2, <1>4, <1>5, EntitiesNext

LEMMA BeginKeeps ==
  ASSUME LifecycleInvariant, TypeOK', NEW id \in Actions, id.action = "delete",
         MayDelete(id.entity), BeginDelete(id), UNCHANGED document,
         \/ id.key = 0
         \/ id.entity \notin Accounts /\ BeingDeleted(Owner[id.entity])
  PROVE  OnlyTouches(id) /\ OperationsShape' /\ EntitiesShape'
<1> DEFINE e == id.entity
<1>0. TypeOK /\ OperationsShape /\ EntitiesShape /\ e \in Entities
  BY DEF LifecycleInvariant, Actions
<1>1. OnlyTouches(id)
  BY <1>0 DEF OnlyTouches, BeginDelete, With, Claimed, TypeOK, RowTypes
<1>2. index[e] = "active" /\ ~BeingMade(e) /\ ~BeingDeleted(e) /\ document[e] = "live" /\ Claimed(e)
  BY <1>0 DEF MayDelete, EntitiesShape, EntityShape
<1>3. e \in DOMAIN entities => entities[e].phase = "active"
  BY <1>0, <1>2 DEF BeingMade, BeingDeleted, TypeOK, RowTypes, Actions
<1>4. /\ id \in DOMAIN operations' /\ operations'[id] = [phase |-> "deleting", retries |-> 0, kv |-> "none"]
      /\ e \in DOMAIN entities' /\ entities'[e] = [phase |-> "deleting", id |-> id]
      /\ index'[e] = "deleting" /\ claims' = claims
  BY <1>0 DEF BeginDelete, With, TypeOK, RowTypes
<1>5. PhaseOf(id)' /\ Live(id)' /\ Holds(id)'
  <2>1. id.key > 0 => id.entity \notin Accounts
    BY DEF Actions
  <2> QED
    BY <1>4, <2>1 DEF PhaseOf, Live, Holds, Open, Blocked, OpenPhases
<1>6. OperationsShape'
  BY <1>0, <1>1, <1>3, <1>4, <1>5, OperationsNext DEF OperationOf
<1>7. BeingDeleted(e)' /\ ~BeingMade(e)' /\ (Claimed(e)' <=> Claimed(e))
  BY <1>4 DEF BeingDeleted, BeingMade, Claimed
<1>8. EntityShape(e)'
  BY <1>0, <1>2, <1>4, <1>7 DEF EntitiesShape, EntityShape
<1>9. id.key = 0 => Holds(Operation("delete", e, 0))'
  <2>1. id.key = 0 => id = Operation("delete", e, 0)
    BY DEF Operation, Actions
  <2> QED
    BY <1>5, <2>1
<1>10. ASSUME e \in Accounts, NEW f \in Worlds \cup Bots, Owner[f] = e
       PROVE  ~BeingMade(f)
  <2> SUFFICES ASSUME BeingMade(f) PROVE FALSE
    OBVIOUS
  <2>1. PICK own : own = entities[f].id
    OBVIOUS
  <2>2. Live(own) /\ own.entity = f /\ own \in DOMAIN operations /\ OwnerOf(f) = e
    BY <1>0, <1>10, <2>1, OwnersAreAccounts
       DEF BeingMade, OperationsShape, RowNamesOperation, Live, TypeOK, RowTypes, OwnerOf
  <2> QED
    BY <1>10, <2>2 DEF Live, MayDelete, OpenOperations
<1>11. Permitted(e)
  BY <1>2, <1>4, <1>7, <1>9, <1>10 DEF Permitted, MayDelete
<1> QED
  BY <1>0, <1>1, <1>6, <1>8, <1>11, EntitiesNext

LEMMA ReserveKeeps ==
  ASSUME LifecycleInvariant, TypeOK', NEW e \in Entities, ReserveCreate(e)
  PROVE  /\ OnlyTouches(Operation("create", e, 0)) /\ OperationsShape' /\ EntitiesShape'
         /\ Open(Operation("create", e, 0))'
<1> DEFINE id == Operation("create", e, 0)
           mine == Identity[e]
<1>0. /\ TypeOK /\ OperationsShape /\ EntitiesShape
      /\ id \in Actions /\ id.entity = e /\ id.action = "create" /\ id.key = 0
  BY DEF LifecycleInvariant, Actions, Operation
<1>1. /\ operations' = With(operations, id, [phase |-> "pending", retries |-> 0, kv |-> "none"])
      /\ entities' = With(entities, e, [phase |-> "pending", id |-> id])
      /\ claims' = With(claims, mine, [entity |-> e, state |-> "pending"])
      /\ index' = index /\ document' = document
      /\ index[e] = "none" /\ MayCreate(e) /\ mine \notin DOMAIN claims
  BY DEF ReserveCreate
<1> HIDE DEF id
<1>2. OnlyTouches(id)
  BY <1>0, <1>1 DEF OnlyTouches, With, Claimed, TypeOK, RowTypes
<1>3. ~Claimed(e) /\ ~BeingMade(e) /\ ~BeingDeleted(e)
  BY <1>0, <1>1 DEF Claimed, EntitiesShape, EntityShape
<1>4. e \in DOMAIN entities => entities[e].phase = "active"
  BY <1>0, <1>3 DEF BeingMade, BeingDeleted, TypeOK, RowTypes, Actions
<1>5. /\ id \in DOMAIN operations' /\ operations'[id] = [phase |-> "pending", retries |-> 0, kv |-> "none"]
      /\ e \in DOMAIN entities' /\ entities'[e] = [phase |-> "pending", id |-> id]
      /\ mine \in DOMAIN claims' /\ claims'[mine] = [entity |-> e, state |-> "pending"]
  BY <1>1 DEF With
<1>6. PhaseOf(id)' /\ Live(id)' /\ Holds(id)' /\ Open(id)'
  BY <1>0, <1>5 DEF PhaseOf, Live, Holds, Open, Blocked, OpenPhases
<1>7. OperationsShape'
  BY <1>0, <1>2, <1>4, <1>5, <1>6, OperationsNext DEF OperationOf
<1>8. BeingMade(e)' /\ ~BeingDeleted(e)' /\ Claimed(e)' /\ claims'[mine].state = "pending"
  BY <1>0, <1>5 DEF BeingDeleted, BeingMade, Claimed
<1>9. document[e] \in {"none", "live"}
  BY <1>0, <1>1 DEF EntitiesShape, EntityShape
<1>10. EntityShape(e)'
  BY <1>1, <1>8, <1>9 DEF EntityShape
<1>11. Permitted(e)
  BY <1>1, <1>3, <1>8, OwnersAreAccounts DEF Permitted, MayCreate
<1> QED
  BY <1>0, <1>2, <1>6, <1>7, <1>10, <1>11, EntitiesNext DEF id

\* The one live operation of an entity ends in a phase that is final.
Ends(id, phase) ==
    /\ SetPhase(id, phase) /\ phase \in {"terminal", "terminal_failed"}
    /\ ~Blocked(id)

LEMMA EndedOperation ==
  ASSUME LifecycleInvariant, TypeOK', NEW id \in DOMAIN operations, NEW phase, Ends(id, phase)
  PROVE  /\ ~Live(id)' /\ PhaseOf(id)'
         /\ \A other \in Actions \ {id} :
                /\ other \in DOMAIN operations' <=> other \in DOMAIN operations
                /\ other \in DOMAIN operations => operations'[other] = operations[other]
<1>0. PhaseOf(id) /\ operations[id] \in [phase : Phases, retries : Nat, kv : {"none", "retrying", "blocked"}]
  BY DEF LifecycleInvariant, OperationsShape, PhaseShape, TypeOK, OperationTypes
<1>1. /\ id \in DOMAIN operations' /\ DOMAIN operations' = DOMAIN operations
      /\ operations'[id].phase = phase /\ operations'[id].kv = operations[id].kv
      /\ \A other \in DOMAIN operations \ {id} : operations'[other] = operations[other]
  BY <1>0 DEF Ends, SetPhase
<1>2. ~Open(id)' /\ ~Blocked(id)'
  BY <1>1 DEF Ends, Open, Blocked, OpenPhases
<1> QED
  BY <1>0, <1>1, <1>2 DEF Live, PhaseOf

LEMMA ActivateKeeps ==
  ASSUME LifecycleInvariant, TypeOK', NEW id \in DOMAIN operations, Open(id),
         id.action = "create", operations[id].phase \in {"pending", "materializing"},
         document[id.entity] = "live",
         claims' = [claims EXCEPT ![Identity[id.entity]].state = "active"],
         SetIndex(id.entity, "active"),
         entities' = IF Holds(id) /\ entities[id.entity].phase \in {"pending", "materializing"}
                     THEN [entities EXCEPT ![id.entity].phase = "active"] ELSE entities,
         Ends(id, "terminal"), UNCHANGED document
  PROVE  OnlyTouches(id) /\ OperationsShape' /\ EntitiesShape'
<1> DEFINE e == id.entity
<1>0. Live(id) /\ TypeOK /\ OperationsShape /\ EntitiesShape
  BY DEF Live, LifecycleInvariant
<1>1. /\ Holds(id) /\ entities[e].id = id /\ entities[e].phase = operations[id].phase
      /\ id \in Actions /\ e \in Entities /\ index[e] # "active" /\ Claimed(e)
      /\ BeingMade(e) /\ ~BeingDeleted(e)
  BY <1>0, LiveRow
<1>2. index[e] \in {"none", "pending"}
  BY <1>0, <1>1 DEF EntitiesShape, EntityShape
<1>3. entities' = [entities EXCEPT ![e].phase = "active"] /\ index' = [index EXCEPT ![e] = "active"]
  BY <1>1, <1>2 DEF SetIndex
<1>4. /\ \A f \in Entities : Claimed(f)' <=> Claimed(f)
      /\ \A f \in Entities \ {e} : Claimed(f) => claims'[Identity[f]] = claims[Identity[f]]
      /\ claims'[Identity[e]].state = "active"
  BY <1>0, <1>1 DEF Claimed, TypeOK, RowTypes
<1>5. OnlyTouches(id)
  BY <1>0, <1>1, <1>3, <1>4, EndedOperation DEF OnlyTouches, TypeOK, RowTypes
<1>6. /\ e \in DOMAIN entities' /\ entities'[e].phase = "active" /\ entities'[e].id = id
      /\ index'[e] = "active"
  BY <1>0, <1>1, <1>3 DEF Holds, TypeOK, RowTypes
<1>7. OperationsShape'
  BY <1>0, <1>1, <1>5, <1>6, EndedOperation, OperationsNext DEF OperationOf
<1>8. ~BeingMade(e)' /\ ~BeingDeleted(e)'
  BY <1>6 DEF BeingMade, BeingDeleted
<1>9. EntityShape(e)'
  BY <1>1, <1>4, <1>6, <1>8 DEF EntityShape
<1>10. Permitted(e)
  <2>1. Holds(Operation("delete", e, 0)) => FALSE
    BY <1>1 DEF Holds, Operation
  <2> QED
    BY <1>1, <1>2, <1>6, <1>8, <2>1 DEF Permitted
<1> QED
  BY <1>0, <1>1, <1>5, <1>7, <1>9, <1>10, EntitiesNext

LEMMA AbortKeeps ==
  ASSUME LifecycleInvariant, TypeOK', NEW id \in DOMAIN operations, Open(id),
         id.action = "delete", id.entity \notin Accounts,
         document[id.entity] = "live", index[id.entity] # "deleted",
         AbortDeletion(id), UNCHANGED <<claims, document>>
  PROVE  OnlyTouches(id) /\ OperationsShape' /\ EntitiesShape'
<1> DEFINE e == id.entity
<1>0. Live(id) /\ TypeOK /\ OperationsShape /\ EntitiesShape
  BY DEF Live, LifecycleInvariant
<1>1. /\ Holds(id) /\ entities[e].id = id /\ entities[e].phase = operations[id].phase
      /\ id \in Actions /\ e \in Entities /\ index[e] # "active" /\ Claimed(e)
      /\ ~BeingMade(e) /\ BeingDeleted(e)
  BY <1>0, LiveRow
<1>2. entities' = [entities EXCEPT ![e].phase = "active"] /\ index' = [index EXCEPT ![e] = "active"]
  BY <1>1 DEF AbortDeletion, SetIndex, SetEntity
<1>3. Ends(id, "terminal_failed")
  <2>1. ~Blocked(id)
    BY <1>0 DEF OperationsShape, PhaseShape, PhaseOf, Blocked
  <2> QED
    BY <2>1 DEF Ends, AbortDeletion
<1>4. \A f \in Entities : Claimed(f)' <=> Claimed(f)
  BY DEF Claimed
<1>5. OnlyTouches(id)
  BY <1>0, <1>1, <1>2, <1>3, <1>4, EndedOperation DEF OnlyTouches, TypeOK, RowTypes
<1>6. /\ e \in DOMAIN entities' /\ entities'[e].phase = "active" /\ entities'[e].id = id
      /\ index'[e] = "active"
  BY <1>0, <1>1, <1>2 DEF Holds, TypeOK, RowTypes
<1>7. OperationsShape'
  BY <1>0, <1>1, <1>3, <1>5, <1>6, EndedOperation, OperationsNext DEF OperationOf
<1>8. ~BeingMade(e)' /\ ~BeingDeleted(e)'
  BY <1>6 DEF BeingMade, BeingDeleted
<1>9. EntityShape(e)'
  BY <1>0, <1>1, <1>4, <1>6, <1>8 DEF EntitiesShape, EntityShape
<1>10. Permitted(e)
  <2>1. Holds(Operation("delete", e, 0)) <=> Holds(Operation("delete", e, 0))'
    BY <1>1, <1>6 DEF Holds, Operation
  <2> QED
    BY <1>1, <1>6, <1>8, <2>1 DEF Permitted
<1> QED
  BY <1>0, <1>1, <1>5, <1>7, <1>9, <1>10, EntitiesNext

LEMMA DroppedRow ==
  ASSUME NEW id, Holds(id), DropEntity(id)
  PROVE  /\ id.entity \notin DOMAIN entities'
         /\ \A f : f # id.entity => (f \in DOMAIN entities' <=> f \in DOMAIN entities)
         /\ \A f \in DOMAIN entities \ {id.entity} : entities'[f] = entities[f]
  BY DEF DropEntity, Restrict

\* Without its row and its claim an entity is of no concern to an operation.
LEMMA DropKeeps ==
  ASSUME LifecycleInvariant, TypeOK', NEW id \in DOMAIN operations, Live(id),
         NEW phase, Ends(id, phase), DropEntity(id),
         claims' = Restrict(claims, DOMAIN claims \ {Identity[id.entity]}),
         index'[id.entity] # "active",
         \A f \in Entities \ {id.entity} : index'[f] = index[f],
         UNCHANGED document,
         index'[id.entity] \in {"none", "pending"} => document[id.entity] \in {"none", "live"},
         id.entity \in Accounts /\ id.action = "delete" =>
            /\ index' = index
            /\ \A b \in Bots : Owner[b] = id.entity /\ Claimed(b) => Holds(Operation("delete", b, 0))
  PROVE  OnlyTouches(id) /\ OperationsShape' /\ EntitiesShape'
<1> DEFINE e == id.entity
<1>0. TypeOK /\ OperationsShape /\ EntitiesShape
  BY DEF LifecycleInvariant
<1>1. /\ Holds(id) /\ entities[e].id = id
      /\ id \in Actions /\ e \in Entities /\ index[e] # "active" /\ Claimed(e)
      /\ BeingMade(e) <=> id.action = "create"
      /\ BeingDeleted(e) <=> id.action = "delete"
  BY LiveRow
<1>2. /\ ~Claimed(e)'
      /\ \A f \in Entities \ {e} : Claimed(f)' <=> Claimed(f)
      /\ \A f \in Entities \ {e} : Claimed(f) => claims'[Identity[f]] = claims[Identity[f]]
  BY <1>1 DEF Claimed, Restrict
<1>3. OnlyTouches(id)
  <2>1. \A other \in Actions \ {id} :
            /\ other \in DOMAIN operations' <=> other \in DOMAIN operations
            /\ other \in DOMAIN operations => operations'[other] = operations[other]
    BY EndedOperation
  <2>2. \A f \in Entities \ {e} : /\ f \in DOMAIN entities' <=> f \in DOMAIN entities
                                  /\ f \in DOMAIN entities => entities'[f] = entities[f]
    <3>1. entities' = Restrict(entities, DOMAIN entities \ {e})
      BY <1>1 DEF DropEntity
    <3> QED
      BY <3>1 DEF Restrict
  <2> QED
    BY <1>2, <2>1, <2>2 DEF OnlyTouches
<1>4. OperationsShape'
  BY <1>0, <1>1, <1>3, DroppedRow, EndedOperation, OperationsNext DEF OperationOf
<1>5. ~BeingMade(e)' /\ ~BeingDeleted(e)' /\ index'[e] # "active"
  BY <1>1, DroppedRow DEF BeingMade, BeingDeleted
<1>6. EntityShape(e)'
  BY <1>2, <1>5 DEF EntityShape
<1>7. index[e] = "deleting" => id.action = "delete"
  BY <1>0, <1>1 DEF EntitiesShape, EntityShape, Actions
<1>8. Permitted(e)
  BY <1>1, <1>2, <1>5, <1>7 DEF Permitted
<1> QED
  BY <1>0, <1>1, <1>3, <1>4, <1>6, <1>8, EntitiesNext

LEMMA ForgetKeeps ==
  ASSUME LifecycleInvariant, TypeOK', NEW id, Forget(id)
  PROVE  LifecycleInvariant'
<1>0. /\ TypeOK /\ OperationsShape /\ EntitiesShape /\ TurnShape
      /\ id \in DOMAIN operations /\ id \in Actions /\ ~Live(id) /\ id.entity \in Entities
  BY DEF LifecycleInvariant, Forget, Live, TypeOK, OperationTypes, Actions
<1>1. /\ DOMAIN operations' = DOMAIN operations \ {id}
      /\ \A other \in DOMAIN operations \ {id} : operations'[other] = operations[other]
      /\ UNCHANGED <<entities, claims, index, document, turn>>
  BY DEF Forget, Restrict
<1>2. \A other \in DOMAIN operations' : /\ Live(other)' <=> Live(other)
                                        /\ PhaseOf(other)' <=> PhaseOf(other)
                                        /\ Holds(other)' <=> Holds(other)
                                        /\ Open(other)' <=> Open(other)
  BY <1>1 DEF Live, Open, Blocked, PhaseOf, Holds
<1>3. OperationsShape'
  <2>1. PhaseShape'
    BY <1>0, <1>1, <1>2 DEF OperationsShape, PhaseShape
  <2>2. ASSUME NEW f \in DOMAIN entities', entities'[f].phase # "active"
        PROVE  Live(entities[f].id)'
    <3>1. PICK own : own = entities[f].id
      OBVIOUS
    <3>2. Live(own) /\ own # id /\ entities'[f].id = own
      BY <1>0, <1>1, <2>2, <3>1 DEF OperationsShape, RowNamesOperation
    <3>3. Live(own)'
      BY <1>1, <1>2, <3>2 DEF Live
    <3> QED
      BY <3>2, <3>3
  <2> QED
    BY <1>0, <1>1, <1>2, <2>1, <2>2 DEF OperationsShape, RowNamesOperation
<1>4. EntitiesShape'
  BY <1>0, <1>1 DEF EntitiesShape, EntityShape, OwnerShape, HomeShape, BeingMade, BeingDeleted, Claimed, Holds
<1>5. ASSUME NEW c \in Accounts
      PROVE  TurnOf(c)'
  <2> SUFFICES ASSUME turn[c].stage # "idle"
      PROVE  StageShape(c)' /\ ParentShape(c)' /\ CascadeIsOver(c)'
    BY <1>1 DEF TurnOf
  <2>1. StageShape(c) /\ ParentShape(c) /\ CascadeIsOver(c)
    BY <1>0 DEF TurnShape, TurnOf
  <2>2. PICK own : own = turn[c].id
    OBVIOUS
  <2>3. Open(own) /\ own # id /\ own \in DOMAIN operations
    BY <1>0, <2>1, <2>2, RunsItsOwn DEF StageShape, Live
  <2>4. StageShape(c)'
    BY <1>1, <2>1, <2>2, <2>3 DEF StageShape, Open
  <2>5. ParentShape(c)'
    <3>1. turn[c].parent # NoOperation => turn[c].parent # id
      BY <1>0, <2>1 DEF ParentShape, Live
    <3> QED
      BY <1>1, <2>1, <3>1 DEF ParentShape, Open
  <2>6. OpenOperations(c)' = OpenOperations(c)
    BY <1>0, <1>1, <1>2 DEF OpenOperations, Live
  <2>7. CascadeIsOver(c)'
    BY <1>1, <2>1, <2>6 DEF CascadeIsOver, Children, Targets, Owned
  <2> QED
    BY <2>4, <2>5, <2>7
<1>6. TypeOK'
  OBVIOUS
<1> QED
  BY <1>3, <1>4, <1>5, <1>6 DEF LifecycleInvariant, TurnShape

-----------------------------------------------------------------------------
(***************************************************************************)
(* The initial states.                                                     *)
(***************************************************************************)
LEMMA LifecycleInit == Init => LifecycleInvariant
<1> SUFFICES ASSUME Init PROVE LifecycleInvariant
  OBVIOUS
<1> DEFINE present == {e \in Entities : index[e] = "active"}
<1>1. /\ DOMAIN operations = {} /\ DOMAIN entities = {}
      /\ turn = [a \in Accounts |-> Idle]
      /\ index \in [Entities -> {"none", "active"}]
      /\ document = [e \in Entities |-> IF index[e] = "active" THEN "live" ELSE "none"]
  BY DEF Init
<1>2. /\ DOMAIN claims = {Identity[e] : e \in present}
      /\ \A e \in present : claims[Identity[e]] = [entity |-> e, state |-> "active"]
  <2>1. \A e \in present : (CHOOSE f \in Entities : index[f] = "active" /\ Identity[f] = Identity[e]) = e
    BY DEF Init
  <2> QED
    BY <2>1 DEF Init
<1>3. OperationTypes /\ OperationsShape
  BY <1>1 DEF OperationTypes, OperationsShape, PhaseShape, RowNamesOperation
<1> HIDE DEF present
<1>a. \A i \in DOMAIN claims : \E e \in present :
        Identity[e] = i /\ claims[i] = [entity |-> e, state |-> "active"]
  BY <1>2
<1>b. \A e \in Entities : e \in present <=> index[e] = "active"
  BY DEF present
<1>4. RowTypes
  <2>1. \A i \in DOMAIN claims : /\ claims[i] \in [entity : Entities, state : {"pending", "active"}]
                                /\ Identity[claims[i].entity] = i
    BY <1>a DEF present
  <2> QED
    BY <1>1, <2>1 DEF RowTypes
<1>5. TurnTypes /\ TurnShape
  BY <1>1, BoundsAssumption DEF TurnTypes, TurnShape, TurnOf, Idle, Stages
<1>6. \A e \in Entities : (Claimed(e) <=> index[e] = "active")
                        /\ (Claimed(e) => claims[Identity[e]].state = "active")
  <2>1. ASSUME NEW e \in Entities, Claimed(e)
        PROVE  index[e] = "active" /\ claims[Identity[e]].state = "active"
    BY <1>a, <1>b, <2>1 DEF Claimed, present
  <2>2. ASSUME NEW e \in Entities, index[e] = "active"
        PROVE  Claimed(e)
    <3>1. e \in present
      BY <1>b, <2>2
    <3>2. Identity[e] \in DOMAIN claims /\ claims[Identity[e]] = [entity |-> e, state |-> "active"]
      BY <1>2, <3>1
    <3> QED
      BY <3>2 DEF Claimed
  <2> QED
    BY <2>1, <2>2
<1>7. \A e \in Entities : EntityShape(e) /\ OwnerShape(e)
  BY <1>1, <1>6 DEF EntityShape, OwnerShape, BeingMade, BeingDeleted
<1>8. \A b \in Bots : HomeShape(b)
  <2> SUFFICES ASSUME NEW b \in Bots, index[b] = "active" PROVE HomeShape(b)
    BY <1>6 DEF HomeShape, Entities
  <2>1. index[Home[b]] = "active" /\ index[Owner[b]] = "active"
    BY DEF Init
  <2>2. index[Owner[Home[b]]] = "active"
    BY <2>1, OwnersAreAccounts DEF Init
  <2> QED
    BY <2>1, <2>2 DEF HomeShape
<1>9. TypeOK
  BY <1>3, <1>4, <1>5, BoundsAssumption DEF TypeOK, Init
<1> QED
  BY <1>3, <1>5, <1>7, <1>8, <1>9 DEF LifecycleInvariant, EntitiesShape

-----------------------------------------------------------------------------
(***************************************************************************)
(* The steps in which only a coordinator goes on.                          *)
(***************************************************************************)
LEMMA EntersOpen ==
  ASSUME LifecycleInvariant, NEW a \in Accounts, NEW id \in DOMAIN operations, Open(id),
         OwnerOf(id.entity) = a, NEW parent \in Actions \cup {NoOperation}, NEW left \in 0..ChildBudget,
         parent # NoOperation =>
            /\ parent \in DOMAIN operations /\ Open(parent)
            /\ parent.action = "delete" /\ parent.entity = a
            /\ id.entity \notin Accounts /\ left > 0,
         Enter(a, Running(id, operations[id].phase, parent, left)),
         UNCHANGED <<operations, entities, claims, index, document, wanted, faults>>
  PROVE  LifecycleInvariant'
<1> DEFINE running == Running(id, operations[id].phase, parent, left)
<1>0. /\ TypeOK /\ PhaseOf(id) /\ id \in Actions
  BY DEF LifecycleInvariant, OperationsShape, PhaseShape, TypeOK, OperationTypes
<1>1. /\ turn'[a] = running
      /\ \A c \in Accounts \ {a} : turn'[c] = turn[c]
      /\ running.stage = StageOf(id, operations[id].phase)
      /\ running.id = id /\ running.parent = parent /\ running.left = left
      /\ running.stage \in Stages
  BY <1>0 DEF Enter, TypeOK, TurnTypes, Running, StageOf, Stages
<1>2. TypeOK'
  <2>1. TurnTypes'
    BY <1>0, <1>1 DEF TypeOK, TurnTypes, Enter, Running
  <2> QED
    BY <1>0, <2>1 DEF TypeOK, OperationTypes, RowTypes, Blocked
<1>3. /\ id.action = "create" => running.stage = IF operations[id].phase = "compensating"
                                                  THEN "cleanup" ELSE "create"
      /\ id.action = "delete" => running.stage = IF id.entity \in Accounts
                                                  THEN "children" ELSE "tombstone"
  BY <1>1 DEF StageOf
<1> HIDE DEF running
<1>4. StageShape(a)'
  <2>1. Open(turn[a].id)'
    BY <1>1 DEF Open
  <2>2. id.action \in {"create", "delete"}
    BY <1>0 DEF Actions
  <2> QED
    BY <1>0, <1>1, <1>3, <2>1, <2>2 DEF StageShape, PhaseOf
<1>5. ParentShape(a)'
  BY <1>1 DEF ParentShape, Open
<1>6. CascadeIsOver(a)'
  BY <1>0, <1>1, <1>3 DEF CascadeIsOver, Actions
<1> QED
  BY <1>1, <1>2, <1>4, <1>5, <1>6, TurnStepKeeps DEF TurnOf

LEMMA ResumeKeeps ==
  ASSUME LifecycleInvariant, NEW a \in Accounts, NEW id, Resume(a, id)
  PROVE  LifecycleInvariant'
<1>1. id \in DOMAIN operations /\ Open(id) /\ OwnerOf(id.entity) = a
  BY DEF Resume, OpenOperations
<1> QED
  BY <1>1, EntersOpen, BoundsAssumption DEF Resume

LEMMA ResumeChildKeeps ==
  ASSUME LifecycleInvariant, NEW a \in Accounts, NEW id, ResumeChild(a, id)
  PROVE  LifecycleInvariant'
<1>1. id \in DOMAIN operations /\ Open(id) /\ OwnerOf(id.entity) = a /\ id.key > 0
  BY DEF ResumeChild, Children, OpenOperations
<1>2. id.entity \notin Accounts
  BY <1>1 DEF LifecycleInvariant, OperationsShape, PhaseShape, PhaseOf
<1>3. TypeOK /\ turn[a].stage # "idle" /\ StageShape(a)
  BY DEF LifecycleInvariant, TurnShape, TurnOf, ResumeChild, At
<1>4. /\ Current(a) \in DOMAIN operations /\ Current(a) \in Actions /\ Open(Current(a))
      /\ Current(a).action = "delete" /\ Current(a).entity = a
      /\ turn[a].left \in 0..ChildBudget /\ turn[a].left > 0
  BY <1>3, RunsItsOwn DEF StageShape, ResumeChild, At, Current, OwnerOf
<1> QED
  BY <1>1, <1>2, <1>4, EntersOpen DEF ResumeChild

LEMMA IdleKeeps ==
  ASSUME LifecycleInvariant, TypeOK', NEW a \in Accounts, Enter(a, Idle),
         UNCHANGED <<operations, entities, claims, index, document>>
  PROVE  LifecycleInvariant'
<1>1. turn'[a] = Idle /\ \A c \in Accounts \ {a} : turn'[c] = turn[c]
  BY DEF LifecycleInvariant, TypeOK, TurnTypes, Enter
<1>2. TurnOf(a)'
  BY <1>1 DEF TurnOf, Idle
<1> QED
  BY <1>1, <1>2, TurnStepKeeps

LEMMA InterruptedKeeps ==
  ASSUME LifecycleInvariant, NEW a \in Accounts, Interrupted(a)
  PROVE  LifecycleInvariant'
<1>0. /\ turn[a].stage # "idle" /\ TypeOK /\ TurnOf(a)
      /\ UNCHANGED <<operations, entities, claims, index, document, wanted>>
      /\ faults' \in 0..MaxFaults
  BY BoundsAssumption DEF Interrupted, Fault, At, LifecycleInvariant, TypeOK, TurnShape
<1>1. CASE Enter(a, Idle)
  <2>1. TypeOK'
    BY <1>0, <1>1, BoundsAssumption
       DEF TypeOK, OperationTypes, RowTypes, TurnTypes, Blocked, Enter, Idle, Stages
  <2> QED
    BY <1>0, <1>1, <2>1, IdleKeeps
<1>2. CASE Thrown(a)
  <2>1. TurnTypes'
    BY <1>0, <1>2, HandsBackType DEF TypeOK, TurnTypes, OwnerOf
  <2>2. TypeOK'
    BY <1>0, <2>1 DEF TypeOK, OperationTypes, RowTypes, Blocked
  <2>3. OnlyTouches(turn[a].id)
    BY <1>0 DEF OnlyTouches, Claimed
  <2>4. TurnOf(a)' /\ \A c \in Accounts \ {a} : turn'[c] = turn[c]
    BY <1>0, <1>2, <2>2, <2>3, HandsBack
  <2> QED
    BY <1>0, <2>2, <2>4, TurnStepKeeps
<1> QED
  BY <1>1, <1>2 DEF Interrupted

\* What is known of the operation that a coordinator runs.
LEMMA AtWork ==
  ASSUME LifecycleInvariant, NEW a \in Accounts, turn[a].stage # "idle"
  PROVE  /\ TypeOK /\ TurnOf(a) /\ StageShape(a) /\ ParentShape(a) /\ CascadeIsOver(a)
         /\ Current(a) = turn[a].id /\ Subject(a) = turn[a].id.entity
         /\ turn[a].id \in DOMAIN operations /\ turn[a].id \in Actions
         /\ turn[a].id.entity \in Entities /\ OwnerOf(turn[a].id.entity) = a
         /\ Open(turn[a].id) /\ Live(turn[a].id) /\ PhaseOf(turn[a].id)
         /\ Holds(turn[a].id) /\ entities[turn[a].id.entity].id = turn[a].id
         /\ entities[turn[a].id.entity].phase = operations[turn[a].id].phase
         /\ ~Blocked(turn[a].id)
<1>1. /\ TypeOK /\ TurnOf(a) /\ StageShape(a) /\ ParentShape(a) /\ CascadeIsOver(a)
  BY DEF LifecycleInvariant, TurnShape, TurnOf
<1>2. PICK id : id = turn[a].id
  OBVIOUS
<1>3. /\ id \in DOMAIN operations /\ id \in Actions /\ id.entity \in Entities
      /\ OwnerOf(id.entity) = a /\ Open(id) /\ Live(id)
  BY <1>1, <1>2, RunsItsOwn DEF StageShape, Live
<1>4. PhaseOf(id) /\ ~Blocked(id)
  BY <1>1, <1>3 DEF LifecycleInvariant, OperationsShape, PhaseShape, Open, OpenPhases, TypeOK,
                    OperationTypes
<1>5. Holds(id) /\ entities[id.entity].id = id /\ entities[id.entity].phase = operations[id].phase
  BY <1>3, LiveRow
<1> QED
  BY <1>1, <1>2, <1>3, <1>4, <1>5 DEF Current, Subject

LEMMA Advances ==
  ASSUME TypeOK, NEW a \in Accounts, NEW s \in Stages, Advance(a, s)
  PROVE  /\ turn'[a].stage = s /\ turn'[a].id = turn[a].id
         /\ turn'[a].parent = turn[a].parent /\ turn'[a].left = turn[a].left
         /\ \A c \in Accounts \ {a} : turn'[c] = turn[c]
         /\ turn' \in [Accounts -> [stage : Stages, id : Actions \cup {NoOperation},
                              parent : Actions \cup {NoOperation}, left : 0..ChildBudget]]
  BY DEF TypeOK, TurnTypes, Advance

LEMMA AdvanceTypes ==
  ASSUME TypeOK, NEW a \in Accounts, turn[a].stage # "idle", NEW s \in Stages, Advance(a, s),
         DOMAIN operations \subseteq DOMAIN operations'
  PROVE  TurnTypes'
  BY Advances DEF TypeOK, TurnTypes

LEMMA AdvanceKeeps ==
  ASSUME LifecycleInvariant, TypeOK', NEW a \in Accounts, turn[a].stage # "idle",
         NEW s \in Stages, Advance(a, s), OnlyTouches(turn[a].id), OperationsShape', EntitiesShape',
         StageShape(a)', CascadeIsOver(a)'
  PROVE  LifecycleInvariant'
<1>1. ParentShape(a)'
  <2> SUFFICES ASSUME turn[a].parent # NoOperation PROVE ParentShape(a)'
    BY AtWork, Advances DEF ParentShape
  <2>1. PICK p \in Actions \ {turn[a].id} :
            /\ p = turn[a].parent
            /\ p \in DOMAIN operations /\ Open(p) /\ p.action = "delete" /\ p.entity = a
    BY AtWork DEF ParentShape, TypeOK, OperationTypes
  <2>2. p \in DOMAIN operations' /\ Open(p)' /\ turn'[a].parent = p
    BY <2>1, Advances, AtWork DEF OnlyTouches, Open
  <2>3. turn'[a].id.entity \notin Accounts /\ turn'[a].left > 0
    BY Advances, AtWork DEF ParentShape
  <2> QED
    BY <2>1, <2>2, <2>3 DEF ParentShape, Open
<1>2. StepOf(a, turn[a].id)
  BY <1>1, AtWork, Advances DEF StepOf, TurnOf
<1> QED
  BY <1>2, StepKeeps

\* Steps that advance a coordinator and nothing else.
LEMMA ChildrenDoneKeeps ==
  ASSUME LifecycleInvariant, NEW a \in Accounts, ChildrenDone(a)
  PROVE  LifecycleInvariant'
<1>1. /\ turn[a].stage = "children" /\ Children(a) \cup Targets(a) = {} /\ Advance(a, "tombstone")
      /\ UNCHANGED <<operations, entities, claims, index, document, wanted, faults>>
  BY DEF ChildrenDone, At
<1>2. TypeOK'
  BY <1>1, AtWork, AdvanceTypes DEF TypeOK, OperationTypes, RowTypes, Blocked, Stages
<1>3. /\ OnlyTouches(turn[a].id) /\ OperationsShape' /\ EntitiesShape'
  BY <1>1, SameKeeps
<1>4. StageShape(a)'
  BY <1>1, AtWork, Advances DEF StageShape, Open, Stages
<1>5. CascadeIsOver(a)'
  BY <1>1 DEF CascadeIsOver, Children, Targets, Owned, OpenOperations, Open
<1> QED
  BY <1>1, <1>2, <1>3, <1>4, <1>5, AdvanceKeeps DEF Stages

LEMMA CascadeFailsKeeps ==
  ASSUME LifecycleInvariant, NEW a \in Accounts, CascadeFails(a)
  PROVE  LifecycleInvariant'
<1>1. /\ turn[a].stage \in {"children", "tombstone", "unlist", "finalize"} /\ Advance(a, "setback")
      /\ Subject(a) \in Accounts
      /\ UNCHANGED <<operations, entities, claims, index, document, wanted>>
      /\ faults' \in 0..MaxFaults
  BY BoundsAssumption DEF CascadeFails, Fault, LifecycleInvariant, TypeOK
<1>2. TypeOK'
  BY <1>1, AtWork, AdvanceTypes DEF TypeOK, OperationTypes, RowTypes, Blocked, Stages
<1>3. /\ OnlyTouches(turn[a].id) /\ OperationsShape' /\ EntitiesShape'
  BY <1>1, SameKeeps
<1>4. StageShape(a)'
  BY <1>1, AtWork, Advances DEF StageShape, Open, Stages
<1>5. CascadeIsOver(a)'
  BY <1>1, AtWork, Advances DEF CascadeIsOver, Stages
<1> QED
  BY <1>1, <1>2, <1>3, <1>4, <1>5, AdvanceKeeps DEF Stages

-----------------------------------------------------------------------------
(***************************************************************************)
(* The steps in which an operation goes on in another phase.               *)
(***************************************************************************)
LEMMA BackKeeps ==
  ASSUME LifecycleInvariant, TypeOK', NEW a \in Accounts, turn[a].stage # "idle",
         Completed(a) \/ Thrown(a), OnlyTouches(turn[a].id), OperationsShape', EntitiesShape'
  PROVE  LifecycleInvariant'
<1>1. TurnOf(a)' /\ \A c \in Accounts \ {a} : turn'[c] = turn[c]
  BY AtWork, HandsBack
<1>2. StepOf(a, turn[a].id)
  BY <1>1, AtWork DEF StepOf
<1> QED
  BY <1>2, StepKeeps

LEMMA BackTypes ==
  ASSUME LifecycleInvariant, NEW a \in Accounts, turn[a].stage # "idle",
         Completed(a) \/ Thrown(a), DOMAIN operations \subseteq DOMAIN operations'
  PROVE  TurnTypes'
  BY AtWork, HandsBackType DEF TypeOK, TurnTypes, OwnerOf

LEMMA RephaseTypes ==
  ASSUME TypeOK, NEW id \in DOMAIN operations, Rephases(id), id.entity \in Entities,
         operations'[id] \in [phase : Phases, retries : Nat, kv : {"none", "retrying", "blocked"}],
         Blocked(id)' => operations'[id].phase = "terminal_failed",
         operations'[id].phase \in {"pending", "materializing"} => operations'[id].retries < RetryLimit
  PROVE  OperationTypes' /\ RowTypes' /\ DOMAIN operations' = DOMAIN operations
<1>1. OperationTypes'
  BY DEF Rephases, TypeOK, OperationTypes, Blocked
<1>2. RowTypes'
  <2>1. operations'[id].phase \in Phases \cup {"active"}
    OBVIOUS
  <2> QED
    BY <2>1 DEF Rephases, SetEntity, Holds, TypeOK, RowTypes
<1> QED
  BY <1>1, <1>2 DEF Rephases

LEMMA MarkMaterializingKeeps ==
  ASSUME LifecycleInvariant, NEW a \in Accounts, MarkMaterializing(a)
  PROVE  LifecycleInvariant'
<1> DEFINE id == turn[a].id
<1>0. /\ turn[a].stage = "create" /\ Advance(a, "document") /\ "document" \in Stages
      /\ UNCHANGED <<claims, index, document, wanted, faults>>
      /\ operations[id].phase = "pending" =>
            /\ SetPhase(id, "materializing")
            /\ entities' = IF Holds(id) /\ entities[id.entity].phase = "pending"
                           THEN [entities EXCEPT ![id.entity].phase = "materializing"] ELSE entities
      /\ operations[id].phase # "pending" => UNCHANGED <<operations, entities>>
  BY DEF MarkMaterializing, At, Current, Subject, Stages
<1>1. PICK own : own = turn[a].id
  OBVIOUS
<1>2. /\ own \in DOMAIN operations /\ own.action = "create" /\ own.entity \in Entities /\ Live(own)
      /\ operations[own].phase \in {"pending", "materializing"}
      /\ operations[own] \in [phase : Phases, retries : Nat, kv : {"none", "retrying", "blocked"}]
      /\ operations[own].retries < RetryLimit
      /\ ~Blocked(own) /\ Holds(own) /\ entities[own.entity].phase = operations[own].phase
      /\ PhaseOf(own) /\ TypeOK
  BY <1>0, <1>1, AtWork DEF StageShape, TypeOK, OperationTypes
<1>3. /\ OnlyTouches(own) /\ OperationsShape' /\ EntitiesShape' /\ OperationTypes' /\ RowTypes'
      /\ DOMAIN operations' = DOMAIN operations
      /\ Open(own)' /\ operations'[own].phase = "materializing"
  <2>1. CASE operations[own].phase = "pending"
    <3>1. operations' = [operations EXCEPT ![own].phase = "materializing"]
      BY <1>0, <1>1, <2>1 DEF SetPhase
    <3>2. /\ operations'[own].phase = "materializing" /\ operations'[own].retries = operations[own].retries
          /\ operations'[own].kv = operations[own].kv
          /\ operations'[own] \in [phase : Phases, retries : Nat, kv : {"none", "retrying", "blocked"}]
      BY <1>2, <3>1 DEF Phases, OpenPhases
    <3>3. Rephases(own)
      BY <1>0, <1>1, <1>2, <2>1, <3>1, <3>2 DEF Rephases, SetEntity
    <3>4. Open(own)' /\ ~Blocked(own)' /\ Live(own)'
      BY <1>2, <3>1, <3>2 DEF Open, OpenPhases, Blocked, Live
    <3>5. PhaseOf(own)'
      BY <1>2, <3>2, <3>4 DEF PhaseOf
    <3>6. OperationTypes' /\ RowTypes' /\ DOMAIN operations' = DOMAIN operations
      BY <1>2, <3>2, <3>3, <3>4, RephaseTypes
    <3>7. TypeOK'
      <4>1. TurnTypes'
        BY <1>0, <1>2, <3>6, AdvanceTypes
      <4> QED
        BY <1>0, <1>2, <3>6, <4>1 DEF TypeOK
    <3> QED
      BY <1>2, <3>2, <3>3, <3>4, <3>5, <3>6, <3>7, RephaseKeeps
  <2>2. CASE operations[own].phase # "pending"
    <3>1. UNCHANGED <<operations, entities, claims, index, document>>
      BY <1>0, <1>1, <2>2
    <3>2. OnlyTouches(own) /\ OperationsShape' /\ EntitiesShape'
      BY <3>1, SameKeeps
    <3> QED
      BY <1>2, <2>2, <3>1, <3>2 DEF TypeOK, OperationTypes, RowTypes, Blocked, Open, OpenPhases
  <2> QED
    BY <2>1, <2>2
<1>4. TypeOK'
  BY <1>0, <1>2, <1>3, AdvanceTypes DEF TypeOK
<1>5. StageShape(a)' /\ CascadeIsOver(a)'
  <2>1. turn'[a].stage = "document" /\ turn'[a].id = own
    BY <1>0, <1>1, <1>2, Advances
  <2> QED
    BY <1>2, <1>3, <2>1 DEF StageShape, CascadeIsOver, Open
<1> QED
  BY <1>0, <1>1, <1>3, <1>4, <1>5, AdvanceKeeps

LEMMA GoesOn ==
  ASSUME LifecycleInvariant, NEW id \in DOMAIN operations, Live(id), Rephases(id),
         NEW r \in [phase : Phases, retries : Nat, kv : {"none", "retrying", "blocked"}],
         operations' = [operations EXCEPT ![id] = r],
         \/ id.action = "create" /\ r.phase = "compensating" /\ r.kv # "blocked"
         \/ id.action = "create" /\ r.phase = "materializing" /\ r.kv # "blocked" /\ r.retries < RetryLimit
         \/ /\ id.action = "create" /\ id.entity \in Bots /\ r.phase = "terminal_failed"
            /\ r.kv = "blocked" /\ r.retries < RetryLimit
         \/ id.action = "delete" /\ r.phase = "deleting" /\ r.kv # "blocked"
         \/ id.action = "delete" /\ r.phase = "compensating" /\ r.kv # "blocked" /\ id.entity \notin Accounts,
         r.kv \in {"none", operations[id].kv} \/ (id.action = "create" /\ id.entity \in Bots),
         TurnTypes', wanted' = wanted, faults' \in 0..MaxFaults
  PROVE  /\ OnlyTouches(id) /\ OperationsShape' /\ EntitiesShape' /\ TypeOK'
         /\ DOMAIN operations' = DOMAIN operations /\ operations'[id] = r
<1>1. /\ TypeOK /\ id.entity \in Entities /\ PhaseOf(id)
      /\ operations'[id] = r /\ DOMAIN operations' = DOMAIN operations
  BY LiveRow DEF LifecycleInvariant, OperationsShape, PhaseShape
<1>2. Live(id)' /\ PhaseOf(id)' /\ (Blocked(id)' => r.phase = "terminal_failed")
  BY <1>1 DEF Live, PhaseOf, Open, OpenPhases, Blocked
<1>3. OperationTypes' /\ RowTypes'
  BY <1>1, <1>2, RephaseTypes
<1>4. TypeOK'
  BY <1>1, <1>3 DEF TypeOK
<1> QED
  BY <1>1, <1>2, <1>4, RephaseKeeps

LEMMA CreationFailsKeeps ==
  ASSUME LifecycleInvariant, NEW a \in Accounts, CreationFails(a)
  PROVE  LifecycleInvariant'
<1>1. PICK id : id = turn[a].id
  OBVIOUS
<1>2. /\ turn[a].stage \in {"create", "document", "index", "activate"}
      /\ RecordRetryable(id) \/ BeginCompensation(id)
      /\ IF operations'[id].phase = "compensating" THEN Advance(a, "cleanup") ELSE Thrown(a)
      /\ UNCHANGED <<claims, index, document, wanted>>
      /\ faults' \in 0..MaxFaults
  BY <1>1, BoundsAssumption DEF CreationFails, Current, Fault, LifecycleInvariant, TypeOK
<1>3. /\ id \in DOMAIN operations /\ id.action = "create" /\ Live(id) /\ PhaseOf(id) /\ TypeOK
      /\ operations[id].phase \in {"pending", "materializing"} /\ ~Blocked(id)
      /\ operations[id] \in [phase : Phases, retries : Nat, kv : {"none", "retrying", "blocked"}]
      /\ Holds(id)
  BY <1>1, <1>2, AtWork DEF StageShape, TypeOK, OperationTypes
<1>4. PICK r \in [phase : Phases, retries : Nat, kv : {"none", "retrying", "blocked"}] :
        /\ operations' = [operations EXCEPT ![id] = r] /\ SetEntity(id, r.phase)
        /\ r.kv # "blocked" /\ r.kv = operations[id].kv
        /\ \/ r.phase = "compensating"
           \/ r.phase = "materializing" /\ r.retries < RetryLimit
  <2>1. CASE BeginCompensation(id)
    <3> DEFINE r == [operations[id] EXCEPT !.phase = "compensating"]
    <3>1. /\ r \in [phase : Phases, retries : Nat, kv : {"none", "retrying", "blocked"}]
          /\ r.phase = "compensating" /\ r.kv # "blocked" /\ r.kv = operations[id].kv
      BY <1>3 DEF Phases, OpenPhases, Blocked
    <3>2. operations' = [operations EXCEPT ![id] = r] /\ SetEntity(id, r.phase)
      BY <1>3, <2>1 DEF BeginCompensation, SetPhase
    <3> QED
      BY <3>1, <3>2
  <2>2. CASE RecordRetryable(id)
    <3>0. PICK count \in Nat : count = operations[id].retries + 1
      BY <1>3
    <3>1. PICK phase \in Phases :
            /\ phase = IF count >= RetryLimit THEN "compensating" ELSE "materializing"
            /\ phase = "compensating" \/ (phase = "materializing" /\ count < RetryLimit)
      BY <3>0, BoundsAssumption DEF Phases, OpenPhases
    <3> DEFINE r == [operations[id] EXCEPT !.phase = phase, !.retries = count]
    <3>2. /\ r \in [phase : Phases, retries : Nat, kv : {"none", "retrying", "blocked"}]
          /\ r.phase = phase /\ r.retries = count /\ r.kv # "blocked"
          /\ r.kv = operations[id].kv
      BY <1>3 DEF Blocked
    <3>3. operations' = [operations EXCEPT ![id] = r] /\ SetEntity(id, phase)
      BY <1>3, <2>2, <3>0, <3>1 DEF RecordRetryable
    <3> HIDE DEF r
    <3> QED
      BY <3>1, <3>2, <3>3
  <2> QED
    BY <1>2, <2>1, <2>2
<1>5. Rephases(id) /\ DOMAIN operations' = DOMAIN operations /\ operations'[id] = r
  BY <1>2, <1>3, <1>4 DEF Rephases
<1>6. CASE r.phase = "compensating"
  <2>1. Advance(a, "cleanup") /\ "cleanup" \in Stages
    BY <1>2, <1>5, <1>6 DEF Stages
  <2>2. TurnTypes'
    BY <1>2, <1>3, <1>5, <2>1, AdvanceTypes
  <2>3. OnlyTouches(id) /\ OperationsShape' /\ EntitiesShape' /\ TypeOK'
    BY <1>2, <1>3, <1>4, <1>5, <2>2, GoesOn
  <2>4. turn'[a].stage = "cleanup" /\ turn'[a].id = id
    BY <1>1, <1>3, <2>1, Advances
  <2>5. StageShape(a)' /\ CascadeIsOver(a)'
    BY <1>3, <1>5, <1>6, <2>4 DEF StageShape, CascadeIsOver, Open, OpenPhases
  <2> QED
    BY <1>1, <1>2, <2>1, <2>3, <2>5, AdvanceKeeps
<1>7. CASE r.phase # "compensating"
  <2>1. Thrown(a)
    BY <1>2, <1>5, <1>7
  <2>2. TurnTypes'
    BY <1>2, <1>5, <2>1, BackTypes
  <2>3. OnlyTouches(id) /\ OperationsShape' /\ EntitiesShape' /\ TypeOK'
    BY <1>2, <1>3, <1>4, <1>5, <2>2, GoesOn
  <2> QED
    BY <1>1, <1>2, <2>1, <2>3, BackKeeps
<1> QED
  BY <1>6, <1>7

\* recordCreationKvFailure, from either of the two places that call it.
LEMMA UnreadableKeeps ==
  ASSUME LifecycleInvariant, NEW a \in Accounts,
         turn[a].stage \in {"create", "document", "index"}, turn[a].id.entity \in Bots,
         NEW kv \in {"retrying", "blocked"}, RecordUnreadable(turn[a].id, kv),
         Thrown(a), UNCHANGED <<claims, index, document, wanted>>, faults' \in 0..MaxFaults
  PROVE  LifecycleInvariant'
<1>1. PICK id : id = turn[a].id
  OBVIOUS
<1>2. /\ id \in DOMAIN operations /\ id.action = "create" /\ Live(id) /\ TypeOK
      /\ operations[id].phase \in {"pending", "materializing"}
      /\ operations[id] \in [phase : Phases, retries : Nat, kv : {"none", "retrying", "blocked"}]
      /\ operations[id].retries < RetryLimit
  BY <1>1, AtWork DEF StageShape, TypeOK, OperationTypes
<1> DEFINE phase == IF kv = "blocked" THEN "terminal_failed" ELSE "materializing"
           r == [operations[id] EXCEPT !.phase = phase, !.kv = kv]
<1>3. /\ r \in [phase : Phases, retries : Nat, kv : {"none", "retrying", "blocked"}]
      /\ r.phase = phase /\ r.kv = kv /\ r.retries = operations[id].retries
  BY <1>2 DEF Phases, OpenPhases
<1>4. operations' = [operations EXCEPT ![id] = r] /\ SetEntity(id, phase)
  BY <1>1, <1>2 DEF RecordUnreadable
<1>5. Rephases(id) /\ DOMAIN operations' = DOMAIN operations
  BY <1>2, <1>3, <1>4 DEF Rephases
<1>6. TurnTypes'
  BY <1>5, BackTypes
<1>7. OnlyTouches(id) /\ OperationsShape' /\ EntitiesShape' /\ TypeOK'
  <2>1. \/ r.phase = "materializing" /\ r.kv # "blocked" /\ r.retries < RetryLimit
        \/ r.phase = "terminal_failed" /\ r.kv = "blocked" /\ r.retries < RetryLimit
    BY <1>2, <1>3
  <2> HIDE DEF r, phase
  <2> QED
    BY <1>1, <1>2, <1>3, <1>4, <1>5, <1>6, <2>1, GoesOn
<1> QED
  BY <1>1, <1>7, BackKeeps

LEMMA CreationUnreadableKeeps ==
  ASSUME LifecycleInvariant, NEW a \in Accounts, CreationUnreadable(a)
  PROVE  LifecycleInvariant'
<1>1. faults' \in 0..MaxFaults
  BY BoundsAssumption DEF CreationUnreadable, Fault, LifecycleInvariant, TypeOK
<1> QED
  BY <1>1, UnreadableKeeps DEF CreationUnreadable, Current, Subject

-----------------------------------------------------------------------------
(***************************************************************************)
(* The steps of creations that wait for an operator.                       *)
(***************************************************************************)
LEMMA DeadlinePassedKeeps ==
  ASSUME LifecycleInvariant, NEW a \in Accounts, DeadlinePassed(a)
  PROVE  LifecycleInvariant'
<1>1. /\ turn[a].stage = "create" /\ turn[a].id \in DOMAIN operations
      /\ operations[turn[a].id].kv = "retrying"
  BY AtWork DEF DeadlinePassed, At, Current
<1>2. turn[a].id.entity \in Bots
  BY <1>1 DEF LifecycleInvariant, OperationsShape, PhaseShape, PhaseOf
<1>3. faults' \in 0..MaxFaults
  BY DEF DeadlinePassed, LifecycleInvariant, TypeOK
<1> QED
  BY <1>1, <1>2, <1>3, UnreadableKeeps DEF DeadlinePassed, Current, Subject

\* A coordinator that was idle, or runs an account's deletion, takes up an
\* operation that the same step has begun or changed.
LEMMA EnterTypes ==
  ASSUME TypeOK, NEW a \in Accounts, NEW id \in Actions, OwnerOf(id.entity) = a,
         NEW phase \in Phases, NEW parent \in Actions \cup {NoOperation}, NEW left \in 0..ChildBudget,
         Enter(a, Running(id, phase, parent, left)), id \in DOMAIN operations',
         DOMAIN operations \subseteq DOMAIN operations'
  PROVE  /\ TurnTypes'
         /\ turn'[a].stage = StageOf(id, phase) /\ turn'[a].id = id
         /\ turn'[a].parent = parent /\ turn'[a].left = left
         /\ \A c \in Accounts \ {a} : turn'[c] = turn[c]
<1>1. StageOf(id, phase) \in Stages
  BY DEF StageOf, Stages
<1>2. /\ turn'[a].stage = StageOf(id, phase) /\ turn'[a].id = id
      /\ turn'[a].parent = parent /\ turn'[a].left = left
      /\ \A c \in Accounts \ {a} : turn'[c] = turn[c]
  BY DEF Enter, TypeOK, TurnTypes, Running
<1>3. turn' \in [Accounts -> [stage : Stages, id : Actions \cup {NoOperation},
                              parent : Actions \cup {NoOperation}, left : 0..ChildBudget]]
  BY <1>1 DEF Enter, TypeOK, TurnTypes, Running
<1> QED
  BY <1>2, <1>3 DEF TypeOK, TurnTypes

LEMMA TakesUp ==
  ASSUME LifecycleInvariant, TypeOK', NEW a \in Accounts, NEW id \in Actions,
         OwnerOf(id.entity) = a, OnlyTouches(id), OperationsShape', EntitiesShape',
         id \in DOMAIN operations', Open(id)', turn'[a].id = id,
         turn'[a].stage = StageOf(id, operations'[id].phase),
         turn'[a].parent # NoOperation => ParentShape(a)',
         \A c \in Accounts \ {a} : turn'[c] = turn[c]
  PROVE  LifecycleInvariant'
<1>1. PhaseOf(id)' /\ id.action \in {"create", "delete"}
  BY DEF OperationsShape, PhaseShape, Actions
<1>2. /\ id.action = "create" => turn'[a].stage = IF operations'[id].phase = "compensating"
                                                  THEN "cleanup" ELSE "create"
      /\ id.action = "delete" => turn'[a].stage = IF id.entity \in Accounts
                                                  THEN "children" ELSE "tombstone"
  BY DEF StageOf
<1>3. StageShape(a)'
  BY <1>1, <1>2 DEF StageShape, PhaseOf, Open
<1>4. ParentShape(a)'
  BY DEF ParentShape
<1>5. CascadeIsOver(a)'
  BY <1>1, <1>2 DEF CascadeIsOver
<1>6. StepOf(a, id)
  BY <1>3, <1>4, <1>5 DEF StepOf, TurnOf
<1> QED
  BY <1>6, StepKeeps

LEMMA ResumeBlockedKeeps ==
  ASSUME LifecycleInvariant, NEW a \in Accounts, NEW id, ResumeBlocked(a, id)
  PROVE  LifecycleInvariant'
<1>1. /\ turn[a].stage = "idle" /\ id \in DOMAIN operations /\ OwnerOf(id.entity) = a /\ Blocked(id)
      /\ SetEntity(id, "materializing")
      /\ UNCHANGED <<claims, index, document, turn, wanted, faults>>
  BY DEF ResumeBlocked, At
<1>2. /\ Live(id) /\ id \in Actions /\ id.action = "create" /\ operations[id].retries < RetryLimit
      /\ operations[id] \in [phase : Phases, retries : Nat, kv : {"none", "retrying", "blocked"}]
      /\ TypeOK
  BY <1>1 DEF LifecycleInvariant, TypeOK, OperationTypes, OperationsShape, PhaseShape, PhaseOf, Live, Blocked
<1> DEFINE r == [operations[id] EXCEPT !.phase = "materializing", !.kv = "none"]
<1>3. /\ r \in [phase : Phases, retries : Nat, kv : {"none", "retrying", "blocked"}]
      /\ r.phase = "materializing" /\ r.kv = "none" /\ r.retries = operations[id].retries
  BY <1>2 DEF Phases, OpenPhases
<1>4. operations' = [operations EXCEPT ![id] = r]
  BY <1>1 DEF ResumeBlocked
<1> HIDE DEF r
<1>5. Rephases(id) /\ DOMAIN operations' = DOMAIN operations
  BY <1>1, <1>3, <1>4 DEF Rephases
<1>6. TurnTypes' /\ faults' \in 0..MaxFaults
  BY <1>1, <1>2, <1>5 DEF TypeOK, TurnTypes
<1>7. OnlyTouches(id) /\ OperationsShape' /\ EntitiesShape' /\ TypeOK'
  BY <1>1, <1>2, <1>3, <1>4, <1>5, <1>6, GoesOn
<1>8. StepOf(a, id)
  BY <1>1, <1>2, <1>7 DEF StepOf, TurnOf
<1> QED
  BY <1>7, <1>8, StepKeeps

LEMMA CancelBlockedKeeps ==
  ASSUME LifecycleInvariant, NEW a \in Accounts, NEW id, CancelBlocked(a, id)
  PROVE  LifecycleInvariant'
<1>1. /\ turn[a].stage = "idle" /\ id \in DOMAIN operations /\ OwnerOf(id.entity) = a /\ Blocked(id)
      /\ SetEntity(id, "compensating")
      /\ Enter(a, Running(id, "compensating", NoOperation, ChildBudget))
      /\ UNCHANGED <<claims, index, document, wanted, faults>>
  BY DEF CancelBlocked, At
<1>2. /\ Live(id) /\ id \in Actions /\ id.action = "create"
      /\ operations[id] \in [phase : Phases, retries : Nat, kv : {"none", "retrying", "blocked"}]
      /\ TypeOK
  BY <1>1 DEF LifecycleInvariant, TypeOK, OperationTypes, OperationsShape, PhaseShape, PhaseOf, Live, Blocked
<1> DEFINE r == [operations[id] EXCEPT !.phase = "compensating", !.kv = "none"]
<1>3. /\ r \in [phase : Phases, retries : Nat, kv : {"none", "retrying", "blocked"}]
      /\ r.phase = "compensating" /\ r.kv = "none"
  BY <1>2 DEF Phases, OpenPhases
<1>4. operations' = [operations EXCEPT ![id] = r]
  BY <1>1 DEF CancelBlocked
<1> HIDE DEF r
<1>5. Rephases(id) /\ DOMAIN operations' = DOMAIN operations /\ operations'[id] = r
  BY <1>1, <1>3, <1>4 DEF Rephases
<1>6. /\ TurnTypes' /\ turn'[a].stage = StageOf(id, "compensating") /\ turn'[a].id = id
      /\ turn'[a].parent = NoOperation /\ \A c \in Accounts \ {a} : turn'[c] = turn[c]
  <2>1. /\ ChildBudget \in 0..ChildBudget /\ id \in DOMAIN operations'
        /\ DOMAIN operations \subseteq DOMAIN operations' /\ "compensating" \in Phases
        /\ NoOperation \in Actions \cup {NoOperation}
    BY <1>1, <1>5, BoundsAssumption DEF Phases, OpenPhases
  <2> QED
    BY <1>1, <1>2, <2>1, EnterTypes
<1>7. OnlyTouches(id) /\ OperationsShape' /\ EntitiesShape' /\ TypeOK'
  <2>1. faults' \in 0..MaxFaults
    BY <1>1, <1>2 DEF TypeOK
  <2> QED
    BY <1>1, <1>2, <1>3, <1>4, <1>5, <1>6, <2>1, GoesOn
<1>8. Open(id)' /\ id \in DOMAIN operations'
  BY <1>1, <1>3, <1>5 DEF Open, OpenPhases
<1> QED
  BY <1>1, <1>2, <1>3, <1>5, <1>6, <1>7, <1>8, TakesUp

-----------------------------------------------------------------------------
(***************************************************************************)
(* The steps that write a document or an index row.                        *)
(***************************************************************************)
LEMMA WriteStep ==
  ASSUME LifecycleInvariant, NEW a \in Accounts, turn[a].stage # "idle",
         NEW s \in Stages, Advance(a, s), Writes(turn[a].id),
         index' \in [Entities -> {"none", "pending", "active", "deleting", "deleted"}],
         document' \in [Entities -> {"none", "live", "tombstone"}],
         UNCHANGED <<wanted, faults>>,
         TypeOK' => StageShape(a)' /\ CascadeIsOver(a)'
  PROVE  LifecycleInvariant'
<1>1. TypeOK'
  <2>1. UNCHANGED <<operations, entities, claims>>
    BY DEF Writes
  <2>2. TurnTypes'
    BY <2>1, AtWork, AdvanceTypes
  <2> QED
    BY <2>1, <2>2, AtWork DEF TypeOK, OperationTypes, RowTypes, Blocked
<1>2. OnlyTouches(turn[a].id) /\ OperationsShape' /\ EntitiesShape'
  <2>1. PICK id : id = turn[a].id
    OBVIOUS
  <2>2. id \in DOMAIN operations /\ Live(id) /\ Writes(id)
    BY <2>1, AtWork
  <2> QED
    BY <1>1, <2>1, <2>2, WriteKeeps
<1> QED
  BY <1>1, <1>2, AdvanceKeeps

\* The shape of what a coordinator works on.
LEMMA SubjectShape ==
  ASSUME LifecycleInvariant, NEW a \in Accounts, turn[a].stage # "idle",
         NEW id, id = turn[a].id
  PROVE  /\ id.action = "create" =>
            index[id.entity] \in {"none", "pending"} /\ document[id.entity] \in {"none", "live"}
            /\ claims[Identity[id.entity]].state = "pending"
         /\ id.action = "delete" =>
            index[id.entity] \in {"deleting", "deleted"} /\ document[id.entity] \in {"live", "tombstone"}
         /\ Claimed(id.entity)
<1>1. id \in DOMAIN operations /\ Live(id)
  BY AtWork
<1>2. /\ BeingMade(id.entity) <=> id.action = "create"
      /\ BeingDeleted(id.entity) <=> id.action = "delete"
      /\ id.entity \in Entities /\ Claimed(id.entity)
  BY <1>1, LiveRow
<1>3. EntityShape(id.entity)
  BY <1>2 DEF LifecycleInvariant, EntitiesShape
<1> QED
  BY <1>2, <1>3 DEF EntityShape

LEMMA WriteDocumentKeeps ==
  ASSUME LifecycleInvariant, NEW a \in Accounts, WriteDocument(a)
  PROVE  LifecycleInvariant'
<1>1. PICK id : id = turn[a].id
  OBVIOUS
<1>2. PICK s \in Stages : s = IF id.entity \in Accounts THEN "activate" ELSE "index"
  BY DEF Stages
<1>3. /\ turn[a].stage = "document" /\ Advance(a, s)
      /\ document' = [document EXCEPT ![id.entity] = "live"]
      /\ UNCHANGED <<operations, entities, claims, index, wanted, faults>>
  BY <1>1, <1>2 DEF WriteDocument, At, Subject
<1>4. /\ TypeOK /\ id \in DOMAIN operations /\ id.entity \in Entities /\ id.action = "create"
      /\ operations[id].phase \in {"pending", "materializing"} /\ Open(id)
  BY <1>1, <1>3, AtWork DEF StageShape
<1>5. Writes(id)
  BY <1>1, <1>3, <1>4, SubjectShape DEF Writes, TypeOK, RowTypes
<1>6. document'[id.entity] = "live" /\ turn'[a].stage = s /\ turn'[a].id = id
  BY <1>1, <1>3, <1>4, Advances DEF TypeOK, RowTypes
<1>7. StageShape(a)' /\ CascadeIsOver(a)'
  BY <1>2, <1>3, <1>4, <1>6 DEF StageShape, CascadeIsOver, Open
<1> QED
  BY <1>1, <1>3, <1>4, <1>5, <1>7, WriteStep DEF TypeOK, RowTypes

LEMMA WriteIndexKeeps ==
  ASSUME LifecycleInvariant, NEW a \in Accounts, WriteIndex(a)
  PROVE  LifecycleInvariant'
<1>1. PICK id : id = turn[a].id
  OBVIOUS
<1>2. "activate" \in Stages
  BY DEF Stages
<1>3. /\ turn[a].stage = "index" /\ Advance(a, "activate")
      /\ index' = [index EXCEPT ![id.entity] = "pending"]
      /\ UNCHANGED <<operations, entities, claims, document, wanted, faults>>
  BY <1>1 DEF WriteIndex, At, Subject
<1>4. /\ TypeOK /\ id \in DOMAIN operations /\ id.entity \in Entities /\ id.action = "create"
      /\ operations[id].phase \in {"pending", "materializing"} /\ Open(id)
      /\ document[id.entity] = "live" /\ id.entity \notin Accounts
  BY <1>1, <1>3, AtWork DEF StageShape
<1>5. Writes(id)
  BY <1>1, <1>3, <1>4, SubjectShape DEF Writes, TypeOK, RowTypes
<1>6. turn'[a].stage = "activate" /\ turn'[a].id = id
  BY <1>1, <1>2, <1>3, <1>4, Advances
<1>7. StageShape(a)' /\ CascadeIsOver(a)'
  BY <1>3, <1>4, <1>6 DEF StageShape, CascadeIsOver, Open
<1> QED
  BY <1>1, <1>2, <1>3, <1>4, <1>5, <1>7, WriteStep DEF TypeOK, RowTypes

LEMMA RemoveDocumentKeeps ==
  ASSUME LifecycleInvariant, NEW a \in Accounts, RemoveDocument(a)
  PROVE  LifecycleInvariant'
<1>1. PICK id : id = turn[a].id
  OBVIOUS
<1>2. "release" \in Stages
  BY DEF Stages
<1>3. /\ turn[a].stage = "cleanup" /\ Advance(a, "release")
      /\ document' = [document EXCEPT ![id.entity] = "none"]
      /\ \/ id.entity \in Worlds /\ index' = [index EXCEPT ![id.entity] = "none"]
         \/ index' = index
      /\ UNCHANGED <<operations, entities, claims, wanted, faults>>
  BY <1>1 DEF RemoveDocument, At, Subject
<1>4. /\ TypeOK /\ id \in DOMAIN operations /\ id.entity \in Entities /\ id.action = "create"
      /\ operations[id].phase = "compensating" /\ Open(id)
  BY <1>1, <1>3, AtWork DEF StageShape
<1>5. Writes(id)
  BY <1>1, <1>3, <1>4, SubjectShape, EntitiesAssumption DEF Writes, TypeOK, RowTypes
<1>6. turn'[a].stage = "release" /\ turn'[a].id = id
  BY <1>1, <1>2, <1>3, <1>4, Advances
<1>7. StageShape(a)' /\ CascadeIsOver(a)'
  BY <1>3, <1>4, <1>6 DEF StageShape, CascadeIsOver, Open
<1>8. index' \in [Entities -> {"none", "pending", "active", "deleting", "deleted"}]
  BY <1>3, <1>4 DEF TypeOK, RowTypes
<1> QED
  BY <1>1, <1>2, <1>3, <1>4, <1>5, <1>7, <1>8, WriteStep DEF TypeOK, RowTypes

LEMMA TombstoneDocumentKeeps ==
  ASSUME LifecycleInvariant, NEW a \in Accounts, TombstoneDocument(a)
  PROVE  LifecycleInvariant'
<1>1. PICK id : id = turn[a].id
  OBVIOUS
<1>2. PICK s \in Stages :
        /\ Advance(a, s)
        /\ \/ turn[a].stage = "tombstone" /\ id.entity \notin Worlds /\ s = "unlist"
           \/ turn[a].stage = "unlist" /\ id.entity \in Worlds /\ s = "finalize"
  BY <1>1 DEF TombstoneDocument, At, Subject, Stages
<1>3. /\ document' = [document EXCEPT ![id.entity] = "tombstone"]
      /\ UNCHANGED <<operations, entities, claims, index, wanted, faults>>
  BY <1>1 DEF TombstoneDocument, Subject
<1>4. /\ TypeOK /\ id \in DOMAIN operations /\ id.entity \in Entities /\ id.action = "delete"
      /\ Open(id) /\ (turn[a].stage = "unlist" => index[id.entity] = "deleted")
      /\ (id.entity \in Accounts => Children(a) \cup Targets(a) = {})
  BY <1>1, <1>2, AtWork DEF StageShape, CascadeIsOver
<1>5. Writes(id)
  <2>1. index[id.entity] \in {"deleting", "deleted"} /\ turn[a].stage # "idle"
    BY <1>1, <1>2, <1>4, SubjectShape
  <2>2. /\ document'[id.entity] = "tombstone" /\ id.action # "create"
        /\ \A f \in Entities \ {id.entity} : document'[f] = document[f]
    BY <1>3, <1>4 DEF TypeOK, RowTypes
  <2> QED
    BY <1>3, <2>1, <2>2 DEF Writes
<1>6. document'[id.entity] = "tombstone" /\ turn'[a].stage = s /\ turn'[a].id = id
  BY <1>1, <1>2, <1>3, <1>4, Advances DEF TypeOK, RowTypes
<1>7. StageShape(a)'
  BY <1>2, <1>3, <1>4, <1>6 DEF StageShape, Open
<1>8. CascadeIsOver(a)'
  BY <1>3, <1>4, <1>6 DEF CascadeIsOver, Children, Targets, Owned, OpenOperations, Open
<1> QED
  BY <1>1, <1>2, <1>3, <1>4, <1>5, <1>7, <1>8, WriteStep DEF TypeOK, RowTypes

LEMMA TombstoneIndexKeeps ==
  ASSUME LifecycleInvariant, NEW a \in Accounts, TombstoneIndex(a)
  PROVE  LifecycleInvariant'
<1>1. PICK id : id = turn[a].id
  OBVIOUS
<1>2. PICK s \in Stages :
        /\ Advance(a, s)
        /\ \/ turn[a].stage = "tombstone" /\ id.entity \in Worlds /\ s = "unlist"
           \/ turn[a].stage = "unlist" /\ id.entity \notin Worlds /\ s = "finalize"
  BY <1>1 DEF TombstoneIndex, At, Subject, Stages
<1>3. /\ index' = [index EXCEPT ![id.entity] = "deleted"]
      /\ UNCHANGED <<operations, entities, claims, document, wanted, faults>>
  BY <1>1 DEF TombstoneIndex, Subject
<1>4. /\ TypeOK /\ id \in DOMAIN operations /\ id.entity \in Entities /\ id.action = "delete"
      /\ Open(id) /\ OwnerOf(id.entity) = a
      /\ turn[a].stage = "unlist" /\ id.entity \notin Worlds => document[id.entity] = "tombstone"
      /\ id.entity \in Accounts => Children(a) \cup Targets(a) = {}
  BY <1>1, <1>2, AtWork DEF StageShape, CascadeIsOver
<1>5. id.entity \in Accounts => Owned(id.entity, Worlds) = {}
  BY <1>4 DEF Targets, OwnerOf
<1>6. Writes(id)
  <2>1. document[id.entity] \in {"live", "tombstone"} /\ turn[a].stage # "idle"
    BY <1>1, <1>2, <1>4, SubjectShape
  <2>2. /\ index'[id.entity] = "deleted" /\ id.action # "create"
        /\ \A f \in Entities \ {id.entity} : index'[f] = index[f]
    BY <1>3, <1>4 DEF TypeOK, RowTypes
  <2> QED
    BY <1>3, <1>5, <2>1, <2>2 DEF Writes
<1>7. index'[id.entity] = "deleted" /\ turn'[a].stage = s /\ turn'[a].id = id
  BY <1>1, <1>2, <1>3, <1>4, Advances DEF TypeOK, RowTypes
<1>8. StageShape(a)'
  BY <1>2, <1>3, <1>4, <1>7 DEF StageShape, Open
<1>9. CascadeIsOver(a)'
  <2>1. SUFFICES ASSUME id.entity \in Accounts
        PROVE  Children(a)' \cup Targets(a)' = {}
    BY <1>7 DEF CascadeIsOver
  <2>2. \A e \in Worlds \cup Bots : index'[e] = index[e]
    BY <1>3, <1>4, <2>1, EntitiesAssumption DEF Entities, TypeOK, RowTypes
  <2>3. Owned(a, Bots)' = Owned(a, Bots) /\ Owned(a, Worlds)' = Owned(a, Worlds)
    BY <2>2 DEF Owned
  <2>4. Children(a)' = Children(a)
    BY <1>3 DEF Children, OpenOperations, Open
  <2> QED
    BY <1>4, <2>1, <2>3, <2>4 DEF Targets
<1> QED
  BY <1>1, <1>2, <1>3, <1>4, <1>6, <1>8, <1>9, WriteStep DEF TypeOK, RowTypes

-----------------------------------------------------------------------------
(***************************************************************************)
(* The steps in which an operation ends.                                   *)
(***************************************************************************)
LEMMA EndTypes ==
  ASSUME TypeOK, NEW id \in DOMAIN operations, NEW phase, Ends(id, phase)
  PROVE  OperationTypes' /\ DOMAIN operations' = DOMAIN operations
<1>1. /\ DOMAIN operations' = DOMAIN operations
      /\ \A other \in DOMAIN operations \ {id} : operations'[other] = operations[other]
      /\ operations'[id] = [operations[id] EXCEPT !.phase = phase]
  BY DEF Ends, SetPhase
<1>2. /\ operations[id] \in [phase : Phases, retries : Nat, kv : {"none", "retrying", "blocked"}]
      /\ phase \in Phases \ {"pending", "materializing"}
  BY DEF TypeOK, OperationTypes, Ends, Phases, OpenPhases
<1>3. /\ operations'[id] \in [phase : Phases, retries : Nat, kv : {"none", "retrying", "blocked"}]
      /\ ~Blocked(id)' /\ operations'[id].phase = phase
  BY <1>1, <1>2 DEF Ends, Blocked
<1> QED
  BY <1>1, <1>2, <1>3 DEF TypeOK, OperationTypes, Blocked

LEMMA DropTypes ==
  ASSUME TypeOK, NEW id, Holds(id), DropEntity(id), id.entity \in Entities,
         claims' = Restrict(claims, DOMAIN claims \ {Identity[id.entity]}),
         index' \in [Entities -> {"none", "pending", "active", "deleting", "deleted"}],
         document' = document
  PROVE  RowTypes'
<1>1. entities' = Restrict(entities, DOMAIN entities \ {id.entity})
  BY DEF DropEntity
<1>2. /\ DOMAIN entities' \subseteq DOMAIN entities
      /\ \A f \in DOMAIN entities' : entities'[f] = entities[f]
      /\ DOMAIN claims' \subseteq DOMAIN claims
      /\ \A i \in DOMAIN claims' : claims'[i] = claims[i]
  BY <1>1 DEF Restrict
<1>3. /\ DOMAIN entities \subseteq Entities
      /\ \A f \in DOMAIN entities :
            entities[f] \in [phase : Phases \cup {"active"}, id : Actions] /\ entities[f].id.entity = f
      /\ \A i \in DOMAIN claims :
            claims[i] \in [entity : Entities, state : {"pending", "active"}]
            /\ Identity[claims[i].entity] = i
      /\ document' \in [Entities -> {"none", "live", "tombstone"}]
  BY DEF TypeOK, RowTypes
<1> QED
  BY <1>2, <1>3 DEF RowTypes

LEMMA ActivatesKeeps ==
  ASSUME LifecycleInvariant, NEW a \in Accounts, Activate(a)
  PROVE  LifecycleInvariant'
<1>1. PICK id : id = turn[a].id
  OBVIOUS
<1>2. /\ turn[a].stage = "activate" /\ Completed(a)
      /\ claims' = [claims EXCEPT ![Identity[id.entity]].state = "active"]
      /\ SetIndex(id.entity, "active") /\ SetPhase(id, "terminal")
      /\ entities' = IF Holds(id) /\ entities[id.entity].phase \in {"pending", "materializing"}
                     THEN [entities EXCEPT ![id.entity].phase = "active"] ELSE entities
      /\ UNCHANGED <<document, wanted, faults>>
  BY <1>1 DEF Activate, At, Current, Subject
<1>3. /\ TypeOK /\ id \in DOMAIN operations /\ id.entity \in Entities /\ id.action = "create"
      /\ operations[id].phase \in {"pending", "materializing"} /\ Open(id) /\ ~Blocked(id)
      /\ document[id.entity] = "live"
  BY <1>1, <1>2, AtWork DEF StageShape
<1>4. Ends(id, "terminal") /\ OperationTypes' /\ DOMAIN operations' = DOMAIN operations
  BY <1>2, <1>3, EndTypes DEF Ends
<1>5. RowTypes'
  <2>1. index' \in [Entities -> {"none", "pending", "active", "deleting", "deleted"}]
    BY <1>2, <1>3 DEF SetIndex, TypeOK, RowTypes
  <2>2. /\ DOMAIN claims' = DOMAIN claims
        /\ \A i \in DOMAIN claims : claims'[i] \in [entity : Entities, state : {"pending", "active"}]
                                     /\ Identity[claims'[i].entity] = i
    BY <1>2, <1>3 DEF TypeOK, RowTypes
  <2>3. /\ DOMAIN entities' = DOMAIN entities
        /\ \A f \in DOMAIN entities : entities'[f] \in [phase : Phases \cup {"active"}, id : Actions]
                                       /\ entities'[f].id.entity = f
    BY <1>2, <1>3 DEF TypeOK, RowTypes
  <2> QED
    BY <1>2, <1>3, <2>1, <2>2, <2>3 DEF TypeOK, RowTypes
<1>6. TurnTypes'
  BY <1>2, <1>4, BackTypes
<1>7. TypeOK'
  BY <1>2, <1>3, <1>4, <1>5, <1>6 DEF TypeOK
<1>8. OnlyTouches(id) /\ OperationsShape' /\ EntitiesShape'
  BY <1>2, <1>3, <1>4, <1>7, ActivateKeeps
<1> QED
  BY <1>1, <1>2, <1>7, <1>8, BackKeeps

LEMMA FinalizeCompensationKeeps ==
  ASSUME LifecycleInvariant, NEW a \in Accounts, FinalizeCompensation(a)
  PROVE  LifecycleInvariant'
<1>1. PICK id : id = turn[a].id
  OBVIOUS
<1>2. /\ turn[a].stage = "release" /\ Thrown(a)
      /\ DropEntity(id) /\ SetPhase(id, "terminal_failed")
      /\ UNCHANGED <<document, wanted, faults>>
  BY <1>1 DEF FinalizeCompensation, At, Current, Subject
<1>3. /\ TypeOK /\ id \in DOMAIN operations /\ id.entity \in Entities /\ id.action = "create"
      /\ Live(id) /\ ~Blocked(id) /\ Holds(id)
  BY <1>1, <1>2, AtWork DEF StageShape
<1>4. /\ index[id.entity] \in {"none", "pending"} /\ document[id.entity] \in {"none", "live"}
      /\ claims[Identity[id.entity]].state = "pending" /\ Claimed(id.entity)
  BY <1>1, <1>2, <1>3, SubjectShape
<1>5. /\ index' = [index EXCEPT ![id.entity] = "none"]
      /\ claims' = Restrict(claims, DOMAIN claims \ {Identity[id.entity]})
  BY <1>1, <1>4 DEF FinalizeCompensation, Current, Subject
<1>6. /\ index' \in [Entities -> {"none", "pending", "active", "deleting", "deleted"}]
      /\ index'[id.entity] = "none" /\ \A f \in Entities \ {id.entity} : index'[f] = index[f]
  BY <1>3, <1>5 DEF TypeOK, RowTypes
<1>7. Ends(id, "terminal_failed") /\ OperationTypes' /\ DOMAIN operations' = DOMAIN operations
  BY <1>2, <1>3, EndTypes DEF Ends
<1>8. RowTypes' /\ TurnTypes'
  BY <1>2, <1>3, <1>5, <1>6, <1>7, DropTypes, BackTypes
<1>9. TypeOK'
  BY <1>2, <1>3, <1>7, <1>8 DEF TypeOK
<1>10. OnlyTouches(id) /\ OperationsShape' /\ EntitiesShape'
  BY <1>2, <1>3, <1>4, <1>5, <1>6, <1>7, <1>9, DropKeeps
<1> QED
  BY <1>1, <1>2, <1>9, <1>10, BackKeeps

LEMMA FinalizeDeletionKeeps ==
  ASSUME LifecycleInvariant, NEW a \in Accounts, FinalizeDeletion(a)
  PROVE  LifecycleInvariant'
<1>1. PICK id : id = turn[a].id
  OBVIOUS
<1>2. /\ turn[a].stage = "finalize" /\ Completed(a)
      /\ claims' = IF Claimed(id.entity) THEN Restrict(claims, DOMAIN claims \ {Identity[id.entity]})
                                         ELSE claims
      /\ DropEntity(id) /\ SetPhase(id, "terminal")
      /\ UNCHANGED <<index, document, wanted, faults>>
  BY <1>1 DEF FinalizeDeletion, At, Current, Subject
<1>3. /\ TypeOK /\ id \in DOMAIN operations /\ id.entity \in Entities /\ id.action = "delete"
      /\ Live(id) /\ ~Blocked(id) /\ Holds(id) /\ index[id.entity] = "deleted"
      /\ OwnerOf(id.entity) = a /\ CascadeIsOver(a)
  BY <1>1, <1>2, AtWork DEF StageShape
<1>4. claims' = Restrict(claims, DOMAIN claims \ {Identity[id.entity]})
  BY <1>1, <1>2, <1>3, SubjectShape
<1>5. index' \in [Entities -> {"none", "pending", "active", "deleting", "deleted"}]
  BY <1>2, <1>3 DEF TypeOK, RowTypes
<1>6. Ends(id, "terminal") /\ OperationTypes' /\ DOMAIN operations' = DOMAIN operations
  BY <1>2, <1>3, EndTypes DEF Ends
<1>7. RowTypes' /\ TurnTypes'
  BY <1>2, <1>3, <1>4, <1>5, <1>6, DropTypes, BackTypes
<1>8. TypeOK'
  BY <1>2, <1>3, <1>6, <1>7 DEF TypeOK
<1>9. ASSUME id.entity \in Accounts, NEW b \in Bots, Owner[b] = id.entity, Claimed(b)
      PROVE  Holds(Operation("delete", b, 0))
  <2>1. /\ id.entity = a /\ b \in Entities /\ OwnerOf(b) = a /\ b \notin Accounts
        /\ Children(a) = {} /\ Owned(a, Bots) = {}
    BY <1>1, <1>2, <1>3, <1>9, OwnersAreAccounts DEF OwnerOf, Entities, CascadeIsOver, Targets
  <2>2. index[b] # "active" /\ ~BeingMade(b)
    BY <1>3, <1>9, <2>1 DEF Owned, LifecycleInvariant, EntitiesShape, OwnerShape
  <2>3. BeingDeleted(b)
    BY <1>9, <2>1, <2>2 DEF LifecycleInvariant, EntitiesShape, EntityShape
  <2>4. PICK own : own = entities[b].id
    OBVIOUS
  <2>5. /\ Live(own) /\ own.entity = b /\ own.action = "delete" /\ own \in Actions
        /\ own \in DOMAIN operations /\ b \in DOMAIN entities
    BY <1>3, <2>3, <2>4 DEF BeingDeleted, LifecycleInvariant, OperationsShape, RowNamesOperation,
                            Live, TypeOK, RowTypes
  <2>6. Open(own)
    BY <2>5 DEF LifecycleInvariant, OperationsShape, PhaseShape, PhaseOf, Live, Blocked
  <2>7. own.key = 0
    BY <2>1, <2>5, <2>6 DEF Children, OpenOperations, Actions
  <2>8. own = Operation("delete", b, 0)
    BY <2>5, <2>7 DEF Operation, Actions
  <2> QED
    BY <2>4, <2>5, <2>8 DEF Holds
<1>10. OnlyTouches(id) /\ OperationsShape' /\ EntitiesShape'
  BY <1>2, <1>3, <1>4, <1>6, <1>8, <1>9, DropKeeps
<1> QED
  BY <1>1, <1>2, <1>8, <1>10, BackKeeps

LEMMA AbortTypes ==
  ASSUME TypeOK, NEW id \in DOMAIN operations, ~Blocked(id), AbortDeletion(id),
         id.entity \in Entities, UNCHANGED <<claims, document>>
  PROVE  OperationTypes' /\ RowTypes' /\ DOMAIN operations' = DOMAIN operations
<1>1. Ends(id, "terminal_failed")
  BY DEF Ends, AbortDeletion
<1>2. OperationTypes' /\ DOMAIN operations' = DOMAIN operations
  BY <1>1, EndTypes
<1>3. index' \in [Entities -> {"none", "pending", "active", "deleting", "deleted"}]
  BY DEF AbortDeletion, SetIndex, TypeOK, RowTypes
<1>4. /\ DOMAIN entities' = DOMAIN entities
      /\ \A f \in DOMAIN entities : entities'[f] \in [phase : Phases \cup {"active"}, id : Actions]
                                     /\ entities'[f].id.entity = f
  BY DEF AbortDeletion, SetEntity, Holds, TypeOK, RowTypes
<1>5. RowTypes'
  BY <1>3, <1>4 DEF TypeOK, RowTypes
<1> QED
  BY <1>2, <1>5

\* A deletion that has written no tombstone is taken back.
LEMMA TakenBackKeeps ==
  ASSUME LifecycleInvariant, NEW a \in Accounts, turn[a].stage # "idle",
         turn[a].id.action = "delete", turn[a].id.entity \notin Accounts,
         document[turn[a].id.entity] = "live", index[turn[a].id.entity] # "deleted",
         AbortDeletion(turn[a].id), Thrown(a), UNCHANGED <<claims, document, wanted>>,
         faults' \in 0..MaxFaults
  PROVE  LifecycleInvariant'
<1>1. PICK id : id = turn[a].id
  OBVIOUS
<1>2. /\ TypeOK /\ id \in DOMAIN operations /\ id.entity \in Entities
      /\ Open(id) /\ ~Blocked(id)
  BY <1>1, AtWork
<1>3. OperationTypes' /\ RowTypes' /\ DOMAIN operations' = DOMAIN operations
  BY <1>1, <1>2, AbortTypes
<1>4. TurnTypes'
  BY <1>3, BackTypes
<1>5. TypeOK'
  BY <1>2, <1>3, <1>4 DEF TypeOK
<1>6. OnlyTouches(id) /\ OperationsShape' /\ EntitiesShape'
  BY <1>1, <1>2, <1>5, AbortKeeps
<1> QED
  BY <1>1, <1>5, <1>6, BackKeeps

LEMMA AbortStep ==
  ASSUME LifecycleInvariant, NEW a \in Accounts, Abort(a)
  PROVE  LifecycleInvariant'
<1>1. /\ turn[a].stage = "abort" /\ AbortDeletion(turn[a].id) /\ Thrown(a)
      /\ UNCHANGED <<claims, document, wanted, faults>>
  BY DEF Abort, At, Current
<1>2. /\ turn[a].id.action = "delete" /\ turn[a].id.entity \notin Accounts
      /\ document[turn[a].id.entity] = "live" /\ index[turn[a].id.entity] = "deleting"
      /\ TypeOK
  BY <1>1, AtWork DEF StageShape
<1> QED
  BY <1>1, <1>2, TakenBackKeeps DEF TypeOK

LEMMA DeletionFailsKeeps ==
  ASSUME LifecycleInvariant, NEW a \in Accounts, NEW retryable \in BOOLEAN, DeletionFails(a, retryable)
  PROVE  LifecycleInvariant'
<1>1. PICK id : id = turn[a].id
  OBVIOUS
<1>2. /\ turn[a].stage \in {"tombstone", "unlist", "finalize"} /\ id.entity \notin Accounts
      /\ faults' \in 0..MaxFaults /\ UNCHANGED <<claims, document, wanted>>
  BY <1>1, BoundsAssumption DEF DeletionFails, Fault, Subject, LifecycleInvariant, TypeOK
<1>3. /\ TypeOK /\ id \in DOMAIN operations /\ id.entity \in Entities /\ id.action = "delete"
      /\ operations[id] \in [phase : Phases, retries : Nat, kv : {"none", "retrying", "blocked"}]
      /\ Live(id) /\ Open(id) /\ Holds(id) /\ ~Blocked(id)
  BY <1>1, <1>2, AtWork DEF StageShape, TypeOK, OperationTypes
<1>4. index[id.entity] \in {"deleting", "deleted"} /\ document[id.entity] \in {"live", "tombstone"}
  BY <1>1, <1>2, <1>3, SubjectShape
<1>5. ~DeletionHasStarted(id.entity) => document[id.entity] = "live" /\ index[id.entity] = "deleting"
  BY <1>4 DEF DeletionHasStarted
<1>6. CASE AbortDeletion(id) /\ Thrown(a) /\ ~DeletionHasStarted(id.entity)
  BY <1>1, <1>2, <1>3, <1>5, <1>6, TakenBackKeeps
<1>7. CASE /\ RecordRetryable(id) /\ UNCHANGED index
           /\ IF operations'[id].phase = "compensating" /\ ~DeletionHasStarted(id.entity)
              THEN Advance(a, "abort") ELSE Thrown(a)
  <2>1. PICK r \in [phase : Phases, retries : Nat, kv : {"none", "retrying", "blocked"}] :
          /\ operations' = [operations EXCEPT ![id] = r] /\ SetEntity(id, r.phase)
          /\ r.kv # "blocked" /\ r.kv = operations[id].kv
          /\ r.phase \in {"deleting", "compensating"}
    <3>0. PICK count \in Nat : count = operations[id].retries + 1
      BY <1>3
    <3>1. PICK phase \in Phases :
            /\ phase = IF count >= RetryLimit THEN "compensating" ELSE "deleting"
            /\ phase \in {"deleting", "compensating"}
      BY DEF Phases, OpenPhases
    <3> DEFINE r == [operations[id] EXCEPT !.phase = phase, !.retries = count]
    <3>2. /\ r \in [phase : Phases, retries : Nat, kv : {"none", "retrying", "blocked"}]
          /\ r.phase = phase /\ r.retries = count /\ r.kv # "blocked"
          /\ r.kv = operations[id].kv
      BY <1>3 DEF Blocked
    <3>3. operations' = [operations EXCEPT ![id] = r] /\ SetEntity(id, phase)
      BY <1>3, <1>7, <3>0, <3>1 DEF RecordRetryable
    <3> HIDE DEF r
    <3> QED
      BY <3>1, <3>2, <3>3
  <2>2. Rephases(id) /\ DOMAIN operations' = DOMAIN operations /\ operations'[id] = r
    BY <1>2, <1>3, <1>7, <2>1 DEF Rephases
  <2>3. CASE Advance(a, "abort") /\ ~DeletionHasStarted(id.entity)
    <3>1. "abort" \in Stages
      BY DEF Stages
    <3>2. TurnTypes'
      BY <1>2, <1>3, <2>2, <2>3, <3>1, AdvanceTypes
    <3>3. OnlyTouches(id) /\ OperationsShape' /\ EntitiesShape' /\ TypeOK'
      BY <1>2, <1>3, <2>1, <2>2, <3>2, GoesOn
    <3>4. turn'[a].stage = "abort" /\ turn'[a].id = id
      BY <1>1, <1>3, <2>3, <3>1, Advances
    <3>5. StageShape(a)' /\ CascadeIsOver(a)'
      BY <1>2, <1>3, <1>5, <1>7, <2>1, <2>2, <2>3, <3>4 DEF StageShape, CascadeIsOver, Open, OpenPhases
    <3> QED
      BY <1>1, <1>2, <2>3, <3>1, <3>3, <3>5, AdvanceKeeps
  <2>4. CASE Thrown(a)
    <3>1. TurnTypes'
      BY <1>2, <2>2, <2>4, BackTypes
    <3>2. OnlyTouches(id) /\ OperationsShape' /\ EntitiesShape' /\ TypeOK'
      BY <1>2, <1>3, <2>1, <2>2, <3>1, GoesOn
    <3> QED
      BY <1>1, <1>2, <2>4, <3>2, BackKeeps
  <2> QED
    BY <1>7, <2>3, <2>4
<1> QED
  BY <1>1, <1>6, <1>7 DEF DeletionFails, Current, Subject

-----------------------------------------------------------------------------
(***************************************************************************)
(* The steps in which an account's deletion goes back to wait.             *)
(***************************************************************************)
LEMMA WaitsAgain ==
  ASSUME LifecycleInvariant, NEW a \in Accounts, turn[a].stage \in {"children", "setback"},
         NEW id, id = turn[a].id,
         NEW r \in [phase : Phases, retries : Nat, kv : {"none", "retrying", "blocked"}],
         r.phase = "deleting", r.kv = operations[id].kv,
         operations' = [operations EXCEPT ![id] = r],
         SetEntity(id, "deleting"), Enter(a, Idle),
         UNCHANGED <<claims, index, document, wanted, faults>>
  PROVE  LifecycleInvariant'
<1>1. /\ TypeOK /\ id \in DOMAIN operations /\ id \in Actions /\ OwnerOf(id.entity) = a
      /\ id.action = "delete" /\ Live(id) /\ ~Blocked(id)
  BY AtWork DEF StageShape
<1>2. r.kv # "blocked"
  BY <1>1 DEF Blocked
<1>4. Rephases(id) /\ DOMAIN operations' = DOMAIN operations
  BY <1>1 DEF Rephases
<1>5. /\ turn'[a] = Idle /\ \A c \in Accounts \ {a} : turn'[c] = turn[c]
      /\ TurnTypes'
  <2>1. Idle \in [stage : Stages, id : Actions \cup {NoOperation},
                  parent : Actions \cup {NoOperation}, left : 0..ChildBudget]
    BY BoundsAssumption DEF Idle, Stages
  <2>2. turn'[a] = Idle /\ (\A c \in Accounts \ {a} : turn'[c] = turn[c])
    BY <1>1 DEF TypeOK, TurnTypes, Enter
  <2> QED
    BY <1>1, <1>4, <2>1, <2>2 DEF TypeOK, TurnTypes, Enter, Idle
<1>6. OnlyTouches(id) /\ OperationsShape' /\ EntitiesShape' /\ TypeOK'
  <2>1. faults' \in 0..MaxFaults
    BY <1>1 DEF TypeOK
  <2> QED
    BY <1>1, <1>2, <1>4, <1>5, <2>1, GoesOn
<1>7. StepOf(a, id)
  BY <1>1, <1>5, <1>6 DEF StepOf, TurnOf, Idle
<1> QED
  BY <1>6, <1>7, StepKeeps

LEMMA ContinueKeeps ==
  ASSUME LifecycleInvariant, NEW a \in Accounts, Continue(a)
  PROVE  LifecycleInvariant'
<1>1. PICK id : id = turn[a].id
  OBVIOUS
<1>2. /\ turn[a].stage = "children" /\ SetPhase(id, "deleting") /\ SetEntity(id, "deleting")
      /\ Enter(a, Idle) /\ UNCHANGED <<claims, index, document, wanted, faults>>
  BY <1>1 DEF Continue, At, Current
<1>3. /\ id \in DOMAIN operations
      /\ operations[id] \in [phase : Phases, retries : Nat, kv : {"none", "retrying", "blocked"}]
  BY <1>1, <1>2, AtWork DEF TypeOK, OperationTypes
<1> DEFINE r == [operations[id] EXCEPT !.phase = "deleting"]
<1>4. /\ r \in [phase : Phases, retries : Nat, kv : {"none", "retrying", "blocked"}]
      /\ r.phase = "deleting" /\ r.kv = operations[id].kv
  BY <1>3 DEF Phases, OpenPhases
<1>5. operations' = [operations EXCEPT ![id] = r]
  BY <1>2, <1>3 DEF SetPhase
<1> HIDE DEF r
<1> QED
  BY <1>1, <1>2, <1>4, <1>5, WaitsAgain

LEMMA SetbackKeeps ==
  ASSUME LifecycleInvariant, NEW a \in Accounts, Setback(a)
  PROVE  LifecycleInvariant'
<1>1. PICK id : id = turn[a].id
  OBVIOUS
<1>2. /\ turn[a].stage = "setback" /\ SetEntity(id, "deleting")
      /\ Enter(a, Idle) /\ UNCHANGED <<claims, index, document, wanted, faults>>
  BY <1>1 DEF Setback, At, Current
<1>3. /\ id \in DOMAIN operations
      /\ operations[id] \in [phase : Phases, retries : Nat, kv : {"none", "retrying", "blocked"}]
  BY <1>1, <1>2, AtWork DEF TypeOK, OperationTypes
<1>4. PICK count \in Nat :
        operations' = [operations EXCEPT ![id] =
                        [operations[id] EXCEPT !.phase = "deleting", !.retries = count]]
  <2> DEFINE used == \E child \in DOMAIN operations :
                        OwnerOf(child.entity) = a /\ child.key = operations[id].retries + 1
             n == IF used THEN operations[id].retries + 1 ELSE operations[id].retries
  <2>1. operations' = [operations EXCEPT ![id] =
                        [operations[id] EXCEPT !.phase = "deleting", !.retries = n]]
    BY <1>1, <1>3 DEF Setback, Current
  <2>2. n \in Nat
    BY <1>3
  <2> QED
    BY <2>1, <2>2
<1> DEFINE r == [operations[id] EXCEPT !.phase = "deleting", !.retries = count]
<1>5. /\ r \in [phase : Phases, retries : Nat, kv : {"none", "retrying", "blocked"}]
      /\ r.phase = "deleting" /\ r.kv = operations[id].kv
  BY <1>3 DEF Phases, OpenPhases
<1>6. operations' = [operations EXCEPT ![id] = r]
  BY <1>4
<1> HIDE DEF r
<1> QED
  BY <1>1, <1>2, <1>5, <1>6, WaitsAgain

-----------------------------------------------------------------------------
(***************************************************************************)
(* The steps that begin an operation, and those that forget one.           *)
(***************************************************************************)
\* A new row of an operation and of its entity.
LEMMA BegunTypes ==
  ASSUME TypeOK, NEW id \in Actions, NEW phase \in {"pending", "deleting"},
         operations' = With(operations, id, [phase |-> phase, retries |-> 0, kv |-> "none"]),
         entities' = With(entities, id.entity, [phase |-> phase, id |-> id])
  PROVE  /\ OperationTypes'
         /\ DOMAIN entities' \subseteq Entities
         /\ \A e \in DOMAIN entities' : /\ entities'[e] \in [phase : Phases \cup {"active"}, id : Actions]
                                        /\ entities'[e].id.entity = e
         /\ id \in DOMAIN operations' /\ DOMAIN operations \subseteq DOMAIN operations'
         /\ operations'[id].phase = phase /\ Open(id)'
<1> DEFINE r == [phase |-> phase, retries |-> 0, kv |-> "none"]
<1>1. /\ DOMAIN operations' = DOMAIN operations \cup {id}
      /\ operations'[id] = r
      /\ \A other \in DOMAIN operations \ {id} : operations'[other] = operations[other]
  BY DEF With
<1>2. /\ r \in [phase : Phases, retries : Nat, kv : {"none", "retrying", "blocked"}]
      /\ r.phase = phase /\ r.retries = 0 /\ r.kv = "none" /\ phase \in OpenPhases
  BY DEF Phases, OpenPhases
<1> HIDE DEF r
<1>3. OperationTypes'
  BY <1>1, <1>2, BoundsAssumption DEF TypeOK, OperationTypes, Blocked
<1>4. /\ DOMAIN entities' = DOMAIN entities \cup {id.entity} /\ id.entity \in Entities
      /\ entities'[id.entity] = [phase |-> phase, id |-> id]
      /\ \A f \in DOMAIN entities \ {id.entity} : entities'[f] = entities[f]
  BY DEF With, Actions
<1>5. \A e \in DOMAIN entities' : /\ entities'[e] \in [phase : Phases \cup {"active"}, id : Actions]
                                  /\ entities'[e].id.entity = e
  BY <1>4 DEF TypeOK, RowTypes, Phases, OpenPhases
<1>6. DOMAIN entities' \subseteq Entities
  BY <1>4 DEF TypeOK, RowTypes
<1> QED
  BY <1>1, <1>2, <1>3, <1>5, <1>6 DEF Open

LEMMA ReserveCreateKeeps ==
  ASSUME LifecycleInvariant, NEW e \in Entities, ReserveCreate(e)
  PROVE  LifecycleInvariant'
<1>1. PICK a \in Accounts : a = OwnerOf(e)
  BY OwnersAreAccounts DEF OwnerOf, Entities
<1>2. PICK id \in Actions : id = Operation("create", e, 0) /\ id.entity = e /\ id.action = "create"
  BY NamedOperation
<1>3. /\ turn[a].stage = "idle"
      /\ operations' = With(operations, id, [phase |-> "pending", retries |-> 0, kv |-> "none"])
      /\ entities' = With(entities, id.entity, [phase |-> "pending", id |-> id])
      /\ claims' = With(claims, Identity[e], [entity |-> e, state |-> "pending"])
      /\ Enter(a, Running(id, "pending", NoOperation, ChildBudget))
      /\ wanted' \subseteq wanted
      /\ UNCHANGED <<index, document, faults>>
  BY <1>1, <1>2 DEF ReserveCreate, At
<1>4. TypeOK
  BY DEF LifecycleInvariant
<1>5. /\ OperationTypes' /\ DOMAIN entities' \subseteq Entities
      /\ \A f \in DOMAIN entities' : /\ entities'[f] \in [phase : Phases \cup {"active"}, id : Actions]
                                     /\ entities'[f].id.entity = f
      /\ id \in DOMAIN operations' /\ DOMAIN operations \subseteq DOMAIN operations'
      /\ operations'[id].phase = "pending" /\ Open(id)'
  BY <1>3, <1>4, BegunTypes
<1>6. /\ TurnTypes' /\ turn'[a].stage = StageOf(id, "pending") /\ turn'[a].id = id
      /\ turn'[a].parent = NoOperation /\ \A c \in Accounts \ {a} : turn'[c] = turn[c]
  <2>1. /\ ChildBudget \in 0..ChildBudget /\ "pending" \in Phases
        /\ NoOperation \in Actions \cup {NoOperation}
    BY BoundsAssumption DEF Phases, OpenPhases
  <2> QED
    BY <1>1, <1>2, <1>3, <1>4, <1>5, <2>1, EnterTypes
<1>7. TypeOK'
  <2>1. \A i \in DOMAIN claims' : /\ claims'[i] \in [entity : Entities, state : {"pending", "active"}]
                                  /\ Identity[claims'[i].entity] = i
    BY <1>3, <1>4 DEF TypeOK, RowTypes, With
  <2>2. RowTypes'
    BY <1>3, <1>4, <1>5, <2>1 DEF TypeOK, RowTypes
  <2> QED
    BY <1>3, <1>4, <1>5, <1>6, <2>2 DEF TypeOK
<1>8. OnlyTouches(id) /\ OperationsShape' /\ EntitiesShape'
  BY <1>2, <1>7, ReserveKeeps
<1> QED
  BY <1>1, <1>2, <1>5, <1>6, <1>7, <1>8, TakesUp

LEMMA BeginDeleteTypes ==
  ASSUME TypeOK, NEW id \in Actions, BeginDelete(id), UNCHANGED document
  PROVE  /\ OperationTypes' /\ RowTypes'
         /\ id \in DOMAIN operations' /\ DOMAIN operations \subseteq DOMAIN operations'
         /\ operations'[id].phase = "deleting" /\ Open(id)'
<1>1. /\ OperationTypes' /\ DOMAIN entities' \subseteq Entities
      /\ \A f \in DOMAIN entities' : /\ entities'[f] \in [phase : Phases \cup {"active"}, id : Actions]
                                     /\ entities'[f].id.entity = f
      /\ id \in DOMAIN operations' /\ DOMAIN operations \subseteq DOMAIN operations'
      /\ operations'[id].phase = "deleting" /\ Open(id)'
  BY BegunTypes DEF BeginDelete
<1>2. /\ index' \in [Entities -> {"none", "pending", "active", "deleting", "deleted"}]
      /\ claims' = claims
  BY DEF BeginDelete, TypeOK, RowTypes
<1> QED
  BY <1>1, <1>2 DEF TypeOK, RowTypes

LEMMA ReserveDeleteKeeps ==
  ASSUME LifecycleInvariant, NEW e \in Entities, ReserveDelete(e)
  PROVE  LifecycleInvariant'
<1>1. PICK a \in Accounts : a = OwnerOf(e)
  BY OwnersAreAccounts DEF OwnerOf, Entities
<1>2. PICK id \in Actions : /\ id = Operation("delete", e, 0)
                            /\ id.entity = e /\ id.action = "delete" /\ id.key = 0
  BY NamedOperation
<1>3. /\ turn[a].stage = "idle" /\ MayDelete(id.entity) /\ BeginDelete(id)
      /\ Enter(a, Running(id, "deleting", NoOperation, ChildBudget))
      /\ wanted' \subseteq wanted
      /\ UNCHANGED <<document, faults>>
  BY <1>1, <1>2 DEF ReserveDelete, At
<1>4. TypeOK
  BY DEF LifecycleInvariant
<1>5. /\ OperationTypes' /\ RowTypes'
      /\ id \in DOMAIN operations' /\ DOMAIN operations \subseteq DOMAIN operations'
      /\ operations'[id].phase = "deleting" /\ Open(id)'
  BY <1>3, <1>4, BeginDeleteTypes
<1>6. /\ TurnTypes' /\ turn'[a].stage = StageOf(id, "deleting") /\ turn'[a].id = id
      /\ turn'[a].parent = NoOperation /\ \A c \in Accounts \ {a} : turn'[c] = turn[c]
  <2>1. /\ ChildBudget \in 0..ChildBudget /\ "deleting" \in Phases
        /\ NoOperation \in Actions \cup {NoOperation}
    BY BoundsAssumption DEF Phases, OpenPhases
  <2> QED
    BY <1>1, <1>2, <1>3, <1>4, <1>5, <2>1, EnterTypes
<1>7. TypeOK'
  BY <1>3, <1>4, <1>5, <1>6 DEF TypeOK
<1>8. OnlyTouches(id) /\ OperationsShape' /\ EntitiesShape'
  BY <1>2, <1>3, <1>7, BeginKeeps
<1> QED
  BY <1>1, <1>2, <1>5, <1>6, <1>7, <1>8, TakesUp

LEMMA StartChildKeeps ==
  ASSUME LifecycleInvariant, NEW a \in Accounts, NEW e \in Worlds \cup Bots, StartChild(a, e)
  PROVE  LifecycleInvariant'
<1>1. PICK p : p = turn[a].id
  OBVIOUS
<1>2. /\ turn[a].stage = "children" /\ turn[a].left > 0 /\ e \in Targets(a)
      /\ UNCHANGED <<document, wanted, faults>>
  BY DEF StartChild, At
<1>3. /\ TypeOK /\ p \in DOMAIN operations /\ p \in Actions /\ Live(p) /\ Open(p)
      /\ p.action = "delete" /\ p.entity = a /\ operations[p].retries \in Nat
      /\ p # NoOperation /\ turn[a].left \in 0..ChildBudget
  BY <1>1, <1>2, AtWork, RunsItsOwn DEF StageShape, OwnerOf, TypeOK, OperationTypes
<1>4. Owner[e] = a /\ OwnerOf(e) = a /\ e \notin Accounts /\ e \in Entities
  BY <1>2, OwnersAreAccounts DEF Targets, Owned, OwnerOf, Entities
<1>5. PICK id \in Actions : /\ id = ChildOf(a, e)
                            /\ id.entity = e /\ id.action = "delete" /\ id.key > 0
  <2>1. PICK key \in Nat : key = operations[p].retries + 1 /\ key > 0
    BY <1>3
  <2>2. ChildOf(a, e) = Operation("delete", e, key)
    BY <1>1, <2>1 DEF ChildOf, Current
  <2> QED
    BY <1>4, <2>1, <2>2, NamedOperation
<1>6. CASE ~(id \notin DOMAIN operations /\ MayDelete(e))
  <2>1. /\ Advance(a, "setback") /\ "setback" \in Stages
        /\ UNCHANGED <<operations, entities, claims, index, document, wanted, faults>>
    BY <1>2, <1>5, <1>6 DEF StartChild, Stages
  <2>2. TypeOK'
    BY <1>2, <1>3, <2>1, AdvanceTypes DEF TypeOK, OperationTypes, RowTypes, Blocked
  <2>3. OnlyTouches(turn[a].id) /\ OperationsShape' /\ EntitiesShape'
    BY <2>1, SameKeeps
  <2>4. StageShape(a)' /\ CascadeIsOver(a)'
    BY <1>1, <1>2, <1>3, <2>1, AtWork, Advances DEF StageShape, CascadeIsOver, Open
  <2> QED
    BY <1>2, <2>1, <2>2, <2>3, <2>4, AdvanceKeeps
<1>7. CASE id \notin DOMAIN operations /\ MayDelete(e)
  <2>1. BeginDelete(id) /\ Enter(a, Running(id, "deleting", p, turn[a].left))
    BY <1>1, <1>5, <1>7 DEF StartChild, Current
  <2>2. /\ OperationTypes' /\ RowTypes'
        /\ id \in DOMAIN operations' /\ DOMAIN operations \subseteq DOMAIN operations'
        /\ operations'[id].phase = "deleting" /\ Open(id)'
    BY <1>2, <1>3, <2>1, BeginDeleteTypes
  <2>3. /\ TurnTypes' /\ turn'[a].stage = StageOf(id, "deleting") /\ turn'[a].id = id
        /\ turn'[a].parent = p /\ turn'[a].left = turn[a].left
        /\ \A c \in Accounts \ {a} : turn'[c] = turn[c]
    <3>1. "deleting" \in Phases /\ p \in Actions \cup {NoOperation}
      BY <1>3 DEF Phases, OpenPhases
    <3> QED
      BY <1>3, <1>4, <1>5, <2>1, <2>2, <3>1, EnterTypes
  <2>4. TypeOK'
    BY <1>2, <1>3, <2>2, <2>3 DEF TypeOK
  <2>5. BeingDeleted(Owner[e])
    BY <1>3, <1>4, LiveRow
  <2>6. OnlyTouches(id) /\ OperationsShape' /\ EntitiesShape'
    BY <1>2, <1>4, <1>5, <1>7, <2>1, <2>4, <2>5, BeginKeeps
  <2>7. ParentShape(a)'
    <3>1. p # id
      BY <1>3, <1>7
    <3>2. p \in DOMAIN operations' /\ Open(p)'
      BY <1>3, <2>6, <3>1 DEF OnlyTouches, Open
    <3> QED
      BY <1>2, <1>3, <1>4, <1>5, <2>3, <3>2 DEF ParentShape, Open
  <2> QED
    BY <1>4, <1>5, <2>2, <2>3, <2>4, <2>6, <2>7, TakesUp
<1> QED
  BY <1>6, <1>7

LEMMA ForgetStep ==
  ASSUME LifecycleInvariant, NEW id, Forget(id)
  PROVE  LifecycleInvariant'
<1>1. /\ TypeOK /\ TurnShape /\ id \in DOMAIN operations /\ ~Open(id)
      /\ DOMAIN operations' = DOMAIN operations \ {id}
      /\ \A other \in DOMAIN operations \ {id} : operations'[other] = operations[other]
      /\ UNCHANGED <<entities, claims, index, document, turn, wanted, faults>>
  BY DEF Forget, Restrict, LifecycleInvariant
<1>2. OperationTypes' /\ RowTypes'
  BY <1>1 DEF TypeOK, OperationTypes, RowTypes, Blocked
<1>3. TurnTypes'
  <2>1. \A c \in Accounts : turn[c].stage # "idle" => turn[c].id # id
    BY <1>1 DEF TurnShape, TurnOf, StageShape
  <2> QED
    BY <1>1, <2>1 DEF TypeOK, TurnTypes
<1>4. TypeOK'
  BY <1>1, <1>2, <1>3 DEF TypeOK
<1> QED
  BY <1>4, ForgetKeeps

-----------------------------------------------------------------------------
(***************************************************************************)
(* The invariant of the specification.                                     *)
(***************************************************************************)
LEMMA TurnProgressKeeps ==
  ASSUME LifecycleInvariant, NEW a \in Accounts, TurnProgress(a)
  PROVE  LifecycleInvariant'
<1>1. CASE MarkMaterializing(a) \/ WriteDocument(a) \/ WriteIndex(a) \/ Activate(a)
  BY <1>1, MarkMaterializingKeeps, WriteDocumentKeeps, WriteIndexKeeps, ActivatesKeeps
<1>2. CASE DeadlinePassed(a) \/ RemoveDocument(a) \/ FinalizeCompensation(a)
  BY <1>2, DeadlinePassedKeeps, RemoveDocumentKeeps, FinalizeCompensationKeeps
<1>3. CASE TombstoneDocument(a) \/ TombstoneIndex(a) \/ FinalizeDeletion(a) \/ Abort(a)
  BY <1>3, TombstoneDocumentKeeps, TombstoneIndexKeeps, FinalizeDeletionKeeps, AbortStep
<1>4. CASE \E id \in DOMAIN operations : ResumeChild(a, id)
  BY <1>4, ResumeChildKeeps
<1>5. CASE \E e \in Worlds \cup Bots : StartChild(a, e)
  BY <1>5, StartChildKeeps
<1>6. CASE Continue(a) \/ ChildrenDone(a) \/ Setback(a)
  BY <1>6, ContinueKeeps, ChildrenDoneKeeps, SetbackKeeps
<1> QED
  BY <1>1, <1>2, <1>3, <1>4, <1>5, <1>6 DEF TurnProgress

LEMMA TurnFailsKeeps ==
  ASSUME LifecycleInvariant, NEW a \in Accounts, TurnFails(a)
  PROVE  LifecycleInvariant'
  BY InterruptedKeeps, CreationFailsKeeps, CreationUnreadableKeeps, DeletionFailsKeeps,
     CascadeFailsKeeps DEF TurnFails

LEMMA NextKeeps == LifecycleInvariant /\ [Next]_vars => LifecycleInvariant'
<1> SUFFICES ASSUME LifecycleInvariant, [Next]_vars PROVE LifecycleInvariant'
  OBVIOUS
<1>1. ASSUME NEW e \in Entities, ReserveCreate(e) \/ ReserveDelete(e)
      PROVE  LifecycleInvariant'
  BY <1>1, ReserveCreateKeeps, ReserveDeleteKeeps
<1>2. ASSUME NEW a \in Accounts, TurnProgress(a) \/ TurnFails(a)
      PROVE  LifecycleInvariant'
  BY <1>2, TurnProgressKeeps, TurnFailsKeeps
<1>3. ASSUME NEW a \in Accounts, NEW id \in DOMAIN operations,
             Resume(a, id) \/ ResumeBlocked(a, id) \/ CancelBlocked(a, id)
      PROVE  LifecycleInvariant'
  BY <1>3, ResumeKeeps, ResumeBlockedKeeps, CancelBlockedKeeps
<1>4. ASSUME NEW id \in DOMAIN operations, Forget(id)
      PROVE  LifecycleInvariant'
  BY <1>4, ForgetStep
<1>5. CASE UNCHANGED vars
  <2>1. /\ UNCHANGED <<operations, entities, claims, index, document>>
        /\ turn' = turn /\ wanted' = wanted /\ faults' = faults
    BY <1>5 DEF vars
  <2>2. TypeOK'
    BY <2>1 DEF LifecycleInvariant, TypeOK, OperationTypes, RowTypes, TurnTypes, Blocked
  <2>3. OperationsShape' /\ EntitiesShape'
    BY <2>1, SameKeeps
  <2>4. TurnShape'
    BY <2>1 DEF LifecycleInvariant, TurnShape, TurnOf, StageShape, ParentShape, CascadeIsOver, Open,
                Children, OpenOperations, Targets, Owned
  <2> QED
    BY <2>2, <2>3, <2>4 DEF LifecycleInvariant
<1> QED
  BY <1>1, <1>2, <1>3, <1>4, <1>5 DEF Next

\* In every reachable state each of the three tables agrees with the others:
\* an operation's phase says which rows, claims and registrations it has made
\* or undone so far, and every row, claim and unit of a quota is accounted for
\* by the entity or the operation it belongs to (entity-lifecycle.ts).
THEOREM LifecycleInvariantHolds == Spec => []LifecycleInvariant
  BY LifecycleInit, NextKeeps, PTL DEF Spec

\* Types hold: a claim is always of the entity whose identity it is, and a
\* coordinator runs operations of its own owner only, which exist.
THEOREM LifecycleTyped == Spec => []TypeOK
<1>1. LifecycleInvariant => TypeOK
  BY DEF LifecycleInvariant
<1> QED
  BY <1>1, LifecycleInvariantHolds, PTL

-----------------------------------------------------------------------------
(***************************************************************************)
(* What the invariant says of creations and deletions.                     *)
(***************************************************************************)
LEMMA WorkIsNamed ==
  ASSUME LifecycleInvariant, NEW e \in Entities
  PROVE  (Creating(e) <=> BeingMade(e)) /\ (Deleting(e) <=> BeingDeleted(e))
<1>1. ASSUME NEW id \in DOMAIN operations, id.entity = e, Open(id) \/ Blocked(id)
      PROVE  /\ id.action = "create" <=> BeingMade(e)
             /\ id.action = "delete" <=> BeingDeleted(e)
  BY <1>1, LiveRow DEF Live
<1>2. ASSUME e \in DOMAIN entities, entities[e].phase # "active"
      PROVE  \E id \in DOMAIN operations :
                id = entities[e].id /\ id.entity = e /\ (Open(id) \/ Blocked(id))
                /\ (id.action = "delete" => Open(id))
  <2>1. PICK id : id = entities[e].id
    OBVIOUS
  <2>2. id \in DOMAIN operations /\ id.entity = e /\ (Open(id) \/ Blocked(id))
    BY <1>2, <2>1 DEF LifecycleInvariant, OperationsShape, RowNamesOperation, Live, TypeOK, RowTypes
  <2>3. id.action = "delete" => Open(id)
    BY <2>2 DEF LifecycleInvariant, OperationsShape, PhaseShape, PhaseOf, Blocked
  <2> QED
    BY <2>1, <2>2, <2>3
<1>3. Creating(e) => BeingMade(e)
  BY <1>1 DEF Creating
<1>4. BeingMade(e) => Creating(e)
  BY <1>2 DEF Creating, BeingMade
<1>5. Deleting(e) => BeingDeleted(e)
  BY <1>1 DEF Deleting
<1>6. BeingDeleted(e) => Deleting(e)
  BY <1>2 DEF Deleting, BeingDeleted
<1> QED
  BY <1>3, <1>4, <1>5, <1>6

\* No handle leaks and none is free too early: an identity is claimed exactly
\* while a creation or a deletion of its entity is under way or the entity is
\* visible, and the claim is pending exactly while it is being made
\* (reserveCreate, finalizeLifecycleCompensation, finalizeLifecycleDeletion).
THEOREM IdentitiesAreExact == Spec => []IdentityHeldExactly
<1>1. LifecycleInvariant => IdentityHeldExactly
  BY WorkIsNamed DEF LifecycleInvariant, EntitiesShape, EntityShape, IdentityHeldExactly
<1> QED
  BY <1>1, LifecycleInvariantHolds, PTL

\* What readers see is whole: a visible entity has a live document and an active
\* row, and no creation or deletion works on it any more, so that no deletion
\* that has begun to write tombstones was taken back (abortLifecycleDeletion).
THEOREM VisibleEntitiesAreWhole == Spec => []VisibleIsWhole
<1>1. LifecycleInvariant => VisibleIsWhole
  <2> SUFFICES ASSUME LifecycleInvariant, NEW e \in Entities, index[e] = "active"
      PROVE  /\ document[e] = "live" /\ ~Creating(e) /\ ~Deleting(e)
             /\ e \in DOMAIN entities => entities[e].phase = "active"
    BY DEF VisibleIsWhole
  <2>1. document[e] = "live" /\ ~BeingMade(e) /\ ~BeingDeleted(e)
    BY DEF LifecycleInvariant, EntitiesShape, EntityShape
  <2>2. e \in DOMAIN entities => entities[e].phase = "active"
    BY <2>1 DEF BeingMade, BeingDeleted, LifecycleInvariant, TypeOK, RowTypes, Actions
  <2> QED
    BY <2>1, <2>2, WorkIsNamed
<1> QED
  BY <1>1, LifecycleInvariantHolds, PTL

\* A participant never lives in a world that is hidden, nothing is made for an
\* account that is being deleted, and a participant that outlives its account
\* is one whose own deletion the owner had asked for (beginDelete, reserveCreate
\* and the cascade of account.ts, which run for different owners).
THEOREM ParticipantsAreAtHome == Spec => []ParticipantsHaveAHome
<1>1. LifecycleInvariant => ParticipantsHaveAHome
  <2> SUFFICES ASSUME LifecycleInvariant, NEW b \in Bots, Claimed(b)
      PROVE  LET keeper == Owner[Home[b]] IN
             /\ index[Home[b]] = "active"
             /\ index[keeper] # "active" => index[keeper] = "deleting" /\ Owner[b] = keeper
             /\ index[Owner[b]] # "active" =>
                 /\ ~Creating(b)
                 /\ Deleting(Owner[b]) \/ Holds(Operation("delete", b, 0))
    BY DEF ParticipantsHaveAHome
  <2>1. HomeShape(b) /\ OwnerShape(b) /\ b \in Entities /\ b \notin Accounts
        /\ Owner[b] \in Entities
    BY OwnersAreAccounts DEF LifecycleInvariant, EntitiesShape, Entities
  <2>2. (Creating(b) <=> BeingMade(b)) /\ (Deleting(Owner[b]) <=> BeingDeleted(Owner[b]))
    BY <2>1, WorkIsNamed
  <2> QED
    BY <2>1, <2>2 DEF HomeShape, OwnerShape
<1> QED
  BY <1>1, LifecycleInvariantHolds, PTL

=============================================================================
