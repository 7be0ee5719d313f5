-------------------------- MODULE EntityLifecycle --------------------------
(***************************************************************************)
(* How accounts, worlds and participants come to exist and cease to exist: *)
(* the operations of shared/entity-lifecycle.ts and the runs of them in    *)
(* the lifecycle modules of the agent-runtime worker.                      *)
(*                                                                         *)
(* A creation reserves an identity, writes a document and an index row and *)
(* makes the entity visible; a deletion hides it, tombstones it and frees  *)
(* the identity.  Each batch of statements on D1 is one step, each write   *)
(* of KV another, and the queue of an owner's coordinator runs one request *)
(* or one recovery at a time.  What owners share is the database: the      *)
(* claims on handles and the rows of worlds and accounts.                  *)
(***************************************************************************)
EXTENDS Integers, FiniteSets, Functions

CONSTANTS
    Accounts, Worlds, Bots,     \* the entities, by kind
    Owner,                      \* the account a world or participant belongs to
    Home,                       \* the world of a participant
    Identity,                   \* the handle an entity claims, in its scope
    NoOperation,                \* stands for "no operation"
    RetryLimit,                 \* lifecycleRetryLimit
    ChildBudget,                \* accountDeleteChildOperationsPerAttempt
    MaxFaults                   \* bound on failures and crashes in a behaviour

VARIABLES
    operations,     \* entity_lifecycle_operations, by owner and idempotency key
    entities,       \* entity_lifecycle_entities
    claims,         \* entity_lifecycle_identity_claims, by identity
    index,          \* lifecycle_state and deleted_at of the entity's index row
    document,       \* the entity's document in KV
    turn,           \* what each owner's coordinator runs
    wanted,         \* requests users have still to make
    faults          \* (bound) failures and crashes so far

vars == <<operations, entities, claims, index, document, turn, wanted, faults>>

Entities == Accounts \cup Worlds \cup Bots
OwnerOf(e) == IF e \in Accounts THEN e ELSE Owner[e]

\* An operation is named by its idempotency key: key 0 is a user's own request,
\* key n + 1 the child that the n-th attempt of an account deletion makes.
Operation(action, e, key) == [action |-> action, entity |-> e, key |-> key]

OpenPhases == {"pending", "materializing", "deleting", "compensating"}
Phases == OpenPhases \cup {"terminal", "terminal_failed"}
Open(id) == operations[id].phase \in OpenPhases
Blocked(id) == operations[id].kv = "blocked"
OpenOperations(a) ==
    {id \in DOMAIN operations : OwnerOf(id.entity) = a /\ Open(id)}

Stages == {"idle", "create", "document", "index", "activate", "cleanup", "release",
           "tombstone", "unlist", "finalize", "abort", "children", "setback"}
Idle == [stage |-> "idle", id |-> NoOperation, parent |-> NoOperation, left |-> 0]

Actions == [action : {"create", "delete"}, entity : Entities, key : Nat]

ASSUME EntitiesAssumption ==
    /\ Accounts \cap (Worlds \cup Bots) = {} /\ Worlds \cap Bots = {}
    /\ Owner \in [Worlds \cup Bots -> Accounts] /\ Home \in [Bots -> Worlds]
    /\ NoOperation \notin Actions

ASSUME BoundsAssumption ==
    RetryLimit \in Nat \ {0} /\ ChildBudget \in Nat /\ MaxFaults \in Nat

OperationTypes ==
    \A id \in DOMAIN operations :
        /\ id \in Actions
        /\ operations[id] \in [phase : Phases, retries : Nat,
                               kv : {"none", "retrying", "blocked"}]
        /\ Blocked(id) => operations[id].phase = "terminal_failed"
        /\ operations[id].phase \in {"pending", "materializing"} => operations[id].retries < RetryLimit

RowTypes ==
    /\ DOMAIN entities \subseteq Entities
    /\ \A e \in DOMAIN entities :
        entities[e] \in [phase : Phases \cup {"active"}, id : Actions] /\ entities[e].id.entity = e
    /\ \A i \in DOMAIN claims :
        claims[i] \in [entity : Entities, state : {"pending", "active"}]
        /\ Identity[claims[i].entity] = i
    /\ index \in [Entities -> {"none", "pending", "active", "deleting", "deleted"}]
    /\ document \in [Entities -> {"none", "live", "tombstone"}]

TurnTypes ==
    /\ turn \in [Accounts -> [stage : Stages, id : Actions \cup {NoOperation},
                              parent : Actions \cup {NoOperation}, left : 0..ChildBudget]]
    /\ \A a \in Accounts : turn[a].stage # "idle" =>
        turn[a].id \in DOMAIN operations /\ OwnerOf(turn[a].id.entity) = a

\* One type for every variable: a claim is of the entity whose identity it is,
\* and a coordinator runs an operation of its owner's.
TypeOK ==
    /\ OperationTypes /\ RowTypes /\ TurnTypes
    /\ wanted \subseteq {"create", "delete"} \X Entities
    /\ faults \in 0..MaxFaults

\* Entities that exist at the start were made before the lifecycle tables were:
\* the migration gave them active claims and no row of their own.
Init ==
    /\ operations = << >> /\ entities = << >>
    /\ index \in [Entities -> {"none", "active"}]
    /\ \A e, f \in {x \in Entities : index[x] = "active"} :
        Identity[e] = Identity[f] => e = f
    /\ \A e \in Worlds \cup Bots : index[e] = "active" => index[Owner[e]] = "active"
    /\ \A b \in Bots : index[b] = "active" => index[Home[b]] = "active"
    /\ claims = [i \in {Identity[e] : e \in {x \in Entities : index[x] = "active"}} |->
                    [entity |-> CHOOSE e \in Entities : index[e] = "active" /\ Identity[e] = i,
                     state |-> "active"]]
    /\ document = [e \in Entities |-> IF index[e] = "active" THEN "live" ELSE "none"]
    /\ turn = [a \in Accounts |-> Idle]
    /\ wanted \in SUBSET ({"create", "delete"} \X Entities)
    /\ faults = 0

Fault == faults < MaxFaults /\ faults' = faults + 1

(***************************************************************************)
(* The batches of the database                                             *)
(***************************************************************************)
With(f, x, v) == [y \in DOMAIN f \cup {x} |-> IF y = x THEN v ELSE f[y]]
Claimed(e) == Identity[e] \in DOMAIN claims /\ claims[Identity[e]].entity = e
ClaimsIn(w) == {i \in DOMAIN claims : claims[i].entity \in Bots /\ Home[claims[i].entity] = w}

SetPhase(id, phase) == operations' = [operations EXCEPT ![id].phase = phase]

\* Statements on the entity's row, which name the operation that holds it.
Holds(id) == id.entity \in DOMAIN entities /\ entities[id.entity].id = id
SetEntity(id, phase) ==
    entities' = IF Holds(id) THEN [entities EXCEPT ![id.entity].phase = phase] ELSE entities
DropEntity(id) ==
    entities' = IF Holds(id) THEN Restrict(entities, DOMAIN entities \ {id.entity}) ELSE entities

\* UPDATE ... SET lifecycle_state = ... WHERE ... deleted_at IS NULL
SetIndex(e, state) ==
    index' = IF index[e] = "deleted" THEN index ELSE [index EXCEPT ![e] = state]

\* Mutant: a participant is reserved in a world that is being deleted.
MayCreateInAnyWorld(e) == e \notin Accounts => index[Owner[e]] = "active"

\* What the inserting statement of reserveCreate demands of the database.
MayCreate(e) ==
    /\ e \notin Accounts => index[Owner[e]] = "active"
    /\ e \in Bots => index[Home[e]] = "active" /\ index[Owner[Home[e]]] = "active"

\* beginDelete: the row is visible, no participant claims a handle in a world
\* that goes, and an account has no operation that runs or waits for an
\* operator and no world with another account's participants.
MayDelete(e) ==
    /\ index[e] = "active"
    /\ e \in Worlds => ClaimsIn(e) = {}
    /\ e \in Accounts =>
        /\ OpenOperations(e) = {}
        /\ \A id \in DOMAIN operations : OwnerOf(id.entity) = e => ~Blocked(id)
        /\ \A w \in Worlds : Owner[w] = e =>
            \A i \in ClaimsIn(w) : Owner[claims[i].entity] = e

BeginDelete(id) ==
    /\ operations' = With(operations, id, [phase |-> "deleting", retries |-> 0, kv |-> "none"])
    /\ entities' = With(entities, id.entity, [phase |-> "deleting", id |-> id])
    /\ index' = [index EXCEPT ![id.entity] = "deleting"]
    /\ UNCHANGED claims

(***************************************************************************)
(* The turns of an owner's coordinator                                     *)
(***************************************************************************)
\* Where a run of an operation takes it up, by its phase.
StageOf(id, phase) ==
    CASE id.action = "create" /\ phase = "compensating" -> "cleanup"
      [] id.action = "create" /\ phase # "compensating" -> "create"
      [] id.action = "delete" /\ id.entity \in Accounts -> "children"
      [] OTHER -> "tombstone"

Running(id, phase, parent, left) ==
    [stage |-> StageOf(id, phase), id |-> id, parent |-> parent, left |-> left]
Enter(a, running) == turn' = [turn EXCEPT ![a] = running]
Advance(a, stage) == turn' = [turn EXCEPT ![a].stage = stage]

\* The run returns, to the account deletion that it is a child of if there is one.
Completed(a) ==
    LET p == turn[a].parent IN
    Enter(a, IF p = NoOperation THEN Idle
             ELSE [stage |-> "children", id |-> p, parent |-> NoOperation,
                   left |-> turn[a].left - 1])
\* The run throws, and the account deletion catches it.
Thrown(a) ==
    LET p == turn[a].parent IN
    Enter(a, IF p = NoOperation THEN Idle
             ELSE [stage |-> "setback", id |-> p, parent |-> NoOperation, left |-> 0])

Current(a) == turn[a].id
Subject(a) == turn[a].id.entity
At(a, stage) == turn[a].stage = stage

\* A retried request and the recovery of an owner both run an open operation.
Resume(a, id) ==
    /\ At(a, "idle") /\ id \in OpenOperations(a)
    /\ Enter(a, Running(id, operations[id].phase, NoOperation, ChildBudget))
    /\ UNCHANGED <<operations, entities, claims, index, document, wanted, faults>>

\* The object goes away, or a step throws that no handler records.
Interrupted(a) ==
    /\ ~At(a, "idle") /\ Fault
    /\ Enter(a, Idle) \/ Thrown(a)
    /\ UNCHANGED <<operations, entities, claims, index, document, wanted>>

(***************************************************************************)
(* Creation                                                                *)
(***************************************************************************)
\* reserveCreate: one batch; a taken identity refuses all of it.
ReserveCreate(e) ==
    LET a == OwnerOf(e)
        id == Operation("create", e, 0)
    IN  /\ At(a, "idle") /\ <<"create", e>> \in wanted
        /\ index[e] = "none" /\ MayCreate(e) /\ Identity[e] \notin DOMAIN claims
        /\ operations' = With(operations, id, [phase |-> "pending", retries |-> 0, kv |-> "none"])
        /\ entities' = With(entities, e, [phase |-> "pending", id |-> id])
        /\ claims' = With(claims, Identity[e], [entity |-> e, state |-> "pending"])
        /\ Enter(a, Running(id, "pending", NoOperation, ChildBudget))
        /\ wanted' = wanted \ {<<"create", e>>}
        /\ UNCHANGED <<index, document, faults>>

MarkMaterializing(a) ==
    LET id == Current(a) IN
    /\ At(a, "create") /\ Advance(a, "document")
    /\ IF operations[id].phase = "pending"
       THEN /\ SetPhase(id, "materializing")
            /\ entities' = IF Holds(id) /\ entities[Subject(a)].phase = "pending"
                           THEN [entities EXCEPT ![Subject(a)].phase = "materializing"]
                           ELSE entities
       ELSE UNCHANGED <<operations, entities>>
    /\ UNCHANGED <<claims, index, document, wanted, faults>>

\* The document comes first; the index row of an account waits for activation.
WriteDocument(a) ==
    /\ At(a, "document")
    /\ Advance(a, IF Subject(a) \in Accounts THEN "activate" ELSE "index")
    /\ document' = [document EXCEPT ![Subject(a)] = "live"]
    /\ UNCHANGED <<operations, entities, claims, index, wanted, faults>>

WriteIndex(a) ==
    /\ At(a, "index") /\ Advance(a, "activate")
    /\ index' = [index EXCEPT ![Subject(a)] = "pending"]
    /\ UNCHANGED <<operations, entities, claims, document, wanted, faults>>

Activate(a) ==
    LET id == Current(a) IN
    /\ At(a, "activate") /\ Completed(a)
    /\ claims' = [claims EXCEPT ![Identity[Subject(a)]].state = "active"]
    /\ SetIndex(Subject(a), "active")
    /\ entities' = IF Holds(id) /\ entities[Subject(a)].phase \in {"pending", "materializing"}
                   THEN [entities EXCEPT ![Subject(a)].phase = "active"]
                   ELSE entities
    /\ SetPhase(id, "terminal")
    /\ UNCHANGED <<document, wanted, faults>>

\* Mutant: an exhausted creation starts over instead of being compensated.
RecordRetryableForever(id) ==
    LET count == operations[id].retries + 1
        phase == IF id.action = "create" THEN "materializing" ELSE "deleting"
    IN  /\ operations' = [operations EXCEPT ![id] = [@ EXCEPT !.phase = phase, !.retries = count]]
        /\ SetEntity(id, phase)

\* recordRetryableLifecycleFailure, of an operation that is still open.
RecordRetryable(id) ==
    LET count == operations[id].retries + 1
        phase == IF count >= RetryLimit THEN "compensating"
                 ELSE IF id.action = "create" THEN "materializing" ELSE "deleting"
    IN  /\ operations' = [operations EXCEPT ![id] = [@ EXCEPT !.phase = phase, !.retries = count]]
        /\ SetEntity(id, phase)

BeginCompensation(id) == SetPhase(id, "compensating") /\ SetEntity(id, "compensating")

\* A step of a creation fails: it is tried again up to a limit, or given up.
CreationFails(a) ==
    LET id == Current(a) IN
    /\ turn[a].stage \in {"create", "document", "index", "activate"} /\ Fault
    /\ RecordRetryable(id) \/ BeginCompensation(id)
    /\ IF operations'[id].phase = "compensating" THEN Advance(a, "cleanup") ELSE Thrown(a)
    /\ UNCHANGED <<claims, index, document, wanted>>

\* recordCreationKvFailure: a participant whose saved state cannot be read is
\* kept, and waits for an operator once the retries or their hour are over.
RecordUnreadable(id, kv) ==
    LET phase == IF kv = "blocked" THEN "terminal_failed" ELSE "materializing" IN
    /\ operations' = [operations EXCEPT ![id] = [@ EXCEPT !.phase = phase, !.kv = kv]]
    /\ SetEntity(id, phase)

CreationUnreadable(a) ==
    LET id == Current(a) IN
    /\ turn[a].stage \in {"create", "document", "index"} /\ Subject(a) \in Bots /\ Fault
    /\ operations[id].phase \in {"pending", "materializing"}
    /\ \E kv \in {"retrying", "blocked"} : RecordUnreadable(id, kv)
    /\ Thrown(a)
    /\ UNCHANGED <<claims, index, document, wanted>>

\* A run that finds the hour over does not try again.
DeadlinePassed(a) ==
    LET id == Current(a) IN
    /\ At(a, "create") /\ operations[id].kv = "retrying"
    /\ RecordUnreadable(id, "blocked")
    /\ Thrown(a)
    /\ UNCHANGED <<claims, index, document, wanted, faults>>

\* resolveBlockedCreation, at an operator's request.
ResumeBlocked(a, id) ==
    /\ At(a, "idle") /\ id \in DOMAIN operations /\ OwnerOf(id.entity) = a /\ Blocked(id)
    /\ index[a] = "active"
    /\ operations' = [operations EXCEPT ![id] =
                        [@ EXCEPT !.phase = "materializing", !.kv = "none"]]
    /\ SetEntity(id, "materializing")
    /\ UNCHANGED <<claims, index, document, turn, wanted, faults>>

CancelBlocked(a, id) ==
    /\ At(a, "idle") /\ id \in DOMAIN operations /\ OwnerOf(id.entity) = a /\ Blocked(id)
    /\ operations' = [operations EXCEPT ![id] =
                        [@ EXCEPT !.phase = "compensating", !.kv = "none"]]
    /\ SetEntity(id, "compensating")
    /\ Enter(a, Running(id, "compensating", NoOperation, ChildBudget))
    /\ UNCHANGED <<claims, index, document, wanted, faults>>

\* Compensation removes the document, and for a world the forum coordinator
\* removes the index row with it.
RemoveDocument(a) ==
    LET e == Subject(a) IN
    /\ At(a, "cleanup") /\ Advance(a, "release")
    /\ document' = [document EXCEPT ![e] = "none"]
    /\ index' = IF e \in Worlds /\ index[e] # "active" THEN [index EXCEPT ![e] = "none"] ELSE index
    /\ UNCHANGED <<operations, entities, claims, wanted, faults>>

\* Mutant: the compensated creation keeps its claim.
FinalizeCompensationKeepingClaim(a) ==
    LET id == Current(a)
        e == Subject(a)
    IN  /\ At(a, "release") /\ Thrown(a)
        /\ index' = IF index[e] # "active" THEN [index EXCEPT ![e] = "none"] ELSE index
        /\ DropEntity(id)
        /\ SetPhase(id, "terminal_failed")
        /\ UNCHANGED <<claims, document, wanted, faults>>

\* The claims that go are those that still name the operation, the pending ones.
FinalizeCompensation(a) ==
    LET id == Current(a)
        e == Subject(a)
    IN  /\ At(a, "release") /\ Thrown(a)
        /\ index' = IF index[e] # "active" THEN [index EXCEPT ![e] = "none"] ELSE index
        /\ claims' = IF Claimed(e) /\ claims[Identity[e]].state = "pending"
                     THEN Restrict(claims, DOMAIN claims \ {Identity[e]}) ELSE claims
        /\ DropEntity(id)
        /\ SetPhase(id, "terminal_failed")
        /\ UNCHANGED <<document, wanted, faults>>

(***************************************************************************)
(* Deletion                                                                *)
(***************************************************************************)
ReserveDelete(e) ==
    LET a == OwnerOf(e)
        id == Operation("delete", e, 0)
    IN  /\ At(a, "idle") /\ <<"delete", e>> \in wanted
        /\ MayDelete(e) /\ BeginDelete(id)
        /\ Enter(a, Running(id, "deleting", NoOperation, ChildBudget))
        /\ wanted' = wanted \ {<<"delete", e>>}
        /\ UNCHANGED <<document, faults>>

\* A participant's and an account's document is written before the row, a
\* world's row before the document.
TombstoneDocument(a) ==
    /\ \/ At(a, "tombstone") /\ Subject(a) \notin Worlds /\ Advance(a, "unlist")
       \/ At(a, "unlist") /\ Subject(a) \in Worlds /\ Advance(a, "finalize")
    /\ document' = [document EXCEPT ![Subject(a)] = "tombstone"]
    /\ UNCHANGED <<operations, entities, claims, index, wanted, faults>>

TombstoneIndex(a) ==
    /\ \/ At(a, "tombstone") /\ Subject(a) \in Worlds /\ Advance(a, "unlist")
       \/ At(a, "unlist") /\ Subject(a) \notin Worlds /\ Advance(a, "finalize")
    /\ index' = [index EXCEPT ![Subject(a)] = "deleted"]
    /\ UNCHANGED <<operations, entities, claims, document, wanted, faults>>

FinalizeDeletion(a) ==
    LET id == Current(a)
        e == Subject(a)
    IN  /\ At(a, "finalize") /\ Completed(a)
        /\ claims' = IF Claimed(e) THEN Restrict(claims, DOMAIN claims \ {Identity[e]}) ELSE claims
        /\ DropEntity(id)
        /\ SetPhase(id, "terminal")
        /\ UNCHANGED <<index, document, wanted, faults>>

\* Mutant: only the index row tells that a deletion has begun.
DeletionHasStartedByRow(e) == index[e] = "deleted"

\* botDeletionHasStarted and worldDeletionHasStarted
DeletionHasStarted(e) == document[e] = "tombstone" \/ index[e] = "deleted"

AbortDeletion(id) ==
    /\ SetIndex(id.entity, "active")
    /\ SetEntity(id, "active")
    /\ SetPhase(id, "terminal_failed")

\* A step of a participant's or world's deletion fails.  Only a deletion that
\* has not written a tombstone may be taken back.
DeletionFails(a, retryable) ==
    LET id == Current(a)
        started == DeletionHasStarted(Subject(a))
    IN  /\ turn[a].stage \in {"tombstone", "unlist", "finalize"}
        /\ Subject(a) \notin Accounts /\ Fault
        /\ IF ~retryable /\ ~started
           THEN AbortDeletion(id) /\ Thrown(a)
           ELSE /\ RecordRetryable(id)
                /\ IF operations'[id].phase = "compensating" /\ ~started
                   THEN Advance(a, "abort") ELSE Thrown(a)
                /\ UNCHANGED index
        /\ UNCHANGED <<claims, document, wanted>>

Abort(a) ==
    /\ At(a, "abort") /\ AbortDeletion(Current(a)) /\ Thrown(a)
    /\ UNCHANGED <<claims, document, wanted, faults>>

(***************************************************************************)
(* The cascade of an account's deletion                                    *)
(***************************************************************************)
Children(a) == {id \in OpenOperations(a) : id.key > 0}
Owned(a, kind) == {e \in kind : Owner[e] = a /\ index[e] = "active"}
\* boundedAccountDeletionTargets: the participants, then the worlds.
Targets(a) == IF Owned(a, Bots) # {} THEN Owned(a, Bots) ELSE Owned(a, Worlds)

\* Mutant: the key of a child is the same on every attempt.
ChildOfDeletion(a, e) == Operation("delete", e, 1)

\* accountDeleteChildIdempotencyKey
ChildOf(a, e) == Operation("delete", e, operations[Current(a)].retries + 1)

ResumeChild(a, id) ==
    /\ At(a, "children") /\ turn[a].left > 0 /\ id \in Children(a)
    /\ Enter(a, Running(id, operations[id].phase, Current(a), turn[a].left))
    /\ UNCHANGED <<operations, entities, claims, index, document, wanted, faults>>

\* A child that failed for good under this key, or cannot begin, throws.
StartChild(a, e) ==
    LET id == ChildOf(a, e) IN
    /\ At(a, "children") /\ turn[a].left > 0 /\ Children(a) = {} /\ e \in Targets(a)
    /\ IF id \notin DOMAIN operations /\ MayDelete(e)
       THEN /\ BeginDelete(id)
            /\ Enter(a, Running(id, "deleting", Current(a), turn[a].left))
       ELSE Advance(a, "setback") /\ UNCHANGED <<operations, entities, claims, index>>
    /\ UNCHANGED <<document, wanted, faults>>

\* continueAccountDeletion: the rest is left to a later run.
Continue(a) ==
    /\ At(a, "children") /\ turn[a].left = 0 /\ Children(a) \cup Targets(a) # {}
    /\ SetPhase(Current(a), "deleting") /\ SetEntity(Current(a), "deleting")
    /\ Enter(a, Idle)
    /\ UNCHANGED <<claims, index, document, wanted, faults>>

ChildrenDone(a) ==
    /\ At(a, "children") /\ Children(a) \cup Targets(a) = {}
    /\ Advance(a, "tombstone")
    /\ UNCHANGED <<operations, entities, claims, index, document, wanted, faults>>

CascadeFails(a) ==
    /\ turn[a].stage \in {"children", "tombstone", "unlist", "finalize"}
    /\ Subject(a) \in Accounts /\ Fault
    /\ Advance(a, "setback")
    /\ UNCHANGED <<operations, entities, claims, index, document, wanted>>

\* recordAccountDeleteFailure: the deletion stays hidden and is tried again.
\* The count only serves to name children, so that it need not advance here
\* while no child bears it: one unused key is as good as another.
Setback(a) ==
    LET id == Current(a)
        retries == operations[id].retries
        used == \E child \in DOMAIN operations :
                    OwnerOf(child.entity) = a /\ child.key = retries + 1
        count == IF used THEN retries + 1 ELSE retries
    IN
    /\ At(a, "setback") /\ Enter(a, Idle)
    /\ operations' = [operations EXCEPT ![id] =
                        [@ EXCEPT !.phase = "deleting", !.retries = count]]
    /\ SetEntity(id, "deleting")
    /\ UNCHANGED <<claims, index, document, wanted, faults>>

\* cleanupTerminalLifecycleOperations, which never takes a blocked creation.
Forget(id) ==
    /\ id \in DOMAIN operations /\ ~Open(id) /\ ~Blocked(id)
    /\ operations' = Restrict(operations, DOMAIN operations \ {id})
    /\ UNCHANGED <<entities, claims, index, document, turn, wanted, faults>>

(***************************************************************************)
(* The specification                                                       *)
(***************************************************************************)
\* What a coordinator does once it runs an operation.
TurnProgress(a) ==
    \/ MarkMaterializing(a) \/ WriteDocument(a) \/ WriteIndex(a) \/ Activate(a)
    \/ DeadlinePassed(a) \/ RemoveDocument(a) \/ FinalizeCompensation(a)
    \/ TombstoneDocument(a) \/ TombstoneIndex(a) \/ FinalizeDeletion(a) \/ Abort(a)
    \/ \E id \in DOMAIN operations : ResumeChild(a, id)
    \/ \E e \in Worlds \cup Bots : StartChild(a, e)
    \/ Continue(a) \/ ChildrenDone(a) \/ Setback(a)

TurnFails(a) ==
    \/ Interrupted(a) \/ CreationFails(a) \/ CreationUnreadable(a)
    \/ \E retryable \in BOOLEAN : DeletionFails(a, retryable)
    \/ CascadeFails(a)

Next ==
    \/ \E e \in Entities : ReserveCreate(e) \/ ReserveDelete(e)
    \/ \E a \in Accounts : TurnProgress(a) \/ TurnFails(a)
    \/ \E a \in Accounts, id \in DOMAIN operations :
            Resume(a, id) \/ ResumeBlocked(a, id) \/ CancelBlocked(a, id)
    \/ \E id \in DOMAIN operations : Forget(id)

Spec == Init /\ [][Next]_vars

\* A coordinator goes on with what it runs, and every operation that is open
\* is run again some time: the triggers on entity_lifecycle_operations keep a
\* row for its owner that the scheduled recovery claims.
Recover(e) == \E id \in DOMAIN operations : id.entity = e /\ Resume(OwnerOf(e), id)
Fairness ==
    /\ \A a \in Accounts : WF_vars(TurnProgress(a))
    /\ \A e \in Entities : SF_vars(Recover(e))

FairSpec == Spec /\ Fairness

(***************************************************************************)
(* Safety                                                                  *)
(***************************************************************************)
Creating(e) ==
    \E id \in DOMAIN operations :
        id.action = "create" /\ id.entity = e /\ (Open(id) \/ Blocked(id))
Deleting(e) ==
    \E id \in DOMAIN operations : id.action = "delete" /\ id.entity = e /\ Open(id)

\* An identity is claimed exactly while something needs it: a creation under
\* way or waiting for an operator, an entity that is visible or hidden by a
\* deletion that may still be taken back, a deletion not yet finished.  So no
\* handle leaks when a creation is compensated or a deletion gives up half-way,
\* and none is free for another owner too early, whatever was interrupted
\* (finalizeLifecycleCompensation, finalizeLifecycleDeletion, abortLifecycleDeletion).
IdentityHeldExactly ==
    \A e \in Entities :
        /\ Claimed(e) <=> (Creating(e) \/ Deleting(e) \/ index[e] = "active")
        /\ (Claimed(e) /\ claims[Identity[e]].state = "pending") <=> Creating(e)

\* What is visible is whole: its document is neither missing nor a tombstone,
\* no operation still works on it, and its lifecycle row says it is active.  A
\* deletion that has begun to write tombstones is never taken back, and no
\* compensation reaches what was activated (the catch handlers of
\* runBotDeleteOperation, runWorldDeleteOperation and runBotCreateOperation).
VisibleIsWhole ==
    \A e \in Entities : index[e] = "active" =>
        /\ document[e] = "live"
        /\ ~Creating(e) /\ ~Deleting(e)
        /\ e \in DOMAIN entities => entities[e].phase = "active"

\* A participant that is being made, lives or is being deleted has a world that
\* is visible, in an account that is visible or being deleted with all of its
\* own participants, never with another's.  Nothing is being made for an account
\* that is being deleted, and when its deletion is over it has left behind no
\* participant but one whose deletion the owner had asked for as well.  The
\* batches that reserve and the batches that hide run for different owners,
\* each relying on what the other claimed (the guards of reserveCreate,
\* beginDelete and resolveBlockedCreation).
ParticipantsHaveAHome ==
    \A b \in Bots : Claimed(b) =>
        LET keeper == Owner[Home[b]] IN
        /\ index[Home[b]] = "active"
        /\ index[keeper] # "active" => index[keeper] = "deleting" /\ Owner[b] = keeper
        /\ index[Owner[b]] # "active" =>
            /\ ~Creating(b)
            /\ Deleting(Owner[b]) \/ Holds(Operation("delete", b, 0))

\* What docs/entity-lifecycle-phase-1.md says of the cascade: an account "stays
\* deleting until all children converge", and a child that is hidden is not
\* skipped.  So an account whose deletion is over owns nothing any more.
ChildrenConvergeFirst ==
    \A a \in Accounts : index[a] = "deleted" /\ ~Deleting(a) =>
        \A e \in Worlds \cup Bots : Owner[e] = a => ~Claimed(e)

(***************************************************************************)
(* Liveness                                                                *)
(***************************************************************************)
\* Once users make no new requests, every operation of an owner ends or comes to
\* wait for an operator: a creation is activated or compensated, a deletion is
\* finished or taken back, and an account's deletion is finished, also when a
\* child of it failed for good and has to be begun again under another key
\* (accountDeleteChildIdempotencyKey).
OperationsSettle == \A a \in Accounts : []<>(OpenOperations(a) = {})

=============================================================================
