------------------------ MODULE LifecycleInvariant ------------------------
(***************************************************************************)
(* The inductive invariant of EntityLifecycle.  Its properties speak of    *)
(* claims and rows; what keeps them is how a live operation, the row that  *)
(* names it, what it has written so far and the stage of the coordinator   *)
(* that runs it belong together.                                           *)
(***************************************************************************)
EXTENDS EntityLifecycle

\* An operation that may still change its entity.
Live(id) == id \in DOMAIN operations /\ (Open(id) \/ Blocked(id))

\* What the phases of an operation can be.  Only an account's deletion makes
\* operations under another key than a user's.
PhaseOf(id) ==
    /\ id.key > 0 => id.action = "delete" /\ id.entity \notin Accounts
    /\ Open(id) /\ id.action = "create" =>
        operations[id].phase \in {"pending", "materializing", "compensating"}
    /\ Open(id) /\ id.action = "delete" =>
        /\ operations[id].phase \in {"deleting", "compensating"}
        /\ id.entity \in Accounts => operations[id].phase = "deleting"
    /\ operations[id].kv # "none" => id.action = "create" /\ id.entity \in Bots
    /\ Blocked(id) => operations[id].retries < RetryLimit

PhaseShape == \A id \in DOMAIN operations : PhaseOf(id)

\* The row of an entity names its live operation and bears its phase; so an
\* entity has one live operation at most.
RowNamesOperation ==
    /\ \A id \in DOMAIN operations : Live(id) =>
        Holds(id) /\ entities[id.entity].phase = operations[id].phase
    /\ \A e \in DOMAIN entities : entities[e].phase = "active" \/ Live(entities[e].id)

OperationsShape == PhaseShape /\ RowNamesOperation

\* What works on an entity, as its row tells it.
BeingMade(e) ==
    e \in DOMAIN entities /\ entities[e].phase # "active" /\ entities[e].id.action = "create"
BeingDeleted(e) ==
    e \in DOMAIN entities /\ entities[e].phase # "active" /\ entities[e].id.action = "delete"

\* What a live operation can have written, and the claims that go with it.
EntityShape(e) ==
    /\ BeingMade(e) => index[e] \in {"none", "pending"}
    /\ index[e] \in {"none", "pending"} => document[e] \in {"none", "live"}
    /\ BeingDeleted(e) => index[e] \in {"deleting", "deleted"} /\ document[e] \in {"live", "tombstone"}
    /\ index[e] = "active" => document[e] = "live"
    /\ Claimed(e) <=> (BeingMade(e) \/ BeingDeleted(e) \/ index[e] = "active")
    /\ (Claimed(e) /\ claims[Identity[e]].state = "pending") <=> BeingMade(e)

\* ParticipantsHaveAHome, and nothing made for an account that is not visible.
OwnerShape(e) == e \notin Accounts /\ BeingMade(e) => index[Owner[e]] = "active"
HomeShape(b) ==
    Claimed(b) =>
        LET keeper == Owner[Home[b]] IN
        /\ index[Home[b]] = "active"
        /\ index[keeper] # "active" => index[keeper] = "deleting" /\ Owner[b] = keeper
        /\ index[Owner[b]] # "active" =>
            BeingDeleted(Owner[b]) \/ Holds(Operation("delete", b, 0))

EntitiesShape ==
    /\ \A e \in Entities : EntityShape(e) /\ OwnerShape(e)
    /\ \A b \in Bots : HomeShape(b)

\* What the stage of a coordinator tells of the operation it runs.
StageShape(a) ==
    LET id == turn[a].id
        e == id.entity
        stage == turn[a].stage
        phase == operations[id].phase
    IN  /\ Open(id)
        /\ stage \in {"create", "document", "index", "activate"} =>
            id.action = "create" /\ phase \in {"pending", "materializing"}
        /\ stage \in {"cleanup", "release"} => id.action = "create" /\ phase = "compensating"
        /\ stage \in {"tombstone", "unlist", "finalize", "abort", "children", "setback"} =>
            id.action = "delete"
        /\ stage \in {"index", "activate"} => document[e] = "live"
        /\ stage = "index" => e \notin Accounts
        /\ stage = "unlist" => IF e \in Worlds THEN index[e] = "deleted" ELSE document[e] = "tombstone"
        /\ stage = "finalize" => index[e] = "deleted" /\ document[e] = "tombstone"
        /\ stage = "abort" => e \notin Accounts /\ document[e] = "live" /\ index[e] = "deleting"
        /\ stage \in {"children", "setback"} => e \in Accounts

\* A child runs for the open deletion of its account.
ParentShape(a) ==
    LET id == turn[a].id
        parent == turn[a].parent
    IN  parent # NoOperation =>
        /\ parent \in DOMAIN operations /\ Open(parent)
        /\ parent.action = "delete" /\ parent.entity = a
        /\ id.entity \notin Accounts /\ turn[a].left > 0

\* An account is only tombstoned while nothing of it is visible and no child
\* of its deletion is open.
CascadeIsOver(a) ==
    turn[a].stage \in {"tombstone", "unlist", "finalize"} /\ turn[a].id.entity \in Accounts =>
        Children(a) \cup Targets(a) = {}

TurnOf(a) == turn[a].stage # "idle" => StageShape(a) /\ ParentShape(a) /\ CascadeIsOver(a)
TurnShape == \A a \in Accounts : TurnOf(a)

LifecycleInvariant == TypeOK /\ OperationsShape /\ EntitiesShape /\ TurnShape

=============================================================================
