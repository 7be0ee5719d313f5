--------------------------- MODULE ThreadInvariant ---------------------------
(***************************************************************************)
(* The inductive invariant behind ProjectionFollowsCanonical.              *)
(***************************************************************************)
EXTENDS ThreadMutation

\* The plan of a thread's creation: its document has nothing before it.
Creation(i) == i \in Plans /\ made[i].doc = <<i>> /\ made[i].thread \in Threads \ Old

\* A plan about to be committed starts from the current document.
StartsFresh(k, o) ==
  \/ o.kind = "commit" /\ canonical[k] = <<>>
  \/ o.kind = "mutate" /\ k = Forum /\ o.base = <<>> /\ o.thread \in Threads \ Old
  \/ o.kind = "mutate" /\ k \in Threads /\ o.base = readFreshThread(k) /\ o.thread = k

\* What each await of an operation o of coordinator k knows.
OperationShape(k, o) ==
  /\ o.pc \in {"kv", "batch"} => k \in Threads /\ pending[k] # 0
  /\ o.pc = "handoff" => k = Forum /\ pending[k] # 0
  /\ o.pc \in {"clear", "wake", "store"} => pending[k] = 0
  /\ o.kind = "mutate" => o.req \in Requests
  /\ o.kind = "commit" => k \in Threads /\ Creation(o.plan) /\ made[o.plan].thread = k
  /\ o.pc \in {"wake", "store"} => StartsFresh(k, o)

OperationShapes == \A k \in Coordinators : OperationShape(k, op[k])

\* The forum's coordinator commits and hands over creations only.
OnlyCreations ==
  /\ pending[Forum] # 0 => Creation(pending[Forum])
  /\ \A m \in handoffs : Creation(m.plan)

Documents ==
  /\ \A i \in Plans : made[i].doc # <<>>
  /\ \A t \in Old : kv[t] # <<>>

\* The receipt of a plan's batch is kept by the thread's coordinator.
GuardsOwned == \A g \in guards : made[g.plan].thread = g.by /\ canonical[g.by] # <<>>

Guarded(t) == [plan |-> pending[t], by |-> t] \in guards

\* With nothing pending the three copies agree.
Settled(t) == pending[t] = 0 => kv[t] = readFreshThread(t) /\ projected[t] = kv[t]

Before(doc) == SubSeq(doc, 1, Len(doc) - 1)

\* A pending plan is in KV before it is in D1, and is in D1 if its receipt is.
HalfWay(t) ==
  LET doc == canonical[t]
  IN /\ made[pending[t]].thread = t /\ made[pending[t]].doc = doc
     /\ doc = Append(Before(doc), pending[t])
     /\ IF Guarded(t) THEN kv[t] = doc /\ projected[t] = doc
        ELSE kv[t] \in {doc, Before(doc)} /\ projected[t] = Before(doc)
     /\ op[t].pc = "batch" => kv[t] = doc

\* A new thread has no document in KV before its coordinator owns it.
NewAreEmpty == \A t \in Threads \ Old : canonical[t] = <<>> => kv[t] = <<>>

\* KV and D1 are written by the coordinator that owns the thread, with a plan.
WritesAreOwned ==
  /\ \A t \in Threads : pending[t] # 0 => canonical[t] # <<>>
  /\ \A c \in late : c.call \in {"kv", "batch"} =>
       c.plan # 0 /\ c.by \in Threads /\ canonical[c.by] # <<>>

Replicas ==
  /\ late = {} /\ GuardsOwned /\ NewAreEmpty
  /\ \A t \in Threads : Settled(t) /\ (pending[t] # 0 => HalfWay(t))

\* The inductive invariant: each await of an operation knows what is pending and
\* where its plan starts from, only creations are handed over, only owners write
\* documents, and, unless calls may take effect late, KV, D1 and the receipt of the batch
\* differ from the canonical document by the step replayThreadMutation is at and by
\* nothing else.
ThreadInvariant ==
  /\ TypeOK /\ OperationShapes /\ OnlyCreations /\ Documents /\ WritesAreOwned
  /\ ~limits.late => Replicas

(***************************************************************************)
(* The inductive invariant behind what clients are told: it knows where    *)
(* each plan, each receipt and each call of the hand-over stands, also     *)
(* while calls may take effect late.                                       *)
(***************************************************************************)
\* A plan that coordinator k answers for is projected, or what it replays next.
Carried(k, i) == Projected(i) \/ pending[k] = i

ReceiptsOwned ==
  \A k \in Coordinators, key \in Keys : receipts[k][key] # 0 =>
    /\ Carried(k, receipts[k][key])
    /\ k \in Threads => made[receipts[k][key]].thread = k /\ canonical[k] # <<>>

\* The latest plan of a request is the one whose receipt is kept, until it is over.
ReceiptsStand ==
  \A i \in Plans \ expired : receipts[made[i].req.to][made[i].req.key] = i

\* A batch and its receipt are of the thread whose coordinator sends them.
Batches ==
  /\ \A g \in guards : made[g.plan].thread = g.by
  /\ \A c \in late : c.call = "batch" => made[c.plan].thread = c.by
  /\ \A g \in guards : Projected(g.plan)
  /\ \A t \in Threads : pending[t] # 0 => made[pending[t]].thread = t

\* A new thread has one plan that created it, and its document begins with it.
Creations ==
  /\ \A i \in Plans : made[i].req.to = Forum <=> Creation(i)
  /\ \A i, j \in Plans : Creation(i) /\ Creation(j) /\ made[i].thread = made[j].thread => i = j
  /\ \A t \in Threads \ Old : canonical[t] # <<>> =>
       \E i \in Plans : Creation(i) /\ made[i].thread = t /\ Carried(t, i)

\* A staged request was not carried out before; a reply has something to reply to,
\* and no plan has the thread that is to be created.
Prepared(k, o) ==
  /\ o.plan = 0
  /\ k \in Threads => o.base # <<>> /\ (k \in Old \/ canonical[k] # <<>>)
  /\ k = Forum => \A i \in Plans : made[i].thread # o.thread

\* What an operation o of coordinator k has found out about its request.
Answering(k, o) ==
  /\ o.kind = "mutate" =>
       /\ o.req.to = k
       /\ o.plan # 0 => Carried(k, o.plan)
       /\ o.plan = 0 => receiptFor(k, o.req.key) = 0
  /\ o.kind = "commit" /\ o.committed => Carried(k, o.plan)
  /\ o.pc \in {"wake", "store"} /\ o.kind = "mutate" => Prepared(k, o)
  /\ o.pc = "store" => (~limits.late => k \in wakes)

\* While the forum's coordinator waits, its call is that of the pending creation.
HandoffCalls ==
  LET o == op[Forum]
  IN IF o.pc # "handoff" THEN o.answer = "none"
     ELSE /\ \A m \in handoffs : m.call = o.call => m.plan = pending[Forum]
          /\ \A t \in Threads : op[t].kind = "commit" /\ op[t].call = o.call =>
               op[t].plan = pending[Forum]
          /\ o.answer = "ok" => Projected(pending[Forum])

AnswerInvariant ==
  /\ ReceiptsOwned /\ ReceiptsStand /\ CarriedOutOnce /\ Batches /\ NewAreEmpty /\ Creations
  /\ \A k \in Coordinators : Answering(k, op[k])
  /\ HandoffCalls /\ PendingIsDiscoverable

(***************************************************************************)
(* What PlanLog needs besides: every plan ever committed is projected or   *)
(* pending where it was committed, documents consist of plans, and there   *)
(* are no more plans than the bound allows.                                *)
(***************************************************************************)
PlansCarried == \A i \in Plans : Carried(made[i].req.to, i)

Numbered ==
  /\ \A t \in Threads : canonical[t] \in Seq(PlansOrNone) /\ kv[t] \in Seq(PlansOrNone)
                        /\ projected[t] \in Seq(PlansOrNone)
  /\ \A i \in Plans : made[i].doc \in Seq(PlansOrNone)
  /\ \A k \in Coordinators : op[k].base \in Seq(PlansOrNone)

WithinBounds ==
  /\ Len(made) + Cardinality(Staged) <= limits.plans
  /\ \E l \in Limits : l.plans = limits.plans /\ l.late = limits.late
  /\ \A k \in Coordinators : op[k].pc \in {"wake", "store"} /\ op[k].kind = "mutate" => k \in Staged

LogInvariant == PlansCarried /\ Numbered /\ WithinBounds
=============================================================================
