--------------------------- MODULE ThreadMutation ---------------------------
(***************************************************************************)
(* The durable thread mutations of the forum coordinator                   *)
(* (workers/forum-coordinator/src/thread-mutations.ts and the part of      *)
(* index.ts that uses it).                                                 *)
(*                                                                         *)
(* A mutation is staged as a plan, committed in one transaction of its     *)
(* coordinator's storage, and then replayed: written to KV, projected to   *)
(* D1 in one batch, and forgotten.  The creation of a thread is committed  *)
(* by the forum's coordinator and handed over to the new thread's.  A      *)
(* coordinator runs one operation at a time.  An action is the stretch     *)
(* between two calls to KV, D1 or another coordinator; a call that fails,  *)
(* and a reset of the object, end the operation, with or without the       *)
(* call's effect, or leaving a call that takes effect later.               *)
(***************************************************************************)
EXTENDS Naturals, Sequences, FiniteSets

CONSTANTS
  Threads,        \* the threads, one coordinator each
  Old,            \* those that exist from before coordinators kept canonical documents
  Forum,          \* the coordinator that creates threads
  Requests,       \* what clients ask for: [key, to, body]
  NoThread, NoRequest,
  PruneLimit,     \* expired receipts removed at a time (25 in the code)
  Limits          \* bounds: what may happen, one of these in each behaviour

Coordinators == Threads \cup {Forum}
Keys == {r.key : r \in Requests}

ASSUME CoordinatorsAssumption ==
  /\ IsFiniteSet(Threads) /\ Old \subseteq Threads /\ Forum \notin Threads /\ NoThread \notin Coordinators
  /\ NoRequest \notin Requests
  /\ \A r \in Requests : r.to \in Coordinators

\* requests: what clients may ask for; threads: the ids that may be drawn for new
\* threads; late: whether a call to KV or D1 that was given up on may take effect
\* later; plans and faults: how many there may be.
Allowances ==
  [requests : SUBSET Requests, threads : SUBSET Threads, late : BOOLEAN,
   plans : Nat, faults : Nat]

ASSUME LimitsAssumption ==
  /\ PruneLimit \in Nat \ {0}
  /\ Limits \subseteq Allowances

VARIABLES
  pending,    \* pending[k]: the committed plan that is not replayed yet, or 0
  canonical,  \* canonical[t]: the document, as the plans it consists of
  receipts,   \* receipts[k][key]: the plan whose receipt is kept under the key, or 0
  expiry,     \* expiry[k]: the plans in the index of expiries
  alarm,      \* alarm[k]: none, soon, or at the first expiry
  wakes,      \* thread_mutation_wakes
  guards,     \* thread_projection_receipts
  projected,  \* projected[t]: the plans whose batch D1 has executed
  kv,         \* kv[t]: the document in KV
  late,       \* calls that were given up on and may still take effect
  handoffs,   \* handed over plans that are on their way
  nudges,     \* coordinators the sweep has asked to recover
  op,         \* op[k]: the operation that holds the queue, and the call it waits for
  made,       \* the plans ever committed, in order
  expired,    \* those whose 30 days are over
  limits      \* what may still happen

durable == <<pending, canonical, receipts, expiry, alarm>>
outside == <<wakes, guards, projected, kv, late>>
vars == <<durable, outside, handoffs, nudges, op, made, expired, limits>>

Plans == 1..Len(made)

IdleOp == [kind |-> "none", pc |-> "idle", committed |-> FALSE, req |-> NoRequest,
           plan |-> 0, thread |-> NoThread, base |-> <<>>, call |-> 0, answer |-> "none"]

AsksFor(kind) == [IdleOp EXCEPT !.kind = kind]

(***************************************************************************)
(* Helpers.                                                                *)
(***************************************************************************)
\* A document from before the canonical copy is read from KV.
readFreshThread(t) == IF canonical[t] # <<>> THEN canonical[t] ELSE kv[t]

\* The receipt under a key, unless it is over.
receiptFor(k, key) ==
  IF receipts[k][key] \in expired THEN 0 ELSE receipts[k][key]

\* What tells a call from the others that are on their way or being served.
FreshCall ==
  LET inUse == {m.call : m \in handoffs} \cup {op[t].call : t \in Threads}
  IN CHOOSE n \in 1..(Cardinality(inUse) + 1) : n \notin inUse

\* Mutant: a creation is replayed where it was committed.
ReplayingInPlace(k, o) ==
  [o EXCEPT !.pc = IF pending'[k] = 0 THEN "clear" ELSE "kv"]

\* Where replayThreadMutation begins, and the call the operation o waits for.
Replaying(k, o) ==
  [o EXCEPT !.pc = IF pending'[k] = 0 THEN "clear" ELSE IF k = Forum THEN "handoff" ELSE "kv",
            !.call = IF pending'[k] # 0 /\ k = Forum THEN FreshCall ELSE o.call]

\* Replay starts: a pending creation is handed over at once.
StartReplay(k, o) ==
  /\ op' = [op EXCEPT ![k] = Replaying(k, o)]
  /\ handoffs' = IF op'[k].pc = "handoff"
                 THEN handoffs \cup {[plan |-> pending'[k], call |-> op'[k].call]}
                 ELSE handoffs

\* The operation ends; whoever handed a plan over and still waits gets its answer.
Ends(k, answer) ==
  LET waits == /\ op[k].kind = "commit" /\ op[Forum].pc = "handoff"
               /\ op[Forum].call = op[k].call
  IN op' = [c \in Coordinators |->
              IF c = k THEN IdleOp
              ELSE IF c = Forum /\ waits THEN [op[c] EXCEPT !.answer = answer]
              ELSE op[c]]

\* Mutant: an expiry entry removes whatever receipt its key has.
prunedAnyGeneration(k, due) ==
  [key \in Keys |-> IF \E i \in due : made[i].req.key = key THEN 0 ELSE receipts[k][key]]

\* An expiry entry removes the receipt of its own plan only.
pruned(k, due) ==
  [key \in Keys |-> IF receipts[k][key] \in due THEN 0 ELSE receipts[k][key]]

\* The oldest expired entries, at most PruneLimit.
Due(k) ==
  LET over == expiry[k] \cap expired
  IN {i \in over : Cardinality({j \in over : j < i}) < PruneLimit}

pruneThreadMutationReceipts(k) ==
  /\ receipts' = [receipts EXCEPT ![k] = pruned(k, Due(k))]
  /\ expiry' = [expiry EXCEPT ![k] = @ \ Due(k)]

\* Mutant: only a pending plan keeps the alarm.
scheduleForPlans(k) ==
  alarm' = [alarm EXCEPT ![k] = IF pending[k] # 0 THEN "soon" ELSE "none"]

scheduleAlarm(k) ==
  alarm' = [alarm EXCEPT ![k] = IF pending[k] # 0 THEN "soon"
                                ELSE IF expiry'[k] # {} THEN "expiry" ELSE "none"]

(***************************************************************************)
(* An operation begins when the coordinator's queue is free.               *)
(***************************************************************************)
Free(k) == op[k].pc = "idle"

\* Mutant: a request whose receipt is found is not held up by a pending plan.
RequestAnsweredAtOnce(r) ==
  LET k == r.to
      found == receiptFor(k, r.key)
      o == [AsksFor("mutate") EXCEPT !.req = r, !.plan = found]
  IN /\ r \in limits.requests /\ Free(k)
     /\ found # 0 => made[found].req = r
     /\ UNCHANGED <<durable, outside, nudges, made, expired, limits>>
     /\ IF found = 0 THEN StartReplay(k, o)
        ELSE op' = [op EXCEPT ![k] = [o EXCEPT !.pc = "clear"]] /\ UNCHANGED handoffs

\* executeDurableThreadMutation: a key that was used for another request is refused.
Request(r) ==
  LET k == r.to
      found == receiptFor(k, r.key)
  IN /\ r \in limits.requests /\ Free(k)
     /\ found # 0 => made[found].req = r
     /\ UNCHANGED <<durable, outside, nudges, made, expired, limits>>
     /\ StartReplay(k, [AsksFor("mutate") EXCEPT !.req = r, !.plan = found])

\* /maintenance/thread-mutations/commit
TakeHandoff(m) ==
  LET t == made[m.plan].thread
  IN /\ m \in handoffs /\ Free(t)
     /\ UNCHANGED <<durable, outside, nudges, made, expired, limits>>
     /\ handoffs' = handoffs \ {m}
     /\ op' = [op EXCEPT ![t] =
                 Replaying(t, [AsksFor("commit") EXCEPT !.plan = m.plan, !.call = m.call])]

\* recoverThreadMutations reads the wakes and asks each coordinator to recover.
Sweep(k) ==
  /\ k \in wakes
  /\ nudges' = nudges \cup {k}
  /\ UNCHANGED <<durable, outside, handoffs, op, made, expired, limits>>

\* Mutant: a recovery that finds nothing pending does not wait for the queue.
RecoverBesideQueue(k) ==
  /\ k \in nudges
  /\ nudges' = nudges \ {k}
  /\ UNCHANGED <<durable, made, expired, limits>>
  /\ IF Free(k) THEN StartReplay(k, AsksFor("recover")) /\ UNCHANGED outside
     ELSE /\ pending[k] = 0
          /\ guards' = {g \in guards : g.by # k}
          /\ wakes' = wakes \ {k}
          /\ UNCHANGED <<projected, kv, late, handoffs, op>>

Recover(k) ==
  /\ k \in nudges /\ Free(k)
  /\ nudges' = nudges \ {k}
  /\ UNCHANGED <<durable, outside, made, expired, limits>>
  /\ StartReplay(k, AsksFor("recover"))

AlarmFires(k) ==
  /\ Free(k)
  /\ alarm[k] # "none"
  /\ UNCHANGED <<durable, outside, nudges, made, expired, limits>>
  /\ StartReplay(k, AsksFor("alarm"))

(***************************************************************************)
(* replayThreadMutation.                                                   *)
(***************************************************************************)
At(k, pc) == op[k].pc = pc

putDocument(i, k) == kv' = [kv EXCEPT ![k] = made[i].doc]

KvWritten(k) ==
  /\ At(k, "kv")
  /\ putDocument(pending[k], k)
  /\ op' = [op EXCEPT ![k].pc = "batch"]
  /\ UNCHANGED <<durable, wakes, guards, projected, late, handoffs, nudges, made, expired, limits>>

\* Mutant: the batch carries no receipt.
projectUnguarded(i, k) ==
  /\ projected' = [projected EXCEPT ![k] = Append(@, i)]
  /\ UNCHANGED guards

\* The batch inserts the plan's receipt first; a duplicate aborts all of it.
project(i, k) ==
  IF \E g \in guards : g.plan = i
  THEN UNCHANGED <<projected, guards>>
  ELSE /\ projected' = [projected EXCEPT ![k] = Append(@, i)]
       /\ guards' = guards \cup {[plan |-> i, by |-> k]}

\* The batch was executed, or had been: the plan is done with.
BatchDone(k) ==
  /\ At(k, "batch")
  /\ project(pending[k], k)
  /\ pending' = [pending EXCEPT ![k] = 0]
  /\ op' = [op EXCEPT ![k].pc = "clear"]
  /\ UNCHANGED <<canonical, receipts, expiry, alarm, wakes, kv, late, handoffs, nudges,
                 made, expired, limits>>

HandoffDone ==
  /\ At(Forum, "handoff") /\ op[Forum].answer = "ok"
  /\ pending' = [pending EXCEPT ![Forum] = 0]
  /\ op' = [op EXCEPT ![Forum].pc = "clear", ![Forum].answer = "none"]
  /\ UNCHANGED <<canonical, receipts, expiry, alarm, outside, handoffs, nudges,
                 made, expired, limits>>

\* The new thread's coordinator answered with an error.
HandoffRefused ==
  /\ At(Forum, "handoff") /\ op[Forum].answer = "failed"
  /\ op' = [op EXCEPT ![Forum] = IdleOp]
  /\ UNCHANGED <<durable, outside, handoffs, nudges, made, expired, limits>>

clearDiscovery(k) ==
  /\ guards' = {g \in guards : g.by # k}
  /\ wakes' = wakes \ {k}

\* What every step does that follows the deletion of receipts and wake.
Clears(k) ==
  /\ At(k, "clear")
  /\ clearDiscovery(k)
  /\ UNCHANGED <<projected, kv, late, handoffs, nudges, made, expired, limits>>

(***************************************************************************)
(* What follows the replay of an earlier plan.                             *)
(***************************************************************************)
Earlier(k, kind) == Clears(k) /\ op[k].kind = kind /\ ~op[k].committed

\* The request was carried out before: its receipt is the answer.
RepeatsReply(k) ==
  /\ Earlier(k, "mutate") /\ op[k].plan # 0
  /\ pruneThreadMutationReceipts(k)
  /\ Ends(k, "ok")
  /\ UNCHANGED <<pending, canonical, alarm>>

\* The staged handler refused the request.
Rejects(k) ==
  /\ Earlier(k, "mutate") /\ op[k].plan = 0
  /\ pruneThreadMutationReceipts(k)
  /\ Ends(k, "ok")
  /\ UNCHANGED <<pending, canonical, alarm>>

\* A thread id is fresh: no plan and no document has it.
NewThreads == {t \in limits.threads : kv[t] = <<>> /\ \A i \in Plans : made[i].thread # t}

Existing == {t \in Threads : readFreshThread(t) # <<>>}

\* The coordinators that hold a plan that is not committed.
Staged == {c \in Coordinators : op[c].thread # NoThread /\ ~op[c].committed}

\* The staged handler built a plan from the current document.
Stages(k) ==
  /\ Earlier(k, "mutate") /\ op[k].plan = 0
  /\ Len(made) + Cardinality(Staged) < limits.plans
  /\ pruneThreadMutationReceipts(k)
  /\ \E t \in IF k = Forum THEN NewThreads ELSE {k} \cap Existing :
       op' = [op EXCEPT ![k].pc = "wake", ![k].thread = t,
                        ![k].base = IF k = Forum THEN <<>> ELSE readFreshThread(k)]
  /\ UNCHANGED <<pending, canonical, alarm>>

\* The receipt kept under a plan's key: none, of its request, or of another one.
Keeps(t, i) ==
  LET found == receiptFor(t, made[i].req.key)
  IN IF found = 0 THEN "none" ELSE IF made[found].req = made[i].req THEN "same" ELSE "other"

\* The key of the plan was used here for another request.
CommitRefused(k) ==
  /\ Earlier(k, "commit") /\ Keeps(k, op[k].plan) = "other"
  /\ Ends(k, "failed")
  /\ UNCHANGED durable

\* The plan was handed over before, and its receipt is kept.
RepeatsCommit(k) ==
  /\ Earlier(k, "commit") /\ Keeps(k, op[k].plan) = "same"
  /\ UNCHANGED <<pending, canonical, receipts, expiry>>
  /\ scheduleAlarm(k)
  /\ Ends(k, "ok")

\* Mutant: only the receipt tells that a plan was handed over before.
ownsNothing(t) == FALSE

ownsThread(t) == canonical[t] # <<>>

\* The receipt is over, but the thread is there.
FindsThread(k) ==
  /\ Earlier(k, "commit") /\ Keeps(k, op[k].plan) = "none" /\ ownsThread(k)
  /\ Ends(k, "ok")
  /\ UNCHANGED durable

AcceptsHandoff(k) ==
  /\ Earlier(k, "commit") /\ Keeps(k, op[k].plan) = "none" /\ ~ownsThread(k)
  /\ op' = [op EXCEPT ![k].pc = "wake"]
  /\ UNCHANGED durable

Recovered(k) ==
  /\ Earlier(k, "recover")
  /\ UNCHANGED <<pending, canonical, receipts, expiry>>
  /\ scheduleAlarm(k)
  /\ Ends(k, "ok")

AlarmDone(k) ==
  /\ Earlier(k, "alarm")
  /\ pruneThreadMutationReceipts(k)
  /\ scheduleAlarm(k)
  /\ Ends(k, "ok")
  /\ UNCHANGED <<pending, canonical>>

\* The operation's own plan is replayed.
Completes(k) ==
  /\ Clears(k) /\ op[k].committed
  /\ UNCHANGED <<pending, canonical, receipts, expiry>>
  /\ scheduleAlarm(k)
  /\ Ends(k, "ok")

(***************************************************************************)
(* commitThreadMutation: the wake is stored, then the plan.                *)
(***************************************************************************)
\* The plan an operation is about to commit.
NewPlan(k) ==
  [req |-> op[k].req, thread |-> op[k].thread, doc |-> Append(op[k].base, Len(made) + 1)]

storeWake(k) == wakes' = wakes \cup {k}

WakeStored(k) ==
  /\ At(k, "wake")
  /\ storeWake(k)
  /\ op' = [op EXCEPT ![k].pc = "store"]
  /\ UNCHANGED <<durable, guards, projected, kv, late, handoffs, nudges, made, expired, limits>>

\* Mutant: the receipt is not part of the transaction.
storePlanOnly(i, k, plan) ==
  /\ pending' = [pending EXCEPT ![k] = i]
  /\ canonical' = IF k = Forum THEN canonical ELSE [canonical EXCEPT ![k] = plan.doc]
  /\ alarm' = [alarm EXCEPT ![k] = "soon"]
  /\ UNCHANGED <<receipts, expiry>>

\* Mutant: the alarm is left to what schedules it after the replay.
storePlanUnarmed(i, k, plan) ==
  /\ pending' = [pending EXCEPT ![k] = i]
  /\ canonical' = IF k = Forum THEN canonical ELSE [canonical EXCEPT ![k] = plan.doc]
  /\ receipts' = [receipts EXCEPT ![k][plan.req.key] = i]
  /\ expiry' = [expiry EXCEPT ![k] = @ \cup {i}]
  /\ UNCHANGED alarm

\* The transaction: plan, canonical document, receipt, expiry and alarm.
storePlan(i, k, plan) ==
  /\ pending' = [pending EXCEPT ![k] = i]
  /\ canonical' = IF k = Forum THEN canonical ELSE [canonical EXCEPT ![k] = plan.doc]
  /\ receipts' = [receipts EXCEPT ![k][plan.req.key] = i]
  /\ expiry' = [expiry EXCEPT ![k] = @ \cup {i}]
  /\ alarm' = [alarm EXCEPT ![k] = "soon"]

CommitsOwn(k) ==
  /\ At(k, "store") /\ op[k].kind = "mutate"
  /\ storePlan(Len(made) + 1, k, NewPlan(k))
  /\ made' = Append(made, NewPlan(k))
  /\ StartReplay(k, [op[k] EXCEPT !.committed = TRUE, !.plan = Len(made) + 1])
  /\ UNCHANGED <<outside, nudges, expired, limits>>

CommitsHandoff(k) ==
  /\ At(k, "store") /\ op[k].kind = "commit"
  /\ storePlan(op[k].plan, k, made[op[k].plan])
  /\ op' = [op EXCEPT ![k] = Replaying(k, [op[k] EXCEPT !.committed = TRUE])]
  /\ UNCHANGED <<outside, handoffs, nudges, made, expired, limits>>

(***************************************************************************)
(* Faults: the call an operation waits for fails, or the object is reset.  *)
(***************************************************************************)
Fault == limits.faults > 0 /\ limits' = [limits EXCEPT !.faults = @ - 1]

\* The operation ends here; what it waited for had no effect.
FailsBefore(k) ==
  /\ ~Free(k) /\ Fault
  /\ Ends(k, "failed")
  /\ UNCHANGED <<durable, outside, nudges, made, expired>>
  /\ \/ UNCHANGED handoffs
     \/ At(k, "handoff") /\ handoffs' = {m \in handoffs : m.call # op[k].call}

\* The call to KV or D1 that coordinator k waits for, and what such a call does.
Issued(k) == [call |-> op[k].pc, plan |-> pending[k], by |-> k]

TakesEffect(c) ==
  \/ c.call = "kv" /\ putDocument(c.plan, c.by) /\ UNCHANGED <<wakes, guards, projected>>
  \/ c.call = "batch" /\ project(c.plan, c.by) /\ UNCHANGED <<wakes, kv>>
  \/ c.call = "clear" /\ clearDiscovery(c.by) /\ UNCHANGED <<projected, kv>>
  \/ c.call = "wake" /\ storeWake(c.by) /\ UNCHANGED <<guards, projected, kv>>

\* The call took effect, and nothing after it did.
FailsAfter(k) ==
  /\ ~Free(k) /\ Fault
  /\ Ends(k, "failed")
  /\ UNCHANGED <<durable, late, handoffs, nudges, made, expired>>
  /\ TakesEffect(Issued(k))

\* The call may yet take effect.
FailsPending(k) ==
  /\ limits.late /\ op[k].pc \in {"kv", "batch", "clear", "wake"} /\ Fault
  /\ late' = late \cup {Issued(k)}
  /\ Ends(k, "failed")
  /\ UNCHANGED <<durable, wakes, guards, projected, kv, handoffs, nudges, made, expired>>

LateCall ==
  \E c \in late :
    /\ late' = late \ {c}
    /\ TakesEffect(c)
    /\ UNCHANGED <<durable, handoffs, nudges, op, made, expired, limits>>

\* Thirty days after it was created a plan's receipt is over.
ReceiptExpires ==
  /\ Cardinality(expired) < Len(made)
  /\ expired' = expired \cup {Cardinality(expired) + 1}
  /\ UNCHANGED <<durable, outside, handoffs, nudges, op, made, limits>>

-----------------------------------------------------------------------------
Init ==
  /\ pending = [k \in Coordinators |-> 0]
  /\ canonical = [t \in Threads |-> <<>>]
  /\ receipts = [k \in Coordinators |-> [key \in Keys |-> 0]]
  /\ expiry = [k \in Coordinators |-> {}]
  /\ alarm = [k \in Coordinators |-> "none"]
  /\ wakes = {} /\ guards = {} /\ late = {}
  /\ projected = [t \in Threads |-> IF t \in Old THEN <<0>> ELSE <<>>]
  /\ kv = [t \in Threads |-> IF t \in Old THEN <<0>> ELSE <<>>]
  /\ handoffs = {} /\ nudges = {}
  /\ op = [k \in Coordinators |-> IdleOp]
  /\ made = <<>> /\ expired = {}
  /\ limits \in Limits

Begins ==
  \/ \E r \in Requests : Request(r)
  \/ \E m \in handoffs : TakeHandoff(m)
  \/ \E k \in Coordinators : Sweep(k) \/ Recover(k) \/ AlarmFires(k)

Runs(k) ==
  \/ KvWritten(k) \/ BatchDone(k)
  \/ RepeatsReply(k) \/ Rejects(k) \/ Stages(k)
  \/ CommitRefused(k) \/ RepeatsCommit(k) \/ FindsThread(k) \/ AcceptsHandoff(k)
  \/ Recovered(k) \/ AlarmDone(k) \/ Completes(k)
  \/ WakeStored(k) \/ CommitsOwn(k) \/ CommitsHandoff(k)

Fails(k) == FailsBefore(k) \/ FailsAfter(k) \/ FailsPending(k)

Next ==
  \/ Begins
  \/ \E k \in Coordinators : Runs(k) \/ Fails(k)
  \/ HandoffDone \/ HandoffRefused
  \/ LateCall \/ ReceiptExpires

Spec == Init /\ [][Next]_vars

(***************************************************************************)
(* Properties.                                                             *)
(***************************************************************************)
PlansOrNone == 0..Len(made)

Projected(i) ==
  \E n \in DOMAIN projected[made[i].thread] : projected[made[i].thread][n] = i

Operations(n) ==
  [kind : {"none", "mutate", "commit", "recover", "alarm"},
   pc : {"idle", "handoff", "kv", "batch", "clear", "wake", "store"},
   committed : BOOLEAN, req : Requests \cup {NoRequest}, plan : 0..n,
   thread : Threads \cup {NoThread}, base : Seq(Nat), call : Nat,
   answer : {"none", "ok", "failed"}]

TypeOK ==
  /\ made \in Seq([req : Requests, thread : Threads, doc : Seq(Nat)])
  /\ pending \in [Coordinators -> PlansOrNone]
  /\ canonical \in [Threads -> Seq(Nat)] /\ kv \in [Threads -> Seq(Nat)]
  /\ projected \in [Threads -> Seq(Nat)]
  /\ receipts \in [Coordinators -> [Keys -> PlansOrNone]]
  /\ expiry \in [Coordinators -> SUBSET Plans] /\ expired \subseteq Plans
  /\ alarm \in [Coordinators -> {"none", "soon", "expiry"}]
  /\ wakes \subseteq Coordinators /\ nudges \subseteq Coordinators
  /\ guards \subseteq [plan : Plans, by : Threads]
  /\ late \subseteq [call : {"kv", "batch", "clear", "wake"}, plan : PlansOrNone, by : Coordinators]
  /\ handoffs \subseteq [plan : Plans, call : Nat] /\ IsFiniteSet(handoffs)
  /\ op \in [Coordinators -> Operations(Len(made))] /\ limits \in Allowances

\* Whatever failed and was repeated, KV and the D1 projection are at most one
\* plan behind the canonical document, that one is still pending, and KV is
\* written first; once nothing is pending all three are equal.  (Not so once calls
\* may take effect late: see ProjectedOnce.)
ProjectionFollowsCanonical ==
  ~limits.late => \A t \in Threads : canonical[t] # <<>> =>
    LET doc == canonical[t]
        before == SubSeq(doc, 1, Len(doc) - 1)
    IN IF pending[t] = 0 THEN kv[t] = doc /\ projected[t] = doc
       ELSE \/ kv[t] = doc /\ projected[t] \in {doc, before}
            \/ kv[t] = before /\ projected[t] = before

\* The counters and notifications of a plan's batch are never written twice.
ProjectedOnce ==
  \A t \in Threads : \A i, j \in DOMAIN projected[t] :
    projected[t][i] = projected[t][j] => i = j

\* Whoever is told that a mutation succeeded, at first or when it repeats the
\* request, finds it projected, with the thread's own coordinator if it has moved.
AnswersAreProjected ==
  \A k \in Coordinators :
    At(k, "clear") /\ op[k].kind = "mutate" /\ op[k].plan # 0 => Projected(op[k].plan)

\* A repeated request is carried out again only when its receipt is over, be it
\* lost after the commit, replayed by the sweep or answered by an error.
CarriedOutOnce ==
  \A i, j \in Plans : i < j /\ made[i].req = made[j].req => i \in expired

\* A pending plan is found by its alarm; and by the sweep if the alarm is lost,
\* unless a deletion of the wake that was given up on takes effect late.
PendingIsDiscoverable ==
  \A k \in Coordinators : pending[k] # 0 =>
    alarm[k] = "soon" /\ (~limits.late => k \in wakes)

\* A receipt that is not over is neither pruned nor replaced.
ReceiptsAreKept ==
  [][\A k \in Coordinators, key \in Keys :
       receipts[k][key] \in Plans \ expired => receipts'[k][key] = receipts[k][key]]_vars

(***************************************************************************)
(* Liveness: coordinators run, alarms and sweeps are delivered.            *)
(***************************************************************************)
Deliveries ==
  /\ \A k \in Coordinators : WF_vars(Runs(k)) /\ SF_vars(AlarmFires(k))
  /\ WF_vars(HandoffDone) /\ WF_vars(HandoffRefused)
  /\ \A t \in Threads : SF_vars(\E m \in handoffs : made[m.plan].thread = t /\ TakeHandoff(m))

FairSpec == Spec /\ Deliveries

PlanNumbers == UNION {1..l.plans : l \in Limits}

\* Every committed mutation reaches the projection.
EveryPlanIsProjected ==
  \A i \in PlanNumbers :
    i \in Plans ~> (i \in Plans /\ Projected(i))

\* Receipts that are over are removed in the end, without further requests.
ReceiptsArePruned ==
  \A k \in Coordinators, i \in PlanNumbers :
    (i \in expired /\ i \in expiry[k]) ~> i \notin expiry[k]
=============================================================================
