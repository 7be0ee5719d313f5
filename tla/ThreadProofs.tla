---------------------------- MODULE ThreadProofs ----------------------------
(***************************************************************************)
(* Proofs about ThreadMutation, for every set of threads and requests and  *)
(* every bound.                                                            *)
(***************************************************************************)
EXTENDS ThreadInvariant, FiniteSetTheorems, TLAPS

LEMMA AppendFront ==
  ASSUME NEW s \in Seq(Nat), NEW x \in Nat
  PROVE  Append(s, x) \in Seq(Nat) /\ Append(s, x) # <<>> /\ Before(Append(s, x)) = s
<1>1. Append(s, x) \in Seq(Nat) /\ Len(Append(s, x)) = Len(s) + 1
  OBVIOUS
<1>2. SubSeq(Append(s, x), 1, Len(s)) = s
  OBVIOUS
<1>3. Len(Append(s, x)) - 1 = Len(s)
  BY <1>1
<1>4. Append(s, x) # <<>>
  BY <1>1
<1> QED
  BY <1>1, <1>2, <1>3, <1>4, Zenon DEF Before

LEMMA SingleFront ==
  ASSUME NEW x \in Nat
  PROVE  /\ <<x>> \in Seq(Nat) /\ <<x>> # <<>> /\ Before(<<x>>) = <<>>
         /\ <<x>> = Append(Before(<<x>>), x)
  BY DEF Before

LEMMA PlanType ==
  ASSUME TypeOK, NEW i \in Plans
  PROVE  /\ i \in Nat \ {0}
         /\ made[i].req \in Requests /\ made[i].req.key \in Keys
         /\ made[i].thread \in Threads /\ made[i].doc \in Seq(Nat)
<1> DEFINE Records == [req : Requests, thread : Threads, doc : Seq(Nat)]
<1>1. made \in Seq(Records)
  BY DEF TypeOK
<1>2. made[i] \in Records
  <2> HIDE DEF Records
  <2> QED
    BY <1>1 DEF Plans
<1>3. i \in Nat \ {0}
  BY <1>1 DEF Plans
<1> QED
  BY <1>2, <1>3 DEF Keys

\* A call number that is free exists, whatever is on its way.
LEMMA FreshCallType ==
  ASSUME TypeOK
  PROVE  /\ FreshCall \in Nat
         /\ \A m \in handoffs : m.call # FreshCall
         /\ \A t \in Threads : op[t].call # FreshCall
<1> DEFINE sent == {m.call : m \in handoffs}
           served == {op[t].call : t \in Threads}
           inUse == sent \cup served
<1>1. IsFiniteSet(sent)
  <2> DEFINE f == [m \in handoffs |-> m.call]
  <2>1. f \in Surjection(handoffs, sent)
    BY DEF Surjection
  <2> HIDE DEF f
  <2> QED
    BY <2>1, FS_Surjection DEF TypeOK
<1>2. IsFiniteSet(served)
  <2> DEFINE f == [t \in Threads |-> op[t].call]
  <2>1. f \in Surjection(Threads, served)
    BY DEF Surjection
  <2> HIDE DEF f
  <2> QED
    BY <2>1, FS_Surjection, CoordinatorsAssumption
<1>3. IsFiniteSet(inUse) /\ Cardinality(inUse) \in Nat
  BY <1>1, <1>2, FS_Union, FS_CardinalityType
<1>4. \E n \in 1..(Cardinality(inUse) + 1) : n \notin inUse
  <2> DEFINE n == Cardinality(inUse)
  <2>1. SUFFICES ASSUME 1..(n + 1) \subseteq inUse
                 PROVE  FALSE
    BY DEF inUse
  <2>2. Cardinality(1..(n + 1)) <= n
    BY <1>3, <2>1, FS_Subset
  <2>3. Cardinality(1..(n + 1)) = n + 1
    BY <1>3, FS_Interval
  <2> QED
    BY <1>3, <2>2, <2>3
<1>5. FreshCall \in 1..(Cardinality(inUse) + 1) /\ FreshCall \notin inUse
  BY <1>4 DEF FreshCall
<1> QED
  BY <1>3, <1>5

(***************************************************************************)
(* Types.                                                                  *)
(***************************************************************************)
LEMMA IdleType ==
  ASSUME NEW n \in Nat
  PROVE  IdleOp \in Operations(n)
  BY DEF IdleOp, Operations

LEMMA AsksType ==
  ASSUME NEW n \in Nat, NEW kind \in {"mutate", "commit", "recover", "alarm"}
  PROVE  AsksFor(kind) \in Operations(n)
  BY IdleType DEF AsksFor, Operations

LEMMA OperationsGrow ==
  ASSUME NEW m \in Nat, NEW n \in Nat, m <= n
  PROVE  Operations(m) \subseteq Operations(n)
  BY DEF Operations

\* An operation that ends leaves the queue free and changes no other operation
\* but for the answer to the one that waits.
LEMMA EndsKeeps ==
  ASSUME TypeOK, NEW k \in Coordinators, NEW answer \in {"ok", "failed"}, Ends(k, answer)
  PROVE  /\ op' \in [Coordinators -> Operations(Len(made))]
         /\ op'[k] = IdleOp
         /\ \A c \in Coordinators \ {k} :
              op'[c] = op[c] \/ op'[c] = [op[c] EXCEPT !.answer = answer]
<1>1. \A c \in Coordinators : op[c] \in Operations(Len(made))
  BY DEF TypeOK
<1>2. IdleOp \in Operations(Len(made))
  BY IdleType DEF TypeOK
<1>3. \A c \in Coordinators : [op[c] EXCEPT !.answer = answer] \in Operations(Len(made))
  BY <1>1 DEF Operations
<1> QED
  BY <1>1, <1>2, <1>3 DEF Ends

LEMMA ReplayingType ==
  ASSUME TypeOK, NEW k \in Coordinators, NEW n \in Nat, NEW o \in Operations(n)
  PROVE  Replaying(k, o) \in Operations(n)
  BY FreshCallType DEF Replaying, Operations

\* A replay that starts changes no other operation; what it hands over is what
\* is pending.
LEMMA StartReplayKeeps ==
  ASSUME TypeOK, NEW k \in Coordinators, NEW n \in Nat, Len(made) <= n,
         NEW o \in Operations(n), pending' \in [Coordinators -> 0..n], StartReplay(k, o)
  PROVE  /\ op' \in [Coordinators -> Operations(n)]
         /\ op'[k] = Replaying(k, o)
         /\ \A c \in Coordinators \ {k} : op'[c] = op[c]
         /\ IsFiniteSet(handoffs')
         /\ \A m \in handoffs' :
              \/ m \in handoffs
              \/ /\ k = Forum /\ pending'[k] \in 1..n /\ m.plan = pending'[k]
                 /\ m \in [plan : 1..n, call : Nat]
<1>1. Replaying(k, o) \in Operations(n)
  BY ReplayingType
<1>2. Operations(Len(made)) \subseteq Operations(n)
  BY OperationsGrow DEF TypeOK
<1>3. op' \in [Coordinators -> Operations(n)]
  BY <1>1, <1>2 DEF StartReplay, TypeOK
<1>4. /\ op'[k] = Replaying(k, o)
      /\ \A c \in Coordinators \ {k} : op'[c] = op[c]
  BY DEF StartReplay, TypeOK
<1>5. IsFiniteSet(handoffs')
  <2>1. IsFiniteSet(handoffs)
    BY DEF TypeOK
  <2>2. \A m : IsFiniteSet(handoffs \cup {m})
    BY <2>1, FS_AddElement
  <2> QED
    BY <2>1, <2>2 DEF StartReplay
<1>6. ASSUME NEW m \in handoffs', m \notin handoffs
      PROVE  k = Forum /\ pending'[k] \in 1..n /\ m.plan = pending'[k]
             /\ m \in [plan : 1..n, call : Nat]
  <2>1. op'[k].pc = "handoff" /\ m = [plan |-> pending'[k], call |-> op'[k].call]
    BY <1>6 DEF StartReplay
  <2>2. o.pc # "handoff" \/ o.pc = "handoff"
    OBVIOUS
  <2>3. Replaying(k, o).pc = "handoff"
    BY <1>4, <2>1
  <2>4. k = Forum /\ pending'[k] # 0
    BY <2>3 DEF Replaying, Operations
  <2>5. op'[k].call \in Nat
    BY <1>3 DEF Operations
  <2> QED
    BY <2>1, <2>4, <2>5
<1> QED
  BY <1>3, <1>4, <1>5, <1>6

LEMMA PrunedType ==
  ASSUME TypeOK, NEW k \in Coordinators, pruneThreadMutationReceipts(k)
  PROVE  /\ receipts' \in [Coordinators -> [Keys -> 0..Len(made)]]
         /\ expiry' \in [Coordinators -> SUBSET Plans]
  BY DEF TypeOK, PlansOrNone, pruneThreadMutationReceipts, pruned, Due

LEMMA ScheduledType ==
  ASSUME TypeOK, NEW k \in Coordinators, scheduleAlarm(k)
  PROVE  alarm' \in [Coordinators -> {"none", "soon", "expiry"}]
  BY DEF TypeOK, scheduleAlarm

LEMMA ProjectType ==
  ASSUME TypeOK, NEW i \in Plans, NEW t \in Threads, project(i, t)
  PROVE  projected' \in [Threads -> Seq(Nat)] /\ guards' \subseteq [plan : Plans, by : Threads]
<1>1. i \in Nat
  BY PlanType
<1>2. projected[t] \in Seq(Nat)
  BY DEF TypeOK
<1>3. Append(projected[t], i) \in Seq(Nat)
  BY <1>1, <1>2
<1>4. projected' \in [Threads -> Seq(Nat)]
  BY <1>3 DEF TypeOK, project
<1>5. [plan |-> i, by |-> t] \in [plan : Plans, by : Threads]
  OBVIOUS
<1>6. guards' \subseteq [plan : Plans, by : Threads]
  BY <1>5 DEF TypeOK, project
<1> QED
  BY <1>4, <1>6

LEMMA BeginsType ==
  ASSUME TypeOK, Begins
  PROVE  TypeOK'
<1> USE DEF Plans, PlansOrNone
<1>0. Len(made) \in Nat
  BY DEF TypeOK
<1>1. ASSUME NEW k \in Coordinators, NEW o \in Operations(Len(made)), StartReplay(k, o),
             UNCHANGED <<durable, outside, made, expired, limits>>, nudges' \subseteq Coordinators
      PROVE  TypeOK'
  <2>1. pending' \in [Coordinators -> 0..Len(made)]
    BY <1>1 DEF TypeOK, durable
  <2>2. /\ op' \in [Coordinators -> Operations(Len(made))]
        /\ IsFiniteSet(handoffs')
        /\ \A m \in handoffs' : m \in handoffs \/ m \in [plan : 1..Len(made), call : Nat]
    BY <1>0, <1>1, <2>1, StartReplayKeeps
  <2>3. handoffs' \subseteq [plan : 1..Len(made), call : Nat]
    BY <2>2 DEF TypeOK
  <2> QED
    BY <1>1, <2>2, <2>3 DEF TypeOK, durable, outside
<1>2. ASSUME NEW r \in Requests, Request(r)
      PROVE  TypeOK'
  <2> DEFINE o == [AsksFor("mutate") EXCEPT !.req = r, !.plan = receiptFor(r.to, r.key)]
  <2>1. r.to \in Coordinators /\ r.key \in Keys
    BY CoordinatorsAssumption DEF Keys
  <2>2. receiptFor(r.to, r.key) \in 0..Len(made)
    BY <1>0, <2>1 DEF TypeOK, receiptFor
  <2>3. o \in Operations(Len(made))
    BY <1>0, <2>2, AsksType DEF Operations
  <2>4. StartReplay(r.to, o) /\ UNCHANGED <<durable, outside, nudges, made, expired, limits>>
    BY <1>2 DEF Request
  <2> HIDE DEF o
  <2> QED
    BY <1>1, <2>1, <2>3, <2>4 DEF TypeOK
<1>3. ASSUME NEW m \in handoffs, TakeHandoff(m)
      PROVE  TypeOK'
  <2> DEFINE t == made[m.plan].thread
             o == [AsksFor("commit") EXCEPT !.plan = m.plan, !.call = m.call]
  <2>1. m.plan \in Plans /\ m.call \in Nat
    BY DEF TypeOK
  <2>2. t \in Threads
    BY <2>1, PlanType
  <2>3. o \in Operations(Len(made))
    <3>1. m.plan \in 0..Len(made)
      BY <1>0, <2>1
    <3>2. AsksFor("commit") \in Operations(Len(made))
      BY <1>0, AsksType
    <3> QED
      BY <2>1, <3>1, <3>2 DEF Operations
  <2>4. Replaying(t, o) \in Operations(Len(made))
    BY <1>0, <2>2, <2>3, ReplayingType DEF Coordinators
  <2>5. op' = [op EXCEPT ![t] = Replaying(t, o)] /\ handoffs' = handoffs \ {m}
        /\ UNCHANGED <<durable, outside, nudges, made, expired, limits>>
    BY <1>3 DEF TakeHandoff
  <2>6. IsFiniteSet(handoffs')
    BY <2>5, FS_Subset DEF TypeOK
  <2> HIDE DEF o, t
  <2> QED
    BY <2>4, <2>5, <2>6 DEF TypeOK, durable, outside
<1>4. ASSUME NEW k \in Coordinators, Sweep(k)
      PROVE  TypeOK'
  BY <1>4 DEF Sweep, TypeOK, durable, outside
<1>5. ASSUME NEW k \in Coordinators, Recover(k)
      PROVE  TypeOK'
  <2>1. nudges' \subseteq Coordinators
    BY <1>5 DEF Recover, TypeOK
  <2> QED
    BY <1>0, <1>1, <1>5, <2>1, AsksType DEF Recover
<1>6. ASSUME NEW k \in Coordinators, AlarmFires(k)
      PROVE  TypeOK'
  <2>1. nudges' \subseteq Coordinators
    BY <1>6 DEF AlarmFires, TypeOK
  <2> QED
    BY <1>0, <1>1, <1>6, <2>1, AsksType DEF AlarmFires
<1> QED
  BY <1>2, <1>3, <1>4, <1>5, <1>6 DEF Begins

\* An operation goes on to its next await.
LEMMA PcType ==
  ASSUME TypeOK, NEW k \in Coordinators,
         NEW pc \in {"idle", "handoff", "kv", "batch", "clear", "wake", "store"},
         op' = [op EXCEPT ![k].pc = pc]
  PROVE  op' \in [Coordinators -> Operations(Len(made))]
<1>1. op[k] \in Operations(Len(made))
  BY DEF TypeOK
<1>2. [op[k] EXCEPT !.pc = pc] \in Operations(Len(made))
  BY <1>1 DEF Operations
<1>3. op' = [op EXCEPT ![k] = [op[k] EXCEPT !.pc = pc]]
  OBVIOUS
<1> QED
  BY <1>2, <1>3 DEF TypeOK

LEMMA FreshDocumentType ==
  ASSUME TypeOK, NEW t \in Threads
  PROVE  readFreshThread(t) \in Seq(Nat)
  BY DEF TypeOK, readFreshThread

\* Everything that follows the deletion of receipts and wake and ends the operation.
LEMMA ClearsAndEndsType ==
  ASSUME TypeOK, NEW k \in Coordinators, NEW answer \in {"ok", "failed"},
         Clears(k), Ends(k, answer), UNCHANGED <<pending, canonical>>,
         receipts' \in [Coordinators -> [Keys -> 0..Len(made)]],
         expiry' \in [Coordinators -> SUBSET Plans],
         alarm' \in [Coordinators -> {"none", "soon", "expiry"}]
  PROVE  TypeOK'
<1>1. op' \in [Coordinators -> Operations(Len(made))]
  BY EndsKeeps
<1> QED
  BY <1>1 DEF TypeOK, Clears, clearDiscovery, Plans, PlansOrNone

\* The replies, the ends of replays and what starts after them.
LEMMA EarlierType ==
  ASSUME TypeOK, NEW k \in Coordinators,
         \/ RepeatsReply(k) \/ Rejects(k) \/ CommitRefused(k) \/ RepeatsCommit(k)
         \/ FindsThread(k) \/ Recovered(k) \/ AlarmDone(k) \/ Completes(k)
  PROVE  TypeOK'
<1> USE DEF Earlier
<1>1. /\ receipts \in [Coordinators -> [Keys -> 0..Len(made)]]
      /\ expiry \in [Coordinators -> SUBSET Plans]
      /\ alarm \in [Coordinators -> {"none", "soon", "expiry"}]
  BY DEF TypeOK, PlansOrNone
<1>2. CASE RepeatsReply(k)
  BY <1>1, <1>2, PrunedType, ClearsAndEndsType DEF RepeatsReply
<1>3. CASE Rejects(k)
  BY <1>1, <1>3, PrunedType, ClearsAndEndsType DEF Rejects
<1>4. CASE CommitRefused(k)
  BY <1>1, <1>4, ClearsAndEndsType DEF CommitRefused, durable
<1>5. CASE RepeatsCommit(k)
  BY <1>1, <1>5, ScheduledType, ClearsAndEndsType DEF RepeatsCommit
<1>6. CASE FindsThread(k)
  BY <1>1, <1>6, ClearsAndEndsType DEF FindsThread, durable
<1>7. CASE Recovered(k)
  BY <1>1, <1>7, ScheduledType, ClearsAndEndsType DEF Recovered
<1>8. CASE AlarmDone(k)
  BY <1>1, <1>8, PrunedType, ScheduledType, ClearsAndEndsType DEF AlarmDone
<1>9. CASE Completes(k)
  BY <1>1, <1>9, ScheduledType, ClearsAndEndsType DEF Completes
<1> QED
  BY <1>2, <1>3, <1>4, <1>5, <1>6, <1>7, <1>8, <1>9

LEMMA KvWrittenType ==
  ASSUME TypeOK, OperationShapes, NEW k \in Coordinators, KvWritten(k)
  PROVE  TypeOK'
<1>1. k \in Threads /\ pending[k] \in Plans
  BY DEF KvWritten, At, OperationShapes, OperationShape, TypeOK, PlansOrNone, Plans
<1>2. made[pending[k]].doc \in Seq(Nat)
  BY <1>1, PlanType
<1>3. op' \in [Coordinators -> Operations(Len(made))]
  BY PcType DEF KvWritten
<1>4. kv' \in [Threads -> Seq(Nat)]
  BY <1>1, <1>2 DEF KvWritten, putDocument, TypeOK
<1> QED
  BY <1>3, <1>4 DEF KvWritten, TypeOK, durable, Plans, PlansOrNone

LEMMA BatchDoneType ==
  ASSUME TypeOK, OperationShapes, NEW k \in Coordinators, BatchDone(k)
  PROVE  TypeOK'
<1>1. k \in Threads /\ pending[k] \in Plans
  BY DEF BatchDone, At, OperationShapes, OperationShape, TypeOK, PlansOrNone, Plans
<1>2. projected' \in [Threads -> Seq(Nat)] /\ guards' \subseteq [plan : Plans, by : Threads]
  BY <1>1, ProjectType DEF BatchDone
<1>3. op' \in [Coordinators -> Operations(Len(made))]
  BY PcType DEF BatchDone
<1>4. pending' \in [Coordinators -> PlansOrNone]
  BY DEF BatchDone, TypeOK, PlansOrNone
<1> QED
  BY <1>2, <1>3, <1>4 DEF BatchDone, TypeOK, Plans, PlansOrNone

LEMMA StagesType ==
  ASSUME TypeOK, NEW k \in Coordinators, Stages(k)
  PROVE  TypeOK'
<1>1. PICK t \in IF k = Forum THEN NewThreads ELSE {k} \cap Existing :
        op' = [op EXCEPT ![k].pc = "wake", ![k].thread = t,
                         ![k].base = IF k = Forum THEN <<>> ELSE readFreshThread(k)]
  BY DEF Stages
<1>2. t \in Threads /\ (k # Forum => k \in Threads)
  BY <1>1 DEF NewThreads, Existing, TypeOK, Allowances
<1>3. <<>> \in Seq(Nat) /\ (k # Forum => readFreshThread(k) \in Seq(Nat))
  BY <1>2, FreshDocumentType
<1>4. op' \in [Coordinators -> Operations(Len(made))]
  <2> DEFINE base == IF k = Forum THEN <<>> ELSE readFreshThread(k)
             o == [op[k] EXCEPT !.pc = "wake", !.thread = t, !.base = base]
  <2>1. op[k] \in Operations(Len(made))
    BY DEF TypeOK
  <2>2. o \in Operations(Len(made))
    BY <1>2, <1>3, <2>1 DEF Operations
  <2>3. op' = [op EXCEPT ![k] = o]
    BY <1>1
  <2> HIDE DEF o
  <2> QED
    BY <2>2, <2>3 DEF TypeOK
<1>5. /\ receipts' \in [Coordinators -> [Keys -> 0..Len(made)]]
      /\ expiry' \in [Coordinators -> SUBSET Plans]
  BY PrunedType DEF Stages
<1> QED
  BY <1>4, <1>5 DEF Stages, Earlier, Clears, clearDiscovery, TypeOK, Plans, PlansOrNone

LEMMA AcceptsOrWakesType ==
  ASSUME TypeOK, NEW k \in Coordinators, AcceptsHandoff(k) \/ WakeStored(k)
  PROVE  TypeOK'
<1>1. op' \in [Coordinators -> Operations(Len(made))]
  BY PcType DEF AcceptsHandoff, WakeStored
<1>2. CASE AcceptsHandoff(k)
  BY <1>1, <1>2 DEF AcceptsHandoff, Earlier, Clears, clearDiscovery, TypeOK, durable,
                    Plans, PlansOrNone
<1>3. CASE WakeStored(k)
  BY <1>1, <1>3 DEF WakeStored, storeWake, TypeOK, durable, Plans, PlansOrNone
<1> QED
  BY <1>2, <1>3

\* The transaction writes what is declared, for plan i of n.
LEMMA StoreType ==
  ASSUME TypeOK, NEW k \in Coordinators, NEW n \in Nat, Len(made) <= n, NEW i \in 1..n,
         NEW plan \in [req : Requests, thread : Threads, doc : Seq(Nat)], storePlan(i, k, plan)
  PROVE  /\ pending' \in [Coordinators -> 0..n]
         /\ canonical' \in [Threads -> Seq(Nat)]
         /\ receipts' \in [Coordinators -> [Keys -> 0..n]]
         /\ expiry' \in [Coordinators -> SUBSET (1..n)]
         /\ alarm' \in [Coordinators -> {"none", "soon", "expiry"}]
<1>0. Len(made) \in Nat /\ plan.doc \in Seq(Nat)
  BY DEF TypeOK
<1>1. plan.req.key \in Keys
  BY DEF Keys
<1>2. pending' \in [Coordinators -> 0..n]
  BY <1>0 DEF storePlan, TypeOK, PlansOrNone
<1>3. canonical' \in [Threads -> Seq(Nat)]
  BY <1>0 DEF storePlan, TypeOK, Coordinators
<1>4. receipts' \in [Coordinators -> [Keys -> 0..n]]
  BY <1>0, <1>1 DEF storePlan, TypeOK, PlansOrNone
<1>5. expiry' \in [Coordinators -> SUBSET (1..n)]
  BY <1>0 DEF storePlan, TypeOK, Plans
<1>6. alarm' \in [Coordinators -> {"none", "soon", "expiry"}]
  BY DEF storePlan, TypeOK
<1> QED
  BY <1>2, <1>3, <1>4, <1>5, <1>6

LEMMA NewPlanType ==
  ASSUME TypeOK, OperationShapes, NEW k \in Coordinators, At(k, "store"), op[k].kind = "mutate"
  PROVE  NewPlan(k) \in [req : Requests, thread : Threads, doc : Seq(Nat)]
<1>1. op[k] \in Operations(Len(made)) /\ Len(made) \in Nat
  BY DEF TypeOK
<1>2. op[k].req \in Requests /\ op[k].thread \in Threads
  BY DEF At, OperationShapes, OperationShape, StartsFresh
<1>3. op[k].base \in Seq(Nat)
  BY <1>1 DEF Operations
<1>4. Append(op[k].base, Len(made) + 1) \in Seq(Nat)
  BY <1>1, <1>3
<1> QED
  BY <1>2, <1>4 DEF NewPlan

LEMMA CommitsOwnType ==
  ASSUME TypeOK, OperationShapes, NEW k \in Coordinators, CommitsOwn(k)
  PROVE  TypeOK'
<1> DEFINE n == Len(made) + 1
           Records == [req : Requests, thread : Threads, doc : Seq(Nat)]
           o == [op[k] EXCEPT !.committed = TRUE, !.plan = n]
<1>1. made \in Seq(Records) /\ Len(made) \in Nat /\ n \in Nat /\ n \in 1..n /\ n \in 0..n /\ Len(made) <= n
  BY DEF TypeOK
<1>2. NewPlan(k) \in Records
  BY NewPlanType DEF CommitsOwn
<1>3. made' \in Seq(Records) /\ Len(made') = n
  <2>1. made' = Append(made, NewPlan(k))
    BY DEF CommitsOwn
  <2> HIDE DEF Records
  <2> QED
    BY <1>1, <1>2, <2>1
<1>4. /\ pending' \in [Coordinators -> 0..n]
      /\ canonical' \in [Threads -> Seq(Nat)]
      /\ receipts' \in [Coordinators -> [Keys -> 0..n]]
      /\ expiry' \in [Coordinators -> SUBSET (1..n)]
      /\ alarm' \in [Coordinators -> {"none", "soon", "expiry"}]
  <2>1. storePlan(n, k, NewPlan(k))
    BY DEF CommitsOwn
  <2> HIDE DEF n
  <2> QED
    BY <1>1, <1>2, <2>1, StoreType
<1>5. o \in Operations(n)
  <2>1. op[k] \in Operations(n)
    BY <1>1, OperationsGrow DEF TypeOK
  <2> HIDE DEF n
  <2> QED
    BY <1>1, <2>1 DEF Operations
<1>6. /\ op' \in [Coordinators -> Operations(n)]
      /\ IsFiniteSet(handoffs')
      /\ \A m \in handoffs' : m \in handoffs \/ m \in [plan : 1..n, call : Nat]
  <2>1. StartReplay(k, o)
    BY DEF CommitsOwn
  <2> HIDE DEF o, n
  <2> QED
    BY <1>1, <1>4, <1>5, <2>1, StartReplayKeeps
<1>7. handoffs' \subseteq [plan : 1..n, call : Nat]
  BY <1>1, <1>6 DEF TypeOK, Plans
<1>8. /\ guards' \subseteq [plan : 1..n, by : Threads] /\ expired' \subseteq 1..n
      /\ late' \subseteq [call : {"kv", "batch", "clear", "wake"}, plan : 0..n, by : Coordinators]
  BY <1>1 DEF TypeOK, Plans, PlansOrNone, CommitsOwn, outside
<1>9. kv' = kv /\ projected' = projected /\ wakes' = wakes /\ nudges' = nudges /\ limits' = limits
  BY DEF CommitsOwn, outside
<1> HIDE DEF n
<1> QED
  BY <1>3, <1>4, <1>6, <1>7, <1>8, <1>9 DEF TypeOK, Plans, PlansOrNone

LEMMA CommitsHandoffType ==
  ASSUME TypeOK, OperationShapes, NEW k \in Coordinators, CommitsHandoff(k)
  PROVE  TypeOK'
<1> DEFINE n == Len(made)
           i == op[k].plan
           Records == [req : Requests, thread : Threads, doc : Seq(Nat)]
           o == [op[k] EXCEPT !.committed = TRUE]
<1>1. i \in Plans /\ n \in Nat /\ Len(made) <= n
  BY DEF CommitsHandoff, OperationShapes, OperationShape, Creation, TypeOK
<1>2. made[i] \in Records
  <2>1. made \in Seq(Records)
    BY DEF TypeOK
  <2> HIDE DEF Records, i
  <2> QED
    BY <1>1, <2>1 DEF Plans
<1>3. /\ pending' \in [Coordinators -> 0..n]
      /\ canonical' \in [Threads -> Seq(Nat)]
      /\ receipts' \in [Coordinators -> [Keys -> 0..n]]
      /\ expiry' \in [Coordinators -> SUBSET (1..n)]
      /\ alarm' \in [Coordinators -> {"none", "soon", "expiry"}]
  <2>1. storePlan(i, k, made[i])
    BY DEF CommitsHandoff
  <2>2. i \in 1..n
    BY <1>1 DEF Plans
  <2> HIDE DEF i, n
  <2> QED
    BY <1>1, <1>2, <2>1, <2>2, StoreType
<1>4. op' \in [Coordinators -> Operations(n)]
  <2>1. op[k] \in Operations(n)
    BY DEF TypeOK
  <2>2. o \in Operations(n)
    BY <2>1 DEF Operations
  <2>3. Replaying(k, o) \in Operations(n)
    BY <1>1, <2>2, ReplayingType
  <2>4. op' = [op EXCEPT ![k] = Replaying(k, o)]
    BY DEF CommitsHandoff
  <2> HIDE DEF o
  <2> QED
    BY <2>3, <2>4 DEF TypeOK
<1> QED
  BY <1>3, <1>4 DEF CommitsHandoff, outside, TypeOK, Plans, PlansOrNone

LEMMA RunsType ==
  ASSUME TypeOK, OperationShapes, NEW k \in Coordinators, Runs(k)
  PROVE  TypeOK'
  BY EarlierType, KvWrittenType, BatchDoneType, StagesType, AcceptsOrWakesType, CommitsOwnType,
     CommitsHandoffType DEF Runs

LEMMA FaultType ==
  ASSUME TypeOK, Fault
  PROVE  limits' \in Allowances /\ limits'.late = limits.late
<1>1. limits \in Allowances
  BY DEF TypeOK
<1>2. limits.faults - 1 \in Nat
  BY <1>1 DEF Fault, Allowances
<1> QED
  BY <1>1, <1>2 DEF Fault, Allowances

\* Which call took effect before the operation ended.
LEMMA FailsAfterCases ==
  ASSUME NEW k \in Coordinators, FailsAfter(k)
  PROVE  \/ At(k, "kv") /\ putDocument(pending[k], k) /\ UNCHANGED <<wakes, guards, projected>>
         \/ At(k, "batch") /\ project(pending[k], k) /\ UNCHANGED <<wakes, kv>>
         \/ At(k, "clear") /\ clearDiscovery(k) /\ UNCHANGED <<projected, kv>>
         \/ At(k, "wake") /\ storeWake(k) /\ UNCHANGED <<guards, projected, kv>>
  BY DEF FailsAfter, TakesEffect, Issued, At

LEMMA FailsType ==
  ASSUME TypeOK, OperationShapes, NEW k \in Coordinators, Fails(k)
  PROVE  TypeOK'
<1>1. op' \in [Coordinators -> Operations(Len(made))]
  BY EndsKeeps DEF Fails, FailsBefore, FailsAfter, FailsPending
<1>2. limits' \in Allowances
  BY FaultType DEF Fails, FailsBefore, FailsAfter, FailsPending
<1>3. At(k, "kv") \/ At(k, "batch") => k \in Threads /\ pending[k] \in Plans
  BY DEF At, OperationShapes, OperationShape, TypeOK, PlansOrNone, Plans
<1>4. CASE FailsBefore(k)
  <2>1. IsFiniteSet(handoffs') /\ handoffs' \subseteq handoffs
    BY <1>4, FS_Subset DEF FailsBefore, TypeOK
  <2> QED
    BY <1>1, <1>2, <1>4, <2>1 DEF FailsBefore, TypeOK, durable, outside, Plans, PlansOrNone
<1>5. CASE FailsAfter(k)
  <2>1. kv' \in [Threads -> Seq(Nat)]
    <3>1. CASE At(k, "kv") /\ putDocument(pending[k], k)
      BY <1>3, <3>1, PlanType DEF putDocument, TypeOK
    <3> QED
      BY <1>5, <3>1, FailsAfterCases DEF TypeOK
  <2>2. projected' \in [Threads -> Seq(Nat)] /\ guards' \subseteq [plan : Plans, by : Threads]
    <3>1. CASE At(k, "batch") /\ project(pending[k], k)
      BY <1>3, <3>1, ProjectType
    <3> QED
      BY <1>5, <3>1, FailsAfterCases DEF clearDiscovery, TypeOK
  <2>3. wakes' \subseteq Coordinators
    BY <1>5, FailsAfterCases DEF clearDiscovery, storeWake, TypeOK
  <2> QED
    BY <1>1, <1>2, <1>5, <2>1, <2>2, <2>3 DEF FailsAfter, TypeOK, durable, Plans, PlansOrNone
<1>6. CASE FailsPending(k)
  <2>1. Issued(k) \in [call : {"kv", "batch", "clear", "wake"}, plan : PlansOrNone, by : Coordinators]
    BY <1>6 DEF FailsPending, Issued, TypeOK
  <2>2. late' \subseteq [call : {"kv", "batch", "clear", "wake"}, plan : PlansOrNone, by : Coordinators]
    BY <1>6, <2>1 DEF FailsPending, TypeOK
  <2> QED
    BY <1>1, <1>2, <1>6, <2>2 DEF FailsPending, TypeOK, durable, Plans, PlansOrNone
<1> QED
  BY <1>4, <1>5, <1>6 DEF Fails

LEMMA ForumType ==
  ASSUME TypeOK, HandoffDone \/ HandoffRefused
  PROVE  TypeOK'
<1> DEFINE n == Len(made)
<1>1. Forum \in Coordinators /\ op[Forum] \in Operations(n) /\ n \in Nat
  BY DEF Coordinators, TypeOK
<1>2. [op[Forum] EXCEPT !.pc = "clear", !.answer = "none"] \in Operations(n)
  BY <1>1 DEF Operations
<1>3. CASE HandoffDone
  <2>1. op' = [op EXCEPT ![Forum] = [op[Forum] EXCEPT !.pc = "clear", !.answer = "none"]]
    BY <1>3 DEF HandoffDone
  <2>2. op' \in [Coordinators -> Operations(n)]
    BY <1>2, <2>1 DEF TypeOK
  <2>3. pending' \in [Coordinators -> 0..n]
    BY <1>1, <1>3 DEF HandoffDone, TypeOK, PlansOrNone
  <2> QED
    BY <1>3, <2>2, <2>3 DEF HandoffDone, TypeOK, outside, Plans, PlansOrNone
<1>4. CASE HandoffRefused
  <2>1. op' \in [Coordinators -> Operations(n)]
    BY <1>1, <1>4, IdleType DEF HandoffRefused, TypeOK
  <2> QED
    BY <1>4, <2>1 DEF HandoffRefused, TypeOK, durable, outside, Plans, PlansOrNone
<1> QED
  BY <1>3, <1>4

LEMMA LateCallType ==
  ASSUME TypeOK, WritesAreOwned, LateCall
  PROVE  TypeOK'
<1>1. PICK c \in late : /\ late' = late \ {c} /\ TakesEffect(c)
                        /\ UNCHANGED <<durable, handoffs, nudges, op, made, expired, limits>>
  BY DEF LateCall
<1>2. c.by \in Coordinators /\ (c.call \in {"kv", "batch"} => c.plan \in Plans /\ c.by \in Threads)
  BY DEF TypeOK, WritesAreOwned, PlansOrNone, Plans
<1>3. kv' \in [Threads -> Seq(Nat)]
  <2>1. CASE c.call = "kv"
    <3>1. made[c.plan].doc \in Seq(Nat)
      BY <1>2, <2>1, PlanType
    <3> QED
      BY <1>1, <2>1, <3>1 DEF TakesEffect, putDocument, TypeOK
  <2> QED
    BY <1>1, <2>1 DEF TakesEffect, TypeOK
<1>4. projected' \in [Threads -> Seq(Nat)] /\ guards' \subseteq [plan : Plans, by : Threads]
  <2>1. CASE c.call = "batch"
    <3>1. project(c.plan, c.by)
      BY <1>1, <2>1 DEF TakesEffect
    <3> QED
      BY <1>2, <2>1, <3>1, ProjectType
  <2> QED
    BY <1>1, <2>1 DEF TakesEffect, clearDiscovery, TypeOK
<1>5. wakes' \subseteq Coordinators
  BY <1>1, <1>2 DEF TakesEffect, clearDiscovery, storeWake, TypeOK
<1> QED
  BY <1>1, <1>3, <1>4, <1>5 DEF TypeOK, durable, Plans, PlansOrNone

LEMMA ReceiptExpiresType ==
  ASSUME TypeOK, ReceiptExpires
  PROVE  TypeOK'
<1>1. expired' \subseteq Plans
  <2>1. IsFiniteSet(expired) /\ Cardinality(expired) \in Nat
    <3>1. Len(made) \in Int
      BY DEF TypeOK
    <3>2. IsFiniteSet(Plans)
      BY <3>1, FS_Interval DEF Plans
    <3> QED
      BY <3>2, FS_Subset, FS_CardinalityType DEF TypeOK
  <2>2. Len(made) \in Nat /\ expired \subseteq Plans
    BY DEF TypeOK
  <2>3. Cardinality(expired) + 1 \in Plans
    BY <2>1, <2>2 DEF ReceiptExpires, Plans
  <2> QED
    BY <2>2, <2>3 DEF ReceiptExpires
<1> QED
  BY <1>1 DEF ReceiptExpires, TypeOK, durable, outside, Plans, PlansOrNone

LEMMA TypeStep ==
  ASSUME TypeOK, OperationShapes, WritesAreOwned, [Next]_vars
  PROVE  TypeOK'
<1>1. CASE UNCHANGED vars
  BY <1>1 DEF vars, durable, outside, TypeOK, Plans, PlansOrNone
<1> QED
  BY <1>1, BeginsType, RunsType, FailsType, ForumType, LateCallType, ReceiptExpiresType DEF Next

LEMMA InitType ==
  ASSUME Init
  PROVE  TypeOK
<1>1. Len(<<>>) = 0 /\ <<>> \in Seq([req : Requests, thread : Threads, doc : Seq(Nat)])
  OBVIOUS
<1>2. op \in [Coordinators -> Operations(Len(made))]
  BY <1>1, IdleType DEF Init
<1>3. limits \in Allowances
  BY LimitsAssumption DEF Init
<1>4. IsFiniteSet(handoffs)
  BY FS_EmptySet DEF Init
<1>5. <<0>> \in Seq(Nat) /\ <<>> \in Seq(Nat)
  OBVIOUS
<1> QED
  BY <1>1, <1>2, <1>3, <1>4, <1>5 DEF Init, TypeOK, Plans, PlansOrNone

(***************************************************************************)
(* Quiet steps: they commit, write and project nothing.                    *)
(***************************************************************************)
\* What two records of an operation share when only the answer differs.
Alike(p, o) ==
  /\ p.kind = o.kind /\ p.pc = o.pc /\ p.req = o.req
  /\ p.plan = o.plan /\ p.thread = o.thread /\ p.base = o.base

Quiet(k) ==
  /\ UNCHANGED <<pending, canonical, kv, projected, made, late>>
  /\ limits'.late = limits.late
  /\ \A c \in Coordinators \ {k} : Alike(op'[c], op[c])
  /\ OperationShape(k, op'[k])
  /\ op'[k].pc = "batch" => op[k].pc = "batch"
  /\ \A m \in handoffs' : Creation(m.plan)
  /\ guards' = guards \/ (pending[k] = 0 /\ guards' = {g \in guards : g.by # k})

LEMMA QuietStep ==
  ASSUME ThreadInvariant, TypeOK', NEW k \in Coordinators, Quiet(k)
  PROVE  ThreadInvariant'
<1> USE DEF ThreadInvariant
<1>1. OperationShapes'
  <2>1. SUFFICES ASSUME NEW c \in Coordinators
                 PROVE  OperationShape(c, op[c])'
    BY DEF OperationShapes
  <2>2. OperationShape(c, op'[c])
    BY DEF Quiet, Alike, OperationShapes, OperationShape, StartsFresh
  <2> QED
    BY <2>2 DEF Quiet, OperationShape, StartsFresh, readFreshThread, Creation, Plans
<1>2. OnlyCreations'
  BY DEF Quiet, OnlyCreations, Creation, Plans
<1>3. Documents' /\ WritesAreOwned'
  BY DEF Quiet, Documents, Plans, WritesAreOwned
<1>4. ASSUME ~limits'.late
      PROVE  Replicas'
  <2>1. Replicas
    BY <1>4 DEF Quiet
  <2>2. GuardsOwned' /\ NewAreEmpty' /\ late' = {}
    BY <2>1 DEF Quiet, Replicas, GuardsOwned, NewAreEmpty
  <2>3. ASSUME NEW t \in Threads
        PROVE  Settled(t)'
    BY <2>1 DEF Quiet, Replicas, Settled, readFreshThread
  <2>4. ASSUME NEW t \in Threads, pending'[t] # 0
        PROVE  HalfWay(t)'
    <3>1. HalfWay(t) /\ pending[t] # 0 /\ t \in Coordinators
      BY <2>1, <2>4 DEF Quiet, Replicas, Coordinators
    <3>2. Guarded(t)' <=> Guarded(t)
      BY <3>1 DEF Quiet, Guarded
    <3>3. op'[t].pc = "batch" => op[t].pc = "batch"
      BY <3>1 DEF Quiet, Alike
    <3> QED
      BY <3>1, <3>2, <3>3 DEF Quiet, HalfWay
  <2> QED
    BY <2>2, <2>3, <2>4 DEF Replicas
<1> QED
  BY <1>1, <1>2, <1>3, <1>4

LEMMA EndsQuiet ==
  ASSUME ThreadInvariant, NEW k \in Coordinators, NEW answer \in {"ok", "failed"},
         Ends(k, answer), UNCHANGED <<pending, canonical, kv, projected, made, late>>,
         limits'.late = limits.late, handoffs' \subseteq handoffs,
         guards' = guards \/ (pending[k] = 0 /\ guards' = {g \in guards : g.by # k})
  PROVE  Quiet(k)
<1>1. TypeOK
  BY DEF ThreadInvariant
<1>2. /\ op'[k] = IdleOp
      /\ \A c \in Coordinators \ {k} :
           op'[c] = op[c] \/ op'[c] = [op[c] EXCEPT !.answer = answer]
  BY <1>1, EndsKeeps
<1>3. \A c \in Coordinators \ {k} : Alike(op'[c], op[c])
  <2>1. \A c \in Coordinators : op[c] \in Operations(Len(made))
    BY <1>1 DEF TypeOK
  <2> QED
    BY <1>2, <2>1 DEF Alike, Operations
<1>4. OperationShape(k, op'[k]) /\ op'[k].pc # "batch"
  BY <1>2 DEF OperationShape, IdleOp
<1>5. \A m \in handoffs' : Creation(m.plan)
  BY DEF ThreadInvariant, OnlyCreations
<1> QED
  BY <1>3, <1>4, <1>5 DEF Quiet

\* The shape of an operation that starts a replay, of the plan pending then.
LEMMA ReplayShape ==
  ASSUME NEW k \in Coordinators, NEW n \in Nat, NEW o \in Operations(n), UNCHANGED pending,
         o.pc = "idle", o.kind = "mutate" => o.req \in Requests,
         o.kind = "commit" => k \in Threads /\ Creation(o.plan) /\ made[o.plan].thread = k
  PROVE  OperationShape(k, Replaying(k, o)) /\ Replaying(k, o).pc # "batch"
<1>1. k # Forum => k \in Threads
  BY DEF Coordinators
<1>2. /\ Replaying(k, o).kind = o.kind /\ Replaying(k, o).req = o.req
      /\ Replaying(k, o).plan = o.plan
      /\ Replaying(k, o).pc = IF pending[k] = 0 THEN "clear"
                              ELSE IF k = Forum THEN "handoff" ELSE "kv"
  BY DEF Replaying, Operations
<1> QED
  BY <1>1, <1>2 DEF OperationShape

LEMMA StartsQuiet ==
  ASSUME ThreadInvariant, NEW k \in Coordinators, NEW o \in Operations(Len(made)),
         StartReplay(k, o), UNCHANGED <<durable, outside, made, limits>>,
         o.pc = "idle", o.kind = "mutate" => o.req \in Requests, o.kind # "commit"
  PROVE  Quiet(k)
<1>1. TypeOK /\ Len(made) \in Nat /\ Len(made) <= Len(made)
  BY DEF ThreadInvariant, TypeOK
<1>2. UNCHANGED <<pending, canonical, kv, projected, made, late, guards>>
  BY DEF durable, outside
<1>3. pending' \in [Coordinators -> 0..Len(made)]
  BY <1>1, <1>2 DEF TypeOK, PlansOrNone
<1>4. /\ op'[k] = Replaying(k, o)
      /\ \A c \in Coordinators \ {k} : op'[c] = op[c]
      /\ \A m \in handoffs' :
           \/ m \in handoffs
           \/ k = Forum /\ pending'[k] \in 1..Len(made) /\ m.plan = pending'[k]
  BY <1>1, <1>3, StartReplayKeeps
<1>5. OperationShape(k, op'[k]) /\ op'[k].pc # "batch"
  BY <1>1, <1>2, <1>4, ReplayShape
<1>6. \A m \in handoffs' : Creation(m.plan)
  BY <1>1, <1>2, <1>4 DEF ThreadInvariant, OnlyCreations
<1> QED
  BY <1>2, <1>4, <1>5, <1>6 DEF Quiet, Alike

LEMMA BeginsQuiet ==
  ASSUME ThreadInvariant, Begins
  PROVE  \E k \in Coordinators : Quiet(k)
<1>0. TypeOK /\ Len(made) \in Nat
  BY DEF ThreadInvariant, TypeOK
<1>1. ASSUME NEW r \in Requests, Request(r)
      PROVE  \E k \in Coordinators : Quiet(k)
  <2> DEFINE found == receiptFor(r.to, r.key)
             o == [AsksFor("mutate") EXCEPT !.req = r, !.plan = found]
  <2>1. r.to \in Coordinators /\ r.key \in Keys
    BY CoordinatorsAssumption DEF Keys
  <2>2. found \in 0..Len(made)
    BY <1>0, <2>1 DEF TypeOK, PlansOrNone, receiptFor
  <2>3. AsksFor("mutate") \in Operations(Len(made))
    BY <1>0, AsksType
  <2>4. o \in Operations(Len(made))
    BY <2>2, <2>3 DEF Operations
  <2>5. o.kind = "mutate" /\ o.pc = "idle" /\ o.req = r
    BY DEF AsksFor, IdleOp
  <2>6. StartReplay(r.to, o) /\ UNCHANGED <<durable, outside, made, limits>>
    BY <1>1 DEF Request
  <2> HIDE DEF o
  <2> QED
    BY <2>1, <2>4, <2>5, <2>6, StartsQuiet
<1>2. ASSUME NEW m \in handoffs, TakeHandoff(m)
      PROVE  \E k \in Coordinators : Quiet(k)
  <2> DEFINE t == made[m.plan].thread
             o == [AsksFor("commit") EXCEPT !.plan = m.plan, !.call = m.call]
  <2>1. m.plan \in Plans /\ m.plan \in 0..Len(made) /\ m.call \in Nat
    BY <1>0 DEF TypeOK, Plans
  <2>2. t \in Threads /\ t \in Coordinators /\ Creation(m.plan)
    BY <1>0, <2>1, PlanType DEF ThreadInvariant, OnlyCreations, Coordinators
  <2>3. AsksFor("commit") \in Operations(Len(made))
    BY <1>0, AsksType
  <2>4. o \in Operations(Len(made))
    BY <2>1, <2>3 DEF Operations
  <2>5. o.kind = "commit" /\ o.pc = "idle" /\ o.plan = m.plan
    BY DEF AsksFor, IdleOp
  <2>6. op' = [op EXCEPT ![t] = Replaying(t, o)] /\ handoffs' = handoffs \ {m}
        /\ UNCHANGED <<durable, outside, made, limits>>
    BY <1>2 DEF TakeHandoff
  <2>7. UNCHANGED <<pending, canonical, kv, projected, made, late, guards>>
    BY <2>6 DEF durable, outside
  <2>8. made[o.plan].thread = t
    BY <2>5
  <2> HIDE DEF o, t
  <2>9. OperationShape(t, Replaying(t, o)) /\ Replaying(t, o).pc # "batch"
    BY <1>0, <2>2, <2>4, <2>5, <2>7, <2>8, ReplayShape
  <2>10. op'[t] = Replaying(t, o) /\ \A c \in Coordinators \ {t} : op'[c] = op[c]
    BY <1>0, <2>2, <2>6 DEF TypeOK
  <2> QED
    BY <2>2, <2>6, <2>7, <2>9, <2>10 DEF Quiet, Alike, ThreadInvariant, OnlyCreations
<1>3. ASSUME NEW k \in Coordinators, Sweep(k)
      PROVE  Quiet(k)
  BY <1>3 DEF Sweep, durable, outside, Quiet, Alike, ThreadInvariant, OperationShapes, OnlyCreations
<1>4. ASSUME NEW k \in Coordinators, Recover(k) \/ AlarmFires(k)
      PROVE  Quiet(k)
  <2>1. PICK kind \in {"recover", "alarm"} :
          StartReplay(k, AsksFor(kind)) /\ UNCHANGED <<durable, outside, made, limits>>
    BY <1>4 DEF Recover, AlarmFires
  <2>2. AsksFor(kind) \in Operations(Len(made))
    BY <1>0, AsksType
  <2>3. AsksFor(kind).kind = kind /\ AsksFor(kind).pc = "idle"
    BY DEF AsksFor, IdleOp
  <2> QED
    BY <2>1, <2>2, <2>3, StartsQuiet
<1> QED
  BY <1>1, <1>2, <1>3, <1>4 DEF Begins

\* The operation whose receipts and wake are deleted has nothing pending.
LEMMA ClearsShape ==
  ASSUME ThreadInvariant, NEW k \in Coordinators, At(k, "clear")
  PROVE  pending[k] = 0
  BY DEF ThreadInvariant, OperationShapes, OperationShape, At

LEMMA EarlierQuiet ==
  ASSUME ThreadInvariant, NEW k \in Coordinators,
         \/ RepeatsReply(k) \/ Rejects(k) \/ CommitRefused(k) \/ RepeatsCommit(k)
         \/ FindsThread(k) \/ Recovered(k) \/ AlarmDone(k) \/ Completes(k)
  PROVE  Quiet(k)
<1>1. PICK answer \in {"ok", "failed"} : Ends(k, answer)
  BY DEF RepeatsReply, Rejects, CommitRefused, RepeatsCommit, FindsThread, Recovered, AlarmDone,
         Completes
<1>2. Clears(k) /\ UNCHANGED <<pending, canonical>>
  BY DEF RepeatsReply, Rejects, CommitRefused, RepeatsCommit, FindsThread, Recovered, AlarmDone,
         Completes, Earlier, durable
<1>3. /\ UNCHANGED <<pending, canonical, kv, projected, made, late, limits, handoffs>>
      /\ guards' = {g \in guards : g.by # k} /\ At(k, "clear")
  BY <1>2 DEF Clears, clearDiscovery
<1> QED
  BY <1>1, <1>3, ClearsShape, EndsQuiet

LEMMA StagesQuiet ==
  ASSUME ThreadInvariant, NEW k \in Coordinators, Stages(k)
  PROVE  Quiet(k)
<1>0. TypeOK
  BY DEF ThreadInvariant
<1>1. PICK t \in IF k = Forum THEN NewThreads ELSE {k} \cap Existing :
        op' = [op EXCEPT ![k].pc = "wake", ![k].thread = t,
                         ![k].base = IF k = Forum THEN <<>> ELSE readFreshThread(k)]
  BY DEF Stages
<1>2. /\ UNCHANGED <<pending, canonical, kv, projected, made, late, limits, handoffs>>
      /\ guards' = {g \in guards : g.by # k} /\ At(k, "clear") /\ op[k].kind = "mutate"
  BY DEF Stages, Earlier, Clears, clearDiscovery
<1>3. pending[k] = 0 /\ op[k].req \in Requests
  BY <1>2, ClearsShape DEF ThreadInvariant, OperationShapes, OperationShape
<1>4. k # Forum => k \in Threads /\ t = k
  BY <1>1 DEF Coordinators
<1>5. k = Forum => t \in Threads \ Old
  BY <1>0, <1>1 DEF NewThreads, TypeOK, Allowances, ThreadInvariant, Documents
<1>6. op[k] \in Operations(Len(made)) /\ \A c \in Coordinators \ {k} : op'[c] = op[c]
  BY <1>0, <1>1 DEF TypeOK
<1>7. /\ op'[k].pc = "wake" /\ op'[k].thread = t /\ op'[k].kind = "mutate"
      /\ op'[k].base = (IF k = Forum THEN <<>> ELSE readFreshThread(k))
      /\ op'[k].req = op[k].req
  <2>1. op' = [op EXCEPT ![k] = [op[k] EXCEPT !.pc = "wake", !.thread = t,
                        !.base = IF k = Forum THEN <<>> ELSE readFreshThread(k)]]
    BY <1>1
  <2> QED
    BY <1>0, <1>2, <1>6, <2>1 DEF TypeOK, Operations
<1>8. OperationShape(k, op'[k])
  BY <1>3, <1>4, <1>5, <1>7 DEF OperationShape, StartsFresh
<1> QED
  BY <1>2, <1>3, <1>6, <1>7, <1>8 DEF Quiet, Alike, ThreadInvariant, OnlyCreations

LEMMA AcceptsOrWakesQuiet ==
  ASSUME ThreadInvariant, NEW k \in Coordinators, AcceptsHandoff(k) \/ WakeStored(k)
  PROVE  Quiet(k)
<1>0. TypeOK /\ op[k] \in Operations(Len(made))
  BY DEF ThreadInvariant, TypeOK
<1>1. PICK pc \in {"wake", "store"} : op' = [op EXCEPT ![k].pc = pc]
  BY DEF AcceptsHandoff, WakeStored
<1>2. /\ op'[k].pc = pc /\ op'[k].kind = op[k].kind /\ op'[k].req = op[k].req
      /\ op'[k].plan = op[k].plan /\ op'[k].base = op[k].base /\ op'[k].thread = op[k].thread
      /\ \A c \in Coordinators \ {k} : op'[c] = op[c]
  <2>1. op' = [op EXCEPT ![k] = [op[k] EXCEPT !.pc = pc]]
    BY <1>1
  <2> QED
    BY <1>0, <2>1 DEF TypeOK, Operations
<1>3. UNCHANGED <<pending, canonical, kv, projected, made, late, limits, handoffs>>
  BY DEF AcceptsHandoff, WakeStored, Earlier, Clears, durable
<1>4. OperationShape(k, op[k])
  BY DEF ThreadInvariant, OperationShapes
<1>5. CASE AcceptsHandoff(k)
  <2>1. guards' = {g \in guards : g.by # k} /\ At(k, "clear") /\ op[k].kind = "commit"
        /\ ~ownsThread(k)
    BY <1>5 DEF AcceptsHandoff, Earlier, Clears, clearDiscovery
  <2>2. pending[k] = 0
    BY <2>1, ClearsShape
  <2>3. OperationShape(k, op'[k])
    BY <1>2, <1>4, <2>1, <2>2 DEF OperationShape, StartsFresh, ownsThread
  <2> QED
    BY <1>2, <1>3, <2>1, <2>2, <2>3 DEF Quiet, Alike, ThreadInvariant, OnlyCreations
<1>6. CASE WakeStored(k)
  <2>1. guards' = guards /\ op[k].pc = "wake"
    BY <1>6 DEF WakeStored, At
  <2>2. OperationShape(k, op'[k])
    BY <1>2, <1>4, <2>1 DEF OperationShape, StartsFresh
  <2> QED
    BY <1>2, <1>3, <2>1, <2>2 DEF Quiet, Alike, ThreadInvariant, OnlyCreations
<1> QED
  BY <1>5, <1>6

LEMMA FailsQuiet ==
  ASSUME ThreadInvariant, NEW k \in Coordinators,
         \/ FailsBefore(k)
         \/ FailsAfter(k) /\ (At(k, "clear") \/ At(k, "wake"))
  PROVE  Quiet(k)
<1>1. TypeOK
  BY DEF ThreadInvariant
<1>2. limits'.late = limits.late
  BY <1>1, FaultType DEF FailsBefore, FailsAfter
<1>3. CASE FailsBefore(k)
  BY <1>2, <1>3, EndsQuiet DEF FailsBefore, durable, outside
<1>4. CASE FailsAfter(k) /\ At(k, "clear")
  <2>1. clearDiscovery(k) /\ UNCHANGED <<projected, kv>>
    BY <1>4, FailsAfterCases DEF At
  <2> QED
    BY <1>2, <1>4, <2>1, ClearsShape, EndsQuiet DEF FailsAfter, clearDiscovery, durable
<1>5. CASE FailsAfter(k) /\ At(k, "wake")
  <2>1. UNCHANGED <<guards, projected, kv>>
    BY <1>5, FailsAfterCases DEF At
  <2> QED
    BY <1>2, <1>5, <2>1, EndsQuiet DEF FailsAfter, durable
<1> QED
  BY <1>3, <1>4, <1>5

LEMMA RefusedOrExpiresQuiet ==
  ASSUME ThreadInvariant, HandoffRefused \/ ReceiptExpires
  PROVE  Quiet(Forum)
<1>1. TypeOK /\ Forum \in Coordinators
  BY DEF ThreadInvariant, Coordinators
<1>2. UNCHANGED <<pending, canonical, kv, projected, made, late, limits, handoffs, guards>>
  BY DEF HandoffRefused, ReceiptExpires, durable, outside
<1>3. \A c \in Coordinators \ {Forum} : op'[c] = op[c]
  BY <1>1 DEF HandoffRefused, ReceiptExpires, TypeOK
<1>4. op'[Forum] = IdleOp \/ op'[Forum] = op[Forum]
  BY <1>1 DEF HandoffRefused, ReceiptExpires, TypeOK
<1>5. OperationShape(Forum, IdleOp) /\ IdleOp.pc # "batch"
  BY DEF OperationShape, IdleOp
<1>6. OperationShape(Forum, op[Forum])
  BY <1>1 DEF ThreadInvariant, OperationShapes
<1> QED
  BY <1>2, <1>3, <1>4, <1>5, <1>6 DEF Quiet, Alike, ThreadInvariant, OnlyCreations

(***************************************************************************)
(* Steps that commit, write or project: what they leave alone elsewhere.   *)
(***************************************************************************)
PlansStay == \A i \in Plans : i \in Plans' /\ made'[i] = made[i]

ElsewhereKept(k) ==
  /\ PlansStay
  /\ \A c \in Coordinators \ {k} : pending'[c] = pending[c] /\ Alike(op'[c], op[c])
  /\ \A t \in Threads \ {k} :
       canonical'[t] = canonical[t] /\ kv'[t] = kv[t] /\ projected'[t] = projected[t]
  /\ \A g \in guards \cup guards' : g.by # k => (g \in guards <=> g \in guards')

LEMMA CreationStays ==
  ASSUME PlansStay
  PROVE  \A i : Creation(i) => Creation(i)'
  BY DEF PlansStay, Creation

LEMMA LocalStep ==
  ASSUME ThreadInvariant, TypeOK', NEW k \in Coordinators, ElsewhereKept(k),
         OperationShape(k, op[k])', OnlyCreations', Documents', WritesAreOwned',
         ~limits'.late =>
           /\ ~limits.late /\ late' = {} /\ GuardsOwned'
           /\ k \in Threads \ Old /\ canonical'[k] = <<>> => kv'[k] = <<>>
           /\ k \in Threads => Settled(k)' /\ (pending'[k] # 0 => HalfWay(k)')
  PROVE  ThreadInvariant'
<1>1. OperationShapes'
  <2>1. SUFFICES ASSUME NEW c \in Coordinators \ {k}
                 PROVE  OperationShape(c, op[c])'
    BY DEF OperationShapes
  <2>2. OperationShape(c, op[c]) /\ pending'[c] = pending[c] /\ Alike(op'[c], op[c])
    BY <2>1 DEF ThreadInvariant, OperationShapes, ElsewhereKept
  <2>3. c \in Threads => canonical'[c] = canonical[c] /\ readFreshThread(c)' = readFreshThread(c)
    BY DEF ElsewhereKept, readFreshThread
  <2>4. \A i : Creation(i) => Creation(i)' /\ made'[i] = made[i]
    BY CreationStays DEF ElsewhereKept, PlansStay, Creation
  <2>5. op[c].pc \in {"wake", "store"} => StartsFresh(c, op[c])'
    BY <2>2, <2>3 DEF OperationShape, StartsFresh, Alike
  <2> QED
    BY <2>2, <2>4, <2>5 DEF OperationShape, Alike
<1>2. ASSUME ~limits'.late
      PROVE  Replicas'
  <2>1. Replicas
    BY <1>2 DEF ThreadInvariant
  <2>2. NewAreEmpty'
    BY <1>2, <2>1 DEF Replicas, NewAreEmpty, ElsewhereKept
  <2>3. ASSUME NEW t \in Threads \ {k}
        PROVE  Settled(t)'
    BY <2>1 DEF ElsewhereKept, Replicas, Settled, readFreshThread, Coordinators
  <2>4. ASSUME NEW t \in Threads \ {k}, pending'[t] # 0
        PROVE  HalfWay(t)'
    <3>1. t \in Coordinators /\ pending'[t] = pending[t] /\ Alike(op'[t], op[t])
      BY DEF ElsewhereKept, Coordinators
    <3>2. HalfWay(t)
      BY <2>1, <2>4, <3>1 DEF Replicas
    <3>3. pending[t] \in Plans
      BY <2>4, <3>1 DEF ThreadInvariant, TypeOK, PlansOrNone, Plans
    <3>4. made'[pending'[t]] = made[pending[t]]
      BY <3>1, <3>3 DEF ElsewhereKept, PlansStay
    <3>5. canonical'[t] = canonical[t] /\ kv'[t] = kv[t] /\ projected'[t] = projected[t]
      BY DEF ElsewhereKept
    <3>6. Guarded(t)' <=> Guarded(t)
      BY <3>1 DEF ElsewhereKept, Guarded
    <3> QED
      BY <3>1, <3>2, <3>4, <3>5, <3>6 DEF HalfWay, Alike
  <2> QED
    BY <1>2, <2>2, <2>3, <2>4 DEF Replicas
<1> QED
  BY <1>1, <1>2 DEF ThreadInvariant

LEMMA PendingPlan ==
  ASSUME ThreadInvariant, NEW k \in Coordinators, At(k, "kv") \/ At(k, "batch")
  PROVE  k \in Threads /\ k # Forum /\ pending[k] \in Plans /\ pending[k] # 0
<1>1. k \in Threads /\ pending[k] # 0
  BY DEF ThreadInvariant, OperationShapes, OperationShape, At
<1> QED
  BY <1>1, CoordinatorsAssumption DEF ThreadInvariant, TypeOK, PlansOrNone, Plans

\* The two steps that write KV.
LEMMA PutsDocument ==
  ASSUME ThreadInvariant, TypeOK', NEW k \in Coordinators, At(k, "kv"), putDocument(pending[k], k),
         UNCHANGED <<pending, canonical, projected, guards, late, handoffs, made>>,
         limits'.late = limits.late, OperationShape(k, op[k])',
         \A c \in Coordinators \ {k} : Alike(op'[c], op[c])
  PROVE  ThreadInvariant'
<1>1. k \in Threads /\ pending[k] \in Plans /\ pending[k] # 0
  BY PendingPlan
<1>2. kv' = [kv EXCEPT ![k] = made[pending[k]].doc] /\ kv'[k] = made[pending[k]].doc
  BY <1>1 DEF putDocument, ThreadInvariant, TypeOK
<1>3. ElsewhereKept(k)
  BY <1>2 DEF ElsewhereKept, PlansStay, Plans, ThreadInvariant, TypeOK
<1>4. OnlyCreations'
  BY DEF ThreadInvariant, OnlyCreations, Creation, Plans
<1>5. Documents'
  <2>1. made[pending[k]].doc # <<>>
    BY <1>1 DEF ThreadInvariant, Documents
  <2>2. \A t \in Old : kv'[t] # <<>>
    BY <1>2, <2>1, CoordinatorsAssumption DEF ThreadInvariant, Documents, TypeOK
  <2> QED
    BY <2>2 DEF ThreadInvariant, Documents, Plans
<1>7. WritesAreOwned'
  BY DEF ThreadInvariant, WritesAreOwned
<1>6. ASSUME ~limits.late
      PROVE  /\ late' = {} /\ GuardsOwned'
             /\ canonical'[k] # <<>> /\ Settled(k)' /\ HalfWay(k)'
  <2>1. Replicas /\ HalfWay(k)
    BY <1>1, <1>6 DEF ThreadInvariant, Replicas
  <2>2. late' = {} /\ GuardsOwned'
    BY <2>1 DEF Replicas, GuardsOwned
  <2>3. Settled(k)'
    BY <1>1 DEF Settled
  <2>4. kv'[k] = canonical[k]
    BY <1>2, <2>1 DEF HalfWay
  <2>5. HalfWay(k)'
    BY <2>1, <2>4 DEF HalfWay, Guarded
  <2>6. canonical[k] # <<>>
    <3>1. canonical[k] = made[pending[k]].doc /\ made[pending[k]].doc # <<>>
      BY <1>1, <2>1 DEF HalfWay, ThreadInvariant, Documents
    <3> QED
      BY <3>1
  <2> QED
    BY <2>2, <2>3, <2>5, <2>6
<1> QED
  BY <1>3, <1>4, <1>5, <1>6, <1>7, LocalStep

LEMMA KvWrittenStep ==
  ASSUME ThreadInvariant, TypeOK', NEW k \in Coordinators, KvWritten(k)
  PROVE  ThreadInvariant'
<1>0. TypeOK /\ op[k] \in Operations(Len(made)) /\ OperationShape(k, op[k])
  BY DEF ThreadInvariant, TypeOK, OperationShapes
<1>1. UNCHANGED <<pending, canonical, projected, guards, late, handoffs, made, limits>>
  BY DEF KvWritten, durable
<1>2. /\ op'[k].pc = "batch" /\ op'[k].kind = op[k].kind /\ op'[k].req = op[k].req
      /\ op'[k].plan = op[k].plan
      /\ \A c \in Coordinators \ {k} : op'[c] = op[c]
  <2>1. op' = [op EXCEPT ![k] = [op[k] EXCEPT !.pc = "batch"]]
    BY DEF KvWritten
  <2> QED
    BY <1>0, <2>1 DEF TypeOK, Operations
<1>3. k \in Threads /\ pending[k] # 0 /\ At(k, "kv") /\ putDocument(pending[k], k)
  BY PendingPlan DEF KvWritten
<1>4. OperationShape(k, op[k])'
  BY <1>0, <1>1, <1>2, <1>3 DEF OperationShape, Creation, Plans
<1> QED
  BY <1>1, <1>2, <1>3, <1>4, PutsDocument DEF Alike

\* The two steps that execute a batch: a first one projects the pending plan, a
\* repeated one finds its receipt.
LEMMA Projects ==
  ASSUME ThreadInvariant, TypeOK', NEW k \in Coordinators, At(k, "batch"), project(pending[k], k),
         UNCHANGED <<canonical, kv, late, handoffs, made>>, pending'[k] \in {0, pending[k]},
         \A c \in Coordinators \ {k} : pending'[c] = pending[c] /\ Alike(op'[c], op[c]),
         limits'.late = limits.late, OperationShape(k, op[k])'
  PROVE  ThreadInvariant'
<1>0. TypeOK
  BY DEF ThreadInvariant
<1>1. k \in Threads /\ k # Forum /\ pending[k] \in Plans /\ pending[k] # 0
  BY PendingPlan
<1> DEFINE receipt == [plan |-> pending[k], by |-> k]
<1>2. guards' = guards \/ guards' = guards \cup {receipt}
  BY DEF project
<1>3. \A t \in Threads \ {k} : projected'[t] = projected[t]
  BY <1>0, <1>1 DEF project, TypeOK
<1>4. ElsewhereKept(k)
  BY <1>2, <1>3 DEF ElsewhereKept, PlansStay, Plans
<1>5. OnlyCreations'
  <2>1. pending'[Forum] = pending[Forum]
    BY <1>1 DEF Coordinators
  <2> QED
    BY <2>1 DEF ThreadInvariant, OnlyCreations, Creation, Plans
<1>6. Documents' /\ WritesAreOwned'
  BY DEF ThreadInvariant, Documents, Plans, WritesAreOwned, Coordinators
<1>7. ASSUME ~limits.late
      PROVE  /\ late' = {} /\ GuardsOwned' /\ canonical'[k] # <<>>
             /\ Settled(k)' /\ (pending'[k] # 0 => HalfWay(k)')
  <2>1. Replicas /\ HalfWay(k)
    BY <1>1, <1>7 DEF ThreadInvariant, Replicas
  <2>2. canonical[k] # <<>> /\ made[pending[k]].thread = k /\ kv[k] = canonical[k]
    <3>1. /\ made[pending[k]].doc = canonical[k] /\ made[pending[k]].thread = k
          /\ kv[k] = canonical[k]
      BY <2>1 DEF HalfWay, At
    <3>2. made[pending[k]].doc # <<>>
      BY <1>1 DEF ThreadInvariant, Documents
    <3> QED
      BY <3>1, <3>2
  <2>3. GuardsOwned'
    BY <1>2, <2>1, <2>2 DEF Replicas, GuardsOwned
  <2>4. projected'[k] = canonical[k] /\ receipt \in guards'
    <3>1. CASE \E g \in guards : g.plan = pending[k]
      <4>1. PICK g \in guards : g.plan = pending[k]
        BY <3>1
      <4>2. g.by = k /\ g \in [plan : Plans, by : Threads]
        BY <1>0, <2>1, <2>2, <4>1 DEF Replicas, GuardsOwned, TypeOK
      <4>3. g = receipt
        BY <4>1, <4>2
      <4>4. Guarded(k)
        BY <4>1, <4>3 DEF Guarded
      <4> QED
        BY <2>1, <3>1, <4>1, <4>3, <4>4 DEF HalfWay, project
    <3>2. CASE ~\E g \in guards : g.plan = pending[k]
      <4>1. ~Guarded(k)
        BY <3>2 DEF Guarded
      <4>2. projected[k] = Before(canonical[k])
            /\ canonical[k] = Append(Before(canonical[k]), pending[k])
        BY <2>1, <4>1 DEF HalfWay
      <4>3. projected'[k] = Append(projected[k], pending[k]) /\ guards' = guards \cup {receipt}
        BY <1>0, <1>1, <3>2 DEF project, TypeOK
      <4> QED
        BY <4>2, <4>3
    <3> QED
      BY <3>1, <3>2
  <2>5. Settled(k)'
    BY <2>2, <2>4 DEF Settled, readFreshThread
  <2>6. ASSUME pending'[k] # 0
        PROVE  HalfWay(k)'
    <3>1. pending'[k] = pending[k]
      BY <2>6
    <3>2. Guarded(k)'
      BY <2>4, <3>1 DEF Guarded
    <3> QED
      BY <2>1, <2>2, <2>4, <3>1, <3>2 DEF HalfWay
  <2>7. late' = {}
    BY <2>1 DEF Replicas
  <2> QED
    BY <2>2, <2>3, <2>5, <2>6, <2>7
<1> QED
  BY <1>4, <1>5, <1>6, <1>7, LocalStep

LEMMA BatchDoneStep ==
  ASSUME ThreadInvariant, TypeOK', NEW k \in Coordinators, BatchDone(k)
  PROVE  ThreadInvariant'
<1>0. TypeOK /\ op[k] \in Operations(Len(made)) /\ OperationShape(k, op[k])
  BY DEF ThreadInvariant, TypeOK, OperationShapes
<1>1. /\ UNCHANGED <<canonical, kv, late, handoffs, made, limits>>
      /\ At(k, "batch") /\ project(pending[k], k)
  BY DEF BatchDone
<1>2. /\ op'[k].pc = "clear" /\ op'[k].kind = op[k].kind /\ op'[k].req = op[k].req
      /\ op'[k].plan = op[k].plan
      /\ \A c \in Coordinators \ {k} : op'[c] = op[c]
  <2>1. op' = [op EXCEPT ![k] = [op[k] EXCEPT !.pc = "clear"]]
    BY DEF BatchDone
  <2> QED
    BY <1>0, <2>1 DEF TypeOK, Operations
<1>3. pending'[k] = 0 /\ \A c \in Coordinators \ {k} : pending'[c] = pending[c]
  BY <1>0 DEF BatchDone, TypeOK
<1>4. OperationShape(k, op[k])'
  BY <1>0, <1>1, <1>2, <1>3 DEF OperationShape, Creation, Plans
<1> QED
  BY <1>1, <1>2, <1>3, <1>4, Projects DEF Alike

LEMMA FailsAfterStep ==
  ASSUME ThreadInvariant, TypeOK', NEW k \in Coordinators, FailsAfter(k), ~At(k, "clear"), ~At(k, "wake")
  PROVE  ThreadInvariant'
<1>0. TypeOK
  BY DEF ThreadInvariant
<1>1. limits'.late = limits.late
  BY <1>0, FaultType DEF FailsAfter
<1>2. UNCHANGED <<pending, canonical, late, handoffs, made>>
  BY DEF FailsAfter, durable
<1>3. Ends(k, "failed")
  BY DEF FailsAfter
<1>4. op'[k] = IdleOp /\ \A c \in Coordinators \ {k} : Alike(op'[c], op[c])
  <2>1. /\ op'[k] = IdleOp
        /\ \A c \in Coordinators \ {k} :
             op'[c] = op[c] \/ op'[c] = [op[c] EXCEPT !.answer = "failed"]
    BY <1>0, <1>3, EndsKeeps
  <2>2. \A c \in Coordinators : op[c] \in Operations(Len(made))
    BY <1>0 DEF TypeOK
  <2> QED
    BY <2>1, <2>2 DEF Alike, Operations
<1>5. OperationShape(k, op[k])'
  BY <1>4 DEF OperationShape, IdleOp
<1>6. CASE At(k, "kv") /\ putDocument(pending[k], k) /\ UNCHANGED <<wakes, guards, projected>>
  BY <1>1, <1>2, <1>4, <1>5, <1>6, PutsDocument
<1>7. CASE At(k, "batch") /\ project(pending[k], k) /\ UNCHANGED <<wakes, kv>>
  BY <1>1, <1>2, <1>4, <1>5, <1>7, Projects
<1> QED
  BY <1>6, <1>7, FailsAfterCases

LEMMA HandoffDoneStep ==
  ASSUME ThreadInvariant, TypeOK', HandoffDone
  PROVE  ThreadInvariant'
<1>0. TypeOK /\ Forum \in Coordinators /\ Forum \notin Threads
      /\ op[Forum] \in Operations(Len(made)) /\ OperationShape(Forum, op[Forum])
  BY CoordinatorsAssumption DEF ThreadInvariant, TypeOK, OperationShapes, Coordinators
<1>1. UNCHANGED <<canonical, kv, projected, guards, late, handoffs, made, limits>>
  BY DEF HandoffDone, outside
<1>2. /\ op'[Forum].pc = "clear" /\ op'[Forum].kind = op[Forum].kind
      /\ op'[Forum].req = op[Forum].req /\ op'[Forum].plan = op[Forum].plan
      /\ \A c \in Coordinators \ {Forum} : op'[c] = op[c]
  <2>1. op' = [op EXCEPT ![Forum] = [op[Forum] EXCEPT !.pc = "clear", !.answer = "none"]]
    BY DEF HandoffDone
  <2> QED
    BY <1>0, <2>1 DEF TypeOK, Operations
<1>3. pending'[Forum] = 0 /\ \A c \in Coordinators \ {Forum} : pending'[c] = pending[c]
  BY <1>0 DEF HandoffDone, TypeOK
<1>4. OperationShape(Forum, op[Forum])'
  BY <1>0, <1>1, <1>2, <1>3 DEF OperationShape
<1>5. ElsewhereKept(Forum)
  BY <1>1, <1>2, <1>3 DEF ElsewhereKept, PlansStay, Plans, Alike
<1>6. OnlyCreations' /\ Documents' /\ WritesAreOwned'
  BY <1>0, <1>1, <1>3
     DEF ThreadInvariant, OnlyCreations, Documents, Creation, Plans, WritesAreOwned, Coordinators
<1>7. ~limits.late => late' = {} /\ GuardsOwned'
  BY <1>1 DEF ThreadInvariant, Replicas, GuardsOwned
<1> QED
  BY <1>0, <1>1, <1>4, <1>5, <1>6, <1>7, LocalStep

\* A commit on a thread's coordinator: the new document is the one both copies
\* show, followed by the plan, whose receipt does not exist yet.
LEMMA StoreKeepsReplicas ==
  ASSUME ThreadInvariant, ~limits.late, NEW k \in Threads, NEW i \in Nat \ {0},
         NEW base \in Seq(Nat), kv[k] = base, projected[k] = base,
         canonical'[k] = Append(base, i), pending'[k] = i, UNCHANGED <<kv, projected, guards>>,
         made'[i].thread = k, made'[i].doc = canonical'[k], op'[k].pc # "batch",
         [plan |-> i, by |-> k] \notin guards
  PROVE  Settled(k)' /\ HalfWay(k)'
<1>1. Append(base, i) # <<>> /\ Before(canonical'[k]) = base
  BY AppendFront
<1>2. ~Guarded(k)'
  BY DEF Guarded
<1>3. Settled(k)'
  BY DEF Settled
<1>4. canonical'[k] = Append(Before(canonical'[k]), pending'[k])
  BY <1>1
<1>5. kv'[k] \in {canonical'[k], Before(canonical'[k])} /\ projected'[k] = Before(canonical'[k])
  BY <1>1
<1> QED
  BY <1>2, <1>3, <1>4, <1>5 DEF HalfWay

LEMMA CommitsHandoffStep ==
  ASSUME ThreadInvariant, TypeOK', NEW k \in Coordinators, CommitsHandoff(k)
  PROVE  ThreadInvariant'
<1> DEFINE i == op[k].plan
           o == [op[k] EXCEPT !.committed = TRUE]
<1>0. TypeOK /\ op[k] \in Operations(Len(made)) /\ OperationShape(k, op[k])
  BY DEF ThreadInvariant, TypeOK, OperationShapes
<1>1. /\ UNCHANGED <<kv, projected, guards, late, handoffs, made, limits>>
      /\ op[k].pc = "store" /\ op[k].kind = "commit"
  BY DEF CommitsHandoff, outside, At
<1>2. /\ k \in Threads /\ k # Forum /\ Creation(i) /\ made[i].thread = k /\ pending[k] = 0
      /\ canonical[k] = <<>> /\ i \in Plans /\ k \notin Old /\ made[i].doc = <<i>>
  BY <1>0, <1>1, CoordinatorsAssumption DEF OperationShape, StartsFresh, Creation
<1>3. /\ pending' = [pending EXCEPT ![k] = i]
      /\ canonical' = [canonical EXCEPT ![k] = <<i>>]
  BY <1>2 DEF CommitsHandoff, storePlan
<1>4. /\ pending'[k] = i /\ canonical'[k] = <<i>>
      /\ \A c \in Coordinators \ {k} : pending'[c] = pending[c]
      /\ \A t \in Threads \ {k} : canonical'[t] = canonical[t]
  BY <1>0, <1>2, <1>3 DEF TypeOK
<1>5. /\ op'[k] = Replaying(k, o)
      /\ \A c \in Coordinators \ {k} : op'[c] = op[c]
  BY <1>0 DEF CommitsHandoff, TypeOK
<1>6. i \in Nat \ {0}
  BY <1>0, <1>2, PlanType
<1>7. op'[k].pc = "kv" /\ op'[k].kind = "commit" /\ op'[k].plan = i
  <2>1. o.pc = "store" /\ o.kind = "commit" /\ o.plan = i
    BY <1>0, <1>1 DEF Operations
  <2> QED
    BY <1>0, <1>2, <1>4, <1>5, <1>6, <2>1 DEF Replaying, Operations
<1> HIDE DEF i, o
<1>8. OperationShape(k, op[k])'
  BY <1>1, <1>2, <1>4, <1>6, <1>7 DEF OperationShape, Creation, Plans
<1>9. ElsewhereKept(k)
  BY <1>1, <1>4, <1>5 DEF ElsewhereKept, PlansStay, Plans, Alike
<1>10. OnlyCreations' /\ Documents'
  <2>1. pending'[Forum] = pending[Forum]
    BY <1>2, <1>4 DEF Coordinators
  <2> QED
    BY <1>1, <2>1 DEF ThreadInvariant, OnlyCreations, Documents, Creation, Plans
<1>12. WritesAreOwned'
  <2>1. <<i>> # <<>>
    BY <1>6, SingleFront
  <2> QED
    BY <1>1, <1>4, <2>1 DEF ThreadInvariant, WritesAreOwned, Coordinators
<1>11. ASSUME ~limits.late
       PROVE  /\ late' = {} /\ GuardsOwned' /\ canonical'[k] # <<>>
              /\ Settled(k)' /\ HalfWay(k)'
  <2>1. Replicas
    BY <1>11 DEF ThreadInvariant
  <2>2. kv[k] = <<>> /\ projected[k] = <<>>
    BY <1>2, <2>1 DEF Replicas, NewAreEmpty, Settled
  <2>3. \A g \in guards : g.by # k
    BY <1>2, <2>1 DEF Replicas, GuardsOwned
  <2>4. GuardsOwned'
    BY <1>0, <1>1, <1>4, <2>1, <2>3 DEF Replicas, GuardsOwned, TypeOK
  <2>5. <<>> \in Seq(Nat) /\ <<i>> = Append(<<>>, i) /\ <<i>> # <<>>
    BY <1>6
  <2>6. Settled(k)' /\ HalfWay(k)'
    BY <1>1, <1>2, <1>4, <1>6, <1>7, <1>11, <2>2, <2>3, <2>5, StoreKeepsReplicas
  <2> QED
    BY <1>1, <1>4, <2>1, <2>4, <2>5, <2>6 DEF Replicas
<1> QED
  BY <1>1, <1>2, <1>4, <1>8, <1>9, <1>10, <1>11, <1>12, LocalStep

LEMMA CommitsOwnStep ==
  ASSUME ThreadInvariant, TypeOK', NEW k \in Coordinators, CommitsOwn(k)
  PROVE  ThreadInvariant'
<1> DEFINE n == Len(made) + 1
           o == [op[k] EXCEPT !.committed = TRUE, !.plan = n]
           Records == [req : Requests, thread : Threads, doc : Seq(Nat)]
<1>0. /\ TypeOK /\ op[k] \in Operations(Len(made)) /\ OperationShape(k, op[k])
      /\ Len(made) \in Nat /\ n \in Nat \ {0} /\ Len(made) <= n /\ n \notin Plans
  <2>1. TypeOK /\ op[k] \in Operations(Len(made)) /\ OperationShape(k, op[k])
    BY DEF ThreadInvariant, TypeOK, OperationShapes
  <2>2. Len(made) \in Nat
    BY <2>1 DEF TypeOK
  <2> QED
    BY <2>1, <2>2 DEF Plans
<1>1. /\ UNCHANGED <<kv, projected, guards, late, limits>>
      /\ op[k].pc = "store" /\ op[k].kind = "mutate" /\ made' = Append(made, NewPlan(k))
      /\ StartReplay(k, o) /\ storePlan(n, k, NewPlan(k))
  BY DEF CommitsOwn, outside, At
<1>2. /\ op[k].req \in Requests /\ pending[k] = 0 /\ StartsFresh(k, op[k])
      /\ op[k].base \in Seq(Nat)
  BY <1>0, <1>1 DEF OperationShape, Operations
<1>3. /\ \A i \in Plans : i \in Plans' /\ made'[i] = made[i]
      /\ made'[n] = NewPlan(k) /\ n \in Plans' /\ Plans' = Plans \cup {n}
  <2>1. NewPlan(k) \in Records /\ made \in Seq(Records)
    BY <1>0, <1>1, NewPlanType DEF At, ThreadInvariant, TypeOK
  <2> HIDE DEF Records
  <2>2. Len(made') = n /\ made'[n] = NewPlan(k) /\ \A i \in 1..Len(made) : made'[i] = made[i]
    BY <1>0, <1>1, <2>1
  <2> QED
    BY <1>0, <2>2 DEF Plans
<1>4. /\ pending'[k] = n /\ \A c \in Coordinators \ {k} : pending'[c] = pending[c]
      /\ canonical' = IF k = Forum THEN canonical ELSE [canonical EXCEPT ![k] = NewPlan(k).doc]
  BY <1>0, <1>1 DEF storePlan, TypeOK
<1>5. pending' \in [Coordinators -> 0..n]
  BY <1>0, <1>1 DEF storePlan, TypeOK, PlansOrNone
<1>6. o \in Operations(n) /\ o.kind = "mutate" /\ o.req = op[k].req
  <2>1. op[k] \in Operations(n) /\ n \in 0..n
    BY <1>0, OperationsGrow
  <2> HIDE DEF n
  <2> QED
    BY <1>1, <2>1 DEF Operations
<1> HIDE DEF n, o
<1>7. /\ op'[k] = Replaying(k, o)
      /\ \A c \in Coordinators \ {k} : op'[c] = op[c]
      /\ \A m \in handoffs' : m \in handoffs \/ (k = Forum /\ m.plan = n)
  BY <1>0, <1>1, <1>4, <1>5, <1>6, StartReplayKeeps
<1>8. /\ op'[k].pc = (IF k = Forum THEN "handoff" ELSE "kv")
      /\ op'[k].kind = "mutate" /\ op'[k].req = op[k].req
  BY <1>0, <1>4, <1>6, <1>7 DEF Replaying, Operations
<1>9. NewPlan(k).thread = op[k].thread /\ NewPlan(k).doc = Append(op[k].base, n)
  BY DEF NewPlan, n
<1>10. OperationShape(k, op[k])'
  BY <1>0, <1>2, <1>4, <1>8 DEF OperationShape, Coordinators
<1>11. ElsewhereKept(k)
  <2>1. \A t \in Threads \ {k} : canonical'[t] = canonical[t]
    BY <1>0, <1>4 DEF TypeOK
  <2> QED
    BY <1>1, <1>3, <1>4, <1>7, <2>1 DEF ElsewhereKept, PlansStay, Alike
<1>12. OnlyCreations'
  <2>1. \A i : Creation(i) => Creation(i)'
    BY <1>11, CreationStays DEF ElsewhereKept
  <2>2. ASSUME k = Forum, NEW i, i = n
        PROVE  Creation(i)'
    <3>1. op[k].base = <<>> /\ op[k].thread \in Threads \ Old
      BY <1>1, <1>2, <2>2, CoordinatorsAssumption DEF StartsFresh
    <3>2. Append(<<>>, n) = <<n>>
      BY <1>0
    <3>3. n \in Plans' /\ made'[n].doc = <<n>> /\ made'[n].thread \in Threads \ Old
      BY <1>3, <1>9, <3>1, <3>2
    <3> QED
      BY <2>2, <3>3 DEF Creation
  <2>3. k # Forum => pending'[Forum] = pending[Forum]
    BY <1>4 DEF Coordinators
  <2> QED
    BY <1>4, <1>7, <2>1, <2>2, <2>3 DEF ThreadInvariant, OnlyCreations
<1>13. Documents'
  <2>1. Append(op[k].base, n) # <<>>
    BY <1>0, <1>2, AppendFront
  <2> QED
    BY <1>1, <1>3, <1>9, <2>1 DEF ThreadInvariant, Documents
<1>15. ASSUME k \in Threads
       PROVE  canonical'[k] = Append(op[k].base, n) /\ canonical'[k] # <<>>
  <2>1. k # Forum
    BY <1>15, CoordinatorsAssumption
  <2>2. canonical'[k] = Append(op[k].base, n)
    BY <1>0, <1>4, <1>9, <1>15, <2>1 DEF TypeOK
  <2>3. Append(op[k].base, n) # <<>>
    BY <1>0, <1>2, AppendFront
  <2> QED
    BY <2>2, <2>3
<1>16. WritesAreOwned'
  <2>1. \A t \in Threads : t # k => canonical'[t] = canonical[t] /\ pending'[t] = pending[t]
    BY <1>4, <1>11 DEF ElsewhereKept, Coordinators
  <2> QED
    BY <1>1, <1>15, <2>1 DEF ThreadInvariant, WritesAreOwned
<1>14. ASSUME ~limits.late
       PROVE  /\ late' = {} /\ GuardsOwned'
              /\ k \in Threads => canonical'[k] # <<>> /\ Settled(k)' /\ HalfWay(k)'
  <2>1. Replicas
    BY <1>14 DEF ThreadInvariant
  <2>2. late' = {}
    BY <1>1, <2>1 DEF Replicas
  <2>3. ASSUME k \in Threads
        PROVE  canonical'[k] # <<>> /\ Settled(k)' /\ HalfWay(k)'
    <3>1. k # Forum /\ op[k].base = readFreshThread(k) /\ op[k].thread = k
      BY <1>1, <1>2, <2>3, CoordinatorsAssumption DEF StartsFresh
    <3>2. canonical'[k] = Append(op[k].base, n)
      BY <1>0, <1>4, <1>9, <2>3, <3>1 DEF TypeOK
    <3>3. kv[k] = op[k].base /\ projected[k] = op[k].base
      BY <1>2, <2>1, <2>3, <3>1 DEF Replicas, Settled
    <3>4. [plan |-> n, by |-> k] \notin guards
      BY <1>0 DEF TypeOK
    <3>5. made'[n].thread = k /\ made'[n].doc = canonical'[k] /\ op'[k].pc # "batch"
      BY <1>3, <1>8, <1>9, <3>1, <3>2
    <3>6. Settled(k)' /\ HalfWay(k)'
      BY <1>0, <1>1, <1>2, <1>4, <1>14, <2>3, <3>2, <3>3, <3>4, <3>5, StoreKeepsReplicas
    <3>7. Append(op[k].base, n) # <<>>
      BY <1>0, <1>2, AppendFront
    <3> QED
      BY <3>2, <3>6, <3>7
  <2>4. GuardsOwned'
    <3>1. SUFFICES ASSUME NEW g \in guards
                   PROVE  made'[g.plan].thread = g.by /\ canonical'[g.by] # <<>>
      BY <1>1 DEF GuardsOwned
    <3>2. g.plan \in Plans /\ g.by \in Threads
      BY <1>0 DEF TypeOK
    <3>3. made'[g.plan].thread = g.by /\ canonical[g.by] # <<>>
      BY <1>3, <2>1, <3>2 DEF Replicas, GuardsOwned
    <3>4. g.by # k => canonical'[g.by] = canonical[g.by]
      BY <1>11, <3>2 DEF ElsewhereKept
    <3> QED
      BY <2>3, <3>2, <3>3, <3>4
  <2> QED
    BY <2>2, <2>3, <2>4
<1> QED
  BY <1>1, <1>10, <1>11, <1>12, <1>13, <1>14, <1>16, LocalStep

LEMMA FailsPendingStep ==
  ASSUME ThreadInvariant, TypeOK', NEW k \in Coordinators, FailsPending(k)
  PROVE  ThreadInvariant'
<1>0. TypeOK /\ limits.late /\ limits'.late = limits.late
  BY FaultType DEF ThreadInvariant, FailsPending
<1>1. UNCHANGED <<pending, canonical, kv, projected, guards, handoffs, made>>
  BY DEF FailsPending, durable
<1>2. op'[k] = IdleOp /\ \A c \in Coordinators \ {k} : Alike(op'[c], op[c])
  <2>1. /\ op'[k] = IdleOp
        /\ \A c \in Coordinators \ {k} :
             op'[c] = op[c] \/ op'[c] = [op[c] EXCEPT !.answer = "failed"]
    BY <1>0, EndsKeeps DEF FailsPending
  <2>2. \A c \in Coordinators : op[c] \in Operations(Len(made))
    BY <1>0 DEF TypeOK
  <2> QED
    BY <2>1, <2>2 DEF Alike, Operations
<1>3. OperationShape(k, op[k])'
  BY <1>2 DEF OperationShape, IdleOp
<1>4. ElsewhereKept(k)
  BY <1>1, <1>2 DEF ElsewhereKept, PlansStay, Plans
<1>5. OnlyCreations' /\ Documents'
  BY <1>1 DEF ThreadInvariant, OnlyCreations, Documents, Creation, Plans
<1>6. WritesAreOwned'
  <2>1. At(k, "kv") \/ At(k, "batch") => pending[k] # 0 /\ k \in Threads
    BY PendingPlan
  <2>2. \A c \in late' : c \in late \/ (c.call = op[k].pc /\ c.plan = pending[k] /\ c.by = k)
    BY DEF FailsPending, Issued
  <2> QED
    BY <1>1, <2>1, <2>2 DEF ThreadInvariant, WritesAreOwned, At
<1> QED
  BY <1>0, <1>3, <1>4, <1>5, <1>6, LocalStep

LEMMA LateCallStep ==
  ASSUME ThreadInvariant, TypeOK', LateCall
  PROVE  ThreadInvariant'
<1>0. TypeOK
  BY DEF ThreadInvariant
<1>1. PICK c \in late : /\ TakesEffect(c) /\ late' = late \ {c}
                        /\ UNCHANGED <<durable, handoffs, nudges, op, made, expired, limits>>
  BY DEF LateCall
<1> DEFINE k == c.by
<1>2. /\ k \in Coordinators
      /\ c.call \in {"kv", "batch"} => k \in Threads /\ c.plan \in Plans /\ canonical[k] # <<>>
  BY <1>0 DEF ThreadInvariant, WritesAreOwned, TypeOK, PlansOrNone, Plans
<1>3. limits.late /\ limits'.late
  BY <1>1 DEF ThreadInvariant, Replicas
<1>4. UNCHANGED <<pending, canonical, handoffs, made, op>>
  BY <1>1 DEF durable
<1>5. kv' = kv \/ (c.call = "kv" /\ kv' = [kv EXCEPT ![k] = made[c.plan].doc])
  BY <1>1 DEF TakesEffect, putDocument
<1>6. OperationShape(k, op[k])'
  <2>1. OperationShape(k, op[k])
    BY <1>2 DEF ThreadInvariant, OperationShapes
  <2>2. op[k].pc \in {"wake", "store"} => StartsFresh(k, op[k])'
    BY <1>2, <1>4, <1>5, <2>1 DEF OperationShape, StartsFresh, readFreshThread
  <2> QED
    BY <1>4, <2>1, <2>2 DEF OperationShape, Creation, Plans
<1>7. ElsewhereKept(k)
  <2>1. \A t \in Threads \ {k} : projected'[t] = projected[t]
    BY <1>0, <1>1, <1>2 DEF TakesEffect, project, TypeOK
  <2>2. \A t \in Threads \ {k} : kv'[t] = kv[t]
    BY <1>0, <1>2, <1>5 DEF TypeOK
  <2>3. \A g \in guards \cup guards' : g.by # k => (g \in guards <=> g \in guards')
    BY <1>1 DEF TakesEffect, project, clearDiscovery
  <2> QED
    BY <1>4, <2>1, <2>2, <2>3 DEF ElsewhereKept, PlansStay, Plans, Alike
<1>8. OnlyCreations'
  BY <1>4 DEF ThreadInvariant, OnlyCreations, Creation, Plans
<1>9. Documents'
  <2>1. c.call = "kv" => made[c.plan].doc # <<>>
    BY <1>2 DEF ThreadInvariant, Documents
  <2>2. \A t \in Old : kv'[t] # <<>>
    BY <1>0, <1>5, <2>1, CoordinatorsAssumption DEF ThreadInvariant, Documents, TypeOK
  <2> QED
    BY <1>4, <2>2 DEF ThreadInvariant, Documents, Plans
<1>10. WritesAreOwned'
  BY <1>1, <1>4 DEF ThreadInvariant, WritesAreOwned
<1> HIDE DEF k
<1> QED
  BY <1>2, <1>3, <1>6, <1>7, <1>8, <1>9, <1>10, LocalStep

LEMMA StutterStep ==
  ASSUME ThreadInvariant, UNCHANGED vars
  PROVE  Quiet(Forum)
<1>1. UNCHANGED <<pending, canonical, kv, projected, made, late, limits, handoffs, guards, op>>
  BY DEF vars, durable, outside
<1>2. OperationShape(Forum, op[Forum])
  BY DEF ThreadInvariant, OperationShapes, Coordinators
<1> QED
  BY <1>1, <1>2 DEF Quiet, Alike, ThreadInvariant, OnlyCreations

LEMMA InvariantStep ==
  ASSUME ThreadInvariant, [Next]_vars
  PROVE  ThreadInvariant'
<1>0. TypeOK' /\ Forum \in Coordinators
  BY TypeStep DEF ThreadInvariant, Coordinators
<1>1. CASE Begins
  BY <1>0, <1>1, BeginsQuiet, QuietStep
<1>2. ASSUME NEW k \in Coordinators, Runs(k)
      PROVE  ThreadInvariant'
  <2>1. CASE \/ RepeatsReply(k) \/ Rejects(k) \/ CommitRefused(k) \/ RepeatsCommit(k)
             \/ FindsThread(k) \/ Recovered(k) \/ AlarmDone(k) \/ Completes(k)
    BY <1>0, <2>1, EarlierQuiet, QuietStep
  <2>2. CASE Stages(k)
    BY <1>0, <2>2, StagesQuiet, QuietStep
  <2>3. CASE AcceptsHandoff(k) \/ WakeStored(k)
    BY <1>0, <2>3, AcceptsOrWakesQuiet, QuietStep
  <2>4. CASE KvWritten(k)
    BY <1>0, <2>4, KvWrittenStep
  <2>5. CASE BatchDone(k)
    BY <1>0, <2>5, BatchDoneStep
  <2>6. CASE CommitsOwn(k)
    BY <1>0, <2>6, CommitsOwnStep
  <2>7. CASE CommitsHandoff(k)
    BY <1>0, <2>7, CommitsHandoffStep
  <2> QED
    BY <1>2, <2>1, <2>2, <2>3, <2>4, <2>5, <2>6, <2>7 DEF Runs
<1>3. ASSUME NEW k \in Coordinators, Fails(k)
      PROVE  ThreadInvariant'
  <2>1. CASE FailsBefore(k) \/ (FailsAfter(k) /\ (At(k, "clear") \/ At(k, "wake")))
    BY <1>0, <2>1, FailsQuiet, QuietStep
  <2>2. CASE FailsAfter(k) /\ ~At(k, "clear") /\ ~At(k, "wake")
    BY <1>0, <2>2, FailsAfterStep
  <2>3. CASE FailsPending(k)
    BY <1>0, <2>3, FailsPendingStep
  <2> QED
    BY <1>3, <2>1, <2>2, <2>3 DEF Fails
<1>4. CASE HandoffDone
  BY <1>0, <1>4, HandoffDoneStep
<1>5. CASE HandoffRefused \/ ReceiptExpires
  BY <1>0, <1>5, RefusedOrExpiresQuiet, QuietStep
<1>6. CASE LateCall
  BY <1>0, <1>6, LateCallStep
<1>7. CASE UNCHANGED vars
  BY <1>0, <1>7, StutterStep, QuietStep
<1> QED
  BY <1>1, <1>2, <1>3, <1>4, <1>5, <1>6, <1>7 DEF Next

LEMMA InvariantInit ==
  ASSUME Init
  PROVE  ThreadInvariant
<1>1. TypeOK
  BY InitType
<1>2. OperationShapes
  BY DEF Init, OperationShapes, OperationShape, IdleOp
<1>3. OnlyCreations /\ Documents /\ WritesAreOwned
  <2>1. /\ Plans = {} /\ handoffs = {} /\ late = {} /\ pending[Forum] = 0
        /\ \A t \in Threads : pending[t] = 0
    BY DEF Init, Plans, Coordinators
  <2>2. \A t \in Old : kv[t] = <<0>>
    BY CoordinatorsAssumption DEF Init
  <2>3. \A t \in Old : kv[t] # <<>>
    BY <2>2
  <2>4. OnlyCreations
    BY <2>1 DEF OnlyCreations
  <2>5. Documents
    BY <2>1, <2>3 DEF Documents
  <2>6. WritesAreOwned
    BY <2>1 DEF WritesAreOwned
  <2> QED
    BY <2>4, <2>5, <2>6
<1>4. Replicas
  BY DEF Init, Replicas, GuardsOwned, NewAreEmpty, Settled, readFreshThread, Coordinators
<1> QED
  BY <1>1, <1>2, <1>3, <1>4 DEF ThreadInvariant

(***************************************************************************)
(* The theorems.                                                           *)
(***************************************************************************)
\* Every await of an operation of thread-mutations.ts knows what it relies on,
\* and a thread's three copies differ by the pending plan at most.
THEOREM ThreadInvariantHolds == Spec => []ThreadInvariant
  BY InvariantInit, InvariantStep, PTL DEF Spec

\* Plans, documents, receipts and operations keep their declared shape.
THEOREM ThreadTypeCorrect == Spec => []TypeOK
<1>1. ThreadInvariant => TypeOK
  BY DEF ThreadInvariant
<1> QED
  BY <1>1, ThreadInvariantHolds, PTL

\* KV and the D1 projection are at most the pending plan behind the canonical
\* document, and equal to it when replayThreadMutation has nothing to do.
THEOREM ProjectionFollows == Spec => []ProjectionFollowsCanonical
<1>1. ThreadInvariant => ProjectionFollowsCanonical
  <2>1. SUFFICES ASSUME ThreadInvariant, ~limits.late, NEW t \in Threads, canonical[t] # <<>>
                 PROVE  LET doc == canonical[t]
                            before == SubSeq(doc, 1, Len(doc) - 1)
                        IN IF pending[t] = 0 THEN kv[t] = doc /\ projected[t] = doc
                           ELSE \/ kv[t] = doc /\ projected[t] \in {doc, before}
                                \/ kv[t] = before /\ projected[t] = before
    BY DEF ProjectionFollowsCanonical
  <2>2. Settled(t) /\ (pending[t] # 0 => HalfWay(t))
    BY <2>1 DEF ThreadInvariant, Replicas
  <2> QED
    BY <2>1, <2>2 DEF Settled, HalfWay, Before, readFreshThread
<1> QED
  BY <1>1, ThreadInvariantHolds, PTL
=============================================================================
