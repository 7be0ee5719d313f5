---------------------------- MODULE AnswerProofs ----------------------------
(***************************************************************************)
(* Proofs about what ThreadMutation tells its clients, for every set of    *)
(* threads and requests and every bound, late calls included; and that it  *)
(* implements PlanLog unless a call takes effect after it was given up on. *)
(***************************************************************************)
EXTENDS ThreadProofs, PlanLogRefinement

(***************************************************************************)
(* What a step changes, for the answers.                                   *)
(***************************************************************************)
\* An operation that is the same but for the answer it is given.
Answered(p, o) == p = o \/ \E answer \in {"ok", "failed"} : p = [o EXCEPT !.answer = answer]

\* A step of coordinator k leaves the others alone, but for an answer.
Elsewhere(k) ==
  /\ limits'.late = limits.late
  /\ \A c \in Coordinators \ {k} :
       /\ pending'[c] = pending[c] /\ receipts'[c] = receipts[c] /\ alarm'[c] = alarm[c]
       /\ ~limits.late => (c \in wakes' <=> c \in wakes)
       /\ Answered(op'[c], op[c])
  /\ \A t \in Threads \ {k} : canonical'[t] = canonical[t] /\ kv'[t] = kv[t]
  /\ expired \subseteq expired'

\* It commits, writes and projects nothing; receipts may be pruned.
Calm(k) ==
  /\ UNCHANGED <<pending, canonical, kv, projected, made, late>>
  /\ \A key \in Keys : \/ receipts'[k][key] = receipts[k][key]
                       \/ receipts[k][key] \in expired /\ receipts'[k][key] = 0
  /\ pending[k] # 0 => alarm'[k] = alarm[k] /\ (k \in wakes => k \in wakes')
  /\ guards' \subseteq guards

\* It writes or projects what is pending.
Replays(k) ==
  /\ UNCHANGED <<canonical, receipts, made, alarm, expired>>
  /\ ~limits.late => wakes' = wakes
  /\ k \in Threads => kv'[k] = kv[k] \/ canonical[k] # <<>>
  /\ \A i \in Plans : Projected(i) => Projected(i)'
  /\ pending'[k] = pending[k] \/ pending'[k] = 0
  /\ \A i \in Plans : i = pending[k] => pending'[k] = i \/ Projected(i)'
  /\ \A g \in guards' : made[g.plan].thread = g.by
  /\ \A c \in late' : c.call = "batch" => made[c.plan].thread = c.by
  /\ \A i \in Plans : (\E g \in guards' : g.plan = i) => Projected(i)'

\* Whoever answered for a plan still does.
CarriedOn ==
  /\ PlansStay
  /\ \A i \in Plans : Projected(i) => Projected(i)'
  /\ \A c \in Coordinators, i \in Plans : Carried(c, i) => Carried(c, i)'

LEMMA CalmCarries ==
  ASSUME TypeOK, NEW k \in Coordinators, Calm(k)
  PROVE  CarriedOn
<1>1. PlansStay /\ projected' = projected /\ pending' = pending /\ made' = made
  BY DEF Calm, PlansStay, Plans
<1> QED
  BY <1>1 DEF CarriedOn, Carried, Projected

LEMMA ReplaysCarries ==
  ASSUME TypeOK, NEW k \in Coordinators, Elsewhere(k), Replays(k)
  PROVE  CarriedOn
<1>1. PlansStay
  BY DEF Replays, PlansStay, Plans
<1>2. \A i \in Plans : Projected(i) => Projected(i)'
  BY DEF Replays
<1>3. ASSUME NEW c \in Coordinators, NEW i \in Plans, pending[c] = i
      PROVE  pending'[c] = i \/ Projected(i)'
  BY <1>3 DEF Replays, Elsewhere
<1> QED
  BY <1>1, <1>2, <1>3 DEF CarriedOn, Carried

LEMMA KeptReceipt ==
  ASSUME TypeOK, NEW k \in Coordinators, NEW key \in Keys, receipts[k][key] # 0
  PROVE  receipts[k][key] \in Plans
  BY DEF TypeOK, PlansOrNone, Plans

\* Receipts that are neither made nor replaced.
LEMMA ReceiptsShrink ==
  ASSUME TypeOK, NEW k \in Coordinators, Elsewhere(k), Calm(k) \/ Replays(k)
  PROVE  \A c \in Coordinators, key \in Keys :
           \/ receipts'[c][key] = receipts[c][key]
           \/ receipts[c][key] \in expired /\ receipts'[c][key] = 0
  BY DEF Elsewhere, Calm, Replays

(***************************************************************************)
(* The parts of AnswerInvariant that speak of what is stored.              *)
(***************************************************************************)
Stored ==
  /\ ReceiptsOwned /\ ReceiptsStand /\ CarriedOutOnce /\ Batches /\ NewAreEmpty /\ Creations
  /\ PendingIsDiscoverable

ReceiptsKept ==
  \A k \in Coordinators, key \in Keys :
    receipts[k][key] \in Plans \ expired => receipts'[k][key] = receipts[k][key]

\* A step that commits nothing.
LEMMA StoredStays ==
  ASSUME ThreadInvariant, TypeOK', Stored, NEW k \in Coordinators, Elsewhere(k),
         Calm(k) \/ Replays(k)
  PROVE  Stored' /\ ReceiptsKept /\ CarriedOn
<1>0. TypeOK
  BY DEF ThreadInvariant
<1>1. CarriedOn
  BY <1>0, CalmCarries, ReplaysCarries
<1>2. /\ \A c \in Coordinators, key \in Keys :
           \/ receipts'[c][key] = receipts[c][key]
           \/ receipts[c][key] \in expired /\ receipts'[c][key] = 0
      /\ expired \subseteq expired'
  BY <1>0, ReceiptsShrink DEF Elsewhere
<1>3. UNCHANGED <<canonical, made>> /\ Plans' = Plans
  BY DEF Calm, Replays, Plans
<1>4. ReceiptsOwned'
  <2>1. SUFFICES ASSUME NEW c \in Coordinators, NEW key \in Keys, receipts'[c][key] # 0
                 PROVE  /\ Carried(c, receipts[c][key])'
                        /\ c \in Threads => made'[receipts'[c][key]].thread = c /\ canonical'[c] # <<>>
    BY DEF ReceiptsOwned
  <2>2. PICK i : i = receipts[c][key]
    OBVIOUS
  <2>3. receipts'[c][key] = i /\ i # 0
    BY <1>2, <2>1, <2>2
  <2>4. i \in Plans
    BY <1>0, <2>2, <2>3, KeptReceipt
  <2>5. Carried(c, i) /\ (c \in Threads => made[i].thread = c /\ canonical[c] # <<>>)
    BY <2>2, <2>3 DEF Stored, ReceiptsOwned
  <2>6. Carried(c, i)'
    BY <1>1, <2>4, <2>5 DEF CarriedOn
  <2> QED
    BY <1>3, <2>3, <2>5, <2>6 DEF Carried, Projected
<1>5. ReceiptsStand'
  <2>1. SUFFICES ASSUME NEW i \in Plans, i \notin expired
                 PROVE  receipts'[made[i].req.to][made[i].req.key] = i
    BY <1>2, <1>3 DEF ReceiptsStand
  <2>2. made[i].req.to \in Coordinators /\ made[i].req.key \in Keys
    BY <1>0, PlanType, CoordinatorsAssumption
  <2>3. receipts[made[i].req.to][made[i].req.key] = i
    BY <2>1 DEF Stored, ReceiptsStand
  <2> QED
    BY <1>2, <2>1, <2>2, <2>3
<1>6. CarriedOutOnce'
  BY <1>2, <1>3 DEF Stored, CarriedOutOnce
<1>7. Batches'
  <2>1. \A t \in Threads : pending'[t] # 0 => pending'[t] = pending[t]
    BY DEF Calm, Replays, Elsewhere, Coordinators
  <2>2. \A t \in Threads : pending'[t] # 0 => made'[pending'[t]].thread = t
    BY <1>3, <2>1 DEF Stored, Batches
  <2>3. \A g \in guards' : made'[g.plan].thread = g.by
    BY <1>3 DEF Calm, Replays, Stored, Batches
  <2>5. \A c \in late' : c.call = "batch" => made'[c.plan].thread = c.by
    BY <1>3 DEF Calm, Replays, Stored, Batches
  <2>4. \A g \in guards' : Projected(g.plan)'
    <3>1. SUFFICES ASSUME NEW g \in guards', NEW i, i = g.plan
                   PROVE  Projected(i)'
      OBVIOUS
    <3>2. i \in Plans
      BY <1>3, <3>1 DEF TypeOK
    <3>3. CASE Calm(k)
      BY <1>1, <3>1, <3>2, <3>3 DEF Calm, Stored, Batches, CarriedOn
    <3>4. CASE Replays(k)
      BY <3>1, <3>2, <3>4 DEF Replays
    <3> QED
      BY <3>3, <3>4
  <2> QED
    BY <2>2, <2>3, <2>4, <2>5 DEF Batches
<1>8. NewAreEmpty'
  <2>1. \A t \in Threads : kv'[t] = kv[t] \/ canonical[t] # <<>>
    BY DEF Calm, Replays, Elsewhere
  <2> QED
    BY <1>3, <2>1 DEF Stored, NewAreEmpty
<1>9. Creations'
  <2>1. \A i : Creation(i)' <=> Creation(i)
    BY <1>3 DEF Creation
  <2> QED
    BY <1>1, <1>3, <2>1 DEF Stored, Creations, CarriedOn, Creation, Coordinators
<1>10. PendingIsDiscoverable'
  <2>1. SUFFICES ASSUME NEW c \in Coordinators, pending'[c] # 0
                 PROVE  /\ alarm'[c] = "soon"
                        /\ ~limits.late => c \in wakes'
    BY DEF Elsewhere, PendingIsDiscoverable
  <2>2. pending[c] # 0
    BY <2>1 DEF Calm, Replays, Elsewhere
  <2>3. alarm[c] = "soon" /\ (~limits.late => c \in wakes)
    BY <2>2 DEF Stored, PendingIsDiscoverable
  <2>4. CASE c = k
    BY <2>2, <2>3, <2>4 DEF Calm, Replays
  <2>5. CASE c # k
    BY <2>3, <2>5 DEF Elsewhere
  <2> QED
    BY <2>4, <2>5
<1>11. ReceiptsKept
  BY <1>2 DEF ReceiptsKept
<1> QED
  BY <1>1, <1>4, <1>5, <1>6, <1>7, <1>8, <1>9, <1>10, <1>11 DEF Stored


\* A step that commits plan i: its own, or one that was handed over.
Commits(k, i) ==
  /\ PlansStay /\ Plans' = Plans \cup {i} /\ i # 0
  /\ UNCHANGED <<kv, projected, guards, late, wakes, expired>>
  /\ pending[k] = 0 /\ pending'[k] = i /\ alarm'[k] = "soon"
  /\ ~limits.late => k \in wakes
  /\ made'[i].req.key \in Keys
  /\ receipts[k][made'[i].req.key] \in expired \cup {0}
  /\ \A key \in Keys :
       receipts'[k][key] = IF key = made'[i].req.key THEN i ELSE receipts[k][key]
  /\ k \in Threads => canonical'[k] # <<>> /\ made'[i].thread = k
  /\ i \in Plans => k \in Threads \ Old /\ Creation(i) /\ canonical[k] = <<>>
  /\ i \notin Plans =>
       /\ made'[i].req.to = k /\ i \in Nat /\ \A j \in Plans : j < i
       /\ k = Forum <=> Creation(i)'
       /\ k = Forum => \A j \in Plans : made[j].thread # made'[i].thread
       /\ k \in Threads => k \in Old \/ canonical[k] # <<>>

LEMMA CommitsCarries ==
  ASSUME TypeOK, NEW k \in Coordinators, NEW i, Elsewhere(k), Commits(k, i)
  PROVE  CarriedOn
<1>1. PlansStay /\ projected' = projected
  BY DEF Commits
<1>2. \A j \in Plans : Projected(j) => Projected(j)'
  BY <1>1 DEF PlansStay, Projected
<1>3. ASSUME NEW c \in Coordinators, NEW j \in Plans, pending[c] = j
      PROVE  pending'[c] = j
  <2>1. j # 0
    BY <1>3 DEF Plans, TypeOK
  <2> QED
    BY <1>3, <2>1 DEF Commits, Elsewhere
<1> QED
  BY <1>1, <1>2, <1>3 DEF CarriedOn, Carried

LEMMA StoredCommits ==
  ASSUME ThreadInvariant, TypeOK', Stored, NEW k \in Coordinators, NEW i, Elsewhere(k),
         Commits(k, i)
  PROVE  Stored' /\ ReceiptsKept /\ CarriedOn
<1>0. TypeOK /\ \A j \in Plans : j # 0 /\ j \in Plans' /\ made'[j] = made[j]
  BY PlanType DEF ThreadInvariant, Commits, PlansStay
<1>1. CarriedOn
  BY <1>0, CommitsCarries
<1>2. \A t \in Threads : canonical[t] # <<>> => canonical'[t] # <<>>
  BY DEF Elsewhere, Commits
<1>3. \A c \in Coordinators \ {k} : receipts'[c] = receipts[c] /\ pending'[c] = pending[c]
  BY DEF Elsewhere
<1>4. ReceiptsOwned'
  <2>1. SUFFICES ASSUME NEW c \in Coordinators, NEW key \in Keys, receipts'[c][key] # 0
                 PROVE  /\ Carried(c, receipts[c][key])'
                        /\ c \in Threads => made'[receipts'[c][key]].thread = c /\ canonical'[c] # <<>>
    BY DEF ReceiptsOwned
  <2>2. PICK j : j = receipts'[c][key]
    OBVIOUS
  <2>3. CASE c = k /\ key = made'[i].req.key
    <3>1. j = i /\ pending'[c] = j
      BY <2>2, <2>3 DEF Commits
    <3> QED
      BY <2>2, <2>3, <3>1 DEF Commits, Carried
  <2>4. CASE ~(c = k /\ key = made'[i].req.key)
    <3>1. receipts[c][key] = j /\ j # 0
      BY <1>3, <2>1, <2>2, <2>4 DEF Commits
    <3>2. j \in Plans
      BY <1>0, <3>1, KeptReceipt
    <3>3. Carried(c, j) /\ (c \in Threads => made[j].thread = c /\ canonical[c] # <<>>)
      BY <3>1 DEF Stored, ReceiptsOwned
    <3>4. Carried(c, j)'
      BY <1>1, <3>2, <3>3 DEF CarriedOn
    <3>5. Carried(c, receipts[c][key])'
      BY <2>2, <3>4 DEF Carried, Projected
    <3> QED
      BY <1>0, <1>2, <2>2, <3>2, <3>3, <3>5
  <2> QED
    BY <2>3, <2>4
<1>5. ReceiptsStand' /\ ReceiptsKept
  <2>1. ASSUME NEW c \in Coordinators, NEW key \in Keys, receipts[c][key] \in Plans \ expired
        PROVE  receipts'[c][key] = receipts[c][key]
    BY <1>0, <1>3, <2>1 DEF Commits
  <2>2. ASSUME NEW j \in Plans', j \notin expired'
        PROVE  receipts'[made'[j].req.to][made'[j].req.key] = j
    <3>1. expired' = expired
      BY DEF Commits
    <3>2. CASE j \in Plans
      <4>1. made[j].req.to \in Coordinators /\ made[j].req.key \in Keys /\ made'[j] = made[j]
        BY <1>0, <3>2, PlanType, CoordinatorsAssumption
      <4>2. receipts[made[j].req.to][made[j].req.key] = j
        BY <2>2, <3>1, <3>2 DEF Stored, ReceiptsStand
      <4> QED
        BY <2>1, <2>2, <3>1, <3>2, <4>1, <4>2
    <3>3. CASE j \notin Plans
      BY <3>3 DEF Commits
    <3> QED
      BY <3>2, <3>3
  <2> QED
    BY <2>1, <2>2 DEF ReceiptsStand, ReceiptsKept
<1>6. CarriedOutOnce'
  <2>1. SUFFICES ASSUME NEW j \in Plans', NEW m \in Plans', j < m, made'[j].req = made'[m].req
                 PROVE  j \in expired'
    BY DEF CarriedOutOnce
  <2>2. expired' = expired
    BY DEF Commits
  <2>3. CASE j \in Plans /\ m \in Plans
    BY <1>0, <2>1, <2>2, <2>3 DEF Stored, CarriedOutOnce
  <2>4. CASE j \in Plans /\ m \notin Plans
    <3>1. m = i /\ made[j].req = made'[i].req /\ made[j].req.to = k
      BY <1>0, <2>1, <2>4 DEF Commits
    <3>2. j \notin expired => receipts[k][made'[i].req.key] = j
      BY <2>4, <3>1 DEF Stored, ReceiptsStand
    <3> QED
      BY <1>0, <2>2, <2>4, <3>2 DEF Commits
  <2>5. CASE j \notin Plans
    <3>1. j = i /\ i \notin Plans /\ i \in Nat
      BY <2>1, <2>5 DEF Commits
    <3>2. m \in Plans => m < i
      BY <3>1 DEF Commits
    <3>3. m \notin Plans => m = i
      BY DEF Commits
    <3> QED
      BY <2>1, <3>1, <3>2, <3>3, PlanType, <1>0
  <2> QED
    BY <2>3, <2>4, <2>5
<1>7. Batches'
  <2>1. \A g \in guards : g.plan \in Plans
    BY <1>0 DEF TypeOK
  <2>2. \A g \in guards' : made'[g.plan].thread = g.by
    BY <1>0, <2>1 DEF Commits, Stored, Batches
  <2>5. ASSUME NEW c \in late', c.call = "batch"
        PROVE  made'[c.plan].thread = c.by
    <3>1. c \in late /\ c.plan \in Plans
      BY <1>0, <2>5 DEF Commits, ThreadInvariant, WritesAreOwned, TypeOK, PlansOrNone, Plans
    <3> QED
      BY <1>0, <2>5, <3>1 DEF Stored, Batches
  <2>3. \A g \in guards' : Projected(g.plan)'
    <3>1. SUFFICES ASSUME NEW g \in guards, NEW j, j = g.plan
                   PROVE  Projected(j)'
      BY DEF Commits
    <3>2. j \in Plans /\ Projected(j)
      BY <2>1, <3>1 DEF Stored, Batches
    <3> QED
      BY <1>1, <3>2 DEF CarriedOn
  <2>4. ASSUME NEW t \in Threads, pending'[t] # 0
        PROVE  made'[pending'[t]].thread = t
    <3>1. CASE t = k
      BY <3>1 DEF Commits
    <3>2. CASE t # k
      <4>1. pending'[t] = pending[t] /\ pending[t] \in Plans
        BY <1>0, <1>3, <2>4, <3>2 DEF Coordinators, TypeOK, PlansOrNone, Plans
      <4> QED
        BY <1>0, <2>4, <4>1 DEF Stored, Batches
    <3> QED
      BY <3>1, <3>2
  <2> QED
    BY <2>2, <2>3, <2>4, <2>5 DEF Batches
<1>8. NewAreEmpty'
  BY <1>2 DEF Commits, Stored, NewAreEmpty
<1>9. Creations'
  <2>1. \A j \in Plans : Creation(j)' <=> Creation(j)
    BY <1>0 DEF Creation
  <2>2. ASSUME NEW j \in Plans'
        PROVE  made'[j].req.to = Forum <=> Creation(j)'
    BY <1>0, <2>1 DEF Commits, Stored, Creations
  <2>3. ASSUME NEW j \in Plans', NEW m \in Plans', Creation(j)', Creation(m)',
               made'[j].thread = made'[m].thread
        PROVE  j = m
    BY <1>0, <2>1, <2>3 DEF Commits, Stored, Creations
  <2>4. ASSUME NEW t \in Threads \ Old, canonical'[t] # <<>>
        PROVE  \E j \in Plans' : Creation(j)' /\ made'[j].thread = t /\ Carried(t, j)'
    <3>1. CASE canonical[t] # <<>>
      <4>1. PICK j \in Plans : Creation(j) /\ made[j].thread = t /\ Carried(t, j)
        BY <3>1 DEF Stored, Creations
      <4>2. Carried(t, j)'
        BY <1>1, <4>1 DEF CarriedOn, Coordinators
      <4> QED
        BY <1>0, <2>1, <4>1, <4>2
    <3>2. CASE canonical[t] = <<>>
      <4>1. t = k
        BY <2>4, <3>2 DEF Elsewhere
      <4>2. i \in Plans /\ Creation(i) /\ made'[i].thread = t /\ pending'[t] = i
        BY <2>4, <3>2, <4>1 DEF Commits
      <4>3. Carried(t, i)'
        BY <4>2 DEF Carried
      <4> QED
        BY <1>0, <2>1, <4>2, <4>3
    <3> QED
      BY <3>1, <3>2
  <2> QED
    BY <2>2, <2>3, <2>4 DEF Creations
<1>10. PendingIsDiscoverable'
  <2>1. SUFFICES ASSUME NEW c \in Coordinators, pending'[c] # 0
                 PROVE  /\ alarm'[c] = "soon"
                        /\ ~limits.late => c \in wakes'
    BY DEF Elsewhere, PendingIsDiscoverable
  <2>2. CASE c = k
    BY <2>2 DEF Commits
  <2>3. CASE c # k
    BY <2>1, <2>3 DEF Elsewhere, Stored, PendingIsDiscoverable
  <2> QED
    BY <2>2, <2>3
<1> QED
  BY <1>1, <1>4, <1>5, <1>6, <1>7, <1>8, <1>9, <1>10 DEF Stored


(***************************************************************************)
(* Which actions are calm, and which replay or commit.                     *)
(***************************************************************************)
OthersAnswered(k) == \A c \in Coordinators \ {k} : Answered(op'[c], op[c])

LEMMA EndsAnswers ==
  ASSUME TypeOK, NEW k \in Coordinators, NEW answer \in {"ok", "failed"}, Ends(k, answer)
  PROVE  OthersAnswered(k) /\ op'[k] = IdleOp
<1>1. /\ op'[k] = IdleOp
      /\ \A c \in Coordinators \ {k} :
           op'[c] = op[c] \/ op'[c] = [op[c] EXCEPT !.answer = answer]
  BY EndsKeeps
<1> QED
  BY <1>1, Zenon DEF OthersAnswered, Answered

LEMMA OnlyOneAnswers ==
  ASSUME NEW k, \A c \in Coordinators \ {k} : op'[c] = op[c]
  PROVE  OthersAnswered(k)
  BY Zenon DEF OthersAnswered, Answered

LEMMA StillCalm ==
  ASSUME TypeOK, NEW k \in Coordinators, UNCHANGED <<durable, outside, made>>,
         expired \subseteq expired', OthersAnswered(k), limits'.late = limits.late
  PROVE  Elsewhere(k) /\ Calm(k)
  BY DEF Elsewhere, Calm, OthersAnswered, durable, outside

\* What is deleted once a replay is over was of a coordinator with nothing pending.
LEMMA ClearsCalm ==
  ASSUME ThreadInvariant, NEW k \in Coordinators, Clears(k), UNCHANGED <<pending, canonical>>,
         receipts' = receipts \/ pruneThreadMutationReceipts(k),
         alarm' = alarm \/ scheduleAlarm(k), OthersAnswered(k)
  PROVE  Elsewhere(k) /\ Calm(k)
<1>1. TypeOK /\ pending[k] = 0
  BY ClearsShape DEF ThreadInvariant, Clears
<1>2. /\ \A c \in Coordinators \ {k} : receipts'[c] = receipts[c]
      /\ \A key \in Keys : \/ receipts'[k][key] = receipts[k][key]
                           \/ receipts[k][key] \in expired /\ receipts'[k][key] = 0
  <2>1. Due(k) \subseteq expired
    BY DEF Due
  <2>2. CASE pruneThreadMutationReceipts(k)
    <3>1. receipts' = [receipts EXCEPT ![k] = pruned(k, Due(k))]
      BY <2>2 DEF pruneThreadMutationReceipts
    <3>2. receipts'[k] = pruned(k, Due(k)) /\ \A c \in Coordinators \ {k} : receipts'[c] = receipts[c]
      BY <1>1, <3>1 DEF TypeOK
    <3> QED
      BY <2>1, <3>2 DEF pruned
  <2> QED
    BY <2>2
<1>3. \A c \in Coordinators \ {k} : alarm'[c] = alarm[c]
  BY <1>1 DEF scheduleAlarm, TypeOK
<1>4. /\ UNCHANGED <<projected, kv, late, made, expired, limits>>
      /\ wakes' = wakes \ {k} /\ guards' \subseteq guards
  BY DEF Clears, clearDiscovery
<1> QED
  BY <1>1, <1>2, <1>3, <1>4 DEF Elsewhere, Calm, OthersAnswered

LEMMA BeginsCalm ==
  ASSUME TypeOK, Begins
  PROVE  \E k \in Coordinators : Elsewhere(k) /\ Calm(k)
<1>1. UNCHANGED <<durable, outside, made>> /\ expired' = expired /\ limits' = limits
  BY DEF Begins, Request, TakeHandoff, Sweep, Recover, AlarmFires
<1>2. SUFFICES \E k \in Coordinators : \A c \in Coordinators \ {k} : op'[c] = op[c]
  BY <1>1, OnlyOneAnswers, StillCalm
<1>3. ASSUME NEW r \in Requests, Request(r)
      PROVE  \A c \in Coordinators \ {r.to} : op'[c] = op[c]
  BY <1>3 DEF Request, StartReplay, TypeOK
<1>4. ASSUME NEW m \in handoffs, TakeHandoff(m)
      PROVE  \A c \in Coordinators \ {made[m.plan].thread} : op'[c] = op[c]
  BY <1>4 DEF TakeHandoff, TypeOK
<1>5. \A m \in handoffs : made[m.plan].thread \in Coordinators
  BY PlanType DEF TypeOK, Coordinators
<1>6. ASSUME NEW k \in Coordinators, Sweep(k) \/ Recover(k) \/ AlarmFires(k)
      PROVE  \A c \in Coordinators \ {k} : op'[c] = op[c]
  BY <1>6 DEF Sweep, Recover, AlarmFires, StartReplay, TypeOK
<1> QED
  BY <1>3, <1>4, <1>5, <1>6, CoordinatorsAssumption DEF Begins

\* The operation goes on, and only its own record changes.
LEMMA GoesOnAnswers ==
  ASSUME TypeOK, NEW k \in Coordinators,
         \/ Stages(k) \/ AcceptsHandoff(k) \/ WakeStored(k) \/ KvWritten(k) \/ BatchDone(k)
         \/ CommitsOwn(k) \/ CommitsHandoff(k)
  PROVE  OthersAnswered(k)
<1>1. \A c \in Coordinators \ {k} : op'[c] = op[c]
  <2>1. CASE Stages(k)
    BY <2>1 DEF Stages, TypeOK
  <2>2. CASE AcceptsHandoff(k) \/ WakeStored(k) \/ KvWritten(k) \/ BatchDone(k)
    BY <2>2 DEF AcceptsHandoff, WakeStored, KvWritten, BatchDone, TypeOK
  <2>3. CASE CommitsOwn(k) \/ CommitsHandoff(k)
    BY <2>3 DEF CommitsOwn, CommitsHandoff, StartReplay, TypeOK
  <2> QED
    BY <2>1, <2>2, <2>3
<1> QED
  BY <1>1, OnlyOneAnswers

LEMMA RunsCalm ==
  ASSUME ThreadInvariant, NEW k \in Coordinators,
         \/ RepeatsReply(k) \/ Rejects(k) \/ CommitRefused(k) \/ RepeatsCommit(k)
         \/ FindsThread(k) \/ Recovered(k) \/ AlarmDone(k) \/ Completes(k)
         \/ Stages(k) \/ AcceptsHandoff(k)
  PROVE  Elsewhere(k) /\ Calm(k)
<1>0. TypeOK
  BY DEF ThreadInvariant
<1>1. OthersAnswered(k)
  <2>1. CASE Stages(k) \/ AcceptsHandoff(k)
    BY <1>0, <2>1, GoesOnAnswers
  <2>2. CASE ~(Stages(k) \/ AcceptsHandoff(k))
    <3>1. PICK answer \in {"ok", "failed"} : Ends(k, answer)
      BY <2>2 DEF RepeatsReply, Rejects, CommitRefused, RepeatsCommit, FindsThread, Recovered,
                  AlarmDone, Completes
    <3> QED
      BY <1>0, <3>1, EndsAnswers
  <2> QED
    BY <2>1, <2>2
<1>2. /\ Clears(k) /\ UNCHANGED <<pending, canonical>>
      /\ receipts' = receipts \/ pruneThreadMutationReceipts(k)
      /\ alarm' = alarm \/ scheduleAlarm(k)
  BY DEF RepeatsReply, Rejects, CommitRefused, RepeatsCommit, FindsThread, Recovered, AlarmDone,
         Completes, Stages, AcceptsHandoff, Earlier, durable
<1> QED
  BY <1>1, <1>2, ClearsCalm

LEMMA WakeStoredCalm ==
  ASSUME ThreadInvariant, NEW k \in Coordinators, WakeStored(k)
  PROVE  Elsewhere(k) /\ Calm(k)
<1>1. TypeOK /\ OthersAnswered(k)
  BY GoesOnAnswers DEF ThreadInvariant
<1>2. /\ UNCHANGED <<pending, canonical, receipts, alarm, guards, projected, kv, late, made, expired>>
      /\ wakes' = wakes \cup {k} /\ limits' = limits
  BY DEF WakeStored, storeWake, durable
<1> QED
  BY <1>1, <1>2 DEF Elsewhere, Calm, OthersAnswered

LEMMA FailsKeepLate ==
  ASSUME TypeOK, NEW k \in Coordinators, Fails(k)
  PROVE  limits'.late = limits.late
<1>1. limits' = [limits EXCEPT !.faults = @ - 1] /\ limits \in Allowances
  BY DEF Fails, FailsBefore, FailsAfter, FailsPending, Fault, TypeOK
<1> QED
  BY <1>1 DEF Allowances

LEMMA FailsCalm ==
  ASSUME ThreadInvariant, NEW k \in Coordinators,
         \/ FailsBefore(k)
         \/ FailsAfter(k) /\ (At(k, "clear") \/ At(k, "wake"))
  PROVE  Elsewhere(k) /\ Calm(k)
<1>1. TypeOK /\ OthersAnswered(k) /\ limits'.late = limits.late
  BY EndsAnswers, FailsKeepLate DEF ThreadInvariant, FailsBefore, FailsAfter, Fails
<1>2. CASE FailsBefore(k)
  BY <1>1, <1>2, StillCalm DEF FailsBefore
<1>3. CASE FailsAfter(k) /\ At(k, "clear")
  <2>1. clearDiscovery(k) /\ UNCHANGED <<projected, kv>>
    BY <1>3, FailsAfterCases DEF At
  <2>2. /\ UNCHANGED <<pending, canonical, receipts, alarm, projected, kv, late, made, expired>>
        /\ wakes' = wakes \ {k} /\ guards' \subseteq guards
    BY <1>3, <2>1 DEF FailsAfter, clearDiscovery, durable
  <2> QED
    BY <1>1, <1>3, <2>2, ClearsShape DEF Elsewhere, Calm, OthersAnswered
<1>4. CASE FailsAfter(k) /\ At(k, "wake")
  <2>1. storeWake(k) /\ UNCHANGED <<guards, projected, kv>>
    BY <1>4, FailsAfterCases DEF At
  <2>2. /\ UNCHANGED <<pending, canonical, receipts, alarm, projected, kv, guards, late, made,
                        expired>>
        /\ wakes' = wakes \cup {k}
    BY <1>4, <2>1 DEF FailsAfter, storeWake, durable
  <2> QED
    BY <1>1, <2>2 DEF Elsewhere, Calm, OthersAnswered
<1> QED
  BY <1>2, <1>3, <1>4

LEMMA ForumOrTimeCalm ==
  ASSUME TypeOK, HandoffRefused \/ ReceiptExpires \/ UNCHANGED vars
  PROVE  Elsewhere(Forum) /\ Calm(Forum)
<1>1. /\ UNCHANGED <<durable, outside, made, limits>> /\ expired \subseteq expired'
      /\ \A c \in Coordinators \ {Forum} : op'[c] = op[c]
  BY DEF HandoffRefused, ReceiptExpires, vars, TypeOK
<1> QED
  BY <1>1, OnlyOneAnswers, StillCalm DEF Coordinators

\* The batch of a plan of this thread leaves it projected, and its receipt with it.
LEMMA ProjectsPlan ==
  ASSUME TypeOK, Batches, NEW i \in Plans, NEW t \in Threads, made[i].thread = t, project(i, t),
         UNCHANGED made
  PROVE  /\ Projected(i)'
         /\ \A j \in Plans : Projected(j) => Projected(j)'
         /\ \A g \in guards' : made[g.plan].thread = g.by
         /\ \A j \in Plans : (\E g \in guards' : g.plan = j) => Projected(j)'
<1>1. projected[t] \in Seq(Nat) /\ i \in Nat
  BY PlanType DEF TypeOK
<1>2. \A g \in guards : g.plan \in Plans /\ Projected(g.plan) /\ made[g.plan].thread = g.by
  BY DEF Batches, TypeOK
<1>3. CASE \E g \in guards : g.plan = i
  <2>1. UNCHANGED <<projected, guards>>
    BY <1>3 DEF project
  <2>2. \A j : Projected(j)' <=> Projected(j)
    BY <2>1 DEF Projected
  <2> QED
    BY <1>2, <1>3, <2>1, <2>2
<1>4. CASE ~(\E g \in guards : g.plan = i)
  <2>1. /\ projected' = [projected EXCEPT ![t] = Append(projected[t], i)]
        /\ guards' = guards \cup {[plan |-> i, by |-> t]}
    BY <1>4 DEF project
  <2>2. /\ projected'[t] = Append(projected[t], i)
        /\ \A u \in Threads \ {t} : projected'[u] = projected[u]
    BY <2>1 DEF TypeOK
  <2>3. /\ Len(projected[t]) + 1 \in DOMAIN projected'[t]
        /\ projected'[t][Len(projected[t]) + 1] = i
        /\ \A n \in DOMAIN projected[t] :
             n \in DOMAIN projected'[t] /\ projected'[t][n] = projected[t][n]
    BY <1>1, <2>2
  <2>4. Projected(i)'
    BY <2>3 DEF Projected
  <2>5. ASSUME NEW j \in Plans, Projected(j)
        PROVE  Projected(j)'
    <3>1. made[j].thread \in Threads
      BY PlanType
    <3> QED
      BY <2>2, <2>3, <2>5, <3>1 DEF Projected
  <2> QED
    BY <1>2, <2>1, <2>4, <2>5
<1> QED
  BY <1>3, <1>4

LEMMA SameProjection ==
  ASSUME UNCHANGED <<projected, made>>
  PROVE  \A i : Projected(i)' <=> Projected(i)
  BY DEF Projected

\* Receipts of batches that were there before.
LEMMA GuardsStand ==
  ASSUME TypeOK, Batches, UNCHANGED <<projected, made>>, guards' = guards
  PROVE  /\ \A g \in guards' : made[g.plan].thread = g.by
         /\ \A i \in Plans : (\E g \in guards' : g.plan = i) => Projected(i)'
<1>1. \A g \in guards : Projected(g.plan) /\ made[g.plan].thread = g.by
  BY DEF Batches
<1> QED
  BY <1>1, SameProjection

\* The plan that is written or projected is of the thread whose coordinator does it.
LEMMA PendingOwned ==
  ASSUME ThreadInvariant, Batches, NEW k \in Coordinators, At(k, "kv") \/ At(k, "batch")
  PROVE  /\ k \in Threads /\ pending[k] \in Plans /\ canonical[k] # <<>>
         /\ made[pending[k]].thread = k
<1>1. k \in Threads /\ pending[k] \in Plans /\ pending[k] # 0
  BY PendingPlan
<1> QED
  BY <1>1 DEF Batches, ThreadInvariant, WritesAreOwned

LEMMA WritesKv ==
  ASSUME ThreadInvariant, Batches, NEW k \in Coordinators, At(k, "kv"), putDocument(pending[k], k),
         UNCHANGED <<durable, made, expired, wakes, guards, projected, late>>, OthersAnswered(k),
         limits'.late = limits.late
  PROVE  Elsewhere(k) /\ Replays(k)
<1>1. TypeOK /\ k \in Threads /\ canonical[k] # <<>>
  BY PendingOwned DEF ThreadInvariant
<1>2. \A t \in Threads \ {k} : kv'[t] = kv[t]
  BY <1>1 DEF putDocument, TypeOK
<1>3. \A c \in late' : c.call = "batch" => made[c.plan].thread = c.by
  BY DEF Batches
<1> QED
  BY <1>1, <1>2, <1>3, SameProjection, GuardsStand DEF Elsewhere, Replays, OthersAnswered, durable

LEMMA WritesD1 ==
  ASSUME ThreadInvariant, Batches, NEW k \in Coordinators, At(k, "batch"), project(pending[k], k),
         UNCHANGED <<canonical, receipts, alarm, made, expired, wakes, kv, late>>,
         pending' = pending \/ pending' = [pending EXCEPT ![k] = 0], OthersAnswered(k),
         limits'.late = limits.late
  PROVE  Elsewhere(k) /\ Replays(k)
<1>1. /\ TypeOK /\ k \in Threads /\ pending[k] \in Plans
      /\ made[pending[k]].thread = k
  BY PendingOwned DEF ThreadInvariant
<1>2. PICK i \in Plans : i = pending[k]
  BY <1>1
<1>3. /\ Projected(i)'
      /\ \A j \in Plans : Projected(j) => Projected(j)'
      /\ \A g \in guards' : made[g.plan].thread = g.by
      /\ \A j \in Plans : (\E g \in guards' : g.plan = j) => Projected(j)'
  BY <1>1, <1>2, ProjectsPlan
<1>4. /\ \A c \in Coordinators \ {k} : pending'[c] = pending[c]
      /\ pending'[k] = pending[k] \/ pending'[k] = 0
  BY <1>1 DEF TypeOK
<1>5. \A c \in late' : c.call = "batch" => made[c.plan].thread = c.by
  BY DEF Batches
<1> QED
  BY <1>2, <1>3, <1>4, <1>5 DEF Elsewhere, Replays, OthersAnswered

LEMMA RunsReplay ==
  ASSUME ThreadInvariant, Batches, NEW k \in Coordinators, KvWritten(k) \/ BatchDone(k)
  PROVE  Elsewhere(k) /\ Replays(k)
<1>1. OthersAnswered(k)
  BY GoesOnAnswers DEF ThreadInvariant
<1>2. CASE KvWritten(k)
  BY <1>1, <1>2, WritesKv DEF KvWritten
<1>3. CASE BatchDone(k)
  BY <1>1, <1>3, WritesD1 DEF BatchDone
<1> QED
  BY <1>2, <1>3

LEMMA FailsReplay ==
  ASSUME ThreadInvariant, Batches, NEW k \in Coordinators,
         \/ FailsAfter(k) /\ ~At(k, "clear") /\ ~At(k, "wake")
         \/ FailsPending(k)
  PROVE  Elsewhere(k) /\ Replays(k)
<1>0. TypeOK
  BY DEF ThreadInvariant
<1>1. OthersAnswered(k) /\ limits'.late = limits.late
  BY <1>0, EndsAnswers, FailsKeepLate DEF FailsAfter, FailsPending, Fails
<1>2. CASE FailsAfter(k) /\ At(k, "kv") /\ putDocument(pending[k], k)
           /\ UNCHANGED <<wakes, guards, projected>>
  BY <1>1, <1>2, WritesKv DEF FailsAfter
<1>3. CASE FailsAfter(k) /\ At(k, "batch") /\ project(pending[k], k) /\ UNCHANGED <<wakes, kv>>
  BY <1>1, <1>3, WritesD1 DEF FailsAfter, durable
<1>4. CASE FailsPending(k)
  <2>1. /\ UNCHANGED <<durable, wakes, guards, projected, kv, made, expired>>
        /\ late' = late \cup {[call |-> op[k].pc, plan |-> pending[k], by |-> k]}
    BY <1>4 DEF FailsPending, Issued
  <2>2. op[k].pc = "batch" => made[pending[k]].thread = k
    BY PendingOwned DEF At
  <2>3. \A c \in late' : c.call = "batch" => made[c.plan].thread = c.by
    BY <2>1, <2>2 DEF Batches
  <2> QED
    BY <1>0, <1>1, <2>1, <2>3, SameProjection, GuardsStand
       DEF Elsewhere, Replays, OthersAnswered, durable
<1> QED
  BY <1>2, <1>3, <1>4, FailsAfterCases

\* A call that was given up on, and takes effect after all.
LEMMA LateReplays ==
  ASSUME ThreadInvariant, Batches, LateCall
  PROVE  \E k \in Coordinators :
           Elsewhere(k) /\ Replays(k) /\ op' = op /\ (~limits.late => wakes' = wakes)
<1>0. TypeOK
  BY DEF ThreadInvariant
<1>1. PICK c \in late : /\ late' = late \ {c} /\ TakesEffect(c)
                        /\ UNCHANGED <<durable, handoffs, nudges, op, made, expired, limits>>
  BY DEF LateCall
<1>2. /\ c.by \in Coordinators
      /\ c.call \in {"kv", "batch"} =>
           c.plan \in Plans /\ c.by \in Threads /\ canonical[c.by] # <<>>
      /\ c.call = "batch" => made[c.plan].thread = c.by
  BY <1>0 DEF ThreadInvariant, WritesAreOwned, Batches, TypeOK, PlansOrNone, Plans
<1>3. limits.late /\ limits'.late = limits.late
  BY <1>1 DEF ThreadInvariant, Replicas
<1>4. /\ \A j \in Plans : Projected(j) => Projected(j)'
      /\ \A g \in guards' : made[g.plan].thread = g.by
      /\ \A j \in Plans : (\E g \in guards' : g.plan = j) => Projected(j)'
  <2>1. CASE c.call = "batch"
    <3>1. project(c.plan, c.by) /\ UNCHANGED made
      BY <1>1, <2>1 DEF TakesEffect
    <3> QED
      BY <1>0, <1>2, <2>1, <3>1, ProjectsPlan
  <2>2. CASE c.call # "batch"
    <3>1. projected' = projected /\ made' = made /\ guards' \subseteq guards
      BY <1>1, <2>2 DEF TakesEffect, clearDiscovery
    <3>2. \A g \in guards : Projected(g.plan) /\ made[g.plan].thread = g.by
      BY DEF Batches
    <3> QED
      BY <3>1, <3>2, SameProjection
  <2> QED
    BY <2>1, <2>2
<1>5. \A d \in late' : d.call = "batch" => made[d.plan].thread = d.by
  BY <1>1 DEF Batches
<1>6. /\ \A t \in Threads \ {c.by} : kv'[t] = kv[t]
      /\ c.by \in Threads => kv'[c.by] = kv[c.by] \/ canonical[c.by] # <<>>
  <2>1. kv' = kv \/ (c.call = "kv" /\ kv' = [kv EXCEPT ![c.by] = made[c.plan].doc])
    BY <1>1 DEF TakesEffect, putDocument
  <2> QED
    BY <1>0, <1>2, <2>1 DEF TypeOK
<1>7. PICK k \in Coordinators : k = c.by
  BY <1>2
<1>8. OthersAnswered(k)
  BY <1>1, OnlyOneAnswers
<1> QED
  BY <1>1, <1>3, <1>4, <1>5, <1>6, <1>7, <1>8 DEF Elsewhere, Replays, OthersAnswered, durable

\* The new thread's coordinator has answered for the creation.
LEMMA HandoffReplays ==
  ASSUME TypeOK, Batches, HandoffCalls, HandoffDone
  PROVE  Elsewhere(Forum) /\ Replays(Forum)
<1>1. /\ UNCHANGED <<canonical, receipts, alarm, wakes, guards, projected, kv, late, made, expired,
                      limits>>
      /\ pending' = [pending EXCEPT ![Forum] = 0]
      /\ \A c \in Coordinators \ {Forum} : op'[c] = op[c]
  BY DEF HandoffDone, outside, TypeOK
<1>2. \A i \in Plans : i = pending[Forum] => Projected(i)
  BY DEF HandoffDone, HandoffCalls, At
<1>3. /\ \A c \in Coordinators \ {Forum} : pending'[c] = pending[c]
      /\ pending'[Forum] = 0
  BY <1>1 DEF TypeOK, Coordinators
<1>4. OthersAnswered(Forum)
  BY <1>1, OnlyOneAnswers
<1>5. \A c \in late' : c.call = "batch" => made[c.plan].thread = c.by
  BY <1>1 DEF Batches
<1>6. Forum \notin Threads
  BY CoordinatorsAssumption
<1> QED
  BY <1>1, <1>2, <1>3, <1>4, <1>5, <1>6, SameProjection, GuardsStand
     DEF Elsewhere, Replays, OthersAnswered

LEMMA CommitsHandoffCommits ==
  ASSUME ThreadInvariant, ReceiptsOwned, NEW k \in Coordinators, Answering(k, op[k]),
         CommitsHandoff(k)
  PROVE  Elsewhere(k) /\ Commits(k, op[k].plan)
<1>0. TypeOK /\ OthersAnswered(k) /\ OperationShape(k, op[k])
  BY GoesOnAnswers DEF ThreadInvariant, OperationShapes
<1>1. PICK i : i = op[k].plan
  OBVIOUS
<1>2. /\ UNCHANGED <<kv, projected, guards, late, wakes, made, expired, limits>>
      /\ op[k].pc = "store" /\ op[k].kind = "commit" /\ storePlan(i, k, made[i])
  BY <1>1 DEF CommitsHandoff, outside, At
<1>3. /\ k \in Threads /\ k # Forum /\ Creation(i) /\ made[i].thread = k /\ pending[k] = 0
      /\ canonical[k] = <<>> /\ i \in Plans /\ k \notin Old /\ made[i].doc = <<i>>
  BY <1>0, <1>1, <1>2, CoordinatorsAssumption DEF OperationShape, StartsFresh, Creation
<1>4. made[i].req.key \in Keys /\ i # 0
  BY <1>0, <1>3, PlanType
<1>5. /\ pending'[k] = i /\ canonical'[k] = <<i>> /\ alarm'[k] = "soon"
      /\ \A c \in Coordinators \ {k} :
           pending'[c] = pending[c] /\ receipts'[c] = receipts[c] /\ alarm'[c] = alarm[c]
      /\ \A t \in Threads \ {k} : canonical'[t] = canonical[t]
      /\ \A key \in Keys :
           receipts'[k][key] = IF key = made[i].req.key THEN i ELSE receipts[k][key]
  BY <1>0, <1>2, <1>3, <1>4 DEF storePlan, TypeOK
<1>6. receipts[k][made[i].req.key] = 0 /\ (~limits.late => k \in wakes)
  BY <1>2, <1>3, <1>4 DEF ReceiptsOwned, Answering
<1>7. PlansStay /\ Plans' = Plans /\ Plans \cup {i} = Plans
  BY <1>2, <1>3 DEF PlansStay, Plans
<1>8. Elsewhere(k)
  BY <1>0, <1>2, <1>5 DEF Elsewhere, OthersAnswered
<1>9. <<i>> # <<>>
  OBVIOUS
<1>10. Commits(k, i)
  BY <1>2, <1>3, <1>4, <1>5, <1>6, <1>7, <1>9 DEF Commits
<1> QED
  BY <1>1, <1>8, <1>10

\* The document of a reply is more than its plan.
LEMMA NotCreated ==
  ASSUME NEW base \in Seq(Nat), base # <<>>, NEW n
  PROVE  Append(base, n) # <<n>>
<1>1. Len(base) \in Nat \ {0}
  OBVIOUS
<1>2. Len(Append(base, n)) = Len(base) + 1 /\ Len(<<n>>) = 1
  OBVIOUS
<1>3. Len(Append(base, n)) # Len(<<n>>)
  BY <1>1, <1>2
<1> QED
  BY <1>3, Zenon

LEMMA CommitsOwnCommits ==
  ASSUME ThreadInvariant, ReceiptsOwned, Creations, NEW k \in Coordinators,
         Answering(k, op[k]), CommitsOwn(k)
  PROVE  Elsewhere(k) /\ Commits(k, Len(made) + 1)
<1> DEFINE Records == [req : Requests, thread : Threads, doc : Seq(Nat)]
<1>0. TypeOK /\ OthersAnswered(k) /\ OperationShape(k, op[k]) /\ op[k] \in Operations(Len(made))
  BY GoesOnAnswers DEF ThreadInvariant, OperationShapes, TypeOK
<1>1. PICK n : n = Len(made) + 1
  OBVIOUS
<1>2. n \in Nat \ {0} /\ n \notin Plans /\ Len(made) \in Nat /\ \A j \in Plans : j < n
  BY <1>0, <1>1 DEF Plans, TypeOK
<1>3. /\ UNCHANGED <<kv, projected, guards, late, wakes, expired, limits>>
      /\ op[k].pc = "store" /\ op[k].kind = "mutate"
      /\ storePlan(n, k, NewPlan(k)) /\ made' = Append(made, NewPlan(k))
  BY <1>1 DEF CommitsOwn, outside, At
<1>4. /\ op[k].req \in Requests /\ op[k].req.to = k /\ pending[k] = 0
      /\ ~limits.late => k \in wakes
      /\ receiptFor(k, op[k].req.key) = 0 /\ StartsFresh(k, op[k])
      /\ op[k].base \in Seq(Nat)
  <2>1. op[k].req \in Requests /\ pending[k] = 0 /\ StartsFresh(k, op[k])
    BY <1>0, <1>3 DEF OperationShape
  <2>2. op[k].req.to = k /\ (~limits.late => k \in wakes) /\ receiptFor(k, op[k].req.key) = 0
    BY <1>3 DEF Answering, Prepared
  <2> QED
    BY <1>0, <2>1, <2>2 DEF Operations
<1>5. PlansStay /\ Plans' = Plans \cup {n} /\ made'[n] = NewPlan(k)
  <2>1. NewPlan(k) \in Records /\ made \in Seq(Records)
    BY <1>0, <1>3, NewPlanType DEF At, ThreadInvariant, TypeOK
  <2> HIDE DEF Records
  <2>2. Len(made') = n /\ made'[n] = NewPlan(k) /\ \A i \in 1..Len(made) : made'[i] = made[i]
    BY <1>1, <1>2, <1>3, <2>1
  <2> QED
    BY <1>1, <1>2, <2>2 DEF Plans, PlansStay
<1>6. /\ NewPlan(k).req = op[k].req /\ NewPlan(k).thread = op[k].thread
      /\ NewPlan(k).doc = Append(op[k].base, n)
  BY <1>1 DEF NewPlan
<1>7. op[k].req.key \in Keys
  BY <1>4 DEF Keys
<1>8. /\ pending'[k] = n /\ alarm'[k] = "soon"
      /\ \A c \in Coordinators \ {k} :
           pending'[c] = pending[c] /\ receipts'[c] = receipts[c] /\ alarm'[c] = alarm[c]
      /\ \A t \in Threads \ {k} : canonical'[t] = canonical[t]
      /\ k \in Threads => canonical'[k] = Append(op[k].base, n)
      /\ \A key \in Keys :
           receipts'[k][key] = IF key = op[k].req.key THEN n ELSE receipts[k][key]
  BY <1>0, <1>3, <1>6, <1>7, CoordinatorsAssumption DEF storePlan, TypeOK
<1>9. receipts[k][op[k].req.key] \in expired \cup {0}
  BY <1>4 DEF receiptFor
<1>10. k \in Threads => /\ op[k].thread = k /\ op[k].base # <<>>
                        /\ k \in Old \/ canonical[k] # <<>>
  BY <1>0, <1>3, <1>4, CoordinatorsAssumption DEF StartsFresh, Answering, Prepared
<1>11. k = Forum => /\ op[k].base = <<>> /\ op[k].thread \in Threads \ Old
                    /\ \A j \in Plans : made[j].thread # op[k].thread
  BY <1>0, <1>3, <1>4, CoordinatorsAssumption DEF StartsFresh, Answering, Prepared
<1>12. k = Forum <=> Creation(n)'
  <2>1. CASE k = Forum
    <3>1. Append(<<>>, n) = <<n>>
      OBVIOUS
    <3> QED
      BY <1>5, <1>6, <1>11, <2>1, <3>1 DEF Creation
  <2>2. CASE k # Forum
    <3>1. k \in Threads /\ Append(op[k].base, n) # <<n>>
      BY <1>4, <1>10, <2>2, NotCreated DEF Coordinators
    <3> QED
      BY <1>5, <1>6, <2>2, <3>1 DEF Creation
  <2> QED
    BY <2>1, <2>2
<1>13. Append(op[k].base, n) # <<>>
  BY <1>2, <1>4, AppendFront
<1>14. Elsewhere(k)
  BY <1>0, <1>3, <1>8 DEF Elsewhere, OthersAnswered
<1>15. Commits(k, n)
  BY <1>2, <1>3, <1>4, <1>5, <1>6, <1>7, <1>8, <1>9, <1>10, <1>11, <1>12, <1>13 DEF Commits
<1> QED
  BY <1>1, <1>14, <1>15

\* Every step is one of the three.
StepOf(k) == Elsewhere(k) /\ (Calm(k) \/ Replays(k) \/ \E i : Commits(k, i))

LEMMA EveryStep ==
  ASSUME ThreadInvariant, AnswerInvariant, [Next]_vars
  PROVE  \E k \in Coordinators : StepOf(k)
<1>0. /\ TypeOK /\ Batches /\ HandoffCalls /\ ReceiptsOwned /\ Creations /\ Forum \in Coordinators
      /\ \A k \in Coordinators : Answering(k, op[k])
  BY DEF ThreadInvariant, AnswerInvariant, Coordinators
<1>1. CASE Begins
  BY <1>0, <1>1, BeginsCalm DEF StepOf
<1>2. ASSUME NEW k \in Coordinators, Runs(k)
      PROVE  StepOf(k)
  <2>1. CASE WakeStored(k)
    BY <2>1, WakeStoredCalm DEF StepOf
  <2>2. CASE KvWritten(k) \/ BatchDone(k)
    BY <1>0, <2>2, RunsReplay DEF StepOf
  <2>3. CASE CommitsOwn(k)
    BY <1>0, <2>3, CommitsOwnCommits DEF StepOf
  <2>4. CASE CommitsHandoff(k)
    BY <1>0, <2>4, CommitsHandoffCommits DEF StepOf
  <2> QED
    BY <1>2, <2>1, <2>2, <2>3, <2>4, RunsCalm DEF Runs, StepOf
<1>3. ASSUME NEW k \in Coordinators, Fails(k)
      PROVE  StepOf(k)
  BY <1>0, <1>3, FailsCalm, FailsReplay DEF Fails, StepOf
<1>4. CASE HandoffDone
  BY <1>0, <1>4, HandoffReplays DEF StepOf
<1>5. CASE LateCall
  BY <1>0, <1>5, LateReplays DEF StepOf
<1>6. CASE HandoffRefused \/ ReceiptExpires \/ UNCHANGED vars
  BY <1>0, <1>6, ForumOrTimeCalm DEF StepOf
<1> QED
  BY <1>0, <1>1, <1>2, <1>3, <1>4, <1>5, <1>6 DEF Next

LEMMA StoredStep ==
  ASSUME ThreadInvariant, AnswerInvariant, TypeOK', [Next]_vars
  PROVE  Stored' /\ ReceiptsKept /\ CarriedOn
<1>1. Stored
  BY DEF AnswerInvariant, Stored
<1>2. PICK k \in Coordinators : StepOf(k)
  BY EveryStep
<1> QED
  BY <1>1, <1>2, StoredStays, StoredCommits DEF StepOf

(***************************************************************************)
(* The operations.                                                         *)
(***************************************************************************)
LEMMA AnsweredFields ==
  ASSUME TypeOK, NEW c \in Coordinators, Answered(op'[c], op[c])
  PROVE  Alike(op'[c], op[c]) /\ op'[c].committed = op[c].committed /\ op'[c].call = op[c].call
<1>1. op[c] \in Operations(Len(made))
  BY DEF TypeOK
<1>2. ASSUME NEW answer \in {"ok", "failed"}, op'[c] = [op[c] EXCEPT !.answer = answer]
      PROVE  Alike(op'[c], op[c]) /\ op'[c].committed = op[c].committed /\ op'[c].call = op[c].call
  BY <1>1, <1>2 DEF Alike, Operations
<1>3. CASE op'[c] = op[c]
  BY <1>3 DEF Alike
<1> QED
  BY <1>2, <1>3, Zenon DEF Answered

\* A request that had no receipt still has none.
LEMMA StillUnanswered ==
  ASSUME TypeOK, NEW c \in Coordinators, NEW key \in Keys, receiptFor(c, key) = 0,
         expired \subseteq expired',
         \/ receipts'[c][key] = receipts[c][key]
         \/ receipts[c][key] \in expired /\ receipts'[c][key] = 0
  PROVE  receiptFor(c, key)' = 0
  BY DEF receiptFor

\* No step of another coordinator takes away what an operation has found out.
LEMMA OthersStillAnswer ==
  ASSUME ThreadInvariant, AnswerInvariant, CarriedOn, NEW k \in Coordinators, StepOf(k),
         NEW c \in Coordinators \ {k}
  PROVE  Answering(c, op[c])'
<1>0. /\ TypeOK /\ Answering(c, op[c]) /\ OperationShape(c, op[c])
      /\ op[c] \in Operations(Len(made)) /\ Len(made) \in Nat
  BY DEF ThreadInvariant, AnswerInvariant, OperationShapes, TypeOK
<1>1. /\ Alike(op'[c], op[c]) /\ op'[c].committed = op[c].committed
      /\ receipts'[c] = receipts[c] /\ expired \subseteq expired'
      /\ limits'.late = limits.late /\ (~limits.late => (c \in wakes' <=> c \in wakes))
      /\ c \in Threads => canonical'[c] = canonical[c]
  BY <1>0, AnsweredFields DEF StepOf, Elsewhere
<1>2. PICK p : p = op[c].plan
  OBVIOUS
<1>3. op'[c].plan = p /\ (p # 0 => p \in Plans)
  BY <1>0, <1>1, <1>2 DEF Alike, Operations, Plans
<1>4. p # 0 /\ Carried(c, p) => Carried(c, p)'
  BY <1>3 DEF CarriedOn
<1>5. op'[c].kind = "mutate" =>
        /\ op'[c].req.to = c
        /\ p # 0 => Carried(c, p)'
        /\ p = 0 => receiptFor(c, op[c].req.key)' = 0
  <2>1. ASSUME op[c].kind = "mutate"
        PROVE  op[c].req.key \in Keys
    BY <1>0, <2>1 DEF OperationShape, Keys
  <2> QED
    BY <1>0, <1>1, <1>2, <1>4, <2>1, StillUnanswered DEF Answering, Alike
<1>6. op'[c].kind = "commit" /\ op'[c].committed => Carried(c, p)'
  <2>1. op[c].kind = "commit" => p # 0
    BY <1>0, <1>2, PlanType DEF OperationShape, Creation
  <2> QED
    BY <1>0, <1>1, <1>2, <1>4, <2>1 DEF Answering, Alike
<1>7. ASSUME op'[c].pc \in {"wake", "store"}, op'[c].kind = "mutate"
      PROVE  Prepared(c, op[c])'
  <2>1. Prepared(c, op[c]) /\ StartsFresh(c, op[c])
    BY <1>0, <1>1, <1>7 DEF Answering, Alike, OperationShape
  <2>2. ASSUME c = Forum, NEW i \in Plans'
        PROVE  made'[i].thread # op[c].thread
    <3>1. CASE i \in Plans
      BY <2>1, <2>2, <3>1 DEF Prepared, CarriedOn, PlansStay
    <3>2. CASE i \notin Plans
      <4>1. Commits(k, i)
        BY <3>2 DEF StepOf, Calm, Replays, Commits, Plans
      <4>2. k \in Threads /\ made'[i].thread = k /\ (k \in Old \/ canonical[k] # <<>>)
        BY <2>2, <3>2, <4>1 DEF Commits, Coordinators
      <4>3. op[c].thread \in Threads \ Old
        BY <1>1, <1>7, <2>1, <2>2, CoordinatorsAssumption DEF StartsFresh, Alike
      <4>4. op[c].thread = k => \E j \in Plans : made[j].thread = k
        BY <4>2, <4>3 DEF AnswerInvariant, Creations
      <4> QED
        BY <2>1, <2>2, <4>2, <4>4 DEF Prepared
    <3> QED
      BY <3>1, <3>2
  <2> QED
    BY <1>1, <2>1, <2>2 DEF Prepared, Alike
<1> QED
  BY <1>0, <1>1, <1>3, <1>5, <1>6, <1>7 DEF Answering, Alike, Carried, Projected, receiptFor

\* An operation that goes on for the same request.
Continues(k) ==
  /\ op'[k].kind = op[k].kind /\ op'[k].req = op[k].req /\ op'[k].plan = op[k].plan
  /\ op'[k].committed = op[k].committed /\ op'[k].call = op[k].call

LEMMA PcFields ==
  ASSUME TypeOK, NEW k \in Coordinators, NEW pc, op' = [op EXCEPT ![k].pc = pc]
  PROVE  /\ Continues(k) /\ op'[k].pc = pc /\ op'[k].answer = op[k].answer
         /\ op'[k].base = op[k].base /\ op'[k].thread = op[k].thread
<1>1. op' = [op EXCEPT ![k] = [op[k] EXCEPT !.pc = pc]] /\ op[k] \in Operations(Len(made))
  BY DEF TypeOK
<1>2. op'[k] = [op[k] EXCEPT !.pc = pc]
  BY <1>1 DEF TypeOK
<1> QED
  BY <1>1, <1>2 DEF Operations, Continues

LEMMA ContinuesAnswering ==
  ASSUME ThreadInvariant, AnswerInvariant, CarriedOn, NEW k \in Coordinators,
         Elsewhere(k), Calm(k) \/ Replays(k), Continues(k),
         op'[k].pc \in {"wake", "store"} /\ op[k].kind = "mutate" => Prepared(k, op[k])',
         op'[k].pc = "store" => (~limits.late => k \in wakes')
  PROVE  Answering(k, op[k])'
<1>0. /\ TypeOK /\ Answering(k, op[k]) /\ OperationShape(k, op[k])
      /\ op[k] \in Operations(Len(made)) /\ Len(made) \in Nat
  BY DEF ThreadInvariant, AnswerInvariant, OperationShapes, TypeOK
<1>1. PICK p : p = op[k].plan
  OBVIOUS
<1>2. op'[k].plan = p /\ (p # 0 => p \in Plans)
  BY <1>0, <1>1 DEF Continues, Operations, Plans
<1>3. p # 0 /\ Carried(k, p) => Carried(k, p)'
  BY <1>2 DEF CarriedOn
<1>4. op[k].kind = "mutate" /\ p = 0 => receiptFor(k, op[k].req.key)' = 0
  <2>1. SUFFICES ASSUME op[k].kind = "mutate", p = 0
                 PROVE  receiptFor(k, op[k].req.key)' = 0
    OBVIOUS
  <2>2. PICK key \in Keys : key = op[k].req.key
    BY <1>0, <2>1 DEF OperationShape, Keys
  <2>3. receiptFor(k, key) = 0 /\ expired \subseteq expired'
    BY <1>0, <1>1, <2>1, <2>2 DEF Answering, Elsewhere
  <2>4. receiptFor(k, key)' = 0
    BY <1>0, <2>3, StillUnanswered, ReceiptsShrink
  <2> QED
    BY <2>2, <2>4 DEF receiptFor, Continues
<1>5. op[k].kind = "commit" => p # 0
  BY <1>0, <1>1, PlanType DEF OperationShape, Creation
<1>6. op[k].kind = "mutate" => op[k].req.to = k
  BY <1>0 DEF Answering
<1>7. limits'.late = limits.late
  BY DEF Elsewhere
<1> QED
  BY <1>0, <1>1, <1>2, <1>3, <1>4, <1>5, <1>6, <1>7 DEF Answering, Continues, Carried, Projected, receiptFor

LEMMA IdleAnswering ==
  ASSUME NEW k, op'[k].kind \notin {"mutate", "commit"}, op'[k].pc # "store"
  PROVE  Answering(k, op[k])'
  BY DEF Answering

\* The operation of coordinator k is not touched.
LEMMA UntouchedAnswering ==
  ASSUME ThreadInvariant, AnswerInvariant, CarriedOn, NEW k \in Coordinators,
         Elsewhere(k), Calm(k) \/ Replays(k), op'[k] = op[k],
         ~limits.late => wakes' = wakes
  PROVE  Answering(k, op[k])'
<1>1. Continues(k) /\ UNCHANGED <<made, canonical>>
  BY DEF Continues, Calm, Replays
<1>2. op[k].pc \in {"wake", "store"} /\ op[k].kind = "mutate" => Prepared(k, op[k])'
  BY <1>1 DEF AnswerInvariant, Answering, Prepared, Plans
<1>3. op[k].pc = "store" => (~limits.late => k \in wakes')
  BY DEF AnswerInvariant, Answering
<1> QED
  BY <1>1, <1>2, <1>3, ContinuesAnswering

LEMMA RunsOnAnswering ==
  ASSUME ThreadInvariant, AnswerInvariant, CarriedOn, NEW k \in Coordinators,
         \/ KvWritten(k) \/ BatchDone(k) \/ Stages(k) \/ AcceptsHandoff(k) \/ WakeStored(k)
  PROVE  Answering(k, op[k])' /\ Continues(k)
<1>0. TypeOK /\ Batches /\ Answering(k, op[k]) /\ OperationShape(k, op[k])
  BY DEF ThreadInvariant, AnswerInvariant, OperationShapes
<1>1. CASE KvWritten(k) \/ BatchDone(k)
  <2>1. Continues(k) /\ op'[k].pc \in {"batch", "clear"}
    BY <1>0, <1>1, PcFields DEF KvWritten, BatchDone
  <2> QED
    BY <1>0, <1>1, <2>1, RunsReplay, ContinuesAnswering
<1>2. CASE AcceptsHandoff(k)
  <2>1. Continues(k) /\ op'[k].pc = "wake" /\ op[k].kind = "commit"
    BY <1>0, <1>2, PcFields DEF AcceptsHandoff, Earlier
  <2> QED
    BY <1>2, <2>1, RunsCalm, ContinuesAnswering
<1>3. CASE WakeStored(k)
  <2>1. /\ Continues(k) /\ op'[k].pc = "store" /\ op[k].pc = "wake"
        /\ op'[k].base = op[k].base /\ op'[k].thread = op[k].thread
        /\ k \in wakes' /\ UNCHANGED <<made, canonical>>
    BY <1>0, <1>3, PcFields DEF WakeStored, storeWake, At, durable
  <2>2. op[k].kind = "mutate" => Prepared(k, op[k])'
    BY <1>0, <2>1 DEF Answering, Prepared, Continues, Plans
  <2> QED
    BY <1>3, <2>1, <2>2, WakeStoredCalm, ContinuesAnswering
<1>4. CASE Stages(k)
  <2>1. PICK t \in IF k = Forum THEN NewThreads ELSE {k} \cap Existing :
          op' = [op EXCEPT ![k].pc = "wake", ![k].thread = t,
                           ![k].base = IF k = Forum THEN <<>> ELSE readFreshThread(k)]
    BY <1>4 DEF Stages
  <2>2. /\ UNCHANGED <<made, canonical>> /\ op[k].kind = "mutate" /\ op[k].plan = 0
    BY <1>4 DEF Stages, Earlier, Clears
  <2>3. op' = [op EXCEPT ![k] = [op[k] EXCEPT !.pc = "wake", !.thread = t,
                        !.base = IF k = Forum THEN <<>> ELSE readFreshThread(k)]]
    BY <2>1
  <2>4. op'[k] = [op[k] EXCEPT !.pc = "wake", !.thread = t,
                        !.base = IF k = Forum THEN <<>> ELSE readFreshThread(k)]
    BY <1>0, <2>3 DEF TypeOK
  <2>5. /\ Continues(k) /\ op'[k].pc = "wake" /\ op'[k].thread = t
        /\ op'[k].base = IF k = Forum THEN <<>> ELSE readFreshThread(k)
    <3>1. op[k] \in Operations(Len(made))
      BY <1>0 DEF TypeOK
    <3> QED
      BY <2>4, <3>1 DEF Operations, Continues
  <2>6. ASSUME k \in Threads
        PROVE  op'[k].base # <<>> /\ (k \in Old \/ canonical[k] # <<>>)
    <3>1. k # Forum /\ readFreshThread(k) # <<>>
      BY <2>1, <2>6, CoordinatorsAssumption DEF Existing
    <3>2. k \in Old \/ canonical[k] # <<>>
      BY <2>6, <3>1 DEF AnswerInvariant, NewAreEmpty, readFreshThread
    <3> QED
      BY <2>5, <3>1, <3>2
  <2>7. k = Forum => \A i \in Plans : made[i].thread # t
    BY <2>1 DEF NewThreads
  <2>8. Prepared(k, op[k])'
    BY <2>2, <2>5, <2>6, <2>7 DEF Prepared, Continues, Plans
  <2> QED
    BY <1>4, <2>5, <2>8, RunsCalm, ContinuesAnswering
<1> QED
  BY <1>1, <1>2, <1>3, <1>4

LEMMA CommitsAnswering ==
  ASSUME ThreadInvariant, AnswerInvariant, NEW k \in Coordinators,
         CommitsOwn(k) \/ CommitsHandoff(k)
  PROVE  /\ Answering(k, op[k])'
         /\ CommitsOwn(k) => op'[k].kind = "mutate"
         /\ CommitsHandoff(k) =>
              /\ op[k].kind = "commit" /\ k # Forum
              /\ op'[k].plan = op[k].plan /\ op'[k].call = op[k].call
<1>0. /\ TypeOK /\ ReceiptsOwned /\ Creations /\ Answering(k, op[k]) /\ OperationShape(k, op[k])
      /\ op[k] \in Operations(Len(made)) /\ Len(made) \in Nat
  BY DEF ThreadInvariant, AnswerInvariant, OperationShapes, TypeOK
<1>1. CASE CommitsOwn(k)
  <2> DEFINE n == Len(made) + 1
             o == [op[k] EXCEPT !.committed = TRUE, !.plan = n]
  <2>1. op'[k] = Replaying(k, o) /\ op[k].pc = "store" /\ op[k].kind = "mutate"
    BY <1>0, <1>1 DEF CommitsOwn, StartReplay, TypeOK, At
  <2>2. Commits(k, n)
    BY <1>0, <1>1, CommitsOwnCommits
  <2>3. pending'[k] = n /\ n # 0
    BY <2>2 DEF Commits
  <2>4. o.kind = "mutate" /\ o.plan = n /\ o.req = op[k].req /\ o \in Operations(n)
    <3>1. op[k] \in Operations(n) /\ n \in 0..n
      BY <1>0, OperationsGrow
    <3> HIDE DEF n
    <3> QED
      BY <2>1, <3>1 DEF Operations
  <2> HIDE DEF o, n
  <2>5. /\ op'[k].kind = "mutate" /\ op'[k].plan = n /\ op'[k].req = op[k].req
        /\ op'[k].pc \in {"kv", "handoff"}
    BY <2>1, <2>3, <2>4 DEF Replaying, Operations
  <2>6. op[k].req.to = k
    BY <1>0, <2>1 DEF Answering
  <2>7. ~CommitsHandoff(k)
    BY <2>1 DEF CommitsHandoff
  <2> QED
    BY <2>3, <2>5, <2>6, <2>7 DEF Answering, Carried
<1>2. CASE CommitsHandoff(k)
  <2> DEFINE o == [op[k] EXCEPT !.committed = TRUE]
  <2>1. op'[k] = Replaying(k, o) /\ op[k].pc = "store" /\ op[k].kind = "commit"
    BY <1>0, <1>2 DEF CommitsHandoff, TypeOK, At
  <2>2. PICK p : p = op[k].plan
    OBVIOUS
  <2>3. Commits(k, p)
    BY <1>0, <1>2, <2>2, CommitsHandoffCommits
  <2>4. pending'[k] = p /\ p # 0 /\ k # Forum
    BY <1>0, <2>1, <2>3, CoordinatorsAssumption DEF Commits, OperationShape
  <2>5. o.kind = "commit" /\ o.plan = p /\ o.req = op[k].req /\ o.call = op[k].call
        /\ o \in Operations(Len(made))
    BY <1>0, <2>1, <2>2 DEF Operations
  <2> HIDE DEF o
  <2>6. /\ op'[k].kind = "commit" /\ op'[k].plan = p /\ op'[k].pc = "kv"
        /\ op'[k].req = op[k].req /\ op'[k].call = op[k].call
    BY <2>1, <2>4, <2>5 DEF Replaying, Operations
  <2>7. ~CommitsOwn(k)
    BY <2>1 DEF CommitsOwn
  <2> QED
    BY <2>1, <2>2, <2>4, <2>6, <2>7 DEF Answering, Carried
<1> QED
  BY <1>1, <1>2

(***************************************************************************)
(* The call the forum's coordinator waits for.                             *)
(***************************************************************************)
LEMMA CallsIdle ==
  ASSUME op'[Forum].pc # "handoff", op'[Forum].answer = "none"
  PROVE  HandoffCalls'
  BY DEF HandoffCalls

\* A new call has a number no other call has.
LEMMA CallsFresh ==
  ASSUME TypeOK, NEW n \in Nat, Len(made) <= n, NEW o \in Operations(n), StartReplay(Forum, o),
         pending' \in [Coordinators -> 0..n], o.pc # "handoff", o.answer = "none"
  PROVE  HandoffCalls'
<1>1. /\ Forum \in Coordinators /\ Forum \notin Threads
      /\ \A t \in Threads : t \in Coordinators \ {Forum}
  BY CoordinatorsAssumption DEF Coordinators
<1>2. /\ op'[Forum] = Replaying(Forum, o)
      /\ \A t \in Threads : op'[t] = op[t]
  BY <1>1, StartReplayKeeps
<1>3. CASE pending'[Forum] = 0
  <2>1. op'[Forum].pc = "clear" /\ op'[Forum].answer = "none"
    BY <1>2, <1>3 DEF Replaying, Operations
  <2> QED
    BY <2>1, CallsIdle
<1>4. CASE pending'[Forum] # 0
  <2>1. op'[Forum].pc = "handoff" /\ op'[Forum].answer = "none" /\ op'[Forum].call = FreshCall
    BY <1>2, <1>4 DEF Replaying, Operations
  <2>2. handoffs' = handoffs \cup {[plan |-> pending'[Forum], call |-> FreshCall]}
    BY <2>1 DEF StartReplay
  <2>3. \A m \in handoffs' : m.call = FreshCall => m.plan = pending'[Forum]
    BY <2>2, FreshCallType
  <2>4. \A t \in Threads : op'[t].call # FreshCall
    BY <1>2, FreshCallType
  <2> QED
    BY <2>1, <2>3, <2>4 DEF HandoffCalls
<1> QED
  BY <1>3, <1>4

\* Calls and what serves them stay, but for one that is taken up or answered.
LEMMA CallsStand ==
  ASSUME ThreadInvariant, HandoffCalls, CarriedOn, pending'[Forum] = pending[Forum],
         Answered(op'[Forum], op[Forum]), handoffs' \subseteq handoffs,
         \A t \in Threads : op'[t].kind = "commit" =>
           \/ op[t].kind = "commit" /\ op'[t].call = op[t].call /\ op'[t].plan = op[t].plan
           \/ \E m \in handoffs : op'[t].call = m.call /\ op'[t].plan = m.plan,
         \/ op'[Forum].answer = op[Forum].answer
         \/ op[Forum].pc = "handoff" /\ (op'[Forum].answer = "ok" => Projected(pending[Forum]))
  PROVE  HandoffCalls'
<1>0. TypeOK /\ Forum \in Coordinators /\ OperationShape(Forum, op[Forum])
  BY DEF ThreadInvariant, OperationShapes, Coordinators
<1>1. op'[Forum].pc = op[Forum].pc /\ op'[Forum].call = op[Forum].call
  BY <1>0, AnsweredFields DEF Alike
<1>2. PICK i : i = pending[Forum]
  OBVIOUS
<1>3. CASE op[Forum].pc # "handoff"
  BY <1>1, <1>3, CallsIdle DEF HandoffCalls
<1>4. CASE op[Forum].pc = "handoff"
  <2>1. /\ \A m \in handoffs : m.call = op[Forum].call => m.plan = i
        /\ \A t \in Threads : op[t].kind = "commit" /\ op[t].call = op[Forum].call => op[t].plan = i
        /\ op[Forum].answer = "ok" => Projected(i)
    BY <1>2, <1>4 DEF HandoffCalls
  <2>2. op'[Forum].answer = "ok" => Projected(i)
    BY <1>2, <2>1
  <2>3. i \in Plans
    BY <1>0, <1>2, <1>4 DEF OperationShape, TypeOK, PlansOrNone, Plans
  <2>4. Projected(i) => Projected(i)'
    BY <2>3 DEF CarriedOn
  <2> QED
    BY <1>1, <1>2, <1>4, <2>1, <2>2, <2>4 DEF HandoffCalls, Projected
<1> QED
  BY <1>3, <1>4

\* Whoever hands a creation over is told that it succeeded when it is projected.
LEMMA OkIsProjected ==
  ASSUME ThreadInvariant, AnswerInvariant, NEW k \in Coordinators, op[k].kind = "commit",
         RepeatsCommit(k) \/ FindsThread(k) \/ Completes(k)
  PROVE  Projected(op[k].plan)
<1>0. /\ TypeOK /\ Answering(k, op[k]) /\ OperationShape(k, op[k]) /\ ReceiptsOwned /\ Creations
      /\ \A j \in Plans : j # 0
  BY PlanType DEF ThreadInvariant, AnswerInvariant, OperationShapes
<1>1. PICK p : p = op[k].plan
  OBVIOUS
<1>2. k \in Threads \ Old /\ Creation(p) /\ made[p].thread = k /\ p \in Plans /\ p # 0
  BY <1>0, <1>1 DEF OperationShape, Creation
<1>3. pending[k] = 0
  BY ClearsShape DEF RepeatsCommit, FindsThread, Completes, Earlier, Clears
<1>4. \A i : Carried(k, i) /\ i # 0 => Projected(i)
  BY <1>3 DEF Carried
<1>5. CASE Completes(k)
  <2>1. Carried(k, p)
    BY <1>0, <1>1, <1>5 DEF Completes, Answering
  <2> QED
    BY <1>1, <1>2, <1>4, <2>1
<1>6. CASE RepeatsCommit(k)
  <2>1. PICK key \in Keys : key = made[p].req.key
    BY <1>0, <1>2, PlanType
  <2>2. PICK found : found = receipts[k][key]
    OBVIOUS
  <2>3. found # 0 /\ made[found].req = made[p].req
    BY <1>1, <1>6, <2>1, <2>2 DEF RepeatsCommit, Keeps, receiptFor
  <2>4. Carried(k, found) /\ made[found].thread = k /\ found \in Plans
    BY <1>0, <1>2, <2>2, <2>3, KeptReceipt DEF ReceiptsOwned
  <2>5. Creation(found)
    BY <1>0, <1>2, <2>3, <2>4 DEF Creations
  <2>6. found = p
    BY <1>0, <1>2, <2>4, <2>5 DEF Creations
  <2> QED
    BY <1>1, <1>2, <1>4, <2>4, <2>6
<1>7. CASE FindsThread(k)
  <2>1. canonical[k] # <<>>
    BY <1>7 DEF FindsThread, ownsThread
  <2>2. PICK i \in Plans : Creation(i) /\ made[i].thread = k /\ Carried(k, i)
    BY <1>0, <1>2, <2>1 DEF Creations
  <2>3. i = p
    BY <1>0, <1>2, <2>2 DEF Creations
  <2> QED
    BY <1>1, <1>2, <1>4, <2>2, <2>3
<1> QED
  BY <1>5, <1>6, <1>7

\* The operation of coordinator k ends with an answer.
LEMMA EndsCalls ==
  ASSUME ThreadInvariant, AnswerInvariant, CarriedOn, NEW k \in Coordinators,
         NEW answer \in {"ok", "failed"}, Ends(k, answer), pending' = pending,
         handoffs' \subseteq handoffs,
         answer = "ok" /\ op[k].kind = "commit" => Projected(op[k].plan)
  PROVE  HandoffCalls'
<1>0. /\ TypeOK /\ HandoffCalls /\ OperationShape(k, op[k])
      /\ Forum \in Coordinators /\ Forum \notin Threads
  BY CoordinatorsAssumption DEF ThreadInvariant, AnswerInvariant, OperationShapes, Coordinators
<1>1. op'[k] = IdleOp /\ OthersAnswered(k)
  BY <1>0, EndsAnswers
<1>2. CASE k = Forum
  BY <1>1, <1>2, CallsIdle DEF IdleOp
<1>3. CASE k # Forum
  <2>1. k \in Threads
    BY <1>3 DEF Coordinators
  <2>2. \A t \in Threads : op'[t].kind = "commit" =>
          op[t].kind = "commit" /\ op'[t].call = op[t].call /\ op'[t].plan = op[t].plan
    <3>1. SUFFICES ASSUME NEW t \in Threads \ {k}
                   PROVE  /\ op'[t].kind = op[t].kind /\ op'[t].call = op[t].call
                          /\ op'[t].plan = op[t].plan
      BY <1>1 DEF IdleOp
    <3>2. t \in Coordinators \ {k}
      BY DEF Coordinators
    <3> QED
      BY <1>0, <1>1, <3>2, AnsweredFields DEF OthersAnswered, Alike
  <2>3. Answered(op'[Forum], op[Forum])
    BY <1>0, <1>1, <1>3 DEF OthersAnswered
  <2>4. \/ op'[Forum] = op[Forum]
        \/ /\ op[k].kind = "commit" /\ op[Forum].pc = "handoff" /\ op[Forum].call = op[k].call
           /\ op'[Forum] = [op[Forum] EXCEPT !.answer = answer]
    BY <1>0, <1>3 DEF Ends
  <2>5. op'[Forum] = [op[Forum] EXCEPT !.answer = answer] => op'[Forum].answer = answer
    <3>1. op[Forum] \in Operations(Len(made))
      BY <1>0 DEF TypeOK
    <3> QED
      BY <3>1 DEF Operations
  <2>6. op[k].kind = "commit" /\ op[Forum].pc = "handoff" /\ op[Forum].call = op[k].call =>
          op[k].plan = pending[Forum]
    BY <1>0, <2>1 DEF HandoffCalls
  <2>7. \/ op'[Forum].answer = op[Forum].answer
        \/ op[Forum].pc = "handoff" /\ (op'[Forum].answer = "ok" => Projected(pending[Forum]))
    <3>1. CASE op'[Forum] = op[Forum]
      BY <3>1
    <3>2. CASE op'[Forum] # op[Forum]
      <4>1. op[k].kind = "commit" /\ op[Forum].pc = "handoff" /\ op[Forum].call = op[k].call
            /\ op'[Forum].answer = answer /\ op[k].plan = pending[Forum]
        BY <2>4, <2>5, <2>6, <3>2
      <4>2. answer = "ok" => Projected(op[k].plan)
        BY <4>1
      <4> QED
        BY <4>1, <4>2
    <3> QED
      BY <3>1, <3>2
  <2> QED
    BY <1>0, <2>2, <2>3, <2>7, CallsStand
<1> QED
  BY <1>2, <1>3

(***************************************************************************)
(* AnswerInvariant is inductive.                                           *)
(***************************************************************************)
\* An operation that begins knows what it has just read.
LEMMA ReplayingKnows ==
  ASSUME NEW k \in Coordinators, NEW n \in Nat, NEW o \in Operations(n),
         op'[k] = Replaying(k, o), o.pc = "idle", ~o.committed,
         UNCHANGED <<pending, receipts, expired, made, projected>>,
         o.kind = "mutate" =>
           /\ o.req.to = k /\ (o.plan # 0 => Carried(k, o.plan))
           /\ o.plan = 0 => receiptFor(k, o.req.key) = 0
  PROVE  Answering(k, op[k])'
<1>1. /\ op'[k].kind = o.kind /\ op'[k].req = o.req /\ op'[k].plan = o.plan
      /\ op'[k].committed = FALSE /\ op'[k].pc \in {"clear", "handoff", "kv"}
  BY DEF Replaying, Operations
<1>2. PICK p : p = o.plan
  OBVIOUS
<1>3. Carried(k, p)' <=> Carried(k, p)
  BY DEF Carried, Projected
<1>4. o.kind = "mutate" /\ p # 0 => Carried(k, p)
  BY <1>2
<1> QED
  BY <1>1, <1>2, <1>3, <1>4 DEF Answering, Carried, Projected, receiptFor

\* A coordinator of a thread that starts a replay hands nothing over.
LEMMA ThreadStartsCalls ==
  ASSUME ThreadInvariant, AnswerInvariant, CarriedOn, NEW k \in Threads, NEW o \in Operations(Len(made)),
         op' = [op EXCEPT ![k] = Replaying(k, o)], pending' = pending, handoffs' \subseteq handoffs,
         o.kind = "commit" => \E m \in handoffs : o.call = m.call /\ o.plan = m.plan
  PROVE  HandoffCalls'
<1>0. /\ TypeOK /\ HandoffCalls /\ k \in Coordinators /\ k # Forum
      /\ \A t \in Threads : t \in Coordinators
  BY CoordinatorsAssumption DEF ThreadInvariant, AnswerInvariant, Coordinators
<1>1. op'[k] = Replaying(k, o) /\ \A c \in Coordinators \ {k} : op'[c] = op[c]
  BY <1>0 DEF TypeOK
<1>2. op'[k].kind = o.kind /\ op'[k].call = o.call /\ op'[k].plan = o.plan
  <2>1. k # Forum
    BY <1>0
  <2>2. /\ Replaying(k, o).kind = o.kind /\ Replaying(k, o).call = o.call
        /\ Replaying(k, o).plan = o.plan
    BY <2>1 DEF Replaying, Operations
  <2> QED
    BY <1>1, <2>2
<1>3. op'[Forum] = op[Forum]
  BY <1>0, <1>1 DEF Coordinators
<1>4. Answered(op'[Forum], op[Forum])
  BY <1>3, Zenon DEF Answered
<1> QED
  BY <1>0, <1>1, <1>2, <1>3, <1>4, CallsStand

\* Requests, recoveries and alarms.
LEMMA StartsCalls ==
  ASSUME ThreadInvariant, AnswerInvariant, CarriedOn, NEW k \in Coordinators,
         NEW o \in Operations(Len(made)), StartReplay(k, o), pending' = pending,
         o.pc = "idle", o.kind # "commit", o.answer = "none"
  PROVE  HandoffCalls'
<1>0. TypeOK /\ Len(made) \in Nat /\ Len(made) <= Len(made)
      /\ pending' \in [Coordinators -> 0..Len(made)]
  <2>1. TypeOK
    BY DEF ThreadInvariant
  <2> QED
    BY <2>1 DEF TypeOK, PlansOrNone
<1>1. CASE k = Forum
  BY <1>0, <1>1, CallsFresh
<1>2. CASE k # Forum
  <2>1. k \in Threads
    BY <1>2 DEF Coordinators
  <2>2. op' = [op EXCEPT ![k] = Replaying(k, o)]
    BY DEF StartReplay
  <2>3. Replaying(k, o).pc # "handoff"
    BY <1>2 DEF Replaying, Operations
  <2>4. op'[k].pc # "handoff"
    BY <1>0, <2>2, <2>3 DEF TypeOK
  <2>5. handoffs' = handoffs
    BY <2>4 DEF StartReplay
  <2> QED
    BY <2>1, <2>2, <2>5, ThreadStartsCalls
<1> QED
  BY <1>1, <1>2

AnswersOf(k) == StepOf(k) /\ CarriedOn /\ Answering(k, op[k])' /\ HandoffCalls'

LEMMA StartsAnswers ==
  ASSUME ThreadInvariant, AnswerInvariant, NEW k \in Coordinators,
         NEW o \in Operations(Len(made)), StartReplay(k, o),
         UNCHANGED <<durable, outside, made, expired, limits>>,
         o.pc = "idle", ~o.committed, o.kind # "commit", o.answer = "none",
         o.kind = "mutate" =>
           /\ o.req.to = k /\ (o.plan # 0 => Carried(k, o.plan))
           /\ o.plan = 0 => receiptFor(k, o.req.key) = 0
  PROVE  AnswersOf(k)
<1>0. TypeOK /\ Len(made) \in Nat
  BY DEF ThreadInvariant, TypeOK
<1>1. op'[k] = Replaying(k, o) /\ \A c \in Coordinators \ {k} : op'[c] = op[c]
  BY <1>0 DEF StartReplay, TypeOK
<1>2. Elsewhere(k) /\ Calm(k)
  BY <1>0, <1>1, OnlyOneAnswers, StillCalm
<1>3. CarriedOn
  BY <1>0, <1>2, CalmCarries
<1>4. UNCHANGED <<pending, receipts, expired, made, projected>>
  BY DEF durable, outside
<1>5. Answering(k, op[k])'
  BY <1>0, <1>1, <1>4, ReplayingKnows
<1>6. HandoffCalls'
  BY <1>3, <1>4, StartsCalls
<1> QED
  BY <1>2, <1>3, <1>5, <1>6 DEF AnswersOf, StepOf

LEMMA RequestAnswers ==
  ASSUME ThreadInvariant, AnswerInvariant, NEW r \in Requests, Request(r)
  PROVE  AnswersOf(r.to)
<1> DEFINE found == receiptFor(r.to, r.key)
           o == [AsksFor("mutate") EXCEPT !.req = r, !.plan = found]
<1>0. TypeOK /\ Len(made) \in Nat /\ r.to \in Coordinators /\ r.key \in Keys
  <2>1. TypeOK
    BY DEF ThreadInvariant
  <2>2. r.to \in Coordinators /\ r.key \in Keys
    BY CoordinatorsAssumption DEF Keys
  <2> QED
    BY <2>1, <2>2 DEF TypeOK
<1>1. found \in 0..Len(made)
  BY <1>0 DEF TypeOK, PlansOrNone, receiptFor
<1>2. AsksFor("mutate") \in Operations(Len(made))
  BY <1>0, AsksType
<1>3. o \in Operations(Len(made))
  BY <1>1, <1>2 DEF Operations
<1>4. /\ o.kind = "mutate" /\ o.pc = "idle" /\ o.req = r /\ o.plan = found
      /\ o.committed = FALSE /\ o.answer = "none"
  BY DEF AsksFor, IdleOp
<1>5. StartReplay(r.to, o) /\ UNCHANGED <<durable, outside, made, expired, limits>>
  BY DEF Request
<1>6. found # 0 => Carried(r.to, found)
  BY <1>0 DEF AnswerInvariant, ReceiptsOwned, receiptFor
<1>7. o.plan = 0 => receiptFor(r.to, o.req.key) = 0
  BY <1>4
<1> HIDE DEF o, found
<1> QED
  BY <1>0, <1>3, <1>4, <1>5, <1>6, <1>7, StartsAnswers

LEMMA RecoversAnswers ==
  ASSUME ThreadInvariant, AnswerInvariant, NEW k \in Coordinators, Recover(k) \/ AlarmFires(k)
  PROVE  AnswersOf(k)
<1>0. Len(made) \in Nat
  BY DEF ThreadInvariant, TypeOK
<1>1. PICK kind \in {"recover", "alarm"} :
        StartReplay(k, AsksFor(kind)) /\ UNCHANGED <<durable, outside, made, expired, limits>>
  BY DEF Recover, AlarmFires
<1>2. AsksFor(kind) \in Operations(Len(made))
  BY <1>0, AsksType
<1>3. /\ AsksFor(kind).kind = kind /\ AsksFor(kind).pc = "idle"
      /\ AsksFor(kind).committed = FALSE /\ AsksFor(kind).answer = "none"
  BY DEF AsksFor, IdleOp
<1> QED
  BY <1>1, <1>2, <1>3, StartsAnswers

LEMMA TakesAnswers ==
  ASSUME ThreadInvariant, AnswerInvariant, NEW m \in handoffs, TakeHandoff(m)
  PROVE  \E k \in Coordinators : AnswersOf(k)
<1> DEFINE o == [AsksFor("commit") EXCEPT !.plan = m.plan, !.call = m.call]
<1>t. PICK t : t = made[m.plan].thread
  OBVIOUS
<1>0. TypeOK /\ Len(made) \in Nat
  BY DEF ThreadInvariant, TypeOK
<1>1. m.plan \in Plans /\ m.plan \in 0..Len(made) /\ m.call \in Nat
  BY <1>0 DEF TypeOK, Plans
<1>2. t \in Threads /\ t \in Coordinators
  BY <1>0, <1>1, <1>t, PlanType DEF Coordinators
<1>3. AsksFor("commit") \in Operations(Len(made))
  BY <1>0, AsksType
<1>4. o \in Operations(Len(made))
  BY <1>1, <1>3 DEF Operations
<1>5. /\ o.kind = "commit" /\ o.pc = "idle" /\ o.plan = m.plan /\ o.call = m.call
      /\ o.committed = FALSE
  BY DEF AsksFor, IdleOp
<1>6. /\ op' = [op EXCEPT ![t] = Replaying(t, o)] /\ handoffs' = handoffs \ {m}
      /\ UNCHANGED <<durable, outside, made, expired, limits>>
  BY <1>t DEF TakeHandoff
<1> HIDE DEF o
<1>7. op'[t] = Replaying(t, o) /\ \A c \in Coordinators \ {t} : op'[c] = op[c]
  BY <1>0, <1>2, <1>6 DEF TypeOK
<1>8. Elsewhere(t) /\ Calm(t)
  BY <1>0, <1>2, <1>6, <1>7, OnlyOneAnswers, StillCalm
<1>9. CarriedOn
  BY <1>0, <1>2, <1>8, CalmCarries
<1>10. UNCHANGED <<pending, receipts, expired, made, projected>>
  BY <1>6 DEF durable, outside
<1>11. Answering(t, op[t])'
  BY <1>0, <1>2, <1>4, <1>5, <1>7, <1>10, ReplayingKnows
<1>12. HandoffCalls'
  BY <1>2, <1>4, <1>5, <1>6, <1>9, <1>10, ThreadStartsCalls
<1> QED
  BY <1>2, <1>8, <1>9, <1>11, <1>12 DEF AnswersOf, StepOf

\* Only one record changes, and the call of the forum's coordinator is not its own.
LEMMA OnlyOneCalls ==
  ASSUME ThreadInvariant, AnswerInvariant, CarriedOn, NEW k \in Coordinators,
         \A c \in Coordinators \ {k} : op'[c] = op[c],
         k # Forum => pending'[Forum] = pending[Forum], handoffs' = handoffs,
         op'[k].kind = "commit" =>
           op[k].kind = "commit" /\ op'[k].call = op[k].call /\ op'[k].plan = op[k].plan,
         k = Forum => \/ op'[k].pc # "handoff" /\ op'[k].answer = "none"
                      \/ op'[k] = op[k] /\ pending'[k] = pending[k]
  PROVE  HandoffCalls'
<1>1. CASE k = Forum /\ op'[k].pc # "handoff" /\ op'[k].answer = "none"
  BY <1>1, CallsIdle
<1>2. CASE k # Forum \/ (op'[k] = op[k] /\ pending'[k] = pending[k])
  <2>1. op'[Forum] = op[Forum] /\ pending'[Forum] = pending[Forum]
    BY <1>2 DEF Coordinators
  <2>2. Answered(op'[Forum], op[Forum])
    BY <2>1, Zenon DEF Answered
  <2>3. \A t \in Threads : op'[t].kind = "commit" =>
          op[t].kind = "commit" /\ op'[t].call = op[t].call /\ op'[t].plan = op[t].plan
    BY DEF Coordinators
  <2> QED
    BY <2>1, <2>2, <2>3, CallsStand DEF AnswerInvariant
<1> QED
  BY <1>1, <1>2

LEMMA UntouchedAnswers ==
  ASSUME ThreadInvariant, AnswerInvariant, NEW k \in Coordinators, Elsewhere(k),
         Calm(k) \/ Replays(k), op' = op, ~limits.late => wakes' = wakes, handoffs' = handoffs,
         pending' = pending
  PROVE  AnswersOf(k)
<1>1. CarriedOn
  BY CalmCarries, ReplaysCarries DEF ThreadInvariant
<1>2. Answering(k, op[k])'
  BY <1>1, UntouchedAnswering
<1>3. HandoffCalls'
  BY <1>1, OnlyOneCalls
<1> QED
  BY <1>1, <1>2, <1>3 DEF AnswersOf, StepOf

LEMMA BeginsAnswers ==
  ASSUME ThreadInvariant, AnswerInvariant, Begins
  PROVE  \E k \in Coordinators : AnswersOf(k)
<1>0. TypeOK
  BY DEF ThreadInvariant
<1>1. ASSUME NEW k \in Coordinators, Sweep(k)
      PROVE  AnswersOf(k)
  <2>1. UNCHANGED <<durable, outside, made, expired, op, handoffs, limits>>
    BY <1>1 DEF Sweep
  <2>2. OthersAnswered(k)
    BY <2>1, OnlyOneAnswers
  <2>3. Elsewhere(k) /\ Calm(k)
    BY <1>0, <2>1, <2>2, StillCalm
  <2> QED
    BY <2>1, <2>3, UntouchedAnswers DEF durable, outside
<1>2. \A r \in Requests : r.to \in Coordinators
  BY CoordinatorsAssumption
<1> QED
  BY <1>1, <1>2, RequestAnswers, TakesAnswers, RecoversAnswers DEF Begins

\* The awaits of a replay, and what follows it without ending the operation.
LEMMA RunsOnAnswers ==
  ASSUME ThreadInvariant, AnswerInvariant, NEW k \in Coordinators,
         \/ KvWritten(k) \/ BatchDone(k) \/ Stages(k) \/ AcceptsHandoff(k) \/ WakeStored(k)
  PROVE  AnswersOf(k)
<1>0. TypeOK /\ Batches /\ HandoffCalls /\ OperationShape(k, op[k])
  BY DEF ThreadInvariant, AnswerInvariant, OperationShapes
<1>1. Elsewhere(k) /\ (Calm(k) \/ Replays(k))
  BY <1>0, RunsReplay, RunsCalm, WakeStoredCalm
<1>2. CarriedOn
  BY <1>0, <1>1, CalmCarries, ReplaysCarries
<1>3. Answering(k, op[k])' /\ Continues(k)
  BY <1>2, RunsOnAnswering
<1>4. handoffs' = handoffs /\ \A c \in Coordinators \ {k} : op'[c] = op[c]
  <2>1. CASE Stages(k)
    BY <1>0, <2>1 DEF Stages, Earlier, Clears, TypeOK
  <2>2. CASE ~Stages(k)
    BY <1>0, <2>2 DEF KvWritten, BatchDone, AcceptsHandoff, WakeStored, Earlier, Clears, TypeOK
  <2> QED
    BY <2>1, <2>2
<1>5. ASSUME k = Forum
      PROVE  op'[k].pc # "handoff" /\ op'[k].answer = "none"
  <2>1. ~KvWritten(k) /\ ~BatchDone(k) /\ ~AcceptsHandoff(k)
    BY <1>0, <1>5, CoordinatorsAssumption
       DEF KvWritten, BatchDone, AcceptsHandoff, Earlier, OperationShape, At
  <2>2. op[k].pc # "handoff" /\ op[k].answer = "none"
    BY <1>0, <1>5, <2>1 DEF Stages, WakeStored, Earlier, Clears, At, HandoffCalls
  <2>3. CASE WakeStored(k)
    BY <1>0, <2>2, <2>3, PcFields DEF WakeStored
  <2>4. CASE Stages(k)
    <3>1. PICK t : op' = [op EXCEPT ![k].pc = "wake", ![k].thread = t,
                           ![k].base = IF k = Forum THEN <<>> ELSE readFreshThread(k)]
      BY <2>4 DEF Stages
    <3>2. op' = [op EXCEPT ![k] = [op[k] EXCEPT !.pc = "wake", !.thread = t,
                           !.base = IF k = Forum THEN <<>> ELSE readFreshThread(k)]]
      BY <3>1
    <3>3. op'[k] = [op[k] EXCEPT !.pc = "wake", !.thread = t,
                           !.base = IF k = Forum THEN <<>> ELSE readFreshThread(k)]
      BY <1>0, <3>2 DEF TypeOK
    <3>4. op[k] \in Operations(Len(made))
      BY <1>0 DEF TypeOK
    <3> QED
      BY <2>2, <3>3, <3>4 DEF Operations
  <2> QED
    BY <2>1, <2>3, <2>4
<1>6. k # Forum => pending'[Forum] = pending[Forum]
  BY <1>1 DEF Elsewhere, Coordinators
<1>7. HandoffCalls'
  BY <1>2, <1>3, <1>4, <1>5, <1>6, OnlyOneCalls DEF Continues
<1> QED
  BY <1>1, <1>2, <1>3, <1>7 DEF AnswersOf, StepOf

\* The operation ends: with its answer, or because its call fails.
LEMMA EndsAnswersOf ==
  ASSUME ThreadInvariant, AnswerInvariant, NEW k \in Coordinators,
         NEW answer \in {"ok", "failed"}, Ends(k, answer), pending' = pending,
         handoffs' \subseteq handoffs, Elsewhere(k), Calm(k) \/ Replays(k),
         answer = "ok" /\ op[k].kind = "commit" => Projected(op[k].plan)
  PROVE  AnswersOf(k)
<1>0. TypeOK
  BY DEF ThreadInvariant
<1>1. CarriedOn
  BY <1>0, CalmCarries, ReplaysCarries
<1>2. op'[k] = IdleOp
  BY <1>0, EndsAnswers
<1>3. Answering(k, op[k])'
  BY <1>2, IdleAnswering DEF IdleOp
<1>4. HandoffCalls'
  BY <1>1, EndsCalls
<1> QED
  BY <1>1, <1>3, <1>4 DEF AnswersOf, StepOf

LEMMA RepliesAnswers ==
  ASSUME ThreadInvariant, AnswerInvariant, NEW k \in Coordinators,
         \/ RepeatsReply(k) \/ Rejects(k) \/ CommitRefused(k) \/ RepeatsCommit(k)
         \/ FindsThread(k) \/ Recovered(k) \/ AlarmDone(k) \/ Completes(k)
  PROVE  AnswersOf(k)
<1>1. Elsewhere(k) /\ Calm(k)
  BY RunsCalm
<1>2. pending' = pending /\ handoffs' = handoffs
  BY DEF RepeatsReply, Rejects, CommitRefused, RepeatsCommit, FindsThread, Recovered, AlarmDone,
         Completes, Earlier, Clears, durable
<1>3. CASE RepeatsReply(k) \/ Rejects(k) \/ Recovered(k) \/ AlarmDone(k)
  <2>1. Ends(k, "ok") /\ op[k].kind # "commit"
    BY <1>3 DEF RepeatsReply, Rejects, Recovered, AlarmDone, Earlier
  <2> QED
    BY <1>1, <1>2, <2>1, EndsAnswersOf
<1>4. CASE CommitRefused(k)
  BY <1>1, <1>2, <1>4, EndsAnswersOf DEF CommitRefused
<1>5. CASE RepeatsCommit(k) \/ FindsThread(k) \/ Completes(k)
  <2>1. Ends(k, "ok") /\ (op[k].kind = "commit" => Projected(op[k].plan))
    BY <1>5, OkIsProjected DEF RepeatsCommit, FindsThread, Completes
  <2> QED
    BY <1>1, <1>2, <2>1, EndsAnswersOf
<1> QED
  BY <1>3, <1>4, <1>5

LEMMA FailsAnswers ==
  ASSUME ThreadInvariant, AnswerInvariant, NEW k \in Coordinators, Fails(k)
  PROVE  AnswersOf(k)
<1>1. Batches
  BY DEF AnswerInvariant
<1>2. Elsewhere(k) /\ (Calm(k) \/ Replays(k))
  BY <1>1, FailsCalm, FailsReplay DEF Fails
<1>3. Ends(k, "failed") /\ pending' = pending /\ handoffs' \subseteq handoffs
  BY DEF Fails, FailsBefore, FailsAfter, FailsPending, durable
<1> QED
  BY <1>2, <1>3, EndsAnswersOf

LEMMA ForumAnswers ==
  ASSUME ThreadInvariant, AnswerInvariant, HandoffDone \/ HandoffRefused
  PROVE  AnswersOf(Forum)
<1>0. /\ TypeOK /\ Forum \in Coordinators /\ Batches /\ HandoffCalls
      /\ op[Forum] \in Operations(Len(made))
  BY DEF ThreadInvariant, AnswerInvariant, Coordinators, TypeOK
<1>1. Elsewhere(Forum) /\ (Calm(Forum) \/ Replays(Forum))
  BY <1>0, HandoffReplays, ForumOrTimeCalm
<1>2. CarriedOn
  BY <1>0, <1>1, CalmCarries, ReplaysCarries
<1>3. CASE HandoffDone
  <2>1. op' = [op EXCEPT ![Forum] = [op[Forum] EXCEPT !.pc = "clear", !.answer = "none"]]
    BY <1>3 DEF HandoffDone
  <2>2. op'[Forum] = [op[Forum] EXCEPT !.pc = "clear", !.answer = "none"]
    BY <1>0, <2>1 DEF TypeOK
  <2>3. Continues(Forum) /\ op'[Forum].pc = "clear" /\ op'[Forum].answer = "none"
    BY <1>0, <2>2 DEF Continues, Operations
  <2>4. Answering(Forum, op[Forum])'
    BY <1>0, <1>1, <1>2, <2>3, ContinuesAnswering
  <2> QED
    BY <1>1, <1>2, <2>3, <2>4, CallsIdle DEF AnswersOf, StepOf
<1>4. CASE HandoffRefused
  <2>1. op'[Forum] = IdleOp
    BY <1>0, <1>4 DEF HandoffRefused, TypeOK
  <2>2. Answering(Forum, op[Forum])'
    BY <2>1, IdleAnswering DEF IdleOp
  <2> QED
    BY <1>1, <1>2, <2>1, <2>2, CallsIdle DEF AnswersOf, StepOf, IdleOp
<1> QED
  BY <1>3, <1>4

LEMMA TimeAnswers ==
  ASSUME ThreadInvariant, AnswerInvariant, LateCall \/ ReceiptExpires \/ UNCHANGED vars
  PROVE  \E k \in Coordinators : AnswersOf(k)
<1>0. TypeOK /\ Batches /\ Forum \in Coordinators
  BY DEF ThreadInvariant, AnswerInvariant, Coordinators
<1>1. UNCHANGED <<op, handoffs, pending>>
  BY DEF LateCall, ReceiptExpires, vars, durable
<1>2. PICK k \in Coordinators : /\ Elsewhere(k) /\ (Calm(k) \/ Replays(k))
                                /\ ~limits.late => wakes' = wakes
  <2>1. CASE LateCall
    BY <1>0, <2>1, LateReplays
  <2>2. CASE ReceiptExpires \/ UNCHANGED vars
    BY <1>0, <2>2, ForumOrTimeCalm DEF ReceiptExpires, vars, outside
  <2> QED
    BY <2>1, <2>2
<1> QED
  BY <1>1, <1>2, UntouchedAnswers

LEMMA CommitsAnswers ==
  ASSUME ThreadInvariant, AnswerInvariant, NEW k \in Coordinators,
         CommitsOwn(k) \/ CommitsHandoff(k)
  PROVE  AnswersOf(k)
<1>0. /\ TypeOK /\ ReceiptsOwned /\ Creations /\ Answering(k, op[k]) /\ HandoffCalls
      /\ Len(made) \in Nat /\ op[k] \in Operations(Len(made))
  BY DEF ThreadInvariant, AnswerInvariant, TypeOK
<1>1. PICK i : Elsewhere(k) /\ Commits(k, i)
  BY <1>0, CommitsOwnCommits, CommitsHandoffCommits
<1>2. CarriedOn
  BY <1>0, <1>1, CommitsCarries
<1>3. Answering(k, op[k])'
  BY CommitsAnswering
<1>4. CASE k = Forum
  <2> DEFINE n == Len(made) + 1
             o == [op[k] EXCEPT !.committed = TRUE, !.plan = n]
  <2>1. StartReplay(Forum, o) /\ storePlan(n, Forum, NewPlan(k)) /\ op[k].pc = "store"
    BY <1>4, CommitsAnswering DEF CommitsOwn, At
  <2>2. pending' \in [Coordinators -> 0..n]
    <3>1. pending \in [Coordinators -> 0..Len(made)]
      BY <1>0 DEF TypeOK, PlansOrNone
    <3>2. pending' = [pending EXCEPT ![Forum] = n]
      BY <2>1 DEF storePlan
    <3>3. n \in 0..n /\ 0..Len(made) \subseteq 0..n
      BY <1>0
    <3> HIDE DEF n
    <3> QED
      BY <3>1, <3>2, <3>3
  <2>3. o \in Operations(n) /\ o.pc = "store" /\ o.answer = op[k].answer
    <3>1. op[k] \in Operations(n) /\ n \in 0..n
      BY <1>0, OperationsGrow
    <3> HIDE DEF n
    <3> QED
      BY <2>1, <3>1 DEF Operations
  <2>4. op[k].answer = "none"
    BY <1>0, <1>4, <2>1 DEF HandoffCalls
  <2>5. n \in Nat /\ Len(made) <= n
    BY <1>0
  <2> HIDE DEF o, n
  <2>6. HandoffCalls'
    BY <1>0, <2>1, <2>2, <2>3, <2>4, <2>5, CallsFresh
  <2> QED
    BY <1>1, <1>2, <1>3, <2>6 DEF AnswersOf, StepOf
<1>5. CASE k # Forum
  <2>1. \A c \in Coordinators \ {k} : op'[c] = op[c]
    BY <1>0 DEF CommitsOwn, CommitsHandoff, StartReplay, TypeOK
  <2>2. handoffs' = handoffs
    <3>1. CASE CommitsHandoff(k)
      BY <3>1 DEF CommitsHandoff
    <3>2. CASE CommitsOwn(k)
      <4> DEFINE n == Len(made) + 1
                 o == [op[k] EXCEPT !.committed = TRUE, !.plan = n]
      <4>1. StartReplay(k, o) /\ op[k].pc = "store"
        BY <3>2 DEF CommitsOwn, At
      <4>2. op'[k] = Replaying(k, o)
        BY <1>0, <4>1 DEF StartReplay, TypeOK
      <4>3. o \in Operations(n) /\ o.pc = "store"
        <5>1. op[k] \in Operations(n) /\ n \in 0..n
          BY <1>0, OperationsGrow
        <5> HIDE DEF n
        <5> QED
          BY <4>1, <5>1 DEF Operations
      <4> HIDE DEF o, n
      <4>4. op'[k].pc # "handoff"
        BY <1>5, <4>2, <4>3 DEF Replaying, Operations
      <4> QED
        BY <4>1, <4>4 DEF StartReplay
    <3> QED
      BY <3>1, <3>2
  <2>3. op'[k].kind = "commit" =>
          op[k].kind = "commit" /\ op'[k].call = op[k].call /\ op'[k].plan = op[k].plan
    BY CommitsAnswering
  <2>4. pending'[Forum] = pending[Forum]
    BY <1>1, <1>5 DEF Elsewhere, Coordinators
  <2>5. HandoffCalls'
    BY <1>2, <1>5, <2>1, <2>2, <2>3, <2>4, OnlyOneCalls
  <2> QED
    BY <1>1, <1>2, <1>3, <2>5 DEF AnswersOf, StepOf
<1> QED
  BY <1>4, <1>5

LEMMA AnswerStep ==
  ASSUME ThreadInvariant, AnswerInvariant, [Next]_vars
  PROVE  AnswerInvariant' /\ ReceiptsKept /\ CarriedOn
<1>1. \E k \in Coordinators : AnswersOf(k)
  <2>1. CASE Begins
    BY <2>1, BeginsAnswers
  <2>2. ASSUME NEW k \in Coordinators, Runs(k)
        PROVE  AnswersOf(k)
    BY <2>2, RunsOnAnswers, RepliesAnswers, CommitsAnswers DEF Runs
  <2>3. ASSUME NEW k \in Coordinators, Fails(k)
        PROVE  AnswersOf(k)
    BY <2>3, FailsAnswers
  <2>4. CASE HandoffDone \/ HandoffRefused \/ LateCall \/ ReceiptExpires \/ UNCHANGED vars
    BY <2>4, ForumAnswers, TimeAnswers DEF Coordinators
  <2> QED
    BY <2>1, <2>2, <2>3, <2>4 DEF Next
<1>2. PICK k \in Coordinators : AnswersOf(k)
  BY <1>1
<1>3. StepOf(k) /\ CarriedOn /\ Answering(k, op[k])' /\ HandoffCalls'
  BY <1>2 DEF AnswersOf
<1>4. TypeOK'
  BY TypeStep DEF ThreadInvariant
<1>5. Stored' /\ ReceiptsKept
  BY <1>4, StoredStep
<1>6. \A c \in Coordinators : Answering(c, op[c])'
  BY <1>3, OthersStillAnswer
<1>7. (\A c \in Coordinators : Answering(c, op[c]))'
  BY <1>6
<1> QED
  BY <1>3, <1>5, <1>7 DEF AnswerInvariant, Stored

LEMMA AnswerInit ==
  ASSUME Init
  PROVE  AnswerInvariant
<1>1. Plans = {} /\ guards = {} /\ late = {} /\ Forum \in Coordinators
  BY DEF Init, Plans, Coordinators
<1>2. /\ \A k \in Coordinators : pending[k] = 0 /\ op[k] = IdleOp
      /\ \A k \in Coordinators, key \in Keys : receipts[k][key] = 0
      /\ \A t \in Threads : t \in Coordinators /\ canonical[t] = <<>>
      /\ \A t \in Threads \ Old : kv[t] = <<>>
  BY DEF Init, Coordinators
<1>3. ReceiptsOwned /\ ReceiptsStand /\ CarriedOutOnce /\ Creations
  BY <1>1, <1>2 DEF ReceiptsOwned, ReceiptsStand, CarriedOutOnce, Creations
<1>4. Batches /\ NewAreEmpty /\ PendingIsDiscoverable
  BY <1>1, <1>2 DEF Batches, NewAreEmpty, PendingIsDiscoverable
<1>5. \A k \in Coordinators : Answering(k, op[k])
  BY <1>2 DEF Answering, IdleOp
<1>6. HandoffCalls
  BY <1>1, <1>2 DEF HandoffCalls, IdleOp
<1> QED
  BY <1>3, <1>4, <1>5, <1>6 DEF AnswerInvariant

(***************************************************************************)
(* The theorems.                                                           *)
(***************************************************************************)
\* What coordinators know of plans, receipts, batches and calls while they
\* answer: whoever has a receipt or an answer for a plan has it projected or
\* replays it next (thread-mutations.ts).
THEOREM AnswerInvariantHolds == Spec => []AnswerInvariant
<1>1. Init => ThreadInvariant /\ AnswerInvariant
  BY InvariantInit, AnswerInit
<1>2. ThreadInvariant /\ AnswerInvariant /\ [Next]_vars => (ThreadInvariant /\ AnswerInvariant)'
  BY InvariantStep, AnswerStep
<1> QED
  BY <1>1, <1>2, PTL DEF Spec

\* Whoever is told that a mutation succeeded finds it in D1, whichever
\* coordinator carried it out and however often it was asked for.
THEOREM AnswersAreTrue == Spec => []AnswersAreProjected
<1>1. ThreadInvariant /\ AnswerInvariant => AnswersAreProjected
  <2>1. SUFFICES ASSUME ThreadInvariant, AnswerInvariant, NEW k \in Coordinators,
                        At(k, "clear"), op[k].kind = "mutate", op[k].plan # 0
                 PROVE  Projected(op[k].plan)
    BY DEF AnswersAreProjected
  <2>2. pending[k] = 0 /\ Carried(k, op[k].plan)
    BY <2>1, ClearsShape DEF AnswerInvariant, Answering
  <2> QED
    BY <2>1, <2>2 DEF Carried
<1> QED
  BY <1>1, ThreadInvariantHolds, AnswerInvariantHolds, PTL

\* A request is carried out again only when the receipt of its last plan is over.
THEOREM RequestsAreCarriedOutOnce == Spec => []CarriedOutOnce
<1>1. AnswerInvariant => CarriedOutOnce
  BY DEF AnswerInvariant
<1> QED
  BY <1>1, AnswerInvariantHolds, PTL

\* A committed plan has an alarm until it is replayed; and a wake, unless calls that
\* were given up on may take effect late.
THEOREM PendingPlansAreFound == Spec => []PendingIsDiscoverable
<1>1. AnswerInvariant => PendingIsDiscoverable
  BY DEF AnswerInvariant
<1> QED
  BY <1>1, AnswerInvariantHolds, PTL

\* No step prunes or replaces a receipt that is not over.
THEOREM ReceiptsStayUntilOver == Spec => ReceiptsAreKept
<1>1. ThreadInvariant /\ AnswerInvariant /\ [Next]_vars =>
        [\A k \in Coordinators, key \in Keys :
           receipts[k][key] \in Plans \ expired => receipts'[k][key] = receipts[k][key]]_vars
  BY AnswerStep DEF ReceiptsKept
<1> QED
  BY <1>1, ThreadInvariantHolds, AnswerInvariantHolds, PTL DEF Spec, ReceiptsAreKept

(***************************************************************************)
(* ThreadMutation implements PlanLog, unless a batch executes after it was *)
(* given up on.  First, plans that are staged and what documents consist   *)
(* of.                                                                     *)
(***************************************************************************)
\* The operation of coordinator k is over, begins, or goes on with what it has.
Rests(k) ==
  \/ op'[k].base = <<>> /\ op'[k].thread = NoThread /\ op'[k].pc \notin {"wake", "store"}
  \/ /\ op'[k].base = op[k].base /\ op'[k].thread = op[k].thread
     /\ op'[k].kind = op[k].kind /\ (op[k].committed => op'[k].committed)
     /\ op'[k].pc \in {"wake", "store"} => op'[k].committed = op[k].committed
     /\ op'[k].pc \in {"wake", "store"} /\ op'[k].kind = "mutate" => op[k].pc \in {"wake", "store"}

SameBounds == limits'.plans = limits.plans /\ limits'.late = limits.late

LEMMA IdleRests ==
  ASSUME NEW k, op'[k] = IdleOp
  PROVE  Rests(k)
  BY DEF Rests, IdleOp

LEMMA ReplayingRests ==
  ASSUME NEW k, NEW n \in Nat, NEW o \in Operations(n), op'[k] = Replaying(k, o), o.pc = "idle",
         o.base = <<>>, o.thread = NoThread
  PROVE  Rests(k)
<1>1. /\ op'[k].base = o.base /\ op'[k].thread = o.thread
      /\ op'[k].pc \in {"clear", "handoff", "kv"}
  BY DEF Replaying, Operations
<1> QED
  BY <1>1 DEF Rests

LEMMA BeginsRests ==
  ASSUME TypeOK, Begins
  PROVE  /\ \E k \in Coordinators : OthersAnswered(k) /\ Rests(k)
         /\ SameBounds
<1>0. Len(made) \in Nat /\ \A c \in Coordinators : op[c] \in Operations(Len(made))
  BY DEF TypeOK
<1>1. SameBounds
  BY DEF Begins, Request, TakeHandoff, Sweep, Recover, AlarmFires, SameBounds
<1>2. ASSUME NEW k \in Coordinators, NEW o \in Operations(Len(made)),
             op' = [op EXCEPT ![k] = Replaying(k, o)], o.pc = "idle", o.base = <<>>,
             o.thread = NoThread
      PROVE  OthersAnswered(k) /\ Rests(k)
  <2>1. op'[k] = Replaying(k, o) /\ \A c \in Coordinators \ {k} : op'[c] = op[c]
    BY <1>2 DEF TypeOK
  <2> QED
    BY <1>0, <1>2, <2>1, OnlyOneAnswers, ReplayingRests
<1>3. ASSUME NEW r \in Requests, Request(r)
      PROVE  OthersAnswered(r.to) /\ Rests(r.to)
  <2> DEFINE found == receiptFor(r.to, r.key)
             o == [AsksFor("mutate") EXCEPT !.req = r, !.plan = found]
  <2>1. r.to \in Coordinators /\ r.key \in Keys
    BY CoordinatorsAssumption DEF Keys
  <2>2. found \in 0..Len(made)
    BY <2>1 DEF TypeOK, PlansOrNone, receiptFor
  <2>3. AsksFor("mutate") \in Operations(Len(made))
    BY <1>0, AsksType
  <2>4. o \in Operations(Len(made))
    BY <2>2, <2>3 DEF Operations
  <2>5. o.pc = "idle" /\ o.base = <<>> /\ o.thread = NoThread
    BY DEF AsksFor, IdleOp
  <2>6. op' = [op EXCEPT ![r.to] = Replaying(r.to, o)]
    BY <1>3 DEF Request, StartReplay
  <2> HIDE DEF o
  <2> QED
    BY <1>2, <2>1, <2>4, <2>5, <2>6
<1>4. ASSUME NEW m \in handoffs, TakeHandoff(m)
      PROVE  \E k \in Coordinators : OthersAnswered(k) /\ Rests(k)
  <2> DEFINE o == [AsksFor("commit") EXCEPT !.plan = m.plan, !.call = m.call]
  <2>1. PICK t : t = made[m.plan].thread
    OBVIOUS
  <2>2. m.plan \in Plans /\ m.plan \in 0..Len(made) /\ m.call \in Nat
    BY <1>0 DEF TypeOK, Plans
  <2>3. t \in Coordinators
    BY <2>1, <2>2, PlanType DEF Coordinators
  <2>4. AsksFor("commit") \in Operations(Len(made))
    BY <1>0, AsksType
  <2>5. o \in Operations(Len(made))
    BY <2>2, <2>4 DEF Operations
  <2>6. o.pc = "idle" /\ o.base = <<>> /\ o.thread = NoThread
    BY DEF AsksFor, IdleOp
  <2>7. op' = [op EXCEPT ![t] = Replaying(t, o)]
    BY <1>4, <2>1 DEF TakeHandoff
  <2> HIDE DEF o
  <2> QED
    BY <1>2, <2>3, <2>5, <2>6, <2>7
<1>5. ASSUME NEW k \in Coordinators, Recover(k) \/ AlarmFires(k)
      PROVE  OthersAnswered(k) /\ Rests(k)
  <2>1. PICK kind \in {"recover", "alarm"} : op' = [op EXCEPT ![k] = Replaying(k, AsksFor(kind))]
    BY <1>5 DEF Recover, AlarmFires, StartReplay
  <2>2. AsksFor(kind) \in Operations(Len(made))
    BY <1>0, AsksType
  <2>3. /\ AsksFor(kind).pc = "idle" /\ AsksFor(kind).base = <<>>
        /\ AsksFor(kind).thread = NoThread
    BY DEF AsksFor, IdleOp
  <2> QED
    BY <1>2, <2>1, <2>2, <2>3
<1>6. ASSUME NEW k \in Coordinators, Sweep(k)
      PROVE  OthersAnswered(k) /\ Rests(k)
  BY <1>6, OnlyOneAnswers DEF Sweep, Rests
<1> QED
  BY <1>1, <1>3, <1>4, <1>5, <1>6, CoordinatorsAssumption DEF Begins

LEMMA EndsRests ==
  ASSUME TypeOK, NEW k \in Coordinators,
         \/ RepeatsReply(k) \/ Rejects(k) \/ CommitRefused(k) \/ RepeatsCommit(k)
         \/ FindsThread(k) \/ Recovered(k) \/ AlarmDone(k) \/ Completes(k) \/ Fails(k)
  PROVE  OthersAnswered(k) /\ Rests(k) /\ SameBounds
<1>1. PICK answer \in {"ok", "failed"} : Ends(k, answer)
  BY DEF RepeatsReply, Rejects, CommitRefused, RepeatsCommit, FindsThread, Recovered, AlarmDone,
         Completes, Fails, FailsBefore, FailsAfter, FailsPending
<1>2. SameBounds
  <2>1. CASE Fails(k)
    <3>1. limits' = [limits EXCEPT !.faults = @ - 1] /\ limits \in Allowances
      BY <2>1 DEF Fails, FailsBefore, FailsAfter, FailsPending, Fault, TypeOK
    <3> QED
      BY <3>1 DEF SameBounds, Allowances
  <2>2. CASE ~Fails(k)
    BY <2>2 DEF RepeatsReply, Rejects, CommitRefused, RepeatsCommit, FindsThread, Recovered,
         AlarmDone, Completes, Earlier, Clears, SameBounds
  <2> QED
    BY <2>1, <2>2
<1> QED
  BY <1>1, <1>2, EndsAnswers, IdleRests

LEMMA GoesOnRests ==
  ASSUME TypeOK, NEW k \in Coordinators,
         \/ AcceptsHandoff(k) \/ WakeStored(k) \/ KvWritten(k) \/ BatchDone(k) \/ CommitsHandoff(k)
  PROVE  OthersAnswered(k) /\ Rests(k) /\ SameBounds
<1>0. op[k] \in Operations(Len(made)) /\ Len(made) \in Nat
  BY DEF TypeOK
<1>1. OthersAnswered(k)
  BY GoesOnAnswers
<1>2. SameBounds
  BY DEF AcceptsHandoff, WakeStored, KvWritten, BatchDone, CommitsHandoff, Earlier, Clears, SameBounds
<1>3. CASE AcceptsHandoff(k) \/ WakeStored(k) \/ KvWritten(k) \/ BatchDone(k)
  <2>1. PICK pc \in {"wake", "store", "batch", "clear"} :
          /\ op' = [op EXCEPT ![k].pc = pc]
          /\ pc = "wake" => op[k].kind = "commit"
          /\ pc = "store" => op[k].pc = "wake"
    BY <1>3 DEF AcceptsHandoff, WakeStored, KvWritten, BatchDone, Earlier, At
  <2>2. /\ op'[k].pc = pc /\ op'[k].kind = op[k].kind /\ op'[k].committed = op[k].committed
        /\ op'[k].base = op[k].base /\ op'[k].thread = op[k].thread
    BY <2>1, PcFields DEF Continues
  <2> QED
    BY <1>1, <1>2, <2>1, <2>2 DEF Rests
<1>4. CASE CommitsHandoff(k)
  <2> DEFINE o == [op[k] EXCEPT !.committed = TRUE]
  <2>1. op'[k] = Replaying(k, o)
    BY <1>4 DEF CommitsHandoff, TypeOK
  <2>2. /\ o \in Operations(Len(made)) /\ o.committed = TRUE /\ o.kind = op[k].kind
        /\ o.base = op[k].base /\ o.thread = op[k].thread
    BY <1>0 DEF Operations
  <2> HIDE DEF o
  <2>3. /\ op'[k].committed = TRUE /\ op'[k].kind = op[k].kind /\ op'[k].base = op[k].base
        /\ op'[k].thread = op[k].thread /\ op'[k].pc \in {"clear", "handoff", "kv"}
    BY <2>1, <2>2 DEF Replaying, Operations
  <2> QED
    BY <1>1, <1>2, <2>3 DEF Rests
<1> QED
  BY <1>3, <1>4

LEMMA ForumRests ==
  ASSUME TypeOK, HandoffDone \/ HandoffRefused \/ LateCall \/ ReceiptExpires \/ UNCHANGED vars
  PROVE  OthersAnswered(Forum) /\ Rests(Forum) /\ SameBounds
<1>0. Forum \in Coordinators /\ op[Forum] \in Operations(Len(made))
  BY DEF TypeOK, Coordinators
<1>1. /\ SameBounds
      /\ \A c \in Coordinators \ {Forum} : op'[c] = op[c]
  BY DEF HandoffDone, HandoffRefused, LateCall, ReceiptExpires, vars, SameBounds, TypeOK
<1>2. CASE HandoffDone
  <2>1. op' = [op EXCEPT ![Forum] = [op[Forum] EXCEPT !.pc = "clear", !.answer = "none"]]
    BY <1>2 DEF HandoffDone
  <2>2. op'[Forum] = [op[Forum] EXCEPT !.pc = "clear", !.answer = "none"]
    BY <1>0, <2>1 DEF TypeOK
  <2>3. Rests(Forum)
    BY <1>0, <2>2 DEF Rests, Operations
  <2> QED
    BY <1>1, <2>3, OnlyOneAnswers
<1>3. CASE HandoffRefused
  BY <1>0, <1>1, <1>3, OnlyOneAnswers, IdleRests DEF HandoffRefused, TypeOK
<1>4. CASE LateCall \/ ReceiptExpires \/ UNCHANGED vars
  <2>1. op' = op
    BY <1>4 DEF LateCall, ReceiptExpires, vars
  <2> QED
    BY <1>1, <2>1, OnlyOneAnswers DEF Rests
<1> QED
  BY <1>2, <1>3, <1>4

\* Every step but the staging and the commit of a plan.
LEMMA EveryOtherRests ==
  ASSUME ThreadInvariant, [Next]_vars,
         \A k \in Coordinators : ~Stages(k) /\ ~CommitsOwn(k)
  PROVE  /\ \E k \in Coordinators : OthersAnswered(k) /\ Rests(k)
         /\ SameBounds
<1>0. TypeOK /\ Forum \in Coordinators
  BY DEF ThreadInvariant, Coordinators
<1>1. ASSUME NEW k \in Coordinators, Runs(k) \/ Fails(k)
      PROVE  OthersAnswered(k) /\ Rests(k) /\ SameBounds
  BY <1>0, <1>1, EndsRests, GoesOnRests DEF Runs
<1> QED
  BY <1>0, <1>1, BeginsRests, ForumRests DEF Next
(***************************************************************************)
(* Every plan is projected or pending, and there are no more than allowed. *)
(***************************************************************************)
LEMMA SamePlans ==
  ASSUME [Next]_vars, \A k \in Coordinators : ~CommitsOwn(k)
  PROVE  made' = made
<1>1. ASSUME Begins
      PROVE  made' = made
  BY <1>1 DEF Begins, Request, TakeHandoff, Sweep, Recover, AlarmFires
<1>2. ASSUME NEW k \in Coordinators, Runs(k)
      PROVE  made' = made
  BY <1>2 DEF Runs, KvWritten, BatchDone, RepeatsReply, Rejects, Stages, CommitRefused,
     RepeatsCommit, FindsThread, AcceptsHandoff, Recovered, AlarmDone, Completes, WakeStored,
     CommitsHandoff, Earlier, Clears
<1>3. ASSUME NEW k \in Coordinators, Fails(k)
      PROVE  made' = made
  BY <1>3 DEF Fails, FailsBefore, FailsAfter, FailsPending
<1>4. ASSUME HandoffDone \/ HandoffRefused \/ LateCall \/ ReceiptExpires \/ UNCHANGED vars
      PROVE  made' = made
  BY <1>4 DEF HandoffDone, HandoffRefused, LateCall, ReceiptExpires, vars
<1> QED
  BY <1>1, <1>2, <1>3, <1>4 DEF Next

LEMMA CommitsOwnPlan ==
  ASSUME ThreadInvariant, AnswerInvariant, NEW k \in Coordinators, CommitsOwn(k)
  PROVE  /\ Len(made) \in Nat /\ Len(made') = Len(made) + 1
         /\ made'[Len(made) + 1] = NewPlan(k) /\ made'[Len(made) + 1].req.to = k
         /\ pending'[k] = Len(made) + 1
<1>1. /\ made \in Seq([req : Requests, thread : Threads, doc : Seq(Nat)])
      /\ pending \in [Coordinators -> PlansOrNone] /\ OperationShapes /\ TypeOK
  BY DEF ThreadInvariant, TypeOK
<1>2. NewPlan(k) \in [req : Requests, thread : Threads, doc : Seq(Nat)]
  BY <1>1, NewPlanType DEF CommitsOwn
<1>3. made' = Append(made, NewPlan(k)) /\ pending'[k] = Len(made) + 1
  BY <1>1 DEF CommitsOwn, storePlan
<1>4. made'[Len(made) + 1] = NewPlan(k) /\ Len(made') = Len(made) + 1
  BY <1>1, <1>2, <1>3
<1>5. NewPlan(k).req.to = k
  BY DEF NewPlan, CommitsOwn, AnswerInvariant, Answering
<1> QED
  BY <1>1, <1>3, <1>4, <1>5

LEMMA PlansCarriedStep ==
  ASSUME ThreadInvariant, AnswerInvariant, PlansCarried, [Next]_vars
  PROVE  PlansCarried'
<1>1. CarriedOn
  BY AnswerStep
<1>2. ASSUME NEW i \in Plans
      PROVE  Carried(made[i].req.to, i)' /\ made'[i] = made[i]
  <2>1. made[i].req.to \in Coordinators
    BY PlanType, CoordinatorsAssumption DEF ThreadInvariant
  <2>2. made'[i] = made[i]
    BY <1>1 DEF CarriedOn, PlansStay
  <2>3. PICK c \in Coordinators : c = made[i].req.to
    BY <2>1
  <2>4. Carried(c, i)'
    BY <1>1, <2>3 DEF CarriedOn, PlansCarried
  <2>5. made'[i].req.to = c
    BY <2>2, <2>3
  <2> QED
    BY <2>2, <2>4, <2>5 DEF Carried
<1>3. CASE \E k \in Coordinators : CommitsOwn(k)
  <2>1. PICK k \in Coordinators : CommitsOwn(k)
    BY <1>3
  <2>2. ASSUME NEW i \in Plans', i \notin Plans
        PROVE  Carried(made[i].req.to, i)'
    <3>1. i = Len(made) + 1
      BY <2>1, <2>2, CommitsOwnPlan DEF Plans
    <3> QED
      BY <2>1, <3>1, CommitsOwnPlan DEF Carried
  <2> QED
    BY <1>2, <2>2 DEF PlansCarried
<1>4. CASE \A k \in Coordinators : ~CommitsOwn(k)
  BY <1>2, <1>4, SamePlans DEF PlansCarried, Plans
<1> QED
  BY <1>3, <1>4

LEMMA StagedFinite == IsFiniteSet(Staged) /\ Cardinality(Staged) \in Nat
<1>1. IsFiniteSet(Coordinators)
  BY CoordinatorsAssumption, FS_AddElement DEF Coordinators
<1>2. Staged \subseteq Coordinators
  BY DEF Staged
<1> QED
  BY <1>1, <1>2, FS_Subset, FS_CardinalityType

LEMMA StillStaged ==
  ASSUME TypeOK, NEW k \in Coordinators, OthersAnswered(k), NEW c \in Coordinators \ {k}
  PROVE  /\ c \in Staged' <=> c \in Staged
         /\ op'[c].pc = op[c].pc /\ op'[c].kind = op[c].kind /\ op'[c].base = op[c].base
<1>1. Alike(op'[c], op[c]) /\ op'[c].committed = op[c].committed
  BY AnsweredFields DEF OthersAnswered
<1> QED
  BY <1>1 DEF Alike, Staged

LEMMA RestsWithin ==
  ASSUME TypeOK, WithinBounds, made' = made, SameBounds, NEW k \in Coordinators,
         OthersAnswered(k), Rests(k)
  PROVE  WithinBounds'
<1>1. Staged' \subseteq Staged
  <2>1. k \in Staged' => k \in Staged
    BY DEF Rests, Staged
  <2> QED
    BY <2>1, StillStaged DEF Staged
<1>2. Cardinality(Staged') <= Cardinality(Staged) /\ Cardinality(Staged') \in Nat
      /\ Cardinality(Staged) \in Nat
  BY <1>1, StagedFinite, FS_Subset, FS_CardinalityType
<1>3. ASSUME NEW c \in Coordinators, op'[c].pc \in {"wake", "store"}, op'[c].kind = "mutate"
      PROVE  c \in Staged'
  <2>1. CASE c # k
    BY <1>3, <2>1, StillStaged DEF WithinBounds
  <2>2. CASE c = k
    <3>1. k \in Staged
      BY <1>3, <2>2 DEF Rests, WithinBounds
    <3> QED
      BY <1>3, <2>2, <3>1 DEF Rests, Staged
  <2> QED
    BY <2>1, <2>2
<1>4. Len(made') = Len(made) /\ Len(made) \in Nat /\ limits'.plans = limits.plans
      /\ limits.plans \in Nat
  BY DEF TypeOK, SameBounds, Allowances
<1>5. Len(made') + Cardinality(Staged') <= limits'.plans
  BY <1>2, <1>4 DEF WithinBounds
<1>6. \E l \in Limits : l.plans = limits'.plans /\ l.late = limits'.late
  BY DEF WithinBounds, SameBounds
<1> QED
  BY <1>3, <1>5, <1>6 DEF WithinBounds

LEMMA StagesWithin ==
  ASSUME TypeOK, WithinBounds, NEW k \in Coordinators, Stages(k)
  PROVE  WithinBounds'
<1>0. /\ OthersAnswered(k) /\ op[k] \in Operations(Len(made)) /\ op \in [Coordinators -> Operations(Len(made))]
      /\ Len(made) \in Nat /\ limits \in Allowances
  BY GoesOnAnswers DEF TypeOK
<1>1. PICK t \in Threads :
        op' = [op EXCEPT ![k].pc = "wake", ![k].thread = t,
                         ![k].base = IF k = Forum THEN <<>> ELSE readFreshThread(k)]
  BY <1>0 DEF Stages, NewThreads, Existing, TypeOK, Allowances
<1>2. op'[k].thread = t /\ op'[k].committed = op[k].committed /\ ~op[k].committed
  BY <1>0, <1>1 DEF Stages, Earlier, Operations
<1>3. k \in Staged'
  BY <1>2, CoordinatorsAssumption DEF Staged, Coordinators
<1>4. Staged' \subseteq Staged \cup {k}
  BY <1>0, StillStaged DEF Staged
<1>5. Cardinality(Staged') <= Cardinality(Staged) + 1 /\ Cardinality(Staged') \in Nat
      /\ Cardinality(Staged) \in Nat
  <2>1. IsFiniteSet(Staged \cup {k}) /\ Cardinality(Staged \cup {k}) <= Cardinality(Staged) + 1
        /\ Cardinality(Staged) \in Nat
    BY StagedFinite, FS_AddElement
  <2> QED
    BY <1>4, <2>1, FS_Subset, FS_CardinalityType
<1>6. made' = made /\ limits' = limits /\ Len(made) + Cardinality(Staged) < limits.plans
  BY DEF Stages, Earlier, Clears
<1>7. Len(made') + Cardinality(Staged') <= limits'.plans
  BY <1>0, <1>5, <1>6 DEF Allowances
<1>8. ASSUME NEW c \in Coordinators, op'[c].pc \in {"wake", "store"}, op'[c].kind = "mutate"
      PROVE  c \in Staged'
  BY <1>0, <1>3, <1>8, StillStaged DEF WithinBounds
<1> QED
  BY <1>6, <1>7, <1>8 DEF WithinBounds

LEMMA CommitsOwnWithin ==
  ASSUME ThreadInvariant, AnswerInvariant, WithinBounds, NEW k \in Coordinators, CommitsOwn(k)
  PROVE  WithinBounds' /\ Len(made) + 1 \in PlanNumbers /\ op'[k].base = op[k].base
<1>0. /\ OthersAnswered(k) /\ op[k] \in Operations(Len(made)) /\ op \in [Coordinators -> Operations(Len(made))]
      /\ Len(made) \in Nat /\ limits \in Allowances /\ TypeOK
  BY GoesOnAnswers DEF ThreadInvariant, TypeOK
<1>1. k \in Staged
  BY DEF WithinBounds, CommitsOwn, At
<1> DEFINE n == Len(made) + 1
           o == [op[k] EXCEPT !.committed = TRUE, !.plan = n]
<1>2. op'[k] = Replaying(k, o)
  BY <1>0 DEF CommitsOwn, StartReplay
<1>3. /\ o \in Operations(n) /\ o.committed = TRUE /\ o.base = op[k].base
  <2>1. op[k] \in Operations(n) /\ n \in Nat /\ n \in 0..n
    BY <1>0, OperationsGrow
  <2> HIDE DEF n
  <2> QED
    BY <2>1 DEF Operations
<1> HIDE DEF o
<1>4. op'[k].committed = TRUE /\ op'[k].pc \in {"clear", "handoff", "kv"} /\ op'[k].base = op[k].base
  BY <1>2, <1>3 DEF Replaying, Operations
<1>5. Staged' \subseteq Staged \ {k}
  BY <1>0, <1>4, StillStaged DEF Staged
<1>6. /\ Cardinality(Staged') <= Cardinality(Staged) - 1 /\ Cardinality(Staged') \in Nat
      /\ Cardinality(Staged) \in Nat /\ Cardinality(Staged) >= 1
  <2>1. /\ IsFiniteSet(Staged \ {k}) /\ Cardinality(Staged \ {k}) = Cardinality(Staged) - 1
        /\ Cardinality(Staged) \in Nat
    BY <1>1, StagedFinite, FS_RemoveElement
  <2>2. Cardinality(Staged \ {k}) \in Nat
    BY <2>1, FS_CardinalityType
  <2>3. Cardinality(Staged') <= Cardinality(Staged \ {k}) /\ Cardinality(Staged') \in Nat
    BY <1>5, <2>1, FS_Subset, FS_CardinalityType
  <2> QED
    BY <2>1, <2>2, <2>3
<1>7. Len(made') = Len(made) + 1 /\ limits' = limits
  BY CommitsOwnPlan DEF CommitsOwn
<1>8. Len(made) + Cardinality(Staged) <= limits.plans
  BY DEF WithinBounds
<1>9. Len(made') + Cardinality(Staged') <= limits'.plans /\ Len(made) + 1 <= limits.plans
  BY <1>0, <1>6, <1>7, <1>8 DEF Allowances
<1>10. Len(made) + 1 \in PlanNumbers
  <2>1. PICK l \in Limits : l.plans = limits.plans
    BY DEF WithinBounds
  <2>2. Len(made) + 1 \in 1..l.plans
    BY <1>0, <1>9, <2>1 DEF Allowances
  <2> QED
    BY <2>2 DEF PlanNumbers
<1>11. ASSUME NEW c \in Coordinators, op'[c].pc \in {"wake", "store"}, op'[c].kind = "mutate"
       PROVE  c \in Staged'
  BY <1>0, <1>4, <1>11, StillStaged DEF WithinBounds
<1> QED
  BY <1>4, <1>7, <1>9, <1>10, <1>11 DEF WithinBounds

LEMMA WithinBoundsStep ==
  ASSUME ThreadInvariant, AnswerInvariant, WithinBounds, [Next]_vars
  PROVE  WithinBounds'
<1>1. TypeOK
  BY DEF ThreadInvariant
<1>2. CASE \A k \in Coordinators : ~Stages(k) /\ ~CommitsOwn(k)
  BY <1>1, <1>2, EveryOtherRests, SamePlans, RestsWithin
<1> QED
  BY <1>1, <1>2, StagesWithin, CommitsOwnWithin

(***************************************************************************)
(* What a step does to the documents and to what D1 shows of them.         *)
(***************************************************************************)
SamePlanLog == UNCHANGED <<pending, canonical, kv, projected, made>>

PutsCopy(k) ==
  At(k, "kv") /\ putDocument(pending[k], k) /\ UNCHANGED <<pending, canonical, projected, made>>

SendsBatch(k) ==
  /\ At(k, "batch") /\ project(pending[k], k) /\ UNCHANGED <<canonical, kv, made>>
  /\ pending' = pending \/ pending' = [pending EXCEPT ![k] = 0]

LEMMA LogSteps ==
  ASSUME ThreadInvariant, [Next]_vars
  PROVE  \/ SamePlanLog \/ LateCall \/ HandoffDone
         \/ \E k \in Coordinators : PutsCopy(k) \/ SendsBatch(k) \/ CommitsOwn(k) \/ CommitsHandoff(k)
<1>1. ASSUME NEW k \in Coordinators, Quiet(k)
      PROVE  SamePlanLog
  BY <1>1 DEF Quiet, SamePlanLog
<1>2. CASE Begins \/ HandoffRefused \/ ReceiptExpires \/ UNCHANGED vars
  BY <1>1, <1>2, BeginsQuiet, RefusedOrExpiresQuiet, StutterStep DEF Coordinators
<1>3. ASSUME NEW k \in Coordinators, Runs(k)
      PROVE  SamePlanLog \/ PutsCopy(k) \/ SendsBatch(k) \/ CommitsOwn(k) \/ CommitsHandoff(k)
  <2>1. CASE KvWritten(k)
    BY <2>1 DEF KvWritten, PutsCopy, durable
  <2>2. CASE BatchDone(k)
    BY <2>2 DEF BatchDone, SendsBatch
  <2>3. CASE Stages(k) \/ AcceptsHandoff(k) \/ WakeStored(k)
    BY <1>1, <2>3, StagesQuiet, AcceptsOrWakesQuiet
  <2>4. CASE \/ RepeatsReply(k) \/ Rejects(k) \/ CommitRefused(k) \/ RepeatsCommit(k)
             \/ FindsThread(k) \/ Recovered(k) \/ AlarmDone(k) \/ Completes(k)
    BY <1>1, <2>4, EarlierQuiet
  <2> QED
    BY <1>3, <2>1, <2>2, <2>3, <2>4 DEF Runs
<1>4. ASSUME NEW k \in Coordinators, Fails(k)
      PROVE  SamePlanLog \/ PutsCopy(k) \/ SendsBatch(k)
  <2>1. CASE FailsBefore(k) \/ (FailsAfter(k) /\ (At(k, "clear") \/ At(k, "wake")))
    BY <1>1, <2>1, FailsQuiet
  <2>2. CASE FailsAfter(k) /\ ~At(k, "clear") /\ ~At(k, "wake")
    BY <2>2, FailsAfterCases DEF FailsAfter, PutsCopy, SendsBatch, durable
  <2>3. CASE FailsPending(k)
    BY <2>3 DEF FailsPending, SamePlanLog, durable
  <2> QED
    BY <1>4, <2>1, <2>2, <2>3 DEF Fails
<1> QED
  BY <1>2, <1>3, <1>4 DEF Next

LEMMA NumbersGrow ==
  ASSUME NEW m \in Nat, NEW n \in Nat, m <= n, NEW s \in Seq(0..m)
  PROVE  s \in Seq(0..n)
<1>1. \A j \in 1..Len(s) : s[j] \in 0..n
  OBVIOUS
<1>2. Len(s) \in Nat /\ s \in [1..Len(s) -> 0..n]
  BY <1>1
<1> QED
  BY <1>2

LEMMA NumbersAppend ==
  ASSUME NEW n \in Nat, NEW s \in Seq(0..n), NEW i \in 0..n
  PROVE  Append(s, i) \in Seq(0..n)
  OBVIOUS

\* The documents of a state, apart from those that are staged.
DocumentsNumbered ==
  /\ \A t \in Threads : canonical[t] \in Seq(PlansOrNone) /\ kv[t] \in Seq(PlansOrNone)
                        /\ projected[t] \in Seq(PlansOrNone)
  /\ \A i \in Plans : made[i].doc \in Seq(PlansOrNone)

LEMMA ProjectNumbered ==
  ASSUME TypeOK, Numbered, NEW i \in Plans, NEW t \in Threads, project(i, t),
         UNCHANGED <<canonical, kv, made>>
  PROVE  DocumentsNumbered'
<1>1. i \in PlansOrNone /\ Len(made) \in Nat
  BY DEF TypeOK, Plans, PlansOrNone
<1>2. ASSUME NEW u \in Threads
      PROVE  projected'[u] \in Seq(PlansOrNone)
  <2>1. projected'[u] = projected[u] \/ projected'[u] = Append(projected[u], i)
    BY DEF project, TypeOK
  <2>2. projected[u] \in Seq(PlansOrNone)
    BY DEF Numbered
  <2> QED
    BY <1>1, <2>1, <2>2, NumbersAppend DEF PlansOrNone
<1> QED
  BY <1>2 DEF DocumentsNumbered, Numbered, Plans, PlansOrNone

LEMMA StoresNumbered ==
  ASSUME TypeOK, Numbered, NEW k \in Coordinators, NEW n \in Nat, Len(made') = n, Len(made) <= n,
         PlansStay, UNCHANGED <<kv, projected>>,
         \A i \in Plans' \ Plans : made'[i].doc \in Seq(0..n),
         \A t \in Threads : canonical'[t] = canonical[t] \/ canonical'[t] \in Seq(0..n)
  PROVE  DocumentsNumbered'
<1>0. Len(made) \in Nat /\ PlansOrNone = 0..Len(made) /\ PlansOrNone' = 0..n
  BY DEF TypeOK, PlansOrNone
<1>1. ASSUME NEW t \in Threads
      PROVE  /\ canonical'[t] \in Seq(0..n) /\ kv'[t] \in Seq(0..n)
             /\ projected'[t] \in Seq(0..n)
  BY <1>0, NumbersGrow DEF Numbered
<1>2. ASSUME NEW i \in Plans'
      PROVE  made'[i].doc \in Seq(0..n)
  <2>1. CASE i \in Plans
    <3>1. made'[i] = made[i]
      BY <2>1 DEF PlansStay
    <3> QED
      BY <1>0, <2>1, <3>1, NumbersGrow DEF Numbered
  <2> QED
    BY <2>1
<1> QED
  BY <1>0, <1>1, <1>2 DEF DocumentsNumbered

LEMMA NewPlanNumbered ==
  ASSUME ThreadInvariant, AnswerInvariant, Numbered, NEW k \in Coordinators, CommitsOwn(k)
  PROVE  NewPlan(k).doc \in Seq(0..Len(made'))
<1>1. op[k].base \in Seq(0..Len(made)) /\ Len(made) \in Nat /\ Len(made') = Len(made) + 1
  BY CommitsOwnPlan DEF Numbered, PlansOrNone
<1>2. PICK n \in Nat : n = Len(made) + 1
  BY <1>1
<1>3. op[k].base \in Seq(0..n)
  BY <1>1, <1>2, NumbersGrow
<1>4. Append(op[k].base, n) \in Seq(0..n)
  BY <1>2, <1>3, NumbersAppend
<1> QED
  BY <1>1, <1>2, <1>4 DEF NewPlan

LEMMA DocumentsStep ==
  ASSUME ThreadInvariant, AnswerInvariant, Numbered, [Next]_vars
  PROVE  DocumentsNumbered'
<1>0. TypeOK /\ Len(made) \in Nat /\ CarriedOn
  BY AnswerStep DEF ThreadInvariant, TypeOK
<1>1. CASE SamePlanLog
  BY <1>1 DEF SamePlanLog, Numbered, DocumentsNumbered, Plans, PlansOrNone
<1>2. CASE LateCall
  <2>1. PICK c \in late : TakesEffect(c) /\ UNCHANGED <<canonical, made>>
    BY <1>2 DEF LateCall, durable
  <2>2. c.call \in {"kv", "batch"} => c.plan \in Plans /\ c.by \in Threads
    BY <1>0 DEF ThreadInvariant, WritesAreOwned, TypeOK, PlansOrNone, Plans
  <2>3. CASE c.call = "batch"
    <3>1. project(c.plan, c.by) /\ kv' = kv
      BY <2>1, <2>3 DEF TakesEffect
    <3> QED
      BY <1>0, <2>1, <2>2, <2>3, <3>1, ProjectNumbered
  <2>4. CASE c.call = "kv"
    <3>1. kv' = [kv EXCEPT ![c.by] = made[c.plan].doc] /\ projected' = projected
      BY <2>1, <2>4 DEF TakesEffect, putDocument
    <3>2. \A t \in Threads : kv'[t] \in Seq(PlansOrNone)
      BY <1>0, <2>2, <2>4, <3>1 DEF TypeOK, Numbered
    <3> QED
      BY <2>1, <3>1, <3>2 DEF Numbered, DocumentsNumbered, Plans, PlansOrNone
  <2>5. CASE c.call \notin {"kv", "batch"}
    <3>1. kv' = kv /\ projected' = projected
      BY <2>1, <2>5 DEF TakesEffect
    <3> QED
      BY <2>1, <3>1 DEF Numbered, DocumentsNumbered, Plans, PlansOrNone
  <2> QED
    BY <2>3, <2>4, <2>5
<1>3. CASE HandoffDone
  BY <1>3 DEF HandoffDone, outside, Numbered, DocumentsNumbered, Plans, PlansOrNone
<1>4. ASSUME NEW k \in Coordinators, PutsCopy(k)
      PROVE  DocumentsNumbered'
  <2>1. k \in Threads /\ pending[k] \in Plans
    BY <1>4, PendingPlan DEF PutsCopy
  <2>2. PICK i \in Plans : i = pending[k]
    BY <2>1
  <2>3. kv' = [kv EXCEPT ![k] = made[i].doc] /\ UNCHANGED <<canonical, projected, made>>
    BY <1>4, <2>2 DEF PutsCopy, putDocument
  <2>4. \A t \in Threads : kv'[t] \in Seq(PlansOrNone)
    BY <1>0, <2>1, <2>3 DEF TypeOK, Numbered
  <2> QED
    BY <2>3, <2>4 DEF Numbered, DocumentsNumbered, Plans, PlansOrNone
<1>5. ASSUME NEW k \in Coordinators, SendsBatch(k)
      PROVE  DocumentsNumbered'
  <2>1. k \in Threads /\ pending[k] \in Plans
    BY <1>5, PendingPlan DEF SendsBatch
  <2>2. PICK i \in Plans : i = pending[k]
    BY <2>1
  <2> QED
    BY <1>0, <1>5, <2>1, <2>2, ProjectNumbered DEF SendsBatch
<1>6. ASSUME NEW k \in Coordinators, CommitsOwn(k)
      PROVE  DocumentsNumbered'
  <2>1. /\ Len(made') = Len(made) + 1 /\ made'[Len(made) + 1] = NewPlan(k)
        /\ NewPlan(k).doc \in Seq(0..Len(made'))
    BY <1>6, CommitsOwnPlan, NewPlanNumbered
  <2>2. ASSUME NEW i \in Plans' \ Plans
        PROVE  made'[i].doc \in Seq(0..Len(made'))
    <3>1. i = Len(made) + 1
      BY <1>0, <2>1, <2>2 DEF Plans
    <3> QED
      BY <2>1, <3>1
  <2>3. /\ UNCHANGED <<kv, projected>>
        /\ \A t \in Threads : canonical'[t] = canonical[t] \/ canonical'[t] = NewPlan(k).doc
    BY <1>0, <1>6 DEF CommitsOwn, storePlan, outside, TypeOK
  <2>4. PICK n \in Nat : n = Len(made')
    BY <1>0, <2>1
  <2> QED
    BY <1>0, <2>1, <2>2, <2>3, <2>4, StoresNumbered DEF CarriedOn
<1>7. ASSUME NEW k \in Coordinators, CommitsHandoff(k)
      PROVE  DocumentsNumbered'
  <2>1. op[k].plan \in Plans
    BY <1>7 DEF CommitsHandoff, ThreadInvariant, OperationShapes, OperationShape, Creation
  <2>2. PICK i \in Plans : i = op[k].plan
    BY <2>1
  <2>3. /\ UNCHANGED <<kv, projected, made>>
        /\ \A t \in Threads : canonical'[t] = canonical[t] \/ canonical'[t] = made[i].doc
    BY <1>0, <1>7, <2>2 DEF CommitsHandoff, storePlan, outside, TypeOK
  <2>4. made[i].doc \in Seq(0..Len(made)) /\ Plans' = Plans /\ Len(made') = Len(made)
    BY <2>3 DEF Numbered, PlansOrNone, Plans
  <2>5. PICK n \in Nat : n = Len(made)
    BY <1>0
  <2> QED
    BY <1>0, <2>3, <2>4, <2>5, StoresNumbered DEF CarriedOn
<1> QED
  BY <1>1, <1>2, <1>3, <1>4, <1>5, <1>6, <1>7, LogSteps

LEMMA BasesStep ==
  ASSUME ThreadInvariant, AnswerInvariant, Numbered, WithinBounds, [Next]_vars
  PROVE  \A c \in Coordinators : op'[c].base \in Seq(PlansOrNone')
<1>0. /\ TypeOK /\ Len(made) \in Nat /\ op \in [Coordinators -> Operations(Len(made))]
      /\ PlansOrNone = 0..Len(made) /\ PlansOrNone' = 0..Len(made') /\ <<>> \in Seq(0..Len(made))
      /\ \A c \in Coordinators : op[c].base \in Seq(PlansOrNone)
  BY DEF ThreadInvariant, TypeOK, PlansOrNone, Numbered
<1>1. CASE \A k \in Coordinators : ~Stages(k) /\ ~CommitsOwn(k)
  <2>1. PICK k \in Coordinators : OthersAnswered(k) /\ Rests(k)
    BY <1>1, EveryOtherRests
  <2>2. made' = made
    BY <1>1, SamePlans
  <2>3. op'[k].base = <<>> \/ op'[k].base = op[k].base
    BY <2>1 DEF Rests
  <2> QED
    BY <1>0, <2>1, <2>2, <2>3, StillStaged
<1>2. ASSUME NEW k \in Coordinators, Stages(k)
      PROVE  \A c \in Coordinators : op'[c].base \in Seq(PlansOrNone')
  <2>1. OthersAnswered(k) /\ made' = made
    BY <1>0, <1>2, GoesOnAnswers DEF Stages, Earlier, Clears
  <2>2. PICK t : op' = [op EXCEPT ![k].pc = "wake", ![k].thread = t,
                          ![k].base = IF k = Forum THEN <<>> ELSE readFreshThread(k)]
    BY <1>2 DEF Stages
  <2>3. op'[k].base = IF k = Forum THEN <<>> ELSE readFreshThread(k)
    BY <1>0, <2>2 DEF Operations
  <2>4. k = Forum \/ readFreshThread(k) \in Seq(PlansOrNone)
    BY DEF Numbered, readFreshThread, Coordinators
  <2> QED
    BY <1>0, <2>1, <2>3, <2>4, StillStaged
<1>3. ASSUME NEW k \in Coordinators, CommitsOwn(k)
      PROVE  \A c \in Coordinators : op'[c].base \in Seq(PlansOrNone')
  <2>1. OthersAnswered(k) /\ op'[k].base = op[k].base /\ Len(made') = Len(made) + 1
    BY <1>0, <1>3, GoesOnAnswers, CommitsOwnWithin, CommitsOwnPlan
  <2>2. PICK n \in Nat : n = Len(made') /\ Len(made) <= n
    BY <1>0, <2>1
  <2>3. ASSUME NEW c \in Coordinators
        PROVE  op'[c].base \in Seq(0..n)
    <3>1. op'[c].base = op[c].base
      BY <1>0, <2>1, StillStaged
    <3> QED
      BY <1>0, <2>2, <3>1, NumbersGrow
  <2> QED
    BY <1>0, <2>2, <2>3
<1> QED
  BY <1>1, <1>2, <1>3

LEMMA LogInvariantStep ==
  ASSUME ThreadInvariant, AnswerInvariant, LogInvariant, [Next]_vars
  PROVE  LogInvariant'
<1>1. DocumentsNumbered' /\ \A c \in Coordinators : op'[c].base \in Seq(PlansOrNone')
  BY DocumentsStep, BasesStep DEF LogInvariant
<1>2. Numbered'
  BY <1>1 DEF DocumentsNumbered, Numbered
<1> QED
  BY <1>2, PlansCarriedStep, WithinBoundsStep DEF LogInvariant

LEMMA LogInvariantInit ==
  ASSUME Init
  PROVE  LogInvariant
<1>1. Plans = {} /\ Len(made) = 0 /\ PlansOrNone = 0..0
  BY DEF Init, Plans, PlansOrNone
<1>2. PlansCarried
  BY <1>1 DEF PlansCarried
<1>3. \A k \in Coordinators : op[k] = IdleOp
  BY DEF Init
<1>4. Numbered
  <2>1. <<>> \in Seq(0..0) /\ <<0>> \in Seq(0..0)
    OBVIOUS
  <2>2. \A k \in Coordinators : op[k].base = <<>>
    BY <1>3 DEF IdleOp
  <2>3. \A t \in Threads : canonical[t] = <<>> /\ kv[t] \in {<<>>, <<0>>} /\ projected[t] \in {<<>>, <<0>>}
    BY DEF Init
  <2> QED
    BY <1>1, <2>1, <2>2, <2>3 DEF Numbered
<1>5. WithinBounds
  <2>1. Staged = {}
    BY <1>3 DEF Staged, IdleOp
  <2>2. limits \in Limits /\ limits.plans \in Nat
    BY LimitsAssumption DEF Init, Allowances
  <2>3. Cardinality(Staged) = 0
    BY <2>1, FS_EmptySet
  <2>4. \A k \in Coordinators : op[k].pc \notin {"wake", "store"}
    BY <1>3 DEF IdleOp
  <2> QED
    BY <1>1, <2>2, <2>3, <2>4 DEF WithinBounds
<1> QED
  BY <1>2, <1>4, <1>5 DEF LogInvariant
(***************************************************************************)
(* The refinement: what PlanLog calls accepted, step by step.              *)
(***************************************************************************)
\* The invariant the refinement is proved under: no call takes effect late.
LogFacts == ThreadInvariant /\ AnswerInvariant /\ LogInvariant /\ ~limits.late

LEMMA AcceptedFrom ==
  ASSUME LogFacts, NEW t \in Threads
  PROVE  /\ canonical[t] # <<>> => accepted[t] = canonical[t]
         /\ canonical[t] = <<>> /\ HandedOver(t) => accepted[t] = made[pending[Forum]].doc
         /\ canonical[t] = <<>> /\ ~HandedOver(t) => accepted[t] = projected[t]
         /\ accepted[t] \in Seq(PlansOrNone)
<1>1. /\ canonical[t] # <<>> => accepted[t] = canonical[t]
      /\ canonical[t] = <<>> /\ HandedOver(t) => accepted[t] = made[pending[Forum]].doc
      /\ canonical[t] = <<>> /\ ~HandedOver(t) => accepted[t] = projected[t]
  BY DEF accepted
<1>2. HandedOver(t) => pending[Forum] \in Plans
  BY DEF HandedOver, LogFacts, ThreadInvariant, OnlyCreations, Creation
<1> QED
  BY <1>1, <1>2 DEF LogFacts, LogInvariant, Numbered

LEMMA AcceptedSame ==
  ASSUME \A t \in Threads : accepted'[t] = accepted[t]
  PROVE  accepted' = accepted
<1>1. accepted = [t \in Threads |-> accepted[t]] /\ accepted' = [t \in Threads |-> accepted'[t]]
  BY DEF accepted
<1> QED
  BY <1>1

\* Before a new thread's coordinator owns it, nothing of it is projected.
LEMMA NothingBefore ==
  ASSUME LogFacts, NEW t \in Threads \ Old, canonical[t] = <<>>
  PROVE  projected[t] = <<>> /\ \A i : made[i].thread = t => ~Projected(i)
<1>1. pending[t] = 0
  BY DEF LogFacts, ThreadInvariant, WritesAreOwned
<1>2. kv[t] = <<>> /\ projected[t] = kv[t]
  BY <1>1 DEF LogFacts, ThreadInvariant, Replicas, NewAreEmpty, Settled
<1> QED
  BY <1>2 DEF Projected

LEMMA SameAccepted ==
  ASSUME UNCHANGED <<canonical, projected, made>>, pending'[Forum] = pending[Forum]
  PROVE  accepted' = accepted
  BY DEF accepted, HandedOver

LEMMA AppliesOrNot ==
  ASSUME LogFacts, NEW k \in Coordinators, SendsBatch(k)
  PROVE  (k \in Threads /\ Log!Apply(k)) \/ UNCHANGED Log!vars
<1>1. k \in Threads /\ k # Forum /\ pending[k] \in Plans /\ pending[k] # 0 /\ TypeOK
  BY PendingPlan DEF SendsBatch, LogFacts, ThreadInvariant
<1>2. HalfWay(k)
  BY <1>1 DEF LogFacts, ThreadInvariant, Replicas
<1>3. canonical[k] \in Seq(Nat) /\ canonical[k] # <<>> /\ projected \in [Threads -> Seq(Nat)]
      /\ projected[k] \in Seq(Nat) /\ pending[k] \in Nat
  <2>2. canonical[k] # <<>>
    BY <1>1 DEF LogFacts, ThreadInvariant, WritesAreOwned
  <2>3. canonical \in [Threads -> Seq(Nat)] /\ projected \in [Threads -> Seq(Nat)] /\ pending[k] \in Nat
    BY <1>1 DEF TypeOK, Plans
  <2> QED
    BY <1>1, <2>2, <2>3
<1>4. pending'[Forum] = pending[Forum] /\ UNCHANGED <<canonical, made>>
  BY <1>1 DEF SendsBatch, TypeOK, Coordinators
<1>5. CASE \E g \in guards : g.plan = pending[k]
  <2>1. UNCHANGED projected
    BY <1>5 DEF SendsBatch, project
  <2> QED
    BY <1>4, <2>1, SameAccepted DEF Log!vars
<1>6. CASE ~\E g \in guards : g.plan = pending[k]
  <2>1. projected' = [projected EXCEPT ![k] = Append(@, pending[k])]
    BY <1>6 DEF SendsBatch, project
  <2>2. ~Guarded(k)
    BY <1>6 DEF Guarded
  <2>3. projected[k] = Before(canonical[k]) /\ canonical[k] = Append(projected[k], pending[k])
    BY <1>2, <2>2 DEF HalfWay
  <2>4. accepted[k] = canonical[k]
    BY <1>1, <1>3, AcceptedFrom
  <2>5. Len(projected[k]) < Len(accepted[k]) /\ accepted[k][Len(projected[k]) + 1] = pending[k]
    BY <1>3, <2>3, <2>4
  <2>6. projected' = [projected EXCEPT ![k] = Append(@, accepted[k][Len(@) + 1])]
    BY <2>1, <2>5
  <2>7. accepted' = accepted
    <3>1. ASSUME NEW t \in Threads
          PROVE  accepted'[t] = accepted[t]
      <4>1. CASE canonical[t] # <<>>
        BY <1>4, <4>1 DEF accepted
      <4>2. CASE canonical[t] = <<>>
        <5>1. t # k /\ projected'[t] = projected[t]
          BY <1>3, <2>1, <4>2
        <5> QED
          BY <1>4, <5>1 DEF accepted, HandedOver
      <4> QED
        BY <4>1, <4>2
    <3> QED
      BY <3>1, AcceptedSame
  <2> QED
    BY <1>1, <2>5, <2>6, <2>7 DEF Log!Apply
<1> QED
  BY <1>5, <1>6

LEMMA HandoffStutters ==
  ASSUME LogFacts, HandoffDone
  PROVE  UNCHANGED Log!vars
<1>1. /\ pending[Forum] # 0 /\ Creation(pending[Forum]) /\ Projected(pending[Forum])
      /\ TypeOK /\ Forum \in Coordinators /\ UNCHANGED <<canonical, projected, made>>
  BY DEF LogFacts, AnswerInvariant, HandoffCalls, HandoffDone, At, ThreadInvariant, OnlyCreations,
         OperationShapes, OperationShape, Coordinators, outside
<1>2. pending'[Forum] = 0
  BY <1>1 DEF HandoffDone, TypeOK
<1>3. ASSUME NEW t \in Threads
      PROVE  accepted'[t] = accepted[t]
  <2>1. CASE canonical[t] # <<>>
    BY <1>1, <2>1 DEF accepted
  <2>2. CASE canonical[t] = <<>>
    <3>1. ~HandedOver(t)
      BY <1>1, <2>2, NothingBefore DEF HandedOver, Creation
    <3>2. ~HandedOver(t)'
      BY <1>2 DEF HandedOver
    <3> QED
      BY <1>1, <2>2, <3>1, <3>2 DEF accepted
  <2> QED
    BY <2>1, <2>2
<1> QED
  BY <1>1, <1>3, AcceptedSame DEF Log!vars

LEMMA HandedOverStutters ==
  ASSUME LogFacts, NEW k \in Coordinators, CommitsHandoff(k)
  PROVE  UNCHANGED Log!vars
<1>1. TypeOK /\ OperationShape(k, op[k]) /\ At(k, "store") /\ op[k].kind = "commit"
  BY DEF LogFacts, ThreadInvariant, OperationShapes, CommitsHandoff
<1>2. PICK i \in Plans : i = op[k].plan
  BY <1>1 DEF OperationShape, Creation
<1>3. k \in Threads \ Old /\ k # Forum /\ Creation(i) /\ made[i].thread = k /\ canonical[k] = <<>>
  BY <1>1, <1>2, CoordinatorsAssumption DEF OperationShape, StartsFresh, Creation, At
<1>4. pending[Forum] = i
  <2>1. made[i].req.to = Forum
    BY <1>3 DEF LogFacts, AnswerInvariant, Creations
  <2>2. Projected(i) \/ pending[Forum] = i
    BY <2>1 DEF LogFacts, LogInvariant, PlansCarried, Carried
  <2> QED
    BY <1>3, <2>2, NothingBefore
<1>5. /\ pending' = [pending EXCEPT ![k] = i] /\ canonical' = [canonical EXCEPT ![k] = made[i].doc]
      /\ UNCHANGED <<projected, made>>
  BY <1>2, <1>3 DEF CommitsHandoff, storePlan, outside
<1>6. pending'[Forum] = pending[Forum]
  BY <1>1, <1>3, <1>5 DEF TypeOK
<1>7. ASSUME NEW t \in Threads
      PROVE  accepted'[t] = accepted[t]
  <2>1. CASE t = k
    <3>1. HandedOver(k)
      BY <1>3, <1>4 DEF HandedOver, Plans
    <3>2. accepted[k] = made[i].doc
      BY <1>3, <1>4, <3>1, AcceptedFrom
    <3>3. canonical'[k] = made[i].doc /\ made[i].doc # <<>>
      BY <1>1, <1>3, <1>5 DEF TypeOK, Creation
    <3>4. accepted'[k] = canonical'[k]
      BY <1>3, <3>3 DEF accepted
    <3> QED
      BY <2>1, <3>2, <3>3, <3>4
  <2>2. CASE t # k
    <3>1. canonical'[t] = canonical[t]
      BY <1>1, <1>5, <2>2 DEF TypeOK
    <3> QED
      BY <1>5, <1>6, <3>1 DEF accepted, HandedOver
  <2> QED
    BY <2>1, <2>2
<1> QED
  BY <1>5, <1>7, AcceptedSame DEF Log!vars

LEMMA FreshNumber ==
  ASSUME LogFacts
  PROVE  ~Log!InLog(Len(made) + 1)
<1>1. Len(made) \in Nat
  BY DEF LogFacts, ThreadInvariant, TypeOK
<1>2. ASSUME NEW t \in Threads, NEW n \in DOMAIN accepted[t]
      PROVE  accepted[t][n] # Len(made) + 1
  <2>1. accepted[t] \in Seq(0..Len(made))
    BY AcceptedFrom DEF PlansOrNone
  <2> QED
    BY <1>1, <2>1
<1> QED
  BY <1>2 DEF Log!InLog

\* What the transaction of a plan does to the log of one thread.
LEMMA AcceptsOne ==
  ASSUME LogFacts, NEW t \in Threads, NEW n, n = Len(made) + 1, n \in PlanNumbers,
         accepted[t] = projected[t], accepted'[t] = Append(accepted[t], n),
         \A u \in Threads \ {t} : accepted'[u] = accepted[u], UNCHANGED projected
  PROVE  Log!Accept(t)
<1>1. accepted = [u \in Threads |-> accepted[u]] /\ accepted' = [u \in Threads |-> accepted'[u]]
  BY DEF accepted
<1>2. accepted' = [accepted EXCEPT ![t] = Append(@, n)]
  BY <1>1
<1> QED
  BY <1>2, FreshNumber DEF Log!Accept

LEMMA AcceptsReply ==
  ASSUME LogFacts, NEW k \in Threads, CommitsOwn(k)
  PROVE  Log!Accept(k)
<1>1. /\ TypeOK /\ OperationShape(k, op[k]) /\ At(k, "store") /\ op[k].kind = "mutate"
      /\ Answering(k, op[k]) /\ k \in Coordinators /\ k # Forum
  BY CoordinatorsAssumption DEF LogFacts, ThreadInvariant, AnswerInvariant, OperationShapes,
     CommitsOwn, Coordinators
<1>2. PICK n : n = Len(made) + 1
  OBVIOUS
<1>3. n \in PlanNumbers /\ n \in Nat
  BY <1>1, <1>2, CommitsOwnWithin DEF LogFacts, LogInvariant, TypeOK
<1>4. op[k].base = readFreshThread(k) /\ pending[k] = 0 /\ (k \in Old \/ canonical[k] # <<>>)
  BY <1>1 DEF OperationShape, StartsFresh, At, Answering, Prepared
<1>5. projected[k] = op[k].base
  BY <1>4 DEF LogFacts, ThreadInvariant, Replicas, Settled
<1>6. accepted[k] = projected[k]
  <2>1. CASE canonical[k] # <<>>
    BY <1>4, <1>5, <2>1, AcceptedFrom DEF readFreshThread
  <2>2. CASE canonical[k] = <<>>
    <3>1. ~HandedOver(k)
      BY <1>4, <2>2 DEF HandedOver, LogFacts, ThreadInvariant, OnlyCreations, Creation
    <3> QED
      BY <2>2, <3>1, AcceptedFrom
  <2> QED
    BY <2>1, <2>2
<1>7. /\ pending' = [pending EXCEPT ![k] = n]
      /\ canonical' = [canonical EXCEPT ![k] = Append(op[k].base, n)] /\ UNCHANGED projected
  BY <1>1, <1>2 DEF CommitsOwn, storePlan, outside, NewPlan
<1>8. accepted'[k] = Append(accepted[k], n)
  <2>1. canonical'[k] = Append(op[k].base, n) /\ op[k].base \in Seq(Nat)
    BY <1>1, <1>7 DEF TypeOK, Operations
  <2>2. canonical'[k] # <<>>
    BY <1>3, <2>1, AppendFront
  <2>3. accepted'[k] = canonical'[k]
    BY <2>2 DEF accepted
  <2> QED
    BY <1>5, <1>6, <2>1, <2>3
<1>9. ASSUME NEW u \in Threads \ {k}
      PROVE  accepted'[u] = accepted[u]
  <2>1. canonical'[u] = canonical[u] /\ pending'[Forum] = pending[Forum]
    BY <1>1, <1>7 DEF TypeOK
  <2>2. pending[Forum] # 0 => made'[pending[Forum]] = made[pending[Forum]]
    BY AnswerStep, <1>1 DEF LogFacts, CarriedOn, PlansStay, ThreadInvariant, OnlyCreations, Creation,
       Next, Runs
  <2>3. HandedOver(u)' <=> HandedOver(u)
    BY <2>1, <2>2 DEF HandedOver
  <2>4. HandedOver(u) => pending[Forum] # 0
    BY DEF HandedOver
  <2> QED
    BY <1>7, <2>1, <2>2, <2>3, <2>4 DEF accepted
<1> QED
  BY <1>2, <1>3, <1>6, <1>7, <1>8, <1>9, AcceptsOne

LEMMA AcceptsCreation ==
  ASSUME LogFacts, CommitsOwn(Forum)
  PROVE  \E t \in Threads : Log!Accept(t)
<1>1. /\ TypeOK /\ OperationShape(Forum, op[Forum]) /\ At(Forum, "store")
      /\ op[Forum].kind = "mutate" /\ Answering(Forum, op[Forum])
      /\ Forum \in Coordinators /\ Forum \notin Threads
  BY CoordinatorsAssumption DEF LogFacts, ThreadInvariant, AnswerInvariant, OperationShapes,
     CommitsOwn, Coordinators
<1>2. PICK n : n = Len(made) + 1
  OBVIOUS
<1>3. n \in PlanNumbers /\ n \in Nat
  BY <1>1, <1>2, CommitsOwnWithin DEF LogFacts, LogInvariant, TypeOK
<1>4. /\ op[Forum].base = <<>> /\ op[Forum].thread \in Threads \ Old /\ pending[Forum] = 0
      /\ \A i \in Plans : made[i].thread # op[Forum].thread
  BY <1>1 DEF OperationShape, StartsFresh, At, Answering, Prepared
<1>5. PICK t \in Threads \ Old : t = op[Forum].thread
  BY <1>4
<1>6. canonical[t] = <<>> /\ projected[t] = <<>>
  <2>1. canonical[t] = <<>>
    BY <1>4, <1>5 DEF LogFacts, AnswerInvariant, Creations, Creation
  <2> QED
    BY <2>1, NothingBefore
<1>7. \A u \in Threads : ~HandedOver(u)
  BY <1>4 DEF HandedOver
<1>8. /\ pending'[Forum] = n /\ canonical' = canonical /\ projected' = projected
      /\ made'[n] = NewPlan(Forum) /\ NewPlan(Forum).thread = t
      /\ NewPlan(Forum).doc = Append(<<>>, n)
  BY <1>1, <1>2, <1>4, <1>5, CommitsOwnPlan DEF LogFacts, CommitsOwn, storePlan, outside, NewPlan
<1>9. ASSUME NEW u \in Threads
      PROVE  HandedOver(u)' <=> u = t
  BY <1>2, <1>3, <1>8, <1>1 DEF HandedOver, TypeOK
<1>10. accepted[t] = <<>> /\ accepted'[t] = Append(<<>>, n)
  BY <1>6, <1>7, <1>8, <1>9 DEF accepted
<1>11. ASSUME NEW u \in Threads \ {t}
       PROVE  accepted'[u] = accepted[u]
  BY <1>7, <1>8, <1>9 DEF accepted
<1> QED
  BY <1>2, <1>3, <1>6, <1>8, <1>10, <1>11, AcceptsOne

LEMMA LogStepMaps ==
  ASSUME LogFacts, [Next]_vars
  PROVE  [Log!Next]_(Log!vars)
<1>1. ASSUME UNCHANGED <<pending, canonical, projected, made>>
      PROVE  UNCHANGED Log!vars
  BY <1>1, SameAccepted DEF Log!vars
<1>2. ~LateCall
  BY DEF LogFacts, ThreadInvariant, Replicas, LateCall
<1>3. ASSUME NEW k \in Coordinators, CommitsOwn(k)
      PROVE  Log!Next
  BY <1>3, AcceptsReply, AcceptsCreation DEF Log!Next, Coordinators
<1>4. ASSUME NEW k \in Coordinators, SendsBatch(k)
      PROVE  Log!Next \/ UNCHANGED Log!vars
  BY <1>4, AppliesOrNot DEF Log!Next
<1> QED
  BY <1>1, <1>2, <1>3, <1>4, LogSteps, HandoffStutters, HandedOverStutters
     DEF LogFacts, SamePlanLog, PutsCopy

LEMMA LogInitMaps ==
  ASSUME Init
  PROVE  Log!Init
<1>1. /\ \A t \in Threads : canonical[t] = <<>>
      /\ projected = [t \in Threads |-> IF t \in Old THEN <<0>> ELSE <<>>]
      /\ pending[Forum] = 0
  BY DEF Init, Coordinators
<1>2. \A t \in Threads : accepted[t] = projected[t]
  BY <1>1 DEF accepted, HandedOver
<1>3. accepted = [t \in Threads |-> accepted[t]]
  BY DEF accepted
<1>4. accepted = [t \in Threads |-> IF t \in Old THEN <<0>> ELSE <<>>]
  BY <1>1, <1>2, <1>3
<1>5. Old \in SUBSET Threads
  BY CoordinatorsAssumption
<1> QED
  BY <1>1, <1>4, <1>5 DEF Log!Init

\* Unless a call takes effect after it was given up on, each thread's mutations are
\* projected in the order in which the coordinators accepted them, each once and
\* before the next is accepted, through every failure, repetition and hand-over.
THEOREM ThreadsImplementLog ==
  ASSUME \A l \in Limits : ~l.late
  PROVE  Spec => ImplementsPlanLog
<1>1. Init => LogInvariant /\ Log!Init
  BY LogInvariantInit, LogInitMaps
<1>2. ThreadInvariant /\ AnswerInvariant /\ LogInvariant /\ [Next]_vars => LogInvariant'
  BY LogInvariantStep
<1>3. LogInvariant => ~limits.late
  BY DEF LogInvariant, WithinBounds
<1>4. ThreadInvariant /\ AnswerInvariant /\ LogInvariant /\ [Next]_vars => [Log!Next]_(Log!vars)
  BY <1>3, LogStepMaps DEF LogFacts
<1> QED
  BY <1>1, <1>2, <1>4, ThreadInvariantHolds, AnswerInvariantHolds, PTL
     DEF Spec, ImplementsPlanLog, Log!Spec
(***************************************************************************)
(* A log has no plan twice, so neither has what D1 shows.                  *)
(***************************************************************************)
OneOfEach ==
  \A t \in Threads :
    /\ accepted[t] \in Seq(Nat)
    /\ projected[t] = accepted[t] \/ (accepted[t] # <<>> /\ projected[t] = Before(accepted[t]))
    /\ \A i, j \in DOMAIN accepted[t] : accepted[t][i] = accepted[t][j] => i = j

LEMMA FrontOf ==
  ASSUME NEW s \in Seq(Nat), s # <<>>
  PROVE  /\ Before(s) \in Seq(Nat) /\ Len(Before(s)) = Len(s) - 1
         /\ Append(Before(s), s[Len(s)]) = s
         /\ \A i \in DOMAIN Before(s) : i \in DOMAIN s /\ Before(s)[i] = s[i]
<1>1. Len(s) \in Nat /\ Len(s) >= 1
  OBVIOUS
<1>2. /\ Before(s) \in Seq(Nat) /\ Len(Before(s)) = Len(s) - 1
      /\ \A i \in 1..(Len(s) - 1) : Before(s)[i] = s[i]
  <2>1. Before(s) = SubSeq(s, 1, Len(s) - 1)
    BY DEF Before
  <2>2. PICK n \in Nat : n = Len(s) - 1
    BY <1>1
  <2>3. Len(SubSeq(s, 1, n)) = n
    BY <1>1, <2>2
  <2>4. \A i \in 1..n : SubSeq(s, 1, n)[i] = s[i]
    BY <1>1, <2>2
  <2>5. SubSeq(s, 1, n) \in Seq(Nat)
    BY <1>1, <2>2
  <2> QED
    BY <2>1, <2>2, <2>3, <2>4, <2>5
<1>3. Append(Before(s), s[Len(s)]) = s
  <2>1. Append(Before(s), s[Len(s)]) \in Seq(Nat) /\ Len(Append(Before(s), s[Len(s)])) = Len(s)
    BY <1>1, <1>2
  <2>2. \A i \in 1..Len(s) : Append(Before(s), s[Len(s)])[i] = s[i]
    BY <1>1, <1>2
  <2> QED
    BY <2>1, <2>2
<1>4. DOMAIN Before(s) = 1..(Len(s) - 1) /\ DOMAIN s = 1..Len(s)
  BY <1>1, <1>2
<1> QED
  BY <1>1, <1>2, <1>3, <1>4

LEMMA LogOnce ==
  ASSUME OneOfEach, Log!Next \/ UNCHANGED Log!vars
  PROVE  OneOfEach'
<1>0. DOMAIN accepted = Threads
  BY DEF accepted
<1>1. ASSUME NEW t \in Threads, Log!Accept(t)
      PROVE  OneOfEach'
  <2>1. PICK i \in {0} \cup PlanNumbers :
          ~Log!InLog(i) /\ accepted' = [accepted EXCEPT ![t] = Append(@, i)]
    BY <1>1 DEF Log!Accept
  <2>2. i \in Nat
    BY LimitsAssumption DEF PlanNumbers, Allowances
  <2>3. accepted'[t] = Append(accepted[t], i) /\ projected[t] = accepted[t]
        /\ accepted[t] \in Seq(Nat) /\ projected' = projected
    BY <1>0, <1>1, <2>1 DEF Log!Accept, OneOfEach
  <2>4. \A n \in DOMAIN accepted[t] : accepted[t][n] # i
    BY <2>1 DEF Log!InLog
  <2>5. /\ accepted'[t] \in Seq(Nat) /\ accepted'[t] # <<>>
        /\ projected'[t] = Before(accepted'[t])
    BY <2>2, <2>3, AppendFront
  <2>6. \A n, m \in DOMAIN accepted'[t] : accepted'[t][n] = accepted'[t][m] => n = m
    BY <2>2, <2>3, <2>4 DEF OneOfEach
  <2>7. \A u \in Threads \ {t} : accepted'[u] = accepted[u]
    BY <2>1, <1>0
  <2> QED
    BY <2>3, <2>5, <2>6, <2>7 DEF OneOfEach
<1>2. ASSUME NEW t \in Threads, Log!Apply(t)
      PROVE  OneOfEach'
  <2>1. accepted[t] \in Seq(Nat) /\ Len(projected[t]) < Len(accepted[t]) /\ accepted' = accepted
    BY <1>2 DEF OneOfEach, Log!Apply
  <2>2. accepted[t] # <<>> /\ projected[t] = Before(accepted[t])
    BY <2>1 DEF OneOfEach
  <2>3. /\ projected' = [projected EXCEPT ![t] = Append(@, accepted[t][Len(@) + 1])]
        /\ Append(projected[t], accepted[t][Len(projected[t]) + 1]) = accepted[t]
    BY <1>2, <2>1, <2>2, FrontOf DEF Log!Apply
  <2>4. ASSUME NEW u \in Threads
        PROVE  projected'[u] = projected[u] \/ projected'[u] = accepted'[u]
    BY <2>1, <2>3
  <2> QED
    BY <2>1, <2>4 DEF OneOfEach
<1>3. ASSUME UNCHANGED Log!vars
      PROVE  OneOfEach'
  BY <1>3 DEF Log!vars, OneOfEach
<1> QED
  BY <1>1, <1>2, <1>3 DEF Log!Next

LEMMA LogOnceInit ==
  ASSUME Log!Init
  PROVE  OneOfEach
<1>1. PICK old \in SUBSET Threads, i \in {0} \cup PlanNumbers :
        accepted = [t \in Threads |-> IF t \in old THEN <<i>> ELSE <<>>]
  BY DEF Log!Init
<1>2. i \in Nat /\ projected = accepted
  BY LimitsAssumption DEF PlanNumbers, Allowances, Log!Init
<1>3. <<i>> \in Seq(Nat) /\ <<>> \in Seq(Nat) /\ Len(<<i>>) = 1
  BY <1>2
<1>4. ASSUME NEW t \in Threads
      PROVE  /\ accepted[t] \in Seq(Nat)
             /\ \A n, m \in DOMAIN accepted[t] : n = m
  <2>1. accepted[t] = <<i>> \/ accepted[t] = <<>>
    BY <1>1
  <2>2. DOMAIN <<i>> = 1..1 /\ DOMAIN <<>> = 1..0
    BY <1>2
  <2>3. \A n, m \in DOMAIN accepted[t] : n = m
    BY <2>1, <2>2
  <2> QED
    BY <1>3, <2>1, <2>3
<1> QED
  BY <1>2, <1>4 DEF OneOfEach

LEMMA OnceProjected ==
  ASSUME OneOfEach
  PROVE  ProjectedOnce
<1>1. ASSUME NEW t \in Threads, NEW i \in DOMAIN projected[t], NEW j \in DOMAIN projected[t],
             projected[t][i] = projected[t][j]
      PROVE  i = j
  <2>1. CASE projected[t] = accepted[t]
    BY <1>1, <2>1 DEF OneOfEach
  <2>2. CASE accepted[t] # <<>> /\ projected[t] = Before(accepted[t])
    <3>0. accepted[t] \in Seq(Nat)
      BY DEF OneOfEach
    <3>1. /\ i \in DOMAIN accepted[t] /\ projected[t][i] = accepted[t][i]
          /\ j \in DOMAIN accepted[t] /\ projected[t][j] = accepted[t][j]
      BY <2>2, <3>0, FrontOf
    <3> QED
      BY <1>1, <3>1 DEF OneOfEach
  <2> QED
    BY <2>1, <2>2 DEF OneOfEach
<1> QED
  BY <1>1 DEF ProjectedOnce

\* The counters and notifications of a batch are written twice only if a call takes
\* effect after it was given up on: every other failure leaves them single.
THEOREM BatchesAreSingle ==
  ASSUME \A l \in Limits : ~l.late
  PROVE  Spec => []ProjectedOnce
<1>1. Log!Init => OneOfEach
  BY LogOnceInit
<1>2. OneOfEach /\ [Log!Next]_(Log!vars) => OneOfEach'
  BY LogOnce
<1>3. OneOfEach => ProjectedOnce
  BY OnceProjected
<1> QED
  BY <1>1, <1>2, <1>3, ThreadsImplementLog, PTL DEF ImplementsPlanLog, Log!Spec
=============================================================================
