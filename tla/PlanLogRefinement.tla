-------------------------- MODULE PlanLogRefinement --------------------------
(***************************************************************************)
(* ThreadMutation implements PlanLog.  A mutation is accepted by the       *)
(* transaction that makes it pending: for a creation that of the forum's   *)
(* coordinator, before the thread's own has a document.                    *)
(***************************************************************************)
EXTENDS ThreadMutation

HandedOver(t) == pending[Forum] # 0 /\ made[pending[Forum]].thread = t

accepted ==
  [t \in Threads |-> IF canonical[t] # <<>> THEN canonical[t]
                     ELSE IF HandedOver(t) THEN made[pending[Forum]].doc
                     ELSE projected[t]]

Log == INSTANCE PlanLog WITH Ids <- {0} \cup PlanNumbers, applied <- projected

\* Whatever fails, is repeated or is sent twice, each thread's mutations are
\* projected in the order in which they were accepted, each of them once.
ImplementsPlanLog == Log!Spec
=============================================================================
