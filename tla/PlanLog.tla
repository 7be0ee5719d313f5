------------------------------- MODULE PlanLog -------------------------------
(***************************************************************************)
(* What the coordinators promise for each thread: accepted mutations form  *)
(* a log, each is applied to the projection once and in order, and none is *)
(* accepted before the previous one is applied.                            *)
(***************************************************************************)
EXTENDS Naturals, Sequences

CONSTANTS Threads, Ids

VARIABLES
  accepted,   \* accepted[t]: the mutations of t, in order
  applied     \* applied[t]: those that the projection shows

vars == <<accepted, applied>>

InLog(i) == \E t \in Threads : \E n \in DOMAIN accepted[t] : accepted[t][n] = i

\* A log is empty, or starts with one mutation that is applied.
Init ==
  /\ \E old \in SUBSET Threads, i \in Ids :
       accepted = [t \in Threads |-> IF t \in old THEN <<i>> ELSE <<>>]
  /\ applied = accepted

Accept(t) ==
  /\ applied[t] = accepted[t]
  /\ \E i \in Ids : ~InLog(i) /\ accepted' = [accepted EXCEPT ![t] = Append(@, i)]
  /\ UNCHANGED applied

Apply(t) ==
  /\ Len(applied[t]) < Len(accepted[t])
  /\ applied' = [applied EXCEPT ![t] = Append(@, accepted[t][Len(@) + 1])]
  /\ UNCHANGED accepted

Next == \E t \in Threads : Accept(t) \/ Apply(t)

Spec == Init /\ [][Next]_vars
=============================================================================
