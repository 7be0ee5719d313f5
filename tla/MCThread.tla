------------------------------ MODULE MCThread ------------------------------
(***************************************************************************)
(* Instances of ThreadMutation for TLC.                                    *)
(***************************************************************************)
EXTENDS PlanLogRefinement, ThreadInvariant

CONSTANTS t1, t2, old, forum, k1, k2

Create(key) == [key |-> key, to |-> forum, body |-> 1]
Reply(key, t, body) == [key |-> key, to |-> t, body |-> body]

AllRequests ==
  {Create(k1), Create(k2), Reply(k1, t1, 1), Reply(k2, t1, 1),
   Reply(k1, old, 1), Reply(k2, old, 1), Reply(k2, old, 2)}

\* A thread is created, and replied to with the same or with another key.
CreateAndReply ==
  [requests |-> {Create(k1), Reply(k1, t1, 1), Reply(k2, t1, 1)},
   threads |-> {t1}, late |-> FALSE, plans |-> 2, faults |-> 2]

\* Two creations by one forum.
TwoCreations ==
  [requests |-> {Create(k1), Create(k2)},
   threads |-> {t1, t2}, late |-> FALSE, plans |-> 2, faults |-> 0]

\* A creation that is asked for again, also after its receipt is over.
RepeatedCreation == [TwoCreations EXCEPT !.requests = {Create(k1)}, !.faults = 1]

\* Two replies to a thread that was never canonical, and a key used for two of them.
TwoReplies ==
  [requests |-> {Reply(k1, old, 1), Reply(k2, old, 1), Reply(k2, old, 2)},
   threads |-> {}, late |-> FALSE, plans |-> 3, faults |-> 2]

SafetyLimits == {CreateAndReply, TwoCreations, RepeatedCreation, TwoReplies}

\* A creation and a reply, each with a key of its own; and a creation alone, any of
\* whose calls may take effect late.
DistinctKeys == {Create(k1), Reply(k2, t1, 1)}

ProgressLimits ==
  {[requests |-> DistinctKeys, threads |-> {t1}, late |-> FALSE, plans |-> 2, faults |-> 1],
   [requests |-> {Create(k1)}, threads |-> {t1}, late |-> TRUE, plans |-> 1, faults |-> 1]}

\* One reply, with late calls.
LateLimits == {[TwoReplies EXCEPT !.late = TRUE, !.plans = 1]}
=============================================================================
