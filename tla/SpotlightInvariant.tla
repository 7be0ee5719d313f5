------------------------- MODULE SpotlightInvariant -------------------------
(***************************************************************************)
(* The inductive invariant behind ToldOnce and DeliveredIsAccounted: what  *)
(* the injection of a spotlight tells of its history, and who still owes   *)
(* a spotlight something when a request or a row says that it was started. *)
(***************************************************************************)
EXTENDS SpotlightDelivery

\* What the proofs need of the constants.
Parameters == NoSpotlight \notin Spotlights /\ MaxFaults \in Nat

\* A visit that the drain asked for reads a spotlight.
VisitShape == visit.drained => visit.spotlight \in Spotlights

\* A thought is told when it is read, not before, and is not injected again
\* when it has expired.
ToldShape ==
    \A s \in Spotlights :
        /\ injection[s] = "unread" => told[s] = 0
        /\ injection[s] = "read" => told[s] = 1
        /\ told[s] \in {0, 1} /\ (told[s] = 1 => injection[s] = "read" \/ s \in expired)

ExpiredShape ==
    \A s \in expired :
        /\ injection[s] = "none" /\ s \in dropped
        /\ \A r \in Requests : Spotlight(r) = s => request[r] \in {"idle", "done"}

\* The participant has recorded the thought, and the request goes on.
PastInjection == {"injected", "recorded", "waiting", "started", "pending", "failed"}
Recorded(s) ==
    \/ row[s] \in CompletedStatuses \/ Owed(s)
    \/ \E r \in Requests : Spotlight(r) = s /\ request[r] \in PastInjection

\* A thought that was recorded and is gone was erased or has expired.
LostShape == \A s \in Spotlights : injection[s] = "none" /\ Recorded(s) => s \in dropped

\* A request that waits for an answer is asked; what was started is accounted for.
Started(s) ==
    \/ row[s] \in CompletedStatuses
    \/ \E r \in Requests : Spotlight(r) = s /\ request[r] \in {"started", "pending"}
AccountedShape ==
    /\ \A r \in Requests : request[r] = "waiting" => r \in asked
    /\ \A s \in Spotlights : Started(s) => told[s] > 0 \/ Owed(s) \/ s \in dropped

SpotlightInvariant ==
    TypeOK /\ VisitShape /\ ToldShape /\ ExpiredShape /\ LostShape /\ AccountedShape
=============================================================================
