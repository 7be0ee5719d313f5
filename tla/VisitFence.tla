----------------------------- MODULE VisitFence -----------------------------
(***************************************************************************)
(* What admission promises to the rest of the system, stated without       *)
(* journals, alarms, claim tokens or leases: the participant's row is held *)
(* by at most one run, only between the beginning and the settling of that *)
(* run, and it is freed before the run is settled.  Deleting the           *)
(* participant frees the row at any time, and nothing takes it again.      *)
(***************************************************************************)
CONSTANTS
  Runs,   \* the runs that are begun with a journal
  NoRun   \* the row is free

VARIABLES
  holder,   \* the run that holds the row, or NoRun
  phase,    \* phase[r]: new, open, closing or closed
  deleted   \* the participant is gone

vars == <<holder, phase, deleted>>

Unsettled == {r \in Runs : phase[r] \in {"open", "closing"}}

Init ==
  /\ holder = NoRun
  /\ phase = [r \in Runs |-> "new"]
  /\ deleted = FALSE

Begin(r) ==
  /\ phase[r] = "new" /\ Unsettled = {} /\ ~deleted
  /\ phase' = [phase EXCEPT ![r] = "open"]
  /\ UNCHANGED <<holder, deleted>>

\* The claim may execute late, but never after its run was settled.
Claim(r) ==
  /\ r \in Unsettled /\ holder = NoRun /\ ~deleted
  /\ holder' = r
  /\ UNCHANGED <<phase, deleted>>

Close(r) ==
  /\ phase[r] = "open"
  /\ phase' = [phase EXCEPT ![r] = "closing"]
  /\ UNCHANGED <<holder, deleted>>

Release(r) ==
  /\ phase[r] = "closing" /\ holder = r
  /\ holder' = NoRun
  /\ UNCHANGED <<phase, deleted>>

\* A run that holds nothing is settled: released, or refused while open.
Settle(r) ==
  /\ r \in Unsettled /\ holder # r
  /\ phase' = [phase EXCEPT ![r] = "closed"]
  /\ UNCHANGED <<holder, deleted>>

Delete ==
  /\ holder' = NoRun /\ deleted' = TRUE
  /\ UNCHANGED phase

Next ==
  \/ \E r \in Runs : Begin(r) \/ Claim(r) \/ Close(r) \/ Release(r) \/ Settle(r)
  \/ Delete

Spec == Init /\ [][Next]_vars

TypeOK ==
  /\ holder \in Runs \cup {NoRun}
  /\ phase \in [Runs -> {"new", "open", "closing", "closed"}]
  /\ deleted \in BOOLEAN

\* The row's holder is a run that will still be settled, and it is the only one.
HolderIsUnsettled == holder # NoRun => Unsettled = {holder}
=============================================================================
