------------------------ MODULE VisitFenceRefinement ------------------------
(***************************************************************************)
(* RunAdmission implements VisitFence.  A run's phase is read off the      *)
(* journal, and off the visit once the journal is gone; a row claimed      *)
(* before the journal existed counts as free.                              *)
(***************************************************************************)
EXTENDS RunAdmission

JournaledRuns == Runs \ {Legacy}

holder == IF Running /\ row.active \in JournaledRuns THEN row.active ELSE NoRun

phase ==
  [r \in JournaledRuns |->
     IF journal.run = r THEN IF journal.kind = "active" THEN "open" ELSE "closing"
     ELSE IF At(r, "unborn") THEN "new" ELSE "closed"]

Fence == INSTANCE VisitFence
           WITH Runs <- JournaledRuns, deleted <- bot.deleted

\* Whatever fails, crashes, hangs or arrives late, the object and its row go
\* through the steps of VisitFence and no others.
ImplementsVisitFence == Fence!Spec
=============================================================================
